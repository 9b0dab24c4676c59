---------------------------- MODULE RedisFailover ----------------------------
(***************************************************************************)
(* The Redis connection manager (app/core/redis_client) with its primary   *)
(* and backup store, the circuit breaker that chooses between them, and    *)
(* the WhatsApp conversation whose session it keeps.                       *)
(*                                                                         *)
(* One process has one manager and runs on one event loop, so an action is *)
(* what happens between two awaits: the answer or the failure of a store,  *)
(* the bookkeeping after it and the routing of the next operation.  Chat   *)
(* handles the messages of one phone in turn (process_message of the       *)
(* console services); the other callers are any other traffic.  A store    *)
(* that is down fails; a Slow one may fail by timeout with the command     *)
(* applied.  Sessions are told apart by whether a flow is active.          *)
(***************************************************************************)
EXTENDS Naturals

CONSTANTS
    Callers,     \* concurrent callers of execute()
    Chat,        \* the caller that handles the conversation
    Threshold,   \* redis_failover_failure_threshold
    Slow,        \* stores that may time out while they are up
    MaxOutages,  \* bound on outages of each store
    MaxTimeouts  \* bound on timeouts of slow stores

Stores == {"primary", "backup"}

FailoverAssumption ==
    /\ Chat \in Callers
    /\ Threshold \in Nat \ {0}
    /\ Slow \subseteq Stores
    /\ MaxOutages \in Nat /\ MaxTimeouts \in Nat

VARIABLES
    policy,    \* the FailoverPolicy of the manager
    op,        \* where each caller's operation is, and what was last told
    session,   \* the session key in each store
    up,        \* the stores that are reachable
    outages, timeouts,
    cleared    \* history: the conversation was ended and not taken up again

vars == <<policy, op, session, up, outages, timeouts, cleared>>

Sessions == {"none", "idle", "flow"}
Kinds == {"get", "create", "save", "clear", "other"}
Replies == {"none", "flow", "reset", "menu", "done", "unavailable"}
Operations == [at: {"idle", "primary", "probe", "backup"}, kind: Kinds,
               reply: Replies, missed: Stores \cup {"nowhere"}]
Policies == [state: {"closed", "open", "half_open"}, failures: 0..Threshold,
             openedAt: {"unset", "recent", "elapsed"}]

TypeOK ==
    /\ policy \in Policies
    /\ op \in [Callers -> Operations]
    /\ session \in [Stores -> Sessions]
    /\ up \subseteq Stores
    /\ outages \in [Stores -> 0..MaxOutages] /\ timeouts \in 0..MaxTimeouts
    /\ cleared \in BOOLEAN

Init ==
    /\ policy = [state |-> "closed", failures |-> 0, openedAt |-> "unset"]
    /\ op = [c \in Callers |-> [at |-> "idle", kind |-> "other",
                                reply |-> "none", missed |-> "nowhere"]]
    /\ session = [s \in Stores |-> "none"]
    /\ up = Stores
    /\ outages = [s \in Stores |-> 0] /\ timeouts = 0
    /\ cleared = FALSE

-----------------------------------------------------------------------------
(* FailoverPolicy *)

\* The elapsed window is never consulted.
CheckedNever(p) == p

Checked(p) ==
    IF p.state = "open" /\ p.openedAt = "elapsed"
      THEN [p EXCEPT !.state = "half_open", !.openedAt = "unset"]
      ELSE p

ShouldUseBackup(p) == p.state = "open"

\* A success clears the time of opening whatever the state.
SuccessUntimed(p) ==
    [p EXCEPT !.failures = 0, !.openedAt = "unset",
              !.state = IF @ = "half_open" THEN "closed" ELSE @]

Success(p) ==
    IF p.state = "half_open"
      THEN [state |-> "closed", failures |-> 0, openedAt |-> "unset"]
      ELSE [p EXCEPT !.failures = 0]

\* The count is compared with Threshold only in "closed", which is entered
\* with a count of 0, so it need not be told apart above Threshold.
Counted(p) ==
    [p EXCEPT !.failures = IF @ < Threshold THEN @ + 1 ELSE Threshold]

Opened(p) == [p EXCEPT !.state = "open", !.openedAt = "recent"]

Failure(p) ==
    IF \/ p.state = "closed" /\ Counted(p).failures >= Threshold
       \/ p.state = "half_open"
      THEN Opened(Counted(p))
      ELSE Counted(p)

-----------------------------------------------------------------------------
(* RedisConnectionManager.execute *)

Route(p) ==
    CASE p.state = "closed" -> "primary"
      [] p.state = "open" -> "backup"
      [] p.state = "half_open" -> "probe"

\* Caller c starts an operation when the policy is p.
Execute(c, kind, reply, missed, p) ==
    /\ policy' = Checked(p)
    /\ op' = [op EXCEPT ![c] = [at |-> Route(Checked(p)), kind |-> kind,
                                reply |-> reply, missed |-> missed]]
    /\ cleared' = (cleared /\ kind \notin {"create", "save"})

Finish(c, reply, p) ==
    /\ policy' = p
    /\ op' = [op EXCEPT ![c].at = "idle", ![c].reply = reply]
    /\ cleared' = (cleared \/ (op[c].kind = "clear" /\ reply = "menu"))

Applied(kind, value) ==
    CASE kind = "create" -> "idle"
      [] kind = "save" -> "flow"
      [] kind = "clear" -> "none"
      [] OTHER -> value

-----------------------------------------------------------------------------
(* process_message: what follows once the session has been read *)

Continue(c, store, value, p) ==
    \/ /\ value = "flow"
       /\ \/ Execute(c, "save", "flow", "nowhere", p)    \* the next step
          \/ Execute(c, "clear", "flow", "nowhere", p)   \* cancelled
          \/ Finish(c, "flow", p)                        \* help
    \/ /\ value # "flow"
       /\ Execute(c, "clear", "none", "nowhere", p)      \* a reset command
    \/ /\ value = "none" /\ ShouldUseBackup(p)
       /\ Execute(c, "create", "reset", store, p)
    \/ /\ value # "flow" /\ ~(value = "none" /\ ShouldUseBackup(p))
       /\ \/ Execute(c, "save", "none", "nowhere", p)    \* a flow starts
          \/ Finish(c, "menu", p)

AfterAnswer(c, store, p) ==
    CASE op[c].kind = "get" -> Continue(c, store, session[store], p)
      [] op[c].kind = "create" -> Finish(c, "reset", p)
      [] op[c].kind = "clear" -> Finish(c, "menu", p)
      [] OTHER -> Finish(c, "done", p)

Apply(c, store) ==
    session' = [session EXCEPT ![store] = Applied(op[c].kind, @)]

-----------------------------------------------------------------------------
(* Answers and failures of the stores *)

Start(c) ==
    /\ op[c].at = "idle"
    /\ Execute(c, IF c = Chat THEN "get" ELSE "other", "none", "nowhere", policy)
    /\ UNCHANGED <<session, up, outages, timeouts>>

PrimaryAnswers(c) ==
    /\ op[c].at \in {"primary", "probe"}
    /\ "primary" \in up
    /\ Apply(c, "primary")
    /\ AfterAnswer(c, "primary", Success(policy))
    /\ UNCHANGED <<up, outages, timeouts>>

BackupAnswers(c) ==
    /\ op[c].at = "backup"
    /\ "backup" \in up
    /\ Apply(c, "backup")
    /\ AfterAnswer(c, "backup", policy)
    /\ UNCHANGED <<up, outages, timeouts>>

\* A store fails because it is down, or slow: then the command may have run.
Fails(c, store) ==
    \/ /\ store \notin up
       /\ UNCHANGED <<session, timeouts>>
    \/ /\ store \in up \cap Slow
       /\ timeouts < MaxTimeouts
       /\ timeouts' = timeouts + 1
       /\ Apply(c, store) \/ UNCHANGED session

\* A failed probe is not repeated on the backup.
FallsBackOpenOnly(c, p) == p.state = "open" /\ op[c].at = "primary"

FallsBack(c, p) == op[c].at = "probe" \/ p.state = "open"

PrimaryFails(c) ==
    /\ op[c].at \in {"primary", "probe"}
    /\ Fails(c, "primary")
    /\ LET p == Failure(policy) IN
         IF FallsBack(c, p)
           THEN /\ policy' = p
                /\ op' = [op EXCEPT ![c].at = "backup"]
                /\ UNCHANGED cleared
           ELSE Finish(c, "unavailable", p)
    /\ UNCHANGED <<up, outages>>

BackupFails(c) ==
    /\ op[c].at = "backup"
    /\ Fails(c, "backup")
    /\ Finish(c, "unavailable", policy)
    /\ UNCHANGED <<up, outages>>

-----------------------------------------------------------------------------
(* Time and the stores *)

WindowElapses ==
    /\ policy.openedAt = "recent"
    /\ policy' = [policy EXCEPT !.openedAt = "elapsed"]
    /\ UNCHANGED <<op, session, up, outages, timeouts, cleared>>

SessionExpires(s) ==
    /\ session[s] # "none"
    /\ session' = [session EXCEPT ![s] = "none"]
    /\ UNCHANGED <<policy, op, up, outages, timeouts, cleared>>

GoesDown(s) ==
    /\ s \in up /\ outages[s] < MaxOutages
    /\ up' = up \ {s}
    /\ outages' = [outages EXCEPT ![s] = @ + 1]
    /\ UNCHANGED <<policy, op, session, timeouts, cleared>>

ComesBack(s) ==
    /\ s \notin up
    /\ up' = up \cup {s}
    /\ UNCHANGED <<policy, op, session, outages, timeouts, cleared>>

Answers(c) ==
    PrimaryAnswers(c) \/ PrimaryFails(c) \/ BackupAnswers(c) \/ BackupFails(c)

Next ==
    \/ \E c \in Callers :
          \/ Start(c)
          \/ PrimaryAnswers(c) \/ PrimaryFails(c)
          \/ BackupAnswers(c) \/ BackupFails(c)
    \/ \E s \in Stores : SessionExpires(s) \/ GoesDown(s) \/ ComesBack(s)
    \/ WindowElapses

Spec == Init /\ [][Next]_vars

\* Socket timeouts end every operation, traffic goes on and time passes.
\* Whether a store that is down comes back is left open.
Fairness ==
    /\ \A c \in Callers : WF_vars(Answers(c)) /\ WF_vars(Start(c))
    /\ WF_vars(WindowElapses)

FairSpec == Spec /\ Fairness

-----------------------------------------------------------------------------
(* Properties *)

\* The breaker is open exactly while the time of its opening is known,
\* whatever answers arrive late: an open breaker without one would never
\* probe the primary again (_check_open_window).
OpenIsTimed == policy.state = "open" <=> policy.openedAt # "unset"

\* A closed breaker has failures to spare, also right after a probe has
\* closed it: a single failure after a recovery does not open it again
\* unless the threshold is 1 (record_success, record_failure).
ClosedBelowThreshold == policy.state = "closed" => policy.failures < Threshold

Refused(c) ==
    op[c].at # "idle" /\ op'[c].at = "idle" /\ op'[c].reply = "unavailable"

Covered == "backup" \notin up \/ policy'.state = "closed"
Shielded == \A c \in Callers : Refused(c) => Covered

\* Once the breaker has left "closed", an operation is refused only if the
\* backup is down, be it a failed probe or an operation that was sent to the
\* primary before (_execute_primary, _execute_half_open).
FailoverShields == [][Shielded]_vars

\* When the primary is back for good, so is the breaker: traffic returns to
\* the primary and stays there.
PrimaryResumes == <>[]("primary" \in up) => <>[](policy.state = "closed")

\* Every operation ends, whichever stores are down for good.
OperationsEnd == \A c \in Callers : op[c].at # "idle" ~> op[c].at = "idle"

\* "TEMPORARY_UNAVAILABLE - Both Redis stores unreachable"
\* (docs/architecture/redis-ha.md).
UnavailableMeansBoth ==
    [][\A c \in Callers :
         op'[c].reply = "unavailable" /\ op[c].reply # "unavailable"
            => up = {}]_vars

\* "SESSION_RESET - Cache miss on backup during failover"
\* (docs/architecture/redis-ha.md): a conversation is reset because the backup
\* has no session, never because the primary has none.
ResetIsBackupMiss == op[Chat].reply = "reset" => op[Chat].missed = "backup"

\* A conversation that was ended has no session ("Delete the session for
\* *phone* (if any)", clear_session): no later message is handled by its flow.
ClearedIsGone == cleared => op[Chat].reply # "flow"
=============================================================================
