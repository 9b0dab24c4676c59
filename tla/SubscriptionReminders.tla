----------------------- MODULE SubscriptionReminders -----------------------
(***************************************************************************)
(* The reminders of one day: generate_reminder_payloads, the marks of the  *)
(* reminder log and the n8n workflow that fetches, sends and marks.        *)
(*                                                                         *)
(* Subscriptions are numbered in the order of expires_at, all of them      *)
(* active, and a warning is due today for each.  What a poll may consider  *)
(* is a page of them; a poll of the workflow sends no cursor.  A tenant's  *)
(* reminder_time is reached at some moment of the day (open).  The key of  *)
(* a reminder is the subscription and the recipient; day and warning are   *)
(* the same for all.                                                       *)
(*                                                                         *)
(* The payloads are generated in one transaction: each log is added to the *)
(* session and flushed in begin_nested().  According to the comment there  *)
(* a duplicate undoes its own log only (Isolated).  SQLAlchemy's           *)
(* begin_nested() flushes what is pending before it sets the savepoint, so *)
(* the duplicate fails outside of it, the transaction is rolled back and   *)
(* nothing that follows in the batch, nor the commit, succeeds             *)
(* (~Isolated).                                                            *)
(***************************************************************************)
EXTENDS Naturals, FiniteSets

CONSTANTS
    N,           \* subscriptions with a warning due today
    PageSize,
    Recipients,
    Runs,        \* executions of the workflow that may overlap
    MaxAttempts, \* 3 in mark_reminder_failed
    Isolated     \* what a savepoint around a duplicate shields

ASSUME ReminderAssumption ==
    /\ N \in Nat \ {0} /\ PageSize \in Nat \ {0} /\ MaxAttempts \in Nat \ {0}
    /\ Isolated \in BOOLEAN /\ Recipients # {}

Subs == 1..N
Keys == Subs \X Recipients

VARIABLES
    open,      \* subscriptions of tenants whose reminder_time has come
    log,       \* status of the reminder log
    attempts,  \* attempt_count
    run,       \* executions: what is left of the batch, the item, the outcome
    sends      \* history: how often a message has gone out, 2 for more

vars == <<open, log, attempts, run, sends>>

Idle == [at |-> "idle", items |-> {}, item |-> <<>>, ok |-> FALSE]

TypeOK ==
    /\ open \subseteq Subs
    /\ log \in [Keys -> {"none", "pending", "sent", "failed"}]
    /\ attempts \in [Keys -> 0..MaxAttempts]
    /\ run \in [Runs -> [at : {"idle", "loop", "send", "mark"}, items : SUBSET Keys,
                         item : Keys \cup {<<>>}, ok : BOOLEAN]]
    /\ sends \in [Keys -> 0..2]

Init ==
    /\ open = {}
    /\ log = [k \in Keys |-> "none"] /\ attempts = [k \in Keys |-> 0]
    /\ run = [r \in Runs |-> Idle]
    /\ sends = [k \in Keys |-> 0]

\* is_reminder_time_ok
Opens(s) ==
    /\ s \notin open
    /\ open' = open \cup {s}
    /\ UNCHANGED <<log, attempts, run, sends>>

-----------------------------------------------------------------------------
(* The backend *)

\* The first page_size subscriptions; no poll carries a cursor.
Page == {s \in Subs : s <= PageSize}

Due == {k \in Keys : k[1] \in Page /\ k[1] \in open}

\* Logs of unfinished reminders are offered again.
NewOrPending ==
    {k \in Due : log[k] \in {"none", "pending"}}

\* One duplicate spoils the batch.
AllOrNothing ==
    IF \A k \in Due : log[k] = "none" THEN Due ELSE {}

\* The logs that can be inserted, and what becomes of the batch otherwise.
NewKeys ==
    LET new == {k \in Due : log[k] = "none"} IN
    IF Isolated \/ new = Due THEN new ELSE {}

generate_reminder_payloads ==
    log' = [k \in Keys |-> IF k \in NewKeys THEN "pending" ELSE log[k]]

mark_reminder_sent(k) ==
    /\ log' = [log EXCEPT ![k] = "sent"]
    /\ UNCHANGED attempts

mark_reminder_failed(k) ==
    /\ attempts' = [attempts EXCEPT ![k] = @ + 1]
    /\ log' = [log EXCEPT ![k] = IF attempts[k] + 1 >= MaxAttempts THEN "failed" ELSE @]

-----------------------------------------------------------------------------
(* The workflow *)

\* Fetch Pending Reminders; the answer may be lost after the commit.
Fetch(r) ==
    /\ run[r].at = "idle" /\ NewKeys # {}
    /\ generate_reminder_payloads
    /\ \/ run' = [run EXCEPT ![r].at = "loop", ![r].items = NewKeys]
       \/ UNCHANGED run
    /\ UNCHANGED <<open, attempts, sends>>

\* SplitInBatches and the wait before each message.
NextItem(r) ==
    /\ run[r].at = "loop"
    /\ \/ /\ run[r].items = {}
          /\ run' = [run EXCEPT ![r] = Idle]
       \/ \E k \in run[r].items :
            run' = [run EXCEPT ![r].at = "send", ![r].item = k,
                               ![r].items = @ \ {k}]
    /\ UNCHANGED <<open, log, attempts, sends>>

\* The message goes out or not, and the answer may be lost either way.
Send(r) ==
    LET k == run[r].item IN
    /\ run[r].at = "send"
    /\ \E gone \in BOOLEAN, ok \in BOOLEAN :
         /\ ok => gone
         /\ run' = [run EXCEPT ![r].at = "mark", ![r].ok = ok]
         /\ sends' = IF gone /\ sends[k] < 2 THEN [sends EXCEPT ![k] = @ + 1]
                                             ELSE sends
    /\ UNCHANGED <<open, log, attempts>>

\* Mark Sent or Mark Failed; the request may be lost and the loop goes on.
Mark(r) ==
    LET k == run[r].item IN
    /\ run[r].at = "mark"
    /\ run' = [run EXCEPT ![r].at = "loop", ![r].item = <<>>, ![r].ok = FALSE]
    /\ \/ IF run[r].ok THEN mark_reminder_sent(k) ELSE mark_reminder_failed(k)
       \/ UNCHANGED <<log, attempts>>
    /\ UNCHANGED <<open, sends>>

\* The execution ends with its batch unfinished.
RunDies(r) ==
    /\ run[r].at # "idle"
    /\ run' = [run EXCEPT ![r] = Idle]
    /\ UNCHANGED <<open, log, attempts, sends>>

Next ==
    \/ \E s \in Subs : Opens(s)
    \/ \E r \in Runs : Fetch(r) \/ NextItem(r) \/ Send(r) \/ Mark(r) \/ RunDies(r)

Spec == Init /\ [][Next]_vars

\* The schedule of the workflow goes on and its nodes finish.
Fairness ==
    \A r \in Runs : WF_vars(Fetch(r)) /\ WF_vars(NextItem(r)) /\ WF_vars(Send(r))
                    /\ WF_vars(Mark(r))

FairSpec == Spec /\ Fairness

-----------------------------------------------------------------------------
(* Properties *)

\* "frequent polling is safe": whichever executions overlap, fail or die, a
\* recipient gets one message for a subscription and a day at most.
AtMostOnce == \A k \in Keys : sends[k] <= 1

\* A log that says sent belongs to a message that has gone out, whichever
\* execution marks it and whatever was lost before.
SentHasGone == \A k \in Keys : log[k] = "sent" => sends[k] > 0

\* "remaining pending logs are picked up by later polls", and a duplicate
\* "rolls back only this log, not the whole batch": a reminder whose time has
\* come is offered.
Offered == \A k \in Keys : k[1] \in open ~> log[k] # "none"

\* "Retries up to 3 attempts before setting permanent failed status."
FailedIsRetried ==
    \A k \in Keys : attempts[k] = 1 ~> attempts[k] > 1 \/ log[k] = "sent"
=============================================================================
