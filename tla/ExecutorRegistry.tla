-------------------------- MODULE ExecutorRegistry --------------------------
(***************************************************************************)
(* The registry of one lookup executor: the Master's requests on its row   *)
(* (api/v1/endpoints/lookup_executors.py, lookup_executor_registry.py) and *)
(* the dispatches that read and write the same row.                        *)
(*                                                                         *)
(* A request loads the row, waits (for Redis, or for the executor that it  *)
(* challenges) and then writes what it changed: the ORM updates only the   *)
(* columns whose value differs from the loaded one (Flush).  Requests of   *)
(* several callers and a dispatch may be under way together.  Secrets are  *)
(* numbered in the order of their issue; Deploy is the operator who puts   *)
(* one at a destination.  An executor answers to the key versions in       *)
(* KeyVersions; the worker of this repository has {1}.                     *)
(***************************************************************************)
EXTENDS Naturals, FiniteSets

CONSTANTS
    Callers,       \* requests of the Master that may be under way together
    Urls,          \* base_url together with transport_mode
    Offered,       \* kinds of requests the Master makes
    KeyVersions,   \* versions the executor accepts and answers with
    MaxSecrets     \* bound on secrets issued

ASSUME RegistryAssumption ==
    /\ Urls # {} /\ Callers # {}
    /\ Offered \subseteq {"update", "verify", "test", "enable", "disable",
                          "rotate", "delete"}
    /\ KeyVersions \subseteq Nat
    /\ MaxSecrets \in Nat \ {0}

VARIABLES
    row,       \* the columns of the executor
    deleted,   \* the row has been deleted
    issued,    \* number of secrets issued
    deployed,  \* the secret each destination was configured with, 0 for none
    request,   \* what each caller's request is doing, and the row it loaded
    dispatch,  \* the dispatch under way, and the row it loaded
    lease,     \* an execution lease is held in Redis
    busy,      \* a job is processing at the executor
    passed     \* history: <<destination, secret>> of successful verifications

vars == <<row, deleted, issued, deployed, request, dispatch, lease, busy, passed>>

Secrets == 0..MaxSecrets
Versions == 0..MaxSecrets
Rows == [url: Urls, lifecycle: {"draft", "active", "disabled"},
         health: {"unknown", "healthy", "bad"},
         requires: BOOLEAN, verified: BOOLEAN,
         secret: Secrets, version: Versions,
         pending: Secrets, pendingVersion: Versions]

TypeOK ==
    /\ row \in Rows
    /\ deleted \in BOOLEAN /\ lease \in BOOLEAN /\ busy \in BOOLEAN
    /\ issued \in 1..MaxSecrets
    /\ deployed \in [Urls -> Secrets]
    /\ request \in [Callers -> [kind: {"none", "update", "verify", "test",
                                       "enable", "disable", "rotate",
                                       "delete", "deleting"},
                                loaded: Rows, busy: BOOLEAN]]
    /\ dispatch \in [on: BOOLEAN, loaded: Rows]
    /\ passed \subseteq (Urls \X Secrets)

Draft(u) ==
    [url |-> u, lifecycle |-> "draft", health |-> "unknown",
     requires |-> FALSE, verified |-> FALSE,
     secret |-> 1, version |-> 1, pending |-> 0, pendingVersion |-> 0]

\* Nothing is remembered of a request or a dispatch that has ended.
Blank == Draft(CHOOSE u \in Urls : TRUE)
NoRequest == [kind |-> "none", loaded |-> Blank, busy |-> FALSE]
NoDispatch == [on |-> FALSE, loaded |-> Blank]

Init ==
    \E u \in Urls :
        /\ row = Draft(u)
        /\ deleted = FALSE /\ issued = 1
        /\ deployed = [v \in Urls |-> 0]
        /\ request = [c \in Callers |-> NoRequest] /\ dispatch = NoDispatch
        /\ lease = FALSE /\ busy = FALSE
        /\ passed = {}

-----------------------------------------------------------------------------
(* Columns and challenges *)

\* The row after a session that loaded one row and now holds another is
\* flushed.  A new timestamp always differs, so "fresh" columns are written.
Flush(loaded, new, fresh) ==
    row' = [f \in DOMAIN row |->
              IF new[f] # loaded[f] \/ f \in fresh THEN new[f] ELSE row[f]]

Done(c) == request' = [request EXCEPT ![c] = NoRequest]

\* Each handler continues from the row its request has loaded.
Loaded(c, kind) == request[c].kind = kind /\ ~deleted
L(c) == request[c].loaded

\* The executor at the destination of r accepts this key and signs with it.
Accepts(r, secret, version) ==
    deployed[r.url] = secret /\ version \in KeyVersions

Quarantined(r) ==
    [r EXCEPT !.health = "bad", !.requires = TRUE, !.verified = FALSE]

\* The candidate promoted is the one the row has by now.
PromotedLatest(r) ==
    [r EXCEPT !.secret = row.pending, !.version = row.pendingVersion,
              !.pending = 0, !.pendingVersion = 0, !.requires = FALSE]

Promoted(r) ==
    [r EXCEPT !.secret = r.pending, !.version = r.pendingVersion,
              !.pending = 0, !.pendingVersion = 0, !.requires = FALSE]

-----------------------------------------------------------------------------
(* Requests of the Master *)

\* _get_executor, with the count of jobs of the same query.
Load(c, kind) ==
    /\ request[c].kind = "none" /\ ~deleted
    /\ kind = "rotate" => issued < MaxSecrets
    /\ request' = [request EXCEPT ![c] = [kind |-> kind, loaded |-> row,
                                          busy |-> busy]]
    /\ UNCHANGED <<row, deleted, issued, deployed, dispatch, lease, busy, passed>>

\* The row went away: the UPDATE matches nothing and the request fails.
Gone(c) ==
    /\ request[c].kind # "none" /\ deleted
    /\ Done(c)
    /\ UNCHANGED <<row, deleted, issued, deployed, dispatch, lease, busy, passed>>

\* The new destination is not held to be unverified.
MovedKeepingTrust(r, u) == [r EXCEPT !.url = u, !.health = "unknown"]

Moved(r, u) ==
    [r EXCEPT !.url = u, !.requires = TRUE, !.verified = FALSE,
              !.health = "unknown",
              !.lifecycle = IF @ = "active" THEN "disabled" ELSE @]

update_lookup_executor(c) ==
    /\ Loaded(c, "update")
    /\ \E u \in Urls :
         Flush(L(c), IF u # L(c).url THEN Moved(L(c), u) ELSE L(c), {})
    /\ Done(c)
    /\ UNCHANGED <<deleted, issued, deployed, dispatch, lease, busy, passed>>

\* The key that a verification challenges.
Key(r) ==
    IF r.pending # 0 THEN [secret |-> r.pending, version |-> r.pendingVersion]
                     ELSE [secret |-> r.secret, version |-> r.version]

verify_passes(c) ==
    /\ Loaded(c, "verify")
    /\ Accepts(L(c), Key(L(c)).secret, Key(L(c)).version)
    /\ LET r == IF L(c).pending # 0 THEN Promoted(L(c))
                                    ELSE [L(c) EXCEPT !.requires = FALSE]
       IN  Flush(L(c), [r EXCEPT !.verified = TRUE, !.lifecycle = "active",
                                 !.health = "healthy"], {"verified"})
    /\ passed' = passed \cup {<<L(c).url, Key(L(c)).secret>>}
    /\ Done(c)
    /\ UNCHANGED <<deleted, issued, deployed, dispatch, lease, busy>>

\* The challenge is refused, or lost on the way.
challenge_fails(c) ==
    /\ Loaded(c, "verify") \/ Loaded(c, "test")
    /\ Flush(L(c), Quarantined(L(c)), {})
    /\ Done(c)
    /\ UNCHANGED <<deleted, issued, deployed, dispatch, lease, busy, passed>>

test_passes(c) ==
    /\ Loaded(c, "test")
    /\ Accepts(L(c), L(c).secret, L(c).version)
    /\ Flush(L(c), [L(c) EXCEPT !.health = "healthy"], {})
    /\ Done(c)
    /\ UNCHANGED <<deleted, issued, deployed, dispatch, lease, busy, passed>>

\* The flag alone is taken for a proof of verification.
MayEnableUnverified(r) == ~r.requires /\ r.health = "healthy"

MayEnable(r) == ~r.requires /\ r.health = "healthy" /\ r.verified

enable(c) ==
    /\ Loaded(c, "enable")
    /\ Flush(L(c), IF MayEnable(L(c)) THEN [L(c) EXCEPT !.lifecycle = "active"]
                                      ELSE L(c), {})
    /\ Done(c)
    /\ UNCHANGED <<deleted, issued, deployed, dispatch, lease, busy, passed>>

disable(c) ==
    /\ Loaded(c, "disable")
    /\ Flush(L(c), [L(c) EXCEPT !.lifecycle = "disabled"], {})
    /\ Done(c)
    /\ UNCHANGED <<deleted, issued, deployed, dispatch, lease, busy, passed>>

rotate_secret(c) ==
    /\ Loaded(c, "rotate")
    /\ issued < MaxSecrets
    /\ issued' = issued + 1
    /\ Flush(L(c), [L(c) EXCEPT !.pending = issued + 1,
                                !.pendingVersion = L(c).version + 1], {})
    /\ Done(c)
    /\ UNCHANGED <<deleted, deployed, dispatch, lease, busy, passed>>

\* The leases are counted after the row and its jobs.
count_leases(c) ==
    /\ Loaded(c, "delete")
    /\ IF request[c].busy \/ lease
         THEN Done(c)
         ELSE request' = [request EXCEPT ![c].kind = "deleting"]
    /\ UNCHANGED <<row, deleted, issued, deployed, dispatch, lease, busy, passed>>

\* The jobs of a deleted executor lose their executor_id (SET NULL).
delete_executor(c) ==
    /\ Loaded(c, "deleting")
    /\ deleted' = TRUE
    /\ Done(c)
    /\ UNCHANGED <<row, issued, deployed, dispatch, lease, busy, passed>>

-----------------------------------------------------------------------------
(* Dispatches, as far as they concern the row *)

Dispatchable(r) == r.lifecycle = "active" /\ ~r.requires

\* _select_executor and reserve_lease.
SelectExecutor ==
    /\ ~dispatch.on /\ ~deleted
    /\ Dispatchable(row)
    /\ ~lease /\ ~busy
    /\ dispatch' = [on |-> TRUE, loaded |-> row]
    /\ lease' = TRUE
    /\ UNCHANGED <<row, deleted, issued, deployed, request, busy, passed>>

HandoffAccepted ==
    /\ dispatch.on /\ ~deleted
    /\ Accepts(dispatch.loaded, dispatch.loaded.secret, dispatch.loaded.version)
    /\ Flush(dispatch.loaded, [dispatch.loaded EXCEPT !.health = "healthy"], {})
    /\ busy' = TRUE
    /\ dispatch' = NoDispatch
    /\ UNCHANGED <<deleted, issued, deployed, request, lease, passed>>

\* The executor does not accept the key, or its answer is not signed with it.
HandoffInsecure ==
    /\ dispatch.on /\ ~deleted
    /\ ~Accepts(dispatch.loaded, dispatch.loaded.secret, dispatch.loaded.version)
    /\ Flush(dispatch.loaded,
             [dispatch.loaded EXCEPT !.health = "bad", !.requires = TRUE], {})
    /\ lease' = FALSE
    /\ dispatch' = NoDispatch
    /\ UNCHANGED <<deleted, issued, deployed, request, busy, passed>>

HandoffLost ==
    /\ dispatch.on /\ ~deleted
    /\ Flush(dispatch.loaded, [dispatch.loaded EXCEPT !.health = "bad"], {})
    /\ lease' = FALSE
    /\ dispatch' = NoDispatch
    /\ UNCHANGED <<deleted, issued, deployed, request, busy, passed>>

\* The executor is busy, the mailbox has no credential, the job was settled
\* meanwhile, or the dispatch raised (as it does when the row has gone).
HandoffDropped ==
    /\ dispatch.on
    /\ lease' = FALSE
    /\ dispatch' = NoDispatch
    /\ UNCHANGED <<row, deleted, issued, deployed, request, busy, passed>>

\* The callback of the executor, or reconciliation.
JobEnds ==
    /\ busy
    /\ busy' = FALSE /\ lease' = FALSE
    /\ UNCHANGED <<row, deleted, issued, deployed, request, dispatch, passed>>

-----------------------------------------------------------------------------

\* The operator configures an issued secret at a destination and restarts it.
Deploy(u, s) ==
    /\ s \in 1..issued /\ deployed[u] # s
    /\ deployed' = [deployed EXCEPT ![u] = s]
    /\ UNCHANGED <<row, deleted, issued, request, dispatch, lease, busy, passed>>

Handle(c) ==
    \/ Gone(c)
    \/ update_lookup_executor(c)
    \/ verify_passes(c) \/ challenge_fails(c) \/ test_passes(c)
    \/ enable(c) \/ disable(c) \/ rotate_secret(c)
    \/ count_leases(c) \/ delete_executor(c)

Next ==
    \/ \E c \in Callers : Handle(c) \/ \E kind \in Offered : Load(c, kind)
    \/ SelectExecutor \/ HandoffAccepted \/ HandoffInsecure \/ HandoffLost
    \/ HandoffDropped \/ JobEnds
    \/ \E u \in Urls, s \in 1..MaxSecrets : Deploy(u, s)

Spec == Init /\ [][Next]_vars

\* Requests end, the operator keeps verifying, and a challenge that can pass does in the end
\* ("redeploy, run Verify, and confirm promotion").
Fairness ==
    \A c \in Callers : /\ WF_vars(Handle(c))
                       /\ SF_vars(Load(c, "verify"))
                       /\ SF_vars(verify_passes(c))

FairSpec == Spec /\ Fairness

-----------------------------------------------------------------------------
(* Properties *)

\* "Drafts cannot become dispatchable through lifecycle mutation alone"
\* (docs/adr/0008): whatever requests overlap, an active executor has passed
\* a verification at some time.
DraftsStayOut == row.lifecycle = "active" => passed # {}

\* The key in use is the one the executor was enrolled with or has passed a
\* verification, also when it is rotated while a challenge is under way
\* (verify_executor, promote_pending_secret).
SecretProven == row.secret = 1 \/ \E u \in Urls : <<u, row.secret>> \in passed

\* An executor that jobs may be sent to has passed a verification at its
\* present destination with its present key (docs/adr/0008: a change of
\* destination "must not retain dispatch eligibility").
DestinationProven == Dispatchable(row) => <<row.url, row.secret>> \in passed

\* A rotation can be completed: a candidate that is deployed at the
\* destination does not stay a candidate for good ("replace
\* TRACKPAL_EXECUTOR_SECRET in Render, redeploy, run Verify, and confirm
\* promotion", docs/how-to/deploy-lookup-executor-render.md).
RotationCompletes ==
    ~<>[](~deleted /\ row.pending # 0 /\ deployed[row.url] = row.pending)

\* "deletion fails closed while PostgreSQL jobs or Redis Execution Leases are
\* active" (docs/architecture/api-layer.md).
DeletedIdle == [][~deleted /\ deleted' => ~lease /\ ~busy]_vars
=============================================================================
