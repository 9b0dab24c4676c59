------------------------- MODULE LookupCoordinator -------------------------
(***************************************************************************)
(* Execution of mailbox lookup jobs: the row of a job in PostgreSQL, the   *)
(* coordination keys in Redis, the dispatching processes of the backend,   *)
(* the callbacks and the external executors.                               *)
(*                                                                         *)
(* Source: backend/app/services/lookup_execution_coordinator/, the         *)
(* repositories it calls, integrations/mail_lookups.py, mailbox_cleanup.py *)
(* and worker/app/runtime.py.                                              *)
(*                                                                         *)
(* Grain.  One action per stretch of code between two points where another *)
(* request, process or message can change what the code reads next.  A     *)
(* transaction that takes the row lock (SELECT ... FOR UPDATE) and commits *)
(* without looking at the clock in between is one action; complete() reads *)
(* the clock before and commits after, so it is a Begin and a Commit with  *)
(* the row locked between them.  Plain reads ignore row locks, UPDATEs and *)
(* locking reads wait for them.                                            *)
(*                                                                         *)
(* Time is counted in units; Redis drops a key when its TTL has run out,   *)
(* which Tick does.                                                        *)
(***************************************************************************)
EXTENDS Naturals, FiniteSets

CONSTANTS
    Jobs,               \* job ids
    Executors,          \* registered executors
    Procs,              \* backend processes (two overlap in a rolling deploy)
    Codes,              \* deliveries an executor may find (message + fingerprint)
    Slots,              \* max_concurrency of every executor
    Budget,             \* mailbox_lookup_response_budget_seconds
    LeaseTtl,           \* lookup_execution_lease_seconds
    LockTtl,            \* lookup_executor_handoff_timeout_seconds, TTL of the lock
    JobTtl,             \* mailbox_lookup_job_ttl_minutes
    CooldownTtl,        \* lookup_executor_failure_cooldown_seconds
    FailureThreshold,   \* consecutive failures that open the cooldown
    NoJob, NoExec, NoCode,
    MaxTime,            \* bound: last instant explored
    LastCreate,         \* bound: last instant a job is created
    MaxLease,           \* bound: leases granted
    MaxFaults           \* bound: crashes, losses and failures

ASSUME ConstantsAssumption ==
    /\ NoJob \notin Jobs /\ NoExec \notin Executors /\ NoCode \notin Codes
    /\ Codes \cap {"none", "not_found", "duplicate_suppressed", "retryable",
                   "terminal", "timeout", "unasked", "open", "forgotten",
                   "empty", "unsuccessful"} = {}
    /\ Slots \in Nat \ {0} /\ FailureThreshold \in Nat \ {0}
    /\ LockTtl \in Nat \ {0} /\ CooldownTtl \in Nat \ {0}
    /\ Budget \in Nat \ {0} /\ LeaseTtl \in Nat \ {0} /\ JobTtl \in Nat
    /\ MaxTime \in Nat /\ LastCreate \in Nat /\ MaxLease \in Nat /\ MaxFaults \in Nat

\* The configuration orders the time limits this way (core/config.py); what
\* follows only needs that an answer in time is an answer within retention.
ASSUME BudgetAssumption == Budget <= JobTtl

VARIABLES
    now, faults,
    \* PostgreSQL
    status,       \* mail_lookup_jobs.status, "none" before, "deleted" after
    requested,    \* requested_at
    assigned,     \* executor_id
    answer,       \* result_type; a found value stands for its delivery key
    log,          \* mail_code_delivery_log, with the job it was inserted for
    quarantined,  \* executors with requires_reverification
    \* Redis
    queue,        \* queued job ids; their order is the business of LookupPump
    lock,         \* dispatch locks: the instant each expires, 0 when free
    lease,        \* leases; the executor's capacity markers are the same leases
    result,       \* ephemeral results
    cooldown,     \* failure cooldowns: the instant each expires, 0 when none
    \* backend processes
    nextLease,    \* the lease ids below it have been drawn (uuid4)
    disp,         \* the _dispatch in progress of each process
    failures,     \* _consecutive_failures of each process
    sweep,        \* rows a cleanup pass has selected and not yet written
    applying,     \* the open transaction of complete() on each row
    posts,        \* what a request still has to do in Redis, the database done
    \* executors and the network
    runs,         \* accepted executions (ExecutorRuntime._active)
    handoffs,     \* handoff requests in flight
    callbacks     \* signed callbacks in flight

clock == <<now, faults>>
db == <<status, requested, assigned, answer, log, quarantined>>
redis == <<queue, lock, lease, result, cooldown>>
back == <<nextLease, disp, failures, sweep, applying, posts>>
net == <<runs, handoffs, callbacks>>
vars == <<clock, db, redis, back, net>>

----------------------------------------------------------------------------
(* Types *)

Open == {"pending", "processing"}
Terminal == {"completed", "failed", "timeout"}
Statuses == {"none", "deleted"} \cup Open \cup Terminal
Outcomes == {"not_found", "retryable", "terminal"} \cup Codes
Verdicts == {"timeout", "duplicate_suppressed"} \cup Outcomes
Answers == {"none", "not_found", "duplicate_suppressed"} \cup Codes

Lease == [id : Nat, exec : Executors \cup {NoExec}, end : Nat]
NoLease == [id |-> 0, exec |-> NoExec, end |-> 0]

\* What _map_handoff_response makes of an executor's answer; a 409 for another
\* lease is a protocol error ("conflict").
HandoffAnswers == {"accepted", "duplicate", "conflict", "busy"}

Dispatch == [pc : {"idle", "read", "expire", "select", "reserve", "send",
                   "await", "unlock"},
             job : Jobs \cup {NoJob}, exec : Executors \cup {NoExec},
             lease : Nat,
             reply : {"none"} \cup HandoffAnswers]
Idle == [pc |-> "idle", job |-> NoJob, exec |-> NoExec, lease |-> 0,
         reply |-> "none"]

Txn == [exec : Executors \cup {NoExec}, lease : Nat,
        verdict : {"none"} \cup Verdicts]
NoTxn == [exec |-> NoExec, lease |-> 0, verdict |-> "none"]

Post == [job : Jobs, lease : Nat, then : {"schedule", "requeue", "release"}]
Run == [exec : Executors, job : Jobs, lease : Nat, phase : {"running", "reported"}]
Handoff == [exec : Executors, job : Jobs, lease : Nat]
Callback == [exec : Executors, job : Jobs, lease : Nat, outcome : Outcomes]

Init ==
    /\ now = 0 /\ faults = 0
    /\ status = [j \in Jobs |-> "none"]
    /\ requested = [j \in Jobs |-> 0]
    /\ assigned = [j \in Jobs |-> NoExec]
    /\ answer = [j \in Jobs |-> "none"]
    /\ log = {} /\ quarantined = {}
    /\ queue = {} /\ lock = [j \in Jobs |-> 0]
    /\ lease = [j \in Jobs |-> NoLease]
    /\ result = [j \in Jobs |-> NoCode]
    /\ cooldown = [e \in Executors |-> 0]
    /\ nextLease = 1
    /\ disp = [p \in Procs |-> Idle]
    /\ failures = [p \in Procs |-> [e \in Executors |-> 0]]
    /\ sweep = [p \in Procs |-> {}]
    /\ applying = [j \in Jobs |-> NoTxn] /\ posts = {}
    /\ runs = {} /\ handoffs = {} /\ callbacks = {}

----------------------------------------------------------------------------
(* What the code asks of the state *)

\* lookup_response_deadline_expired: the interactive budget is used up.
Spent(j) == now >= requested[j] + Budget
\* The retention of the row (expires_at) has passed.
Expired(j) == now >= requested[j] + JobTtl
\* Mutant of Doomed: rows go as soon as they expire.
DoomedOnExpiry(j) == status[j] \notin {"none", "deleted"} /\ now >= requested[j] + JobTtl
\* The retention has passed twice over: delete_expired_jobs removes the row.
Doomed(j) == status[j] \notin {"none", "deleted"} /\ now >= requested[j] + 2 * JobTtl
\* No transaction of complete() holds the row.
Unlocked(j) == applying[j].verdict = "none"
\* active_count: unexpired leases of an executor.
ActiveCount(e) == Cardinality({j \in Jobs : lease[j].exec = e})
\* select_executor over list_dispatchable; LookupSelector has the ranking.
\* The counts of a selection are read one by one, so a ranking of the counts
\* of one instant would be wrong here: any executor with room may come first.
Eligible(e) == /\ e \notin quarantined
               /\ cooldown[e] = 0
               /\ ActiveCount(e) < Slots

\* release_lease(job_id): by job, whatever lease it is.
ReleaseLease(j) == [lease EXCEPT ![j] = NoLease]
\* The end of _dispatch: the finally clause still has to drop the lock.
ToUnlock(p) == [disp EXCEPT ![p] = [Idle EXCEPT !.pc = "unlock", !.job = disp[p].job]]

\* _handle_transport_failure: count it, open the cooldown at the threshold.
CountFailure(p, e) ==
    LET n == IF failures[p][e] < FailureThreshold THEN failures[p][e] + 1
                                                  ELSE FailureThreshold
    IN  /\ failures' = [failures EXCEPT ![p][e] = n]
        /\ cooldown' = IF n >= FailureThreshold
                       THEN [cooldown EXCEPT ![e] = now + CooldownTtl]
                       ELSE cooldown

Fault == faults < MaxFaults /\ faults' = faults + 1

----------------------------------------------------------------------------
(* Requests of n8n and of the console *)

\* create_lookup: the row is committed, scheduling it comes after.
Create(j) ==
    /\ status[j] = "none" /\ now <= LastCreate
    /\ status' = [status EXCEPT ![j] = "pending"]
    /\ requested' = [requested EXCEPT ![j] = now]
    /\ posts' = posts \cup {[job |-> j, lease |-> 0, then |-> "schedule"]}
    /\ UNCHANGED <<clock, assigned, answer, log, quarantined, redis, nextLease,
                   disp, failures, sweep, applying, net>>

\* get_lookup_status of a job whose budget is spent: rechecked under the row
\* lock, timed out, its capacity released.
PollTimeout(j) ==
    /\ status[j] \in Open /\ Spent(j) /\ Unlocked(j)
    /\ status' = [status EXCEPT ![j] = "timeout"]
    /\ lease' = ReleaseLease(j)
    /\ UNCHANGED <<clock, requested, assigned, answer, log, quarantined, queue,
                   lock, result, cooldown, back, net>>

\* get_lookup_status of a pending job still in its budget: the row is read, and
\* scheduled again afterwards, whatever has become of it.
PollReschedule(j) ==
    LET q == [job |-> j, lease |-> 0, then |-> "schedule"] IN
    /\ status[j] = "pending" /\ ~Spent(j) /\ ~Expired(j)
    /\ q \notin posts
    /\ posts' = posts \cup {q}
    /\ UNCHANGED <<clock, db, redis, nextLease, disp, failures, sweep, applying, net>>

\* cancel_active_job_if_present.  The remote cancel of the console releases the
\* lease; a restarted codigo flow and a blocked phone leave it to its TTL.
Cancel(j, release) ==
    /\ status[j] \in Open /\ Unlocked(j)
    /\ status' = [status EXCEPT ![j] = "failed"]
    /\ lease' = IF release THEN ReleaseLease(j) ELSE lease
    /\ UNCHANGED <<clock, requested, assigned, answer, log, quarantined, queue,
                   lock, result, cooldown, back, net>>

\* What is left in Redis to create_lookup, get_lookup_status and complete().
AfterCommit(q) ==
    /\ q \in posts
    /\ posts' = posts \ {q}
    /\ lease' = IF q.then = "schedule" THEN lease ELSE ReleaseLease(q.job)
    /\ queue' = IF q.then = "schedule" \/ (q.then = "requeue" /\ ~Expired(q.job))
                THEN queue \cup {q.job} ELSE queue
    /\ UNCHANGED <<clock, db, lock, result, cooldown, nextLease, disp, failures,
                   sweep, applying, net>>

----------------------------------------------------------------------------
(* _dispatch *)

\* pop, then acquire_dispatch_lock.  A job whose lock is held is dropped.
Pop(p, j) ==
    /\ disp[p].pc = "idle" /\ j \in queue
    /\ queue' = queue \ {j}
    /\ IF lock[j] # 0
       THEN UNCHANGED <<lock, disp>>
       ELSE /\ lock' = [lock EXCEPT ![j] = now + LockTtl]
            /\ disp' = [disp EXCEPT ![p] = [Idle EXCEPT !.pc = "read", !.job = j]]
    /\ UNCHANGED <<clock, db, lease, result, cooldown, nextLease, failures, sweep,
                   applying, posts, net>>

\* get_job without a lock.
ReadJob(p) ==
    LET j == disp[p].job IN
    /\ disp[p].pc = "read"
    /\ disp' = CASE status[j] # "pending" -> ToUnlock(p)
                 [] status[j] = "pending" /\ Spent(j) ->
                        [disp EXCEPT ![p].pc = "expire"]
                 [] OTHER -> [disp EXCEPT ![p].pc = "select"]
    /\ UNCHANGED <<clock, db, redis, nextLease, failures, sweep, applying, posts,
                   net>>

\* The deadline passed in the queue: the row read before is written as timeout.
\* The UPDATE waits for a row lock and then wins; a deleted row makes it raise.
ExpireJob(p) ==
    LET j == disp[p].job IN
    /\ disp[p].pc = "expire" /\ Unlocked(j)
    /\ status' = IF status[j] = "deleted" THEN status
                 ELSE [status EXCEPT ![j] = "timeout"]
    /\ disp' = ToUnlock(p)
    /\ UNCHANGED <<clock, requested, assigned, answer, log, quarantined, redis,
                   nextLease, failures, sweep, applying, posts, net>>

\* _select_executor found one.
SelectExecutor(p, e) ==
    /\ disp[p].pc = "select" /\ Eligible(e)
    /\ disp' = [disp EXCEPT ![p].pc = "reserve", ![p].exec = e]
    /\ UNCHANGED <<clock, db, redis, nextLease, failures, sweep, applying, posts,
                   net>>

\* Mutant of Requeue: the popped job is not put back.
RequeueForgotten(p) ==
    LET j == disp[p].job IN
    /\ \/ disp[p].pc = "select" /\ \A e \in Executors : ~Eligible(e)
       \/ disp[p].pc = "reserve" /\ lease[j].id # 0
    /\ disp' = ToUnlock(p)
    /\ UNCHANGED <<clock, db, redis, nextLease, failures, sweep, applying, posts,
                   net>>

\* _select_executor found none, or reserve_lease met a lease: requeue.
Requeue(p) ==
    LET j == disp[p].job IN
    /\ \/ disp[p].pc = "select" /\ \A e \in Executors : ~Eligible(e)
       \/ disp[p].pc = "reserve" /\ lease[j].id # 0
    /\ queue' = queue \cup {j}
    /\ disp' = ToUnlock(p)
    /\ UNCHANGED <<clock, db, lock, lease, result, cooldown, nextLease, failures,
                   sweep, applying, posts, net>>

\* reserve_lease: SET NX with the capacity marker.
ReserveLease(p) ==
    LET j == disp[p].job IN
    /\ disp[p].pc = "reserve" /\ lease[j].id = 0 /\ nextLease <= MaxLease
    /\ lease' = [lease EXCEPT ![j] = [id |-> nextLease, exec |-> disp[p].exec,
                                      end |-> now + LeaseTtl]]
    /\ nextLease' = nextLease + 1
    /\ disp' = [disp EXCEPT ![p].pc = "send", ![p].lease = nextLease]
    /\ UNCHANGED <<clock, db, queue, lock, result, cooldown, failures, sweep,
                   applying, posts, net>>

\* _build_envelope, then the POST of the handoff.
SendHandoff(p) ==
    /\ disp[p].pc = "send" /\ ~Spent(disp[p].job)
    /\ handoffs' = handoffs \cup {[exec |-> disp[p].exec, job |-> disp[p].job,
                                   lease |-> disp[p].lease]}
    /\ disp' = [disp EXCEPT ![p].pc = "await"]
    /\ UNCHANGED <<clock, db, redis, nextLease, failures, sweep, applying, posts,
                   runs, callbacks>>

\* _build_envelope raises: the deadline has passed, or (a fault) the mailbox or
\* its credential is gone.  The job is requeued without its lease.
EnvelopeFails(p) ==
    LET j == disp[p].job IN
    /\ disp[p].pc = "send"
    /\ IF Spent(j) THEN UNCHANGED faults ELSE Fault
    /\ lease' = ReleaseLease(j)
    /\ queue' = queue \cup {j}
    /\ disp' = ToUnlock(p)
    /\ UNCHANGED <<now, db, lock, result, cooldown, nextLease, failures, sweep,
                   applying, posts, net>>

----------------------------------------------------------------------------
(* The answer to a handoff, rechecked under the row lock *)

\* The row is no longer pending, or its budget is spent: the answer is moot.
\* Either the executor answered or (a fault) the transport failed.
HandoffMoot(p) ==
    LET j == disp[p].job IN
    /\ disp[p].pc = "await" /\ Unlocked(j)
    /\ IF disp[p].reply = "none" THEN Fault ELSE UNCHANGED faults
    /\ status[j] # "pending" \/ Spent(j)
    /\ status' = IF status[j] = "pending" THEN [status EXCEPT ![j] = "timeout"]
                                          ELSE status
    /\ lease' = ReleaseLease(j)
    /\ disp' = ToUnlock(p)
    /\ UNCHANGED <<now, requested, assigned, answer, log, quarantined, queue,
                   lock, result, cooldown, nextLease, failures, sweep, applying,
                   posts, net>>

\* Mutant of HandoffAccepted: the row is not read again after the handoff.
HandoffAcceptedUnchecked(p) ==
    LET j == disp[p].job
        e == disp[p].exec IN
    /\ disp[p].pc = "await" /\ disp[p].reply \in {"accepted", "duplicate"}
    /\ Unlocked(j) /\ status[j] # "deleted"
    /\ status' = [status EXCEPT ![j] = "processing"]
    /\ assigned' = [assigned EXCEPT ![j] = e]
    /\ failures' = [failures EXCEPT ![p][e] = 0]
    /\ cooldown' = [cooldown EXCEPT ![e] = 0]
    /\ disp' = ToUnlock(p)
    /\ UNCHANGED <<clock, requested, answer, log, quarantined, queue, lock, lease,
                   result, nextLease, sweep, applying, posts, net>>

\* 202, or 409 with this very lease: the executor has it.
HandoffAccepted(p) ==
    LET j == disp[p].job
        e == disp[p].exec IN
    /\ disp[p].pc = "await" /\ disp[p].reply \in {"accepted", "duplicate"}
    /\ Unlocked(j) /\ status[j] = "pending" /\ ~Spent(j)
    /\ status' = [status EXCEPT ![j] = "processing"]
    /\ assigned' = [assigned EXCEPT ![j] = e]
    /\ failures' = [failures EXCEPT ![p][e] = 0]
    /\ cooldown' = [cooldown EXCEPT ![e] = 0]
    /\ disp' = ToUnlock(p)
    /\ UNCHANGED <<clock, requested, answer, log, quarantined, queue, lock, lease,
                   result, nextLease, sweep, applying, posts, net>>

\* 429, or 409 with another lease, or (a fault) an answer that cannot be
\* verified, whatever the executor did.  All but 429 are protocol or security
\* errors and set requires_reverification.
HandoffRefused(p) ==
    LET j == disp[p].job
        e == disp[p].exec IN
    /\ disp[p].pc = "await"
    /\ Unlocked(j) /\ status[j] = "pending" /\ ~Spent(j)
    /\ \/ disp[p].reply = "busy" /\ UNCHANGED <<faults, quarantined>>
       \/ disp[p].reply = "conflict" /\ quarantined' = quarantined \cup {e} /\ UNCHANGED faults
       \/ Fault /\ quarantined' = quarantined \cup {e}
    /\ lease' = ReleaseLease(j)
    /\ queue' = queue \cup {j}
    /\ disp' = ToUnlock(p)
    /\ UNCHANGED <<now, status, requested, assigned, answer, log, lock, result,
                   cooldown, nextLease, failures, sweep, applying, posts, net>>

\* TRANSPORT_ERROR: a connection error or the handoff timeout.  The executor may
\* have accepted, or may still receive the request.
HandoffFails(p) ==
    LET j == disp[p].job IN
    /\ disp[p].pc = "await" /\ Fault
    /\ Unlocked(j) /\ status[j] = "pending" /\ ~Spent(j)
    /\ CountFailure(p, disp[p].exec)
    /\ lease' = ReleaseLease(j)
    /\ queue' = queue \cup {j}
    /\ disp' = ToUnlock(p)
    /\ UNCHANGED <<now, db, lock, result, nextLease, sweep, applying, posts, net>>

\* handoff() itself raises: no recheck, the job is requeued whatever it became.
HandoffRaises(p) ==
    LET j == disp[p].job IN
    /\ disp[p].pc = "await" /\ disp[p].reply = "none" /\ Fault
    /\ CountFailure(p, disp[p].exec)
    /\ lease' = ReleaseLease(j)
    /\ queue' = queue \cup {j}
    /\ disp' = ToUnlock(p)
    /\ UNCHANGED <<now, db, lock, result, nextLease, sweep, applying, posts, net>>

\* Anything else in _dispatch raises (a query, Redis, the commit).  The outer
\* except clause releases the lease, and nothing puts the job back in the queue
\* unless it had been when the commit failed.
DispatchRaises(p) ==
    LET j == disp[p].job
        leased == disp[p].pc \in {"send", "await"} IN
    /\ disp[p].pc \notin {"idle", "unlock"} /\ Fault
    /\ lease' = IF leased THEN ReleaseLease(j) ELSE lease
    /\ queue' \in {queue} \cup {queue \cup {i} : i \in IF leased THEN {j} ELSE {}}
    /\ disp' = ToUnlock(p)
    /\ UNCHANGED <<now, db, lock, result, cooldown, nextLease, failures, sweep,
                   applying, posts, net>>

\* The finally clause: release_dispatch_lock, whoever holds it by now.
Unlock(p) ==
    /\ disp[p].pc = "unlock"
    /\ lock' = [lock EXCEPT ![disp[p].job] = 0]
    /\ disp' = [disp EXCEPT ![p] = Idle]
    /\ UNCHANGED <<clock, db, queue, lease, result, cooldown, nextLease, failures,
                   sweep, applying, posts, net>>

----------------------------------------------------------------------------
(* The executor: ExecutorRuntime.accept, execute and _release *)

Reply(h) ==
    LET mine == {r \in runs : r.exec = h.exec} IN
    IF \E r \in mine : r.job = h.job
    THEN IF \E r \in mine : r.job = h.job /\ r.lease = h.lease
         THEN "duplicate" ELSE "conflict"
    ELSE IF Cardinality(mine) >= Slots THEN "busy" ELSE "accepted"

\* The answer reaches the dispatcher only if it still waits for this lease.
Receive(h) ==
    /\ h \in handoffs
    /\ handoffs' = handoffs \ {h}
    /\ runs' = IF Reply(h) = "accepted"
               THEN runs \cup {[exec |-> h.exec, job |-> h.job, lease |-> h.lease,
                                phase |-> "running"]}
               ELSE runs
    /\ disp' = [p \in Procs |->
                  IF disp[p].pc = "await" /\ disp[p].lease = h.lease
                  THEN [disp[p] EXCEPT !.reply = Reply(h)] ELSE disp[p]]
    /\ UNCHANGED <<clock, db, redis, nextLease, failures, sweep, applying, posts,
                   callbacks>>

\* The pipeline returned; the callback is sent with a nonce of its own.
SendCallback(r, outcome) ==
    /\ r \in runs /\ r.phase = "running"
    /\ runs' = (runs \ {r}) \cup {[r EXCEPT !.phase = "reported"]}
    /\ callbacks' = callbacks \cup {[exec |-> r.exec, job |-> r.job,
                                     lease |-> r.lease, outcome |-> outcome]}
    /\ UNCHANGED <<clock, db, redis, back, handoffs>>

\* The slot is free only when sending has ended, answered or not.
ReleaseSlot(r) ==
    /\ r \in runs /\ r.phase = "reported"
    /\ runs' = runs \ {r}
    /\ UNCHANGED <<clock, db, redis, back, handoffs, callbacks>>

----------------------------------------------------------------------------
(* complete(): a verified callback, its nonce already consumed *)

\* Mutant of Acceptable: whatever comes from the assigned executor is accepted.
AcceptableOfExecutor(c) == assigned[c.job] \in {NoExec, c.exec}

\* The checks under the row lock that end in CompletionAck(accepted=False).
Acceptable(c) ==
    /\ status[c.job] \in Open
    /\ lease[c.job].id = c.lease /\ lease[c.job].exec = c.exec
    /\ assigned[c.job] \in {NoExec, c.exec}

CallbackIgnored(c) ==
    /\ c \in callbacks /\ Unlocked(c.job) /\ ~Acceptable(c)
    /\ callbacks' = callbacks \ {c}
    /\ UNCHANGED <<clock, db, redis, back, runs, handoffs>>

\* record_delivery_atomic waits for an uncommitted row with the same key.
InsertWaits(code) == \E k \in Jobs : applying[k].verdict = code
Delivered(code) == \E k \in Jobs : <<code, k>> \in log

Verdict(c) == IF Spent(c.job) THEN "timeout"
              ELSE IF c.outcome \in Codes /\ Delivered(c.outcome)
              THEN "duplicate_suppressed" ELSE c.outcome

\* Mutant of CallbackBegin: the result is only cached when none is there yet.
CallbackBeginKeepsResult(c) ==
    LET j == c.job IN
    /\ c \in callbacks /\ Unlocked(j) /\ Acceptable(c)
    /\ ~InsertWaits(c.outcome) \/ c.outcome \notin Codes
    /\ callbacks' = callbacks \ {c}
    /\ applying' = [applying EXCEPT ![j] = [exec |-> c.exec, lease |-> c.lease,
                                            verdict |-> Verdict(c)]]
    /\ result' = IF Verdict(c) \in Codes /\ result[j] = NoCode
                 THEN [result EXCEPT ![j] = Verdict(c)] ELSE result
    /\ UNCHANGED <<clock, db, queue, lock, lease, cooldown, nextLease, disp,
                   failures, sweep, posts, runs, handoffs>>

\* The row is locked, the deadline and the delivery log are checked, and a fresh
\* result is cached in Redis, all before the commit.
CallbackBegin(c) ==
    LET j == c.job IN
    /\ c \in callbacks /\ Unlocked(j) /\ Acceptable(c)
    /\ ~InsertWaits(c.outcome) \/ c.outcome \notin Codes
    /\ callbacks' = callbacks \ {c}
    /\ applying' = [applying EXCEPT ![j] = [exec |-> c.exec, lease |-> c.lease,
                                            verdict |-> Verdict(c)]]
    /\ result' = IF Verdict(c) \in Codes THEN [result EXCEPT ![j] = Verdict(c)]
                                          ELSE result
    /\ UNCHANGED <<clock, db, queue, lock, lease, cooldown, nextLease, disp,
                   failures, sweep, posts, runs, handoffs>>

\* The status a verdict leads to.  A retryable outcome looks at the clock again,
\* some time between the locking read and the commit.
NextStatuses(j) ==
    LET v == applying[j].verdict IN
    CASE v = "timeout" -> {"timeout"}
      [] v = "terminal" -> {"failed"}
      [] v = "retryable" -> IF Spent(j) THEN {"pending", "timeout"} ELSE {"pending"}
      [] OTHER -> {"completed"}

CallbackCommit(j, next) ==
    LET t == applying[j] IN
    /\ ~Unlocked(j) /\ next \in NextStatuses(j)
    /\ status' = [status EXCEPT ![j] = next]
    /\ assigned' = [assigned EXCEPT ![j] =
                      CASE next = "pending" -> NoExec
                        [] t.verdict = "timeout" -> assigned[j]
                        [] OTHER -> t.exec]
    /\ answer' = IF next = "completed" THEN [answer EXCEPT ![j] = t.verdict]
                                       ELSE answer
    /\ log' = IF t.verdict \in Codes THEN log \cup {<<t.verdict, j>>} ELSE log
    /\ applying' = [applying EXCEPT ![j] = NoTxn]
    /\ posts' = posts \cup {[job |-> j, lease |-> t.lease,
                 then |-> IF next = "pending" THEN "requeue" ELSE "release"]}
    /\ UNCHANGED <<clock, requested, quarantined, redis, nextLease, disp, failures,
                   sweep, net>>

\* The commit fails or the process dies.  The executor's retries reuse the
\* nonce, so they are refused: the callback is gone, the cached result stays.
CommitFails(j) ==
    /\ ~Unlocked(j) /\ Fault
    /\ applying' = [applying EXCEPT ![j] = NoTxn]
    /\ UNCHANGED <<now, db, redis, nextLease, disp, failures, sweep, posts, net>>

----------------------------------------------------------------------------
(* mailbox_cleanup: one transaction, its SELECT without row locks *)

SweepSelect(p) ==
    LET stale == {j \in Jobs : status[j] \in Open /\ Expired(j)} IN
    /\ sweep[p] = {} /\ stale # {}
    /\ sweep' = [sweep EXCEPT ![p] = stale]
    /\ UNCHANGED <<clock, db, redis, nextLease, disp, failures, applying, posts, net>>

\* Mutant of SweepCommit: the pass leaves the rows an executor has accepted.
SweepCommitPending(p) ==
    LET held == {j \in Jobs : status[j] = "processing"}
        doomed == {j \in Jobs : Doomed(j)} \ held IN
    /\ sweep[p] \cup doomed # {}
    /\ \A j \in sweep[p] \cup doomed : Unlocked(j)
    /\ status' = [j \in Jobs |-> CASE j \in doomed -> "deleted"
                                   [] j \in sweep[p] \ (doomed \cup held) -> "timeout"
                                   [] OTHER -> status[j]]
    /\ sweep' = [sweep EXCEPT ![p] = {}]
    /\ UNCHANGED <<clock, requested, assigned, answer, log, quarantined, redis,
                   nextLease, disp, failures, applying, posts, net>>

\* The rows selected are written as timeout, the doomed ones deleted.  A row
\* another process deleted meanwhile fails the flush, and the pass rolls back.
SweepCommit(p) ==
    LET doomed == {j \in Jobs : Doomed(j)}
        lost == \E j \in sweep[p] : status[j] = "deleted" IN
    /\ sweep[p] \cup doomed # {}
    /\ \A j \in sweep[p] \cup doomed : Unlocked(j)
    /\ status' = IF lost THEN status
                 ELSE [j \in Jobs |-> CASE j \in doomed -> "deleted"
                                        [] j \in sweep[p] \ doomed -> "timeout"
                                        [] OTHER -> status[j]]
    /\ sweep' = [sweep EXCEPT ![p] = {}]
    /\ UNCHANGED <<clock, requested, assigned, answer, log, quarantined, redis,
                   nextLease, disp, failures, applying, posts, net>>

----------------------------------------------------------------------------
(* Faults, the registry and time *)

\* A process dies or is replaced: its dispatch, its counters, its cleanup pass.
Crash(p) ==
    /\ disp[p] # Idle \/ sweep[p] # {}
    /\ Fault
    /\ disp' = [disp EXCEPT ![p] = Idle]
    /\ failures' = [failures EXCEPT ![p] = [e \in Executors |-> 0]]
    /\ sweep' = [sweep EXCEPT ![p] = {}]
    /\ UNCHANGED <<now, db, redis, nextLease, applying, posts, net>>

\* schedule, release_lease or enqueue raises after the commit, or the process dies.
AfterCommitLost(q) ==
    /\ q \in posts /\ Fault
    /\ posts' = posts \ {q}
    /\ UNCHANGED <<now, db, redis, nextLease, disp, failures, sweep, applying, net>>

\* Failover to a Redis that has none of the keys.
RedisLost ==
    /\ Fault
    /\ queue' = {}
    /\ lock' = [j \in Jobs |-> 0]
    /\ lease' = [j \in Jobs |-> NoLease]
    /\ result' = [j \in Jobs |-> NoCode]
    /\ cooldown' = [e \in Executors |-> 0]
    /\ UNCHANGED <<now, db, back, net>>

MessageLost ==
    /\ Fault
    /\ \/ \E h \in handoffs : handoffs' = handoffs \ {h} /\ UNCHANGED callbacks
       \/ \E c \in callbacks : callbacks' = callbacks \ {c} /\ UNCHANGED handoffs
    /\ UNCHANGED <<now, db, redis, back, runs>>

\* The executor keeps its reservations in memory only.
ExecutorRestart(e) ==
    /\ (\E r \in runs : r.exec = e) /\ Fault
    /\ runs' = {r \in runs : r.exec # e}
    /\ UNCHANGED <<now, db, redis, back, handoffs, callbacks>>

\* A Master verifies a quarantined executor again.
Reverify(e) ==
    /\ e \in quarantined
    /\ quarantined' = quarantined \ {e}
    /\ UNCHANGED <<clock, status, requested, assigned, answer, log, redis, back, net>>

\* Time passes and Redis drops the keys whose TTL has run out; a cached result
\* (TTL at most LeaseTtl) may go too.
Cached == {j \in Jobs : result[j] # NoCode}

Tick(gone) ==
    /\ now < MaxTime
    /\ now' = now + 1
    /\ lock' = [j \in Jobs |-> IF lock[j] <= now' THEN 0 ELSE lock[j]]
    /\ lease' = [j \in Jobs |-> IF lease[j].end <= now' THEN NoLease ELSE lease[j]]
    /\ cooldown' = [e \in Executors |-> IF cooldown[e] <= now' THEN 0 ELSE cooldown[e]]
    /\ result' = [j \in Jobs |-> IF j \in gone THEN NoCode ELSE result[j]]
    /\ UNCHANGED <<faults, db, queue, back, net>>

----------------------------------------------------------------------------

Request == \E j \in Jobs :
    \/ Create(j) \/ PollTimeout(j) \/ PollReschedule(j)
    \/ \E release \in BOOLEAN : Cancel(j, release)

Dispatching == \E p \in Procs :
    \/ \E j \in Jobs : Pop(p, j)
    \/ ReadJob(p) \/ ExpireJob(p)
    \/ \E e \in Executors : SelectExecutor(p, e)
    \/ Requeue(p) \/ ReserveLease(p) \/ SendHandoff(p) \/ EnvelopeFails(p)
    \/ HandoffMoot(p) \/ HandoffAccepted(p) \/ HandoffRefused(p)
    \/ HandoffFails(p) \/ HandoffRaises(p) \/ DispatchRaises(p) \/ Unlock(p)

Executing ==
    \/ \E h \in handoffs : Receive(h)
    \/ \E r \in runs : ReleaseSlot(r) \/ \E o \in Outcomes : SendCallback(r, o)

Completing ==
    \/ \E c \in callbacks : CallbackIgnored(c) \/ CallbackBegin(c)
    \/ \E j \in Jobs : CommitFails(j) \/ \E s \in Statuses : CallbackCommit(j, s)
    \/ \E q \in posts : AfterCommit(q) \/ AfterCommitLost(q)

Cleaning == \E p \in Procs : SweepSelect(p) \/ SweepCommit(p)

Failing ==
    \/ \E p \in Procs : Crash(p)
    \/ RedisLost \/ MessageLost
    \/ \E e \in Executors : ExecutorRestart(e)

Next == \/ Request \/ Dispatching \/ Executing \/ Completing \/ Cleaning
        \/ Failing
        \/ \E e \in Executors : Reverify(e)
        \/ \E gone \in SUBSET Cached : Tick(gone)

Spec == Init /\ [][Next]_vars

\* The cleanup loop runs for as long as the process does, a database transaction
\* ends, and time passes.  Nothing else is assumed: callers may stop polling,
\* executors may never answer, a dispatch may hang.
Fairness ==
    /\ WF_vars(\E gone \in SUBSET Cached : Tick(gone))
    /\ \A p \in Procs : WF_vars(SweepSelect(p)) /\ WF_vars(SweepCommit(p))
    /\ \A j \in Jobs : WF_vars(\E s \in Statuses : CallbackCommit(j, s))

FairSpec == Spec /\ Fairness

----------------------------------------------------------------------------
(* Properties *)

\* Every variable has its type.
TypeOK ==
    /\ now \in Nat /\ faults \in Nat /\ nextLease \in Nat \ {0}
    /\ status \in [Jobs -> Statuses]
    /\ requested \in [Jobs -> Nat]
    /\ assigned \in [Jobs -> Executors \cup {NoExec}]
    /\ answer \in [Jobs -> Answers]
    /\ log \subseteq Codes \X Jobs
    /\ quarantined \subseteq Executors
    /\ queue \subseteq Jobs
    /\ lock \in [Jobs -> Nat]
    /\ lease \in [Jobs -> Lease]
    /\ result \in [Jobs -> Codes \cup {NoCode}]
    /\ cooldown \in [Executors -> Nat]
    /\ disp \in [Procs -> Dispatch]
    /\ failures \in [Procs -> [Executors -> 0..FailureThreshold]]
    /\ sweep \in [Procs -> SUBSET Jobs]
    /\ applying \in [Jobs -> Txn]
    /\ posts \subseteq Post
    /\ runs \subseteq Run
    /\ handoffs \subseteq Handoff
    /\ callbacks \subseteq Callback

\* A settled job is never worked on again: no late handoff answer, retryable
\* callback, second process or cleanup pass takes a completed, failed or timed
\* out row back to pending or processing, and a deleted row stays deleted.
NeverReopened ==
    [][\A j \in Jobs : /\ status[j] \in Terminal => status'[j] \in Terminal \cup {"deleted"}
                       /\ status[j] = "deleted" => status'[j] = "deleted"]_vars

\* Exactly-once delivery: a code goes to at most one job and a job gets at most
\* one code, whatever is retried, redispatched, expired or lost.
OneDelivery ==
    \A a, b \in log : a[1] = b[1] \/ a[2] = b[2] => a = b

\* What get_lookup_status hands out is what was delivered: the cached result of
\* a completed job is the code its row and the delivery log speak of, although
\* it is written to Redis before the commit, and may stay after a failed one.
ResultMatchesDelivery ==
    \A j \in Jobs : status[j] = "completed" /\ answer[j] \in Codes =>
        /\ <<answer[j], j>> \in log
        /\ result[j] \in {NoCode, answer[j]}

\* Where a job the coordinator has not finished with can be: in the queue, in a
\* dispatch, out on a lease, in the callback or in what follows its commit.
Tracked(j) ==
    \/ j \in queue
    \/ \E p \in Procs : disp[p].job = j /\ disp[p].pc # "unlock"
    \/ lease[j].id # 0
    \/ ~Unlocked(j)
    \/ \E q \in posts : q.job = j /\ q.then # "release"

\* With one process and as long as nothing has failed, no interleaving of
\* dispatch, callbacks, polls and expiring keys makes the coordinator forget a
\* pending job.
NoForgottenJob ==
    faults = 0 => \A j \in Jobs : status[j] = "pending" /\ ~Spent(j) => Tracked(j)

\* One process never reserves more of an executor than its max_concurrency,
\* although the count is read before the lease is written.
CapacityRespected == \A e \in Executors : ActiveCount(e) <= Slots

\* Jobs share an executor: a job that waits is queued or in somebody's hands,
\* although popped jobs are dropped when their lock is held, and no slot is
\* given twice.
JobsShare == NoForgottenJob /\ CapacityRespected

\* Every job is settled in the end, with no help from callers or executors:
\* whatever was lost, the cleanup loop finds the row.
EventuallySettled == \A j \in Jobs : status[j] \in Open ~> status[j] \notin Open

----------------------------------------------------------------------------
(* What the documents say and the code does not do *)

\* "The lease remains until callback completion or expiry": a job that an
\* executor works on, inside its budget, has its lease.
ProcessingIsLeased ==
    \A j \in Jobs : status[j] = "processing" /\ ~Spent(j) => lease[j].id # 0

\* The job states lead from pending and processing to completed, failed and
\* timeout, and from there nowhere.
TerminalIsFinal ==
    [][\A j \in Jobs : status[j] \in Terminal => status'[j] \in {status[j], "deleted"}]_vars

\* "A reconciliation pass treats PostgreSQL pending rows as the recovery input":
\* a pending job that Redis no longer knows of is picked up again, by more than
\* the cleanup that times it out.
Reconciled ==
    \A j \in Jobs : (status[j] = "pending" /\ ~Spent(j) /\ ~Tracked(j))
                     ~> (Tracked(j) \/ status[j] \in {"processing", "completed", "failed"})

----------------------------------------------------------------------------
(* Refinement *)

\* What the caller of a lookup is told (_status_response), from its row.
Told(j) == CASE status[j] = "none" -> "unasked"
             [] status[j] \in Open -> "open"
             [] status[j] = "deleted" -> "forgotten"
             [] status[j] \in {"failed", "timeout"} -> "unsuccessful"
             [] status[j] = "completed" /\ answer[j] \in Codes -> answer[j]
             [] OTHER -> "empty"

Promise == INSTANCE LookupPromise WITH
    asked <- requested,
    reply <- [j \in Jobs |-> Told(j)],
    given <- {c \in Codes : Delivered(c)}

\* The coordinator keeps the promise: one answer per lookup, one lookup per
\* code, no answer withdrawn before the interactive deadline, through retries,
\* crashes, lost messages, lost Redis data and two processes at a time.
KeepsPromise == Promise!Spec

=============================================================================
