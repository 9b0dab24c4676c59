----------------------------- MODULE LookupPump -----------------------------
(***************************************************************************)
(* Who wakes the dispatcher: schedule(), the short-lived pump tasks of a   *)
(* backend process, the guard around them and the queue in Redis.  What a  *)
(* dispatch does is the business of LookupCoordinator; here it returns     *)
(* True, returns False after a requeue, or raises.                         *)
(*                                                                         *)
(* Source: coordinator.py (schedule, _start_pump_locked, _pump_is_active,  *)
(* _has_queued_jobs, _pump, _requeue, the end of complete) and the queue   *)
(* scripts of redis_store.py.                                              *)
(*                                                                         *)
(* Grain.  A coroutine runs without interruption from one await of Redis   *)
(* to the next.  The guard is an asyncio.Lock: it is only ever held across *)
(* an await by a pump that is closing.                                     *)
(***************************************************************************)
EXTENDS Naturals, Sequences, FiniteSets

CONSTANTS
    Jobs, Procs,
    Tasks,          \* identities of pump tasks within a process
    NoTask, NoJob,
    BatchSize,      \* lookup_dispatch_batch_size
    MaxCalls,       \* bound: schedule() calls per job
    MaxRefusals,    \* bound: dispatches that end in a requeue
    MaxRetries,     \* bound: retryable callbacks
    MaxFaults       \* bound: exceptions

\* What a proof and a run assume of them.
PumpAssumption ==
    /\ NoTask \notin Tasks /\ NoJob \notin Jobs
    /\ BatchSize \in Nat \ {0}
    /\ MaxCalls \in Nat /\ MaxRefusals \in Nat /\ MaxRetries \in Nat /\ MaxFaults \in Nat

VARIABLES
    queue,      \* QUEUE_KEY; QUEUE_SEEN_KEY holds the same ids
    calls,      \* schedule() calls between their enqueue and the guard
    called,     \* how often each job was scheduled
    guard,      \* _pump_guard: the closing pump that holds it, or NoTask
    task,       \* _pump_task
    pump,       \* the tasks
    out,        \* dispatched jobs, whose callback is to come
    refusals, retries, faults

counts == <<refusals, retries, faults>>
vars == <<queue, calls, called, guard, task, pump, out, counts>>

Done == [pc |-> "done", job |-> NoJob, left |-> 0, restart |-> FALSE]
Fresh == [Done EXCEPT !.pc = "pop", !.left = BatchSize, !.restart = TRUE]
Pump == [pc : {"done", "pop", "dispatch", "check", "finally", "closing"},
         job : Jobs \cup {NoJob}, left : 0..BatchSize, restart : BOOLEAN]

Init ==
    /\ queue = <<>> /\ calls = {} /\ called = [j \in Jobs |-> 0]
    /\ guard = [p \in Procs |-> NoTask] /\ task = [p \in Procs |-> NoTask]
    /\ pump = [p \in Procs |-> [t \in Tasks |-> Done]]
    /\ out = {} /\ refusals = 0 /\ retries = 0 /\ faults = 0

Queued == {queue[n] : n \in 1..Len(queue)}
\* _ENQUEUE_SCRIPT: once until it is popped.
Enqueue(j) == IF j \in Queued THEN queue ELSE Append(queue, j)
\* _pump_is_active
Active(p) == task[p] # NoTask /\ pump[p][task[p]].pc # "done"
\* _start_pump_locked: the task that ends gives way to a new one.
StartPump(p, old) ==
    \E t \in Tasks \ {old} :
        /\ pump[p][t].pc = "done"
        /\ task' = [task EXCEPT ![p] = t]
        /\ pump' = [pump EXCEPT ![p] = [u \in Tasks |->
                       CASE u = t -> Fresh [] u = old -> Done [] OTHER -> pump[p][u]]]
Fault == faults < MaxFaults /\ faults' = faults + 1 /\ UNCHANGED <<refusals, retries>>

----------------------------------------------------------------------------
(* schedule *)

\* create_lookup or a poll: the job is queued, then the guard is asked for.
Schedule(p, j) ==
    /\ <<p, j>> \notin calls /\ called[j] < MaxCalls
    /\ called' = [called EXCEPT ![j] = @ + 1]
    /\ queue' = Enqueue(j)
    /\ calls' = calls \cup {<<p, j>>}
    /\ UNCHANGED <<guard, task, pump, out, counts>>

\* Mutant of Wake: a pump is started whether or not one is active.
WakeAlways(p, j) ==
    /\ <<p, j>> \in calls /\ guard[p] = NoTask
    /\ calls' = calls \ {<<p, j>>}
    /\ StartPump(p, NoTask)
    /\ UNCHANGED <<queue, called, guard, out, counts>>

\* The guard is free: start a pump unless one is active.
Wake(p, j) ==
    /\ <<p, j>> \in calls /\ guard[p] = NoTask
    /\ calls' = calls \ {<<p, j>>}
    /\ IF Active(p) THEN UNCHANGED <<task, pump>> ELSE StartPump(p, NoTask)
    /\ UNCHANGED <<queue, called, guard, out, counts>>

\* The end of complete() for a retryable outcome queues the job and starts nothing.
RetryEnqueue(j) ==
    /\ j \in out /\ retries < MaxRetries
    /\ retries' = retries + 1
    /\ queue' = Enqueue(j)
    /\ out' = out \ {j}
    /\ UNCHANGED <<calls, called, guard, task, pump, refusals, faults>>

----------------------------------------------------------------------------
(* _pump *)

\* pop
PumpPop(p, t) ==
    /\ pump[p][t].pc = "pop"
    /\ IF queue = <<>>
       THEN /\ pump' = [pump EXCEPT ![p][t].pc = "finally"]
            /\ UNCHANGED queue
       ELSE /\ pump' = [pump EXCEPT ![p][t].pc = "dispatch", ![p][t].job = Head(queue)]
            /\ queue' = Tail(queue)
    /\ UNCHANGED <<calls, called, guard, task, out, counts>>

\* _dispatch returned True: the job was handed over or is settled.
PumpDispatched(p, t) ==
    LET d == pump[p][t] IN
    /\ d.pc = "dispatch"
    /\ out' = out \cup {d.job}
    /\ pump' = [pump EXCEPT ![p][t] =
                  [d EXCEPT !.left = d.left - 1, !.job = NoJob,
                            !.pc = IF d.left = 1 THEN "finally" ELSE "pop"]]
    /\ UNCHANGED <<queue, calls, called, guard, task, counts>>

\* _dispatch requeued the job and returned False.
PumpRefused(p, t) ==
    /\ pump[p][t].pc = "dispatch" /\ refusals < MaxRefusals
    /\ refusals' = refusals + 1
    /\ queue' = Enqueue(pump[p][t].job)
    /\ pump' = [pump EXCEPT ![p][t].pc = "check"]
    /\ UNCHANGED <<calls, called, guard, task, out, retries, faults>>

\* _has_queued_jobs(excluding_job_id): is there other work?
PumpCheck(p, t) ==
    /\ pump[p][t].pc = "check"
    /\ pump' = [pump EXCEPT ![p][t] =
                  [@ EXCEPT !.pc = "finally", !.job = NoJob,
                            !.restart = Queued \ {pump[p][t].job} # {}]]
    /\ UNCHANGED <<queue, calls, called, guard, task, out, counts>>

\* Something raises: no follow-on pump.
PumpRaises(p, t) ==
    /\ pump[p][t].pc \in {"pop", "dispatch", "check"} /\ Fault
    /\ pump' = [pump EXCEPT ![p][t] = [@ EXCEPT !.pc = "finally", !.restart = FALSE,
                                                !.job = NoJob]]
    /\ UNCHANGED <<queue, calls, called, guard, task, out>>

\* The finally clause takes the guard, and asks Redis if it means to go on.
PumpFinally(p, t) ==
    /\ pump[p][t].pc = "finally" /\ guard[p] = NoTask
    /\ IF pump[p][t].restart
       THEN /\ guard' = [guard EXCEPT ![p] = t]
            /\ pump' = [pump EXCEPT ![p][t].pc = "closing"]
            /\ UNCHANGED task
       ELSE /\ task' = [task EXCEPT ![p] = NoTask]
            /\ pump' = [pump EXCEPT ![p][t] = Done]
            /\ UNCHANGED guard
    /\ UNCHANGED <<queue, calls, called, out, counts>>

\* Mutant of PumpClose: no follow-on pump.
PumpCloseForGood(p, t) ==
    /\ pump[p][t].pc = "closing"
    /\ guard' = [guard EXCEPT ![p] = NoTask]
    /\ task' = [task EXCEPT ![p] = NoTask]
    /\ pump' = [pump EXCEPT ![p][t] = Done]
    /\ UNCHANGED <<queue, calls, called, out, counts>>

\* Work is left: a follow-on pump.  None is left: no pump.  What is queued after
\* Redis answered has a schedule() call that waits for the guard.
PumpClose(p, t) ==
    /\ pump[p][t].pc = "closing"
    /\ guard' = [guard EXCEPT ![p] = NoTask]
    /\ IF queue # <<>> THEN StartPump(p, t)
       ELSE /\ task' = [task EXCEPT ![p] = NoTask]
            /\ pump' = [pump EXCEPT ![p][t] = Done]
    /\ UNCHANGED <<queue, calls, called, out, counts>>

\* The question to Redis raises: the task ends, _pump_task still names it.
PumpCloseRaises(p, t) ==
    /\ pump[p][t].pc = "closing" /\ Fault
    /\ guard' = [guard EXCEPT ![p] = NoTask]
    /\ pump' = [pump EXCEPT ![p][t] = Done]
    /\ UNCHANGED <<queue, calls, called, task, out>>

PumpStep(p, t) ==
    \/ PumpPop(p, t) \/ PumpDispatched(p, t) \/ PumpRefused(p, t) \/ PumpCheck(p, t)
    \/ PumpFinally(p, t) \/ PumpClose(p, t)

Next ==
    \/ \E p \in Procs, j \in Jobs : Schedule(p, j) \/ Wake(p, j)
    \/ \E j \in Jobs : RetryEnqueue(j)
    \/ \E p \in Procs, t \in Tasks : \/ PumpStep(p, t)
                                     \/ PumpRaises(p, t) \/ PumpCloseRaises(p, t)

Spec == Init /\ [][Next]_vars

\* The event loop runs every coroutine that is ready, and Redis and the
\* transport answer (their calls have timeouts).  Nobody has to schedule again.
Fairness ==
    /\ \A p \in Procs, t \in Tasks : WF_vars(PumpStep(p, t))
    /\ \A p \in Procs, j \in Jobs : WF_vars(Wake(p, j))

FairSpec == Spec /\ Fairness

----------------------------------------------------------------------------
(* Properties *)

\* Every variable has its type.
TypeOK ==
    /\ queue \in Seq(Jobs)
    /\ calls \subseteq Procs \X Jobs
    /\ called \in [Jobs -> 0..MaxCalls]
    /\ guard \in [Procs -> Tasks \cup {NoTask}]
    /\ task \in [Procs -> Tasks \cup {NoTask}]
    /\ pump \in [Procs -> [Tasks -> Pump]]
    /\ out \subseteq Jobs
    /\ refusals \in 0..MaxRefusals /\ retries \in 0..MaxRetries /\ faults \in 0..MaxFaults

\* "starts at most one short-lived pump": a process never runs two pumps, not
\* even while one hands over to the next and a schedule() call waits.
OnePump ==
    \A p \in Procs : \A t, u \in Tasks :
        pump[p][t].pc # "done" /\ pump[p][u].pc # "done" => t = u

\* No lost wake-up while dispatches succeed (a requeued job, an exception and a
\* retryable outcome leave work behind on purpose): a queued job is popped,
\* although its schedule() call found a pump active that was about to end.
Undisturbed == refusals = 0 /\ retries = 0 /\ faults = 0
EventuallyPopped ==
    \A j \in Jobs : [](j \in Queued => <>(j \notin Queued \/ ~Undisturbed))

----------------------------------------------------------------------------
(* What the documents say and the code does not do *)

\* "Each bounded pump starts a follow-on pump when its queue still contains
\* work, including work remaining after a requeued dispatch": with no pump
\* active and no schedule() call on its way, at most a sole requeued job waits.
Rests == calls = {} /\ \A p \in Procs : ~Active(p)
FollowsOn == Rests => Cardinality(Queued) <= 1

=============================================================================
