---------------------- MODULE LookupCoordinatorProofs ----------------------
(***************************************************************************)
(* Proofs about LookupCoordinator, for every number of jobs, processes,    *)
(* executors and codes and every setting of the time limits.               *)
(***************************************************************************)
EXTENDS LookupCoordinator, FiniteSetTheorems, TLAPS

USE DEF HandoffAnswers

----------------------------------------------------------------------------
(* Typing *)

\* A dispatch in progress has a job, and once selected an executor.  TypeOK is
\* not inductive without it: an idle dispatch has neither.
WellFormed(d) ==
    /\ d \in Dispatch
    /\ d.pc # "idle" => d.job \in Jobs
    /\ d.pc = "idle" => d.job = NoJob
    /\ d.pc \in {"reserve", "send", "await"} => d.exec \in Executors

DispatchTyped == \A p \in Procs : WellFormed(disp[p])

\* An open callback transaction has an executor.
TxnTyped == \A j \in Jobs : ~Unlocked(j) => applying[j].exec \in Executors

Typed == TypeOK /\ DispatchTyped /\ TxnTyped

\* Replacing the dispatch of one process by a well-formed one (every step of
\* _dispatch) keeps all of them typed.
LEMMA DispatchUpdate ==
    ASSUME disp \in [Procs -> Dispatch], DispatchTyped,
           NEW p \in Procs, NEW d, WellFormed(d), disp' = [disp EXCEPT ![p] = d]
    PROVE  disp' \in [Procs -> Dispatch] /\ DispatchTyped'
BY DEF DispatchTyped, WellFormed

\* Every return of _dispatch passes the finally clause with its job.
LEMMA UnlockTyped ==
    ASSUME disp \in [Procs -> Dispatch], DispatchTyped,
           NEW p \in Procs, disp[p].pc # "idle", disp' = ToUnlock(p)
    PROVE  disp' \in [Procs -> Dispatch] /\ DispatchTyped'
<1>1. WellFormed([Idle EXCEPT !.pc = "unlock", !.job = disp[p].job])
    BY DEF WellFormed, Idle, Dispatch, DispatchTyped
<1> QED
    BY <1>1, DispatchUpdate DEF ToUnlock

\* Releasing a lease, of whatever job, keeps the lease table typed.
LEMMA ReleaseTyped ==
    ASSUME lease \in [Jobs -> Lease], NEW j PROVE ReleaseLease(j) \in [Jobs -> Lease]
BY DEF ReleaseLease, NoLease, Lease

\* Counting a failure saturates at the threshold.
LEMMA FailureTyped ==
    ASSUME failures \in [Procs -> [Executors -> 0..FailureThreshold]],
           cooldown \in [Executors -> Nat], now \in Nat,
           NEW p \in Procs, NEW e \in Executors, CountFailure(p, e)
    PROVE  /\ failures' \in [Procs -> [Executors -> 0..FailureThreshold]]
           /\ cooldown' \in [Executors -> Nat]
BY ConstantsAssumption DEF CountFailure

\* The initial state is typed.
LEMMA InitTyped == Init => Typed
BY ConstantsAssumption DEF Init, Typed, TypeOK, DispatchTyped, WellFormed, TxnTyped,
   Unlocked, Idle, NoTxn, NoLease, Statuses, Open, Terminal, Answers, Lease, Dispatch,
   Txn, Verdicts, Outcomes

\* Every step keeps the types.
LEMMA NextTyped == Typed /\ [Next]_vars => Typed'
<1> SUFFICES ASSUME Typed, [Next]_vars PROVE Typed'
    OBVIOUS
<1> USE DEF Typed, TypeOK, TxnTyped, clock, db, redis, back, net
<1>1. ASSUME NEW j \in Jobs, Create(j) PROVE Typed'
    BY <1>1 DEF Create, Unlocked, DispatchTyped, Statuses, Open, Post
<1>2. ASSUME NEW j \in Jobs, PollTimeout(j) PROVE Typed'
    BY <1>2, ReleaseTyped DEF PollTimeout, Unlocked, DispatchTyped, Statuses, Terminal
<1>3. ASSUME NEW j \in Jobs, PollReschedule(j) PROVE Typed'
    BY <1>3 DEF PollReschedule, Unlocked, DispatchTyped, Post
<1>4. ASSUME NEW j \in Jobs, NEW release \in BOOLEAN, Cancel(j, release) PROVE Typed'
    BY <1>4, ReleaseTyped DEF Cancel, Unlocked, DispatchTyped, Statuses, Terminal
<1>5. ASSUME NEW p \in Procs, NEW j \in Jobs, Pop(p, j) PROVE Typed'
  <2>1. disp' \in [Procs -> Dispatch] /\ DispatchTyped'
    <3>1. WellFormed([Idle EXCEPT !.pc = "read", !.job = j])
        BY ConstantsAssumption DEF WellFormed, Idle, Dispatch
    <3>2. CASE lock[j] # 0
        BY <1>5, <3>2 DEF Pop, DispatchTyped
    <3>3. CASE lock[j] = 0
        BY <1>5, <3>1, <3>3, DispatchUpdate DEF Pop
    <3> QED
        BY <3>2, <3>3
  <2>2. lock' \in [Jobs -> Nat]
    BY <1>5, ConstantsAssumption DEF Pop
  <2> QED
    BY <1>5, <2>1, <2>2 DEF Pop, Unlocked
<1>6. ASSUME NEW p \in Procs, ReadJob(p) PROVE Typed'
  <2>1. disp' \in [Procs -> Dispatch] /\ DispatchTyped'
    <3>1. ASSUME NEW pc \in {"expire", "select"} PROVE WellFormed([disp[p] EXCEPT !.pc = pc])
      <4>1. disp[p] \in Dispatch /\ disp[p].job \in Jobs
        BY <1>6 DEF ReadJob, DispatchTyped, WellFormed
      <4> QED
        BY <3>1, <4>1 DEF WellFormed, Dispatch
    <3>2. CASE disp' = ToUnlock(p)
        BY <1>6, <3>2, UnlockTyped DEF ReadJob
    <3>3. CASE disp' = [disp EXCEPT ![p].pc = "expire"]
        BY <3>1, <3>3, DispatchUpdate
    <3>4. CASE disp' = [disp EXCEPT ![p].pc = "select"]
        BY <3>1, <3>4, DispatchUpdate
    <3> QED
        BY <1>6, <3>2, <3>3, <3>4 DEF ReadJob
  <2> QED
    BY <1>6, <2>1 DEF ReadJob, Unlocked
<1>7. ASSUME NEW p \in Procs, ExpireJob(p) PROVE Typed'
  <2>1. disp' \in [Procs -> Dispatch] /\ DispatchTyped'
    BY <1>7, UnlockTyped DEF ExpireJob
  <2>2. disp[p].job \in Jobs /\ disp[p].exec \in Executors \cup {NoExec}
    BY <1>7 DEF ExpireJob, DispatchTyped, WellFormed, Dispatch
  <2> QED
    BY <1>7, <2>1, <2>2 DEF ExpireJob, Unlocked, Statuses, Terminal
<1>8. ASSUME NEW p \in Procs, NEW e \in Executors, SelectExecutor(p, e) PROVE Typed'
  <2>1. WellFormed([disp[p] EXCEPT !.pc = "reserve", !.exec = e])
    <3>1. disp[p] \in Dispatch /\ disp[p].job \in Jobs
        BY <1>8 DEF SelectExecutor, DispatchTyped, WellFormed
    <3> QED
        BY <1>8, <3>1 DEF WellFormed, Dispatch
  <2>2. disp' = [disp EXCEPT ![p] = [disp[p] EXCEPT !.pc = "reserve", !.exec = e]]
    BY <1>8 DEF SelectExecutor
  <2>3. disp' \in [Procs -> Dispatch] /\ DispatchTyped'
    BY <2>1, <2>2, DispatchUpdate
  <2> QED
    BY <1>8, <2>3 DEF SelectExecutor, Unlocked
<1>9. ASSUME NEW p \in Procs, Requeue(p) PROVE Typed'
  <2>1. disp' \in [Procs -> Dispatch] /\ DispatchTyped'
    BY <1>9, UnlockTyped DEF Requeue
  <2>2. disp[p].job \in Jobs /\ disp[p].exec \in Executors \cup {NoExec}
    BY <1>9 DEF Requeue, DispatchTyped, WellFormed, Dispatch
  <2> QED
    BY <1>9, <2>1, <2>2 DEF Requeue, Unlocked
<1>10. ASSUME NEW p \in Procs, ReserveLease(p) PROVE Typed'
  <2>1. WellFormed([disp[p] EXCEPT !.pc = "send", !.lease = nextLease])
    <3>1. disp[p] \in Dispatch /\ disp[p].job \in Jobs /\ disp[p].exec \in Executors
        BY <1>10 DEF ReserveLease, DispatchTyped, WellFormed
    <3> QED
        BY <1>10, <3>1 DEF WellFormed, Dispatch
  <2>2. disp' = [disp EXCEPT ![p] = [disp[p] EXCEPT !.pc = "send", !.lease = nextLease]]
    BY <1>10 DEF ReserveLease
  <2>3. disp' \in [Procs -> Dispatch] /\ DispatchTyped'
    BY <2>1, <2>2, DispatchUpdate
  <2>4. lease' \in [Jobs -> Lease]
    BY <1>10, ConstantsAssumption DEF ReserveLease, DispatchTyped, WellFormed, Lease
  <2> QED
    BY <1>10, <2>3, <2>4 DEF ReserveLease, Unlocked
<1>11. ASSUME NEW p \in Procs, SendHandoff(p) PROVE Typed'
  <2>1. WellFormed([disp[p] EXCEPT !.pc = "await"])
    <3>1. disp[p] \in Dispatch /\ disp[p].job \in Jobs /\ disp[p].exec \in Executors
        BY <1>11 DEF SendHandoff, DispatchTyped, WellFormed
    <3> QED
        BY <1>11, <3>1 DEF WellFormed, Dispatch
  <2>2. disp' \in [Procs -> Dispatch] /\ DispatchTyped'
    BY <1>11, <2>1, DispatchUpdate DEF SendHandoff
  <2>3. handoffs' \subseteq Handoff
    BY <1>11 DEF SendHandoff, DispatchTyped, WellFormed, Dispatch, Handoff
  <2> QED
    BY <1>11, <2>2, <2>3 DEF SendHandoff, Unlocked
<1>12. ASSUME NEW p \in Procs, EnvelopeFails(p) PROVE Typed'
  <2>1. disp' \in [Procs -> Dispatch] /\ DispatchTyped'
    BY <1>12, UnlockTyped DEF EnvelopeFails
  <2>2. disp[p].job \in Jobs /\ disp[p].exec \in Executors \cup {NoExec}
    BY <1>12 DEF EnvelopeFails, DispatchTyped, WellFormed, Dispatch
  <2> QED
    BY <1>12, <2>1, <2>2, ConstantsAssumption, ReleaseTyped DEF EnvelopeFails,
       Unlocked, Fault
<1>13. ASSUME NEW p \in Procs, HandoffMoot(p) PROVE Typed'
  <2>1. disp' \in [Procs -> Dispatch] /\ DispatchTyped'
    BY <1>13, UnlockTyped DEF HandoffMoot
  <2>2. disp[p].job \in Jobs /\ disp[p].exec \in Executors \cup {NoExec}
    BY <1>13 DEF HandoffMoot, DispatchTyped, WellFormed, Dispatch
  <2> QED
    BY <1>13, <2>1, <2>2, ConstantsAssumption, ReleaseTyped DEF HandoffMoot,
       Unlocked, Fault, Statuses, Terminal
<1>14. ASSUME NEW p \in Procs, HandoffAccepted(p) PROVE Typed'
  <2>1. disp' \in [Procs -> Dispatch] /\ DispatchTyped'
    BY <1>14, UnlockTyped DEF HandoffAccepted
  <2>2. disp[p].job \in Jobs /\ disp[p].exec \in Executors
    BY <1>14 DEF HandoffAccepted, DispatchTyped, WellFormed
  <2>3. failures' \in [Procs -> [Executors -> 0..FailureThreshold]]
    BY <1>14, <2>2, ConstantsAssumption DEF HandoffAccepted
  <2> QED
    BY <1>14, <2>1, <2>2, <2>3 DEF HandoffAccepted, Unlocked, Statuses, Open
<1>15. ASSUME NEW p \in Procs, HandoffRefused(p) PROVE Typed'
  <2>1. disp' \in [Procs -> Dispatch] /\ DispatchTyped'
    BY <1>15, UnlockTyped DEF HandoffRefused
  <2>2. disp[p].job \in Jobs /\ disp[p].exec \in Executors \cup {NoExec}
    BY <1>15 DEF HandoffRefused, DispatchTyped, WellFormed, Dispatch
  <2>3. disp[p].exec \in Executors
    BY <1>15 DEF HandoffRefused, DispatchTyped, WellFormed
  <2> QED
    BY <1>15, <2>1, <2>2, <2>3, ConstantsAssumption, ReleaseTyped DEF
       HandoffRefused, Unlocked, Fault
<1>16. ASSUME NEW p \in Procs, HandoffFails(p) PROVE Typed'
  <2>1. disp' \in [Procs -> Dispatch] /\ DispatchTyped'
    BY <1>16, UnlockTyped DEF HandoffFails
  <2>2. disp[p].job \in Jobs /\ disp[p].exec \in Executors \cup {NoExec}
    BY <1>16 DEF HandoffFails, DispatchTyped, WellFormed, Dispatch
  <2>3. disp[p].exec \in Executors
    BY <1>16 DEF HandoffFails, DispatchTyped, WellFormed
  <2> QED
    BY <1>16, <2>1, <2>2, <2>3, ConstantsAssumption, ReleaseTyped, FailureTyped DEF
       HandoffFails, Unlocked, Fault
<1>17. ASSUME NEW p \in Procs, HandoffRaises(p) PROVE Typed'
  <2>1. disp' \in [Procs -> Dispatch] /\ DispatchTyped'
    BY <1>17, UnlockTyped DEF HandoffRaises
  <2>2. disp[p].job \in Jobs /\ disp[p].exec \in Executors \cup {NoExec}
    BY <1>17 DEF HandoffRaises, DispatchTyped, WellFormed, Dispatch
  <2>3. disp[p].exec \in Executors
    BY <1>17 DEF HandoffRaises, DispatchTyped, WellFormed
  <2> QED
    BY <1>17, <2>1, <2>2, <2>3, ConstantsAssumption, ReleaseTyped, FailureTyped DEF
       HandoffRaises, Unlocked, Fault
<1>18. ASSUME NEW p \in Procs, Unlock(p) PROVE Typed'
  <2>1. WellFormed(Idle)
    BY DEF WellFormed, Idle, Dispatch
  <2>2. disp' \in [Procs -> Dispatch] /\ DispatchTyped'
    BY <1>18, <2>1, DispatchUpdate DEF Unlock
  <2> QED
    BY <1>18, <2>2 DEF Unlock, Unlocked
<1>19. ASSUME NEW h \in handoffs, Receive(h) PROVE Typed'
  <2>1. Reply(h) \in {"duplicate", "conflict", "busy", "accepted"}
    BY DEF Reply
  <2>2. ASSUME NEW p \in Procs PROVE WellFormed(disp'[p])
    BY <1>19, <2>1, <2>2 DEF Receive, DispatchTyped, WellFormed, Dispatch
  <2>3. disp' \in [Procs -> Dispatch] /\ DispatchTyped'
    BY <1>19, <2>2 DEF Receive, DispatchTyped, WellFormed
  <2>4. runs' \subseteq Run
    BY <1>19 DEF Receive, Handoff, Run
  <2> QED
    BY <1>19, <2>3, <2>4 DEF Receive, Unlocked
<1>20. ASSUME NEW r \in runs, ReleaseSlot(r) PROVE Typed'
    BY <1>20 DEF ReleaseSlot, Unlocked, DispatchTyped
<1>21. ASSUME NEW r \in runs, NEW o \in Outcomes, SendCallback(r, o) PROVE Typed'
    BY <1>21 DEF SendCallback, Unlocked, DispatchTyped, Run, Callback
<1>22. ASSUME NEW c \in callbacks, CallbackIgnored(c) PROVE Typed'
    BY <1>22 DEF CallbackIgnored, Unlocked, DispatchTyped
<1>23. ASSUME NEW c \in callbacks, CallbackBegin(c) PROVE Typed'
    BY <1>23 DEF CallbackBegin, Unlocked, DispatchTyped, Txn, Callback, Verdict,
       Verdicts, Outcomes
<1>24. ASSUME NEW j \in Jobs, CommitFails(j) PROVE Typed'
    BY <1>24, ConstantsAssumption DEF CommitFails, Unlocked, DispatchTyped, Fault,
       Txn, NoTxn
<1>25. ASSUME NEW j \in Jobs, NEW s \in Statuses, CallbackCommit(j, s) PROVE Typed'
  <2>1. assigned' \in [Jobs -> Executors \cup {NoExec}]
    BY <1>25 DEF CallbackCommit, Txn
  <2>2. s \in Statuses /\ (s = "completed" => applying[j].verdict \in Answers)
    BY <1>25 DEF CallbackCommit, NextStatuses, Txn, Verdicts, Outcomes, Answers, Unlocked
  <2>3. log' \subseteq Codes \X Jobs
    BY <1>25 DEF CallbackCommit
  <2>4. posts' \subseteq Post
    BY <1>25 DEF CallbackCommit, Post, Txn
  <2>5. applying' \in [Jobs -> Txn] /\ TxnTyped'
    BY <1>25, ConstantsAssumption DEF CallbackCommit, Txn, NoTxn, Unlocked
  <2> QED
    BY <1>25, <2>1, <2>2, <2>3, <2>4, <2>5 DEF CallbackCommit, DispatchTyped
<1>26. ASSUME NEW q \in posts, AfterCommit(q) PROVE Typed'
    BY <1>26, ReleaseTyped DEF AfterCommit, Unlocked, DispatchTyped, Post
<1>27. ASSUME NEW q \in posts, AfterCommitLost(q) PROVE Typed'
    BY <1>27, ConstantsAssumption DEF AfterCommitLost, Unlocked, DispatchTyped, Fault
<1>28. ASSUME NEW p \in Procs, SweepSelect(p) PROVE Typed'
    BY <1>28 DEF SweepSelect, Unlocked, DispatchTyped
<1>29. ASSUME NEW p \in Procs, SweepCommit(p) PROVE Typed'
    BY <1>29 DEF SweepCommit, Unlocked, DispatchTyped, Statuses, Terminal
<1>30. ASSUME NEW p \in Procs, Crash(p) PROVE Typed'
  <2>1. WellFormed(Idle)
    BY DEF WellFormed, Idle, Dispatch
  <2>2. disp' \in [Procs -> Dispatch] /\ DispatchTyped'
    BY <1>30, <2>1, DispatchUpdate DEF Crash
  <2> QED
    BY <1>30, <2>2, ConstantsAssumption DEF Crash, Fault, Unlocked
<1>31. ASSUME RedisLost PROVE Typed'
    BY <1>31, ConstantsAssumption DEF RedisLost, Unlocked, DispatchTyped, Fault,
       Lease, NoLease
<1>32. ASSUME MessageLost PROVE Typed'
    BY <1>32, ConstantsAssumption DEF MessageLost, Unlocked, DispatchTyped, Fault
<1>33. ASSUME NEW e \in Executors, ExecutorRestart(e) PROVE Typed'
    BY <1>33, ConstantsAssumption DEF ExecutorRestart, Unlocked, DispatchTyped, Fault
<1>34. ASSUME NEW e \in Executors, Reverify(e) PROVE Typed'
    BY <1>34 DEF Reverify, Unlocked, DispatchTyped
<1>35. ASSUME NEW gone \in SUBSET Cached, Tick(gone) PROVE Typed'
    BY <1>35 DEF Tick, Unlocked, DispatchTyped, Lease, NoLease
<1>36. CASE UNCHANGED vars
    BY <1>36 DEF vars, Unlocked, DispatchTyped
<1>37. ASSUME NEW p \in Procs, DispatchRaises(p) PROVE Typed'
  <2>1. disp' \in [Procs -> Dispatch] /\ DispatchTyped'
    BY <1>37, UnlockTyped DEF DispatchRaises
  <2>2. disp[p].job \in Jobs
    BY <1>37 DEF DispatchRaises, DispatchTyped, WellFormed
  <2> QED
    BY <1>37, <2>1, <2>2, ConstantsAssumption, ReleaseTyped DEF DispatchRaises,
       Unlocked, Fault
<1> QED
    BY <1>1, <1>2, <1>3, <1>4, <1>5, <1>6, <1>7, <1>8, <1>9, <1>10, <1>11,
       <1>12, <1>13, <1>14, <1>15, <1>16, <1>17, <1>18, <1>19, <1>20, <1>21,
       <1>22, <1>23, <1>24, <1>25, <1>26, <1>27, <1>28, <1>29, <1>30, <1>31,
       <1>32, <1>33, <1>34, <1>35, <1>36, <1>37
    DEF Next, Request, Dispatching, Executing, Completing, Cleaning, Failing

\* Type correctness of the whole coordination state.
THEOREM TypeCorrect == Spec => []TypeOK
<1>1. Spec => []Typed
    BY InitTyped, NextTyped, PTL DEF Spec
<1>2. Typed => TypeOK
    BY DEF Typed
<1> QED
    BY <1>1, <1>2, PTL

----------------------------------------------------------------------------
(* The inductive invariant *)

\* Only created jobs are queued, dispatched, swept or awaiting a follow-up.
CreatedFirst ==
    /\ \A j \in queue : status[j] # "none"
    /\ \A q \in posts : status[q.job] # "none"
    /\ \A p \in Procs : disp[p].pc # "idle" => status[disp[p].job] # "none"
    /\ \A p \in Procs : \A j \in sweep[p] : status[j] # "none"

\* The two writes of timeout that skip the row lock hit overdue jobs only: the
\* row was overdue when it was read, and time does not go back.
OverdueOnly ==
    /\ \A p \in Procs : disp[p].pc = "expire" => Spent(disp[p].job)
    /\ \A p \in Procs : \A j \in sweep[p] : Expired(j)

\* complete() holds only rows that are still open: everyone else waits for them.
LockedIsOpen == \A j \in Jobs : ~Unlocked(j) => status[j] \in Open

\* A code about to be committed is in no log entry and in no other transaction,
\* and the cached result is that code.
FreshVerdict ==
    \A j \in Jobs : applying[j].verdict \in Codes =>
        /\ ~Delivered(applying[j].verdict)
        /\ \A k \in Jobs : applying[k].verdict = applying[j].verdict => k = j
        /\ result[j] \in {NoCode, applying[j].verdict}

\* A job with a log entry is settled for good.
DeliveredIsSettled == \A a \in log : status[a[2]] \notin Open \cup {"none"}

Inv == /\ Typed /\ CreatedFirst /\ OverdueOnly /\ LockedIsOpen /\ FreshVerdict
       /\ DeliveredIsSettled /\ OneDelivery /\ ResultMatchesDelivery

\* The invariant holds before the first lookup.
LEMMA InitInv == Init => Inv
<1> SUFFICES ASSUME Init PROVE Inv
    OBVIOUS
<1>1. Typed
    BY InitTyped
<1> QED
    BY <1>1, ConstantsAssumption DEF Init, Inv, CreatedFirst, OverdueOnly, LockedIsOpen,
       FreshVerdict, DeliveredIsSettled, OneDelivery, ResultMatchesDelivery, Unlocked,
       NoTxn, Idle

\* Steps that write no row, no log entry and no transaction keep what is said of
\* them; a cached result may go at any time.
LEMMA RowFrame ==
    ASSUME Inv, UNCHANGED <<status, answer, log, applying>>,
           \A j \in Jobs : result'[j] \in {NoCode, result[j]}
    PROVE  /\ LockedIsOpen' /\ FreshVerdict' /\ DeliveredIsSettled'
           /\ OneDelivery' /\ ResultMatchesDelivery'
<1>1. LockedIsOpen' /\ DeliveredIsSettled' /\ OneDelivery'
    BY DEF Inv, LockedIsOpen, DeliveredIsSettled, OneDelivery, Unlocked
<1>2. FreshVerdict'
    BY DEF Inv, FreshVerdict, Delivered
<1>3. ResultMatchesDelivery'
    BY DEF Inv, ResultMatchesDelivery
<1> QED
    BY <1>1, <1>2, <1>3

\* A step that leaves the delivery log, the answers, the results and the open
\* transactions alone, and takes settled rows nowhere but to another end, keeps
\* the facts about deliveries.
LEMMA SettleFrame ==
    ASSUME Inv, UNCHANGED <<answer, log, applying, result>>, status' \in [Jobs -> Statuses],
           \A j \in Jobs : status[j] \notin Open \cup {"none"} => status'[j] \notin Open \cup {"none"},
           \A j \in Jobs : status'[j] = "completed" => status[j] = "completed"
    PROVE  FreshVerdict' /\ DeliveredIsSettled' /\ OneDelivery' /\ ResultMatchesDelivery'
<1>1. FreshVerdict'
    BY DEF Inv, FreshVerdict, Delivered
<1>2. DeliveredIsSettled' /\ OneDelivery'
    BY DEF Inv, Typed, TypeOK, DeliveredIsSettled, OneDelivery
<1>3. ResultMatchesDelivery'
    BY DEF Inv, ResultMatchesDelivery
<1> QED
    BY <1>1, <1>2, <1>3

\* Every step keeps the invariant.
LEMMA NextInv == Inv /\ [Next]_vars => Inv'
<1> SUFFICES ASSUME Inv, [Next]_vars PROVE Inv'
    OBVIOUS
<1>0. Typed'
    BY NextTyped DEF Inv
<1>a. TypeOK /\ DispatchTyped /\ TxnTyped
    BY DEF Inv, Typed
<1> USE DEF clock, db, redis, back, net
<1>1. ASSUME NEW j \in Jobs, Create(j) PROVE Inv'
  <2>1. CreatedFirst'
    BY <1>a, <1>1 DEF Create, Inv, CreatedFirst, TypeOK, DispatchTyped, WellFormed,
       Idle, ToUnlock, Post, Open
  <2>2. OverdueOnly'
    BY <1>a, <1>1 DEF Create, Inv, OverdueOnly, CreatedFirst, TypeOK, DispatchTyped,
       WellFormed, Spent, Expired, Idle, ToUnlock
  <2>3. LockedIsOpen'
    BY <1>a, <1>1 DEF Create, Inv, LockedIsOpen, TypeOK, Unlocked, Open
  <2>4. FreshVerdict' /\ DeliveredIsSettled' /\ OneDelivery' /\ ResultMatchesDelivery'
    BY <1>0, <1>a, <1>1, SettleFrame DEF Create, Inv, Typed, TypeOK, CreatedFirst,
       DispatchTyped, WellFormed, Open
  <2> QED
    BY <1>0, <2>1, <2>2, <2>3, <2>4 DEF Inv
<1>2. ASSUME NEW j \in Jobs, PollTimeout(j) PROVE Inv'
  <2>1. CreatedFirst'
    BY <1>a, <1>2 DEF PollTimeout, Inv, CreatedFirst, TypeOK, DispatchTyped,
       WellFormed, Idle, ToUnlock, Post, Open
  <2>2. OverdueOnly'
    BY <1>a, <1>2 DEF PollTimeout, Inv, OverdueOnly, CreatedFirst, TypeOK,
       DispatchTyped, WellFormed, Spent, Expired, Idle, ToUnlock
  <2>3. LockedIsOpen'
    BY <1>a, <1>2 DEF PollTimeout, Inv, LockedIsOpen, TypeOK, Unlocked, Open
  <2>4. FreshVerdict' /\ DeliveredIsSettled' /\ OneDelivery' /\ ResultMatchesDelivery'
    BY <1>0, <1>a, <1>2, SettleFrame DEF PollTimeout, Inv, Typed, TypeOK,
       CreatedFirst, DispatchTyped, WellFormed, Open
  <2> QED
    BY <1>0, <2>1, <2>2, <2>3, <2>4 DEF Inv
<1>3. ASSUME NEW j \in Jobs, PollReschedule(j) PROVE Inv'
  <2>1. CreatedFirst'
    BY <1>a, <1>3 DEF PollReschedule, Inv, CreatedFirst, TypeOK, DispatchTyped,
       WellFormed, Idle, ToUnlock
  <2>2. OverdueOnly'
    BY <1>a, <1>3 DEF PollReschedule, Inv, OverdueOnly, TypeOK, DispatchTyped,
       Spent, Expired, Idle, ToUnlock
  <2> QED
    BY <1>0, <1>a, <1>3, <2>1, <2>2, RowFrame DEF PollReschedule, Inv, TypeOK
<1>4. ASSUME NEW j \in Jobs, NEW release \in BOOLEAN, Cancel(j, release) PROVE Inv'
  <2>1. CreatedFirst'
    BY <1>a, <1>4 DEF Cancel, Inv, CreatedFirst, TypeOK, DispatchTyped, WellFormed,
       Idle, ToUnlock, Post, Open
  <2>2. OverdueOnly'
    BY <1>a, <1>4 DEF Cancel, Inv, OverdueOnly, CreatedFirst, TypeOK, DispatchTyped,
       WellFormed, Spent, Expired, Idle, ToUnlock
  <2>3. LockedIsOpen'
    BY <1>a, <1>4 DEF Cancel, Inv, LockedIsOpen, TypeOK, Unlocked, Open
  <2>4. FreshVerdict' /\ DeliveredIsSettled' /\ OneDelivery' /\ ResultMatchesDelivery'
    BY <1>0, <1>a, <1>4, SettleFrame DEF Cancel, Inv, Typed, TypeOK, CreatedFirst,
       DispatchTyped, WellFormed, Open
  <2> QED
    BY <1>0, <2>1, <2>2, <2>3, <2>4 DEF Inv
<1>5. ASSUME NEW p \in Procs, NEW j \in Jobs, Pop(p, j) PROVE Inv'
  <2>1. CASE lock[j] # 0
    <3>1. CreatedFirst' /\ OverdueOnly'
        BY <1>5, <2>1 DEF Pop, Inv, CreatedFirst, OverdueOnly, Spent, Expired
    <3> QED
        BY <1>0, <1>5, <3>1, RowFrame DEF Pop, Inv
  <2>2. CASE lock[j] = 0
    <3>1. \A o \in Procs : disp'[o] = IF o = p THEN [Idle EXCEPT !.pc = "read", !.job = j]
                                             ELSE disp[o]
        BY <1>a, <1>5, <2>2 DEF Pop, TypeOK
    <3>2. CreatedFirst'
        BY <1>5, <3>1 DEF Pop, Inv, CreatedFirst, Idle
    <3>3. OverdueOnly'
        BY <1>5, <3>1 DEF Pop, Inv, OverdueOnly, Spent, Expired, Idle
    <3> QED
        BY <1>0, <1>5, <3>2, <3>3, RowFrame DEF Pop, Inv
  <2> QED
    BY <2>1, <2>2
<1>6. ASSUME NEW p \in Procs, ReadJob(p) PROVE Inv'
  <2>1. CreatedFirst'
    BY <1>a, <1>6 DEF ReadJob, Inv, CreatedFirst, TypeOK, DispatchTyped, WellFormed,
       Idle, ToUnlock
  <2>2. OverdueOnly'
    BY <1>a, <1>6 DEF ReadJob, Inv, OverdueOnly, TypeOK, DispatchTyped, Spent,
       Expired, Idle, ToUnlock
  <2> QED
    BY <1>0, <1>a, <1>6, <2>1, <2>2, RowFrame DEF ReadJob, Inv, TypeOK
<1>7. ASSUME NEW p \in Procs, ExpireJob(p) PROVE Inv'
  <2>1. CreatedFirst'
    BY <1>a, <1>7 DEF ExpireJob, Inv, CreatedFirst, TypeOK, DispatchTyped,
       WellFormed, Idle, ToUnlock, Post, Open
  <2>2. OverdueOnly'
    BY <1>a, <1>7 DEF ExpireJob, Inv, OverdueOnly, CreatedFirst, TypeOK,
       DispatchTyped, WellFormed, Spent, Expired, Idle, ToUnlock
  <2>3. LockedIsOpen'
    BY <1>a, <1>7 DEF ExpireJob, Inv, LockedIsOpen, TypeOK, Unlocked, Open
  <2>4. FreshVerdict' /\ DeliveredIsSettled' /\ OneDelivery' /\ ResultMatchesDelivery'
    BY <1>0, <1>a, <1>7, SettleFrame DEF ExpireJob, Inv, Typed, TypeOK,
       CreatedFirst, DispatchTyped, WellFormed, Open
  <2> QED
    BY <1>0, <2>1, <2>2, <2>3, <2>4 DEF Inv
<1>8. ASSUME NEW p \in Procs, NEW e \in Executors, SelectExecutor(p, e) PROVE Inv'
  <2>1. CreatedFirst'
    BY <1>a, <1>8 DEF SelectExecutor, Inv, CreatedFirst, TypeOK, DispatchTyped,
       WellFormed, Idle, ToUnlock
  <2>2. OverdueOnly'
    BY <1>a, <1>8 DEF SelectExecutor, Inv, OverdueOnly, TypeOK, DispatchTyped,
       Spent, Expired, Idle, ToUnlock
  <2> QED
    BY <1>0, <1>a, <1>8, <2>1, <2>2, RowFrame DEF SelectExecutor, Inv, TypeOK
<1>9. ASSUME NEW p \in Procs, Requeue(p) PROVE Inv'
  <2>1. CreatedFirst'
    BY <1>a, <1>9 DEF Requeue, Inv, CreatedFirst, TypeOK, DispatchTyped, WellFormed,
       Idle, ToUnlock
  <2>2. OverdueOnly'
    BY <1>a, <1>9 DEF Requeue, Inv, OverdueOnly, TypeOK, DispatchTyped, Spent,
       Expired, Idle, ToUnlock
  <2> QED
    BY <1>0, <1>a, <1>9, <2>1, <2>2, RowFrame DEF Requeue, Inv, TypeOK
<1>10. ASSUME NEW p \in Procs, ReserveLease(p) PROVE Inv'
  <2>1. CreatedFirst'
    BY <1>a, <1>10 DEF ReserveLease, Inv, CreatedFirst, TypeOK, DispatchTyped,
       WellFormed, Idle, ToUnlock
  <2>2. OverdueOnly'
    BY <1>a, <1>10 DEF ReserveLease, Inv, OverdueOnly, TypeOK, DispatchTyped, Spent,
       Expired, Idle, ToUnlock
  <2> QED
    BY <1>0, <1>a, <1>10, <2>1, <2>2, RowFrame DEF ReserveLease, Inv, TypeOK
<1>11. ASSUME NEW p \in Procs, SendHandoff(p) PROVE Inv'
  <2>1. CreatedFirst'
    BY <1>a, <1>11 DEF SendHandoff, Inv, CreatedFirst, TypeOK, DispatchTyped,
       WellFormed, Idle, ToUnlock
  <2>2. OverdueOnly'
    BY <1>a, <1>11 DEF SendHandoff, Inv, OverdueOnly, TypeOK, DispatchTyped, Spent,
       Expired, Idle, ToUnlock
  <2> QED
    BY <1>0, <1>a, <1>11, <2>1, <2>2, RowFrame DEF SendHandoff, Inv, TypeOK
<1>12. ASSUME NEW p \in Procs, EnvelopeFails(p) PROVE Inv'
  <2>1. CreatedFirst'
    BY <1>a, <1>12 DEF EnvelopeFails, Inv, CreatedFirst, TypeOK, DispatchTyped,
       WellFormed, Idle, ToUnlock
  <2>2. OverdueOnly'
    BY <1>a, <1>12 DEF EnvelopeFails, Inv, OverdueOnly, TypeOK, DispatchTyped,
       Spent, Expired, Idle, ToUnlock
  <2> QED
    BY <1>0, <1>a, <1>12, <2>1, <2>2, RowFrame DEF EnvelopeFails, Inv, TypeOK
<1>13. ASSUME NEW p \in Procs, HandoffMoot(p) PROVE Inv'
  <2>1. CreatedFirst'
    BY <1>a, <1>13 DEF HandoffMoot, Inv, CreatedFirst, TypeOK, DispatchTyped,
       WellFormed, Idle, ToUnlock, Post, Open
  <2>2. OverdueOnly'
    BY <1>a, <1>13 DEF HandoffMoot, Inv, OverdueOnly, CreatedFirst, TypeOK,
       DispatchTyped, WellFormed, Spent, Expired, Idle, ToUnlock
  <2>3. LockedIsOpen'
    BY <1>a, <1>13 DEF HandoffMoot, Inv, LockedIsOpen, TypeOK, Unlocked, Open
  <2>4. FreshVerdict' /\ DeliveredIsSettled' /\ OneDelivery' /\ ResultMatchesDelivery'
    BY <1>0, <1>a, <1>13, SettleFrame DEF HandoffMoot, Inv, Typed, TypeOK,
       CreatedFirst, DispatchTyped, WellFormed, Open
  <2> QED
    BY <1>0, <2>1, <2>2, <2>3, <2>4 DEF Inv
<1>14. ASSUME NEW p \in Procs, HandoffAccepted(p) PROVE Inv'
  <2>1. CreatedFirst'
    BY <1>a, <1>14 DEF HandoffAccepted, Inv, CreatedFirst, TypeOK, DispatchTyped,
       WellFormed, Idle, ToUnlock, Post, Open
  <2>2. OverdueOnly'
    BY <1>a, <1>14 DEF HandoffAccepted, Inv, OverdueOnly, CreatedFirst, TypeOK,
       DispatchTyped, WellFormed, Spent, Expired, Idle, ToUnlock
  <2>3. LockedIsOpen'
    BY <1>a, <1>14 DEF HandoffAccepted, Inv, LockedIsOpen, TypeOK, Unlocked, Open
  <2>4. FreshVerdict' /\ DeliveredIsSettled' /\ OneDelivery' /\ ResultMatchesDelivery'
    BY <1>0, <1>a, <1>14, SettleFrame DEF HandoffAccepted, Inv, Typed, TypeOK,
       CreatedFirst, DispatchTyped, WellFormed, Open
  <2> QED
    BY <1>0, <2>1, <2>2, <2>3, <2>4 DEF Inv
<1>15. ASSUME NEW p \in Procs, HandoffRefused(p) PROVE Inv'
  <2>1. CreatedFirst'
    BY <1>a, <1>15 DEF HandoffRefused, Inv, CreatedFirst, TypeOK, DispatchTyped,
       WellFormed, Idle, ToUnlock
  <2>2. OverdueOnly'
    BY <1>a, <1>15 DEF HandoffRefused, Inv, OverdueOnly, TypeOK, DispatchTyped,
       Spent, Expired, Idle, ToUnlock
  <2> QED
    BY <1>0, <1>a, <1>15, <2>1, <2>2, RowFrame DEF HandoffRefused, Inv, TypeOK
<1>16. ASSUME NEW p \in Procs, HandoffFails(p) PROVE Inv'
  <2>1. CreatedFirst'
    BY <1>a, <1>16 DEF HandoffFails, Inv, CreatedFirst, TypeOK, DispatchTyped,
       WellFormed, Idle, ToUnlock
  <2>2. OverdueOnly'
    BY <1>a, <1>16 DEF HandoffFails, Inv, OverdueOnly, TypeOK, DispatchTyped, Spent,
       Expired, Idle, ToUnlock
  <2> QED
    BY <1>0, <1>a, <1>16, <2>1, <2>2, RowFrame DEF HandoffFails, Inv, TypeOK
<1>17. ASSUME NEW p \in Procs, HandoffRaises(p) PROVE Inv'
  <2>1. CreatedFirst'
    BY <1>a, <1>17 DEF HandoffRaises, Inv, CreatedFirst, TypeOK, DispatchTyped,
       WellFormed, Idle, ToUnlock
  <2>2. OverdueOnly'
    BY <1>a, <1>17 DEF HandoffRaises, Inv, OverdueOnly, TypeOK, DispatchTyped,
       Spent, Expired, Idle, ToUnlock
  <2> QED
    BY <1>0, <1>a, <1>17, <2>1, <2>2, RowFrame DEF HandoffRaises, Inv, TypeOK
<1>18. ASSUME NEW p \in Procs, Unlock(p) PROVE Inv'
  <2>1. CreatedFirst'
    BY <1>a, <1>18 DEF Unlock, Inv, CreatedFirst, TypeOK, DispatchTyped, WellFormed,
       Idle, ToUnlock
  <2>2. OverdueOnly'
    BY <1>a, <1>18 DEF Unlock, Inv, OverdueOnly, TypeOK, DispatchTyped, Spent,
       Expired, Idle, ToUnlock
  <2> QED
    BY <1>0, <1>a, <1>18, <2>1, <2>2, RowFrame DEF Unlock, Inv, TypeOK
<1>19. ASSUME NEW h \in handoffs, Receive(h) PROVE Inv'
  <2>1. CreatedFirst'
    BY <1>a, <1>19 DEF Receive, Inv, CreatedFirst, TypeOK, DispatchTyped,
       WellFormed, Idle, ToUnlock
  <2>2. OverdueOnly'
    BY <1>a, <1>19 DEF Receive, Inv, OverdueOnly, TypeOK, DispatchTyped, Spent,
       Expired, Idle, ToUnlock
  <2> QED
    BY <1>0, <1>a, <1>19, <2>1, <2>2, RowFrame DEF Receive, Inv, TypeOK
<1>20. ASSUME NEW r \in runs, ReleaseSlot(r) PROVE Inv'
  <2>1. CreatedFirst'
    BY <1>a, <1>20 DEF ReleaseSlot, Inv, CreatedFirst, TypeOK, DispatchTyped,
       WellFormed, Idle, ToUnlock
  <2>2. OverdueOnly'
    BY <1>a, <1>20 DEF ReleaseSlot, Inv, OverdueOnly, TypeOK, DispatchTyped, Spent,
       Expired, Idle, ToUnlock
  <2> QED
    BY <1>0, <1>a, <1>20, <2>1, <2>2, RowFrame DEF ReleaseSlot, Inv, TypeOK
<1>21. ASSUME NEW r \in runs, NEW o \in Outcomes, SendCallback(r, o) PROVE Inv'
  <2>1. CreatedFirst'
    BY <1>a, <1>21 DEF SendCallback, Inv, CreatedFirst, TypeOK, DispatchTyped,
       WellFormed, Idle, ToUnlock
  <2>2. OverdueOnly'
    BY <1>a, <1>21 DEF SendCallback, Inv, OverdueOnly, TypeOK, DispatchTyped, Spent,
       Expired, Idle, ToUnlock
  <2> QED
    BY <1>0, <1>a, <1>21, <2>1, <2>2, RowFrame DEF SendCallback, Inv, TypeOK
<1>22. ASSUME NEW c \in callbacks, CallbackIgnored(c) PROVE Inv'
  <2>1. CreatedFirst'
    BY <1>a, <1>22 DEF CallbackIgnored, Inv, CreatedFirst, TypeOK, DispatchTyped,
       WellFormed, Idle, ToUnlock
  <2>2. OverdueOnly'
    BY <1>a, <1>22 DEF CallbackIgnored, Inv, OverdueOnly, TypeOK, DispatchTyped,
       Spent, Expired, Idle, ToUnlock
  <2> QED
    BY <1>0, <1>a, <1>22, <2>1, <2>2, RowFrame DEF CallbackIgnored, Inv, TypeOK
<1>23. ASSUME NEW c \in callbacks, CallbackBegin(c) PROVE Inv'
  <2> DEFINE j == c.job
             v == Verdict(c)
  <2>1. j \in Jobs /\ status[j] \in Open /\ c.outcome \in Outcomes
    BY <1>a, <1>23 DEF CallbackBegin, Acceptable, TypeOK, Callback
  <2>2. applying' = [applying EXCEPT ![j] = [exec |-> c.exec, lease |-> c.lease, verdict |-> v]]
    BY <1>23 DEF CallbackBegin
  <2>3. UNCHANGED <<status, answer, log>>
    BY <1>23 DEF CallbackBegin
  <2>4. v \in Codes => v = c.outcome /\ ~Delivered(v) /\ ~InsertWaits(v)
    BY <1>23, ConstantsAssumption DEF CallbackBegin, Verdict
  <2>5. result' = IF v \in Codes THEN [result EXCEPT ![j] = v] ELSE result
    BY <1>23 DEF CallbackBegin
  <2>6. CreatedFirst' /\ OverdueOnly'
    BY <1>23 DEF CallbackBegin, Inv, CreatedFirst, OverdueOnly, Spent, Expired
  <2> HIDE DEF j, v
  <2>7. \A k \in Jobs : applying'[k].verdict = IF k = j THEN v ELSE applying[k].verdict
    BY <1>a, <2>1, <2>2 DEF TypeOK
  <2>8. LockedIsOpen'
    BY <2>1, <2>3, <2>7 DEF Inv, LockedIsOpen, Unlocked
  <2>9. FreshVerdict'
    <3> SUFFICES ASSUME NEW k \in Jobs, applying'[k].verdict \in Codes
                 PROVE  /\ \A i \in Jobs : <<applying'[k].verdict, i>> \notin log'
                        /\ \A i \in Jobs : applying'[i].verdict = applying'[k].verdict => i = k
                        /\ result'[k] \in {NoCode, applying'[k].verdict}
        BY DEF FreshVerdict, Delivered
    <3>1. CASE k = j
        BY <1>a, <2>1, <2>3, <2>4, <2>5, <2>7, <3>1 DEF Delivered, InsertWaits, TypeOK
    <3>2. CASE k # j
        BY <1>a, <2>1, <2>3, <2>4, <2>5, <2>7, <3>2 DEF Inv, FreshVerdict,
           Delivered, InsertWaits, TypeOK
    <3> QED
        BY <3>1, <3>2
  <2>10. DeliveredIsSettled' /\ OneDelivery'
    BY <2>3 DEF Inv, DeliveredIsSettled, OneDelivery
  <2>11. ResultMatchesDelivery'
    BY <1>a, <2>1, <2>3, <2>5 DEF Inv, ResultMatchesDelivery, TypeOK, Open
  <2> QED
    BY <1>0, <2>6, <2>8, <2>9, <2>10, <2>11 DEF Inv
<1>24. ASSUME NEW j \in Jobs, CommitFails(j) PROVE Inv'
  <2>1. CreatedFirst' /\ OverdueOnly'
    BY <1>24 DEF CommitFails, Inv, CreatedFirst, OverdueOnly, Spent, Expired
  <2>2. LockedIsOpen' /\ DeliveredIsSettled' /\ OneDelivery' /\ ResultMatchesDelivery'
    BY <1>a, <1>24 DEF CommitFails, Inv, TypeOK, LockedIsOpen, DeliveredIsSettled,
       OneDelivery,
       ResultMatchesDelivery, Unlocked, NoTxn
  <2>3. FreshVerdict'
    BY <1>a, <1>24, ConstantsAssumption DEF CommitFails, Inv, TypeOK, FreshVerdict,
       Delivered, NoTxn
  <2> QED
    BY <1>0, <2>1, <2>2, <2>3 DEF Inv
<1>25. ASSUME NEW j \in Jobs, NEW s \in Statuses, CallbackCommit(j, s) PROVE Inv'
  <2> DEFINE v == applying[j].verdict
  <2>1. status[j] \in Open /\ s \in Statuses \ {"none"}
    BY <1>25 DEF CallbackCommit, Inv, LockedIsOpen, NextStatuses
  <2>2. status' = [status EXCEPT ![j] = s] /\ applying' = [applying EXCEPT ![j] = NoTxn]
    BY <1>25 DEF CallbackCommit
  <2>3. v \in Codes => s = "completed"
    BY <1>25, ConstantsAssumption DEF CallbackCommit, NextStatuses
  <2>4. log' = IF v \in Codes THEN log \cup {<<v, j>>} ELSE log
    BY <1>25 DEF CallbackCommit
  <2>5. answer' = IF s = "completed" THEN [answer EXCEPT ![j] = v] ELSE answer
    BY <1>25 DEF CallbackCommit
  <2>6. UNCHANGED <<result, queue, disp, sweep, now, requested>>
    BY <1>25 DEF CallbackCommit
  <2>7. posts' = posts \cup {[job |-> j, lease |-> applying[j].lease,
                   then |-> IF s = "pending" THEN "requeue" ELSE "release"]}
    BY <1>25 DEF CallbackCommit
  <2>8. v \in Codes => ~Delivered(v) /\ result[j] \in {NoCode, v}
    BY DEF Inv, FreshVerdict
  <2>9. \A k \in Jobs : status'[k] = IF k = j THEN s ELSE status[k]
    BY <1>a, <2>2 DEF TypeOK
  <2>10. \A k \in Jobs : applying'[k].verdict = IF k = j THEN "none" ELSE applying[k].verdict
    BY <1>a, <2>2 DEF TypeOK, NoTxn
  <2> HIDE DEF v
  <2>11. CreatedFirst'
    BY <1>a, <2>1, <2>6, <2>7, <2>9 DEF Inv, CreatedFirst, TypeOK, DispatchTyped,
       WellFormed, Post
  <2>12. OverdueOnly'
    BY <2>6 DEF Inv, OverdueOnly, Spent, Expired
  <2>13. LockedIsOpen'
    BY <2>9, <2>10 DEF Inv, LockedIsOpen, Unlocked
  <2>14. FreshVerdict'
    BY <2>4, <2>6, <2>10, ConstantsAssumption DEF Inv, FreshVerdict, Delivered, v
  <2>15. DeliveredIsSettled'
    BY <1>a, <2>1, <2>3, <2>4, <2>9 DEF Inv, DeliveredIsSettled, TypeOK, Open
  <2>16. OneDelivery'
    <3>1. \A a \in log : a[2] # j
        BY <2>1 DEF Inv, DeliveredIsSettled
    <3>2. \A a \in log : a = <<a[1], a[2]>> /\ a[2] \in Jobs
        BY <1>a DEF TypeOK
    <3>3. v \in Codes => \A a \in log : a[1] # v
        BY <2>8, <3>2 DEF Delivered
    <3> QED
        BY <2>4, <3>1, <3>3 DEF Inv, OneDelivery
  <2>17. ResultMatchesDelivery'
    BY <1>a, <2>4, <2>5, <2>6, <2>8, <2>9 DEF Inv, ResultMatchesDelivery, TypeOK
  <2> QED
    BY <1>0, <2>11, <2>12, <2>13, <2>14, <2>15, <2>16, <2>17 DEF Inv
<1>26. ASSUME NEW q \in posts, AfterCommit(q) PROVE Inv'
  <2>1. CreatedFirst'
    BY <1>a, <1>26 DEF AfterCommit, Inv, CreatedFirst, TypeOK, DispatchTyped,
       WellFormed, Idle, ToUnlock
  <2>2. OverdueOnly'
    BY <1>a, <1>26 DEF AfterCommit, Inv, OverdueOnly, TypeOK, DispatchTyped, Spent,
       Expired, Idle, ToUnlock
  <2> QED
    BY <1>0, <1>a, <1>26, <2>1, <2>2, RowFrame DEF AfterCommit, Inv, TypeOK
<1>27. ASSUME NEW q \in posts, AfterCommitLost(q) PROVE Inv'
  <2>1. CreatedFirst'
    BY <1>a, <1>27 DEF AfterCommitLost, Inv, CreatedFirst, TypeOK, DispatchTyped,
       WellFormed, Idle, ToUnlock
  <2>2. OverdueOnly'
    BY <1>a, <1>27 DEF AfterCommitLost, Inv, OverdueOnly, TypeOK, DispatchTyped,
       Spent, Expired, Idle, ToUnlock
  <2> QED
    BY <1>0, <1>a, <1>27, <2>1, <2>2, RowFrame DEF AfterCommitLost, Inv, TypeOK
<1>28. ASSUME NEW p \in Procs, SweepSelect(p) PROVE Inv'
  <2>1. CreatedFirst'
    BY <1>a, <1>28 DEF SweepSelect, Inv, CreatedFirst, TypeOK, DispatchTyped,
       WellFormed, Idle, ToUnlock, Open
  <2>2. OverdueOnly'
    BY <1>a, <1>28 DEF SweepSelect, Inv, OverdueOnly, TypeOK, DispatchTyped, Spent,
       Expired, Idle, ToUnlock
  <2> QED
    BY <1>0, <1>a, <1>28, <2>1, <2>2, RowFrame DEF SweepSelect, Inv, TypeOK
<1>29. ASSUME NEW p \in Procs, SweepCommit(p) PROVE Inv'
  <2>1. CreatedFirst'
    BY <1>a, <1>29 DEF SweepCommit, Inv, CreatedFirst, TypeOK, DispatchTyped,
       WellFormed, Idle, ToUnlock, Post, Open
  <2>2. OverdueOnly'
    BY <1>a, <1>29 DEF SweepCommit, Inv, OverdueOnly, CreatedFirst, TypeOK,
       DispatchTyped, WellFormed, Spent, Expired, Idle, ToUnlock
  <2>3. LockedIsOpen'
    BY <1>a, <1>29 DEF SweepCommit, Inv, LockedIsOpen, TypeOK, Unlocked, Open
  <2>4. FreshVerdict' /\ DeliveredIsSettled' /\ OneDelivery' /\ ResultMatchesDelivery'
    BY <1>0, <1>a, <1>29, SettleFrame DEF SweepCommit, Inv, Typed, TypeOK,
       CreatedFirst, DispatchTyped, WellFormed, Open
  <2> QED
    BY <1>0, <2>1, <2>2, <2>3, <2>4 DEF Inv
<1>30. ASSUME NEW p \in Procs, Crash(p) PROVE Inv'
  <2>1. CreatedFirst'
    BY <1>a, <1>30 DEF Crash, Inv, CreatedFirst, TypeOK, DispatchTyped, WellFormed,
       Idle, ToUnlock
  <2>2. OverdueOnly'
    BY <1>a, <1>30 DEF Crash, Inv, OverdueOnly, TypeOK, DispatchTyped, Spent,
       Expired, Idle, ToUnlock
  <2> QED
    BY <1>0, <1>a, <1>30, <2>1, <2>2, RowFrame DEF Crash, Inv, TypeOK
<1>31. ASSUME RedisLost PROVE Inv'
  <2>1. CreatedFirst' /\ OverdueOnly'
    BY <1>a, <1>31, ConstantsAssumption DEF RedisLost, Inv, CreatedFirst,
       OverdueOnly, Spent, Expired, TypeOK,
       DispatchTyped, WellFormed
  <2> QED
    BY <1>0, <1>31, <2>1, RowFrame DEF RedisLost, Inv
<1>32. ASSUME MessageLost PROVE Inv'
  <2>1. CreatedFirst'
    BY <1>a, <1>32 DEF MessageLost, Inv, CreatedFirst, TypeOK, DispatchTyped,
       WellFormed, Idle, ToUnlock
  <2>2. OverdueOnly'
    BY <1>a, <1>32 DEF MessageLost, Inv, OverdueOnly, TypeOK, DispatchTyped, Spent,
       Expired, Idle, ToUnlock
  <2> QED
    BY <1>0, <1>a, <1>32, <2>1, <2>2, RowFrame DEF MessageLost, Inv, TypeOK
<1>33. ASSUME NEW e \in Executors, ExecutorRestart(e) PROVE Inv'
  <2>1. CreatedFirst'
    BY <1>a, <1>33 DEF ExecutorRestart, Inv, CreatedFirst, TypeOK, DispatchTyped,
       WellFormed, Idle, ToUnlock
  <2>2. OverdueOnly'
    BY <1>a, <1>33 DEF ExecutorRestart, Inv, OverdueOnly, TypeOK, DispatchTyped,
       Spent, Expired, Idle, ToUnlock
  <2> QED
    BY <1>0, <1>a, <1>33, <2>1, <2>2, RowFrame DEF ExecutorRestart, Inv, TypeOK
<1>34. ASSUME NEW e \in Executors, Reverify(e) PROVE Inv'
  <2>1. CreatedFirst'
    BY <1>a, <1>34 DEF Reverify, Inv, CreatedFirst, TypeOK, DispatchTyped,
       WellFormed, Idle, ToUnlock
  <2>2. OverdueOnly'
    BY <1>a, <1>34 DEF Reverify, Inv, OverdueOnly, TypeOK, DispatchTyped, Spent,
       Expired, Idle, ToUnlock
  <2> QED
    BY <1>0, <1>a, <1>34, <2>1, <2>2, RowFrame DEF Reverify, Inv, TypeOK
<1>35. ASSUME NEW gone \in SUBSET Cached, Tick(gone) PROVE Inv'
  <2>1. CreatedFirst' /\ OverdueOnly'
    BY <1>a, <1>35, ConstantsAssumption DEF Tick, Inv, CreatedFirst, OverdueOnly,
       Spent, Expired, TypeOK,
       DispatchTyped, WellFormed
  <2> QED
    BY <1>0, <1>35, <2>1, RowFrame DEF Tick, Inv
<1>36. CASE UNCHANGED vars
  <2>1. CreatedFirst' /\ OverdueOnly'
    BY <1>36 DEF vars, Inv, CreatedFirst, OverdueOnly, Spent, Expired
  <2> QED
    BY <1>0, <1>36, <2>1, RowFrame DEF vars, Inv
<1>37. ASSUME NEW p \in Procs, DispatchRaises(p) PROVE Inv'
  <2>1. CreatedFirst'
    BY <1>a, <1>37 DEF DispatchRaises, Inv, CreatedFirst, TypeOK, DispatchTyped,
       WellFormed, Idle, ToUnlock
  <2>2. OverdueOnly'
    BY <1>a, <1>37 DEF DispatchRaises, Inv, OverdueOnly, TypeOK, DispatchTyped,
       Spent, Expired, Idle, ToUnlock
  <2> QED
    BY <1>0, <1>a, <1>37, <2>1, <2>2, RowFrame DEF DispatchRaises, Inv, TypeOK
<1> QED
    BY <1>1, <1>2, <1>3, <1>4, <1>5, <1>6, <1>7, <1>8, <1>9, <1>10, <1>11,
       <1>12, <1>13, <1>14, <1>15, <1>16, <1>17, <1>18, <1>19, <1>20, <1>21,
       <1>22, <1>23, <1>24, <1>25, <1>26, <1>27, <1>28, <1>29, <1>30, <1>31,
       <1>32, <1>33, <1>34, <1>35, <1>36, <1>37
    DEF Next, Request, Dispatching, Executing, Completing, Cleaning, Failing

\* The invariant holds in every reachable state.
LEMMA Invariance == Spec => []Inv
BY InitInv, NextInv, PTL DEF Spec

\* A code is delivered to one job at most and a job gets one code at most,
\* through record_delivery_atomic and the row lock of complete().
THEOREM ExactlyOnce == Spec => []OneDelivery
<1>1. Inv => OneDelivery
    BY DEF Inv
<1> QED
    BY <1>1, Invariance, PTL

\* The cached result of a completed job is the code that was delivered to it.
THEOREM ResultCorrect == Spec => []ResultMatchesDelivery
<1>1. Inv => ResultMatchesDelivery
    BY DEF Inv
<1> QED
    BY <1>1, Invariance, PTL

----------------------------------------------------------------------------
(* Settled for good, and the refinement *)

\* The steps that leave the rows, the log and the clock alone: all of the
\* queueing, dispatching, executing and failing.
Quiet == UNCHANGED <<now, status, requested, answer, log>>

\* Every step is quiet, or one of the nine that are not.
LEMMA LoudSteps ==
    ASSUME [Next]_vars
    PROVE  \/ Quiet
           \/ \E j \in Jobs : \/ Create(j) \/ PollTimeout(j)
                              \/ \E release \in BOOLEAN : Cancel(j, release)
                              \/ \E s \in Statuses : CallbackCommit(j, s)
           \/ \E p \in Procs : ExpireJob(p) \/ HandoffMoot(p) \/ HandoffAccepted(p) \/ SweepCommit(p)
           \/ \E gone \in SUBSET Cached : Tick(gone)
<1> USE DEF clock, db, redis, back, net, Quiet
<1>1. CASE Request
    BY <1>1 DEF Request, PollReschedule
<1>2. CASE Dispatching
  <2>1. ASSUME NEW p \in Procs,
               \/ \E j \in Jobs : Pop(p, j)
               \/ ReadJob(p)
               \/ \E e \in Executors : SelectExecutor(p, e)
               \/ Requeue(p) \/ ReserveLease(p) \/ SendHandoff(p)
        PROVE  Quiet
    BY <2>1 DEF Pop, ReadJob, SelectExecutor, Requeue, ReserveLease, SendHandoff
  <2>2. ASSUME NEW p \in Procs, EnvelopeFails(p) \/ HandoffRefused(p) \/ Unlock(p)
        PROVE  Quiet
    BY <2>2 DEF EnvelopeFails, HandoffRefused, Unlock
  <2>3. ASSUME NEW p \in Procs, HandoffFails(p) \/ HandoffRaises(p) \/ DispatchRaises(p)
        PROVE  Quiet
    BY <2>3 DEF HandoffFails, HandoffRaises, DispatchRaises
  <2> QED
    BY <1>2, <2>1, <2>2, <2>3 DEF Dispatching
<1>3. CASE Executing
    BY <1>3 DEF Executing, Receive, ReleaseSlot, SendCallback
<1>4. CASE Completing
    BY <1>4 DEF Completing, CallbackIgnored, CallbackBegin, CommitFails, AfterCommit, AfterCommitLost
<1>5. CASE Cleaning
    BY <1>5 DEF Cleaning, SweepSelect
<1>6. CASE Failing
    BY <1>6 DEF Failing, Crash, RedisLost, MessageLost, ExecutorRestart
<1>7. CASE \E e \in Executors : Reverify(e)
    BY <1>7 DEF Reverify
<1>8. CASE UNCHANGED vars
    BY <1>8 DEF vars
<1> QED
    BY <1>1, <1>2, <1>3, <1>4, <1>5, <1>6, <1>7, <1>8 DEF Next

\* No step takes a settled row back, nor a deleted one.
LEMMA StaysSettled ==
    ASSUME Inv, [Next]_vars, NEW k \in Jobs
    PROVE  /\ status[k] \in Terminal => status'[k] \in Terminal \cup {"deleted"}
           /\ status[k] = "deleted" => status'[k] = "deleted"
<1> USE DEF Inv, Typed, TypeOK, Open, Terminal
<1>1. ASSUME Quiet PROVE status' = status
    BY <1>1 DEF Quiet
<1>2. ASSUME NEW j \in Jobs, Create(j) \/ PollTimeout(j) PROVE status[j] \in Open \cup {"none"}
                                                /\ status' = [status EXCEPT ![j] = status'[j]]
    BY <1>2 DEF Create, PollTimeout
<1>3. ASSUME NEW j \in Jobs, NEW release \in BOOLEAN, Cancel(j, release)
      PROVE  status[j] \in Open /\ status' = [status EXCEPT ![j] = "failed"]
    BY <1>3 DEF Cancel
<1>4. ASSUME NEW j \in Jobs, NEW s \in Statuses, CallbackCommit(j, s)
      PROVE  status[j] \in Open /\ status' = [status EXCEPT ![j] = s]
    BY <1>4 DEF CallbackCommit, LockedIsOpen
<1>5. ASSUME NEW p \in Procs, ExpireJob(p)
      PROVE  status' = status \/ (status[disp[p].job] # "deleted"
                                 /\ status' = [status EXCEPT ![disp[p].job] = "timeout"])
    BY <1>5 DEF ExpireJob
<1>6. ASSUME NEW p \in Procs, HandoffMoot(p) \/ HandoffAccepted(p)
      PROVE  \/ status' = status
             \/ /\ status[disp[p].job] = "pending"
                /\ status' \in {[status EXCEPT ![disp[p].job] = s] : s \in {"timeout", "processing"}}
    BY <1>6 DEF HandoffMoot, HandoffAccepted
<1>7. ASSUME NEW p \in Procs, SweepCommit(p)
      PROVE  \/ status' = status
             \/ /\ status[k] = "deleted" => status'[k] = status[k]
                /\ status'[k] \in {status[k], "timeout", "deleted"}
    BY <1>7 DEF SweepCommit, Doomed
<1>8. ASSUME NEW gone \in SUBSET Cached, Tick(gone) PROVE status' = status
    BY <1>8 DEF Tick, db
<1> DEFINE Kept == /\ status[k] \in Terminal => status'[k] \in Terminal \cup {"deleted"}
                   /\ status[k] = "deleted" => status'[k] = "deleted"
<1>9. ASSUME status' = status PROVE Kept
    BY <1>9
<1>10. ASSUME NEW j \in Jobs, NEW s, status' = [status EXCEPT ![j] = s],
              status[j] \in Open \cup {"none"}
       PROVE  Kept
    BY <1>10
<1>11. ASSUME NEW j \in Jobs, Create(j) \/ PollTimeout(j) PROVE Kept
    BY <1>2, <1>10, <1>11
<1>12. ASSUME NEW j \in Jobs, NEW release \in BOOLEAN, Cancel(j, release) PROVE Kept
    BY <1>3, <1>10, <1>12
<1>13. ASSUME NEW j \in Jobs, NEW s \in Statuses, CallbackCommit(j, s) PROVE Kept
    BY <1>4, <1>10, <1>13
<1>14. ASSUME NEW p \in Procs, ExpireJob(p) PROVE Kept
    BY <1>5, <1>14
<1>15. ASSUME NEW p \in Procs, HandoffMoot(p) \/ HandoffAccepted(p) PROVE Kept
    BY <1>6, <1>15
<1>16. ASSUME NEW p \in Procs, SweepCommit(p) PROVE Kept
    BY <1>7, <1>16
<1>17. ASSUME NEW gone \in SUBSET Cached, Tick(gone) PROVE Kept
    BY <1>8, <1>9, <1>17
<1> HIDE DEF Kept, Inv
<1>18. Kept
    BY <1>1, <1>9, <1>11, <1>12, <1>13, <1>14, <1>15, <1>16, <1>17, LoudSteps
<1> QED
    BY <1>18 DEF Kept

\* A settled job is never worked on again, whoever answers late.
THEOREM SettledForGood == Spec => NeverReopened
<1> DEFINE Kept == \A j \in Jobs :
                      /\ status[j] \in Terminal => status'[j] \in Terminal \cup {"deleted"}
                      /\ status[j] = "deleted" => status'[j] = "deleted"
<1>1. Inv /\ [Next]_vars => [Kept]_vars
  <2> SUFFICES ASSUME Inv, [Next]_vars PROVE Kept
    OBVIOUS
  <2> QED
    BY StaysSettled
<1> QED
    BY <1>1, Invariance, PTL DEF Spec, NeverReopened

\* The replies of the abstract specification, as a function of the rows.
Replies == [j \in Jobs |-> Told(j)]
Given == {c \in Codes : Delivered(c)}

\* Writing one row changes what one caller is told.
LEMMA ToldUpdate ==
    ASSUME TypeOK, NEW j \in Jobs, NEW s, status' = [status EXCEPT ![j] = s],
           \A k \in Jobs \ {j} : answer'[k] = answer[k]
    PROVE  Replies' = [Replies EXCEPT ![j] = Told(j)']
<1>1. \A k \in Jobs \ {j} : status'[k] = status[k]
    BY DEF TypeOK
<1>2. \A k \in Jobs \ {j} : Told(k)' = Told(k)
    BY <1>1 DEF Told
<1>3. Replies' = [k \in Jobs |-> Told(k)']
    BY DEF Replies
<1>4. \A k \in Jobs : Told(k)' = [Replies EXCEPT ![j] = Told(j)'][k]
    BY <1>2 DEF Replies
<1> QED
    BY <1>3, <1>4 DEF Replies

\* Quiet steps are invisible.
LEMMA QuietStutters == Quiet => UNCHANGED Promise!vars
BY DEF Quiet, Promise!vars, Told, Delivered

\* Every step of the coordinator is a step of the promise or leaves it alone.
LEMMA StepRefines ==
    ASSUME Inv, [Next]_vars
    PROVE  [Promise!Next]_(Promise!vars)
<1> USE DEF Inv, Typed, Open, Terminal
<1>t. Promise!vars = <<now, requested, Replies, Given>>
    BY DEF Promise!vars, Replies, Given
<1>f. \A j \in Jobs : Replies[j] = Told(j)
    BY DEF Replies
<1>1. CASE Quiet
    BY <1>1, QuietStutters
<1>2. ASSUME NEW j \in Jobs, Create(j) PROVE Promise!Next
  <2>1. Replies' = [Replies EXCEPT ![j] = Told(j)']
    BY <1>2, ToldUpdate DEF Create
  <2>2. Told(j) = "unasked" /\ Told(j)' = "open"
    BY <1>2 DEF Create, Told, TypeOK
  <2>3. Promise!Ask(j)
    BY <1>2, <1>f, <2>1, <2>2 DEF Promise!Ask, Create, Replies, Delivered, clock
  <2> QED
    BY <2>3 DEF Promise!Next
<1>3. ASSUME NEW j \in Jobs, NEW s \in {"failed", "timeout"}, status[j] \in Open,
             status' = [status EXCEPT ![j] = s], UNCHANGED <<now, requested, answer, log>>
      PROVE  Promise!Next
  <2>1. Replies' = [Replies EXCEPT ![j] = Told(j)']
    BY <1>3, ToldUpdate
  <2>2. Told(j) = "open" /\ Told(j)' = "unsuccessful"
    BY <1>3 DEF Told, TypeOK
  <2>3. Promise!Conclude(j, "unsuccessful")
    BY <1>3, <1>f, <2>1, <2>2 DEF Promise!Conclude, Replies, Delivered
  <2> QED
    BY <2>3 DEF Promise!Next
<1>4. ASSUME NEW j \in Jobs, NEW s \in Open, status[j] \in Open,
             status' = [status EXCEPT ![j] = s], UNCHANGED <<now, requested, answer, log>>
      PROVE  UNCHANGED Promise!vars
  <2>1. Replies' = [Replies EXCEPT ![j] = Told(j)']
    BY <1>4, ToldUpdate
  <2>2. Told(j) = "open" /\ Told(j)' = "open"
    BY <1>4 DEF Told, TypeOK
  <2> QED
    BY <1>4, <1>t, <1>f, <2>1, <2>2 DEF Replies, Delivered, Promise!vars, Given
<1>5. ASSUME NEW j \in Jobs, PollTimeout(j) \/ \E release \in BOOLEAN : Cancel(j, release)
      PROVE  Promise!Next
    BY <1>3, <1>5 DEF PollTimeout, Cancel, clock
<1>6. ASSUME NEW p \in Procs, HandoffMoot(p) \/ HandoffAccepted(p)
      PROVE  [Promise!Next]_(Promise!vars)
  <2>1. disp[p].job \in Jobs
    BY <1>6 DEF HandoffMoot, HandoffAccepted, DispatchTyped, WellFormed
  <2>2. CASE status' = status
    BY <1>6, <2>2, QuietStutters DEF HandoffMoot, HandoffAccepted, Quiet, clock
  <2>3. CASE HandoffMoot(p) /\ status' # status
    BY <1>3, <2>1, <2>3 DEF HandoffMoot
  <2>4. CASE HandoffAccepted(p)
    BY <1>4, <2>1, <2>4 DEF HandoffAccepted, clock
  <2> QED
    BY <1>6, <2>2, <2>3, <2>4
<1>7. ASSUME NEW late \in SUBSET Jobs, NEW old \in SUBSET Jobs,
             \A j \in late : status[j] \notin {"none", "deleted"} /\ Spent(j),
             \A j \in old : Doomed(j),
             status' = [j \in Jobs |-> CASE j \in old -> "deleted"
                                         [] j \in late \ old -> "timeout"
                                         [] OTHER -> status[j]],
             UNCHANGED <<now, requested, answer, log>>
      PROVE  Promise!Next
  <2>1. \A j \in late \cup old : Told(j) \in {"open", "empty", "unsuccessful"} \cup Codes
    BY <1>7 DEF Told, Doomed, TypeOK, Statuses
  <2>2. Replies' = [j \in Jobs |-> CASE j \in old -> "forgotten"
                                      [] j \in late \ old -> "unsuccessful"
                                      [] OTHER -> Told(j)]
    BY <1>7 DEF Replies, Told
  <2>3. Promise!Lapse(late, old)
    BY <1>7, <1>f, <2>1, <2>2 DEF Promise!Lapse, Promise!Answered, Replies, Delivered, Spent, Doomed
  <2> QED
    BY <2>3 DEF Promise!Next
<1>8. ASSUME NEW p \in Procs, ExpireJob(p) PROVE [Promise!Next]_(Promise!vars)
  <2> DEFINE j == disp[p].job
  <2>1. j \in Jobs /\ Spent(j) /\ status[j] # "none"
    BY <1>8 DEF ExpireJob, DispatchTyped, WellFormed, OverdueOnly, CreatedFirst
  <2>2. CASE status[j] = "deleted"
    BY <1>8, <2>2, QuietStutters DEF ExpireJob, Quiet, clock
  <2>3. CASE status[j] # "deleted"
    <3>1. status' = [i \in Jobs |-> CASE i \in {} -> "deleted"
                                      [] i \in {j} \ {} -> "timeout"
                                      [] OTHER -> status[i]]
        BY <1>8, <2>3 DEF ExpireJob, TypeOK
    <3>2. UNCHANGED <<now, requested, answer, log>>
        BY <1>8 DEF ExpireJob, clock
    <3>3. {j} \in SUBSET Jobs /\ {} \in SUBSET Jobs
        BY <2>1
    <3>4. \A i \in {j} : status[i] \notin {"none", "deleted"} /\ Spent(i)
        BY <2>1, <2>3
    <3>5. \A i \in {} : Doomed(i)
        OBVIOUS
    <3> QED
        BY <1>7, <3>1, <3>2, <3>3, <3>4, <3>5
  <2> QED
    BY <2>2, <2>3
<1>9. ASSUME NEW p \in Procs, SweepCommit(p) PROVE [Promise!Next]_(Promise!vars)
  <2> DEFINE old == {j \in Jobs : Doomed(j)}
  <2>1. CASE \E j \in sweep[p] : status[j] = "deleted"
    BY <1>9, <2>1, QuietStutters DEF SweepCommit, Quiet, clock
  <2>2. CASE \A j \in sweep[p] : status[j] # "deleted"
    <3>1. \A j \in sweep[p] : j \in Jobs /\ status[j] # "none" /\ Expired(j)
        BY DEF CreatedFirst, OverdueOnly, TypeOK
    <3>2. \A j \in sweep[p] : Spent(j)
        BY <3>1, ConstantsAssumption, BudgetAssumption DEF Spent, Expired, TypeOK
    <3>3. sweep[p] \in SUBSET Jobs /\ old \in SUBSET Jobs
        BY DEF TypeOK
    <3>4. status' = [j \in Jobs |-> CASE j \in old -> "deleted"
                                      [] j \in sweep[p] \ old -> "timeout"
                                      [] OTHER -> status[j]]
        BY <1>9, <2>2 DEF SweepCommit
    <3> QED
        BY <1>7, <1>9, <2>2, <3>1, <3>2, <3>3, <3>4 DEF SweepCommit, clock
  <2> QED
    BY <2>1, <2>2
<1>10. ASSUME NEW j \in Jobs, NEW s \in Statuses, CallbackCommit(j, s)
       PROVE  [Promise!Next]_(Promise!vars)
  <2> DEFINE v == applying[j].verdict
  <2>1. status[j] \in Open /\ status' = [status EXCEPT ![j] = s] /\ UNCHANGED <<now, requested>>
    BY <1>10 DEF CallbackCommit, LockedIsOpen, clock
  <2>2. CASE s # "completed"
    <3>1. s \in {"pending", "failed", "timeout"} /\ v \notin Codes
        BY <1>10, <2>2, ConstantsAssumption DEF CallbackCommit, NextStatuses
    <3>2. UNCHANGED <<answer, log>>
        BY <1>10, <2>2, <3>1 DEF CallbackCommit
    <3> QED
        BY <1>3, <1>4, <2>1, <3>1, <3>2
  <2>3. CASE s = "completed"
    <3>1. Replies' = [Replies EXCEPT ![j] = Told(j)']
        BY <1>10, <2>1, ToldUpdate DEF CallbackCommit, TypeOK
    <3>2. Told(j) = "open" /\ Told(j)' = IF v \in Codes THEN v ELSE "empty"
        BY <1>10, <2>1, <2>3 DEF CallbackCommit, Told, TypeOK
    <3>3. CASE v \in Codes
      <4>1. v \notin Given /\ Given' = Given \cup {v}
        BY <1>10, <3>3 DEF CallbackCommit, Given, Delivered, FreshVerdict
      <4>2. Promise!Deliver(j, v)
        BY <2>1, <1>f, <3>1, <3>2, <3>3, <4>1 DEF Promise!Deliver, Replies, Given
      <4> QED
        BY <3>3, <4>2 DEF Promise!Next
    <3>4. CASE v \notin Codes
      <4>1. Given' = Given
        BY <1>10, <3>4 DEF CallbackCommit, Given, Delivered
      <4>2. Promise!Conclude(j, "empty")
        BY <2>1, <1>f, <3>1, <3>2, <3>4, <4>1 DEF Promise!Conclude, Replies, Given
      <4> QED
        BY <4>2 DEF Promise!Next
    <3> QED
        BY <3>3, <3>4
  <2> QED
    BY <2>2, <2>3
<1>11. ASSUME NEW gone \in SUBSET Cached, Tick(gone) PROVE Promise!Next
  <2>1. Promise!Tick
    BY <1>11 DEF Tick, Promise!Tick, Told, Delivered, db
  <2> QED
    BY <2>1 DEF Promise!Next
<1> QED
    BY <1>1, <1>2, <1>5, <1>6, <1>8, <1>9, <1>10, <1>11, LoudSteps

\* The coordinator implements LookupPromise, for any number of processes and any
\* failures: one answer per lookup, one lookup per code, and no answer withdrawn
\* before the interactive deadline.
THEOREM CoordinatorImplementsPromise == Spec => KeepsPromise
<1>1. Init => Promise!Init
  <2> SUFFICES ASSUME Init PROVE Promise!Init
    OBVIOUS
  <2>1. \A j \in Jobs : Told(j) = "unasked"
    BY DEF Init, Told, Open
  <2>2. {c \in Codes : Delivered(c)} = {}
    BY DEF Init, Delivered
  <2> QED
    BY <2>1, <2>2 DEF Init, Promise!Init
<1>2. Inv /\ [Next]_vars => [Promise!Next]_(Promise!vars)
    BY StepRefines
<1> QED
    BY <1>1, <1>2, Invariance, PTL DEF Spec, KeepsPromise, Promise!Spec

----------------------------------------------------------------------------
(* One process: nothing forgotten, no slot given twice *)

\* One backend process dispatches, as outside a rolling deploy.
OneProcess == \A p, q \in Procs : p = q

\* A lease is granted for longer than the interactive budget (180 s and 120 s).
LongLease == Budget <= LeaseTtl

\* The steps that grant a lease are those of reserve_lease; every other step
\* keeps a lease or drops it.
LEMMA LeaseSteps ==
    ASSUME Inv, [Next]_vars
    PROVE  \/ \E p \in Procs : ReserveLease(p)
           \/ \A j \in Jobs : lease'[j] \in {lease[j], NoLease}
<1> DEFINE Drops == \A j \in Jobs : lease'[j] \in {lease[j], NoLease}
<1>1. lease \in [Jobs -> Lease]
    BY DEF Inv, Typed, TypeOK
<1>2. ASSUME lease' = lease PROVE Drops
    BY <1>2
<1>3. ASSUME NEW j, lease' = ReleaseLease(j) PROVE Drops
    BY <1>1, <1>3 DEF ReleaseLease
<1> HIDE DEF Drops
<1> USE DEF clock, db, redis, back, net
<1>4. ASSUME Request PROVE Drops
    BY <1>2, <1>3, <1>4 DEF Request, Create, PollTimeout, PollReschedule, Cancel
<1>5. CASE Dispatching
  <2>1. ASSUME NEW p \in Procs,
               \/ \E j \in Jobs : Pop(p, j)
               \/ ReadJob(p) \/ ExpireJob(p)
               \/ \E e \in Executors : SelectExecutor(p, e)
               \/ Requeue(p) \/ SendHandoff(p) \/ HandoffAccepted(p) \/ Unlock(p)
        PROVE  lease' = lease
    BY <2>1 DEF Pop, ReadJob, ExpireJob, SelectExecutor, Requeue, SendHandoff,
       HandoffAccepted, Unlock
  <2>2. ASSUME NEW p \in Procs,
               \/ EnvelopeFails(p) \/ HandoffMoot(p) \/ HandoffRefused(p)
               \/ HandoffFails(p) \/ HandoffRaises(p) \/ DispatchRaises(p)
        PROVE  lease' = lease \/ lease' = ReleaseLease(disp[p].job)
    BY <2>2 DEF EnvelopeFails, HandoffMoot, HandoffRefused, HandoffFails,
       HandoffRaises, DispatchRaises
  <2> QED
    BY <1>2, <1>3, <1>5, <2>1, <2>2 DEF Dispatching, Drops
<1>6. ASSUME Executing PROVE Drops
    BY <1>2, <1>6 DEF Executing, Receive, ReleaseSlot, SendCallback
<1>7. ASSUME Completing PROVE Drops
    BY <1>2, <1>3, <1>7 DEF Completing, CallbackIgnored, CallbackBegin, CommitFails,
       CallbackCommit, AfterCommit, AfterCommitLost
<1>8. ASSUME Cleaning PROVE Drops
    BY <1>2, <1>8 DEF Cleaning, SweepSelect, SweepCommit
<1>9. ASSUME Failing PROVE Drops
  <2>1. RedisLost => Drops
    BY DEF RedisLost, Drops
  <2> QED
    BY <1>2, <1>9, <2>1 DEF Failing, Crash, MessageLost, ExecutorRestart
<1>10. ASSUME \E e \in Executors : Reverify(e) PROVE Drops
    BY <1>2, <1>10 DEF Reverify
<1>11. ASSUME \E gone \in SUBSET Cached : Tick(gone) PROVE Drops
    BY <1>11 DEF Tick, Drops
<1>12. ASSUME UNCHANGED vars PROVE Drops
    BY <1>2, <1>12 DEF vars
<1> QED
    BY <1>4, <1>5, <1>6, <1>7, <1>8, <1>9, <1>10, <1>11, <1>12 DEF Next, Drops

\* A dispatch comes to reserve_lease by selecting, and stays there as it is.
LEMMA ReserveSteps ==
    ASSUME Inv, [Next]_vars, NEW p \in Procs, disp'[p].pc = "reserve"
    PROVE  \/ disp[p].pc = "reserve" /\ disp'[p] = disp[p]
           \/ SelectExecutor(p, disp'[p].exec) /\ disp'[p].exec \in Executors
<1> DEFINE Kept == disp[p].pc = "reserve" /\ disp'[p] = disp[p]
<1>1. disp \in [Procs -> Dispatch]
    BY DEF Inv, Typed, TypeOK
<1>2. ASSUME disp' = disp PROVE Kept
    BY <1>2
<1>3. ASSUME NEW q, disp' = ToUnlock(q) PROVE Kept
    BY <1>1, <1>3 DEF ToUnlock, Idle
<1>4. ASSUME NEW q, NEW d, disp' = [disp EXCEPT ![q] = d], d.pc # "reserve" PROVE Kept
    BY <1>1, <1>4
<1> HIDE DEF Kept
<1> USE DEF clock, db, redis, back, net
<1>5. ASSUME Request PROVE Kept
    BY <1>2, <1>5 DEF Request, Create, PollTimeout, PollReschedule, Cancel
<1>6. CASE Dispatching
  <2>1. ASSUME NEW q \in Procs, NEW j \in Jobs, Pop(q, j) PROVE Kept
    BY <1>1, <2>1 DEF Pop, Idle, Kept
  <2>2. ASSUME NEW q \in Procs, ReadJob(q) PROVE Kept
    <3>1. CASE disp' = ToUnlock(q)
        BY <1>3, <3>1
    <3>2. ASSUME NEW pc \in {"expire", "select"}, disp' = [disp EXCEPT ![q].pc = pc]
          PROVE  Kept
        BY <1>1, <3>2 DEF Kept, Dispatch
    <3> QED
        BY <2>2, <3>1, <3>2 DEF ReadJob
  <2>3. ASSUME NEW q \in Procs, NEW e \in Executors, SelectExecutor(q, e)
        PROVE  Kept \/ (q = p /\ e = disp'[p].exec)
    BY <1>1, <2>3 DEF SelectExecutor, Kept, Dispatch
  <2>4. ASSUME NEW q \in Procs, ReserveLease(q) \/ SendHandoff(q) PROVE Kept
    BY <1>1, <2>4 DEF ReserveLease, SendHandoff, Kept, Dispatch
  <2>5. ASSUME NEW q \in Procs,
               \/ ExpireJob(q) \/ Requeue(q) \/ EnvelopeFails(q) \/ HandoffMoot(q)
               \/ HandoffAccepted(q) \/ HandoffRefused(q) \/ HandoffFails(q)
               \/ HandoffRaises(q) \/ DispatchRaises(q)
        PROVE  Kept
    BY <1>3, <2>5 DEF ExpireJob, Requeue, EnvelopeFails, HandoffMoot, HandoffAccepted,
       HandoffRefused, HandoffFails, HandoffRaises, DispatchRaises
  <2>6. ASSUME NEW q \in Procs, Unlock(q) PROVE Kept
    BY <1>1, <2>6 DEF Unlock, Idle, Kept
  <2> QED
    BY <1>6, <2>1, <2>2, <2>3, <2>4, <2>5, <2>6 DEF Dispatching, Kept
<1>7. ASSUME Executing PROVE Kept
  <2>1. ASSUME NEW h, Receive(h) PROVE Kept
    BY <1>1, <2>1 DEF Receive, Kept, Dispatch
  <2> QED
    BY <1>2, <1>7, <2>1 DEF Executing, ReleaseSlot, SendCallback
<1>8. ASSUME Completing PROVE Kept
    BY <1>2, <1>8 DEF Completing, CallbackIgnored, CallbackBegin, CommitFails,
       CallbackCommit, AfterCommit, AfterCommitLost
<1>9. ASSUME Cleaning PROVE Kept
    BY <1>2, <1>9 DEF Cleaning, SweepSelect, SweepCommit
<1>10. ASSUME Failing PROVE Kept
    BY <1>2, <1>4, <1>10 DEF Failing, Crash, Idle, RedisLost, MessageLost, ExecutorRestart
<1>11. ASSUME \E e \in Executors : Reverify(e) PROVE Kept
    BY <1>2, <1>11 DEF Reverify
<1>12. ASSUME \E gone \in SUBSET Cached : Tick(gone) PROVE Kept
    BY <1>2, <1>12 DEF Tick
<1>13. ASSUME UNCHANGED vars PROVE Kept
    BY <1>2, <1>13 DEF vars
<1> QED
    BY <1>5, <1>6, <1>7, <1>8, <1>9, <1>10, <1>11, <1>12, <1>13 DEF Next, Kept

\* The executor selected still has room when its lease is written.
RoomKept == \A p \in Procs : disp[p].pc = "reserve" => ActiveCount(disp[p].exec) < Slots

\* Dropping leases gives no executor more of them.
LEMMA CountDrops ==
    ASSUME IsFiniteSet(Jobs), NEW e \in Executors,
           \A j \in Jobs : lease'[j] \in {lease[j], NoLease}
    PROVE  /\ ActiveCount(e) \in Nat /\ ActiveCount(e)' \in Nat
           /\ ActiveCount(e)' <= ActiveCount(e)
<1> DEFINE S == {j \in Jobs : lease[j].exec = e}
           T == {j \in Jobs : lease'[j].exec = e}
<1>1. IsFiniteSet(S)
    BY FS_Subset
<1>2. T \in SUBSET S
    BY ConstantsAssumption DEF NoLease
<1>3. IsFiniteSet(T) /\ Cardinality(T) <= Cardinality(S)
    BY <1>1, <1>2, FS_Subset
<1>4. Cardinality(S) \in Nat /\ Cardinality(T) \in Nat
    BY <1>1, <1>3, FS_CardinalityType
<1> QED
    BY <1>3, <1>4 DEF ActiveCount

\* Granting a lease gives its executor one more, and no other executor any.
LEMMA CountGrant ==
    ASSUME IsFiniteSet(Jobs), NEW e \in Executors, NEW k \in Jobs, NEW l,
           lease \in [Jobs -> Lease], lease' = [lease EXCEPT ![k] = l]
    PROVE  /\ ActiveCount(e) \in Nat /\ ActiveCount(e)' \in Nat
           /\ ActiveCount(e)' <= ActiveCount(e) + 1
           /\ l.exec # e => ActiveCount(e)' <= ActiveCount(e)
<1> DEFINE S == {j \in Jobs : lease[j].exec = e}
           T == {j \in Jobs : lease'[j].exec = e}
<1>1. IsFiniteSet(S) /\ IsFiniteSet(T)
    BY FS_Subset
<1>2. Cardinality(S) \in Nat /\ Cardinality(T) \in Nat
    BY <1>1, FS_CardinalityType
<1>3. T \in SUBSET (S \cup {k}) /\ (l.exec # e => T \in SUBSET S)
    OBVIOUS
<1>4. IsFiniteSet(S \cup {k}) /\ Cardinality(S \cup {k}) <= Cardinality(S) + 1
  <2> HIDE DEF S
  <2>1. /\ IsFiniteSet(S \cup {k})
        /\ Cardinality(S \cup {k}) = IF k \in S THEN Cardinality(S) ELSE Cardinality(S) + 1
    BY <1>1, FS_AddElement
  <2> QED
    BY <1>2, <2>1
<1>5. Cardinality(T) <= Cardinality(S \cup {k}) /\ Cardinality(S \cup {k}) \in Nat
    BY <1>3, <1>4, FS_Subset, FS_CardinalityType
<1>6. l.exec # e => Cardinality(T) <= Cardinality(S)
    BY <1>1, <1>3, FS_Subset
<1> QED
    BY <1>2, <1>4, <1>5, <1>6 DEF ActiveCount

\* One process reads the count and writes the lease with nobody in between.
LEMMA CapacityStep ==
    ASSUME OneProcess, IsFiniteSet(Jobs), Inv, RoomKept, CapacityRespected, [Next]_vars
    PROVE  RoomKept' /\ CapacityRespected'
<1>t. lease \in [Jobs -> Lease] /\ disp \in [Procs -> Dispatch] /\ DispatchTyped /\ DispatchTyped'
    BY NextTyped DEF Inv, Typed, TypeOK
<1>c. Slots \in Nat
    BY ConstantsAssumption
<1>1. ASSUME NEW p \in Procs, ReserveLease(p) PROVE RoomKept' /\ CapacityRespected'
  <2> DEFINE j == disp[p].job
             l == [id |-> nextLease, exec |-> disp[p].exec, end |-> now + LeaseTtl]
  <2>1. disp[p].pc = "reserve" /\ j \in Jobs /\ disp[p].exec \in Executors
    BY <1>t, <1>1 DEF ReserveLease, DispatchTyped, WellFormed
  <2>2. lease' = [lease EXCEPT ![j] = l] /\ l.exec = disp[p].exec
    BY <1>1 DEF ReserveLease
  <2>3. ActiveCount(disp[p].exec) < Slots
    BY <2>1 DEF RoomKept
  <2>4. ASSUME NEW e \in Executors PROVE ActiveCount(e)' <= Slots
    <3> HIDE DEF j, l
    <3>1. /\ ActiveCount(e) \in Nat /\ ActiveCount(e)' \in Nat
          /\ ActiveCount(e)' <= ActiveCount(e) + 1
          /\ l.exec # e => ActiveCount(e)' <= ActiveCount(e)
        BY <1>t, <2>1, <2>2, CountGrant
    <3>2. ActiveCount(e) <= Slots
        BY DEF CapacityRespected
    <3> QED
        BY <1>c, <2>2, <2>3, <3>1, <3>2
  <2>5. ASSUME NEW q \in Procs PROVE disp'[q].pc # "reserve"
    <3>1. q = p
        BY DEF OneProcess
    <3> QED
        BY <1>t, <1>1, <3>1 DEF ReserveLease, Dispatch
  <2> QED
    BY <2>4, <2>5 DEF RoomKept, CapacityRespected
<1>2. ASSUME \A j \in Jobs : lease'[j] \in {lease[j], NoLease}
      PROVE  RoomKept' /\ CapacityRespected'
  <2>1. ASSUME NEW e \in Executors
        PROVE  /\ ActiveCount(e) \in Nat /\ ActiveCount(e)' \in Nat
               /\ ActiveCount(e)' <= ActiveCount(e)
    BY <1>2, CountDrops
  <2>2. CapacityRespected'
    BY <1>c, <2>1 DEF CapacityRespected
  <2>3. ASSUME NEW p \in Procs, disp'[p].pc = "reserve"
        PROVE  disp'[p].exec \in Executors /\ ActiveCount(disp'[p].exec) < Slots
    <3>1. CASE disp[p].pc = "reserve" /\ disp'[p] = disp[p]
        BY <1>t, <3>1 DEF RoomKept, DispatchTyped, WellFormed
    <3>2. CASE SelectExecutor(p, disp'[p].exec) /\ disp'[p].exec \in Executors
        BY <3>2 DEF SelectExecutor, Eligible
    <3> QED
        BY <2>3, <3>1, <3>2, ReserveSteps
  <2>4. RoomKept'
    <3> SUFFICES ASSUME NEW p \in Procs, disp'[p].pc = "reserve"
                 PROVE  ActiveCount(disp[p].exec)' < Slots
        BY DEF RoomKept
    <3>1. PICK e \in Executors : e = disp'[p].exec /\ ActiveCount(e) < Slots
        BY <2>3
    <3>2. ActiveCount(e)' < Slots
        BY <1>c, <2>1, <3>1
    <3> QED
        BY <3>1, <3>2 DEF ActiveCount
  <2> QED
    BY <2>2, <2>4
<1> QED
    BY <1>1, <1>2, LeaseSteps
\* A lease is only released behind a settled callback.
ReleaseSettled == \A q \in posts : q.then = "release" => status[q.job] \in Terminal \cup {"deleted"}

\* A created job keeps its request time, and its lease lasts past its budget.
LeaseLasts ==
    \A j \in Jobs : /\ requested[j] <= now
                    /\ lease[j].id # 0 => /\ status[j] # "none"
                                          /\ lease[j].end >= requested[j] + Budget

\* A dispatch lock has its dispatch, unless something failed.
LockHeld ==
    faults = 0 => \A j \in Jobs : lock[j] # 0 =>
                    \E p \in Procs : disp[p].pc # "idle" /\ disp[p].job = j

\* Rows are created once, and what they say of the request stays.
LEMMA CreatedStays ==
    ASSUME Inv, [Next]_vars, NEW j \in Jobs
    PROVE  /\ status[j] # "none" => status'[j] # "none" /\ requested'[j] = requested[j]
           /\ now' \in {now, now + 1}
<1> USE DEF Inv, Typed, TypeOK, clock, db
<1>1. ASSUME Quiet
      PROVE UNCHANGED <<status, requested, now>>
    BY <1>1 DEF Quiet
<1>2. ASSUME NEW k \in Jobs, Create(k)
      PROVE /\ now' = now /\ status[k] = "none" /\ status' = [status EXCEPT ![k] = "pending"]
            /\ requested' = [requested EXCEPT ![k] = now]
    BY <1>2 DEF Create
<1>3. ASSUME NEW k \in Jobs, \/ PollTimeout(k)
                             \/ \E release \in BOOLEAN : Cancel(k, release)
                             \/ \E s \in Statuses : CallbackCommit(k, s)
      PROVE UNCHANGED <<now, requested>> /\ \E s \in Statuses \ {"none"} : status' = [status EXCEPT ![k] = s]
    BY <1>3 DEF PollTimeout, Cancel, CallbackCommit, NextStatuses, Statuses, Terminal, Open
<1>4. ASSUME NEW p \in Procs, ExpireJob(p) \/ HandoffMoot(p) \/ HandoffAccepted(p)
      PROVE  UNCHANGED <<now, requested>> /\
             \/ status' = status
             \/ \E s \in Statuses \ {"none"} : status' = [status EXCEPT ![disp[p].job] = s]
    BY <1>4 DEF ExpireJob, HandoffMoot, HandoffAccepted, Statuses, Terminal, Open
<1>5. ASSUME NEW p \in Procs, SweepCommit(p)
      PROVE  UNCHANGED <<now, requested>> /\ status'[j] \in {status[j], "timeout", "deleted"}
    BY <1>5 DEF SweepCommit
<1>7. ASSUME NEW gone \in SUBSET Cached, Tick(gone)
      PROVE UNCHANGED <<status, requested>> /\ now' = now + 1
    BY <1>7 DEF Tick
<1>6. status \in [Jobs -> Statuses] /\ requested \in [Jobs -> Nat]
    OBVIOUS
<1> DEFINE Stays == /\ status[j] # "none" => status'[j] # "none" /\ requested'[j] = requested[j]
                    /\ now' \in {now, now + 1}
<1>8. ASSUME NEW k \in Jobs, Create(k) PROVE Stays
    BY <1>2, <1>6, <1>8
<1>9. ASSUME NEW k \in Jobs, \/ PollTimeout(k)
                             \/ \E release \in BOOLEAN : Cancel(k, release)
                             \/ \E s \in Statuses : CallbackCommit(k, s)
      PROVE Stays
    BY <1>3, <1>6, <1>9
<1>10. ASSUME NEW p \in Procs, ExpireJob(p) \/ HandoffMoot(p) \/ HandoffAccepted(p)
      PROVE  Stays
    BY <1>4, <1>6, <1>10
<1>11. ASSUME NEW p \in Procs, SweepCommit(p) PROVE Stays
    BY <1>5, <1>11
<1>12. ASSUME NEW gone \in SUBSET Cached, Tick(gone) PROVE Stays
    BY <1>7, <1>12
<1>13. ASSUME Quiet PROVE Stays
    BY <1>1, <1>13
<1> HIDE DEF Inv, Typed, TypeOK, Stays
<1>14. Stays
    BY <1>8, <1>9, <1>10, <1>11, <1>12, <1>13, LoudSteps
<1> QED
    BY <1>14 DEF Stays
\* A release is left to do only by a callback that settled its job.
LEMMA ReleaseStep ==
    ASSUME Inv, ReleaseSettled, [Next]_vars PROVE ReleaseSettled'
<1> DEFINE New == \A q \in posts' : q.then = "release" =>
                     q \in posts \/ (q.job \in Jobs /\ status'[q.job] \in Terminal)
<1>1. ASSUME posts' \subseteq posts PROVE New
    BY <1>1
<1> USE DEF clock, db, redis, back, net
<1>2. ASSUME NEW j \in Jobs, Create(j) \/ PollReschedule(j) PROVE New
    BY <1>2 DEF Create, PollReschedule
<1>3. ASSUME NEW j \in Jobs, NEW s \in Statuses, CallbackCommit(j, s) PROVE New
  <2>1. status'[j] = s /\ (s = "pending" \/ s \in Terminal)
    BY <1>3 DEF CallbackCommit, NextStatuses, Terminal, Inv, Typed, TypeOK
  <2>2. posts' = posts \cup {[job |-> j, lease |-> applying[j].lease,
                              then |-> IF s = "pending" THEN "requeue" ELSE "release"]}
    BY <1>3 DEF CallbackCommit
  <2> QED
    BY <2>1, <2>2
<1> HIDE DEF New
<1>4. ASSUME Request PROVE New
    BY <1>1, <1>2, <1>4 DEF Request, PollTimeout, Cancel
<1>5. ASSUME Dispatching PROVE New
  <2>1. posts' = posts
    BY <1>5 DEF Dispatching, Pop, ReadJob, ExpireJob, SelectExecutor, Requeue, ReserveLease,
       SendHandoff, EnvelopeFails, HandoffMoot, HandoffAccepted, HandoffRefused,
       HandoffFails, HandoffRaises, DispatchRaises, Unlock
  <2> QED
    BY <1>1, <2>1
<1>6. ASSUME Executing PROVE New
    BY <1>1, <1>6 DEF Executing, Receive, ReleaseSlot, SendCallback
<1>7. ASSUME Completing PROVE New
    BY <1>1, <1>3, <1>7 DEF Completing, CallbackIgnored, CallbackBegin, CommitFails,
       AfterCommit, AfterCommitLost
<1>8. ASSUME Cleaning PROVE New
    BY <1>1, <1>8 DEF Cleaning, SweepSelect, SweepCommit
<1>9. ASSUME Failing PROVE New
    BY <1>1, <1>9 DEF Failing, Crash, RedisLost, MessageLost, ExecutorRestart
<1>10. ASSUME \E e \in Executors : Reverify(e) PROVE New
    BY <1>1, <1>10 DEF Reverify
<1>11. ASSUME \E gone \in SUBSET Cached : Tick(gone) PROVE New
    BY <1>1, <1>11 DEF Tick
<1>12. ASSUME UNCHANGED vars PROVE New
    BY <1>1, <1>12 DEF vars
<1>13. New
    BY <1>4, <1>5, <1>6, <1>7, <1>8, <1>9, <1>10, <1>11, <1>12 DEF Next
<1>14. \A q \in posts : q.job \in Jobs
    BY DEF Inv, Typed, TypeOK, Post
<1> QED
    BY <1>13, <1>14, StaysSettled DEF New, ReleaseSettled

\* No lease runs out on a job that is still in its budget.
LEMMA LeaseStep ==
    ASSUME LongLease, Inv, LeaseLasts, [Next]_vars PROVE LeaseLasts'
<1>t. /\ now \in Nat /\ requested \in [Jobs -> Nat] /\ lease \in [Jobs -> Lease]
      /\ Budget \in Nat /\ LeaseTtl \in Nat /\ DispatchTyped
    BY ConstantsAssumption DEF Inv, Typed, TypeOK
<1>1. ASSUME NEW j \in Jobs PROVE requested'[j] \in Nat /\ requested'[j] <= now'
  <2>1. CASE Create(j)
    BY <1>t, <2>1 DEF Create, clock
  <2>2. CASE ~Create(j)
    <3>1. requested'[j] = requested[j]
        BY <2>2, <1>t, LoudSteps DEF Quiet, Create, PollTimeout, Cancel, CallbackCommit,
           ExpireJob, HandoffMoot, HandoffAccepted, SweepCommit, Tick, db
    <3> QED
        BY <1>t, <3>1, CreatedStays DEF LeaseLasts
  <2> QED
    BY <2>1, <2>2
<1>2. ASSUME NEW j \in Jobs, lease'[j].id # 0
      PROVE  status'[j] # "none" /\ lease'[j].end >= requested'[j] + Budget
  <2>1. CASE lease'[j] = lease[j]
    <3>1. status[j] # "none" /\ lease[j].end >= requested[j] + Budget
        BY <1>2, <2>1 DEF LeaseLasts
    <3> QED
        BY <2>1, <3>1, CreatedStays
  <2>2. CASE lease'[j] # lease[j]
    <3>1. lease'[j] # NoLease
        BY <1>2 DEF NoLease
    <3>2. PICK p \in Procs : ReserveLease(p)
        BY <2>2, <3>1, LeaseSteps
    <3>3. disp[p].job = j /\ disp[p].pc # "idle"
        BY <1>t, <2>2, <3>2 DEF ReserveLease
    <3>4. lease'[j].end = now + LeaseTtl /\ UNCHANGED <<now, status, requested>>
        BY <1>t, <3>2, <3>3 DEF ReserveLease, clock, db
    <3>5. status[j] # "none" /\ requested[j] <= now
        BY <3>3 DEF Inv, CreatedFirst, LeaseLasts
    <3> QED
        BY <1>t, <3>4, <3>5 DEF LongLease
  <2> QED
    BY <2>1, <2>2
<1> QED
    BY <1>1, <1>2 DEF LeaseLasts
\* A dispatch keeps its job until the finally clause, unless its process dies.
LEMMA DispatchSteps ==
    ASSUME Inv, [Next]_vars, faults' = faults, NEW p \in Procs, disp[p].pc # "idle"
    PROVE  \/ disp'[p].pc # "idle" /\ disp'[p].job = disp[p].job
           \/ Unlock(p)
<1> DEFINE Kept == disp'[p].pc # "idle" /\ disp'[p].job = disp[p].job
<1>1. disp \in [Procs -> Dispatch] /\ faults \in Nat
    BY DEF Inv, Typed, TypeOK
<1>2. ASSUME disp' = disp PROVE Kept
    BY <1>2
<1>3. ASSUME NEW q, disp' = ToUnlock(q) PROVE Kept
    BY <1>1, <1>3 DEF ToUnlock, Idle
<1> HIDE DEF Kept
<1> USE DEF clock, db, redis, back, net
<1>4. ASSUME Request PROVE Kept
    BY <1>2, <1>4 DEF Request, Create, PollTimeout, PollReschedule, Cancel
<1>5. CASE Dispatching
  <2>1. ASSUME NEW q \in Procs, NEW j \in Jobs, Pop(q, j) PROVE Kept
    BY <1>1, <2>1 DEF Pop, Idle, Kept
  <2>2. ASSUME NEW q \in Procs, ReadJob(q) PROVE Kept
    <3>1. CASE disp' = ToUnlock(q)
        BY <1>3, <3>1
    <3>2. ASSUME NEW pc \in {"expire", "select"}, disp' = [disp EXCEPT ![q].pc = pc]
          PROVE  Kept
        BY <1>1, <3>2 DEF Kept, Dispatch
    <3> QED
        BY <2>2, <3>1, <3>2 DEF ReadJob
  <2>3. ASSUME NEW q \in Procs, NEW e \in Executors, SelectExecutor(q, e) PROVE Kept
    BY <1>1, <2>3 DEF SelectExecutor, Kept, Dispatch
  <2>4. ASSUME NEW q \in Procs, ReserveLease(q) \/ SendHandoff(q) PROVE Kept
    BY <1>1, <2>4 DEF ReserveLease, SendHandoff, Kept, Dispatch
  <2>5. ASSUME NEW q \in Procs,
               \/ ExpireJob(q) \/ Requeue(q) \/ EnvelopeFails(q) \/ HandoffMoot(q)
               \/ HandoffAccepted(q) \/ HandoffRefused(q) \/ HandoffFails(q)
               \/ HandoffRaises(q) \/ DispatchRaises(q)
        PROVE  Kept
    BY <1>3, <2>5 DEF ExpireJob, Requeue, EnvelopeFails, HandoffMoot, HandoffAccepted,
       HandoffRefused, HandoffFails, HandoffRaises, DispatchRaises
  <2>6. ASSUME NEW q \in Procs, Unlock(q) PROVE Kept \/ q = p
    BY <1>1, <2>6 DEF Unlock, Kept
  <2> QED
    BY <1>5, <2>1, <2>2, <2>3, <2>4, <2>5, <2>6 DEF Dispatching, Kept
<1>6. ASSUME Executing PROVE Kept
  <2>1. ASSUME NEW h, Receive(h) PROVE Kept
    BY <1>1, <2>1 DEF Receive, Kept, Dispatch
  <2> QED
    BY <1>2, <1>6, <2>1 DEF Executing, ReleaseSlot, SendCallback
<1>7. ASSUME Completing PROVE Kept
    BY <1>2, <1>7 DEF Completing, CallbackIgnored, CallbackBegin, CommitFails,
       CallbackCommit, AfterCommit, AfterCommitLost
<1>8. ASSUME Cleaning PROVE Kept
    BY <1>2, <1>8 DEF Cleaning, SweepSelect, SweepCommit
<1>9. ASSUME Failing PROVE FALSE
    BY <1>1, <1>9 DEF Failing, Crash, RedisLost, MessageLost, ExecutorRestart, Fault
<1>10. ASSUME \E e \in Executors : Reverify(e) PROVE Kept
    BY <1>2, <1>10 DEF Reverify
<1>11. ASSUME \E gone \in SUBSET Cached : Tick(gone) PROVE Kept
    BY <1>2, <1>11 DEF Tick
<1>12. ASSUME UNCHANGED vars PROVE Kept
    BY <1>2, <1>12 DEF vars
<1> QED
    BY <1>4, <1>5, <1>6, <1>7, <1>8, <1>9, <1>10, <1>11, <1>12 DEF Next, Kept

\* A dispatch lock is taken by the process that popped the job.
LEMMA LockSteps ==
    ASSUME Inv, [Next]_vars, NEW j \in Jobs
    PROVE  \/ lock'[j] \in {0, lock[j]}
           \/ \E p \in Procs : disp'[p].pc = "read" /\ disp'[p].job = j
<1> DEFINE Drops == lock'[j] \in {0, lock[j]}
<1>1. disp \in [Procs -> Dispatch] /\ lock \in [Jobs -> Nat]
    BY DEF Inv, Typed, TypeOK
<1>2. ASSUME lock' = lock PROVE Drops
    BY <1>2
<1> HIDE DEF Drops
<1> USE DEF clock, db, redis, back, net
<1>3. CASE Dispatching
  <2>1. ASSUME NEW p \in Procs, NEW k \in Jobs, Pop(p, k)
        PROVE  Drops \/ (disp'[p].pc = "read" /\ disp'[p].job = j)
    <3>1. CASE lock[k] # 0 \/ k # j
      <4>1. lock' = lock \/ (k # j /\ lock' = [lock EXCEPT ![k] = now + LockTtl])
        BY <2>1, <3>1 DEF Pop
      <4> QED
        BY <1>1, <4>1 DEF Drops
    <3>2. CASE lock[k] = 0 /\ k = j
      <4>1. disp' = [disp EXCEPT ![p] = [Idle EXCEPT !.pc = "read", !.job = k]]
        BY <2>1, <3>2 DEF Pop
      <4> QED
        BY <1>1, <3>2, <4>1 DEF Idle
    <3> QED
        BY <3>1, <3>2
  <2>2. ASSUME NEW p \in Procs, Unlock(p) PROVE Drops
    BY <1>1, <2>2 DEF Unlock, Drops
  <2>3. ASSUME NEW p \in Procs,
               \/ ReadJob(p) \/ ExpireJob(p)
               \/ \E e \in Executors : SelectExecutor(p, e)
               \/ Requeue(p) \/ ReserveLease(p) \/ SendHandoff(p) \/ EnvelopeFails(p)
               \/ HandoffMoot(p) \/ HandoffAccepted(p) \/ HandoffRefused(p)
               \/ HandoffFails(p) \/ HandoffRaises(p) \/ DispatchRaises(p)
        PROVE  lock' = lock
    BY <2>3 DEF ReadJob, ExpireJob, SelectExecutor, Requeue, ReserveLease, SendHandoff,
       EnvelopeFails, HandoffMoot, HandoffAccepted, HandoffRefused, HandoffFails,
       HandoffRaises, DispatchRaises
  <2> QED
    BY <1>2, <1>3, <2>1, <2>2, <2>3 DEF Drops, Dispatching
<1>4. ASSUME Request PROVE Drops
    BY <1>2, <1>4 DEF Request, Create, PollTimeout, PollReschedule, Cancel
<1>5. ASSUME Executing PROVE Drops
    BY <1>2, <1>5 DEF Executing, Receive, ReleaseSlot, SendCallback
<1>6. ASSUME Completing PROVE Drops
    BY <1>2, <1>6 DEF Completing, CallbackIgnored, CallbackBegin, CommitFails,
       CallbackCommit, AfterCommit, AfterCommitLost
<1>7. ASSUME Cleaning PROVE Drops
    BY <1>2, <1>7 DEF Cleaning, SweepSelect, SweepCommit
<1>8. ASSUME Failing PROVE Drops
  <2>1. RedisLost => Drops
    BY DEF RedisLost, Drops
  <2> QED
    BY <1>2, <1>8, <2>1 DEF Failing, Crash, MessageLost, ExecutorRestart
<1>9. ASSUME \E e \in Executors : Reverify(e) PROVE Drops
    BY <1>2, <1>9 DEF Reverify
<1>10. ASSUME \E gone \in SUBSET Cached : Tick(gone) PROVE Drops
    BY <1>1, <1>10 DEF Tick, Drops
<1>11. ASSUME UNCHANGED vars PROVE Drops
    BY <1>2, <1>11 DEF vars
<1> QED
    BY <1>3, <1>4, <1>5, <1>6, <1>7, <1>8, <1>9, <1>10, <1>11 DEF Next, Drops

\* Failures are only ever counted up.
LEMMA FaultsStep ==
    ASSUME Inv, [Next]_vars PROVE faults' = faults \/ faults' = faults + 1
<1> USE DEF clock, Fault
<1>1. CASE Request
    BY <1>1 DEF Request, Create, PollTimeout, PollReschedule, Cancel
<1>2. CASE Dispatching
    BY <1>2 DEF Dispatching, Pop, ReadJob, ExpireJob, SelectExecutor, Requeue, ReserveLease,
       SendHandoff, EnvelopeFails, HandoffMoot, HandoffAccepted, HandoffRefused,
       HandoffFails, HandoffRaises, DispatchRaises, Unlock
<1>3. CASE Executing
    BY <1>3 DEF Executing, Receive, ReleaseSlot, SendCallback
<1>4. CASE Completing
    BY <1>4 DEF Completing, CallbackIgnored, CallbackBegin, CommitFails,
       CallbackCommit, AfterCommit, AfterCommitLost
<1>5. CASE Cleaning
    BY <1>5 DEF Cleaning, SweepSelect, SweepCommit
<1>6. CASE Failing
    BY <1>6 DEF Failing, Crash, RedisLost, MessageLost, ExecutorRestart
<1>7. CASE \E e \in Executors : Reverify(e)
    BY <1>7 DEF Reverify
<1>8. CASE \E gone \in SUBSET Cached : Tick(gone)
    BY <1>8 DEF Tick
<1>9. CASE UNCHANGED vars
    BY <1>9 DEF vars
<1> QED
    BY <1>1, <1>2, <1>3, <1>4, <1>5, <1>6, <1>7, <1>8, <1>9 DEF Next

\* The finally clause drops the lock with the dispatch.
LEMMA LockStep ==
    ASSUME Inv, LockHeld, [Next]_vars PROVE LockHeld'
<1> SUFFICES ASSUME faults' = 0, NEW j \in Jobs, lock'[j] # 0
             PROVE  \E p \in Procs : disp'[p].pc # "idle" /\ disp'[p].job = j
    BY DEF LockHeld
<1>1. faults = 0 /\ faults' = faults
    BY FaultsStep DEF Inv, Typed, TypeOK
<1>2. CASE lock'[j] = lock[j]
  <2>1. PICK p \in Procs : disp[p].pc # "idle" /\ disp[p].job = j
    BY <1>1, <1>2 DEF LockHeld
  <2>2. ~Unlock(p)
    BY <2>1 DEF Unlock, Inv, Typed, TypeOK
  <2> QED
    BY <1>1, <2>1, <2>2, DispatchSteps
<1> QED
    BY <1>2, LockSteps
\* A job becomes pending by its creation or by a retryable callback.
LEMMA PendingSteps ==
    ASSUME Inv, [Next]_vars, NEW j \in Jobs, status'[j] = "pending"
    PROVE  status[j] = "pending" \/ Create(j) \/ CallbackCommit(j, "pending")
<1>t. status \in [Jobs -> Statuses]
    BY DEF Inv, Typed, TypeOK
<1>1. ASSUME NEW k \in Jobs, Create(k) PROVE status'[j] = status[j] \/ k = j
    BY <1>t, <1>1 DEF Create
<1>2. ASSUME NEW k \in Jobs, NEW s \in Statuses, CallbackCommit(k, s)
      PROVE  status'[j] = status[j] \/ (k = j /\ s = "pending")
    BY <1>t, <1>2 DEF CallbackCommit
<1>3. ASSUME NEW k \in Jobs, PollTimeout(k) \/ \E release \in BOOLEAN : Cancel(k, release)
      PROVE  status'[j] = status[j]
    BY <1>t, <1>3 DEF PollTimeout, Cancel
<1>4. ASSUME NEW p \in Procs, ExpireJob(p) \/ HandoffMoot(p) \/ HandoffAccepted(p)
      PROVE  status'[j] = status[j]
    BY <1>t, <1>4 DEF ExpireJob, HandoffMoot, HandoffAccepted
<1>5. ASSUME NEW p \in Procs, SweepCommit(p) PROVE status'[j] = status[j]
    BY <1>t, <1>5 DEF SweepCommit
<1>6. ASSUME Quiet \/ \E gone \in SUBSET Cached : Tick(gone) PROVE status'[j] = status[j]
    BY <1>6 DEF Quiet, Tick, db
<1> QED
    BY <1>1, <1>2, <1>3, <1>4, <1>5, <1>6, LoudSteps

\* What one process needs to forget nothing.
Watched == ReleaseSettled /\ LeaseLasts /\ LockHeld

\* No step loses sight of a job that waits within its budget.
LEMMA TrackedStep ==
    ASSUME OneProcess, Inv, Watched, [Next]_vars, faults' = 0,
           NEW j \in Jobs, Tracked(j), status[j] = "pending", status'[j] = "pending", ~Spent(j)'
    PROVE  Tracked(j)'
<1>0. faults = 0 /\ faults' = faults
    BY FaultsStep DEF Inv, Typed, TypeOK
<1>t. /\ TypeOK /\ DispatchTyped
      /\ \A q \in posts : q.job \in Jobs /\ q.then \in {"schedule", "requeue", "release"}
    BY DEF Inv, Typed, TypeOK, Post
<1>s. ~Spent(j)
    BY <1>t, CreatedStays, ConstantsAssumption DEF Spent, TypeOK
<1> USE DEF clock, db, redis, back, net
\* Steps that drop nothing that may track a job.
<1>1. ASSUME queue \subseteq queue', lease'[j] = lease[j], posts \subseteq posts',
             applying'[j] = applying[j],
             \A p \in Procs : disp'[p].job = disp[p].job /\ (disp'[p].pc = "unlock" => disp[p].pc = "unlock")
      PROVE  Tracked(j)'
    BY <1>1 DEF Tracked, Unlocked
\* A dispatch may end in the finally clause with its job queued again.
<1>2. ASSUME NEW p \in Procs, disp' = ToUnlock(p), queue' = queue \cup {disp[p].job},
             lease' \in {lease, ReleaseLease(disp[p].job)}, UNCHANGED <<posts, applying>>
      PROVE  Tracked(j)'
    BY <1>2, <1>t DEF Tracked, Unlocked, ToUnlock, ReleaseLease, TypeOK
\* ... or because the job is no longer pending.
<1>3. ASSUME NEW p \in Procs, disp' = ToUnlock(p), disp[p].job # j, queue' = queue,
             lease' \in {lease, ReleaseLease(disp[p].job)}, UNCHANGED <<posts, applying>>
      PROVE  Tracked(j)'
    BY <1>3, <1>t DEF Tracked, Unlocked, ToUnlock, ReleaseLease, TypeOK
<1>4. ASSUME Request PROVE Tracked(j)'
  <2>1. ASSUME NEW k \in Jobs, Create(k) \/ PollReschedule(k) PROVE Tracked(j)'
    BY <1>1, <2>1 DEF Create, PollReschedule
  <2>2. ASSUME NEW k \in Jobs, PollTimeout(k) \/ \E release \in BOOLEAN : Cancel(k, release)
        PROVE Tracked(j)'
    <3>1. k # j
        BY <1>t, <2>2 DEF PollTimeout, Cancel, TypeOK
    <3>2. lease'[j] = lease[j]
        BY <1>t, <2>2, <3>1 DEF PollTimeout, Cancel, ReleaseLease, TypeOK
    <3> QED
        BY <1>1, <2>2, <3>2 DEF PollTimeout, Cancel
  <2> QED
    BY <1>4, <2>1, <2>2 DEF Request
<1>5. ASSUME Dispatching PROVE Tracked(j)'
  <2>1. ASSUME NEW p \in Procs, NEW k \in Jobs, Pop(p, k) PROVE Tracked(j)'
    <3>1. lock[k] = 0
        BY <1>0, <2>1 DEF Pop, Watched, LockHeld, OneProcess
    <3>2. disp' = [disp EXCEPT ![p] = [Idle EXCEPT !.pc = "read", !.job = k]]
        BY <2>1, <3>1 DEF Pop
    <3>3. disp'[p].job = k /\ disp'[p].pc = "read" /\ disp[p].pc = "idle"
        BY <1>t, <2>1, <3>2 DEF Idle, TypeOK, Pop
    <3>4. CASE k = j
        BY <3>3, <3>4 DEF Tracked
    <3>5. CASE k # j
      <4>1. disp[p].job # j
        BY <1>t, <2>1, ConstantsAssumption DEF Pop, DispatchTyped, WellFormed
      <4> QED
        BY <1>t, <2>1, <3>2, <3>5, <4>1 DEF Pop, Tracked, Unlocked, TypeOK
    <3> QED
        BY <3>4, <3>5
  <2>2. ASSUME NEW p \in Procs, ReadJob(p) PROVE Tracked(j)'
    <3>1. CASE disp[p].job = j
        BY <1>t, <1>s, <2>2, <3>1 DEF ReadJob, Tracked, TypeOK, Dispatch
    <3>2. CASE disp' = ToUnlock(p) /\ disp[p].job # j
        BY <1>3, <2>2, <3>2 DEF ReadJob
    <3>3. CASE disp' # ToUnlock(p)
        BY <1>1, <1>t, <2>2, <3>3 DEF ReadJob, TypeOK, Dispatch
    <3> QED
        BY <3>1, <3>2, <3>3
  <2>3. ASSUME NEW p \in Procs, ExpireJob(p) PROVE Tracked(j)'
    <3>1. disp[p].job # j
        BY <1>t, <2>3 DEF ExpireJob, TypeOK
    <3> QED
        BY <1>3, <2>3, <3>1 DEF ExpireJob
  <2>4. ASSUME NEW p \in Procs, NEW e \in Executors, SelectExecutor(p, e) PROVE Tracked(j)'
    BY <1>1, <1>t, <2>4 DEF SelectExecutor, TypeOK, Dispatch
  <2>5. ASSUME NEW p \in Procs, ReserveLease(p) PROVE Tracked(j)'
    BY <1>t, <2>5 DEF ReserveLease, Tracked, Unlocked, TypeOK, Dispatch
  <2>6. ASSUME NEW p \in Procs, SendHandoff(p) PROVE Tracked(j)'
    BY <1>1, <1>t, <2>6 DEF SendHandoff, TypeOK, Dispatch
  <2>7. ASSUME NEW p \in Procs,
               \/ Requeue(p) \/ EnvelopeFails(p) \/ HandoffRefused(p)
               \/ HandoffFails(p) \/ HandoffRaises(p)
        PROVE Tracked(j)'
    BY <1>2, <2>7 DEF Requeue, EnvelopeFails, HandoffRefused, HandoffFails, HandoffRaises
  <2>8. ASSUME NEW p \in Procs, HandoffMoot(p) PROVE Tracked(j)'
    <3>1. disp[p].job # j
        BY <1>t, <1>s, <2>8 DEF HandoffMoot, TypeOK
    <3> QED
        BY <1>3, <2>8, <3>1 DEF HandoffMoot
  <2>9. ASSUME NEW p \in Procs, HandoffAccepted(p) PROVE Tracked(j)'
    <3>1. disp[p].job # j
        BY <1>t, <2>9 DEF HandoffAccepted, TypeOK
    <3> QED
        BY <1>3, <2>9, <3>1 DEF HandoffAccepted
  <2>10. ASSUME NEW p \in Procs, DispatchRaises(p) PROVE FALSE
    BY <1>0, <2>10 DEF DispatchRaises, Fault
  <2>11. ASSUME NEW p \in Procs, Unlock(p) PROVE Tracked(j)'
    BY <1>t, <2>11 DEF Unlock, Tracked, Unlocked, TypeOK
  <2> QED
    BY <1>5, <2>1, <2>2, <2>3, <2>4, <2>5, <2>6, <2>7, <2>8, <2>9, <2>10, <2>11
    DEF Dispatching
<1>6. ASSUME Executing PROVE Tracked(j)'
  <2>1. ASSUME NEW h, Receive(h) PROVE Tracked(j)'
    BY <1>1, <1>t, <2>1 DEF Receive, TypeOK, Dispatch
  <2> QED
    BY <1>1, <1>6, <2>1 DEF Executing, ReleaseSlot, SendCallback
<1>7. ASSUME Completing PROVE Tracked(j)'
  <2>1. ASSUME NEW c, CallbackIgnored(c) PROVE Tracked(j)'
    BY <1>1, <2>1 DEF CallbackIgnored
  <2>2. ASSUME NEW c \in callbacks, CallbackBegin(c) PROVE Tracked(j)'
    <3>1. applying'[j] = applying[j] \/ applying'[j].verdict = Verdict(c)
        BY <1>t, <2>2 DEF CallbackBegin, TypeOK
    <3>2. Verdict(c) # "none"
        BY <1>t, <2>2, ConstantsAssumption DEF Verdict, TypeOK, Callback, Outcomes
    <3> QED
        BY <2>2, <3>1, <3>2 DEF CallbackBegin, Tracked, Unlocked
  <2>3. ASSUME NEW k \in Jobs, CommitFails(k) PROVE FALSE
    BY <1>0, <2>3 DEF CommitFails, Fault
  <2>4. ASSUME NEW k \in Jobs, NEW s \in Statuses, CallbackCommit(k, s) PROVE Tracked(j)'
    <3>1. CASE k # j
        BY <1>1, <1>t, <2>4, <3>1 DEF CallbackCommit, TypeOK
    <3>2. CASE k = j
      <4>1. s = "pending"
        BY <1>t, <2>4, <3>2 DEF CallbackCommit, TypeOK
      <4>2. PICK q \in posts' : q = [job |-> j, lease |-> applying[j].lease, then |-> "requeue"]
        BY <2>4, <3>2, <4>1 DEF CallbackCommit
      <4> QED
        BY <4>2 DEF Tracked
    <3> QED
        BY <3>1, <3>2
  <2>5. ASSUME NEW q \in posts, AfterCommit(q) PROVE Tracked(j)'
    <3>1. CASE q.job # j
        BY <1>t, <2>5, <3>1 DEF AfterCommit, Tracked, Unlocked, ReleaseLease, TypeOK
    <3>2. CASE q.job = j
      <4>1. q.then # "release"
        BY <2>5, <3>2 DEF Watched, ReleaseSettled, Terminal
      <4>2. ~Expired(j)
        BY <1>t, <1>s, ConstantsAssumption, BudgetAssumption DEF Spent, Expired, TypeOK
      <4>3. q.then = "schedule" \/ q.then = "requeue"
        BY <1>t, <2>5, <4>1
      <4> QED
        BY <2>5, <3>2, <4>2, <4>3 DEF AfterCommit, Tracked
    <3> QED
        BY <3>1, <3>2
  <2>6. ASSUME NEW q, AfterCommitLost(q) PROVE FALSE
    BY <1>0, <2>6 DEF AfterCommitLost, Fault
  <2> QED
    BY <1>7, <2>1, <2>2, <2>3, <2>4, <2>5, <2>6 DEF Completing
<1>8. ASSUME Cleaning PROVE Tracked(j)'
    BY <1>1, <1>8 DEF Cleaning, SweepSelect, SweepCommit
<1>9. ASSUME Failing PROVE FALSE
    BY <1>0, <1>9 DEF Failing, Crash, RedisLost, MessageLost, ExecutorRestart, Fault
<1>10. ASSUME \E e \in Executors : Reverify(e) PROVE Tracked(j)'
    BY <1>1, <1>10 DEF Reverify
<1>11. ASSUME NEW gone \in SUBSET Cached, Tick(gone) PROVE Tracked(j)'
  <2>1. lease[j].id # 0 => lease'[j] = lease[j]
    <3>1. now' = now + 1 /\ requested' = requested /\ requested[j] \in Nat /\ lease[j].end \in Nat
        BY <1>t, <1>11 DEF Tick, TypeOK, Lease
    <3>2. lease[j].id # 0 => lease[j].end > now'
        BY <1>t, <3>1, ConstantsAssumption DEF Watched, LeaseLasts, Spent, TypeOK
    <3> QED
        BY <1>t, <1>11, <3>1, <3>2 DEF Tick, TypeOK
  <2> QED
    BY <1>11, <2>1 DEF Tick, Tracked, Unlocked
<1>12. ASSUME UNCHANGED vars PROVE Tracked(j)'
    BY <1>1, <1>12 DEF vars
<1> QED
    BY <1>4, <1>5, <1>6, <1>7, <1>8, <1>9, <1>10, <1>11, <1>12 DEF Next
\* The inductive invariant of one process, beside Inv.
OneInv == Watched /\ NoForgottenJob

\* Every step of a process on its own keeps it.
LEMMA OneStep == ASSUME OneProcess, LongLease, Inv, OneInv, [Next]_vars PROVE OneInv'
<1>1. Watched'
    BY ReleaseStep, LeaseStep, LockStep DEF OneInv, Watched
<1>2. ASSUME faults' = 0, NEW j \in Jobs, status'[j] = "pending", ~Spent(j)' PROVE Tracked(j)'
  <2>0. faults = 0
    BY <1>2, FaultsStep DEF Inv, Typed, TypeOK
  <2>1. CASE status[j] = "pending"
    <3>1. ~Spent(j)
        BY <1>2, <2>1, CreatedStays, ConstantsAssumption DEF Spent, Inv, Typed, TypeOK
    <3>2. Tracked(j)
        BY <2>0, <2>1, <3>1 DEF OneInv, NoForgottenJob
    <3> QED
        BY <1>2, <2>1, <3>2, TrackedStep DEF OneInv
  <2>2. CASE Create(j)
    <3>1. PICK q \in posts' : q = [job |-> j, lease |-> 0, then |-> "schedule"]
        BY <2>2 DEF Create
    <3> QED
        BY <3>1 DEF Tracked
  <2>3. CASE CallbackCommit(j, "pending")
    <3>1. PICK q \in posts' : q = [job |-> j, lease |-> applying[j].lease, then |-> "requeue"]
        BY <2>3 DEF CallbackCommit
    <3> QED
        BY <3>1 DEF Tracked
  <2> QED
    BY <1>2, <2>1, <2>2, <2>3, PendingSteps
<1> QED
    BY <1>1, <1>2 DEF OneInv, NoForgottenJob

\* A process on its own, and nothing failing: every job that waits within its
\* budget is queued, being dispatched, leased out or about to be queued again.
THEOREM NothingForgotten == ASSUME OneProcess, LongLease PROVE Spec => []NoForgottenJob
<1>1. Init => OneInv
  <2> SUFFICES ASSUME Init PROVE OneInv
    OBVIOUS
  <2> QED
    BY DEF Init, OneInv, Watched, ReleaseSettled, LeaseLasts, LockHeld, NoForgottenJob, NoLease
<1>2. Inv /\ OneInv /\ [Next]_vars => OneInv'
    BY OneStep
<1>3. OneInv => NoForgottenJob
    BY DEF OneInv
<1> QED
    BY <1>1, <1>2, <1>3, Invariance, PTL DEF Spec

\* A process on its own grants an executor no more leases than it has slots.
THEOREM CapacityKept ==
    ASSUME OneProcess, IsFiniteSet(Jobs) PROVE Spec => []CapacityRespected
<1>1. Init => RoomKept /\ CapacityRespected
  <2> SUFFICES ASSUME Init PROVE RoomKept /\ CapacityRespected
    OBVIOUS
  <2>1. ASSUME NEW e \in Executors PROVE ActiveCount(e) = 0
    <3>1. {j \in Jobs : lease[j].exec = e} = {}
        BY ConstantsAssumption DEF Init, NoLease
    <3> QED
        BY <3>1, FS_EmptySet DEF ActiveCount
  <2> QED
    BY <2>1, ConstantsAssumption DEF Init, RoomKept, CapacityRespected, Idle
<1>2. Inv /\ RoomKept /\ CapacityRespected /\ [Next]_vars => (RoomKept /\ CapacityRespected)'
    BY CapacityStep
<1> QED
    BY <1>1, <1>2, Invariance, PTL DEF Spec

\* Jobs share the executors of a process on its own.
THEOREM Sharing ==
    ASSUME OneProcess, LongLease, IsFiniteSet(Jobs) PROVE Spec => []JobsShare
<1>1. NoForgottenJob /\ CapacityRespected => JobsShare
    BY DEF JobsShare
<1> QED
    BY <1>1, NothingForgotten, CapacityKept, PTL
=============================================================================
