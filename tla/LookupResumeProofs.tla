------------------------- MODULE LookupResumeProofs -------------------------
(***************************************************************************)
(* Theorems about LookupResume, for any number of tasks and of tries; and  *)
(* about LookupPump, for any number of jobs, processes, schedule() calls,  *)
(* refusals and exceptions.                                                *)
(***************************************************************************)
EXTENDS MCLookupResume, Sequences, TLAPS

\* The workflow has been told, or is going to be told, that the job is open.
Registered == (flow \in {"snapshot", "response"} /\ snap = "open") \/ flow = "waiting"

\* An open transaction is the only one, and its row is still open.
LockedIsOpen ==
    /\ \A t \in Tasks : task[t].at = "applying" =>
         /\ status = "open"
         /\ \A u \in Tasks : task[u].at = "applying" => u = t
    /\ \A t \in Tasks : task[t].at = "posting" => task[t].tries \in 1..MaxTries
    /\ \A t \in Tasks : task[t].at = "delivered" => flow = "ended"
    /\ \A t \in Tasks : task[t].at # "idle" => task[t].said \in Answered \cup {"timeout"}

\* A cancelled job has no answer afterwards.
CancelledIsFinal == cancel # "none" => status \in {"cancelled", "timeout"}

\* A registered URL is there as long as somebody may need it.
UrlKept ==
    (flow = "refreshing" \/ Registered) /\ ~fault /\ cancel = "none" => url

\* The half-way states of NotStranded included.
Handshake ==
    Registered /\ status \in Answered /\ ~fault =>
        \E t \in Tasks : \/ task[t].at = "committed" /\ url
                         \/ task[t].at = "posting"

\* Before the deadline only complete() settles a job, under the lock.
InTime ==
    ~overdue =>
        /\ status \in {"open", "cancelled"} =>
             /\ \A t \in Tasks : task[t].at \in {"idle", "applying", "done"}
             /\ snap \in {"open", "cancelled"}
             /\ told = "nothing"
        /\ cancel # "none" => status = "cancelled"

Inv == /\ TypeOK /\ LockedIsOpen /\ CancelledIsFinal /\ UrlKept
       /\ Handshake /\ InTime

\* The invariant holds initially.
LEMMA InitInv == Init => Inv
<1> SUFFICES ASSUME Init PROVE Inv
  OBVIOUS
<1> USE ResumeAssumption DEF Init
<1>1. TypeOK
  <2>1. [at |-> "idle", said |-> "open", tries |-> 0] \in TaskStates
    BY DEF TaskStates, Statuses
  <2>2. task \in [Tasks -> TaskStates]
    BY <2>1
  <2>3. QED
    BY <2>2 DEF TypeOK, Statuses, Settled
<1>2. LockedIsOpen /\ CancelledIsFinal /\ InTime
  BY DEF LockedIsOpen, CancelledIsFinal, InTime
<1>3. UrlKept /\ Handshake
  BY DEF UrlKept, Handshake, Registered, Answered
<1>4. QED
  BY <1>1, <1>2, <1>3 DEF Inv

\* The steps of the workflow keep the invariant.
LEMMA WorkflowInv ==
    ASSUME Inv, Workflow \/ RegistrationFails \/ WaitLimit
    PROVE  Inv'
<1> USE DEF Inv, TypeOK, LockedIsOpen, CancelledIsFinal, UrlKept, Handshake,
            InTime, Registered, Statuses, Settled, Answered
<1>1. CASE ReadJob
  BY <1>1 DEF ReadJob
<1>2. CASE StoreUrl
  BY <1>2 DEF StoreUrl
<1>3. CASE Refresh
  BY <1>3 DEF Refresh
<1>4. CASE StatusResponse
  BY <1>4 DEF StatusResponse
<1>5. CASE RegistrationFails
  BY <1>5 DEF RegistrationFails
<1>6. CASE RegistrationTerminal
  BY <1>6 DEF RegistrationTerminal, Sent
<1>7. CASE Suspend
  BY <1>7 DEF Suspend
<1>8. CASE WaitLimit
  BY <1>8 DEF WaitLimit
<1>9. QED
  BY <1>1, <1>2, <1>3, <1>4, <1>5, <1>6, <1>7, <1>8 DEF Workflow

\* So do cancellation, polls, time and the loss of Redis.
LEMMA OthersInv ==
    ASSUME Inv, PollTimeout \/ Cancel \/ DeleteCancelledUrl \/ Deadline
                \/ RedisLost \/ UrlExpires
    PROVE  Inv'
<1> USE DEF Inv, TypeOK, LockedIsOpen, CancelledIsFinal, UrlKept, Handshake,
            InTime, Registered, Statuses, Settled, Answered
<1>1. CASE PollTimeout
  BY <1>1 DEF PollTimeout, Locked
<1>2. CASE Cancel
  BY <1>2 DEF Cancel, Locked
<1>3. CASE DeleteCancelledUrl
  <2>1. TypeOK'
    <3>1. url' \in BOOLEAN /\ cached' \in BOOLEAN /\ fault' \in BOOLEAN
      BY <1>3 DEF DeleteCancelledUrl
    <3>2. QED
      BY <1>3, <3>1 DEF DeleteCancelledUrl
  <2>2. LockedIsOpen'
    BY <1>3 DEF DeleteCancelledUrl
  <2>3. CancelledIsFinal'
    BY <1>3 DEF DeleteCancelledUrl
  <2>4. UrlKept'
    BY <1>3 DEF DeleteCancelledUrl
  <2>5. Handshake'
    BY <1>3 DEF DeleteCancelledUrl
  <2>6. InTime'
    BY <1>3 DEF DeleteCancelledUrl
  <2>7. QED
    BY <2>1, <2>2, <2>3, <2>4, <2>5, <2>6 DEF Inv
<1>4. CASE Deadline
  BY <1>4 DEF Deadline
<1>5. CASE RedisLost
  <2>1. TypeOK'
    <3>1. url' \in BOOLEAN /\ cached' \in BOOLEAN /\ fault' \in BOOLEAN
      BY <1>5 DEF RedisLost
    <3>2. QED
      BY <1>5, <3>1 DEF RedisLost
  <2>2. LockedIsOpen'
    BY <1>5 DEF RedisLost
  <2>3. CancelledIsFinal'
    BY <1>5 DEF RedisLost
  <2>4. UrlKept'
    BY <1>5 DEF RedisLost
  <2>5. Handshake'
    BY <1>5 DEF RedisLost
  <2>6. InTime'
    BY <1>5 DEF RedisLost
  <2>7. QED
    BY <2>1, <2>2, <2>3, <2>4, <2>5, <2>6 DEF Inv
<1>6. CASE UrlExpires
  <2>1. url' \in BOOLEAN
    BY <1>6 DEF UrlExpires
  <2>2. TypeOK'
    BY <1>6, <2>1 DEF UrlExpires
  <2>3. LockedIsOpen' /\ CancelledIsFinal' /\ InTime'
    BY <1>6 DEF UrlExpires
  <2>4. UrlKept' /\ Handshake'
    BY <1>6 DEF UrlExpires
  <2>5. QED
    BY <2>2, <2>3, <2>4 DEF Inv
<1>7. QED
  BY <1>1, <1>2, <1>3, <1>4, <1>5, <1>6

\* The tasks that settle the job keep it.
LEMMA SettleInv ==
    ASSUME Inv, NEW t \in Tasks,
           CompleteBegin(t) \/ CompleteCommit(t) \/ DispatchReads(t)
           \/ DispatchExpires(t) \/ TaskDies(t)
    PROVE  Inv'
<1> USE DEF Inv, TypeOK, LockedIsOpen, CancelledIsFinal, UrlKept, Handshake,
            InTime, Registered, Statuses, Settled, Answered
<1>1. CASE CompleteBegin(t)
  <2>1. PICK s \in IF overdue THEN {"timeout"} ELSE Answered :
             /\ task' = [task EXCEPT ![t].at = "applying", ![t].said = s]
             /\ cached' = (cached \/ s = "found")
    BY <1>1 DEF CompleteBegin, Locked
  <2>2. task[t] \in TaskStates
    BY DEF TypeOK
  <2>3. PICK r \in TaskStates : /\ task' = [task EXCEPT ![t] = r]
                                 /\ r.at = "applying"
                                 /\ r.said = s
                                 /\ r.tries = task[t].tries
    <3> DEFINE q == [task[t] EXCEPT !.at = "applying", !.said = s]
    <3>1. q \in TaskStates
      BY <1>1, <2>1, <2>2 DEF TaskStates
    <3>2. q.at = "applying" /\ q.said = s /\ q.tries = task[t].tries
      BY <1>1, <2>1, <2>2 DEF TaskStates
    <3>3. task' = [task EXCEPT ![t] = q]
      BY <1>1, <2>1, <2>2 DEF CompleteBegin, Locked, TaskStates
    <3>4. QED
      BY <3>1, <3>2, <3>3
  <2>4. /\ task' \in [Tasks -> TaskStates] /\ task'[t] = r
        /\ \A u \in Tasks : u # t => task'[u] = task[u]
    BY <2>3 DEF TypeOK
  <2>5. TypeOK'
    BY <1>1, <2>1, <2>3, <2>4 DEF CompleteBegin, Locked
  <2>6. LockedIsOpen'
    <3>1. \A u \in Tasks : task[u].at # "applying"
      BY <1>1 DEF CompleteBegin, Locked
    <3>2. status = "open" /\ status' = status /\ flow' = flow
      BY <1>1 DEF CompleteBegin
    <3>3. s \in Answered \cup {"timeout"}
      BY <2>1
    <3>4. QED
      BY <2>3, <2>4, <3>1, <3>2, <3>3
  <2>7. CancelledIsFinal'
    BY <1>1, <2>1, <2>3, <2>4 DEF CompleteBegin, Locked
  <2>8. UrlKept'
    BY <1>1, <2>1, <2>3, <2>4 DEF CompleteBegin, Locked
  <2>9. Handshake'
    BY <1>1, <2>1, <2>3, <2>4 DEF CompleteBegin, Locked
  <2>10. InTime'
    BY <1>1, <2>1, <2>3, <2>4 DEF CompleteBegin, Locked
  <2>11. QED
    BY <2>5, <2>6, <2>7, <2>8, <2>9, <2>10 DEF Inv
<1>2. CASE CompleteCommit(t)
  <2>1. task[t] \in TaskStates
    BY DEF TypeOK
  <2>2. PICK r \in TaskStates : /\ task' = [task EXCEPT ![t] = r]
                                 /\ r.at = "committed"
                                 /\ r.said = task[t].said
                                 /\ r.tries = task[t].tries
    <3> DEFINE q == [task[t] EXCEPT !.at = "committed"]
    <3>1. q \in TaskStates
      BY <2>1 DEF TaskStates
    <3>2. q.at = "committed" /\ q.said = task[t].said /\ q.tries = task[t].tries
      BY <1>2, <2>1 DEF TaskStates
    <3>3. task' = [task EXCEPT ![t] = q]
      BY <1>2, <2>1 DEF CompleteCommit, TaskStates
    <3>4. QED
      BY <3>1, <3>2, <3>3
  <2>3. /\ task' \in [Tasks -> TaskStates] /\ task'[t] = r
        /\ \A u \in Tasks : u # t => task'[u] = task[u]
    BY <2>2 DEF TypeOK
  <2>4. TypeOK'
    BY <1>2, <2>2, <2>3 DEF CompleteCommit
  <2>5. LockedIsOpen'
    BY <1>2, <2>2, <2>3 DEF CompleteCommit
  <2>6. CancelledIsFinal'
    BY <1>2, <2>2, <2>3 DEF CompleteCommit
  <2>7. UrlKept'
    BY <1>2, <2>2, <2>3 DEF CompleteCommit
  <2>8. Handshake'
    BY <1>2, <2>2, <2>3 DEF CompleteCommit
  <2>9. InTime'
    BY <1>2, <2>2, <2>3 DEF CompleteCommit
  <2>10. QED
    BY <2>4, <2>5, <2>6, <2>7, <2>8, <2>9 DEF Inv
<1>3. CASE DispatchReads(t)
  <2>1. task[t] \in TaskStates
    BY DEF TypeOK
  <2>2. PICK r \in TaskStates : /\ task' = [task EXCEPT ![t] = r]
                                 /\ r.at = "expiring"
                                 /\ r.said = "timeout"
                                 /\ r.tries = task[t].tries
    <3> DEFINE q == [task[t] EXCEPT !.at = "expiring", !.said = "timeout"]
    <3>1. q \in TaskStates
      BY <2>1 DEF TaskStates
    <3>2. q.at = "expiring" /\ q.said = "timeout" /\ q.tries = task[t].tries
      BY <1>3, <2>1 DEF TaskStates
    <3>3. task' = [task EXCEPT ![t] = q]
      BY <1>3, <2>1 DEF DispatchReads, TaskStates
    <3>4. QED
      BY <3>1, <3>2, <3>3
  <2>3. /\ task' \in [Tasks -> TaskStates] /\ task'[t] = r
        /\ \A u \in Tasks : u # t => task'[u] = task[u]
    BY <2>2 DEF TypeOK
  <2>4. TypeOK'
    BY <1>3, <2>2, <2>3 DEF DispatchReads
  <2>5. LockedIsOpen'
    BY <1>3, <2>2, <2>3 DEF DispatchReads
  <2>6. CancelledIsFinal'
    BY <1>3, <2>2, <2>3 DEF DispatchReads
  <2>7. UrlKept'
    BY <1>3, <2>2, <2>3 DEF DispatchReads
  <2>8. Handshake'
    BY <1>3, <2>2, <2>3 DEF DispatchReads
  <2>9. InTime'
    BY <1>3, <2>2, <2>3 DEF DispatchReads
  <2>10. QED
    BY <2>4, <2>5, <2>6, <2>7, <2>8, <2>9 DEF Inv
<1>4. CASE DispatchExpires(t)
  <2>1. task[t] \in TaskStates
    BY DEF TypeOK
  <2>2. PICK r \in TaskStates : /\ task' = [task EXCEPT ![t] = r]
                                 /\ r.at = "committed"
                                 /\ r.said = task[t].said
                                 /\ r.tries = task[t].tries
    <3> DEFINE q == [task[t] EXCEPT !.at = "committed"]
    <3>1. q \in TaskStates
      BY <2>1 DEF TaskStates
    <3>2. q.at = "committed" /\ q.said = task[t].said /\ q.tries = task[t].tries
      BY <1>4, <2>1 DEF TaskStates
    <3>3. task' = [task EXCEPT ![t] = q]
      BY <1>4, <2>1 DEF DispatchExpires, Locked, TaskStates
    <3>4. QED
      BY <3>1, <3>2, <3>3
  <2>3. /\ task' \in [Tasks -> TaskStates] /\ task'[t] = r
        /\ \A u \in Tasks : u # t => task'[u] = task[u]
    BY <2>2 DEF TypeOK
  <2>4. TypeOK'
    BY <1>4, <2>2, <2>3 DEF DispatchExpires, Locked
  <2>5. LockedIsOpen'
    BY <1>4, <2>2, <2>3 DEF DispatchExpires, Locked
  <2>6. CancelledIsFinal'
    BY <1>4, <2>2, <2>3 DEF DispatchExpires, Locked
  <2>7. UrlKept'
    BY <1>4, <2>2, <2>3 DEF DispatchExpires, Locked
  <2>8. Handshake'
    BY <1>4, <2>2, <2>3 DEF DispatchExpires, Locked
  <2>9. InTime'
    BY <1>4, <2>2, <2>3 DEF DispatchExpires, Locked
  <2>10. QED
    BY <2>4, <2>5, <2>6, <2>7, <2>8, <2>9 DEF Inv
<1>5. CASE TaskDies(t)
  <2>1. task[t] \in TaskStates
    BY DEF TypeOK
  <2>2. PICK r \in TaskStates : /\ task' = [task EXCEPT ![t] = r]
                                 /\ r.at = "done"
                                 /\ r.said = task[t].said
                                 /\ r.tries = task[t].tries
    <3> DEFINE q == [task[t] EXCEPT !.at = "done"]
    <3>1. q \in TaskStates
      BY <2>1 DEF TaskStates
    <3>2. q.at = "done" /\ q.said = task[t].said /\ q.tries = task[t].tries
      BY <1>5, <2>1 DEF TaskStates
    <3>3. task' = [task EXCEPT ![t] = q]
      BY <1>5, <2>1 DEF TaskDies, TaskStates
    <3>4. QED
      BY <3>1, <3>2, <3>3
  <2>3. /\ task' \in [Tasks -> TaskStates] /\ task'[t] = r
        /\ \A u \in Tasks : u # t => task'[u] = task[u]
    BY <2>2 DEF TypeOK
  <2>4. TypeOK'
    BY <1>5, <2>2, <2>3 DEF TaskDies
  <2>5. LockedIsOpen'
    BY <1>5, <2>2, <2>3 DEF TaskDies
  <2>6. CancelledIsFinal'
    BY <1>5, <2>2, <2>3 DEF TaskDies
  <2>7. UrlKept'
    BY <1>5, <2>2, <2>3 DEF TaskDies
  <2>8. Handshake'
    BY <1>5, <2>2, <2>3 DEF TaskDies
  <2>9. InTime'
    BY <1>5, <2>2, <2>3 DEF TaskDies
  <2>10. QED
    BY <2>4, <2>5, <2>6, <2>7, <2>8, <2>9 DEF Inv
<1>6. QED
  BY <1>1, <1>2, <1>3, <1>4, <1>5

\* A post that is tried again leaves the task posting or gives up.
LEMMA Retried ==
    ASSUME Inv, NEW t \in Tasks, task[t].at = "posting"
    PROVE  \E r \in TaskStates :
              /\ Again(t) = [task EXCEPT ![t] = r]
              /\ r.said = task[t].said
              /\ r.at = "done" \/ (r.at = "posting" /\ r.tries \in 1..MaxTries)
              /\ r.at = "done" => task[t].tries = 1
<1> DEFINE q == [task[t] EXCEPT !.tries = @ - 1,
                                !.at = IF task[t].tries = 1 THEN "done" ELSE @]
<1>1. /\ task[t] \in TaskStates /\ task[t].tries \in 1..MaxTries
      /\ MaxTries \in Nat
  BY ResumeAssumption DEF Inv, TypeOK, LockedIsOpen
<1>2. /\ q.tries = task[t].tries - 1 /\ q.said = task[t].said
      /\ q.at = (IF task[t].tries = 1 THEN "done" ELSE "posting")
  BY <1>1 DEF TaskStates
<1>3. task[t].tries - 1 \in 0..MaxTries
  BY <1>1
<1>4. q \in TaskStates
  BY <1>1, <1>3 DEF TaskStates
<1>5. task[t].tries # 1 => task[t].tries - 1 \in 1..MaxTries
  BY <1>1
<1>6. Again(t) = [task EXCEPT ![t] = q]
  BY <1>1 DEF Again, TaskStates
<1>7. QED
  BY <1>2, <1>4, <1>5, <1>6

\* And so do their notifications.
LEMMA NotifyInv ==
    ASSUME Inv, NEW t \in Tasks,
           GetResumeUrl(t) \/ PostAccepted(t) \/ PostEarly(t)
           \/ PostAnswerLost(t) \/ PostFails(t) \/ DeleteResumeUrl(t)
    PROVE  Inv'
<1> USE DEF Inv, TypeOK, LockedIsOpen, CancelledIsFinal, UrlKept, Handshake,
            InTime, Registered, Statuses, Settled, Answered
<1>1. CASE GetResumeUrl(t)
  <2>1. task[t] \in TaskStates
    BY DEF TypeOK
  <2>2. PICK r \in TaskStates : /\ task' = [task EXCEPT ![t] = r]
                                 /\ r.at = (IF url THEN "posting" ELSE "done")
                                 /\ r.said = task[t].said
                                 /\ r.tries = (IF url THEN MaxTries ELSE task[t].tries)
    <3> DEFINE q == IF url THEN [task[t] EXCEPT !.at = "posting", !.tries = MaxTries]
                           ELSE [task[t] EXCEPT !.at = "done"]
    <3>0. MaxTries \in 0..MaxTries
      BY ResumeAssumption
    <3>1. q \in TaskStates
      BY <1>1, <2>1, <3>0 DEF TaskStates
    <3>2. /\ q.at = (IF url THEN "posting" ELSE "done")
          /\ q.said = task[t].said
          /\ q.tries = (IF url THEN MaxTries ELSE task[t].tries)
      BY <1>1, <2>1 DEF TaskStates
    <3>3. task' = [task EXCEPT ![t] = q]
      BY <1>1, <2>1 DEF GetResumeUrl, TaskStates
    <3>4. QED
      BY <3>1, <3>2, <3>3
  <2>3. /\ task' \in [Tasks -> TaskStates] /\ task'[t] = r
        /\ \A u \in Tasks : u # t => task'[u] = task[u]
    BY <2>2 DEF TypeOK
  <2>4. TypeOK'
    BY <1>1, <2>2, <2>3 DEF GetResumeUrl
  <2>5. LockedIsOpen'
    <3>1. MaxTries \in 1..MaxTries
      BY ResumeAssumption
    <3>2. QED
      BY <1>1, <2>2, <2>3, <3>1 DEF GetResumeUrl
  <2>6. CancelledIsFinal'
    BY <1>1, <2>2, <2>3 DEF GetResumeUrl
  <2>7. UrlKept'
    BY <1>1, <2>2, <2>3 DEF GetResumeUrl
  <2>8. Handshake'
    BY <1>1, <2>2, <2>3 DEF GetResumeUrl
  <2>9. InTime'
    BY <1>1, <2>2, <2>3 DEF GetResumeUrl
  <2>10. QED
    BY <2>4, <2>5, <2>6, <2>7, <2>8, <2>9 DEF Inv
<1>2. CASE PostAccepted(t)
  <2>1. task[t] \in TaskStates
    BY DEF TypeOK
  <2>2. PICK r \in TaskStates : /\ task' = [task EXCEPT ![t] = r]
                                 /\ r.at = "delivered"
                                 /\ r.said = task[t].said
                                 /\ r.tries = task[t].tries
    <3> DEFINE q == [task[t] EXCEPT !.at = "delivered"]
    <3>1. q \in TaskStates
      BY <2>1 DEF TaskStates
    <3>2. q.at = "delivered" /\ q.said = task[t].said /\ q.tries = task[t].tries
      BY <1>2, <2>1 DEF TaskStates
    <3>3. task' = [task EXCEPT ![t] = q]
      BY <1>2, <2>1 DEF PostAccepted, Resume, Sent, TaskStates
    <3>4. QED
      BY <3>1, <3>2, <3>3
  <2>3. /\ task' \in [Tasks -> TaskStates] /\ task'[t] = r
        /\ \A u \in Tasks : u # t => task'[u] = task[u]
    BY <2>2 DEF TypeOK
  <2>4. TypeOK'
    BY <1>2, <2>2, <2>3 DEF PostAccepted, Resume, Sent
  <2>5. LockedIsOpen'
    BY <1>2, <2>2, <2>3 DEF PostAccepted, Resume, Sent
  <2>6. CancelledIsFinal'
    BY <1>2, <2>2, <2>3 DEF PostAccepted, Resume, Sent
  <2>7. UrlKept'
    BY <1>2, <2>2, <2>3 DEF PostAccepted, Resume, Sent
  <2>8. Handshake'
    BY <1>2, <2>2, <2>3 DEF PostAccepted, Resume, Sent
  <2>9. InTime'
    BY <1>2, <2>2, <2>3 DEF PostAccepted, Resume, Sent
  <2>10. QED
    BY <2>4, <2>5, <2>6, <2>7, <2>8, <2>9 DEF Inv
<1>3. CASE PostEarly(t)
  <2>1. task[t].at = "posting" /\ task' = Again(t)
    BY <1>3 DEF PostEarly
  <2>2. PICK r \in TaskStates :
          /\ task' = [task EXCEPT ![t] = r]
          /\ r.said = task[t].said
          /\ r.at = "done" \/ (r.at = "posting" /\ r.tries \in 1..MaxTries)
          /\ r.at = "done" => task[t].tries = 1
    BY <2>1, Retried
  <2>3. /\ task' \in [Tasks -> TaskStates] /\ task'[t] = r
        /\ \A u \in Tasks : u # t => task'[u] = task[u]
    BY <2>2 DEF TypeOK
  <2>4. TypeOK'
    BY <1>3, <2>1, <2>2, <2>3 DEF PostEarly
  <2>5. LockedIsOpen'
    BY <1>3, <2>1, <2>2, <2>3 DEF PostEarly
  <2>6. CancelledIsFinal'
    BY <1>3, <2>1, <2>2, <2>3 DEF PostEarly
  <2>7. UrlKept'
    BY <1>3, <2>1, <2>2, <2>3 DEF PostEarly
  <2>8. Handshake'
    BY <1>3, <2>1, <2>2, <2>3 DEF PostEarly
  <2>9. InTime'
    BY <1>3, <2>1, <2>2, <2>3 DEF PostEarly
  <2>10. QED
    BY <2>4, <2>5, <2>6, <2>7, <2>8, <2>9 DEF Inv
<1>4. CASE PostAnswerLost(t)
  <2>1. task[t].at = "posting" /\ task' = Again(t)
    BY <1>4 DEF PostAnswerLost, Resume, Sent
  <2>2. PICK r \in TaskStates :
          /\ task' = [task EXCEPT ![t] = r]
          /\ r.said = task[t].said
          /\ r.at = "done" \/ (r.at = "posting" /\ r.tries \in 1..MaxTries)
          /\ r.at = "done" => task[t].tries = 1
    BY <2>1, Retried
  <2>3. /\ task' \in [Tasks -> TaskStates] /\ task'[t] = r
        /\ \A u \in Tasks : u # t => task'[u] = task[u]
    BY <2>2 DEF TypeOK
  <2>4. TypeOK'
    BY <1>4, <2>1, <2>2, <2>3 DEF PostAnswerLost, Resume, Sent
  <2>5. LockedIsOpen'
    BY <1>4, <2>1, <2>2, <2>3 DEF PostAnswerLost, Resume, Sent
  <2>6. CancelledIsFinal'
    BY <1>4, <2>1, <2>2, <2>3 DEF PostAnswerLost, Resume, Sent
  <2>7. UrlKept'
    BY <1>4, <2>1, <2>2, <2>3 DEF PostAnswerLost, Resume, Sent
  <2>8. Handshake'
    BY <1>4, <2>1, <2>2, <2>3 DEF PostAnswerLost, Resume, Sent
  <2>9. InTime'
    BY <1>4, <2>1, <2>2, <2>3 DEF PostAnswerLost, Resume, Sent
  <2>10. QED
    BY <2>4, <2>5, <2>6, <2>7, <2>8, <2>9 DEF Inv
<1>5. CASE PostFails(t)
  <2>1. task[t].at = "posting" /\ task[t] \in TaskStates
    BY <1>5 DEF PostFails
  <2>2. PICK r \in TaskStates :
          /\ task' = [task EXCEPT ![t] = r]
          /\ r.said = task[t].said
          /\ r.at = "done" \/ (r.at = "posting" /\ r.tries \in 1..MaxTries)
    <3>1. CASE task' = Again(t)
      BY <2>1, <3>1, Retried
    <3>2. CASE task' = [task EXCEPT ![t].at = "done"]
      <4> DEFINE q == [task[t] EXCEPT !.at = "done"]
      <4>1. q \in TaskStates /\ q.said = task[t].said /\ q.at = "done"
        BY <2>1 DEF TaskStates
      <4>2. task' = [task EXCEPT ![t] = q]
        BY <3>2
      <4>3. QED
        BY <4>1, <4>2
    <3>3. QED
      BY <1>5, <3>1, <3>2 DEF PostFails
  <2>3. /\ task' \in [Tasks -> TaskStates] /\ task'[t] = r
        /\ \A u \in Tasks : u # t => task'[u] = task[u]
    BY <2>2 DEF TypeOK
  <2>4. TypeOK'
    BY <1>5, <2>1, <2>2, <2>3 DEF PostFails
  <2>5. LockedIsOpen'
    BY <1>5, <2>1, <2>2, <2>3 DEF PostFails
  <2>6. CancelledIsFinal'
    BY <1>5, <2>1, <2>2, <2>3 DEF PostFails
  <2>7. UrlKept'
    BY <1>5, <2>1, <2>2, <2>3 DEF PostFails
  <2>8. Handshake'
    BY <1>5, <2>1, <2>2, <2>3 DEF PostFails
  <2>9. InTime'
    BY <1>5, <2>1, <2>2, <2>3 DEF PostFails
  <2>10. QED
    BY <2>4, <2>5, <2>6, <2>7, <2>8, <2>9 DEF Inv
<1>6. CASE DeleteResumeUrl(t)
  <2>1. task[t] \in TaskStates
    BY DEF TypeOK
  <2>2. PICK r \in TaskStates : /\ task' = [task EXCEPT ![t] = r]
                                 /\ r.at = "done"
                                 /\ r.said = task[t].said
                                 /\ r.tries = task[t].tries
    <3> DEFINE q == [task[t] EXCEPT !.at = "done"]
    <3>1. q \in TaskStates
      BY <2>1 DEF TaskStates
    <3>2. q.at = "done" /\ q.said = task[t].said /\ q.tries = task[t].tries
      BY <1>6, <2>1 DEF TaskStates
    <3>3. task' = [task EXCEPT ![t] = q]
      BY <1>6, <2>1 DEF DeleteResumeUrl, TaskStates
    <3>4. QED
      BY <3>1, <3>2, <3>3
  <2>3. /\ task' \in [Tasks -> TaskStates] /\ task'[t] = r
        /\ \A u \in Tasks : u # t => task'[u] = task[u]
    BY <2>2 DEF TypeOK
  <2>4. TypeOK'
    <3>1. /\ url' = FALSE
          /\ UNCHANGED <<status, cached, overdue, flow, snap, told, cancel, fault>>
      BY <1>6 DEF DeleteResumeUrl
    <3>2. /\ url' \in BOOLEAN /\ cached' \in BOOLEAN
          /\ overdue' \in BOOLEAN /\ fault' \in BOOLEAN
      BY <3>1
    <3>3. QED
      BY <2>3, <3>1, <3>2
  <2>5. LockedIsOpen'
    BY <1>6, <2>2, <2>3 DEF DeleteResumeUrl
  <2>6. CancelledIsFinal'
    BY <1>6, <2>2, <2>3 DEF DeleteResumeUrl
  <2>7. UrlKept'
    BY <1>6, <2>2, <2>3 DEF DeleteResumeUrl
  <2>8. Handshake'
    BY <1>6, <2>2, <2>3 DEF DeleteResumeUrl
  <2>9. InTime'
    BY <1>6, <2>2, <2>3 DEF DeleteResumeUrl
  <2>10. QED
    BY <2>4, <2>5, <2>6, <2>7, <2>8, <2>9 DEF Inv
<1>7. QED
  BY <1>1, <1>2, <1>3, <1>4, <1>5, <1>6

\* The invariant holds in every behaviour.
THEOREM Invariance == Spec => []Inv
<1>1. Inv /\ [Next]_vars => Inv'
  <2>1. ASSUME Inv, UNCHANGED vars
        PROVE  Inv'
    BY <2>1 DEF vars, Inv, TypeOK, LockedIsOpen, CancelledIsFinal, UrlKept, Handshake,
       InTime, Registered
  <2>2. QED
    BY <2>1, WorkflowInv, OthersInv, SettleInv, NotifyInv DEF Next, Notify
<1>2. QED
  BY <1>1, InitInv, PTL DEF Spec

\* Types are kept.
THEOREM TypeCorrect == Spec => []TypeOK
<1>1. Inv => TypeOK
  BY DEF Inv
<1>2. QED
  BY <1>1, Invariance, PTL

\* Without failures no answer falls between registration and notification,
\* for any number of callbacks and dispatches (_notify_resume,
\* register_lookup_resume).
THEOREM NeverStranded == Spec => []NotStranded
<1>1. Inv => NotStranded
  BY DEF Inv, Handshake, Registered, NotStranded
<1>2. QED
  BY <1>1, Invariance, PTL

\* Before the deadline nothing is heard of a cancelled lookup
\* (cancel_active_job_if_present, "IF suppress lookup result").
THEOREM CancelledStaysSilent == Spec => []CancelledInTime
<1>1. Inv => CancelledInTime
  BY DEF Inv, InTime, CancelledInTime
<1>2. QED
  BY <1>1, Invariance, PTL

-----------------------------------------------------------------------------
(* The pumps *)

\* A task that pops has dispatches left, and one that dispatches has a job.
SoundPump == {d \in Dispatcher!Pump :
                 /\ d.pc \in {"pop", "dispatch"} => d.left # 0
                 /\ d.pc \in {"dispatch", "check"} => d.job \in Jobs}

PumpsSound == pump \in [Procs -> [PumpTasks -> SoundPump]]

\* A task that runs is the one _pump_task names.  OnePump is not inductive
\* without it: _pump_is_active looks at that task only.
ActiveIsTask ==
    \A p \in Procs : \A t \in PumpTasks : pump[p][t].pc # "done" => pumpTask[p] = t

PumpInv == Dispatcher!TypeOK /\ PumpsSound /\ ActiveIsTask

\* What enqueue leaves is a queue of jobs.
LEMMA EnqueueTyped ==
    ASSUME queue \in Seq(Jobs), NEW j \in Jobs PROVE Dispatcher!Enqueue(j) \in Seq(Jobs)
BY DEF Dispatcher!Enqueue

\* Starting a pump when the others are done leaves one, named by _pump_task.
LEMMA StartKeeps ==
    ASSUME PumpInv, NEW p \in Procs, NEW old \in PumpTasks \cup {NoTask},
           \A u \in PumpTasks \ {old} : pump[p][u].pc = "done", Dispatcher!StartPump(p, old)
    PROVE  pumpTask' \in [Procs -> PumpTasks \cup {NoTask}] /\ PumpsSound' /\ ActiveIsTask'
<1>1. PICK t \in PumpTasks \ {old} :
        /\ pumpTask' = [pumpTask EXCEPT ![p] = t]
        /\ pump' = [pump EXCEPT ![p] = [u \in PumpTasks |->
                       CASE u = t -> Dispatcher!Fresh [] u = old -> Dispatcher!Done
                         [] OTHER -> pump[p][u]]]
    BY DEF Dispatcher!StartPump
<1>2. Dispatcher!Done \in SoundPump /\ Dispatcher!Done.pc = "done"
    BY MCAssumption DEF Dispatcher!PumpAssumption, Dispatcher!Done, Dispatcher!Pump,
       SoundPump
<1>3. Dispatcher!Fresh \in SoundPump
  <2>1. BatchSize \in 0..BatchSize
    BY MCAssumption DEF Dispatcher!PumpAssumption
  <2>2. /\ Dispatcher!Done \in Dispatcher!Pump
        /\ Dispatcher!Fresh = [Dispatcher!Done EXCEPT !.pc = "pop", !.left = BatchSize,
                                                      !.restart = TRUE]
    BY <1>2 DEF SoundPump, Dispatcher!Fresh
  <2>3. Dispatcher!Fresh \in Dispatcher!Pump /\ Dispatcher!Fresh.pc = "pop"
        /\ Dispatcher!Fresh.left = BatchSize
    BY <2>1, <2>2 DEF Dispatcher!Pump
  <2> QED
    BY <2>3, MCAssumption DEF Dispatcher!PumpAssumption, SoundPump
<1>4. pumpTask' \in [Procs -> PumpTasks \cup {NoTask}]
    BY <1>1 DEF PumpInv, Dispatcher!TypeOK
<1>5. PumpsSound'
    BY <1>1, <1>2, <1>3 DEF PumpInv, PumpsSound
<1>6. ASSUME NEW q \in Procs, NEW u \in PumpTasks, pump'[q][u].pc # "done"
      PROVE  pumpTask'[q] = u
    BY <1>1, <1>2, <1>6 DEF PumpInv, Dispatcher!TypeOK, PumpsSound, ActiveIsTask
<1> QED
    BY <1>4, <1>5, <1>6 DEF ActiveIsTask

\* Changing a running task, or ending it, keeps the invariant.
LEMMA TaskKeeps ==
    ASSUME PumpInv, NEW p \in Procs, NEW t \in PumpTasks, NEW d \in SoundPump,
           pump[p][t].pc # "done",
           pump' = [pump EXCEPT ![p][t] = d],
           \/ pumpTask' = pumpTask
           \/ d.pc = "done" /\ pumpTask' = [pumpTask EXCEPT ![p] = NoTask]
    PROVE  pumpTask' \in [Procs -> PumpTasks \cup {NoTask}] /\ PumpsSound' /\ ActiveIsTask'
<1>1. pumpTask' \in [Procs -> PumpTasks \cup {NoTask}] /\ PumpsSound'
    BY DEF PumpInv, Dispatcher!TypeOK, PumpsSound
<1>2. pumpTask[p] = t
    BY DEF PumpInv, ActiveIsTask
<1>3. ASSUME NEW q \in Procs, NEW u \in PumpTasks, pump'[q][u].pc # "done"
      PROVE  pumpTask'[q] = u
    BY <1>1, <1>2, <1>3 DEF PumpInv, Dispatcher!TypeOK, PumpsSound, ActiveIsTask
<1> QED
    BY <1>1, <1>3 DEF ActiveIsTask

\* Before the first schedule() no task runs.
LEMMA PumpInit == Dispatcher!Init => PumpInv
BY MCAssumption DEF Dispatcher!PumpAssumption, Dispatcher!Init, PumpInv,
   Dispatcher!TypeOK, ActiveIsTask, PumpsSound, SoundPump, Dispatcher!Done,
   Dispatcher!Pump

\* SoundPump pumps have the type TypeOK asks for.
LEMMA SoundTyped == PumpsSound => pump \in [Procs -> [PumpTasks -> Dispatcher!Pump]]
BY DEF PumpsSound, SoundPump

\* Every step keeps the invariant.
LEMMA PumpNext == PumpInv /\ [Dispatcher!Next]_(Dispatcher!vars) => PumpInv'
<1> SUFFICES ASSUME PumpInv, [Dispatcher!Next]_(Dispatcher!vars) PROVE PumpInv'
    OBVIOUS
<1> USE MCAssumption DEF Dispatcher!PumpAssumption, Dispatcher!counts
<1>1. ASSUME NEW p \in Procs, NEW j \in Jobs, Dispatcher!Schedule(p, j) PROVE PumpInv'
    BY <1>1, EnqueueTyped DEF Dispatcher!Schedule, PumpInv, Dispatcher!TypeOK, PumpsSound,
       ActiveIsTask
<1>2. ASSUME NEW p \in Procs, NEW j \in Jobs, Dispatcher!Wake(p, j) PROVE PumpInv'
  <2>1. CASE Dispatcher!Active(p)
    BY <1>2, <2>1 DEF Dispatcher!Wake, PumpInv, Dispatcher!TypeOK, PumpsSound, ActiveIsTask
  <2>2. CASE ~Dispatcher!Active(p)
    <3>1. \A u \in PumpTasks \ {NoTask} : pump[p][u].pc = "done"
        BY <2>2 DEF PumpInv, ActiveIsTask, Dispatcher!Active
    <3>2. pumpTask' \in [Procs -> PumpTasks \cup {NoTask}] /\ PumpsSound' /\ ActiveIsTask'
        BY <1>2, <2>2, <3>1, StartKeeps DEF Dispatcher!Wake
    <3> QED
        BY <1>2, <3>2, SoundTyped DEF Dispatcher!Wake, PumpInv, Dispatcher!TypeOK,
           PumpsSound, SoundPump
  <2> QED
    BY <2>1, <2>2
<1>3. ASSUME NEW j \in Jobs, Dispatcher!RetryEnqueue(j) PROVE PumpInv'
    BY <1>3, EnqueueTyped DEF Dispatcher!RetryEnqueue, PumpInv, Dispatcher!TypeOK,
       PumpsSound, ActiveIsTask
<1>4. ASSUME NEW p \in Procs, NEW t \in PumpTasks, Dispatcher!PumpPop(p, t) PROVE PumpInv'
  <2> DEFINE d == IF queue = <<>> THEN [pump[p][t] EXCEPT !.pc = "finally"]
                  ELSE [pump[p][t] EXCEPT !.pc = "dispatch", !.job = Head(queue)]
  <2>1. pump[p][t] \in SoundPump /\ pump[p][t].pc # "done"
    BY <1>4 DEF Dispatcher!PumpPop, PumpInv, PumpsSound
  <2>2. d \in SoundPump
    <3>1. CASE queue = <<>>
        BY <2>1, <3>1 DEF SoundPump, Dispatcher!Pump
    <3>2. CASE queue # <<>>
      <4>1. Head(queue) \in Jobs
        BY <3>2 DEF PumpInv, Dispatcher!TypeOK
      <4> QED
        BY <1>4, <2>1, <3>2, <4>1 DEF Dispatcher!PumpPop, SoundPump, Dispatcher!Pump
    <3> QED
        BY <3>1, <3>2
  <2>a. queue' \in Seq(Jobs)
    <3>1. queue \in Seq(Jobs) /\ (queue # <<>> => Tail(queue) \in Seq(Jobs))
        BY DEF PumpInv, Dispatcher!TypeOK
    <3> QED
        BY <1>4, <3>1 DEF Dispatcher!PumpPop
  <2>3. pump' = [pump EXCEPT ![p][t] = d]
    BY <1>4 DEF Dispatcher!PumpPop, PumpInv, PumpsSound
  <2>4. \/ pumpTask' = pumpTask
        \/ d.pc = "done" /\ pumpTask' = [pumpTask EXCEPT ![p] = NoTask]
    BY <1>4 DEF Dispatcher!PumpPop, Dispatcher!Done
  <2> HIDE DEF d
  <2>5. pumpTask' \in [Procs -> PumpTasks \cup {NoTask}] /\ PumpsSound' /\ ActiveIsTask'
    BY <2>1, <2>2, <2>3, <2>4, TaskKeeps
  <2>6. pump' \in [Procs -> [PumpTasks -> Dispatcher!Pump]]
    BY <2>5 DEF PumpsSound, SoundPump
  <2> QED
    BY <1>4, <2>1, <2>5, <2>6, <2>a DEF Dispatcher!PumpPop, PumpInv, Dispatcher!TypeOK,
       Dispatcher!Fault
<1>5. ASSUME NEW p \in Procs, NEW t \in PumpTasks, Dispatcher!PumpDispatched(p, t)
      PROVE PumpInv'
  <2> DEFINE d == [pump[p][t] EXCEPT !.left = pump[p][t].left - 1, !.job = NoJob,
                     !.pc = IF pump[p][t].left = 1 THEN "finally" ELSE "pop"]
  <2>a. pump[p][t].pc = "dispatch"
    BY <1>5 DEF Dispatcher!PumpDispatched
  <2>1. pump[p][t] \in SoundPump /\ pump[p][t].pc # "done"
    BY <1>5 DEF Dispatcher!PumpDispatched, PumpInv, PumpsSound
  <2>2. d \in SoundPump
    <3>1. pump[p][t].left - 1 \in 0..BatchSize
        BY <2>a, <2>1 DEF SoundPump, Dispatcher!Pump
    <3>2. pump[p][t].left # 1 => pump[p][t].left - 1 # 0
        BY <2>1 DEF SoundPump, Dispatcher!Pump
    <3> QED
        BY <2>1, <3>1, <3>2 DEF SoundPump, Dispatcher!Pump
  <2>3. pump' = [pump EXCEPT ![p][t] = d]
    BY <1>5 DEF Dispatcher!PumpDispatched, PumpInv, PumpsSound
  <2>4. \/ pumpTask' = pumpTask
        \/ d.pc = "done" /\ pumpTask' = [pumpTask EXCEPT ![p] = NoTask]
    BY <1>5 DEF Dispatcher!PumpDispatched, Dispatcher!Done
  <2> HIDE DEF d
  <2>5. pumpTask' \in [Procs -> PumpTasks \cup {NoTask}] /\ PumpsSound' /\ ActiveIsTask'
    BY <2>1, <2>2, <2>3, <2>4, TaskKeeps
  <2>6. pump' \in [Procs -> [PumpTasks -> Dispatcher!Pump]]
    BY <2>5 DEF PumpsSound, SoundPump
  <2>7. pump[p][t].job \in Jobs
    BY <2>a, <2>1 DEF SoundPump
  <2> QED
    BY <1>5, <2>5, <2>6, <2>7 DEF Dispatcher!PumpDispatched, PumpInv, Dispatcher!TypeOK
<1>6. ASSUME NEW p \in Procs, NEW t \in PumpTasks, Dispatcher!PumpRefused(p, t)
      PROVE PumpInv'
  <2> DEFINE d == [pump[p][t] EXCEPT !.pc = "check"]
  <2>a. pump[p][t].pc = "dispatch"
    BY <1>6 DEF Dispatcher!PumpRefused
  <2>1. pump[p][t] \in SoundPump /\ pump[p][t].pc # "done"
    BY <1>6 DEF Dispatcher!PumpRefused, PumpInv, PumpsSound
  <2>2. d \in SoundPump
    BY <2>a, <2>1 DEF SoundPump, Dispatcher!Pump
  <2>3. pump' = [pump EXCEPT ![p][t] = d]
    BY <1>6 DEF Dispatcher!PumpRefused, PumpInv, PumpsSound
  <2>4. \/ pumpTask' = pumpTask
        \/ d.pc = "done" /\ pumpTask' = [pumpTask EXCEPT ![p] = NoTask]
    BY <1>6 DEF Dispatcher!PumpRefused, Dispatcher!Done
  <2> HIDE DEF d
  <2>5. pumpTask' \in [Procs -> PumpTasks \cup {NoTask}] /\ PumpsSound' /\ ActiveIsTask'
    BY <2>1, <2>2, <2>3, <2>4, TaskKeeps
  <2>6. pump' \in [Procs -> [PumpTasks -> Dispatcher!Pump]]
    BY <2>5 DEF PumpsSound, SoundPump
  <2>7. pump[p][t].job \in Jobs
    BY <2>a, <2>1 DEF SoundPump
  <2> QED
    BY <1>6, <2>5, <2>6, <2>7, EnqueueTyped DEF Dispatcher!PumpRefused, PumpInv,
       Dispatcher!TypeOK
<1>7. ASSUME NEW p \in Procs, NEW t \in PumpTasks, Dispatcher!PumpCheck(p, t) PROVE PumpInv'
  <2> DEFINE d == [pump[p][t] EXCEPT !.pc = "finally", !.job = NoJob,
                     !.restart = Dispatcher!Queued \ {pump[p][t].job} # {}]
  <2>1. pump[p][t] \in SoundPump /\ pump[p][t].pc # "done"
    BY <1>7 DEF Dispatcher!PumpCheck, PumpInv, PumpsSound
  <2>2. d \in SoundPump
    BY <1>7, <2>1 DEF Dispatcher!PumpCheck, SoundPump, Dispatcher!Pump, Dispatcher!Done,
       PumpInv, Dispatcher!TypeOK
  <2>3. pump' = [pump EXCEPT ![p][t] = d]
    BY <1>7 DEF Dispatcher!PumpCheck, PumpInv, PumpsSound
  <2>4. \/ pumpTask' = pumpTask
        \/ d.pc = "done" /\ pumpTask' = [pumpTask EXCEPT ![p] = NoTask]
    BY <1>7 DEF Dispatcher!PumpCheck, Dispatcher!Done
  <2> HIDE DEF d
  <2>5. pumpTask' \in [Procs -> PumpTasks \cup {NoTask}] /\ PumpsSound' /\ ActiveIsTask'
    BY <2>1, <2>2, <2>3, <2>4, TaskKeeps
  <2>6. pump' \in [Procs -> [PumpTasks -> Dispatcher!Pump]]
    BY <2>5 DEF PumpsSound, SoundPump
  <2> QED
    BY <1>7, <2>1, <2>5, <2>6 DEF Dispatcher!PumpCheck, PumpInv, Dispatcher!TypeOK,
       Dispatcher!Fault
<1>8. ASSUME NEW p \in Procs, NEW t \in PumpTasks, Dispatcher!PumpRaises(p, t)
      PROVE PumpInv'
  <2> DEFINE d == [pump[p][t] EXCEPT !.pc = "finally", !.restart = FALSE,
                     !.job = NoJob]
  <2>1. pump[p][t] \in SoundPump /\ pump[p][t].pc # "done"
    BY <1>8 DEF Dispatcher!PumpRaises, PumpInv, PumpsSound
  <2>2. d \in SoundPump
    BY <1>8, <2>1 DEF Dispatcher!PumpRaises, SoundPump, Dispatcher!Pump, Dispatcher!Done,
       PumpInv, Dispatcher!TypeOK
  <2>3. pump' = [pump EXCEPT ![p][t] = d]
    BY <1>8 DEF Dispatcher!PumpRaises, PumpInv, PumpsSound
  <2>4. \/ pumpTask' = pumpTask
        \/ d.pc = "done" /\ pumpTask' = [pumpTask EXCEPT ![p] = NoTask]
    BY <1>8 DEF Dispatcher!PumpRaises, Dispatcher!Done
  <2> HIDE DEF d
  <2>5. pumpTask' \in [Procs -> PumpTasks \cup {NoTask}] /\ PumpsSound' /\ ActiveIsTask'
    BY <2>1, <2>2, <2>3, <2>4, TaskKeeps
  <2>6. pump' \in [Procs -> [PumpTasks -> Dispatcher!Pump]]
    BY <2>5 DEF PumpsSound, SoundPump
  <2> QED
    BY <1>8, <2>1, <2>5, <2>6 DEF Dispatcher!PumpRaises, PumpInv, Dispatcher!TypeOK,
       Dispatcher!Fault
<1>9. ASSUME NEW p \in Procs, NEW t \in PumpTasks, Dispatcher!PumpFinally(p, t)
      PROVE PumpInv'
  <2> DEFINE d == IF pump[p][t].restart THEN [pump[p][t] EXCEPT !.pc = "closing"]
                                            ELSE Dispatcher!Done
  <2>1. pump[p][t] \in SoundPump /\ pump[p][t].pc # "done"
    BY <1>9 DEF Dispatcher!PumpFinally, PumpInv, PumpsSound
  <2>2. d \in SoundPump
    <3>1. Dispatcher!Done \in SoundPump
        BY DEF Dispatcher!Done, SoundPump, Dispatcher!Pump
    <3>2. [pump[p][t] EXCEPT !.pc = "closing"] \in SoundPump
        BY <2>1 DEF SoundPump, Dispatcher!Pump
    <3> QED
        BY <3>1, <3>2
  <2>3. pump' = [pump EXCEPT ![p][t] = d]
    BY <1>9 DEF Dispatcher!PumpFinally, PumpInv, PumpsSound
  <2>4. \/ pumpTask' = pumpTask
        \/ d.pc = "done" /\ pumpTask' = [pumpTask EXCEPT ![p] = NoTask]
    BY <1>9 DEF Dispatcher!PumpFinally, Dispatcher!Done
  <2> HIDE DEF d
  <2>5. pumpTask' \in [Procs -> PumpTasks \cup {NoTask}] /\ PumpsSound' /\ ActiveIsTask'
    BY <2>1, <2>2, <2>3, <2>4, TaskKeeps
  <2>6. pump' \in [Procs -> [PumpTasks -> Dispatcher!Pump]]
    BY <2>5 DEF PumpsSound, SoundPump
  <2> QED
    BY <1>9, <2>5, <2>6 DEF Dispatcher!PumpFinally, PumpInv, Dispatcher!TypeOK
<1>10. ASSUME NEW p \in Procs, NEW t \in PumpTasks, Dispatcher!PumpCloseRaises(p, t)
       PROVE PumpInv'
  <2> DEFINE d == Dispatcher!Done
  <2>1. pump[p][t] \in SoundPump /\ pump[p][t].pc # "done"
    BY <1>10 DEF Dispatcher!PumpCloseRaises, PumpInv, PumpsSound
  <2>2. d \in SoundPump
    BY <1>10, <2>1 DEF Dispatcher!PumpCloseRaises, SoundPump, Dispatcher!Pump,
       Dispatcher!Done, PumpInv, Dispatcher!TypeOK
  <2>3. pump' = [pump EXCEPT ![p][t] = d]
    BY <1>10 DEF Dispatcher!PumpCloseRaises, PumpInv, PumpsSound
  <2>4. \/ pumpTask' = pumpTask
        \/ d.pc = "done" /\ pumpTask' = [pumpTask EXCEPT ![p] = NoTask]
    BY <1>10 DEF Dispatcher!PumpCloseRaises, Dispatcher!Done
  <2> HIDE DEF d
  <2>5. pumpTask' \in [Procs -> PumpTasks \cup {NoTask}] /\ PumpsSound' /\ ActiveIsTask'
    BY <2>1, <2>2, <2>3, <2>4, TaskKeeps
  <2>6. pump' \in [Procs -> [PumpTasks -> Dispatcher!Pump]]
    BY <2>5 DEF PumpsSound, SoundPump
  <2> QED
    BY <1>10, <2>1, <2>5, <2>6 DEF Dispatcher!PumpCloseRaises, PumpInv, Dispatcher!TypeOK,
       Dispatcher!Fault
<1>11. ASSUME NEW p \in Procs, NEW t \in PumpTasks, Dispatcher!PumpClose(p, t)
       PROVE PumpInv'
  <2>1. pump[p][t].pc # "done"
    BY <1>11 DEF Dispatcher!PumpClose
  <2>2. pumpTask' \in [Procs -> PumpTasks \cup {NoTask}] /\ PumpsSound' /\ ActiveIsTask'
    <3>1. CASE queue # <<>>
      <4>1. \A u \in PumpTasks \ {t} : pump[p][u].pc = "done"
        BY <2>1 DEF PumpInv, ActiveIsTask
      <4> QED
        BY <1>11, <3>1, <4>1, StartKeeps DEF Dispatcher!PumpClose
    <3>2. CASE queue = <<>>
      <4>1. Dispatcher!Done \in SoundPump /\ Dispatcher!Done.pc = "done"
        BY DEF Dispatcher!Done, SoundPump, Dispatcher!Pump
      <4> QED
        BY <1>11, <2>1, <3>2, <4>1, TaskKeeps DEF Dispatcher!PumpClose
    <3> QED
        BY <3>1, <3>2
  <2>3. pump' \in [Procs -> [PumpTasks -> Dispatcher!Pump]]
    BY <2>2 DEF PumpsSound, SoundPump
  <2> QED
    BY <1>11, <2>2, <2>3 DEF Dispatcher!PumpClose, PumpInv, Dispatcher!TypeOK
<1>12. CASE UNCHANGED Dispatcher!vars
    BY <1>12 DEF Dispatcher!vars, PumpInv, Dispatcher!TypeOK, PumpsSound, ActiveIsTask
<1> QED
    BY <1>1, <1>2, <1>3, <1>4, <1>5, <1>6, <1>7, <1>8, <1>9, <1>10, <1>11, <1>12 DEF
       Dispatcher!Next, Dispatcher!PumpStep

\* A process never runs two pumps, whatever is scheduled, refused or raised
\* while one pump hands over to the next.
THEOREM OnePumpAtATime == MCSpec => []OnePump
<1>1. MCInit => PumpInv
    BY PumpInit DEF MCInit
<1>2. [MCNext]_MCvars => [Dispatcher!Next]_(Dispatcher!vars)
    BY DEF MCNext, MCvars, pumpVars, Dispatcher!vars, Dispatcher!counts
<1>3. MCSpec => []PumpInv
    BY <1>1, <1>2, PumpNext, PTL DEF MCSpec
<1>4. PumpInv => OnePump
    BY DEF PumpInv, ActiveIsTask, OnePump, Dispatcher!OnePump
<1> QED
    BY <1>3, <1>4, PTL
=============================================================================
