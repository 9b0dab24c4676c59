--------------------------- MODULE MCLookupResume ---------------------------
(***************************************************************************)
(* The two ends of the life of a lookup in a backend process, with the     *)
(* constants of the configuration: the pumps that hand jobs over, and the  *)
(* notification of the workflow that waits for the answer.  They share no  *)
(* variable and only one of them runs in a behaviour.                      *)
(***************************************************************************)
EXTENDS LookupResume

CONSTANTS
    Jobs, Procs, PumpTasks, NoTask, NoJob, BatchSize, MaxCalls, MaxRefusals,
    MaxRetries, MaxFaults

VARIABLES
    part,  \* the component that runs
    queue, calls, called, guard, pumpTask, pump, out, refusals, retries, faults

Parts == {"resume", "pump"}

Dispatcher == INSTANCE LookupPump WITH Tasks <- PumpTasks, task <- pumpTask

ASSUME MCAssumption == Dispatcher!PumpAssumption

pumpVars == <<queue, calls, called, guard, pumpTask, pump, out,
              refusals, retries, faults>>
MCvars == <<part, vars, pumpVars>>

MCInit ==
    /\ part \in Parts
    /\ Init
    /\ Dispatcher!Init

MCNext ==
    \/ part = "resume" /\ Next
       /\ UNCHANGED <<part, pumpVars>>
    \/ part = "pump" /\ Dispatcher!Next
       /\ UNCHANGED <<part, vars>>

MCSpec == MCInit /\ [][MCNext]_MCvars

\* The component that runs is scheduled as its own module says.
MCFairSpec ==
    /\ MCSpec
    /\ \/ part = "resume" /\ Fairness
       \/ part = "pump" /\ Dispatcher!Fairness

-----------------------------------------------------------------------------
(* Properties *)

\* A process never runs two pumps, not even while one hands over to the next
\* and a schedule() call waits (_pump_guard).
OnePump == Dispatcher!OnePump

\* No lost wake-up while dispatches succeed: a queued job is popped, although
\* its schedule() call found a pump active that was about to end.
QueueFlows ==
    /\ []Dispatcher!TypeOK
    /\ Dispatcher!EventuallyPopped
=============================================================================
