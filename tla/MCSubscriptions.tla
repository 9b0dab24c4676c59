--------------------------- MODULE MCSubscriptions ---------------------------
(***************************************************************************)
(* The reminders and the lifecycle of the subscriptions, with the          *)
(* constants of the configuration.  They share no variable and only one of *)
(* them runs in a behaviour.                                               *)
(***************************************************************************)
EXTENDS SubscriptionReminders

CONSTANTS
    SubIds, WorkerIds, JobIds,
    LateJobs,     \* bound: runs of the cleanup only where nothing overlaps
    OverlapTime,  \* bound: the clock where requests and phases overlap
    Day, Period, Grace, Keep, MaxTime, Horizon

VARIABLES
    part,  \* the component that runs
    lOverlap, lNow, lRow, lReq, lJob, lGranted

Parts == {"reminders", "lifecycle"}

Lifecycle == INSTANCE SubscriptionLifecycle WITH
    Subs <- SubIds, Workers <- WorkerIds, Jobs <- JobIds,
    overlap <- lOverlap, now <- lNow, row <- lRow, req <- lReq, job <- lJob,
    granted <- lGranted

ASSUME MCAssumption == Lifecycle!LifecycleAssumption

lVars == <<lOverlap, lNow, lRow, lReq, lJob, lGranted>>
MCvars == <<part, vars, lVars>>

MCInit ==
    /\ part \in Parts
    /\ Init
    /\ Lifecycle!Init

MCNext ==
    \/ part = "reminders" /\ Next
       /\ UNCHANGED <<part, lVars>>
    \/ part = "lifecycle" /\ Lifecycle!Next
       /\ (lOverlap => lNow' <= OverlapTime /\ \A j \in LateJobs : lJob'[j] = lJob[j])
       /\ UNCHANGED <<part, vars>>

MCSpec == MCInit /\ [][MCNext]_MCvars

\* The component that runs is scheduled as its own module says.
MCFairSpec ==
    /\ MCSpec
    /\ \/ part = "reminders" /\ Fairness
       \/ part = "lifecycle"

-----------------------------------------------------------------------------
(* Properties *)

\* What a subscription was granted is kept: the cleanup expires only what is
\* past and deletes only what was cancelled long ago, where it does not overlap
\* with a request; and where one does too, no acknowledged renewal is lost to
\* the cleanup and no deleted subscription comes back.
LifecycleKept ==
    /\ [](Lifecycle!TypeOK /\ Lifecycle!RenewalsAdd)
    /\ Lifecycle!ExpiresOnlyPast /\ Lifecycle!DeletedWasCancelled /\ Lifecycle!NotRevived
=============================================================================
