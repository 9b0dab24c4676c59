------------------------------ MODULE MCBrowser ------------------------------
(***************************************************************************)
(* What the pages of a tenant wait for: the link to WhatsApp, with the     *)
(* constants of the configuration, the caches, the session of a tab and    *)
(* the tour.  They share no variable and only one of them runs in a        *)
(* behaviour.                                                              *)
(***************************************************************************)
EXTENDS WhatsappLink

CONSTANTS  \* of WebSession
    TabIds, Demos, Tenants, MaxRequests, MaxFailures, MaxRotations,
    PromptTabs  \* a tab changes its session only when it waits for nothing

VARIABLES
    part,  \* the component that runs
    cSession, cEpoch, cValue, cLoaded, cInFlight, cLoadError, cCalls, cServer,
    cWritten, cFailures,
    sTab, sStorage, sWorkspace, sRequests, sAlive, sFailures, sRotations,
    dCan, dUi, dLoad, dLate, dPrep, dOld, dAck, dAcks, dLatest, dSeen, dCarried, dBeats

Parts == {"link", "caches", "session", "tour"}

\* Requests of one tenant that are answered or fail.
Settling == INSTANCE TenantCaches WITH
    Tenants <- {"a"}, Resources <- {"timezoneOptions", "plans"},
    Calls <- {1, 2}, NoTenant <- "none", NoCall <- 0, MaxSessions <- 2,
    MaxVersion <- 1, MaxFailures <- 1,
    session <- cSession, epoch <- cEpoch, value <- cValue, loaded <- cLoaded,
    inFlight <- cInFlight, loadError <- cLoadError, calls <- cCalls,
    server <- cServer, written <- cWritten, failures <- cFailures

Session == INSTANCE WebSession WITH
    Tabs <- TabIds, Prompt <- PromptTabs,
    tab <- sTab, storage <- sStorage, workspace <- sWorkspace,
    requests <- sRequests, alive <- sAlive, failures <- sFailures,
    rotations <- sRotations

\* A demo, whose plan may change.
DemoTour == INSTANCE OrientationTour WITH
    R <- 2, Length <- 3, Conditional <- {1, 3}, Demo <- TRUE,
    Upgrades <- TRUE, MaxBeats <- 1,
    can <- dCan, ui <- dUi, load <- dLoad, late <- dLate, prep <- dPrep,
    old <- dOld, ack <- dAck, acks <- dAcks, latest <- dLatest, seen <- dSeen,
    carried <- dCarried, beats <- dBeats

ASSUME MCAssumption ==
    /\ Settling!CachesAssumption
    /\ Session!SessionAssumption
    /\ DemoTour!TourAssumption

cVars == <<cSession, cEpoch, cValue, cLoaded, cInFlight, cLoadError, cCalls,
            cServer, cWritten, cFailures>>
sVars == <<sTab, sStorage, sWorkspace, sRequests, sAlive, sFailures,
            sRotations>>
dVars == <<dCan, dUi, dLoad, dLate, dPrep, dOld, dAck, dAcks, dLatest, dSeen,
            dCarried, dBeats>>
MCvars == <<part, vars, cVars, sVars, dVars>>

MCInit ==
    /\ part \in Parts
    /\ Init
    /\ Settling!Init
    /\ Session!Init
    /\ DemoTour!Init
    /\ part = "link" \/ ~linked

MCNext ==
    \/ part = "link" /\ Next
       /\ UNCHANGED <<part, cVars, sVars, dVars>>
    \/ part = "caches" /\ Settling!Next
       /\ UNCHANGED <<part, vars, sVars, dVars>>
    \/ part = "session" /\ Session!Next
       /\ UNCHANGED <<part, vars, cVars, dVars>>
    \/ part = "tour" /\ DemoTour!Next
       /\ UNCHANGED <<part, vars, cVars, sVars>>

MCSpec == MCInit /\ [][MCNext]_MCvars

\* The component that runs is scheduled as its own module says. In the
\* last case no fair action is enabled initially, so that a component which
\* does not run is no restriction on the one that does.
MCFairSpec ==
    /\ MCSpec
    /\ \/ part = "link" /\ Fairness
       \/ part = "tour" /\ DemoTour!Fairness
       \/ part \notin {"link", "tour"} /\ Settling!Fairness /\ Session!Fairness

-----------------------------------------------------------------------------
(* Properties *)

\* A tab is in one session: a reload finds the session the tab has, its data
\* come from the source of that session, its plan is that session's, and one
\* heartbeat at most is under way, over logins, logouts, switches and refused
\* tokens.
SessionSound ==
    /\ Session!TypeOK
    /\ Session!ReloadKeepsSession
    /\ Session!SourceOfSession
    /\ Session!PlanOfSession
    /\ Session!OneHeartbeat

\* clearDemoWorkspace: the data a visitor entered in a demo is kept through
\* logouts, replaced credentials and reloads; it goes when the demo has ended.
WorkspaceKept == Session!WorkspaceKept

\* useDemoHeartbeat: a tab leaves a demo that has ended.
EndedDemoLeaves == Session!EndedDemoLeaves

\* What a page waits for comes to an end: the promise of a load is settled,
\* whether its answer is current, stale or an error, and the preparation of a
\* step of the tour ends with the step on display or the tour stopped.
PagesSettle ==
    /\ Settling!PromisesSettle
    /\ DemoTour!StepSettles
=============================================================================
