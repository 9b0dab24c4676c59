----------------------------- MODULE MCConsoles ------------------------------
(***************************************************************************)
(* Safety of the pages: the console of the administrator, the console of   *)
(* the subscriptions, the caches and the tour.  They share no variable and *)
(* only one of them runs in a behaviour.                                   *)
(***************************************************************************)
EXTENDS TenantAdminConsole

CONSTANTS
    Subscriptions, MaxDialogues, SubscriptionPage, SubscriptionScenarios,
    Tenants, Resources, Calls, NoTenant, NoCall,  \* of TenantCaches
    MaxSessions, MaxVersion, MaxFailures,
    R, Length, Conditional, Demo, Upgrades, MaxBeats  \* of OrientationTour

VARIABLES
    part,  \* the component that runs
    sScenario, sWs, sList, sUi, sDraft, sCustom, sDialogue, sPrompt,
    eSession, eEpoch, eValue, eLoaded, eInFlight, eLoadError, eCalls, eServer,
    eWritten, eFailures,
    tCan, tUi, tLoad, tLate, tPrep, tOld, tAck, tAcks, tLatest, tSeen,
    tCarried, tBeats

Parts == {"admin", "subscriptions", "caches", "tour"}

\* Clients on pages of one, a catalog that fits one page, and both with
\* heartbeats.
MCScenarios ==
    {[section |-> "clients", rows |-> 2, held |-> 0, pageSize |-> 1, beats |-> FALSE],
     [section |-> "catalog", rows |-> 1, held |-> 1, pageSize |-> 3, beats |-> FALSE],
     [section |-> "catalog", rows |-> 2, held |-> 1, pageSize |-> 3, beats |-> FALSE],
     [section |-> "clients", rows |-> 2, held |-> 0, pageSize |-> 1, beats |-> TRUE],
     [section |-> "catalog", rows |-> 1, held |-> 2, pageSize |-> 1, beats |-> TRUE]}

\* Two pages of subscriptions, and two dialogues that create one.
MCSubscriptionScenarios ==
    {[held |-> 2, dialogues |-> 0, beats |-> FALSE],
     [held |-> 0, dialogues |-> 2, beats |-> TRUE]}

Console == INSTANCE SubscriptionConsole WITH
    MaxId <- Subscriptions, PageSize <- SubscriptionPage,
    Scenarios <- SubscriptionScenarios,
    scenario <- sScenario, ws <- sWs, list <- sList, ui <- sUi,
    draft <- sDraft, custom <- sCustom, dialogue <- sDialogue,
    prompt <- sPrompt

Caches == INSTANCE TenantCaches WITH
    session <- eSession, epoch <- eEpoch, value <- eValue, loaded <- eLoaded,
    inFlight <- eInFlight, loadError <- eLoadError, calls <- eCalls,
    server <- eServer, written <- eWritten, failures <- eFailures

Tour == INSTANCE OrientationTour WITH
    can <- tCan, ui <- tUi, load <- tLoad, late <- tLate, prep <- tPrep,
    old <- tOld, ack <- tAck, acks <- tAcks, latest <- tLatest, seen <- tSeen,
    carried <- tCarried, beats <- tBeats

ASSUME MCAssumption ==
    /\ Console!ConsoleAssumption
    /\ Caches!CachesAssumption
    /\ Tour!TourAssumption

sVars == <<sScenario, sWs, sList, sUi, sDraft, sCustom, sDialogue, sPrompt>>
eVars == <<eSession, eEpoch, eValue, eLoaded, eInFlight, eLoadError, eCalls,
            eServer, eWritten, eFailures>>
tVars == <<tCan, tUi, tLoad, tLate, tPrep, tOld, tAck, tAcks, tLatest, tSeen,
            tCarried, tBeats>>
MCvars == <<part, vars, sVars, eVars, tVars>>

MCInit ==
    /\ part \in Parts
    /\ Init
    /\ Console!Init
    /\ Caches!Init
    /\ Tour!Init
    /\ part = "admin" \/ scenario = CHOOSE c \in Scenarios : TRUE
    /\ \/ part = "subscriptions"
       \/ /\ sScenario = CHOOSE c \in SubscriptionScenarios : TRUE
          /\ \A i \in DOMAIN sWs : sWs[i] \in {"active", "none"}
    /\ part = "caches" \/ eSession = CHOOSE t \in Tenants : TRUE

MCNext ==
    \/ part = "admin" /\ Next
       /\ UNCHANGED <<part, sVars, eVars, tVars>>
    \/ part = "subscriptions" /\ Console!Next
       /\ UNCHANGED <<part, vars, eVars, tVars>>
    \/ part = "caches" /\ Caches!Next
       /\ UNCHANGED <<part, vars, sVars, tVars>>
    \/ part = "tour" /\ Tour!Next
       /\ UNCHANGED <<part, vars, sVars, eVars>>

MCSpec == MCInit /\ [][MCNext]_MCvars

-----------------------------------------------------------------------------
(* Properties *)

\* A number means the entry it was shown beside: without heartbeats, which
\* rewrite the transcript, the screen that reads a message is the one whose
\* prompt the user has read last, with the same entries, over pages, ways back
\* and changes of another tab; and a dialogue begins with nothing of the one
\* before.
PromptsMatch ==
    /\ TypeOK /\ (~Beats /\ OnePage => PromptMatches)
    /\ Console!TypeOK /\ (~sScenario.beats => Console!PromptMatches)
    /\ Console!NothingLeftOver

\* A message changes what the last prompt named and nothing else: the row that
\* a confirmation was asked for, or the subscription that was on the list, with
\* another tab changing rows meanwhile; a client that is active, also since the
\* preview, is not deleted; and "9" leads towards the menu.
ConsolesAct ==
    /\ ActiveIsKept /\ BackLeads /\ OnlyTheNamed
    /\ Console!OnlyTheNamed /\ Console!ChosenWasListed

\* A slot in flight holds a load that will be answered, of the current epoch for
\* a setting, so that it cannot block its resource for good; while no request
\* fails, pages that ask for one setting together send one request; the mailbox
\* shown after a write is not older than the write; and a load of a setting
\* publishes a value only in the session it was sent for, which the epoch
\* compared after the await (settings.ts 269, 297, ...) is there for.
CachesSound ==
    /\ [](/\ Caches!TypeOK /\ Caches!InFlightIsPending
          /\ Caches!MailboxReadsItsWrites
          /\ (eFailures = 0 => Caches!OneLoadPerResource))
    /\ Caches!LoadsRespectEpoch

\* A step of the tour is on display only after its own target was found, and
\* who is recorded as having completed the tour has seen its steps; over
\* superseded loads and later revisions no tour runs for a session that may not
\* have one, and an acknowledgement is never changed.
TourSound ==
    /\ [](Tour!TypeOK /\ Tour!ShownWasFound /\ Tour!NoTourUninvited)
    /\ Tour!CompletedWasSeen /\ Tour!Immutable
=============================================================================
