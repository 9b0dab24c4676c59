-------------------------- MODULE OrientationTour --------------------------
(***************************************************************************)
(* The orientation tour of a tenant's pages: the component that loads a    *)
(* release, prepares and shows its steps and acknowledges it, and the      *)
(* acknowledgements kept by the backend or, for a demo, by the workspace.  *)
(*                                                                         *)
(* Effects of the component run with the event that causes them.  A load   *)
(* or the preparation of a step that has been superseded goes on and       *)
(* finds out when it ends (late, old).  Everything that can be answered    *)
(* can fail, and a release of another target contract counts as a failure. *)
(* Wording, layout and the choice of releases by plan are left out.        *)
(***************************************************************************)
EXTENDS Naturals, FiniteSets

CONSTANTS
    R,            \* releases the tenant is eligible for, first to last
    Length,       \* steps of a release
    Conditional,  \* steps whose target may be missing
    Demo,         \* whether the account is a demo
    Upgrades,     \* whether the plan may change while the page is open
    MaxBeats      \* bound: heartbeats of a demo

TourAssumption ==
    /\ R \in Nat \ {0} /\ Length \in Nat \ {0} /\ MaxBeats \in Nat
    /\ Conditional \subseteq 1..Length /\ Demo \in BOOLEAN /\ Upgrades \in BOOLEAN

VARIABLES
    can,     \* canRun
    ui,      \* tour, stepIndex, running, targetReady, skipConfirmationOpen
    load,    \* the load that requestVersion names
    late,    \* loads of earlier versions, not answered yet
    prep,    \* step that the current prepareStep waits for
    old,     \* steps that cancelled preparations wait for
    ack,     \* the acknowledgement in flight
    acks,    \* acknowledgements of the tenant
    latest,  \* the release acknowledged last
    seen,    \* history: steps whose target was found since the release was loaded
    carried, \* history: a load has left the question about skipping open
    beats

vars == <<can, ui, load, late, prep, old, ack, acks, latest, seen, carried, beats>>

Releases == 1..R
Steps == 1..Length
None == 0
Unseen == <<"unseen", None>>
Latest == <<"latest", None>>
Release(r) == <<"release", r>>
Kinds == {Unseen, Latest} \cup {Release(r) : r \in Releases}
NoLoad == <<"none", None>>
Statuses == {"completed", "skipped"}
NoUi == [tour |-> None, step |-> 1, running |-> FALSE, ready |-> FALSE,
         dialog |-> FALSE]
NoAck == [stage |-> "none"]

TypeOK ==
    /\ can \in BOOLEAN
    /\ ui \in [tour : Releases \cup {None}, step : Steps, running : BOOLEAN,
               ready : BOOLEAN, dialog : BOOLEAN]
    /\ load \in Kinds \cup {NoLoad} /\ late \subseteq Kinds
    /\ prep \in Steps \cup {None} /\ old \subseteq Steps
    /\ ack \in {NoAck} \cup [stage : {"sent", "insert", "done"}, release : Releases,
                             status : Statuses]
    /\ acks \in [Releases -> Statuses \cup {"none"}]
    /\ latest \in Releases \cup {None}
    /\ seen \subseteq Steps /\ carried \in BOOLEAN /\ beats \in 0..MaxBeats

Init ==
    /\ can = TRUE /\ ui = NoUi
    /\ load = Unseen /\ late = {}
    /\ prep = None /\ old = {}
    /\ ack = NoAck
    /\ acks = [r \in Releases |-> "none"] /\ latest = None
    /\ seen = {} /\ carried = FALSE /\ beats = 0

-----------------------------------------------------------------------------
(* What the handlers of the component are made of *)

Joyride == ui.tour # None /\ ui.running /\ ui.ready
Asked == ui.tour # None /\ ui.dialog

\* The new state n is rendered: the effect of running, stepIndex and tour
\* cancels the preparation under way and starts one for the step.
Rendered(n) ==
    LET go == n.running /\ n.tour # None IN
    IF <<n.running, n.step, n.tour>> = <<ui.running, ui.step, ui.tour>>
    THEN ui' = n /\ UNCHANGED <<prep, old>>
    ELSE /\ ui' = [n EXCEPT !.ready = @ /\ ~go]
         /\ prep' = IF go THEN n.step ELSE None
         /\ old' = old \cup ({prep} \ {None})

Supersede(kind) ==
    /\ load' = kind
    /\ late' = late \cup ({load} \ {NoLoad})

stopTour ==
    /\ Supersede(NoLoad)
    /\ Rendered(NoUi)
    /\ seen' = {} /\ UNCHANGED carried

\* The question about skipping stays as it is.
loadTour(kind) ==
    /\ Supersede(kind)
    /\ Rendered([NoUi EXCEPT !.dialog = ui.dialog])
    /\ seen' = {} /\ carried' = (carried \/ ui.dialog)

-----------------------------------------------------------------------------
(* Loads *)

Unacknowledged == {r \in Releases : acks[r] = "none"}

\* What a request answers: nothing, or one release.  The backend knows of no
\* acknowledgement of a demo, and the data source of the demo refuses what
\* the workspace has.
Offer(kind) ==
    IF kind = Unseen
    THEN IF Demo THEN {1} \cap Unacknowledged
                 ELSE {r \in Unacknowledged : \A q \in Unacknowledged : r <= q}
    ELSE IF kind = Latest THEN {IF Demo \/ latest = None THEN 1 ELSE latest}
    ELSE {kind[2]}

\* The release is shown, or there is none to show.
LoadAnswer ==
    /\ load # NoLoad
    /\ load' = NoLoad
    /\ \/ /\ \E r \in Offer(load) :
               Rendered([ui EXCEPT !.tour = r, !.step = 1, !.ready = FALSE,
                                   !.running = TRUE])
       \/ UNCHANGED <<ui, prep, old>>
    /\ UNCHANGED <<can, late, ack, acks, latest, seen, carried, beats>>

LateAnswer(kind) ==
    /\ kind \in late
    /\ late' = late \ {kind}
    /\ UNCHANGED <<can, ui, load, prep, old, ack, acks, latest, seen, carried, beats>>

\* The account logs out, is downgraded or comes back.
CanRunChanges ==
    /\ can' = ~can
    /\ IF can THEN stopTour ELSE loadTour(Unseen)
    /\ UNCHANGED <<ack, acks, latest, beats>>

\* The dashboard reports a better plan.
setTenantPlan ==
    /\ can /\ Upgrades
    /\ loadTour(Unseen)
    /\ UNCHANGED <<can, ack, acks, latest, beats>>

\* Each heartbeat of a demo makes a new data source, and the effect that loads
\* the unseen tour depends on it.
Heartbeat ==
    /\ Demo /\ can /\ beats < MaxBeats
    /\ beats' = beats + 1
    /\ loadTour(Unseen)
    /\ UNCHANGED <<can, ack, acks, latest>>

handleReplay ==
    /\ can /\ ~Asked
    /\ loadTour(IF ui.tour = None THEN Latest ELSE Release(ui.tour))
    /\ UNCHANGED <<can, ack, acks, latest, beats>>

-----------------------------------------------------------------------------
(* Steps *)

\* prepareStep has navigated and found the target.
PrepFound ==
    /\ prep # None
    /\ prep' = None
    /\ ui' = [ui EXCEPT !.ready = TRUE]
    /\ seen' = seen \cup {prep}
    /\ UNCHANGED <<can, load, late, old, ack, acks, latest, carried, beats>>

\* A missing target leaves the tour waiting.
PrepMissingWaits ==
    /\ prep # None
    /\ prep' = None
    /\ UNCHANGED <<can, ui, load, late, old, ack, acks, latest, seen, carried, beats>>

\* The target is missing, or the navigation fails.
PrepMissing ==
    /\ prep # None
    /\ \/ /\ prep \in Conditional /\ prep < Length
          /\ Rendered([ui EXCEPT !.step = @ + 1])
          /\ UNCHANGED <<load, late, seen, carried>>
       \/ stopTour
    /\ UNCHANGED <<can, ack, acks, latest, beats>>

OldPrepEnds(s) ==
    /\ s \in old
    /\ old' = old \ {s}
    /\ UNCHANGED <<can, ui, load, late, prep, ack, acks, latest, seen, carried, beats>>

\* handleEvent: forward to a step that is not the last, or back.
Move ==
    /\ Joyride
    /\ \E s \in Steps :
         /\ s = ui.step + 1 \/ s = ui.step - 1
         /\ Rendered([ui EXCEPT !.ready = FALSE, !.step = s])
    /\ UNCHANGED <<can, load, late, ack, acks, latest, seen, carried, beats>>

JoyrideFails ==
    /\ Joyride
    /\ stopTour
    /\ UNCHANGED <<can, ack, acks, latest, beats>>

requestSkip ==
    /\ Joyride
    /\ Rendered([ui EXCEPT !.running = FALSE, !.ready = FALSE, !.dialog = TRUE])
    /\ UNCHANGED <<can, load, late, ack, acks, latest, seen, carried, beats>>

requestLearnMore ==
    /\ Joyride
    /\ Rendered([ui EXCEPT !.running = FALSE, !.ready = FALSE])
    /\ UNCHANGED <<can, load, late, ack, acks, latest, seen, carried, beats>>

keepTourGoing ==
    /\ Asked /\ ack = NoAck
    /\ Rendered([ui EXCEPT !.dialog = FALSE, !.ready = TRUE, !.running = TRUE])
    /\ UNCHANGED <<can, load, late, ack, acks, latest, seen, carried, beats>>

\* onOpenChange: the question is closed with the keyboard.
Dismiss ==
    /\ Asked
    /\ ui' = [ui EXCEPT !.dialog = FALSE]
    /\ UNCHANGED <<can, load, late, prep, old, ack, acks, latest, seen, carried, beats>>

-----------------------------------------------------------------------------
(* Acknowledgements *)

Write(r, status) ==
    /\ acks' = [acks EXCEPT ![r] = status]
    /\ latest' = r

\* Any forward move ends the tour.
AcknowledgeEarly ==
    /\ ack = NoAck /\ Joyride
    /\ ack' = [stage |-> "sent", release |-> ui.tour, status |-> "completed"]
    /\ UNCHANGED <<can, ui, load, late, prep, old, acks, latest, seen, carried, beats>>

\* Done on the last step, or the confirmation that the tour is to be skipped.
acknowledge ==
    /\ ack = NoAck
    /\ \E status \in Statuses :
         /\ IF status = "completed" THEN Joyride /\ ui.step = Length ELSE Asked
         /\ ack' = [stage |-> IF Demo THEN "done" ELSE "sent", release |-> ui.tour,
                    status |-> status]
         /\ IF Demo THEN Write(ui.tour, status) ELSE UNCHANGED <<acks, latest>>
    /\ UNCHANGED <<can, ui, load, late, prep, old, seen, carried, beats>>

\* The backend looks for an acknowledgement.
AckRead ==
    /\ ack.stage = "sent"
    /\ ack' = [ack EXCEPT !.stage = IF acks[ack.release] = "none" THEN "insert" ELSE "done"]
    /\ UNCHANGED <<can, ui, load, late, prep, old, acks, latest, seen, carried, beats>>

\* The row is inserted unless somebody else has inserted it.
AckInsert ==
    /\ ack.stage = "insert"
    /\ ack' = [ack EXCEPT !.stage = "done"]
    /\ IF acks[ack.release] = "none" THEN Write(ack.release, ack.status)
                                     ELSE UNCHANGED <<acks, latest>>
    /\ UNCHANGED <<can, ui, load, late, prep, old, seen, carried, beats>>

AckAnswer ==
    /\ ack.stage = "done"
    /\ ack' = NoAck
    /\ stopTour
    /\ UNCHANGED <<can, acks, latest, beats>>

AckFails ==
    /\ ack # NoAck
    /\ ack' = NoAck
    /\ UNCHANGED <<can, ui, load, late, prep, old, acks, latest, seen, carried, beats>>

\* Another administrator or another tab acknowledges a release.
OtherTab(r, status) ==
    /\ ~Demo /\ acks[r] = "none"
    /\ Write(r, status)
    /\ UNCHANGED <<can, ui, load, late, prep, old, ack, seen, carried, beats>>

Next ==
    \/ LoadAnswer \/ CanRunChanges \/ setTenantPlan \/ Heartbeat \/ handleReplay
    \/ \E kind \in Kinds : LateAnswer(kind)
    \/ PrepFound \/ PrepMissing \/ Move \/ JoyrideFails
    \/ \E s \in Steps : OldPrepEnds(s)
    \/ requestSkip \/ requestLearnMore \/ keepTourGoing \/ Dismiss
    \/ acknowledge \/ AckRead \/ AckInsert \/ AckAnswer \/ AckFails
    \/ \E r \in Releases, status \in Statuses : OtherTab(r, status)

Spec == Init /\ [][Next]_vars

\* Requests are answered or fail, and waiting for a target has a time limit.
Fairness ==
    /\ WF_vars(LoadAnswer) /\ WF_vars(PrepFound \/ PrepMissing)
    /\ WF_vars(AckRead \/ AckFails) /\ WF_vars(AckInsert \/ AckFails)
    /\ WF_vars(AckAnswer)

FairSpec == Spec /\ Fairness

-----------------------------------------------------------------------------
(* Properties *)

\* "Never start for Master Support Context or Client sessions", and "do not
\* launch a downgrade tour": no answer that was under way starts a tour on
\* a page that may not show one.
NoTourUninvited == ~can => ui.tour = None /\ prep = None

\* "Wait for the stable target.  Display the step": a step is on display only
\* after its own target was found, whichever steps, questions and loads
\* came in between.
ShownIsFound == Joyride => ui.step \in seen /\ prep = None

\* The same until a load leaves the question about skipping open.
ShownWasFound == ~carried => ShownIsFound

\* "Acknowledge only explicit completion": who is recorded as having completed
\* the tour has seen every step that is not conditional.
CompletedWasSeen ==
    [][ack = NoAck /\ ack' # NoAck /\ ack'.status = "completed" /\ ~carried
         => Steps \ Conditional \subseteq seen]_vars

\* "Acknowledgements are immutable and unique per Tenant and release", with
\* two administrators who end the same tour.  (A demo keeps its own.)
Immutable ==
    [][~Demo => \A r \in Releases : acks[r] # "none" => acks'[r] = acks[r]]_vars

\* The preparation of a step comes to an end: the step is shown or the tour
\* is stopped, and nothing waits for a target for ever.
StepSettles == ui.running ~> ui.ready \/ ~ui.running

\* "Closing the tour means skipping that Tour Release, but requires a short
\* confirmation": a heartbeat does not close the tour of a demo.
BeatsAreSilent == [][beats' # beats => ui' = ui]_vars

\* "Remain optional and replayable from Help": the answer to an acknowledgement
\* does not abandon a replay that was asked for after it.
ReplayHappens ==
    [][ack.stage = "done" /\ ack' = NoAck /\ load \in Kinds \ {Unseen} => load' = load]_vars
=============================================================================
