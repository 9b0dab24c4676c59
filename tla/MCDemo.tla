------------------------------- MODULE MCDemo --------------------------------
(***************************************************************************)
(* The access of a demo, with the constants of the configuration, and the  *)
(* workspace its browser keeps.  They share no variable and only one of    *)
(* them runs in a behaviour.                                               *)
(***************************************************************************)
EXTENDS DemoAccess

CONSTANTS  \* of DemoWorkspace
    ClientIds, ServiceIds, PlanIds, SubIds, Names, Emails, Releases, Base

VARIABLES
    part,  \* the component that runs
    wKind, wWs

Parts == {"access", "workspace"}

\* A baseline of one subscription.
MCBaseline ==
    [clients |-> [c \in {"c1"} |-> [name |-> "n1", active |-> TRUE]],
     services |-> [v \in {"v1"} |-> "n1"],
     plans |-> [p \in {"p1"} |-> [service |-> "v1", name |-> "n1"]],
     subs |-> [u \in {"u1"} |-> [client |-> "c1", service |-> "v1", plan |-> "p1",
                                 email |-> "e1", status |-> "active"]],
     tour |-> {}]

Workspace == INSTANCE DemoWorkspace WITH
    Clients <- ClientIds, Services <- ServiceIds, Plans <- PlanIds,
    Subs <- SubIds, Baseline <- Base, kind <- wKind, ws <- wWs

ASSUME MCAssumption == Workspace!BaselineAssumption

wVars == <<wKind, wWs>>
MCvars == <<part, vars, wVars>>

MCInit ==
    /\ part \in Parts
    /\ Init
    /\ Workspace!Init

MCNext ==
    \/ part = "access" /\ Next
       /\ UNCHANGED <<part, wVars>>
    \/ part = "workspace" /\ Workspace!Next
       /\ UNCHANGED <<part, vars>>

MCSpec == MCInit /\ [][MCNext]_MCvars

\* The component that runs is scheduled as its own module says.
MCFairSpec ==
    /\ MCSpec
    /\ \/ part = "access" /\ Fairness
       \/ part \in {"workspace"}

-----------------------------------------------------------------------------
(* Properties *)

\* The workspace of a demo holds together whatever is created, renamed, moved,
\* deleted, reset or found damaged, from identifiers another tab has deleted:
\* every subscription has its client, its service and a plan of that service,
\* names differ, a subscription goes only with its client, its plan or the
\* workspace, and the tour that was seen survives a reset.
WorkspaceSound ==
    /\ [](Workspace!TypeOK /\ Workspace!Linked /\ Workspace!NamesDiffer)
    /\ Workspace!OnlyCascades /\ Workspace!TourKept
=============================================================================
