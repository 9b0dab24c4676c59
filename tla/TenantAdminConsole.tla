------------------------ MODULE TenantAdminConsole ------------------------
(***************************************************************************)
(* The simulated console of a Pro demo for its clients and its catalog: a  *)
(* dialogue in which every message is read by the screen the component is  *)
(* on, while the user reads what was written last.                         *)
(*                                                                         *)
(* The demo workspace answers at once, so a message is handled in one      *)
(* step.  A heartbeat makes a new data source, with which the component    *)
(* loads its lists and starts the transcript again; a load that fails is   *)
(* shown until a retry succeeds.  Identifiers stand for names, and lists   *)
(* are in their order; drafts and the wording of the messages are left out.*)
(***************************************************************************)
EXTENDS Numbering, SequencesExt

CONSTANTS
    MaxId,      \* bound: identifiers
    Scenarios   \* how the console is used; which one holds is chosen initially

\* The section that is opened, the clients or services and the plans of the
\* first service at the beginning, the length of a page, and whether there are
\* heartbeats.
ASSUME ConsoleAssumption ==
    /\ MaxId \in Nat
    /\ Scenarios \subseteq [section : {"clients", "catalog"}, rows : Nat, held : Nat,
                            pageSize : Nat \ {0}, beats : BOOLEAN]
    /\ \A c \in Scenarios : c.rows + c.held <= MaxId /\ (c.held > 0 => c.rows > 0)

VARIABLES
    scenario, \* bound: one of Scenarios
    ws,       \* the workspace of the demo
    list,     \* clients, services and plans: the workspace as it was loaded
    ui,       \* screen, page, selections, confirmation and the target of preview
    prompt    \* the screen and the numbered entries of the last message

vars == <<scenario, ws, list, ui, prompt>>

section == scenario.section
PageSize == scenario.pageSize
Beats == scenario.beats

Ids == 1..MaxId
None == 0
Lists == {"client-select", "service-select", "service-delete-select"}
PlanLists == {"plan-select", "plan-delete-select"}
Creation == <<"client-create-name", "client-create-phone", "client-create-username",
              "client-create-password", "client-create-confirm">>
Screens ==
    Lists \cup PlanLists \cup ToSet(Creation) \cup
    {"menu", "client-detail", "client-edit-field", "client-edit-value", "client-confirm",
     "service-detail", "service-create-name", "service-edit-name", "service-delete-confirm",
     "plan-detail", "plan-create-name", "plan-edit-name", "plan-delete-confirm"}
Confirmations == {"none", "client-deactivate", "client-delete", "service-delete", "plan-delete"}

\* of: the service of a plan; used: identifiers given away so far.
Workspaces == [rows : SUBSET Ids, off : SUBSET Ids, of : [Ids -> Ids \cup {None}], used : 0..MaxId]

TypeOK ==
    /\ ws \in Workspaces /\ list \in Workspaces
    /\ scenario \in Scenarios
    /\ ui \in [screen : Screens, page : 0..MaxId, sel : Ids \cup {None}, plan : Ids \cup {None},
               confirmation : Confirmations, preview : Ids \cup {None}]
    /\ prompt \in [screen : Screens, items : Seq(Ids)]

-----------------------------------------------------------------------------
(* Messages *)

PlansOf(w, s) == {p \in Ids : w.of[p] = s /\ s # None}

Entries(n) ==
    IF n.screen \in Lists THEN Ordered(list.rows)
    ELSE IF n.screen \in PlanLists THEN Ordered(PlansOf(list, n.sel))
    ELSE <<>>

LastPage(s) == IF s = <<>> THEN 0 ELSE (Len(s) - 1) \div PageSize
Page(s, p) == SubSeq(s, p * PageSize + 1,
                     IF Len(s) < (p + 1) * PageSize THEN Len(s) ELSE (p + 1) * PageSize)

\* The page p of a list; a confirmation names its target.
Text(n, p) ==
    [screen |-> n.screen,
     items |-> CASE n.screen = "client-confirm" -> <<n.sel>>
                 [] n.screen \in {"service-delete-confirm", "plan-delete-confirm"} -> <<n.preview>>
                 [] OTHER -> Page(Entries(n), p)]

Menu == [screen |-> "menu", page |-> 0, sel |-> None, plan |-> None,
         confirmation |-> "none", preview |-> None]
MenuText == [screen |-> "menu", items |-> <<>>]

\* The component goes on to n and writes page p of what n is about.
Writes(n, p) == ui' = n /\ prompt' = Text(n, p) /\ UNCHANGED <<scenario, ws, list>>
Goes(n) == Writes(n, n.page)
On(screen) == [ui EXCEPT !.screen = screen]
goMenu == Goes(Menu)

\* An error or a reprompt; nothing changes.
Stays == UNCHANGED vars

selectedRow == ui.sel \in list.rows
selectedPlan == ui.plan # None /\ list.of[ui.plan] # None

\* The dialogue stays on the screen of the operation.
CompleteInPlace(w) ==
    /\ ws' = w /\ list' = w
    /\ prompt' = MenuText
    /\ UNCHANGED <<scenario, ui>>

\* The workspace becomes w, the lists are loaded and the menu is written.
completeMutation(w) ==
    /\ ws' = w /\ list' = w
    /\ ui' = Menu /\ prompt' = MenuText
    /\ UNCHANGED scenario

\* What the workspace refuses is an error, whatever the reason.
Mutation(known, w) == (known /\ completeMutation(w)) \/ Stays

Without(w, r) ==
    [rows |-> w.rows \ {r}, off |-> w.off \ {r}, used |-> w.used,
     of |-> [p \in Ids |-> IF w.of[p] = r THEN None ELSE w.of[p]]]
WithoutPlan(w, p) == [w EXCEPT !.of[p] = None]
Fresh(w) == w.used + 1

-----------------------------------------------------------------------------
(* The component is opened, reloaded and left *)

Init ==
    /\ scenario \in Scenarios
    /\ ws = [rows |-> 1..scenario.rows, off |-> {}, used |-> scenario.rows + scenario.held,
             of |-> [p \in Ids |-> IF p \in scenario.rows + 1..scenario.rows + scenario.held
                                   THEN 1 ELSE None]]
    /\ list = ws /\ ui = Menu /\ prompt = MenuText

\* onCancel or onBack; the same section is opened again later, since the
\* workspace of the model holds the rows of one section.
Leave ==
    /\ list' = ws /\ ui' = Menu /\ prompt' = MenuText
    /\ UNCHANGED <<scenario, ws>>

Heartbeat ==
    /\ Beats
    /\ list' = ws /\ prompt' = MenuText
    /\ UNCHANGED <<scenario, ws, ui>>

OtherTab ==
    /\ \/ \E r \in ws.rows : ws' = Without(ws, r)
       \/ \E r \in ws.rows, off \in SUBSET ws.rows :
            /\ section = "clients" /\ off \in {ws.off \cup {r}, ws.off \ {r}}
            /\ ws' = [ws EXCEPT !.off = off]
       \/ \E p \in Ids : ws.of[p] # None /\ ws' = WithoutPlan(ws, p)
    /\ UNCHANGED <<scenario, list, ui, prompt>>

\* "9" on one screen: whether its client, service or plan is there decides.
Unwind(there, n) == IF there THEN Goes(n) ELSE goMenu

goBack ==
    \/ ui.screen = "menu" /\ Leave
    \/ /\ ui.screen \in Lists
       /\ IF ui.page > 0 THEN Goes([ui EXCEPT !.page = @ - 1]) ELSE goMenu
    \/ ui.screen = "client-detail" /\ Goes([On("client-select") EXCEPT !.page = 0])
    \/ ui.screen = "client-edit-field" /\ Unwind(selectedRow, On("client-detail"))
    \/ ui.screen = "client-edit-value" /\ Goes(On("client-edit-field"))
    \/ ui.screen = "client-create-name" /\ goMenu
    \/ \E i \in 2..Len(Creation) : ui.screen = Creation[i] /\ Goes(On(Creation[i - 1]))
    \/ /\ ui.screen = "client-confirm"
       /\ Unwind(selectedRow, [On("client-detail") EXCEPT !.confirmation = "none"])
    \/ ui.screen = "service-detail" /\ Goes([On("service-select") EXCEPT !.page = 0])
    \/ /\ ui.screen \in {"service-edit-name", "plan-select", "service-delete-confirm"}
       /\ Unwind(selectedRow, [On("service-detail") EXCEPT !.confirmation = "none",
                                                           !.preview = None])
    \/ /\ ui.screen = "plan-detail"
       /\ IF selectedRow THEN Writes([On("plan-select") EXCEPT !.page = 0], ui.page)
                            ELSE goMenu
    \/ /\ ui.screen \in {"plan-edit-name", "plan-delete-confirm"}
       /\ Unwind(selectedPlan, [On("plan-detail") EXCEPT !.confirmation = "none",
                                                         !.preview = None])
    \/ ui.screen \in {"plan-delete-select", "plan-create-name"}
         /\ Unwind(selectedRow, On("service-detail"))
    \/ ui.screen = "service-create-name" /\ goMenu

\* "8" on a list.
Advance ==
    /\ ui.screen \in Lists \cup PlanLists
    /\ IF ui.screen \in PlanLists /\ ~selectedRow THEN goMenu
       ELSE IF ui.page < LastPage(Entries(ui)) THEN Goes([ui EXCEPT !.page = @ + 1]) ELSE Stays

-----------------------------------------------------------------------------
(* Clients *)

MenuChoice ==
    /\ ui.screen = "menu"
    /\ \/ Goes([On(IF section = "clients" THEN "client-select" ELSE "service-select")
                 EXCEPT !.page = 0])
       \/ Goes(On(IF section = "clients" THEN "client-create-name" ELSE "service-create-name"))
       \/ /\ section = "catalog" /\ list.rows # {}
          /\ Goes([On("service-delete-select") EXCEPT !.page = 0])

\* A number counts from the first entry of the page, whatever the page shows.
Chosen == {Entries(ui)[i] : i \in (ui.page * PageSize + 1)..Len(Entries(ui))}

ClientSelect ==
    /\ ui.screen = "client-select"
    /\ \E c \in Chosen : Goes([On("client-detail") EXCEPT !.sel = c, !.page = 0])

ClientDetail ==
    /\ ui.screen = "client-detail"
    /\ IF ~selectedRow THEN goMenu
       ELSE \/ Goes(On("client-edit-field"))
            \/ /\ ui.sel \notin list.off
               /\ Goes([On("client-confirm") EXCEPT !.confirmation = "client-deactivate"])
            \/ /\ ui.sel \in list.off
               /\ Mutation(ui.sel \in ws.rows, [ws EXCEPT !.off = @ \ {ui.sel}])
            \/ /\ ui.sel \in list.off /\ ui.sel \in ws.rows
               /\ Goes([On("client-confirm") EXCEPT !.confirmation = "client-delete",
                                                    !.preview = ui.sel])

ClientEdit ==
    \/ ui.screen = "client-edit-field" /\ Goes(On("client-edit-value"))
    \/ ui.screen = "client-edit-value" /\ Mutation(ui.sel \in ws.rows, ws)

\* The answer to the last question creates the client; a refused value is
\* asked for again.
ClientCreate ==
    \/ \E i \in 1..Len(Creation) - 1 : ui.screen = Creation[i] /\ Goes(On(Creation[i + 1]))
    \/ /\ ui.screen = "client-create-confirm"
       /\ \/ /\ Fresh(ws) \in Ids
             /\ completeMutation([ws EXCEPT !.rows = @ \cup {Fresh(ws)}, !.used = Fresh(ws)])
          \/ \E i \in 1..Len(Creation) : Goes(On(Creation[i]))

ClientConfirm ==
    /\ ui.screen = "client-confirm" /\ ui.confirmation # "none"
    /\ IF ui.confirmation = "client-deactivate"
       THEN Mutation(ui.sel \in ws.rows, [ws EXCEPT !.off = @ \cup {ui.sel}])
       ELSE Mutation(ui.sel \in ws.off, Without(ws, ui.sel))

-----------------------------------------------------------------------------
(* Catalog *)

\* A service that cannot be previewed leaves the list on its first page.
ServiceSelect ==
    \/ /\ ui.screen = "service-select"
       /\ \E s \in Chosen : Goes([On("service-detail") EXCEPT !.sel = s, !.page = 0])
    \/ /\ ui.screen = "service-delete-select"
       /\ \E s \in Chosen :
            LET n == [ui EXCEPT !.sel = s, !.page = 0] IN
            IF s \in ws.rows
            THEN Goes([n EXCEPT !.screen = "service-delete-confirm", !.preview = s,
                                !.confirmation = "service-delete"])
            ELSE ui' = n /\ UNCHANGED <<scenario, ws, list, prompt>>

\* The list of plans is written with the page the component is on.
ServiceDetail ==
    /\ ui.screen = "service-detail"
    /\ IF ~selectedRow THEN goMenu
       ELSE \/ Goes(On("service-edit-name")) \/ Goes(On("plan-create-name"))
            \/ /\ PlansOf(list, ui.sel) # {}
               /\ \/ Writes([On("plan-select") EXCEPT !.page = 0], ui.page)
                  \/ Goes([On("plan-delete-select") EXCEPT !.page = 0])

ServiceEdit ==
    \/ /\ ui.screen = "service-create-name"
       /\ Mutation(Fresh(ws) \in Ids,
                   [ws EXCEPT !.rows = @ \cup {Fresh(ws)}, !.used = Fresh(ws)])
    \/ ui.screen = "service-edit-name" /\ Mutation(ui.sel \in ws.rows, ws)

AskToDelete(p) ==
    IF ws.of[p] # None
    THEN Goes([On("plan-delete-confirm") EXCEPT !.plan = p, !.preview = p,
                                                !.confirmation = "plan-delete"])
    ELSE ui' = [ui EXCEPT !.plan = p] /\ UNCHANGED <<scenario, ws, list, prompt>>

PlanSelect ==
    /\ ui.screen \in PlanLists
    /\ IF ~selectedRow THEN goMenu
       ELSE \E p \in Chosen :
              IF ui.screen = "plan-select"
              THEN Goes([On("plan-detail") EXCEPT !.plan = p, !.page = 0])
              ELSE AskToDelete(p)

PlanDetail ==
    /\ ui.screen = "plan-detail"
    /\ IF ~selectedPlan THEN goMenu
       ELSE Goes(On("plan-edit-name")) \/ AskToDelete(ui.plan)

PlanEdit ==
    \/ /\ ui.screen = "plan-create-name"
       /\ IF ~selectedRow THEN goMenu
          ELSE Mutation(ui.sel \in ws.rows /\ Fresh(ws) \in Ids,
                        [ws EXCEPT !.of[Fresh(ws)] = ui.sel, !.used = Fresh(ws)])
    \/ /\ ui.screen = "plan-edit-name"
       /\ IF ~selectedPlan THEN goMenu ELSE Mutation(ws.of[ui.plan] # None, ws)

CatalogConfirm ==
    /\ ui.screen \in {"service-delete-confirm", "plan-delete-confirm"}
    /\ ui.confirmation # "none"
    /\ IF ui.confirmation = "service-delete"
       THEN Mutation(ui.sel \in ws.rows, Without(ws, ui.sel))
       ELSE Mutation(ui.plan # None /\ ws.of[ui.plan] = ui.sel, WithoutPlan(ws, ui.plan))

Confirmed == ClientConfirm \/ CatalogConfirm

Next ==
    \/ Leave \/ Heartbeat \/ OtherTab \/ goBack \/ Advance \/ MenuChoice
    \/ ClientSelect \/ ClientDetail \/ ClientEdit \/ ClientCreate
    \/ ServiceSelect \/ ServiceDetail \/ ServiceEdit
    \/ PlanSelect \/ PlanDetail \/ PlanEdit \/ Confirmed

Spec == Init /\ [][Next]_vars

-----------------------------------------------------------------------------
(* Properties *)

\* Lists of plans, or of services to delete, that are longer than a page can be
\* left on a later page and written again from there.
OnePage == section = "clients" \/ MaxId <= PageSize

\* A message is read by the screen that asked for it, and a number means the
\* entry that was written beside it.
PromptMatches == prompt = Text(ui, ui.page)

\* "Destructive delete warnings requiring CONFIRM": a confirmation removes or
\* deactivates what the warning named, and nothing beside it but the plans of
\* a service, whatever another tab has done in between.  (A heartbeat clears the
\* warning and leaves the question open.)
OnlyTheNamed ==
    [][Confirmed /\ ~Beats =>
         /\ ws.rows \ ws'.rows \subseteq ToSet(prompt.items)
         /\ ws'.off \ ws.off \subseteq ToSet(prompt.items)
         /\ \A p \in Ids : ws'.of[p] # ws.of[p] => {p, ws.of[p]} \cap ToSet(prompt.items) # {}]_vars

\* A client that is active, also since the preview, is not deleted.
ActiveIsKept ==
    [][Confirmed /\ section = "clients" => ws.rows \ ws'.rows \subseteq ws.off]_vars

\* How far a screen is from the menu.
Depth(screen) ==
    CASE screen = "menu" -> 0
      [] screen \in Lists \cup {"client-create-name", "service-create-name"} -> 1
      [] screen \in {"client-detail", "service-detail", "client-create-phone"} -> 2
      [] screen \in PlanLists \cup {"client-edit-field", "client-confirm", "service-edit-name",
                                    "service-delete-confirm", "plan-create-name",
                                    "client-create-username"} -> 3
      [] screen \in {"plan-detail", "client-edit-value", "client-create-password"} -> 4
      [] OTHER -> 5

\* "9 goes back without cancelling": on every screen it leads towards the menu,
\* a screen or a page at a time, so that nobody is caught in the dialogue.
BackLeads ==
    [][goBack /\ ui.screen # "menu" =>
         \/ Depth(ui'.screen) < Depth(ui.screen)
         \/ ui'.screen = ui.screen /\ ui'.page < ui.page]_vars
=============================================================================
