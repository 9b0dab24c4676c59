------------------------ MODULE SubscriptionConsole ------------------------
(***************************************************************************)
(* The simulated console of a Pro demo for its subscriptions: lists with a *)
(* filter and pages, a dialogue that collects the fields of a new          *)
(* subscription, and the cancellation, renewal and reactivation of one     *)
(* that is there.  As in TenantAdminConsole the workspace answers at once  *)
(* and a message is handled in one step.                                   *)
(*                                                                         *)
(* A subscription is its status, and lists are in the order of the         *)
(* identifiers, which are not used again.  Of a draft only the dialogue    *)
(* that collected each field is kept; clients, services and plans are left *)
(* out, and with them the reasons for which an operation is refused.       *)
(***************************************************************************)
EXTENDS Numbering, SequencesExt

CONSTANTS
    MaxId,         \* bound: identifiers
    MaxDialogues,  \* bound: dialogues that create a subscription
    PageSize,
    Scenarios      \* how the console is used; which one holds is chosen initially

\* The subscriptions at the beginning, the dialogues, and whether there are
\* heartbeats.
ConsoleAssumption ==
    /\ MaxId \in Nat /\ MaxDialogues \in Nat /\ PageSize \in Nat \ {0}
    /\ Scenarios \subseteq [held : 0..MaxId, dialogues : 0..MaxDialogues, beats : BOOLEAN]

VARIABLES
    scenario,   \* bound: one of Scenarios
    ws,         \* the status of each subscription
    list,       \* the workspace as it was loaded
    ui,         \* screen, filter, page, selection and what an edit is about
    draft,      \* the dialogue that each field comes from, 0 without one
    custom,     \* whether the duration in the draft is custom
    dialogue,   \* dialogues begun so far
    prompt      \* the screen and the subscriptions of the last message

vars == <<scenario, ws, list, ui, draft, custom, dialogue, prompt>>

Ids == 1..MaxId
None == 0
Statuses == {"active", "expired", "cancelled"}
Absent == {"none", "gone"}   \* never there, deleted

Creation == <<"create-client", "create-service", "create-plan", "create-email",
              "create-password", "create-profile", "create-pin", "create-duration",
              "create-start", "create-expiry">>
Fields == ToSet(Creation)
Optional == {"create-password", "create-profile", "create-pin"}
Required == Fields \ (Optional \cup {"create-expiry"})
Creating == Fields \cup {"create-confirm"}
Editing == {"edit-fields", "edit-value", "edit-duration", "edit-duration-expiry",
            "edit-client", "edit-service", "edit-plan", "edit-service-plan"}
Lifecycle == {"cancel-confirm", "renew-duration", "renew-expiry",
              "reactivate-duration", "reactivate-expiry"}
Screens == {"menu", "filter", "list", "detail"} \cup Creating \cup Editing \cup Lifecycle

TypeOK ==
    /\ scenario \in Scenarios
    /\ ws \in [Ids -> Statuses \cup Absent] /\ list \in [Ids -> Statuses \cup Absent]
    /\ ui \in [screen : Screens, filter : Statuses \cup {"all"}, page : 0..MaxId,
               sel : Ids \cup {None}, field : BOOLEAN, payload : BOOLEAN]
    /\ dialogue \in 0..MaxDialogues
    /\ draft \in [Fields -> 0..MaxDialogues] /\ custom \in BOOLEAN
    /\ prompt \in [screen : Screens, items : Seq(Ids)]

-----------------------------------------------------------------------------
(* Messages *)

Known(w) == {s \in Ids : w[s] \notin Absent}
filteredSubscriptions(n) ==
    Ordered({s \in Known(list) : n.filter \in {"all", list[s]}})

LastPage(s) == IF s = <<>> THEN 0 ELSE (Len(s) - 1) \div PageSize
Page(s, p) == SubSeq(s, p * PageSize + 1,
                     IF Len(s) < (p + 1) * PageSize THEN Len(s) ELSE (p + 1) * PageSize)

\* A list shows a page, the details and the question about a cancellation name
\* one subscription.
Text(n) ==
    [screen |-> n.screen,
     items |-> CASE n.screen = "list" -> Page(filteredSubscriptions(n), n.page)
                 [] n.screen \in {"detail", "cancel-confirm"} -> <<n.sel>>
                 [] OTHER -> <<>>]

NoDraft == [f \in Fields |-> 0]
Drafts == <<draft, custom, dialogue>>

On(screen) == [ui EXCEPT !.screen = screen]
Writes(n) == ui' = n /\ prompt' = Text(n) /\ UNCHANGED <<scenario, ws, list>>
Goes(n) == Writes(n) /\ UNCHANGED Drafts

\* An error or a reprompt; nothing changes.
Stays == UNCHANGED vars

selected == ui.sel \in Known(list)

Cleared == [ui EXCEPT !.screen = "menu", !.sel = None, !.page = 0,
                      !.payload = FALSE, !.field = FALSE]
goMenu == Goes(Cleared)

goList == Goes([On("list") EXCEPT !.page = 0])

\* The workspace becomes w, the lists are loaded and n is written.
Completes(w, n) ==
    ws' = w /\ list' = w /\ ui' = n /\ prompt' = Text(n) /\ UNCHANGED scenario

-----------------------------------------------------------------------------
(* The component is opened, reloaded and left *)

Opened == [screen |-> "menu", filter |-> "all", page |-> 0, sel |-> None,
           field |-> FALSE, payload |-> FALSE]

Init ==
    /\ scenario \in Scenarios
    /\ ws \in {w \in [Ids -> Statuses \cup {"none"}] : Known(w) = 1..scenario.held}
    /\ list = ws /\ ui = Opened /\ prompt = Text(Opened)
    /\ draft = NoDraft /\ custom = FALSE /\ dialogue = 0

\* onCancel or onBack; the console is opened again later.
Leave ==
    /\ list' = ws /\ ui' = Opened /\ prompt' = Text(Opened)
    /\ draft' = NoDraft /\ custom' = FALSE
    /\ UNCHANGED <<scenario, ws, dialogue>>

Heartbeat ==
    /\ scenario.beats
    /\ list' = ws /\ prompt' = Text(Opened)
    /\ UNCHANGED <<scenario, ws, ui, draft, custom, dialogue>>

OtherTab ==
    /\ \E s \in Known(ws), to \in {"active", "cancelled", "gone"} : ws' = [ws EXCEPT ![s] = to]
    /\ UNCHANGED <<scenario, list, ui, draft, custom, dialogue, prompt>>

-----------------------------------------------------------------------------
(* Menu, filter and list *)

MenuChoice ==
    /\ ui.screen = "menu"
    /\ \/ goList
       \/ Goes(On("filter"))
       \/ /\ dialogue < scenario.dialogues /\ dialogue' = dialogue + 1
          /\ draft' = NoDraft /\ custom' = FALSE
          /\ Writes(On("create-client"))

FilterChoice ==
    /\ ui.screen = "filter"
    /\ \E f \in Statuses \cup {"all"} :
         Goes([On("list") EXCEPT !.filter = f, !.page = 0])

Advance ==
    /\ ui.screen = "list"
    /\ ui.page < LastPage(filteredSubscriptions(ui))
    /\ Goes([ui EXCEPT !.page = @ + 1])

Select ==
    /\ ui.screen = "list"
    /\ \E s \in ToSet(Page(filteredSubscriptions(ui), ui.page)) :
         Goes([On("detail") EXCEPT !.sel = s])

-----------------------------------------------------------------------------
(* One subscription *)

\* Credentials are shown without leaving the screen.
Detail ==
    /\ ui.screen = "detail"
    /\ IF ~selected THEN goMenu
       ELSE \/ Goes(On("edit-fields"))
            \/ list[ui.sel] = "active" /\ Goes(On("cancel-confirm"))
            \/ list[ui.sel] # "active" /\ Goes(On("reactivate-duration"))
            \/ Goes(On("renew-duration"))
            \/ Stays

lifecycle(to) ==
    IF ui.sel = None THEN goMenu
    ELSE \/ /\ ui.sel \in Known(ws)
            /\ Completes([ws EXCEPT ![ui.sel] = to], On("detail"))
            /\ UNCHANGED Drafts
         \/ Stays

\* What is cancelled is the first active subscription of the list.
CancelFirst ==
    /\ ui.screen = "cancel-confirm"
    /\ \E s \in Known(ws) :
         /\ ws[s] = "active" /\ Completes([ws EXCEPT ![s] = "cancelled"], On("detail"))
         /\ UNCHANGED Drafts

CancelConfirm == ui.screen = "cancel-confirm" /\ lifecycle("cancelled")

\* A custom duration has its end asked for.
LifecycleDuration ==
    \/ ui.screen = "renew-duration" /\ (lifecycle("active") \/ Goes(On("renew-expiry")))
    \/ ui.screen = "reactivate-duration" /\ (lifecycle("active") \/ Goes(On("reactivate-expiry")))

LifecycleExpiry ==
    ui.screen \in {"renew-expiry", "reactivate-expiry"} /\ lifecycle("active")

\* A refused value is asked for again; no edit changes a status.
saveEdit ==
    IF ui.sel = None THEN goMenu
    ELSE \/ /\ ui.sel \in Known(ws)
            /\ Completes(ws, [On("detail") EXCEPT !.payload = FALSE])
            /\ UNCHANGED Drafts
         \/ Stays

EditFields ==
    /\ ui.screen = "edit-fields" /\ selected
    /\ \/ \E next \in {"edit-client", "edit-service", "edit-plan", "edit-duration"} : Goes(On(next))
       \/ Goes([On("edit-value") EXCEPT !.field = TRUE])

EditChoice ==
    /\ ui.screen \in Editing \ {"edit-fields"} /\ selected
    /\ \/ ui.screen \in {"edit-client", "edit-plan", "edit-duration", "edit-duration-expiry"} /\ saveEdit
       \/ ui.screen = "edit-duration" /\ Goes(On("edit-duration-expiry"))
       \/ ui.screen = "edit-service" /\ Goes([On("edit-service-plan") EXCEPT !.payload = TRUE])
       \/ ui.screen = "edit-service-plan" /\ ui.payload /\ saveEdit
       \/ ui.screen = "edit-value" /\ IF ui.field THEN saveEdit ELSE goMenu

\* The subscription has disappeared from the list.
EditLost == ui.screen \in Editing /\ ~selected /\ goMenu

-----------------------------------------------------------------------------
(* A new subscription *)

\* The question after that of step i.
Following(i) ==
    IF i = Len(Creation) \/ (Creation[i] = "create-start" /\ ~custom)
    THEN "create-confirm" ELSE Creation[i + 1]

\* An answer that is skipped leaves its field without a value.
handleCreate ==
    /\ \E i \in 1..Len(Creation) :
         /\ ui.screen = Creation[i]
         /\ \E from \in {dialogue} \cup {0 : f \in Optional \cap {Creation[i]}} :
              draft' = [draft EXCEPT ![Creation[i]] = from]
         /\ custom' \in IF ui.screen = "create-duration" THEN BOOLEAN ELSE {custom}
         /\ Writes(On(Following(i)))
    /\ UNCHANGED dialogue

saveCreate ==
    /\ ui.screen = "create-confirm"
    /\ \A f \in Required : draft[f] # 0
    /\ \E s \in Ids :
         /\ ws[s] = "none" /\ \A r \in 1..s - 1 : ws[r] # "none"
         /\ Completes([ws EXCEPT ![s] = "active"], On("menu"))
    /\ draft' = NoDraft /\ custom' = FALSE
    /\ UNCHANGED dialogue

-----------------------------------------------------------------------------
(* "9" *)

\* The date "9" is one of 2001: a renewal until then is accepted for a
\* subscription that began before it and refused otherwise.
Back ==
    \/ ui.screen = "menu" /\ Leave
    \/ ui.screen \in {"list", "filter"} \cup Creating /\ goMenu
    \/ ui.screen = "detail" /\ goList
    \/ ui.screen \in Editing /\ IF selected THEN Goes(On("detail")) ELSE goMenu
    \/ ui.screen \in Lifecycle \ {"renew-expiry"} /\ Stays
    \/ ui.screen = "renew-expiry" /\ lifecycle("active")

Next ==
    \/ Leave \/ Heartbeat \/ OtherTab
    \/ MenuChoice \/ FilterChoice \/ Advance \/ Select
    \/ Detail \/ CancelConfirm \/ LifecycleDuration \/ LifecycleExpiry
    \/ EditFields \/ EditChoice \/ EditLost
    \/ handleCreate \/ saveCreate \/ Back

Spec == Init /\ [][Next]_vars

-----------------------------------------------------------------------------
(* Properties *)

\* A message is read by the screen that asked for it, about the subscriptions
\* the last message showed, whatever another tab has done to them.
PromptMatches == prompt = Text(ui)

\* A confirmation cancels the subscription that the question named and leaves
\* the others alone.
OnlyTheNamed ==
    [][CancelConfirm /\ ~scenario.beats =>
         \A s \in Ids : ws'[s] # ws[s] => s \in ToSet(prompt.items)]_vars

\* A number chooses a subscription that the list showed beside it, whatever
\* filters and pages came before.
ChosenWasListed ==
    [][ui.screen = "list" /\ ui'.screen = "detail" /\ ~scenario.beats
         => ui'.sel \in ToSet(prompt.items)]_vars

\* A subscription is created from the answers of one dialogue: none is missing
\* and none is left over from a dialogue that was given up.
NothingLeftOver ==
    ui.screen = "create-confirm" =>
        /\ \A f \in Required : draft[f] = dialogue
        /\ \A f \in Fields : draft[f] \in {0, dialogue}
        /\ draft["create-expiry"] = dialogue <=> custom

\* How far a screen is from the menu.
Depth(screen) ==
    CASE screen = "menu" -> 0
      [] screen \in {"list", "filter"} \cup Creating -> 1
      [] screen = "detail" -> 2
      [] OTHER -> 3

\* "9" has somewhere to return to, from every screen of the dialogue.
WayBack ==
    ui.screen # "menu" => ENABLED (Back /\ Depth(ui'.screen) < Depth(ui.screen))
=============================================================================
