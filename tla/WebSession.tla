----------------------------- MODULE WebSession -----------------------------
(***************************************************************************)
(* The session of the browser: store/auth.ts, the interceptors of          *)
(* lib/api.ts, useDemoHeartbeat and the lifecycle of demo workspaces.      *)
(*                                                                         *)
(* Every tab has its own memory; localStorage and with it the token, the   *)
(* demo metadata and the demo workspaces are shared.  A request carries    *)
(* the token that localStorage has when it is sent, and its answer is      *)
(* handled with the memory the tab has when it arrives.                    *)
(*                                                                         *)
(* A user is a demo account, a production tenant or the master, who may    *)
(* act for a production tenant.  A plan is named by the tenant whose plan  *)
(* it is.  The contents of a workspace are reduced to whether it was       *)
(* edited; caches are in TenantCaches.                                     *)
(***************************************************************************)
EXTENDS Naturals, FiniteSets

CONSTANTS
    Tabs, Demos, Tenants,
    MaxRequests,   \* bound on requests under way
    MaxFailures,   \* bound on requests that fail on the way
    MaxRotations,  \* bound on replaced demo credentials
    Prompt         \* a tab changes its session only when it waits for nothing

None == "none"
Master == "master"
Users == Demos \cup Tenants \cup {Master}

SessionAssumption ==
    /\ {None, Master} \cap (Demos \cup Tenants) = {} /\ Demos \cap Tenants = {}
    /\ MaxRequests \in Nat \ {0} /\ MaxFailures \in Nat /\ MaxRotations \in Nat
    /\ Prompt \in BOOLEAN

VARIABLES
    tab,        \* memory of each tab
    storage,    \* the keys of the session in localStorage
    workspace,  \* the demo workspaces in localStorage
    requests,   \* requests under way
    alive,      \* demo accounts that have not ended
    failures, rotations

vars == <<tab, storage, workspace, requests, alive, failures, rotations>>

\* The session a token stands for; demo and plan follow from it.
Token(user, tenant) ==
    [user |-> user, tenant |-> tenant,
     demo |-> IF user \in Demos THEN user ELSE None, plan |-> tenant]
NoToken == Token(None, None)

\* createDataSource: the demo's workspace or the production API.
source(t) == tab[t].demo

\* loadFromStorage
Loaded(s) == IF s.user = None THEN [s EXCEPT !.demo = None] ELSE s

Kinds == {"login", "logout", "switch", "heartbeat", "dashboard"}
Answers == {"sent", "ok", "ended", "replaced", "failed"}
OfTab(t) == {r \in requests : r.tab = t}

TypeOK ==
    LET Sessions == [user: Users \cup {None}, tenant: Demos \cup Tenants \cup {None},
                     demo: Demos \cup {None}, plan: Demos \cup Tenants \cup {None}] IN
    /\ tab \in [Tabs -> Sessions] /\ storage \in Sessions
    /\ workspace \in [Demos -> {"absent", "baseline", "edited"}]
    /\ \A r \in requests :
          /\ r.tab \in Tabs /\ r.kind \in Kinds /\ r.answer \in Answers
          /\ r.user \in Users \cup {None}
          /\ r.tenant \in Demos \cup Tenants \cup {None}
          /\ r.fresh \in BOOLEAN
    /\ Cardinality(requests) <= MaxRequests
    /\ alive \subseteq Demos
    /\ failures \in 0..MaxFailures /\ rotations \in 0..MaxRotations

Init ==
    /\ tab = [t \in Tabs |-> NoToken] /\ storage = NoToken
    /\ workspace = [d \in Demos |-> "absent"]
    /\ requests = {}
    /\ alive = Demos
    /\ failures = 0 /\ rotations = 0

-----------------------------------------------------------------------------
(* Requests *)

\* fresh: the heartbeat belongs to the current generation of its hook.
Send(t, kind, user, tenant) ==
    LET r == [tab |-> t, kind |-> kind, user |-> user, tenant |-> tenant,
              answer |-> "sent", fresh |-> kind = "heartbeat"] IN
    /\ Cardinality(requests) < MaxRequests
    /\ r \notin requests
    /\ requests' = requests \cup {r}
    /\ UNCHANGED <<tab, storage, workspace, alive, failures, rotations>>

Waiting(t, kinds) == \E r \in OfTab(t) : r.kind \in kinds
SessionKinds == {"login", "logout", "switch"}
MayChange(t) == Prompt => OfTab(t) = {}
MayAsk(t) == Prompt => ~Waiting(t, SessionKinds)

login(t, u) ==
    /\ tab[t].user = None /\ MayChange(t) /\ ~Waiting(t, {"login"})
    /\ Send(t, "login", u, IF u = Master THEN None ELSE u)

logout(t) ==
    /\ tab[t].user # None /\ MayChange(t) /\ ~Waiting(t, {"logout"})
    /\ Send(t, "logout", storage.user, storage.tenant)

switchTenant(t, p) ==
    /\ tab[t].user = Master /\ tab[t].tenant # p
    /\ MayChange(t) /\ ~Waiting(t, {"switch"})
    /\ storage.user = Master
    /\ Send(t, "switch", storage.user, p)

\* runHeartbeat: one at a time in each generation.
runHeartbeat(t) ==
    /\ tab[t].user # None /\ tab[t].demo # None
    /\ \A r \in OfTab(t) : ~r.fresh
    /\ MayAsk(t)
    /\ Send(t, "heartbeat", storage.user, storage.tenant)

\* The dashboard of a production tenant; a demo reads its workspace.
loadDashboard(t) ==
    /\ tab[t].tenant # None /\ source(t) = None
    /\ MayAsk(t) /\ ~Waiting(t, {"dashboard"})
    /\ Send(t, "dashboard", storage.user, storage.tenant)

\* Another tab has logged out, or has no tenant to show.
Refused(r) == r.user = None \/ (r.kind = "dashboard" /\ r.tenant = None)

\* The server answers: a demo that has ended is refused everything but a
\* logout, which is local, and a heartbeat with replaced credentials says so.
Handle(r) ==
    /\ r \in requests /\ r.answer = "sent"
    /\ \E answer \in Answers \ {"sent"} :
          /\ requests' = (requests \ {r}) \cup {[r EXCEPT !.answer = answer]}
          /\ CASE answer = "ended" -> /\ r.user \in Demos \ alive
                                      /\ r.kind \in {"login", "heartbeat"}
                                      /\ UNCHANGED <<failures, rotations>>
               [] answer = "replaced" -> /\ r.kind = "heartbeat" /\ r.user \in alive
                                         /\ rotations < MaxRotations
                                         /\ rotations' = rotations + 1
                                         /\ UNCHANGED failures
               [] answer = "failed" -> /\ IF Refused(r) THEN UNCHANGED failures
                                          ELSE /\ failures < MaxFailures
                                               /\ failures' = failures + 1
                                       /\ UNCHANGED rotations
               [] OTHER -> /\ ~Refused(r)
                           /\ r.user \in Demos \ alive => r.kind = "logout"
                           /\ UNCHANGED <<failures, rotations>>
    /\ UNCHANGED <<tab, storage, workspace, alive>>

DemoEnds(d) ==
    /\ d \in alive
    /\ alive' = alive \ {d}
    /\ UNCHANGED <<tab, storage, workspace, requests, failures, rotations>>

-----------------------------------------------------------------------------
(* Answers *)

\* ensure: the workspace of a demo session exists.
Ensured(d) ==
    IF d # None /\ workspace[d] = "absent"
      THEN [workspace EXCEPT ![d] = "baseline"] ELSE workspace

\* The effect of useDemoHeartbeat starts a new generation when demo or user
\* of the tab change.
Remaining(r, s) ==
    {IF q.tab = r.tab /\ (s.demo # tab[r.tab].demo
                          \/ (s.user = None) # (tab[r.tab].user = None))
       THEN [q EXCEPT !.fresh = FALSE] ELSE q : q \in requests \ {r}}

\* A tab takes over session s and drops the request r it answered.
Become(r, s) ==
    /\ tab' = [tab EXCEPT ![r.tab] = s]
    /\ requests' = Remaining(r, s)

Ignore(r) ==
    /\ requests' = requests \ {r}
    /\ UNCHANGED <<tab, storage, workspace>>

\* A token without a plan leaves the plan that is there.
DeliverTokenKeepingPlan(r) ==
    LET plan == IF r.tenant = None THEN storage.plan ELSE r.tenant
        s == [Token(r.user, r.tenant) EXCEPT !.plan = plan] IN
    /\ r.kind \in {"login", "switch"}
    /\ IF r.answer = "ok"
         THEN Become(r, s) /\ storage' = s /\ workspace' = Ensured(s.demo)
         ELSE Ignore(r)

\* login and switchTenant: saveTokenData and stateFromToken.
DeliverToken(r) ==
    LET s == Token(r.user, r.tenant) IN
    /\ r.kind \in {"login", "switch"}
    /\ IF r.answer = "ok"
         THEN Become(r, s) /\ storage' = s /\ workspace' = Ensured(s.demo)
         ELSE Ignore(r)

\* logout: local whatever the server says; workspaces stay.
DeliverLogout(r) ==
    /\ r.kind = "logout"
    /\ Become(r, NoToken)
    /\ storage' = NoToken
    /\ UNCHANGED workspace

\* clearDemoWorkspace, clearTokenData and anonymousState.
EndDemo(r) ==
    LET d == tab[r.tab].demo IN
    /\ Become(r, NoToken)
    /\ storage' = NoToken
    /\ workspace' = IF d = None THEN workspace ELSE [workspace EXCEPT ![d] = "absent"]

\* The end of a demo is taken for a failure of the network.
DeliverHeartbeatLenient(r) ==
    LET mine == tab[r.tab]
        demo == IF r.user \in Demos THEN r.user ELSE None IN
    /\ r.kind = "heartbeat"
    /\ IF r.answer = "ok"
         THEN /\ Become(r, [mine EXCEPT !.demo = demo, !.plan = r.tenant])
              /\ storage' = [storage EXCEPT !.demo = demo, !.plan = r.tenant]
              /\ workspace' = Ensured(demo)
         ELSE Ignore(r)

\* A session whose credentials were replaced loses its workspace too.
DeliverHeartbeatEager(r) ==
    LET mine == tab[r.tab] IN
    /\ r.kind = "heartbeat"
    /\ IF r.answer \in {"ended", "replaced"} THEN EndDemo(r)
       ELSE Ignore(r)

\* heartbeat: the demo of the answer against the demo the tab has by now.
DeliverHeartbeat(r) ==
    LET mine == tab[r.tab]
        demo == IF r.user \in Demos THEN r.user ELSE None
        plan == IF r.tenant = None THEN mine.plan ELSE r.tenant IN
    /\ r.kind = "heartbeat"
    /\ CASE r.answer = "ended" \/ (r.answer = "ok" /\ mine.demo \notin {None, demo})
              -> EndDemo(r)
         [] r.answer = "replaced" -> /\ Become(r, NoToken) /\ storage' = NoToken
                                     /\ UNCHANGED workspace
         [] r.answer = "failed" -> Ignore(r)
         [] OTHER -> /\ Become(r, [mine EXCEPT !.demo = demo, !.plan = plan])
                     /\ storage' = [storage EXCEPT !.demo = demo,
                                       !.plan = IF r.tenant = None THEN @ ELSE plan]
                     /\ workspace' = Ensured(demo)

\* setTenantPlan, when the dashboard has another plan than the session.
DeliverDashboard(r) ==
    /\ r.kind = "dashboard"
    /\ IF r.answer = "ok"
         THEN /\ Become(r, [tab[r.tab] EXCEPT !.plan = r.tenant])
              /\ storage' = [storage EXCEPT !.plan = r.tenant]
              /\ UNCHANGED workspace
         ELSE Ignore(r)

Deliver(r) ==
    /\ r \in requests /\ r.answer # "sent"
    /\ \/ DeliverToken(r) \/ DeliverLogout(r) \/ DeliverHeartbeat(r)
       \/ DeliverDashboard(r)
    /\ UNCHANGED <<alive, failures, rotations>>

\* A page that is loaded again drops its requests.
Start(t, s) ==
    /\ tab' = [tab EXCEPT ![t] = Loaded(s)]
    /\ requests' = requests \ OfTab(t)
    /\ workspace' = Ensured(Loaded(s).demo)
    /\ UNCHANGED <<alive, failures, rotations>>

Reload(t) == Start(t, storage) /\ UNCHANGED storage

\* The response interceptor: a 401 for an expired token removes all keys but
\* the plan and goes to the login page.
Unauthorized(r) ==
    /\ r \in requests /\ r.answer = "sent" /\ r.kind \in {"switch", "heartbeat", "dashboard"}
    /\ storage' = [NoToken EXCEPT !.plan = storage.plan]
    /\ Start(r.tab, storage')

\* Any change of the demo's data.
EditWorkspace(t) ==
    /\ tab[t].user # None /\ source(t) # None
    /\ workspace[source(t)] # "absent"
    /\ workspace' = [workspace EXCEPT ![source(t)] = "edited"]
    /\ UNCHANGED <<tab, storage, requests, alive, failures, rotations>>

-----------------------------------------------------------------------------

Next ==
    \/ \E t \in Tabs :
         \/ \E u \in Users : login(t, u)
         \/ \E p \in Tenants \cup {None} : switchTenant(t, p)
         \/ logout(t) \/ runHeartbeat(t) \/ loadDashboard(t)
         \/ Reload(t) \/ EditWorkspace(t)
    \/ \E r \in requests : Handle(r) \/ Deliver(r) \/ Unauthorized(r)
    \/ \E d \in Demos : DemoEnds(d)

Spec == Init /\ [][Next]_vars

\* The interval of the heartbeat fires, the server answers and answers arrive.
Fairness ==
    \A t \in Tabs :
         /\ SF_vars(runHeartbeat(t))
         /\ SF_vars(\E r \in OfTab(t) : Handle(r))
         /\ SF_vars(\E r \in OfTab(t) : r.kind = "heartbeat" /\ Deliver(r))
         /\ SF_vars(\E r \in OfTab(t) : r.kind # "heartbeat" /\ Deliver(r))

FairSpec == Spec /\ Fairness

-----------------------------------------------------------------------------
(* Properties *)

\* saveTokenData, saveDemoMetadata and clearTokenData: the tab that is loaded
\* again has the session it had.
ReloadKeepsSession ==
    \A t \in Tabs : tab[t] = Loaded(storage)

\* clearDemoWorkspace: the data a visitor entered in a demo is kept through
\* logouts, replaced credentials and reloads; it goes when the demo has ended.
WorkspaceKept ==
    [][\A d \in alive : workspace[d] # "absent" => workspace'[d] # "absent"]_vars

\* createDataSource: the data shown is that of the user of the session.
SourceOfSession ==
    \A t \in Tabs :
        source(t) = IF tab[t].user \in Demos THEN tab[t].user ELSE None

\* setTenantPlan: the plan that decides what is shown is the session's.
PlanOfSession ==
    \A t \in Tabs : tab[t].user # None => tab[t].plan = tab[t].tenant

\* logout: only a login starts a session.
LoggedOutIsFinal ==
    [][\A t \in Tabs : tab[t].user = None /\ tab'[t].user # None
          => \E r \in OfTab(t) : r.kind = "login" \/ storage.user # None]_vars

\* useDemoHeartbeat: a tab leaves a demo that has ended.
EndedDemoLeaves ==
    \A t \in Tabs, d \in Demos :
        (tab[t].demo = d /\ d \notin alive) ~> tab[t].demo # d

\* useDemoHeartbeat: heartbeats of one session do not pile up, however often
\* the window gets the focus.
OneHeartbeat ==
    \A t \in Tabs : Cardinality({r \in OfTab(t) : r.fresh}) <= 1
=============================================================================
