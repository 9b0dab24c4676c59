--------------------------- MODULE DemoWorkspace ---------------------------
(***************************************************************************)
(* The workspace of a Pro demo in the browser's storage: the repository    *)
(* that creates, recovers, resets and clears it, and the local catalog,    *)
(* clients and subscriptions that the pages and the simulators share.      *)
(*                                                                         *)
(* Every operation runs in one turn of the browser: it ensures the         *)
(* workspace, checks its input against it and writes it back, from         *)
(* whichever tab and with whatever identifiers the page still shows.       *)
(* Names, e-mails and phones are compared only; dates, credentials, icons, *)
(* prices and settings are left out.                                       *)
(***************************************************************************)
EXTENDS Naturals

CONSTANTS
    Clients, Services, Plans, Subs,  \* identifiers
    Names, Emails,
    Releases,   \* tours of the help system
    Baseline    \* createDemoBaseline

VARIABLES
    kind,  \* what the storage holds: nothing, damaged data, a workspace that can
           \* be read and is not the account's any more, or the account's
    ws     \* the workspace

vars == <<kind, ws>>

Client == [name : Names, active : BOOLEAN]
Plan == [service : Services, name : Names]
Sub == [client : Clients, service : Services, plan : Plans, email : Emails,
        status : {"active", "expired", "cancelled"}]

\* The tables with rows of R for some of the identifiers.
Tables(ids, R) == UNION {[S -> R] : S \in SUBSET ids}

Workspace == [clients : Tables(Clients, Client), services : Tables(Services, Names),
              plans : Tables(Plans, Plan), subs : Tables(Subs, Sub),
              tour : SUBSET Releases]

Put(f, k, v) == [x \in DOMAIN f \cup {k} |-> IF x = k THEN v ELSE f[x]]
Drop(f, S) == [x \in DOMAIN f \ S |-> f[x]]

\* Relationships of a workspace.
Related(w) ==
    /\ \A p \in DOMAIN w.plans : w.plans[p].service \in DOMAIN w.services
    /\ \A u \in DOMAIN w.subs :
         /\ w.subs[u].client \in DOMAIN w.clients
         /\ w.subs[u].plan \in DOMAIN w.plans
         /\ w.subs[u].service = w.plans[w.subs[u].plan].service

\* Names that the pages of a workspace tell things apart by.
Distinct(w) ==
    /\ \A c, d \in DOMAIN w.clients :
         w.clients[c].name = w.clients[d].name => c = d
    /\ \A v, x \in DOMAIN w.services : w.services[v] = w.services[x] => v = x
    /\ \A p, q \in DOMAIN w.plans : w.plans[p] = w.plans[q] => p = q

BaselineAssumption ==
    Baseline \in Workspace /\ Related(Baseline) /\ Distinct(Baseline)

TypeOK == kind \in {"none", "damaged", "stale", "ok"} /\ ws \in Workspace

Init == kind = "none" /\ ws = Baseline

-----------------------------------------------------------------------------
(* The repository *)

\* ensure: the account's workspace, or a new one in place of any other.
Ensured == IF kind = "ok" THEN ws ELSE Baseline

\* requireState and updateState of an operation.  One that is refused, and one
\* whose own write fails, leaves the workspace that ensure has stored.
Operation(valid, new) ==
    /\ kind' = "ok"
    /\ \/ valid /\ ws' = new
       \/ ws' = Ensured

Readable == kind \in {"stale", "ok"}

saveTourState(r) ==
    /\ Readable
    /\ ws' = [ws EXCEPT !.tour = @ \cup {r}]
    /\ UNCHANGED kind

reset ==
    /\ kind' = "ok"
    /\ ws' = [Baseline EXCEPT !.tour = IF Readable THEN ws.tour ELSE {}]

\* clearDemoWorkspace, and ensure for an account whose demo has ended.
clearDemoWorkspace ==
    /\ kind' = "none"
    /\ ws' = Baseline

\* The account is renamed, gets another plan, or the workspace expires.
MetadataChanges ==
    /\ kind = "ok"
    /\ kind' = "stale"
    /\ UNCHANGED ws

\* The storage holds what isWorkspaceEnvelope refuses.
Damage ==
    /\ kind' = "damaged"
    /\ ws' = Baseline

-----------------------------------------------------------------------------
(* Catalog *)

createService(v, n) ==
    Operation(/\ v \notin DOMAIN Ensured.services
              /\ \A x \in DOMAIN Ensured.services : Ensured.services[x] # n,
              [Ensured EXCEPT !.services = Put(@, v, n)])

updateService(v, n) ==
    Operation(/\ v \in DOMAIN Ensured.services
              /\ \A x \in DOMAIN Ensured.services \ {v} : Ensured.services[x] # n,
              [Ensured EXCEPT !.services = Put(@, v, n)])

deleteService(v) ==
    LET planIds == {p \in DOMAIN Ensured.plans : Ensured.plans[p].service = v}
        related == {u \in DOMAIN Ensured.subs :
                      Ensured.subs[u].service = v \/ Ensured.subs[u].plan \in planIds}
    IN Operation(v \in DOMAIN Ensured.services,
                 [Ensured EXCEPT !.services = Drop(@, {v}), !.plans = Drop(@, planIds),
                                 !.subs = Drop(@, related)])

createPlan(p, v, n) ==
    Operation(/\ p \notin DOMAIN Ensured.plans /\ v \in DOMAIN Ensured.services
              /\ \A q \in DOMAIN Ensured.plans :
                   Ensured.plans[q] # [service |-> v, name |-> n],
              [Ensured EXCEPT !.plans = Put(@, p, [service |-> v, name |-> n])])

updatePlan(p, n) ==
    Operation(/\ p \in DOMAIN Ensured.plans
              /\ \A q \in DOMAIN Ensured.plans \ {p} :
                   Ensured.plans[q] # [Ensured.plans[p] EXCEPT !.name = n],
              [Ensured EXCEPT !.plans[p].name = n])

\* The subscriptions of the plan's service go with it.
DeletePlanOfService(p) ==
    LET related == {u \in DOMAIN Ensured.subs :
                      /\ p \in DOMAIN Ensured.plans
                      /\ Ensured.subs[u].service = Ensured.plans[p].service}
    IN Operation(p \in DOMAIN Ensured.plans,
                 [Ensured EXCEPT !.plans = Drop(@, {p}), !.subs = Drop(@, related)])

deletePlan(p) ==
    LET related == {u \in DOMAIN Ensured.subs : Ensured.subs[u].plan = p}
    IN Operation(p \in DOMAIN Ensured.plans,
                 [Ensured EXCEPT !.plans = Drop(@, {p}), !.subs = Drop(@, related)])

-----------------------------------------------------------------------------
(* Clients *)

createClient(c, n) ==
    Operation(/\ c \notin DOMAIN Ensured.clients
              /\ \A d \in DOMAIN Ensured.clients : Ensured.clients[d].name # n,
              [Ensured EXCEPT !.clients = Put(@, c, [name |-> n, active |-> TRUE])])

updateClient(c, n) ==
    Operation(/\ c \in DOMAIN Ensured.clients
              /\ \A d \in DOMAIN Ensured.clients \ {c} : Ensured.clients[d].name # n,
              [Ensured EXCEPT !.clients[c].name = n])

setActive(c, active) ==
    Operation(c \in DOMAIN Ensured.clients,
              [Ensured EXCEPT !.clients[c].active = active])

deleteClient(c) ==
    LET related == {u \in DOMAIN Ensured.subs : Ensured.subs[u].client = c}
    IN Operation(c \in DOMAIN Ensured.clients /\ ~Ensured.clients[c].active,
                 [Ensured EXCEPT !.clients = Drop(@, {c}), !.subs = Drop(@, related)])

-----------------------------------------------------------------------------
(* Subscriptions *)

validateRelationships(c, v, p) ==
    /\ c \in DOMAIN Ensured.clients /\ v \in DOMAIN Ensured.services
    /\ p \in DOMAIN Ensured.plans /\ Ensured.plans[p].service = v

\* No other active subscription of the client to the service with the e-mail.
validateDuplicate(c, v, e, u) ==
    \A x \in DOMAIN Ensured.subs \ {u} :
      ~ /\ Ensured.subs[x].status = "active" /\ Ensured.subs[x].email = e
        /\ Ensured.subs[x].client = c /\ Ensured.subs[x].service = v

createSubscription(u, c, v, p, e) ==
    Operation(/\ u \notin DOMAIN Ensured.subs
              /\ validateRelationships(c, v, p) /\ validateDuplicate(c, v, e, u),
              [Ensured EXCEPT !.subs = Put(@, u,
                 [client |-> c, service |-> v, plan |-> p, email |-> e,
                  status |-> "active"])])

updateSubscription(u, c, v, p, e) ==
    Operation(/\ u \in DOMAIN Ensured.subs
              /\ validateRelationships(c, v, p) /\ validateDuplicate(c, v, e, u),
              [Ensured EXCEPT !.subs = Put(@, u,
                 [client |-> c, service |-> v, plan |-> p, email |-> e,
                  status |-> Ensured.subs[u].status])])

\* cancel, and renew and reactivate, which make it active again.
setStatus(u, status) ==
    Operation(u \in DOMAIN Ensured.subs, [Ensured EXCEPT !.subs[u].status = status])

cancel(u) == setStatus(u, "cancelled")
renew(u) == setStatus(u, "active")
reactivate(u) == setStatus(u, "active")

Next ==
    \/ reset \/ clearDemoWorkspace \/ Damage \/ MetadataChanges
    \/ \E r \in Releases : saveTourState(r)
    \/ \E v \in Services, n \in Names : createService(v, n) \/ updateService(v, n)
    \/ \E v \in Services : deleteService(v)
    \/ \E p \in Plans, v \in Services, n \in Names : createPlan(p, v, n)
    \/ \E p \in Plans, n \in Names : updatePlan(p, n)
    \/ \E p \in Plans : deletePlan(p)
    \/ \E c \in Clients, n \in Names : createClient(c, n) \/ updateClient(c, n)
    \/ \E c \in Clients, active \in BOOLEAN : setActive(c, active)
    \/ \E c \in Clients : deleteClient(c)
    \/ \E u \in Subs, c \in Clients, v \in Services, p \in Plans, e \in Emails :
         createSubscription(u, c, v, p, e) \/ updateSubscription(u, c, v, p, e)
    \/ \E u \in Subs : cancel(u) \/ renew(u) \/ reactivate(u)

Spec == Init /\ [][Next]_vars

-----------------------------------------------------------------------------
(* Properties *)

\* "cascades service deletion without orphan plans or relations": whichever
\* operations follow each other, with identifiers shown before another tab
\* deleted them, no plan and no subscription refers to what is not there, and
\* a subscription's plan is one of its service.
Linked == Related(ws)

\* "keeps catalog CRUD local, normalized, unique": clients, services and the
\* plans of a service keep different names through creations and renamings.
NamesDiffer == Distinct(ws)

\* "cascades service deletion without orphan plans or relations": a subscription
\* of the account goes with its client or its plan, or with the workspace.
OnlyCascades ==
    [][\A u \in DOMAIN ws.subs :
         kind = "ok" /\ u \notin DOMAIN ws'.subs =>
           \/ ws.subs[u].client \notin DOMAIN ws'.clients
           \/ ws.subs[u].plan \notin DOMAIN ws'.plans
           \/ ws'.subs = Baseline.subs]_vars

\* "preserves tour state across reset": a tour that was seen is forgotten only
\* with a workspace that is cleared, damaged or replaced for another account.
TourKept ==
    [][(kind = "ok" /\ kind' = "ok") \/ kind' = "stale" => ws.tour \subseteq ws'.tour]_vars

\* "rejects duplicate active client-service-email records"
NoDuplicates ==
    \A u, x \in DOMAIN ws.subs :
      /\ u # x
      /\ ws.subs[u].status = "active" /\ ws.subs[x].status = "active"
      => \/ ws.subs[u].client # ws.subs[x].client
         \/ ws.subs[u].service # ws.subs[x].service
         \/ ws.subs[u].email # ws.subs[x].email
=============================================================================
