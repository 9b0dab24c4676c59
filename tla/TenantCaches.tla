---------------------------- MODULE TenantCaches ----------------------------
(***************************************************************************)
(* The two browser-side caches of tenant data: useSettingsStore            *)
(* (frontend/src/store/settings.ts) and useCatalogStore                    *)
(* (frontend/src/store/catalog.ts), with the session changes of            *)
(* store/auth.ts that clear them and the page handlers that write through  *)
(* them.                                                                   *)
(*                                                                         *)
(* A call is an HTTP request of the page.  It carries the tenant of the    *)
(* token in storage when it is sent, the server executes it later, and its *)
(* continuation runs in the page later still, in any order: every await is *)
(* a point where another continuation or a change of session may run.      *)
(*                                                                         *)
(* Data is abstracted to its tenant and a version that every write raises. *)
(* Version 0 of a catalog list is the empty list.                          *)
(***************************************************************************)
EXTENDS Naturals, FiniteSets

CONSTANTS
    Tenants,      \* tenants a session can be for
    Resources,    \* the cached resources of this instance
    Calls,        \* identities of concurrent HTTP requests
    NoTenant,     \* nobody is logged in
    NoCall,       \* no in-flight promise is stored
    MaxSessions,  \* bound on changes of session
    MaxVersion,   \* bound on the writes of one resource
    MaxFailures   \* bound on the requests that fail

ReportingSettings == {"reminderSettings", "tenantSettings", "publicApiKey"}
QuietSettings == {"timezoneOptions", "currencyOptions", "mailbox"}
Settings == ReportingSettings \cup QuietSettings
CatalogLists == {"services", "clients"}
\* loadPlans keeps no in-flight promise; one service stands for all of them.
PlanLists == {"plans"}
Catalog == CatalogLists \cup PlanLists
\* What a page can change; timezones and currencies are reference data.
Writable == ReportingSettings \cup {"mailbox"} \cup Catalog

CachesAssumption ==
    /\ Resources \subseteq Settings \cup Catalog
    /\ NoTenant \notin Tenants
    /\ NoCall \notin Calls /\ IsFiniteSet(Calls)
    /\ MaxSessions \in Nat /\ MaxVersion \in Nat /\ MaxFailures \in Nat

VARIABLES
    session,      \* tenant of the token in storage
    epoch,        \* _settingsEpoch
    value,        \* the cached value of each resource, or NoValue
    loaded,       \* the ...Loaded flags
    inFlight,     \* the ...InFlight promises
    loadError,    \* stores whose error message is set
    calls,        \* the requests under way
    server,       \* version of each tenant's resource in the backend
    written,      \* highest version a finished write of the session confirmed
    failures      \* requests that failed so far

vars == <<session, epoch, value, loaded, inFlight, loadError, calls, server,
          written, failures>>

NoValue == [tenant |-> NoTenant, version |-> 0]
Values == [tenant: Tenants \cup {NoTenant}, version: 0..MaxVersion]
NoRequest == [op |-> "none", resource |-> "none", tenant |-> NoTenant,
              epoch |-> 0, phase |-> "free", result |-> NoValue]
StoreOf(r) == IF r \in Settings THEN "settings" ELSE "catalog"

Pending(c) == calls[c].phase # "free"
PendingLoads(r) ==
    {c \in Calls : Pending(c) /\ calls[c].op = "load" /\ calls[c].resource = r}

Requests ==
    [op: {"load", "write"}, resource: Resources, tenant: Tenants, epoch: Nat,
     phase: {"sent", "answered", "failed"}, result: Values]

TypeOK ==
    /\ session \in Tenants \cup {NoTenant}
    /\ epoch \in Nat
    /\ value \in [Resources -> Values]
    /\ loaded \in [Resources -> BOOLEAN]
    /\ inFlight \in [Resources -> Calls \cup {NoCall}]
    /\ loadError \subseteq {"settings", "catalog"}
    /\ calls \in [Calls -> Requests \cup {NoRequest}]
    /\ server \in [Tenants -> [Resources -> 0..MaxVersion]]
    /\ written \in [Resources -> 0..MaxVersion]
    /\ failures \in 0..MaxFailures

Init ==
    /\ session \in Tenants
    /\ epoch = 0
    /\ value = [r \in Resources |-> NoValue]
    /\ loaded = [r \in Resources |-> FALSE]
    /\ inFlight = [r \in Resources |-> NoCall]
    /\ loadError = {}
    /\ calls = [c \in Calls |-> NoRequest]
    /\ server = [t \in Tenants |-> [r \in Resources |-> 0]]
    /\ written = [r \in Resources |-> 0]
    /\ failures = 0

-----------------------------------------------------------------------------
(* Requests *)

Request(op, r) ==
    [op |-> op, resource |-> r, tenant |-> session, epoch |-> epoch,
     phase |-> "sent", result |-> NoValue]

\* The guards of the load functions: the cached value, then the in-flight
\* promise, are returned instead of a new request.  The catalog does not take
\* an empty list for a cached one; loadPlans takes any.
Cached(r) ==
    CASE r \in Settings     -> loaded[r]
      [] r \in CatalogLists -> loaded[r] /\ value[r].version > 0
      [] r \in PlanLists    -> value[r] # NoValue

\* A page asks for resource r: a new request, and the promise is remembered.
Load(r, c) ==
    /\ session # NoTenant
    /\ ~Pending(c)
    /\ ~Cached(r)
    /\ inFlight[r] = NoCall
    /\ calls' = [calls EXCEPT ![c] = Request("load", r)]
    /\ inFlight' = IF r \in PlanLists THEN inFlight
                   ELSE [inFlight EXCEPT ![r] = c]
    /\ UNCHANGED <<session, epoch, value, loaded, loadError, server, written,
                   failures>>

UnansweredWrites(t, r) ==
    {c \in Calls : calls[c].op = "write" /\ calls[c].phase = "sent"
                   /\ calls[c].tenant = t /\ calls[c].resource = r}

\* A form is saved: update..., save..., regenerate..., revoke... of the
\* settings store, connect/disconnect of the mailbox, create/update/delete of
\* the catalog and the clients.
Write(r, c) ==
    /\ session # NoTenant
    /\ r \in Writable
    /\ ~Pending(c)
    /\ server[session][r] + Cardinality(UnansweredWrites(session, r)) < MaxVersion
    /\ calls' = [calls EXCEPT ![c] = Request("write", r)]
    /\ UNCHANGED <<session, epoch, value, loaded, inFlight, loadError, server,
                   written, failures>>

\* The backend executes a request for the tenant of its token.
Answer(c) ==
    /\ calls[c].phase = "sent"
    /\ LET r == calls[c].resource
           t == calls[c].tenant
           v == IF calls[c].op = "write" THEN server[t][r] + 1 ELSE server[t][r]
       IN  /\ server' = [server EXCEPT ![t][r] = v]
           /\ calls' = [calls EXCEPT ![c].phase = "answered",
                              ![c].result = [tenant |-> t, version |-> v]]
    /\ UNCHANGED <<session, epoch, value, loaded, inFlight, loadError, written,
                   failures>>

\* A request fails: refused, lost, or a server error.
Fail(c) ==
    /\ calls[c].phase = "sent"
    /\ failures < MaxFailures
    /\ failures' = failures + 1
    /\ calls' = [calls EXCEPT ![c].phase = "failed"]
    /\ UNCHANGED <<session, epoch, value, loaded, inFlight, loadError, server,
                   written>>

-----------------------------------------------------------------------------
(* Continuations of a load *)

Done(c) == calls' = [calls EXCEPT ![c] = NoRequest]

\* A load that forgets the epoch it started in.
StaleIgnoringEpoch(c) == FALSE

\* A settings load compares the epoch it started in; the catalog has none.
Stale(c) == calls[c].resource \in Settings /\ calls[c].epoch # epoch

\* The answer is for a cache that has been cleared since: it is dropped.
DropStaleLoad(c) ==
    /\ calls[c].op = "load" /\ calls[c].phase = "answered"
    /\ Stale(c)
    /\ Done(c)
    /\ UNCHANGED <<session, epoch, value, loaded, inFlight, loadError, server,
                   written, failures>>

\* The answer is published and the in-flight slot is emptied, whichever
\* request it holds by now.
FinishLoad(c) ==
    LET r == calls[c].resource IN
    /\ calls[c].op = "load" /\ calls[c].phase = "answered"
    /\ ~Stale(c)
    /\ value' = [value EXCEPT ![r] = calls[c].result]
    /\ loaded' = IF r \in PlanLists THEN loaded ELSE [loaded EXCEPT ![r] = TRUE]
    /\ inFlight' = [inFlight EXCEPT ![r] = NoCall]
    /\ loadError' = CASE r \in ReportingSettings -> loadError \ {"settings"}
                      [] r = "services"          -> loadError \ {"catalog"}
                      [] OTHER                   -> loadError
    /\ Done(c)
    /\ UNCHANGED <<session, epoch, server, written, failures>>

\* The catch block: no epoch is compared.  The optional resources fall back to
\* their empty value, the others report the error and keep what they have.
FailLoad(c) ==
    LET r == calls[c].resource IN
    /\ calls[c].op = "load" /\ calls[c].phase = "failed"
    /\ IF r \in QuietSettings
         THEN /\ value' = [value EXCEPT ![r] = NoValue]
              /\ loaded' = [loaded EXCEPT ![r] = FALSE]
              /\ UNCHANGED loadError
         ELSE /\ loadError' = loadError \cup {StoreOf(r)}
              /\ UNCHANGED <<value, loaded>>
    /\ inFlight' = [inFlight EXCEPT ![r] = NoCall]
    /\ Done(c)
    /\ UNCHANGED <<session, epoch, server, written, failures>>

-----------------------------------------------------------------------------
(* Continuations of a write *)

\* What clearSettingsCache leaves: no value, no promise, no error.
ClearedValue(store) ==
    [r \in Resources |-> IF StoreOf(r) \in store THEN NoValue ELSE value[r]]
ClearedLoaded(store) ==
    [r \in Resources |-> IF StoreOf(r) \in store THEN FALSE ELSE loaded[r]]
ClearedInFlight(store) ==
    [r \in Resources |-> IF StoreOf(r) \in store THEN NoCall ELSE inFlight[r]]

Confirmed(c) ==
    IF calls[c].tenant = session
      THEN [written EXCEPT ![calls[c].resource] =
                IF calls[c].result.version > @ THEN calls[c].result.version ELSE @]
      ELSE written

\* The settings store publishes the answer of its own write, whatever the
\* session is by now; the API key operations also empty the in-flight slot.
FinishSettingsWrite(c) ==
    LET r == calls[c].resource IN
    /\ r \in ReportingSettings
    /\ value' = [value EXCEPT ![r] = calls[c].result]
    /\ loaded' = [loaded EXCEPT ![r] = TRUE]
    /\ inFlight' = IF r = "publicApiKey" THEN [inFlight EXCEPT ![r] = NoCall]
                   ELSE inFlight
    /\ Done(c)
    /\ UNCHANGED <<epoch, loadError>>

\* After the write the page invalidates and reloads in the same continuation.
\* The reload joins the promise that is in flight, if there is one.
Invalidated(r) ==
    CASE r = "services" -> {"services", "plans"}
      [] OTHER          -> {r}

FinishCatalogWrite(c, d) ==
    LET r == calls[c].resource
        gone == Invalidated(r)
        joins == inFlight[r] # NoCall
    IN  /\ r \in Catalog
        /\ value' = [q \in Resources |-> IF q \in gone THEN NoValue ELSE value[q]]
        /\ loaded' = [q \in Resources |-> loaded[q] /\ q \notin gone]
        /\ IF joins \/ session = NoTenant
             THEN /\ Done(c)
                  /\ UNCHANGED inFlight
             ELSE /\ d = c \/ ~Pending(d)
                  /\ calls' = [calls EXCEPT ![c] = NoRequest,
                                            ![d] = Request("load", r)]
                  /\ inFlight' = IF r \in PlanLists THEN inFlight
                                 ELSE [inFlight EXCEPT ![r] = d]
        /\ UNCHANGED <<epoch, loadError>>

\* refreshMailbox: the whole settings cache is cleared, then the mailbox is
\* loaded again under the new epoch.
FinishMailboxWrite(c, d) ==
    /\ calls[c].resource = "mailbox"
    /\ epoch' = epoch + 1
    /\ value' = ClearedValue({"settings"})
    /\ loaded' = ClearedLoaded({"settings"})
    /\ loadError' = loadError \ {"settings"}
    /\ IF session = NoTenant
         THEN /\ Done(c)
              /\ inFlight' = ClearedInFlight({"settings"})
         ELSE /\ d = c \/ ~Pending(d)
              /\ calls' = [calls EXCEPT ![c] = NoRequest,
                             ![d] = [Request("load", "mailbox") EXCEPT !.epoch = epoch + 1]]
              /\ inFlight' = [ClearedInFlight({"settings"}) EXCEPT !["mailbox"] = d]

FinishWrite(c, d) ==
    /\ calls[c].op = "write" /\ calls[c].phase = "answered"
    /\ \/ FinishSettingsWrite(c) /\ d = c
       \/ FinishCatalogWrite(c, d)
       \/ FinishMailboxWrite(c, d)
    /\ written' = Confirmed(c)
    /\ UNCHANGED <<session, server, failures>>

\* A failed write only tells the form.
FailWrite(c) ==
    /\ calls[c].op = "write" /\ calls[c].phase = "failed"
    /\ Done(c)
    /\ UNCHANGED <<session, epoch, value, loaded, inFlight, loadError, server,
                   written, failures>>

-----------------------------------------------------------------------------
(* Sessions *)

\* The synchronous end of login, logout and switchTenant: the new token, then
\* clearSettingsCache and clearAll.  Requests under way are not aborted.
ChangeSession(t) ==
    /\ session # t
    /\ epoch < MaxSessions
    /\ session' = t
    /\ epoch' = epoch + 1
    /\ value' = ClearedValue({"settings", "catalog"})
    /\ loaded' = ClearedLoaded({"settings", "catalog"})
    /\ inFlight' = ClearedInFlight({"settings", "catalog"})
    /\ loadError' = {}
    /\ written' = [r \in Resources |-> 0]
    /\ UNCHANGED <<calls, server, failures>>

Next ==
    \/ \E t \in Tenants \cup {NoTenant} : ChangeSession(t)
    \/ \E r \in Resources, c \in Calls : Load(r, c) \/ Write(r, c)
    \/ \E c \in Calls :
          \/ Answer(c) \/ Fail(c)
          \/ DropStaleLoad(c) \/ FinishLoad(c) \/ FailLoad(c)
          \/ FailWrite(c)
          \/ \E d \in Calls : FinishWrite(c, d)

\* The browser settles every request, with an answer or an error, and runs the
\* continuation of a settled promise.
Settles(c) ==
    \/ DropStaleLoad(c) \/ FinishLoad(c) \/ FailLoad(c) \/ FailWrite(c)
    \/ \E d \in Calls : FinishWrite(c, d)

Spec == Init /\ [][Next]_vars

Fairness ==
    \A c \in Calls : WF_vars(Answer(c) \/ Fail(c)) /\ WF_vars(Settles(c))

FairSpec == Spec /\ Fairness

-----------------------------------------------------------------------------
(* Properties *)

CachedSettings == Settings \cap Resources

(***************************************************************************)
(* LoadsRespectEpoch: a settings load publishes a value only while the     *)
(* session it was sent for is still the session of the page.  The epoch    *)
(* compared after the await (settings.ts 269, 297, ...) is what stops an   *)
(* answer for tenant A from being shown to tenant B.                       *)
(***************************************************************************)
LoadsRespectEpoch ==
    [][\A c \in Calls :
          /\ calls[c].op = "load" /\ calls[c].resource \in Settings
          /\ calls[c].phase = "answered" /\ calls'[c] = NoRequest
          /\ value' # value
          => value'[calls[c].resource].tenant = session]_vars

(***************************************************************************)
(* InFlightIsPending: a remembered promise is one that will still settle   *)
(* and empty its slot.  The dropped answer of a stale load does not empty  *)
(* it, so a slot that survived a clear would block the resource for good:  *)
(* every later load would join a promise that has ended.                   *)
(***************************************************************************)
InFlightIsPending ==
    \A r \in Resources : inFlight[r] # NoCall =>
        /\ inFlight[r] \in PendingLoads(r)
        /\ r \in Settings => calls[inFlight[r]].epoch = epoch

(***************************************************************************)
(* MailboxReadsItsWrites: once a connect, test or disconnect of the        *)
(* mailbox is done, the mailbox shown is never older than it, although     *)
(* loads sent before it may answer after it: refreshMailbox clears the     *)
(* cache, and its epoch turns those answers away.                          *)
(***************************************************************************)
MailboxReadsItsWrites ==
    "mailbox" \in Resources /\ loaded["mailbox"]
        => value["mailbox"].version >= written["mailbox"]

(***************************************************************************)
(* OneLoadPerResource: the in-flight promises keep a page from asking      *)
(* twice for the same settings at the same time.                           *)
(***************************************************************************)
OneLoadPerResource ==
    \A r \in CachedSettings : \A c, d \in PendingLoads(r) :
        calls[c].epoch = epoch /\ calls[d].epoch = epoch => c = d

(***************************************************************************)
(* PromisesSettle: no load stays in flight for good, so a page that joined *)
(* it leaves its loading state, whatever fails or is cleared meanwhile.    *)
(***************************************************************************)
PromisesSettle ==
    \A r \in Resources : inFlight[r] # NoCall ~> inFlight[r] = NoCall

(***************************************************************************)
(* SettingsOfSession: what the settings cache holds belongs to the tenant  *)
(* of the session (the promise of the epoch guard for every response).     *)
(***************************************************************************)
SettingsOfSession ==
    \A r \in CachedSettings : value[r] # NoValue => value[r].tenant = session

(***************************************************************************)
(* CatalogOfSession: after login, logout or switchTenant have invalidated  *)
(* the catalog it holds nothing of the session before.                     *)
(***************************************************************************)
CatalogOfSession ==
    \A r \in Catalog \cap Resources :
        value[r] # NoValue => value[r].tenant = session

(***************************************************************************)
(* CatalogReadsItsWrites: when a page has invalidated and reloaded after a *)
(* mutation and nothing is under way, the list it shows has the mutation.  *)
(***************************************************************************)
CatalogReadsItsWrites ==
    \A r \in CatalogLists \cap Resources :
        loaded[r] /\ (\A c \in Calls : ~Pending(c))
            => value[r].version >= written[r]
=============================================================================
