--------------------------- MODULE ConsolesProofs ---------------------------
(***************************************************************************)
(* Theorems about the pages: TenantCaches for any tenants, resources and   *)
(* requests, OrientationTour for any releases and steps, and the two       *)
(* consoles for any rows, pages and dialogues.                             *)
(***************************************************************************)
EXTENDS MCConsoles, FiniteSetTheorems, TLAPS

-----------------------------------------------------------------------------
(***************************************************************************)
(* The caches.  CachesInv adds to the properties what they rest on: how    *)
(* many versions the writes under way can still make (Room), what a        *)
(* request of the current epoch is for (CallsSound), how the written       *)
(* version relates to the server's and to the loads of the current epoch   *)
(* (MailboxSound), and which load a setting may still be waiting for while *)
(* nothing has failed (LoadsSingle).                                       *)
(***************************************************************************)

Room ==
    \A t \in Tenants, r \in Resources :
        eServer[t][r] + Cardinality(Caches!UnansweredWrites(t, r)) <= MaxVersion

CallsSound ==
    \A c \in Calls : Caches!Pending(c) =>
        /\ eCalls[c].epoch <= eEpoch
        /\ eCalls[c].epoch = eEpoch => eCalls[c].tenant = eSession
        /\ eCalls[c].phase = "answered" =>
             /\ eCalls[c].result.tenant = eCalls[c].tenant
             /\ eCalls[c].result.version <= eServer[eCalls[c].tenant][eCalls[c].resource]

WrittenSound ==
    \A r \in Resources : IF eSession \in Tenants THEN eWritten[r] <= eServer[eSession][r]
                                                 ELSE eWritten[r] = 0

MailboxLoads ==
    \A c \in Caches!PendingLoads("mailbox") :
        eCalls[c].epoch = eEpoch /\ eCalls[c].phase = "answered"
            => eCalls[c].result.version >= eWritten["mailbox"]

MailboxSound ==
    Caches!MailboxReadsItsWrites /\ ("mailbox" \in Resources => MailboxLoads)

NoneFailed == \A c \in Calls : eCalls[c].phase # "failed"

Current(c, r) ==
    /\ eCalls[c].phase # "free" /\ eCalls[c].op = "load"
    /\ eCalls[c].resource = r /\ eCalls[c].epoch = eEpoch

LoadsSingle ==
    eFailures = 0 =>
        /\ NoneFailed
        /\ \A r \in Caches!CachedSettings, c \in Calls :
             Current(c, r) => eInFlight[r] = c \/ eLoaded[r]
        /\ \A r \in Caches!CachedSettings, c, d \in Calls :
             Current(c, r) /\ Current(d, r) => c = d

CachesInv ==
    /\ Caches!TypeOK /\ Caches!InFlightIsPending
    /\ Room /\ CallsSound /\ WrittenSound /\ MailboxSound /\ LoadsSingle

\* What the configuration assumes of the caches.
LEMMA CachesParams ==
    /\ NoTenant \notin Tenants /\ NoCall \notin Calls /\ IsFiniteSet(Calls)
    /\ MaxSessions \in Nat /\ MaxVersion \in Nat /\ MaxFailures \in Nat
    /\ Resources \subseteq Caches!Settings \cup Caches!Catalog
BY MCAssumption DEF Caches!CachesAssumption, Caches!IsFiniteSet, IsFiniteSet

USE CachesParams

\* An empty value is a value, and no request is none under way.
LEMMA NoneTyped ==
    /\ Caches!NoValue \in Caches!Values
    /\ Caches!NoRequest \notin Caches!Requests
    /\ Caches!NoRequest.phase = "free" /\ Caches!NoRequest.op = "none"
BY DEF Caches!NoValue, Caches!Values, Caches!NoRequest, Caches!Requests

\* A request that is sent is of the session and of the epoch.
LEMMA RequestTyped ==
    ASSUME Caches!TypeOK, NEW kind \in {"load", "write"}, NEW r \in Resources,
           eSession # NoTenant
    PROVE  /\ Caches!Request(kind, r) \in Caches!Requests
           /\ Caches!Request(kind, r).phase = "sent"
           /\ Caches!Request(kind, r).op = kind
           /\ Caches!Request(kind, r).resource = r
           /\ Caches!Request(kind, r).tenant = eSession
           /\ Caches!Request(kind, r).epoch = eEpoch
BY NoneTyped DEF Caches!Request, Caches!Requests, Caches!TypeOK

\* A call is free, or a request.
LEMMA CallTyped ==
    ASSUME Caches!TypeOK, NEW c \in Calls
    PROVE  /\ eCalls[c] = Caches!NoRequest <=> ~Caches!Pending(c)
           /\ Caches!Pending(c) => eCalls[c] \in Caches!Requests
           /\ eCalls[c].phase = "sent" => Caches!Pending(c)
           /\ eCalls[c].phase = "answered" => Caches!Pending(c)
           /\ eCalls[c].phase = "failed" => Caches!Pending(c)
           /\ eCalls[c].op \in {"load", "write"} => Caches!Pending(c)
BY NoneTyped DEF Caches!TypeOK, Caches!Pending, Caches!Requests

\* The writes under way are finitely many.
LEMMA UnansweredFinite ==
    ASSUME NEW t, NEW r
    PROVE  /\ IsFiniteSet(Caches!UnansweredWrites(t, r))
           /\ Cardinality(Caches!UnansweredWrites(t, r)) \in Nat
<1>1. Caches!UnansweredWrites(t, r) \subseteq Calls
  BY DEF Caches!UnansweredWrites
<1> QED
  BY <1>1, FS_Subset, FS_CardinalityType

\* No write is sent and no version made: the room stays.
LEMMA RoomKeeps ==
    ASSUME Caches!TypeOK, Room, UNCHANGED eServer,
           \A t \in Tenants, r \in Resources :
              (Caches!UnansweredWrites(t, r))' \subseteq Caches!UnansweredWrites(t, r)
    PROVE  Room'
<1> SUFFICES ASSUME NEW t \in Tenants, NEW r \in Resources
             PROVE  eServer[t][r] + Cardinality((Caches!UnansweredWrites(t, r))') <= MaxVersion
  BY DEF Room
<1> DEFINE U == Caches!UnansweredWrites(t, r)
           V == (Caches!UnansweredWrites(t, r))'
<1>1. IsFiniteSet(U) /\ Cardinality(U) \in Nat
  BY UnansweredFinite
<1>2. V \subseteq U
  OBVIOUS
<1>3. eServer[t][r] + Cardinality(U) <= MaxVersion /\ eServer[t][r] \in Nat
  BY DEF Room, Caches!TypeOK
<1> HIDE DEF U, V
<1>4. Cardinality(V) \in Nat /\ Cardinality(V) <= Cardinality(U)
  BY <1>1, <1>2, FS_Subset, FS_CardinalityType
<1>5. eServer[t][r] + Cardinality(V) <= MaxVersion
  BY <1>1, <1>3, <1>4
<1> QED
  BY <1>5 DEF V

\* The cardinality of the instance is the cardinality.
LEMMA SameCardinality == ASSUME NEW S PROVE Caches!Cardinality(S) = Cardinality(S)
BY DEF Caches!Cardinality, Cardinality

\* A page asks for a resource.
LEMMA LoadKeeps ==
    ASSUME CachesInv, NEW r \in Resources, NEW c \in Calls, Caches!Load(r, c)
    PROVE  CachesInv'
<1> USE DEF CachesInv
<1>0. /\ eCalls[c] = Caches!NoRequest
      /\ eCalls' = [eCalls EXCEPT ![c] = Caches!Request("load", r)]
      /\ UNCHANGED <<eSession, eEpoch, eValue, eLoaded, eLoadError, eServer, eWritten, eFailures>>
      /\ eSession # NoTenant /\ ~Caches!Cached(r) /\ eInFlight[r] = NoCall
      /\ eInFlight' = IF r \in Caches!PlanLists THEN eInFlight ELSE [eInFlight EXCEPT ![r] = c]
  BY CallTyped DEF Caches!Load
<1>1. Caches!TypeOK'
  BY <1>0, RequestTyped DEF Caches!TypeOK
<1>2. Caches!InFlightIsPending'
  BY <1>0, <1>1, RequestTyped, NoneTyped
     DEF Caches!InFlightIsPending, Caches!TypeOK, Caches!PendingLoads, Caches!Pending
<1>3. Room'
  <2>1. \A t \in Tenants, q \in Resources :
           (Caches!UnansweredWrites(t, q))' \subseteq Caches!UnansweredWrites(t, q)
    BY <1>0, RequestTyped DEF Caches!UnansweredWrites, Caches!TypeOK
  <2> QED BY <1>0, <2>1, RoomKeeps
<1>4. CallsSound'
  BY <1>0, RequestTyped DEF CallsSound, Caches!TypeOK, Caches!Pending
<1>5. WrittenSound'
  BY <1>0 DEF WrittenSound
<1>6. MailboxSound'
  BY <1>0, RequestTyped DEF MailboxSound, MailboxLoads, Caches!MailboxReadsItsWrites, Caches!TypeOK,
     Caches!Pending, Caches!PendingLoads
<1>7. LoadsSingle'
  <2>1. r \in Caches!Settings => ~eLoaded[r] /\ r \notin Caches!PlanLists
    BY <1>0 DEF Caches!Cached, Caches!Settings, Caches!PlanLists, Caches!ReportingSettings,
                Caches!QuietSettings, Caches!CatalogLists
  <2>2. NoneFailed => NoneFailed'
    BY <1>0, RequestTyped DEF NoneFailed, Caches!TypeOK
  <2>3. ASSUME NEW q \in Caches!CachedSettings, NEW d \in Calls, Current(d, q)'
        PROVE  IF d = c THEN q = r ELSE Current(d, q)
    BY <1>0, <2>3, RequestTyped DEF Current, Caches!TypeOK
  <2>4. \A q \in Caches!CachedSettings : eInFlight'[q] = IF q = r THEN c ELSE eInFlight[q]
    BY <1>0, <2>1 DEF Caches!TypeOK, Caches!CachedSettings
  <2> QED
    BY <1>0, <2>1, <2>2, <2>3, <2>4 DEF LoadsSingle, Caches!CachedSettings
<1> QED BY <1>1, <1>2, <1>3, <1>4, <1>5, <1>6, <1>7

\* A form is saved: the version that it may make is within the bound.
LEMMA WriteKeeps ==
    ASSUME CachesInv, NEW r \in Resources, NEW c \in Calls, Caches!Write(r, c)
    PROVE  CachesInv'
<1> USE DEF CachesInv
<1>0. /\ eCalls[c] = Caches!NoRequest
      /\ eCalls' = [eCalls EXCEPT ![c] = Caches!Request("write", r)]
      /\ UNCHANGED <<eSession, eEpoch, eValue, eLoaded, eInFlight, eLoadError, eServer,
                     eWritten, eFailures>>
      /\ eSession # NoTenant /\ eSession \in Tenants
      /\ eServer[eSession][r] + Cardinality(Caches!UnansweredWrites(eSession, r)) < MaxVersion
  BY CallTyped, SameCardinality DEF Caches!Write, Caches!TypeOK
<1>a. /\ eCalls'[c] = Caches!Request("write", r)
      /\ \A d \in Calls : d # c => eCalls'[d] = eCalls[d]
  BY <1>0 DEF Caches!TypeOK
<1>1. Caches!TypeOK'
  BY <1>0, RequestTyped DEF Caches!TypeOK
<1>2. Caches!InFlightIsPending'
  BY <1>0, <1>1, <1>a, RequestTyped, NoneTyped
     DEF Caches!InFlightIsPending, Caches!TypeOK, Caches!PendingLoads, Caches!Pending
<1>3. Room'
  <2> SUFFICES ASSUME NEW t \in Tenants, NEW q \in Resources
               PROVE  eServer'[t][q] + Cardinality((Caches!UnansweredWrites(t, q))') <= MaxVersion
    BY DEF Room
  <2> DEFINE U == Caches!UnansweredWrites(t, q)
             V == (Caches!UnansweredWrites(t, q))'
  <2>1. V \subseteq Calls /\ c \notin U
        /\ V \subseteq U \cup (IF t = eSession /\ q = r THEN {c} ELSE {})
    BY <1>0, <1>a, RequestTyped, NoneTyped DEF Caches!UnansweredWrites
  <2>2. /\ IsFiniteSet(U) /\ Cardinality(U) \in Nat
        /\ eServer[t][q] + Cardinality(U) <= MaxVersion
        /\ t = eSession /\ q = r => eServer[t][q] + Cardinality(U) < MaxVersion
        /\ eServer[t][q] \in Nat /\ eServer' = eServer
    BY <1>0, UnansweredFinite DEF Room, Caches!TypeOK
  <2> HIDE DEF U, V
  <2>3. Cardinality(U \cup {c}) = Cardinality(U) + 1 /\ IsFiniteSet(U \cup {c})
    BY <2>1, <2>2, FS_AddElement
  <2>4. CASE t = eSession /\ q = r
    <3>1. Cardinality(V) <= Cardinality(U \cup {c}) /\ Cardinality(V) \in Nat
      BY <2>1, <2>3, <2>4, FS_Subset, FS_CardinalityType
    <3> QED BY <2>2, <2>3, <2>4, <3>1 DEF V
  <2>5. CASE ~(t = eSession /\ q = r)
    <3>1. Cardinality(V) <= Cardinality(U) /\ Cardinality(V) \in Nat
      BY <2>1, <2>2, <2>5, FS_Subset, FS_CardinalityType
    <3> QED BY <2>2, <3>1 DEF V
  <2> QED BY <2>4, <2>5
<1>4. CallsSound'
  BY <1>0, <1>a, RequestTyped DEF CallsSound, Caches!TypeOK, Caches!Pending
<1>5. WrittenSound'
  BY <1>0 DEF WrittenSound
<1>6. MailboxSound'
  BY <1>0, <1>a, RequestTyped DEF MailboxSound, MailboxLoads, Caches!MailboxReadsItsWrites,
     Caches!TypeOK, Caches!Pending, Caches!PendingLoads
<1>7. LoadsSingle'
  BY <1>0, <1>a, RequestTyped DEF LoadsSingle, NoneFailed, Current, Caches!CachedSettings
<1> QED BY <1>1, <1>2, <1>3, <1>4, <1>5, <1>6, <1>7

\* The backend executes a request.
LEMMA AnswerKeeps ==
    ASSUME CachesInv, NEW c \in Calls, Caches!Answer(c)
    PROVE  CachesInv'
<1> USE DEF CachesInv
<1> DEFINE r == eCalls[c].resource
           t == eCalls[c].tenant
           n == IF eCalls[c].op = "write" THEN 1 ELSE 0
           v == eServer[t][r] + n
<1>0. /\ eCalls[c].phase = "sent" /\ eCalls[c] \in Caches!Requests
      /\ r \in Resources /\ t \in Tenants /\ eServer[t][r] \in 0..MaxVersion
      /\ eServer' = [eServer EXCEPT ![t][r] = v]
      /\ eCalls' = [eCalls EXCEPT ![c].phase = "answered",
                                  ![c].result = [tenant |-> t, version |-> v]]
      /\ UNCHANGED <<eSession, eEpoch, eValue, eLoaded, eInFlight, eLoadError, eWritten, eFailures>>
  <2>1. eCalls[c].phase = "sent" /\ eCalls[c] \in Caches!Requests
    BY CallTyped DEF Caches!Answer
  <2>2. r \in Resources /\ t \in Tenants /\ eServer[t][r] \in 0..MaxVersion
    BY <2>1 DEF Caches!Requests, Caches!TypeOK
  <2>3. v = IF eCalls[c].op = "write" THEN eServer[t][r] + 1 ELSE eServer[t][r]
    BY <2>2
  <2> QED BY <2>1, <2>2, <2>3 DEF Caches!Answer
<1>3. /\ Room' /\ v \in 0..MaxVersion
  <2>1. \A s \in Tenants, q \in Resources :
           LET U == Caches!UnansweredWrites(s, q)
               V == (Caches!UnansweredWrites(s, q))'
           IN  V = IF s = t /\ q = r /\ n = 1 THEN U \ {c} ELSE U
    BY <1>0 DEF Caches!UnansweredWrites, Caches!TypeOK, Caches!Requests
  <2>2. n = 1 => c \in Caches!UnansweredWrites(t, r)
    BY <1>0 DEF Caches!UnansweredWrites
  <2>3. ASSUME NEW s \in Tenants, NEW q \in Resources
        PROVE  /\ eServer'[s][q] + Cardinality((Caches!UnansweredWrites(s, q))') <= MaxVersion
               /\ s = t /\ q = r => v \in 0..MaxVersion
    <3> DEFINE U == Caches!UnansweredWrites(s, q)
               V == (Caches!UnansweredWrites(s, q))'
    <3>1. /\ IsFiniteSet(U) /\ Cardinality(U) \in Nat
          /\ eServer[s][q] + Cardinality(U) <= MaxVersion
          /\ eServer[s][q] \in Nat
          /\ eServer'[s][q] = IF s = t /\ q = r THEN v ELSE eServer[s][q]
      BY <1>0, UnansweredFinite DEF Room, Caches!TypeOK
    <3>2. V = IF s = t /\ q = r /\ n = 1 THEN U \ {c} ELSE U
      BY <2>1
    <3>3. s = t /\ q = r /\ n = 1 => c \in U
      BY <2>2
    <3>4. n \in {0, 1} /\ (s = t /\ q = r => v = eServer[s][q] + n)
      OBVIOUS
    <3> HIDE DEF U, V, n, v, r, t
    <3>5. CASE s = t /\ q = r /\ n = 1
      <4>1. Cardinality(V) = Cardinality(U) - 1 /\ Cardinality(V) \in Nat
        BY <3>1, <3>2, <3>3, <3>5, FS_RemoveElement, FS_CardinalityType
      <4> QED BY <3>1, <3>4, <3>5, <4>1 DEF V
    <3>6. CASE ~(s = t /\ q = r /\ n = 1)
      BY <3>1, <3>2, <3>4, <3>6 DEF V
    <3> QED BY <3>5, <3>6
  <2> QED BY <1>0, <2>3 DEF Room
<1>a. /\ eCalls'[c] = [eCalls[c] EXCEPT !.phase = "answered", !.result = [tenant |-> t, version |-> v]]
      /\ eCalls'[c] \in Caches!Requests /\ eCalls'[c].phase = "answered"
      /\ eCalls'[c].op = eCalls[c].op /\ eCalls'[c].epoch = eCalls[c].epoch
      /\ eCalls'[c].resource = r /\ eCalls'[c].tenant = t
      /\ eCalls'[c].result.tenant = t /\ eCalls'[c].result.version = v
      /\ \A d \in Calls : d # c => eCalls'[d] = eCalls[d]
  BY <1>0, <1>3 DEF Caches!TypeOK, Caches!Requests, Caches!Values
<1>b. \A s \in Tenants, q \in Resources :
         /\ eServer'[s][q] = IF s = t /\ q = r THEN v ELSE eServer[s][q]
         /\ eServer'[s][q] >= eServer[s][q]
         /\ eServer[s][q] \in Nat /\ eServer'[s][q] \in Nat /\ eWritten[q] \in Nat
  BY <1>0, <1>3 DEF Caches!TypeOK
<1> HIDE DEF r, t, n, v
<1>1. Caches!TypeOK'
  BY <1>0, <1>3, <1>a DEF Caches!TypeOK
<1>2. Caches!InFlightIsPending'
  BY <1>0, <1>a DEF Caches!InFlightIsPending, Caches!TypeOK, Caches!PendingLoads, Caches!Pending, r
<1>4. CallsSound'
  <2> SUFFICES ASSUME NEW d \in Calls, Caches!Pending(d)'
               PROVE  /\ eCalls'[d].epoch <= eEpoch
                      /\ eCalls'[d].epoch = eEpoch => eCalls'[d].tenant = eSession
                      /\ eCalls'[d].phase = "answered" =>
                           /\ eCalls'[d].result.tenant = eCalls'[d].tenant
                           /\ eCalls'[d].result.version
                                <= eServer'[eCalls'[d].tenant][eCalls'[d].resource]
    BY <1>0 DEF CallsSound
  <2>1. CASE d = c
    BY <1>0, <1>3, <1>a, <1>b, <2>1, CallTyped DEF CallsSound, Caches!TypeOK, t
  <2>2. CASE d # c
    <3>1. Caches!Pending(d) /\ eCalls'[d] = eCalls[d] /\ eCalls[d] \in Caches!Requests
      BY <1>a, <2>2, CallTyped DEF Caches!Pending
    <3>2. /\ eCalls[d].tenant \in Tenants /\ eCalls[d].resource \in Resources
          /\ eCalls[d].result.version \in Nat
      BY <3>1 DEF Caches!Requests, Caches!Values
    <3> QED BY <1>b, <3>1, <3>2 DEF CallsSound
  <2> QED BY <2>1, <2>2
<1>5. WrittenSound'
  <2>1. ASSUME NEW q \in Resources, eSession \in Tenants
        PROVE  eWritten[q] <= eServer'[eSession][q]
    BY <1>b, <2>1 DEF WrittenSound
  <2> QED BY <1>0, <2>1 DEF WrittenSound
<1>6. MailboxSound'
  <2>1. ASSUME c \in Caches!PendingLoads("mailbox"), eCalls[c].epoch = eEpoch
        PROVE  v >= eWritten["mailbox"]
    <3>1. t = eSession /\ r = "mailbox" /\ v = eServer'[t][r] /\ t \in Tenants
      BY <1>0, <1>b, <2>1 DEF CallsSound, Caches!PendingLoads, t, r
    <3>2. "mailbox" \in Resources
      BY <1>0, <3>1
    <3>3. eWritten["mailbox"] <= eServer'[t]["mailbox"]
      BY <1>0, <1>5, <3>1, <3>2 DEF WrittenSound
    <3> QED BY <1>b, <3>1, <3>2, <3>3
  <2>2. Caches!MailboxReadsItsWrites'
    BY <1>0 DEF MailboxSound, Caches!MailboxReadsItsWrites
  <2>3. ASSUME "mailbox" \in Resources, NEW d \in Calls, (d \in Caches!PendingLoads("mailbox"))',
               eCalls'[d].epoch = eEpoch, eCalls'[d].phase = "answered"
        PROVE  eCalls'[d].result.version >= eWritten["mailbox"]
    <3>0. eCalls'[d].phase # "free" /\ eCalls'[d].op = "load" /\ eCalls'[d].resource = "mailbox"
      BY <2>3 DEF Caches!PendingLoads, Caches!Pending
    <3>1. d \in Caches!PendingLoads("mailbox")
      BY <1>0, <1>a, <3>0 DEF Caches!PendingLoads, Caches!Pending, r
    <3>2. CASE d = c
      BY <1>a, <2>1, <2>3, <3>1, <3>2
    <3>3. CASE d # c
      BY <1>a, <2>3, <3>1, <3>3 DEF MailboxSound, MailboxLoads
    <3> QED BY <3>2, <3>3
  <2> QED
    BY <1>0, <2>2, <2>3 DEF MailboxSound, MailboxLoads, Caches!PendingLoads
<1>7. LoadsSingle'
  <2>1. NoneFailed => NoneFailed'
    BY <1>a DEF NoneFailed
  <2>2. ASSUME NEW q \in Resources, NEW d \in Calls, Current(d, q)'
        PROVE  Current(d, q)
    BY <1>0, <1>a, <2>2 DEF Current, r
  <2> QED BY <1>0, <2>1, <2>2 DEF LoadsSingle, Caches!CachedSettings
<1> QED BY <1>1, <1>2, <1>3, <1>4, <1>5, <1>6, <1>7

\* A request fails.
LEMMA FailKeeps ==
    ASSUME CachesInv, NEW c \in Calls, Caches!Fail(c)
    PROVE  CachesInv'
<1> USE DEF CachesInv
<1>0. /\ eCalls[c].phase = "sent" /\ eCalls[c] \in Caches!Requests
      /\ eFailures' = eFailures + 1 /\ eFailures \in Nat /\ eFailures' \in 0..MaxFailures
      /\ eCalls'[c] = [eCalls[c] EXCEPT !.phase = "failed"] /\ eCalls'[c].phase = "failed"
      /\ eCalls'[c] \in Caches!Requests
      /\ eCalls'[c].op = eCalls[c].op /\ eCalls'[c].epoch = eCalls[c].epoch
      /\ eCalls'[c].resource = eCalls[c].resource /\ eCalls'[c].tenant = eCalls[c].tenant
      /\ \A d \in Calls : d # c => eCalls'[d] = eCalls[d]
      /\ eCalls' = [eCalls EXCEPT ![c].phase = "failed"]
      /\ UNCHANGED <<eSession, eEpoch, eValue, eLoaded, eInFlight, eLoadError, eServer, eWritten>>
  BY CallTyped DEF Caches!Fail, Caches!Requests, Caches!TypeOK
<1>1. Caches!TypeOK'
  BY <1>0 DEF Caches!TypeOK
<1>2. Caches!InFlightIsPending'
  BY <1>0 DEF Caches!InFlightIsPending, Caches!TypeOK, Caches!PendingLoads, Caches!Pending
<1>3. Room'
  <2>1. \A t \in Tenants, q \in Resources :
           (Caches!UnansweredWrites(t, q))' \subseteq Caches!UnansweredWrites(t, q)
    BY <1>0 DEF Caches!UnansweredWrites
  <2> QED BY <1>0, <2>1, RoomKeeps
<1>4. CallsSound'
  BY <1>0, CallTyped DEF CallsSound, Caches!Pending
<1>5. WrittenSound'
  BY <1>0 DEF WrittenSound
<1>6. MailboxSound'
  BY <1>0, CallTyped DEF MailboxSound, MailboxLoads, Caches!MailboxReadsItsWrites,
     Caches!Pending, Caches!PendingLoads
<1>7. LoadsSingle'
  BY <1>0 DEF LoadsSingle
<1> QED BY <1>1, <1>2, <1>3, <1>4, <1>5, <1>6, <1>7

\* A continuation ends a call: what is said of the other calls stays.
LEMMA DoneKeeps ==
    ASSUME CachesInv, NEW c \in Calls, Caches!Done(c), UNCHANGED <<eSession, eEpoch, eServer>>
    PROVE  /\ eCalls' \in [Calls -> Caches!Requests \cup {Caches!NoRequest}]
           /\ eCalls'[c] = Caches!NoRequest
           /\ \A d \in Calls : d # c => eCalls'[d] = eCalls[d]
           /\ Room' /\ CallsSound' /\ (NoneFailed => NoneFailed')
           /\ \A q \in Resources, d \in Calls : Current(d, q)' => Current(d, q) /\ d # c
           /\ "mailbox" \in Resources /\ eWritten'["mailbox"] = eWritten["mailbox"] => MailboxLoads'
<1> USE DEF CachesInv
<1>1. /\ eCalls' \in [Calls -> Caches!Requests \cup {Caches!NoRequest}]
      /\ eCalls'[c] = Caches!NoRequest
      /\ \A d \in Calls : d # c => eCalls'[d] = eCalls[d]
  BY DEF Caches!Done, Caches!TypeOK
<1>2. Room'
  <2>1. \A t \in Tenants, q \in Resources :
           (Caches!UnansweredWrites(t, q))' \subseteq Caches!UnansweredWrites(t, q)
    BY <1>1, NoneTyped DEF Caches!UnansweredWrites
  <2> QED BY <2>1, RoomKeeps
<1>3. CallsSound'
  BY <1>1, NoneTyped DEF CallsSound, Caches!Pending
<1>4. NoneFailed => NoneFailed'
  BY <1>1, NoneTyped DEF NoneFailed
<1>5. \A q \in Resources, d \in Calls : Current(d, q)' => Current(d, q) /\ d # c
  BY <1>1, NoneTyped DEF Current
<1>6. ASSUME "mailbox" \in Resources, eWritten'["mailbox"] = eWritten["mailbox"]
      PROVE  MailboxLoads'
  BY <1>1, <1>6, NoneTyped DEF MailboxSound, MailboxLoads, Caches!PendingLoads, Caches!Pending
<1> QED BY <1>1, <1>2, <1>3, <1>4, <1>5, <1>6

\* The answer of a stale load is dropped: no slot holds it.
LEMMA DropKeeps ==
    ASSUME CachesInv, NEW c \in Calls, Caches!DropStaleLoad(c)
    PROVE  CachesInv'
<1> USE DEF CachesInv
<1>0. /\ Caches!Done(c) /\ Caches!Stale(c) /\ eCalls[c].op = "load"
      /\ UNCHANGED <<eSession, eEpoch, eValue, eLoaded, eInFlight, eLoadError, eServer,
                     eWritten, eFailures>>
  BY DEF Caches!DropStaleLoad
<1>a. /\ eCalls' \in [Calls -> Caches!Requests \cup {Caches!NoRequest}]
      /\ \A d \in Calls : d # c => eCalls'[d] = eCalls[d]
      /\ Room' /\ CallsSound' /\ (NoneFailed => NoneFailed')
      /\ \A q \in Resources, d \in Calls : Current(d, q)' => Current(d, q) /\ d # c
      /\ "mailbox" \in Resources => MailboxLoads'
  BY <1>0, DoneKeeps
<1>1. Caches!TypeOK'
  BY <1>0, <1>a DEF Caches!TypeOK
<1>2. Caches!InFlightIsPending'
  <2>1. \A q \in Resources : eInFlight[q] # c
    BY <1>0 DEF Caches!InFlightIsPending, Caches!PendingLoads, Caches!Stale
  <2> QED BY <1>0, <1>a, <2>1 DEF Caches!InFlightIsPending, Caches!PendingLoads, Caches!Pending,
        Caches!TypeOK
<1>3. WrittenSound' /\ MailboxSound'
  BY <1>0, <1>a DEF WrittenSound, MailboxSound, Caches!MailboxReadsItsWrites
<1>4. LoadsSingle'
  BY <1>0, <1>a DEF LoadsSingle, Caches!CachedSettings
<1> QED BY <1>1, <1>a, <1>2, <1>3, <1>4

\* A failed write only tells the form.
LEMMA FailWriteKeeps ==
    ASSUME CachesInv, NEW c \in Calls, Caches!FailWrite(c)
    PROVE  CachesInv'
<1> USE DEF CachesInv
<1>0. /\ Caches!Done(c) /\ eCalls[c].op = "write"
      /\ UNCHANGED <<eSession, eEpoch, eValue, eLoaded, eInFlight, eLoadError, eServer,
                     eWritten, eFailures>>
  BY DEF Caches!FailWrite
<1>a. /\ eCalls' \in [Calls -> Caches!Requests \cup {Caches!NoRequest}]
      /\ \A d \in Calls : d # c => eCalls'[d] = eCalls[d]
      /\ Room' /\ CallsSound' /\ (NoneFailed => NoneFailed')
      /\ \A q \in Resources, d \in Calls : Current(d, q)' => Current(d, q) /\ d # c
      /\ "mailbox" \in Resources => MailboxLoads'
  BY <1>0, DoneKeeps
<1>1. Caches!TypeOK'
  BY <1>0, <1>a DEF Caches!TypeOK
<1>2. Caches!InFlightIsPending'
  <2>1. \A q \in Resources : eInFlight[q] # c
    BY <1>0 DEF Caches!InFlightIsPending, Caches!PendingLoads
  <2> QED BY <1>0, <1>a, <2>1 DEF Caches!InFlightIsPending, Caches!PendingLoads, Caches!Pending,
        Caches!TypeOK
<1>3. WrittenSound' /\ MailboxSound'
  BY <1>0, <1>a DEF WrittenSound, MailboxSound, Caches!MailboxReadsItsWrites
<1>4. LoadsSingle'
  BY <1>0, <1>a DEF LoadsSingle, Caches!CachedSettings
<1> QED BY <1>1, <1>a, <1>2, <1>3, <1>4

\* The slot of the resource is emptied: the other slots hold other calls.
LEMMA SlotsKeep ==
    ASSUME CachesInv, NEW c \in Calls, Caches!Done(c), eCalls[c].op = "load",
           UNCHANGED <<eSession, eEpoch, eServer>>,
           eInFlight' = [eInFlight EXCEPT ![eCalls[c].resource] = NoCall]
    PROVE  Caches!InFlightIsPending'
<1> USE DEF CachesInv
<1>1. ASSUME NEW q \in Resources, eInFlight'[q] # NoCall
      PROVE  /\ q # eCalls[c].resource /\ eInFlight'[q] = eInFlight[q]
             /\ eInFlight[q] \in Calls /\ eInFlight[q] # c
  BY <1>1 DEF Caches!TypeOK, Caches!InFlightIsPending, Caches!PendingLoads
<1>2. \A d \in Calls : d # c => eCalls'[d] = eCalls[d]
  BY DoneKeeps
<1> QED
  BY <1>1, <1>2 DEF Caches!InFlightIsPending, Caches!PendingLoads, Caches!Pending

\* A load publishes its answer.
LEMMA FinishLoadKeeps ==
    ASSUME CachesInv, NEW c \in Calls, Caches!FinishLoad(c)
    PROVE  CachesInv'
<1> USE DEF CachesInv
<1> DEFINE r == eCalls[c].resource
<1>0. /\ Caches!Done(c) /\ ~Caches!Stale(c) /\ eCalls[c].op = "load" /\ eCalls[c].phase = "answered"
      /\ eValue' = [eValue EXCEPT ![r] = eCalls[c].result]
      /\ eLoaded' = IF r \in Caches!PlanLists THEN eLoaded ELSE [eLoaded EXCEPT ![r] = TRUE]
      /\ eInFlight' = [eInFlight EXCEPT ![r] = NoCall]
      /\ eLoadError' \subseteq {"settings", "catalog"}
      /\ UNCHANGED <<eSession, eEpoch, eServer, eWritten, eFailures>>
  BY DEF Caches!FinishLoad, Caches!TypeOK
<1>a. /\ eCalls' \in [Calls -> Caches!Requests \cup {Caches!NoRequest}]
      /\ \A d \in Calls : d # c => eCalls'[d] = eCalls[d]
      /\ Room' /\ CallsSound' /\ (NoneFailed => NoneFailed')
      /\ \A q \in Resources, d \in Calls : Current(d, q)' => Current(d, q) /\ d # c
      /\ "mailbox" \in Resources => MailboxLoads'
  BY <1>0, DoneKeeps
<1>b. /\ eCalls[c] \in Caches!Requests /\ r \in Resources /\ eCalls[c].result \in Caches!Values
      /\ Caches!Pending(c)
  BY <1>0, CallTyped DEF Caches!Requests
<1>c. r \in Caches!Settings => r \notin Caches!PlanLists /\ eCalls[c].epoch = eEpoch
  BY <1>0 DEF Caches!Stale, Caches!Settings, Caches!PlanLists, Caches!ReportingSettings,
              Caches!QuietSettings
<1>1. Caches!TypeOK'
  BY <1>0, <1>a, <1>b DEF Caches!TypeOK
<1>2. Caches!InFlightIsPending'
  BY <1>0, SlotsKeep
<1>3. WrittenSound'
  BY <1>0 DEF WrittenSound
<1>4. MailboxSound'
  <2>1. r = "mailbox" => eCalls[c].result.version >= eWritten["mailbox"]
    BY <1>0, <1>b, <1>c DEF MailboxSound, MailboxLoads, Caches!PendingLoads, Caches!Settings,
       Caches!QuietSettings
  <2>2. Caches!MailboxReadsItsWrites'
    BY <1>0, <1>b, <2>1 DEF MailboxSound, Caches!MailboxReadsItsWrites, Caches!TypeOK
  <2> QED BY <1>a, <2>2 DEF MailboxSound
<1>5. LoadsSingle'
  <2>1. \A q \in Caches!CachedSettings :
           IF q = r THEN eLoaded'[q] ELSE eLoaded'[q] = eLoaded[q] /\ eInFlight'[q] = eInFlight[q]
    BY <1>0, <1>b, <1>c DEF Caches!TypeOK, Caches!CachedSettings
  <2>2. \A q \in Caches!CachedSettings, d \in Calls : Current(d, q)' => Current(d, q)
    BY <1>a DEF Caches!CachedSettings
  <2> HIDE DEF r
  <2> QED BY <1>0, <1>a, <2>1, <2>2 DEF LoadsSingle, Caches!CachedSettings
<1> QED BY <1>1, <1>a, <1>2, <1>3, <1>4, <1>5

\* A load fails.
LEMMA FailLoadKeeps ==
    ASSUME CachesInv, NEW c \in Calls, Caches!FailLoad(c)
    PROVE  CachesInv'
<1> USE DEF CachesInv
<1> DEFINE r == eCalls[c].resource
<1>b. /\ eCalls[c].op = "load" /\ eCalls[c].phase = "failed"
      /\ r \in Resources /\ r \in Caches!Settings \cup Caches!Catalog
  BY CallTyped DEF Caches!FailLoad, Caches!Requests
<1>0. /\ Caches!Done(c)
      /\ \/ /\ r \in Caches!QuietSettings /\ eLoadError' = eLoadError
            /\ eValue' = [eValue EXCEPT ![r] = Caches!NoValue]
            /\ eLoaded' = [eLoaded EXCEPT ![r] = FALSE]
         \/ UNCHANGED <<eValue, eLoaded>> /\ eLoadError' \subseteq {"settings", "catalog"}
      /\ eInFlight' = [eInFlight EXCEPT ![r] = NoCall]
      /\ UNCHANGED <<eSession, eEpoch, eServer, eWritten, eFailures>>
  BY DEF Caches!FailLoad, Caches!TypeOK, Caches!StoreOf
<1>a. /\ eCalls' \in [Calls -> Caches!Requests \cup {Caches!NoRequest}]
      /\ Room' /\ CallsSound'
      /\ "mailbox" \in Resources => MailboxLoads'
  BY <1>0, DoneKeeps
<1>1. Caches!TypeOK'
  <2>1. /\ eValue' \in [Resources -> Caches!Values] /\ eLoaded' \in [Resources -> BOOLEAN]
        /\ eLoadError' \subseteq {"settings", "catalog"}
    <3> HIDE DEF r
    <3>1. /\ eValue \in [Resources -> Caches!Values] /\ eLoaded \in [Resources -> BOOLEAN]
          /\ eLoadError \subseteq {"settings", "catalog"}
      BY DEF Caches!TypeOK
    <3>2. CASE UNCHANGED <<eValue, eLoaded>> /\ eLoadError' \subseteq {"settings", "catalog"}
      BY <3>1, <3>2
    <3>3. CASE /\ eLoadError' = eLoadError
               /\ eValue' = [eValue EXCEPT ![r] = Caches!NoValue]
               /\ eLoaded' = [eLoaded EXCEPT ![r] = FALSE]
      BY <3>1, <3>3, NoneTyped
    <3> QED BY <1>0, <3>2, <3>3
  <2>2. eInFlight' \in [Resources -> Calls \cup {NoCall}]
    BY <1>0, <1>b DEF Caches!TypeOK
  <2> QED BY <1>0, <1>a, <2>1, <2>2 DEF Caches!TypeOK
<1>2. Caches!InFlightIsPending'
  BY <1>0, <1>b, SlotsKeep
<1>3. WrittenSound'
  BY <1>0 DEF WrittenSound
<1>4. MailboxSound'
  BY <1>0, <1>a, <1>b DEF MailboxSound, Caches!MailboxReadsItsWrites, Caches!TypeOK
<1>5. LoadsSingle'
  BY <1>0, <1>b DEF LoadsSingle, NoneFailed
<1> QED BY <1>1, <1>a, <1>2, <1>3, <1>4, <1>5

\* A write that is confirmed has made a version of the server.
LEMMA ConfirmedKeeps ==
    ASSUME CachesInv, NEW c \in Calls, eCalls[c].phase = "answered",
           UNCHANGED <<eSession, eServer>>, eWritten' = Caches!Confirmed(c)
    PROVE  /\ WrittenSound' /\ eWritten' \in [Resources -> 0..MaxVersion]
           /\ \A q \in Resources : q # eCalls[c].resource => eWritten'[q] = eWritten[q]
<1> USE DEF CachesInv
<1>1. /\ eCalls[c] \in Caches!Requests /\ Caches!Pending(c)
      /\ eCalls[c].resource \in Resources /\ eCalls[c].tenant \in Tenants
      /\ eCalls[c].result.version \in 0..MaxVersion
      /\ eCalls[c].result.version <= eServer[eCalls[c].tenant][eCalls[c].resource]
  BY CallTyped DEF Caches!Requests, Caches!Values, CallsSound
<1> DEFINE r == eCalls[c].resource
           v == IF eCalls[c].result.version > eWritten[r] THEN eCalls[c].result.version
                                                          ELSE eWritten[r]
<1>2. v \in 0..MaxVersion
  BY <1>1 DEF Caches!TypeOK
<1>3. CASE eCalls[c].tenant = eSession
  <2>1. eWritten' = [eWritten EXCEPT ![r] = v]
    BY <1>3 DEF Caches!Confirmed
  <2>2. v <= eServer[eSession][r] /\ eSession \in Tenants
    BY <1>1, <1>3 DEF WrittenSound
  <2> HIDE DEF v, r
  <2>3. \A q \in Resources : eWritten'[q] <= eServer[eSession][q]
    BY <2>1, <2>2 DEF WrittenSound, Caches!TypeOK
  <2>4. WrittenSound'
    BY <2>2, <2>3 DEF WrittenSound
  <2>5. eWritten' \in [Resources -> 0..MaxVersion]
    BY <1>2, <2>1 DEF Caches!TypeOK
  <2>6. \A q \in Resources : q # r => eWritten'[q] = eWritten[q]
    BY <2>1 DEF Caches!TypeOK
  <2> QED BY <2>4, <2>5, <2>6 DEF r
<1>4. CASE eCalls[c].tenant # eSession
  BY <1>4 DEF Caches!Confirmed, WrittenSound, Caches!TypeOK
<1> QED BY <1>3, <1>4

\* The settings store publishes the answer of its write.
LEMMA SettingsWriteKeeps ==
    ASSUME CachesInv, NEW c \in Calls, eCalls[c].op = "write", eCalls[c].phase = "answered",
           Caches!FinishSettingsWrite(c), eWritten' = Caches!Confirmed(c),
           UNCHANGED <<eSession, eServer, eFailures>>
    PROVE  CachesInv'
<1> USE DEF CachesInv
<1> DEFINE r == eCalls[c].resource
<1>0. /\ Caches!Done(c) /\ r \in Caches!ReportingSettings
      /\ eValue' = [eValue EXCEPT ![r] = eCalls[c].result]
      /\ eLoaded' = [eLoaded EXCEPT ![r] = TRUE]
      /\ eInFlight' \in {eInFlight, [eInFlight EXCEPT ![r] = NoCall]}
      /\ UNCHANGED <<eEpoch, eLoadError>>
  BY DEF Caches!FinishSettingsWrite
<1>b. /\ r \in Resources /\ eCalls[c].result \in Caches!Values /\ r # "mailbox"
  BY <1>0, CallTyped DEF Caches!Requests, Caches!ReportingSettings
<1>c. /\ WrittenSound' /\ eWritten' \in [Resources -> 0..MaxVersion]
      /\ "mailbox" \in Resources => eWritten'["mailbox"] = eWritten["mailbox"]
  BY <1>b, ConfirmedKeeps
<1>a. /\ eCalls' \in [Calls -> Caches!Requests \cup {Caches!NoRequest}]
      /\ \A d \in Calls : d # c => eCalls'[d] = eCalls[d]
      /\ Room' /\ CallsSound' /\ (NoneFailed => NoneFailed')
      /\ \A q \in Resources, d \in Calls : Current(d, q)' => Current(d, q) /\ d # c
      /\ "mailbox" \in Resources => MailboxLoads'
  BY <1>0, <1>c, DoneKeeps
<1>d. \A q \in Resources : eInFlight'[q] \in {eInFlight[q], NoCall}
                           /\ (q # r => eInFlight'[q] = eInFlight[q])
  BY <1>0, <1>b DEF Caches!TypeOK
<1>1. Caches!TypeOK'
  <2>1. /\ eValue' \in [Resources -> Caches!Values] /\ eLoaded' \in [Resources -> BOOLEAN]
        /\ eInFlight' \in [Resources -> Calls \cup {NoCall}]
    BY <1>0, <1>b DEF Caches!TypeOK
  <2> QED BY <1>0, <1>a, <1>c, <2>1 DEF Caches!TypeOK
<1>2. Caches!InFlightIsPending'
  <2>1. \A q \in Resources : eInFlight[q] # c
    BY DEF Caches!InFlightIsPending, Caches!PendingLoads
  <2> QED BY <1>0, <1>a, <1>d, <2>1 DEF Caches!InFlightIsPending, Caches!PendingLoads, Caches!Pending,
        Caches!TypeOK
<1>3. MailboxSound'
  BY <1>0, <1>a, <1>b, <1>c DEF MailboxSound, Caches!MailboxReadsItsWrites, Caches!TypeOK
<1>4. LoadsSingle'
  <2>1. \A q \in Caches!CachedSettings :
           IF q = r THEN eLoaded'[q] ELSE eLoaded'[q] = eLoaded[q] /\ eInFlight'[q] = eInFlight[q]
    BY <1>0, <1>b, <1>d DEF Caches!TypeOK, Caches!CachedSettings
  <2>2. \A q \in Caches!CachedSettings, d \in Calls : Current(d, q)' => Current(d, q)
    BY <1>a DEF Caches!CachedSettings
  <2> HIDE DEF r
  <2> QED BY <1>a, <2>1, <2>2 DEF LoadsSingle, Caches!CachedSettings
<1> QED BY <1>1, <1>a, <1>2, <1>3, <1>c, <1>4

\* A call ends and another one begins, which is a load of the session.
LEMMA ReloadKeeps ==
    ASSUME CachesInv, NEW c \in Calls, NEW d \in Calls, NEW q, NEW n \in Nat,
           d = c \/ ~Caches!Pending(d), q \in Caches!Requests,
           q.op = "load", q.phase = "sent", q.tenant = eSession, q.epoch = n,
           eEpoch' = n, n >= eEpoch, UNCHANGED <<eSession, eServer>>,
           eCalls' = [eCalls EXCEPT ![c] = Caches!NoRequest, ![d] = q]
    PROVE  /\ eCalls' \in [Calls -> Caches!Requests \cup {Caches!NoRequest}]
           /\ eCalls'[d] = q /\ (c # d => eCalls'[c] = Caches!NoRequest)
           /\ \A e \in Calls : e # c /\ e # d => eCalls'[e] = eCalls[e]
           /\ Room' /\ CallsSound' /\ (NoneFailed => NoneFailed')
<1> USE DEF CachesInv
<1>1. /\ eCalls' \in [Calls -> Caches!Requests \cup {Caches!NoRequest}]
      /\ eCalls'[d] = q /\ (c # d => eCalls'[c] = Caches!NoRequest)
      /\ \A e \in Calls : e # c /\ e # d => eCalls'[e] = eCalls[e]
  BY DEF Caches!TypeOK
<1>2. Room'
  <2>1. \A t \in Tenants, r \in Resources :
           (Caches!UnansweredWrites(t, r))' \subseteq Caches!UnansweredWrites(t, r)
    BY <1>1, NoneTyped DEF Caches!UnansweredWrites
  <2> QED BY <2>1, RoomKeeps
<1>3. CallsSound'
  <2> SUFFICES ASSUME NEW e \in Calls, eCalls'[e].phase # "free"
               PROVE  /\ eCalls'[e].epoch <= n
                      /\ eCalls'[e].epoch = n => eCalls'[e].tenant = eSession
                      /\ eCalls'[e].phase = "answered" =>
                           /\ eCalls'[e].result.tenant = eCalls'[e].tenant
                           /\ eCalls'[e].result.version
                                <= eServer[eCalls'[e].tenant][eCalls'[e].resource]
    BY DEF CallsSound, Caches!Pending
  <2>1. CASE e = d
    BY <1>1, <2>1
  <2>2. CASE e # d
    <3>1. e # c /\ eCalls'[e] = eCalls[e] /\ Caches!Pending(e) /\ eCalls[e].epoch \in Nat
      BY <1>1, <2>2, NoneTyped, CallTyped DEF Caches!Pending, Caches!Requests
    <3>2. /\ eCalls[e].epoch <= eEpoch /\ eEpoch \in Nat
          /\ eCalls[e].epoch = eEpoch => eCalls[e].tenant = eSession
          /\ eCalls[e].phase = "answered" =>
               /\ eCalls[e].result.tenant = eCalls[e].tenant
               /\ eCalls[e].result.version <= eServer[eCalls[e].tenant][eCalls[e].resource]
      BY <3>1 DEF CallsSound, Caches!TypeOK
    <3>3. eCalls[e].epoch <= n /\ (eCalls[e].epoch = n => eCalls[e].epoch = eEpoch)
      BY <3>1, <3>2
    <3> QED BY <3>1, <3>2, <3>3
  <2> QED BY <2>1, <2>2
<1>4. NoneFailed => NoneFailed'
  BY <1>1, NoneTyped DEF NoneFailed
<1> QED BY <1>1, <1>2, <1>3, <1>4

\* No list of the catalog is a setting.
LEMMA CatalogApart ==
    /\ "mailbox" \in Caches!Settings
    /\ \A r \in Caches!Catalog : r \notin Caches!Settings
    /\ \A r \in Caches!Catalog, q \in Caches!Settings : q \notin Caches!Invalidated(r)
BY DEF Caches!Catalog, Caches!CatalogLists, Caches!PlanLists, Caches!Settings,
       Caches!ReportingSettings, Caches!QuietSettings, Caches!Invalidated

\* A page invalidates and reloads a list of the catalog after a mutation.
LEMMA CatalogWriteKeeps ==
    ASSUME CachesInv, NEW c \in Calls, NEW d \in Calls,
           eCalls[c].op = "write", eCalls[c].phase = "answered",
           Caches!FinishCatalogWrite(c, d), eWritten' = Caches!Confirmed(c),
           UNCHANGED <<eSession, eServer, eFailures>>
    PROVE  CachesInv'
<1> USE DEF CachesInv
<1> DEFINE r == eCalls[c].resource
           gone == Caches!Invalidated(r)
           Ends == Caches!Done(c) /\ eInFlight' = eInFlight
           Begins == /\ eInFlight[r] = NoCall /\ eSession # NoTenant
                     /\ d = c \/ ~Caches!Pending(d)
                     /\ eCalls' = [eCalls EXCEPT ![c] = Caches!NoRequest,
                                                ![d] = Caches!Request("load", r)]
                     /\ eInFlight' = IF r \in Caches!PlanLists THEN eInFlight
                                      ELSE [eInFlight EXCEPT ![r] = d]
<1>0. /\ r \in Caches!Catalog
      /\ eValue' = [q \in Resources |-> IF q \in gone THEN Caches!NoValue ELSE eValue[q]]
      /\ eLoaded' = [q \in Resources |-> eLoaded[q] /\ q \notin gone]
      /\ Ends \/ Begins
      /\ UNCHANGED <<eEpoch, eLoadError>>
  BY DEF Caches!FinishCatalogWrite
<1>b. r \in Resources /\ r \notin Caches!Settings /\ r # "mailbox" /\ Caches!Pending(c)
      /\ \A q \in Caches!Settings : q \notin gone
  BY <1>0, CatalogApart, CallTyped DEF Caches!Requests
<1>c. /\ WrittenSound' /\ eWritten' \in [Resources -> 0..MaxVersion]
      /\ "mailbox" \in Resources => eWritten'["mailbox"] = eWritten["mailbox"]
  BY <1>b, ConfirmedKeeps
<1> HIDE DEF gone
<1>d. /\ eValue' \in [Resources -> Caches!Values] /\ eLoaded' \in [Resources -> BOOLEAN]
      /\ \A q \in Resources \cap Caches!Settings : eLoaded'[q] = eLoaded[q] /\ eValue'[q] = eValue[q]
  <2>1. \A q \in Resources : eValue[q] \in Caches!Values /\ eLoaded[q] \in BOOLEAN
    BY DEF Caches!TypeOK
  <2>2. eValue' \in [Resources -> Caches!Values]
    BY <1>0, <2>1, NoneTyped
  <2>3. eLoaded' \in [Resources -> BOOLEAN]
    BY <1>0
  <2>4. \A q \in Resources \cap Caches!Settings : eValue'[q] = eValue[q]
    BY <1>0, <1>b
  <2>5. \A q \in Resources \cap Caches!Settings : eLoaded'[q] = eLoaded[q]
    BY <1>0, <1>b, <2>1
  <2> QED BY <2>2, <2>3, <2>4, <2>5
<1>e. Caches!MailboxReadsItsWrites'
  BY <1>c, <1>d, CatalogApart DEF MailboxSound, Caches!MailboxReadsItsWrites
<1>s. \A q \in Resources : eInFlight[q] # c /\ (Begins => eInFlight[q] # d)
  BY <1>b DEF Caches!InFlightIsPending, Caches!PendingLoads
<1>1. CASE Ends
  <2>a. /\ eCalls' \in [Calls -> Caches!Requests \cup {Caches!NoRequest}]
        /\ \A e \in Calls : e # c => eCalls'[e] = eCalls[e]
        /\ Room' /\ CallsSound' /\ (NoneFailed => NoneFailed')
        /\ \A q \in Resources, e \in Calls : Current(e, q)' => Current(e, q) /\ e # c
        /\ "mailbox" \in Resources => MailboxLoads'
    BY <1>0, <1>1, <1>c, DoneKeeps
  <2>1. Caches!TypeOK'
    BY <1>0, <1>1, <1>c, <1>d, <2>a DEF Caches!TypeOK
  <2>2. Caches!InFlightIsPending'
    BY <1>0, <1>1, <1>s, <2>a DEF Caches!InFlightIsPending, Caches!PendingLoads, Caches!Pending,
       Caches!TypeOK
  <2>3. LoadsSingle'
    BY <1>1, <1>d, <2>a DEF LoadsSingle, Caches!CachedSettings
  <2> QED BY <1>c, <1>e, <2>a, <2>1, <2>2, <2>3 DEF MailboxSound
<1>2. CASE Begins
  <2> DEFINE q0 == Caches!Request("load", r)
  <2>0. /\ q0 \in Caches!Requests /\ q0.op = "load" /\ q0.phase = "sent" /\ q0.resource = r
        /\ q0.tenant = eSession /\ q0.epoch = eEpoch /\ eEpoch \in Nat
    BY <1>2, <1>b, RequestTyped DEF Caches!TypeOK
  <2> HIDE DEF q0
  <2>a. /\ eCalls' \in [Calls -> Caches!Requests \cup {Caches!NoRequest}]
        /\ eCalls'[d] = q0 /\ (c # d => eCalls'[c] = Caches!NoRequest)
        /\ \A e \in Calls : e # c /\ e # d => eCalls'[e] = eCalls[e]
        /\ Room' /\ CallsSound' /\ (NoneFailed => NoneFailed')
    <3>1. eCalls' = [eCalls EXCEPT ![c] = Caches!NoRequest, ![d] = q0]
      BY <1>2 DEF q0
    <3>2. d = c \/ ~Caches!Pending(d)
      BY <1>2
    <3>3. eEpoch' = eEpoch /\ eEpoch >= eEpoch
      BY <1>0, <2>0
    <3> QED BY ONLY CachesInv, c \in Calls, d \in Calls, UNCHANGED <<eSession, eServer>>,
                    <2>0, <3>1, <3>2, <3>3, ReloadKeeps
  <2>b. ASSUME NEW q \in Resources, q \in Caches!Settings, NEW e \in Calls,
               eCalls'[e].phase # "free", eCalls'[e].resource = q
        PROVE  eCalls'[e] = eCalls[e]
    BY <1>b, <2>0, <2>a, <2>b, NoneTyped
  <2>1. Caches!TypeOK'
    BY <1>0, <1>2, <1>b, <1>c, <1>d, <2>a DEF Caches!TypeOK
  <2>2. Caches!InFlightIsPending'
    <3> SUFFICES ASSUME NEW q \in Resources, eInFlight'[q] # NoCall
                 PROVE  /\ (eInFlight[q] \in Caches!PendingLoads(q))'
                        /\ q \in Caches!Settings => eCalls'[eInFlight'[q]].epoch = eEpoch
      BY <1>0 DEF Caches!InFlightIsPending
    <3>1. CASE eInFlight'[q] = eInFlight[q]
      <4>1. eInFlight[q] \in Caches!PendingLoads(q) /\ eInFlight[q] \in Calls
            /\ eCalls'[eInFlight[q]] = eCalls[eInFlight[q]]
        BY <1>2, <1>s, <2>a, <3>1 DEF Caches!InFlightIsPending, Caches!TypeOK
      <4> QED BY <3>1, <4>1 DEF Caches!InFlightIsPending, Caches!PendingLoads, Caches!Pending
    <3>2. CASE eInFlight'[q] # eInFlight[q]
      <4>1. q = r /\ eInFlight'[q] = d
        BY <1>2, <1>b, <3>2 DEF Caches!TypeOK
      <4> QED BY <1>b, <2>0, <2>a, <4>1 DEF Caches!PendingLoads, Caches!Pending
    <3> QED BY <3>1, <3>2
  <2>3. LoadsSingle'
    <3>1. \A q \in Caches!CachedSettings, e \in Calls : Current(e, q)' => Current(e, q)
      BY <1>0, <2>b DEF Caches!CachedSettings, Current
    <3>2. \A q \in Caches!CachedSettings : eInFlight'[q] = eInFlight[q] /\ eLoaded'[q] = eLoaded[q]
      BY <1>2, <1>b, <1>d DEF Caches!CachedSettings, Caches!TypeOK
    <3> QED BY <2>a, <3>1, <3>2 DEF LoadsSingle, Caches!CachedSettings
  <2>4. "mailbox" \in Resources => MailboxLoads'
    BY <1>0, <1>c, <2>b, CatalogApart DEF MailboxSound, MailboxLoads, Caches!PendingLoads,
       Caches!Pending
  <2> QED BY <1>c, <1>e, <2>a, <2>1, <2>2, <2>3, <2>4 DEF MailboxSound
<1> QED BY <1>0, <1>1, <1>2

\* What a clear leaves of the settings.
LEMMA Cleared ==
    ASSUME CachesInv, NEW store \in SUBSET {"settings", "catalog"}, "settings" \in store
    PROVE  /\ Caches!ClearedValue(store) \in [Resources -> Caches!Values]
           /\ Caches!ClearedLoaded(store) \in [Resources -> BOOLEAN]
           /\ Caches!ClearedInFlight(store) \in [Resources -> Calls \cup {NoCall}]
           /\ \A q \in Resources :
                /\ Caches!ClearedInFlight(store)[q] \in {eInFlight[q], NoCall}
                /\ q \in Caches!Settings => /\ Caches!ClearedInFlight(store)[q] = NoCall
                                            /\ ~Caches!ClearedLoaded(store)[q]
<1>1. \A q \in Resources : /\ eValue[q] \in Caches!Values /\ eLoaded[q] \in BOOLEAN
                            /\ eInFlight[q] \in Calls \cup {NoCall}
  BY DEF CachesInv, Caches!TypeOK
<1>2. \A q \in Caches!Settings : Caches!StoreOf(q) \in store
  BY DEF Caches!StoreOf
<1>3. Caches!ClearedValue(store) \in [Resources -> Caches!Values]
  BY <1>1, NoneTyped DEF Caches!ClearedValue
<1>4. /\ Caches!ClearedLoaded(store) \in [Resources -> BOOLEAN]
      /\ \A q \in Resources : q \in Caches!Settings => ~Caches!ClearedLoaded(store)[q]
  BY <1>1, <1>2 DEF Caches!ClearedLoaded
<1>5. /\ Caches!ClearedInFlight(store) \in [Resources -> Calls \cup {NoCall}]
      /\ \A q \in Resources :
           /\ Caches!ClearedInFlight(store)[q] \in {eInFlight[q], NoCall}
           /\ q \in Caches!Settings => Caches!ClearedInFlight(store)[q] = NoCall
  BY <1>1, <1>2 DEF Caches!ClearedInFlight
<1> QED BY <1>3, <1>4, <1>5

\* The settings are cleared and the mailbox is loaded under a new epoch.
LEMMA MailboxWriteKeeps ==
    ASSUME CachesInv, NEW c \in Calls, NEW d \in Calls,
           eCalls[c].op = "write", eCalls[c].phase = "answered",
           Caches!FinishMailboxWrite(c, d), eWritten' = Caches!Confirmed(c),
           UNCHANGED <<eSession, eServer, eFailures>>
    PROVE  CachesInv'
<1> USE DEF CachesInv
<1> DEFINE I == Caches!ClearedInFlight({"settings"})
           q0 == [Caches!Request("load", "mailbox") EXCEPT !.epoch = eEpoch + 1]
           Ends == Caches!Done(c) /\ eInFlight' = I
           Begins == /\ eSession # NoTenant
                     /\ d = c \/ ~Caches!Pending(d)
                     /\ eCalls' = [eCalls EXCEPT ![c] = Caches!NoRequest, ![d] = q0]
                     /\ eInFlight' = [I EXCEPT !["mailbox"] = d]
<1>0. /\ eCalls[c].resource = "mailbox" /\ eEpoch' = eEpoch + 1
      /\ eValue' = Caches!ClearedValue({"settings"})
      /\ eLoaded' = Caches!ClearedLoaded({"settings"})
      /\ eLoadError' \subseteq {"settings", "catalog"}
      /\ Ends \/ Begins
  BY DEF Caches!FinishMailboxWrite, Caches!TypeOK
<1>b. /\ "mailbox" \in Resources /\ Caches!Pending(c) /\ eEpoch \in Nat /\ eEpoch' \in Nat
      /\ "mailbox" \in Caches!Settings
  BY <1>0, CallTyped, CatalogApart DEF Caches!Requests, Caches!TypeOK
<1>c. WrittenSound' /\ eWritten' \in [Resources -> 0..MaxVersion]
  BY ConfirmedKeeps
<1>d. /\ eValue' \in [Resources -> Caches!Values] /\ eLoaded' \in [Resources -> BOOLEAN]
      /\ I \in [Resources -> Calls \cup {NoCall}]
      /\ \A q \in Resources : /\ I[q] \in {eInFlight[q], NoCall}
                              /\ q \in Caches!Settings => I[q] = NoCall /\ ~eLoaded'[q]
  BY <1>0, Cleared
<1>e. Caches!MailboxReadsItsWrites'
  BY <1>b, <1>d DEF Caches!MailboxReadsItsWrites
<1>f. \A e \in Calls : Caches!Pending(e) => eCalls[e].epoch # eEpoch' /\ eCalls[e].epoch <= eEpoch'
  BY <1>0, <1>b, CallTyped DEF CallsSound, Caches!Requests
<1>s. \A q \in Resources : eInFlight[q] # c /\ (Begins => eInFlight[q] # d)
  BY <1>b DEF Caches!InFlightIsPending, Caches!PendingLoads
<1> HIDE DEF I
<1>1. CASE Ends
  <2>a. /\ eCalls' \in [Calls -> Caches!Requests \cup {Caches!NoRequest}]
        /\ eCalls'[c] = Caches!NoRequest
        /\ \A e \in Calls : e # c => eCalls'[e] = eCalls[e]
    BY <1>1 DEF Caches!Done, Caches!TypeOK
  <2>f. \A e \in Calls : eCalls'[e].phase # "free" => eCalls'[e].epoch # eEpoch'
    BY <1>f, <2>a, NoneTyped DEF Caches!Pending
  <2>b. Room'
    <3>1. \A t \in Tenants, q \in Resources :
             (Caches!UnansweredWrites(t, q))' \subseteq Caches!UnansweredWrites(t, q)
      BY <2>a, NoneTyped DEF Caches!UnansweredWrites
    <3> QED BY <3>1, RoomKeeps
  <2>c. CallsSound'
    BY <1>f, <2>a, NoneTyped DEF CallsSound, Caches!Pending
  <2>1. Caches!TypeOK'
    BY <1>0, <1>1, <1>b, <1>c, <1>d, <2>a DEF Caches!TypeOK
  <2>2. Caches!InFlightIsPending'
    BY <1>1, <1>d, <1>s, <2>a DEF Caches!InFlightIsPending, Caches!PendingLoads, Caches!Pending,
       Caches!TypeOK
  <2>3. MailboxSound'
    BY <1>e, <2>f DEF MailboxSound, MailboxLoads, Caches!PendingLoads, Caches!Pending
  <2>4. LoadsSingle'
    <3>1. NoneFailed => NoneFailed'
      BY <2>a, NoneTyped DEF NoneFailed
    <3>2. \A q, e : e \in Calls => ~Current(e, q)'
      BY <2>f DEF Current
    <3> QED BY <3>1, <3>2 DEF LoadsSingle
  <2> QED BY <1>c, <2>b, <2>c, <2>1, <2>2, <2>3, <2>4
<1>2. CASE Begins
  <2>0. /\ q0 \in Caches!Requests /\ q0.op = "load" /\ q0.phase = "sent"
        /\ q0.resource = "mailbox" /\ q0.tenant = eSession /\ q0.epoch = eEpoch'
    BY <1>0, <1>2, <1>b, RequestTyped DEF Caches!Requests
  <2> HIDE DEF q0
  <2>a. /\ eCalls' \in [Calls -> Caches!Requests \cup {Caches!NoRequest}]
        /\ eCalls'[d] = q0 /\ (c # d => eCalls'[c] = Caches!NoRequest)
        /\ \A e \in Calls : e # c /\ e # d => eCalls'[e] = eCalls[e]
        /\ Room' /\ CallsSound' /\ (NoneFailed => NoneFailed')
    <3>1. eCalls' = [eCalls EXCEPT ![c] = Caches!NoRequest, ![d] = q0]
      BY <1>2
    <3>2. d = c \/ ~Caches!Pending(d)
      BY <1>2
    <3>3. eEpoch' \in Nat /\ eEpoch' >= eEpoch
      BY <1>0, <1>b
    <3> HIDE DEF Begins, Ends
    <3> QED BY ONLY CachesInv, c \in Calls, d \in Calls, UNCHANGED <<eSession, eServer>>,
                    <2>0, <3>1, <3>2, <3>3, ReloadKeeps
  <2>f. \A e \in Calls : eCalls'[e].phase # "free" /\ eCalls'[e].epoch = eEpoch' => e = d
    BY <1>f, <2>a, NoneTyped DEF Caches!Pending
  <2>g. \A q \in Resources : eInFlight'[q] = IF q = "mailbox" THEN d ELSE I[q]
    BY <1>2, <1>b, <1>d
  <2>1. Caches!TypeOK'
    <3>1. eInFlight' \in [Resources -> Calls \cup {NoCall}]
      BY <1>2, <1>b, <1>d
    <3> QED BY <1>0, <1>b, <1>c, <1>d, <2>a, <3>1 DEF Caches!TypeOK
  <2>2. Caches!InFlightIsPending'
    <3> SUFFICES ASSUME NEW q \in Resources, eInFlight'[q] # NoCall
                 PROVE  /\ (eInFlight[q] \in Caches!PendingLoads(q))'
                        /\ q \in Caches!Settings => eCalls'[eInFlight'[q]].epoch = eEpoch'
      BY DEF Caches!InFlightIsPending
    <3>1. CASE q # "mailbox"
      <4>1. eInFlight'[q] = eInFlight[q] /\ q \notin Caches!Settings
        BY <1>d, <2>g, <3>1
      <4>2. eInFlight[q] \in Caches!PendingLoads(q) /\ eInFlight[q] \in Calls
            /\ eCalls'[eInFlight[q]] = eCalls[eInFlight[q]]
        BY <1>2, <1>s, <2>a, <4>1 DEF Caches!InFlightIsPending, Caches!TypeOK
      <4> QED BY <4>1, <4>2 DEF Caches!PendingLoads, Caches!Pending
    <3>2. CASE q = "mailbox"
      BY <2>0, <2>a, <2>g, <3>2 DEF Caches!PendingLoads, Caches!Pending
    <3> QED BY <3>1, <3>2
  <2>3. MailboxSound'
    BY <1>e, <2>0, <2>a, <2>f DEF MailboxSound, MailboxLoads, Caches!PendingLoads, Caches!Pending
  <2>4. LoadsSingle'
    <3>1. \A q, e : e \in Calls /\ Current(e, q)' => e = d /\ q = "mailbox"
      BY <2>0, <2>a, <2>f DEF Current
    <3> QED BY <1>b, <2>a, <2>g, <3>1 DEF LoadsSingle
  <2> QED BY <1>c, <2>a, <2>1, <2>2, <2>3, <2>4
<1> QED BY <1>0, <1>1, <1>2

\* The session changes: nothing under way is of the new epoch.
LEMMA SessionKeeps ==
    ASSUME CachesInv, NEW t \in Tenants \cup {NoTenant}, Caches!ChangeSession(t)
    PROVE  CachesInv'
<1> USE DEF CachesInv
<1> DEFINE both == {"settings", "catalog"}
<1>0. /\ eSession' = t /\ eEpoch' = eEpoch + 1
      /\ eValue' = Caches!ClearedValue(both) /\ eLoaded' = Caches!ClearedLoaded(both)
      /\ eInFlight' = Caches!ClearedInFlight(both)
      /\ eLoadError' = {} /\ eWritten' = [r \in Resources |-> 0]
      /\ UNCHANGED <<eCalls, eServer, eFailures>> /\ eEpoch \in Nat
  BY DEF Caches!ChangeSession, Caches!TypeOK
<1>1. \A q \in Resources : eInFlight'[q] = NoCall
  BY <1>0 DEF Caches!ClearedInFlight, Caches!StoreOf
<1>2. Caches!TypeOK'
  BY <1>0, Cleared DEF Caches!TypeOK
<1>3. Caches!InFlightIsPending'
  BY <1>1 DEF Caches!InFlightIsPending
<1>4. Room'
  <2>1. \A s \in Tenants, q \in Resources :
           (Caches!UnansweredWrites(s, q))' \subseteq Caches!UnansweredWrites(s, q)
    BY <1>0 DEF Caches!UnansweredWrites
  <2> QED BY <1>0, <2>1, RoomKeeps
<1>5. \A e \in Calls : Caches!Pending(e) =>
         eCalls[e].epoch \in Nat /\ eCalls[e].epoch <= eEpoch /\ eCalls[e].epoch # eEpoch'
  BY <1>0, CallTyped DEF CallsSound, Caches!Requests
<1>6. CallsSound'
  BY <1>0, <1>5 DEF CallsSound, Caches!Pending
<1>7. WrittenSound'
  BY <1>0 DEF WrittenSound, Caches!TypeOK
<1>8. MailboxSound'
  <2>1. Caches!MailboxReadsItsWrites'
    BY <1>0, Cleared, CatalogApart DEF Caches!MailboxReadsItsWrites
  <2> QED BY <1>0, <1>5, <2>1 DEF MailboxSound, MailboxLoads, Caches!PendingLoads, Caches!Pending
<1>9. LoadsSingle'
  BY <1>0, <1>5 DEF LoadsSingle, NoneFailed, Current, Caches!Pending
<1> QED BY <1>2, <1>3, <1>4, <1>6, <1>7, <1>8, <1>9

\* At first nothing is cached and nothing is under way.
LEMMA CachesInit ==
    ASSUME Caches!Init
    PROVE  CachesInv
<1>0. /\ \A c \in Calls : eCalls[c] = Caches!NoRequest
      /\ \A t \in Tenants, r \in Resources : eServer[t][r] = 0
      /\ \A r \in Resources : eWritten[r] = 0 /\ ~eLoaded[r] /\ eInFlight[r] = NoCall
  BY DEF Caches!Init
<1>1. Caches!TypeOK
  BY NoneTyped DEF Caches!Init, Caches!TypeOK
<1>2. Room
  <2>1. \A t \in Tenants, r \in Resources : Caches!UnansweredWrites(t, r) = {}
    BY <1>0, NoneTyped DEF Caches!UnansweredWrites
  <2>2. \A t \in Tenants, r \in Resources : Cardinality(Caches!UnansweredWrites(t, r)) = 0
    BY <2>1, FS_EmptySet
  <2>3. \A t \in Tenants, r \in Resources :
           eServer[t][r] + Cardinality(Caches!UnansweredWrites(t, r)) <= MaxVersion
    BY <1>0, <2>2
  <2> QED BY <2>3 DEF Room
<1>3. CallsSound
  BY <1>0, NoneTyped DEF CallsSound, Caches!Pending
<1>4. WrittenSound
  BY <1>0 DEF WrittenSound
<1>5. Caches!InFlightIsPending /\ MailboxSound /\ LoadsSingle
  BY <1>0, NoneTyped DEF Caches!InFlightIsPending, MailboxSound, MailboxLoads,
     Caches!MailboxReadsItsWrites, LoadsSingle, NoneFailed, Current, Caches!PendingLoads,
     Caches!Pending
<1> QED BY <1>1, <1>2, <1>3, <1>4, <1>5 DEF CachesInv

\* One step keeps the invariant.
LEMMA CachesStep ==
    ASSUME CachesInv, [Caches!Next]_(Caches!vars)
    PROVE  CachesInv'
<1>1. ASSUME NEW c \in Calls, NEW d \in Calls, Caches!FinishWrite(c, d)
      PROVE  CachesInv'
  <2>1. /\ eCalls[c].op = "write" /\ eCalls[c].phase = "answered"
        /\ eWritten' = Caches!Confirmed(c) /\ UNCHANGED <<eSession, eServer, eFailures>>
        /\ \/ Caches!FinishSettingsWrite(c)
           \/ Caches!FinishCatalogWrite(c, d)
           \/ Caches!FinishMailboxWrite(c, d)
    BY <1>1 DEF Caches!FinishWrite
  <2> QED BY <2>1, SettingsWriteKeeps, CatalogWriteKeeps, MailboxWriteKeeps
<1>2. CASE Caches!Next
  BY <1>1, <1>2, SessionKeeps, LoadKeeps, WriteKeeps, AnswerKeeps, FailKeeps, DropKeeps,
     FinishLoadKeeps, FailLoadKeeps, FailWriteKeeps DEF Caches!Next
<1>3. CASE UNCHANGED Caches!vars
  BY <1>3 DEF Caches!vars, CachesInv, Caches!TypeOK, Caches!InFlightIsPending, Room, CallsSound,
     WrittenSound, MailboxSound, MailboxLoads, Caches!MailboxReadsItsWrites, LoadsSingle,
     NoneFailed, Current, Caches!PendingLoads, Caches!Pending, Caches!UnansweredWrites
<1> QED BY <1>2, <1>3

\* A step that publishes the answer of a load of a setting does it in the session
\* that the load was sent for.
Published ==
    \A c \in Calls :
        /\ eCalls[c].op = "load" /\ eCalls[c].resource \in Caches!Settings
        /\ eCalls[c].phase = "answered" /\ eCalls'[c] = Caches!NoRequest
        /\ eValue' # eValue
        => eValue'[eCalls[c].resource].tenant = eSession

LEMMA CachesPublish ==
    ASSUME CachesInv, Caches!Next
    PROVE  Published
<1> SUFFICES ASSUME NEW c \in Calls,
                    eCalls[c].op = "load", eCalls[c].resource \in Caches!Settings,
                    eCalls[c].phase = "answered", eCalls'[c] = Caches!NoRequest,
                    eValue' # eValue
             PROVE  eValue'[eCalls[c].resource].tenant = eSession
  BY DEF Published
<1> USE DEF CachesInv
<1>0. Caches!Pending(c) /\ eCalls[c] # Caches!NoRequest /\ eCalls[c] \in Caches!Requests
  BY CallTyped
<1>1. ASSUME NEW d \in Calls, Caches!FinishLoad(d)
      PROVE  eValue'[eCalls[c].resource].tenant = eSession
  <2>1. d = c
    BY <1>0, <1>1, DoneKeeps DEF Caches!FinishLoad
  <2>2. ~Caches!Stale(c) /\ eValue' = [eValue EXCEPT ![eCalls[c].resource] = eCalls[c].result]
    BY <1>1, <2>1 DEF Caches!FinishLoad
  <2>3. eValue'[eCalls[c].resource] = eCalls[c].result
    BY <1>0, <2>2 DEF Caches!TypeOK, Caches!Requests
  <2> QED BY <1>0, <2>2, <2>3 DEF Caches!Stale, CallsSound
<1>2. ASSUME NEW d \in Calls, Caches!FailLoad(d) \/ (\E e \in Calls : Caches!FinishWrite(d, e))
      PROVE  FALSE
  <2>1. d # c /\ eCalls' \in [Calls -> Caches!Requests \cup {Caches!NoRequest}]
        /\ (eCalls'[c] = eCalls[c] \/ eCalls'[c].phase = "sent")
    <3>1. CASE Caches!FailLoad(d)
      BY <1>0, <3>1, DoneKeeps DEF Caches!FailLoad
    <3>2. ASSUME NEW e \in Calls, Caches!FinishWrite(d, e)
          PROVE  d # c /\ (eCalls'[c] = eCalls[c])
      <4>1. d # c /\ eCalls[d].op = "write"
        BY <3>2 DEF Caches!FinishWrite
      <4>2. CASE Caches!Done(d)
        BY <4>1, <4>2 DEF Caches!Done, Caches!TypeOK
      <4>3. CASE ~Caches!Done(d)
        <5>1. (e = d \/ ~Caches!Pending(e)) /\ c # e
          BY <1>0, <3>2, <4>1, <4>3 DEF Caches!FinishWrite, Caches!FinishSettingsWrite,
             Caches!FinishCatalogWrite, Caches!FinishMailboxWrite
        <5>2. \E x : eCalls' = [eCalls EXCEPT ![d] = Caches!NoRequest, ![e] = x]
          BY <3>2, <4>3 DEF Caches!FinishWrite, Caches!FinishSettingsWrite,
             Caches!FinishCatalogWrite, Caches!FinishMailboxWrite
        <5> QED BY <4>1, <5>1, <5>2 DEF Caches!TypeOK
      <4> QED BY <4>2, <4>3
    <3> QED BY <1>2, <3>1, <3>2, CachesStep DEF Caches!TypeOK
  <2> QED BY <1>0, <2>1, NoneTyped
<1>3. ASSUME NEW t, Caches!ChangeSession(t) PROVE FALSE
  BY <1>0, <1>3 DEF Caches!ChangeSession
<1> QED
  BY <1>1, <1>2, <1>3 DEF Caches!Next, Caches!Load, Caches!Write, Caches!Answer, Caches!Fail,
     Caches!DropStaleLoad, Caches!FailWrite

\* A step of the composition is a step of the caches or leaves them alone.
LEMMA CachesRun == [MCNext]_MCvars => [Caches!Next]_(Caches!vars)
BY DEF MCNext, MCvars, eVars, Caches!vars

\* What the caches promise at any time follows from the invariant.
LEMMA CachesPromise ==
    ASSUME CachesInv
    PROVE  /\ Caches!TypeOK /\ Caches!InFlightIsPending
           /\ Caches!MailboxReadsItsWrites
           /\ (eFailures = 0 => Caches!OneLoadPerResource)
BY DEF CachesInv, MailboxSound, LoadsSingle, Current, Caches!OneLoadPerResource,
       Caches!PendingLoads, Caches!Pending

\* For any tenants, settings, lists and requests, with requests that fail and
\* sessions that change under them: the browser's caches never hold a slot that
\* nobody will empty, show no mailbox older than the last write, ask once for a
\* setting, and publish an answer only in the session it was asked for.
THEOREM CachesAlwaysSound == MCSpec => CachesSound
<1>1. MCInit => CachesInv
  BY CachesInit DEF MCInit
<1>2. CachesInv /\ [MCNext]_MCvars => CachesInv'
  BY CachesRun, CachesStep
<1>3. CachesInv /\ [MCNext]_MCvars => [Published]_(Caches!vars)
  BY CachesRun, CachesPublish
<1>4. CachesInv => /\ Caches!TypeOK /\ Caches!InFlightIsPending
                   /\ Caches!MailboxReadsItsWrites
                   /\ (eFailures = 0 => Caches!OneLoadPerResource)
  BY CachesPromise
<1>5. MCSpec => [](/\ Caches!TypeOK /\ Caches!InFlightIsPending
                   /\ Caches!MailboxReadsItsWrites
                   /\ (eFailures = 0 => Caches!OneLoadPerResource))
  BY <1>1, <1>2, <1>4, PTL DEF MCSpec
<1>6. MCSpec => [][Published]_(Caches!vars)
  BY <1>1, <1>2, <1>3, PTL DEF MCSpec
<1> QED
  BY <1>5, <1>6 DEF CachesSound, Caches!LoadsRespectEpoch, Published

-----------------------------------------------------------------------------
(***************************************************************************)
(* The tour.  TourInv: a load and a tour exclude each other, a session     *)
(* that may not have a tour has neither, a preparation is for the step of  *)
(* a tour that runs, and until a load leaves the question *)
(* about skipping open, no tour runs under the question and every step     *)
(* behind the current one that is not conditional has been seen.           *)
(***************************************************************************)

UiStates == [tour : Tour!Releases \cup {Tour!None}, step : Tour!Steps, running : BOOLEAN,
             ready : BOOLEAN, dialog : BOOLEAN]

PrepSound ==
    tPrep # Tour!None => tPrep = tUi.step /\ tUi.running /\ tUi.tour # Tour!None

Uninvited ==
    /\ tLoad # Tour!NoLoad => tUi.tour = Tour!None
    /\ ~tCan => tLoad = Tour!NoLoad /\ tUi.tour = Tour!None

Questions ==
    ~tCarried => /\ tLoad # Tour!NoLoad => ~tUi.dialog
                 /\ tUi.dialog => ~tUi.running

SeenSound ==
    ~tCarried => /\ Tour!ShownIsFound
                 /\ \A s \in Tour!Steps \ Conditional : s < tUi.step => s \in tSeen

TourInv == Tour!TypeOK /\ PrepSound /\ Uninvited /\ Questions /\ SeenSound

\* What the configuration assumes of the tour.
LEMMA TourParams ==
    /\ R \in Nat \ {0} /\ Length \in Nat \ {0} /\ MaxBeats \in Nat
    /\ Conditional \subseteq 1..Length /\ Demo \in BOOLEAN /\ Upgrades \in BOOLEAN
BY MCAssumption DEF Tour!TourAssumption

\* What is rendered is the new state, except that a step that is to be shown
\* is prepared first.
LEMMA RenderedMeans ==
    ASSUME TourInv, NEW n \in UiStates, Tour!Rendered(n)
    PROVE  /\ tUi' \in UiStates /\ tPrep' \in Tour!Steps \cup {Tour!None} /\ tOld' \subseteq Tour!Steps
           /\ tUi'.tour = n.tour /\ tUi'.step = n.step /\ tUi'.running = n.running
           /\ tUi'.dialog = n.dialog
           /\ \/ /\ n.tour = tUi.tour /\ n.step = tUi.step /\ n.running = tUi.running
                 /\ tUi'.ready = n.ready /\ tPrep' = tPrep
              \/ /\ n.running /\ n.tour # Tour!None
                 /\ ~tUi'.ready /\ tPrep' = n.step
              \/ /\ ~(n.running /\ n.tour # Tour!None)
                 /\ tUi'.ready = n.ready /\ tPrep' = Tour!None
<1>0. /\ tUi \in UiStates /\ tPrep \in Tour!Steps \cup {Tour!None} /\ tOld \subseteq Tour!Steps
  BY DEF TourInv, Tour!TypeOK, UiStates
<1>1. CASE <<n.running, n.step, n.tour>> = <<tUi.running, tUi.step, tUi.tour>>
  BY <1>0, <1>1 DEF Tour!Rendered
<1>2. CASE <<n.running, n.step, n.tour>> # <<tUi.running, tUi.step, tUi.tour>>
  <2> DEFINE go == n.running /\ n.tour # Tour!None
  <2>1. /\ tUi' = [n EXCEPT !.ready = @ /\ ~go]
        /\ tPrep' = IF go THEN n.step ELSE Tour!None
        /\ tOld' = tOld \cup ({tPrep} \ {Tour!None})
    BY <1>2 DEF Tour!Rendered
  <2>2. go \in BOOLEAN /\ n.ready \in BOOLEAN /\ n.step \in Tour!Steps
    BY DEF UiStates
  <2>3. /\ tUi' \in UiStates
        /\ tUi'.tour = n.tour /\ tUi'.step = n.step /\ tUi'.running = n.running
        /\ tUi'.dialog = n.dialog /\ tUi'.ready = (n.ready /\ ~go)
    BY <2>1, <2>2 DEF UiStates
  <2>4. tPrep' \in Tour!Steps \cup {Tour!None} /\ tOld' \subseteq Tour!Steps
    BY <1>0, <2>1, <2>2
  <2> HIDE DEF UiStates
  <2> QED BY <2>1, <2>2, <2>3, <2>4
<1> QED BY <1>1, <1>2

LEMMA FirstStep == 1 \in Tour!Steps
BY TourParams DEF Tour!Steps

\* The empty state is a state.
LEMMA NoUiTyped ==
    /\ Tour!NoUi \in UiStates /\ Tour!NoUi.tour = Tour!None /\ Tour!NoUi.step = 1
    /\ ~Tour!NoUi.running /\ ~Tour!NoUi.ready /\ ~Tour!NoUi.dialog
    /\ \A b \in BOOLEAN :
         LET n == [Tour!NoUi EXCEPT !.dialog = b]
         IN  /\ n \in UiStates /\ n.tour = Tour!None /\ n.step = 1 /\ ~n.running /\ ~n.ready
             /\ n.dialog = b
BY FirstStep DEF Tour!NoUi, UiStates

\* stopTour leaves nothing.
LEMMA StopMeans ==
    ASSUME TourInv, Tour!stopTour
    PROVE  /\ tUi' \in UiStates /\ tOld' \subseteq Tour!Steps /\ tPrep' = Tour!None
           /\ tUi'.tour = Tour!None /\ tUi'.step = 1 /\ ~tUi'.running /\ ~tUi'.dialog
           /\ tLoad' = Tour!NoLoad /\ tLate' \subseteq Tour!Kinds
           /\ tSeen' = {} /\ tCarried' = tCarried
<1>1. /\ tUi' \in UiStates /\ tOld' \subseteq Tour!Steps /\ tPrep' = Tour!None
      /\ tUi'.tour = Tour!None /\ tUi'.step = 1 /\ ~tUi'.running /\ ~tUi'.dialog
  BY RenderedMeans, NoUiTyped DEF Tour!stopTour, TourInv, PrepSound
<1> QED BY <1>1 DEF Tour!stopTour, Tour!Supersede, TourInv, Tour!TypeOK

\* loadTour leaves the question as it is, and remembers it.
LEMMA LoadMeans ==
    ASSUME TourInv, NEW kind \in Tour!Kinds, Tour!loadTour(kind)
    PROVE  /\ tUi' \in UiStates /\ tOld' \subseteq Tour!Steps /\ tPrep' = Tour!None
           /\ tUi'.tour = Tour!None /\ tUi'.step = 1 /\ ~tUi'.running
           /\ tUi'.dialog = tUi.dialog
           /\ tLoad' = kind /\ tLate' \subseteq Tour!Kinds
           /\ tSeen' = {} /\ tCarried' = (tCarried \/ tUi.dialog) /\ tCarried' \in BOOLEAN
<1>0. tUi.dialog \in BOOLEAN /\ tCarried \in BOOLEAN
  BY DEF TourInv, Tour!TypeOK
<1> DEFINE n == [Tour!NoUi EXCEPT !.dialog = tUi.dialog]
<1>1. /\ n \in UiStates /\ n.tour = Tour!None /\ n.step = 1 /\ ~n.running /\ ~n.ready
      /\ n.dialog = tUi.dialog
  BY <1>0, NoUiTyped
<1>2. Tour!Rendered(n)
  BY DEF Tour!loadTour
<1> HIDE DEF n
<1>3. /\ tUi' \in UiStates /\ tOld' \subseteq Tour!Steps /\ tPrep' = Tour!None
      /\ tUi'.tour = Tour!None /\ tUi'.step = 1 /\ ~tUi'.running /\ tUi'.dialog = tUi.dialog
  BY <1>1, <1>2, RenderedMeans DEF TourInv, PrepSound
<1> QED BY <1>0, <1>3 DEF Tour!loadTour, Tour!Supersede, TourInv, Tour!TypeOK

\* The tour is stopped, with a change of who may have one or without.
LEMMA StopKeeps ==
    ASSUME TourInv, Tour!stopTour, tCan' \in BOOLEAN, UNCHANGED <<tAcks, tLatest, tBeats>>,
           tAck' \in {tAck, Tour!NoAck}
    PROVE  TourInv'
<1>1. Tour!TypeOK'
  <2>1. tAck' \in {Tour!NoAck} \cup [stage : {"sent", "insert", "done"}, release : Tour!Releases,
                             status : Tour!Statuses]
    BY DEF TourInv, Tour!TypeOK
  <2> QED BY <2>1, StopMeans DEF TourInv, Tour!TypeOK, UiStates
<1>2. PrepSound' /\ Uninvited' /\ Questions'
  BY StopMeans DEF PrepSound, Uninvited, Questions
<1>3. SeenSound'
  BY StopMeans DEF SeenSound, Tour!ShownIsFound, Tour!Joyride, Tour!Steps
<1> QED BY <1>1, <1>2, <1>3 DEF TourInv

\* A tour is loaded for a session that may have one.
LEMMA LoadTourKeeps ==
    ASSUME TourInv, NEW kind \in Tour!Kinds, Tour!loadTour(kind), tCan' = TRUE,
           UNCHANGED <<tAck, tAcks, tLatest>>, tBeats' \in 0..MaxBeats
    PROVE  TourInv'
<1>1. Tour!TypeOK'
  BY LoadMeans DEF TourInv, Tour!TypeOK, UiStates
<1>2. PrepSound' /\ Uninvited'
  BY LoadMeans DEF PrepSound, Uninvited
<1>3. Questions'
  BY LoadMeans DEF Questions
<1>4. SeenSound'
  BY LoadMeans DEF SeenSound, Tour!ShownIsFound, Tour!Joyride, Tour!Steps
<1> QED BY <1>1, <1>2, <1>3, <1>4 DEF TourInv

\* A release is shown, or there is none to show.
LEMMA LoadAnswerKeeps ==
    ASSUME TourInv, Tour!LoadAnswer
    PROVE  TourInv'
<1>0. /\ tLoad # Tour!NoLoad /\ tLoad' = Tour!NoLoad /\ tUi \in UiStates /\ tUi.tour = Tour!None
      /\ UNCHANGED <<tCan, tLate, tAck, tAcks, tLatest, tSeen, tCarried, tBeats>> /\ tCan
  BY DEF Tour!LoadAnswer, TourInv, Tour!TypeOK, UiStates, Uninvited
<1>1. CASE UNCHANGED <<tUi, tPrep, tOld>>
  BY <1>0, <1>1 DEF TourInv, Tour!TypeOK, PrepSound, Uninvited, Questions, SeenSound,
     Tour!ShownIsFound, Tour!Joyride
<1>2. ASSUME NEW r \in Tour!Offer(tLoad),
             Tour!Rendered([tUi EXCEPT !.tour = r, !.step = 1, !.ready = FALSE, !.running = TRUE])
      PROVE  TourInv'
  <2>1. r \in Tour!Releases /\ r # Tour!None
    <3>1. Tour!Offer(tLoad) \subseteq Tour!Releases
      <4>0. 1 \in Tour!Releases /\ tLatest \in Tour!Releases \cup {Tour!None} /\ tLoad \in Tour!Kinds
        BY <1>0, TourParams DEF TourInv, Tour!TypeOK, Tour!Releases
      <4>1. CASE tLoad = Tour!Unseen
        BY <4>0, <4>1 DEF Tour!Offer, Tour!Unacknowledged
      <4>2. CASE tLoad # Tour!Unseen /\ tLoad = Tour!Latest
        BY <4>0, <4>2 DEF Tour!Offer
      <4>3. CASE tLoad # Tour!Unseen /\ tLoad # Tour!Latest
        <5>1. \E q \in Tour!Releases : tLoad = <<"release", q>>
          BY <4>0, <4>3 DEF Tour!Kinds, Tour!Release
        <5>2. tLoad[2] \in Tour!Releases
          BY <5>1
        <5> QED BY <4>3, <5>2 DEF Tour!Offer
      <4> QED BY <4>1, <4>2, <4>3
    <3> QED BY <1>2, <3>1 DEF Tour!Releases, Tour!None
  <2> DEFINE n == [tUi EXCEPT !.tour = r, !.step = 1, !.ready = FALSE, !.running = TRUE]
  <2>2. n \in UiStates /\ n.tour = r /\ n.step = 1 /\ ~n.ready /\ n.running /\ n.dialog = tUi.dialog
    BY <1>0, <2>1, FirstStep DEF UiStates
  <2> HIDE DEF n
  <2>3. /\ tUi' \in UiStates /\ tOld' \subseteq Tour!Steps /\ tPrep' = 1 /\ tUi'.tour = r
        /\ tUi'.step = 1 /\ tUi'.running /\ ~tUi'.ready /\ tUi'.dialog = tUi.dialog
    <3>1. Tour!Rendered(n)
      BY <1>2 DEF n
    <3> QED BY <1>0, <2>1, <2>2, <3>1, RenderedMeans
  <2>4. Tour!TypeOK'
    BY <1>0, <2>3, TourParams DEF TourInv, Tour!TypeOK, UiStates, Tour!Steps
  <2>5. PrepSound' /\ Uninvited' /\ Questions'
    BY <1>0, <2>1, <2>3 DEF TourInv, PrepSound, Uninvited, Questions
  <2>6. SeenSound'
    BY <2>3 DEF SeenSound, Tour!ShownIsFound, Tour!Joyride, Tour!Steps
  <2> QED BY <2>4, <2>5, <2>6 DEF TourInv
<1> QED BY <1>1, <1>2 DEF Tour!LoadAnswer

\* What changes the state of a tour without ending it: n is the state that is
\* rendered, and nothing of it is shown without a preparation.
LEMMA MoveKeeps ==
    ASSUME TourInv, NEW n \in UiStates, Tour!Rendered(n), tUi.tour # Tour!None, n.tour = tUi.tour,
           UNCHANGED <<tCan, tLoad, tLate, tAck, tAcks, tLatest, tSeen, tCarried, tBeats>>,
           ~tCarried /\ n.dialog => ~n.running,
           ~tCarried /\ n.ready /\ n.running => n.running # tUi.running,
           ~tCarried => \A s \in Tour!Steps \ Conditional : s < n.step => s \in tSeen
    PROVE  TourInv'
<1>1. Tour!TypeOK'
  BY RenderedMeans DEF TourInv, Tour!TypeOK, UiStates
<1>2. PrepSound'
  BY RenderedMeans DEF TourInv, PrepSound
<1>3. Uninvited' /\ Questions'
  BY RenderedMeans DEF TourInv, Uninvited, Questions
<1>4. SeenSound'
  <2>1. tUi'.step = n.step
    BY RenderedMeans
  <2>2. ASSUME ~tCarried
        PROVE  Tour!ShownIsFound'
    <3> SUFFICES ASSUME tUi'.tour # Tour!None, tUi'.running, tUi'.ready
                 PROVE  FALSE
      BY DEF Tour!ShownIsFound, Tour!Joyride
    <3> QED BY <2>2, RenderedMeans DEF UiStates, TourInv, Tour!TypeOK
  <2> QED BY <2>1, <2>2 DEF SeenSound
<1> QED BY <1>1, <1>2, <1>3, <1>4 DEF TourInv

\* The user moves, asks to skip or to learn more, and goes on.
LEMMA UserKeeps ==
    ASSUME TourInv,
           Tour!Move \/ Tour!requestSkip \/ Tour!requestLearnMore \/ Tour!keepTourGoing
    PROVE  TourInv'
<1>0. /\ tUi \in UiStates /\ tUi.step \in Nat
      /\ ~tCarried /\ tUi.running /\ tUi.ready /\ tUi.tour # Tour!None => tUi.step \in tSeen
      /\ ~tCarried => \A s \in Tour!Steps \ Conditional : s < tUi.step => s \in tSeen
      /\ ~tCarried /\ tUi.dialog => ~tUi.running
  BY DEF TourInv, Tour!TypeOK, UiStates, SeenSound, Questions, Tour!ShownIsFound, Tour!Joyride,
     Tour!Steps
<1>1. CASE Tour!Move
  <2>1. PICK s \in Tour!Steps : /\ s = tUi.step + 1 \/ s = tUi.step - 1
                                /\ Tour!Rendered([tUi EXCEPT !.ready = FALSE, !.step = s])
    BY <1>1 DEF Tour!Move
  <2> DEFINE n == [tUi EXCEPT !.ready = FALSE, !.step = s]
  <2>2. /\ n \in UiStates /\ n.tour = tUi.tour /\ n.step = s /\ ~n.ready /\ n.running = tUi.running
        /\ n.dialog = tUi.dialog
    BY <1>0 DEF UiStates
  <2>3. ~tCarried => \A q \in Tour!Steps \ Conditional : q < s => q \in tSeen
    <3>1. tUi.running /\ tUi.ready /\ tUi.tour # Tour!None
      BY <1>1 DEF Tour!Move, Tour!Joyride
    <3>2. \A q \in Tour!Steps : q < s => q < tUi.step \/ q = tUi.step
      BY <1>0, <2>1 DEF Tour!Steps
    <3> QED BY <1>0, <3>1, <3>2
  <2> HIDE DEF n
  <2>4. Tour!Rendered(n)
    BY <2>1 DEF n
  <2>5. /\ tUi.tour # Tour!None
        /\ UNCHANGED <<tCan, tLoad, tLate, tAck, tAcks, tLatest, tSeen, tCarried, tBeats>>
    BY <1>1 DEF Tour!Move, Tour!Joyride
  <2> QED BY <1>0, <2>2, <2>3, <2>4, <2>5, MoveKeeps
<1>2. CASE Tour!requestSkip \/ Tour!requestLearnMore
  <2>1. PICK b \in BOOLEAN :
           Tour!Rendered([tUi EXCEPT !.running = FALSE, !.ready = FALSE, !.dialog = b])
    <3>1. tUi.dialog \in BOOLEAN
          /\ [tUi EXCEPT !.running = FALSE, !.ready = FALSE]
               = [tUi EXCEPT !.running = FALSE, !.ready = FALSE, !.dialog = tUi.dialog]
      BY <1>0 DEF UiStates
    <3>2. CASE Tour!requestSkip
      BY <3>2 DEF Tour!requestSkip
    <3>3. CASE Tour!requestLearnMore
      BY <3>1, <3>3 DEF Tour!requestLearnMore
    <3> QED BY <1>2, <3>2, <3>3
  <2> DEFINE n == [tUi EXCEPT !.running = FALSE, !.ready = FALSE, !.dialog = b]
  <2>2. /\ n \in UiStates /\ n.tour = tUi.tour /\ n.step = tUi.step /\ ~n.ready /\ ~n.running
    BY <1>0 DEF UiStates
  <2> HIDE DEF n
  <2>3. Tour!Rendered(n)
    BY <2>1 DEF n
  <2>4. /\ tUi.tour # Tour!None
        /\ UNCHANGED <<tCan, tLoad, tLate, tAck, tAcks, tLatest, tSeen, tCarried, tBeats>>
    BY <1>2 DEF Tour!requestSkip, Tour!requestLearnMore, Tour!Joyride
  <2> QED BY <1>0, <2>2, <2>3, <2>4, MoveKeeps
<1>3. CASE Tour!keepTourGoing
  <2> DEFINE n == [tUi EXCEPT !.dialog = FALSE, !.ready = TRUE, !.running = TRUE]
  <2>1. /\ n \in UiStates /\ n.tour = tUi.tour /\ n.step = tUi.step /\ n.running /\ ~n.dialog
    BY <1>0 DEF UiStates
  <2>2. Tour!Rendered(n)
    BY <1>3 DEF Tour!keepTourGoing
  <2> HIDE DEF n
  <2>3. /\ tUi.tour # Tour!None /\ tUi.dialog
        /\ UNCHANGED <<tCan, tLoad, tLate, tAck, tAcks, tLatest, tSeen, tCarried, tBeats>>
    BY <1>3 DEF Tour!keepTourGoing, Tour!Asked
  <2> QED BY <1>0, <2>1, <2>2, <2>3, MoveKeeps
<1> QED BY <1>1, <1>2, <1>3

\* The target of the step is found.
LEMMA PrepFoundKeeps ==
    ASSUME TourInv, Tour!PrepFound
    PROVE  TourInv'
<1>0. /\ tPrep # Tour!None /\ tPrep \in Tour!Steps /\ tPrep' = Tour!None
      /\ tPrep = tUi.step /\ tUi.running /\ tUi.tour # Tour!None /\ tUi \in UiStates
      /\ tUi' = [tUi EXCEPT !.ready = TRUE] /\ tSeen' = tSeen \cup {tPrep}
      /\ UNCHANGED <<tCan, tLoad, tLate, tOld, tAck, tAcks, tLatest, tCarried, tBeats>>
  BY DEF Tour!PrepFound, TourInv, PrepSound, Tour!TypeOK, UiStates
<1>1. /\ tUi' \in UiStates /\ tUi'.tour = tUi.tour /\ tUi'.step = tUi.step
      /\ tUi'.running = tUi.running /\ tUi'.dialog = tUi.dialog
  BY <1>0 DEF UiStates
<1>2. Tour!TypeOK'
  BY <1>0, <1>1 DEF TourInv, Tour!TypeOK, UiStates
<1>3. PrepSound' /\ Uninvited' /\ Questions'
  BY <1>0, <1>1 DEF TourInv, PrepSound, Uninvited, Questions
<1>4. SeenSound'
  BY <1>0, <1>1 DEF TourInv, SeenSound, Tour!ShownIsFound
<1> QED BY <1>2, <1>3, <1>4 DEF TourInv

\* The target is missing: the tour goes on after a conditional step, or stops.
LEMMA PrepMissingKeeps ==
    ASSUME TourInv, Tour!PrepMissing
    PROVE  TourInv'
<1>0. /\ tPrep # Tour!None /\ tPrep = tUi.step /\ tUi.running /\ tUi.tour # Tour!None
      /\ tUi \in UiStates /\ tPrep \in Tour!Steps
      /\ UNCHANGED <<tCan, tAck, tAcks, tLatest, tBeats>> /\ tCan \in BOOLEAN
      /\ ~tCarried => \A s \in Tour!Steps \ Conditional : s < tUi.step => s \in tSeen
      /\ ~tCarried /\ tUi.dialog => ~tUi.running
  BY DEF Tour!PrepMissing, TourInv, PrepSound, Tour!TypeOK, UiStates, SeenSound, Questions
<1>1. CASE Tour!stopTour
  BY <1>0, <1>1, StopKeeps
<1>2. CASE /\ tPrep \in Conditional /\ tPrep < Length
           /\ Tour!Rendered([tUi EXCEPT !.step = @ + 1])
           /\ UNCHANGED <<tLoad, tLate, tSeen, tCarried>>
  <2> DEFINE n == [tUi EXCEPT !.step = @ + 1]
  <2>1. tUi.step + 1 \in Tour!Steps
    BY <1>0, <1>2, TourParams DEF Tour!Steps
  <2>2. /\ n \in UiStates /\ n.tour = tUi.tour /\ n.step = tUi.step + 1
        /\ n.running = tUi.running /\ n.dialog = tUi.dialog
    BY <1>0, <2>1 DEF UiStates
  <2>3. Tour!Rendered(n)
    BY <1>2
  <2> HIDE DEF n
  <2>4. /\ tUi' \in UiStates /\ tPrep' = n.step /\ tOld' \subseteq Tour!Steps /\ ~tUi'.ready
        /\ tUi'.tour = n.tour /\ tUi'.step = n.step /\ tUi'.running = n.running
        /\ tUi'.dialog = n.dialog
    <3>1. n.step # tUi.step /\ n.running /\ n.tour # Tour!None
      BY <1>0, <2>2 DEF Tour!Steps
    <3> QED BY <2>2, <2>3, <3>1, RenderedMeans
  <2>5. ~tCarried => \A s \in Tour!Steps \ Conditional : s < n.step => s \in tSeen
    <3>1. \A s \in Tour!Steps : s < n.step => s < tUi.step \/ s = tUi.step
      BY <1>0, <2>2 DEF Tour!Steps
    <3> QED BY <1>0, <1>2, <3>1
  <2>6. Tour!TypeOK'
    BY <1>0, <1>2, <2>1, <2>2, <2>4 DEF TourInv, Tour!TypeOK, UiStates
  <2>7. PrepSound' /\ Uninvited' /\ Questions'
    BY <1>0, <1>2, <2>2, <2>4 DEF TourInv, PrepSound, Uninvited, Questions
  <2>8. SeenSound'
    BY <1>2, <2>4, <2>5 DEF SeenSound, Tour!ShownIsFound, Tour!Joyride
  <2> QED BY <2>6, <2>7, <2>8 DEF TourInv
<1> QED BY <1>1, <1>2 DEF Tour!PrepMissing

\* The question is closed, and what was superseded ends.
LEMMA SmallKeeps ==
    ASSUME TourInv,
           \/ Tour!Dismiss
           \/ \E kind \in Tour!Kinds : Tour!LateAnswer(kind)
           \/ \E s \in Tour!Steps : Tour!OldPrepEnds(s)
    PROVE  TourInv'
<1>1. CASE Tour!Dismiss
  <2>1. /\ tUi' = [tUi EXCEPT !.dialog = FALSE] /\ tUi \in UiStates
        /\ UNCHANGED <<tCan, tLoad, tLate, tPrep, tOld, tAck, tAcks, tLatest, tSeen, tCarried, tBeats>>
    BY <1>1 DEF Tour!Dismiss, TourInv, Tour!TypeOK, UiStates
  <2>2. /\ tUi' \in UiStates /\ tUi'.tour = tUi.tour /\ tUi'.step = tUi.step
        /\ tUi'.running = tUi.running /\ tUi'.ready = tUi.ready /\ ~tUi'.dialog
    BY <2>1 DEF UiStates
  <2>3. Tour!TypeOK'
    BY <2>1, <2>2 DEF TourInv, Tour!TypeOK, UiStates
  <2> QED BY <2>1, <2>2, <2>3 DEF TourInv, PrepSound, Uninvited, Questions, SeenSound,
             Tour!ShownIsFound, Tour!Joyride
<1>2. CASE \/ \E kind \in Tour!Kinds : Tour!LateAnswer(kind)
           \/ \E s \in Tour!Steps : Tour!OldPrepEnds(s)
  <2>1. /\ tLate' \subseteq tLate /\ tOld' \subseteq tOld
        /\ UNCHANGED <<tCan, tUi, tLoad, tPrep, tAck, tAcks, tLatest, tSeen, tCarried, tBeats>>
    BY <1>2 DEF Tour!LateAnswer, Tour!OldPrepEnds
  <2> QED BY <2>1 DEF TourInv, Tour!TypeOK, PrepSound, Uninvited, Questions, SeenSound,
             Tour!ShownIsFound, Tour!Joyride
<1> QED BY <1>1, <1>2

\* Acknowledgements leave the page as it is, until the last one is answered.
LEMMA AcksKeep ==
    ASSUME TourInv,
           \/ Tour!acknowledge \/ Tour!AckRead \/ Tour!AckInsert \/ Tour!AckFails
           \/ \E r \in Tour!Releases, status \in Tour!Statuses : Tour!OtherTab(r, status)
    PROVE  TourInv'
<1> DEFINE Sent == [stage : {"sent", "insert", "done"}, release : Tour!Releases,
                    status : Tour!Statuses]
<1>0. /\ UNCHANGED <<tCan, tUi, tLoad, tLate, tPrep, tOld, tSeen, tCarried, tBeats>>
      /\ tAck \in {Tour!NoAck} \cup Sent /\ tUi.tour \in Tour!Releases \cup {Tour!None}
      /\ tAcks \in [Tour!Releases -> Tour!Statuses \cup {"none"}]
      /\ tLatest \in Tour!Releases \cup {Tour!None}
  BY DEF TourInv, Tour!TypeOK, Tour!acknowledge, Tour!AckRead, Tour!AckInsert, Tour!AckFails,
     Tour!OtherTab
<1>a. tAck.stage \in {"sent", "insert"} => tAck \in Sent
  BY <1>0 DEF Tour!NoAck
<1>1. /\ tAck' \in {Tour!NoAck} \cup Sent
      /\ tAcks' \in [Tour!Releases -> Tour!Statuses \cup {"none"}]
      /\ tLatest' \in Tour!Releases \cup {Tour!None}
  <2>1. CASE Tour!acknowledge
    BY <1>0, <2>1 DEF Tour!acknowledge, Tour!Write, Tour!Joyride, Tour!Asked
  <2>2. CASE Tour!AckRead
    BY <1>0, <1>a, <2>2 DEF Tour!AckRead
  <2>3. CASE Tour!AckInsert
    <3>1. tAck \in Sent /\ tAck.release \in Tour!Releases /\ tAck.status \in Tour!Statuses
      BY <1>a, <2>3 DEF Tour!AckInsert
    <3>2. tAck' \in Sent
      BY <3>1, <2>3 DEF Tour!AckInsert
    <3> QED BY <1>0, <2>3, <3>1, <3>2 DEF Tour!AckInsert, Tour!Write
  <2>4. CASE Tour!AckFails
    BY <1>0, <2>4 DEF Tour!AckFails
  <2>5. CASE \E r \in Tour!Releases, status \in Tour!Statuses : Tour!OtherTab(r, status)
    BY <1>0, <2>5 DEF Tour!OtherTab, Tour!Write
  <2> QED BY <2>1, <2>2, <2>3, <2>4, <2>5
<1>2. Tour!TypeOK'
  BY <1>0, <1>1 DEF TourInv, Tour!TypeOK
<1> QED BY <1>0, <1>2 DEF TourInv, PrepSound, Uninvited, Questions, SeenSound,
           Tour!ShownIsFound, Tour!Joyride

\* One step keeps the invariant.
LEMMA TourStep ==
    ASSUME TourInv, [Tour!Next]_(Tour!vars)
    PROVE  TourInv'
<1>0. tCan \in BOOLEAN /\ tBeats \in 0..MaxBeats /\ tUi.tour \in Tour!Releases \cup {Tour!None}
  BY DEF TourInv, Tour!TypeOK
<1>1. CASE Tour!CanRunChanges
  <2>1. /\ UNCHANGED <<tAck, tAcks, tLatest, tBeats>> /\ tCan' = ~tCan
        /\ IF tCan THEN Tour!stopTour ELSE Tour!loadTour(Tour!Unseen)
    BY <1>1 DEF Tour!CanRunChanges
  <2>2. CASE tCan
    BY <1>0, <2>1, <2>2, StopKeeps
  <2>3. CASE ~tCan
    BY <1>0, <2>1, <2>3, LoadTourKeeps DEF Tour!Kinds
  <2> QED BY <2>2, <2>3
<1>2. CASE Tour!setTenantPlan \/ Tour!Heartbeat \/ Tour!handleReplay
  <2>1. PICK kind \in Tour!Kinds : Tour!loadTour(kind)
    <3>1. CASE Tour!setTenantPlan \/ Tour!Heartbeat
      BY <3>1 DEF Tour!setTenantPlan, Tour!Heartbeat, Tour!Kinds
    <3>2. CASE Tour!handleReplay
      <4>1. Tour!Latest \in Tour!Kinds
            /\ (tUi.tour # Tour!None => Tour!Release(tUi.tour) \in Tour!Kinds)
        BY <1>0 DEF Tour!Kinds
      <4>2. Tour!loadTour(IF tUi.tour = Tour!None THEN Tour!Latest ELSE Tour!Release(tUi.tour))
        BY <3>2 DEF Tour!handleReplay
      <4> QED BY <4>1, <4>2
    <3> QED BY <1>2, <3>1, <3>2
  <2>2. tCan' = TRUE /\ UNCHANGED <<tAck, tAcks, tLatest>>
    BY <1>0, <1>2 DEF Tour!setTenantPlan, Tour!Heartbeat, Tour!handleReplay
  <2>3. tBeats' \in 0..MaxBeats
    BY <1>0, <1>2, TourParams DEF Tour!setTenantPlan, Tour!Heartbeat, Tour!handleReplay
  <2> QED BY <2>1, <2>2, <2>3, LoadTourKeeps
<1>3. CASE Tour!JoyrideFails \/ Tour!AckAnswer
  BY <1>0, <1>3, StopKeeps DEF Tour!JoyrideFails, Tour!AckAnswer
<1>4. CASE UNCHANGED Tour!vars
  BY <1>4 DEF Tour!vars, TourInv, Tour!TypeOK, PrepSound, Uninvited, Questions, SeenSound,
     Tour!ShownIsFound, Tour!Joyride
<1> QED
  BY <1>1, <1>2, <1>3, <1>4, LoadAnswerKeeps, PrepFoundKeeps, PrepMissingKeeps, UserKeeps,
     SmallKeeps, AcksKeep DEF Tour!Next

\* Who is recorded as having completed the tour has seen it.
SeesAll ==
    tAck = Tour!NoAck /\ tAck' # Tour!NoAck /\ tAck'.status = "completed" /\ ~tCarried
        => Tour!Steps \ Conditional \subseteq tSeen

\* An acknowledgement of a tenant is not changed.
KeepsAcks ==
    ~Demo => \A r \in Tour!Releases : tAcks[r] # "none" => tAcks'[r] = tAcks[r]

LEMMA TourActs ==
    ASSUME TourInv, Tour!Next
    PROVE  SeesAll /\ KeepsAcks
<1>1. SeesAll
  <2> SUFFICES ASSUME tAck = Tour!NoAck, tAck' # Tour!NoAck, tAck'.status = "completed", ~tCarried
               PROVE  Tour!Steps \ Conditional \subseteq tSeen
    BY DEF SeesAll
  <2>1. Tour!acknowledge
    BY DEF Tour!Next, Tour!NoAck, Tour!LoadAnswer, Tour!CanRunChanges, Tour!setTenantPlan,
       Tour!Heartbeat, Tour!handleReplay, Tour!LateAnswer, Tour!PrepFound, Tour!PrepMissing,
       Tour!Move, Tour!JoyrideFails, Tour!OldPrepEnds, Tour!requestSkip, Tour!requestLearnMore,
       Tour!keepTourGoing, Tour!Dismiss, Tour!AckRead, Tour!AckInsert, Tour!AckAnswer,
       Tour!AckFails, Tour!OtherTab
  <2>2. Tour!Joyride /\ tUi.step = Length
    BY <2>1 DEF Tour!acknowledge
  <2>3. \A s \in Tour!Steps : s < tUi.step \/ s = tUi.step
    BY <2>2, TourParams DEF Tour!Steps
  <2> QED BY <2>2, <2>3 DEF TourInv, SeenSound, Tour!ShownIsFound
<1>2. KeepsAcks
  <2>1. tAcks \in [Tour!Releases -> Tour!Statuses \cup {"none"}]
    BY DEF TourInv, Tour!TypeOK
  <2> QED
    BY <2>1 DEF KeepsAcks, Tour!Write, Tour!acknowledge,
       Tour!Next, Tour!LoadAnswer, Tour!CanRunChanges, Tour!setTenantPlan,
       Tour!Heartbeat, Tour!handleReplay, Tour!LateAnswer, Tour!PrepFound, Tour!PrepMissing,
       Tour!Move, Tour!JoyrideFails, Tour!OldPrepEnds, Tour!requestSkip, Tour!requestLearnMore,
       Tour!keepTourGoing, Tour!Dismiss, Tour!AckRead, Tour!AckInsert, Tour!AckAnswer,
       Tour!AckFails, Tour!OtherTab
<1> QED BY <1>1, <1>2

\* At first the unseen tour is asked for.
LEMMA TourInit ==
    ASSUME Tour!Init
    PROVE  TourInv
<1>1. Tour!TypeOK
  <2>1. tUi \in UiStates
    BY NoUiTyped DEF Tour!Init
  <2>2. tLoad \in Tour!Kinds /\ tBeats \in 0..MaxBeats
    BY TourParams DEF Tour!Init, Tour!Kinds
  <2> QED BY <2>1, <2>2 DEF Tour!Init, Tour!TypeOK, UiStates
<1> QED
  BY <1>1, NoUiTyped DEF Tour!Init, TourInv, PrepSound, Uninvited, Questions, SeenSound,
     Tour!ShownIsFound, Tour!Joyride, Tour!Steps

\* A step of the composition is a step of the tour or leaves it alone.
LEMMA TourRuns == [MCNext]_MCvars => [Tour!Next]_(Tour!vars)
BY DEF MCNext, MCvars, tVars, Tour!vars

\* For any releases, steps and conditional steps: a session that may not have a
\* tour has none, a step is shown only when its target was found, nobody is
\* recorded as having completed a tour without having seen it, and an
\* acknowledgement is not changed.
THEOREM TourAlwaysSound == MCSpec => TourSound
<1>1. MCInit => TourInv
  BY TourInit DEF MCInit
<1>2. TourInv /\ [MCNext]_MCvars => TourInv'
  BY TourRuns, TourStep
<1>3. TourInv /\ [MCNext]_MCvars => [SeesAll]_(Tour!vars) /\ [KeepsAcks]_(Tour!vars)
  BY TourRuns, TourActs
<1>4. TourInv => Tour!TypeOK /\ Tour!ShownWasFound /\ Tour!NoTourUninvited
  BY DEF TourInv, PrepSound, Uninvited, SeenSound, Tour!ShownWasFound, Tour!NoTourUninvited
<1>5. MCSpec => [](Tour!TypeOK /\ Tour!ShownWasFound /\ Tour!NoTourUninvited)
  BY <1>1, <1>2, <1>4, PTL DEF MCSpec
<1>6. MCSpec => [][SeesAll]_(Tour!vars) /\ [][KeepsAcks]_(Tour!vars)
  BY <1>1, <1>2, <1>3, PTL DEF MCSpec
<1> QED
  BY <1>5, <1>6 DEF TourSound, Tour!CompletedWasSeen, Tour!Immutable, SeesAll, KeepsAcks

HIDE CachesParams

-----------------------------------------------------------------------------
(***************************************************************************)
(* The lists of the consoles.                                              *)
(***************************************************************************)

\* The ranks of a finite set of numbers are the numbers up to its size.
LEMMA RanksOnto ==
    ASSUME NEW S, S \subseteq Nat, IsFiniteSet(S)
    PROVE  \A i \in 1..Cardinality(S) : \E x \in S : Rank(S, x) = i
<1> DEFINE Below(x) == {y \in S : y <= x}
           n == Cardinality(S)
           f == [x \in S |-> Cardinality(Below(x))]
<1>0. n \in Nat
  BY FS_CardinalityType
<1>1. ASSUME NEW x \in S
      PROVE  /\ IsFiniteSet(Below(x)) /\ Cardinality(Below(x)) \in 1..n
  <2>1. Below(x) \in SUBSET S /\ x \in Below(x)
    OBVIOUS
  <2> HIDE DEF Below
  <2>2. IsFiniteSet(Below(x)) /\ Cardinality(Below(x)) <= n
    BY <2>1, FS_Subset
  <2>3. Cardinality(Below(x)) \in Nat /\ Cardinality(Below(x)) # 0
    BY <2>1, <2>2, FS_CardinalityType, FS_EmptySet
  <2> QED BY <1>0, <2>2, <2>3
<1>2. ASSUME NEW x \in S, NEW y \in S, x < y
      PROVE  Cardinality(Below(x)) < Cardinality(Below(y))
  <2>1. Below(x) \in SUBSET Below(y) /\ Below(x) # Below(y)
    <3>1. y \in Below(y) /\ y \notin Below(x)
      BY <1>2
    <3>2. ASSUME NEW z \in Below(x) PROVE z \in Below(y)
      <4>1. z \in S /\ z <= x
        BY <3>2
      <4>2. z <= y
        BY <1>2, <4>1
      <4> QED BY <4>1, <4>2
    <3> QED BY <3>1, <3>2
  <2>2. IsFiniteSet(Below(y)) /\ Cardinality(Below(y)) \in Nat /\ Cardinality(Below(x)) \in Nat
    BY <1>0, <1>1
  <2> HIDE DEF Below
  <2>3. Cardinality(Below(x)) <= Cardinality(Below(y)) /\ Cardinality(Below(x)) # Cardinality(Below(y))
    BY <2>1, <2>2, FS_Subset
  <2> QED BY <2>2, <2>3
<1>3. f \in Injection(S, 1..n)
  <2>1. f \in [S -> 1..n]
    BY <1>1
  <2>2. ASSUME NEW x \in S, NEW y \in S, f[x] = f[y]
        PROVE  x = y
    <3>1. f[x] = Cardinality(Below(x)) /\ f[y] = Cardinality(Below(y)) /\ f[x] \in Nat
      BY <1>0, <1>1
    <3>2. x < y \/ y < x \/ x = y
      OBVIOUS
    <3> HIDE DEF Below, f
    <3>3. Cardinality(Below(x)) = Cardinality(Below(y)) /\ Cardinality(Below(x)) \in Nat
      BY <2>2, <3>1
    <3>4. CASE x < y
      <4>1. Cardinality(Below(x)) < Cardinality(Below(y))
        BY <1>2, <3>4
      <4> QED BY <3>3, <4>1
    <3>5. CASE y < x
      <4>1. Cardinality(Below(y)) < Cardinality(Below(x))
        BY <1>2, <3>5
      <4> QED BY <3>3, <4>1
    <3> QED BY <3>2, <3>4, <3>5
  <2> HIDE DEF f
  <2> QED BY <2>1, <2>2 DEF Injection, IsInjective
<1>4. IsFiniteSet(1..n) /\ Cardinality(1..n) = n
  <2> HIDE DEF n
  <2> QED BY <1>0, FS_Interval
<1>5. f \in Surjection(S, 1..n)
  <2> HIDE DEF f, n
  <2> QED BY <1>3, <1>4, FS_Injection DEF n
<1>6. \A i \in 1..n : \E x \in S : f[x] = i
  <2> HIDE DEF f
  <2> QED BY <1>5 DEF Surjection
<1>7. \A x \in S : f[x] = Rank(S, x)
  BY DEF Rank
<1> HIDE DEF f
<1> QED BY <1>6, <1>7

\* A list has the members of its set, each at one place.
LEMMA OrderedMeans ==
    ASSUME NEW S, S \subseteq Nat, IsFiniteSet(S)
    PROVE  Ordered(S) \in [1..Cardinality(S) -> S]
<1>1. \A i \in 1..Cardinality(S) : (CHOOSE x \in S : Rank(S, x) = i) \in S
  BY RanksOnto
<1> QED BY <1>1 DEF Ordered

\* Quotients of lengths.
LEMMA Quotient ==
    ASSUME NEW a \in Nat, NEW b \in Nat \ {0}
    PROVE  a \div b \in Nat /\ a \div b <= a /\ (a < b => a \div b = 0)
OBVIOUS

\* A list of identifiers is as long as there are identifiers, at most.
LEMMA ListMeans ==
    ASSUME NEW m \in Nat, NEW S \in SUBSET (1..m)
    PROVE  /\ Ordered(S) \in Seq(1..m) /\ Len(Ordered(S)) \in 0..m
           /\ \A i \in 1..Len(Ordered(S)) : Ordered(S)[i] \in S
<1>1. IsFiniteSet(1..m) /\ Cardinality(1..m) = m
  BY FS_Interval
<1>2. IsFiniteSet(S) /\ Cardinality(S) <= m /\ Cardinality(S) \in Nat
  BY <1>1, FS_Subset, FS_CardinalityType
<1>3. S \subseteq Nat
  OBVIOUS
<1> DEFINE o == Ordered(S)
           k == Cardinality(S)
<1>4. o \in [1..k -> S]
  BY <1>2, <1>3, OrderedMeans
<1> HIDE DEF o, k
<1>5. o \in [1..k -> 1..m] /\ k \in Nat
  BY <1>2, <1>4 DEF k
<1>6. o \in Seq(1..m) /\ Len(o) = k
  BY <1>5
<1> QED BY <1>2, <1>4, <1>6 DEF o, k

\* A part of a list holds members of the list.
LEMMA PartMeans ==
    ASSUME NEW T, NEW s \in Seq(T), NEW a \in Nat, NEW b \in Nat, b <= Len(s)
    PROVE  /\ SubSeq(s, a + 1, b) \in Seq(T)
           /\ \A i \in (a + 1)..b : s[i] \in ToSet(SubSeq(s, a + 1, b))
           /\ a >= b => SubSeq(s, a + 1, b) = <<>>
<1>1. SubSeq(s, a + 1, b) \in Seq(T)
  OBVIOUS
<1>2. \A i \in (a + 1)..b : i - a \in 1..(b - a) /\ s[i] = SubSeq(s, a + 1, b)[i - a]
  OBVIOUS
<1>3. a < b => DOMAIN SubSeq(s, a + 1, b) = 1..(b - a)
  OBVIOUS
<1>4. \A i \in (a + 1)..b : s[i] \in ToSet(SubSeq(s, a + 1, b))
  <2> SUFFICES ASSUME NEW i \in (a + 1)..b
               PROVE  s[i] \in ToSet(SubSeq(s, a + 1, b))
    OBVIOUS
  <2> DEFINE o == SubSeq(s, a + 1, b)
  <2>1. i - a \in DOMAIN o /\ s[i] = o[i - a]
    BY <1>2, <1>3
  <2> HIDE DEF o
  <2>2. s[i] \in ToSet(o)
    BY <2>1 DEF ToSet
  <2> QED BY <2>2 DEF o
<1>5. a >= b => SubSeq(s, a + 1, b) = <<>>
  OBVIOUS
<1> QED BY <1>1, <1>4, <1>5

-----------------------------------------------------------------------------
(***************************************************************************)
(* The console of the administrator.  AdminInv: every section has its own  *)
(* screens, the catalog stays on its first page when everything fits one,  *)
(* a confirmation is about what was selected, the warning of a             *)
(* confirmation is still the last message, and the prompt is that of the   *)
(* screen.                                                                 *)
(***************************************************************************)

Pages == 0..MaxId
ChosenIds == Ids \cup {None}
AdminUi ==
    [screen : Screens, page : Pages, sel : ChosenIds, plan : ChosenIds,
     confirmation : Confirmations, preview : ChosenIds]

ClientScreens ==
    {"menu", "client-select", "client-detail", "client-edit-field", "client-edit-value",
     "client-confirm", "client-create-name", "client-create-phone", "client-create-username",
     "client-create-password", "client-create-confirm"}
CatalogScreens ==
    {"menu", "service-select", "service-delete-select", "plan-select", "plan-delete-select",
     "service-detail", "service-create-name", "service-edit-name", "service-delete-confirm",
     "plan-detail", "plan-create-name", "plan-edit-name", "plan-delete-confirm"}
SectionScreens == IF section = "clients" THEN ClientScreens ELSE CatalogScreens
ConfirmScreens == {"client-confirm", "service-delete-confirm", "plan-delete-confirm"}

Fits == section = "catalog" /\ MaxId <= PageSize

\* What holds of every state the component goes to.
Fine(n) ==
    /\ n \in AdminUi /\ n.screen \in SectionScreens
    /\ Fits => n.page = 0
    /\ n.screen = "client-confirm" => n.sel # None
    /\ n.screen = "service-delete-confirm" =>
         n.confirmation = "service-delete" /\ n.preview = n.sel /\ n.preview # None
    /\ n.screen = "plan-delete-confirm" =>
         n.confirmation = "plan-delete" /\ n.preview = n.plan /\ n.preview # None

Warned ==
    /\ ui.screen = "client-confirm" => prompt.items = <<ui.sel>>
    /\ ui.screen \in {"service-delete-confirm", "plan-delete-confirm"} =>
         prompt.items = <<ui.preview>>

AdminInv ==
    /\ TypeOK /\ Fine(ui)
    /\ ~Beats => Warned
    /\ ~Beats /\ OnePage => PromptMatches

LEMMA AdminParams ==
    ASSUME TypeOK
    PROVE  /\ MaxId \in Nat /\ section \in {"clients", "catalog"} /\ PageSize \in Nat \ {0}
           /\ Beats \in BOOLEAN
BY ConsoleAssumption DEF TypeOK, section, PageSize, Beats

\* The screens, named.
LEMMA ScreensAre == Screens = ClientScreens \cup CatalogScreens
<1>1. ToSet(Creation) = {"client-create-name", "client-create-phone", "client-create-username",
                         "client-create-password", "client-create-confirm"}
  <2>1. DOMAIN Creation = 1..5
    BY DEF Creation
  <2> QED BY <2>1 DEF ToSet, Creation
<1> QED BY <1>1 DEF Screens, Lists, PlanLists, ClientScreens, CatalogScreens

\* What a list shows.
LEMMA EntriesMean ==
    ASSUME TypeOK, NEW n \in AdminUi
    PROVE  /\ Entries(n) \in Seq(Ids) /\ Len(Entries(n)) \in 0..MaxId
           /\ \A i \in 1..Len(Entries(n)) : Entries(n)[i] \in Ids
<1>0. MaxId \in Nat /\ list.rows \in SUBSET (1..MaxId) /\ PlansOf(list, n.sel) \in SUBSET (1..MaxId)
  BY AdminParams DEF TypeOK, Workspaces, PlansOf, Ids
<1>1. CASE n.screen \in Lists
  <2>1. Entries(n) = Ordered(list.rows)
    BY <1>1 DEF Entries
  <2> QED BY <1>0, <2>1, ListMeans DEF Ids
<1>2. CASE n.screen \notin Lists /\ n.screen \in PlanLists
  <2>1. Entries(n) = Ordered(PlansOf(list, n.sel))
    BY <1>2 DEF Entries
  <2> QED BY <1>0, <2>1, ListMeans DEF Ids
<1>3. CASE n.screen \notin Lists /\ n.screen \notin PlanLists
  BY <1>0, <1>3 DEF Entries
<1> QED BY <1>1, <1>2, <1>3

\* A page is a part of the list.
LEMMA PageMeans ==
    ASSUME TypeOK, NEW s \in Seq(Ids), NEW p \in 0..MaxId
    PROVE  /\ Page(s, p) \in Seq(Ids) /\ p * PageSize \in Nat
           /\ s = <<>> => Page(s, p) = <<>>
<1>0. MaxId \in Nat /\ PageSize \in Nat /\ p \in Nat
  BY AdminParams
<1> DEFINE a == p * PageSize
           c == (p + 1) * PageSize
           b == IF Len(s) < c THEN Len(s) ELSE c
<1>1. a \in Nat /\ c \in Nat
  BY <1>0
<1> HIDE DEF a, c
<1>2. b \in Nat /\ b <= Len(s)
  BY <1>1
<1>3. Page(s, p) = SubSeq(s, a + 1, b)
  BY DEF Page, a, c
<1>4. s = <<>> => a >= b
  BY <1>1, <1>2
<1> HIDE DEF b
<1>5. SubSeq(s, a + 1, b) \in Seq(Ids) /\ (a >= b => SubSeq(s, a + 1, b) = <<>>)
  BY <1>1, <1>2, PartMeans
<1> QED BY <1>1, <1>3, <1>4, <1>5 DEF a

\* What is written is a message.
LEMMA TextTyped ==
    ASSUME TypeOK, NEW n, Fine(n), NEW p \in 0..MaxId
    PROVE  /\ Text(n, p) \in [screen : Screens, items : Seq(Ids)]
           /\ n.screen = "client-confirm" => Text(n, p).items = <<n.sel>>
           /\ n.screen \in {"service-delete-confirm", "plan-delete-confirm"} =>
                Text(n, p).items = <<n.preview>>
<1>0. n \in AdminUi /\ n.screen \in Screens /\ n.sel \in Ids \cup {None} /\ n.preview \in Ids \cup {None}
  BY DEF Fine, AdminUi, ChosenIds
<1>1. Page(Entries(n), p) \in Seq(Ids)
  BY <1>0, EntriesMean, PageMeans
<1>2. CASE n.screen = "client-confirm"
  <2>1. n.sel \in Ids
    BY <1>0, <1>2 DEF Fine
  <2>2. Text(n, p) = [screen |-> n.screen, items |-> <<n.sel>>]
    BY <1>2 DEF Text
  <2> QED BY <1>0, <1>2, <2>1, <2>2
<1>3. CASE n.screen \in {"service-delete-confirm", "plan-delete-confirm"}
  <2>1. n.preview \in Ids
    BY <1>0, <1>3 DEF Fine
  <2>2. Text(n, p) = [screen |-> n.screen, items |-> <<n.preview>>]
    BY <1>3 DEF Text
  <2> QED BY <1>0, <1>3, <2>1, <2>2
<1>4. CASE n.screen \notin ConfirmScreens
  <2>1. Text(n, p) = [screen |-> n.screen, items |-> Page(Entries(n), p)]
    BY <1>4 DEF Text, ConfirmScreens
  <2> QED BY <1>0, <1>1, <1>4, <2>1 DEF ConfirmScreens
<1> QED BY <1>2, <1>3, <1>4 DEF ConfirmScreens

\* The scenario stays: what is fine stays fine.
LEMMA FineStays ==
    ASSUME UNCHANGED scenario, Fine(ui')
    PROVE  Fine(ui)'
BY DEF Fine, SectionScreens, Fits, section, PageSize

\* The component goes on to a fine state and writes its page.
LEMMA WritesKeeps ==
    ASSUME AdminInv, NEW n, Fine(n), NEW p \in 0..MaxId, Writes(n, p), OnePage => p = n.page
    PROVE  AdminInv'
<1>0. ui' = n /\ prompt' = Text(n, p) /\ UNCHANGED <<scenario, ws, list>> /\ TypeOK
  BY DEF Writes, AdminInv
<1>1. TypeOK'
  BY <1>0, TextTyped DEF TypeOK, Fine, AdminUi, Pages, ChosenIds
<1>2. Fine(ui)'
  BY <1>0, FineStays
<1>3. Warned'
  BY <1>0, TextTyped DEF Warned
<1>4. ASSUME OnePage' PROVE PromptMatches'
  <2>1. p = n.page
    BY <1>0, <1>4 DEF OnePage, section, PageSize
  <2> QED BY <1>0, <2>1 DEF PromptMatches, Text, Entries, Page, PageSize
<1> QED BY <1>1, <1>2, <1>3, <1>4 DEF AdminInv

LEMMA GoesKeeps ==
    ASSUME AdminInv, NEW n, Fine(n), Goes(n)
    PROVE  AdminInv'
<1>1. n.page \in 0..MaxId
  BY DEF Fine, AdminUi, Pages
<1> QED BY <1>1, WritesKeeps DEF Goes

\* The menu is fine, and its message lists nothing.
LEMMA MenuFine ==
    ASSUME TypeOK
    PROVE  /\ Fine(Menu) /\ Menu \in AdminUi /\ Menu.screen = "menu" /\ Menu.page = 0
           /\ MenuText \in [screen : Screens, items : Seq(Ids)]
           /\ Text(Menu, 0) = MenuText
<1>0. "menu" \in Screens /\ "menu" \in SectionScreens /\ MaxId \in Nat
  BY AdminParams, ScreensAre DEF ClientScreens, CatalogScreens, SectionScreens
<1>1. Menu \in AdminUi
  BY <1>0 DEF Menu, AdminUi, Confirmations, Pages, ChosenIds
<1>2. Menu.screen = "menu" /\ Menu.page = 0
  BY DEF Menu
<1>3. MenuText \in [screen : Screens, items : Seq(Ids)]
  BY <1>0 DEF MenuText
<1>4. Text(Menu, 0) = MenuText
  <2>1. Entries(Menu) = <<>> /\ <<>> \in Seq(Ids) /\ 0 \in 0..MaxId
    BY <1>0, <1>2 DEF Entries, Lists, PlanLists
  <2>2. Page(Entries(Menu), 0) = <<>>
    BY <2>1, PageMeans
  <2> QED BY <1>2, <2>2 DEF Text, MenuText
<1> QED BY <1>0, <1>1, <1>2, <1>3, <1>4 DEF Fine

LEMMA GoMenuKeeps ==
    ASSUME AdminInv, goMenu
    PROVE  AdminInv'
BY MenuFine, GoesKeeps DEF goMenu, AdminInv

\* The menu is written after the lists were loaded.
LEMMA MenuKeeps ==
    ASSUME AdminInv, NEW w \in Workspaces, ws' = w, list' = w, ui' = Menu, prompt' = MenuText,
           UNCHANGED scenario
    PROVE  AdminInv'
<1>0. TypeOK
  BY DEF AdminInv
<1>1. TypeOK'
  BY <1>0, MenuFine DEF TypeOK, AdminUi, Pages, ChosenIds
<1>2. Fine(ui)'
  BY <1>0, MenuFine, FineStays
<1>3. Warned'
  BY <1>0, MenuFine DEF Warned
<1>4. PromptMatches'
  <2>1. (Text(Menu, 0) = MenuText)'
    BY <1>1, MenuFine, PTL
  <2>2. Menu.page = 0
    BY DEF Menu
  <2> QED BY <2>1, <2>2 DEF PromptMatches
<1> QED BY <1>1, <1>2, <1>3, <1>4 DEF AdminInv

\* Nothing changes.
LEMMA StaysKeeps ==
    ASSUME AdminInv, Stays
    PROVE  AdminInv'
<1>1. UNCHANGED <<scenario, ws, list, ui, prompt>>
  BY DEF Stays, vars
<1> QED
  BY <1>1 DEF AdminInv, TypeOK, Fine, SectionScreens, Fits, section, PageSize, Beats, Warned, OnePage,
     PromptMatches, Text, Entries, Page

\* The workspace is changed, or refuses.
LEMMA MutationKeeps ==
    ASSUME AdminInv, NEW known, NEW w, known => w \in Workspaces, Mutation(known, w)
    PROVE  AdminInv'
<1>1. CASE Stays
  BY <1>1, StaysKeeps
<1>2. CASE known /\ completeMutation(w)
  BY <1>2, MenuKeeps DEF completeMutation
<1> QED BY <1>1, <1>2 DEF Mutation

\* What the operations of the workspace make is a workspace.
LEMMA WorkspacesClosed ==
    ASSUME NEW w \in Workspaces, MaxId \in Nat
    PROVE  /\ \A r \in Ids : Without(w, r) \in Workspaces
           /\ \A p \in Ids : WithoutPlan(w, p) \in Workspaces
           /\ \A off \in SUBSET Ids : [w EXCEPT !.off = off] \in Workspaces
           /\ Fresh(w) \in Ids =>
                /\ [w EXCEPT !.rows = @ \cup {Fresh(w)}, !.used = Fresh(w)] \in Workspaces
                /\ \A s \in Ids : [w EXCEPT !.of[Fresh(w)] = s, !.used = Fresh(w)] \in Workspaces
<1>0. /\ w.rows \in SUBSET Ids /\ w.off \in SUBSET Ids /\ w.of \in [Ids -> Ids \cup {None}]
      /\ w.used \in 0..MaxId
  BY DEF Workspaces
<1>1. ASSUME NEW r \in Ids PROVE Without(w, r) \in Workspaces
  <2> DEFINE f == [p \in Ids |-> IF w.of[p] = r THEN None ELSE w.of[p]]
  <2>1. f \in [Ids -> Ids \cup {None}]
    BY <1>0
  <2>2. Without(w, r) = [rows |-> w.rows \ {r}, off |-> w.off \ {r}, used |-> w.used, of |-> f]
    BY DEF Without
  <2> HIDE DEF f
  <2> QED BY <1>0, <2>1, <2>2 DEF Workspaces
<1>2. ASSUME NEW p \in Ids PROVE WithoutPlan(w, p) \in Workspaces
  BY <1>0 DEF WithoutPlan, Workspaces
<1>3. \A off \in SUBSET Ids : [w EXCEPT !.off = off] \in Workspaces
  BY <1>0 DEF Workspaces
<1>4. ASSUME Fresh(w) \in Ids, NEW s \in Ids
      PROVE  [w EXCEPT !.of[Fresh(w)] = s, !.used = Fresh(w)] \in Workspaces
  <2>1. Fresh(w) \in 0..MaxId /\ [w.of EXCEPT ![Fresh(w)] = s] \in [Ids -> Ids \cup {None}]
    BY <1>0, <1>4 DEF Ids
  <2> QED BY <1>0, <2>1 DEF Workspaces
<1>5. ASSUME Fresh(w) \in Ids
      PROVE  [w EXCEPT !.rows = @ \cup {Fresh(w)}, !.used = Fresh(w)] \in Workspaces
  <2>1. Fresh(w) \in 0..MaxId /\ w.rows \cup {Fresh(w)} \in SUBSET Ids
    BY <1>0, <1>5 DEF Ids
  <2> QED BY <1>0, <2>1 DEF Workspaces
<1> QED BY <1>1, <1>2, <1>3, <1>4, <1>5

\* A state on a screen of the section that confirms nothing is fine.
LEMMA PlainFine ==
    ASSUME AdminInv, NEW n \in AdminUi, n.screen \in SectionScreens \ ConfirmScreens,
           n.page \in {0, ui.page}
    PROVE  Fine(n)
BY DEF AdminInv, Fine, ConfirmScreens

\* The section of the screen.
LEMMA SectionOf ==
    ASSUME AdminInv
    PROVE  /\ ui \in AdminUi /\ ui.screen \in SectionScreens /\ SectionScreens \subseteq Screens
           /\ ui.screen \in ClientScreens \ {"menu"} => section = "clients" /\ SectionScreens = ClientScreens
           /\ ui.screen \in CatalogScreens \ {"menu"} => section = "catalog" /\ SectionScreens = CatalogScreens
           /\ section = "clients" => SectionScreens = ClientScreens
           /\ section = "catalog" => SectionScreens = CatalogScreens
<1>1. ui \in AdminUi /\ ui.screen \in SectionScreens /\ section \in {"clients", "catalog"}
  BY AdminParams DEF AdminInv, Fine
<1>2. SectionScreens \subseteq Screens
  BY ScreensAre DEF SectionScreens
<1>3. (ClientScreens \ {"menu"}) \cap (CatalogScreens \ {"menu"}) = {}
  BY DEF ClientScreens, CatalogScreens
<1> QED BY <1>1, <1>2, <1>3 DEF SectionScreens

\* The first page of a screen, the same page, and a state without confirmation.
LEMMA OnFine ==
    ASSUME AdminInv, NEW x \in SectionScreens \ ConfirmScreens
    PROVE  /\ Fine(On(x)) /\ Fine([On(x) EXCEPT !.page = 0])
           /\ Fine([On(x) EXCEPT !.confirmation = "none"])
           /\ Fine([On(x) EXCEPT !.confirmation = "none", !.preview = None])
           /\ \A c \in Ids : /\ Fine([On(x) EXCEPT !.sel = c, !.page = 0])
                             /\ Fine([On(x) EXCEPT !.plan = c, !.page = 0])
<1>0. /\ ui \in AdminUi /\ x \in Screens /\ "none" \in Confirmations
      /\ 0 \in Pages /\ None \in ChosenIds /\ \A c \in Ids : c \in ChosenIds
  BY SectionOf, AdminParams DEF AdminInv, Confirmations, Pages, ChosenIds
<1>1. /\ On(x) \in AdminUi /\ On(x).screen = x /\ On(x).page = ui.page
  BY <1>0 DEF On, AdminUi
<1>2. LET n == [On(x) EXCEPT !.page = 0] IN n \in AdminUi /\ n.screen = x /\ n.page = 0
  BY <1>0, <1>1 DEF AdminUi
<1>3. LET n == [On(x) EXCEPT !.confirmation = "none"]
      IN  n \in AdminUi /\ n.screen = x /\ n.page = ui.page
  BY <1>0, <1>1 DEF AdminUi
<1>4. LET n == [On(x) EXCEPT !.confirmation = "none", !.preview = None]
      IN  n \in AdminUi /\ n.screen = x /\ n.page = ui.page
  BY <1>0, <1>1 DEF AdminUi
<1>5. ASSUME NEW c \in Ids PROVE Fine([On(x) EXCEPT !.sel = c, !.page = 0])
  <2> DEFINE n == [On(x) EXCEPT !.sel = c, !.page = 0]
  <2>1. n \in AdminUi /\ n.screen = x /\ n.page = 0
    BY <1>0, <1>1 DEF AdminUi
  <2> HIDE DEF n
  <2>2. Fine(n)
    BY <2>1, PlainFine
  <2> QED BY <2>2 DEF n
<1>6. ASSUME NEW c \in Ids PROVE Fine([On(x) EXCEPT !.plan = c, !.page = 0])
  <2> DEFINE n == [On(x) EXCEPT !.plan = c, !.page = 0]
  <2>1. n \in AdminUi /\ n.screen = x /\ n.page = 0
    BY <1>0, <1>1 DEF AdminUi
  <2> HIDE DEF n
  <2>2. Fine(n)
    BY <2>1, PlainFine
  <2> QED BY <2>2 DEF n
<1> QED BY <1>1, <1>2, <1>3, <1>4, <1>5, <1>6, PlainFine

\* The questions about a new client are screens of the clients.
LEMMA CreationScreens ==
    /\ Len(Creation) = 5
    /\ \A i \in 1..5 : Creation[i] \in ClientScreens \ (ConfirmScreens \cup {"menu"})
BY DEF Creation, ClientScreens, ConfirmScreens

\* Screens of clients, and of the catalog.
LEMMA ClientSide ==
    ASSUME AdminInv, ui.screen \in ClientScreens \ {"menu"},
           NEW x \in ClientScreens \ ConfirmScreens
    PROVE  x \in SectionScreens \ ConfirmScreens
BY SectionOf

LEMMA CatalogSide ==
    ASSUME AdminInv, ui.screen \in CatalogScreens \ {"menu"},
           NEW x \in CatalogScreens \ ConfirmScreens
    PROVE  x \in SectionScreens \ ConfirmScreens
BY SectionOf

LEMMA UnwindKeeps ==
    ASSUME AdminInv, NEW there, NEW n, Fine(n), Unwind(there, n)
    PROVE  AdminInv'
BY GoesKeeps, GoMenuKeeps DEF Unwind

LEMMA LeaveKeeps ==
    ASSUME AdminInv, Leave
    PROVE  AdminInv'
BY MenuKeeps DEF Leave, AdminInv, TypeOK

\* The list of plans is written with the page the component is on, which is the
\* first one when everything fits one page.
LEMMA PlanListKeeps ==
    ASSUME AdminInv, ui.screen \in CatalogScreens \ {"menu"},
           Writes([On("plan-select") EXCEPT !.page = 0], ui.page)
    PROVE  AdminInv'
<1> DEFINE n == [On("plan-select") EXCEPT !.page = 0]
<1>1. "plan-select" \in SectionScreens \ ConfirmScreens
  BY CatalogSide DEF CatalogScreens, ConfirmScreens
<1>2. Fine(n)
  BY <1>1, OnFine
<1>3. ui.page \in 0..MaxId /\ n.page = 0
  BY SectionOf DEF AdminUi, On, Pages
<1>4. OnePage => ui.page = 0
  BY SectionOf DEF OnePage, AdminInv, Fine, Fits
<1> HIDE DEF n
<1>5. Writes(n, ui.page)
  BY DEF n
<1> QED BY <1>2, <1>3, <1>4, <1>5, WritesKeeps

\* "9".
LEMMA BackKeeps ==
    ASSUME AdminInv, goBack
    PROVE  AdminInv'
<1>1. CASE ui.screen = "menu" /\ Leave
  BY <1>1, LeaveKeeps
<1>2. CASE /\ ui.screen \in Lists
           /\ IF ui.page > 0 THEN Goes([ui EXCEPT !.page = @ - 1]) ELSE goMenu
  <2>1. CASE ui.page > 0 /\ Goes([ui EXCEPT !.page = @ - 1])
    <3> DEFINE n == [ui EXCEPT !.page = @ - 1]
    <3>1. ui \in AdminUi /\ ui.page \in 0..MaxId /\ MaxId \in Nat
      BY SectionOf, AdminParams DEF AdminInv, AdminUi, Pages
    <3>2. ui.page - 1 \in Pages
      BY <2>1, <3>1 DEF Pages
    <3>3. n \in AdminUi /\ n.screen = ui.screen
      BY <3>1, <3>2 DEF AdminUi
    <3>4. ~Fits /\ ui.screen \notin ConfirmScreens /\ ui.screen \in SectionScreens
      BY <1>2, <2>1 DEF AdminInv, Fine, Lists, ConfirmScreens
    <3> HIDE DEF n
    <3>5. Fine(n)
      BY <3>3, <3>4 DEF Fine, ConfirmScreens
    <3> QED BY <2>1, <3>5, GoesKeeps DEF n
  <2> QED BY <1>2, <2>1, GoMenuKeeps
<1>3. CASE ui.screen = "client-detail" /\ Goes([On("client-select") EXCEPT !.page = 0])
  <2>1. "client-select" \in SectionScreens \ ConfirmScreens
    BY <1>3, ClientSide DEF ClientScreens, ConfirmScreens
  <2> QED BY <1>3, <2>1, OnFine, GoesKeeps
<1>4. CASE ui.screen = "client-edit-field" /\ Unwind(selectedRow, On("client-detail"))
  <2>1. "client-detail" \in SectionScreens \ ConfirmScreens
    BY <1>4, ClientSide DEF ClientScreens, ConfirmScreens
  <2> QED BY <1>4, <2>1, OnFine, UnwindKeeps
<1>5. CASE ui.screen = "client-edit-value" /\ Goes(On("client-edit-field"))
  <2>1. "client-edit-field" \in SectionScreens \ ConfirmScreens
    BY <1>5, ClientSide DEF ClientScreens, ConfirmScreens
  <2> QED BY <1>5, <2>1, OnFine, GoesKeeps
<1>6. CASE \E i \in 2..Len(Creation) : ui.screen = Creation[i] /\ Goes(On(Creation[i - 1]))
  <2>1. PICK i \in 2..5 : ui.screen = Creation[i] /\ Goes(On(Creation[i - 1]))
    BY <1>6, CreationScreens
  <2>2. i \in 1..5 /\ i - 1 \in 1..5
    OBVIOUS
  <2>3. Creation[i - 1] \in SectionScreens \ ConfirmScreens
    BY <2>1, <2>2, CreationScreens, ClientSide
  <2> QED BY <2>1, <2>3, OnFine, GoesKeeps
<1>7. CASE /\ ui.screen = "client-confirm"
           /\ Unwind(selectedRow, [On("client-detail") EXCEPT !.confirmation = "none"])
  <2>1. "client-detail" \in SectionScreens \ ConfirmScreens
    BY <1>7, ClientSide DEF ClientScreens, ConfirmScreens
  <2> QED BY <1>7, <2>1, OnFine, UnwindKeeps
<1>8. CASE ui.screen = "service-detail" /\ Goes([On("service-select") EXCEPT !.page = 0])
  <2>1. "service-select" \in SectionScreens \ ConfirmScreens
    BY <1>8, CatalogSide DEF CatalogScreens, ConfirmScreens
  <2> QED BY <1>8, <2>1, OnFine, GoesKeeps
<1>9. CASE /\ ui.screen \in {"service-edit-name", "plan-select", "service-delete-confirm"}
           /\ Unwind(selectedRow, [On("service-detail") EXCEPT !.confirmation = "none",
                                                               !.preview = None])
  <2>1. "service-detail" \in SectionScreens \ ConfirmScreens
    BY <1>9, CatalogSide DEF CatalogScreens, ConfirmScreens
  <2> QED BY <1>9, <2>1, OnFine, UnwindKeeps
<1>10. CASE /\ ui.screen = "plan-detail"
            /\ IF selectedRow THEN Writes([On("plan-select") EXCEPT !.page = 0], ui.page)
                              ELSE goMenu
  <2>1. ui.screen \in CatalogScreens \ {"menu"}
    BY <1>10 DEF CatalogScreens
  <2> QED BY <1>10, <2>1, PlanListKeeps, GoMenuKeeps
<1>11. CASE /\ ui.screen \in {"plan-edit-name", "plan-delete-confirm"}
            /\ Unwind(selectedPlan, [On("plan-detail") EXCEPT !.confirmation = "none",
                                                              !.preview = None])
  <2>1. "plan-detail" \in SectionScreens \ ConfirmScreens
    BY <1>11, CatalogSide DEF CatalogScreens, ConfirmScreens
  <2> QED BY <1>11, <2>1, OnFine, UnwindKeeps
<1>12. CASE ui.screen \in {"plan-delete-select", "plan-create-name"}
              /\ Unwind(selectedRow, On("service-detail"))
  <2>1. "service-detail" \in SectionScreens \ ConfirmScreens
    BY <1>12, CatalogSide DEF CatalogScreens, ConfirmScreens
  <2> QED BY <1>12, <2>1, OnFine, UnwindKeeps
<1>13. CASE goMenu
  BY <1>13, GoMenuKeeps
<1> QED
  BY <1>1, <1>2, <1>3, <1>4, <1>5, <1>6, <1>7, <1>8, <1>9, <1>10, <1>11, <1>12, <1>13 DEF goBack

\* What a number chooses is an identifier.
LEMMA ChosenMeans ==
    ASSUME AdminInv
    PROVE  Chosen \subseteq Ids
<1>1. ui \in AdminUi /\ ui.page \in 0..MaxId /\ TypeOK /\ MaxId \in Nat /\ PageSize \in Nat
  BY SectionOf, AdminParams DEF AdminInv, AdminUi, Pages
<1>2. \A i \in 1..Len(Entries(ui)) : Entries(ui)[i] \in Ids
  BY <1>1, EntriesMean
<1>3. ui.page * PageSize \in Nat
  BY <1>1
<1>4. \A i \in (ui.page * PageSize + 1)..Len(Entries(ui)) : i \in 1..Len(Entries(ui))
  BY <1>3
<1> QED BY <1>2, <1>4 DEF Chosen

\* The last page of a list is one of the pages, and the first when all fits.
LEMMA LastPageMeans ==
    ASSUME AdminInv
    PROVE  /\ LastPage(Entries(ui)) \in 0..MaxId
           /\ Fits => LastPage(Entries(ui)) = 0
<1>1. ui \in AdminUi /\ TypeOK /\ MaxId \in Nat /\ PageSize \in Nat \ {0}
  BY SectionOf, AdminParams DEF AdminInv
<1> DEFINE e == Entries(ui)
<1>2. e \in Seq(Ids) /\ Len(e) \in 0..MaxId
  BY <1>1, EntriesMean
<1> HIDE DEF e
<1>3. CASE e = <<>>
  BY <1>1, <1>3 DEF LastPage, e
<1>4. CASE e # <<>>
  <2>1. Len(e) - 1 \in Nat /\ Len(e) <= MaxId
    BY <1>1, <1>2, <1>4
  <2>2. /\ (Len(e) - 1) \div PageSize \in Nat /\ (Len(e) - 1) \div PageSize <= Len(e) - 1
        /\ (Len(e) - 1 < PageSize => (Len(e) - 1) \div PageSize = 0)
    BY <1>1, <2>1, Quotient
  <2>3. LastPage(e) = (Len(e) - 1) \div PageSize
    BY <1>4 DEF LastPage
  <2>4. LastPage(e) \in 0..MaxId
    BY <1>1, <2>1, <2>2, <2>3
  <2>5. Fits => LastPage(e) = 0
    BY <1>1, <2>1, <2>2, <2>3 DEF Fits
  <2> QED BY <2>4, <2>5 DEF e
<1> QED BY <1>3, <1>4

\* "8".
LEMMA AdvanceKeeps ==
    ASSUME AdminInv, Advance
    PROVE  AdminInv'
<1>1. CASE ui.page < LastPage(Entries(ui)) /\ Goes([ui EXCEPT !.page = @ + 1])
  <2> DEFINE n == [ui EXCEPT !.page = @ + 1]
  <2>1. /\ ui \in AdminUi /\ ui.page \in 0..MaxId /\ MaxId \in Nat /\ ui.screen \in SectionScreens
        /\ Fits => ui.page = 0
    BY SectionOf, AdminParams DEF AdminInv, AdminUi, Pages, Fine
  <2>2. ui.page + 1 \in Pages /\ ~Fits
    BY <1>1, <2>1, LastPageMeans DEF Pages
  <2>3. n \in AdminUi /\ n.screen = ui.screen
    BY <2>1, <2>2 DEF AdminUi
  <2>4. ui.screen \notin ConfirmScreens
    BY DEF Advance, Lists, PlanLists, ConfirmScreens
  <2> HIDE DEF n
  <2>5. Fine(n)
    BY <2>1, <2>2, <2>3, <2>4 DEF Fine, ConfirmScreens
  <2> QED BY <1>1, <2>5, GoesKeeps DEF n
<1> QED BY <1>1, GoMenuKeeps, StaysKeeps DEF Advance

\* The state changes without a message: it shows what it showed.
LEMMA SilentKeeps ==
    ASSUME AdminInv, NEW n, Fine(n), ui' = n, UNCHANGED <<scenario, ws, list, prompt>>,
           n.screen = ui.screen, ui.screen \notin ConfirmScreens, OnePage => n.page = ui.page,
           ui.screen \in PlanLists => n.sel = ui.sel
    PROVE  AdminInv'
<1>1. TypeOK'
  BY DEF AdminInv, TypeOK, Fine, AdminUi, Pages, ChosenIds
<1>2. Fine(ui)'
  BY FineStays
<1>3. Warned'
  BY DEF Warned, ConfirmScreens
<1>4. ASSUME ~Beats', OnePage' PROVE PromptMatches'
  <2>1. n.page = ui.page /\ PromptMatches
    BY <1>4 DEF AdminInv, OnePage, Beats, section, PageSize
  <2>2. Entries(ui)' = Entries(ui)
    BY DEF Entries
  <2>3. Text(ui, ui.page)' = Text(ui, ui.page)
    BY <2>1, <2>2 DEF Text, Page, PageSize, ConfirmScreens
  <2> QED BY <2>1, <2>3 DEF PromptMatches
<1> QED BY <1>1, <1>2, <1>3, <1>4 DEF AdminInv

\* The menu, and the clients.
LEMMA ClientsKeep ==
    ASSUME AdminInv, MenuChoice \/ ClientSelect \/ ClientDetail \/ ClientEdit \/ ClientCreate
    PROVE  AdminInv'
<1>0. /\ TypeOK /\ MaxId \in Nat /\ section \in {"clients", "catalog"} /\ ui \in AdminUi
      /\ ws \in Workspaces /\ list \in Workspaces
      /\ list.rows \subseteq Ids /\ ws.rows \subseteq Ids /\ ws.off \subseteq Ids
  BY SectionOf, AdminParams DEF AdminInv, TypeOK, Workspaces
<1>1. CASE MenuChoice
  <2>1. CASE section = "clients"
    <3>1. "client-select" \in SectionScreens \ ConfirmScreens
          /\ "client-create-name" \in SectionScreens \ ConfirmScreens
      BY <2>1, SectionOf DEF ClientScreens, ConfirmScreens
    <3> QED BY <1>1, <2>1, <3>1, OnFine, GoesKeeps DEF MenuChoice
  <2>2. CASE section = "catalog"
    <3>1. /\ "service-select" \in SectionScreens \ ConfirmScreens
          /\ "service-create-name" \in SectionScreens \ ConfirmScreens
          /\ "service-delete-select" \in SectionScreens \ ConfirmScreens
      BY <2>2, SectionOf DEF CatalogScreens, ConfirmScreens
    <3> QED BY <1>1, <2>2, <3>1, OnFine, GoesKeeps DEF MenuChoice
  <2> QED BY <1>0, <2>1, <2>2
<1>2. CASE ClientSelect
  <2>1. "client-detail" \in SectionScreens \ ConfirmScreens
    BY <1>2, ClientSide DEF ClientSelect, ClientScreens, ConfirmScreens
  <2>2. PICK c \in Chosen : Goes([On("client-detail") EXCEPT !.sel = c, !.page = 0])
    BY <1>2 DEF ClientSelect
  <2> QED BY <2>1, <2>2, ChosenMeans, OnFine, GoesKeeps
<1>3. CASE ClientDetail
  <2>0. ui.screen = "client-detail" /\ "client-edit-field" \in SectionScreens \ ConfirmScreens
        /\ "client-confirm" \in SectionScreens
    BY <1>3, ClientSide, SectionOf DEF ClientDetail, ClientScreens, ConfirmScreens
  <2>1. CASE goMenu
    BY <2>1, GoMenuKeeps
  <2>2. CASE Goes(On("client-edit-field"))
    BY <2>0, <2>2, OnFine, GoesKeeps
  <2>3. CASE selectedRow /\ Goes([On("client-confirm") EXCEPT !.confirmation = "client-deactivate"])
    <3> DEFINE n == [On("client-confirm") EXCEPT !.confirmation = "client-deactivate"]
    <3>1. ui.sel \in Ids /\ ui.sel # None
      BY <1>0, <2>3 DEF selectedRow, Ids, None
    <3>2. n \in AdminUi /\ n.screen = "client-confirm" /\ n.sel = ui.sel /\ n.page = ui.page
      BY <1>0, <2>0, SectionOf DEF AdminUi, On, Confirmations
    <3> HIDE DEF n
    <3>3. Fine(n)
      BY <2>0, <3>1, <3>2 DEF Fine, AdminInv
    <3> QED BY <2>3, <3>3, GoesKeeps DEF n
  <2>4. CASE Mutation(ui.sel \in ws.rows, [ws EXCEPT !.off = @ \ {ui.sel}])
    <3>1. ws.off \ {ui.sel} \in SUBSET Ids
      BY <1>0
    <3>2. [ws EXCEPT !.off = @ \ {ui.sel}] \in Workspaces
      BY <1>0, <3>1, WorkspacesClosed
    <3> QED BY <2>4, <3>2, MutationKeeps
  <2>5. CASE /\ ui.sel \in ws.rows
             /\ Goes([On("client-confirm") EXCEPT !.confirmation = "client-delete",
                                                  !.preview = ui.sel])
    <3> DEFINE n == [On("client-confirm") EXCEPT !.confirmation = "client-delete",
                                                 !.preview = ui.sel]
    <3>1. ui.sel \in Ids /\ ui.sel # None
      BY <1>0, <2>5 DEF Ids, None
    <3>2. n \in AdminUi /\ n.screen = "client-confirm" /\ n.sel = ui.sel /\ n.page = ui.page
      BY <1>0, <2>0, SectionOf DEF AdminUi, On, Confirmations
    <3> HIDE DEF n
    <3>3. Fine(n)
      BY <2>0, <3>1, <3>2 DEF Fine, AdminInv
    <3> QED BY <2>5, <3>3, GoesKeeps DEF n
  <2> QED BY <1>3, <2>1, <2>2, <2>3, <2>4, <2>5 DEF ClientDetail
<1>4. CASE ClientEdit
  <2>1. CASE ui.screen = "client-edit-field" /\ Goes(On("client-edit-value"))
    <3>1. "client-edit-value" \in SectionScreens \ ConfirmScreens
      BY <2>1, ClientSide DEF ClientScreens, ConfirmScreens
    <3> QED BY <2>1, <3>1, OnFine, GoesKeeps
  <2>2. CASE Mutation(ui.sel \in ws.rows, ws)
    BY <1>0, <2>2, MutationKeeps
  <2> QED BY <1>4, <2>1, <2>2 DEF ClientEdit
<1>5. CASE ClientCreate
  <2>1. ASSUME NEW i \in 1..5, NEW j \in 1..5, ui.screen = Creation[i], Goes(On(Creation[j]))
        PROVE  AdminInv'
    <3>1. Creation[j] \in SectionScreens \ ConfirmScreens
      BY <2>1, CreationScreens, ClientSide
    <3> QED BY <2>1, <3>1, OnFine, GoesKeeps
  <2>2. CASE \E i \in 1..Len(Creation) - 1 : ui.screen = Creation[i] /\ Goes(On(Creation[i + 1]))
    <3>1. PICK i \in 1..4 : ui.screen = Creation[i] /\ Goes(On(Creation[i + 1]))
      BY <2>2, CreationScreens
    <3>2. i \in 1..5 /\ i + 1 \in 1..5
      OBVIOUS
    <3> QED BY <2>1, <3>1, <3>2
  <2>3. CASE /\ ui.screen = "client-create-confirm"
             /\ \E i \in 1..Len(Creation) : Goes(On(Creation[i]))
    <3>1. ui.screen = Creation[5] /\ 5 \in 1..5
      BY <2>3 DEF Creation
    <3> QED BY <2>1, <2>3, <3>1, CreationScreens
  <2>4. CASE /\ Fresh(ws) \in Ids
             /\ completeMutation([ws EXCEPT !.rows = @ \cup {Fresh(ws)}, !.used = Fresh(ws)])
    <3>1. Mutation(Fresh(ws) \in Ids, [ws EXCEPT !.rows = @ \cup {Fresh(ws)}, !.used = Fresh(ws)])
      BY <2>4 DEF Mutation
    <3> QED BY <1>0, <3>1, WorkspacesClosed, MutationKeeps
  <2> QED BY <1>5, <2>2, <2>3, <2>4 DEF ClientCreate
<1> QED BY <1>1, <1>2, <1>3, <1>4, <1>5

\* The confirmations of the clients and of the catalog.
LEMMA ConfirmationKeeps ==
    ASSUME AdminInv, Confirmed
    PROVE  AdminInv'
<1>0. /\ TypeOK /\ MaxId \in Nat /\ ui \in AdminUi /\ ws \in Workspaces
      /\ ws.rows \subseteq Ids /\ ws.off \subseteq Ids
      /\ ui.plan # None => ui.plan \in Ids
  BY SectionOf, AdminParams DEF AdminInv, TypeOK, Workspaces, AdminUi, ChosenIds
<1>1. CASE Mutation(ui.sel \in ws.rows, [ws EXCEPT !.off = @ \cup {ui.sel}])
  <2>1. ASSUME ui.sel \in ws.rows PROVE [ws EXCEPT !.off = @ \cup {ui.sel}] \in Workspaces
    <3>1. ws.off \cup {ui.sel} \in SUBSET Ids
      BY <1>0, <2>1
    <3> QED BY <1>0, <3>1, WorkspacesClosed
  <2> QED BY <1>1, <2>1, MutationKeeps
<1>2. CASE Mutation(ui.sel \in ws.off, Without(ws, ui.sel))
  BY <1>0, <1>2, WorkspacesClosed, MutationKeeps
<1>3. CASE Mutation(ui.sel \in ws.rows, Without(ws, ui.sel))
  BY <1>0, <1>3, WorkspacesClosed, MutationKeeps
<1>4. CASE Mutation(ui.plan # None /\ ws.of[ui.plan] = ui.sel, WithoutPlan(ws, ui.plan))
  BY <1>0, <1>4, WorkspacesClosed, MutationKeeps
<1> QED BY <1>1, <1>2, <1>3, <1>4 DEF Confirmed, ClientConfirm, CatalogConfirm

\* The question about a plan, or a plan that cannot be previewed.
LEMMA AskKeeps ==
    ASSUME AdminInv, NEW p \in Ids, AskToDelete(p),
           ui.screen \in CatalogScreens \ (ConfirmScreens \cup {"menu"})
    PROVE  AdminInv'
<1>0. /\ ui \in AdminUi /\ p \in ChosenIds /\ p # None /\ TypeOK
      /\ "plan-delete-confirm" \in SectionScreens /\ "plan-delete-confirm" \in Screens
  BY SectionOf, AdminParams DEF AdminInv, CatalogScreens, ChosenIds, Ids, None
<1>1. CASE Goes([On("plan-delete-confirm") EXCEPT !.plan = p, !.preview = p,
                                                  !.confirmation = "plan-delete"])
  <2> DEFINE n == [On("plan-delete-confirm") EXCEPT !.plan = p, !.preview = p,
                                                    !.confirmation = "plan-delete"]
  <2>1. /\ n \in AdminUi /\ n.screen = "plan-delete-confirm" /\ n.page = ui.page
        /\ n.plan = p /\ n.preview = p /\ n.confirmation = "plan-delete"
    BY <1>0 DEF AdminUi, On, Confirmations
  <2> HIDE DEF n
  <2>2. Fine(n)
    BY <1>0, <2>1 DEF Fine, AdminInv
  <2> QED BY <1>1, <2>2, GoesKeeps DEF n
<1>2. CASE ui' = [ui EXCEPT !.plan = p] /\ UNCHANGED <<scenario, ws, list, prompt>>
  <2> DEFINE n == [ui EXCEPT !.plan = p]
  <2>1. n \in AdminUi /\ n.screen = ui.screen /\ n.page = ui.page /\ n.sel = ui.sel
    BY <1>0 DEF AdminUi
  <2>2. ui' = n
    BY <1>2
  <2> HIDE DEF n
  <2>3. Fine(n)
    BY <1>0, <2>1, SectionOf, PlainFine
  <2> QED BY <1>2, <2>1, <2>2, <2>3, SilentKeeps
<1> QED BY <1>1, <1>2 DEF AskToDelete

\* Services.
LEMMA ServicesKeep ==
    ASSUME AdminInv, ServiceSelect \/ ServiceDetail \/ ServiceEdit
    PROVE  AdminInv'
<1>0. /\ TypeOK /\ MaxId \in Nat /\ ui \in AdminUi
      /\ ws \in Workspaces /\ list \in Workspaces
      /\ list.rows \subseteq Ids /\ ws.rows \subseteq Ids /\ ws.off \subseteq Ids
  BY SectionOf, AdminParams DEF AdminInv, TypeOK, Workspaces
<1>1. CASE ServiceSelect
  <2>1. CASE /\ ui.screen = "service-select"
             /\ \E s \in Chosen : Goes([On("service-detail") EXCEPT !.sel = s, !.page = 0])
    <3>1. "service-detail" \in SectionScreens \ ConfirmScreens
      BY <2>1, CatalogSide DEF CatalogScreens, ConfirmScreens
    <3>2. PICK s \in Chosen : Goes([On("service-detail") EXCEPT !.sel = s, !.page = 0])
      BY <2>1
    <3> QED BY <3>1, <3>2, ChosenMeans, OnFine, GoesKeeps
  <2>2. CASE /\ ui.screen = "service-delete-select"
             /\ \E s \in Chosen :
                  LET n == [ui EXCEPT !.sel = s, !.page = 0] IN
                  IF s \in ws.rows
                  THEN Goes([n EXCEPT !.screen = "service-delete-confirm", !.preview = s,
                                      !.confirmation = "service-delete"])
                  ELSE ui' = n /\ UNCHANGED <<scenario, ws, list, prompt>>
    <3>1. PICK s \in Chosen :
            LET n == [ui EXCEPT !.sel = s, !.page = 0] IN
            IF s \in ws.rows
            THEN Goes([n EXCEPT !.screen = "service-delete-confirm", !.preview = s,
                                !.confirmation = "service-delete"])
            ELSE ui' = n /\ UNCHANGED <<scenario, ws, list, prompt>>
      BY <2>2
    <3>2. /\ s \in ChosenIds /\ s # None /\ 0 \in Pages
          /\ "service-delete-confirm" \in SectionScreens /\ "service-delete-confirm" \in Screens
          /\ ui.screen \notin ConfirmScreens /\ ui.screen \notin PlanLists
          /\ OnePage => ui.page = 0
      <4>1. section = "catalog" /\ SectionScreens = CatalogScreens
        BY <2>2, SectionOf DEF CatalogScreens
      <4>2. s \in ChosenIds /\ s # None
        BY <3>1, ChosenMeans DEF ChosenIds, Ids, None
      <4>3. OnePage => ui.page = 0
        BY <4>1 DEF OnePage, Fits, AdminInv, Fine
      <4>4. "service-delete-confirm" \in SectionScreens /\ "service-delete-confirm" \in Screens
        BY <4>1, SectionOf DEF CatalogScreens
      <4> QED BY <1>0, <2>2, <4>2, <4>3, <4>4 DEF Pages, ConfirmScreens, PlanLists
    <3> DEFINE n == [ui EXCEPT !.sel = s, !.page = 0]
               m == [n EXCEPT !.screen = "service-delete-confirm", !.preview = s,
                              !.confirmation = "service-delete"]
    <3>3. n \in AdminUi /\ n.screen = ui.screen /\ n.page = 0
      BY <1>0, <3>2 DEF AdminUi
    <3>4. /\ m \in AdminUi /\ m.screen = "service-delete-confirm" /\ m.page = 0 /\ m.sel = s
          /\ m.preview = s /\ m.confirmation = "service-delete"
      BY <1>0, <3>2 DEF AdminUi, Confirmations
    <3>5. Goes(m) \/ (ui' = n /\ UNCHANGED <<scenario, ws, list, prompt>>)
      BY <3>1
    <3> HIDE DEF n, m
    <3>6. Fine(n)
      BY <3>2, <3>3, SectionOf, PlainFine
    <3>7. Fine(m)
      BY <3>2, <3>4 DEF Fine
    <3>8. CASE Goes(m)
      BY <3>7, <3>8, GoesKeeps
    <3>9. CASE ui' = n /\ UNCHANGED <<scenario, ws, list, prompt>>
      BY <3>2, <3>3, <3>6, <3>9, SilentKeeps
    <3> QED BY <3>5, <3>8, <3>9
  <2> QED BY <1>1, <2>1, <2>2 DEF ServiceSelect
<1>2. CASE ServiceDetail
  <2>0. /\ "service-edit-name" \in SectionScreens \ ConfirmScreens
        /\ "plan-create-name" \in SectionScreens \ ConfirmScreens
        /\ "plan-delete-select" \in SectionScreens \ ConfirmScreens
        /\ ui.screen \in CatalogScreens \ {"menu"}
    BY <1>2, CatalogSide DEF ServiceDetail, CatalogScreens, ConfirmScreens
  <2>1. CASE goMenu
    BY <2>1, GoMenuKeeps
  <2>2. CASE Goes(On("service-edit-name")) \/ Goes(On("plan-create-name"))
    BY <2>0, <2>2, OnFine, GoesKeeps
  <2>3. CASE Writes([On("plan-select") EXCEPT !.page = 0], ui.page)
    BY <2>0, <2>3, PlanListKeeps
  <2>4. CASE Goes([On("plan-delete-select") EXCEPT !.page = 0])
    BY <2>0, <2>4, OnFine, GoesKeeps
  <2> QED BY <1>2, <2>1, <2>2, <2>3, <2>4 DEF ServiceDetail
<1>3. CASE ServiceEdit
  <2>1. CASE Mutation(Fresh(ws) \in Ids,
                      [ws EXCEPT !.rows = @ \cup {Fresh(ws)}, !.used = Fresh(ws)])
    BY <1>0, <2>1, WorkspacesClosed, MutationKeeps
  <2>2. CASE Mutation(ui.sel \in ws.rows, ws)
    BY <1>0, <2>2, MutationKeeps
  <2> QED BY <1>3, <2>1, <2>2 DEF ServiceEdit
<1> QED BY <1>1, <1>2, <1>3

\* Plans.
LEMMA PlansKeep ==
    ASSUME AdminInv, PlanSelect \/ PlanDetail \/ PlanEdit
    PROVE  AdminInv'
<1>0. /\ TypeOK /\ MaxId \in Nat /\ ui \in AdminUi /\ ws \in Workspaces
      /\ ws.rows \subseteq Ids /\ (ui.plan # None => ui.plan \in Ids)
  BY SectionOf, AdminParams DEF AdminInv, TypeOK, Workspaces, AdminUi, ChosenIds
<1>1. CASE PlanSelect
  <2>0. ui.screen \in CatalogScreens \ (ConfirmScreens \cup {"menu"})
        /\ "plan-detail" \in SectionScreens \ ConfirmScreens
    BY <1>1, CatalogSide DEF PlanSelect, PlanLists, CatalogScreens, ConfirmScreens
  <2>1. CASE goMenu
    BY <2>1, GoMenuKeeps
  <2>2. ASSUME NEW p \in Chosen, Goes([On("plan-detail") EXCEPT !.plan = p, !.page = 0])
        PROVE  AdminInv'
    BY <2>0, <2>2, ChosenMeans, OnFine, GoesKeeps
  <2>3. ASSUME NEW p \in Chosen, AskToDelete(p) PROVE AdminInv'
    BY <2>0, <2>3, ChosenMeans, AskKeeps
  <2> QED BY <1>1, <2>1, <2>2, <2>3 DEF PlanSelect
<1>2. CASE PlanDetail
  <2>0. ui.screen \in CatalogScreens \ (ConfirmScreens \cup {"menu"})
        /\ "plan-edit-name" \in SectionScreens \ ConfirmScreens
    BY <1>2, CatalogSide DEF PlanDetail, CatalogScreens, ConfirmScreens
  <2>1. CASE goMenu
    BY <2>1, GoMenuKeeps
  <2>2. CASE Goes(On("plan-edit-name"))
    BY <2>0, <2>2, OnFine, GoesKeeps
  <2>3. CASE selectedPlan /\ AskToDelete(ui.plan)
    BY <1>0, <2>0, <2>3, AskKeeps DEF selectedPlan
  <2> QED BY <1>2, <2>1, <2>2, <2>3 DEF PlanDetail
<1>3. CASE PlanEdit
  <2>1. CASE goMenu
    BY <2>1, GoMenuKeeps
  <2>2. CASE Mutation(ui.sel \in ws.rows /\ Fresh(ws) \in Ids,
                      [ws EXCEPT !.of[Fresh(ws)] = ui.sel, !.used = Fresh(ws)])
    <3>1. ui.sel \in ws.rows /\ Fresh(ws) \in Ids =>
            [ws EXCEPT !.of[Fresh(ws)] = ui.sel, !.used = Fresh(ws)] \in Workspaces
      BY <1>0, WorkspacesClosed
    <3> QED BY <2>2, <3>1, MutationKeeps
  <2>3. CASE Mutation(ws.of[ui.plan] # None, ws)
    BY <1>0, <2>3, MutationKeeps
  <2> QED BY <1>3, <2>1, <2>2, <2>3 DEF PlanEdit
<1> QED BY <1>1, <1>2, <1>3

\* A new data source, and another tab.
LEMMA OutsideKeeps ==
    ASSUME AdminInv, Heartbeat \/ OtherTab
    PROVE  AdminInv'
<1>0. /\ TypeOK /\ MaxId \in Nat /\ ws \in Workspaces /\ ws.rows \subseteq Ids /\ ws.off \subseteq Ids
      /\ MenuText \in [screen : Screens, items : Seq(Ids)] /\ Fine(ui)
  BY MenuFine, AdminParams DEF AdminInv, TypeOK, Workspaces
<1>1. CASE Heartbeat
  <2>1. TypeOK'
    BY <1>0, <1>1 DEF Heartbeat, TypeOK
  <2>2. Fine(ui)' /\ Beats'
    BY <1>0, <1>1, FineStays DEF Heartbeat, Beats
  <2> QED BY <2>1, <2>2 DEF AdminInv
<1>2. CASE OtherTab
  <2>0. UNCHANGED <<scenario, list, ui, prompt>>
    BY <1>2 DEF OtherTab
  <2>1. ws' \in Workspaces
    <3>1. \A r \in ws.rows : Without(ws, r) \in Workspaces
      BY <1>0, WorkspacesClosed
    <3>2. \A off \in SUBSET ws.rows : [ws EXCEPT !.off = off] \in Workspaces
      BY <1>0, WorkspacesClosed
    <3>3. \A p \in Ids : WithoutPlan(ws, p) \in Workspaces
      BY <1>0, WorkspacesClosed
    <3> QED BY <1>2, <3>1, <3>2, <3>3 DEF OtherTab
  <2>2. TypeOK'
    BY <1>0, <2>0, <2>1 DEF TypeOK
  <2>3. Fine(ui)'
    BY <1>0, <2>0, FineStays
  <2> QED
    BY <2>0, <2>2, <2>3 DEF AdminInv, Warned, Beats, OnePage, section, PageSize, PromptMatches, Text,
       Entries, Page
<1> QED BY <1>1, <1>2

LEMMA AdminInit ==
    ASSUME Init
    PROVE  AdminInv
<1>0. /\ scenario \in Scenarios /\ MaxId \in Nat /\ scenario.rows \in Nat /\ scenario.held \in Nat
      /\ scenario.rows + scenario.held <= MaxId /\ (scenario.held > 0 => scenario.rows > 0)
  BY ConsoleAssumption DEF Init
<1> DEFINE f == [p \in Ids |-> IF p \in scenario.rows + 1..scenario.rows + scenario.held
                               THEN 1 ELSE None]
<1>1. f \in [Ids -> Ids \cup {None}]
  <2>1. ASSUME NEW p \in Ids, p \in scenario.rows + 1..scenario.rows + scenario.held PROVE 1 \in Ids
    BY <1>0, <2>1 DEF Ids
  <2> QED BY <2>1
<1>2. ws = [rows |-> 1..scenario.rows, off |-> {}, used |-> scenario.rows + scenario.held, of |-> f]
  BY DEF Init
<1> HIDE DEF f
<1>3. 1..scenario.rows \in SUBSET Ids /\ scenario.rows + scenario.held \in 0..MaxId
  BY <1>0 DEF Ids
<1>4. ws \in Workspaces /\ list \in Workspaces
  BY <1>1, <1>2, <1>3 DEF Init, Workspaces
<1>5. "menu" \in Screens
  BY ScreensAre DEF ClientScreens
<1>6. TypeOK
  <2>1. Menu \in [screen : Screens, page : 0..MaxId, sel : Ids \cup {None}, plan : Ids \cup {None},
                  confirmation : Confirmations, preview : Ids \cup {None}]
    BY <1>0, <1>5 DEF Menu, Confirmations
  <2> QED BY <1>0, <1>4, <1>5, <2>1 DEF Init, TypeOK, MenuText
<1>7. Fine(ui) /\ Warned /\ PromptMatches
  <2>1. ui = Menu /\ prompt = MenuText
    BY DEF Init
  <2> QED BY <1>6, <2>1, MenuFine DEF Warned, PromptMatches
<1> QED BY <1>6, <1>7 DEF AdminInv

LEMMA AdminStep ==
    ASSUME AdminInv, [Next]_vars
    PROVE  AdminInv'
<1>1. CASE UNCHANGED vars
  BY <1>1, StaysKeeps DEF Stays
<1>2. CASE Leave \/ Heartbeat \/ OtherTab
  BY <1>2, LeaveKeeps, OutsideKeeps
<1>3. CASE goBack \/ Advance
  BY <1>3, BackKeeps, AdvanceKeeps
<1>4. CASE MenuChoice \/ ClientSelect \/ ClientDetail \/ ClientEdit \/ ClientCreate
  BY <1>4, ClientsKeep
<1>5. CASE ServiceSelect \/ ServiceDetail \/ ServiceEdit
  BY <1>5, ServicesKeep
<1>6. CASE PlanSelect \/ PlanDetail \/ PlanEdit
  BY <1>6, PlansKeep
<1>7. CASE Confirmed
  BY <1>7, ConfirmationKeeps
<1> QED BY <1>1, <1>2, <1>3, <1>4, <1>5, <1>6, <1>7 DEF Next

LEMMA AdminRuns == [MCNext]_MCvars => [Next]_vars
<1>1. ASSUME [MCNext]_MCvars PROVE [Next]_vars
  BY <1>1 DEF MCNext, MCvars
<1> QED BY <1>1

\* The formulas of OnlyTheNamed, ActiveIsKept and BackLeads about one step.
NamedOnly ==
    Confirmed /\ ~Beats =>
      /\ ws.rows \ ws'.rows \subseteq ToSet(prompt.items)
      /\ ws'.off \ ws.off \subseteq ToSet(prompt.items)
      /\ \A p \in Ids : ws'.of[p] # ws.of[p] => {p, ws.of[p]} \cap ToSet(prompt.items) # {}
KeepsActive == Confirmed /\ section = "clients" => ws.rows \ ws'.rows \subseteq ws.off
LeadsBack ==
    goBack /\ ui.screen # "menu" =>
      \/ Depth(ui'.screen) < Depth(ui.screen)
      \/ ui'.screen = ui.screen /\ ui'.page < ui.page

LEMMA AdminNames ==
    ASSUME AdminInv, Confirmed
    PROVE  NamedOnly
<1>0. SUFFICES ASSUME ~Beats
               PROVE  /\ ws.rows \ ws'.rows \subseteq ToSet(prompt.items)
                      /\ ws'.off \ ws.off \subseteq ToSet(prompt.items)
                      /\ \A p \in Ids : ws'.of[p] # ws.of[p] =>
                                          {p, ws.of[p]} \cap ToSet(prompt.items) # {}
  BY DEF NamedOnly
<1>1. /\ ws \in Workspaces /\ Warned /\ Fine(ui) /\ ws.of \in [Ids -> Ids \cup {None}]
  BY <1>0 DEF AdminInv, TypeOK, Workspaces
<1>2. ASSUME NEW x, prompt.items = <<x>> PROVE ToSet(prompt.items) = {x}
  BY <1>2 DEF ToSet
<1>3. CASE Stays
  BY <1>3 DEF Stays, vars
<1>4. ASSUME NEW r \in Ids, completeMutation(Without(ws, r)), r \in ToSet(prompt.items)
      PROVE  /\ ws.rows \ ws'.rows \subseteq ToSet(prompt.items)
             /\ ws'.off \ ws.off \subseteq ToSet(prompt.items)
             /\ \A p \in Ids : ws'.of[p] # ws.of[p] =>
                                 {p, ws.of[p]} \cap ToSet(prompt.items) # {}
  <2>1. /\ ws'.rows = ws.rows \ {r} /\ ws'.off = ws.off \ {r}
        /\ ws'.of = [p \in Ids |-> IF ws.of[p] = r THEN None ELSE ws.of[p]]
    BY <1>4 DEF completeMutation, Without
  <2> QED BY <1>4, <2>1
<1>5. CASE ClientConfirm
  <2>1. ToSet(prompt.items) = {ui.sel} /\ ui.sel \in Ids
    BY <1>1, <1>2, <1>5 DEF ClientConfirm, Warned, Fine, AdminUi, ChosenIds
  <2>2. CASE completeMutation([ws EXCEPT !.off = @ \cup {ui.sel}])
    <3>1. ws'.rows = ws.rows /\ ws'.of = ws.of /\ ws'.off = ws.off \cup {ui.sel}
      BY <1>1, <2>2 DEF completeMutation, Workspaces
    <3> QED BY <2>1, <3>1
  <2>3. CASE completeMutation(Without(ws, ui.sel))
    BY <1>4, <2>1, <2>3
  <2> QED BY <1>3, <1>5, <2>2, <2>3 DEF ClientConfirm, Mutation
<1>6. CASE CatalogConfirm
  <2>0. ToSet(prompt.items) = {ui.preview} /\ ui.preview \in Ids
    BY <1>1, <1>2, <1>6 DEF CatalogConfirm, Warned, Fine, AdminUi, ChosenIds
  <2>1. CASE ui.confirmation = "service-delete" /\ completeMutation(Without(ws, ui.sel))
    <3>1. ui.preview = ui.sel
      BY <1>1, <1>6, <2>1 DEF CatalogConfirm, Fine
    <3> QED BY <1>4, <2>0, <2>1, <3>1
  <2>2. CASE ui.confirmation # "service-delete" /\ completeMutation(WithoutPlan(ws, ui.plan))
    <3>1. ui.preview = ui.plan
      BY <1>1, <1>6, <2>2 DEF CatalogConfirm, Fine
    <3>2. ws' = [ws EXCEPT !.of[ui.plan] = None]
      BY <2>2 DEF completeMutation, WithoutPlan
    <3>3. ws'.rows = ws.rows /\ ws'.off = ws.off /\ ws'.of = [ws.of EXCEPT ![ui.plan] = None]
      BY <1>1, <3>2 DEF Workspaces
    <3>4. \A p \in Ids : p # ui.plan => ws'.of[p] = ws.of[p]
      BY <1>1, <3>3
    <3> QED BY <2>0, <3>1, <3>3, <3>4
  <2> QED BY <1>3, <1>6, <2>1, <2>2 DEF CatalogConfirm, Mutation
<1> QED BY <1>5, <1>6 DEF Confirmed

LEMMA AdminKeepsActive ==
    ASSUME AdminInv, Confirmed
    PROVE  KeepsActive
<1>0. SUFFICES ASSUME section = "clients" PROVE ws.rows \ ws'.rows \subseteq ws.off
  BY DEF KeepsActive
<1>1. ws \in Workspaces /\ SectionScreens = ClientScreens /\ ui.screen \in SectionScreens
  BY <1>0, SectionOf DEF AdminInv, TypeOK
<1>2. ClientConfirm
  BY <1>1 DEF Confirmed, CatalogConfirm, ClientScreens
<1>3. CASE Stays
  BY <1>3 DEF Stays, vars
<1>4. CASE completeMutation([ws EXCEPT !.off = @ \cup {ui.sel}])
  <2>1. ws'.rows = ws.rows
    BY <1>1, <1>4 DEF completeMutation, Workspaces
  <2> QED BY <2>1
<1>5. CASE ui.sel \in ws.off /\ completeMutation(Without(ws, ui.sel))
  BY <1>5 DEF completeMutation, Without
<1> QED BY <1>2, <1>3, <1>4, <1>5 DEF ClientConfirm, Mutation

\* How far each screen is.
LEMMA DepthIs ==
    /\ Depth("menu") = 0
    /\ \A x \in {"client-select", "service-select", "service-delete-select",
                 "client-create-name", "service-create-name"} : Depth(x) = 1
    /\ \A x \in {"client-detail", "service-detail", "client-create-phone"} : Depth(x) = 2
    /\ \A x \in {"plan-select", "plan-delete-select", "client-edit-field", "client-confirm",
                 "service-edit-name", "service-delete-confirm", "plan-create-name",
                 "client-create-username"} : Depth(x) = 3
    /\ \A x \in {"plan-detail", "client-edit-value", "client-create-password"} : Depth(x) = 4
    /\ \A x \in {"plan-edit-name", "plan-delete-confirm", "client-create-confirm"} : Depth(x) = 5
<1>1. Depth("menu") = 0
  BY DEF Depth, Lists, PlanLists
<1>2. \A x \in {"client-select", "service-select", "service-delete-select",
                "client-create-name", "service-create-name"} : Depth(x) = 1
  BY DEF Depth, Lists, PlanLists
<1>3. \A x \in {"client-detail", "service-detail", "client-create-phone"} : Depth(x) = 2
  BY DEF Depth, Lists, PlanLists
<1>4. \A x \in {"plan-select", "plan-delete-select", "client-edit-field", "client-confirm",
                "service-edit-name", "service-delete-confirm", "plan-create-name",
                "client-create-username"} : Depth(x) = 3
  BY DEF Depth, Lists, PlanLists
<1>5. \A x \in {"plan-detail", "client-edit-value", "client-create-password"} : Depth(x) = 4
  BY DEF Depth, Lists, PlanLists
<1>6. \A x \in {"plan-edit-name", "plan-delete-confirm", "client-create-confirm"} : Depth(x) = 5
  BY DEF Depth, Lists, PlanLists
<1> QED BY <1>1, <1>2, <1>3, <1>4, <1>5, <1>6

\* The screens that "9" goes back to.
LEMMA AdminLeads ==
    ASSUME AdminInv, goBack
    PROVE  LeadsBack
<1>0. SUFFICES ASSUME ui.screen # "menu"
               PROVE  \/ Depth(ui'.screen) < Depth(ui.screen)
                      \/ ui'.screen = ui.screen /\ ui'.page < ui.page
  BY DEF LeadsBack
<1>1. /\ ui \in AdminUi /\ ui.page \in Nat
      /\ \A x : On(x).screen = x /\ [On(x) EXCEPT !.page = 0].screen = x
                /\ [On(x) EXCEPT !.confirmation = "none"].screen = x
                /\ [On(x) EXCEPT !.confirmation = "none", !.preview = None].screen = x
  <2>1. ui \in AdminUi
    BY SectionOf
  <2>2. \A x : On(x).screen = x /\ [On(x) EXCEPT !.page = 0].screen = x
               /\ [On(x) EXCEPT !.confirmation = "none"].screen = x
               /\ [On(x) EXCEPT !.confirmation = "none", !.preview = None].screen = x
    BY <2>1 DEF On, AdminUi
  <2> QED BY <2>1, <2>2 DEF AdminUi, Pages
<1>2. ASSUME NEW n, NEW p, Writes(n, p) PROVE ui' = n
  BY <1>2 DEF Writes
<1>3. ASSUME NEW n, Goes(n) PROVE ui' = n
  BY <1>3 DEF Goes, Writes
<1>4. goMenu => ui'.screen = "menu"
  BY <1>3 DEF goMenu, Menu
<1>5. ASSUME NEW b, NEW n, Unwind(b, n) PROVE ui' = n \/ ui'.screen = "menu"
  BY <1>3, <1>4, <1>5 DEF Unwind
<1>6. CASE /\ ui.screen \in Lists
           /\ IF ui.page > 0 THEN Goes([ui EXCEPT !.page = @ - 1]) ELSE goMenu
  <2>1. CASE ui.page > 0 /\ Goes([ui EXCEPT !.page = @ - 1])
    <3>1. ui' = [ui EXCEPT !.page = @ - 1]
      BY <1>3, <2>1
    <3>2. ui'.screen = ui.screen /\ ui'.page = ui.page - 1
      BY <1>1, <3>1 DEF AdminUi
    <3> QED BY <1>1, <3>2
  <2>2. CASE goMenu
    BY <1>4, <1>6, <2>2, DepthIs DEF Lists
  <2> QED BY <1>6, <2>1, <2>2
<1>7. CASE \E i \in 2..Len(Creation) : ui.screen = Creation[i] /\ Goes(On(Creation[i - 1]))
  <2>1. PICK i \in 2..5 : ui.screen = Creation[i] /\ Goes(On(Creation[i - 1]))
    BY <1>7, CreationScreens
  <2>2. ui'.screen = Creation[i - 1]
    BY <1>1, <1>3, <2>1
  <2>3. \/ ui.screen = "client-create-phone" /\ ui'.screen = "client-create-name"
        \/ ui.screen = "client-create-username" /\ ui'.screen = "client-create-phone"
        \/ ui.screen = "client-create-password" /\ ui'.screen = "client-create-username"
        \/ ui.screen = "client-create-confirm" /\ ui'.screen = "client-create-password"
    <3>1. i = 2 \/ i = 3 \/ i = 4 \/ i = 5
      OBVIOUS
    <3> QED BY <2>1, <2>2, <3>1 DEF Creation
  <2> QED BY <2>3, DepthIs
<1>8. CASE \/ ui.screen = "client-detail" /\ Goes([On("client-select") EXCEPT !.page = 0])
           \/ ui.screen = "client-edit-value" /\ Goes(On("client-edit-field"))
           \/ ui.screen \in {"client-create-name", "service-create-name"} /\ goMenu
           \/ ui.screen = "service-detail" /\ Goes([On("service-select") EXCEPT !.page = 0])
  <2>1. \/ ui.screen = "client-detail" /\ ui'.screen = "client-select"
        \/ ui.screen = "client-edit-value" /\ ui'.screen = "client-edit-field"
        \/ ui.screen \in {"client-create-name", "service-create-name"} /\ ui'.screen = "menu"
        \/ ui.screen = "service-detail" /\ ui'.screen = "service-select"
    BY <1>1, <1>3, <1>4, <1>8
  <2> QED BY <2>1, DepthIs
<1>10. CASE \/ ui.screen = "client-edit-field" /\ Unwind(selectedRow, On("client-detail"))
            \/ /\ ui.screen = "client-confirm"
               /\ Unwind(selectedRow, [On("client-detail") EXCEPT !.confirmation = "none"])
  <2>1. /\ ui.screen \in {"client-edit-field", "client-confirm"}
        /\ ui'.screen \in {"client-detail", "menu"}
    BY <1>1, <1>5, <1>10
  <2> QED BY <2>1, DepthIs
<1>9. CASE \/ /\ ui.screen \in {"service-edit-name", "plan-select", "service-delete-confirm"}
              /\ Unwind(selectedRow, [On("service-detail") EXCEPT !.confirmation = "none",
                                                                  !.preview = None])
           \/ /\ ui.screen = "plan-detail"
              /\ IF selectedRow THEN Writes([On("plan-select") EXCEPT !.page = 0], ui.page)
                                ELSE goMenu
           \/ /\ ui.screen \in {"plan-edit-name", "plan-delete-confirm"}
              /\ Unwind(selectedPlan, [On("plan-detail") EXCEPT !.confirmation = "none",
                                                                !.preview = None])
           \/ ui.screen \in {"plan-delete-select", "plan-create-name"}
                /\ Unwind(selectedRow, On("service-detail"))
  <2>1. \/ /\ ui.screen \in {"service-edit-name", "plan-select", "service-delete-confirm",
                             "plan-delete-select", "plan-create-name"}
           /\ ui'.screen \in {"service-detail", "menu"}
        \/ ui.screen = "plan-detail" /\ ui'.screen \in {"plan-select", "menu"}
        \/ ui.screen \in {"plan-edit-name", "plan-delete-confirm"} /\ ui'.screen \in {"plan-detail", "menu"}
    BY <1>1, <1>2, <1>4, <1>5, <1>9
  <2> QED BY <2>1, DepthIs
<1> QED BY <1>0, <1>6, <1>7, <1>8, <1>9, <1>10 DEF goBack

-----------------------------------------------------------------------------
(***************************************************************************)
(* The console of the subscriptions.  SubInv: a screen about one           *)
(* subscription has one, the prompt is that of the screen, and on the      *)
(* question of step i of a dialogue the fields before it have the answers  *)
(* of this dialogue and the others have none.                              *)
(***************************************************************************)

SubIds == Console!Ids
SubUi ==
    [screen : Console!Screens, filter : Console!Statuses \cup {"all"}, page : 0..Subscriptions,
     sel : SubIds \cup {Console!None}, field : BOOLEAN, payload : BOOLEAN]
SubMessages == [screen : Console!Screens, items : Seq(SubIds)]
SubRows == [SubIds -> Console!Statuses \cup Console!Absent]
SubDrafts == [Console!Fields -> 0..MaxDialogues]

\* What holds of every state the component goes to.
SubFine(n) == n \in SubUi /\ (n.screen \in {"detail", "cancel-confirm"} => n.sel # Console!None)

\* The draft d of the dialogue k, with the duration c, on the screen x.
Asked(i, d, c, k) ==
    /\ k >= 1
    /\ \A j \in 1..10 : j < i => \/ d[Console!Creation[j]] = k
                                 \/ Console!Creation[j] \in Console!Optional /\ d[Console!Creation[j]] = 0
    /\ \A j \in 1..10 : j >= i => d[Console!Creation[j]] = 0
    /\ i <= 8 => ~c
    /\ i = 10 => c
Collected(d, c, k) ==
    /\ \A f \in Console!Required : d[f] = k
    /\ \A f \in Console!Fields : d[f] \in {0, k}
    /\ d["create-expiry"] = k <=> c
DraftOk(x, d, c, k) ==
    /\ \A i \in 1..10 : x = Console!Creation[i] => Asked(i, d, c, k)
    /\ x = "create-confirm" => Collected(d, c, k)

SubInv ==
    /\ Console!TypeOK /\ SubFine(sUi)
    /\ DraftOk(sUi.screen, sDraft, sCustom, sDialogue)
    /\ ~sScenario.beats => Console!PromptMatches

LEMMA SubParams ==
    /\ Subscriptions \in Nat /\ MaxDialogues \in Nat /\ SubscriptionPage \in Nat \ {0}
    /\ SubscriptionScenarios \subseteq
         [held : 0..Subscriptions, dialogues : 0..MaxDialogues, beats : BOOLEAN]
    /\ SubIds = 1..Subscriptions
BY MCAssumption DEF Console!ConsoleAssumption, SubIds, Console!Ids

\* The instance counts and lists as the module does.
LEMMA SubSame ==
    /\ \A S : Console!Ordered(S) = Ordered(S)
    /\ \A s : Console!ToSet(s) = ToSet(s)
<1>1. \A S : Console!Cardinality(S) = Cardinality(S)
  BY DEF Console!Cardinality, Cardinality
<1>2. \A S, x : Console!Rank(S, x) = Rank(S, x)
  BY <1>1 DEF Console!Rank, Rank
<1>3. \A s : Console!ToSet(s) = ToSet(s)
  BY DEF Console!ToSet, ToSet
<1> QED BY <1>1, <1>2, <1>3 DEF Console!Ordered, Ordered

\* The questions are ten different ones.
LEMMA Questionnaire ==
    /\ Len(Console!Creation) = 10
    /\ \A i, j \in 1..10 : Console!Creation[i] = Console!Creation[j] => i = j
    /\ Console!Fields = {Console!Creation[i] : i \in 1..10}
    /\ \A i \in 1..10 : Console!Creation[i] \in Console!Fields
    /\ Console!Creation[1] = "create-client" /\ Console!Creation[8] = "create-duration"
    /\ Console!Creation[9] = "create-start" /\ Console!Creation[10] = "create-expiry"
    /\ "create-expiry" \in Console!Fields /\ "create-confirm" \notin Console!Fields
<1>1. /\ Len(Console!Creation) = 10 /\ DOMAIN Console!Creation = 1..10
      /\ Console!Creation[1] = "create-client" /\ Console!Creation[8] = "create-duration"
      /\ Console!Creation[9] = "create-start" /\ Console!Creation[10] = "create-expiry"
  BY DEF Console!Creation
<1>2. Console!Fields = {Console!Creation[i] : i \in 1..10}
  BY <1>1 DEF Console!Fields, Console!ToSet
<1>3. ASSUME NEW i \in 1..10, NEW j \in 1..10, Console!Creation[i] = Console!Creation[j] PROVE i = j
  <2>1. \/ i = 1 \/ i = 2 \/ i = 3 \/ i = 4 \/ i = 5 \/ i = 6 \/ i = 7 \/ i = 8 \/ i = 9 \/ i = 10
    OBVIOUS
  <2>2. \/ j = 1 \/ j = 2 \/ j = 3 \/ j = 4 \/ j = 5 \/ j = 6 \/ j = 7 \/ j = 8 \/ j = 9 \/ j = 10
    OBVIOUS
  <2> QED BY <1>3, <2>1, <2>2 DEF Console!Creation
<1>4. ASSUME NEW i \in 1..10 PROVE Console!Creation[i] # "create-confirm"
  <2>1. \/ i = 1 \/ i = 2 \/ i = 3 \/ i = 4 \/ i = 5 \/ i = 6 \/ i = 7 \/ i = 8 \/ i = 9 \/ i = 10
    OBVIOUS
  <2> QED BY <2>1 DEF Console!Creation
<1> QED BY <1>1, <1>2, <1>3, <1>4

\* The screens, apart from the questions, are none of them.
LEMMA SubScreens ==
    LET plain == {"menu", "filter", "list", "detail", "edit-fields", "edit-value", "edit-duration",
                  "edit-duration-expiry", "edit-client", "edit-service", "edit-plan",
                  "edit-service-plan", "cancel-confirm", "renew-duration", "renew-expiry",
                  "reactivate-duration", "reactivate-expiry"}
    IN  /\ \A x \in plain : x \in Console!Screens /\ x \notin Console!Creating
        /\ Console!Creating \subseteq Console!Screens
        /\ Console!Editing \cup Console!Lifecycle \subseteq plain
<1> DEFINE plain == {"menu", "filter", "list", "detail", "edit-fields", "edit-value", "edit-duration",
                     "edit-duration-expiry", "edit-client", "edit-service", "edit-plan",
                     "edit-service-plan", "cancel-confirm", "renew-duration", "renew-expiry",
                     "reactivate-duration", "reactivate-expiry"}
<1>1. ASSUME NEW i \in 1..10 PROVE Console!Creation[i] \notin plain
  <2>1. \/ i = 1 \/ i = 2 \/ i = 3 \/ i = 4 \/ i = 5 \/ i = 6 \/ i = 7 \/ i = 8 \/ i = 9 \/ i = 10
    OBVIOUS
  <2> QED BY <2>1 DEF Console!Creation
<1>2. \A x \in plain : x \notin Console!Creating
  BY <1>1, Questionnaire DEF Console!Creating
<1>3. \A x \in plain : x \in Console!Screens
  BY DEF Console!Screens, Console!Editing, Console!Lifecycle
<1>4. Console!Creating \subseteq Console!Screens /\ Console!Editing \cup Console!Lifecycle \subseteq plain
  BY DEF Console!Screens, Console!Editing, Console!Lifecycle
<1> QED BY <1>2, <1>3, <1>4

\* A list, its last page and a page of it.
LEMMA FilterMeans ==
    ASSUME Console!TypeOK, NEW n \in SubUi
    PROVE  /\ Console!filteredSubscriptions(n) \in Seq(SubIds)
           /\ Len(Console!filteredSubscriptions(n)) \in 0..Subscriptions
<1> DEFINE S == {s \in Console!Known(sList) : n.filter \in {"all", sList[s]}}
<1>1. S \in SUBSET (1..Subscriptions) /\ Subscriptions \in Nat
  BY SubParams DEF Console!Known, SubIds
<1>2. Console!filteredSubscriptions(n) = Ordered(S)
  BY SubSame DEF Console!filteredSubscriptions
<1> HIDE DEF S
<1> QED BY <1>1, <1>2, ListMeans, SubParams

LEMMA SubPageMeans ==
    ASSUME NEW s \in Seq(SubIds), Len(s) \in 0..Subscriptions, NEW p \in 0..Subscriptions
    PROVE  Console!Page(s, p) \in Seq(SubIds) /\ Console!LastPage(s) \in 0..Subscriptions
<1>0. Subscriptions \in Nat /\ SubscriptionPage \in Nat \ {0}
  BY SubParams
<1> DEFINE a == p * SubscriptionPage
           c == (p + 1) * SubscriptionPage
           b == IF Len(s) < c THEN Len(s) ELSE c
<1>1. a \in Nat /\ c \in Nat
  BY <1>0
<1> HIDE DEF a, c
<1>2. b \in Nat /\ b <= Len(s)
  BY <1>1
<1>3. Console!Page(s, p) = SubSeq(s, a + 1, b)
  BY DEF Console!Page, a, c
<1> HIDE DEF b
<1>4. Console!Page(s, p) \in Seq(SubIds)
  BY <1>1, <1>2, <1>3, PartMeans
<1>5. Console!LastPage(s) \in 0..Subscriptions
  <2>1. CASE s = <<>>
    BY <1>0, <2>1 DEF Console!LastPage
  <2>2. CASE s # <<>>
    <3>1. Len(s) - 1 \in Nat
      BY <2>2
    <3>2. (Len(s) - 1) \div SubscriptionPage \in Nat /\ (Len(s) - 1) \div SubscriptionPage <= Len(s) - 1
      BY <1>0, <3>1, Quotient
    <3>3. Console!LastPage(s) = (Len(s) - 1) \div SubscriptionPage
      BY <2>2 DEF Console!LastPage
    <3> QED BY <1>0, <3>1, <3>2, <3>3
  <2> QED BY <2>1, <2>2
<1> QED BY <1>4, <1>5

\* What is written is a message.
LEMMA SubTextTyped ==
    ASSUME Console!TypeOK, NEW n, SubFine(n)
    PROVE  /\ Console!Text(n) \in SubMessages
           /\ n.screen = "list" =>
                Console!Text(n).items = Console!Page(Console!filteredSubscriptions(n), n.page)
           /\ n.screen = "cancel-confirm" => Console!Text(n).items = <<n.sel>>
<1>0. n \in SubUi /\ n.screen \in Console!Screens /\ n.page \in 0..Subscriptions
      /\ n.sel \in SubIds \cup {Console!None}
  BY DEF SubFine, SubUi
<1>1. Console!Page(Console!filteredSubscriptions(n), n.page) \in Seq(SubIds)
  BY <1>0, FilterMeans, SubPageMeans
<1>2. CASE n.screen = "list"
  <2>1. Console!Text(n) = [screen |-> n.screen,
                           items |-> Console!Page(Console!filteredSubscriptions(n), n.page)]
    BY <1>2 DEF Console!Text
  <2> QED BY <1>0, <1>1, <1>2, <2>1 DEF SubMessages
<1>3. CASE n.screen \in {"detail", "cancel-confirm"}
  <2>1. Console!Text(n) = [screen |-> n.screen, items |-> <<n.sel>>] /\ n.sel \in SubIds
    BY <1>0, <1>3 DEF Console!Text, SubFine
  <2> QED BY <1>0, <1>3, <2>1 DEF SubMessages
<1>4. CASE n.screen \notin {"list", "detail", "cancel-confirm"}
  <2>1. Console!Text(n) = [screen |-> n.screen, items |-> <<>>]
    BY <1>4 DEF Console!Text
  <2> QED BY <1>0, <1>4, <2>1 DEF SubMessages
<1> QED BY <1>2, <1>3, <1>4

\* The types, in the names used here.
LEMMA SubTyped ==
    Console!TypeOK <=>
      /\ sScenario \in SubscriptionScenarios
      /\ sWs \in SubRows /\ sList \in SubRows /\ sUi \in SubUi
      /\ sDialogue \in 0..MaxDialogues /\ sDraft \in SubDrafts /\ sCustom \in BOOLEAN
      /\ sPrompt \in SubMessages
BY DEF Console!TypeOK, SubRows, SubUi, SubDrafts, SubMessages, SubIds

\* Outside of a dialogue the draft does not matter.
LEMMA DraftPlain ==
    ASSUME NEW x, x \notin Console!Creating, NEW d, NEW c, NEW k
    PROVE  DraftOk(x, d, c, k)
BY Questionnaire DEF DraftOk, Console!Creating

\* The component goes on to n and writes about it, with or without a change of
\* the workspace and of the draft.
LEMMA SubWritesKeeps ==
    ASSUME SubInv, NEW n, SubFine(n), sUi' = n, sPrompt' = Console!Text(n), UNCHANGED sScenario,
           sWs' \in SubRows, sList' \in SubRows, n.screen = "list" => UNCHANGED sList,
           sDialogue' \in 0..MaxDialogues, sDraft' \in SubDrafts, sCustom' \in BOOLEAN,
           DraftOk(n.screen, sDraft', sCustom', sDialogue')
    PROVE  SubInv'
<1>0. Console!TypeOK /\ n \in SubUi
  BY DEF SubInv, SubFine
<1>1. sPrompt' \in SubMessages
  BY <1>0, SubTextTyped
<1>2. Console!TypeOK'
  BY <1>0, <1>1, SubTyped DEF SubDrafts, SubRows, SubMessages, SubUi, Console!TypeOK, SubIds
<1>3. SubFine(sUi)' /\ DraftOk(sUi.screen, sDraft, sCustom, sDialogue)'
  BY DEF SubFine, DraftOk, Asked, Collected
<1>4. Console!PromptMatches'
  <2>1. CASE n.screen = "list"
    <3>1. Console!Text(sUi)' = Console!Text(n)
      BY <2>1 DEF Console!Text, Console!Page, Console!filteredSubscriptions, Console!Known
    <3> QED BY <3>1 DEF Console!PromptMatches
  <2>2. CASE n.screen # "list"
    <3>1. Console!Text(sUi)' = Console!Text(n)
      BY <2>2 DEF Console!Text
    <3> QED BY <3>1 DEF Console!PromptMatches
  <2> QED BY <2>1, <2>2
<1> QED BY <1>2, <1>3, <1>4 DEF SubInv

LEMMA SubGoesKeeps ==
    ASSUME SubInv, NEW n, SubFine(n), n.screen \notin Console!Creating, Console!Goes(n)
    PROVE  SubInv'
<1>1. /\ sUi' = n /\ sPrompt' = Console!Text(n)
      /\ UNCHANGED <<sScenario, sWs, sList, sDraft, sCustom, sDialogue>>
  BY DEF Console!Goes, Console!Writes, Console!Drafts
<1>2. DraftOk(n.screen, sDraft', sCustom', sDialogue')
  BY DraftPlain
<1>3. /\ sWs' \in SubRows /\ sList' \in SubRows
      /\ sDialogue' \in 0..MaxDialogues /\ sDraft' \in SubDrafts /\ sCustom' \in BOOLEAN
  BY <1>1, SubTyped DEF SubInv
<1> QED BY <1>1, <1>2, <1>3, SubWritesKeeps

LEMMA SubStaysKeeps ==
    ASSUME SubInv, Console!Stays
    PROVE  SubInv'
<1>1. UNCHANGED <<sScenario, sWs, sList, sUi, sDraft, sCustom, sDialogue, sPrompt>>
  BY DEF Console!Stays, Console!vars
<1> QED
  BY <1>1 DEF SubInv, Console!TypeOK, SubFine, DraftOk, Asked, Collected, Console!PromptMatches,
     Console!Text, Console!Page, Console!filteredSubscriptions, Console!Known

\* The states of the component that its operations go on to.
LEMMA SubStates ==
    ASSUME SubInv, NEW x \in Console!Screens, x \in {"detail", "cancel-confirm"} => sUi.sel # Console!None
    PROVE  /\ SubFine(Console!On(x)) /\ Console!On(x).screen = x /\ Console!On(x).sel = sUi.sel
           /\ \A p \in 0..Subscriptions :
                SubFine([Console!On(x) EXCEPT !.page = p]) /\ [Console!On(x) EXCEPT !.page = p].screen = x
           /\ \A f \in Console!Statuses \cup {"all"} :
                /\ SubFine([Console!On(x) EXCEPT !.filter = f, !.page = 0])
                /\ [Console!On(x) EXCEPT !.filter = f, !.page = 0].screen = x
           /\ SubFine([Console!On(x) EXCEPT !.field = TRUE]) /\ [Console!On(x) EXCEPT !.field = TRUE].screen = x
           /\ \A b \in BOOLEAN :
                SubFine([Console!On(x) EXCEPT !.payload = b]) /\ [Console!On(x) EXCEPT !.payload = b].screen = x
<1>0. sUi \in SubUi /\ 0 \in 0..Subscriptions
  BY SubParams DEF SubInv, SubFine
<1>1. Console!On(x) \in SubUi /\ Console!On(x).screen = x /\ Console!On(x).sel = sUi.sel
  BY <1>0 DEF Console!On, SubUi
<1>2. ASSUME NEW p \in 0..Subscriptions
      PROVE  LET n == [Console!On(x) EXCEPT !.page = p]
             IN  n \in SubUi /\ n.screen = x /\ n.sel = sUi.sel
  BY <1>0, <1>1 DEF SubUi
<1>3. ASSUME NEW f \in Console!Statuses \cup {"all"}
      PROVE  LET n == [Console!On(x) EXCEPT !.filter = f, !.page = 0]
             IN  n \in SubUi /\ n.screen = x /\ n.sel = sUi.sel
  BY <1>0, <1>1 DEF SubUi
<1>4. LET n == [Console!On(x) EXCEPT !.field = TRUE]
      IN  n \in SubUi /\ n.screen = x /\ n.sel = sUi.sel
  BY <1>0, <1>1 DEF SubUi
<1>5. ASSUME NEW b \in BOOLEAN
      PROVE  LET n == [Console!On(x) EXCEPT !.payload = b]
             IN  n \in SubUi /\ n.screen = x /\ n.sel = sUi.sel
  BY <1>0, <1>1 DEF SubUi
<1> QED BY <1>1, <1>2, <1>3, <1>4, <1>5 DEF SubFine

LEMMA SubMenuKeeps ==
    ASSUME SubInv, Console!goMenu
    PROVE  SubInv'
<1> DEFINE n == Console!Cleared
<1>1. n \in SubUi /\ n.screen = "menu"
  <2>1. sUi \in SubUi /\ 0 \in 0..Subscriptions /\ "menu" \in Console!Screens
    BY SubParams, SubScreens DEF SubInv, SubFine
  <2> QED BY <2>1 DEF Console!Cleared, SubUi
<1>2. SubFine(n) /\ n.screen \notin Console!Creating
  BY <1>1, SubScreens DEF SubFine
<1> HIDE DEF n
<1>3. Console!Goes(n)
  BY DEF Console!goMenu, n
<1> QED BY <1>2, <1>3, SubGoesKeeps

LEMMA SubListKeeps ==
    ASSUME SubInv, Console!goList
    PROVE  SubInv'
<1>1. "list" \in Console!Screens /\ "list" \notin Console!Creating /\ 0 \in 0..Subscriptions
  BY SubScreens, SubParams
<1> QED BY <1>1, SubStates, SubGoesKeeps DEF Console!goList

\* The component as it is opened, and a draft without answers.
LEMMA SubOpened ==
    /\ SubFine(Console!Opened) /\ Console!Opened.screen = "menu"
    /\ Console!NoDraft \in SubDrafts /\ \A f \in Console!Fields : Console!NoDraft[f] = 0
<1>1. 0 \in 0..Subscriptions /\ "menu" \in Console!Screens /\ 0 \in 0..MaxDialogues
  BY SubParams, SubScreens
<1>2. Console!Opened \in SubUi /\ Console!Opened.screen = "menu"
  BY <1>1 DEF Console!Opened, SubUi
<1> QED BY <1>1, <1>2 DEF SubFine, SubDrafts, Console!NoDraft

\* The console is left and opened again, a new data source, another tab.
LEMMA SubOutsideKeeps ==
    ASSUME SubInv, Console!Leave \/ Console!Heartbeat \/ Console!OtherTab
    PROVE  SubInv'
<1>0. /\ Console!TypeOK /\ sWs \in SubRows /\ sList \in SubRows /\ sDialogue \in 0..MaxDialogues
      /\ sDraft \in SubDrafts /\ sCustom \in BOOLEAN /\ SubFine(sUi)
      /\ DraftOk(sUi.screen, sDraft, sCustom, sDialogue)
      /\ Console!Text(Console!Opened) \in SubMessages
  BY SubTyped, SubOpened, SubTextTyped DEF SubInv
<1>1. CASE Console!Leave
  <2>1. "menu" \notin Console!Creating /\ Console!Opened.screen = "menu"
    BY SubScreens, SubOpened
  <2>2. DraftOk(Console!Opened.screen, sDraft', sCustom', sDialogue')
    BY <2>1, DraftPlain
  <2> QED BY <1>0, <1>1, <2>1, <2>2, SubOpened, SubWritesKeeps DEF Console!Leave
<1>2. CASE Console!Heartbeat
  <2>1. /\ sScenario.beats /\ sList' = sWs /\ sPrompt' \in SubMessages
        /\ UNCHANGED <<sScenario, sWs, sUi, sDraft, sCustom, sDialogue>>
    BY <1>0, <1>2 DEF Console!Heartbeat
  <2>2. Console!TypeOK'
    BY <1>0, <2>1 DEF Console!TypeOK, SubMessages, SubRows, SubIds
  <2>3. SubFine(sUi)' /\ DraftOk(sUi.screen, sDraft, sCustom, sDialogue)' /\ sScenario'.beats
    BY <1>0, <2>1 DEF SubFine, DraftOk, Asked, Collected
  <2> QED BY <2>2, <2>3 DEF SubInv
<1>3. CASE Console!OtherTab
  <2>1. PICK s \in Console!Known(sWs), to \in {"active", "cancelled", "gone"} :
             sWs' = [sWs EXCEPT ![s] = to]
    BY <1>3 DEF Console!OtherTab
  <2>2. sWs' \in SubRows
    BY <1>0, <2>1 DEF SubRows, Console!Statuses, Console!Absent
  <2>3. UNCHANGED <<sScenario, sList, sUi, sDraft, sCustom, sDialogue, sPrompt>>
    BY <1>3 DEF Console!OtherTab
  <2>4. Console!TypeOK'
    BY <1>0, <2>2, <2>3 DEF Console!TypeOK, SubRows, SubIds
  <2> QED
    BY <1>0, <2>3, <2>4 DEF SubInv, SubFine, DraftOk, Asked, Collected, Console!PromptMatches,
       Console!Text, Console!Page, Console!filteredSubscriptions, Console!Known
<1> QED BY <1>1, <1>2, <1>3

\* The component goes on to another screen outside of the dialogues.
LEMMA SubOnKeeps ==
    ASSUME SubInv, NEW x \in Console!Screens \ Console!Creating,
           x \in {"detail", "cancel-confirm"} => sUi.sel # Console!None,
           \/ Console!Goes(Console!On(x))
           \/ Console!Goes([Console!On(x) EXCEPT !.field = TRUE])
           \/ Console!Goes([Console!On(x) EXCEPT !.payload = TRUE])
    PROVE  SubInv'
<1>1. CASE Console!Goes(Console!On(x))
  BY <1>1, SubStates, SubGoesKeeps
<1>2. CASE Console!Goes([Console!On(x) EXCEPT !.field = TRUE])
  BY <1>2, SubStates, SubGoesKeeps
<1>3. CASE Console!Goes([Console!On(x) EXCEPT !.payload = TRUE])
  BY <1>3, SubStates, SubGoesKeeps
<1> QED BY <1>1, <1>2, <1>3

\* The menu begins a dialogue with nothing.
LEMMA SubMenuChoiceKeeps ==
    ASSUME SubInv, Console!MenuChoice
    PROVE  SubInv'
<1>1. CASE Console!goList
  BY <1>1, SubListKeeps
<1>2. CASE Console!Goes(Console!On("filter"))
  BY <1>2, SubScreens, SubOnKeeps
<1>3. CASE /\ sDialogue < sScenario.dialogues /\ sDialogue' = sDialogue + 1
           /\ sDraft' = Console!NoDraft /\ sCustom' = FALSE
           /\ Console!Writes(Console!On("create-client"))
  <2> DEFINE n == Console!On("create-client")
  <2>0. Console!TypeOK /\ sScenario.dialogues \in 0..MaxDialogues /\ sDialogue \in 0..MaxDialogues
        /\ sWs \in SubRows /\ sList \in SubRows
    BY SubTyped, SubParams DEF SubInv
  <2>1. sDialogue' \in 0..MaxDialogues /\ sDialogue' >= 1
    BY <1>3, <2>0, SubParams
  <2>2. "create-client" \in Console!Screens /\ "create-client" = Console!Creation[1]
        /\ "create-client" # "create-confirm"
    BY SubScreens, Questionnaire DEF Console!Creating
  <2>3. SubFine(n) /\ n.screen = "create-client"
    BY <2>2, SubStates
  <2> HIDE DEF n
  <2>4. Asked(1, sDraft', sCustom', sDialogue')
    BY <1>3, <2>1, SubOpened, Questionnaire DEF Asked
  <2>5. DraftOk(n.screen, sDraft', sCustom', sDialogue')
    <3>1. \A i \in 1..10 : Console!Creation[i] = "create-client" => i = 1
      BY <2>2, Questionnaire
    <3> QED BY <2>2, <2>3, <2>4, <3>1 DEF DraftOk
  <2>6. /\ sUi' = n /\ sPrompt' = Console!Text(n) /\ UNCHANGED <<sScenario, sWs, sList>>
    BY <1>3 DEF Console!Writes, n
  <2> QED BY <1>3, <2>0, <2>1, <2>3, <2>5, <2>6, SubOpened, SubWritesKeeps
<1> QED BY <1>1, <1>2, <1>3 DEF Console!MenuChoice

\* Filters, pages and the choice of a subscription.
LEMMA SubListsKeep ==
    ASSUME SubInv, Console!FilterChoice \/ Console!Advance \/ Console!Select
    PROVE  SubInv'
<1>0. /\ Console!TypeOK /\ sUi \in SubUi /\ sUi.page \in 0..Subscriptions /\ Subscriptions \in Nat
      /\ "list" \in Console!Screens \ Console!Creating /\ "detail" \in Console!Screens \ Console!Creating
  BY SubScreens, SubParams DEF SubInv, SubFine, SubUi
<1>1. CASE Console!FilterChoice
  <2>1. PICK f \in Console!Statuses \cup {"all"} :
             Console!Goes([Console!On("list") EXCEPT !.filter = f, !.page = 0])
    BY <1>1 DEF Console!FilterChoice
  <2> QED BY <1>0, <2>1, SubStates, SubGoesKeeps
<1>2. CASE Console!Advance
  <2> DEFINE n == [sUi EXCEPT !.page = @ + 1]
             e == Console!filteredSubscriptions(sUi)
  <2>1. e \in Seq(SubIds) /\ Len(e) \in 0..Subscriptions
    BY <1>0, FilterMeans
  <2>2. sUi.screen = "list" /\ sUi.page < Console!LastPage(e) /\ Console!Goes(n)
    BY <1>2 DEF Console!Advance
  <2> HIDE DEF e
  <2>3. Console!LastPage(e) \in 0..Subscriptions
    BY <1>0, <2>1, SubPageMeans
  <2>4. sUi.page + 1 \in 0..Subscriptions
    BY <1>0, <2>2, <2>3
  <2>5. n \in SubUi /\ n.screen = "list"
    BY <1>0, <2>2, <2>4 DEF SubUi
  <2> HIDE DEF n
  <2> QED BY <1>0, <2>2, <2>5, SubGoesKeeps DEF SubFine
<1>3. CASE Console!Select
  <2>1. PICK s \in Console!ToSet(Console!Page(Console!filteredSubscriptions(sUi), sUi.page)) :
             Console!Goes([Console!On("detail") EXCEPT !.sel = s])
    BY <1>3 DEF Console!Select
  <2> DEFINE e == Console!filteredSubscriptions(sUi)
             n == [Console!On("detail") EXCEPT !.sel = s]
  <2>2. Console!Page(e, sUi.page) \in Seq(SubIds)
    BY <1>0, FilterMeans, SubPageMeans
  <2>3. s \in SubIds /\ s # Console!None
    <3> DEFINE q == Console!Page(e, sUi.page)
    <3>1. q \in Seq(SubIds) /\ s \in ToSet(q)
      BY <2>1, <2>2, SubSame
    <3> HIDE DEF q
    <3>2. s \in SubIds
      BY <3>1 DEF ToSet
    <3> QED BY <3>2, SubParams DEF Console!None
  <2>4. n \in SubUi /\ n.screen = "detail" /\ n.sel = s
    BY <1>0, <2>3 DEF Console!On, SubUi
  <2> HIDE DEF n
  <2>5. Console!Goes(n)
    BY <2>1 DEF n
  <2> QED BY <1>0, <2>3, <2>4, <2>5, SubGoesKeeps DEF SubFine
<1> QED BY <1>1, <1>2, <1>3

\* The workspace is changed and the details are written.
LEMMA SubCompletesKeeps ==
    ASSUME SubInv, NEW w \in SubRows, NEW n, SubFine(n), n.screen \notin Console!Creating \cup {"list"},
           Console!Completes(w, n),
           sDialogue' \in 0..MaxDialogues, sDraft' \in SubDrafts, sCustom' \in BOOLEAN
    PROVE  SubInv'
<1>1. /\ sWs' = w /\ sList' = w /\ sUi' = n /\ sPrompt' = Console!Text(n) /\ UNCHANGED sScenario
  BY DEF Console!Completes
<1>2. DraftOk(n.screen, sDraft', sCustom', sDialogue')
  BY DraftPlain
<1> QED BY <1>1, <1>2, SubWritesKeeps

\* A subscription is cancelled, renewed, reactivated or edited.
LEMMA SubLifecycleKeeps ==
    ASSUME SubInv, (\E to \in Console!Statuses : Console!lifecycle(to)) \/ Console!saveEdit
    PROVE  SubInv'
<1>0. /\ sWs \in SubRows /\ sDialogue \in 0..MaxDialogues /\ sDraft \in SubDrafts
      /\ sCustom \in BOOLEAN /\ "detail" \in Console!Screens
      /\ "detail" \notin Console!Creating \cup {"list"}
  BY SubTyped, SubScreens DEF SubInv
<1>1. CASE Console!goMenu
  BY <1>1, SubMenuKeeps
<1>2. CASE Console!Stays
  BY <1>2, SubStaysKeeps
<1>3. ASSUME NEW to \in Console!Statuses, sUi.sel # Console!None, sUi.sel \in Console!Known(sWs),
             Console!Completes([sWs EXCEPT ![sUi.sel] = to], Console!On("detail")),
             UNCHANGED Console!Drafts
      PROVE  SubInv'
  <2>1. [sWs EXCEPT ![sUi.sel] = to] \in SubRows
    BY <1>0, <1>3 DEF SubRows
  <2>2. SubFine(Console!On("detail")) /\ Console!On("detail").screen = "detail"
    BY <1>0, <1>3, SubStates
  <2>3. sDialogue' \in 0..MaxDialogues /\ sDraft' \in SubDrafts /\ sCustom' \in BOOLEAN
    BY <1>0, <1>3 DEF Console!Drafts
  <2> QED BY <1>0, <1>3, <2>1, <2>2, <2>3, SubCompletesKeeps
<1>4. ASSUME sUi.sel # Console!None,
             Console!Completes(sWs, [Console!On("detail") EXCEPT !.payload = FALSE]),
             UNCHANGED Console!Drafts
      PROVE  SubInv'
  <2> DEFINE n == [Console!On("detail") EXCEPT !.payload = FALSE]
  <2>1. SubFine(n) /\ n.screen = "detail"
    BY <1>0, <1>4, SubStates
  <2>2. sDialogue' \in 0..MaxDialogues /\ sDraft' \in SubDrafts /\ sCustom' \in BOOLEAN
    BY <1>0, <1>4 DEF Console!Drafts
  <2>3. Console!Completes(sWs, n)
    BY <1>4
  <2> HIDE DEF n
  <2> QED BY <1>0, <2>1, <2>2, <2>3, SubCompletesKeeps
<1> QED BY <1>1, <1>2, <1>3, <1>4 DEF Console!lifecycle, Console!saveEdit

\* One subscription.
LEMMA SubDetailKeeps ==
    ASSUME SubInv, Console!Detail \/ Console!CancelConfirm \/ Console!LifecycleDuration
                   \/ Console!LifecycleExpiry
    PROVE  SubInv'
<1>0. "active" \in Console!Statuses /\ "cancelled" \in Console!Statuses
  BY DEF Console!Statuses
<1>1. CASE Console!Detail
  <2>1. CASE Console!goMenu
    BY <2>1, SubMenuKeeps
  <2>2. CASE Console!Stays
    BY <2>2, SubStaysKeeps
  <2>3. ASSUME NEW x \in {"edit-fields", "reactivate-duration", "renew-duration", "cancel-confirm"},
               Console!selected, Console!Goes(Console!On(x))
        PROVE  SubInv'
    <3>1. sUi.sel # Console!None
      BY <2>3, SubParams DEF Console!selected, Console!Known, Console!None, SubIds
    <3>2. x \in Console!Screens \ Console!Creating
      BY SubScreens
    <3> QED BY <2>3, <3>1, <3>2, SubOnKeeps
  <2> QED BY <1>1, <2>1, <2>2, <2>3 DEF Console!Detail
<1>2. CASE \E to \in Console!Statuses : Console!lifecycle(to)
  BY <1>2, SubLifecycleKeeps
<1>3. CASE Console!Goes(Console!On("renew-expiry")) \/ Console!Goes(Console!On("reactivate-expiry"))
  <2>1. /\ "renew-expiry" \in Console!Screens \ Console!Creating
        /\ "reactivate-expiry" \in Console!Screens \ Console!Creating
    BY SubScreens
  <2> QED BY <1>3, <2>1, SubOnKeeps
<1> QED
  BY <1>0, <1>1, <1>2, <1>3 DEF Console!CancelConfirm, Console!LifecycleDuration, Console!LifecycleExpiry

\* Edits.
LEMMA SubEditsKeep ==
    ASSUME SubInv, Console!EditFields \/ Console!EditChoice \/ Console!EditLost
    PROVE  SubInv'
<1>1. CASE Console!goMenu
  BY <1>1, SubMenuKeeps
<1>2. CASE Console!saveEdit
  BY <1>2, SubLifecycleKeeps
<1>3. CASE Console!EditFields
  <2>1. ASSUME NEW x \in {"edit-client", "edit-service", "edit-plan", "edit-duration"},
               Console!Goes(Console!On(x))
        PROVE  SubInv'
    <3>1. x \in Console!Screens \ Console!Creating
      BY SubScreens
    <3> QED BY <2>1, <3>1, SubOnKeeps
  <2>2. CASE Console!Goes([Console!On("edit-value") EXCEPT !.field = TRUE])
    <3>1. "edit-value" \in Console!Screens \ Console!Creating
      BY SubScreens
    <3> QED BY <2>2, <3>1, SubOnKeeps
  <2> QED BY <1>3, <2>1, <2>2 DEF Console!EditFields
<1>4. CASE Console!EditChoice
  <2>1. CASE Console!Goes(Console!On("edit-duration-expiry"))
    <3>1. "edit-duration-expiry" \in Console!Screens \ Console!Creating
      BY SubScreens
    <3> QED BY <2>1, <3>1, SubOnKeeps
  <2>2. CASE Console!Goes([Console!On("edit-service-plan") EXCEPT !.payload = TRUE])
    <3>1. "edit-service-plan" \in Console!Screens \ Console!Creating
      BY SubScreens
    <3> QED BY <2>2, <3>1, SubOnKeeps
  <2> QED BY <1>1, <1>2, <1>4, <2>1, <2>2 DEF Console!EditChoice
<1> QED BY <1>1, <1>3, <1>4 DEF Console!EditLost

\* "9".
LEMMA SubBackKeeps ==
    ASSUME SubInv, Console!Back
    PROVE  SubInv'
<1>1. CASE Console!Leave
  BY <1>1, SubOutsideKeeps
<1>2. CASE Console!goMenu
  BY <1>2, SubMenuKeeps
<1>3. CASE Console!goList
  BY <1>3, SubListKeeps
<1>4. CASE Console!selected /\ Console!Goes(Console!On("detail"))
  <2>1. sUi.sel # Console!None
    BY <1>4, SubParams DEF Console!selected, Console!Known, Console!None, SubIds
  <2>2. "detail" \in Console!Screens \ Console!Creating
    BY SubScreens
  <2> QED BY <1>4, <2>1, <2>2, SubOnKeeps
<1>5. CASE Console!Stays
  BY <1>5, SubStaysKeeps
<1>6. CASE Console!lifecycle("active")
  BY <1>6, SubLifecycleKeeps DEF Console!Statuses
<1> QED BY <1>1, <1>2, <1>3, <1>4, <1>5, <1>6 DEF Console!Back

\* The new subscription is saved.
LEMMA SubSaveKeeps ==
    ASSUME SubInv, Console!saveCreate
    PROVE  SubInv'
<1>1. PICK s \in SubIds : Console!Completes([sWs EXCEPT ![s] = "active"], Console!On("menu"))
  BY DEF Console!saveCreate, SubIds
<1>2. /\ [sWs EXCEPT ![s] = "active"] \in SubRows /\ sDialogue' \in 0..MaxDialogues
      /\ sDraft' \in SubDrafts /\ sCustom' \in BOOLEAN
  BY SubTyped, SubOpened DEF SubInv, Console!saveCreate, SubRows, Console!Statuses
<1>3. /\ SubFine(Console!On("menu")) /\ Console!On("menu").screen = "menu"
      /\ "menu" \notin Console!Creating \cup {"list"}
  BY SubScreens, SubStates
<1> QED BY <1>1, <1>2, <1>3, SubCompletesKeeps

\* The answer to question i: the draft as the next question, or the
\* confirmation, finds it.
LEMMA SubCreateKeeps ==
    ASSUME SubInv, Console!handleCreate
    PROVE  SubInv'
<1>1. PICK i \in 1..10 :
        /\ sUi.screen = Console!Creation[i]
        /\ \E from \in {sDialogue} \cup {0 : f \in Console!Optional \cap {Console!Creation[i]}} :
             sDraft' = [sDraft EXCEPT ![Console!Creation[i]] = from]
        /\ sCustom' \in IF sUi.screen = "create-duration" THEN BOOLEAN ELSE {sCustom}
        /\ Console!Writes(Console!On(Console!Following(i)))
  BY Questionnaire DEF Console!handleCreate
<1>2. PICK from \in {sDialogue} \cup {0 : f \in Console!Optional \cap {Console!Creation[i]}} :
             sDraft' = [sDraft EXCEPT ![Console!Creation[i]] = from]
  BY <1>1
<1>3. /\ sWs \in SubRows /\ sList \in SubRows /\ sDialogue \in 0..MaxDialogues
      /\ sDraft \in SubDrafts /\ sCustom \in BOOLEAN /\ MaxDialogues \in Nat
      /\ Asked(i, sDraft, sCustom, sDialogue) /\ sDialogue' = sDialogue
  BY <1>1, SubTyped, SubParams DEF SubInv, DraftOk, Console!handleCreate
<1>4. from = sDialogue \/ (from = 0 /\ Console!Creation[i] \in Console!Optional)
  OBVIOUS
<1>5. sDraft' \in SubDrafts /\ sCustom' \in BOOLEAN
  <2>1. sCustom' \in BOOLEAN
    BY <1>1, <1>3
  <2>2. from \in 0..MaxDialogues
    BY <1>3, <1>4
  <2>3. sDraft' \in SubDrafts
    BY <1>2, <1>3, <2>2 DEF SubDrafts
  <2> QED BY <2>1, <2>3
<1>6. /\ sDraft'[Console!Creation[i]] = from
      /\ \A j \in 1..10 : j # i => sDraft'[Console!Creation[j]] = sDraft[Console!Creation[j]]
  BY <1>2, <1>3, Questionnaire DEF SubDrafts
<1>7. sCustom' = sCustom \/ i = 8
  BY <1>1, Questionnaire
<1>8. /\ \A j \in 1..10 : j < i + 1 =>
           \/ sDraft'[Console!Creation[j]] = sDialogue'
           \/ Console!Creation[j] \in Console!Optional /\ sDraft'[Console!Creation[j]] = 0
      /\ \A j \in 1..10 : j >= i + 1 => sDraft'[Console!Creation[j]] = 0
      /\ sDialogue' >= 1
  BY <1>3, <1>4, <1>6 DEF Asked
<1> DEFINE x == Console!Following(i)
           n == Console!On(x)
<1>9. CASE i # 10 /\ ~(Console!Creation[i] = "create-start" /\ ~sCustom)
  <2>1. i + 1 \in 1..10 /\ x = Console!Creation[i + 1]
    BY <1>9, Questionnaire DEF Console!Following
  <2>2. (i + 1 <= 8 => ~sCustom') /\ (i + 1 = 10 => sCustom')
    <3>1. i + 1 <= 8 => ~sCustom'
      BY <1>3, <1>7 DEF Asked
    <3>2. i + 1 = 10 => sCustom
      BY <1>9, Questionnaire
    <3> QED BY <1>7, <3>1, <3>2
  <2>3. Asked(i + 1, sDraft', sCustom', sDialogue')
    BY <1>8, <2>1, <2>2 DEF Asked
  <2>4. x \in Console!Screens /\ x # "create-confirm" /\ x \notin {"list", "detail", "cancel-confirm"}
    BY <2>1, SubScreens, Questionnaire DEF Console!Creating
  <2>5. DraftOk(x, sDraft', sCustom', sDialogue')
    BY <2>1, <2>3, <2>4, Questionnaire DEF DraftOk
  <2> HIDE DEF x
  <2>6. SubFine(n) /\ n.screen = x
    BY <2>4, SubStates
  <2>7. sUi' = n /\ sPrompt' = Console!Text(n) /\ UNCHANGED <<sScenario, sWs, sList>>
    BY <1>1 DEF Console!Writes, x
  <2> HIDE DEF n
  <2> QED BY <1>3, <1>5, <2>4, <2>5, <2>6, <2>7, SubWritesKeeps
<1>10. CASE i = 10 \/ (Console!Creation[i] = "create-start" /\ ~sCustom)
  <2>1. x = "create-confirm" /\ (i = 10 \/ i = 9)
    BY <1>10, Questionnaire DEF Console!Following
  <2>2. x \in Console!Screens /\ x \notin Console!Fields
    BY <2>1, SubScreens, Questionnaire DEF Console!Creating
  <2>3. sDraft'["create-expiry"] = sDialogue' <=> sCustom'
    <3>1. CASE i = 10
      <4>1. sCustom' = sCustom /\ sCustom /\ Console!Creation[10] \notin Console!Optional
        BY <1>3, <1>7, <3>1, Questionnaire DEF Asked, Console!Optional
      <4> QED BY <1>8, <3>1, <4>1, Questionnaire
    <3>2. CASE i = 9 /\ ~sCustom
      BY <1>7, <1>8, <3>2, Questionnaire
    <3> QED BY <1>10, <2>1, <3>1, <3>2
  <2>4. \A f \in Console!Fields : sDraft'[f] \in {0, sDialogue'}
    BY <1>8, Questionnaire
  <2>5. ASSUME NEW f \in Console!Required PROVE sDraft'[f] = sDialogue'
    <3>1. PICK j \in 1..10 : f = Console!Creation[j] /\ f \notin Console!Optional /\ f # "create-expiry"
      BY Questionnaire DEF Console!Required
    <3>2. j # 10
      BY <3>1, Questionnaire
    <3> QED BY <1>8, <2>1, <3>1, <3>2
  <2>6. DraftOk(x, sDraft', sCustom', sDialogue')
    BY <2>1, <2>2, <2>3, <2>4, <2>5, Questionnaire DEF DraftOk, Collected
  <2> HIDE DEF x
  <2>7. SubFine(n) /\ n.screen = x /\ x # "list"
    BY <2>1, <2>2, SubStates
  <2>8. sUi' = n /\ sPrompt' = Console!Text(n) /\ UNCHANGED <<sScenario, sWs, sList>>
    BY <1>1 DEF Console!Writes, x
  <2> HIDE DEF n
  <2> QED BY <1>3, <1>5, <2>6, <2>7, <2>8, SubWritesKeeps
<1> QED BY <1>9, <1>10

LEMMA SubInit ==
    ASSUME Console!Init
    PROVE  SubInv
<1>1. /\ sScenario \in SubscriptionScenarios /\ sWs \in SubRows /\ sList = sWs /\ sUi = Console!Opened
      /\ sPrompt = Console!Text(Console!Opened) /\ sDraft = Console!NoDraft /\ sCustom = FALSE
      /\ sDialogue = 0 /\ 0 \in 0..MaxDialogues
  BY SubParams DEF Console!Init, SubRows, SubIds, Console!Absent
<1>2. Console!Text(Console!Opened) = [screen |-> "menu", items |-> <<>>]
  BY SubOpened DEF Console!Text
<1>3. [screen |-> "menu", items |-> <<>>] \in SubMessages
  BY SubScreens DEF SubMessages
<1>4. Console!TypeOK
  BY <1>1, <1>2, <1>3, SubOpened, SubTyped DEF SubFine
<1>5. "menu" \notin Console!Creating
  BY SubScreens
<1>6. DraftOk(sUi.screen, sDraft, sCustom, sDialogue)
  BY <1>1, <1>5, SubOpened, DraftPlain
<1> QED BY <1>1, <1>4, <1>6, SubOpened DEF SubInv, Console!PromptMatches

LEMMA SubStep ==
    ASSUME SubInv, [Console!Next]_(Console!vars)
    PROVE  SubInv'
<1>1. CASE UNCHANGED Console!vars
  BY <1>1, SubStaysKeeps DEF Console!Stays
<1>2. CASE Console!Leave \/ Console!Heartbeat \/ Console!OtherTab
  BY <1>2, SubOutsideKeeps
<1>3. CASE Console!MenuChoice \/ Console!FilterChoice \/ Console!Advance \/ Console!Select
  BY <1>3, SubMenuChoiceKeeps, SubListsKeep
<1>4. CASE Console!Detail \/ Console!CancelConfirm \/ Console!LifecycleDuration \/ Console!LifecycleExpiry
  BY <1>4, SubDetailKeeps
<1>5. CASE Console!EditFields \/ Console!EditChoice \/ Console!EditLost
  BY <1>5, SubEditsKeep
<1>6. CASE Console!handleCreate \/ Console!saveCreate \/ Console!Back
  BY <1>6, SubCreateKeeps, SubSaveKeeps, SubBackKeeps
<1> QED BY <1>1, <1>2, <1>3, <1>4, <1>5, <1>6 DEF Console!Next

LEMMA SubRuns == [MCNext]_MCvars => [Console!Next]_(Console!vars)
BY DEF MCNext, MCvars, sVars, Console!vars

\* The formulas of OnlyTheNamed and ChosenWasListed about one step.
SubNamed ==
    Console!CancelConfirm /\ ~sScenario.beats =>
      \A s \in Console!Ids : sWs'[s] # sWs[s] => s \in Console!ToSet(sPrompt.items)
SubListed ==
    sUi.screen = "list" /\ sUi'.screen = "detail" /\ ~sScenario.beats
      => sUi'.sel \in Console!ToSet(sPrompt.items)

LEMMA SubNames ==
    ASSUME SubInv, Console!Next
    PROVE  SubNamed
<1>1. SUFFICES ASSUME Console!CancelConfirm, ~sScenario.beats,
                      NEW s \in Console!Ids, sWs'[s] # sWs[s]
               PROVE  s \in Console!ToSet(sPrompt.items)
  BY DEF SubNamed
<1>2. sPrompt.items = <<sUi.sel>> /\ sWs \in SubRows
  BY <1>1, SubTextTyped, SubTyped DEF SubInv, Console!CancelConfirm, Console!PromptMatches
<1>3. sWs' = sWs \/ sWs' = [sWs EXCEPT ![sUi.sel] = "cancelled"]
  BY <1>1 DEF Console!CancelConfirm, Console!lifecycle, Console!goMenu, Console!Goes, Console!Writes,
     Console!Stays, Console!vars, Console!Completes
<1>4. s = sUi.sel
  BY <1>1, <1>2, <1>3 DEF SubRows, SubIds
<1> QED BY <1>2, <1>4 DEF Console!ToSet

LEMMA SubLists ==
    ASSUME SubInv, Console!Next
    PROVE  SubListed
<1>1. SUFFICES ASSUME sUi.screen = "list", sUi'.screen = "detail", ~sScenario.beats
               PROVE  sUi'.sel \in Console!ToSet(sPrompt.items)
  BY DEF SubListed
<1>2. sPrompt.items = Console!Page(Console!filteredSubscriptions(sUi), sUi.page) /\ sUi \in SubUi
  BY <1>1, SubTextTyped, SubTyped DEF SubInv, Console!PromptMatches
<1>3. \A n : Console!Goes(n) => sUi' = n
  BY DEF Console!Goes, Console!Writes
<1>4. "list" \notin Console!Creating /\ Console!Opened.screen = "menu"
  BY SubScreens, SubOpened
<1>5. Console!Select
  <2>1. ~Console!Leave /\ ~Console!Heartbeat /\ ~Console!OtherTab
    BY <1>1, <1>4 DEF Console!Leave, Console!Heartbeat, Console!OtherTab
  <2>2. ~Console!MenuChoice /\ ~Console!FilterChoice /\ ~Console!Detail /\ ~Console!CancelConfirm
        /\ ~Console!LifecycleDuration /\ ~Console!LifecycleExpiry /\ ~Console!EditFields
    BY <1>1 DEF Console!MenuChoice, Console!FilterChoice, Console!Detail, Console!CancelConfirm,
       Console!LifecycleDuration, Console!LifecycleExpiry, Console!EditFields
  <2>3. ~Console!EditChoice /\ ~Console!EditLost
    BY <1>1 DEF Console!EditChoice, Console!EditLost, Console!Editing
  <2>4. ~Console!handleCreate /\ ~Console!saveCreate
    BY <1>1, <1>4, Questionnaire DEF Console!handleCreate, Console!saveCreate, Console!Creating
  <2>5. ~Console!Advance
    <3>1. ASSUME Console!Advance PROVE FALSE
      <4>1. sUi' = [sUi EXCEPT !.page = @ + 1]
        BY <1>3, <3>1 DEF Console!Advance
      <4>2. sUi'.screen = sUi.screen
        BY <1>2, <4>1 DEF SubUi
      <4> QED BY <1>1, <4>2
    <3> QED BY <3>1
  <2>6. ~Console!Back
    <3>1. ASSUME Console!goMenu PROVE FALSE
      <4>1. sUi' = Console!Cleared
        BY <1>3, <3>1 DEF Console!goMenu
      <4>2. sUi'.screen = "menu"
        BY <1>2, <4>1 DEF Console!Cleared, SubUi
      <4> QED BY <1>1, <4>2
    <3> QED BY <1>1, <3>1 DEF Console!Back, Console!Editing, Console!Lifecycle
  <2> QED BY <2>1, <2>2, <2>3, <2>4, <2>5, <2>6 DEF Console!Next
<1>6. PICK s \in Console!ToSet(Console!Page(Console!filteredSubscriptions(sUi), sUi.page)) :
           Console!Goes([Console!On("detail") EXCEPT !.sel = s])
  BY <1>5 DEF Console!Select
<1>7. sUi' = [Console!On("detail") EXCEPT !.sel = s]
  BY <1>3, <1>6
<1>8. sUi'.sel = s
  BY <1>2, <1>7 DEF Console!On, SubUi
<1> QED BY <1>2, <1>6, <1>8

\* For any workspaces, pages, subscriptions and dialogues, in every scenario:
\* without heartbeats the screen of a console reads the message that was written
\* last, with the entries beside its numbers, and a dialogue confirms the answers
\* of this dialogue alone.
THEOREM PromptsAlwaysMatch == MCSpec => []PromptsMatch
<1>1. MCInit => AdminInv /\ SubInv
  BY AdminInit, SubInit DEF MCInit
<1>2. AdminInv /\ SubInv /\ [MCNext]_MCvars => AdminInv' /\ SubInv'
  BY AdminRuns, AdminStep, SubRuns, SubStep
<1>3. AdminInv /\ SubInv => PromptsMatch
  BY DEF AdminInv, SubInv, PromptsMatch, Console!NothingLeftOver, DraftOk, Collected
<1> QED BY <1>1, <1>2, <1>3, PTL DEF MCSpec

\* For any workspaces, pages and dialogues: what a confirmation removes, cancels
\* or switches off was named by the last message, an active client is not
\* deleted, "9" leads towards the menu, and the number of a list chooses what was
\* beside it.
THEOREM ConsolesAlwaysAct == MCSpec => ConsolesAct
<1>1. MCInit => AdminInv /\ SubInv
  BY AdminInit, SubInit DEF MCInit
<1>2. AdminInv /\ SubInv /\ [MCNext]_MCvars => AdminInv' /\ SubInv'
  BY AdminRuns, AdminStep, SubRuns, SubStep
<1>3. AdminInv /\ [MCNext]_MCvars => [KeepsActive]_vars /\ [LeadsBack]_vars /\ [NamedOnly]_vars
  BY AdminNames, AdminKeepsActive, AdminLeads DEF KeepsActive, LeadsBack, NamedOnly
<1>4. SubInv /\ [MCNext]_MCvars => [SubNamed]_(Console!vars) /\ [SubListed]_(Console!vars)
  BY SubRuns, SubNames, SubLists
<1>5. MCSpec => [][KeepsActive]_vars /\ [][LeadsBack]_vars /\ [][NamedOnly]_vars
  BY <1>1, <1>2, <1>3, PTL DEF MCSpec
<1>6. MCSpec => [][SubNamed]_(Console!vars) /\ [][SubListed]_(Console!vars)
  BY <1>1, <1>2, <1>4, PTL DEF MCSpec
<1> QED
  BY <1>5, <1>6 DEF ConsolesAct, ActiveIsKept, BackLeads, OnlyTheNamed, KeepsActive, LeadsBack,
     NamedOnly, Console!OnlyTheNamed, Console!ChosenWasListed, SubNamed, SubListed
=============================================================================
