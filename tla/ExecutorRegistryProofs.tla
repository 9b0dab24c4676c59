----------------------- MODULE ExecutorRegistryProofs -----------------------
(***************************************************************************)
(* Proofs about ExecutorRegistry for any number of overlapping requests.   *)
(* A request writes from the row it loaded, so the invariant speaks of     *)
(* every loaded row as well as of the stored one: none of them is active   *)
(* or verified unless a challenge has passed.  Flush mixes two rows column *)
(* by column, which is why the two columns are constrained separately.     *)
(* That versions do not outnumber the secrets issued keeps them typed.     *)
(***************************************************************************)
EXTENDS MCExecutorRegistry, TLAPS

USE RegistryAssumption

Earned(r) == r.lifecycle = "active" \/ r.verified => passed # {}

Trusted(s) == s = 1 \/ \E u \in Urls : <<u, s>> \in passed

Numbered(r) == r.version <= issued /\ r.pendingVersion <= issued

Inv ==
    /\ TypeOK
    /\ Earned(row) /\ Earned(dispatch.loaded)
    /\ \A c \in Callers : Earned(request[c].loaded)
    /\ Numbered(row) /\ Numbered(dispatch.loaded)
    /\ \A c \in Callers : Numbered(request[c].loaded)
    /\ Trusted(row.secret)

-----------------------------------------------------------------------------
(* Rows *)

\* A blank row is a row, and earns nothing.
LEMMA BlankRow ==
    /\ Blank \in Rows /\ Blank.lifecycle = "draft" /\ ~Blank.verified
    /\ Blank.version = 1 /\ Blank.pendingVersion = 0
<1>1. (CHOOSE u \in Urls : TRUE) \in Urls
  OBVIOUS
<1>2. QED
  BY <1>1 DEF Blank, Draft, Rows, Secrets, Versions

\* What Flush writes is, column by column, the new row or the stored one.
LEMMA FlushColumns ==
    ASSUME row \in Rows, NEW loaded \in Rows, NEW new \in Rows,
           NEW fresh, Flush(loaded, new, fresh)
    PROVE  /\ row' \in Rows
           /\ row'.lifecycle \in {row.lifecycle, new.lifecycle}
           /\ row'.verified \in {row.verified, new.verified}
           /\ row'.version \in {row.version, new.version}
           /\ row'.pendingVersion \in {row.pendingVersion, new.pendingVersion}
           /\ new.secret = loaded.secret /\ "secret" \notin fresh
                => row'.secret = row.secret
           /\ new.secret # loaded.secret => row'.secret = new.secret
<1>1. DOMAIN row = {"url", "lifecycle", "health", "requires", "verified",
                    "secret", "version", "pending", "pendingVersion"}
  BY DEF Rows
<1>2. row' = [url |-> row'.url, lifecycle |-> row'.lifecycle,
              health |-> row'.health, requires |-> row'.requires,
              verified |-> row'.verified, secret |-> row'.secret,
              version |-> row'.version, pending |-> row'.pending,
              pendingVersion |-> row'.pendingVersion]
  BY <1>1, Zenon DEF Flush
<1>3. /\ row'.url \in {row.url, new.url}
      /\ row'.lifecycle \in {row.lifecycle, new.lifecycle}
      /\ row'.health \in {row.health, new.health}
      /\ row'.requires \in {row.requires, new.requires}
      /\ row'.verified \in {row.verified, new.verified}
      /\ row'.secret \in {row.secret, new.secret}
      /\ row'.version \in {row.version, new.version}
      /\ row'.pending \in {row.pending, new.pending}
      /\ row'.pendingVersion \in {row.pendingVersion, new.pendingVersion}
  BY <1>1 DEF Flush
<1>4. row' \in Rows
  BY <1>2, <1>3 DEF Rows
<1>5. QED
  BY <1>1, <1>3, <1>4 DEF Flush

Requests == [kind: {"none", "update", "verify", "test", "enable", "disable",
                    "rotate", "delete", "deleting"},
             loaded: Rows, busy: BOOLEAN]

\* A flush keeps the part of the invariant that is about the stored row, when
\* what it writes has been earned by then and its secret is not a new one or
\* is trusted.
LEMMA FlushInv ==
    ASSUME Inv, NEW loaded \in Rows, NEW new \in Rows, NEW fresh,
           Flush(loaded, new, fresh), "secret" \notin fresh,
           passed \subseteq passed', issued' \in Nat, issued <= issued',
           new.version <= issued', new.pendingVersion <= issued',
           new.lifecycle = "active" \/ new.verified => passed' # {},
           \/ new.secret = loaded.secret
           \/ \E u \in Urls : <<u, new.secret>> \in passed'
    PROVE  /\ row' \in Rows /\ Earned(row)' /\ Trusted(row.secret)'
           /\ Numbered(row)'
<1>1. /\ row' \in Rows
      /\ row'.lifecycle \in {row.lifecycle, new.lifecycle}
      /\ row'.verified \in {row.verified, new.verified}
      /\ row'.version \in {row.version, new.version}
      /\ row'.pendingVersion \in {row.pendingVersion, new.pendingVersion}
      /\ new.secret = loaded.secret => row'.secret = row.secret
      /\ new.secret # loaded.secret => row'.secret = new.secret
  BY FlushColumns DEF Inv, TypeOK
<1>2. Earned(row)'
  <2>1. row.lifecycle = "active" \/ row.verified => passed # {}
    BY DEF Inv, Earned
  <2>2. QED
    BY <1>1, <2>1 DEF Earned
<1>3. Trusted(row.secret)'
  <2>1. CASE new.secret = loaded.secret
    BY <1>1, <2>1 DEF Inv, Trusted
  <2>2. CASE new.secret # loaded.secret
    BY <1>1, <2>2 DEF Trusted
  <2>3. QED
    BY <2>1, <2>2
<1>4. Numbered(row)'
  BY <1>1 DEF Inv, TypeOK, Rows, Versions, Numbered
<1>5. QED
  BY <1>1, <1>2, <1>3, <1>4

\* A request that ends forgets the row it loaded.
LEMMA DoneInv ==
    ASSUME Inv, NEW c \in Callers, Done(c), passed \subseteq passed',
           issued' \in Nat, issued <= issued'
    PROVE  /\ request' \in [Callers -> Requests]
           /\ \A d \in Callers : /\ Earned(request[d].loaded)'
                                 /\ Numbered(request[d].loaded)'
<1>1. NoRequest \in Requests /\ NoRequest.loaded = Blank
  BY BlankRow DEF NoRequest, Requests
<1>2. request \in [Callers -> Requests]
  BY DEF Inv, TypeOK, Requests
<1>3. request' = [request EXCEPT ![c] = NoRequest]
  BY DEF Done
<1>4. ASSUME NEW d \in Callers
      PROVE  Earned(request[d].loaded)' /\ Numbered(request[d].loaded)'
  <2>1. CASE d = c
    BY <1>1, <1>2, <1>3, <2>1, BlankRow DEF Earned, Numbered, Inv, TypeOK
  <2>2. CASE d # c
    <3>1. request'[d] = request[d] /\ request[d].loaded \in Rows
      BY <1>2, <1>3, <2>2 DEF Requests
    <3>2. Earned(request[d].loaded) /\ Numbered(request[d].loaded)
      BY DEF Inv
    <3>3. QED
      BY <3>1, <3>2 DEF Earned, Numbered, Rows, Versions, Inv, TypeOK
  <2>3. QED
    BY <2>1, <2>2
<1>5. QED
  BY <1>1, <1>2, <1>3, <1>4

\* A loaded row is a row.
LEMMA LoadedRow ==
    ASSUME TypeOK, NEW c \in Callers
    PROVE  L(c) \in Rows
BY DEF TypeOK, L

-----------------------------------------------------------------------------
(* The steps *)

Rest ==
    /\ deleted \in BOOLEAN /\ lease \in BOOLEAN /\ busy \in BOOLEAN
    /\ issued \in 1..MaxSecrets
    /\ deployed \in [Urls -> Secrets]
    /\ dispatch \in [on: BOOLEAN, loaded: Rows]
    /\ passed \subseteq (Urls \X Secrets)

\* A handler that flushes a row and ends keeps the invariant.
LEMMA HandlerInv ==
    ASSUME Inv, NEW c \in Callers, NEW new \in Rows, NEW fresh,
           Flush(L(c), new, fresh), "secret" \notin fresh, Done(c),
           passed \subseteq passed', issued' \in Nat, issued <= issued',
           new.version <= issued', new.pendingVersion <= issued',
           new.lifecycle = "active" \/ new.verified => passed' # {},
           \/ new.secret = L(c).secret
           \/ \E u \in Urls : <<u, new.secret>> \in passed',
           Rest', dispatch' = dispatch
    PROVE  Inv'
<1>1. row' \in Rows /\ Earned(row)' /\ Trusted(row.secret)' /\ Numbered(row)'
  BY FlushInv, LoadedRow DEF Inv
<1>2. /\ request' \in [Callers -> Requests]
      /\ \A d \in Callers : /\ Earned(request[d].loaded)'
                            /\ Numbered(request[d].loaded)'
  BY DoneInv
<1>3. Earned(dispatch.loaded)' /\ Numbered(dispatch.loaded)'
  BY DEF Inv, Earned, Numbered, TypeOK, Rows, Versions
<1>4. QED
  BY <1>1, <1>2, <1>3 DEF Inv, TypeOK, Rest, Requests

\* So do the handlers that leave the history alone and write no more than the
\* loaded row had earned.
LEMMA PlainHandlerInv ==
    ASSUME Inv, NEW c \in Callers, NEW new \in Rows,
           Flush(L(c), new, {}), Done(c),
           new.lifecycle = "active" => L(c).lifecycle = "active" \/ L(c).verified,
           new.verified => L(c).verified,
           new.secret = L(c).secret,
           new.version = L(c).version, new.pendingVersion <= issued',
           issued' \in 1..MaxSecrets, issued <= issued',
           UNCHANGED <<deleted, deployed, dispatch, lease, busy, passed>>
    PROVE  Inv'
<1>1. Rest'
  BY DEF Inv, TypeOK, Rest
<1>2. L(c).lifecycle = "active" \/ L(c).verified => passed' # {}
  BY DEF Inv, Earned, L
<1>3. L(c).version <= issued' /\ passed \subseteq passed' /\ issued' \in Nat
  BY DEF Inv, Numbered, L, TypeOK, Rows, Versions
<1>4. QED
  BY <1>1, <1>2, <1>3, HandlerInv

\* Every step of a request keeps the invariant.
LEMMA RequestInv ==
    ASSUME Inv, NEW c \in Callers, Handle(c)
    PROVE  Inv'
<1>0. /\ L(c) \in Rows /\ issued \in 1..MaxSecrets
      /\ L(c).version <= issued /\ L(c).pendingVersion <= issued
  BY LoadedRow DEF Inv, TypeOK, Numbered, L
<1>1. CASE update_lookup_executor(c)
  <2>1. PICK u \in Urls :
          Flush(L(c), IF u # L(c).url THEN Moved(L(c), u) ELSE L(c), {})
    BY <1>1 DEF update_lookup_executor
  <2> DEFINE new == IF u # L(c).url THEN Moved(L(c), u) ELSE L(c)
  <2>2. /\ new \in Rows /\ new.secret = L(c).secret
        /\ new.version = L(c).version /\ new.pendingVersion <= issued
        /\ new.lifecycle = "active" => L(c).lifecycle = "active"
        /\ new.verified => L(c).verified
    BY <1>0 DEF Moved, Rows
  <2> HIDE DEF new
  <2>3. QED
    BY <1>0, <1>1, <2>1, <2>2, PlainHandlerInv
       DEF update_lookup_executor, Inv, TypeOK, new
<1>2. CASE verify_passes(c)
  <2> DEFINE r == IF L(c).pending # 0 THEN Promoted(L(c))
                                      ELSE [L(c) EXCEPT !.requires = FALSE]
             new == [r EXCEPT !.verified = TRUE, !.lifecycle = "active",
                              !.health = "healthy"]
             proof == <<L(c).url, Key(L(c)).secret>>
  <2>1. Flush(L(c), new, {"verified"}) /\ passed' = passed \cup {proof}
    BY <1>2 DEF verify_passes
  <2>2. Key(L(c)).secret \in Secrets /\ L(c).url \in Urls
    BY <1>0 DEF Key, Rows
  <2>3. /\ r \in Rows /\ r.secret \in {L(c).secret, Key(L(c)).secret}
        /\ r.version <= issued /\ r.pendingVersion <= issued
    <3>1. CASE L(c).pending # 0
      <4>1. r = Promoted(L(c)) /\ 0 \in Secrets /\ 0 \in Versions /\ 0 <= issued
        BY <1>0, <3>1 DEF Secrets, Versions
      <4>2. QED
        BY <1>0, <3>1, <4>1 DEF Promoted, Key, Rows
    <3>2. CASE L(c).pending = 0
      <4>1. r = [L(c) EXCEPT !.requires = FALSE]
        BY <3>2
      <4>2. QED
        BY <1>0, <4>1 DEF Rows
    <3>3. QED
      BY <3>1, <3>2
  <2> HIDE DEF r
  <2>4. /\ new \in Rows /\ new.secret \in {L(c).secret, Key(L(c)).secret}
        /\ new.version <= issued /\ new.pendingVersion <= issued
    BY <2>3 DEF Rows
  <2>5. \/ new.secret = L(c).secret
        \/ \E u \in Urls : <<u, new.secret>> \in passed'
    BY <2>1, <2>2, <2>4
  <2>6. /\ Rest' /\ dispatch' = dispatch /\ Done(c) /\ issued' = issued
        /\ passed \subseteq passed' /\ passed' # {}
    <3>1. /\ dispatch' = dispatch /\ Done(c) /\ issued' = issued
          /\ UNCHANGED <<deleted, deployed, lease, busy>>
      BY <1>2 DEF verify_passes
    <3>2. /\ passed \subseteq passed' /\ passed' # {}
      BY <2>1
    <3>3. Rest /\ proof \in Urls \X Secrets
      BY <2>2 DEF Inv, TypeOK, Rest
    <3>4. passed' \subseteq (Urls \X Secrets)
      BY <2>1, <3>3 DEF Rest
    <3>5. QED
      BY <3>1, <3>2, <3>3, <3>4 DEF Rest
  <2> HIDE DEF new
  <2>7. QED
    BY <1>0, <2>1, <2>4, <2>5, <2>6, HandlerInv
<1>3. CASE challenge_fails(c)
  <2>1. /\ Quarantined(L(c)) \in Rows /\ Quarantined(L(c)).secret = L(c).secret
        /\ Quarantined(L(c)).version = L(c).version
        /\ Quarantined(L(c)).pendingVersion <= issued
        /\ Quarantined(L(c)).lifecycle = L(c).lifecycle
        /\ ~Quarantined(L(c)).verified
    BY <1>0 DEF Quarantined, Rows
  <2>2. QED
    BY <1>0, <1>3, <2>1, PlainHandlerInv DEF challenge_fails, Inv, TypeOK
<1>4. CASE test_passes(c)
  <2> DEFINE new == [L(c) EXCEPT !.health = "healthy"]
  <2>1. /\ new \in Rows /\ new.secret = L(c).secret
        /\ new.version = L(c).version /\ new.pendingVersion <= issued
        /\ new.lifecycle = L(c).lifecycle /\ new.verified = L(c).verified
    BY <1>0 DEF Rows
  <2>2. /\ Flush(L(c), new, {}) /\ Done(c)
        /\ UNCHANGED <<deleted, issued, deployed, dispatch, lease, busy, passed>>
    BY <1>4 DEF test_passes
  <2> HIDE DEF new
  <2>3. QED
    BY <1>0, <2>1, <2>2, PlainHandlerInv
<1>5. CASE enable(c)
  <2> DEFINE new == IF MayEnable(L(c)) THEN [L(c) EXCEPT !.lifecycle = "active"]
                                       ELSE L(c)
  <2>1. /\ new \in Rows /\ new.secret = L(c).secret
        /\ new.version = L(c).version /\ new.pendingVersion <= issued
        /\ new.lifecycle = "active" => L(c).lifecycle = "active" \/ L(c).verified
        /\ new.verified = L(c).verified
    BY <1>0 DEF MayEnable, Rows
  <2>2. /\ Flush(L(c), new, {}) /\ Done(c)
        /\ UNCHANGED <<deleted, issued, deployed, dispatch, lease, busy, passed>>
    BY <1>5 DEF enable
  <2> HIDE DEF new
  <2>3. QED
    BY <1>0, <2>1, <2>2, PlainHandlerInv
<1>6. CASE disable(c)
  <2> DEFINE new == [L(c) EXCEPT !.lifecycle = "disabled"]
  <2>1. /\ new \in Rows /\ new.secret = L(c).secret
        /\ new.version = L(c).version /\ new.pendingVersion <= issued
        /\ new.lifecycle # "active" /\ new.verified = L(c).verified
    BY <1>0 DEF Rows
  <2>2. /\ Flush(L(c), new, {}) /\ Done(c)
        /\ UNCHANGED <<deleted, issued, deployed, dispatch, lease, busy, passed>>
    BY <1>6 DEF disable
  <2> HIDE DEF new
  <2>3. QED
    BY <1>0, <2>1, <2>2, PlainHandlerInv
<1>7. CASE rotate_secret(c)
  <2> DEFINE new == [L(c) EXCEPT !.pending = issued + 1,
                                 !.pendingVersion = L(c).version + 1]
  <2>1. issued' = issued + 1 /\ issued' \in 1..MaxSecrets
    BY <1>0, <1>7 DEF rotate_secret
  <2>2. /\ issued + 1 \in Secrets /\ L(c).version + 1 \in Versions
        /\ L(c).version + 1 <= issued'
    BY <1>0, <2>1 DEF Rows, Secrets, Versions
  <2>3. /\ new \in Rows /\ new.secret = L(c).secret
        /\ new.version = L(c).version /\ new.pendingVersion <= issued'
        /\ new.lifecycle = L(c).lifecycle /\ new.verified = L(c).verified
    BY <1>0, <2>2 DEF Rows
  <2>4. /\ Flush(L(c), new, {}) /\ Done(c)
        /\ UNCHANGED <<deleted, deployed, dispatch, lease, busy, passed>>
    BY <1>7 DEF rotate_secret
  <2> HIDE DEF new
  <2>5. QED
    BY <1>0, <2>1, <2>3, <2>4, PlainHandlerInv
<1>8. CASE Gone(c) \/ count_leases(c) \/ delete_executor(c)
  <2>1. CASE Done(c)
    <3>1. /\ UNCHANGED <<row, issued, deployed, dispatch, lease, busy, passed>>
          /\ deleted' \in BOOLEAN
      BY <1>8, <2>1 DEF Gone, count_leases, delete_executor, Inv, TypeOK
    <3>2. /\ request' \in [Callers -> Requests]
          /\ \A d \in Callers : /\ Earned(request[d].loaded)'
                                /\ Numbered(request[d].loaded)'
      BY <1>0, <2>1, <3>1, DoneInv
    <3>3. TypeOK'
      BY <3>1, <3>2 DEF Inv, TypeOK, Requests
    <3>4. QED
      BY <3>1, <3>2, <3>3 DEF Inv, Earned, Numbered, Trusted
  <2>2. CASE ~Done(c)
    <3>1. /\ UNCHANGED <<row, deleted, issued, deployed, dispatch, lease, busy,
                         passed>>
          /\ request' = [request EXCEPT ![c].kind = "deleting"]
      BY <1>8, <2>2 DEF Gone, count_leases, delete_executor
    <3>2. /\ request' \in [Callers -> Requests]
          /\ \A d \in Callers : request'[d].loaded = request[d].loaded
      BY <3>1 DEF Inv, TypeOK, Requests
    <3>3. TypeOK'
      BY <3>1, <3>2 DEF Inv, TypeOK, Requests
    <3>4. QED
      BY <3>1, <3>2, <3>3 DEF Inv, Earned, Numbered, Trusted
  <2>3. QED
    BY <2>1, <2>2
<1>9. QED
  BY <1>1, <1>2, <1>3, <1>4, <1>5, <1>6, <1>7, <1>8 DEF Handle
\* A dispatch flushes the row it selected; it never makes a row active or
\* verified.
LEMMA DispatchInv ==
    ASSUME Inv,
           HandoffAccepted \/ HandoffInsecure \/ HandoffLost \/ HandoffDropped
    PROVE  Inv'
<1> DEFINE l == dispatch.loaded
<1>1. /\ l \in Rows /\ Earned(l) /\ Numbered(l) /\ issued \in Nat
      /\ NoDispatch \in [on: BOOLEAN, loaded: Rows] /\ NoDispatch.loaded = Blank
  BY BlankRow DEF Inv, TypeOK, NoDispatch
<1>2. /\ dispatch' = NoDispatch /\ lease' \in BOOLEAN /\ busy' \in BOOLEAN
      /\ UNCHANGED <<deleted, issued, deployed, request, passed>>
  BY DEF HandoffAccepted, HandoffInsecure, HandoffLost, HandoffDropped, Inv, TypeOK
<1>3. row' \in Rows /\ Earned(row)' /\ Trusted(row.secret)' /\ Numbered(row)'
  <2>1. ASSUME NEW new \in Rows, Flush(l, new, {}),
               new.lifecycle = l.lifecycle, new.verified = l.verified,
               new.secret = l.secret, new.version = l.version,
               new.pendingVersion = l.pendingVersion
        PROVE  row' \in Rows /\ Earned(row)' /\ Trusted(row.secret)' /\ Numbered(row)'
    <3>1. /\ new.lifecycle = "active" \/ new.verified => passed' # {}
          /\ new.version <= issued' /\ new.pendingVersion <= issued'
          /\ passed \subseteq passed' /\ issued' \in Nat /\ issued <= issued'
      BY <1>1, <1>2, <2>1 DEF Earned, Numbered
    <3>2. QED
      BY <1>1, <2>1, <3>1, FlushInv
  <2>2. CASE HandoffAccepted
    BY <1>1, <2>1, <2>2 DEF HandoffAccepted, Rows
  <2>3. CASE HandoffInsecure
    BY <1>1, <2>1, <2>3 DEF HandoffInsecure, Rows
  <2>4. CASE HandoffLost
    BY <1>1, <2>1, <2>4 DEF HandoffLost, Rows
  <2>5. CASE HandoffDropped
    BY <1>2, <2>5 DEF HandoffDropped, Inv, TypeOK, Earned, Trusted, Numbered
  <2>6. QED
    BY <2>2, <2>3, <2>4, <2>5
<1>4. Earned(dispatch.loaded)' /\ Numbered(dispatch.loaded)'
  BY <1>1, <1>2, BlankRow DEF Earned, Numbered, Inv, TypeOK
<1>5. \A c \in Callers : Earned(request[c].loaded)' /\ Numbered(request[c].loaded)'
  BY <1>2 DEF Inv, Earned, Numbered
<1>6. TypeOK'
  BY <1>1, <1>2, <1>3 DEF Inv, TypeOK
<1>7. QED
  BY <1>3, <1>4, <1>5, <1>6 DEF Inv

\* Every step keeps the invariant.
LEMMA StepInv == Inv /\ [Next]_vars => Inv'
<1> SUFFICES ASSUME Inv, [Next]_vars
             PROVE  Inv'
  OBVIOUS
<1>1. ASSUME NEW c \in Callers, Handle(c)
      PROVE  Inv'
  BY <1>1, RequestInv
<1>2. ASSUME NEW c \in Callers, NEW kind \in Offered, Load(c, kind)
      PROVE  Inv'
  <2> DEFINE loading == [kind |-> kind, loaded |-> row, busy |-> busy]
  <2>1. /\ request' = [request EXCEPT ![c] = loading] /\ loading \in Requests
        /\ request \in [Callers -> Requests]
    BY <1>2 DEF Load, Requests, Inv, TypeOK
  <2>2. /\ request' \in [Callers -> Requests]
        /\ \A d \in Callers : request'[d].loaded \in {row, request[d].loaded}
    BY <2>1
  <2>3. UNCHANGED <<row, deleted, issued, deployed, dispatch, lease, busy, passed>>
    BY <1>2 DEF Load
  <2>4. \A d \in Callers : Earned(request[d].loaded)' /\ Numbered(request[d].loaded)'
    BY <2>2, <2>3 DEF Inv, Earned, Numbered
  <2>5. TypeOK'
    BY <2>2, <2>3 DEF Inv, TypeOK, Requests
  <2>6. QED
    BY <2>3, <2>4, <2>5 DEF Inv, Earned, Numbered, Trusted
<1>3. CASE SelectExecutor
  <2>1. /\ dispatch' = [on |-> TRUE, loaded |-> row] /\ lease' = TRUE
        /\ UNCHANGED <<row, deleted, issued, deployed, request, busy, passed>>
    BY <1>3 DEF SelectExecutor
  <2>2. TypeOK'
    BY <2>1 DEF Inv, TypeOK
  <2>3. QED
    BY <2>1, <2>2 DEF Inv, Earned, Numbered, Trusted
<1>4. CASE HandoffAccepted \/ HandoffInsecure \/ HandoffLost \/ HandoffDropped
  BY <1>4, DispatchInv
<1>5. CASE JobEnds
  <2>1. /\ busy' = FALSE /\ lease' = FALSE
        /\ UNCHANGED <<row, deleted, issued, deployed, request, dispatch, passed>>
    BY <1>5 DEF JobEnds
  <2>2. TypeOK'
    BY <2>1 DEF Inv, TypeOK
  <2>3. QED
    BY <2>1, <2>2 DEF Inv, Earned, Numbered, Trusted
<1>6. ASSUME NEW u \in Urls, NEW s \in 1..MaxSecrets, Deploy(u, s)
      PROVE  Inv'
  <2>1. /\ deployed' \in [Urls -> Secrets]
        /\ UNCHANGED <<row, deleted, issued, request, dispatch, lease, busy, passed>>
    BY <1>6 DEF Deploy, Inv, TypeOK, Secrets
  <2>2. TypeOK'
    BY <2>1 DEF Inv, TypeOK
  <2>3. QED
    BY <2>1, <2>2 DEF Inv, Earned, Numbered, Trusted
<1>7. CASE UNCHANGED vars
  BY <1>7 DEF vars, Inv, TypeOK, Earned, Numbered, Trusted
<1>8. QED
  BY <1>1, <1>2, <1>3, <1>4, <1>5, <1>6, <1>7 DEF Next

\* The invariant holds throughout.
THEOREM Invariance == Spec => []Inv
<1>1. Init => Inv
  <2> SUFFICES ASSUME Init
               PROVE  Inv
    OBVIOUS
  <2>1. PICK u \in Urls : row = Draft(u)
    BY DEF Init
  <2>2. /\ row \in Rows /\ row.lifecycle = "draft" /\ row.verified = FALSE
        /\ row.secret = 1 /\ row.version = 1 /\ row.pendingVersion = 0
    BY <2>1 DEF Draft, Rows, Secrets, Versions
  <2>3. NoRequest \in Requests /\ NoDispatch \in [on: BOOLEAN, loaded: Rows]
    BY BlankRow DEF NoRequest, NoDispatch, Requests
  <2>4. /\ request = [c \in Callers |-> NoRequest] /\ dispatch = NoDispatch
        /\ deleted = FALSE /\ issued = 1 /\ lease = FALSE /\ busy = FALSE
        /\ deployed = [v \in Urls |-> 0] /\ passed = {}
    BY DEF Init
  <2>5. TypeOK
    <3>1. deployed \in [Urls -> Secrets] /\ issued \in 1..MaxSecrets
      BY <2>4 DEF Secrets
    <3>2. deleted \in BOOLEAN /\ lease \in BOOLEAN /\ busy \in BOOLEAN
      BY <2>4
    <3>3. request \in [Callers -> Requests]
      BY <2>3, <2>4
    <3>4. QED
      BY <2>2, <2>3, <2>4, <3>1, <3>2, <3>3 DEF TypeOK, Requests
  <2>6. /\ Earned(row) /\ Numbered(row) /\ Trusted(row.secret)
    BY <2>2, <2>4 DEF Earned, Numbered, Trusted
  <2>7. /\ Earned(dispatch.loaded) /\ Numbered(dispatch.loaded)
        /\ \A c \in Callers : /\ Earned(request[c].loaded)
                              /\ Numbered(request[c].loaded)
    BY <2>4, BlankRow DEF NoRequest, NoDispatch, Earned, Numbered
  <2>8. QED
    BY <2>5, <2>6, <2>7 DEF Inv
<1>2. QED
  BY <1>1, StepInv, PTL DEF Spec

\* The types of ExecutorRegistry hold in every reachable state.
THEOREM TypeCorrect == Spec => []TypeOK
BY Invariance, PTL DEF Inv

\* However requests overlap, no executor is active before a challenge passed.
THEOREM DraftsAlwaysStayOut == Spec => []DraftsStayOut
<1>1. Inv => DraftsStayOut
  BY DEF Inv, Earned, DraftsStayOut
<1>2. QED
  BY <1>1, Invariance, PTL

\* However requests overlap, the key in use was enrolled or has passed.
THEOREM SecretAlwaysProven == Spec => []SecretProven
<1>1. Inv => SecretProven
  BY DEF Inv, Trusted, SecretProven
<1>2. QED
  BY <1>1, Invariance, PTL

-----------------------------------------------------------------------------
(***************************************************************************)
(* The Redis stores, for any number of callers, any threshold and any      *)
(* bounds.  The inductive invariant is the type invariant and              *)
(* RedisSound(rPolicy), which is OpenIsTimed and ClosedBelowThreshold of   *)
(* one record: the policy's own functions keep it, and an action applies   *)
(* one or two of them.                                                     *)
(***************************************************************************)

RedisSound(p) ==
    /\ p \in Redis!Policies
    /\ p.state = "open" <=> p.openedAt # "unset"
    /\ p.state = "closed" => p.failures < Threshold

RedisInv == Redis!TypeOK /\ RedisSound(rPolicy)

USE MCAssumption DEF Redis!FailoverAssumption

-----------------------------------------------------------------------------
(* The functions of the policy *)

\* _check_open_window keeps the policy sound.
LEMMA CheckedSound ==
    ASSUME NEW p, RedisSound(p)
    PROVE  RedisSound(Redis!Checked(p))
BY DEF RedisSound, Redis!Checked, Redis!Policies

\* record_success keeps the policy sound, in whatever state it comes.
LEMMA SuccessSound ==
    ASSUME NEW p, RedisSound(p)
    PROVE  RedisSound(Redis!Success(p))
BY DEF RedisSound, Redis!Success, Redis!Policies

\* record_failure keeps the policy sound and never leaves it half open.
LEMMA FailureSound ==
    ASSUME NEW p, RedisSound(p)
    PROVE  RedisSound(Redis!Failure(p)) /\ Redis!Failure(p).state # "half_open"
<1> DEFINE q == Redis!Counted(p)
<1>1. /\ q.failures \in 0..Threshold
      /\ q = [p EXCEPT !.failures = q.failures]
      /\ p.state \in {"closed", "open", "half_open"}
  BY DEF Redis!Counted, RedisSound, Redis!Policies
<1>2. CASE \/ p.state = "closed" /\ q.failures >= Threshold
           \/ p.state = "half_open"
  BY <1>1, <1>2 DEF RedisSound, Redis!Failure, Redis!Opened, Redis!Policies
<1>3. CASE ~(\/ p.state = "closed" /\ q.failures >= Threshold
             \/ p.state = "half_open")
  <2>1. Redis!Failure(p) = q
    BY <1>3 DEF Redis!Failure
  <2>2. q.state = p.state /\ q.openedAt = p.openedAt /\ q \in Redis!Policies
    BY <1>1 DEF RedisSound, Redis!Policies
  <2>3. QED
    BY <1>1, <1>3, <2>1, <2>2 DEF RedisSound
<1>4. QED
  BY <1>2, <1>3

\* An operation goes to a store.
LEMMA RouteType ==
    ASSUME NEW p, RedisSound(p)
    PROVE  Redis!Route(p) \in {"primary", "probe", "backup"}
BY DEF RedisSound, Redis!Route, Redis!Policies

-----------------------------------------------------------------------------
(* execute and process_message *)

\* Starting an operation keeps the invariant of what it changes.
LEMMA ExecuteInv ==
    ASSUME NEW c \in RedisCallers, NEW kind \in Redis!Kinds, NEW reply \in Redis!Replies,
           NEW missed \in Redis!Stores \cup {"nowhere"}, NEW p, RedisSound(p), Redis!TypeOK,
           Redis!Execute(c, kind, reply, missed, p)
    PROVE  /\ RedisSound(rPolicy') /\ rOp' \in [RedisCallers -> Redis!Operations]
           /\ rCleared' \in BOOLEAN
           /\ rOp'[c].at # "idle"
           /\ \A d \in RedisCallers \ {c} : rOp'[d] = rOp[d]
<1>1. RedisSound(rPolicy') /\ rCleared' \in BOOLEAN
  BY CheckedSound DEF Redis!Execute
<1>2. Redis!Route(Redis!Checked(p)) \in {"primary", "probe", "backup"}
  BY CheckedSound, RouteType
<1>3. QED
  BY <1>1, <1>2 DEF Redis!Execute, Redis!TypeOK, Redis!Operations

\* So does ending one.
LEMMA FinishInv ==
    ASSUME NEW c \in RedisCallers, NEW reply \in Redis!Replies, NEW p, RedisSound(p), Redis!TypeOK,
           Redis!Finish(c, reply, p)
    PROVE  /\ RedisSound(rPolicy') /\ rOp' \in [RedisCallers -> Redis!Operations]
           /\ rCleared' \in BOOLEAN
           /\ rOp'[c].reply = reply
           /\ \A d \in RedisCallers \ {c} : rOp'[d] = rOp[d]
BY DEF Redis!Finish, Redis!TypeOK, Redis!Operations

\* What follows an answer keeps it too, and refuses nobody.
LEMMA AfterAnswerInv ==
    ASSUME NEW c \in RedisCallers, NEW store \in Redis!Stores, NEW p, RedisSound(p), Redis!TypeOK,
           Redis!AfterAnswer(c, store, p)
    PROVE  /\ RedisSound(rPolicy') /\ rOp' \in [RedisCallers -> Redis!Operations]
           /\ rCleared' \in BOOLEAN
           /\ rOp'[c].at = "idle" => rOp'[c].reply # "unavailable"
           /\ \A d \in RedisCallers \ {c} : rOp'[d] = rOp[d]
<1> DEFINE Starts == \E kind \in Redis!Kinds, reply \in Redis!Replies,
                        missed \in Redis!Stores \cup {"nowhere"} :
                        Redis!Execute(c, kind, reply, missed, p)
           Ends == \E reply \in Redis!Replies \ {"unavailable"} : Redis!Finish(c, reply, p)
<1>1. Starts \/ Ends
  <2>1. CASE rOp[c].kind = "get"
    <3>1. Redis!Continue(c, store, rSession[store], p)
      BY <2>1 DEF Redis!AfterAnswer
    <3>2. {"get", "create", "save", "clear"} \subseteq Redis!Kinds
          /\ {"none", "flow", "reset"} \subseteq Redis!Replies
          /\ {"flow", "menu"} \subseteq Redis!Replies \ {"unavailable"}
      BY DEF Redis!Kinds, Redis!Replies
    <3>3. QED
      BY <3>1, <3>2 DEF Redis!Continue
  <2>2. CASE rOp[c].kind # "get"
    <3>1. \/ Redis!Finish(c, "reset", p) \/ Redis!Finish(c, "menu", p)
          \/ Redis!Finish(c, "done", p)
      BY <2>2 DEF Redis!AfterAnswer
    <3>2. QED
      BY <3>1 DEF Redis!Replies
  <2>3. QED
    BY <2>1, <2>2
<1>2. CASE Starts
  BY <1>2, ExecuteInv
<1>3. CASE Ends
  BY <1>3, FinishInv
<1>4. QED
  BY <1>1, <1>2, <1>3

\* A command leaves a session in its store.
LEMMA ApplyType ==
    ASSUME Redis!TypeOK, NEW c \in RedisCallers, NEW store \in Redis!Stores, Redis!Apply(c, store)
    PROVE  rSession' \in [Redis!Stores -> Redis!Sessions]
BY DEF Redis!TypeOK, Redis!Apply, Redis!Applied, Redis!Sessions

\* A failure leaves sessions and the count of timeouts well typed.
LEMMA FailsType ==
    ASSUME Redis!TypeOK, NEW c \in RedisCallers, NEW store \in Redis!Stores, Redis!Fails(c, store)
    PROVE  rSession' \in [Redis!Stores -> Redis!Sessions] /\ rTimeouts' \in 0..MaxTimeouts
<1>1. rTimeouts' \in 0..MaxTimeouts
  BY DEF Redis!Fails, Redis!TypeOK
<1>2. rSession' \in [Redis!Stores -> Redis!Sessions]
  BY ApplyType DEF Redis!Fails, Redis!TypeOK
<1>3. QED
  BY <1>1, <1>2

-----------------------------------------------------------------------------
(* The steps *)

\* Every step keeps the invariant.
LEMMA RedisStepInv == RedisInv /\ [Redis!Next]_(Redis!vars) => RedisInv'
<1> SUFFICES ASSUME RedisInv, [Redis!Next]_(Redis!vars)
             PROVE  RedisInv'
  OBVIOUS
<1> USE DEF RedisInv
<1>1. ASSUME NEW c \in RedisCallers, Redis!Start(c)
      PROVE  RedisInv'
  <2>1. \E kind \in Redis!Kinds : Redis!Execute(c, kind, "none", "nowhere", rPolicy)
    BY <1>1 DEF Redis!Start, Redis!Kinds
  <2>2. /\ RedisSound(rPolicy') /\ rOp' \in [RedisCallers -> Redis!Operations]
        /\ rCleared' \in BOOLEAN
    BY <2>1, ExecuteInv DEF Redis!Replies
  <2>3. QED
    BY <1>1, <2>2 DEF Redis!Start, Redis!TypeOK, RedisSound
<1>2. ASSUME NEW c \in RedisCallers, Redis!PrimaryAnswers(c)
      PROVE  RedisInv'
  <2>1. /\ RedisSound(rPolicy') /\ rOp' \in [RedisCallers -> Redis!Operations]
        /\ rCleared' \in BOOLEAN
    BY <1>2, SuccessSound, AfterAnswerInv DEF Redis!PrimaryAnswers, Redis!Stores
  <2>2. rSession' \in [Redis!Stores -> Redis!Sessions]
    BY <1>2, ApplyType DEF Redis!PrimaryAnswers, Redis!Stores
  <2>3. QED
    BY <1>2, <2>1, <2>2 DEF Redis!PrimaryAnswers, Redis!TypeOK, RedisSound
<1>3. ASSUME NEW c \in RedisCallers, Redis!BackupAnswers(c)
      PROVE  RedisInv'
  <2>1. /\ RedisSound(rPolicy') /\ rOp' \in [RedisCallers -> Redis!Operations]
        /\ rCleared' \in BOOLEAN
    BY <1>3, AfterAnswerInv DEF Redis!BackupAnswers, Redis!Stores
  <2>2. rSession' \in [Redis!Stores -> Redis!Sessions]
    BY <1>3, ApplyType DEF Redis!BackupAnswers, Redis!Stores
  <2>3. QED
    BY <1>3, <2>1, <2>2 DEF Redis!BackupAnswers, Redis!TypeOK, RedisSound
<1>4. ASSUME NEW c \in RedisCallers, Redis!PrimaryFails(c)
      PROVE  RedisInv'
  <2>1. /\ RedisSound(rPolicy') /\ rOp' \in [RedisCallers -> Redis!Operations]
        /\ rCleared' \in BOOLEAN
    <3>1. CASE Redis!FallsBack(c, Redis!Failure(rPolicy))
      BY <1>4, <3>1, FailureSound DEF Redis!PrimaryFails, Redis!TypeOK, Redis!Operations
    <3>2. CASE ~Redis!FallsBack(c, Redis!Failure(rPolicy))
      BY <1>4, <3>2, FailureSound, FinishInv DEF Redis!PrimaryFails, Redis!Replies
    <3>3. QED
      BY <3>1, <3>2
  <2>2. rSession' \in [Redis!Stores -> Redis!Sessions] /\ rTimeouts' \in 0..MaxTimeouts
    BY <1>4, FailsType DEF Redis!PrimaryFails, Redis!Stores
  <2>3. QED
    BY <1>4, <2>1, <2>2 DEF Redis!PrimaryFails, Redis!TypeOK, RedisSound
<1>5. ASSUME NEW c \in RedisCallers, Redis!BackupFails(c)
      PROVE  RedisInv'
  <2>1. /\ RedisSound(rPolicy') /\ rOp' \in [RedisCallers -> Redis!Operations]
        /\ rCleared' \in BOOLEAN
    BY <1>5, FinishInv DEF Redis!BackupFails, Redis!Replies
  <2>2. rSession' \in [Redis!Stores -> Redis!Sessions] /\ rTimeouts' \in 0..MaxTimeouts
    BY <1>5, FailsType DEF Redis!BackupFails, Redis!Stores
  <2>3. QED
    BY <1>5, <2>1, <2>2 DEF Redis!BackupFails, Redis!TypeOK, RedisSound
<1>6. CASE Redis!WindowElapses
  BY <1>6 DEF Redis!WindowElapses, Redis!TypeOK, RedisSound, Redis!Policies
<1>7. ASSUME NEW s \in Redis!Stores, Redis!SessionExpires(s)
      PROVE  RedisInv'
  BY <1>7 DEF Redis!SessionExpires, Redis!TypeOK, RedisSound, Redis!Sessions
<1>8. ASSUME NEW s \in Redis!Stores, Redis!GoesDown(s) \/ Redis!ComesBack(s)
      PROVE  RedisInv'
  BY <1>8 DEF Redis!GoesDown, Redis!ComesBack, Redis!TypeOK, RedisSound
<1>9. CASE UNCHANGED Redis!vars
  BY <1>9 DEF Redis!vars, Redis!TypeOK, RedisSound
<1>10. QED
  BY <1>1, <1>2, <1>3, <1>4, <1>5, <1>6, <1>7, <1>8, <1>9 DEF Redis!Next

\* A step of the composition is a step of the stores or leaves them alone.
LEMMA RedisRuns == [MCNext]_MCvars => [Redis!Next]_(Redis!vars)
BY DEF MCNext, MCvars, rVars, Redis!vars

\* The invariant holds throughout.
THEOREM RedisInvariance == MCSpec => []RedisInv
<1>1. Redis!Init => RedisInv
  <2> SUFFICES ASSUME Redis!Init
               PROVE  RedisInv
    OBVIOUS
  <2>1. RedisSound(rPolicy)
    BY DEF Redis!Init, RedisSound, Redis!Policies
  <2>2. rOp \in [RedisCallers -> Redis!Operations]
    BY DEF Redis!Init, Redis!Operations, Redis!Kinds, Redis!Replies
  <2>3. rSession \in [Redis!Stores -> Redis!Sessions] /\ rUp \subseteq Redis!Stores
    BY DEF Redis!Init, Redis!Sessions
  <2>4. rOutages \in [Redis!Stores -> 0..MaxOutages] /\ rTimeouts \in 0..MaxTimeouts
    BY DEF Redis!Init
  <2>5. rCleared \in BOOLEAN
    BY DEF Redis!Init
  <2>6. QED
    BY <2>1, <2>2, <2>3, <2>4, <2>5 DEF RedisInv, Redis!TypeOK, RedisSound
<1>2. QED
  BY <1>1, RedisStepInv, RedisRuns, PTL DEF MCSpec, MCInit

\* The types of RedisFailover hold in every reachable state.
THEOREM RedisTypeCorrect == MCSpec => []Redis!TypeOK
BY RedisInvariance, PTL DEF RedisInv

\* An open breaker always knows when it was opened, so it can always probe
\* the primary again.
THEOREM OpenAlwaysTimed == MCSpec => []OpenIsTimed
<1>1. RedisInv => OpenIsTimed
  BY DEF RedisInv, OpenIsTimed, RedisSound, Redis!OpenIsTimed
<1>2. QED
  BY <1>1, RedisInvariance, PTL

\* A closed breaker is below its threshold.
THEOREM ClosedAlwaysBelow == MCSpec => []Redis!ClosedBelowThreshold
<1>1. RedisInv => Redis!ClosedBelowThreshold
  BY DEF RedisInv, RedisSound, Redis!ClosedBelowThreshold
<1>2. QED
  BY <1>1, RedisInvariance, PTL

\* With a backup that fails only when it is down, nobody is refused while it
\* is up and the breaker is not closed.
THEOREM AlwaysShielded == ASSUME "backup" \notin SlowStores
                          PROVE  MCSpec => FailoverShields
<1>1. ASSUME RedisInv, Redis!Next, NEW c \in RedisCallers, Redis!Refused(c)
      PROVE  Redis!Covered
  <2> USE DEF RedisInv
  <2>1. ASSUME NEW d \in RedisCallers, Redis!Start(d)
        PROVE  FALSE
    <3>1. \E kind \in Redis!Kinds : Redis!Execute(d, kind, "none", "nowhere", rPolicy)
      BY <2>1 DEF Redis!Start, Redis!Kinds
    <3>2. rOp'[d].at # "idle" /\ \A e \in RedisCallers \ {d} : rOp'[e] = rOp[e]
      BY <1>1, <3>1, ExecuteInv DEF Redis!Replies
    <3>3. QED
      BY <3>2, <1>1 DEF Redis!Refused
  <2>2. ASSUME NEW d \in RedisCallers, Redis!PrimaryAnswers(d) \/ Redis!BackupAnswers(d)
        PROVE  FALSE
    <3>1. \E s \in Redis!Stores : \E p : RedisSound(p) /\ Redis!AfterAnswer(d, s, p)
      BY <1>1, <2>2, SuccessSound DEF Redis!PrimaryAnswers, Redis!BackupAnswers, Redis!Stores
    <3>2. /\ rOp'[d].at = "idle" => rOp'[d].reply # "unavailable"
          /\ \A e \in RedisCallers \ {d} : rOp'[e] = rOp[e]
      BY <1>1, <3>1, AfterAnswerInv
    <3>3. QED
      BY <3>2, <1>1 DEF Redis!Refused
  <2>3. ASSUME NEW d \in RedisCallers, Redis!PrimaryFails(d)
        PROVE  Redis!Covered
    <3>1. CASE Redis!FallsBack(d, Redis!Failure(rPolicy))
      <4>1. rOp' = [rOp EXCEPT ![d].at = "backup"]
        BY <2>3, <3>1 DEF Redis!PrimaryFails
      <4>2. QED
        BY <4>1, <1>1 DEF Redis!TypeOK, Redis!Operations, Redis!Refused
    <3>2. CASE ~Redis!FallsBack(d, Redis!Failure(rPolicy))
      <4>1. rPolicy' = Redis!Failure(rPolicy) /\ rPolicy'.state # "open"
        BY <2>3, <3>2 DEF Redis!PrimaryFails, Redis!Finish, Redis!FallsBack
      <4>2. rPolicy'.state # "half_open" /\ rPolicy' \in Redis!Policies
        BY <4>1, FailureSound, <1>1 DEF RedisSound
      <4>3. QED
        BY <4>1, <4>2 DEF Redis!Policies, Redis!Covered
    <3>3. QED
      BY <3>1, <3>2
  <2>4. ASSUME NEW d \in RedisCallers, Redis!BackupFails(d)
        PROVE  Redis!Covered
    BY <2>4 DEF Redis!BackupFails, Redis!Fails, Redis!Covered
  <2>5. CASE \/ Redis!WindowElapses
             \/ \E s \in Redis!Stores : Redis!SessionExpires(s) \/ Redis!GoesDown(s) \/ Redis!ComesBack(s)
    BY <2>5, <1>1 DEF Redis!WindowElapses, Redis!SessionExpires, Redis!GoesDown, Redis!ComesBack, Redis!Refused
  <2>6. QED
    BY <1>1, <2>1, <2>2, <2>3, <2>4, <2>5 DEF Redis!Next
<1>2. RedisInv /\ [Redis!Next]_(Redis!vars) => [Redis!Shielded]_(Redis!vars)
  BY <1>1 DEF Redis!Shielded
<1>3. QED
  BY <1>2, RedisRuns, RedisInvariance, PTL DEF MCSpec, FailoverShields, Redis!FailoverShields

-----------------------------------------------------------------------------
(***************************************************************************)
(* The registry with requests that take turns, for any destinations,       *)
(* secrets and kinds of requests.  Beside a request there is a dispatch,   *)
(* which has selected a row without the mark and so can only set it: the   *)
(* row that a request has loaded differs from the stored one in its health *)
(* and in a mark that was set meanwhile.  Together with this, what is      *)
(* active or verified without the mark was proven.                         *)
(***************************************************************************)

TurnRequests == [kind: {"none", "update", "verify", "test", "enable", "disable",
                        "rotate", "delete", "deleting"},
                 loaded: Turn!Rows, busy: BOOLEAN]
TurnLoaded == tRequest[Master].loaded

TurnNumbered(r) == r.version <= tIssued /\ r.pendingVersion <= tIssued

\* The stored row is the loaded one, but for the health and the mark.
Agrees(l, r) ==
    /\ r.url = l.url /\ r.secret = l.secret /\ r.lifecycle = l.lifecycle /\ r.verified = l.verified
    /\ l.requires => r.requires

Proven(r, p) ==
    (r.verified \/ r.lifecycle = "active") /\ ~r.requires => <<r.url, r.secret>> \in p

TurnInv ==
    /\ Turn!TypeOK
    /\ TurnNumbered(tRow) /\ TurnNumbered(tDispatch.loaded) /\ TurnNumbered(TurnLoaded)
    /\ tDispatch.on => ~tDispatch.loaded.requires
    /\ tRequest[Master].kind # "none" => Agrees(TurnLoaded, tRow)
    /\ Proven(tRow, tPassed)

LEMMA TurnBlank ==
    /\ Turn!Blank \in Turn!Rows /\ Turn!Blank.version = 1 /\ Turn!Blank.pendingVersion = 0
    /\ Turn!NoRequest \in TurnRequests /\ Turn!NoRequest.kind = "none"
    /\ Turn!NoRequest.loaded = Turn!Blank
    /\ Turn!NoDispatch \in [on: BOOLEAN, loaded: Turn!Rows] /\ Turn!NoDispatch.on = FALSE
    /\ Turn!NoDispatch.loaded = Turn!Blank
<1>1. (CHOOSE u \in TurnUrls : TRUE) \in TurnUrls
  BY TurnAssumption
<1>2. /\ Turn!Blank \in Turn!Rows /\ Turn!Blank.version = 1 /\ Turn!Blank.pendingVersion = 0
  BY <1>1, TurnAssumption DEF Turn!Blank, Turn!Draft, Turn!Rows, Turn!Secrets, Turn!Versions
<1>3. QED
  BY <1>2 DEF Turn!NoRequest, Turn!NoDispatch, TurnRequests

\* A column is written when its value differs from the loaded one.
LEMMA TurnFlushed ==
    ASSUME tRow \in Turn!Rows, NEW loaded \in Turn!Rows, NEW new \in Turn!Rows, NEW fresh,
           Turn!Flush(loaded, new, fresh)
    PROVE  /\ tRow' \in Turn!Rows
           /\ tRow'.url = IF new.url # loaded.url \/ "url" \in fresh THEN new.url ELSE tRow.url
           /\ tRow'.secret =
                IF new.secret # loaded.secret \/ "secret" \in fresh THEN new.secret ELSE tRow.secret
           /\ tRow'.lifecycle = IF new.lifecycle # loaded.lifecycle \/ "lifecycle" \in fresh
                                THEN new.lifecycle ELSE tRow.lifecycle
           /\ tRow'.verified = IF new.verified # loaded.verified \/ "verified" \in fresh
                               THEN new.verified ELSE tRow.verified
           /\ tRow'.requires = IF new.requires # loaded.requires \/ "requires" \in fresh
                               THEN new.requires ELSE tRow.requires
           /\ tRow'.version \in {tRow.version, new.version}
           /\ tRow'.pendingVersion \in {tRow.pendingVersion, new.pendingVersion}
<1>1. DOMAIN tRow = {"url", "lifecycle", "health", "requires", "verified",
                     "secret", "version", "pending", "pendingVersion"}
  BY DEF Turn!Rows
<1>2. tRow' = [url |-> tRow'.url, lifecycle |-> tRow'.lifecycle,
               health |-> tRow'.health, requires |-> tRow'.requires,
               verified |-> tRow'.verified, secret |-> tRow'.secret,
               version |-> tRow'.version, pending |-> tRow'.pending,
               pendingVersion |-> tRow'.pendingVersion]
  BY <1>1, Zenon DEF Turn!Flush
<1>3. /\ tRow'.url = IF new.url # loaded.url \/ "url" \in fresh THEN new.url ELSE tRow.url
      /\ tRow'.secret =
           IF new.secret # loaded.secret \/ "secret" \in fresh THEN new.secret ELSE tRow.secret
      /\ tRow'.lifecycle = IF new.lifecycle # loaded.lifecycle \/ "lifecycle" \in fresh
                           THEN new.lifecycle ELSE tRow.lifecycle
      /\ tRow'.verified = IF new.verified # loaded.verified \/ "verified" \in fresh
                          THEN new.verified ELSE tRow.verified
      /\ tRow'.requires = IF new.requires # loaded.requires \/ "requires" \in fresh
                          THEN new.requires ELSE tRow.requires
  BY <1>1 DEF Turn!Flush
<1>4. /\ tRow'.health \in {tRow.health, new.health}
      /\ tRow'.version \in {tRow.version, new.version}
      /\ tRow'.pending \in {tRow.pending, new.pending}
      /\ tRow'.pendingVersion \in {tRow.pendingVersion, new.pendingVersion}
  BY <1>1 DEF Turn!Flush
<1>5. /\ tRow'.url \in {tRow.url, new.url} /\ tRow'.secret \in {tRow.secret, new.secret}
      /\ tRow'.lifecycle \in {tRow.lifecycle, new.lifecycle}
      /\ tRow'.verified \in {tRow.verified, new.verified}
      /\ tRow'.requires \in {tRow.requires, new.requires}
  BY <1>3
<1>6. tRow' \in Turn!Rows
  BY <1>2, <1>4, <1>5 DEF Turn!Rows
<1>7. QED
  BY <1>3, <1>4, <1>6

\* A handler that flushes a row and ends: what it makes of a row that agrees with
\* the loaded one has to be proven.
LEMMA TurnHandlerInv ==
    ASSUME TurnInv, NEW new \in Turn!Rows, NEW fresh \in SUBSET {"verified"},
           tRequest[Master].kind # "none", Turn!Flush(TurnLoaded, new, fresh), Turn!Done(Master),
           tIssued' \in 1..TurnSecrets, tIssued <= tIssued',
           tPassed \subseteq tPassed', tPassed' \subseteq (TurnUrls \X Turn!Secrets),
           new.version <= tIssued', new.pendingVersion <= tIssued',
           \/ new.requires
           \/ <<new.url, new.secret>> \in tPassed'
           \/ /\ new.url = TurnLoaded.url /\ new.secret = TurnLoaded.secret
              /\ new.requires = TurnLoaded.requires
              /\ new.verified \/ new.lifecycle = "active" =>
                   TurnLoaded.verified \/ TurnLoaded.lifecycle = "active",
           UNCHANGED <<tDeleted, tDeployed, tDispatch, tLease, tBusy>>
    PROVE  TurnInv'
<1>0. /\ tRow \in Turn!Rows /\ tRequest \in [{Master} -> TurnRequests] /\ TurnLoaded \in Turn!Rows
      /\ tDispatch \in [on: BOOLEAN, loaded: Turn!Rows]
      /\ tDispatch' = tDispatch /\ tIssued \in Nat /\ tIssued' \in Nat
  BY TurnAssumption DEF TurnInv, Turn!TypeOK, TurnRequests, TurnLoaded
<1>1. /\ tRow' \in Turn!Rows
      /\ tRow'.url = IF new.url # TurnLoaded.url THEN new.url ELSE tRow.url
      /\ tRow'.secret = IF new.secret # TurnLoaded.secret THEN new.secret ELSE tRow.secret
      /\ tRow'.lifecycle = IF new.lifecycle # TurnLoaded.lifecycle THEN new.lifecycle ELSE tRow.lifecycle
      /\ tRow'.verified = IF new.verified # TurnLoaded.verified \/ "verified" \in fresh
                          THEN new.verified ELSE tRow.verified
      /\ tRow'.requires = IF new.requires # TurnLoaded.requires THEN new.requires ELSE tRow.requires
      /\ tRow'.version \in {tRow.version, new.version}
      /\ tRow'.pendingVersion \in {tRow.pendingVersion, new.pendingVersion}
  BY <1>0, TurnFlushed
<1>2. Agrees(TurnLoaded, tRow) /\ Proven(tRow, tPassed)
  BY DEF TurnInv
<1>3. /\ tRow'.url = new.url /\ tRow'.secret = new.secret /\ tRow'.lifecycle = new.lifecycle
      /\ tRow'.verified = new.verified /\ (new.requires => tRow'.requires)
      /\ new.requires = TurnLoaded.requires => tRow'.requires = tRow.requires
  BY <1>0, <1>1, <1>2 DEF Agrees, Turn!Rows
<1>4. Proven(tRow, tPassed)'
  <2>1. CASE new.requires \/ <<new.url, new.secret>> \in tPassed'
    BY <1>3, <2>1 DEF Proven
  <2>2. CASE /\ new.url = TurnLoaded.url /\ new.secret = TurnLoaded.secret
             /\ new.requires = TurnLoaded.requires
             /\ new.verified \/ new.lifecycle = "active" =>
                  TurnLoaded.verified \/ TurnLoaded.lifecycle = "active"
    BY <1>2, <1>3, <2>2 DEF Proven, Agrees
  <2>3. QED
    BY <2>1, <2>2
<1>5. tRequest' = [tRequest EXCEPT ![Master] = Turn!NoRequest]
  BY DEF Turn!Done
<1>6. /\ tRequest' \in [{Master} -> TurnRequests] /\ tRequest'[Master].kind = "none"
      /\ tRequest'[Master].loaded = Turn!Blank
  BY <1>0, <1>5, TurnBlank
<1>7. TurnNumbered(tRow)' /\ TurnNumbered(tDispatch.loaded)' /\ TurnNumbered(TurnLoaded)'
  <2>1. TurnNumbered(TurnLoaded)'
    BY <1>0, <1>6, TurnBlank DEF TurnNumbered, TurnLoaded
  <2>2. tRow.version \in Nat /\ tRow.pendingVersion \in Nat /\ new.version \in Nat /\ new.pendingVersion \in Nat
        /\ tDispatch.loaded.version \in Nat /\ tDispatch.loaded.pendingVersion \in Nat
    BY <1>0, TurnAssumption DEF Turn!Rows, Turn!Versions
  <2>3. TurnNumbered(tRow)'
    BY <1>0, <1>1, <2>2 DEF TurnInv, TurnNumbered
  <2>4. TurnNumbered(tDispatch.loaded)'
    BY <1>0, <2>2 DEF TurnInv, TurnNumbered
  <2>5. QED
    BY <2>1, <2>3, <2>4
<1>8. Turn!TypeOK'
  BY <1>0, <1>1, <1>6 DEF TurnInv, Turn!TypeOK, TurnRequests
<1>9. QED
  BY <1>0, <1>4, <1>6, <1>7, <1>8 DEF TurnInv

\* Every step of a request keeps the invariant.
LEMMA TurnRequestInv ==
    ASSUME TurnInv, Turn!Handle(Master)
    PROVE  TurnInv'
<1>0. /\ TurnLoaded \in Turn!Rows /\ tIssued \in 1..TurnSecrets /\ TurnSecrets \in Nat
      /\ TurnLoaded.version <= tIssued /\ TurnLoaded.pendingVersion <= tIssued
      /\ Turn!L(Master) = TurnLoaded /\ tPassed \subseteq (TurnUrls \X Turn!Secrets)
      /\ tRequest \in [{Master} -> TurnRequests]
  BY TurnAssumption DEF TurnInv, Turn!TypeOK, TurnNumbered, TurnLoaded, Turn!L, TurnRequests
<1>10. tIssued' = tIssued => tIssued' \in 1..TurnSecrets /\ tIssued <= tIssued'
  BY <1>0
<1>1. CASE Turn!update_lookup_executor(Master)
  <2>1. PICK u \in TurnUrls :
          Turn!Flush(TurnLoaded, IF u # TurnLoaded.url THEN Turn!Moved(TurnLoaded, u) ELSE TurnLoaded, {})
    BY <1>0, <1>1 DEF Turn!update_lookup_executor
  <2> DEFINE new == IF u # TurnLoaded.url THEN Turn!Moved(TurnLoaded, u) ELSE TurnLoaded
  <2>2. /\ new \in Turn!Rows /\ (new.requires \/ new = TurnLoaded)
        /\ new.version <= tIssued /\ new.pendingVersion <= tIssued
    BY <1>0 DEF Turn!Moved, Turn!Rows
  <2> HIDE DEF new
  <2>3. Turn!Flush(TurnLoaded, new, {})
    BY <2>1 DEF new
  <2>4. /\ tRequest[Master].kind # "none" /\ Turn!Done(Master)
        /\ UNCHANGED <<tDeleted, tIssued, tDeployed, tDispatch, tLease, tBusy, tPassed>>
    BY <1>1 DEF Turn!update_lookup_executor, Turn!Loaded
  <2>5. QED
    BY <1>0, <1>10, <2>2, <2>3, <2>4, TurnHandlerInv
<1>2. CASE Turn!verify_passes(Master)
  <2> DEFINE r == IF TurnLoaded.pending # 0 THEN Turn!Promoted(TurnLoaded)
                                            ELSE [TurnLoaded EXCEPT !.requires = FALSE]
             new == [r EXCEPT !.verified = TRUE, !.lifecycle = "active",
                              !.health = "healthy"]
             proof == <<TurnLoaded.url, Turn!Key(TurnLoaded).secret>>
  <2>1. Turn!Flush(TurnLoaded, new, {"verified"}) /\ tPassed' = tPassed \cup {proof}
    BY <1>0, <1>2 DEF Turn!verify_passes
  <2>2. Turn!Key(TurnLoaded).secret \in Turn!Secrets /\ TurnLoaded.url \in TurnUrls
    BY <1>0 DEF Turn!Key, Turn!Rows
  <2>3. /\ r \in Turn!Rows /\ r.secret = Turn!Key(TurnLoaded).secret /\ r.url = TurnLoaded.url
        /\ r.version <= tIssued /\ r.pendingVersion <= tIssued
    <3>1. CASE TurnLoaded.pending # 0
      <4>1. r = Turn!Promoted(TurnLoaded) /\ 0 \in Turn!Secrets /\ 0 \in Turn!Versions /\ 0 <= tIssued
        BY <1>0, <3>1 DEF Turn!Secrets, Turn!Versions
      <4>2. QED
        BY <1>0, <3>1, <4>1 DEF Turn!Promoted, Turn!Key, Turn!Rows
    <3>2. CASE TurnLoaded.pending = 0
      <4>1. r = [TurnLoaded EXCEPT !.requires = FALSE]
        BY <3>2
      <4>2. QED
        BY <1>0, <3>2, <4>1 DEF Turn!Rows, Turn!Key
    <3>3. QED
      BY <3>1, <3>2
  <2> HIDE DEF r
  <2>4. /\ new \in Turn!Rows /\ new.secret = Turn!Key(TurnLoaded).secret /\ new.url = TurnLoaded.url
        /\ new.version <= tIssued /\ new.pendingVersion <= tIssued
    BY <2>3 DEF Turn!Rows
  <2> HIDE DEF new
  <2>5. /\ <<new.url, new.secret>> \in tPassed' /\ tPassed \subseteq tPassed'
        /\ tPassed' \subseteq (TurnUrls \X Turn!Secrets)
    BY <1>0, <2>1, <2>2, <2>4
  <2>6. /\ tRequest[Master].kind # "none" /\ Turn!Done(Master)
        /\ UNCHANGED <<tDeleted, tIssued, tDeployed, tDispatch, tLease, tBusy>>
    BY <1>2 DEF Turn!verify_passes, Turn!Loaded
  <2>7. QED
    BY <1>0, <1>10, <2>1, <2>4, <2>5, <2>6, TurnHandlerInv
<1>3. CASE Turn!challenge_fails(Master)
  <2> DEFINE new == Turn!Quarantined(TurnLoaded)
  <2>1. /\ new \in Turn!Rows /\ new.requires
        /\ new.version <= tIssued /\ new.pendingVersion <= tIssued
    BY <1>0 DEF Turn!Quarantined, Turn!Rows
  <2>2. /\ tRequest[Master].kind # "none" /\ Turn!Done(Master) /\ Turn!Flush(TurnLoaded, new, {})
        /\ UNCHANGED <<tDeleted, tIssued, tDeployed, tDispatch, tLease, tBusy, tPassed>>
    BY <1>0, <1>3 DEF Turn!challenge_fails, Turn!Loaded
  <2> HIDE DEF new
  <2>3. QED
    BY <1>0, <1>10, <2>1, <2>2, TurnHandlerInv
<1>4. CASE Turn!test_passes(Master)
  <2> DEFINE new == [TurnLoaded EXCEPT !.health = "healthy"]
  <2>1. /\ new \in Turn!Rows /\ new.url = TurnLoaded.url /\ new.secret = TurnLoaded.secret
        /\ new.requires = TurnLoaded.requires /\ new.verified = TurnLoaded.verified
        /\ new.lifecycle = TurnLoaded.lifecycle
        /\ new.version <= tIssued /\ new.pendingVersion <= tIssued
    BY <1>0 DEF Turn!Rows
  <2>2. /\ tRequest[Master].kind # "none" /\ Turn!Done(Master) /\ Turn!Flush(TurnLoaded, new, {})
        /\ UNCHANGED <<tDeleted, tIssued, tDeployed, tDispatch, tLease, tBusy, tPassed>>
    BY <1>0, <1>4 DEF Turn!test_passes, Turn!Loaded
  <2> HIDE DEF new
  <2>3. QED
    BY <1>0, <1>10, <2>1, <2>2, TurnHandlerInv
<1>5. CASE Turn!enable(Master)
  <2> DEFINE new == IF Turn!MayEnable(TurnLoaded) THEN [TurnLoaded EXCEPT !.lifecycle = "active"]
                                                  ELSE TurnLoaded
  <2>1. /\ new \in Turn!Rows /\ new.url = TurnLoaded.url /\ new.secret = TurnLoaded.secret
        /\ new.requires = TurnLoaded.requires /\ new.verified = TurnLoaded.verified
        /\ new.lifecycle = "active" => TurnLoaded.verified \/ TurnLoaded.lifecycle = "active"
        /\ new.version <= tIssued /\ new.pendingVersion <= tIssued
    BY <1>0 DEF Turn!MayEnable, Turn!Rows
  <2>2. /\ tRequest[Master].kind # "none" /\ Turn!Done(Master) /\ Turn!Flush(TurnLoaded, new, {})
        /\ UNCHANGED <<tDeleted, tIssued, tDeployed, tDispatch, tLease, tBusy, tPassed>>
    BY <1>0, <1>5 DEF Turn!enable, Turn!Loaded
  <2> HIDE DEF new
  <2>3. QED
    BY <1>0, <1>10, <2>1, <2>2, TurnHandlerInv
<1>6. CASE Turn!disable(Master)
  <2> DEFINE new == [TurnLoaded EXCEPT !.lifecycle = "disabled"]
  <2>1. /\ new \in Turn!Rows /\ new.url = TurnLoaded.url /\ new.secret = TurnLoaded.secret
        /\ new.requires = TurnLoaded.requires /\ new.verified = TurnLoaded.verified
        /\ new.lifecycle # "active"
        /\ new.version <= tIssued /\ new.pendingVersion <= tIssued
    BY <1>0 DEF Turn!Rows
  <2>2. /\ tRequest[Master].kind # "none" /\ Turn!Done(Master) /\ Turn!Flush(TurnLoaded, new, {})
        /\ UNCHANGED <<tDeleted, tIssued, tDeployed, tDispatch, tLease, tBusy, tPassed>>
    BY <1>0, <1>6 DEF Turn!disable, Turn!Loaded
  <2> HIDE DEF new
  <2>3. QED
    BY <1>0, <1>10, <2>1, <2>2, TurnHandlerInv
<1>7. CASE Turn!rotate_secret(Master)
  <2> DEFINE new == [TurnLoaded EXCEPT !.pending = tIssued + 1,
                                       !.pendingVersion = TurnLoaded.version + 1]
  <2>1. tIssued' = tIssued + 1 /\ tIssued' \in 1..TurnSecrets /\ tIssued <= tIssued'
    BY <1>0, <1>7 DEF Turn!rotate_secret
  <2>2. /\ tIssued + 1 \in Turn!Secrets /\ TurnLoaded.version + 1 \in Turn!Versions
        /\ TurnLoaded.version + 1 <= tIssued' /\ TurnLoaded.version <= tIssued'
    BY <1>0, <2>1 DEF Turn!Rows, Turn!Secrets, Turn!Versions
  <2>3. /\ new \in Turn!Rows /\ new.url = TurnLoaded.url /\ new.secret = TurnLoaded.secret
        /\ new.requires = TurnLoaded.requires /\ new.verified = TurnLoaded.verified
        /\ new.lifecycle = TurnLoaded.lifecycle
        /\ new.version <= tIssued' /\ new.pendingVersion <= tIssued'
    BY <1>0, <2>2 DEF Turn!Rows
  <2>4. /\ tRequest[Master].kind # "none" /\ Turn!Done(Master) /\ Turn!Flush(TurnLoaded, new, {})
        /\ UNCHANGED <<tDeleted, tDeployed, tDispatch, tLease, tBusy, tPassed>>
    BY <1>0, <1>7 DEF Turn!rotate_secret, Turn!Loaded
  <2> HIDE DEF new
  <2>5. QED
    BY <1>0, <2>1, <2>3, <2>4, TurnHandlerInv
<1>8. CASE Turn!Gone(Master) \/ Turn!count_leases(Master) \/ Turn!delete_executor(Master)
  <2>1. /\ UNCHANGED <<tRow, tIssued, tDeployed, tDispatch, tLease, tBusy, tPassed>>
        /\ tDeleted' \in BOOLEAN /\ tRequest[Master].kind # "none"
        /\ Turn!Done(Master) \/ tRequest' = [tRequest EXCEPT ![Master].kind = "deleting"]
    BY <1>8 DEF Turn!Gone, Turn!count_leases, Turn!delete_executor, Turn!Loaded, TurnInv, Turn!TypeOK
  <2>2. /\ tRequest' \in [{Master} -> TurnRequests]
        /\ \/ tRequest'[Master].kind = "none" /\ tRequest'[Master].loaded = Turn!Blank
           \/ tRequest'[Master].loaded = tRequest[Master].loaded
    <3>1. CASE Turn!Done(Master)
      BY <1>0, <3>1, TurnBlank DEF Turn!Done
    <3>2. CASE tRequest' = [tRequest EXCEPT ![Master].kind = "deleting"]
      BY <1>0, <3>2 DEF TurnRequests
    <3>3. QED
      BY <2>1, <3>1, <3>2
  <2>3. Turn!TypeOK'
    BY <2>1, <2>2 DEF TurnInv, Turn!TypeOK, TurnRequests
  <2>4. TurnNumbered(TurnLoaded)' /\ (tRequest'[Master].kind # "none" => Agrees(TurnLoaded, tRow)')
    BY <1>0, <2>1, <2>2, TurnBlank DEF TurnInv, TurnNumbered, TurnLoaded, Agrees
  <2>5. QED
    BY <2>1, <2>3, <2>4 DEF TurnInv, TurnNumbered, Proven
<1>9. QED
  BY <1>1, <1>2, <1>3, <1>4, <1>5, <1>6, <1>7, <1>8 DEF Turn!Handle

\* A dispatch writes the health, and sets the mark when its row had none.
LEMMA TurnDispatchInv ==
    ASSUME TurnInv,
           Turn!HandoffAccepted \/ Turn!HandoffInsecure \/ Turn!HandoffLost \/ Turn!HandoffDropped
    PROVE  TurnInv'
<1> DEFINE l == tDispatch.loaded
<1>1. /\ tRow \in Turn!Rows /\ l \in Turn!Rows /\ tDispatch.on /\ ~l.requires
      /\ tRequest \in [{Master} -> TurnRequests] /\ TurnLoaded \in Turn!Rows /\ tIssued \in Nat
  BY TurnAssumption DEF TurnInv, Turn!TypeOK, TurnRequests, TurnLoaded, Turn!HandoffAccepted,
     Turn!HandoffInsecure, Turn!HandoffLost, Turn!HandoffDropped
<1>2. /\ tDispatch' = Turn!NoDispatch /\ tLease' \in BOOLEAN /\ tBusy' \in BOOLEAN
      /\ UNCHANGED <<tDeleted, tIssued, tDeployed, tRequest, tPassed>>
  BY DEF Turn!HandoffAccepted, Turn!HandoffInsecure, Turn!HandoffLost, Turn!HandoffDropped,
     TurnInv, Turn!TypeOK
<1>3. /\ tRow' \in Turn!Rows
      /\ tRow'.url = tRow.url /\ tRow'.secret = tRow.secret /\ tRow'.lifecycle = tRow.lifecycle
      /\ tRow'.verified = tRow.verified /\ (tRow.requires => tRow'.requires)
      /\ TurnNumbered(tRow)'
  <2>1. ASSUME NEW new \in Turn!Rows, Turn!Flush(l, new, {}),
               new.url = l.url, new.secret = l.secret, new.lifecycle = l.lifecycle,
               new.verified = l.verified, new.version = l.version,
               new.pendingVersion = l.pendingVersion, new.requires \/ new.requires = l.requires
        PROVE  /\ tRow' \in Turn!Rows
               /\ tRow'.url = tRow.url /\ tRow'.secret = tRow.secret
               /\ tRow'.lifecycle = tRow.lifecycle
               /\ tRow'.verified = tRow.verified /\ (tRow.requires => tRow'.requires)
               /\ TurnNumbered(tRow)'
    <3>1. /\ tRow' \in Turn!Rows
          /\ tRow'.url = tRow.url /\ tRow'.secret = tRow.secret
          /\ tRow'.lifecycle = tRow.lifecycle
          /\ tRow'.verified = tRow.verified /\ (tRow.requires => tRow'.requires)
          /\ tRow'.version \in {tRow.version, l.version}
          /\ tRow'.pendingVersion \in {tRow.pendingVersion, l.pendingVersion}
      BY <1>1, <2>1, TurnFlushed
    <3>2. QED
      BY <1>2, <3>1 DEF TurnInv, TurnNumbered
  <2>2. CASE Turn!HandoffAccepted
    BY <1>1, <2>1, <2>2 DEF Turn!HandoffAccepted, Turn!Rows
  <2>3. CASE Turn!HandoffInsecure
    BY <1>1, <2>1, <2>3 DEF Turn!HandoffInsecure, Turn!Rows
  <2>4. CASE Turn!HandoffLost
    BY <1>1, <2>1, <2>4 DEF Turn!HandoffLost, Turn!Rows
  <2>5. CASE Turn!HandoffDropped
    BY <1>1, <1>2, <2>5 DEF Turn!HandoffDropped, TurnInv, TurnNumbered
  <2>6. QED
    BY <2>2, <2>3, <2>4, <2>5
<1>4. Turn!TypeOK'
  BY <1>2, <1>3, TurnBlank DEF TurnInv, Turn!TypeOK
<1>5. TurnNumbered(tDispatch.loaded)' /\ TurnNumbered(TurnLoaded)' /\ ~tDispatch'.on
  <2>1. 1 <= tIssued
    BY DEF TurnInv, Turn!TypeOK
  <2>2. QED
    BY <1>1, <1>2, <2>1, TurnBlank DEF TurnInv, TurnNumbered, TurnLoaded
<1>6. (tRequest'[Master].kind # "none" => Agrees(TurnLoaded, tRow)') /\ Proven(tRow, tPassed)'
  BY <1>1, <1>2, <1>3 DEF TurnInv, Agrees, Proven, TurnLoaded
<1>7. QED
  BY <1>3, <1>4, <1>5, <1>6 DEF TurnInv

LEMMA TurnStepInv == TurnInv /\ [Turn!Next]_(Turn!vars) => TurnInv'
<1> SUFFICES ASSUME TurnInv, [Turn!Next]_(Turn!vars)
             PROVE  TurnInv'
  OBVIOUS
<1>1. ASSUME NEW c \in {Master}, Turn!Handle(c) PROVE TurnInv'
  <2>1. c = Master
    OBVIOUS
  <2>2. Turn!Handle(Master)
    BY <1>1, <2>1
  <2>3. QED
    BY <2>2, TurnRequestInv
<1>2. ASSUME NEW c \in {Master}, NEW kind \in TurnOffered, Turn!Load(c, kind) PROVE TurnInv'
  <2> DEFINE loading == [kind |-> kind, loaded |-> tRow, busy |-> tBusy]
  <2>1. /\ tRequest' = [tRequest EXCEPT ![Master] = loading] /\ loading \in TurnRequests
        /\ tRequest \in [{Master} -> TurnRequests]
    BY <1>2, TurnAssumption DEF Turn!Load, TurnRequests, TurnInv, Turn!TypeOK
  <2>2. tRequest' \in [{Master} -> TurnRequests] /\ tRequest'[Master].loaded = tRow
    BY <2>1
  <2>3. UNCHANGED <<tRow, tDeleted, tIssued, tDeployed, tDispatch, tLease, tBusy, tPassed>>
    BY <1>2 DEF Turn!Load
  <2>4. Turn!TypeOK'
    BY <2>2, <2>3 DEF TurnInv, Turn!TypeOK, TurnRequests
  <2>5. QED
    BY <2>2, <2>3, <2>4 DEF TurnInv, TurnNumbered, TurnLoaded, Agrees, Proven
<1>3. CASE Turn!SelectExecutor
  <2>1. /\ tDispatch' = [on |-> TRUE, loaded |-> tRow] /\ tLease' = TRUE /\ ~tRow.requires
        /\ UNCHANGED <<tRow, tDeleted, tIssued, tDeployed, tRequest, tBusy, tPassed>>
    BY <1>3 DEF Turn!SelectExecutor, Turn!Dispatchable
  <2>2. Turn!TypeOK'
    BY <2>1 DEF TurnInv, Turn!TypeOK
  <2>3. QED
    BY <2>1, <2>2 DEF TurnInv, TurnNumbered, TurnLoaded, Agrees, Proven
<1>4. CASE Turn!HandoffAccepted \/ Turn!HandoffInsecure \/ Turn!HandoffLost \/ Turn!HandoffDropped
  BY <1>4, TurnDispatchInv
<1>5. CASE Turn!JobEnds
  <2>1. /\ tBusy' = FALSE /\ tLease' = FALSE
        /\ UNCHANGED <<tRow, tDeleted, tIssued, tDeployed, tRequest, tDispatch, tPassed>>
    BY <1>5 DEF Turn!JobEnds
  <2>2. Turn!TypeOK'
    BY <2>1 DEF TurnInv, Turn!TypeOK
  <2>3. QED
    BY <2>1, <2>2 DEF TurnInv, TurnNumbered, TurnLoaded, Agrees, Proven
<1>6. ASSUME NEW u \in TurnUrls, NEW s \in 1..TurnSecrets, Turn!Deploy(u, s) PROVE TurnInv'
  <2>1. /\ tDeployed' \in [TurnUrls -> Turn!Secrets]
        /\ UNCHANGED <<tRow, tDeleted, tIssued, tRequest, tDispatch, tLease, tBusy, tPassed>>
    BY <1>6, TurnAssumption DEF Turn!Deploy, TurnInv, Turn!TypeOK, Turn!Secrets
  <2>2. Turn!TypeOK'
    BY <2>1 DEF TurnInv, Turn!TypeOK
  <2>3. QED
    BY <2>1, <2>2 DEF TurnInv, TurnNumbered, TurnLoaded, Agrees, Proven
<1>7. CASE UNCHANGED Turn!vars
  BY <1>7 DEF Turn!vars, TurnInv, Turn!TypeOK, TurnNumbered, TurnLoaded, Agrees, Proven
<1>8. QED
  BY <1>1, <1>2, <1>3, <1>4, <1>5, <1>6, <1>7 DEF Turn!Next

\* For any destinations, secrets, versions and requests that take turns, with
\* dispatches beside them: jobs are sent only to a destination that has passed a
\* verification with the secret in use.
THEOREM AlwaysEarnedInTurn == MCSpec => []EarnedInTurn
<1>1. Turn!Init => TurnInv
  <2> SUFFICES ASSUME Turn!Init
               PROVE  TurnInv
    OBVIOUS
  <2>1. PICK u \in TurnUrls : tRow = Turn!Draft(u)
    BY DEF Turn!Init
  <2>2. /\ tRow \in Turn!Rows /\ tRow.lifecycle = "draft" /\ tRow.verified = FALSE
        /\ tRow.version = 1 /\ tRow.pendingVersion = 0
    BY <2>1, TurnAssumption DEF Turn!Draft, Turn!Rows, Turn!Secrets, Turn!Versions
  <2>3. /\ tRequest = [c \in {Master} |-> Turn!NoRequest] /\ tDispatch = Turn!NoDispatch
        /\ tDeleted = FALSE /\ tIssued = 1 /\ tLease = FALSE /\ tBusy = FALSE
        /\ tDeployed = [v \in TurnUrls |-> 0] /\ tPassed = {}
    BY DEF Turn!Init
  <2>4. Turn!TypeOK
    <3>1. tDeployed \in [TurnUrls -> Turn!Secrets] /\ tIssued \in 1..TurnSecrets
      BY <2>3, TurnAssumption DEF Turn!Secrets
    <3>2. tDeleted \in BOOLEAN /\ tLease \in BOOLEAN /\ tBusy \in BOOLEAN
      BY <2>3
    <3>3. tRequest \in [{Master} -> TurnRequests] /\ tDispatch \in [on: BOOLEAN, loaded: Turn!Rows]
      BY <2>3, TurnBlank
    <3>4. tPassed \subseteq (TurnUrls \X Turn!Secrets)
      BY <2>3
    <3>5. QED
      BY <2>2, <3>1, <3>2, <3>3, <3>4 DEF Turn!TypeOK, TurnRequests
  <2>5. QED
    BY <2>2, <2>3, <2>4, TurnBlank DEF TurnInv, TurnNumbered, TurnLoaded, Proven
<1>2. TurnInv => EarnedInTurn
  BY DEF TurnInv, EarnedInTurn, Turn!DestinationProven, Turn!Dispatchable, Proven
<1>3. [MCNext]_MCvars => [Turn!Next]_(Turn!vars)
  BY DEF MCNext, MCvars, tVars, Turn!vars
<1>4. QED
  BY <1>1, <1>2, <1>3, TurnStepInv, PTL DEF MCSpec, MCInit
=============================================================================
