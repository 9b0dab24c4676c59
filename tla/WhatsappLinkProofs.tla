------------------------- MODULE WhatsappLinkProofs -------------------------
(***************************************************************************)
(* Theorems about WhatsappLink: however many requests are under way, codes *)
(* are asked for and whatever the timers are, a code on display is watched *)
(* and what is called connecting is polled, on a page that is rendered     *)
(* between two events; and about WebSession, as MCBrowser composes it, for *)
(* every set of demos and tenants and every bound.                         *)
(***************************************************************************)
EXTENDS MCBrowser, FiniteSetTheorems, TLAPS

\* The effect has seen that polling is wanted, and the hook polls.
SeenIsPolled ==
    mounted /\ seenPolling /\ pollingEnabled =>
        ~stopped /\ interval # "off" /\ timeoutLeft > 0

\* CodeIsWatched, whatever else is on display.
Watched ==
    mounted /\ (pairingCode \/ qrCode) /\ ~timeoutError => pollingEnabled

\* The QR timer runs only while the page polls: it never refreshes a page.
TimerIsPolled == mounted /\ refreshLeft > 0 => pollingEnabled
NoRefreshOnPage == refresh = "sent" => ~mounted

IInv == TypeOK /\ SeenIsPolled /\ Watched /\ TimerIsPolled /\ NoRefreshOnPage

\* A page that has just been opened polls for nothing.
LEMMA InitInv == Init => IInv
<1> SUFFICES ASSUME Init PROVE IInv
  OBVIOUS
<1>1. /\ mounted \in BOOLEAN /\ loading \in BOOLEAN
      /\ error \in BOOLEAN /\ timeoutError \in BOOLEAN
      /\ pairingCode \in BOOLEAN /\ qrCode \in BOOLEAN
      /\ pollingEnabled \in BOOLEAN /\ seenPolling \in BOOLEAN
      /\ seenOn \in BOOLEAN /\ stopped \in BOOLEAN
      /\ called \in BOOLEAN /\ linked \in BOOLEAN
  BY Zenon DEF Init
<1>2. ~seenPolling /\ ~pairingCode /\ ~qrCode
  BY Zenon DEF Init
<1> QED BY <1>1, <1>2, LinkAssumption DEF Init, IInv, TypeOK, SeenIsPolled, Watched,
           TimerIsPolled, NoRefreshOnPage, NoPoll

\* Sending a poll keeps the type of the requests.
LEMMA PollTyped ==
  ASSUME TypeOK, NEW s \in Nat, poll(s)
  PROVE  polls' \in [Polls -> [at : {"idle", "sent", "yes", "no"}, session : Nat]]
<1>1. ASSUME NEW p \in Polls,
             polls' = [polls EXCEPT ![p] = [at |-> "sent", session |-> s]]
      PROVE  polls' \in [Polls -> [at : {"idle", "sent", "yes", "no"}, session : Nat]]
  <2>1. [at |-> "sent", session |-> s] \in
           [at : {"idle", "sent", "yes", "no"}, session : Nat]
    OBVIOUS
  <2> QED BY <1>1, <2>1 DEF TypeOK
<1> QED BY <1>1 DEF poll, TypeOK

\* Steps that have to do with the hook.
LEMMA HookInv ==
  ASSUME Prompt, IInv,
         Effects \/ IntervalFires \/ TimeoutFires \/ \E p \in Polls : PollAnswer(p)
  PROVE  IInv'
<1> USE LinkAssumption DEF IInv
<1>1. CASE Effects
  <2> USE <1>1 DEF Effects, page
  <2>1. CASE pollingEnabled = seenPolling
    BY <2>1 DEF TypeOK, SeenIsPolled, Watched, TimerIsPolled, NoRefreshOnPage,
       connected, Unrendered
  <2>2. CASE pollingEnabled # seenPolling /\ pollingEnabled
    <3>1. polls' \in [Polls -> [at : {"idle", "sent", "yes", "no"}, session : Nat]]
      <4>1. poll(session + 1) /\ session + 1 \in Nat
        BY <2>2 DEF StartOrStop, TypeOK
      <4> QED BY <4>1, PollTyped DEF IInv
    <3>2. stopped' \in BOOLEAN /\ ~stopped' /\ called' \in BOOLEAN
      BY <2>2, Zenon DEF StartOrStop
    <3> QED BY <3>1, <3>2, <2>2 DEF TypeOK, SeenIsPolled, Watched, TimerIsPolled,
               NoRefreshOnPage, StartOrStop, connected
  <2>3. CASE pollingEnabled # seenPolling /\ ~pollingEnabled
    BY <2>3 DEF TypeOK, SeenIsPolled, Watched, TimerIsPolled, NoRefreshOnPage,
       StartOrStop, clearTimers, connected
  <2> QED BY <2>1, <2>2, <2>3
<1>2. CASE IntervalFires
  <2> USE <1>2 DEF IntervalFires, page, refs, history
  <2>1. polls' \in [Polls -> [at : {"idle", "sent", "yes", "no"}, session : Nat]]
    <3>1. session \in Nat BY DEF TypeOK
    <3>2. CASE stopped BY <3>2 DEF TypeOK
    <3>3. CASE ~stopped BY <3>1, <3>3, PollTyped
    <3> QED BY <3>2, <3>3
  <2> QED BY <2>1 DEF TypeOK, SeenIsPolled, Watched, TimerIsPolled, NoRefreshOnPage
<1>3. CASE TimeoutFires
  <2> USE <1>3 DEF TimeoutFires, refs, requests, history
  <2>1. CASE stopped
    BY <2>1 DEF TypeOK, SeenIsPolled, Watched, TimerIsPolled, NoRefreshOnPage
  <2>2. CASE ~stopped
    <3>1. /\ pollingEnabled' \in BOOLEAN /\ timeoutError' \in BOOLEAN
          /\ ~pollingEnabled' /\ timeoutError'
      BY <2>2, Zenon
    <3>2. interval' = "off" /\ timeoutLeft' = 0 /\ refreshLeft' = 0
      BY <2>2, Zenon DEF clearTimers
    <3> QED BY <3>1, <3>2 DEF TypeOK, SeenIsPolled, Watched, TimerIsPolled,
               NoRefreshOnPage
  <2> QED BY <2>1, <2>2
<1>4. ASSUME NEW p \in Polls, PollAnswer(p) PROVE IInv'
  <2>1. polls' \in [Polls -> [at : {"idle", "sent", "yes", "no"}, session : Nat]]
    <3>1. NoPoll \in [at : {"idle", "sent", "yes", "no"}, session : Nat]
      BY DEF NoPoll
    <3> QED BY <1>4, <3>1 DEF PollAnswer, TypeOK
  <2>2. CASE Applied(p)
    <3>1. /\ called' \in BOOLEAN /\ stopped' \in BOOLEAN
          /\ pollingEnabled' \in BOOLEAN /\ pairingCode' \in BOOLEAN
          /\ qrCode' \in BOOLEAN /\ timeoutError' \in BOOLEAN
          /\ ~pollingEnabled' /\ ~pairingCode' /\ ~qrCode'
      BY <1>4, <2>2, Zenon DEF PollAnswer, Connected
    <3> QED BY <1>4, <2>1, <2>2, <3>1 DEF PollAnswer, Connected, clearTimers, TypeOK,
       SeenIsPolled, Watched, TimerIsPolled, NoRefreshOnPage, history
  <2>3. CASE ~Applied(p)
    BY <1>4, <2>1, <2>3 DEF PollAnswer, TypeOK, SeenIsPolled, Watched,
       TimerIsPolled, NoRefreshOnPage, page, refs, timers, history
  <2> QED BY <2>2, <2>3
<1> QED BY <1>1, <1>2, <1>3, <1>4

\* Handlers and answers of the section.
LEMMA SectionInv ==
  ASSUME Prompt, IInv,
         \/ handleRequestPairingCode \/ handleLoadQrCode \/ handleDisconnectConfirm
         \/ handleRetry \/ Unmount \/ PairAnswer \/ QrAnswer \/ RefreshFires
         \/ RefreshAnswer \/ DisconnectAnswer \/ LoadAnswer
  PROVE  IInv'
<1> USE LinkAssumption DEF IInv, TypeOK, SeenIsPolled, Watched, TimerIsPolled,
        NoRefreshOnPage, page, refs, timers, requests, history
<1>1. CASE handleRequestPairingCode BY <1>1 DEF handleRequestPairingCode
<1>2. CASE handleLoadQrCode BY <1>2 DEF handleLoadQrCode
<1>3. CASE handleDisconnectConfirm BY <1>3 DEF handleDisconnectConfirm
<1>4. CASE handleRetry
  <2>1. /\ loading' \in BOOLEAN /\ error' \in BOOLEAN
        /\ pairingCode' \in BOOLEAN /\ qrCode' \in BOOLEAN
        /\ timeoutError' \in BOOLEAN /\ pollingEnabled' \in BOOLEAN
        /\ ~pairingCode' /\ ~qrCode'
    BY <1>4, Zenon DEF handleRetry
  <2> QED BY <1>4, <2>1 DEF handleRetry
<1>5. CASE Unmount
  <2>1. mounted' \in BOOLEAN /\ ~mounted'
    BY <1>5, Zenon DEF Unmount
  <2> QED BY <1>5, <2>1 DEF Unmount, clearTimers
<1>6. CASE PairAnswer
  <2>1. /\ pairingCode' \in BOOLEAN /\ pollingEnabled' \in BOOLEAN
        /\ timeoutError' \in BOOLEAN
        /\ pollingEnabled' \/ UNCHANGED <<pairingCode, pollingEnabled, timeoutError>>
    BY <1>6, Zenon DEF PairAnswer, IInv, TypeOK
  <2> QED BY <1>6, <2>1 DEF PairAnswer, Ready, Unrendered
<1>7. CASE QrAnswer
  <2>1. /\ qrCode' \in BOOLEAN /\ pollingEnabled' \in BOOLEAN
        /\ timeoutError' \in BOOLEAN
    BY <1>7, Zenon DEF QrAnswer, IInv, TypeOK
  <2> QED BY <1>7, <2>1 DEF QrAnswer, Ready, Unrendered, scheduleQrRefresh
<1>8. CASE RefreshFires BY <1>8 DEF RefreshFires, Ready, Unrendered
<1>9. CASE RefreshAnswer BY <1>9 DEF RefreshAnswer, scheduleQrRefresh
<1>10. CASE DisconnectAnswer
  <2>1. CASE ~pairingCode' /\ ~qrCode' /\ refreshLeft' = 0
    <3>1. /\ error' \in BOOLEAN /\ pairingCode' \in BOOLEAN
          /\ qrCode' \in BOOLEAN /\ timeoutError' \in BOOLEAN
          /\ pollingEnabled' \in BOOLEAN
      BY <1>10, Zenon DEF DisconnectAnswer
    <3>2. load' \in {"idle", "sent", "on", "off"} /\ disconnect' = "idle"
      BY <1>10, Zenon DEF DisconnectAnswer
    <3>3. pollingEnabled' => pollingEnabled
      BY <1>10, Zenon DEF DisconnectAnswer
    <3> QED BY <1>10, <2>1, <3>1, <3>2, <3>3 DEF DisconnectAnswer
  <2>2. CASE UNCHANGED <<pairingCode, qrCode, timeoutError, pollingEnabled,
                         refreshLeft, load>>
    <3>1. error' \in BOOLEAN
      BY <1>10, Zenon DEF DisconnectAnswer
    <3> QED BY <1>10, <2>2, <3>1 DEF DisconnectAnswer
  <2> QED BY <1>10, <2>1, <2>2, Zenon DEF DisconnectAnswer
<1>11. CASE LoadAnswer
  <2>1. loading' \in BOOLEAN /\ error' \in BOOLEAN
    BY <1>11, Zenon DEF LoadAnswer, IInv, TypeOK
  <2> QED BY <1>11, <2>1 DEF LoadAnswer
<1> QED BY <1>1, <1>2, <1>3, <1>4, <1>5, <1>6, <1>7, <1>8, <1>9, <1>10, <1>11

\* Time, the phone and the server.
LEMMA OutsideInv ==
  ASSUME IInv,
         \/ Tick \/ PhoneLinks \/ PhoneUnlinks \/ LoadServed \/ DisconnectServed
         \/ \E p \in Polls : PollServed(p)
  PROVE  IInv'
<1> USE LinkAssumption DEF IInv, TypeOK, SeenIsPolled, Watched, TimerIsPolled,
        NoRefreshOnPage, page, refs, timers, requests, history
<1>1. CASE Tick BY <1>1 DEF Tick
<1>2. CASE PhoneLinks BY <1>2 DEF PhoneLinks
<1>3. CASE PhoneUnlinks
  <2>1. linked' \in BOOLEAN
    BY <1>3, Zenon DEF PhoneUnlinks, DisconnectServed
  <2> QED BY <1>3, <2>1 DEF PhoneUnlinks
<1>4. CASE LoadServed BY <1>4 DEF LoadServed
<1>5. CASE DisconnectServed
  <2>1. linked' \in BOOLEAN
    BY <1>5, Zenon DEF PhoneUnlinks, DisconnectServed
  <2> QED BY <1>5, <2>1 DEF DisconnectServed
<1>6. ASSUME NEW p \in Polls, PollServed(p) PROVE IInv'
  <2>1. PICK answer \in {"yes", "no"} : polls' = [polls EXCEPT ![p].at = answer]
    BY <1>6 DEF PollServed
  <2>2. polls' \in [Polls -> [at : {"idle", "sent", "yes", "no"}, session : Nat]]
    BY <2>1
  <2> QED BY <1>6, <2>2 DEF PollServed
<1> QED BY <1>1, <1>2, <1>3, <1>4, <1>5, <1>6

\* Every step on a rendered page keeps the invariant.
LEMMA NextInv ==
  ASSUME Prompt, IInv, [Next]_vars
  PROVE  IInv'
<1>1. CASE UNCHANGED vars
  BY <1>1 DEF vars, IInv, TypeOK, SeenIsPolled, Watched, TimerIsPolled,
     NoRefreshOnPage, page, refs, timers, requests, history
<1>2. CASE Next
  BY <1>2, HookInv, SectionInv, OutsideInv DEF Next
<1> QED BY <1>1, <1>2

\* The invariant of the page.
LEMMA Inductive == ASSUME Prompt PROVE Spec => []IInv
  BY InitInv, NextInv, PTL DEF Spec

\* The variables of useWhatsAppLinkPolling and of the section keep their types.
THEOREM TypeCorrect == ASSUME Prompt PROVE Spec => []TypeOK
<1>1. IInv => TypeOK BY DEF IInv
<1> QED BY <1>1, Inductive, PTL

\* No order of answers leaves a pairing or QR code on display that is not polled
\* for: the setters of handleRequestPairingCode, handleLoadQrCode, handleRetry,
\* onConnected and onTimeout keep them together.
THEOREM CodesWatched == ASSUME Prompt PROVE Spec => []CodeIsWatched
<1>1. IInv => CodeIsWatched BY DEF IInv, Watched, CodeIsWatched, Tabs
<1> QED BY <1>1, Inductive, PTL

\* A badge that says connecting has the interval and the time-out of the hook
\* behind it.
THEOREM ConnectingPolled == ASSUME Prompt PROVE Spec => []ConnectingIsPolled
<1>1. IInv => ConnectingIsPolled
  BY DEF IInv, SeenIsPolled, ConnectingIsPolled, Unrendered
<1> QED BY <1>1, Inductive, PTL

----------------------------------------------------------------------------
(* The session of the browser *)

\* What MCBrowser assumes of the constants of the session.
LEMMA Params == Session!SessionAssumption
BY MCAssumption DEF MCAssumption

\* A step of the composition is a step of the session or leaves it alone.
LEMMA SessionRuns == [MCNext]_MCvars => [Session!Next]_(Session!vars)
BY DEF MCNext, MCvars, sVars, Session!vars

\* The sessions a tab and localStorage may hold, and the requests a tab sends.
Sessions == [user: Session!Users \cup {Session!None},
             tenant: Demos \cup Tenants \cup {Session!None},
             demo: Demos \cup {Session!None}, plan: Demos \cup Tenants \cup {Session!None}]
Requests == [tab: TabIds, kind: Session!Kinds, user: Session!Users \cup {Session!None},
             tenant: Demos \cup Tenants \cup {Session!None}, answer: Session!Answers,
             fresh: BOOLEAN]

\* The heartbeats of one generation, over any number of tabs.
FreshAlone ==
    /\ sRequests \subseteq Requests
    /\ \A q, r \in sRequests : q.fresh /\ r.fresh /\ q.tab = r.tab => q = r

\* The part of the types the heartbeats depend on.
Stored == sStorage \in Sessions /\ sTab \in [TabIds -> Sessions]

\* Every session a token stands for is one.
LEMMA TokenTyped ==
    ASSUME NEW u \in Session!Users \cup {Session!None},
           NEW p \in Demos \cup Tenants \cup {Session!None}
    PROVE  Session!Token(u, p) \in Sessions
BY Params DEF Session!Token, Sessions, Session!SessionAssumption, Session!Users

\* Nobody's session is one too.
LEMMA NoTokenTyped == Session!NoToken \in Sessions
BY TokenTyped DEF Session!NoToken

\* Sending is refused while the same request is under way.
LEMMA SendFresh ==
    ASSUME FreshAlone, NEW t \in TabIds, NEW k \in Session!Kinds,
           NEW u \in Session!Users \cup {Session!None},
           NEW p \in Demos \cup Tenants \cup {Session!None}, Session!Send(t, k, u, p),
           k = "heartbeat" => \A r \in Session!OfTab(t) : ~r.fresh
    PROVE  FreshAlone'
<1> DEFINE r == [tab |-> t, kind |-> k, user |-> u, tenant |-> p,
                 answer |-> "sent", fresh |-> k = "heartbeat"]
<1>1. sRequests' = sRequests \cup {r}
    BY DEF Session!Send
<1>2. r \in Requests
    BY DEF Requests, Session!Answers
<1>3. r.tab = t /\ (r.fresh <=> k = "heartbeat")
    OBVIOUS
<1> HIDE DEF r
<1>4. ASSUME NEW a \in sRequests, a.fresh, r.fresh, a.tab = r.tab PROVE FALSE
    BY <1>3, <1>4 DEF Session!OfTab
<1> QED
    BY <1>1, <1>2, <1>4 DEF FreshAlone

\* An answer that arrives makes no heartbeat fresh.
LEMMA RemainingFresh ==
    ASSUME FreshAlone, NEW r \in sRequests, NEW s, sRequests' = Session!Remaining(r, s)
    PROVE  FreshAlone'
<1>1. ASSUME NEW x \in sRequests' PROVE x \in Requests /\ (x.fresh => x \in sRequests)
  <2>1. PICK q \in sRequests : x = q \/ x = [q EXCEPT !.fresh = FALSE]
    BY DEF Session!Remaining
  <2> QED
    BY <2>1 DEF FreshAlone, Requests
<1> QED
    BY <1>1 DEF FreshAlone

\* Nor does dropping requests.
LEMMA FewerFresh ==
    ASSUME FreshAlone, sRequests' \subseteq sRequests PROVE FreshAlone'
BY DEF FreshAlone

\* The delivery of an answer takes a typed session.
LEMMA DeliverStored ==
    ASSUME Stored, FreshAlone, NEW r \in sRequests, Session!Deliver(r)
    PROVE Stored' /\ FreshAlone'
<1>t. r \in Requests /\ sTab[r.tab] \in Sessions /\ sStorage \in Sessions
    BY DEF Stored, FreshAlone, Requests
<1>1. ASSUME NEW s \in Sessions, Session!Become(r, s), sStorage' \in Sessions
      PROVE Stored' /\ FreshAlone'
    BY <1>1, RemainingFresh DEF Session!Become, Stored
<1>2. ASSUME Session!Ignore(r) PROVE Stored' /\ FreshAlone'
    BY <1>2, FewerFresh DEF Session!Ignore, Stored
<1>3. CASE Session!DeliverToken(r)
  <2>1. Session!Token(r.user, r.tenant) \in Sessions
    BY <1>t, TokenTyped DEF Requests
  <2> QED
    BY <1>1, <1>2, <1>3, <2>1 DEF Session!DeliverToken
<1>4. CASE Session!DeliverLogout(r)
    BY <1>1, <1>4, NoTokenTyped DEF Session!DeliverLogout
<1>5. CASE Session!DeliverHeartbeat(r)
  <2> DEFINE demo == IF r.user \in Demos THEN r.user ELSE Session!None
             plan == IF r.tenant = Session!None THEN sTab[r.tab].plan ELSE r.tenant
  <2>1. CASE Session!EndDemo(r)
    BY <1>1, <2>1, NoTokenTyped DEF Session!EndDemo
  <2>2. CASE Session!Become(r, Session!NoToken) /\ sStorage' = Session!NoToken
    BY <1>1, <2>2, NoTokenTyped
  <2>3. CASE Session!Ignore(r)
    BY <1>2, <2>3
  <2>4. CASE /\ Session!Become(r, [sTab[r.tab] EXCEPT !.demo = demo, !.plan = plan])
             /\ sStorage' = [sStorage EXCEPT !.demo = demo,
                                       !.plan = IF r.tenant = Session!None THEN @ ELSE plan]
    <3>1. /\ demo \in Demos \cup {Session!None}
          /\ plan \in Demos \cup Tenants \cup {Session!None}
          /\ (IF r.tenant = Session!None THEN sStorage.plan ELSE plan)
             \in Demos \cup Tenants \cup {Session!None}
        BY <1>t DEF Sessions, Requests
    <3> HIDE DEF demo, plan
    <3>2. [sTab[r.tab] EXCEPT !.demo = demo, !.plan = plan] \in Sessions
        BY <1>t, <3>1 DEF Sessions
    <3>3. sStorage' \in Sessions
      <4> DEFINE p == IF r.tenant = Session!None THEN sStorage.plan ELSE plan
      <4>1. sStorage' = [sStorage EXCEPT !.demo = demo, !.plan = p]
        BY <2>4
      <4>2. p \in Demos \cup Tenants \cup {Session!None}
        BY <3>1
      <4> HIDE DEF p
      <4> QED
        BY <1>t, <3>1, <4>1, <4>2 DEF Sessions
    <3> QED
        BY <1>1, <2>4, <3>2, <3>3
  <2> QED
    BY <1>5, <2>1, <2>2, <2>3, <2>4 DEF Session!DeliverHeartbeat
<1>6. CASE Session!DeliverDashboard(r)
  <2>1. CASE Session!Ignore(r)
    BY <1>2, <2>1
  <2>2. CASE /\ Session!Become(r, [sTab[r.tab] EXCEPT !.plan = r.tenant])
             /\ sStorage' = [sStorage EXCEPT !.plan = r.tenant]
    <3>1. [sTab[r.tab] EXCEPT !.plan = r.tenant] \in Sessions /\ sStorage' \in Sessions
        BY <1>t, <2>2 DEF Sessions, Requests
    <3> QED
        BY <1>1, <2>2, <3>1
  <2> QED
    BY <1>6, <2>1, <2>2 DEF Session!DeliverDashboard
<1> QED
    BY <1>3, <1>4, <1>5, <1>6 DEF Session!Deliver

\* Every step keeps the generations apart.
LEMMA FreshStep == Stored /\ FreshAlone /\ [Session!Next]_(Session!vars)
    => (Stored /\ FreshAlone)'
<1> SUFFICES ASSUME Stored, FreshAlone, [Session!Next]_(Session!vars)
    PROVE Stored' /\ FreshAlone'
    OBVIOUS
<1>t. /\ sStorage.user \in Session!Users \cup {Session!None}
         /\ sStorage.tenant \in Demos \cup Tenants \cup {Session!None}
      /\ Session!None \notin Session!Users
    BY Params DEF Stored, Sessions, Session!SessionAssumption, Session!Users, Session!None,
       Session!Master
<1>1. ASSUME NEW t \in TabIds, NEW k \in Session!Kinds, NEW u, NEW p,
             Session!Send(t, k, u, p) PROVE Stored'
    BY <1>1 DEF Session!Send, Stored
<1>2. ASSUME NEW t \in TabIds, NEW u \in Session!Users, Session!login(t, u)
      PROVE Stored' /\ FreshAlone'
  <2>1. u \in Session!Users \cup {Session!None}
        /\ (IF u = Session!Master THEN Session!None ELSE u)
           \in Demos \cup Tenants \cup {Session!None}
    BY DEF Session!Users
  <2> QED
    BY <1>1, <1>2, <2>1, SendFresh DEF Session!login, Session!Kinds
<1>3. ASSUME NEW t \in TabIds, NEW p \in Tenants \cup {Session!None},
             Session!switchTenant(t, p)
      PROVE  Stored' /\ FreshAlone'
    BY <1>t, <1>1, <1>3, SendFresh DEF Session!switchTenant, Session!Kinds
<1>4. ASSUME NEW t \in TabIds, Session!logout(t) PROVE Stored' /\ FreshAlone'
    BY <1>t, <1>1, <1>4, SendFresh DEF Session!logout, Session!Kinds
<1>5. ASSUME NEW t \in TabIds, Session!runHeartbeat(t) PROVE Stored' /\ FreshAlone'
    BY <1>t, <1>1, <1>5, SendFresh DEF Session!runHeartbeat, Session!Kinds
<1>6. ASSUME NEW t \in TabIds, Session!loadDashboard(t) PROVE Stored' /\ FreshAlone'
    BY <1>t, <1>1, <1>6, SendFresh DEF Session!loadDashboard, Session!Kinds
<1>7. ASSUME NEW t \in TabIds, NEW s \in Sessions, Session!Start(t, s),
             sStorage' \in Sessions
      PROVE  Stored' /\ FreshAlone'
  <2>1. Session!Loaded(s) \in Sessions
    BY DEF Session!Loaded, Sessions
  <2> QED
    BY <1>7, <2>1, FewerFresh DEF Session!Start, Stored
<1>8. ASSUME NEW t \in TabIds, Session!Reload(t) PROVE Stored' /\ FreshAlone'
    BY <1>7, <1>8 DEF Session!Reload, Stored
<1>9. ASSUME NEW r \in sRequests, Session!Unauthorized(r) PROVE Stored' /\ FreshAlone'
  <2>1. sStorage' \in Sessions
    BY <1>9, NoTokenTyped DEF Session!Unauthorized, Stored, Sessions
  <2>2. r.tab \in TabIds
    BY DEF FreshAlone, Requests
  <2> QED
    BY <1>7, <1>9, <2>1, <2>2 DEF Session!Unauthorized
<1>10. ASSUME NEW t \in TabIds, Session!EditWorkspace(t) PROVE Stored' /\ FreshAlone'
    BY <1>10, FewerFresh DEF Session!EditWorkspace, Stored
<1>11. ASSUME NEW r \in sRequests, Session!Handle(r) PROVE Stored' /\ FreshAlone'
  <2>1. PICK a \in Session!Answers : sRequests' = (sRequests \ {r}) \cup {[r EXCEPT !.answer = a]}
    BY <1>11 DEF Session!Handle
  <2>2. r \in Requests
    BY DEF FreshAlone
  <2>3. [r EXCEPT !.answer = a] \in Requests
    BY <2>2 DEF Requests
  <2>4. [r EXCEPT !.answer = a].fresh = r.fresh /\ [r EXCEPT !.answer = a].tab = r.tab
    BY <2>2 DEF Requests
  <2>5. ASSUME NEW q \in sRequests \ {r} PROVE ~(q.fresh /\ r.fresh /\ q.tab = r.tab)
    BY DEF FreshAlone
  <2>6. FreshAlone'
    <3> DEFINE x == [r EXCEPT !.answer = a]
    <3> HIDE DEF x
    <3>1. sRequests' = (sRequests \ {r}) \cup {x} /\ x.fresh = r.fresh /\ x.tab = r.tab
          /\ x \in Requests
        BY <2>1, <2>3, <2>4 DEF x
    <3> QED
        BY <2>5, <3>1 DEF FreshAlone
  <2> QED
    BY <1>11, <2>6 DEF Session!Handle, Stored
<1>12. ASSUME NEW r \in sRequests, Session!Deliver(r) PROVE Stored' /\ FreshAlone'
    BY <1>12, DeliverStored
<1>13. ASSUME NEW d \in Demos, Session!DemoEnds(d) PROVE Stored' /\ FreshAlone'
    BY <1>13, FewerFresh DEF Session!DemoEnds, Stored
<1>14. ASSUME UNCHANGED Session!vars PROVE Stored' /\ FreshAlone'
    BY <1>14, FewerFresh DEF Session!vars, Stored
<1> QED
    BY <1>2, <1>3, <1>4, <1>5, <1>6, <1>8, <1>9, <1>10, <1>11, <1>12, <1>13, <1>14
       DEF Session!Next

\* WebSession counts as the library does.
LEMMA SameCardinality == ASSUME NEW S PROVE Session!Cardinality(S) = Cardinality(S)
BY DEF Session!Cardinality, Cardinality

\* Fresh heartbeats of a tab are one.
LEMMA FreshIsOne == FreshAlone => Session!OneHeartbeat
<1> SUFFICES ASSUME FreshAlone, NEW t \in TabIds
             PROVE  Cardinality({r \in Session!OfTab(t) : r.fresh}) <= 1
  BY SameCardinality DEF Session!OneHeartbeat
<1>1. CASE {r \in Session!OfTab(t) : r.fresh} = {}
  BY <1>1, FS_EmptySet
<1>2. CASE \E q \in Session!OfTab(t) : q.fresh
  <2>1. PICK q \in Session!OfTab(t) : q.fresh
      BY <1>2
  <2>2. {r \in Session!OfTab(t) : r.fresh} = {q}
      BY <2>1 DEF FreshAlone, Session!OfTab
  <2> DEFINE S == {r \in Session!OfTab(t) : r.fresh}
  <2> HIDE DEF S
  <2>3. S = {q}
      BY <2>2 DEF S
  <2>4. Cardinality(S) = 1
      BY <2>3, FS_Singleton
  <2>5. Cardinality(S) <= 1
      BY <2>4
  <2> QED
      BY <2>5 DEF S
<1> QED
  BY <1>1, <1>2

----------------------------------------------------------------------------
(* A tab on its own that waits before it changes its session *)

\* One tab is open.
OneTab == \A s, t \in TabIds : s = t

\* What a request says of the session it was sent in.
Asked(r) ==
    /\ r.kind = "login" => r.user \in Session!Users
    /\ r.kind = "switch" => r.user = Session!Master
    /\ r.kind \in {"heartbeat", "dashboard"} =>
         r.user = sStorage.user /\ r.tenant = sStorage.tenant
    /\ r.kind = "heartbeat" => r.fresh /\ sTab[r.tab].user # Session!None
       /\ sTab[r.tab].demo # Session!None
    /\ r.kind = "dashboard" => sTab[r.tab].tenant # Session!None
       /\ sTab[r.tab].demo = Session!None
    /\ r.answer = "ended" => r.kind \in {"login", "heartbeat"} /\ r.user \in Demos \ sAlive

\* Such a tab has one request under way at most, sent in the session it has.
AskedAlone == \A r \in sRequests : Asked(r) /\ \A q \in sRequests : q = r

\* The rest of the state.
Counted ==
    /\ sWorkspace \in [Demos -> {"absent", "baseline", "edited"}]
    /\ sAlive \subseteq Demos
    /\ sFailures \in 0..MaxFailures /\ sRotations \in 0..MaxRotations

\* Nobody acts for a tenant without being logged in.
Anonymous == sStorage.user = Session!None => sStorage.tenant = Session!None

\* What the tab shows is what localStorage and the token say.
InSession == Session!ReloadKeepsSession /\ Session!SourceOfSession /\ Session!PlanOfSession
    /\ Anonymous

\* The inductive invariant of such a tab.
SInv == Stored /\ FreshAlone /\ AskedAlone /\ Counted /\ InSession

\* The workspace of a demo session exists.
LEMMA EnsuredTyped ==
    ASSUME Counted, NEW d \in Demos \cup {Session!None}
    PROVE  /\ Session!Ensured(d) \in [Demos -> {"absent", "baseline", "edited"}]
           /\ \A x \in Demos : sWorkspace[x] # "absent" => Session!Ensured(d)[x] # "absent"
BY DEF Counted, Session!Ensured

\* A session that is taken over by the tab and by localStorage at once.
LEMMA SameSession ==
    ASSUME OneTab, Stored, NEW t \in TabIds, NEW s \in Sessions,
           sTab' = [sTab EXCEPT ![t] = Session!Loaded(s)], sStorage' = s,
           (IF s.user = Session!None THEN Session!None ELSE s.demo)
               = IF s.user \in Demos THEN s.user ELSE Session!None,
           s.user # Session!None => s.plan = s.tenant,
           s.user = Session!None => s.tenant = Session!None
    PROVE  InSession'
<1>1. ASSUME NEW x \in TabIds PROVE sTab'[x] = Session!Loaded(s)
    BY <1>1 DEF OneTab, Stored
<1>2. Session!Loaded(s)
      = IF s.user = Session!None THEN [s EXCEPT !.demo = Session!None] ELSE s
    BY DEF Session!Loaded
<1>3. /\ Session!Loaded(s).user = s.user /\ Session!Loaded(s).tenant = s.tenant
         /\ Session!Loaded(s).plan = s.plan
      /\ Session!Loaded(s).demo = IF s.user = Session!None THEN Session!None ELSE s.demo
    BY <1>2 DEF Sessions
<1>4. Session!ReloadKeepsSession' /\ Anonymous'
    BY <1>1 DEF Session!ReloadKeepsSession, Anonymous, Session!Loaded
<1>5. Session!SourceOfSession'
    BY <1>1, <1>3 DEF Session!SourceOfSession, Session!source
<1>6. Session!PlanOfSession'
    BY <1>1, <1>3 DEF Session!PlanOfSession
<1> QED
    BY <1>4, <1>5, <1>6 DEF InSession

\* A token's session is such a session.
LEMMA TokenSession ==
    ASSUME NEW u \in Session!Users \cup {Session!None},
           NEW p \in Demos \cup Tenants \cup {Session!None},
           u = Session!None => p = Session!None
    PROVE  LET s == Session!Token(u, p) IN
           /\ Session!Loaded(s) = s
           /\ (IF s.user = Session!None THEN Session!None ELSE s.demo)
              = IF s.user \in Demos THEN s.user ELSE Session!None
           /\ s.user # Session!None => s.plan = s.tenant
           /\ s.user = Session!None => s.tenant = Session!None
           /\ s.demo \in Demos \cup {Session!None}
BY Params DEF Session!Token, Session!Loaded, Session!SessionAssumption, Session!None,
   Session!Master

\* With one tab, an answer that arrives leaves nothing to wait for.
LEMMA NothingLeft ==
    ASSUME AskedAlone, NEW r \in sRequests, NEW s
    PROVE  Session!Remaining(r, s) = {} /\ sRequests \ {r} = {}
<1>1. sRequests \ {r} = {}
    BY DEF AskedAlone
<1> QED
    BY <1>1 DEF Session!Remaining

\* A request is sent when no other is under way.
LEMMA SendAlone ==
    ASSUME SInv, NEW t \in TabIds, NEW k \in Session!Kinds, NEW u, NEW p,
           Session!Send(t, k, u, p), sRequests = {},
           k = "login" => u \in Session!Users, k = "switch" => u = Session!Master,
           k \in {"heartbeat", "dashboard"} => u = sStorage.user /\ p = sStorage.tenant,
           k = "heartbeat" => sTab[t].user # Session!None /\ sTab[t].demo # Session!None,
           k = "dashboard" => sTab[t].tenant # Session!None /\ sTab[t].demo = Session!None
    PROVE  AskedAlone' /\ Counted' /\ InSession'
<1> DEFINE r == [tab |-> t, kind |-> k, user |-> u, tenant |-> p,
                 answer |-> "sent", fresh |-> k = "heartbeat"]
<1>1. sRequests' = {r}
      /\ UNCHANGED <<sTab, sStorage, sWorkspace, sAlive, sFailures, sRotations>>
    BY DEF Session!Send
<1>2. r.tab = t /\ r.kind = k /\ r.user = u /\ r.tenant = p /\ r.answer = "sent"
      /\ (r.fresh <=> k = "heartbeat")
    OBVIOUS
<1> HIDE DEF r
<1>3. Asked(r)'
    BY <1>1, <1>2 DEF Asked
<1>4. AskedAlone'
    BY <1>1, <1>3 DEF AskedAlone, Asked
<1>5. Counted' /\ InSession'
    BY <1>1 DEF SInv, Counted, InSession, Session!ReloadKeepsSession,
       Session!SourceOfSession, Session!PlanOfSession,
       Anonymous, Session!source
<1> QED
    BY <1>4, <1>5
\* The delivery of an answer: a new token, the end of a session, or what the
\* session was already.
LEMMA DeliverInSession ==
    ASSUME OneTab, SInv, NEW r \in sRequests, Session!Deliver(r)
    PROVE  /\ AskedAlone' /\ Counted' /\ InSession'
           /\ \A d \in sAlive : sWorkspace[d] # "absent" => sWorkspace'[d] # "absent"
<1>t. /\ r \in Requests /\ r.tab \in TabIds /\ sStorage \in Sessions
         /\ sTab \in [TabIds -> Sessions]
      /\ Asked(r) /\ AskedAlone /\ Stored /\ Counted
    BY DEF SInv, Stored, FreshAlone, Requests, AskedAlone
<1>m. /\ sTab[r.tab] = Session!Loaded(sStorage)
      /\ sTab[r.tab].demo
         = IF sTab[r.tab].user \in Demos THEN sTab[r.tab].user ELSE Session!None
      /\ sTab[r.tab].user # Session!None => sTab[r.tab].plan = sTab[r.tab].tenant
    BY <1>t DEF SInv, InSession, Session!ReloadKeepsSession, Session!SourceOfSession,
       Session!PlanOfSession, Session!source
<1>n. Session!None \notin Demos /\ Session!None \notin Session!Users
    BY Params DEF Session!SessionAssumption, Session!None, Session!Users, Session!Master
<1> DEFINE Safe == \A d \in sAlive : sWorkspace[d] # "absent" => sWorkspace'[d] # "absent"
           Good == AskedAlone' /\ Counted' /\ InSession' /\ Safe
<1>u. UNCHANGED <<sAlive, sFailures, sRotations>>
    BY DEF Session!Deliver
<1>1. ASSUME NEW s, Session!Become(r, s), InSession', Counted', Safe PROVE Good
    BY <1>t, <1>1, NothingLeft DEF Session!Become, AskedAlone
<1>2. ASSUME Session!Ignore(r) PROVE Good
  <2>1. AskedAlone'
    BY <1>t, <1>2, NothingLeft DEF Session!Ignore, AskedAlone
  <2>2. Counted' /\ InSession' /\ Safe
    BY <1>2, <1>u DEF Session!Ignore, SInv, Counted, InSession, Session!ReloadKeepsSession,
       Session!SourceOfSession,
       Session!PlanOfSession, Anonymous, Session!source
  <2> QED
    BY <2>1, <2>2
<1>3. ASSUME UNCHANGED sWorkspace PROVE Counted' /\ Safe
    BY <1>t, <1>u, <1>3 DEF Counted
<1>4. ASSUME NEW d \in Demos \cup {Session!None}, sWorkspace' = Session!Ensured(d)
      PROVE Counted' /\ Safe
    BY <1>t, <1>u, <1>4, EnsuredTyped DEF Counted
<1>5. ASSUME Session!Become(r, Session!NoToken), sStorage' = Session!NoToken
      PROVE InSession'
  <2>1. /\ Session!Loaded(Session!NoToken) = Session!NoToken /\ Session!NoToken \in Sessions
        /\ (IF Session!NoToken.user = Session!None THEN Session!None ELSE Session!NoToken.demo)
             = IF Session!NoToken.user \in Demos THEN Session!NoToken.user ELSE Session!None
        /\ Session!NoToken.user # Session!None
           => Session!NoToken.plan = Session!NoToken.tenant
        /\ Session!NoToken.user = Session!None => Session!NoToken.tenant = Session!None
    BY TokenSession, NoTokenTyped DEF Session!NoToken
  <2> QED
    BY <1>t, <1>5, <2>1, SameSession DEF Session!Become
<1> HIDE DEF Safe
<1>6. ASSUME Session!DeliverToken(r) PROVE Good
  <2> DEFINE s == Session!Token(r.user, r.tenant)
  <2>1. CASE r.answer # "ok"
    BY <1>2, <1>6, <2>1 DEF Session!DeliverToken, Good
  <2>2. CASE r.answer = "ok"
    <3>1. Session!Become(r, s) /\ sStorage' = s /\ sWorkspace' = Session!Ensured(s.demo)
        BY <1>6, <2>2 DEF Session!DeliverToken
    <3>2. r.user \in Session!Users /\ r.tenant \in Demos \cup Tenants \cup {Session!None}
        BY <1>t, <1>6 DEF Session!DeliverToken, Asked, Requests, Session!Users
    <3>3. /\ Session!Loaded(s) = s /\ s \in Sessions
          /\ (IF s.user = Session!None THEN Session!None ELSE s.demo)
             = IF s.user \in Demos THEN s.user ELSE Session!None
          /\ s.user # Session!None => s.plan = s.tenant
          /\ s.user = Session!None => s.tenant = Session!None
          /\ s.demo \in Demos \cup {Session!None}
        BY <1>n, <3>2, TokenSession, TokenTyped
    <3> HIDE DEF s
    <3>4. InSession'
        BY <1>t, <3>1, <3>3, SameSession DEF Session!Become
    <3>5. Counted' /\ Safe
        BY <1>4, <3>1, <3>3
    <3> QED
        BY <1>1, <3>1, <3>4, <3>5 DEF Good
  <2> QED
    BY <2>1, <2>2
<1>7. ASSUME Session!DeliverLogout(r) PROVE Good
    BY <1>1, <1>3, <1>5, <1>7 DEF Session!DeliverLogout, Good
<1>8. ASSUME Session!DeliverHeartbeat(r) PROVE Good
  <2> DEFINE demo == IF r.user \in Demos THEN r.user ELSE Session!None
             plan == IF r.tenant = Session!None THEN sTab[r.tab].plan ELSE r.tenant
  <2>1. /\ r.user = sStorage.user /\ r.tenant = sStorage.tenant
        /\ sTab[r.tab].user # Session!None /\ sTab[r.tab].demo # Session!None
           /\ r.kind = "heartbeat"
    BY <1>t, <1>8 DEF Session!DeliverHeartbeat, Asked
  <2>2. sStorage.user # Session!None /\ sTab[r.tab] = sStorage
    BY <1>t, <1>m, <2>1 DEF Session!Loaded, Sessions
  <2>3. /\ demo = sTab[r.tab].demo /\ plan = sTab[r.tab].plan /\ demo \in Demos
        /\ r.tenant # Session!None => r.tenant = sStorage.plan
    BY <1>m, <1>n, <2>1, <2>2
  <2>4. CASE r.answer = "ended" \/ (r.answer = "ok" /\ sTab[r.tab].demo \notin {Session!None, demo})
    <3>1. Session!EndDemo(r)
        BY <1>8, <2>4 DEF Session!DeliverHeartbeat
    <3>2. r.answer = "ended" /\ sTab[r.tab].demo \in Demos \ sAlive
        BY <1>t, <2>1, <2>2, <2>3, <2>4 DEF Asked
    <3>3. sWorkspace' = [sWorkspace EXCEPT ![sTab[r.tab].demo] = "absent"]
        BY <1>n, <3>1, <3>2 DEF Session!EndDemo
    <3>4. Counted' /\ Safe
        BY <1>t, <1>u, <3>2, <3>3 DEF Counted, Safe
    <3> QED
        BY <1>1, <1>5, <3>1, <3>4 DEF Session!EndDemo, Good
  <2>5. CASE r.answer = "replaced"
    BY <1>1, <1>3, <1>5, <1>8, <2>5 DEF Session!DeliverHeartbeat, Good
  <2>6. CASE r.answer = "failed"
    BY <1>2, <1>8, <2>6 DEF Session!DeliverHeartbeat, Good
  <2>7. CASE r.answer = "ok" /\ sTab[r.tab].demo \in {Session!None, demo}
    <3>1. /\ Session!Become(r, [sTab[r.tab] EXCEPT !.demo = demo, !.plan = plan])
          /\ sStorage' = [sStorage EXCEPT !.demo = demo,
                                        !.plan = IF r.tenant = Session!None THEN sStorage.plan ELSE plan]
          /\ sWorkspace' = Session!Ensured(demo)
        BY <1>8, <2>7 DEF Session!DeliverHeartbeat
    <3> HIDE DEF demo, plan
    <3>2. [sTab[r.tab] EXCEPT !.demo = demo, !.plan = plan] = sTab[r.tab]
        BY <1>t, <2>2, <2>3 DEF Sessions
    <3>3. sStorage' = sStorage
        BY <1>t, <2>2, <2>3, <3>1 DEF Sessions
    <3>4. sTab' = sTab
        BY <1>t, <3>1, <3>2 DEF Session!Become
    <3>5. InSession'
        BY <3>3, <3>4 DEF SInv, InSession, Session!ReloadKeepsSession,
           Session!SourceOfSession,
           Session!PlanOfSession, Anonymous, Session!source
    <3>6. Counted' /\ Safe
        BY <1>4, <2>3, <3>1
    <3> QED
        BY <1>1, <3>1, <3>5, <3>6 DEF Good
  <2>8. r.answer \in {"ended", "ok", "replaced", "failed"}
    BY <1>t DEF Session!Deliver, Requests, Session!Answers
  <2> QED
    BY <2>4, <2>5, <2>6, <2>7, <2>8
<1>9. ASSUME Session!DeliverDashboard(r) PROVE Good
  <2>1. CASE r.answer # "ok"
    BY <1>2, <1>9, <2>1 DEF Session!DeliverDashboard, Good
  <2>2. CASE r.answer = "ok"
    <3>1. /\ Session!Become(r, [sTab[r.tab] EXCEPT !.plan = r.tenant])
          /\ sStorage' = [sStorage EXCEPT !.plan = r.tenant] /\ UNCHANGED sWorkspace
        BY <1>9, <2>2 DEF Session!DeliverDashboard
    <3>2. r.tenant = sStorage.tenant /\ sTab[r.tab].tenant # Session!None
        BY <1>t, <1>9 DEF Session!DeliverDashboard, Asked
    <3>3. sStorage.user # Session!None /\ sTab[r.tab] = sStorage
        BY <1>t, <1>m, <3>2 DEF Session!Loaded, Sessions, SInv, InSession, Anonymous
    <3>4. [sTab[r.tab] EXCEPT !.plan = r.tenant] = sTab[r.tab] /\ sStorage' = sStorage
        BY <1>t, <1>m, <3>1, <3>2, <3>3 DEF Sessions
    <3>5. sTab' = sTab
        BY <1>t, <3>1, <3>4 DEF Session!Become
    <3>6. InSession'
        BY <3>4, <3>5 DEF SInv, InSession, Session!ReloadKeepsSession,
           Session!SourceOfSession,
           Session!PlanOfSession, Anonymous, Session!source
    <3> QED
        BY <1>1, <1>3, <3>1, <3>6 DEF Good
  <2> QED
    BY <2>1, <2>2
<1> HIDE DEF Good
<1>10. Good
    BY <1>6, <1>7, <1>8, <1>9 DEF Session!Deliver
<1> QED
    BY <1>10 DEF Good, Safe
\* A page that is loaded again has the session of localStorage.
LEMMA StartInSession ==
    ASSUME OneTab, SInv, NEW t \in TabIds, NEW s \in Sessions, Session!Start(t, s),
           sStorage' = s,
           (IF s.user = Session!None THEN Session!None ELSE s.demo)
               = IF s.user \in Demos THEN s.user ELSE Session!None,
           s.user # Session!None => s.plan = s.tenant,
           s.user = Session!None => s.tenant = Session!None
    PROVE  /\ AskedAlone' /\ Counted' /\ InSession'
           /\ \A d \in sAlive : sWorkspace[d] # "absent" => sWorkspace'[d] # "absent"
<1>1. sRequests' = {}
    BY DEF Session!Start, Session!OfTab, OneTab, SInv, FreshAlone, Requests
<1>2. AskedAlone'
    BY <1>1 DEF AskedAlone
<1>3. InSession'
    BY SameSession DEF Session!Start, SInv
<1>4. Session!Loaded(s).demo \in Demos \cup {Session!None}
    BY DEF Session!Loaded, Sessions
<1>5. /\ sWorkspace' = Session!Ensured(Session!Loaded(s).demo)
         /\ UNCHANGED <<sAlive, sFailures, sRotations>>
      /\ Counted
    BY DEF Session!Start, SInv
<1>6. /\ sWorkspace' \in [Demos -> {"absent", "baseline", "edited"}]
      /\ \A x \in Demos : sWorkspace[x] # "absent" => sWorkspace'[x] # "absent"
    BY <1>4, <1>5, EnsuredTyped
<1> QED
    BY <1>2, <1>3, <1>5, <1>6 DEF Counted

\* Every step keeps a tab on its own in its session, and the workspaces of the
\* demos that have not ended.
LEMMA SessionStep ==
    ASSUME OneTab, PromptTabs, SInv, [Session!Next]_(Session!vars)
    PROVE  SInv' /\ \A d \in sAlive : sWorkspace[d] # "absent" => sWorkspace'[d] # "absent"
<1> DEFINE Safe == \A d \in sAlive : sWorkspace[d] # "absent" => sWorkspace'[d] # "absent"
           Good == AskedAlone' /\ Counted' /\ InSession' /\ Safe
<1>0. Stored' /\ FreshAlone'
    BY FreshStep DEF SInv
<1>t. /\ Stored /\ FreshAlone /\ AskedAlone /\ Counted /\ InSession
      /\ \A t \in TabIds : Session!OfTab(t) = sRequests
    BY DEF SInv, Session!OfTab, FreshAlone, Requests, OneTab
<1>n. /\ Session!None \notin Demos /\ Session!None \notin Session!Users
      /\ \A r \in sRequests : r.kind \in Session!Kinds
    BY <1>t, Params DEF Session!SessionAssumption, Session!None, Session!Users,
       Session!Master, FreshAlone, Requests
<1>k. ASSUME NEW t \in TabIds
      PROVE  /\ sTab[t] = Session!Loaded(sStorage)
             /\ sTab[t].demo = IF sTab[t].user \in Demos THEN sTab[t].user ELSE Session!None
             /\ sTab[t].user # Session!None => sTab[t].plan = sTab[t].tenant
    BY <1>t DEF InSession, Session!ReloadKeepsSession, Session!SourceOfSession,
       Session!PlanOfSession, Session!source
<1>1. ASSUME NEW t \in TabIds, NEW k, NEW u, NEW p, Session!Send(t, k, u, p) PROVE Safe
    BY <1>1 DEF Session!Send
<1>2. ASSUME NEW t \in TabIds, NEW u \in Session!Users, Session!login(t, u) PROVE Good
  <2>1. sRequests = {}
    BY <1>t, <1>2 DEF Session!login, Session!MayChange
  <2> QED
    BY <1>1, <1>2, <2>1, SendAlone DEF Session!login, Session!Kinds
<1>3. ASSUME NEW t \in TabIds, NEW p \in Tenants \cup {Session!None},
             Session!switchTenant(t, p) PROVE Good
  <2>1. sRequests = {} /\ sStorage.user = Session!Master
    BY <1>t, <1>3 DEF Session!switchTenant, Session!MayChange
  <2> QED
    BY <1>1, <1>3, <2>1, SendAlone DEF Session!switchTenant, Session!Kinds
<1>4. ASSUME NEW t \in TabIds, Session!logout(t) PROVE Good
  <2>1. sRequests = {}
    BY <1>t, <1>4 DEF Session!logout, Session!MayChange
  <2> QED
    BY <1>1, <1>4, <2>1, SendAlone DEF Session!logout, Session!Kinds
<1>5. ASSUME NEW t \in TabIds, Session!runHeartbeat(t) PROVE Good
  <2>1. ASSUME NEW r \in sRequests PROVE FALSE
    <3>1. r.tab = t /\ r.kind \in Session!Kinds /\ Asked(r)
        BY <1>t, <1>n DEF Session!OfTab, AskedAlone
    <3>2. r.kind \notin Session!SessionKinds /\ ~r.fresh /\ sTab[t].demo # Session!None
        BY <1>t, <1>5 DEF Session!runHeartbeat, Session!MayAsk, Session!Waiting
    <3> QED
        BY <3>1, <3>2 DEF Session!Kinds, Session!SessionKinds, Asked
  <2>2. sRequests = {}
    BY <2>1
  <2> QED
    BY <1>1, <1>5, <2>2, SendAlone DEF Session!runHeartbeat, Session!Kinds
<1>6. ASSUME NEW t \in TabIds, Session!loadDashboard(t) PROVE Good
  <2>1. ASSUME NEW r \in sRequests PROVE FALSE
    <3>1. r.tab = t /\ r.kind \in Session!Kinds /\ Asked(r)
        BY <1>t, <1>n DEF Session!OfTab, AskedAlone
    <3>2. r.kind \notin Session!SessionKinds \cup {"dashboard"}
          /\ sTab[t].demo = Session!None
        BY <1>t, <1>6 DEF Session!loadDashboard, Session!MayAsk, Session!Waiting,
           Session!source
    <3> QED
        BY <3>1, <3>2 DEF Session!Kinds, Session!SessionKinds, Asked
  <2>2. sRequests = {}
    BY <2>1
  <2> QED
    BY <1>1, <1>6, <2>2, SendAlone DEF Session!loadDashboard, Session!Kinds, Session!source
<1>8. ASSUME NEW t \in TabIds, Session!Reload(t) PROVE Good
  <2>1. /\ sStorage \in Sessions /\ Session!Loaded(sStorage) = sTab[t]
        /\ Session!Loaded(sStorage).demo
           = IF sStorage.user = Session!None THEN Session!None ELSE sStorage.demo
        /\ Session!Loaded(sStorage).user = sStorage.user
           /\ Session!Loaded(sStorage).plan = sStorage.plan
        /\ Session!Loaded(sStorage).tenant = sStorage.tenant
    BY <1>t, <1>k DEF Stored, Session!Loaded, Sessions
  <2> QED
    BY <1>t, <1>k, <1>8, <2>1, StartInSession DEF Session!Reload, InSession, Anonymous
<1>9. ASSUME NEW r \in sRequests, Session!Unauthorized(r) PROVE Good
  <2> DEFINE s == [Session!NoToken EXCEPT !.plan = sStorage.plan]
  <2>1. /\ s \in Sessions /\ s.user = Session!None /\ s.tenant = Session!None
    BY <1>t, NoTokenTyped DEF Stored, Sessions, Session!NoToken, Session!Token
  <2>2. r.tab \in TabIds /\ sStorage' = s /\ Session!Start(r.tab, s)
    BY <1>t, <1>9 DEF Session!Unauthorized, FreshAlone, Requests
  <2> HIDE DEF s
  <2> QED
    BY <1>n, <2>1, <2>2, StartInSession
<1>10. ASSUME NEW t \in TabIds, Session!EditWorkspace(t) PROVE Good
  <2>1. Counted' /\ Safe
    BY <1>t, <1>10 DEF Session!EditWorkspace, Counted
  <2>2. AskedAlone' /\ InSession'
    BY <1>t, <1>10 DEF Session!EditWorkspace, AskedAlone, Asked, InSession,
       Session!ReloadKeepsSession,
       Session!SourceOfSession, Session!PlanOfSession, Anonymous, Session!source
  <2> QED
    BY <2>1, <2>2
<1>11. ASSUME NEW r \in sRequests, Session!Handle(r) PROVE Good
  <2>1. PICK a \in Session!Answers \ {"sent"} :
           /\ sRequests' = (sRequests \ {r}) \cup {[r EXCEPT !.answer = a]}
           /\ a = "ended" => r.user \in Demos \ sAlive /\ r.kind \in {"login", "heartbeat"}
           /\ sFailures' \in {sFailures, sFailures + 1}
           /\ sRotations' \in {sRotations, sRotations + 1}
           /\ sFailures' = sFailures \/ sFailures < MaxFailures
           /\ sRotations' = sRotations \/ sRotations < MaxRotations
    BY <1>11 DEF Session!Handle
  <2> DEFINE x == [r EXCEPT !.answer = a]
  <2>2. sRequests' = {x}
    BY <1>t, <2>1 DEF AskedAlone
  <2>3. /\ x.tab = r.tab /\ x.kind = r.kind /\ x.user = r.user /\ x.tenant = r.tenant
        /\ x.fresh = r.fresh /\ x.answer = a
    BY <1>t DEF FreshAlone, Requests
  <2>u. UNCHANGED <<sTab, sStorage, sWorkspace, sAlive>>
    BY <1>11 DEF Session!Handle
  <2> HIDE DEF x
  <2>4. \A y \in sRequests' : Asked(y)'
    BY <1>t, <2>1, <2>2, <2>3, <2>u DEF AskedAlone, Asked
  <2>5. AskedAlone'
    BY <2>2, <2>4 DEF AskedAlone
  <2>6. Counted' /\ Safe
    BY <1>t, <2>1, <2>u, Params DEF Counted, Session!SessionAssumption
  <2>7. InSession'
    BY <1>t, <2>u DEF InSession, Session!ReloadKeepsSession, Session!SourceOfSession,
       Session!PlanOfSession,
       Anonymous, Session!source
  <2> QED
    BY <2>5, <2>6, <2>7
<1>12. ASSUME NEW r \in sRequests, Session!Deliver(r) PROVE Good
    BY <1>12, DeliverInSession
<1>13. ASSUME NEW d \in Demos, Session!DemoEnds(d) PROVE Good
  <2>1. Counted' /\ Safe
    BY <1>t, <1>13 DEF Session!DemoEnds, Counted
  <2>2. AskedAlone' /\ InSession'
    BY <1>t, <1>13 DEF Session!DemoEnds, AskedAlone, Asked, InSession,
       Session!ReloadKeepsSession,
       Session!SourceOfSession, Session!PlanOfSession, Anonymous, Session!source
  <2> QED
    BY <2>1, <2>2
<1>14. ASSUME UNCHANGED Session!vars PROVE Good
    BY <1>t, <1>14 DEF Session!vars, Counted, AskedAlone, Asked, InSession,
       Session!ReloadKeepsSession,
       Session!SourceOfSession, Session!PlanOfSession, Anonymous, Session!source
<1> HIDE DEF Good
<1>15. Good
    BY <1>2, <1>3, <1>4, <1>5, <1>6, <1>8, <1>9, <1>10, <1>11, <1>12, <1>13, <1>14
       DEF Session!Next
<1> QED
    BY <1>0, <1>15 DEF Good, SInv

\* What is said of the session follows.
LEMMA SessionHolds ==
    ASSUME SInv
    PROVE  Session!TypeOK /\ Session!ReloadKeepsSession /\ Session!SourceOfSession
           /\ Session!PlanOfSession
<1>1. IsFiniteSet(sRequests) /\ Cardinality(sRequests) <= 1
  <2>1. CASE sRequests = {}
    BY <2>1, FS_EmptySet
  <2>2. CASE \E r : r \in sRequests
    <3>0. PICK r : r \in sRequests
        BY <2>2
    <3>1. sRequests = {r}
        BY <3>0 DEF SInv, AskedAlone
    <3>2. IsFiniteSet(sRequests) /\ Cardinality(sRequests) = 1
        BY <3>1, FS_Singleton
    <3> QED
        BY <3>2
  <2> QED
    BY <2>1, <2>2
<1>2. Cardinality(sRequests) \in Nat
    BY <1>1, FS_CardinalityType
<1>3. Cardinality(sRequests) <= MaxRequests
    BY <1>1, <1>2, Params DEF Session!SessionAssumption
<1>4. sTab \in [TabIds -> Sessions] /\ sStorage \in Sessions
      /\ sRequests \subseteq Requests /\ Counted
    BY DEF SInv, Stored, FreshAlone
<1>5. Session!TypeOK
    BY <1>3, <1>4, SameCardinality DEF Session!TypeOK, Sessions, Requests, Counted
<1> QED
    BY <1>5 DEF SInv, InSession

\* A browser starts with nobody logged in.
LEMMA InitSession == Session!Init => SInv
<1> SUFFICES ASSUME Session!Init PROVE SInv
    OBVIOUS
<1>1. Stored /\ FreshAlone /\ AskedAlone
    BY NoTokenTyped DEF Session!Init, Stored, FreshAlone, AskedAlone
<1>2. Counted
    BY Params DEF Session!Init, Counted, Session!SessionAssumption
<1>3. Session!Loaded(Session!NoToken) = Session!NoToken
      /\ Session!NoToken.user = Session!None /\ Session!NoToken.demo = Session!None
         /\ Session!NoToken.tenant = Session!None
    BY TokenSession, Params DEF Session!NoToken, Session!Token, Session!SessionAssumption,
       Session!None, Session!Master
<1>4. Session!None \notin Demos
    BY Params DEF Session!SessionAssumption
<1>5. InSession
    BY <1>3, <1>4 DEF Session!Init, InSession, Session!ReloadKeepsSession,
       Session!SourceOfSession, Session!PlanOfSession,
       Anonymous, Session!source
<1> QED
    BY <1>1, <1>2, <1>5 DEF SInv

\* useDemoHeartbeat: heartbeats do not pile up, over any number of tabs and
\* whenever their sessions change.
THEOREM HeartbeatsSingle == MCSpec => []Session!OneHeartbeat
<1>1. MCInit => Stored /\ FreshAlone
    BY NoTokenTyped DEF MCInit, Session!Init, Stored, FreshAlone
<1>2. Stored /\ FreshAlone /\ [MCNext]_MCvars => (Stored /\ FreshAlone)'
    BY FreshStep, SessionRuns
<1> QED
    BY <1>1, <1>2, FreshIsOne, PTL DEF MCSpec

\* The invariant of a tab on its own holds throughout.
LEMMA SessionInvariance ==
    ASSUME OneTab, PromptTabs PROVE MCSpec => [](SInv /\ FreshAlone)
<1>1. MCInit => SInv
    BY InitSession DEF MCInit
<1>2. SInv /\ [MCNext]_MCvars => SInv'
    BY SessionStep, SessionRuns
<1>3. SInv => FreshAlone
    BY DEF SInv
<1> QED
    BY <1>1, <1>2, <1>3, PTL DEF MCSpec

\* A tab on its own is in one session: a reload finds it, its data and its plan
\* are that session's, and one heartbeat at most is under way.
THEOREM SessionKept == ASSUME OneTab, PromptTabs PROVE MCSpec => []SessionSound
<1>1. SInv /\ FreshAlone => SessionSound
    BY SessionHolds, FreshIsOne DEF SessionSound
<1> QED
    BY <1>1, SessionInvariance, PTL

\* What a visitor entered in a demo stays until the demo has ended.
THEOREM VisitorDataKept == ASSUME OneTab, PromptTabs PROVE MCSpec => WorkspaceKept
<1> DEFINE Safe == \A d \in sAlive : sWorkspace[d] # "absent" => sWorkspace'[d] # "absent"
<1>1. SInv /\ [MCNext]_MCvars => [Safe]_(Session!vars)
    BY SessionStep, SessionRuns
<1> QED
    BY <1>1, SessionInvariance, PTL DEF MCSpec, WorkspaceKept, Session!WorkspaceKept
=============================================================================
