---------------------------- MODULE WhatsappLink ----------------------------
(***************************************************************************)
(* Linking a phone in the settings of the browser: WhatsappLinkSection and *)
(* the hook useWhatsAppLinkPolling.                                        *)
(*                                                                         *)
(* The page asks for a pairing code or a QR code, shows it and polls the   *)
(* status until the phone is linked or the time is up.  What a handler     *)
(* sets is seen by the effects, and by the refs they write, only when the  *)
(* page has been rendered: Effects is a step of its own.  An answer is     *)
(* handled with the state the page has when it arrives.  The page is       *)
(* mounted once; a QR request under way outlives it.                       *)
(*                                                                         *)
(* One unit of time is the interval of the polling.  A timer is 0 when it  *)
(* is not armed and 1 when it is due.  A tenant has a phone number and is  *)
(* not a demo, or there would be nothing to link.  Texts of errors are     *)
(* left out.                                                               *)
(***************************************************************************)
EXTENDS Naturals

CONSTANTS
    Polls,      \* status requests of the hook that can be under way at once
    Timeout,    \* timeoutMs, in intervals
    Refresh,    \* the delay of the QR timer, in intervals
    MaxAsks,    \* bound on codes asked for
    Prompt      \* the page is rendered before the next event

ASSUME LinkAssumption ==
    /\ Timeout \in Nat \ {0} /\ Refresh \in Nat \ {0} /\ MaxAsks \in Nat
    /\ Prompt \in BOOLEAN

VARIABLES
    mounted,
    status,          \* the status on display: "unknown", "on" or "off"
    loading,         \* isInitialLoading
    error,           \* whether an error of loading or disconnecting is shown
    pairingCode, qrCode,       \* whether one is shown
    timeoutError,
    pollingEnabled,
    seenPolling, seenOn,       \* as of the last effects; also the two refs
    stopped, called,           \* stoppedRef, calledConnectedRef
    interval,        \* "off", "on", or "due"
    timeoutLeft, refreshLeft,  \* timers
    polls,           \* the hook's requests, with the session that sent them
    load, pair, qr, refresh, disconnect,   \* the other requests
    linked,          \* whether the phone is linked
    session,         \* history: how often the polling was started
    asks

page == <<status, loading, error, pairingCode, qrCode, timeoutError>>
refs == <<seenPolling, seenOn, stopped, called>>
timers == <<interval, timeoutLeft, refreshLeft>>
requests == <<polls, load, pair, qr, refresh, disconnect>>
history == <<session, asks>>
vars == <<mounted, page, pollingEnabled, refs, timers, requests, linked, history>>

NoPoll == [at |-> "idle", session |-> 0]
connected == status = "on"

TypeOK ==
    /\ mounted \in BOOLEAN /\ linked \in BOOLEAN
    /\ status \in {"unknown", "on", "off"}
    /\ loading \in BOOLEAN /\ error \in BOOLEAN /\ timeoutError \in BOOLEAN
    /\ pairingCode \in BOOLEAN /\ qrCode \in BOOLEAN
    /\ pollingEnabled \in BOOLEAN /\ seenPolling \in BOOLEAN /\ seenOn \in BOOLEAN
    /\ stopped \in BOOLEAN /\ called \in BOOLEAN
    /\ interval \in {"off", "on", "due"}
    /\ timeoutLeft \in 0..(Timeout + 1) /\ refreshLeft \in 0..(Refresh + 1)
    /\ polls \in [Polls -> [at : {"idle", "sent", "yes", "no"},
                            session : Nat]]
    /\ load \in {"idle", "sent", "on", "off"}
    /\ pair \in {"idle", "sent"} /\ qr \in {"idle", "sent"}
    /\ refresh \in {"idle", "sent"} /\ disconnect \in {"idle", "sent", "done"}
    /\ session \in Nat /\ asks \in 0..MaxAsks

\* The hook's first effect has run with enabled false.
Init ==
    /\ mounted = TRUE
    /\ status = "unknown" /\ loading = TRUE /\ error = FALSE
    /\ pairingCode = FALSE /\ qrCode = FALSE /\ timeoutError = FALSE
    /\ pollingEnabled = FALSE /\ seenPolling = FALSE /\ seenOn = FALSE
    /\ stopped = TRUE /\ called = FALSE
    /\ interval = "off" /\ timeoutLeft = 0 /\ refreshLeft = 0
    /\ polls = [p \in Polls |-> NoPoll]
    /\ load = "sent" /\ pair = "idle" /\ qr = "idle" /\ refresh = "idle"
    /\ disconnect = "idle"
    /\ linked \in BOOLEAN
    /\ session = 0 /\ asks = 0

Unrendered == mounted /\ (pollingEnabled # seenPolling \/ connected # seenOn)
Ready == Prompt => ~Unrendered

-----------------------------------------------------------------------------
(* The hook *)

clearTimers == interval' = "off" /\ timeoutLeft' = 0

\* poll(): no request when as many as can be are under way already.
poll(s) ==
    \/ \E p \in Polls :
         /\ polls[p].at = "idle"
         /\ polls' = [polls EXCEPT ![p] = [at |-> "sent", session |-> s]]
    \/ /\ \A p \in Polls : polls[p].at # "idle"
       /\ UNCHANGED polls

\* stoppedRef keeps its value over a restart.
StartStillStopped ==
    IF pollingEnabled
      THEN /\ called' = FALSE
           /\ session' = session + 1
           /\ poll(session + 1)
           /\ interval' = "on" /\ timeoutLeft' = Timeout + 1
           /\ UNCHANGED stopped
      ELSE /\ stopped' = TRUE
           /\ clearTimers
           /\ UNCHANGED <<called, session, polls>>

\* The effect of [enabled]; the first two effects of the section run with it.
StartOrStop ==
    IF pollingEnabled
      THEN /\ stopped' = FALSE /\ called' = FALSE
           /\ session' = session + 1
           /\ poll(session + 1)
           /\ interval' = "on" /\ timeoutLeft' = Timeout + 1
      ELSE /\ stopped' = TRUE
           /\ clearTimers
           /\ UNCHANGED <<called, session, polls>>

Effects ==
    /\ Unrendered
    /\ seenPolling' = pollingEnabled /\ seenOn' = connected
    /\ IF pollingEnabled # seenPolling
         THEN StartOrStop
         ELSE UNCHANGED <<stopped, called, session, polls, interval, timeoutLeft>>
    /\ UNCHANGED <<mounted, page, pollingEnabled, refreshLeft, load, pair, qr,
                   refresh, disconnect, linked, asks>>

IntervalFires ==
    /\ Ready /\ interval = "due"
    /\ interval' = "on"
    /\ IF stopped THEN UNCHANGED polls ELSE poll(session)
    /\ UNCHANGED <<mounted, page, pollingEnabled, refs, timeoutLeft, refreshLeft,
                   load, pair, qr, refresh, disconnect, linked, history>>

\* onTimeout does not end the polling of the section.
TimeoutStillEnabled ==
    /\ Ready /\ timeoutLeft = 1
    /\ clearTimers /\ refreshLeft' = 0
    /\ timeoutError' = TRUE
    /\ UNCHANGED <<mounted, status, loading, error, pairingCode, qrCode,
                   pollingEnabled, refs, requests, linked, history>>

\* The timers are cleared and onTimeout is called; stoppedRef is left alone.
TimeoutFires ==
    /\ Ready /\ timeoutLeft = 1
    /\ IF stopped
         THEN /\ timeoutLeft' = 0
              /\ UNCHANGED <<interval, refreshLeft, pollingEnabled, timeoutError>>
         ELSE /\ clearTimers /\ refreshLeft' = 0
              /\ pollingEnabled' = FALSE /\ timeoutError' = TRUE
    /\ UNCHANGED <<mounted, status, loading, error, pairingCode, qrCode, refs,
                   requests, linked, history>>

\* onConnected, and the stop() after it.
Connected ==
    /\ called' = TRUE /\ stopped' = TRUE
    /\ status' = "on" /\ pollingEnabled' = FALSE
    /\ pairingCode' = FALSE /\ qrCode' = FALSE /\ timeoutError' = FALSE
    /\ clearTimers /\ refreshLeft' = 0
    /\ UNCHANGED <<loading, error, seenPolling, seenOn>>

Applied(p) ==
    polls[p].at = "yes" /\ ~stopped /\ mounted /\ ~called

\* A request that fails has the effect of one that is not connected.
PollAnswer(p) ==
    /\ Ready /\ polls[p].at \in {"yes", "no"}
    /\ polls' = [polls EXCEPT ![p] = NoPoll]
    /\ IF Applied(p) THEN Connected
                     ELSE UNCHANGED <<page, pollingEnabled, refs, timers>>
    /\ UNCHANGED <<mounted, load, pair, qr, refresh, disconnect, linked, history>>

-----------------------------------------------------------------------------
(* The section *)

\* What is rendered: the tabs with the codes, or the button to disconnect.
Tabs == mounted /\ ~loading /\ status = "off"

handleRequestPairingCode ==
    /\ Ready /\ Tabs /\ ~pairingCode /\ pair = "idle" /\ asks < MaxAsks
    /\ pair' = "sent" /\ asks' = asks + 1
    /\ UNCHANGED <<mounted, page, pollingEnabled, refs, timers, polls, load, qr,
                   refresh, disconnect, linked, session>>

PairAnswer ==
    /\ Ready /\ mounted /\ pair = "sent"
    /\ pair' = "idle"
    /\ \/ pairingCode' = TRUE /\ pollingEnabled' = TRUE /\ timeoutError' = FALSE
       \/ UNCHANGED <<pairingCode, pollingEnabled, timeoutError>>
    /\ UNCHANGED <<mounted, status, loading, error, qrCode, refs, timers, polls,
                   load, qr, refresh, disconnect, linked, history>>

handleLoadQrCode ==
    /\ Ready /\ Tabs /\ qr = "idle" /\ asks < MaxAsks
    /\ qr' = "sent" /\ asks' = asks + 1
    /\ UNCHANGED <<mounted, page, pollingEnabled, refs, timers, polls, load, pair,
                   refresh, disconnect, linked, session>>

scheduleQrRefresh == refreshLeft' = Refresh + 1

\* On a page that is gone the setters do nothing and the timer is armed.
QrAnswer ==
    /\ Ready /\ qr = "sent"
    /\ qr' = "idle"
    /\ \/ /\ scheduleQrRefresh
          /\ IF mounted
               THEN qrCode' = TRUE /\ pollingEnabled' = TRUE /\ timeoutError' = FALSE
               ELSE UNCHANGED <<qrCode, pollingEnabled, timeoutError>>
       \/ UNCHANGED <<qrCode, pollingEnabled, timeoutError, refreshLeft>>
    /\ UNCHANGED <<mounted, status, loading, error, pairingCode, refs, interval,
                   timeoutLeft, polls, load, pair, refresh, disconnect, linked,
                   history>>

RefreshFires ==
    /\ Ready /\ refreshLeft = 1
    /\ refreshLeft' = 0
    /\ refresh' = IF ~seenPolling /\ ~seenOn THEN "sent" ELSE refresh
    /\ UNCHANGED <<mounted, page, pollingEnabled, refs, interval, timeoutLeft,
                   polls, load, pair, qr, disconnect, linked, history>>

RefreshAnswer ==
    /\ Ready /\ refresh = "sent"
    /\ refresh' = "idle"
    /\ \/ scheduleQrRefresh /\ qrCode' = IF mounted THEN TRUE ELSE qrCode
       \/ UNCHANGED <<qrCode, refreshLeft>>
    /\ UNCHANGED <<mounted, status, loading, error, pairingCode, timeoutError,
                   pollingEnabled, refs, interval, timeoutLeft, polls, load, pair,
                   qr, disconnect, linked, history>>

handleDisconnectConfirm ==
    /\ Ready /\ mounted /\ ~loading /\ connected
    /\ disconnect = "idle" /\ load = "idle"
    /\ disconnect' = "sent"
    /\ UNCHANGED <<mounted, page, pollingEnabled, refs, timers, polls, load, pair,
                   qr, refresh, linked, history>>

\* A failure is shown; a success clears the page and loads the status.
DisconnectAnswer ==
    /\ Ready /\ mounted /\ disconnect # "idle"
    /\ disconnect' = "idle"
    /\ \/ /\ disconnect = "done"
          /\ pairingCode' = FALSE /\ qrCode' = FALSE /\ timeoutError' = FALSE
          /\ pollingEnabled' = FALSE /\ refreshLeft' = 0
          /\ load' = "sent" /\ error' = FALSE
       \/ /\ error' = TRUE
          /\ UNCHANGED <<pairingCode, qrCode, timeoutError, pollingEnabled,
                         refreshLeft, load>>
    /\ UNCHANGED <<mounted, status, loading, refs, interval, timeoutLeft, polls,
                   pair, qr, refresh, linked, history>>

\* The codes stay on the page that is loaded again.
RetryKeepsCodes ==
    /\ Ready /\ mounted /\ ~loading
    /\ (status = "off" /\ timeoutError) \/ (status = "unknown" /\ error)
    /\ loading' = TRUE /\ error' = FALSE /\ timeoutError' = FALSE
    /\ pollingEnabled' = FALSE /\ refreshLeft' = 0
    /\ load' = "sent"
    /\ UNCHANGED <<mounted, status, pairingCode, qrCode, refs, interval,
                   timeoutLeft, polls, pair, qr, refresh, disconnect, linked,
                   history>>

\* The buttons to try again: after a time-out, or when the first load failed.
handleRetry ==
    /\ Ready /\ mounted /\ ~loading
    /\ (status = "off" /\ timeoutError) \/ (status = "unknown" /\ error)
    /\ loading' = TRUE /\ error' = FALSE
    /\ pairingCode' = FALSE /\ qrCode' = FALSE /\ timeoutError' = FALSE
    /\ pollingEnabled' = FALSE /\ refreshLeft' = 0
    /\ load' = "sent"
    /\ UNCHANGED <<mounted, status, refs, interval, timeoutLeft, polls, pair, qr,
                   refresh, disconnect, linked, history>>

\* loadStatus, answered or failed.
LoadAnswer ==
    /\ Ready /\ mounted /\ load # "idle"
    /\ load' = "idle" /\ loading' = FALSE
    /\ \/ load # "sent" /\ status' = load /\ UNCHANGED error
       \/ error' = TRUE /\ UNCHANGED status
    /\ UNCHANGED <<mounted, pairingCode, qrCode, timeoutError, pollingEnabled, refs,
                   timers, polls, pair, qr, refresh, disconnect, linked, history>>

Unmount ==
    /\ Ready /\ mounted
    /\ mounted' = FALSE
    /\ clearTimers /\ refreshLeft' = 0
    /\ UNCHANGED <<page, pollingEnabled, refs, requests, linked, history>>

-----------------------------------------------------------------------------
(* Time, the phone and the server *)

\* Timers that are due run first.
Tick ==
    /\ Ready /\ interval # "due" /\ timeoutLeft # 1 /\ refreshLeft # 1
    /\ interval = "on" \/ timeoutLeft > 1 \/ refreshLeft > 1
    /\ interval' = IF interval = "on" THEN "due" ELSE interval
    /\ timeoutLeft' = IF timeoutLeft > 1 THEN timeoutLeft - 1 ELSE timeoutLeft
    /\ refreshLeft' = IF refreshLeft > 1 THEN refreshLeft - 1 ELSE refreshLeft
    /\ UNCHANGED <<mounted, page, pollingEnabled, refs, requests, linked, history>>

\* The phone is linked with a code that is shown, or removes the device.
PhoneLinks ==
    /\ pairingCode \/ qrCode
    /\ linked' = TRUE
    /\ UNCHANGED <<mounted, page, pollingEnabled, refs, timers, requests, history>>

PhoneUnlinks ==
    /\ linked' = FALSE
    /\ UNCHANGED <<mounted, page, pollingEnabled, refs, timers, requests, history>>

\* The server reads the status for a poll or a load, or fails to.
PollServed(p) ==
    /\ polls[p].at = "sent"
    /\ \E answer \in {IF linked THEN "yes" ELSE "no", "no"} :
         polls' = [polls EXCEPT ![p].at = answer]
    /\ UNCHANGED <<mounted, page, pollingEnabled, refs, timers, load, pair, qr,
                   refresh, disconnect, linked, history>>

LoadServed ==
    /\ load = "sent"
    /\ load' = IF linked THEN "on" ELSE "off"
    /\ UNCHANGED <<mounted, page, pollingEnabled, refs, timers, polls, pair, qr,
                   refresh, disconnect, linked, history>>

DisconnectServed ==
    /\ disconnect = "sent"
    /\ disconnect' = "done" /\ linked' = FALSE
    /\ UNCHANGED <<mounted, page, pollingEnabled, refs, timers, polls, load, pair,
                   qr, refresh, history>>

Next ==
    \/ Effects \/ IntervalFires \/ TimeoutFires \/ RefreshFires \/ Tick
    \/ handleRequestPairingCode \/ handleLoadQrCode \/ handleDisconnectConfirm
    \/ handleRetry \/ Unmount
    \/ PairAnswer \/ QrAnswer \/ RefreshAnswer \/ DisconnectAnswer \/ LoadAnswer
    \/ \E p \in Polls : PollAnswer(p) \/ PollServed(p)
    \/ LoadServed \/ DisconnectServed \/ PhoneLinks \/ PhoneUnlinks

Spec == Init /\ [][Next]_vars

\* Effects run and timers fire; nothing is assumed of answers and users.
Fairness ==
    /\ WF_vars(Effects) /\ WF_vars(IntervalFires) /\ WF_vars(TimeoutFires)
    /\ WF_vars(RefreshFires) /\ WF_vars(Tick)

FairSpec == Spec /\ Fairness

-----------------------------------------------------------------------------
(* Properties *)

\* While a code is on display and no time-out is reported, the page waits for
\* the phone: no handler, in whatever order the answers come, leaves a code
\* behind that nobody watches.
CodeIsWatched ==
    Tabs /\ (pairingCode \/ qrCode) /\ ~timeoutError => pollingEnabled

\* What the badge calls connecting is a hook that polls and will time out.  It
\* holds when the page is rendered between two events: a start that is decided
\* between a stop and its rendering is not seen by the effect.
ConnectingIsPolled ==
    mounted /\ ~Unrendered /\ pollingEnabled =>
        ~stopped /\ interval # "off" /\ timeoutLeft > 0

\* "calls onTimeout after timeoutMs elapses without connected": the polling
\* ends, whatever is answered, lost or asked for meanwhile.
Concludes == pollingEnabled ~> ~pollingEnabled \/ ~mounted

\* "returns stop function that halts polling": an answer that links the phone
\* was asked for since the polling was last started.
StopHalts ==
    [][\A p \in Polls : PollAnswer(p) /\ Applied(p) => polls[p].session = session]_vars

\* "Refresh QR approximately 5 seconds before the 40-second expiry window": when
\* the timer of a QR code on display fires, a new one is asked for.
RefreshDue == [][RefreshFires /\ mounted /\ qrCode => refresh' = "sent"]_vars
=============================================================================
