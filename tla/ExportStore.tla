----------------------------- MODULE ExportStore -----------------------------
(***************************************************************************)
(* The export store of the browser, features/admin/stores/export-store.ts, *)
(* as components/data-tab-content.tsx uses it: what the Data tab shows of  *)
(* the tenant's export, and the interval that polls while it is prepared.  *)
(*                                                                         *)
(* The handlers of the store run without interruption up to an await, so   *)
(* an action is either a click, a mount, an unmount or a tick, which sends *)
(* a request, or the delivery of an answer.  Requests are kept in the      *)
(* order in which they were sent; the server may take them, and the        *)
(* network may deliver their answers, in another order unless inOrder.     *)
(* A job is "active" while it is pending or processing, and "ended" when   *)
(* it failed or was cancelled.  The download link is left out.             *)
(***************************************************************************)
EXTENDS Naturals, Sequences, SequencesExt

CONSTANTS
    Tenants,
    MaxRequests,  \* bound on requests under way
    MaxJobs,      \* bound on exports the server accepts
    MaxFailures   \* bound on requests that fail on the way

StoreAssumption ==
    /\ Tenants # {}
    /\ MaxRequests \in Nat \ {0} /\ MaxJobs \in Nat /\ MaxFailures \in Nat

VARIABLES
    session,    \* the tenant of the session
    open,       \* the Data tab is mounted
    job,        \* the job the store shows
    handle,     \* _pollTimer is set
    intervals,  \* number of intervals alive
    requesting, cancelling,
    requests,   \* requests sent and not yet delivered
    server,     \* the status of each tenant's latest export
    created, failures,
    inOrder     \* in this behaviour requests are handled and answered in order

vars == <<session, open, job, handle, intervals, requesting, cancelling,
          requests, server, created, failures, inOrder>>

Statuses == {"active", "ready", "ended"}
NoJob == [tenant |-> "none", status |-> "none"]
Shown == {NoJob} \cup [tenant: Tenants, status: Statuses]
isPollable == job.status = "active"

TypeOK ==
    /\ session \in Tenants /\ open \in BOOLEAN
    /\ job \in Shown
    /\ handle \in BOOLEAN /\ intervals \in 0..2
    /\ requesting \in BOOLEAN /\ cancelling \in BOOLEAN
    /\ Len(requests) <= MaxRequests
    /\ \A i \in DOMAIN requests : requests[i] \in
          [kind: {"status", "create", "cancel", "refresh"}, tenant: Tenants,
           answer: {"sent", "error", "none"} \cup Statuses]
    /\ server \in [Tenants -> Statuses \cup {"none"}]
    /\ created \in 0..MaxJobs /\ failures \in 0..MaxFailures
    /\ inOrder \in BOOLEAN

Init ==
    /\ session \in Tenants /\ open = FALSE
    /\ job = NoJob
    /\ handle = FALSE /\ intervals = 0
    /\ requesting = FALSE /\ cancelling = FALSE
    /\ requests = <<>>
    /\ server = [t \in Tenants |-> "none"]
    /\ created = 0 /\ failures = 0
    /\ inOrder \in BOOLEAN

-----------------------------------------------------------------------------
(* The interval *)

Request(kind) == [kind |-> kind, tenant |-> session, answer |-> "sent"]
Send(queue, kind) == requests' = Append(queue, Request(kind))
Room == Len(requests) < MaxRequests

\* A second interval beside the one that is running.
startPollingAgain ==
    /\ handle' = TRUE
    /\ intervals' = IF intervals < 2 THEN intervals + 1 ELSE intervals

startPolling ==
    /\ handle' = TRUE
    /\ intervals' = IF handle THEN intervals ELSE intervals + 1

stopPolling ==
    /\ handle' = FALSE
    /\ intervals' = IF handle THEN intervals - 1 ELSE intervals

\* The callback of the interval.
Tick ==
    /\ intervals > 0
    /\ IF isPollable
         THEN Room /\ Send(requests, "status") /\ UNCHANGED <<handle, intervals>>
         ELSE stopPolling /\ UNCHANGED requests
    /\ UNCHANGED <<session, open, job, requesting, cancelling, server, created,
                   failures, inOrder>>

-----------------------------------------------------------------------------
(* The tab *)

Open ==
    /\ ~open /\ Room
    /\ open' = TRUE
    /\ Send(requests, "status")
    /\ UNCHANGED <<session, job, handle, intervals, requesting, cancelling,
                   server, created, failures, inOrder>>

\* The unmounted tab resets the store; requests under way are not aborted.
Close ==
    /\ open
    /\ open' = FALSE
    /\ job' = NoJob
    /\ stopPolling
    /\ requesting' = FALSE /\ cancelling' = FALSE
    /\ UNCHANGED <<session, requests, server, created, failures, inOrder>>

requestExport ==
    /\ open /\ Room /\ ~requesting
    /\ job = NoJob \/ job.status = "ended"
    /\ requesting' = TRUE
    /\ Send(requests, "create")
    /\ UNCHANGED <<session, open, job, handle, intervals, cancelling, server,
                   created, failures, inOrder>>

cancelExport ==
    /\ open /\ Room /\ ~cancelling
    /\ isPollable
    /\ cancelling' = TRUE
    /\ Send(requests, "cancel")
    /\ UNCHANGED <<session, open, job, handle, intervals, requesting, server,
                   created, failures, inOrder>>

\* Login, logout and switchTenant leave the tab and do not touch this store.
ChangeSession(t) ==
    /\ ~open
    /\ session' = t
    /\ UNCHANGED <<open, job, handle, intervals, requesting, cancelling,
                   requests, server, created, failures, inOrder>>

-----------------------------------------------------------------------------
(* Server and network *)

Answered(i, answer) == requests' = [requests EXCEPT ![i].answer = answer]

\* The server handles request i.  A request within the cooldown, or a
\* cancellation of a job that is not active, is refused.
Handle(i) ==
    LET r == requests[i]
        s == server[r.tenant] IN
    /\ i \in DOMAIN requests /\ r.answer = "sent"
    /\ inOrder => \A k \in 1..(i - 1) : requests[k].answer # "sent"
    /\ \/ /\ r.kind \in {"status", "refresh"}
          /\ Answered(i, s)
          /\ UNCHANGED <<server, created>>
       \/ /\ r.kind = "create" /\ s # "active" /\ created < MaxJobs
          /\ server' = [server EXCEPT ![r.tenant] = "active"]
          /\ created' = created + 1
          /\ Answered(i, "active")
       \/ /\ r.kind = "cancel" /\ s = "active"
          /\ server' = [server EXCEPT ![r.tenant] = "ended"]
          /\ Answered(i, "ended")
          /\ UNCHANGED created
       \/ /\ \/ r.kind = "create" /\ s # "none"
             \/ r.kind = "cancel" /\ s # "active"
          /\ Answered(i, "error")
          /\ UNCHANGED <<server, created>>
    /\ UNCHANGED <<session, open, job, handle, intervals, requesting, cancelling,
                   failures, inOrder>>

\* The request or its answer is lost.
Lose(i) ==
    /\ i \in DOMAIN requests /\ requests[i].answer # "error"
    /\ failures < MaxFailures
    /\ failures' = failures + 1
    /\ Answered(i, "error")
    /\ UNCHANGED <<session, open, job, handle, intervals, requesting, cancelling,
                   server, created, inOrder>>

JobEnds(t) ==
    /\ server[t] = "active"
    /\ \E s \in {"ready", "ended"} : server' = [server EXCEPT ![t] = s]
    /\ UNCHANGED <<session, open, job, handle, intervals, requesting, cancelling,
                   requests, created, failures, inOrder>>

-----------------------------------------------------------------------------
(* Answers *)

\* What the status r.answer does to the store.
Publish(r) ==
    /\ job' = IF r.answer = "none" THEN NoJob
              ELSE [tenant |-> r.tenant, status |-> r.answer]
    /\ CASE r.answer = "none" -> UNCHANGED <<handle, intervals>>
         [] r.answer = "active" -> startPolling
         [] OTHER -> stopPolling

\* refreshStatus: an error leaves the job and the interval alone.
DeliverStatus(r) ==
    /\ r.kind \in {"status", "refresh"}
    /\ IF r.answer = "error" THEN UNCHANGED <<job, handle, intervals>>
       ELSE Publish(r)
    /\ cancelling' = (cancelling /\ r.kind = "status")
    /\ UNCHANGED requesting

\* An error that leaves the button disabled.
DeliverCreateStuck(r) ==
    /\ r.kind = "create"
    /\ IF r.answer = "error" THEN UNCHANGED <<job, handle, intervals, requesting>>
       ELSE Publish(r) /\ requesting' = FALSE
    /\ UNCHANGED cancelling

DeliverCreate(r) ==
    /\ r.kind = "create"
    /\ IF r.answer = "error" THEN UNCHANGED <<job, handle, intervals>>
       ELSE Publish(r)
    /\ requesting' = FALSE
    /\ UNCHANGED cancelling

\* cancelExport goes on with refreshStatus.
DeliverCancel(r) ==
    /\ r.kind = "cancel"
    /\ cancelling' = (cancelling /\ r.answer # "error")
    /\ UNCHANGED <<job, handle, intervals, requesting>>

Deliver(i) ==
    LET r == requests[i]
        rest == RemoveAt(requests, i) IN
    /\ i \in DOMAIN requests /\ r.answer # "sent"
    /\ inOrder => i = 1
    /\ DeliverStatus(r) \/ DeliverCreate(r) \/ DeliverCancel(r)
    /\ IF r.kind = "cancel" /\ r.answer # "error" THEN Send(rest, "refresh")
       ELSE requests' = rest
    /\ UNCHANGED <<session, open, server, created, failures, inOrder>>

Next ==
    \/ Open \/ Close \/ requestExport \/ cancelExport \/ Tick
    \/ \E t \in Tenants : ChangeSession(t) \/ JobEnds(t)
    \/ \E i \in 1..MaxRequests : Handle(i) \/ Lose(i) \/ Deliver(i)

Spec == Init /\ [][Next]_vars

\* The interval fires, the server answers and finishes its jobs, and the oldest
\* answer arrives in the end.  Fairness is strong for the interval because the
\* bound on requests, which the browser does not have, disables it now and then.
Fairness ==
    /\ SF_vars(Tick) /\ WF_vars(Handle(1)) /\ WF_vars(Deliver(1))
    /\ \A t \in Tenants : WF_vars(JobEnds(t))

FairSpec == Spec /\ Fairness

-----------------------------------------------------------------------------
(* Properties *)

\* startPolling, stopPolling and reset: the only interval alive is the one
\* whose handle the store has, so that it can be stopped.
OneInterval == intervals = IF handle THEN 1 ELSE 0

\* refreshStatus and requestExport: an export that is shown as being prepared
\* is polled.
PreparingIsPolled == isPollable => handle

\* The tab that shows an export being prepared shows how it ends.
Followed == open /\ isPollable ~> ~open \/ job.status \in {"ready", "ended"}

\* The request and the cancel buttons become usable again.
ButtonsComeBack == (requesting ~> ~requesting) /\ (cancelling ~> ~cancelling)

\* reset: nothing polls when the tab is closed.
ClosedIsQuiet == ~open => ~handle

\* The export shown is the one of the session.
JobOfSession == job # NoJob => job.tenant = session
=============================================================================
