---------------------------- MODULE LookupResume ----------------------------
(***************************************************************************)
(* How the answer of one lookup gets to the customer who waits for it.     *)
(*                                                                         *)
(* The n8n workflow registers the resume URL of its execution and then     *)
(* suspends itself (n8n/Trackpal WhatsApp Bot.json); the backend tasks     *)
(* that settle the job look for the URL after their commit and post the    *)
(* answer to it (coordinator.py, lookup_resume_notifier.py).  The two      *)
(* sides share a row in PostgreSQL and a key in Redis and no transaction:  *)
(* the workflow writes the key and then reads the row, a task writes the   *)
(* row and then reads the key.                                             *)
(***************************************************************************)
EXTENDS Naturals

CONSTANTS
    Tasks,      \* backend tasks that may settle the job: callbacks, dispatches
    MaxTries    \* posts of a notification, len(retry_delays) + 1

ASSUME ResumeAssumption == MaxTries \in Nat \ {0}

VARIABLES
    status,     \* the row: open (pending or processing), or how it was settled
    cached,     \* the result is in Redis
    url,        \* the resume URL is in Redis
    overdue,    \* the interactive deadline has passed
    flow,       \* where the workflow is, its registration request included
    snap,       \* the status that the registration has read or answered
    told,       \* what the customer was sent
    task,       \* where each backend task is, and the status it has decided
    cancel,     \* the console's cancellation of the job
    fault       \* history: a failure that may cost the notification

vars == <<status, cached, url, overdue, flow, snap, told, task, cancel, fault>>

Answered == {"found", "failed"}
Settled == Answered \cup {"timeout", "cancelled"}
Statuses == Settled \cup {"open"}
TaskStates == [at: {"idle", "applying", "expiring", "committed", "posting",
                    "delivered", "done"},
               said: Statuses, tries: 0..MaxTries]

TypeOK ==
    /\ status \in Statuses
    /\ cached \in BOOLEAN /\ url \in BOOLEAN
    /\ overdue \in BOOLEAN /\ fault \in BOOLEAN
    /\ flow \in {"sending", "storing", "refreshing", "snapshot", "response",
                 "waiting", "ended"}
    /\ snap \in Statuses
    /\ told \in Settled \cup {"nothing"}
    /\ task \in [Tasks -> TaskStates]
    /\ cancel \in {"none", "deleting", "done"}

Init ==
    /\ status = "open" /\ cached = FALSE /\ url = FALSE
    /\ overdue = FALSE /\ fault = FALSE
    /\ flow = "sending" /\ snap = "open" /\ told = "nothing"
    /\ task = [t \in Tasks |-> [at |-> "idle", said |-> "open", tries |-> 0]]
    /\ cancel = "none"

\* The row is locked by an open transaction of complete().
Locked == \E t \in Tasks : task[t].at = "applying"

\* Cancelled lookups are reported like the others.
SentAlways(s) == s

\* "IF suppress lookup result": a cancelled lookup ends without a message.
Sent(s) == IF s = "cancelled" THEN "nothing" ELSE s

-----------------------------------------------------------------------------
(* The workflow and its registration request *)

\* "Register lookup resume" is sent, and register_lookup_resume reads the job.
ReadJob ==
    /\ flow = "sending"
    /\ snap' = status
    /\ flow' = IF status = "open" THEN "storing" ELSE "snapshot"
    /\ UNCHANGED <<status, cached, url, overdue, told, task, cancel, fault>>

\* The status read before the URL was stored is answered.
StoreUrlOnly ==
    /\ flow = "storing"
    /\ url' = TRUE
    /\ flow' = "snapshot"
    /\ UNCHANGED <<status, cached, overdue, snap, told, task, cancel, fault>>

StoreUrl ==
    /\ flow = "storing"
    /\ url' = TRUE
    /\ flow' = "refreshing"
    /\ UNCHANGED <<status, cached, overdue, snap, told, task, cancel, fault>>

Refresh ==
    /\ flow = "refreshing"
    /\ snap' = status
    /\ flow' = "snapshot"
    /\ UNCHANGED <<status, cached, url, overdue, told, task, cancel, fault>>

\* A found value that is no longer in Redis is answered as a failure.
StatusResponse ==
    /\ flow = "snapshot"
    /\ snap' = IF snap = "found" /\ ~cached THEN "failed" ELSE snap
    /\ flow' = "response"
    /\ UNCHANGED <<status, cached, url, overdue, told, task, cancel, fault>>

\* The request fails somewhere; with neverError the workflow goes on to wait.
RegistrationFails ==
    /\ flow \in {"sending", "storing", "refreshing", "snapshot"}
    /\ snap' = "open" /\ flow' = "response"
    /\ fault' = TRUE
    /\ UNCHANGED <<status, cached, url, overdue, told, task, cancel>>

\* Every settled lookup is suppressed, not only a cancelled one.
RegistrationSuppressed ==
    /\ flow = "response" /\ snap # "open"
    /\ flow' = "ended" /\ told' = "nothing"
    /\ UNCHANGED <<status, cached, url, overdue, snap, task, cancel, fault>>

RegistrationTerminal ==
    /\ flow = "response" /\ snap # "open"
    /\ flow' = "ended" /\ told' = Sent(snap)
    /\ UNCHANGED <<status, cached, url, overdue, snap, task, cancel, fault>>

\* "Wait for lookup callback": from here on the resume URL answers.
Suspend ==
    /\ flow = "response" /\ snap = "open"
    /\ flow' = "waiting"
    /\ UNCHANGED <<status, cached, url, overdue, snap, told, task, cancel, fault>>

\* The limit of the Wait node (130 s) lies behind the deadline (120 s).
WaitLimit ==
    /\ flow = "waiting" /\ overdue
    /\ flow' = "ended"
    /\ UNCHANGED <<status, cached, url, overdue, snap, told, task, cancel, fault>>

-----------------------------------------------------------------------------
(* Settling the job *)

\* complete() locks the row and decides; a late callback becomes a timeout.
CompleteBegin(t) ==
    /\ task[t].at = "idle" /\ status = "open" /\ ~Locked
    /\ \E s \in IF overdue THEN {"timeout"} ELSE Answered :
         /\ task' = [task EXCEPT ![t].at = "applying", ![t].said = s]
         /\ cached' = (cached \/ s = "found")
    /\ UNCHANGED <<status, url, overdue, flow, snap, told, cancel, fault>>

CompleteCommit(t) ==
    /\ task[t].at = "applying"
    /\ status' = task[t].said
    /\ task' = [task EXCEPT ![t].at = "committed"]
    /\ UNCHANGED <<cached, url, overdue, flow, snap, told, cancel, fault>>

\* _dispatch finds a job past its deadline, reading without a lock ...
DispatchReads(t) ==
    /\ task[t].at = "idle" /\ status = "open" /\ overdue
    /\ task' = [task EXCEPT ![t].at = "expiring", ![t].said = "timeout"]
    /\ UNCHANGED <<status, cached, url, overdue, flow, snap, told, cancel, fault>>

\* ... and writes over whatever the row has become.
DispatchExpires(t) ==
    /\ task[t].at = "expiring" /\ ~Locked
    /\ status' = "timeout"
    /\ task' = [task EXCEPT ![t].at = "committed"]
    /\ UNCHANGED <<cached, url, overdue, flow, snap, told, cancel, fault>>

\* A poll settles an overdue job and notifies nobody.
PollTimeout ==
    /\ status = "open" /\ overdue /\ ~Locked
    /\ status' = "timeout"
    /\ UNCHANGED <<cached, url, overdue, flow, snap, told, task, cancel, fault>>

\* The console cancels the job; only a replacement lookup removes its URL.
Cancel ==
    /\ status = "open" /\ ~Locked /\ cancel = "none"
    /\ status' = "cancelled"
    /\ cancel' \in {"deleting", "done"}
    /\ UNCHANGED <<cached, url, overdue, flow, snap, told, task, fault>>

DeleteCancelledUrl ==
    /\ cancel = "deleting"
    /\ url' = FALSE /\ cancel' = "done"
    /\ UNCHANGED <<status, cached, overdue, flow, snap, told, task, fault>>

-----------------------------------------------------------------------------
(* Notification *)

GetResumeUrl(t) ==
    /\ task[t].at = "committed"
    /\ task' = IF url THEN [task EXCEPT ![t].at = "posting", ![t].tries = MaxTries]
                      ELSE [task EXCEPT ![t].at = "done"]
    /\ UNCHANGED <<status, cached, url, overdue, flow, snap, told, cancel, fault>>

\* The suspended workflow goes on with the payload.
Resume(t) ==
    /\ task[t].at = "posting" /\ flow = "waiting"
    /\ flow' = "ended" /\ told' = Sent(task[t].said)

PostAccepted(t) ==
    /\ Resume(t)
    /\ task' = [task EXCEPT ![t].at = "delivered"]
    /\ UNCHANGED <<status, cached, url, overdue, snap, cancel, fault>>

Again(t) == [task EXCEPT ![t].tries = @ - 1,
                         ![t].at = IF task[t].tries = 1 THEN "done" ELSE @]

\* The workflow is resumed and the answer of the post is lost.
PostAnswerLost(t) ==
    /\ Resume(t)
    /\ task' = Again(t)
    /\ UNCHANGED <<status, cached, url, overdue, snap, cancel, fault>>

\* An execution that is not suspended is not found (404): try again.  A
\* workflow slower than all tries is a failure.
PostEarly(t) ==
    /\ task[t].at = "posting" /\ flow # "waiting"
    /\ task' = Again(t)
    /\ fault' = (fault \/ (task[t].tries = 1 /\ flow # "ended"))
    /\ UNCHANGED <<status, cached, url, overdue, flow, snap, told, cancel>>

\* n8n is not reached or fails; tried in vain to the end, or refused for good.
PostFails(t) ==
    /\ task[t].at = "posting"
    /\ \/ task' = Again(t)
       \/ task' = [task EXCEPT ![t].at = "done"]
    /\ fault' = TRUE
    /\ UNCHANGED <<status, cached, url, overdue, flow, snap, told, cancel>>

DeleteResumeUrl(t) ==
    /\ task[t].at = "delivered"
    /\ url' = FALSE
    /\ task' = [task EXCEPT ![t].at = "done"]
    /\ UNCHANGED <<status, cached, overdue, flow, snap, told, cancel, fault>>

-----------------------------------------------------------------------------
(* Time and failures *)

Deadline ==
    /\ ~overdue
    /\ overdue' = TRUE
    /\ UNCHANGED <<status, cached, url, flow, snap, told, task, cancel, fault>>

\* The process dies, or Redis fails, between the commit and the notification.
TaskDies(t) ==
    /\ task[t].at \in {"applying", "expiring", "committed", "posting", "delivered"}
    /\ task' = [task EXCEPT ![t].at = "done"]
    /\ fault' = TRUE
    /\ UNCHANGED <<status, cached, url, overdue, flow, snap, told, cancel>>

RedisLost ==
    /\ url \/ cached
    /\ url' = FALSE /\ cached' = FALSE
    /\ fault' = TRUE
    /\ UNCHANGED <<status, overdue, flow, snap, told, task, cancel>>

\* The TTL of the URL (180 s) is longer than the workflow waits.
UrlExpires ==
    /\ url /\ flow = "ended" /\ overdue
    /\ url' = FALSE
    /\ UNCHANGED <<status, cached, overdue, flow, snap, told, task, cancel, fault>>

-----------------------------------------------------------------------------

Workflow ==
    ReadJob \/ StoreUrl \/ Refresh \/ StatusResponse \/ RegistrationTerminal \/ Suspend

Notify(t) ==
    \/ CompleteCommit(t) \/ GetResumeUrl(t) \/ PostAccepted(t) \/ PostEarly(t)
    \/ DeleteResumeUrl(t)

Next ==
    \/ Workflow \/ RegistrationFails \/ WaitLimit
    \/ \E t \in Tasks :
         \/ CompleteBegin(t) \/ DispatchReads(t) \/ DispatchExpires(t)
         \/ Notify(t) \/ PostAnswerLost(t) \/ PostFails(t) \/ TaskDies(t)
    \/ PollTimeout \/ Cancel \/ DeleteCancelledUrl
    \/ Deadline \/ RedisLost \/ UrlExpires

Spec == Init /\ [][Next]_vars

\* Requests and tasks that have begun go on; nothing is assumed of executors,
\* of the deadline or of failures.
Fairness == WF_vars(Workflow) /\ \A t \in Tasks : WF_vars(Notify(t))

FairSpec == Spec /\ Fairness

-----------------------------------------------------------------------------
(* Properties *)

\* Between register_lookup_resume, which stores the URL and reads the row
\* again, and _notify_resume, which reads the URL after the commit, no answer
\* falls through: when nothing has failed, a workflow that waits for a job
\* with an answer is still going to be notified.
NotStranded ==
    flow = "waiting" /\ status \in Answered /\ ~fault =>
        \E t \in Tasks : \/ task[t].at = "committed" /\ url
                         \/ task[t].at = "posting"

\* Before the deadline a customer who has cancelled a lookup hears nothing of
\* it, wherever the workflow and the callbacks of the job were
\* (cancel_active_job_if_present, "IF suppress lookup result").
CancelledInTime == cancel # "none" /\ ~overdue => told = "nothing"

\* "The older n8n execution suppresses the resulting user_cancelled fallback
\* instead of sending a duplicate message"
\* (docs/architecture/whatsapp-console-flow.md).
CancelledSilent == cancel # "none" => told = "nothing"

\* "Performs one final status GET only if the callback was not received"
\* (docs/architecture/whatsapp-console-flow.md): a workflow does not give up
\* on a job that has its answer.
LimitIsAnswered ==
    [][flow = "waiting" /\ flow' = "ended" /\ status \in Answered
         => told' # "nothing"]_vars

\* An answer gets to the customer, unless something fails or the deadline
\* comes first.
AnswerReaches ==
    status = "found" ~> (told = "found" \/ fault \/ overdue)
=============================================================================
