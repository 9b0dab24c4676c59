----------------------------- MODULE ExportJobs -----------------------------
(***************************************************************************)
(* Tenant data export and the part of tenant deletion that touches it:     *)
(* export_service.py, export_worker.py, export_cleanup_worker.py,          *)
(* export_jobs_repository.py and tenant_service/deletion.py.               *)
(*                                                                         *)
(* One tenant.  Its rows are jobs, numbered in the order of creation; the  *)
(* archives are objects of the storage bucket.  Every backend process runs *)
(* one worker loop, and API calls are callers.  Each action is what a      *)
(* handler does between two awaits that matter: reading a row, writing it  *)
(* and touching the storage are separate steps, because no row is locked.  *)
(*                                                                         *)
(* Time: a cooldown may end and an archive may expire at any moment.  The  *)
(* contents of the archive are left out.                                   *)
(***************************************************************************)
EXTENDS Naturals, FiniteSets

CONSTANTS
    MaxJobs,      \* bound on export requests that succeed
    MaxKeys,      \* bound on uploads
    Workers,      \* processes that run export_worker_loop
    Callers,      \* concurrent API requests
    MaxAttempts,  \* max_attempts of a job, 3 in the code
    Prompt,       \* no upload overtakes the two commits of one request
    Scenarios     \* what may go wrong in a behaviour, and when the account is
                  \* deleted: "never", "quiet" (no export is under way) or
                  \* at "any" time

Jobs == 1..MaxJobs
NoJob == 0
NoKey == 0
Keys == 1..MaxKeys

\* The steps at which a call may fail.
ExportSteps == {"check", "upload", "postcheck", "confirm", "purge", "clear", "cleanup"}
DeletionSteps == {"delpurge", "delinstance", "delcommit"}

ASSUME ExportAssumption ==
    /\ MaxJobs \in Nat \ {0} /\ MaxKeys \in Nat \ {0}
    /\ MaxAttempts \in Nat \ {0}
    /\ Prompt \in BOOLEAN
    /\ Scenarios \subseteq [failing : SUBSET (ExportSteps \cup DeletionSteps),
                            failures : Nat, crashes : Nat,
                            deletion : {"never", "quiet", "any"}]

VARIABLES
    job,        \* the rows; status "none" where there is no row
    created,    \* number of rows ever created
    recency,    \* pairs of jobs, the first with the same or a later ready_at
    objects,    \* objects in the bucket
    uploads,    \* number of uploads so far
    worker,     \* state of each worker loop
    caller,     \* state of each API request
    cleaner,    \* job the cleanup loop is working on
    tenant,     \* the tenant row exists
    evolution,  \* the WhatsApp instance of the tenant exists
    failures, crashes,
    scenario    \* the scenario of the behaviour

vars == <<job, created, recency, objects, uploads, worker, caller, cleaner,
          tenant, evolution, failures, crashes, scenario>>

Statuses == {"pending", "processing", "ready", "failed", "cancelled"}
Active == {"pending", "processing"}
NoRow == [status |-> "none", attempts |-> 0, key |-> NoKey, replaced |-> NoJob,
          replacement |-> NoJob, cooling |-> FALSE, expired |-> FALSE]
IdleWorker == [pc |-> "idle", job |-> NoJob, attempt |-> 0, key |-> NoKey,
               seen |-> "none"]
IdleCaller == [pc |-> "idle", job |-> NoJob, ready |-> NoJob, key |-> NoKey,
               keys |-> {}]

Exists(j) == j # NoJob /\ job[j].status # "none"
Rows == {j \in Jobs : Exists(j)}

TypeOK ==
    /\ job \in [Jobs -> [status: Statuses \cup {"none"},
                         attempts: 0..scenario.failures, key: Keys \cup {NoKey},
                         replaced: Jobs \cup {NoJob},
                         replacement: Jobs \cup {NoJob},
                         cooling: BOOLEAN, expired: BOOLEAN]]
    /\ created \in 0..MaxJobs
    /\ recency \subseteq Jobs \X Jobs
    /\ objects \subseteq 1..uploads /\ uploads \in 0..MaxKeys
    /\ worker \in [Workers ->
          [pc: {"idle", "claim", "check", "upload", "postcheck", "confirm",
                "purge", "clear", "backoff", "reset"},
           job: Jobs \cup {NoJob}, attempt: 0..MaxAttempts - 1,
           key: Keys \cup {NoKey}, seen: Statuses \cup {"none"}]]
    /\ caller \in [Callers ->
          [pc: {"idle", "create", "link", "cancel", "delcancel", "delread",
                "delpurge", "delinstance", "delrows", "delcommit"},
           job: Jobs \cup {NoJob}, ready: Jobs \cup {NoJob},
           key: Keys \cup {NoKey}, keys: SUBSET Keys]]
    /\ cleaner \in Jobs \cup {NoJob}
    /\ tenant \in BOOLEAN /\ evolution \in BOOLEAN
    /\ scenario \in Scenarios
    /\ failures \in 0..scenario.failures /\ crashes \in 0..scenario.crashes

Init ==
    /\ job = [j \in Jobs |-> NoRow]
    /\ created = 0
    /\ recency = {}
    /\ objects = {} /\ uploads = 0
    /\ worker = [w \in Workers |-> IdleWorker]
    /\ caller = [c \in Callers |-> IdleCaller]
    /\ cleaner = NoJob
    /\ tenant = TRUE /\ evolution = TRUE
    /\ failures = 0 /\ crashes = 0
    /\ scenario \in Scenarios

\* A call of step s raises.
Fails(s) ==
    /\ s \in scenario.failing /\ failures < scenario.failures
    /\ failures' = failures + 1

-----------------------------------------------------------------------------
(* Queries of the repository *)

\* get_latest_by_tenant
Latest == IF Rows = {} THEN NoJob ELSE CHOOSE j \in Rows : \A i \in Rows : i <= j

\* get_ready_by_tenant: the ready job created last.
Ready == {j \in Rows : job[j].status = "ready" /\ ~job[j].expired}
LatestReady == IF Ready = {} THEN NoJob
               ELSE CHOOSE j \in Ready : \A i \in Ready : i <= j

Newest(S) == CHOOSE j \in S : \A i \in S : <<j, i>> \in recency

\* get_downloadable_job_for_tenant
Downloadable ==
    LET offered == {j \in Ready : job[j].key # NoKey}
        first == Newest(offered)
        others == offered \ {first}
        next == job[first].replacement
    IN  IF offered = {} THEN NoJob
        ELSE IF Exists(next) /\ job[next].status \in Active /\ others # {}
          THEN Newest(others)
          ELSE first

\* Writing status "ready" stamps ready_at, whatever the row was before.
Dated == {j \in Jobs : <<j, j>> \in recency}
Stamped(j) ==
    {p \in recency : j \notin {p[1], p[2]}} \cup ({j} \X (Dated \cup {j}))

-----------------------------------------------------------------------------
(* Requests of the API *)

\* request_export up to the insert: the cooldown and the job to replace.
RequestCheck(c) ==
    /\ caller[c].pc = "idle" /\ tenant
    /\ created < MaxJobs
    /\ \A j \in Rows : ~job[j].cooling
    /\ caller' = [caller EXCEPT ![c] =
          [IdleCaller EXCEPT !.pc = "create", !.ready = LatestReady,
             !.key = IF LatestReady = NoJob THEN NoKey ELSE job[LatestReady].key]]
    /\ UNCHANGED <<job, created, recency, objects, uploads, worker, cleaner,
                   tenant, evolution, failures, crashes, scenario>>

\* The insert commits; it fails when the tenant row is gone.
RequestCreate(c) ==
    /\ caller[c].pc = "create"
    /\ created < MaxJobs
    /\ IF tenant
         THEN LET j == created + 1 IN
              /\ created' = j
              /\ job' = [job EXCEPT ![j] = [NoRow EXCEPT !.status = "pending",
                            !.replaced = caller[c].ready, !.cooling = TRUE]]
              /\ caller' = [caller EXCEPT ![c] =
                    IF @.ready = NoJob THEN IdleCaller
                    ELSE [@ EXCEPT !.pc = "link", !.job = j]]
         ELSE /\ caller' = [caller EXCEPT ![c] = IdleCaller]
              /\ UNCHANGED <<job, created>>
    /\ UNCHANGED <<recency, objects, uploads, worker, cleaner, tenant,
                   evolution, failures, crashes, scenario>>

\* The replaced row gets its replacement, and with it the status and the key
\* that RequestCheck read.
RequestLink(c) ==
    LET r == caller[c].ready IN
    /\ caller[c].pc = "link"
    /\ IF Exists(r)
         THEN /\ job' = [job EXCEPT ![r].replacement = caller[c].job,
                            ![r].status = "ready", ![r].key = caller[c].key]
              /\ recency' = Stamped(r)
         ELSE UNCHANGED <<job, recency>>
    /\ caller' = [caller EXCEPT ![c] = IdleCaller]
    /\ UNCHANGED <<created, objects, uploads, worker, cleaner, tenant,
                   evolution, failures, crashes, scenario>>

\* cancel_export up to its update: the latest job, if it is active; a key of a
\* processing job is deleted from the bucket.
CancelRead(c, pc) ==
    /\ Latest # NoJob /\ job[Latest].status \in Active
    /\ caller' = [caller EXCEPT ![c] = [IdleCaller EXCEPT !.pc = pc, !.job = Latest]]
    /\ objects' = IF job[Latest].status = "processing"
                    THEN objects \ {job[Latest].key} ELSE objects

Cancel(c) ==
    /\ caller[c].pc = "idle"
    /\ CancelRead(c, "cancel")
    /\ UNCHANGED <<job, created, recency, uploads, worker, cleaner, tenant,
                   evolution, failures, crashes, scenario>>

\* cancel_job: an update that checks the status in its WHERE clause.
Cancelled(j) ==
    IF Exists(j) /\ job[j].status \in Active
      THEN [job EXCEPT ![j].status = "cancelled"] ELSE job

CancelCommit(c) ==
    /\ caller[c].pc = "cancel"
    /\ job' = Cancelled(caller[c].job)
    /\ caller' = [caller EXCEPT ![c] = IdleCaller]
    /\ UNCHANGED <<created, recency, objects, uploads, worker, cleaner, tenant,
                   evolution, failures, crashes, scenario>>

\* get_current_export and get_download_url clear the key of a ready job whose
\* object is gone: the latest job, the one it replaces, the one to download.
Reconcile(j) ==
    /\ \/ j = Latest
       \/ /\ Latest # NoJob /\ job[Latest].status \in Active
          /\ j = job[Latest].replaced /\ j \in Ready
       \/ j = Downloadable
    /\ Exists(j) /\ job[j].status = "ready"
    /\ job[j].key # NoKey /\ job[j].key \notin objects
    /\ job' = [job EXCEPT ![j].key = NoKey]
    /\ recency' = Stamped(j)
    /\ UNCHANGED <<created, objects, uploads, worker, caller, cleaner, tenant,
                   evolution, failures, crashes, scenario>>

-----------------------------------------------------------------------------
(* The worker *)

Worker(w, pc) == worker' = [worker EXCEPT ![w].pc = pc]
Rest(w) == worker' = [worker EXCEPT ![w] = IdleWorker]

\* _is_cancelled: a checkpoint.
Stopped(j) == ~Exists(j) \/ job[j].status = "cancelled"

Claimable == {j \in Rows : job[j].status = "pending"
                           /\ job[j].attempts < MaxAttempts}

\* claim_pending selects the oldest pending job ...
ClaimSelect(w) ==
    /\ worker[w].pc = "idle"
    /\ Claimable # {}
    /\ worker' = [worker EXCEPT ![w] = [IdleWorker EXCEPT !.pc = "claim",
            !.job = CHOOSE j \in Claimable : \A i \in Claimable : j <= i]]
    /\ UNCHANGED <<job, created, recency, objects, uploads, caller, cleaner,
                   tenant, evolution, failures, crashes, scenario>>

\* ... and writes it, without a lock and without looking again.
ClaimCommit(w) ==
    LET j == worker[w].job IN
    /\ worker[w].pc = "claim"
    /\ IF Exists(j)
         THEN job' = [job EXCEPT ![j].status = "processing"] /\ Worker(w, "check")
         ELSE Rest(w) /\ UNCHANGED job
    /\ UNCHANGED <<created, recency, objects, uploads, caller, cleaner, tenant,
                   evolution, failures, crashes, scenario>>

\* The checkpoints between the queries and before the upload.
Check(w) ==
    /\ worker[w].pc = "check"
    /\ IF Stopped(worker[w].job) THEN Rest(w) ELSE Worker(w, "upload")
    /\ UNCHANGED <<job, created, recency, objects, uploads, caller, cleaner,
                   tenant, evolution, failures, crashes, scenario>>

\* The replaced archive goes as soon as there is a new one.
UploadThenPurge(w) ==
    LET p == job[worker[w].job].replaced IN
    /\ worker[w].pc = "upload"
    /\ uploads < MaxKeys
    /\ uploads' = uploads + 1
    /\ objects' = (objects \cup {uploads'})
                    \ {IF Exists(p) THEN job[p].key ELSE NoKey}
    /\ worker' = [worker EXCEPT ![w].pc = "postcheck", ![w].key = uploads']
    /\ UNCHANGED <<job, created, recency, caller, cleaner, tenant, evolution,
                   failures, crashes, scenario>>

Upload(w) ==
    /\ worker[w].pc = "upload"
    /\ uploads < MaxKeys
    /\ Prompt => \A c \in Callers : caller[c].pc # "link"
    /\ uploads' = uploads + 1
    /\ objects' = objects \cup {uploads'}
    /\ worker' = [worker EXCEPT ![w].pc = "postcheck", ![w].key = uploads']
    /\ UNCHANGED <<job, created, recency, caller, cleaner, tenant, evolution,
                   failures, crashes, scenario>>

\* The archive of a cancelled job stays in the bucket.
PostCheckWithoutPurge(w) ==
    /\ worker[w].pc = "postcheck"
    /\ IF Stopped(worker[w].job) THEN Rest(w) ELSE Worker(w, "confirm")
    /\ UNCHANGED <<job, created, recency, objects, uploads, caller, cleaner,
                   tenant, evolution, failures, crashes, scenario>>

\* The checkpoint after the upload purges what it uploaded.
PostCheck(w) ==
    /\ worker[w].pc = "postcheck"
    /\ IF Stopped(worker[w].job)
         THEN objects' = objects \ {worker[w].key} /\ Rest(w)
         ELSE Worker(w, "confirm") /\ UNCHANGED objects
    /\ UNCHANGED <<job, created, recency, uploads, caller, cleaner, tenant,
                   evolution, failures, crashes, scenario>>

\* confirm_replacement_ready: an update by id alone, then the job it replaced.
Confirm(w) ==
    LET j == worker[w].job IN
    /\ worker[w].pc = "confirm"
    /\ IF Exists(j)
         THEN /\ job' = [job EXCEPT ![j].status = "ready", ![j].key = worker[w].key,
                              ![j].cooling = TRUE, ![j].expired = FALSE]
              /\ recency' = Stamped(j)
              /\ IF job[j].replaced # NoJob THEN Worker(w, "purge") ELSE Rest(w)
         ELSE Rest(w) /\ UNCHANGED <<job, recency>>
    /\ UNCHANGED <<created, objects, uploads, caller, cleaner, tenant,
                   evolution, failures, crashes, scenario>>

\* The replaced object goes first, its key in the row next.
Purge(w) ==
    LET p == job[worker[w].job].replaced IN
    /\ worker[w].pc = "purge"
    /\ IF Exists(worker[w].job) /\ Exists(p) /\ job[p].key # NoKey
         THEN /\ objects' = objects \ {job[p].key}
              /\ worker' = [worker EXCEPT ![w].pc = "clear",
                                          ![w].seen = job[p].status]
         ELSE Rest(w) /\ UNCHANGED objects
    /\ UNCHANGED <<job, created, recency, uploads, caller, cleaner, tenant,
                   evolution, failures, crashes, scenario>>

Clear(w) ==
    LET p == job[worker[w].job].replaced IN
    /\ worker[w].pc = "clear"
    /\ IF Exists(p)
         THEN /\ job' = [job EXCEPT ![p].status = worker[w].seen,
                            ![p].key = IF worker[w].seen = "ready" THEN NoKey ELSE @]
              /\ recency' = IF worker[w].seen = "ready" THEN Stamped(p) ELSE recency
         ELSE UNCHANGED <<job, recency>>
    /\ Rest(w)
    /\ UNCHANGED <<created, objects, uploads, caller, cleaner, tenant,
                   evolution, failures, crashes, scenario>>

\* The last attempt gives up without saying so in the row.
AttemptFailsSilently(w) ==
    /\ worker[w].pc \in {"check", "upload", "postcheck", "confirm", "purge", "clear"}
    /\ Fails(worker[w].pc)
    /\ IF worker[w].attempt + 1 >= MaxAttempts THEN Rest(w) ELSE Worker(w, "backoff")
    /\ UNCHANGED <<job, created, recency, objects, uploads, caller, cleaner,
                   tenant, evolution, crashes, scenario>>

\* Any exception of an attempt: it is counted, and the last one fails the job.
AttemptFails(w) ==
    LET j == worker[w].job IN
    /\ worker[w].pc \in {"check", "upload", "postcheck", "confirm", "purge", "clear"}
    /\ Fails(worker[w].pc)
    /\ IF worker[w].attempt + 1 >= MaxAttempts
         THEN /\ job' = IF Exists(j)
                          THEN [job EXCEPT ![j].attempts = @ + 1,
                                           ![j].status = "failed"]
                          ELSE job
              /\ Rest(w)
         ELSE /\ job' = IF Exists(j) THEN [job EXCEPT ![j].attempts = @ + 1] ELSE job
              /\ Worker(w, "backoff")
    /\ UNCHANGED <<created, recency, objects, uploads, caller, cleaner, tenant,
                   evolution, crashes, scenario>>

Backoff(w) ==
    /\ worker[w].pc = "backoff"
    /\ IF Stopped(worker[w].job) THEN Rest(w) ELSE Worker(w, "reset")
    /\ UNCHANGED <<job, created, recency, objects, uploads, caller, cleaner,
                   tenant, evolution, failures, crashes, scenario>>

\* The row goes back to pending although this worker goes on with it.
Reset(w) ==
    LET j == worker[w].job IN
    /\ worker[w].pc = "reset"
    /\ job' = IF Exists(j) THEN [job EXCEPT ![j].status = "pending"] ELSE job
    /\ worker' = [worker EXCEPT ![w].pc = "check", ![w].attempt = @ + 1,
                                ![w].key = NoKey]
    /\ UNCHANGED <<created, recency, objects, uploads, caller, cleaner, tenant,
                   evolution, failures, crashes, scenario>>

\* The process is stopped or replaced; nothing takes its claim back.
Crash(w) ==
    /\ worker[w].pc # "idle"
    /\ crashes < scenario.crashes
    /\ crashes' = crashes + 1
    /\ Rest(w)
    /\ UNCHANGED <<job, created, recency, objects, uploads, caller, cleaner,
                   tenant, evolution, failures, scenario>>

-----------------------------------------------------------------------------
(* Expiry *)

CooldownEnds(j) ==
    /\ job[j].cooling
    /\ job' = [job EXCEPT ![j].cooling = FALSE]
    /\ UNCHANGED <<created, recency, objects, uploads, worker, caller, cleaner,
                   tenant, evolution, failures, crashes, scenario>>

\* 72 hours for each archive: the older ones expire first.
Expires(j) ==
    /\ j \in Ready /\ \A i \in Ready : i >= j
    /\ job' = [job EXCEPT ![j].expired = TRUE]
    /\ UNCHANGED <<created, recency, objects, uploads, worker, caller, cleaner,
                   tenant, evolution, failures, crashes, scenario>>

\* cleanup_expired_exports deletes the object of an expired job; a failure is
\* logged and the row is cleared all the same.
CleanupDelete(j) ==
    /\ cleaner = NoJob
    /\ job[j].status = "ready" /\ job[j].expired /\ job[j].key # NoKey
    /\ cleaner' = j
    /\ \/ objects' = objects \ {job[j].key} /\ UNCHANGED failures
       \/ Fails("cleanup") /\ UNCHANGED objects
    /\ UNCHANGED <<job, created, recency, uploads, worker, caller, tenant,
                   evolution, crashes, scenario>>

CleanupClear ==
    /\ cleaner # NoJob
    /\ cleaner' = NoJob
    /\ IF Exists(cleaner)
         THEN /\ job' = [job EXCEPT ![cleaner].status = "ready", ![cleaner].key = NoKey]
              /\ recency' = Stamped(cleaner)
         ELSE UNCHANGED <<job, recency>>
    /\ UNCHANGED <<created, objects, uploads, worker, caller, tenant, evolution,
                   failures, crashes, scenario>>

-----------------------------------------------------------------------------
(* Deletion of the account *)

\* The password has been verified: the export under way is cancelled first.
DeleteStart(c) ==
    /\ scenario.deletion # "never" /\ tenant
    /\ caller[c].pc = "idle"
    /\ scenario.deletion = "quiet" =>
         /\ \A w \in Workers : worker[w].pc = "idle"
         /\ \A j \in Rows : job[j].status \notin Active
    /\ \A d \in Callers : caller[d].pc \in {"idle", "create", "link", "cancel"}
    /\ \/ CancelRead(c, "delcancel")
       \/ /\ Latest # NoJob => job[Latest].status \notin Active
          /\ caller' = [caller EXCEPT ![c] = [IdleCaller EXCEPT !.pc = "delread"]]
          /\ UNCHANGED objects
    /\ UNCHANGED <<job, created, recency, uploads, worker, cleaner, tenant,
                   evolution, failures, crashes, scenario>>

\* The wait ends as soon as the row says cancelled, which it does at once.
DeleteCancel(c) ==
    /\ caller[c].pc = "delcancel"
    /\ job' = Cancelled(caller[c].job)
    /\ caller' = [caller EXCEPT ![c].pc = "delread"]
    /\ UNCHANGED <<created, recency, objects, uploads, worker, cleaner, tenant,
                   evolution, failures, crashes, scenario>>

DeleteReadKeys(c) ==
    /\ caller[c].pc = "delread"
    /\ caller' = [caller EXCEPT ![c].pc = "delpurge",
                     ![c].keys = {job[j].key : j \in Rows} \ {NoKey}]
    /\ UNCHANGED <<job, created, recency, objects, uploads, worker, cleaner,
                   tenant, evolution, failures, crashes, scenario>>

\* One object after the other; the first failure ends the deletion.
DeletePurge(c) ==
    /\ caller[c].pc = "delpurge"
    /\ IF caller[c].keys = {}
         THEN /\ caller' = [caller EXCEPT ![c].pc = "delinstance"]
              /\ UNCHANGED <<objects, failures>>
         ELSE \/ \E k \in caller[c].keys :
                   /\ objects' = objects \ {k}
                   /\ caller' = [caller EXCEPT ![c].keys = @ \ {k}]
                   /\ UNCHANGED failures
              \/ /\ Fails("delpurge")
                 /\ caller' = [caller EXCEPT ![c] = IdleCaller]
                 /\ UNCHANGED objects
    /\ UNCHANGED <<job, created, recency, uploads, worker, cleaner, tenant,
                   evolution, crashes, scenario>>

DeleteInstance(c) ==
    /\ caller[c].pc = "delinstance"
    /\ \/ /\ evolution' = FALSE
          /\ caller' = [caller EXCEPT ![c].pc = "delrows"]
          /\ UNCHANGED failures
       \/ /\ Fails("delinstance")
          /\ caller' = [caller EXCEPT ![c] = IdleCaller]
          /\ UNCHANGED evolution
    /\ UNCHANGED <<job, created, recency, objects, uploads, worker, cleaner,
                   tenant, crashes, scenario>>

\* purge_tenant_jobs commits on its own.
DeleteRows(c) ==
    /\ caller[c].pc = "delrows"
    /\ job' = [j \in Jobs |-> NoRow]
    /\ recency' = {}
    /\ caller' = [caller EXCEPT ![c].pc = "delcommit"]
    /\ UNCHANGED <<created, objects, uploads, worker, cleaner, tenant,
                   evolution, failures, crashes, scenario>>

\* The cascade: rows created since are deleted with the tenant.
DeleteCommit(c) ==
    /\ caller[c].pc = "delcommit"
    /\ \/ /\ tenant' = FALSE
          /\ job' = [j \in Jobs |-> NoRow]
          /\ recency' = {}
          /\ UNCHANGED failures
       \/ /\ Fails("delcommit")
          /\ UNCHANGED <<tenant, job, recency>>
    /\ caller' = [caller EXCEPT ![c] = IdleCaller]
    /\ UNCHANGED <<created, objects, uploads, worker, cleaner, evolution, crashes, scenario>>

-----------------------------------------------------------------------------

Work(w) ==
    \/ ClaimSelect(w) \/ ClaimCommit(w) \/ Check(w) \/ Upload(w) \/ PostCheck(w)
    \/ Confirm(w) \/ Purge(w) \/ Clear(w) \/ Backoff(w) \/ Reset(w)

Serve(c) ==
    \/ RequestCreate(c) \/ RequestLink(c) \/ CancelCommit(c)
    \/ DeleteCancel(c) \/ DeleteReadKeys(c) \/ DeletePurge(c)
    \/ DeleteInstance(c) \/ DeleteRows(c) \/ DeleteCommit(c)

Next ==
    \/ \E w \in Workers : Work(w) \/ AttemptFails(w) \/ Crash(w)
    \/ \E c \in Callers : RequestCheck(c) \/ Cancel(c) \/ DeleteStart(c) \/ Serve(c)
    \/ \E j \in Jobs :
         CooldownEnds(j) \/ Expires(j) \/ CleanupDelete(j) \/ Reconcile(j)
    \/ CleanupClear

Spec == Init /\ [][Next]_vars

\* A running loop goes on: after a crash the process is started again.
Fairness ==
    /\ \A w \in Workers : WF_vars(Work(w))
    /\ \A c \in Callers : WF_vars(Serve(c))

FairSpec == Spec /\ Fairness

-----------------------------------------------------------------------------
(* Properties *)

\* The tenant has an archive to download.
Available == Downloadable # NoJob /\ job[Downloadable].key \in objects

\* get_download_url: a tenant that can download an archive can go on doing so,
\* through a replacement that is requested, fails, is cancelled or succeeds,
\* until the archive expires or the account is deleted.
StaysAvailable ==
    [][scenario.deletion = "never" /\ Available /\ ~Available' =>
         \E j \in Jobs : job'[j].expired # job[j].expired]_vars

\* confirm_replacement_ready, cancel_export, cleanup_expired_exports and the
\* checkpoint after the upload: every object of the bucket is the archive of
\* some row or in the hands of a worker, so somebody will delete it, as long
\* as no call has failed and no process died.
NoOrphan ==
    failures = 0 /\ crashes = 0 =>
        objects \subseteq {job[j].key : j \in Rows} \cup {worker[w].key : w \in Workers}

\* _process_job_with_session: a requested export ends ready, failed or
\* cancelled, however many of its attempts fail.
RequestsDecided ==
    \A j \in Jobs : job[j].status \in Active ~> job[j].status \notin Active

\* delete_tenant_as_master and its self-service twin: when the tenant is gone
\* so are its WhatsApp instance and its archives, but for one that a worker
\* still has in its hands.
DeletionPurges ==
    ~tenant => /\ ~evolution
               /\ objects \subseteq {worker[w].key : w \in Workers}

\* claim_pending: no two workers build the archive of one job.
OneWorkerPerJob ==
    \A v, w \in Workers :
        v # w /\ worker[v].pc # "idle" /\ worker[w].pc # "idle"
          => worker[v].job # worker[w].job

\* cancel_export: a cancelled job stays cancelled.
CancelledIsFinal ==
    [][\A j \in Jobs : job[j].status = "cancelled"
                         => job'[j].status \in {"cancelled", "none"}]_vars

\* request_export: at most one generation is in its cooldown.
OneGeneration == Cardinality({j \in Rows : job[j].cooling}) <= 1
=============================================================================
