---------------------------- MODULE ExportProofs ----------------------------
(***************************************************************************)
(* Theorems about ExportJobs, for any number of exports, uploads, attempts *)
(* and failures; and about ExportStore, for any number of sessions,        *)
(* requests and exports and answers in any order.                          *)
(***************************************************************************)
EXTENDS MCExport, Integers, WellFoundedInduction, TLAPS

-----------------------------------------------------------------------------
(* The exports of a tenant *)

\* A set of numbers has a least one.
LEMMA Least ==
    ASSUME NEW S \in SUBSET Nat, S # {}
    PROVE  \E j \in S : \A i \in S : j <= i
  <1> DEFINE Less == OpToRel(<, Nat)
  <1>1. IsWellFoundedOn(Less, Nat)
    BY NatLessThanWellFounded
  <1>2. \A x, y \in Nat : y < x => <<y, x>> \in Less
    BY DEF OpToRel
  <1> HIDE DEF Less
  <1>3. PICK j \in S : \A i \in S : ~(<<i, j>> \in Less)
    BY <1>1, WFMin
  <1>4. ASSUME NEW i \in S PROVE j <= i
    <2>1. ~(i < j)
      BY <1>2, <1>3
    <2> QED
      BY <2>1
  <1> QED
    BY <1>4

\* A set of numbers up to N has a greatest one: get_latest_by_tenant finds a row.
LEMMA Greatest ==
    ASSUME NEW N \in Nat, NEW S \in SUBSET (1..N), S # {}
    PROVE  \E j \in S : \A i \in S : i <= j
  <1> DEFINE T == {N - j : j \in S}
  <1>1. T \in SUBSET Nat /\ T # {}
    <2>1. \A j \in S : N - j \in Nat
      OBVIOUS
    <2> QED
      BY <2>1
  <1>2. PICK x \in T : \A y \in T : x <= y
    <2> HIDE DEF T
    <2> QED BY <1>1, Least
  <1>3. PICK j \in S : x = N - j
    BY <1>2
  <1>4. ASSUME NEW i \in S PROVE i <= j
    <2>1. N - i \in T
      OBVIOUS
    <2>2. N - j <= N - i
      BY <2>1, <1>2, <1>3
    <2> QED
      BY <2>2
  <1> QED
    BY <1>4

\* One process runs the worker loop.
OneWorker == \A v, w \in Workers : v = w

\* Nothing has disturbed the exports so far.
Calm ==
    /\ crashes = 0
    /\ \/ scenario.deletion = "never" /\ failures = 0
       \/ Undisturbed /\ OneCaller

Building == {"claim", "check", "upload", "postcheck", "confirm"}
Deleting == {"delread", "delpurge", "delinstance", "delrows", "delcommit"}

\* The types, and what else every behaviour keeps: keys come from uploads, and
\* attempts from failures.
Row == [status: Statuses \cup {"none"}, attempts: Nat, key: Nat,
        replaced: Jobs \cup {NoJob}, replacement: Jobs \cup {NoJob},
        cooling: BOOLEAN, expired: BOOLEAN]
Loop == [pc: {"idle", "claim", "check", "upload", "postcheck", "confirm",
              "purge", "clear", "backoff", "reset"},
         job: Jobs \cup {NoJob}, attempt: 0..MaxAttempts - 1,
         key: Nat, seen: Statuses \cup {"none"}]
Request == [pc: {"idle", "create", "link", "cancel", "delcancel",
                 "delread", "delpurge", "delinstance", "delrows", "delcommit"},
            job: Jobs \cup {NoJob}, ready: Jobs \cup {NoJob},
            key: Nat, keys: SUBSET Keys]
RowsTyped ==
    /\ job \in [Jobs -> Row]
    /\ \A j \in Jobs : /\ job[j].key <= uploads /\ job[j].attempts <= failures
                       /\ j > created => job[j] = NoRow
LoopsTyped ==
    /\ worker \in [Workers -> Loop]
    /\ \A w \in Workers :
          /\ worker[w].key <= uploads
          /\ worker[w].pc # "idle" => worker[w].job \in Jobs
          /\ worker[w].pc \in {"backoff", "reset"} => worker[w].attempt + 1 < MaxAttempts
RequestsTyped ==
    /\ caller \in [Callers -> Request]
    /\ \A c \in Callers :
          /\ caller[c].key <= uploads
          /\ caller[c].pc \in {"link", "cancel", "delcancel"} => caller[c].job \in Jobs
OthersTyped ==
    /\ created \in 0..MaxJobs
    /\ recency \subseteq Jobs \X Jobs
    /\ objects \subseteq 1..uploads /\ uploads \in 0..MaxKeys
    /\ cleaner \in Jobs \cup {NoJob}
    /\ tenant \in BOOLEAN /\ evolution \in BOOLEAN
    /\ scenario \in Scenarios
    /\ failures \in 0..scenario.failures /\ crashes \in 0..scenario.crashes
Typed == RowsTyped /\ LoopsTyped /\ RequestsTyped /\ OthersTyped

\* Only a ready row has a key, and the job that another replaces is ready.
RowsSound ==
    \A j \in Jobs :
        /\ job[j].status # "ready" => job[j].key = NoKey
        /\ job[j].replaced # NoJob => job[job[j].replaced].status = "ready"

\* A loop that builds an archive has a job that is not ready; one that has
\* confirmed it goes on with the replaced archive, and the object that it has
\* uploaded is the archive of its job unless somebody has deleted it.
WorkersSound ==
    \A w \in Workers : LET j == worker[w].job IN
        /\ worker[w].pc \in {"idle", "purge", "clear"} \cup Building
        /\ worker[w].pc \in {"idle", "claim", "check", "upload"} => worker[w].key = NoKey
        /\ worker[w].pc \in Building =>
              job[j].status \in {"pending", "processing", "cancelled"}
        /\ worker[w].pc \in {"purge", "clear"} =>
              /\ job[j].status = "ready"
              /\ worker[w].key \in objects => job[j].key = worker[w].key
        /\ worker[w].pc = "clear" =>
              /\ worker[w].seen = "ready"
              /\ job[j].replaced # NoJob
              /\ job[job[j].replaced].key \notin objects

\* The key that request_export is going to write back is the one in the row, or
\* both name objects that are gone.
CallersSound ==
    \A c \in Callers : LET r == caller[c].ready IN
        caller[c].pc \in {"create", "link"} /\ r # NoJob =>
            /\ job[r].status = "ready"
            /\ caller[c].key \in objects => job[r].key = caller[c].key
            /\ job[r].key \in objects => job[r].key = caller[c].key

\* The object of the row that the cleanup is about to clear is gone.
CleanerSound ==
    cleaner # NoJob => /\ cleaner <= created
                       /\ job[cleaner].status \in {"ready", "none"}
                       /\ job[cleaner].key \notin objects

\* NoOrphan, rows that do not exist included.
Owned == objects \subseteq {job[j].key : j \in Jobs} \cup {worker[w].key : w \in Workers}

\* Nobody deletes an account that is never deleted.
Kept == scenario.deletion = "never" =>
            tenant /\ \A c \in Callers : caller[c].pc \notin Deleting

\* A deletion has read every key before it purges, and no archive is built in
\* between.
DeletionSound ==
    \A c \in Callers :
       /\ caller[c].pc # "delcancel"
       /\ caller[c].pc \in Deleting =>
            /\ \A w \in Workers : worker[w].pc = "idle"
            /\ \A j \in Jobs : job[j].status \notin Active
       /\ caller[c].pc = "delpurge" => objects \subseteq caller[c].keys
       /\ caller[c].pc \in {"delinstance", "delrows", "delcommit"} => objects = {}
       /\ caller[c].pc \in {"delrows", "delcommit"} => ~evolution

\* DeletionPurges, and nothing is left that could upload again.
Gone == ~tenant => /\ ~evolution /\ objects = {}
                   /\ \A w \in Workers : worker[w].pc = "idle"
                   /\ \A j \in Jobs : job[j].status = "none"
                   /\ \A c \in Callers : caller[c].pc = "idle"

Core == /\ RowsSound /\ WorkersSound /\ CallersSound /\ CleanerSound /\ Owned
        /\ Kept /\ DeletionSound /\ Gone
Inv == Typed /\ (Calm => Core)

USE DEF NoJob, NoKey

\* What is assumed of the constants.
LEMMA Bounds ==
    /\ MaxJobs \in Nat \ {0} /\ MaxKeys \in Nat \ {0} /\ MaxAttempts \in Nat \ {0}
    /\ \A s \in Scenarios : s.failures \in Nat /\ s.crashes \in Nat
  BY ExportAssumption

\* The stronger types are types.
LEMMA TypedIsTypeOK == Typed => TypeOK
  <1> SUFFICES ASSUME Typed PROVE TypeOK
    OBVIOUS
  <1>1. uploads \in 0..MaxKeys /\ failures \in 0..scenario.failures
        /\ scenario.failures \in Nat
    BY Bounds DEF Typed, OthersTyped
  <1>2. job \in [Jobs -> [status: Statuses \cup {"none"},
                         attempts: 0..scenario.failures, key: Keys \cup {NoKey},
                         replaced: Jobs \cup {NoJob},
                         replacement: Jobs \cup {NoJob},
                         cooling: BOOLEAN, expired: BOOLEAN]]
    <2>1. ASSUME NEW j \in Jobs
          PROVE job[j].attempts \in 0..scenario.failures /\ job[j].key \in Keys \cup {NoKey}
      BY <1>1, Bounds DEF Typed, RowsTyped, Row, Keys
    <2> QED BY <2>1 DEF Typed, RowsTyped, Row
  <1>3. worker \in [Workers ->
          [pc: {"idle", "claim", "check", "upload", "postcheck", "confirm",
                "purge", "clear", "backoff", "reset"},
           job: Jobs \cup {NoJob}, attempt: 0..MaxAttempts - 1,
           key: Keys \cup {NoKey}, seen: Statuses \cup {"none"}]]
    <2>1. ASSUME NEW w \in Workers PROVE worker[w].key \in Keys \cup {NoKey}
      BY <1>1, Bounds DEF Typed, LoopsTyped, Loop, Keys
    <2> QED BY <2>1 DEF Typed, LoopsTyped, Loop
  <1>4. caller \in [Callers ->
          [pc: {"idle", "create", "link", "cancel", "delcancel", "delread",
                "delpurge", "delinstance", "delrows", "delcommit"},
           job: Jobs \cup {NoJob}, ready: Jobs \cup {NoJob},
           key: Keys \cup {NoKey}, keys: SUBSET Keys]]
    <2>1. ASSUME NEW c \in Callers PROVE caller[c].key \in Keys \cup {NoKey}
      BY <1>1, Bounds DEF Typed, RequestsTyped, Request, Keys
    <2> QED BY <2>1 DEF Typed, RequestsTyped, Request
  <1> QED
    BY <1>2, <1>3, <1>4 DEF TypeOK, Typed, OthersTyped

\* An account without exports.
LEMMA InitInv == Init => Inv
  <1> SUFFICES ASSUME Init PROVE Inv
    OBVIOUS
  <1>1. scenario.failures \in Nat /\ scenario.crashes \in Nat
    BY Bounds DEF Init
  <1>2. Typed
    <2>1. RowsTyped
      BY Bounds DEF Init, RowsTyped, Row, NoRow, Jobs, Statuses
    <2>2. LoopsTyped
      BY Bounds DEF Init, LoopsTyped, Loop, IdleWorker, Jobs, Statuses
    <2>3. RequestsTyped
      BY Bounds DEF Init, RequestsTyped, Request, IdleCaller, Jobs, Statuses
    <2>4. OthersTyped
      BY <1>1, Bounds DEF Init, OthersTyped
    <2> QED BY <2>1, <2>2, <2>3, <2>4 DEF Typed
  <1>3. Core
    BY <1>1, Bounds DEF Init, Core, RowsSound, WorkersSound, CallersSound, CleanerSound,
       Owned, Kept, DeletionSound, Gone, NoRow, IdleWorker, IdleCaller, Jobs, Deleting,
       Building
  <1> QED
    BY <1>2, <1>3 DEF Inv

\* What the queries return and what ready_at becomes.
LEMMA Queries ==
    ASSUME Typed
    PROVE  /\ Latest \in Jobs \cup {NoJob}
           /\ LatestReady \in Jobs \cup {NoJob}
           /\ \A j \in Jobs : Stamped(j) \subseteq Jobs \X Jobs
  <1>1. \A S \in SUBSET Jobs : S # {} => \E j \in S : \A i \in S : i <= j
    BY Greatest, Bounds DEF Jobs
  <1>2. Rows \in SUBSET Jobs /\ Ready \in SUBSET Jobs
    BY DEF Rows, Ready
  <1>3. Latest \in Jobs \cup {NoJob}
    BY <1>1, <1>2 DEF Latest
  <1>4. LatestReady \in Jobs \cup {NoJob}
    BY <1>1, <1>2 DEF LatestReady
  <1>5. \A j \in Jobs : Stamped(j) \subseteq Jobs \X Jobs
    BY DEF Stamped, Dated, Typed, OthersTyped
  <1> QED
    BY <1>3, <1>4, <1>5

\* Every step keeps the types.
LEMMA TypedStep == Typed /\ [Next]_vars => Typed'
  <1> SUFFICES ASSUME Typed, [Next]_vars PROVE Typed'
    OBVIOUS
  <1> USE Bounds
  <1>u. uploads \in Nat /\ failures \in Nat
    BY DEF Typed, OthersTyped
  <1> DEFINE T == Typed'
             More == /\ uploads' \in {uploads, uploads + 1}
                     /\ failures' \in {failures, failures + 1}
  <1>a. ASSUME More, UNCHANGED <<job, created>> PROVE RowsTyped'
    BY <1>a, <1>u DEF Typed, RowsTyped, Row
  <1>b. ASSUME More, UNCHANGED worker PROVE LoopsTyped'
    BY <1>b, <1>u DEF Typed, LoopsTyped, Loop
  <1>c. ASSUME More, UNCHANGED caller PROVE RequestsTyped'
    BY <1>c, <1>u DEF Typed, RequestsTyped, Request
  <1>d. ASSUME UNCHANGED <<created, recency, objects, uploads, cleaner, tenant, evolution,
                         scenario, failures, crashes>>
        PROVE  OthersTyped'
    BY <1>d DEF Typed, OthersTyped
  <1>l. ASSUME NEW w \in Workers, NEW l \in Loop, worker' = [worker EXCEPT ![w] = l], More,
               l.key <= uploads', l.pc # "idle" => l.job \in Jobs,
               l.pc \in {"backoff", "reset"} => l.attempt + 1 < MaxAttempts
        PROVE  LoopsTyped'
    BY <1>l, <1>u DEF Typed, LoopsTyped, Loop
  <1>r. ASSUME NEW c \in Callers, NEW l \in Request, caller' = [caller EXCEPT ![c] = l],
               More,
               l.key <= uploads', l.pc \in {"link", "cancel", "delcancel"} => l.job \in Jobs
        PROVE  RequestsTyped'
    BY <1>r, <1>u DEF Typed, RequestsTyped, Request
  <1>e. \A j \in Jobs : job[j].status # "none" => j <= created
    BY DEF Typed, RowsTyped, NoRow, OthersTyped, Jobs
  <1>j. ASSUME NEW j \in Jobs, NEW r \in Row, job' = [job EXCEPT ![j] = r], More,
               UNCHANGED created,
               r.key <= uploads', r.attempts <= failures', j <= created
        PROVE  RowsTyped'
    <2>1. job' \in [Jobs -> Row]
      BY <1>j DEF Typed, RowsTyped
    <2>2. ASSUME NEW i \in Jobs
          PROVE  job'[i].key <= uploads' /\ job'[i].attempts <= failures'
                 /\ (i > created' => job'[i] = NoRow)
      <3>1. CASE i = j
        BY <3>1, <1>j DEF Typed, RowsTyped, OthersTyped, Jobs
      <3>2. CASE i # j
        <4>1. job'[i] = job[i] /\ job[i] \in Row
          BY <3>2, <1>j DEF Typed, RowsTyped
        <4> QED
          BY <4>1, <1>j, <1>u DEF Typed, RowsTyped, Row
      <3> QED
        BY <3>1, <3>2
    <2> QED
      BY <2>1, <2>2 DEF RowsTyped
  <1>z. NoRow \in Row /\ IdleWorker \in Loop /\ IdleCaller \in Request
    BY DEF NoRow, Row, IdleWorker, Loop, IdleCaller, Request, Statuses
  <1>y. /\ IdleWorker.pc = "idle" /\ IdleWorker.key = 0
        /\ IdleCaller.pc = "idle" /\ IdleCaller.key = 0
    BY DEF IdleWorker, IdleCaller
  <1>w. ASSUME NEW w \in Workers, Rest(w), More PROVE LoopsTyped'
    <2>1. IdleWorker.key <= uploads'
      BY <1>w, <1>y, <1>u
    <2> QED
      BY <2>1, <1>w, <1>l, <1>z, <1>y DEF Rest
  <1>v. ASSUME NEW c \in Callers, caller' = [caller EXCEPT ![c] = IdleCaller], More
        PROVE RequestsTyped'
    <2>1. IdleCaller.key <= uploads'
      BY <1>v, <1>y, <1>u
    <2> QED
      BY <2>1, <1>v, <1>r, <1>z, <1>y
  <1>p. ASSUME NEW w \in Workers, NEW pc \in {"check", "upload", "confirm", "purge",
               "backoff", "reset"},
               Worker(w, pc), worker[w].pc # "idle", More,
               pc \in {"backoff", "reset"} => worker[w].attempt + 1 < MaxAttempts
        PROVE LoopsTyped'
    <2> DEFINE l == [worker[w] EXCEPT !.pc = pc]
    <2>1. l \in Loop /\ l.pc = pc /\ l.key = worker[w].key /\ l.job = worker[w].job
          /\ l.attempt = worker[w].attempt
      BY DEF Typed, LoopsTyped, Loop
    <2>2. worker' = [worker EXCEPT ![w] = l]
      BY <1>p DEF Worker
    <2>3. l.job \in Jobs /\ l.key <= uploads'
      BY <2>1, <1>p, <1>u DEF Typed, LoopsTyped, Loop
    <2> HIDE DEF l
    <2> QED BY <2>1, <2>2, <2>3, <1>p, <1>l
  <1>q. ASSUME NEW c \in Callers, NEW pc \in {"delread", "delpurge", "delinstance",
               "delrows", "delcommit"},
               NEW keys \in SUBSET Keys,
               caller' = [caller EXCEPT ![c].pc = pc, ![c].keys = keys], More
        PROVE RequestsTyped'
    <2> DEFINE l == [caller[c] EXCEPT !.pc = pc, !.keys = keys]
    <2>1. l \in Request /\ l.pc = pc /\ l.key = caller[c].key /\ l.job = caller[c].job
      BY DEF Typed, RequestsTyped, Request
    <2>2. caller' = [caller EXCEPT ![c] = l]
      BY <1>q
    <2>3. l.key <= uploads'
      BY <2>1, <1>q, <1>u DEF Typed, RequestsTyped, Request
    <2> HIDE DEF l
    <2> QED BY <2>1, <2>2, <2>3, <1>q, <1>r
  <1>sn. scenario.failures \in Nat
    BY DEF Typed, OthersTyped
  <1>o. \A j \in Jobs : job[j] \in Row /\ job[j].key <= uploads
        /\ job[j].attempts <= failures
    BY DEF Typed, RowsTyped
  <1>k. \A w \in Workers :
           /\ worker[w].pc # "idle" => worker[w].job \in Jobs
           /\ worker[w].key \in Nat /\ worker[w].key <= uploads
    BY DEF Typed, LoopsTyped, Loop
  <1>s. \A j \in Jobs : Stamped(j) \subseteq Jobs \X Jobs
    BY Queries
  <1>1. ASSUME NEW w \in Workers, ClaimSelect(w) PROVE T
    <2>m. More
      BY <1>1, <1>u DEF ClaimSelect
    <2> DEFINE l == [IdleWorker EXCEPT !.pc = "claim",
        !.job = CHOOSE j \in Claimable : \A i \in Claimable : j <= i]
    <2>1. l.job \in Jobs
      <3>1. Claimable \in SUBSET Nat /\ Claimable # {} /\ Claimable \subseteq Jobs
        BY <1>1 DEF ClaimSelect, Claimable, Rows, Jobs
      <3> QED
        BY <3>1, Least DEF IdleWorker
    <2>2. l \in Loop /\ l.pc = "claim" /\ l.key = 0
      BY <2>1, <1>z DEF IdleWorker, Loop
    <2>3. worker' = [worker EXCEPT ![w] = l] /\ l.key <= uploads'
      BY <2>2, <1>u, <1>1 DEF ClaimSelect
    <2> HIDE DEF l
    <2>4. LoopsTyped'
      BY <2>m, <2>1, <2>2, <2>3, <1>l
    <2> QED
      BY <2>4, <1>a, <1>c, <1>d, <2>m, <1>1 DEF ClaimSelect, Typed
  <1>2. ASSUME NEW w \in Workers, ClaimCommit(w) PROVE T
    <2>m. More
      BY <1>2, <1>u DEF ClaimCommit
    <2>1. RowsTyped'
      <3>1. CASE Exists(worker[w].job)
        <4> DEFINE r == [job[worker[w].job] EXCEPT !.status = "processing"]
        <4>1. worker[w].job \in Jobs /\ worker[w].job <= created
          BY <3>1, <1>e, <1>2, <1>o DEF ClaimCommit, Typed, LoopsTyped, Exists
        <4>0. uploads' = uploads /\ failures' = failures
          BY <4>1, <1>u, <1>2 DEF ClaimCommit
        <4>2. r \in Row /\ r.key <= uploads' /\ r.attempts <= failures'
          BY <4>0, <4>1, <1>o, <1>u DEF Row, Statuses
        <4>3. job' = [job EXCEPT ![worker[w].job] = r]
          BY <3>1, <4>1, <1>o, <1>2 DEF ClaimCommit
        <4> HIDE DEF r
        <4> QED
          BY <4>1, <4>2, <4>3, <1>j, <2>m, <1>2 DEF ClaimCommit
      <3>2. CASE ~Exists(worker[w].job)
        BY <3>2, <2>m, <1>a, <1>2 DEF ClaimCommit
      <3> QED
        BY <3>1, <3>2
    <2>2. LoopsTyped'
      BY <2>m, <1>2, <1>p, <1>w DEF ClaimCommit
    <2> QED
      BY <2>1, <2>2, <1>c, <1>d, <2>m, <1>2 DEF ClaimCommit, Typed
  <1>3. ASSUME NEW w \in Workers, Check(w) PROVE T
    <2>m. More
      BY <1>3, <1>u DEF Check
    <2>1. LoopsTyped'
      BY <2>m, <1>3, <1>p, <1>w DEF Check
    <2> QED
      BY <2>1, <1>a, <1>c, <1>d, <2>m, <1>3 DEF Check, Typed
  <1>4. ASSUME NEW w \in Workers, Upload(w) PROVE T
    <2>m. More
      BY <1>4, <1>u DEF Upload
    <2> DEFINE l == [worker[w] EXCEPT !.pc = "postcheck", !.key = uploads']
    <2>1. l \in Loop /\ l.pc = "postcheck" /\ l.key = uploads' /\ l.job \in Jobs
      BY <1>4, <1>u DEF Upload, Typed, LoopsTyped, Loop
    <2>2. worker' = [worker EXCEPT ![w] = l]
      BY <1>4 DEF Upload
    <2>5. l.key <= uploads'
      BY <2>1, <2>m, <1>u
    <2> HIDE DEF l
    <2>3. LoopsTyped'
      BY <2>m, <2>1, <2>2, <2>5, <1>l
    <2>4. OthersTyped'
      BY <1>4, <1>u DEF Upload, Typed, OthersTyped
    <2> QED
      BY <2>3, <2>4, <1>a, <1>c, <2>m, <1>4 DEF Upload, Typed
  <1>5. ASSUME NEW w \in Workers, PostCheck(w) PROVE T
    <2>m. More
      BY <1>5, <1>u DEF PostCheck
    <2>1. LoopsTyped'
      BY <2>m, <1>5, <1>p, <1>w DEF PostCheck
    <2>2. OthersTyped'
      BY <1>5 DEF PostCheck, Typed, OthersTyped
    <2> QED
      BY <2>1, <2>2, <1>a, <1>c, <2>m, <1>5 DEF PostCheck, Typed
  <1>6. ASSUME NEW w \in Workers, Confirm(w) PROVE T
    <2>m. More
      BY <1>6, <1>u DEF Confirm
    <2>1. RowsTyped'
      <3>1. CASE Exists(worker[w].job)
        <4> DEFINE r == [job[worker[w].job] EXCEPT !.status = "ready",
            !.key = worker[w].key, !.cooling = TRUE, !.expired = FALSE]
        <4>1. worker[w].job \in Jobs /\ worker[w].job <= created
          BY <3>1, <1>e, <1>6, <1>o DEF Confirm, Typed, LoopsTyped, Exists
        <4>0. uploads' = uploads /\ failures' = failures /\ worker[w].key \in Nat
              /\ worker[w].key <= uploads
          BY <4>1, <1>u, <1>6, <1>k DEF Confirm
        <4>2. r \in Row /\ r.key <= uploads' /\ r.attempts <= failures'
          BY <4>0, <4>1, <1>o, <1>u DEF Row, Statuses
        <4>3. job' = [job EXCEPT ![worker[w].job] = r]
          BY <3>1, <4>1, <1>o, <1>6 DEF Confirm
        <4> HIDE DEF r
        <4> QED
          BY <4>1, <4>2, <4>3, <1>j, <2>m, <1>6 DEF Confirm
      <3>2. CASE ~Exists(worker[w].job)
        BY <3>2, <2>m, <1>a, <1>6 DEF Confirm
      <3> QED
        BY <3>1, <3>2
    <2>2. LoopsTyped'
      BY <2>m, <1>6, <1>p, <1>w DEF Confirm
    <2>3. recency' \subseteq Jobs \X Jobs
      BY <1>6, <1>s, <1>k DEF Confirm, Typed, OthersTyped
    <2>4. OthersTyped'
      BY <2>3, <1>6 DEF Confirm, Typed, OthersTyped
    <2> QED
      BY <2>1, <2>2, <2>4, <1>c, <2>m, <1>6 DEF Confirm, Typed
  <1>7. ASSUME NEW w \in Workers, Purge(w) PROVE T
    <2>m. More
      BY <1>7, <1>u DEF Purge
    <2>1. LoopsTyped'
      <3>1. CASE Rest(w)
        BY <3>1, <2>m, <1>w
      <3>2. CASE ~Rest(w)
        <4> DEFINE p == job[worker[w].job].replaced
                   l == [worker[w] EXCEPT !.pc = "clear", !.seen = job[p].status]
        <4>1. worker[w].job \in Jobs /\ Exists(p) /\ p \in Jobs
          BY <3>2, <1>7, <1>k, <1>o DEF Purge, Row, Exists
        <4>2. l \in Loop /\ l.pc = "clear" /\ l.job \in Jobs /\ l.key <= uploads'
          BY <4>1, <1>7, <1>k, <1>o DEF Purge, Typed, LoopsTyped, Loop, Row
        <4>3. worker' = [worker EXCEPT ![w] = l]
          BY <3>2, <1>7 DEF Purge
        <4> HIDE DEF l
        <4> QED
          BY <4>2, <4>3, <2>m, <1>l
      <3> QED
        BY <3>1, <3>2
    <2>2. OthersTyped'
      BY <1>7 DEF Purge, Typed, OthersTyped
    <2> QED
      BY <2>1, <2>2, <1>a, <1>c, <2>m, <1>7 DEF Purge, Typed
  <1>8. ASSUME NEW w \in Workers, Clear(w) PROVE T
    <2>m. More
      BY <1>8, <1>u DEF Clear
    <2>1. RowsTyped'
      <3>1. CASE Exists(job[worker[w].job].replaced)
        <4> DEFINE r == [job[job[worker[w].job].replaced] EXCEPT !.status = worker[w].seen,
            !.key = IF worker[w].seen = "ready" THEN NoKey ELSE @]
        <4>1. job[worker[w].job].replaced \in Jobs /\ job[worker[w].job].replaced <= created
          BY <3>1, <1>e, <1>8, <1>o DEF Clear, Typed, LoopsTyped, Row, Exists
        <4>0. uploads' = uploads /\ failures' = failures
              /\ worker[w].seen \in Statuses \cup {"none"}
          BY <4>1, <1>u, <1>8, <1>k DEF Clear, Loop, LoopsTyped, Typed
        <4>2. r \in Row /\ r.key <= uploads' /\ r.attempts <= failures'
          <5> DEFINE o == job[job[worker[w].job].replaced]
                     k == IF worker[w].seen = "ready" THEN NoKey ELSE o.key
          <5>1. o \in Row /\ k \in Nat /\ k <= uploads' /\ o.attempts <= failures'
            BY <4>0, <4>1, <1>o, <1>u DEF Row
          <5>2. r = [o EXCEPT !.status = worker[w].seen, !.key = k]
            OBVIOUS
          <5> HIDE DEF o, k, r
          <5> QED
            BY <5>1, <5>2, <4>0 DEF Row
        <4>3. job' = [job EXCEPT ![job[worker[w].job].replaced] = r]
          BY <3>1, <4>1, <1>o, <1>8 DEF Clear, Loop, LoopsTyped, Typed
        <4> HIDE DEF r
        <4> QED
          BY <4>1, <4>2, <4>3, <1>j, <2>m, <1>8 DEF Clear
      <3>2. CASE ~Exists(job[worker[w].job].replaced)
        BY <3>2, <2>m, <1>a, <1>8 DEF Clear, Loop, LoopsTyped, Typed
      <3> QED
        BY <3>1, <3>2
    <2>2. LoopsTyped'
      BY <2>m, <1>8, <1>w DEF Clear
    <2>3. recency' \subseteq Jobs \X Jobs
      <3>1. worker[w].job \in Jobs
        BY <1>8, <1>k DEF Clear
      <3>2. job[worker[w].job].replaced \in Jobs \cup {NoJob}
        BY <3>1, <1>o DEF Row
      <3> QED
        BY <3>2, <1>8, <1>s DEF Clear, Typed, OthersTyped, Exists
    <2>4. OthersTyped'
      BY <2>3, <1>8 DEF Clear, Typed, OthersTyped
    <2> QED
      BY <2>1, <2>2, <2>4, <1>c, <2>m, <1>8 DEF Clear, Typed
  <1>9. ASSUME NEW w \in Workers, Backoff(w) PROVE T
    <2>m. More
      BY <1>9, <1>u DEF Backoff
    <2>1. LoopsTyped'
      BY <2>m, <1>9, <1>p, <1>w DEF Backoff, Typed, LoopsTyped
    <2> QED
      BY <2>1, <1>a, <1>c, <1>d, <2>m, <1>9 DEF Backoff, Typed
  <1>10. ASSUME NEW w \in Workers, Reset(w) PROVE T
    <2>m. More
      BY <1>10, <1>u DEF Reset
    <2>1. RowsTyped'
      <3>1. CASE Exists(worker[w].job)
        <4> DEFINE r == [job[worker[w].job] EXCEPT !.status = "pending"]
        <4>1. worker[w].job \in Jobs /\ worker[w].job <= created
          BY <3>1, <1>e, <1>10, <1>o DEF Reset, Typed, LoopsTyped, Exists
        <4>0. uploads' = uploads /\ failures' = failures
          BY <4>1, <1>u, <1>10 DEF Reset
        <4>2. r \in Row /\ r.key <= uploads' /\ r.attempts <= failures'
          BY <4>0, <4>1, <1>o, <1>u DEF Row, Statuses
        <4>3. job' = [job EXCEPT ![worker[w].job] = r]
          BY <3>1, <4>1, <1>o, <1>10 DEF Reset
        <4> HIDE DEF r
        <4> QED
          BY <4>1, <4>2, <4>3, <1>j, <2>m, <1>10 DEF Reset
      <3>2. CASE ~Exists(worker[w].job)
        BY <3>2, <2>m, <1>a, <1>10 DEF Reset
      <3> QED
        BY <3>1, <3>2
    <2>2. LoopsTyped'
      <3> DEFINE l == [worker[w] EXCEPT !.pc = "check", !.attempt = @ + 1, !.key = NoKey]
      <3>1. l \in Loop /\ l.pc = "check" /\ l.job \in Jobs /\ l.key <= uploads'
        BY <1>10, <1>u DEF Reset, Typed, LoopsTyped, Loop
      <3>2. worker' = [worker EXCEPT ![w] = l]
        BY <1>10 DEF Reset
      <3> HIDE DEF l
      <3> QED
        BY <3>1, <3>2, <2>m, <1>l
    <2> QED
      BY <2>1, <2>2, <1>c, <1>d, <2>m, <1>10 DEF Reset, Typed
  <1>11. ASSUME NEW w \in Workers, AttemptFails(w) PROVE T
    <2>m. More
      BY <1>11, <1>u DEF AttemptFails, Fails
    <2>0. worker[w].job \in Jobs /\ failures' = failures + 1
          /\ UNCHANGED <<uploads, created>>
      BY <1>11, <1>k DEF AttemptFails, Fails
    <2>1. RowsTyped'
      <3> DEFINE r == [job[worker[w].job] EXCEPT !.attempts = @ + 1]
                 f == [job[worker[w].job] EXCEPT !.attempts = @ + 1, !.status = "failed"]
      <3>1. /\ r \in Row /\ r.key <= uploads' /\ r.attempts <= failures'
            /\ f \in Row /\ f.key <= uploads' /\ f.attempts <= failures'
        <4>1. job[worker[w].job] \in Row /\ job[worker[w].job].key <= uploads
              /\ job[worker[w].job].attempts <= failures
          BY <2>0, <1>o
        <4> DEFINE o == job[worker[w].job]
                   n == o.attempts + 1
        <4>2. n \in Nat /\ n <= failures' /\ o.key <= uploads'
          BY <4>1, <2>0, <1>u DEF Row
        <4>3. r = [o EXCEPT !.attempts = n] /\ f = [o EXCEPT !.attempts = n,
              !.status = "failed"]
          OBVIOUS
        <4>4. o \in Row /\ "failed" \in Statuses \cup {"none"}
          BY <4>1 DEF Statuses
        <4> HIDE DEF o, n, r, f
        <4>5. r \in Row /\ r.key = o.key /\ r.attempts = n
          BY <4>2, <4>3, <4>4 DEF Row
        <4>6. f \in Row /\ f.key = o.key /\ f.attempts = n
          BY <4>2, <4>3, <4>4 DEF Row
        <4> QED
          BY <4>2, <4>5, <4>6
      <3>2. Exists(worker[w].job) => worker[w].job <= created
        BY <2>0, <1>e DEF Exists
      <3>3. \/ job' = job
            \/ Exists(worker[w].job) /\ job' = [job EXCEPT ![worker[w].job] = r]
            \/ Exists(worker[w].job) /\ job' = [job EXCEPT ![worker[w].job] = f]
        BY <2>0, <1>o, <1>11 DEF AttemptFails
      <3> HIDE DEF r, f
      <3> QED
        BY <3>1, <3>2, <3>3, <2>0, <2>m, <1>j, <1>a
    <2>2. LoopsTyped'
      <3>1. CASE worker[w].attempt + 1 >= MaxAttempts
        BY <3>1, <1>11, <2>m, <1>w DEF AttemptFails
      <3>2. CASE ~(worker[w].attempt + 1 >= MaxAttempts)
        <4>1. worker[w].attempt + 1 < MaxAttempts
          BY <3>2 DEF Typed, LoopsTyped, Loop
        <4> QED
          BY <4>1, <3>2, <1>11, <2>m, <1>p DEF AttemptFails
      <3> QED
        BY <3>1, <3>2
    <2>3. OthersTyped'
      <3>1. failures' \in 0..scenario.failures
        BY <1>11, <1>u, <1>sn DEF AttemptFails, Fails, Typed, OthersTyped
      <3> QED
        BY <3>1, <1>11 DEF AttemptFails, Typed, OthersTyped
    <2> QED
      BY <2>1, <2>2, <2>3, <1>c, <2>m, <1>11 DEF AttemptFails, Typed
  <1>12. ASSUME NEW w \in Workers, Crash(w) PROVE T
    <2>m. More
      BY <1>12, <1>u DEF Crash
    <2>1. LoopsTyped'
      BY <2>m, <1>12, <1>w DEF Crash
    <2>2. OthersTyped'
      BY <1>12 DEF Crash, Typed, OthersTyped
    <2> QED
      BY <2>1, <2>2, <1>a, <1>c, <2>m, <1>12 DEF Crash, Typed
  <1>13. ASSUME NEW c \in Callers, RequestCheck(c) PROVE T
    <2>m. More
      BY <1>13, <1>u DEF RequestCheck
    <2>x. /\ LatestReady \in Jobs \cup {NoJob} /\ 0 <= uploads'
          /\ LatestReady # NoJob => job[LatestReady].key \in Nat
             /\ job[LatestReady].key <= uploads'
      BY Queries, <2>m, <1>o, <1>u DEF Row
    <2> DEFINE l == [IdleCaller EXCEPT !.pc = "create", !.ready = LatestReady,
                             !.key = IF LatestReady = NoJob THEN NoKey ELSE job[LatestReady].key]
    <2>1. l \in Request /\ l.pc = "create" /\ l.key <= uploads' 
      BY <2>x DEF IdleCaller, Request
    <2>2. caller' = [caller EXCEPT ![c] = l]
      BY <1>13 DEF RequestCheck
    <2> HIDE DEF l
    <2>3. RequestsTyped'
      BY <2>m, <2>1, <2>2, <1>r
    <2> QED
      BY <2>3, <1>a, <1>b, <1>d, <2>m, <1>13 DEF RequestCheck, Typed
  <1>14. ASSUME NEW c \in Callers, RequestCreate(c) PROVE T
    <2>m. More
      BY <1>14, <1>u DEF RequestCreate
    <2>1. CASE ~tenant
      <3>1. RequestsTyped'
        BY <2>1, <2>m, <1>14, <1>v DEF RequestCreate
      <3> QED
        BY <3>1, <2>1, <2>m, <1>14, <1>a, <1>b, <1>d DEF RequestCreate, Typed
    <2>2. CASE tenant
      <3> DEFINE j == created + 1
                 r == [NoRow EXCEPT !.status = "pending", !.replaced = caller[c].ready,
                     !.cooling = TRUE]
                 l == [caller[c] EXCEPT !.pc = "link", !.job = j]
      <3>1. j \in Jobs /\ created' = j /\ created \in Nat /\ created' \in 0..MaxJobs
        BY <2>2, <1>14 DEF RequestCreate, Jobs, Typed, OthersTyped
      <3>2. r \in Row /\ r.key = 0 /\ r.attempts = 0
        BY <1>14 DEF RequestCreate, Row, NoRow, Typed, RequestsTyped, Request, Statuses
      <3>3. job' = [job EXCEPT ![j] = r]
        BY <2>2, <1>14 DEF RequestCreate
      <3>4. caller' = [caller EXCEPT ![c] = IdleCaller] \/ caller' = [caller EXCEPT ![c] = l]
        BY <2>2, <1>14 DEF RequestCreate
      <3>5. l \in Request /\ l.pc = "link" /\ l.job = j /\ l.key <= uploads'
        BY <3>1, <1>14 DEF RequestCreate, Typed, RequestsTyped, Request
      <3> HIDE DEF r, l
      <3>6. RowsTyped'
        <4>1. job' \in [Jobs -> Row]
          BY <3>1, <3>2, <3>3 DEF Typed, RowsTyped
        <4>2. ASSUME NEW i \in Jobs
              PROVE  job'[i].key <= uploads' /\ job'[i].attempts <= failures'
                     /\ (i > created' => job'[i] = NoRow)
          <5>1. CASE i = j
            BY <5>1, <3>1, <3>2, <3>3, <1>u, <1>14 DEF RequestCreate, Typed, RowsTyped
          <5>2. CASE i # j
            <6>1. job'[i] = job[i] /\ (i > created' => i > created)
              BY <5>2, <3>1, <3>3 DEF Typed, RowsTyped, Jobs
            <6> QED
              BY <6>1, <1>14 DEF RequestCreate, Typed, RowsTyped
          <5> QED
            BY <5>1, <5>2
        <4> QED
          BY <4>1, <4>2 DEF RowsTyped
      <3>7. RequestsTyped'
        BY <3>1, <3>4, <3>5, <2>m, <1>v, <1>r
      <3>8. OthersTyped'
        BY <3>1, <1>14 DEF RequestCreate, Typed, OthersTyped
      <3>9. LoopsTyped'
        BY <2>m, <1>b, <1>14 DEF RequestCreate
      <3> QED
        BY <3>6, <3>7, <3>8, <3>9 DEF Typed
    <2> QED
      BY <2>1, <2>2, <2>m, <1>14 DEF RequestCreate, Typed
  <1>15. ASSUME NEW c \in Callers, RequestLink(c) PROVE T
    <2>m. More
      BY <1>15, <1>u DEF RequestLink
    <2>1. RowsTyped'
      <3>1. CASE Exists(caller[c].ready)
        <4> DEFINE r == [job[caller[c].ready] EXCEPT !.replacement = caller[c].job,
            !.status = "ready", !.key = caller[c].key]
        <4>1. caller[c].ready \in Jobs /\ caller[c].ready <= created
          BY <3>1, <1>e, <1>15, <1>o DEF RequestLink, Typed, RequestsTyped, Request, Exists
        <4>0. uploads' = uploads /\ failures' = failures /\ caller[c].key \in Nat
              /\ caller[c].key <= uploads /\ caller[c].job \in Jobs
          BY <4>1, <1>u, <1>15 DEF RequestLink, Request, RequestsTyped, Typed
        <4>2. r \in Row /\ r.key <= uploads' /\ r.attempts <= failures'
          <5> DEFINE o == job[caller[c].ready]
          <5>1. o \in Row /\ o.attempts <= failures'
            BY <4>0, <4>1, <1>o, <1>u DEF Row
          <5>2. r = [o EXCEPT !.replacement = caller[c].job, !.status = "ready",
                !.key = caller[c].key]
            OBVIOUS
          <5>3. "ready" \in Statuses \cup {"none"} /\ 0 \in Nat /\ 0 <= uploads'
            BY <4>0, <1>u DEF Statuses
          <5> HIDE DEF o, r
          <5> QED
            BY <5>1, <5>2, <5>3, <4>0 DEF Row
        <4>3. job' = [job EXCEPT ![caller[c].ready] = r]
          BY <3>1, <4>1, <1>o, <1>15 DEF RequestLink, Request, RequestsTyped, Typed
        <4> HIDE DEF r
        <4> QED
          BY <4>1, <4>2, <4>3, <1>j, <2>m, <1>15 DEF RequestLink
      <3>2. CASE ~Exists(caller[c].ready)
        BY <3>2, <2>m, <1>a, <1>15 DEF RequestLink, Request, RequestsTyped, Typed
      <3> QED
        BY <3>1, <3>2
    <2>2. RequestsTyped'
      BY <2>m, <1>15, <1>v DEF RequestLink
    <2>3. recency' \subseteq Jobs \X Jobs
      <3>1. caller[c].ready \in Jobs \cup {NoJob}
        BY DEF Typed, RequestsTyped, Request
      <3> QED
        BY <3>1, <1>15, <1>s DEF RequestLink, Typed, OthersTyped, Exists
    <2>4. OthersTyped'
      BY <2>3, <1>15 DEF RequestLink, Typed, OthersTyped
    <2> QED
      BY <2>1, <2>2, <2>4, <1>b, <2>m, <1>15 DEF RequestLink, Typed
  <1>16. ASSUME NEW c \in Callers, Cancel(c) PROVE T
    <2>m. More
      BY <1>16, <1>u DEF Cancel
    <2>x. CancelRead(c, "cancel")
      BY <1>16 DEF Cancel
    <2>1. RequestsTyped'
      <3> DEFINE l == [IdleCaller EXCEPT !.pc = "cancel", !.job = Latest]
      <3>1. l \in Request /\ l.pc = "cancel" /\ l.job \in Jobs /\ l.key <= uploads'
        <4>1. Latest \in Jobs /\ 0 <= uploads'
          BY Queries, <2>x, <2>m, <1>u DEF CancelRead
        <4> QED
          BY <4>1 DEF IdleCaller, Request
      <3>2. caller' = [caller EXCEPT ![c] = l]
        BY <2>x, <1>16 DEF Cancel, CancelRead
      <3> HIDE DEF l
      <3> QED
        BY <3>1, <3>2, <2>m, <1>r
    <2>2. OthersTyped'
      BY <1>16 DEF Cancel, CancelRead, Typed, OthersTyped
    <2> QED
      BY <2>1, <2>2, <1>a, <1>b, <2>m, <1>16 DEF Cancel, Typed
  <1>17. ASSUME NEW c \in Callers, CancelCommit(c) PROVE T
    <2>m. More
      BY <1>17, <1>u DEF CancelCommit
    <2>1. RowsTyped'
      <3> DEFINE j == caller[c].job
                 r == [job[j] EXCEPT !.status = "cancelled"]
      <3>1. j \in Jobs
        BY <1>17 DEF CancelCommit, Typed, RequestsTyped
      <3>2. r \in Row /\ r.key <= uploads' /\ r.attempts <= failures'
        BY <3>1, <1>o, <1>17 DEF CancelCommit, Row, Statuses
      <3>3. job' = job \/ (Exists(j) /\ job' = [job EXCEPT ![j] = r])
        BY <1>17 DEF CancelCommit, Cancelled
      <3>4. Exists(j) => j <= created
        BY <3>1, <1>e DEF Exists
      <3>5. UNCHANGED created
        BY <1>17 DEF CancelCommit
      <3> HIDE DEF r, j
      <3> QED
        BY <3>1, <3>2, <3>3, <3>4, <3>5, <2>m, <1>j, <1>a
    <2>2. RequestsTyped'
      BY <2>m, <1>17, <1>v DEF CancelCommit
    <2> QED
      BY <2>1, <2>2, <1>b, <1>d, <2>m, <1>17 DEF CancelCommit, Typed
  <1>18. ASSUME NEW c \in Callers, DeleteStart(c) PROVE T
    <2>m. More
      BY <1>18, <1>u DEF DeleteStart
    <2>1. RequestsTyped'
      <3>1. CASE CancelRead(c, "delcancel")
        <4> DEFINE l == [IdleCaller EXCEPT !.pc = "delcancel", !.job = Latest]
        <4>1. l \in Request /\ l.pc = "delcancel" /\ l.job \in Jobs /\ l.key <= uploads'
          <5>1. Latest \in Jobs /\ 0 <= uploads'
            BY Queries, <3>1, <2>m, <1>u DEF CancelRead
          <5> QED
            BY <5>1 DEF IdleCaller, Request
        <4>2. caller' = [caller EXCEPT ![c] = l]
          BY <3>1, <1>18 DEF DeleteStart, CancelRead
        <4> HIDE DEF l
        <4> QED
          BY <4>1, <4>2, <2>m, <1>r
      <3>2. CASE caller' = [caller EXCEPT ![c] = [IdleCaller EXCEPT !.pc = "delread"]]
        <4> DEFINE l == [IdleCaller EXCEPT !.pc = "delread"]
        <4>1. l \in Request /\ l.pc = "delread" /\ l.key <= uploads'
          BY <1>18, <1>u DEF DeleteStart, IdleCaller, Request
        <4> HIDE DEF l
        <4> QED
          BY <3>2, <4>1, <2>m, <1>r DEF l
      <3> QED
        BY <3>1, <3>2, <1>18 DEF DeleteStart
    <2>2. OthersTyped'
      BY <1>18 DEF DeleteStart, CancelRead, Typed, OthersTyped
    <2> QED
      BY <2>1, <2>2, <1>a, <1>b, <2>m, <1>18 DEF DeleteStart, Typed
  <1>19. ASSUME NEW c \in Callers, DeleteCancel(c) PROVE T
    <2>m. More
      BY <1>19, <1>u DEF DeleteCancel
    <2>1. RowsTyped'
      <3> DEFINE j == caller[c].job
                 r == [job[j] EXCEPT !.status = "cancelled"]
      <3>1. j \in Jobs
        BY <1>19 DEF DeleteCancel, Typed, RequestsTyped
      <3>2. r \in Row /\ r.key <= uploads' /\ r.attempts <= failures'
        BY <3>1, <1>o, <1>19 DEF DeleteCancel, Row, Statuses
      <3>3. job' = job \/ (Exists(j) /\ job' = [job EXCEPT ![j] = r])
        BY <1>19 DEF DeleteCancel, Cancelled
      <3>4. Exists(j) => j <= created
        BY <3>1, <1>e DEF Exists
      <3>5. UNCHANGED created
        BY <1>19 DEF DeleteCancel
      <3> HIDE DEF r, j
      <3> QED
        BY <3>1, <3>2, <3>3, <3>4, <3>5, <2>m, <1>j, <1>a
    <2>2. RequestsTyped'
      <3>1. caller' = [caller EXCEPT ![c].pc = "delread", ![c].keys = caller[c].keys]
        BY <1>19 DEF DeleteCancel, Typed, RequestsTyped, Request
      <3>2. caller[c].keys \in SUBSET Keys
        BY DEF Typed, RequestsTyped, Request
      <3> QED
        BY <3>1, <3>2, <2>m, <1>q
    <2> QED
      BY <2>1, <2>2, <1>b, <1>d, <2>m, <1>19 DEF DeleteCancel, Typed
  <1>20. ASSUME NEW c \in Callers, DeleteReadKeys(c) PROVE T
    <2>m. More
      BY <1>20, <1>u DEF DeleteReadKeys
    <2>1. {job[j].key : j \in Rows} \ {NoKey} \in SUBSET Keys
      BY <1>o, <1>u DEF Rows, Row, Keys, Typed, OthersTyped
    <2>2. RequestsTyped'
      BY <2>1, <2>m, <1>20, <1>q DEF DeleteReadKeys
    <2> QED
      BY <2>2, <1>a, <1>b, <1>d, <2>m, <1>20 DEF DeleteReadKeys, Typed
  <1>21. ASSUME NEW c \in Callers, DeletePurge(c) PROVE T
    <2>m. More
      BY <1>21, <1>u DEF DeletePurge, Fails
    <2>1. OthersTyped'
      <3>1. failures' \in 0..scenario.failures
        BY <1>21, <1>u, <1>sn DEF DeletePurge, Fails, Typed, OthersTyped
      <3> QED
        BY <3>1, <1>21 DEF DeletePurge, Typed, OthersTyped
    <2>2. RequestsTyped'
      <3>0. caller[c] \in Request
        BY DEF Typed, RequestsTyped
      <3>1. CASE caller' = [caller EXCEPT ![c] = IdleCaller]
        BY <3>1, <2>m, <1>v
      <3>2. CASE caller' = [caller EXCEPT ![c].pc = "delinstance"]
        <4>1. caller' = [caller EXCEPT ![c].pc = "delinstance", ![c].keys = caller[c].keys]
          BY <3>0, <3>2 DEF Typed, RequestsTyped, Request
        <4> QED
          BY <4>1, <3>0, <2>m, <1>q DEF Request
      <3>3. ASSUME NEW k \in caller[c].keys, caller' = [caller EXCEPT ![c].keys = @ \ {k}]
            PROVE RequestsTyped'
        <4> DEFINE K == caller[c].keys \ {k}
        <4>1. K \in SUBSET Keys
          BY <3>0 DEF Request
        <4>2. caller' = [caller EXCEPT ![c].pc = "delpurge", ![c].keys = K]
          BY <3>0, <3>3, <1>21 DEF DeletePurge, Typed, RequestsTyped, Request
        <4> HIDE DEF K
        <4> QED
          BY <4>1, <4>2, <2>m, <1>q
      <3> QED
        BY <3>1, <3>2, <3>3, <1>21 DEF DeletePurge
    <2> QED
      BY <2>1, <2>2, <1>a, <1>b, <2>m, <1>21 DEF DeletePurge, Typed
  <1>22. ASSUME NEW c \in Callers, DeleteInstance(c) PROVE T
    <2>m. More
      BY <1>22, <1>u DEF DeleteInstance, Fails
    <2>1. OthersTyped'
      <3>1. failures' \in 0..scenario.failures
        BY <1>22, <1>u, <1>sn DEF DeleteInstance, Fails, Typed, OthersTyped
      <3> QED
        BY <3>1, <1>22 DEF DeleteInstance, Typed, OthersTyped
    <2>2. RequestsTyped'
      <3>0. caller[c].keys \in SUBSET Keys
        BY DEF Typed, RequestsTyped, Request
      <3>1. CASE caller' = [caller EXCEPT ![c] = IdleCaller]
        BY <3>1, <2>m, <1>v
      <3>2. CASE caller' = [caller EXCEPT ![c].pc = "delrows"]
        <4>1. caller' = [caller EXCEPT ![c].pc = "delrows", ![c].keys = caller[c].keys]
          BY <3>2 DEF Typed, RequestsTyped, Request
        <4> QED
          BY <4>1, <3>0, <2>m, <1>q
      <3> QED
        BY <3>1, <3>2, <1>22 DEF DeleteInstance
    <2> QED
      BY <2>1, <2>2, <1>a, <1>b, <2>m, <1>22 DEF DeleteInstance, Typed
  <1>23. ASSUME NEW c \in Callers, DeleteRows(c) PROVE T
    <2>m. More
      BY <1>23, <1>u DEF DeleteRows
    <2>1. OthersTyped'
      BY <1>23, <1>u DEF DeleteRows, Typed, OthersTyped
    <2>2. RequestsTyped'
      <3>0. caller[c].keys \in SUBSET Keys
        BY DEF Typed, RequestsTyped, Request
      <3>1. CASE caller' = [caller EXCEPT ![c] = IdleCaller]
        BY <3>1, <2>m, <1>v
      <3>2. CASE caller' = [caller EXCEPT ![c].pc = "delcommit"]
        <4>1. caller' = [caller EXCEPT ![c].pc = "delcommit", ![c].keys = caller[c].keys]
          BY <3>2 DEF Typed, RequestsTyped, Request
        <4> QED
          BY <4>1, <3>0, <2>m, <1>q
      <3> QED
        BY <3>1, <3>2, <1>23 DEF DeleteRows
    <2>3. RowsTyped'
      <3>1. CASE UNCHANGED <<job, created>>
        BY <3>1, <2>m, <1>a
      <3>2. CASE job' = [j \in Jobs |-> NoRow]
        BY <3>2, <2>m, <1>u, <1>z DEF RowsTyped, NoRow
      <3> QED
        BY <3>1, <3>2, <1>23 DEF DeleteRows
    <2> QED
      BY <2>1, <2>2, <2>3, <1>b, <2>m, <1>23 DEF DeleteRows, Typed
  <1>24. ASSUME NEW c \in Callers, DeleteCommit(c) PROVE T
    <2>m. More
      BY <1>24, <1>u DEF DeleteCommit, Fails
    <2>1. OthersTyped'
      <3>1. failures' \in 0..scenario.failures
        BY <1>24, <1>u, <1>sn DEF DeleteCommit, Fails, Typed, OthersTyped
      <3> QED
        BY <3>1, <1>24 DEF DeleteCommit, Typed, OthersTyped
    <2>2. RequestsTyped'
      BY <2>m, <1>24, <1>v DEF DeleteCommit
    <2>3. RowsTyped'
      <3>1. CASE UNCHANGED <<job, created>>
        BY <3>1, <2>m, <1>a
      <3>2. CASE job' = [j \in Jobs |-> NoRow]
        BY <3>2, <2>m, <1>u, <1>z DEF RowsTyped, NoRow
      <3> QED
        BY <3>1, <3>2, <1>24 DEF DeleteCommit
    <2> QED
      BY <2>1, <2>2, <2>3, <1>b, <2>m, <1>24 DEF DeleteCommit, Typed
  <1>25. ASSUME NEW j \in Jobs, CooldownEnds(j) PROVE T
    <2>m. More
      BY <1>25, <1>u DEF CooldownEnds
    <2>1. RowsTyped'
      <3> DEFINE r == [job[j] EXCEPT !.cooling = FALSE]
      <3>1. j <= created
        BY <1>25, <1>e DEF CooldownEnds, Typed, RowsTyped, OthersTyped, NoRow, Jobs
      <3>2. r \in Row /\ r.key <= uploads' /\ r.attempts <= failures'
        BY <1>o, <1>u, <1>25 DEF CooldownEnds, Row, Statuses
      <3>3. job' = [job EXCEPT ![j] = r] /\ UNCHANGED created
        BY <1>25 DEF CooldownEnds
      <3> HIDE DEF r
      <3> QED
        BY <3>1, <3>2, <3>3, <1>j, <2>m
    <2> QED
      BY <2>1, <1>b, <1>c, <1>d, <2>m, <1>25 DEF CooldownEnds, Typed
  <1>26. ASSUME NEW j \in Jobs, Expires(j) PROVE T
    <2>m. More
      BY <1>26, <1>u DEF Expires
    <2>1. RowsTyped'
      <3> DEFINE r == [job[j] EXCEPT !.expired = TRUE]
      <3>1. j <= created
        BY <1>26, <1>e DEF Expires, Ready, Rows, Exists
      <3>2. r \in Row /\ r.key <= uploads' /\ r.attempts <= failures'
        BY <1>o, <1>u, <1>26 DEF Expires, Row, Statuses
      <3>3. job' = [job EXCEPT ![j] = r] /\ UNCHANGED created
        BY <1>26 DEF Expires
      <3> HIDE DEF r
      <3> QED
        BY <3>1, <3>2, <3>3, <1>j, <2>m
    <2> QED
      BY <2>1, <1>b, <1>c, <1>d, <2>m, <1>26 DEF Expires, Typed
  <1>27. ASSUME NEW j \in Jobs, CleanupDelete(j) PROVE T
    <2>m. More
      BY <1>27, <1>u DEF CleanupDelete, Fails
    <2>1. OthersTyped'
      <3>1. failures' \in 0..scenario.failures
        BY <1>27, <1>u, <1>sn DEF CleanupDelete, Fails, Typed, OthersTyped
      <3> QED
        BY <3>1, <1>27 DEF CleanupDelete, Typed, OthersTyped
    <2> QED
      BY <2>1, <1>a, <1>b, <1>c, <2>m, <1>27 DEF CleanupDelete, Typed
  <1>28. ASSUME NEW j \in Jobs, Reconcile(j) PROVE T
    <2>m. More
      BY <1>28, <1>u DEF Reconcile
    <2>1. RowsTyped'
      <3> DEFINE r == [job[j] EXCEPT !.key = NoKey]
      <3>1. j <= created
        BY <1>28, <1>e DEF Reconcile, Exists
      <3>2. r \in Row /\ r.key <= uploads' /\ r.attempts <= failures'
        BY <1>o, <1>u, <1>28 DEF Reconcile, Row, Statuses
      <3>3. job' = [job EXCEPT ![j] = r] /\ UNCHANGED created
        BY <1>28 DEF Reconcile
      <3> HIDE DEF r
      <3> QED
        BY <3>1, <3>2, <3>3, <1>j, <2>m
    <2>2. OthersTyped'
      BY <1>28, <1>s DEF Reconcile, Typed, OthersTyped
    <2> QED
      BY <2>1, <2>2, <1>b, <1>c, <2>m, <1>28 DEF Reconcile, Typed
  <1>29. ASSUME CleanupClear PROVE T
    <2>m. More
      BY <1>29, <1>u DEF CleanupClear
    <2>1. RowsTyped'
      <3>1. CASE Exists(cleaner)
        <4> DEFINE r == [job[cleaner] EXCEPT !.status = "ready", !.key = NoKey]
        <4>1. cleaner \in Jobs /\ cleaner <= created
          BY <3>1, <1>e, <1>29, <1>o DEF CleanupClear, Typed, OthersTyped, Exists
        <4>0. uploads' = uploads /\ failures' = failures
          BY <4>1, <1>u, <1>29 DEF CleanupClear
        <4>2. r \in Row /\ r.key <= uploads' /\ r.attempts <= failures'
          <5> DEFINE o == job[cleaner]
          <5>1. o \in Row /\ o.attempts <= failures'
            BY <4>0, <4>1, <1>o, <1>u DEF Row
          <5>2. r = [o EXCEPT !.status = "ready", !.key = 0]
            OBVIOUS
          <5>3. "ready" \in Statuses \cup {"none"} /\ 0 \in Nat /\ 0 <= uploads'
            BY <4>0, <1>u DEF Statuses
          <5> HIDE DEF o, r
          <5> QED
            BY <5>1, <5>2, <5>3, <4>0 DEF Row
        <4>3. job' = [job EXCEPT ![cleaner] = r]
          BY <3>1, <4>1, <1>o, <1>29 DEF CleanupClear
        <4> HIDE DEF r
        <4> QED
          BY <4>1, <4>2, <4>3, <1>j, <2>m, <1>29 DEF CleanupClear
      <3>2. CASE ~Exists(cleaner)
        BY <3>2, <2>m, <1>a, <1>29 DEF CleanupClear
      <3> QED
        BY <3>1, <3>2
    <2>2. OthersTyped'
      BY <1>29, <1>s DEF CleanupClear, Typed, OthersTyped
    <2> QED
      BY <2>1, <2>2, <1>b, <1>c, <2>m, <1>29 DEF CleanupClear, Typed
  <1>30. ASSUME UNCHANGED vars PROVE T
    BY <1>30, <1>a, <1>b, <1>c, <1>d, <1>u DEF vars, Typed
  <1> QED
    BY <1>1, <1>2, <1>3, <1>4, <1>5, <1>6, <1>7, <1>8, <1>9, <1>10, <1>11, <1>12, <1>13,
       <1>14, <1>15, <1>16, <1>17, <1>18,
       <1>19, <1>20, <1>21, <1>22, <1>23, <1>24, <1>25, <1>26, <1>27, <1>28, <1>29, <1>30
           DEF Next, Work, Serve

\* What is calm after a step was calm before it, and nothing has failed in it.
LEMMA CalmStep ==
    ASSUME Typed, Next, Calm'
    PROVE  /\ Calm
           /\ \A w \in Workers : ~AttemptFails(w) /\ ~Crash(w)
           /\ ~Fails("cleanup")
           /\ scenario' = scenario
  <1>1. scenario' = scenario
    BY DEF Next, Work, Serve, ClaimSelect, ClaimCommit, Check, Upload, PostCheck, Confirm,
       Purge, Clear, Backoff, Reset, AttemptFails, Crash, RequestCheck, RequestCreate,
       RequestLink, Cancel, CancelCommit, DeleteStart, DeleteCancel, DeleteReadKeys,
       DeletePurge, DeleteInstance, DeleteRows, DeleteCommit, CooldownEnds, Expires,
       CleanupDelete, Reconcile, CleanupClear
  <1>2. /\ failures' = failures \/ failures' = failures + 1
        /\ crashes' = crashes \/ crashes' = crashes + 1
    BY DEF Next, Work, Serve, ClaimSelect, ClaimCommit, Check, Upload, PostCheck, Confirm,
       Purge, Clear, Backoff, Reset, AttemptFails, Crash, RequestCheck, RequestCreate,
       RequestLink, Cancel, CancelCommit, DeleteStart, DeleteCancel, DeleteReadKeys,
       DeletePurge, DeleteInstance, DeleteRows, DeleteCommit, CooldownEnds, Expires,
       CleanupDelete, Reconcile, CleanupClear, Fails
  <1>3. failures \in Nat /\ crashes \in Nat
    BY Bounds DEF Typed, OthersTyped
  <1>4. Calm
    BY <1>1, <1>2, <1>3 DEF Calm, Undisturbed
  <1>5. ASSUME NEW s \in {"check", "upload", "postcheck", "confirm", "purge", "clear",
               "cleanup"}
        PROVE  ~Fails(s)
    BY <1>1, <1>2, <1>3 DEF Fails, Calm, Undisturbed, DeletionSteps
  <1>6. \A w \in Workers : ~AttemptFails(w)
    BY <1>5 DEF AttemptFails
  <1>7. \A w \in Workers : ~Crash(w)
    BY <1>3 DEF Crash, Calm
  <1> QED
    BY <1>1, <1>4, <1>5, <1>6, <1>7

\* The rows change at most in keys whose objects are gone, and no object is added.
Alike ==
    /\ \A j \in Jobs :
          /\ job'[j].status = job[j].status /\ job'[j].replaced = job[j].replaced
          /\ \/ job'[j].key = job[j].key
             \/ /\ job[j].key \notin objects /\ job'[j].key \notin objects
                /\ job[j].status = "ready"
    /\ objects' \subseteq objects

\* Every step of a calm behaviour keeps objects and owners together.
LEMMA CoreStep ==
    ASSUME OneWorker, Typed, Typed', Calm, Core, Next, Calm'
    PROVE  Core'
  <1> USE Bounds
  <1> DEFINE T == Core'
  <1>ty. /\ \A j \in Jobs : job[j] \in Row /\ job'[j] \in Row /\ job[j].key \in 0..uploads
            /\ job[j].replaced \in Jobs \cup {NoJob}
         /\ DOMAIN job = Jobs /\ DOMAIN job' = Jobs
         /\ objects \subseteq 1..uploads /\ uploads \in Nat /\ 0 \notin objects
         /\ \A w \in Workers : worker[w].pc # "idle" => worker[w].job \in Jobs
         /\ \A c \in Callers : caller[c].ready \in Jobs \cup {NoJob}
         /\ cleaner \in Jobs \cup {NoJob}
    <2>1. \A j \in Jobs : job[j] \in Row /\ job'[j] \in Row
      BY DEF Typed, RowsTyped
    <2>2. \A j \in Jobs : job[j].key \in 0..uploads /\ job[j].replaced \in Jobs \cup {NoJob}
      BY <2>1 DEF Typed, RowsTyped, OthersTyped, Row
    <2>3. DOMAIN job = Jobs /\ DOMAIN job' = Jobs
      BY DEF Typed, RowsTyped
    <2>4. /\ objects \subseteq 1..uploads /\ uploads \in Nat /\ 0 \notin objects
          /\ cleaner \in Jobs \cup {NoJob}
      BY DEF Typed, OthersTyped
    <2>5. \A w \in Workers : worker[w].pc # "idle" => worker[w].job \in Jobs
      BY DEF Typed, LoopsTyped
    <2>6. \A c \in Callers : caller[c].ready \in Jobs \cup {NoJob}
      BY DEF Typed, RequestsTyped, Request
    <2> QED
      BY <2>1, <2>2, <2>3, <2>4, <2>5, <2>6
  <1>dc. DOMAIN caller = Callers /\ DOMAIN worker = Workers
    BY DEF Typed, RequestsTyped, LoopsTyped
  <1>a. ASSUME Alike PROVE RowsSound'
    <2>1. ASSUME NEW j \in Jobs
          PROVE  /\ job'[j].status # "ready" => job'[j].key = NoKey
                 /\ job'[j].replaced # NoJob => job'[job'[j].replaced].status = "ready"
      <3>1. job[j].status # "ready" => job[j].key = NoKey
        BY DEF Core, RowsSound
      <3>2. job[j].replaced # NoJob => job[j].replaced \in Jobs
            /\ job[job[j].replaced].status = "ready"
        BY <1>ty DEF Core, RowsSound
      <3> QED
        BY <3>1, <3>2, <1>a DEF Alike
    <2> QED
      BY <2>1 DEF RowsSound
  <1>b. ASSUME Alike, UNCHANGED worker PROVE WorkersSound'
    <2>1. ASSUME NEW w \in Workers, worker[w].pc # "idle"
          PROVE  LET j == worker[w].job IN
                 /\ job'[j].status = job[j].status /\ job'[j].replaced = job[j].replaced
                 /\ \/ job'[j].key = job[j].key
                    \/ job[j].key \notin objects /\ job'[j].key \notin objects
                       /\ job[j].status = "ready"
      BY <2>1, <1>b, <1>ty DEF Alike
    <2>2. ASSUME NEW w \in Workers, worker[w].pc = "clear"
          PROVE  job'[job'[worker[w].job].replaced].key \notin objects'
      <3> DEFINE p == job[worker[w].job].replaced
      <3>1. p \in Jobs /\ job[p].key \notin objects /\ job'[worker[w].job].replaced = p
        BY <2>1, <2>2, <1>ty DEF Core, WorkersSound
      <3> HIDE DEF p
      <3> QED
        BY <3>1, <1>b DEF Alike
    <2> QED
      BY <2>1, <2>2, <1>b DEF Alike, Core, WorkersSound, Building
  <1>c. ASSUME Alike, UNCHANGED caller PROVE CallersSound'
    BY <1>c, <1>ty DEF Alike, Core, CallersSound
  <1>d. ASSUME Alike, UNCHANGED <<cleaner, created>> PROVE CleanerSound'
    BY <1>d, <1>ty DEF Alike, Core, CleanerSound
  <1>e. ASSUME Alike, UNCHANGED worker PROVE Owned'
    BY <1>e, <1>ty DEF Alike, Core, Owned
  <1>f. ASSUME \A c \in Callers : caller'[c].pc \notin Deleting \cup {"delcancel"}, tenant'
        PROVE  Kept' /\ DeletionSound' /\ Gone'
    BY <1>f DEF Kept, DeletionSound, Gone, Deleting
  <1>g. ASSUME Alike, UNCHANGED <<caller, worker, evolution, tenant, scenario>>
        PROVE  Kept' /\ DeletionSound' /\ Gone'
    BY <1>g DEF Alike, Core, Kept, DeletionSound, Gone, Deleting, Active
  <1>h. \A c \in Callers : caller[c].pc \notin Deleting
        => \A d \in Callers : caller[d].pc \notin Deleting
    BY DEF Calm, Core, Kept, OneCaller
  <1>i. \A c \in Callers : caller[c].pc # "delcancel"
    BY DEF Core, DeletionSound
  <1>k. ASSUME \/ \E w \in Workers : worker[w].pc # "idle"
               \/ \E j \in Jobs : job[j].status \in Active
        PROVE  tenant /\ \A c \in Callers : caller[c].pc \notin Deleting \cup {"delcancel"}
    BY <1>k, <1>i DEF Core, DeletionSound, Gone, Active
  <1>l. ASSUME NEW c \in Callers, caller[c].pc \notin Deleting,
               caller[c].pc # "idle" \/ tenant
        PROVE  tenant /\ \A d \in Callers : caller[d].pc \notin Deleting \cup {"delcancel"}
    BY <1>l, <1>h, <1>i DEF Core, Gone
  <1>m. ASSUME NEW c \in Callers, caller[c].pc \in Deleting
        PROVE  /\ OneCaller /\ tenant /\ scenario.deletion = "quiet"
               /\ \A w \in Workers : worker[w].pc = "idle"
               /\ \A j \in Jobs : job[j].status \notin Active
    BY <1>m DEF Calm, Undisturbed, Core, Kept, DeletionSound, Gone, Deleting
  <1>n. ASSUME UNCHANGED worker, \A w \in Workers : worker[w].pc = "idle"
        PROVE WorkersSound'
    BY <1>n DEF Core, WorkersSound, Building
  <1>o. ASSUME \A c \in Callers : caller'[c].pc \notin {"create", "link"}
        PROVE CallersSound'
    BY <1>o DEF CallersSound
  <1>p. ASSUME UNCHANGED <<job, objects>> PROVE Alike
    BY <1>p DEF Alike
  <1>q. ASSUME UNCHANGED job, objects' \subseteq objects PROVE Alike
    BY <1>q DEF Alike
  <1>x. \A j \in Jobs : job[j].status # "none" => Exists(j)
    BY DEF Exists, Jobs
  <1>r. ASSUME NEW w \in Workers, NEW o \in objects, o # worker[w].key
        PROVE \E j \in Jobs : job[j].key = o
    BY <1>r DEF Core, Owned, OneWorker
  <1>s. ASSUME \A o \in objects' : \/ \E j \in Jobs : job'[j].key = o
                                   \/ \E w \in Workers : worker'[w].key = o
        PROVE  Owned'
    BY <1>s DEF Owned
  <1>t. ASSUME NEW w \in Workers PROVE \A v \in Workers : v = w
    BY DEF OneWorker
  <1>1. ASSUME NEW w \in Workers, ClaimSelect(w) PROVE T
    <2> DEFINE j == CHOOSE j \in Claimable : \A i \in Claimable : j <= i
    <2>1. j \in Claimable /\ j \in Jobs /\ job[j].status = "pending"
      <3>1. Claimable \in SUBSET Nat /\ Claimable # {} /\ Claimable \subseteq Jobs
        BY <1>1 DEF ClaimSelect, Claimable, Rows, Jobs
      <3>2. j \in Claimable
        BY <3>1, Least
      <3> QED
        BY <3>1, <3>2 DEF Claimable
    <2>2. worker'[w].pc = "claim" /\ worker'[w].job = j /\ worker'[w].key = NoKey
          /\ worker[w].key = NoKey
      BY <1>1, <1>dc DEF ClaimSelect, IdleWorker, Core, WorkersSound
    <2> HIDE DEF j
    <2>3. Alike /\ UNCHANGED <<job, objects, caller, cleaner, created, tenant>>
      BY <1>1, <1>p DEF ClaimSelect
    <2>4. WorkersSound'
      BY <2>1, <2>2, <2>3, <1>t DEF WorkersSound, Building
    <2>5. Owned'
      BY <2>2, <2>3, <1>t, <1>ty DEF Core, Owned
    <2>6. Kept' /\ DeletionSound' /\ Gone'
      BY <2>1, <2>3, <1>k, <1>f DEF Active
    <2> QED
      BY <2>3, <2>4, <2>5, <2>6, <1>a, <1>c, <1>d DEF Core
  <1>2. ASSUME NEW w \in Workers, ClaimCommit(w) PROVE T
    <2> DEFINE j == worker[w].job
    <2>1. /\ j \in Jobs /\ job[j].status \in {"pending", "processing",
             "cancelled"} /\ job[j].key = NoKey
          /\ worker[w].key = NoKey
      BY <1>2, <1>ty DEF ClaimCommit, Core, WorkersSound, RowsSound, Building
    <2>2. /\ worker' = [worker EXCEPT ![w].pc = "check"]
          /\ job' = [job EXCEPT ![j].status = "processing"]
      BY <1>2, <2>1, <1>x DEF ClaimCommit, Worker
    <2>3. /\ job'[j].status = "processing" /\ job'[j].key = NoKey
             /\ job'[j].replaced = job[j].replaced
          /\ \A i \in Jobs : i # j => job'[i] = job[i]
      BY <2>1, <2>2, <1>ty DEF Row
    <2>4. worker'[w].pc = "check" /\ worker'[w].job = j /\ worker'[w].key = NoKey
      BY <2>1, <2>2 DEF Typed, LoopsTyped, Loop
    <2>5. UNCHANGED <<objects, caller, cleaner, created, tenant>>
      BY <1>2 DEF ClaimCommit
    <2>8. \A i \in Jobs : job[i].status = "ready" \/ job[i].status = "none"
          => job'[i] = job[i]
      BY <2>1, <2>3
    <2> HIDE DEF j
    <2>6. RowsSound'
      BY <2>1, <2>3, <1>ty DEF Core, RowsSound
    <2>7. WorkersSound'
      BY <2>3, <2>4, <2>1, <1>t DEF WorkersSound, Building
    <2>9. CallersSound'
      BY <2>8, <2>5, <1>ty DEF Core, CallersSound
    <2>10. CleanerSound'
      BY <2>8, <2>5, <1>ty DEF Core, CleanerSound
    <2>11. \A i \in Jobs : job'[i].key = job[i].key
      BY <2>1, <2>3
    <2>12. Owned'
      BY <2>1, <2>4, <2>5, <2>11, <1>t, <1>ty DEF Core, Owned
    <2>13. Kept' /\ DeletionSound' /\ Gone'
      BY <1>2, <2>5, <1>k, <1>f DEF ClaimCommit
    <2> QED
      BY <2>6, <2>7, <2>9, <2>10, <2>12, <2>13 DEF Core
  <1>3. ASSUME NEW w \in Workers, Check(w) PROVE T
    <2>1. Alike /\ UNCHANGED <<job, objects, caller, cleaner, created, tenant>>
      BY <1>3, <1>p DEF Check
    <2>2. /\ worker'[w].key = NoKey /\ worker[w].key = NoKey
          /\ \/ worker'[w].pc = "idle"
             \/ worker'[w].pc = "upload" /\ worker'[w].job = worker[w].job
      BY <1>3, <1>dc DEF Check, Rest, Worker, IdleWorker, Core, WorkersSound, Typed,
         LoopsTyped, Loop
    <2>3. WorkersSound'
      BY <1>3, <2>1, <2>2, <1>t DEF Check, Core, WorkersSound, Building
    <2>4. Owned'
      BY <2>1, <2>2, <1>t, <1>ty DEF Core, Owned
    <2>5. Kept' /\ DeletionSound' /\ Gone'
      BY <1>3, <2>1, <1>k, <1>f DEF Check
    <2> QED
      BY <2>1, <2>3, <2>4, <2>5, <1>a, <1>c, <1>d DEF Core
  <1>4. ASSUME NEW w \in Workers, Upload(w) PROVE T
    <2> DEFINE k == uploads + 1
    <2>1. UNCHANGED <<job, caller, cleaner, created, tenant>> /\ objects' = objects \cup {k}
      BY <1>4 DEF Upload
    <2>2. worker'[w].pc = "postcheck" /\ worker'[w].key = k
          /\ worker'[w].job = worker[w].job /\ worker[w].key = NoKey
      BY <1>4 DEF Upload, Core, WorkersSound, Typed, LoopsTyped, Loop
    <2>3. /\ \A j \in Jobs : job[j].key # k
          /\ \A c \in Callers : caller[c].key # k
      BY <1>ty DEF Typed, RequestsTyped
    <2> HIDE DEF k
    <2>4. RowsSound'
      BY <2>1 DEF Core, RowsSound
    <2>5. WorkersSound'
      BY <1>4, <2>1, <2>2, <1>t DEF Upload, Core, WorkersSound, Building
    <2>6. CallersSound'
      BY <2>1, <2>3, <1>ty DEF Core, CallersSound
    <2>7. CleanerSound'
      BY <2>1, <2>3, <1>ty DEF Core, CleanerSound
    <2>8. Owned'
      BY <2>1, <2>2, <1>r, <1>s, <1>ty
    <2>9. Kept' /\ DeletionSound' /\ Gone'
      BY <1>4, <2>1, <1>k, <1>f DEF Upload
    <2> QED
      BY <2>4, <2>5, <2>6, <2>7, <2>8, <2>9 DEF Core
  <1>5. ASSUME NEW w \in Workers, PostCheck(w) PROVE T
    <2>1. UNCHANGED <<job, caller, cleaner, created, tenant>>
      BY <1>5 DEF PostCheck
    <2>2. \/ worker'[w].pc = "idle" /\ worker'[w].key = NoKey
             /\ objects' = objects \ {worker[w].key}
          \/ /\ worker'[w].pc = "confirm" /\ worker'[w].key = worker[w].key
             /\ worker'[w].job = worker[w].job /\ objects' = objects
      BY <1>5, <1>dc DEF PostCheck, Rest, Worker, IdleWorker, Typed, LoopsTyped, Loop
    <2>3. Alike
      BY <2>1, <2>2, <1>q
    <2>4. WorkersSound'
      BY <1>5, <2>1, <2>2, <1>t DEF PostCheck, Core, WorkersSound, Building
    <2>5. Owned'
      BY <2>1, <2>2, <1>r, <1>s
    <2>6. Kept' /\ DeletionSound' /\ Gone'
      BY <1>5, <2>1, <1>k, <1>f DEF PostCheck
    <2> QED
      BY <2>1, <2>3, <2>4, <2>5, <2>6, <1>a, <1>c, <1>d DEF Core
  <1>6. ASSUME NEW w \in Workers, Confirm(w) PROVE T
    <2> DEFINE j == worker[w].job
    <2>1. j \in Jobs /\ job[j].status \in {"pending", "processing",
          "cancelled"} /\ job[j].key = NoKey
      BY <1>6, <1>ty DEF Confirm, Core, WorkersSound, RowsSound, Building
    <2>2. /\ job' = [job EXCEPT ![j].status = "ready", ![j].key = worker[w].key,
             ![j].cooling = TRUE, ![j].expired = FALSE]
          /\ IF job[j].replaced # NoJob THEN Worker(w, "purge") ELSE Rest(w)
      BY <1>6, <2>1, <1>x DEF Confirm
    <2>3. /\ job'[j].status = "ready" /\ job'[j].key = worker[w].key
             /\ job'[j].replaced = job[j].replaced
          /\ \A i \in Jobs : i # j => job'[i] = job[i]
      BY <2>1, <2>2, <1>ty DEF Row
    <2>4. \/ worker'[w].pc = "idle" /\ worker'[w].key = NoKey
          \/ worker'[w].pc = "purge" /\ worker'[w].job = j /\ worker'[w].key = worker[w].key
      BY <2>1, <2>2, <1>dc DEF Typed, LoopsTyped, Loop, Worker, Rest, IdleWorker
    <2>5. UNCHANGED <<objects, caller, cleaner, created, tenant>>
      BY <1>6 DEF Confirm
    <2>8. \A i \in Jobs : job[i].status = "ready" \/ job[i].status = "none"
          => job'[i] = job[i]
      BY <2>1, <2>3
    <2> HIDE DEF j
    <2>6. RowsSound'
      BY <2>1, <2>3, <1>ty DEF Core, RowsSound
    <2>7. WorkersSound'
      BY <2>3, <2>4, <2>1, <1>t DEF WorkersSound, Building
    <2>9. CallersSound'
      BY <2>8, <2>5, <1>ty DEF Core, CallersSound
    <2>10. CleanerSound'
      BY <2>8, <2>5, <1>ty DEF Core, CleanerSound
    <2>11. \A i \in Jobs : job[i].key # NoKey => job'[i].key = job[i].key
      BY <2>1, <2>3
    <2>12. Owned'
      <3>1. ASSUME NEW o \in objects PROVE \E i \in Jobs : job'[i].key = o
        <4>1. CASE o = worker[w].key
          BY <4>1, <2>1, <2>3
        <4>2. CASE o # worker[w].key
          BY <4>2, <2>11, <1>r, <1>ty
        <4> QED
          BY <4>1, <4>2
      <3> QED
        BY <3>1, <2>5 DEF Owned
    <2>13. Kept' /\ DeletionSound' /\ Gone'
      BY <1>6, <2>5, <1>k, <1>f DEF Confirm
    <2> QED
      BY <2>6, <2>7, <2>9, <2>10, <2>12, <2>13 DEF Core
  <1>7. ASSUME NEW w \in Workers, Purge(w) PROVE T
    <2> DEFINE j == worker[w].job
               p == job[j].replaced
    <2>1. /\ j \in Jobs /\ job[j].status = "ready"
          /\ worker[w].key \in objects => job[j].key = worker[w].key
          /\ p # NoJob => p \in Jobs /\ job[p].status = "ready"
      BY <1>7, <1>ty DEF Purge, Core, WorkersSound, RowsSound
    <2>2. UNCHANGED <<job, caller, cleaner, created, tenant>>
      BY <1>7 DEF Purge
    <2>3. \/ worker'[w].pc = "idle" /\ worker'[w].key = NoKey /\ objects' = objects
          \/ /\ worker'[w].pc = "clear" /\ worker'[w].job = j
             /\ worker'[w].key = worker[w].key
             /\ worker'[w].seen = job[p].status /\ p # NoJob
                /\ objects' = objects \ {job[p].key}
      BY <1>7, <1>dc DEF Purge, Rest, IdleWorker, Typed, LoopsTyped, Loop, Exists
    <2> HIDE DEF j
    <2>4. Alike
      BY <2>2, <2>3, <1>q
    <2>5. WorkersSound'
      BY <2>1, <2>2, <2>3, <1>t DEF WorkersSound, Building
    <2>6. Owned'
      BY <2>1, <2>2, <2>3, <1>r, <1>s
    <2>7. Kept' /\ DeletionSound' /\ Gone'
      BY <1>7, <2>2, <1>k, <1>f DEF Purge
    <2> QED
      BY <2>2, <2>4, <2>5, <2>6, <2>7, <1>a, <1>c, <1>d DEF Core
  <1>8. ASSUME NEW w \in Workers, Clear(w) PROVE T
    <2> DEFINE j == worker[w].job
               p == job[j].replaced
    <2>1. /\ j \in Jobs /\ job[j].status = "ready"
          /\ worker[w].key \in objects => job[j].key = worker[w].key
          /\ p \in Jobs /\ job[p].status = "ready" /\ job[p].key \notin objects
             /\ worker[w].seen = "ready"
      BY <1>8, <1>ty DEF Clear, Core, WorkersSound, RowsSound
    <2>2. UNCHANGED <<objects, caller, cleaner, created, tenant>> /\ Rest(w)
      BY <1>8 DEF Clear
    <2>3. job' = [job EXCEPT ![p].status = "ready", ![p].key = NoKey]
      BY <1>8, <2>1, <1>x DEF Clear
    <2>4. worker'[w].pc = "idle" /\ worker'[w].key = NoKey
      BY <2>2, <1>dc DEF Rest, IdleWorker
    <2> HIDE DEF j, p
    <2>5. Alike
      BY <2>1, <2>2, <2>3, <1>ty DEF Alike, Row
    <2>6. WorkersSound'
      BY <2>4, <1>t DEF WorkersSound, Building
    <2>7. Owned'
      <3>1. ASSUME NEW o \in objects PROVE \E i \in Jobs : job'[i].key = o
        <4>1. PICK i \in Jobs : job[i].key = o
          BY <2>1, <1>r
        <4> QED
          BY <4>1, <2>5 DEF Alike
      <3> QED
        BY <3>1, <2>2, <1>s
    <2>8. Kept' /\ DeletionSound' /\ Gone'
      BY <1>8, <2>2, <1>k, <1>f DEF Clear
    <2> QED
      BY <2>2, <2>5, <2>6, <2>7, <2>8, <1>a, <1>c, <1>d DEF Core
  <1>9. ASSUME NEW w \in Workers, Backoff(w) \/ Reset(w) \/ AttemptFails(w) \/ Crash(w)
        PROVE T
    BY <1>9, CalmStep DEF Backoff, Reset, Core, WorkersSound, Building
  <1>10. ASSUME NEW c \in Callers, RequestCheck(c) PROVE T
    <2> DEFINE r == LatestReady
    <2>1. UNCHANGED <<job, objects, worker, cleaner, created, tenant>> /\ tenant
          /\ caller[c].pc = "idle"
      BY <1>10 DEF RequestCheck
    <2>2. r # NoJob => r \in Jobs /\ job[r].status = "ready"
      <3>1. Ready \in SUBSET Jobs /\ \A i \in Ready : job[i].status = "ready"
        BY DEF Ready, Rows
      <3> QED
        BY <3>1, Greatest DEF LatestReady, Jobs
    <2>3. /\ caller'[c].pc = "create" /\ caller'[c].ready = r
          /\ caller'[c].key = IF r = NoJob THEN NoKey ELSE job[r].key
          /\ \A d \in Callers : d # c => caller'[d] = caller[d]
      BY <1>10, <1>dc DEF RequestCheck, IdleCaller
    <2> HIDE DEF r
    <2>4. CallersSound'
      BY <2>1, <2>2, <2>3 DEF Core, CallersSound
    <2>5. Alike
      BY <2>1, <1>p
    <2>6. Kept' /\ DeletionSound' /\ Gone'
      BY <2>1, <2>3, <1>l, <1>f DEF Deleting
    <2> QED
      BY <2>1, <2>4, <2>5, <2>6, <1>a, <1>b, <1>d, <1>e DEF Core
  <1>11. ASSUME NEW c \in Callers, RequestCreate(c) PROVE T
    <2> DEFINE j == created + 1
               r == caller[c].ready
    <2>1. /\ UNCHANGED <<objects, worker, cleaner, tenant>> /\ caller[c].pc = "create"
             /\ tenant
          /\ \A d \in Callers : caller[d].pc \notin Deleting \cup {"delcancel"}
      BY <1>11, <1>l DEF RequestCreate, Deleting
    <2>2. /\ created' = j /\ created \in Nat /\ j \in Jobs
          /\ job' = [job EXCEPT ![j] = [NoRow EXCEPT !.status = "pending", !.replaced = r,
             !.cooling = TRUE]]
      BY <1>11, <2>1 DEF RequestCreate, Jobs, Typed, OthersTyped
    <2>3. job[j].status = "none" /\ job[j].key = NoKey
      BY <2>2 DEF Typed, RowsTyped, NoRow
    <2>4. /\ job'[j].status = "pending" /\ job'[j].replaced = r /\ job'[j].key = NoKey
          /\ \A i \in Jobs : i # j => job'[i] = job[i]
      BY <2>2, <1>ty DEF NoRow
    <2>5. /\ \/ caller'[c].pc = "idle"
             \/ caller'[c].pc = "link" /\ caller'[c].ready = r
                /\ caller'[c].key = caller[c].key
          /\ \A d \in Callers : d # c => caller'[d] = caller[d]
      <3> DEFINE l == [caller[c] EXCEPT !.pc = "link", !.job = created + 1]
      <3>1. caller' = [caller EXCEPT ![c] = IdleCaller] \/ caller' = [caller EXCEPT ![c] = l]
        BY <1>11, <2>1 DEF RequestCreate
      <3>2. l.pc = "link" /\ l.ready = r /\ l.key = caller[c].key /\ IdleCaller.pc = "idle"
        BY DEF Typed, RequestsTyped, Request, IdleCaller
      <3> HIDE DEF l, r
      <3> QED
        BY <3>1, <3>2, <1>dc
    <2>6. r # NoJob => r \in Jobs /\ job[r].status = "ready"
      BY <2>1, <1>ty DEF Core, CallersSound
    <2>7. cleaner # j
      BY <2>2, <2>1 DEF Core, CleanerSound, Jobs
    <2> HIDE DEF j, r
    <2>8. \A i \in Jobs : job[i].status # "none" => job'[i] = job[i]
      BY <2>3, <2>4
    <2>9. RowsSound'
      <3>1. ASSUME NEW i \in Jobs
            PROVE  /\ job'[i].status # "ready" => job'[i].key = NoKey
                   /\ job'[i].replaced # NoJob => job'[job'[i].replaced].status = "ready"
        <4>1. CASE i = j
          BY <4>1, <2>4, <2>6, <2>8
        <4>2. CASE i # j
          <5>1. job'[i] = job[i] /\ (job[i].status # "ready" => job[i].key = NoKey)
            BY <4>2, <2>4 DEF Core, RowsSound
          <5>2. job[i].replaced # NoJob => job[i].replaced \in Jobs
                /\ job[job[i].replaced].status = "ready"
            BY <1>ty DEF Core, RowsSound
          <5> QED
            BY <5>1, <5>2, <2>8
        <4> QED
          BY <4>1, <4>2
      <3> QED
        BY <3>1 DEF RowsSound
    <2>10. WorkersSound'
      <3>1. ASSUME NEW w \in Workers, worker[w].pc # "idle"
            PROVE  worker[w].job \in Jobs /\ job[worker[w].job].status # "none"
        BY <3>1, <1>ty DEF Core, WorkersSound, Building
      <3>2. ASSUME NEW w \in Workers, worker[w].pc = "clear"
            PROVE  job'[job'[worker[w].job].replaced].key \notin objects'
        <4> DEFINE p == job[worker[w].job].replaced
        <4>1. p \in Jobs /\ job[p].key \notin objects /\ job'[worker[w].job].replaced = p
          BY <3>1, <3>2, <2>8, <1>ty DEF Core, WorkersSound
        <4> HIDE DEF p
        <4> QED
          BY <4>1, <2>1, <2>3, <2>4
      <3> QED
        BY <3>1, <3>2, <2>8, <2>1 DEF Core, WorkersSound, Building
    <2>11. CallersSound'
      <3>1. ASSUME NEW d \in Callers, caller[d].pc \in {"create", "link"},
                   caller[d].ready # NoJob
            PROVE  job'[caller[d].ready] = job[caller[d].ready]
        BY <3>1, <2>8, <1>ty DEF Core, CallersSound
      <3> QED
        BY <3>1, <2>1, <2>5 DEF Core, CallersSound, r
    <2>12. CleanerSound'
      BY <2>1, <2>2, <2>4, <2>7, <1>ty DEF Core, CleanerSound, j, Jobs
    <2>13. Owned'
      <3>1. ASSUME NEW o \in objects
            PROVE  \/ \E i \in Jobs : job'[i].key = o
                   \/ \E w \in Workers : worker'[w].key = o
        <4>1. CASE \E w \in Workers : worker[w].key = o
          BY <4>1, <2>1
        <4>2. CASE \E i \in Jobs : job[i].key = o
          BY <4>2, <2>3, <2>4, <1>ty
        <4> QED
          BY <4>1, <4>2 DEF Core, Owned
      <3> QED
        BY <3>1, <2>1, <1>s
    <2>14. Kept' /\ DeletionSound' /\ Gone'
      BY <2>1, <2>5, <1>f DEF Deleting
    <2> QED
      BY <2>9, <2>10, <2>11, <2>12, <2>13, <2>14 DEF Core
  <1>12. ASSUME NEW c \in Callers, RequestLink(c) PROVE T
    <2> DEFINE r == caller[c].ready
    <2>1. /\ UNCHANGED <<objects, worker, cleaner, created, tenant>> /\ tenant
          /\ \A d \in Callers : caller[d].pc \notin Deleting \cup {"delcancel"}
      BY <1>12, <1>l DEF RequestLink, Deleting
    <2>2. /\ caller'[c].pc = "idle"
          /\ \A d \in Callers : d # c => caller'[d] = caller[d]
      BY <1>12, <1>dc DEF RequestLink, IdleCaller
    <2>3. Alike
      <3>1. CASE ~Exists(r)
        BY <3>1, <1>12, <1>p DEF RequestLink
      <3>2. CASE Exists(r)
        <4>1. job' = [job EXCEPT ![r].replacement = caller[c].job, ![r].status = "ready",
              ![r].key = caller[c].key]
          BY <3>2, <1>12 DEF RequestLink
        <4>2. /\ r \in Jobs /\ job[r].status = "ready"
              /\ caller[c].key \in objects => job[r].key = caller[c].key
              /\ job[r].key \in objects => job[r].key = caller[c].key
          BY <3>2, <1>12, <1>ty DEF RequestLink, Exists, Core, CallersSound
        <4> HIDE DEF r
        <4>3. /\ job'[r].status = "ready" /\ job'[r].key = caller[c].key
                 /\ job'[r].replaced = job[r].replaced
              /\ \A i \in Jobs : i # r => job'[i] = job[i]
          BY <4>1, <4>2, <1>ty DEF Row
        <4> QED
          BY <4>2, <4>3, <2>1 DEF Alike
      <3> QED
        BY <3>1, <3>2
    <2>4. CallersSound'
      <3>1. ASSUME NEW d \in Callers, caller[d].pc \in {"create", "link"},
                   caller[d].ready # NoJob
            PROVE  LET i == caller[d].ready IN
                   /\ job'[i].status = "ready"
                   /\ caller[d].key \in objects => job'[i].key = caller[d].key
                   /\ job'[i].key \in objects => job'[i].key = caller[d].key
        BY <3>1, <2>3, <1>ty DEF Alike, Core, CallersSound
      <3> QED
        BY <3>1, <2>1, <2>2 DEF CallersSound
    <2>5. Kept' /\ DeletionSound' /\ Gone'
      BY <2>1, <2>2, <1>f DEF Deleting
    <2> QED
      BY <2>1, <2>3, <2>4, <2>5, <1>a, <1>b, <1>d, <1>e DEF Core
  <1>z. ASSUME NEW c \in Callers, NEW pc, CancelRead(c, pc)
        PROVE  /\ \E j \in Jobs : job[j].status \in Active
               /\ objects' = objects
               /\ caller'[c].pc = pc
               /\ \A d \in Callers : d # c => caller'[d] = caller[d]
    <2>1. Latest \in Jobs /\ job[Latest].status \in Active
      BY <1>z, Queries DEF CancelRead
    <2>2. job[Latest].key = NoKey
      BY <2>1 DEF Core, RowsSound, Active
    <2>3. objects' = objects
      BY <2>2, <1>z, <1>ty DEF CancelRead
    <2>4. /\ caller'[c].pc = pc
          /\ \A d \in Callers : d # c => caller'[d] = caller[d]
      BY <1>z, <1>dc DEF CancelRead, IdleCaller
    <2> QED
      BY <2>1, <2>3, <2>4
  <1>13. ASSUME NEW c \in Callers, Cancel(c) PROVE T
    <2>1. /\ UNCHANGED <<job, worker, cleaner, created, tenant>> /\ objects' = objects
          /\ caller'[c].pc = "cancel" /\ \A d \in Callers : d # c => caller'[d] = caller[d]
          /\ tenant /\ \A d \in Callers : caller[d].pc \notin Deleting \cup {"delcancel"}
      BY <1>13, <1>z, <1>k DEF Cancel
    <2>2. Alike
      BY <2>1, <1>p
    <2>3. CallersSound'
      BY <2>1 DEF Core, CallersSound
    <2>4. Kept' /\ DeletionSound' /\ Gone'
      BY <2>1, <1>f DEF Deleting
    <2> QED
      BY <2>1, <2>2, <2>3, <2>4, <1>a, <1>b, <1>d, <1>e DEF Core
  <1>14. ASSUME NEW c \in Callers, CancelCommit(c) PROVE T
    <2> DEFINE j == caller[c].job
    <2>1. /\ UNCHANGED <<objects, worker, cleaner, created, tenant>> /\ tenant
          /\ \A d \in Callers : caller[d].pc \notin Deleting \cup {"delcancel"}
          /\ j \in Jobs
      BY <1>14, <1>l DEF CancelCommit, Deleting, Typed, RequestsTyped
    <2>2. /\ caller'[c].pc = "idle"
          /\ \A d \in Callers : d # c => caller'[d] = caller[d]
      BY <1>14, <1>dc DEF CancelCommit, IdleCaller
    <2>3. \/ job' = job
          \/ job[j].status \in Active /\ job' = [job EXCEPT ![j].status = "cancelled"]
      BY <1>14, <2>1 DEF CancelCommit, Cancelled
    <2> HIDE DEF j
    <2>4. /\ \A i \in Jobs : job'[i].key = job[i].key /\ job'[i].replaced = job[i].replaced
          /\ \A i \in Jobs : \/ job'[i].status = job[i].status
                             \/ job[i].status \in Active /\ job'[i].status = "cancelled"
      <3>1. CASE job' = job
        BY <3>1
      <3>2. CASE job' = [job EXCEPT ![j].status = "cancelled"] /\ job[j].status \in Active
        BY <3>2, <2>1, <1>ty DEF Row
      <3> QED
        BY <3>1, <3>2, <2>3
    <2>5. RowsSound'
      <3>1. ASSUME NEW i \in Jobs
            PROVE  /\ job'[i].status # "ready" => job'[i].key = NoKey
                   /\ job'[i].replaced # NoJob => job'[job'[i].replaced].status = "ready"
        <4>1. job[i].status # "ready" => job[i].key = NoKey
          BY DEF Core, RowsSound
        <4>2. job[i].replaced # NoJob => job[i].replaced \in Jobs
              /\ job[job[i].replaced].status = "ready"
          BY <1>ty DEF Core, RowsSound
        <4>3. job'[i].status # "ready" => job[i].status # "ready"
          BY <2>4 DEF Active
        <4> QED
          BY <4>1, <4>2, <4>3, <2>4 DEF Active
      <3> QED
        BY <3>1 DEF RowsSound
    <2>6. WorkersSound'
      <3>1. ASSUME NEW w \in Workers, worker[w].pc # "idle"
            PROVE  LET i == worker[w].job IN
                   /\ job'[i].key = job[i].key /\ job'[i].replaced = job[i].replaced
                   /\ job[i].status = "ready" => job'[i].status = "ready"
                   /\ job[i].status \in {"pending", "processing", "cancelled"} =>
                        job'[i].status \in {"pending", "processing", "cancelled"}
        BY <3>1, <2>4, <1>ty DEF Active
      <3>2. ASSUME NEW w \in Workers, worker[w].pc = "clear"
            PROVE  job'[job'[worker[w].job].replaced].key \notin objects'
        <4> DEFINE p == job[worker[w].job].replaced
        <4>1. p \in Jobs /\ job[p].key \notin objects /\ job'[worker[w].job].replaced = p
          BY <3>1, <3>2, <1>ty DEF Core, WorkersSound
        <4> HIDE DEF p
        <4> QED
          BY <4>1, <2>1, <2>4
      <3> QED
        BY <3>1, <3>2, <2>1 DEF Core, WorkersSound, Building
    <2>7. CallersSound'
      <3>1. ASSUME NEW d \in Callers, caller[d].pc \in {"create", "link"},
                   caller[d].ready # NoJob
            PROVE  LET i == caller[d].ready IN job'[i].key = job[i].key
                   /\ job'[i].status = "ready"
        BY <3>1, <2>4, <1>ty DEF Core, CallersSound, Active
      <3> QED
        BY <3>1, <2>1, <2>2 DEF Core, CallersSound
    <2>8. CleanerSound'
      BY <2>1, <2>4, <1>ty DEF Core, CleanerSound, Active
    <2>9. Owned'
      BY <2>1, <2>4 DEF Core, Owned
    <2>10. Kept' /\ DeletionSound' /\ Gone'
      BY <2>1, <2>2, <1>f DEF Deleting
    <2> QED
      BY <2>5, <2>6, <2>7, <2>8, <2>9, <2>10 DEF Core
  <1>15. ASSUME NEW c \in Callers, DeleteStart(c) PROVE T
    <2>1. /\ UNCHANGED <<job, worker, cleaner, created, tenant, evolution, scenario>>
             /\ tenant
          /\ caller[c].pc = "idle" /\ scenario.deletion # "never"
      BY <1>15 DEF DeleteStart
    <2>2. OneCaller /\ scenario.deletion = "quiet"
      BY <2>1 DEF Calm, Undisturbed
    <2>3. /\ \A w \in Workers : worker[w].pc = "idle"
          /\ \A j \in Jobs : job[j].status \notin Active
      BY <2>2, <1>15 DEF DeleteStart, Rows, Exists, Active, Jobs
    <2>4. caller'[c].pc = "delread" /\ objects' = objects
      <3>1. ~CancelRead(c, "delcancel")
        BY <2>3, <1>z
      <3> QED
        BY <3>1, <1>15, <1>dc DEF DeleteStart, IdleCaller
    <2>5. \A d \in Callers : d = c
      BY <2>2 DEF OneCaller
    <2>6. Alike
      BY <2>1, <2>4, <1>p
    <2>7. CallersSound'
      BY <2>4, <2>5, <1>o
    <2>8. Kept' /\ DeletionSound' /\ Gone'
      BY <2>1, <2>3, <2>4, <2>5 DEF Kept, DeletionSound, Gone, Deleting
    <2> QED
      BY <2>1, <2>6, <2>7, <2>8, <1>a, <1>b, <1>d, <1>e DEF Core
  <1>16. ASSUME NEW c \in Callers, DeleteCancel(c) PROVE T
    BY <1>16, <1>i DEF DeleteCancel
  <1>17. ASSUME NEW c \in Callers, DeleteReadKeys(c) PROVE T
    <2> DEFINE K == {job[j].key : j \in Rows} \ {NoKey}
    <2>1. /\ UNCHANGED <<job, objects, worker, cleaner, created, tenant, evolution, scenario>>
          /\ caller[c].pc = "delread"
          /\ caller' = [caller EXCEPT ![c].pc = "delpurge", ![c].keys = K]
      BY <1>17 DEF DeleteReadKeys
    <2>2. /\ OneCaller /\ tenant /\ scenario.deletion = "quiet"
          /\ \A w \in Workers : worker[w].pc = "idle"
          /\ \A j \in Jobs : job[j].status \notin Active
      BY <2>1, <1>m DEF Deleting
    <2>3. \A d \in Callers : d = c
      BY <2>2 DEF OneCaller
    <2>4. objects \subseteq K
      <3>1. ASSUME NEW o \in objects PROVE o \in K
        <4>1. \A w \in Workers : worker[w].key = NoKey
          BY <2>2 DEF Core, WorkersSound
        <4>2. PICK j \in Jobs : job[j].key = o
          BY <4>1, <1>ty DEF Core, Owned
        <4>3. job[j].status = "ready"
          BY <4>2, <1>ty DEF Core, RowsSound
        <4>4. j \in Rows
          BY <4>3, <1>x DEF Rows
        <4> QED
          BY <4>2, <4>4, <1>ty
      <3> QED
        BY <3>1
    <2> HIDE DEF K
    <2>5. caller'[c].pc = "delpurge" /\ caller'[c].keys = K
      BY <2>1 DEF Typed, RequestsTyped, Request
    <2>6. Alike
      BY <2>1, <1>p
    <2>7. CallersSound'
      BY <2>3, <2>5, <1>o
    <2>8. Kept' /\ DeletionSound' /\ Gone'
      BY <2>1, <2>2, <2>3, <2>4, <2>5 DEF Kept, DeletionSound, Gone, Deleting
    <2> QED
      BY <2>1, <2>6, <2>7, <2>8, <1>a, <1>b, <1>d, <1>e DEF Core
  <1>18. ASSUME NEW c \in Callers, DeletePurge(c) PROVE T
    <2>1. /\ UNCHANGED <<job, worker, cleaner, created, tenant, evolution, scenario>>
          /\ caller[c].pc = "delpurge"
      BY <1>18, CalmStep DEF DeletePurge
    <2>2. /\ OneCaller /\ tenant /\ scenario.deletion = "quiet"
          /\ \A w \in Workers : worker[w].pc = "idle"
          /\ \A j \in Jobs : job[j].status \notin Active
      BY <2>1, <1>m DEF Deleting
    <2>3. \A d \in Callers : d = c
      BY <2>2 DEF OneCaller
    <2>4. objects \subseteq caller[c].keys
      BY <2>1 DEF Core, DeletionSound
    <2>5. /\ objects' \subseteq objects
          /\ \/ caller'[c].pc = "idle"
             \/ caller'[c].pc = "delinstance" /\ objects' = {}
             \/ caller'[c].pc = "delpurge" /\ objects' \subseteq caller'[c].keys
      <3>1. CASE caller[c].keys = {}
        BY <3>1, <2>4, <1>18, <1>dc DEF DeletePurge, Typed, RequestsTyped, Request
      <3>2. ASSUME NEW k \in caller[c].keys, objects' = objects \ {k},
                   caller' = [caller EXCEPT ![c].keys = @ \ {k}]
            PROVE  /\ objects' \subseteq objects
                   /\ caller'[c].pc = "delpurge" /\ objects' \subseteq caller'[c].keys
        <4>1. caller'[c].pc = "delpurge" /\ caller'[c].keys = caller[c].keys \ {k}
          BY <3>2, <2>1, <1>dc DEF Typed, RequestsTyped, Request
        <4> QED
          BY <4>1, <3>2, <2>4
      <3>3. CASE caller' = [caller EXCEPT ![c] = IdleCaller] /\ objects' = objects
        BY <3>3, <1>dc DEF IdleCaller
      <3> QED
        BY <3>1, <3>2, <3>3, <1>18 DEF DeletePurge
    <2>6. Alike
      BY <2>1, <2>5, <1>q
    <2>7. CallersSound'
      BY <2>3, <2>5, <1>o
    <2>8. Kept' /\ DeletionSound' /\ Gone'
      BY <2>1, <2>2, <2>3, <2>5 DEF Kept, DeletionSound, Gone, Deleting
    <2> QED
      BY <2>1, <2>6, <2>7, <2>8, <1>a, <1>b, <1>d, <1>e DEF Core
  <1>19. ASSUME NEW c \in Callers, DeleteInstance(c) PROVE T
    <2>1. /\ UNCHANGED <<job, objects, worker, cleaner, created, tenant, scenario>>
          /\ caller[c].pc = "delinstance"
          /\ \/ caller'[c].pc = "delrows" /\ ~evolution'
             \/ caller'[c].pc = "idle"
      BY <1>19, CalmStep, <1>dc DEF DeleteInstance, IdleCaller, Typed, RequestsTyped,
         Request
    <2>2. /\ OneCaller /\ tenant /\ scenario.deletion = "quiet"
          /\ \A w \in Workers : worker[w].pc = "idle"
          /\ \A j \in Jobs : job[j].status \notin Active
      BY <2>1, <1>m DEF Deleting
    <2>3. \A d \in Callers : d = c
      BY <2>2 DEF OneCaller
    <2>4. objects = {}
      BY <2>1 DEF Core, DeletionSound
    <2>6. Alike
      BY <2>1, <1>p
    <2>7. CallersSound'
      BY <2>1, <2>3, <1>o
    <2>8. Kept' /\ DeletionSound' /\ Gone'
      BY <2>1, <2>2, <2>3, <2>4 DEF Kept, DeletionSound, Gone, Deleting
    <2> QED
      BY <2>1, <2>6, <2>7, <2>8, <1>a, <1>b, <1>d, <1>e DEF Core
  <1>y. ASSUME job' = [j \in Jobs |-> NoRow],
               UNCHANGED <<objects, worker, cleaner, created>>, objects = {},
               \A w \in Workers : worker[w].pc = "idle"
        PROVE  RowsSound' /\ WorkersSound' /\ CleanerSound' /\ Owned'
    <2>1. \A j \in Jobs : job'[j].status = "none" /\ job'[j].key = NoKey
          /\ job'[j].replaced = NoJob
      BY <1>y DEF NoRow
    <2>2. RowsSound'
      BY <2>1 DEF RowsSound
    <2>3. WorkersSound'
      BY <1>y, <1>n
    <2>4. CleanerSound'
      BY <1>y, <2>1, <1>ty DEF Core, CleanerSound
    <2>5. Owned'
      BY <1>y DEF Owned
    <2> QED
      BY <2>2, <2>3, <2>4, <2>5
  <1>20. ASSUME NEW c \in Callers, DeleteRows(c) PROVE T
    <2>1. /\ UNCHANGED <<objects, worker, cleaner, created, tenant, evolution, scenario>>
          /\ caller[c].pc = "delrows" /\ caller'[c].pc = "delcommit"
             /\ job' = [j \in Jobs |-> NoRow]
      BY <1>20, <1>dc DEF DeleteRows, Typed, RequestsTyped, Request
    <2>2. /\ OneCaller /\ tenant /\ scenario.deletion = "quiet"
          /\ \A w \in Workers : worker[w].pc = "idle"
      BY <2>1, <1>m DEF Deleting
    <2>3. \A d \in Callers : d = c
      BY <2>2 DEF OneCaller
    <2>4. objects = {} /\ ~evolution
      BY <2>1 DEF Core, DeletionSound
    <2>5. \A j \in Jobs : job'[j].status = "none"
      BY <2>1 DEF NoRow
    <2>7. CallersSound'
      BY <2>1, <2>3, <1>o
    <2>8. Kept' /\ DeletionSound' /\ Gone'
      BY <2>1, <2>2, <2>3, <2>4, <2>5 DEF Kept, DeletionSound, Gone, Deleting, Active
    <2> QED
      BY <2>1, <2>2, <2>4, <2>7, <2>8, <1>y DEF Core
  <1>21. ASSUME NEW c \in Callers, DeleteCommit(c) PROVE T
    <2>1. /\ UNCHANGED <<objects, worker, cleaner, created, evolution, scenario>>
          /\ caller[c].pc = "delcommit" /\ caller'[c].pc = "idle"
          /\ \/ job' = [j \in Jobs |-> NoRow]
             \/ tenant' = tenant /\ job' = job
      BY <1>21, CalmStep, <1>dc DEF DeleteCommit, IdleCaller
    <2>2. /\ OneCaller /\ tenant /\ scenario.deletion = "quiet"
          /\ \A w \in Workers : worker[w].pc = "idle"
      BY <2>1, <1>m DEF Deleting
    <2>3. \A d \in Callers : d = c
      BY <2>2 DEF OneCaller
    <2>4. objects = {} /\ ~evolution
      BY <2>1 DEF Core, DeletionSound
    <2>5. CallersSound'
      BY <2>1, <2>3, <1>o
    <2>6. Kept' /\ DeletionSound'
      BY <2>1, <2>2, <2>3, <2>4 DEF Kept, DeletionSound, Deleting
    <2>7. CASE job' = [j \in Jobs |-> NoRow]
      <3>1. \A j \in Jobs : job'[j].status = "none"
        BY <2>7 DEF NoRow
      <3>2. Gone'
        BY <3>1, <2>1, <2>2, <2>3, <2>4 DEF Gone
      <3> QED
        BY <3>2, <2>1, <2>2, <2>4, <2>5, <2>6, <2>7, <1>y DEF Core
    <2>8. CASE tenant' = tenant /\ job' = job
      <3>1. Alike
        BY <2>1, <2>8, <1>p
      <3>2. Gone'
        BY <2>2, <2>8 DEF Gone
      <3> QED
        BY <3>1, <3>2, <2>1, <2>5, <2>6, <1>a, <1>b, <1>d, <1>e DEF Core
    <2> QED
      BY <2>1, <2>7, <2>8
  <1>22. ASSUME Alike, UNCHANGED <<caller, worker, evolution, tenant, scenario>>,
                UNCHANGED <<cleaner, created>>
         PROVE  T
    BY <1>22, <1>a, <1>b, <1>c, <1>d, <1>e, <1>g DEF Core
  <1>23. ASSUME NEW j \in Jobs, CooldownEnds(j) \/ Expires(j) PROVE T
    <2>1. \/ job' = [job EXCEPT ![j].cooling = FALSE]
          \/ job' = [job EXCEPT ![j].expired = TRUE]
      BY <1>23 DEF CooldownEnds, Expires
    <2>2. objects' = objects
      BY <1>23 DEF CooldownEnds, Expires
    <2>3. Alike
      BY <2>1, <2>2, <1>ty DEF Alike, Row
    <2> QED
      BY <2>3, <1>22, <1>23 DEF CooldownEnds, Expires
  <1>24. ASSUME NEW j \in Jobs, CleanupDelete(j) PROVE T
    <2>1. /\ UNCHANGED <<job, caller, worker, evolution, tenant, created, scenario>>
          /\ cleaner' = j /\ job[j].status = "ready" /\ objects' = objects \ {job[j].key}
      BY <1>24, CalmStep DEF CleanupDelete
    <2>2. Alike
      BY <2>1, <1>q
    <2>3. j <= created
      BY <2>1 DEF Typed, RowsTyped, OthersTyped, NoRow, Jobs
    <2>4. CleanerSound'
      BY <2>1, <2>3 DEF CleanerSound
    <2> QED
      BY <2>1, <2>2, <2>4, <1>a, <1>b, <1>c, <1>e, <1>g DEF Core
  <1>25. ASSUME NEW j \in Jobs, Reconcile(j) PROVE T
    <2>1. /\ job' = [job EXCEPT ![j].key = NoKey] /\ objects' = objects
          /\ job[j].key \notin objects /\ job[j].status = "ready"
      BY <1>25 DEF Reconcile
    <2>2. Alike
      BY <2>1, <1>ty DEF Alike, Row
    <2> QED
      BY <2>2, <1>22, <1>25 DEF Reconcile
  <1>26. ASSUME CleanupClear PROVE T
    <2>1. UNCHANGED <<objects, caller, worker, evolution, tenant, created, scenario>>
          /\ cleaner' = NoJob
      BY <1>26 DEF CleanupClear
    <2>2. Alike
      <3>1. CASE ~Exists(cleaner)
        BY <3>1, <1>26, <1>p DEF CleanupClear
      <3>2. CASE Exists(cleaner)
        <4>1. cleaner \in Jobs /\ job[cleaner].status = "ready"
              /\ job[cleaner].key \notin objects
          BY <3>2, <1>ty DEF Exists, Core, CleanerSound
        <4>2. job' = [job EXCEPT ![cleaner].status = "ready", ![cleaner].key = NoKey]
          BY <3>2, <1>26 DEF CleanupClear
        <4> QED
          BY <4>1, <4>2, <2>1, <1>ty DEF Alike, Row
      <3> QED
        BY <3>1, <3>2
    <2>3. CleanerSound'
      BY <2>1 DEF CleanerSound
    <2> QED
      BY <2>1, <2>2, <2>3, <1>a, <1>b, <1>c, <1>e, <1>g DEF Core
  <1> QED
    BY <1>1, <1>2, <1>3, <1>4, <1>5, <1>6, <1>7, <1>8, <1>9, <1>10, <1>11, <1>12, <1>13,
       <1>14, <1>15, <1>16, <1>17,
       <1>18, <1>19, <1>20, <1>21, <1>23, <1>24, <1>25, <1>26 DEF Next, Work, Serve

\* Every step keeps the invariant.
LEMMA InvStep == ASSUME OneWorker PROVE Inv /\ [Next]_vars => Inv'
  <1> SUFFICES ASSUME Inv, [Next]_vars PROVE Inv'
    OBVIOUS
  <1>1. Typed'
    BY TypedStep DEF Inv
  <1>2. CASE Next
    BY <1>1, <1>2, CalmStep, CoreStep DEF Inv
  <1>3. CASE UNCHANGED vars
    BY <1>1, <1>3 DEF vars, Inv, Calm, Undisturbed, Core, RowsSound, WorkersSound,
       CallersSound, CleanerSound, Owned, Kept, DeletionSound, Gone
  <1> QED
    BY <1>2, <1>3

\* What the run checks follows.
LEMMA InvStorage == Inv => StorageKept
  <1> SUFFICES ASSUME Inv PROVE StorageKept
    OBVIOUS
  <1>1. TypeOK
    BY TypedIsTypeOK DEF Inv
  <1>2. ASSUME scenario.deletion = "never", failures = 0, crashes = 0
        PROVE  objects \subseteq {job[j].key : j \in Rows}
                                   \cup {worker[w].key : w \in Workers}
    <2>1. Core /\ Typed
      BY <1>2 DEF Inv, Calm
    <2>2. ASSUME NEW o \in objects, NEW j \in Jobs, job[j].key = o PROVE j \in Rows
      <3>1. o # 0
        BY <2>1, <2>2 DEF Typed, OthersTyped
      <3>2. job[j].status = "ready"
        BY <3>1, <2>1, <2>2 DEF Core, RowsSound
      <3> QED
        BY <3>2 DEF Rows, Exists, Jobs
    <2> QED
      BY <2>1, <2>2 DEF Core, Owned
  <1>3. ASSUME OneCaller, Undisturbed, ~tenant
        PROVE  ~evolution /\ objects \subseteq {worker[w].key : w \in Workers}
    <2>1. crashes = 0
      BY <1>3, Bounds DEF Inv, Typed, OthersTyped, Undisturbed
    <2> QED
      BY <1>3, <2>1 DEF Inv, Calm, Core, Gone
  <1> QED
    BY <1>1, <1>2, <1>3 DEF StorageKept, NoOrphan, DeletionPurges

\* As long as no call fails and no process dies, every archive in the bucket has
\* an owner that will delete it (confirm_replacement_ready, cancel_export,
\* cleanup_expired_exports), for any number of exports, uploads and concurrent
\* requests; and where requests take turns, an account that is gone has left no
\* archive and no WhatsApp instance, however often its deletion failed half-way
\* (delete_tenant_as_master).  Two loops that claim the same job would each
\* upload an archive, so that there is one.
THEOREM StorageSafe == ASSUME OneWorker PROVE MCSpec => []StorageKept
<1>1. MCInit => Inv
    BY InitInv DEF MCInit
<1>2. [MCNext]_MCvars => [Next]_vars
    BY DEF MCNext, MCvars
<1>3. Inv /\ [MCNext]_MCvars => Inv'
    BY <1>2, InvStep
<1>4. MCSpec => []Inv
    BY <1>1, <1>3, PTL DEF MCSpec
<1> QED
    BY <1>4, InvStorage, PTL

-----------------------------------------------------------------------------
(* The store of the browser *)

\* The requests under way.
Calls == [kind : {"status", "create", "cancel", "refresh"}, tenant : StoreTenants,
          answer : {"sent", "error", "none"} \cup Store!Statuses]

\* The store, the requests and the server are typed, and the handle, the
\* intervals and the job go together.
StoreInv ==
    /\ sSession \in StoreTenants /\ sOpen \in BOOLEAN
    /\ sJob \in Store!Shown
    /\ sHandle \in BOOLEAN /\ Store!OneInterval /\ Store!PreparingIsPolled
    /\ sRequesting \in BOOLEAN /\ sCancelling \in BOOLEAN
    /\ sRequests \in Seq(Calls) /\ Len(sRequests) <= StoreRequests
    /\ sServer \in [StoreTenants -> Store!Statuses \cup {"none"}]
    /\ sCreated \in 0..StoreJobs /\ sFailures \in 0..StoreFailures
    /\ sInOrder \in BOOLEAN

\* A request that is sent.
LEMMA RequestTyped ==
    ASSUME sSession \in StoreTenants, NEW kind \in {"status", "create", "cancel", "refresh"}
    PROVE  Store!Request(kind) \in Calls
BY DEF Store!Request, Calls

\* The requests with the one that is sent.
LEMMA SendTyped ==
    ASSUME sSession \in StoreTenants, NEW kind \in {"status", "create", "cancel",
           "refresh"},
           NEW queue \in Seq(Calls), Len(queue) < StoreRequests, Store!Send(queue, kind)
    PROVE  sRequests' \in Seq(Calls) /\ Len(sRequests') <= StoreRequests
<1>1. Store!Request(kind) \in Calls
    BY RequestTyped
<1>2. sRequests' = Append(queue, Store!Request(kind))
    BY DEF Store!Send
<1>3. StoreRequests \in Nat
    BY MCAssumption DEF Store!StoreAssumption
<1> QED
    BY <1>1, <1>2, <1>3

\* A request whose answer is there.
LEMMA AnsweredTyped ==
    ASSUME sRequests \in Seq(Calls), Len(sRequests) <= StoreRequests,
           NEW i \in DOMAIN sRequests,
           NEW a \in {"sent", "error", "none"} \cup Store!Statuses, Store!Answered(i, a)
    PROVE  sRequests' \in Seq(Calls) /\ Len(sRequests') <= StoreRequests
<1>1. sRequests[i] \in Calls
    OBVIOUS
<1> DEFINE r == [sRequests[i] EXCEPT !.answer = a]
<1>2. r \in Calls
    BY <1>1 DEF Calls
<1>3. sRequests' = [sRequests EXCEPT ![i] = r]
    BY DEF Store!Answered
<1> HIDE DEF r
<1>4. i \in 1..Len(sRequests)
    OBVIOUS
<1> QED
    BY <1>2, <1>3, <1>4

\* The requests without the one that is delivered.
LEMMA RemoveTyped ==
    ASSUME sRequests \in Seq(Calls), NEW i \in DOMAIN sRequests
    PROVE  Store!RemoveAt(sRequests, i) \in Seq(Calls)
           /\ Len(Store!RemoveAt(sRequests, i)) < Len(sRequests)
<1>1. i \in 1..Len(sRequests) /\ Len(sRequests) \in Nat
    OBVIOUS
<1> DEFINE a == SubSeq(sRequests, 1, i - 1)
           b == SubSeq(sRequests, i + 1, Len(sRequests))
<1>2. a \in Seq(Calls) /\ Len(a) = i - 1
    BY <1>1
<1>3. b \in Seq(Calls) /\ Len(b) = Len(sRequests) - i
    BY <1>1
<1> HIDE DEF a, b
<1>4. a \o b \in Seq(Calls) /\ Len(a \o b) = Len(sRequests) - 1
    BY <1>1, <1>2, <1>3
<1> QED
    BY <1>1, <1>4 DEF a, b, Store!RemoveAt

\* startPolling and stopPolling keep one interval behind the handle.
LEMMA PollingKept ==
    ASSUME sHandle \in BOOLEAN, Store!OneInterval
    PROVE  /\ Store!startPolling => sHandle' /\ sHandle' \in BOOLEAN /\ Store!OneInterval'
           /\ Store!stopPolling => ~sHandle' /\ sHandle' \in BOOLEAN /\ Store!OneInterval'
<1>1. ASSUME Store!startPolling PROVE sHandle' = TRUE /\ sIntervals' = 1
    BY <1>1 DEF Store!startPolling, Store!OneInterval
<1>2. ASSUME Store!stopPolling PROVE sHandle' = FALSE /\ sIntervals' = 0
    BY <1>2 DEF Store!stopPolling, Store!OneInterval
<1> QED
    BY <1>1, <1>2 DEF Store!OneInterval

\* An answer that is published.
LEMMA PublishKept ==
    ASSUME sHandle \in BOOLEAN, Store!OneInterval, Store!PreparingIsPolled, NEW r \in Calls,
           r.answer \notin {"sent", "error"}, Store!Publish(r)
    PROVE  sJob' \in Store!Shown /\ sHandle' \in BOOLEAN /\ Store!OneInterval'
           /\ Store!PreparingIsPolled'
<1>1. r.tenant \in StoreTenants /\ r.answer \in {"none"} \cup Store!Statuses
    BY DEF Calls
<1>2. CASE r.answer = "none"
  <2>1. sJob' = Store!NoJob /\ UNCHANGED <<sHandle, sIntervals>>
    BY <1>2 DEF Store!Publish
  <2> QED
    BY <2>1 DEF Store!Shown, Store!NoJob, Store!OneInterval, Store!PreparingIsPolled,
       Store!isPollable
<1>3. CASE r.answer # "none"
  <2>1. sJob' = [tenant |-> r.tenant, status |-> r.answer]
    BY <1>3 DEF Store!Publish
  <2>2. sJob' \in Store!Shown /\ sJob'.status = r.answer
    BY <1>1, <1>3, <2>1 DEF Store!Shown
  <2>3. IF r.answer = "active" THEN Store!startPolling ELSE Store!stopPolling
    BY <1>3 DEF Store!Publish
  <2> QED
    BY <2>2, <2>3, PollingKept DEF Store!PreparingIsPolled, Store!isPollable
<1> QED
    BY <1>2, <1>3

\* Every step keeps them.
LEMMA StoreStep == ASSUME StoreInv, [Store!Next]_(Store!vars) PROVE StoreInv'
<1>t. /\ sSession \in StoreTenants /\ sOpen \in BOOLEAN /\ sJob \in Store!Shown
      /\ sHandle \in BOOLEAN /\ Store!OneInterval /\ Store!PreparingIsPolled
      /\ sRequesting \in BOOLEAN /\ sCancelling \in BOOLEAN
      /\ sRequests \in Seq(Calls) /\ Len(sRequests) <= StoreRequests
      /\ sServer \in [StoreTenants -> Store!Statuses \cup {"none"}]
      /\ sCreated \in 0..StoreJobs /\ sFailures \in 0..StoreFailures
      /\ sInOrder \in BOOLEAN
    BY DEF StoreInv
<1>p. StoreRequests \in Nat /\ StoreJobs \in Nat /\ StoreFailures \in Nat
    BY MCAssumption DEF Store!StoreAssumption
<1>n. Store!NoJob \in Store!Shown /\ Store!NoJob.status # "active"
    BY DEF Store!NoJob, Store!Shown
<1>1. ASSUME Store!Open PROVE StoreInv'
    BY <1>1, <1>t, SendTyped DEF Store!Open, Store!Room, StoreInv, Store!OneInterval,
       Store!PreparingIsPolled, Store!isPollable
<1>2. ASSUME Store!Close PROVE StoreInv'
    BY <1>2, <1>t, <1>n, PollingKept DEF Store!Close, StoreInv, Store!PreparingIsPolled,
       Store!isPollable
<1>3. ASSUME Store!requestExport PROVE StoreInv'
    BY <1>3, <1>t, SendTyped DEF Store!requestExport, Store!Room, StoreInv,
       Store!OneInterval, Store!PreparingIsPolled, Store!isPollable
<1>4. ASSUME Store!cancelExport PROVE StoreInv'
    BY <1>4, <1>t, SendTyped DEF Store!cancelExport, Store!Room, StoreInv,
       Store!OneInterval, Store!PreparingIsPolled, Store!isPollable
<1>5. ASSUME Store!Tick PROVE StoreInv'
  <2>1. CASE Store!isPollable
    BY <1>5, <1>t, <2>1, SendTyped DEF Store!Tick, Store!Room, StoreInv,
       Store!OneInterval, Store!PreparingIsPolled, Store!isPollable
  <2>2. CASE ~Store!isPollable
    BY <1>5, <1>t, <2>2, PollingKept DEF Store!Tick, StoreInv, Store!PreparingIsPolled,
       Store!isPollable
  <2> QED
    BY <2>1, <2>2
<1>6. ASSUME NEW t \in StoreTenants, Store!ChangeSession(t) PROVE StoreInv'
    BY <1>6, <1>t DEF Store!ChangeSession, StoreInv, Store!OneInterval,
       Store!PreparingIsPolled, Store!isPollable
<1>7. ASSUME NEW t \in StoreTenants, Store!JobEnds(t) PROVE StoreInv'
  <2>1. sServer' \in [StoreTenants -> Store!Statuses \cup {"none"}]
    BY <1>7, <1>t DEF Store!JobEnds, Store!Statuses
  <2> QED
    BY <1>7, <1>t, <2>1 DEF Store!JobEnds, StoreInv, Store!OneInterval,
       Store!PreparingIsPolled, Store!isPollable
<1>8. ASSUME NEW i \in 1..StoreRequests, Store!Handle(i) PROVE StoreInv'
  <2> DEFINE r == sRequests[i]
  <2>1. i \in DOMAIN sRequests
    BY <1>8 DEF Store!Handle
  <2>2. r \in Calls
    BY <1>t, <2>1
  <2>3. r.tenant \in StoreTenants
    BY <2>2 DEF Calls
  <2>4. sServer[r.tenant] \in Store!Statuses \cup {"none"}
    BY <1>t, <2>3
  <2> HIDE DEF r
  <2>5. PICK a \in {"sent", "error", "none"} \cup Store!Statuses : Store!Answered(i, a)
    BY <1>8, <2>4 DEF Store!Handle, r, Store!Statuses
  <2>6. sRequests' \in Seq(Calls) /\ Len(sRequests') <= StoreRequests
    BY <1>t, <2>1, <2>5, AnsweredTyped
  <2>7. sServer' \in [StoreTenants -> Store!Statuses \cup {"none"}]
        /\ sCreated' \in 0..StoreJobs
    BY <1>8, <1>t, <1>p DEF Store!Handle, Store!Statuses
  <2> QED
    BY <1>8, <1>t, <2>6, <2>7 DEF Store!Handle, StoreInv, Store!OneInterval,
       Store!PreparingIsPolled, Store!isPollable
<1>9. ASSUME NEW i \in 1..StoreRequests, Store!Lose(i) PROVE StoreInv'
  <2>1. sRequests' \in Seq(Calls) /\ Len(sRequests') <= StoreRequests
    BY <1>9, <1>t, AnsweredTyped DEF Store!Lose
  <2> QED
    BY <1>9, <1>t, <1>p, <2>1 DEF Store!Lose, StoreInv, Store!OneInterval,
       Store!PreparingIsPolled, Store!isPollable
<1>10. ASSUME NEW i \in 1..StoreRequests, Store!Deliver(i) PROVE StoreInv'
  <2> DEFINE r == sRequests[i]
             rest == Store!RemoveAt(sRequests, i)
  <2>1. i \in DOMAIN sRequests /\ r.answer # "sent"
    BY <1>10 DEF Store!Deliver
  <2>2. r \in Calls
    BY <1>t, <2>1
  <2>3. rest \in Seq(Calls) /\ Len(rest) < Len(sRequests)
    BY <1>t, <2>1, RemoveTyped
  <2>4. Store!DeliverStatus(r) \/ Store!DeliverCreate(r) \/ Store!DeliverCancel(r)
    BY <1>10 DEF Store!Deliver
  <2>5. Store!Send(rest, "refresh") \/ sRequests' = rest
    BY <1>10 DEF Store!Deliver
  <2> HIDE DEF r, rest
  <2>6. sRequests' \in Seq(Calls) /\ Len(sRequests') <= StoreRequests
    <3>1. Len(rest) < StoreRequests
        BY <1>t, <1>p, <2>3
    <3>2. CASE Store!Send(rest, "refresh")
        BY <1>t, <2>3, <3>1, <3>2, SendTyped
    <3>3. CASE sRequests' = rest
        BY <1>p, <2>3, <3>1, <3>3
    <3> QED
        BY <2>5, <3>2, <3>3
  <2>7. /\ sJob' \in Store!Shown /\ sHandle' \in BOOLEAN /\ Store!OneInterval'
           /\ Store!PreparingIsPolled'
        /\ sRequesting' \in BOOLEAN /\ sCancelling' \in BOOLEAN
    <3>1. CASE Store!DeliverStatus(r)
        BY <1>t, <2>1, <2>2, <3>1, PublishKept DEF Store!DeliverStatus, r,
           Store!OneInterval, Store!PreparingIsPolled, Store!isPollable
    <3>2. CASE Store!DeliverCreate(r)
        BY <1>t, <2>1, <2>2, <3>2, PublishKept DEF Store!DeliverCreate, r,
           Store!OneInterval, Store!PreparingIsPolled, Store!isPollable
    <3>3. CASE Store!DeliverCancel(r)
      <4>1. UNCHANGED <<sJob, sHandle, sIntervals, sRequesting>>
            /\ sCancelling' = (sCancelling /\ r.answer # "error")
        BY <3>3 DEF Store!DeliverCancel
      <4>2. sCancelling' \in BOOLEAN
        BY <4>1
      <4>3. Store!OneInterval' /\ Store!PreparingIsPolled'
        BY <1>t, <4>1 DEF Store!OneInterval, Store!PreparingIsPolled, Store!isPollable
      <4> QED
        BY <1>t, <4>1, <4>2, <4>3
    <3> QED
        BY <2>4, <3>1, <3>2, <3>3
  <2> QED
    BY <1>10, <1>t, <2>6, <2>7 DEF Store!Deliver, StoreInv
<1>11. ASSUME UNCHANGED Store!vars PROVE StoreInv'
    BY <1>11, <1>t DEF Store!vars, StoreInv, Store!OneInterval, Store!PreparingIsPolled,
       Store!isPollable
<1> QED
    BY <1>1, <1>2, <1>3, <1>4, <1>5, <1>6, <1>7, <1>8, <1>9, <1>10, <1>11 DEF Store!Next

\* A tab that was never opened.
LEMMA StoreInit == ASSUME Store!Init PROVE StoreInv
<1>1. sHandle = FALSE /\ sIntervals = 0 /\ sJob = Store!NoJob /\ sRequests = <<>>
    BY DEF Store!Init
<1>2. Store!OneInterval /\ Store!PreparingIsPolled
    BY <1>1 DEF Store!OneInterval, Store!PreparingIsPolled, Store!isPollable, Store!NoJob
<1>3. sRequests \in Seq(Calls) /\ Len(sRequests) <= StoreRequests
    BY <1>1, MCAssumption DEF Store!StoreAssumption
<1>4. sServer \in [StoreTenants -> Store!Statuses \cup {"none"}]
    BY DEF Store!Init
<1>5. sJob \in Store!Shown /\ sHandle \in BOOLEAN
    BY <1>1 DEF Store!Shown
<1>6. sCreated \in 0..StoreJobs /\ sFailures \in 0..StoreFailures
    BY MCAssumption DEF Store!Init, Store!StoreAssumption
<1>7. /\ sSession \in StoreTenants /\ sOpen \in BOOLEAN
      /\ sRequesting \in BOOLEAN /\ sCancelling \in BOOLEAN /\ sInOrder \in BOOLEAN
    BY DEF Store!Init
<1> QED
    BY <1>2, <1>3, <1>4, <1>5, <1>6, <1>7 DEF StoreInv

\* What the run checks follows.
LEMMA StoreTyped == ASSUME StoreInv
PROVE Store!TypeOK /\ Store!OneInterval /\ Store!PreparingIsPolled
<1>1. sIntervals \in 0..2
  <2>1. CASE sHandle
    BY <2>1 DEF StoreInv, Store!OneInterval
  <2>2. CASE ~sHandle
    BY <2>2 DEF StoreInv, Store!OneInterval
  <2> QED
    BY <2>1, <2>2
<1>2. \A i \in DOMAIN sRequests : sRequests[i] \in Calls
    BY DEF StoreInv
<1> QED
    BY <1>1, <1>2 DEF StoreInv, Store!TypeOK, Calls

\* The only interval alive is the one whose handle the store has, and an export
\* shown as being prepared is polled, for any number of sessions, of requests
\* under way and of exports, and answers lost or in any order.
THEOREM PollingKeptSound == MCSpec => []PollingSound
<1>1. MCInit => StoreInv
    BY StoreInit DEF MCInit
<1>2. [MCNext]_MCvars => [Store!Next]_(Store!vars)
    BY DEF MCNext, MCvars, sVars, Store!vars
<1>3. StoreInv /\ [MCNext]_MCvars => StoreInv'
    BY <1>2, StoreStep
<1>4. MCSpec => []StoreInv
    BY <1>1, <1>3, PTL DEF MCSpec
<1>5. StoreInv => PollingSound
    BY StoreTyped DEF PollingSound
<1> QED
    BY <1>4, <1>5, PTL
=============================================================================
