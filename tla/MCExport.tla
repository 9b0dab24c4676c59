------------------------------ MODULE MCExport -------------------------------
(***************************************************************************)
(* The exports of a tenant and the store of the browser, with the          *)
(* constants of the configuration.  They share no variable and only one of *)
(* them runs in a behaviour.                                               *)
(***************************************************************************)
EXTENDS ExportJobs, Sequences

CONSTANTS
    StoreTenants, StoreRequests, StoreJobs, StoreFailures,
    OrderedTenant,           \* bound: the session where answers come in order
    FreeRequests, FreeJobs   \* bounds where they come in any order

VARIABLES
    part,  \* the component that runs
    sSession, sOpen, sJob, sHandle, sIntervals, sRequesting, sCancelling,
    sRequests, sServer, sCreated, sFailures, sInOrder

Parts == {"exports", "store"}

\* A replacement with failures and a crash, attempts that fail with a deletion
\* at any time, and a deletion that fails half-way while no export is under way.
MCScenarios ==
    {[failing |-> {"check", "upload", "postcheck", "confirm", "cleanup"},
      failures |-> 2, crashes |-> 1, deletion |-> "never"],
     [failing |-> {"check", "upload", "postcheck", "confirm"},
      failures |-> 3, crashes |-> 0, deletion |-> "any"],
     [failing |-> DeletionSteps,
      failures |-> 2, crashes |-> 0, deletion |-> "quiet"]}

Store == INSTANCE ExportStore WITH
    Tenants <- StoreTenants, MaxRequests <- StoreRequests, MaxJobs <- StoreJobs,
    MaxFailures <- StoreFailures,
    session <- sSession, open <- sOpen, job <- sJob, handle <- sHandle,
    intervals <- sIntervals, requesting <- sRequesting,
    cancelling <- sCancelling, requests <- sRequests, server <- sServer,
    created <- sCreated, failures <- sFailures, inOrder <- sInOrder

ASSUME MCAssumption == Store!StoreAssumption

sVars == <<sSession, sOpen, sJob, sHandle, sIntervals, sRequesting,
           sCancelling, sRequests, sServer, sCreated, sFailures, sInOrder>>
MCvars == <<part, vars, sVars>>

StoreBounds ==
    IF sInOrder THEN sSession' = sSession
    ELSE Len(sRequests') <= FreeRequests /\ sCreated' <= FreeJobs

MCInit ==
    /\ part \in Parts
    /\ Init
    /\ Store!Init
    /\ sInOrder => sSession = OrderedTenant
    /\ part = "exports" => sInOrder
    /\ part = "store" => scenario = CHOOSE c \in Scenarios : TRUE

MCNext ==
    \/ part = "exports" /\ Next
       /\ UNCHANGED <<part, sVars>>
    \/ part = "store" /\ Store!Next /\ StoreBounds
       /\ UNCHANGED <<part, vars>>

MCSpec == MCInit /\ [][MCNext]_MCvars

\* The component that runs is scheduled as its own module says.
MCFairSpec ==
    /\ MCSpec
    /\ \/ part = "exports" /\ Fairness
       \/ part = "store" /\ (sInOrder => Store!Fairness)

-----------------------------------------------------------------------------
(* Properties *)

OneCaller == \A c, d \in Callers : c = d

\* A deletion that no export and no failure of one gets into the way of.
Undisturbed ==
    /\ scenario.deletion = "quiet" /\ scenario.crashes = 0
    /\ scenario.failing \subseteq DeletionSteps

\* The bucket holds nothing without an owner: an object that no row names is
\* left only by a failed call or a crash; and where requests take turns, an
\* account that is gone, however often its deletion failed half-way, has left no
\* archive and no WhatsApp instance.
StorageKept ==
    /\ TypeOK
    /\ scenario.deletion = "never" => NoOrphan
    /\ OneCaller /\ Undisturbed => DeletionPurges

\* _process_job_with_session: a requested export ends ready, failed or
\* cancelled, however many of its attempts fail.
FailingRequestsDecided == scenario.crashes = 0 => RequestsDecided

\* The page polls when it must and once: the only interval alive is the one
\* whose handle the store has, and an export shown as being prepared is polled,
\* whatever answers come in whatever order.
PollingSound ==
    /\ Store!TypeOK
    /\ Store!OneInterval
    /\ Store!PreparingIsPolled

\* Where answers come in the order of their requests, the page follows the
\* export to its end, and no request or cancellation that fails leaves its
\* button disabled for good.
Follows == sInOrder => Store!Followed /\ Store!ButtonsComeBack
=============================================================================
