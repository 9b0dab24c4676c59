------------------------- MODULE MCExecutorRegistry --------------------------
(***************************************************************************)
(* The registry of an executor, with requests that overlap and with        *)
(* requests made one after the other, and the Redis stores of the backend. *)
(* They share no variable and only one of them runs in a behaviour.        *)
(***************************************************************************)
EXTENDS ExecutorRegistry

CONSTANTS
    Parts,  \* the components that may run
    Master, TurnUrls, TurnOffered, TurnVersions, TurnSecrets,  \* of Turn
    RedisCallers, RedisChat, Threshold, SlowStores, MaxOutages, MaxTimeouts

VARIABLES
    part,  \* the component that runs
    tRow, tDeleted, tIssued, tDeployed, tRequest, tDispatch, tLease, tBusy,
    tPassed,
    rPolicy, rOp, rSession, rUp, rOutages, rTimeouts, rCleared

\* One request at a time, and an executor that moves.
Turn == INSTANCE ExecutorRegistry WITH
    Callers <- {Master}, Urls <- TurnUrls, Offered <- TurnOffered,
    KeyVersions <- TurnVersions, MaxSecrets <- TurnSecrets,
    row <- tRow, deleted <- tDeleted, issued <- tIssued,
    deployed <- tDeployed, request <- tRequest, dispatch <- tDispatch,
    lease <- tLease, busy <- tBusy, passed <- tPassed

Redis == INSTANCE RedisFailover WITH
    Callers <- RedisCallers, Chat <- RedisChat, Slow <- SlowStores,
    policy <- rPolicy, op <- rOp, session <- rSession, up <- rUp,
    outages <- rOutages, timeouts <- rTimeouts, cleared <- rCleared

ASSUME MCAssumption == Parts \subseteq {"overlap", "turn", "redis"} /\ Redis!FailoverAssumption

ASSUME TurnAssumption ==
    /\ TurnUrls # {}
    /\ TurnOffered \subseteq {"update", "verify", "test", "enable", "disable",
                              "rotate", "delete"}
    /\ TurnVersions \subseteq Nat
    /\ TurnSecrets \in Nat \ {0}

tVars == <<tRow, tDeleted, tIssued, tDeployed, tRequest, tDispatch, tLease,
            tBusy, tPassed>>
rVars == <<rPolicy, rOp, rSession, rUp, rOutages, rTimeouts, rCleared>>
MCvars == <<part, vars, tVars, rVars>>

MCInit ==
    /\ part \in Parts
    /\ Init
    /\ Turn!Init
    /\ Redis!Init
    /\ part = "turn" \/ tRow.url = CHOOSE u \in TurnUrls : TRUE

MCNext ==
    \/ part = "overlap" /\ Next
       /\ UNCHANGED <<part, tVars, rVars>>
    \/ part = "turn" /\ Turn!Next
       /\ UNCHANGED <<part, vars, rVars>>
    \/ part = "redis" /\ Redis!Next
       /\ UNCHANGED <<part, vars, tVars>>

MCSpec == MCInit /\ [][MCNext]_MCvars

\* The component that runs is scheduled as its own module says.
MCFairSpec ==
    /\ MCSpec
    /\ \/ part = "turn" /\ Turn!Fairness
       \/ part = "redis" /\ Redis!Fairness
       \/ part \in {"overlap"}

-----------------------------------------------------------------------------
(* Properties *)

\* Where requests take turns, an executor is dispatched to only at a
\* destination that passed a verification with the secret in use (docs/adr/0008).
EarnedInTurn == Turn!TypeOK /\ Turn!DestinationProven

\* The breaker of the Redis manager is open exactly while the time of its
\* opening is known, whatever answers arrive late: an open breaker without one
\* would never probe the primary again (_check_open_window).
OpenIsTimed == Redis!OpenIsTimed

\* Once the breaker has left "closed", an operation is refused only if the
\* backup is down, be it a failed probe or an operation that was sent to the
\* primary before (_execute_primary, _execute_half_open).
FailoverShields == Redis!FailoverShields

\* A candidate secret that is deployed does not stay a candidate for good; every
\* Redis operation ends, whichever stores are down for good; and when the
\* primary is back for good the breaker closes and stays closed.
TrafficFlows ==
    /\ Turn!RotationCompletes
    /\ Redis!OperationsEnd /\ Redis!PrimaryResumes
=============================================================================
