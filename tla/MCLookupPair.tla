---------------------------- MODULE MCLookupPair -----------------------------
(***************************************************************************)
(* LookupCoordinator with the constants of the configuration, along two    *)
(* kinds of behaviour: one job that meets what failures have left behind,  *)
(* and, without failures, two jobs that compete for one executor and may   *)
(* find the same code.                                                     *)
(***************************************************************************)
EXTENDS LookupCoordinator, TLC

CONSTANTS PairTime      \* bound: last instant explored with two jobs

VARIABLES part          \* the kind of behaviour

Parts == {"leftover", "pair"}

Alone == \A j, k \in Jobs : status'[j] # "none" /\ status'[k] # "none" => j = k

MCInit == Init /\ part \in Parts

MCNext ==
    /\ Next
    /\ UNCHANGED part
    /\ part = "leftover" => Alone
    /\ part = "pair" => faults' = 0 /\ now' <= PairTime

MCSpec == MCInit /\ [][MCNext]_<<part, vars>>

\* The jobs, and the codes, are interchangeable: no definition of the
\* specification orders or names one of them.
Symmetry == Permutations(Jobs) \cup Permutations(Codes)
=============================================================================
