---------------------------- MODULE LookupPromise ----------------------------
(***************************************************************************)
(* What a tenant is promised about code lookups, without saying how they   *)
(* are executed.  A lookup is answered at most once; a delivered code is   *)
(* never delivered again, to anyone; an answer stands at least until the   *)
(* interactive deadline, after which the lookup may be reported as         *)
(* unsuccessful; and it is forgotten only after twice its retention.       *)
(* LookupCoordinator implements this specification.                        *)
(***************************************************************************)
EXTENDS Naturals

CONSTANTS Jobs, Codes,
          Budget,        \* interactive deadline
          JobTtl,        \* retention
          MaxTime        \* bound on the instants explored

VARIABLES
    now,
    asked,     \* when each lookup was asked for
    reply,     \* what its caller is told at present
    given      \* the codes delivered so far

vars == <<now, asked, reply, given>>

Answered == {"empty", "unsuccessful"} \cup Codes

Init ==
    /\ now = 0
    /\ asked = [j \in Jobs |-> 0]
    /\ reply = [j \in Jobs |-> "unasked"]
    /\ given = {}

Ask(j) ==
    /\ reply[j] = "unasked"
    /\ reply' = [reply EXCEPT ![j] = "open"]
    /\ asked' = [asked EXCEPT ![j] = now]
    /\ UNCHANGED <<now, given>>

Deliver(j, c) ==
    /\ reply[j] = "open" /\ c \notin given
    /\ reply' = [reply EXCEPT ![j] = c]
    /\ given' = given \cup {c}
    /\ UNCHANGED <<now, asked>>

\* Nothing new was found, or the lookup failed or was cancelled.
Conclude(j, r) ==
    /\ reply[j] = "open"
    /\ reply' = [reply EXCEPT ![j] = r]
    /\ UNCHANGED <<now, asked, given>>

\* After their deadlines lookups may be reported as unsuccessful, and after
\* twice the retention forgotten, several at a time.
Lapse(late, old) ==
    /\ \A j \in late : reply[j] \in {"open"} \cup Answered /\ now >= asked[j] + Budget
    /\ \A j \in old : reply[j] \in {"open"} \cup Answered /\ now >= asked[j] + 2 * JobTtl
    /\ reply' = [j \in Jobs |-> CASE j \in old -> "forgotten"
                                  [] j \in late \ old -> "unsuccessful"
                                  [] OTHER -> reply[j]]
    /\ UNCHANGED <<now, asked, given>>

Tick ==
    /\ now < MaxTime
    /\ now' = now + 1
    /\ UNCHANGED <<asked, reply, given>>

Next ==
    \/ \E j \in Jobs : \/ Ask(j)
                       \/ \E c \in Codes : Deliver(j, c)
                       \/ \E r \in {"empty", "unsuccessful"} : Conclude(j, r)
    \/ \E late, old \in SUBSET Jobs : Lapse(late, old)
    \/ Tick

Spec == Init /\ [][Next]_vars
=============================================================================
