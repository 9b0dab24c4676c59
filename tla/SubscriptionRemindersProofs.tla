-------------------- MODULE SubscriptionRemindersProofs --------------------
(***************************************************************************)
(* Theorems about SubscriptionReminders, for any number of subscriptions,  *)
(* recipients and overlapping executions and either meaning of the         *)
(* savepoint; and about SubscriptionLifecycle, for any number of           *)
(* subscriptions and of overlapping runs of the cleanup.                   *)
(***************************************************************************)
EXTENDS MCSubscriptions, Integers, TLAPS

\* A reminder that execution r has still to send, and one it has in hand.
Ahead(r, k) == k \in run[r].items \/ (run[r].at = "send" /\ run[r].item = k)
Held(r, k) == Ahead(r, k) \/ (run[r].at = "mark" /\ run[r].item = k)

InHand == \A r \in Runs : run[r].at \in {"send", "mark"} =>
             run[r].item \in Keys /\ run[r].item \notin run[r].items

\* A reminder without a log is with nobody and has not gone out.
LoggedFirst == \A k \in Keys : log[k] = "none" =>
                  sends[k] = 0 /\ attempts[k] = 0 /\ \A r \in Runs : ~Held(r, k)

\* What is held has not been marked, so that no log gets a second attempt.
HeldIsUntried == \A k \in Keys : \A r \in Runs : Held(r, k) => attempts[k] = 0

OneHolder == \A k \in Keys : \A r1, r2 \in Runs :
                Held(r1, k) /\ Held(r2, k) => r1 = r2

AheadIsUnsent == \A k \in Keys : \A r \in Runs : Ahead(r, k) => sends[k] = 0

OkIsGone == \A r \in Runs : run[r].at = "mark" /\ run[r].ok => sends[run[r].item] > 0

IInv == /\ TypeOK /\ InHand /\ LoggedFirst /\ OneHolder /\ AheadIsUnsent
        /\ HeldIsUntried /\ OkIsGone /\ AtMostOnce /\ SentHasGone

Execution == [at : {"idle", "loop", "send", "mark"}, items : SUBSET Keys,
              item : Keys \cup {<<>>}, ok : BOOLEAN]

\* Before the first poll nothing is logged, held or sent.
LEMMA InitInv == Init => IInv
<1> SUFFICES ASSUME Init PROVE IInv
  OBVIOUS
<1>1. Idle \in Execution
  BY DEF Idle, Execution
<1>2. TypeOK
  BY <1>1, ReminderAssumption DEF Init, TypeOK, Execution
<1>3. InHand /\ LoggedFirst /\ OneHolder /\ AheadIsUnsent /\ HeldIsUntried /\ OkIsGone
  BY DEF Init, InHand, LoggedFirst, OneHolder, AheadIsUnsent, HeldIsUntried, OkIsGone,
     Held, Ahead, Idle
<1> QED BY <1>2, <1>3 DEF IInv, Init, AtMostOnce, SentHasGone

\* What a poll takes has no log yet.
LEMMA NewIsUnlogged ==
  ASSUME TypeOK, NEW k \in NewKeys
  PROVE  k \in Keys /\ log[k] = "none"
  BY DEF NewKeys, Due

\* A poll hands out only what it has logged.
LEMMA FetchInv == ASSUME IInv, NEW r \in Runs, Fetch(r) PROVE IInv'
<1> USE DEF IInv
<1>1. \A k \in Keys : log'[k] = IF k \in NewKeys THEN "pending" ELSE log[k]
  BY DEF Fetch, generate_reminder_payloads
<1>2. log' \in [Keys -> {"none", "pending", "sent", "failed"}]
  BY DEF Fetch, generate_reminder_payloads, TypeOK
<1>3. NewKeys \subseteq Keys
  BY DEF NewKeys, Due
<1>4. CASE UNCHANGED run
  <2>1. TypeOK' BY <1>2, <1>4 DEF TypeOK, Fetch
  <2>2. \A q \in Runs, k \in Keys : (Held(q, k)' <=> Held(q, k))
                                    /\ (Ahead(q, k)' <=> Ahead(q, k))
    BY <1>4 DEF Held, Ahead
  <2> QED BY <1>1, <1>4, <2>1, <2>2 DEF InHand, LoggedFirst, OneHolder,
             AheadIsUnsent, HeldIsUntried, OkIsGone, AtMostOnce, SentHasGone, Fetch
<1>5. CASE run' = [run EXCEPT ![r].at = "loop", ![r].items = NewKeys]
  <2>1. run' \in [Runs -> Execution]
    BY <1>3, <1>5 DEF TypeOK, Execution
  <2>2. TypeOK' BY <1>2, <2>1 DEF TypeOK, Fetch, Execution
  <2>3. run'[r].at = "loop" /\ run'[r].items = NewKeys
    BY <1>5 DEF TypeOK
  <2>4. \A q \in Runs : q # r => run'[q] = run[q]
    BY <1>5 DEF TypeOK
  <2>5. \A k \in Keys : (Held(r, k)' <=> k \in NewKeys) /\ (Ahead(r, k)' <=> k \in NewKeys)
    BY <2>3 DEF Held, Ahead
  <2>6. \A q \in Runs, k \in Keys : q # r => (Held(q, k)' <=> Held(q, k))
                                             /\ (Ahead(q, k)' <=> Ahead(q, k))
    BY <2>4 DEF Held, Ahead
  <2>7. \A k \in NewKeys : sends[k] = 0 /\ attempts[k] = 0 /\ \A q \in Runs : ~Held(q, k)
    BY NewIsUnlogged DEF LoggedFirst
  <2>8. UNCHANGED <<sends, attempts>> BY DEF Fetch
  <2>9. LoggedFirst' BY <1>1, <2>5, <2>6, <2>8 DEF LoggedFirst
  <2>10. OneHolder' BY <2>5, <2>6, <2>7 DEF OneHolder
  <2>11. AheadIsUnsent' BY <2>5, <2>6, <2>7, <2>8 DEF AheadIsUnsent
  <2>11a. HeldIsUntried' BY <2>5, <2>6, <2>7, <2>8 DEF HeldIsUntried
  <2>12. InHand' BY <2>3, <2>4 DEF InHand
  <2>13. OkIsGone' BY <2>3, <2>4, <2>8 DEF OkIsGone
  <2>14. AtMostOnce' /\ SentHasGone' BY <1>1, <2>8 DEF AtMostOnce, SentHasGone
  <2> QED BY <2>2, <2>9, <2>10, <2>11, <2>11a, <2>12, <2>13, <2>14
<1> QED BY <1>4, <1>5 DEF Fetch

\* A step of one execution that touches no log, sends nothing and holds no more
\* than before keeps the invariant.
LEMMA QuietInv ==
  ASSUME IInv, NEW r \in Runs, NEW e \in Execution,
         run' = [run EXCEPT ![r] = e], UNCHANGED <<open, log, attempts, sends>>,
         e.at # "mark",
         \A k \in Keys : k \in e.items \/ (e.at = "send" /\ e.item = k) => Ahead(r, k),
         e.at = "send" => e.item \in Keys /\ e.item \notin e.items
  PROVE  IInv'
<1> USE DEF IInv
<1>1. run'[r] = e /\ \A q \in Runs : q # r => run'[q] = run[q]
  BY DEF TypeOK
<1>2. TypeOK' BY DEF TypeOK, Execution
<1>3. \A k \in Keys : (Held(r, k)' => Ahead(r, k)) /\ (Ahead(r, k)' => Ahead(r, k))
  BY <1>1 DEF Held, Ahead
<1>4. \A q \in Runs, k \in Keys : (Held(q, k)' => Held(q, k))
      /\ (Ahead(q, k)' => Ahead(q, k))
  BY <1>1, <1>3 DEF Held, Ahead
<1>5. InHand' BY <1>1 DEF InHand, Execution
<1>6. LoggedFirst' BY <1>4 DEF LoggedFirst
<1>7. OneHolder' BY <1>4 DEF OneHolder
<1>8. AheadIsUnsent' BY <1>4 DEF AheadIsUnsent
<1>8a. HeldIsUntried' BY <1>4 DEF HeldIsUntried
<1>9. OkIsGone' BY <1>1 DEF OkIsGone
<1>10. AtMostOnce' /\ SentHasGone' BY DEF AtMostOnce, SentHasGone
<1> QED BY <1>2, <1>5, <1>6, <1>7, <1>8, <1>8a, <1>9, <1>10

\* Taking the next item of a batch.
LEMMA NextItemInv == ASSUME IInv, NEW r \in Runs, NextItem(r) PROVE IInv'
<1> USE DEF IInv
<1>1. CASE run' = [run EXCEPT ![r] = Idle]
  <2>1. Idle \in Execution /\ Idle.at = "idle" /\ Idle.items = {}
    BY DEF Idle, Execution
  <2> QED BY <1>1, <2>1, QuietInv DEF NextItem
<1>2. ASSUME NEW k \in run[r].items,
             run' = [run EXCEPT ![r].at = "send", ![r].item = k, ![r].items = @ \ {k}]
      PROVE  IInv'
  <2> DEFINE e == [at |-> "send", items |-> run[r].items \ {k}, item |-> k,
                   ok |-> run[r].ok]
  <2>1. run[r] \in Execution BY DEF TypeOK, Execution
  <2>2. k \in Keys BY <2>1 DEF Execution
  <2>3. e \in Execution BY <2>1, <2>2 DEF Execution
  <2>4. run' = [run EXCEPT ![r] = e]
    BY <1>2, <2>1 DEF TypeOK, Execution
  <2>5. \A x \in Keys : x \in e.items \/ (e.at = "send" /\ e.item = x) => Ahead(r, x)
    BY DEF Ahead
  <2>6. e.at = "send" /\ e.item = k /\ k \notin e.items OBVIOUS
  <2>7. UNCHANGED <<open, log, attempts, sends>> BY DEF NextItem
  <2> HIDE DEF e
  <2> QED BY <2>2, <2>3, <2>4, <2>5, <2>6, <2>7, QuietInv
<1> QED BY <1>1, <1>2 DEF NextItem

\* An execution that ends early lets go of what it held.
LEMMA RunDiesInv == ASSUME IInv, NEW r \in Runs, RunDies(r) PROVE IInv'
<1>1. Idle \in Execution /\ Idle.at = "idle" /\ Idle.items = {}
  BY DEF Idle, Execution
<1> QED BY <1>1, QuietInv DEF RunDies

\* Sending what nobody else holds.
LEMMA SendInv == ASSUME IInv, NEW r \in Runs, Send(r) PROVE IInv'
<1> USE DEF IInv
<1>1. PICK k \in Keys : /\ k = run[r].item /\ run[r].at = "send"
                        /\ k \notin run[r].items /\ run[r] \in Execution
  BY DEF Send, InHand, TypeOK, Execution
<1>2. sends[k] = 0
  BY <1>1 DEF AheadIsUnsent, Ahead
<1>3. log[k] # "none"
  BY <1>1 DEF LoggedFirst, Held, Ahead
<1>4. PICK gone \in BOOLEAN, ok \in BOOLEAN :
        /\ ok => gone
        /\ run' = [run EXCEPT ![r].at = "mark", ![r].ok = ok]
        /\ sends' = IF gone /\ sends[k] < 2 THEN [sends EXCEPT ![k] = @ + 1] ELSE sends
  BY <1>1 DEF Send
<1>5. UNCHANGED <<open, log, attempts>> BY DEF Send
<1>6. /\ sends' \in [Keys -> 0..2]
      /\ sends'[k] = IF gone THEN 1 ELSE 0
      /\ \A x \in Keys : x # k => sends'[x] = sends[x]
  BY <1>1, <1>2, <1>4 DEF TypeOK
<1>7. /\ run' \in [Runs -> Execution]
      /\ run'[r].at = "mark" /\ run'[r].ok = ok /\ run'[r].item = k
      /\ run'[r].items = run[r].items
      /\ \A q \in Runs : q # r => run'[q] = run[q]
  BY <1>1, <1>4 DEF TypeOK, Execution
<1>8. TypeOK' BY <1>5, <1>6, <1>7 DEF TypeOK, Execution
<1>9. \A q \in Runs, x \in Keys : (Held(q, x)' => Held(q, x))
      /\ (Ahead(q, x)' => Ahead(q, x))
  BY <1>1, <1>7 DEF Held, Ahead
<1>10. \A q \in Runs : ~Ahead(q, k)'
  <2>1. ~Ahead(r, k)' BY <1>1, <1>7 DEF Ahead
  <2>2. \A q \in Runs : q # r => ~Held(q, k)
    BY <1>1 DEF OneHolder, Held, Ahead
  <2> QED BY <2>1, <2>2, <1>9 DEF Held
<1>11. InHand' BY <1>1, <1>7 DEF InHand
<1>12. LoggedFirst' BY <1>3, <1>5, <1>6, <1>9 DEF LoggedFirst
<1>13. OneHolder' BY <1>9 DEF OneHolder
<1>14. AheadIsUnsent' BY <1>6, <1>9, <1>10 DEF AheadIsUnsent
<1>14a. HeldIsUntried' BY <1>5, <1>9 DEF HeldIsUntried
<1>15. OkIsGone'
  <2>1. run'[r].ok => sends'[run'[r].item] > 0 BY <1>4, <1>6, <1>7
  <2>2. ASSUME NEW q \in Runs, q # r, run'[q].at = "mark", run'[q].ok
        PROVE  sends'[run'[q].item] > 0
    <3>1. run[q].at = "mark" /\ run[q].ok /\ run'[q].item = run[q].item BY <2>2, <1>7
    <3>2. sends[run[q].item] > 0 /\ run[q].item \in Keys
      BY <3>1, <2>2 DEF OkIsGone, InHand
    <3> QED BY <1>2, <1>6, <3>1, <3>2
  <2> QED BY <2>1, <2>2 DEF OkIsGone
<1>16. AtMostOnce' BY <1>6 DEF AtMostOnce
<1>17. SentHasGone' BY <1>2, <1>5, <1>6 DEF SentHasGone
<1> QED BY <1>8, <1>11, <1>12, <1>13, <1>14, <1>14a, <1>15, <1>16, <1>17

\* Marking what was sent, or has failed.
LEMMA MarkInv == ASSUME IInv, NEW r \in Runs, Mark(r) PROVE IInv'
<1> USE DEF IInv
<1>1. PICK k \in Keys : /\ k = run[r].item /\ run[r].at = "mark"
                        /\ k \notin run[r].items /\ run[r] \in Execution
  BY DEF Mark, InHand, TypeOK, Execution
<1>2. log[k] # "none" /\ attempts[k] = 0
  BY <1>1 DEF LoggedFirst, HeldIsUntried, Held, Ahead
<1>3. run[r].ok => sends[k] > 0
  BY <1>1 DEF OkIsGone
<1>4. /\ log' \in [Keys -> {"none", "pending", "sent", "failed"}]
      /\ attempts' \in [Keys -> 0..MaxAttempts]
      /\ \A x \in Keys : x # k => log'[x] = log[x] /\ attempts'[x] = attempts[x]
      /\ log'[k] # "none"
      /\ log'[k] = "sent" => log[k] = "sent" \/ run[r].ok
  <2>1. CASE mark_reminder_sent(k) /\ run[r].ok
    BY <1>1, <1>2, <2>1 DEF mark_reminder_sent, TypeOK
  <2>2. CASE mark_reminder_failed(k)
    BY <1>1, <1>2, <2>2, ReminderAssumption DEF mark_reminder_failed, TypeOK
  <2>3. CASE UNCHANGED <<log, attempts>>
    BY <1>1, <1>2, <2>3 DEF TypeOK
  <2> QED BY <1>1, <2>1, <2>2, <2>3 DEF Mark
<1>5. UNCHANGED <<open, sends>> BY DEF Mark
<1>6. /\ run' \in [Runs -> Execution]
      /\ run'[r].at = "loop" /\ run'[r].items = run[r].items
      /\ \A q \in Runs : q # r => run'[q] = run[q]
  BY <1>1 DEF Mark, TypeOK, Execution
<1>7. TypeOK' BY <1>4, <1>5, <1>6 DEF TypeOK, Execution
<1>8. \A q \in Runs, x \in Keys : (Held(q, x)' => Held(q, x))
      /\ (Ahead(q, x)' => Ahead(q, x))
  BY <1>1, <1>6 DEF Held, Ahead
<1>9. \A q \in Runs : ~Held(q, k)'
  <2>1. ~Held(r, k)' BY <1>1, <1>6 DEF Held, Ahead
  <2>2. \A q \in Runs : q # r => ~Held(q, k)
    BY <1>1 DEF OneHolder, Held, Ahead
  <2> QED BY <2>1, <2>2, <1>8
<1>10. InHand' BY <1>6 DEF InHand
<1>11. LoggedFirst' BY <1>4, <1>5, <1>8 DEF LoggedFirst
<1>12. OneHolder' BY <1>8 DEF OneHolder
<1>13. AheadIsUnsent' BY <1>5, <1>8 DEF AheadIsUnsent
<1>14. HeldIsUntried' BY <1>4, <1>8, <1>9 DEF HeldIsUntried
<1>15. OkIsGone' BY <1>5, <1>6 DEF OkIsGone
<1>16. AtMostOnce' BY <1>5 DEF AtMostOnce
<1>17. SentHasGone' BY <1>3, <1>4, <1>5 DEF SentHasGone
<1> QED BY <1>7, <1>10, <1>11, <1>12, <1>13, <1>14, <1>15, <1>16, <1>17

\* Every step keeps the invariant.
LEMMA NextInv == ASSUME IInv, [Next]_vars PROVE IInv'
<1>1. CASE UNCHANGED vars
  BY <1>1 DEF vars, IInv, TypeOK, InHand, LoggedFirst, OneHolder, AheadIsUnsent,
     HeldIsUntried, OkIsGone, AtMostOnce, SentHasGone, Held, Ahead
<1>2. ASSUME NEW s \in Subs, Opens(s) PROVE IInv'
  BY <1>2 DEF Opens, IInv, TypeOK, InHand, LoggedFirst, OneHolder, AheadIsUnsent,
     HeldIsUntried, OkIsGone, AtMostOnce, SentHasGone, Held, Ahead
<1> QED BY <1>1, <1>2, FetchInv, NextItemInv, SendInv, MarkInv, RunDiesInv DEF Next

\* The invariant of the reminders.
LEMMA Inductive == Spec => []IInv
  BY InitInv, NextInv, PTL DEF Spec

\* The reminder log and the executions of the workflow stay typed.
THEOREM TypeCorrect == Spec => []TypeOK
<1>1. IInv => TypeOK BY DEF IInv
<1> QED BY <1>1, Inductive, PTL

\* The unique constraint, inserted and committed before a payload is handed out,
\* is enough for one message per recipient, subscription and day, whichever
\* executions overlap or die.
THEOREM NeverTwice == Spec => []AtMostOnce
<1>1. IInv => AtMostOnce BY DEF IInv
<1> QED BY <1>1, Inductive, PTL

\* mark_reminder_sent is only reached by a message that went out.
THEOREM SentOnlyIfGone == Spec => []SentHasGone
<1>1. IInv => SentHasGone BY DEF IInv
<1> QED BY <1>1, Inductive, PTL

-----------------------------------------------------------------------------
(* The lifecycle of the subscriptions *)

\* The rows a phase has read, the requests and the runs of the job.
Seen == UNION {[T -> Lifecycle!Row] : T \in SUBSET SubIds}
Requests == [kind : {"cancel", "reactivate", "renew", "update"}, sub : SubIds,
    old : Lifecycle!Row, new : Lifecycle!Row]
CleanupRuns == [phase : {"idle", "expire", "cancel", "delete"}, at : 0..MaxTime,
    seen : Seen]

Typed ==
    /\ lNow \in 0..MaxTime /\ lRow \in [SubIds -> Lifecycle!Row]
       /\ lGranted \in [SubIds -> Nat]
    /\ lReq \in [WorkerIds -> Requests \cup {Lifecycle!Free}]
       /\ lJob \in [JobIds -> CleanupRuns]
    /\ \A j \in JobIds : lJob[j].at <= lNow

\* What a request has computed, and when a phase has read.
Made ==
    /\ \A w \in WorkerIds : lReq[w] # Lifecycle!Free =>
         /\ lReq[w].kind = "cancel" => lReq[w].new.expires = lReq[w].old.expires
         /\ lReq[w].kind = "renew" => lReq[w].new.expires = lReq[w].old.expires + Period
         /\ lReq[w].new.status # lReq[w].old.status => lReq[w].new.status \in {"active",
            "cancelled"}
    /\ \A j \in JobIds : Lifecycle!Reading(j) => lJob[j].phase # "idle"

\* A row that is written keeps what the writer has not changed.
LEMMA Merged ==
    ASSUME NEW cur \in Lifecycle!Row, NEW old \in Lifecycle!Row, NEW new \in Lifecycle!Row
    PROVE  LET m == Lifecycle!Merge(cur, old, new) IN
           /\ m \in Lifecycle!Row
           /\ m.status = IF new.status = old.status THEN cur.status ELSE new.status
           /\ m.expires = IF new.expires = old.expires THEN cur.expires ELSE new.expires
           /\ m.cancelled
              = IF new.cancelled = old.cancelled THEN cur.cancelled ELSE new.cancelled
BY DEF Lifecycle!Merge, Lifecycle!Row

\* What a phase reads is a set of rows.
LEMMA SeenIs ==
    ASSUME NEW f \in Seen
    PROVE DOMAIN f \subseteq SubIds /\ \A s \in DOMAIN f : f[s] \in Lifecycle!Row
BY DEF Seen

\* A phase that has read nothing.
LEMMA NothingSeen == <<>> \in Seen /\ DOMAIN <<>> = {}
<1>1. <<>> \in [{} -> Lifecycle!Row]
    OBVIOUS
<1> QED
    BY <1>1 DEF Seen

\* The rows that a query finds.
LEMMA RowsSeen ==
    ASSUME lRow \in [SubIds -> Lifecycle!Row], NEW T \in SUBSET SubIds
    PROVE [s \in T |-> lRow[s]] \in Seen
<1>1. [s \in T |-> lRow[s]] \in [T -> Lifecycle!Row]
    OBVIOUS
<1> QED
    BY <1>1 DEF Seen

\* What the phases make of a row.
LEMMA CleanedIs ==
    ASSUME NEW r \in Lifecycle!Row, NEW at \in 0..MaxTime, NEW p \in {"expire", "cancel",
           "delete"}
    PROVE  /\ Lifecycle!Cleaned(p, r, at) \in Lifecycle!Row
           /\ Lifecycle!Cleaned(p, r, at).expires = r.expires
           /\ Lifecycle!Cleaned(p, r, at).status = CASE p = "expire" -> "expired" [] p = "cancel" -> "cancelled"
                                           [] p = "delete" -> "deleted"
           /\ p # "cancel" => Lifecycle!Cleaned(p, r, at).cancelled = r.cancelled
<1>1. CASE p = "expire"
    BY <1>1 DEF Lifecycle!Cleaned, Lifecycle!Row, Lifecycle!Live
<1>2. CASE p = "cancel"
  <2>1. at \in Lifecycle!Never..MaxTime
    BY MCAssumption DEF Lifecycle!Never, Lifecycle!LifecycleAssumption
  <2> QED
    BY <1>2, <2>1 DEF Lifecycle!Cleaned, Lifecycle!Row, Lifecycle!Live
<1>3. CASE p = "delete"
    BY <1>3 DEF Lifecycle!Cleaned, Lifecycle!Row, Lifecycle!Live
<1> QED
    BY <1>1, <1>2, <1>3

\* What a request computes from a row.
LEMMA Computed ==
    ASSUME NEW r \in Lifecycle!Row, NEW e \in Lifecycle!Ends, lNow \in 0..MaxTime,
           NEW kind \in {"cancel", "reactivate", "renew", "update"},
           NEW new, new = CASE kind = "cancel"     -> Lifecycle!cancel_subscription(r)
                            [] kind = "reactivate" -> Lifecycle!reactivate_subscription(r, e)
                            [] kind = "renew"      -> Lifecycle!renew_subscription(r)
                            [] kind = "update"     -> Lifecycle!update_subscription(r, e),
           new.expires <= Horizon
    PROVE  /\ new \in Lifecycle!Row
           /\ kind = "cancel" => new.expires = r.expires
           /\ kind = "renew" => new.expires = r.expires + Period
           /\ new.status # r.status => new.status \in {"active", "cancelled"}
<1>p. Lifecycle!Never \in Lifecycle!Never..MaxTime /\ lNow \in Lifecycle!Never..MaxTime
      /\ Period \in Nat /\ Horizon \in Nat
    BY MCAssumption DEF Lifecycle!Never, Lifecycle!LifecycleAssumption
<1>1. CASE kind = "cancel"
    BY <1>p, <1>1 DEF Lifecycle!cancel_subscription, Lifecycle!Row, Lifecycle!Live
<1>2. CASE kind = "reactivate"
    BY <1>p, <1>2 DEF Lifecycle!reactivate_subscription, Lifecycle!Row, Lifecycle!Live,
       Lifecycle!Ends
<1>3. CASE kind = "renew"
  <2>1. r.expires \in 0..Horizon /\ r.status \in Lifecycle!Live \cup {"none", "deleted",
        "removed"}
    BY DEF Lifecycle!Row
  <2>2. new = [r EXCEPT !.status = "active", !.cancelled = Lifecycle!Never,
        !.expires = r.expires + Period]
    BY <1>3 DEF Lifecycle!renew_subscription, Lifecycle!reactivate_subscription
  <2>3. new.expires = r.expires + Period /\ new.status = "active"
    BY <2>2 DEF Lifecycle!Row
  <2>4. r.expires + Period \in 0..Horizon
    BY <1>p, <2>1, <2>3
  <2> QED
    BY <1>p, <1>3, <2>2, <2>3, <2>4 DEF Lifecycle!Row, Lifecycle!Live
<1>4. CASE kind = "update"
    BY <1>p, <1>4 DEF Lifecycle!update_subscription, Lifecycle!Row, Lifecycle!Live,
       Lifecycle!Ends
<1> QED
    BY <1>1, <1>2, <1>3, <1>4

\* A request that is computed is one.
LEMMA Requested ==
    ASSUME Typed, NEW w \in WorkerIds, NEW s \in SubIds, Lifecycle!Begin(w, s)
    PROVE  \E q \in Requests :
             /\ lReq' = [lReq EXCEPT ![w] = q] /\ q.sub = s /\ q.old = lRow[s]
                /\ q # Lifecycle!Free
             /\ q.kind = "cancel" => q.new.expires = q.old.expires
             /\ q.kind = "renew" => q.new.expires = q.old.expires + Period
             /\ q.new.status # q.old.status => q.new.status \in {"active", "cancelled"}
<1>1. PICK e \in Lifecycle!Ends, kind \in {"cancel", "reactivate", "renew", "update"} :
         LET new == CASE kind = "cancel"     -> Lifecycle!cancel_subscription(lRow[s])
                      [] kind = "reactivate" -> Lifecycle!reactivate_subscription(lRow[s], e)
                      [] kind = "renew"      -> Lifecycle!renew_subscription(lRow[s])
                      [] kind = "update"     -> Lifecycle!update_subscription(lRow[s], e)
         IN /\ new.expires <= Horizon
            /\ lReq' = [lReq EXCEPT ![w] = [kind |-> kind, sub |-> s, old |-> lRow[s],
               new |-> new]]
    BY DEF Lifecycle!Begin
<1> DEFINE new == CASE kind = "cancel"     -> Lifecycle!cancel_subscription(lRow[s])
                    [] kind = "reactivate" -> Lifecycle!reactivate_subscription(lRow[s], e)
                    [] kind = "renew"      -> Lifecycle!renew_subscription(lRow[s])
                    [] kind = "update"     -> Lifecycle!update_subscription(lRow[s], e)
<1>2. lRow[s] \in Lifecycle!Row /\ lNow \in 0..MaxTime
    BY DEF Typed
<1>3. /\ new \in Lifecycle!Row
      /\ kind = "cancel" => new.expires = lRow[s].expires
      /\ kind = "renew" => new.expires = lRow[s].expires + Period
      /\ new.status # lRow[s].status => new.status \in {"active", "cancelled"}
    BY <1>1, <1>2, Computed
<1>4. lReq' = [lReq EXCEPT ![w] = [kind |-> kind, sub |-> s, old |-> lRow[s], new |-> new]]
    BY <1>1
<1> HIDE DEF new
<1> DEFINE q == [kind |-> kind, sub |-> s, old |-> lRow[s], new |-> new]
<1>5. q \in Requests /\ q.sub = s /\ q.old = lRow[s] /\ q.kind = kind /\ q.new = new
    BY <1>2, <1>3 DEF Requests
<1>6. q # Lifecycle!Free
    BY <1>5 DEF Lifecycle!Free
<1> HIDE DEF q
<1>7. lReq' = [lReq EXCEPT ![w] = q]
    BY <1>4 DEF q
<1> QED
    BY <1>3, <1>5, <1>6, <1>7

\* What the commit of a request makes of the row and of what was granted.
LEMMA Committed ==
    ASSUME Typed, Made, NEW w \in WorkerIds, Lifecycle!Commit(w)
    PROVE  LET q == lReq[w]
               s == q.sub IN
           /\ q \in Requests /\ lReq' = [lReq EXCEPT ![w] = Lifecycle!Free]
              /\ UNCHANGED <<lNow, lJob>>
           /\ \/ ~Lifecycle!Exists(s) /\ UNCHANGED <<lRow, lGranted>>
              \/ /\ Lifecycle!Exists(s)
                 /\ lRow' = [lRow EXCEPT ![s] = Lifecycle!Merge(lRow[s], q.old, q.new)]
                 /\ lGranted' = [lGranted EXCEPT ![s] = CASE q.kind = "cancel" -> lGranted[s]
                                                        [] q.kind = "renew"  -> lGranted[s] + Period
                                                        [] OTHER             -> q.new.expires]
<1>1. lReq[w] \in Requests
    BY DEF Lifecycle!Commit, Typed
<1>2. lReq[w].sub \in SubIds
    BY <1>1 DEF Requests
<1> QED
    BY <1>1, <1>2 DEF Lifecycle!Commit, Typed

\* What the commit of a phase makes of the rows.
LEMMA Applied ==
    ASSUME Typed, Made, NEW j \in JobIds, Lifecycle!Apply(j)
    PROVE  /\ UNCHANGED <<lNow, lReq, lGranted>>
           /\ \E p \in {"idle", "expire", "cancel", "delete"} :
                lJob' = [lJob EXCEPT ![j].phase = p, ![j].seen = <<>>]
           /\ \/ UNCHANGED lRow
              \/ /\ lJob[j].phase \in {"expire", "cancel", "delete"}
                 /\ lRow' = [s \in SubIds |->
                      IF s \in DOMAIN lJob[j].seen /\ Lifecycle!Exists(s)
                      THEN Lifecycle!Merge(lRow[s], lJob[j].seen[s],
                                 Lifecycle!Cleaned(lJob[j].phase, lJob[j].seen[s], lJob[j].at))
                      ELSE lRow[s]]
<1>1. lJob[j].phase \in {"expire", "cancel", "delete"} /\ Lifecycle!Reading(j)
    BY DEF Lifecycle!Apply, Typed, Made, CleanupRuns
<1>2. Lifecycle!Following[lJob[j].phase] \in {"idle", "expire", "cancel", "delete"}
    BY <1>1 DEF Lifecycle!Following
<1>3. \E p \in {"idle", "expire", "cancel", "delete"} :
         lJob' = [lJob EXCEPT ![j].phase = p, ![j].seen = <<>>]
    BY <1>2 DEF Lifecycle!Apply
<1>4. \/ UNCHANGED lRow
      \/ lRow' = [s \in SubIds |->
           IF s \in DOMAIN lJob[j].seen /\ Lifecycle!Exists(s)
           THEN Lifecycle!Merge(lRow[s], lJob[j].seen[s], Lifecycle!Cleaned(lJob[j].phase, lJob[j].seen[s], lJob[j].at))
           ELSE lRow[s]]
    BY DEF Lifecycle!Apply
<1> QED
    BY <1>1, <1>3, <1>4 DEF Lifecycle!Apply

\* A run that goes on.
LEMMA RunsOn ==
    ASSUME Typed, NEW j \in JobIds, NEW p \in {"idle", "expire", "cancel", "delete"},
           lJob' = [lJob EXCEPT ![j].phase = p, ![j].seen = <<>>], lNow' = lNow
    PROVE  /\ lJob' \in [JobIds -> CleanupRuns] /\ \A k \in JobIds : lJob'[k].at <= lNow'
           /\ lJob'[j].seen = <<>> /\ \A k \in JobIds \ {j} : lJob'[k] = lJob[k]
<1>1. lJob[j] \in CleanupRuns /\ lJob \in [JobIds -> CleanupRuns]
      /\ \A k \in JobIds : lJob[k].at <= lNow
    BY DEF Typed
<1> DEFINE x == [lJob[j] EXCEPT !.phase = p, !.seen = <<>>]
<1>2. x \in CleanupRuns /\ x.at = lJob[j].at /\ x.seen = <<>>
    BY <1>1, NothingSeen DEF CleanupRuns
<1>3. lJob' = [lJob EXCEPT ![j] = x]
    OBVIOUS
<1> HIDE DEF x
<1> QED
    BY <1>1, <1>2, <1>3

\* Every step keeps the types and what requests and phases have read.
LEMMA TypedStep == ASSUME Typed, Made, [Lifecycle!Next]_(Lifecycle!vars)
PROVE Typed' /\ Made'
<1> DEFINE Good == Typed' /\ Made'
<1>t. /\ lNow \in 0..MaxTime /\ lRow \in [SubIds -> Lifecycle!Row]
         /\ lGranted \in [SubIds -> Nat]
      /\ lReq \in [WorkerIds -> Requests \cup {Lifecycle!Free}]
         /\ lJob \in [JobIds -> CleanupRuns]
      /\ \A j \in JobIds : lJob[j].at <= lNow
    BY DEF Typed
<1>p. MaxTime \in Nat /\ Horizon \in Nat /\ Period \in Nat
    BY MCAssumption DEF Lifecycle!LifecycleAssumption
<1>1. ASSUME Lifecycle!Tick PROVE Good
  <2>1. \A j \in JobIds : lJob[j].at \in Nat
    BY <1>t, <1>p DEF CleanupRuns
  <2> QED
    BY <1>1, <1>t, <1>p, <2>1 DEF Lifecycle!Tick, Typed, Made, Lifecycle!Reading
<1>2. ASSUME NEW s \in SubIds, Lifecycle!create_subscription(s) PROVE Good
  <2>1. PICK e \in Lifecycle!Ends :
         /\ lRow' = [lRow EXCEPT ![s] = [status |-> "active", expires |-> e,
            cancelled |-> Lifecycle!Never]]
         /\ lGranted' = [lGranted EXCEPT ![s] = e]
    BY <1>2 DEF Lifecycle!create_subscription
  <2>2. [status |-> "active", expires |-> e, cancelled |-> Lifecycle!Never]
        \in Lifecycle!Row
    BY <1>p DEF Lifecycle!Row, Lifecycle!Live, Lifecycle!Ends, Lifecycle!Never
  <2>3. lRow' \in [SubIds -> Lifecycle!Row] /\ lGranted' \in [SubIds -> Nat]
    BY <1>t, <1>p, <2>1, <2>2 DEF Lifecycle!Ends
  <2> QED
    BY <1>2, <1>t, <2>3 DEF Lifecycle!create_subscription, Typed, Made, Lifecycle!Reading
<1>3. ASSUME NEW s \in SubIds, Lifecycle!delete_subscriptions_for_service(s) PROVE Good
  <2>1. [lRow[s] EXCEPT !.status = "removed"] \in Lifecycle!Row
    BY <1>t DEF Lifecycle!Row
  <2>2. lRow' \in [SubIds -> Lifecycle!Row]
    BY <1>3, <1>t, <2>1 DEF Lifecycle!delete_subscriptions_for_service
  <2> QED
    BY <1>3, <1>t, <2>2 DEF Lifecycle!delete_subscriptions_for_service, Typed, Made,
       Lifecycle!Reading
<1>4. ASSUME NEW w \in WorkerIds, Lifecycle!Commit(w) PROVE Good
  <2> DEFINE q == lReq[w]
             s == q.sub
             m == Lifecycle!Merge(lRow[s], q.old, q.new)
             g == CASE q.kind = "cancel" -> lGranted[s] [] q.kind = "renew"  -> lGranted[s] + Period
                    [] OTHER             -> q.new.expires
  <2>1. /\ q \in Requests /\ lReq' = [lReq EXCEPT ![w] = Lifecycle!Free]
           /\ UNCHANGED <<lNow, lJob>>
        /\ \/ UNCHANGED <<lRow, lGranted>>
           \/ lRow' = [lRow EXCEPT ![s] = m] /\ lGranted' = [lGranted EXCEPT ![s] = g]
    BY <1>4, Committed
  <2>2. s \in SubIds /\ q.old \in Lifecycle!Row /\ q.new \in Lifecycle!Row
    BY <2>1 DEF Requests
  <2>3. m \in Lifecycle!Row
    BY <1>t, <2>2, Merged
  <2>4. g \in Nat
    BY <1>t, <1>p, <2>2 DEF Lifecycle!Row
  <2> HIDE DEF m, g, s, q
  <2>5. lRow' \in [SubIds -> Lifecycle!Row] /\ lGranted' \in [SubIds -> Nat]
    BY <1>t, <2>1, <2>2, <2>3, <2>4
  <2>6. lReq' \in [WorkerIds -> Requests \cup {Lifecycle!Free}]
        /\ \A x \in WorkerIds : lReq'[x] # Lifecycle!Free => lReq'[x] = lReq[x]
    BY <1>t, <2>1
  <2> QED
    BY <1>t, <2>1, <2>5, <2>6 DEF Typed, Made, Lifecycle!Reading
<1>5. ASSUME NEW w \in WorkerIds, NEW s \in SubIds, Lifecycle!Begin(w, s) PROVE Good
  <2>1. PICK q \in Requests :
             /\ lReq' = [lReq EXCEPT ![w] = q] /\ q.sub = s /\ q.old = lRow[s]
                /\ q # Lifecycle!Free
             /\ q.kind = "cancel" => q.new.expires = q.old.expires
             /\ q.kind = "renew" => q.new.expires = q.old.expires + Period
             /\ q.new.status # q.old.status => q.new.status \in {"active", "cancelled"}
    BY <1>5, Requested
  <2>2. UNCHANGED <<lNow, lRow, lJob, lGranted>>
    BY <1>5 DEF Lifecycle!Begin
  <2>3. /\ lReq' \in [WorkerIds -> Requests \cup {Lifecycle!Free}] /\ lReq'[w] = q
        /\ \A x \in WorkerIds \ {w} : lReq'[x] = lReq[x]
    BY <1>t, <2>1
  <2>4. Typed'
    BY <1>t, <2>2, <2>3 DEF Typed
  <2>5. Made'
    BY <2>1, <2>2, <2>3 DEF Made, Lifecycle!Reading
  <2> QED
    BY <2>4, <2>5
<1>6. ASSUME NEW j \in JobIds, Lifecycle!run_cleanup(j) PROVE Good
  <2> DEFINE x == [lJob[j] EXCEPT !.phase = "expire", !.at = lNow]
  <2>1. lJob' = [lJob EXCEPT ![j] = x] /\ UNCHANGED <<lNow, lRow, lReq, lGranted>>
    BY <1>6 DEF Lifecycle!run_cleanup
  <2>2. x \in CleanupRuns /\ x.at = lNow /\ x.phase = "expire"
    BY <1>t DEF CleanupRuns
  <2> HIDE DEF x
  <2>3. lJob' \in [JobIds -> CleanupRuns] /\ lJob'[j] = x
        /\ \A k \in JobIds \ {j} : lJob'[k] = lJob[k]
    BY <1>t, <2>1, <2>2
  <2>4. Typed'
    BY <1>t, <1>p, <2>1, <2>2, <2>3 DEF Typed
  <2> QED
    BY <2>1, <2>2, <2>3, <2>4 DEF Made, Lifecycle!Reading
<1>7. ASSUME NEW j \in JobIds, Lifecycle!Select(j) PROVE Good
  <2> DEFINE found == {s \in SubIds : Lifecycle!Exists(s)
      /\ Lifecycle!Selects(lJob[j].phase, lRow[s], lJob[j].at)}
             x == IF found = {} THEN [lJob[j] EXCEPT !.phase = Lifecycle!Following[lJob[j].phase]]
                                ELSE [lJob[j] EXCEPT !.seen = [s \in found |-> lRow[s]]]
  <2>1. lJob' = [lJob EXCEPT ![j] = x] /\ UNCHANGED <<lNow, lRow, lReq, lGranted>>
        /\ lJob[j].phase # "idle" /\ ~Lifecycle!Reading(j)
    BY <1>7 DEF Lifecycle!Select
  <2>2. [s \in found |-> lRow[s]] \in Seen
    BY <1>t, RowsSeen
  <2>3. Lifecycle!Following[lJob[j].phase] \in {"idle", "expire", "cancel", "delete"}
    BY <1>t, <2>1 DEF CleanupRuns, Lifecycle!Following
  <2>4. lJob[j] \in CleanupRuns
    BY <1>t
  <2>5. /\ x \in CleanupRuns /\ x.at = lJob[j].at
        /\ (x.phase # "idle" /\ x.phase = lJob[j].phase) \/ x.seen = lJob[j].seen
    <3>1. CASE found = {}
        BY <2>3, <2>4, <3>1 DEF CleanupRuns
    <3>2. CASE found # {}
        BY <2>1, <2>2, <2>4, <3>2 DEF CleanupRuns
    <3> QED
        BY <3>1, <3>2
  <2> HIDE DEF x
  <2>6. lJob' \in [JobIds -> CleanupRuns] /\ lJob'[j] = x
        /\ \A k \in JobIds \ {j} : lJob'[k] = lJob[k]
    BY <1>t, <2>1, <2>5
  <2>7. Typed'
    BY <1>t, <2>1, <2>5, <2>6 DEF Typed
  <2>8. Made'
    BY <2>1, <2>5, <2>6 DEF Made, Lifecycle!Reading
  <2> QED
    BY <2>7, <2>8
<1>8. ASSUME NEW j \in JobIds, Lifecycle!Apply(j) PROVE Good
  <2> DEFINE seen == lJob[j].seen
             new(s) == Lifecycle!Cleaned(lJob[j].phase, seen[s], lJob[j].at)
  <2>1. /\ UNCHANGED <<lNow, lReq, lGranted>>
        /\ \/ UNCHANGED lRow
           \/ /\ lJob[j].phase \in {"expire", "cancel", "delete"}
              /\ lRow' = [s \in SubIds |-> IF s \in DOMAIN seen /\ Lifecycle!Exists(s)
                                        THEN Lifecycle!Merge(lRow[s], seen[s], new(s)) ELSE lRow[s]]
    BY <1>8, Applied
  <2>2. PICK p \in {"idle", "expire", "cancel", "delete"} :
           lJob' = [lJob EXCEPT ![j].phase = p, ![j].seen = <<>>]
    BY <1>8, Applied
  <2>3. /\ lJob' \in [JobIds -> CleanupRuns] /\ \A k \in JobIds : lJob'[k].at <= lNow'
        /\ lJob'[j].seen = <<>> /\ \A k \in JobIds \ {j} : lJob'[k] = lJob[k]
    BY <2>1, <2>2, RunsOn
  <2>4. ASSUME NEW s \in DOMAIN seen, lJob[j].phase \in {"expire", "cancel", "delete"}
        PROVE  s \in SubIds /\ Lifecycle!Merge(lRow[s], seen[s], new(s)) \in Lifecycle!Row
    <3>1. seen \in Seen /\ lJob[j].at \in 0..MaxTime
        BY <1>t DEF CleanupRuns
    <3>2. s \in SubIds /\ seen[s] \in Lifecycle!Row
        BY <3>1, SeenIs
    <3>3. new(s) \in Lifecycle!Row /\ lRow[s] \in Lifecycle!Row
        BY <1>t, <2>4, <3>1, <3>2, CleanedIs
    <3> HIDE DEF new
    <3> QED
        BY <3>2, <3>3, Merged
  <2> HIDE DEF new, seen
  <2>5. lRow' \in [SubIds -> Lifecycle!Row]
    BY <1>t, <2>1, <2>4
  <2>6. Typed'
    BY <1>t, <2>1, <2>3, <2>5 DEF Typed
  <2>7. Made'
    BY <2>1, <2>3 DEF Made, Lifecycle!Reading
  <2> QED
    BY <2>6, <2>7
<1>9. ASSUME NEW j \in JobIds, Lifecycle!JobDies(j) PROVE Good
  <2>1. lJob' = [lJob EXCEPT ![j].phase = "idle", ![j].seen = <<>>]
        /\ UNCHANGED <<lNow, lRow, lReq, lGranted>>
    BY <1>9 DEF Lifecycle!JobDies
  <2>2. /\ lJob' \in [JobIds -> CleanupRuns] /\ \A k \in JobIds : lJob'[k].at <= lNow'
        /\ lJob'[j].seen = <<>> /\ \A k \in JobIds \ {j} : lJob'[k] = lJob[k]
    BY <2>1, RunsOn
  <2> QED
    BY <1>t, <2>1, <2>2 DEF Typed, Made, Lifecycle!Reading
<1>10. ASSUME UNCHANGED Lifecycle!vars PROVE Good
    BY <1>10, <1>t DEF Lifecycle!vars, Typed, Made, Lifecycle!Reading
<1> HIDE DEF Good
<1>11. Good
    BY <1>1, <1>2, <1>3, <1>4, <1>5, <1>6, <1>7, <1>8, <1>9, <1>10 DEF Lifecycle!Next
<1> QED
    BY <1>11 DEF Good

\* Where nothing overlaps: a phase has read what its query selects, which is
\* still so, and nothing else has read.
Chosen ==
    \A j \in JobIds : \A s \in DOMAIN lJob[j].seen :
      Lifecycle!Selects(lJob[j].phase, lJob[j].seen[s], lJob[j].at)
          /\ lRow[s] = lJob[j].seen[s]
Alone ==
    /\ \A j, k \in JobIds : Lifecycle!Reading(j) /\ Lifecycle!Reading(k) => j = k
    /\ \A w \in WorkerIds, j \in JobIds : lReq[w] # Lifecycle!Free => ~Lifecycle!Reading(j)
SerialInv == Typed /\ Made /\ Chosen /\ Alone

\* What ExpiresOnlyPast and DeletedWasCancelled say of a step.
ExpiresPast ==
    \A s \in SubIds :
      lRow'[s].status = "expired" /\ lRow[s].status # "expired" =>
        lRow[s].status = "active" /\ lRow[s].expires <= lNow
DeletesCancelled ==
    \A s \in SubIds :
      lRow'[s].status = "deleted" /\ lRow[s].status # "deleted" =>
        /\ lRow[s].status = "cancelled"
        /\ lRow[s].cancelled # Lifecycle!Never /\ lRow[s].cancelled + Keep <= lNow

\* Who has read something is not reading nothing.
LEMMA SeenReads ==
    ASSUME NEW j \in JobIds, NEW s \in DOMAIN lJob[j].seen PROVE Lifecycle!Reading(j)
BY NothingSeen DEF Lifecycle!Reading

\* Where nothing overlaps, every step keeps a phase alone with what it has chosen.
LEMMA SerialStep ==
    ASSUME ~lOverlap, SerialInv, [Lifecycle!Next]_(Lifecycle!vars)
    PROVE  SerialInv' /\ ExpiresPast /\ DeletesCancelled
<1> DEFINE Good == Chosen' /\ Alone' /\ ExpiresPast /\ DeletesCancelled
<1>t. /\ lNow \in 0..MaxTime /\ lRow \in [SubIds -> Lifecycle!Row]
      /\ lReq \in [WorkerIds -> Requests \cup {Lifecycle!Free}]
         /\ lJob \in [JobIds -> CleanupRuns]
      /\ (\A j \in JobIds : lJob[j].at <= lNow) /\ Chosen /\ Alone /\ Typed /\ Made
    BY DEF SerialInv, Typed
<1>0. Typed' /\ Made'
    BY TypedStep DEF SerialInv
<1>d. \A j \in JobIds : DOMAIN lJob[j].seen \subseteq SubIds
    BY <1>t, SeenIs DEF CleanupRuns
<1>1. ASSUME Lifecycle!Tick PROVE Good
    BY <1>1, <1>t DEF Lifecycle!Tick, Chosen, Alone, Lifecycle!Reading, ExpiresPast,
       DeletesCancelled
<1>2. ASSUME NEW s \in SubIds, Lifecycle!create_subscription(s) PROVE Good
  <2>1. PICK e \in Lifecycle!Ends :
         lRow' = [lRow EXCEPT ![s] = [status |-> "active", expires |-> e,
             cancelled |-> Lifecycle!Never]]
    BY <1>2 DEF Lifecycle!create_subscription
  <2>2. lRow[s].status = "none" /\ UNCHANGED <<lNow, lReq, lJob>>
    BY <1>2 DEF Lifecycle!create_subscription
  <2>3. lRow'[s].status = "active" /\ \A x \in SubIds \ {s} : lRow'[x] = lRow[x]
    BY <1>t, <2>1
  <2>4. ASSUME NEW j \in JobIds, s \in DOMAIN lJob[j].seen PROVE FALSE
    <3>1. Lifecycle!Selects(lJob[j].phase, lRow[s], lJob[j].at)
          /\ lJob[j].phase \in {"expire", "cancel", "delete"}
        BY <1>t, <2>4, SeenReads DEF Chosen, Made, CleanupRuns
    <3> QED
        BY <2>2, <3>1 DEF Lifecycle!Selects
  <2>5. Chosen' /\ Alone'
    BY <1>t, <1>d, <2>2, <2>3, <2>4 DEF Chosen, Alone, Lifecycle!Reading
  <2> QED
    BY <2>3, <2>5 DEF ExpiresPast, DeletesCancelled
<1>3. ASSUME NEW s \in SubIds, Lifecycle!delete_subscriptions_for_service(s) PROVE Good
  <2>1. /\ \A j \in JobIds : ~Lifecycle!Reading(j)
        /\ lRow' = [lRow EXCEPT ![s].status = "removed"] /\ UNCHANGED <<lNow, lReq, lJob>>
    BY <1>3 DEF Lifecycle!delete_subscriptions_for_service, Lifecycle!Quiet
  <2>2. lRow'[s].status = "removed" /\ \A x \in SubIds \ {s} : lRow'[x] = lRow[x]
    BY <1>t, <2>1 DEF Lifecycle!Row
  <2>3. Chosen' /\ Alone'
    BY <1>t, <2>1, SeenReads DEF Chosen, Alone, Lifecycle!Reading
  <2> QED
    BY <2>2, <2>3 DEF ExpiresPast, DeletesCancelled
<1>4. ASSUME NEW w \in WorkerIds, Lifecycle!Commit(w) PROVE Good
  <2> DEFINE q == lReq[w]
             s == q.sub
             m == Lifecycle!Merge(lRow[s], q.old, q.new)
  <2>1. /\ q \in Requests /\ lReq' = [lReq EXCEPT ![w] = Lifecycle!Free]
           /\ UNCHANGED <<lNow, lJob>>
        /\ UNCHANGED lRow \/ lRow' = [lRow EXCEPT ![s] = m]
    BY <1>4, <1>t, Committed
  <2>2. s \in SubIds /\ q.old \in Lifecycle!Row /\ q.new \in Lifecycle!Row
        /\ q # Lifecycle!Free
    BY <1>4, <2>1 DEF Requests, Lifecycle!Commit
  <2>3. m.status = lRow[s].status \/ m.status \in {"active", "cancelled"}
    <3>1. m.status = IF q.new.status = q.old.status THEN lRow[s].status ELSE q.new.status
        BY <1>t, <2>2, Merged
    <3> QED
        BY <1>t, <2>2, <3>1 DEF Made
  <2>4. \A j \in JobIds : ~Lifecycle!Reading(j)
    BY <1>t, <2>2 DEF Alone
  <2>5. \A x \in WorkerIds : lReq'[x] # Lifecycle!Free => lReq[x] # Lifecycle!Free
    BY <1>t, <2>1
  <2> HIDE DEF m, s, q
  <2>6. Chosen' /\ Alone'
    BY <1>t, <2>1, <2>4, <2>5, SeenReads DEF Chosen, Alone, Lifecycle!Reading
  <2>7. \A x \in SubIds : lRow'[x].status = lRow[x].status \/ lRow'[x].status \in {"active",
        "cancelled"}
    BY <1>t, <2>1, <2>2, <2>3
  <2> QED
    BY <2>6, <2>7 DEF ExpiresPast, DeletesCancelled
<1>5. ASSUME NEW w \in WorkerIds, NEW s \in SubIds, Lifecycle!Begin(w, s) PROVE Good
  <2>1. (\A j \in JobIds : ~Lifecycle!Reading(j)) /\ UNCHANGED <<lNow, lRow, lJob>>
    BY <1>5 DEF Lifecycle!Begin, Lifecycle!Quiet
  <2>2. Chosen' /\ Alone'
    BY <1>t, <2>1, SeenReads DEF Chosen, Alone, Lifecycle!Reading
  <2> QED
    BY <2>1, <2>2 DEF ExpiresPast, DeletesCancelled
<1>6. ASSUME NEW j \in JobIds, Lifecycle!run_cleanup(j) PROVE Good
  <2>1. ~Lifecycle!Reading(j)
    BY <1>6, <1>t DEF Lifecycle!run_cleanup, Made
  <2>2. UNCHANGED <<lNow, lRow, lReq>>
    BY <1>6 DEF Lifecycle!run_cleanup
  <2>3. \A k \in JobIds : lJob'[k].seen = lJob[k].seen /\ (k # j => lJob'[k] = lJob[k])
    BY <1>6, <1>t DEF Lifecycle!run_cleanup, CleanupRuns
  <2>4. Chosen'
    BY <1>t, <2>1, <2>2, <2>3, SeenReads DEF Chosen
  <2>5. Alone'
    BY <1>t, <2>2, <2>3 DEF Alone, Lifecycle!Reading
  <2> QED
    BY <2>2, <2>4, <2>5 DEF ExpiresPast, DeletesCancelled
<1>7. ASSUME NEW j \in JobIds, Lifecycle!Select(j) PROVE Good
  <2> DEFINE found == {s \in SubIds : Lifecycle!Exists(s)
      /\ Lifecycle!Selects(lJob[j].phase, lRow[s], lJob[j].at)}
             x == IF found = {} THEN [lJob[j] EXCEPT !.phase = Lifecycle!Following[lJob[j].phase]]
                                ELSE [lJob[j] EXCEPT !.seen = [s \in found |-> lRow[s]]]
  <2>1. /\ lJob' = [lJob EXCEPT ![j] = x] /\ UNCHANGED <<lNow, lRow, lReq, lGranted>>
        /\ \A k \in JobIds : ~Lifecycle!Reading(k)
        /\ \A w \in WorkerIds : lReq[w] = Lifecycle!Free
    BY <1>7 DEF Lifecycle!Select, Lifecycle!Quiet
  <2>2. \A s \in DOMAIN x.seen : Lifecycle!Selects(x.phase, x.seen[s], x.at)
        /\ lRow[s] = x.seen[s]
    <3>1. CASE found = {}
      <4>1. x.seen = lJob[j].seen
        BY <1>t, <3>1 DEF CleanupRuns
      <4> QED
        BY <2>1, <4>1, SeenReads
    <3>2. CASE found # {}
      <4>1. x.seen = [s \in found |-> lRow[s]] /\ x.phase = lJob[j].phase
            /\ x.at = lJob[j].at
        BY <1>t, <3>2 DEF CleanupRuns
      <4> QED
        BY <4>1
    <3> QED
        BY <3>1, <3>2
  <2> HIDE DEF x
  <2>3. lJob'[j] = x /\ \A k \in JobIds \ {j} : lJob'[k] = lJob[k]
    BY <1>t, <2>1
  <2>4. Chosen'
    BY <1>t, <2>1, <2>2, <2>3 DEF Chosen
  <2>5. Alone'
    BY <1>t, <2>1, <2>3 DEF Alone, Lifecycle!Reading
  <2> QED
    BY <2>1, <2>4, <2>5 DEF ExpiresPast, DeletesCancelled
<1>8. ASSUME NEW j \in JobIds, Lifecycle!Apply(j) PROVE Good
  <2> DEFINE seen == lJob[j].seen
             p == lJob[j].phase
             new(s) == Lifecycle!Cleaned(p, seen[s], lJob[j].at)
  <2>1. /\ UNCHANGED <<lNow, lReq, lGranted>>
        /\ \/ UNCHANGED lRow
           \/ /\ p \in {"expire", "cancel", "delete"}
              /\ lRow' = [s \in SubIds |-> IF s \in DOMAIN seen /\ Lifecycle!Exists(s)
                                        THEN Lifecycle!Merge(lRow[s], seen[s], new(s)) ELSE lRow[s]]
    BY <1>8, <1>t, Applied
  <2>2. PICK p2 \in {"idle", "expire", "cancel", "delete"} :
           lJob' = [lJob EXCEPT ![j].phase = p2, ![j].seen = <<>>]
    BY <1>8, <1>t, Applied
  <2>3. lJob'[j].seen = <<>> /\ \A k \in JobIds \ {j} : lJob'[k] = lJob[k]
    BY <1>t, <2>1, <2>2, RunsOn
  <2>4. Lifecycle!Reading(j) /\ \A k \in JobIds \ {j} : ~Lifecycle!Reading(k)
    BY <1>8, <1>t DEF Lifecycle!Apply, Alone
  <2>5. Chosen'
    BY <2>3, <2>4, SeenReads, NothingSeen DEF Chosen
  <2>6. Alone'
    BY <1>t, <2>1, <2>3 DEF Alone, Lifecycle!Reading
  <2>7. ASSUME NEW s \in SubIds, lRow'[s] # lRow[s]
        PROVE  /\ lRow'[s].status = "expired" /\ lRow[s].status # "expired" =>
                    lRow[s].status = "active" /\ lRow[s].expires <= lNow
               /\ lRow'[s].status = "deleted" /\ lRow[s].status # "deleted" =>
                    /\ lRow[s].status = "cancelled"
                    /\ lRow[s].cancelled # Lifecycle!Never
                       /\ lRow[s].cancelled + Keep <= lNow
    <3>1. /\ p \in {"expire", "cancel", "delete"} /\ s \in DOMAIN seen
          /\ lRow'[s] = Lifecycle!Merge(lRow[s], seen[s], new(s))
        BY <1>t, <2>1, <2>7
    <3>2. lRow[s] = seen[s] /\ Lifecycle!Selects(p, lRow[s], lJob[j].at)
          /\ lRow[s] \in Lifecycle!Row
        BY <1>t, <3>1 DEF Chosen
    <3>3. lJob[j].at \in 0..MaxTime /\ lJob[j].at <= lNow
        BY <1>t DEF CleanupRuns
    <3>4. /\ new(s) \in Lifecycle!Row
          /\ new(s).status = CASE p = "expire" -> "expired" [] p = "cancel" -> "cancelled"
                               [] p = "delete" -> "deleted"
        BY <3>1, <3>2, <3>3, CleanedIs
    <3> HIDE DEF new
    <3>5. lRow'[s].status
          = IF new(s).status = seen[s].status THEN lRow[s].status ELSE new(s).status
        BY <3>1, <3>2, <3>4, Merged
    <3> HIDE DEF p, seen
    <3>6. /\ lRow[s].expires \in Int /\ lRow[s].cancelled \in Int /\ Keep \in Int
          /\ lNow \in Int /\ lJob[j].at \in Int
        BY <1>t, <3>2, <3>3, MCAssumption DEF Lifecycle!Row, Lifecycle!LifecycleAssumption,
           Lifecycle!Never
    <3>7. CASE p = "expire"
        BY <3>2, <3>3, <3>4, <3>5, <3>6, <3>7 DEF Lifecycle!Selects
    <3>8. CASE p = "cancel"
        BY <3>2, <3>4, <3>5, <3>8
    <3>9. CASE p = "delete"
      <4>1. lRow[s].status = "cancelled" /\ lRow[s].cancelled # Lifecycle!Never
            /\ lRow[s].cancelled + Keep <= lJob[j].at
        BY <3>2, <3>9 DEF Lifecycle!Selects
      <4>2. lRow[s].cancelled + Keep <= lNow
        BY <3>3, <3>6, <4>1
      <4>3. lRow'[s].status # "expired"
        BY <3>2, <3>4, <3>5, <3>9, <4>1
      <4> QED
        BY <4>1, <4>2, <4>3
    <3> QED
        BY <3>1, <3>7, <3>8, <3>9
  <2> QED
    BY <2>5, <2>6, <2>7 DEF ExpiresPast, DeletesCancelled
<1>9. ASSUME NEW j \in JobIds, Lifecycle!JobDies(j) PROVE Good
  <2>1. lJob' = [lJob EXCEPT ![j].phase = "idle", ![j].seen = <<>>]
        /\ UNCHANGED <<lNow, lRow, lReq, lGranted>>
    BY <1>9 DEF Lifecycle!JobDies
  <2>2. lJob'[j].seen = <<>> /\ \A k \in JobIds \ {j} : lJob'[k] = lJob[k]
    BY <1>t, <2>1, RunsOn
  <2>3. Chosen'
    BY <1>t, <2>1, <2>2, NothingSeen DEF Chosen
  <2>4. Alone'
    BY <1>t, <2>1, <2>2 DEF Alone, Lifecycle!Reading
  <2> QED
    BY <2>1, <2>3, <2>4 DEF ExpiresPast, DeletesCancelled
<1>10. ASSUME UNCHANGED Lifecycle!vars PROVE Good
    BY <1>10, <1>t DEF Lifecycle!vars, Chosen, Alone, Lifecycle!Reading, ExpiresPast,
       DeletesCancelled
<1> HIDE DEF Good
<1>11. Good
    BY <1>1, <1>2, <1>3, <1>4, <1>5, <1>6, <1>7, <1>8, <1>9, <1>10 DEF Lifecycle!Next
<1> QED
    BY <1>0, <1>11 DEF Good, SerialInv

\* One request at a time; phases of the job overlap with it.
OneWorker == \A w, x \in WorkerIds : w = x

\* What a request has read of expires_at is still so.
ReadLasts ==
    \A w \in WorkerIds : lReq[w] # Lifecycle!Free =>
      /\ lRow[lReq[w].sub].status # "none"
      /\ Lifecycle!Exists(lReq[w].sub) => lReq[w].old.expires = lRow[lReq[w].sub].expires
RenewInv == Typed /\ Made /\ ReadLasts /\ Lifecycle!RenewalsAdd

\* What NotRevived says of a step.
StaysGone == \A s \in SubIds : lRow[s].status \in {"deleted",
    "removed"} => lRow'[s] = lRow[s]

\* What has gone stays away, and an existing row does not become a new one.
LEMMA GoneStep == ASSUME Typed, Made, [Lifecycle!Next]_(Lifecycle!vars) PROVE StaysGone
<1>t. /\ lRow \in [SubIds -> Lifecycle!Row] /\ lNow \in 0..MaxTime
      /\ lReq \in [WorkerIds -> Requests \cup {Lifecycle!Free}]
         /\ lJob \in [JobIds -> CleanupRuns]
    BY DEF Typed
<1>1. ASSUME NEW s \in SubIds,
             Lifecycle!create_subscription(s) \/ Lifecycle!delete_subscriptions_for_service(s) PROVE StaysGone
    BY <1>1, <1>t DEF Lifecycle!create_subscription,
       Lifecycle!delete_subscriptions_for_service, StaysGone, Lifecycle!Exists,
           Lifecycle!Live
<1>2. ASSUME NEW w \in WorkerIds, Lifecycle!Commit(w) PROVE StaysGone
    BY <1>2, <1>t, Committed DEF StaysGone, Lifecycle!Exists, Lifecycle!Live, Requests
<1>3. ASSUME NEW j \in JobIds, Lifecycle!Apply(j) PROVE StaysGone
    BY <1>3, <1>t, Applied DEF StaysGone, Lifecycle!Exists, Lifecycle!Live
<1>4. ASSUME UNCHANGED lRow PROVE StaysGone
    BY <1>4 DEF StaysGone
<1> QED
    BY <1>1, <1>2, <1>3, <1>4 DEF Lifecycle!Next, Lifecycle!vars, Lifecycle!Tick,
       Lifecycle!Begin, Lifecycle!run_cleanup, Lifecycle!Select, Lifecycle!JobDies

\* Every step keeps the grants.
LEMMA RenewStep ==
    ASSUME OneWorker, RenewInv, [Lifecycle!Next]_(Lifecycle!vars) PROVE RenewInv'
<1> DEFINE Good == ReadLasts' /\ Lifecycle!RenewalsAdd'
<1>t. /\ lNow \in 0..MaxTime /\ lRow \in [SubIds -> Lifecycle!Row]
         /\ lGranted \in [SubIds -> Nat]
      /\ lReq \in [WorkerIds -> Requests \cup {Lifecycle!Free}]
         /\ lJob \in [JobIds -> CleanupRuns]
      /\ ReadLasts /\ Lifecycle!RenewalsAdd /\ Typed /\ Made
    BY DEF RenewInv, Typed
<1>0. Typed' /\ Made'
    BY TypedStep DEF RenewInv
<1>s. \A w \in WorkerIds : lReq[w] # Lifecycle!Free => lReq[w].sub \in SubIds
    BY <1>t DEF Requests
<1>u. ASSUME UNCHANGED <<lRow, lGranted>>, \A w \in WorkerIds : lReq'[w] # Lifecycle!Free
             => lReq'[w] = lReq[w]
      PROVE  Good
    BY <1>t, <1>u DEF ReadLasts, Lifecycle!RenewalsAdd, Lifecycle!Exists
<1>2. ASSUME NEW s \in SubIds, Lifecycle!create_subscription(s) PROVE Good
  <2>1. PICK e \in Lifecycle!Ends :
         /\ lRow' = [lRow EXCEPT ![s] = [status |-> "active", expires |-> e,
            cancelled |-> Lifecycle!Never]]
         /\ lGranted' = [lGranted EXCEPT ![s] = e]
    BY <1>2 DEF Lifecycle!create_subscription
  <2>2. lRow[s].status = "none" /\ lReq' = lReq
    BY <1>2 DEF Lifecycle!create_subscription
  <2>3. /\ lRow'[s].status = "active" /\ lRow'[s].expires = e /\ lGranted'[s] = e
        /\ \A x \in SubIds \ {s} : lRow'[x] = lRow[x] /\ lGranted'[x] = lGranted[x]
    BY <1>t, <2>1
  <2>4. ReadLasts'
    BY <1>t, <1>s, <2>2, <2>3 DEF ReadLasts, Lifecycle!Exists
  <2> QED
    BY <1>t, <2>3, <2>4 DEF Lifecycle!RenewalsAdd, Lifecycle!Exists
<1>3. ASSUME NEW s \in SubIds, Lifecycle!delete_subscriptions_for_service(s) PROVE Good
  <2>1. lRow' = [lRow EXCEPT ![s].status = "removed"] /\ UNCHANGED <<lReq, lGranted>>
    BY <1>3 DEF Lifecycle!delete_subscriptions_for_service
  <2>2. lRow'[s].status = "removed" /\ \A x \in SubIds \ {s} : lRow'[x] = lRow[x]
    BY <1>t, <2>1 DEF Lifecycle!Row
  <2>3. ReadLasts'
    BY <1>t, <1>s, <2>1, <2>2 DEF ReadLasts, Lifecycle!Exists, Lifecycle!Live
  <2> QED
    BY <1>t, <2>1, <2>2, <2>3 DEF Lifecycle!RenewalsAdd, Lifecycle!Exists, Lifecycle!Live
<1>4. ASSUME NEW w \in WorkerIds, Lifecycle!Commit(w) PROVE Good
  <2> DEFINE q == lReq[w]
             s == q.sub
             m == Lifecycle!Merge(lRow[s], q.old, q.new)
             g == CASE q.kind = "cancel" -> lGranted[s] [] q.kind = "renew"  -> lGranted[s] + Period
                    [] OTHER             -> q.new.expires
  <2>1. /\ q \in Requests /\ lReq' = [lReq EXCEPT ![w] = Lifecycle!Free]
        /\ \/ UNCHANGED <<lRow, lGranted>>
           \/ /\ Lifecycle!Exists(s) /\ lRow' = [lRow EXCEPT ![s] = m]
              /\ lGranted' = [lGranted EXCEPT ![s] = g]
    BY <1>4, <1>t, Committed
  <2>2. s \in SubIds /\ q.old \in Lifecycle!Row /\ q.new \in Lifecycle!Row
        /\ q # Lifecycle!Free /\ lRow[s] \in Lifecycle!Row
    BY <1>4, <1>t, <2>1 DEF Requests, Lifecycle!Commit
  <2>3. \A x \in WorkerIds : lReq'[x] = Lifecycle!Free
    BY <1>t, <2>1 DEF OneWorker
  <2>4. ReadLasts'
    BY <2>3 DEF ReadLasts
  <2>5. Lifecycle!Exists(s) => m.expires = g
    <3> SUFFICES ASSUME Lifecycle!Exists(s) PROVE m.expires = g
        OBVIOUS
    <3>1. m.expires = IF q.new.expires = q.old.expires THEN lRow[s].expires ELSE q.new.expires
        BY <2>2, Merged
    <3>2. q.old.expires = lRow[s].expires /\ lRow[s].expires = lGranted[s]
        BY <1>t, <2>2 DEF ReadLasts, Lifecycle!RenewalsAdd
    <3>3. /\ q.kind = "cancel" => q.new.expires = q.old.expires
          /\ q.kind = "renew" => q.new.expires = q.old.expires + Period
        BY <1>t, <2>2 DEF Made
    <3> QED
        BY <3>1, <3>2, <3>3
  <2> HIDE DEF m, g, s, q
  <2>6. Lifecycle!RenewalsAdd'
    <3>1. CASE UNCHANGED <<lRow, lGranted>>
        BY <1>t, <3>1 DEF Lifecycle!RenewalsAdd, Lifecycle!Exists
    <3>2. CASE Lifecycle!Exists(s) /\ lRow' = [lRow EXCEPT ![s] = m]
               /\ lGranted' = [lGranted EXCEPT ![s] = g]
        BY <1>t, <2>2, <2>5, <3>2 DEF Lifecycle!RenewalsAdd, Lifecycle!Exists
    <3> QED
        BY <2>1, <3>1, <3>2
  <2> QED
    BY <2>4, <2>6
<1>5. ASSUME NEW w \in WorkerIds, NEW s \in SubIds, Lifecycle!Begin(w, s) PROVE Good
  <2>1. PICK q \in Requests : lReq' = [lReq EXCEPT ![w] = q] /\ q.sub = s /\ q.old = lRow[s]
    BY <1>5, <1>t, Requested
  <2>2. UNCHANGED <<lRow, lGranted>> /\ Lifecycle!Exists(s)
    BY <1>5 DEF Lifecycle!Begin
  <2>3. lReq'[w] = q /\ \A x \in WorkerIds \ {w} : lReq'[x] = lReq[x]
    BY <1>t, <2>1
  <2>4. ReadLasts'
    BY <1>t, <2>1, <2>2, <2>3 DEF ReadLasts, Lifecycle!Exists, Lifecycle!Live
  <2> QED
    BY <1>t, <2>2, <2>4 DEF Lifecycle!RenewalsAdd, Lifecycle!Exists
<1>8. ASSUME NEW j \in JobIds, Lifecycle!Apply(j) PROVE Good
  <2> DEFINE seen == lJob[j].seen
             p == lJob[j].phase
             new(s) == Lifecycle!Cleaned(p, seen[s], lJob[j].at)
  <2>1. /\ UNCHANGED <<lReq, lGranted>>
        /\ \/ UNCHANGED lRow
           \/ /\ p \in {"expire", "cancel", "delete"}
              /\ lRow' = [s \in SubIds |-> IF s \in DOMAIN seen /\ Lifecycle!Exists(s)
                                        THEN Lifecycle!Merge(lRow[s], seen[s], new(s)) ELSE lRow[s]]
    BY <1>8, <1>t, Applied
  <2>2. ASSUME NEW s \in SubIds, lRow'[s] # lRow[s]
        PROVE  Lifecycle!Exists(s) /\ lRow'[s].expires = lRow[s].expires
               /\ lRow'[s].status # "none"
    <3>1. /\ p \in {"expire", "cancel", "delete"} /\ s \in DOMAIN seen
             /\ Lifecycle!Exists(s)
          /\ lRow'[s] = Lifecycle!Merge(lRow[s], seen[s], new(s))
        BY <1>t, <2>1, <2>2
    <3>2. seen \in Seen /\ lJob[j].at \in 0..MaxTime
        BY <1>t DEF CleanupRuns
    <3>3. seen[s] \in Lifecycle!Row /\ lRow[s] \in Lifecycle!Row
        BY <1>t, <3>1, <3>2, SeenIs
    <3>4. /\ new(s) \in Lifecycle!Row /\ new(s).expires = seen[s].expires
          /\ new(s).status = CASE p = "expire" -> "expired" [] p = "cancel" -> "cancelled"
                               [] p = "delete" -> "deleted"
        BY <3>1, <3>2, <3>3, CleanedIs
    <3> HIDE DEF new
    <3>5. /\ lRow'[s].status
             = IF new(s).status = seen[s].status THEN lRow[s].status ELSE new(s).status
          /\ lRow'[s].expires = IF new(s).expires = seen[s].expires THEN lRow[s].expires
                                                                   ELSE new(s).expires
        BY <3>1, <3>3, <3>4, Merged
    <3> HIDE DEF seen
    <3> QED
        BY <3>1, <3>4, <3>5 DEF Lifecycle!Exists, Lifecycle!Live
  <2>3. ReadLasts'
    BY <1>t, <1>s, <2>1, <2>2 DEF ReadLasts, Lifecycle!Exists
  <2>4. Lifecycle!RenewalsAdd'
    BY <1>t, <2>1, <2>2 DEF Lifecycle!RenewalsAdd, Lifecycle!Exists
  <2> QED
    BY <2>3, <2>4
<1> HIDE DEF Good
<1>11. Good
    BY <1>u, <1>2, <1>3, <1>4, <1>5, <1>8 DEF Lifecycle!Next, Lifecycle!vars,
       Lifecycle!Tick, Lifecycle!run_cleanup, Lifecycle!Select, Lifecycle!JobDies
<1> QED
    BY <1>0, <1>11 DEF Good, RenewInv

\* In every behaviour: the grants hold, and where nothing overlaps the phases
\* are alone with what they have chosen.
LifecycleInv == RenewInv /\ (~lOverlap => Chosen /\ Alone)

\* Where the subscriptions begin, nothing has been read.
LEMMA LifecycleInit == ASSUME Lifecycle!Init PROVE LifecycleInv
<1>p. MaxTime \in Nat /\ Horizon \in Nat
    BY MCAssumption DEF Lifecycle!LifecycleAssumption
<1> DEFINE r == [status |-> "none", expires |-> 0, cancelled |-> Lifecycle!Never]
           x == [phase |-> "idle", at |-> 0, seen |-> <<>>]
<1>1. r \in Lifecycle!Row /\ r.status = "none"
    BY <1>p DEF Lifecycle!Row, Lifecycle!Never
<1>2. x \in CleanupRuns /\ x.at = 0 /\ x.seen = <<>>
    BY <1>p, NothingSeen DEF CleanupRuns
<1>3. /\ lNow = 0 /\ lRow = [s \in SubIds |-> r] /\ lReq = [w
         \in WorkerIds |-> Lifecycle!Free]
      /\ lJob = [j \in JobIds |-> x] /\ lGranted = [s \in SubIds |-> 0]
    BY DEF Lifecycle!Init
<1> HIDE DEF r, x
<1>4. Typed
    BY <1>p, <1>1, <1>2, <1>3 DEF Typed
<1>5. Made /\ ReadLasts /\ Alone
    BY <1>2, <1>3 DEF Made, ReadLasts, Alone, Lifecycle!Reading
<1>6. Lifecycle!RenewalsAdd
    BY <1>1, <1>3 DEF Lifecycle!RenewalsAdd, Lifecycle!Exists, Lifecycle!Live
<1>7. Chosen
    BY <1>2, <1>3, NothingSeen DEF Chosen
<1> QED
    BY <1>4, <1>5, <1>6, <1>7 DEF LifecycleInv, RenewInv

\* Whether anything overlaps is settled at the start.
LEMMA OverlapStays == ASSUME [Lifecycle!Next]_(Lifecycle!vars) PROVE lOverlap' = lOverlap
BY DEF Lifecycle!Next, Lifecycle!vars, Lifecycle!Tick, Lifecycle!create_subscription,
   Lifecycle!delete_subscriptions_for_service, Lifecycle!Commit,
       Lifecycle!Begin, Lifecycle!run_cleanup, Lifecycle!Select, Lifecycle!Apply,
           Lifecycle!JobDies

\* Every step keeps the invariant, and is one the properties allow.
LEMMA LifecycleStep ==
    ASSUME OneWorker, LifecycleInv, [Lifecycle!Next]_(Lifecycle!vars)
    PROVE  LifecycleInv' /\ (~lOverlap => ExpiresPast /\ DeletesCancelled) /\ StaysGone
<1>1. RenewInv' /\ StaysGone
    BY RenewStep, GoneStep DEF LifecycleInv, RenewInv
<1>2. ASSUME ~lOverlap PROVE Chosen' /\ Alone' /\ ExpiresPast /\ DeletesCancelled
    BY <1>2, SerialStep DEF LifecycleInv, RenewInv, SerialInv
<1> QED
    BY <1>1, <1>2, OverlapStays DEF LifecycleInv

\* What the module calls a type.
LEMMA LifecycleTyped == ASSUME Typed PROVE Lifecycle!TypeOK
<1>1. ASSUME NEW j \in JobIds
      PROVE  /\ lJob[j].phase \in {"idle", "expire", "cancel", "delete"}
             /\ lJob[j].at \in 0..lNow /\ DOMAIN lJob[j].seen \subseteq SubIds
  <2>1. lJob[j] \in CleanupRuns /\ lJob[j].at <= lNow /\ lNow \in 0..MaxTime
    BY DEF Typed
  <2>2. lJob[j].seen \in Seen /\ lJob[j].at \in 0..MaxTime
    BY <2>1 DEF CleanupRuns
  <2> QED
    BY <2>1, <2>2, SeenIs, MCAssumption DEF CleanupRuns, Lifecycle!LifecycleAssumption
<1>2. \A w \in WorkerIds : lReq[w] = Lifecycle!Free \/ lReq[w] \in Requests
    BY DEF Typed
<1> QED
    BY <1>1, <1>2 DEF Lifecycle!TypeOK, Typed, Requests

\* The subscriptions run, or nothing happens to them.
LEMMA MCLifecycle == ASSUME [MCNext]_MCvars PROVE [Lifecycle!Next]_(Lifecycle!vars)
BY DEF MCNext, MCvars, lVars, Lifecycle!vars

\* What the three action properties say of a step.
PastStep == ~lOverlap => ExpiresPast
CancelledStep == ~lOverlap => DeletesCancelled

\* Acknowledged renewals are not lost to the cleanup, nothing that was deleted
\* comes back, and where requests and phases take turns the cleanup expires and
\* deletes only what it should: for any number of subscriptions and of
\* overlapping runs of the cleanup, any durations and any length of a day.
\* Two requests that overlap lose a renewal, so that there is one at a time.
THEOREM GrantsKept == ASSUME OneWorker PROVE MCSpec => LifecycleKept
<1>1. MCInit => LifecycleInv
    BY LifecycleInit DEF MCInit
<1>2. LifecycleInv /\ [MCNext]_MCvars => LifecycleInv' /\ PastStep /\ CancelledStep
      /\ StaysGone
    BY MCLifecycle, LifecycleStep DEF PastStep, CancelledStep
<1>3. MCSpec => []LifecycleInv
    BY <1>1, <1>2, PTL DEF MCSpec
<1>4. LifecycleInv => Lifecycle!TypeOK /\ Lifecycle!RenewalsAdd
    BY LifecycleTyped DEF LifecycleInv, RenewInv
<1>5. MCSpec => [](Lifecycle!TypeOK /\ Lifecycle!RenewalsAdd)
    BY <1>3, <1>4, PTL
<1>6. LifecycleInv /\ [MCNext]_MCvars => [PastStep]_(Lifecycle!vars)
    BY <1>2
<1>7. LifecycleInv /\ [MCNext]_MCvars => [CancelledStep]_(Lifecycle!vars)
    BY <1>2
<1>8. LifecycleInv /\ [MCNext]_MCvars => [StaysGone]_(Lifecycle!vars)
    BY <1>2
<1>9. MCSpec => [][PastStep]_(Lifecycle!vars)
    BY <1>3, <1>6, PTL DEF MCSpec
<1>10. MCSpec => [][CancelledStep]_(Lifecycle!vars)
    BY <1>3, <1>7, PTL DEF MCSpec
<1>11. MCSpec => [][StaysGone]_(Lifecycle!vars)
    BY <1>3, <1>8, PTL DEF MCSpec
<1>12. MCSpec => Lifecycle!ExpiresOnlyPast
    BY <1>9 DEF Lifecycle!ExpiresOnlyPast, PastStep, ExpiresPast
<1>13. MCSpec => Lifecycle!DeletedWasCancelled
    BY <1>10 DEF Lifecycle!DeletedWasCancelled, CancelledStep, DeletesCancelled
<1>14. MCSpec => Lifecycle!NotRevived
    BY <1>11 DEF Lifecycle!NotRevived, StaysGone
<1> QED
    BY <1>5, <1>12, <1>13, <1>14 DEF LifecycleKept
=============================================================================
