----------------------- MODULE SubscriptionLifecycle -----------------------
(***************************************************************************)
(* The subscriptions of a tenant: the requests that create, cancel, renew, *)
(* reactivate and update them, and the cleanup job that expires, cancels   *)
(* and deletes them.                                                       *)
(*                                                                         *)
(* A request reads the row, computes the new one and commits; the job does *)
(* the same with the rows of each of its three phases.  Neither locks what *)
(* it reads, and the ORM writes the columns that differ from the row it    *)
(* has read, whatever the row has become (Merge).  Rows that were flushed  *)
(* are locked until the commit, so a phase takes effect in one step.       *)
(*                                                                         *)
(* Time is counted in ticks of the tenant's local time, Day of them a day. *)
(***************************************************************************)
EXTENDS Integers, FiniteSets

CONSTANTS
    Subs, Workers, Jobs,
    Day,
    Period,   \* days of a duration_type, in ticks
    Grace,    \* 7 days in _cancel_long_expired_subs
    Keep,     \* 30 days in _delete_old_cancelled_subs
    MaxTime, Horizon  \* bounds of the clock and of expires_at

LifecycleAssumption ==
    /\ {Day, Period, Grace, Keep, MaxTime, Horizon} \subseteq Nat
    /\ Day > 0

VARIABLES
    overlap,  \* whether requests and phases overlap in this behaviour
    now,
    row,      \* the table
    req,      \* requests between their read and their commit
    job,      \* runs of the cleanup job
    granted   \* history: where the acknowledged requests put expires_at

vars == <<overlap, now, row, req, job, granted>>

Never == -1
Live == {"active", "expired", "cancelled"}
Row == [status : Live \cup {"none", "deleted", "removed"},
        expires : 0..Horizon, cancelled : Never..MaxTime]
Free == [kind |-> "none"]
Ends == 0..Horizon

Exists(s) == row[s].status \in Live
Reading(j) == job[j].seen # <<>>

TypeOK ==
    /\ now \in 0..MaxTime
    /\ row \in [Subs -> Row]
    /\ \A w \in Workers :
         \/ req[w] = Free
         \/ req[w] \in [kind : {"cancel", "reactivate", "renew", "update"},
                        sub : Subs, old : Row, new : Row]
    /\ \A j \in Jobs :
         /\ job[j].phase \in {"idle", "expire", "cancel", "delete"}
         /\ job[j].at \in 0..now
         /\ DOMAIN job[j].seen \subseteq Subs
    /\ granted \in [Subs -> Nat]

Init ==
    /\ overlap \in BOOLEAN /\ now = 0
    /\ row = [s \in Subs |-> [status |-> "none", expires |-> 0, cancelled |-> Never]]
    /\ req = [w \in Workers |-> Free]
    /\ job = [j \in Jobs |-> [phase |-> "idle", at |-> 0, seen |-> <<>>]]
    /\ granted = [s \in Subs |-> 0]

\* Nothing is read that has not been written back.
Quiet == (\A w \in Workers : req[w] = Free) /\ \A j \in Jobs : ~Reading(j)

\* The columns of old that new changes, written over what the row is by then.
Merge(cur, old, new) ==
    [c \in {"status", "expires", "cancelled"} |->
       IF new[c] = old[c] THEN cur[c] ELSE new[c]]

Tick ==
    /\ now < MaxTime
    /\ now' = now + 1
    /\ UNCHANGED <<overlap, row, req, job, granted>>

-----------------------------------------------------------------------------
(* Requests *)

create_subscription(s) ==
    /\ row[s].status = "none"
    /\ \E e \in Ends :
         /\ row' = [row EXCEPT ![s] = [status |-> "active", expires |-> e,
                                       cancelled |-> Never]]
         /\ granted' = [granted EXCEPT ![s] = e]
    /\ UNCHANGED <<overlap, now, req, job>>

cancel_subscription(old) ==
    [old EXCEPT !.status = "cancelled", !.cancelled = now]

\* From starts_at or to a custom expires_at; so is a renewal with a custom one.
reactivate_subscription(old, e) ==
    [old EXCEPT !.status = "active", !.cancelled = Never, !.expires = e]

renew_subscription(old) ==
    reactivate_subscription(old, old.expires + Period)

update_subscription(old, e) ==
    [old EXCEPT !.expires = e]

\* A request has loaded the row and computed what it is to be.
Begin(w, s) ==
    /\ req[w] = Free /\ Exists(s) /\ (overlap \/ Quiet)
    /\ \E e \in Ends, kind \in {"cancel", "reactivate", "renew", "update"} :
         LET new == CASE kind = "cancel"     -> cancel_subscription(row[s])
                      [] kind = "reactivate" -> reactivate_subscription(row[s], e)
                      [] kind = "renew"      -> renew_subscription(row[s])
                      [] kind = "update"     -> update_subscription(row[s], e)
         IN /\ new.expires <= Horizon
            /\ req' = [req EXCEPT ![w] = [kind |-> kind, sub |-> s,
                                          old |-> row[s], new |-> new]]
    /\ UNCHANGED <<overlap, now, row, job, granted>>

\* A row that has gone is written again.
CommitRevives(w) ==
    /\ req[w] # Free
    /\ LET q == req[w] IN
       /\ row' = [row EXCEPT ![q.sub] = q.new]
       /\ granted' = [granted EXCEPT ![q.sub] = q.new.expires]
    /\ req' = [req EXCEPT ![w] = Free]
    /\ UNCHANGED <<overlap, now, job>>

\* commit_change; a row that has gone fails the request.
Commit(w) ==
    /\ req[w] # Free
    /\ LET q == req[w] IN
       IF Exists(q.sub)
       THEN /\ row' = [row EXCEPT ![q.sub] = Merge(@, q.old, q.new)]
            /\ granted' = [granted EXCEPT ![q.sub] =
                 CASE q.kind = "cancel" -> @
                   [] q.kind = "renew"  -> @ + Period
                   [] OTHER             -> q.new.expires]
       ELSE UNCHANGED <<row, granted>>
    /\ req' = [req EXCEPT ![w] = Free]
    /\ UNCHANGED <<overlap, now, job>>

\* A service or a plan is deleted with its subscriptions.
delete_subscriptions_for_service(s) ==
    /\ Exists(s) /\ (overlap \/ Quiet)
    /\ row' = [row EXCEPT ![s].status = "removed"]
    /\ UNCHANGED <<overlap, now, req, job, granted>>

-----------------------------------------------------------------------------
(* The cleanup job *)

\* _get_tenant_end_of_day
EndOfDay(t) == (t \div Day) * Day + Day - 1

run_cleanup(j) ==
    /\ job[j].phase = "idle"
    /\ job' = [job EXCEPT ![j].phase = "expire", ![j].at = now]
    /\ UNCHANGED <<overlap, now, row, req, granted>>

Following == [expire |-> "cancel", cancel |-> "delete", delete |-> "idle"]

\* The where clause of each phase, and the checks repeated in its loop.
Selects(phase, r, at) ==
    CASE phase = "expire" -> r.status = "active" /\ r.expires <= at
                             /\ r.expires <= EndOfDay(at)
      [] phase = "cancel" -> r.status = "expired" /\ r.expires + Grace <= at
      [] phase = "delete" -> r.status = "cancelled" /\ r.cancelled # Never
                             /\ r.cancelled + Keep <= at

\* The query of a phase; one that finds nothing goes on to the next.
Select(j) ==
    LET p == job[j].phase
        found == {s \in Subs : Exists(s) /\ Selects(p, row[s], job[j].at)}
    IN /\ p # "idle" /\ ~Reading(j) /\ (overlap \/ Quiet)
       /\ job' = [job EXCEPT ![j] =
            IF found = {} THEN [@ EXCEPT !.phase = Following[p]]
                          ELSE [@ EXCEPT !.seen = [s \in found |-> row[s]]]]
       /\ UNCHANGED <<overlap, now, row, req, granted>>

\* What a phase makes of a row.
Cleaned(phase, r, at) ==
    CASE phase = "expire" -> [r EXCEPT !.status = "expired"]
      [] phase = "cancel" -> [r EXCEPT !.status = "cancelled", !.cancelled = at]
      [] phase = "delete" -> [r EXCEPT !.status = "deleted"]

\* The flushes and the commit of a phase.  An update of a row that has gone
\* rolls the phase back, and ends the job unless the row was the last one.
Apply(j) ==
    LET p == job[j].phase
        seen == job[j].seen
        gone == {s \in DOMAIN seen : ~Exists(s)}
        next(q) == job' = [job EXCEPT ![j].phase = q, ![j].seen = <<>>]
    IN /\ Reading(j)
       /\ IF gone = {} \/ p = "delete"
          THEN /\ next(Following[p])
               /\ row' = [s \in Subs |->
                    IF s \in DOMAIN seen \ gone
                    THEN Merge(row[s], seen[s], Cleaned(p, seen[s], job[j].at))
                    ELSE row[s]]
          ELSE /\ next(Following[p]) \/ (Cardinality(DOMAIN seen) > 1 /\ next("idle"))
               /\ UNCHANGED row
       /\ UNCHANGED <<overlap, now, req, granted>>

\* The job is cut off; what it has not committed is rolled back.
JobDies(j) ==
    /\ job[j].phase # "idle"
    /\ job' = [job EXCEPT ![j].phase = "idle", ![j].seen = <<>>]
    /\ UNCHANGED <<overlap, now, row, req, granted>>

Next ==
    \/ Tick
    \/ \E s \in Subs : create_subscription(s) \/ delete_subscriptions_for_service(s)
    \/ \E w \in Workers : Commit(w) \/ \E s \in Subs : Begin(w, s)
    \/ \E j \in Jobs : run_cleanup(j) \/ Select(j) \/ Apply(j) \/ JobDies(j)

Spec == Init /\ [][Next]_vars

-----------------------------------------------------------------------------
(* Properties *)

\* "active -> expired (automatic via cleanup job when expires_at passed)":
\* the job expires an active subscription, and only when its time is over.
ExpiresOnlyPast ==
    [][~overlap => \A s \in Subs :
         row'[s].status = "expired" /\ row[s].status # "expired" =>
           row[s].status = "active" /\ row[s].expires <= now]_vars

\* "Subscriptions cancelled for 30+ days -> delete": what the job deletes has
\* been cancelled that long, whatever happened since the job began.
DeletedWasCancelled ==
    [][~overlap => \A s \in Subs :
         row'[s].status = "deleted" /\ row[s].status # "deleted" =>
           /\ row[s].status = "cancelled"
           /\ row[s].cancelled # Never /\ row[s].cancelled + Keep <= now]_vars

\* "Renew extends from current expires_at": every renewal that was
\* acknowledged counts, whatever the job has read before and writes after it.
RenewalsAdd == \A s \in Subs : Exists(s) => row[s].expires = granted[s]

\* What was deleted does not come back, with whatever is still under way for
\* it in a request or in another phase.
NotRevived ==
    [][\A s \in Subs : row[s].status \in {"deleted", "removed"} =>
                        row'[s] = row[s]]_vars

\* "Active subscriptions past tenant-local end-of-day -> expired": a
\* subscription is active until its last day is over.
ActiveAllDay ==
    [][\A s \in Subs :
         row'[s].status = "expired" /\ row[s].status = "active" =>
           EndOfDay(row[s].expires) < now]_vars
=============================================================================
