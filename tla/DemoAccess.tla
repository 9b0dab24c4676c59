---------------------------- MODULE DemoAccess ----------------------------
(***************************************************************************)
(* The lifecycle of one demo tenant on the server: the first login begins  *)
(* its evaluation, a request at or after the end deletes it, and the       *)
(* master replaces its credentials.  Requests run in transactions of their *)
(* own (READ COMMITTED), and what a session of SQLAlchemy has read once it *)
(* does not read again: rows are read in one step and used in later ones.  *)
(*                                                                         *)
(* Passwords are numbered in the order in which they are made.  A login is *)
(* given the password that is stored when it begins, any other one being   *)
(* refused after the same checks.  A token stands for a session row with   *)
(* its refresh token and the access token made beside it.                  *)
(***************************************************************************)
EXTENDS Naturals, FiniteSets

CONSTANTS
    Clients,    \* requests that run at a time
    Masters,    \* requests of the master that run at a time
    Tokens,     \* bound: sessions
    NoToken,
    MaxTime,    \* bound: the clock
    Duration,   \* of the evaluation, 48 hours
    MaxPw,      \* bound: passwords
    Overlap     \* whether a replacement overlaps with a login

ASSUME AccessAssumption ==
    /\ IsFiniteSet(Clients) /\ IsFiniteSet(Masters) /\ IsFiniteSet(Tokens)
    /\ NoToken \notin Tokens
    /\ MaxTime \in Nat \ {0} /\ Duration \in Nat \ {0, 1} /\ MaxPw \in Nat \ {0}
    /\ Overlap \in BOOLEAN

VARIABLES
    now,
    demo,     \* the rows of the tenant and of its owner
    tok,      \* sessions and the tokens made with them
    proc,     \* the requests of the demo: kind, step and what was read
    master,   \* the version the master's request has read, 0 without one
    told      \* the evaluation that the last answer to each client named

vars == <<now, demo, tok, proc, master, told>>

NoWindow == [from |-> 0, till |-> 0]
Windows == [from : 0..MaxTime, till : 0..MaxTime + Duration]
Kinds == {"login", "refresh", "request", "logout"}

\* from = till = 0 while the evaluation has not begun; the clock begins at 1.
Tenants == [there : BOOLEAN, pw : 1..MaxPw, version : 1..MaxPw, window : Windows]

Idle == [pc |-> "idle", kind |-> "request", pw |-> 1, token |-> NoToken, version |-> 1,
         window |-> NoWindow, at |-> 0, began |-> 0]

TypeOK ==
    /\ now \in 1..MaxTime /\ demo \in Tenants
    /\ tok \in [Tokens -> [state : {"none", "live", "revoked"}, version : 1..MaxPw, pw : 1..MaxPw]]
    /\ proc \in [Clients -> [pc : {"idle", "user", "stamp", "issue", "expired"}, kind : Kinds,
                             pw : 1..MaxPw, token : Tokens \cup {NoToken}, version : 1..MaxPw,
                             window : Windows, at : 0..MaxTime, began : 0..MaxTime]]
    /\ master \in [Masters -> 0..MaxPw]
    /\ told \in [Clients -> Windows]

-----------------------------------------------------------------------------
(* The rows *)

\* get_demo_status
Pending(w) == w.from = 0
Expired(w) == w.from # 0 /\ now >= w.till

Issued == {t \in Tokens : tok[t].state # "none"}
Busy == {c \in Clients : proc[c].pc # "idle"}

\* revoke_all_for_user
Revoked == [t \in Tokens |-> IF tok[t].state = "live" THEN [tok[t] EXCEPT !.state = "revoked"]
                                                      ELSE tok[t]]

Init ==
    /\ now = 1
    /\ demo = [there |-> TRUE, pw |-> 1, version |-> 1, window |-> NoWindow]
    /\ tok = [t \in Tokens |-> [state |-> "none", version |-> 1, pw |-> 1]]
    /\ proc = [c \in Clients |-> Idle]
    /\ master = [m \in Masters |-> 0]
    /\ told = [c \in Clients |-> NoWindow]

\* A request ends before the clock has moved on twice.
Tick ==
    /\ now < MaxTime /\ now' = now + 1
    /\ \A c \in Busy : proc[c].began = now
    /\ UNCHANGED <<demo, tok, proc, master, told>>

-----------------------------------------------------------------------------
(* Requests of the demo *)

Makes(kind) == kind \in {"login", "refresh"}

\* The owner is read.  A token for the session to come is left.
Begin(c) ==
    /\ proc[c].pc = "idle" /\ demo.there
    /\ \E kind \in Kinds, t \in Issued \cup {NoToken} :
         /\ (kind = "login") <=> (t = NoToken)
         /\ Makes(kind) => Cardinality({d \in Busy : Makes(proc[d].kind)}) < Cardinality(Tokens \ Issued)
         /\ proc' = [proc EXCEPT ![c] =
              [Idle EXCEPT !.pc = "user", !.kind = kind, !.token = t, !.began = now,
                           !.pw = IF t = NoToken THEN demo.pw ELSE tok[t].pw]]
    /\ UNCHANGED <<now, demo, tok, master, told>>

Ends(c) == proc' = [proc EXCEPT ![c] = Idle]

\* The credentials are looked at before the end of the evaluation.
EnsureVersionFirst(c) ==
    LET q == proc[c] IN
    IF q.token # NoToken /\ tok[q.token].version # demo.version THEN "replaced"
    ELSE IF Expired(demo.window) THEN "expired" ELSE "ok"

\* ensure_demo_request
Ensure(c) ==
    LET q == proc[c] IN
    IF Expired(demo.window) THEN "expired"
    ELSE IF q.token # NoToken /\ tok[q.token].version # demo.version THEN "replaced" ELSE "ok"

\* What follows the checks.  A refresh looks for its session, a logout revokes
\* it, and any other request is answered.
Admitted(c) ==
    LET q == proc[c] IN
    \/ /\ q.kind = "login" \/ (q.kind = "refresh" /\ tok[q.token].state = "live")
       /\ proc' = [proc EXCEPT ![c] = [q EXCEPT !.pc = "stamp", !.version = demo.version,
                                                !.window = demo.window]]
       /\ UNCHANGED <<tok, told>>
    \/ /\ q.kind = "refresh" /\ tok[q.token].state # "live"
       /\ Ends(c) /\ UNCHANGED <<tok, told>>
    \/ /\ q.kind = "request" /\ Ends(c)
       /\ told' = [told EXCEPT ![c] = demo.window] /\ UNCHANGED tok
    \/ /\ q.kind = "logout" /\ Ends(c)
       /\ tok' = [tok EXCEPT ![q.token].state = "revoked"] /\ UNCHANGED told

\* The tenant is read.  One that has disappeared is no demo: a login and a
\* refresh are refused, and the answer to a request says nothing about it.
ReadTenant(c) ==
    /\ proc[c].pc = "user"
    /\ \/ /\ ~demo.there \/ Ensure(c) = "replaced"
          /\ Ends(c) /\ UNCHANGED <<tok, told>>
       \/ /\ demo.there /\ Ensure(c) = "expired"
          /\ proc' = [proc EXCEPT ![c].pc = "expired"] /\ UNCHANGED <<tok, told>>
       \/ /\ demo.there /\ Ensure(c) = "ok" /\ Admitted(c)
    /\ UNCHANGED <<now, demo, master>>

\* activate_demo_for_login up to its UPDATE: the tenant is the one read before.
Stamp(c) ==
    /\ proc[c].pc = "stamp"
    /\ proc' = [proc EXCEPT ![c].pc = IF Expired(proc[c].window) THEN "expired" ELSE "issue",
                            ![c].at = now]
    /\ UNCHANGED <<now, demo, tok, master, told>>

From(at) == [from |-> at, till |-> at + Duration]

\* Without the look at the row the evaluation begins once more.
ActivatedAgain(c) ==
    IF Pending(proc[c].window) THEN From(proc[c].at) ELSE demo.window

\* The UPDATE takes effect on a row whose evaluation has not begun.
Activated(c) ==
    IF Pending(proc[c].window) /\ Pending(demo.window) THEN From(proc[c].at) ELSE demo.window

\* What the session knows of the tenant after that: its own values, or the row
\* read again because the UPDATE matched nothing.
Lost(c) == Pending(proc[c].window) /\ ~Pending(demo.window)

\* The version is always read again.
VersionNow(c) == demo.version

Version(c) == IF Lost(c) THEN demo.version ELSE proc[c].version

Seen(c) == IF Pending(proc[c].window) THEN Activated(c) ELSE proc[c].window

\* From the UPDATE to the commit, the tenant's row being locked meanwhile.  The
\* session of an owner who is gone cannot be inserted.
Issue(c) ==
    LET q == proc[c] IN
    /\ q.pc = "issue" /\ Ends(c)
    /\ \/ ~demo.there /\ UNCHANGED <<demo, tok, told>>
       \/ /\ demo.there
          /\ demo' = [demo EXCEPT !.window = Activated(c)]
          /\ \E t \in Tokens \ Issued :
               tok' = [u \in Tokens |->
                         IF u = t THEN [state |-> "live", version |-> Version(c), pw |-> q.pw]
                         ELSE IF u = q.token THEN [tok[u] EXCEPT !.state = "revoked"] ELSE tok[u]]
          /\ told' = [told EXCEPT ![c] = Seen(c)]
    /\ UNCHANGED <<now, master>>

\* The sessions go with their owner; a row that is gone already is no error.
Gone == demo' = [demo EXCEPT !.there = FALSE] /\ tok' = Revoked

delete_expired_demo(c) ==
    /\ proc[c].pc = "expired" /\ Gone /\ Ends(c)
    /\ UNCHANGED <<now, master, told>>

-----------------------------------------------------------------------------
(* Requests of the master *)

Quiet == Overlap \/ \A c \in Busy : proc[c].kind # "login"

ReplaceBegin(m) ==
    /\ master[m] = 0 /\ demo.there /\ ~Expired(demo.window)
    /\ master' = [master EXCEPT ![m] = demo.version]
    /\ UNCHANGED <<now, demo, tok, proc, told>>

\* A row that is gone fails the request.
replace_demo_credentials(m) ==
    /\ master[m] # 0 /\ Quiet
    /\ master' = [master EXCEPT ![m] = 0]
    /\ \/ ~demo.there /\ UNCHANGED <<demo, tok>>
       \/ /\ demo.there /\ demo.pw < MaxPw
          /\ demo' = [demo EXCEPT !.pw = @ + 1, !.version = master[m] + 1]
          /\ tok' = Revoked
    /\ UNCHANGED <<now, proc, told>>

delete_demo_tenant ==
    /\ Masters # {} /\ demo.there /\ Gone
    /\ UNCHANGED <<now, proc, master, told>>

-----------------------------------------------------------------------------

Handler(c) == ReadTenant(c) \/ Stamp(c) \/ Issue(c) \/ delete_expired_demo(c)

Next ==
    \/ Tick
    \/ \E c \in Clients : Begin(c) \/ Handler(c)
    \/ \E m \in Masters : ReplaceBegin(m) \/ replace_demo_credentials(m)
    \/ delete_demo_tenant

Spec == Init /\ [][Next]_vars

\* Handlers end, and the open page of a demo asks every minute.
Fairness == \A c \in Clients : WF_vars(Handler(c)) /\ WF_vars(Begin(c))

FairSpec == Spec /\ Fairness

-----------------------------------------------------------------------------
(* Properties *)

\* "Activation and expiry are written once": every answer a client has got
\* names the evaluation of the tenant, however many logins came first.
OneWindow ==
    \A c \in Clients : demo.there /\ told[c] # NoWindow => told[c] = demo.window

\* "Older access and refresh sessions return demo_credentials_replaced": a
\* token with the version of the tenant was obtained with its password, also
\* one that a refresh makes after the sessions were revoked.
OlderIsRefused ==
    \A t \in Issued : demo.there /\ tok[t].version = demo.version => tok[t].pw = demo.pw

\* "No background scheduler is required": an evaluation that has ended is
\* deleted as long as anybody asks, with whatever token.
EndedIsDeleted == (demo.there /\ Expired(demo.window)) ~> ~demo.there
=============================================================================
