------------------------- MODULE DemoAccessProofs -------------------------
(***************************************************************************)
(* The evaluation of a demo is one and every answer names it, whatever     *)
(* runs at the same time; and a token that is accepted was obtained with   *)
(* the present password, if one master at a time replaces it and no login  *)
(* is under way then.  The workspace a demo keeps in the browser holds     *)
(* together, as MCDemo composes it, for all identifiers and any baseline.  *)
(***************************************************************************)
EXTENDS MCDemo, TLAPS

\* A replacement makes a password, whatever becomes of the version.
Counted ==
    /\ demo.version <= demo.pw
    /\ \A m \in Masters : master[m] <= demo.pw

TypeInv == TypeOK /\ Counted

\* The demo that was created has the types.
LEMMA TypeInit == Init => TypeInv
<1> SUFFICES ASSUME Init PROVE TypeInv
  OBVIOUS
<1>1. NoWindow \in Windows /\ 1 \in 1..MaxPw /\ 0 \in 0..MaxTime /\ 1 \in 1..MaxTime
  BY AccessAssumption DEF NoWindow, Windows
<1>2. demo \in Tenants /\ Counted
  BY <1>1, AccessAssumption DEF Init, Tenants, Counted
<1>3. Idle \in [pc : {"idle", "user", "stamp", "issue", "expired"}, kind : Kinds,
                pw : 1..MaxPw, token : Tokens \cup {NoToken}, version : 1..MaxPw,
                window : Windows, at : 0..MaxTime, began : 0..MaxTime]
  BY <1>1 DEF Idle, Kinds
<1> QED
  BY <1>1, <1>2, <1>3, AccessAssumption DEF Init, TypeInv, TypeOK

\* Every step keeps the types.
LEMMA TypeNext == TypeInv /\ [Next]_vars => TypeInv'
<1> SUFFICES ASSUME TypeInv, [Next]_vars PROVE TypeInv'
  OBVIOUS
<1> USE AccessAssumption
<1> DEFINE Procs == [pc : {"idle", "user", "stamp", "issue", "expired"}, kind : Kinds,
                     pw : 1..MaxPw, token : Tokens \cup {NoToken}, version : 1..MaxPw,
                     window : Windows, at : 0..MaxTime, began : 0..MaxTime]
<1> DEFINE Toks == [state : {"none", "live", "revoked"}, version : 1..MaxPw, pw : 1..MaxPw]
<1>t. /\ now \in 1..MaxTime /\ demo \in Tenants /\ tok \in [Tokens -> Toks]
      /\ proc \in [Clients -> Procs] /\ master \in [Masters -> 0..MaxPw]
      /\ told \in [Clients -> Windows] /\ Counted
  BY DEF TypeInv, TypeOK
<1>i. Idle \in Procs
  BY DEF Idle, Kinds, Windows, NoWindow
<1>r. Revoked \in [Tokens -> Toks]
  BY <1>t DEF Revoked
<1>d. /\ demo.pw \in 1..MaxPw /\ demo.version \in 1..MaxPw /\ demo.window \in Windows
      /\ demo.there \in BOOLEAN
  BY <1>t DEF Tenants
<1> DEFINE Goal ==
               /\ now' \in 1..MaxTime /\ demo' \in Tenants /\ tok' \in [Tokens -> Toks]
               /\ proc' \in [Clients -> Procs] /\ master' \in [Masters -> 0..MaxPw]
               /\ told' \in [Clients -> Windows] /\ Counted'
<1>q. SUFFICES Goal
  BY DEF TypeInv, TypeOK
<1> HIDE DEF Procs, Toks
<1>e. ASSUME NEW c \in Clients, Ends(c) PROVE proc' \in [Clients -> Procs]
  BY <1>e, <1>t, <1>i DEF Ends
<1>1. CASE Tick
  BY <1>1, <1>t DEF Tick, Counted
<1>2. ASSUME NEW c \in Clients, Begin(c) PROVE Goal
  <2>1. PICK kind \in Kinds, t \in Issued \cup {NoToken} :
          proc' = [proc EXCEPT ![c] =
              [Idle EXCEPT !.pc = "user", !.kind = kind, !.token = t, !.began = now,
                           !.pw = IF t = NoToken THEN demo.pw ELSE tok[t].pw]]
    BY <1>2 DEF Begin
  <2>2. (IF t = NoToken THEN demo.pw ELSE tok[t].pw) \in 1..MaxPw
    BY <1>t, <1>d DEF Issued, Toks
  <2>3. t \in Tokens \cup {NoToken} /\ now \in 0..MaxTime
    BY <1>t DEF Issued
  <2> DEFINE p == [Idle EXCEPT !.pc = "user", !.kind = kind, !.token = t, !.began = now,
                               !.pw = IF t = NoToken THEN demo.pw ELSE tok[t].pw]
  <2>4. p \in Procs
    BY <2>2, <2>3, <1>i DEF Procs
  <2>5. proc' \in [Clients -> Procs]
    BY <2>1, <2>4, <1>t
  <2> QED
    BY <1>2, <2>5, <1>t DEF Begin, Counted
<1>3. ASSUME NEW c \in Clients, ReadTenant(c) PROVE Goal
  <2>1. proc' \in [Clients -> Procs] /\ tok' \in [Tokens -> Toks]
        /\ told' \in [Clients -> Windows]
    <3>1. CASE Ends(c) /\ UNCHANGED <<tok, told>>
      BY <3>1, <1>e, <1>t
    <3>2. CASE proc' = [proc EXCEPT ![c].pc = "expired"] /\ UNCHANGED <<tok, told>>
      BY <3>2, <1>t DEF Procs
    <3>3. CASE Admitted(c)
      <4>1. CASE /\ proc' = [proc EXCEPT ![c] = [proc[c] EXCEPT !.pc = "stamp",
                              !.version = demo.version, !.window = demo.window]]
                 /\ UNCHANGED <<tok, told>>
        <5> DEFINE p == [proc[c] EXCEPT !.pc = "stamp", !.version = demo.version,
                                        !.window = demo.window]
        <5>0. proc[c] \in Procs
          BY <1>t
        <5>1. p \in Procs
          BY <5>0, <1>d DEF Procs
        <5> HIDE DEF p
        <5>2. proc' = [proc EXCEPT ![c] = p]
          BY <4>1 DEF p
        <5> QED
          BY <5>1, <5>2, <4>1, <1>t
      <4>2. CASE Ends(c) /\ UNCHANGED <<tok, told>>
        BY <4>2, <1>e, <1>t
      <4>3. CASE Ends(c) /\ told' = [told EXCEPT ![c] = demo.window] /\ UNCHANGED tok
        BY <4>3, <1>e, <1>t, <1>d
      <4>4. CASE Ends(c) /\ tok' = [tok EXCEPT ![proc[c].token].state = "revoked"]
                 /\ UNCHANGED told
        BY <4>4, <1>e, <1>t DEF Toks
      <4> QED
        BY <3>3, <4>1, <4>2, <4>3, <4>4 DEF Admitted
    <3> QED
      BY <1>3, <3>1, <3>2, <3>3 DEF ReadTenant
  <2> QED
    BY <1>3, <2>1, <1>t DEF ReadTenant, Counted
<1>4. ASSUME NEW c \in Clients, Stamp(c) PROVE Goal
  <2> DEFINE p == [proc[c] EXCEPT !.pc
      = IF Expired(proc[c].window) THEN "expired" ELSE "issue",
                                  !.at = now]
  <2>0. p \in Procs
    <3>1. proc[c] \in Procs /\ now \in 0..MaxTime
      BY <1>t
    <3>2. CASE Expired(proc[c].window)
      BY <3>1, <3>2 DEF Procs
    <3>3. CASE ~Expired(proc[c].window)
      BY <3>1, <3>3 DEF Procs
    <3> QED
      BY <3>2, <3>3
  <2>a. proc' = [proc EXCEPT ![c] = p]
    BY <1>4, <1>t DEF Stamp, Procs
  <2>1. proc' \in [Clients -> Procs]
    BY <2>0, <2>a, <1>t
  <2> QED
    BY <1>4, <2>1, <1>t DEF Stamp, Counted
<1>5. ASSUME NEW c \in Clients, Issue(c) PROVE Goal
  <2>1. proc[c].at \in 0..MaxTime /\ proc[c].window \in Windows
        /\ proc[c].version \in 1..MaxPw
        /\ proc[c].pw \in 1..MaxPw
    BY <1>t DEF Procs
  <2>2. Activated(c) \in Windows /\ Seen(c) \in Windows /\ Version(c) \in 1..MaxPw
    BY <2>1, <1>d DEF Activated, Seen, Version, Lost, From, Windows
  <2>3. proc' \in [Clients -> Procs]
    BY <1>5, <1>e DEF Issue
  <2>4. CASE ~demo.there
    BY <2>4, <2>3, <1>5, <1>t DEF Issue, Counted
  <2>5. CASE demo.there
    <3>1. demo' = [demo EXCEPT !.window = Activated(c)]
          /\ told' = [told EXCEPT ![c] = Seen(c)]
      BY <2>5, <1>5 DEF Issue
    <3>2. PICK t \in Tokens :
            tok' = [u \in Tokens |->
              IF u = t THEN [state |-> "live", version |-> Version(c), pw |-> proc[c].pw]
              ELSE IF u = proc[c].token THEN [tok[u] EXCEPT !.state = "revoked"] ELSE tok[u]]
      BY <2>5, <1>5 DEF Issue
    <3>3. tok' \in [Tokens -> Toks]
      BY <3>2, <2>1, <2>2, <1>t DEF Toks
    <3>4. demo' \in Tenants /\ demo'.version = demo.version /\ demo'.pw = demo.pw
      BY <3>1, <2>2, <1>t DEF Tenants
    <3> QED
      BY <3>1, <3>3, <3>4, <2>2, <2>3, <1>5, <1>t DEF Issue, Counted
  <2> QED
    BY <2>4, <2>5
<1>g. Gone => /\ demo' \in Tenants /\ tok' \in [Tokens -> Toks]
              /\ demo'.version = demo.version /\ demo'.pw = demo.pw
  BY <1>t, <1>r DEF Gone, Tenants
<1>6. ASSUME NEW c \in Clients, delete_expired_demo(c) PROVE Goal
  BY <1>6, <1>g, <1>e, <1>t DEF delete_expired_demo, Counted
<1>7. ASSUME NEW m \in Masters, ReplaceBegin(m) PROVE Goal
  BY <1>7, <1>t, <1>d DEF ReplaceBegin, Counted
<1>8. ASSUME NEW m \in Masters, replace_demo_credentials(m) PROVE Goal
  <2>1. CASE ~demo.there
    BY <2>1, <1>8, <1>t, <1>d DEF replace_demo_credentials, Counted
  <2>2. CASE demo.there
    <3>1. /\ demo' = [demo EXCEPT !.pw = @ + 1, !.version = master[m] + 1] /\ tok' = Revoked
          /\ demo.pw < MaxPw /\ master' = [master EXCEPT ![m] = 0]
          /\ UNCHANGED <<now, proc, told>>
      BY <2>2, <1>8 DEF replace_demo_credentials
    <3>2. master[m] \in 0..MaxPw /\ master[m] <= demo.pw
      BY <1>t DEF Counted
    <3>3. demo' \in Tenants /\ demo'.pw = demo.pw + 1 /\ demo'.version = master[m] + 1
      <4>1. demo.pw + 1 \in 1..MaxPw /\ master[m] + 1 \in 1..MaxPw
        BY <3>1, <3>2, <1>d
      <4> QED
        BY <3>1, <4>1, <1>t, <1>d DEF Tenants
    <3>4. Counted'
      BY <3>1, <3>2, <3>3, <1>t, <1>d DEF Counted
    <3> QED
      BY <3>1, <3>3, <3>4, <1>r, <1>t
  <2> QED
    BY <2>1, <2>2
<1>9. CASE delete_demo_tenant
  BY <1>9, <1>g, <1>t DEF delete_demo_tenant, Counted
<1>10. CASE UNCHANGED vars
  BY <1>10, <1>t DEF vars, Counted
<1> QED
  BY <1>1, <1>2, <1>3, <1>4, <1>5, <1>6, <1>7, <1>8, <1>9, <1>10 DEF Next, Handler

\* Requests, answers and rows keep to the values they are declared with.
THEOREM AccessTyped == Spec => []TypeOK
<1>1. TypeInv => TypeOK
  BY DEF TypeInv
<1> QED
  BY <1>1, TypeInit, TypeNext, PTL DEF Spec

-----------------------------------------------------------------------------
(* One evaluation *)

\* An evaluation that has not begun has no end either.
Blank == Pending(demo.window) => demo.window = NoWindow

\* A login or refresh that read an evaluation read the one there is.
Snapshots ==
    \A c \in Clients :
        /\ demo.there /\ proc[c].pc \in {"stamp", "issue"} /\ ~Pending(proc[c].window)
            => proc[c].window = demo.window
        /\ proc[c].pc = "issue" => proc[c].at # 0

WindowInv == TypeInv /\ Blank /\ Snapshots /\ OneWindow

\* Before the first login nobody has a window.
LEMMA WindowInit == Init => WindowInv
<1> SUFFICES ASSUME Init PROVE WindowInv
  OBVIOUS
<1>1. Blank
  BY DEF Init, Blank
<1>2. Snapshots
  BY DEF Init, Snapshots, Idle
<1>3. OneWindow
  BY DEF Init, OneWindow
<1> QED
  BY <1>1, <1>2, <1>3, TypeInit DEF WindowInv

\* The fields that a step of a request changes.
LEMMA Fields ==
  ASSUME TypeOK, NEW c \in Clients
  PROVE  /\ Ends(c) => proc'[c].pc = "idle" /\ \A d \in Clients \ {c} : proc'[d] = proc[d]
         /\ Begin(c) =>
              /\ \A d \in Clients \ {c} : proc'[d] = proc[d]
              /\ proc'[c].pc = "user"
              /\ proc'[c].kind = "login" => proc'[c].pw = demo.pw
              /\ proc'[c].kind # "login" =>
                   proc'[c].token \in Issued /\ proc'[c].pw = tok[proc'[c].token].pw
         /\ Stamp(c) =>
              /\ \A d \in Clients \ {c} : proc'[d] = proc[d]
              /\ proc'[c].pc \in {"issue", "expired"} /\ proc'[c].at = now
              /\ proc'[c].kind = proc[c].kind /\ proc'[c].pw = proc[c].pw
              /\ proc'[c].token = proc[c].token /\ proc'[c].version = proc[c].version
              /\ proc'[c].window = proc[c].window
<1> USE DEF TypeOK
<1>1. ASSUME Ends(c) PROVE proc'[c].pc = "idle" /\ \A d
             \in Clients \ {c} : proc'[d] = proc[d]
  BY <1>1 DEF Ends, Idle
<1>2. ASSUME Begin(c)
      PROVE /\ \A d \in Clients \ {c} : proc'[d] = proc[d]
            /\ proc'[c].pc = "user"
            /\ proc'[c].kind = "login" => proc'[c].pw = demo.pw
            /\ proc'[c].kind # "login" =>
                 proc'[c].token \in Issued /\ proc'[c].pw = tok[proc'[c].token].pw
  <2>1. PICK kind \in Kinds, t \in Issued \cup {NoToken} :
          /\ (kind = "login") <=> (t = NoToken)
          /\ proc' = [proc EXCEPT ![c] =
               [Idle EXCEPT !.pc = "user", !.kind = kind, !.token = t, !.began = now,
                            !.pw = IF t = NoToken THEN demo.pw ELSE tok[t].pw]]
    BY <1>2 DEF Begin
  <2>2. /\ proc'[c].pc = "user" /\ proc'[c].kind = kind /\ proc'[c].token = t
        /\ proc'[c].pw = IF t = NoToken THEN demo.pw ELSE tok[t].pw
        /\ \A d \in Clients \ {c} : proc'[d] = proc[d]
    BY <2>1 DEF Idle
  <2> QED
    BY <2>1, <2>2
<1>3. ASSUME Stamp(c)
      PROVE /\ \A d \in Clients \ {c} : proc'[d] = proc[d]
            /\ proc'[c].pc \in {"issue", "expired"} /\ proc'[c].at = now
            /\ proc'[c].kind = proc[c].kind /\ proc'[c].pw = proc[c].pw
            /\ proc'[c].token = proc[c].token /\ proc'[c].version = proc[c].version
            /\ proc'[c].window = proc[c].window
  BY <1>3 DEF Stamp
<1> QED
  BY <1>1, <1>2, <1>3

\* A login or refresh that passes the checks has read the tenant.
LEMMA Reads ==
  ASSUME TypeOK, NEW c \in Clients,
         proc' = [proc EXCEPT ![c] = [proc[c] EXCEPT !.pc = "stamp",
             !.version = demo.version,
                                                     !.window = demo.window]]
  PROVE  /\ \A d \in Clients \ {c} : proc'[d] = proc[d]
         /\ proc'[c].pc = "stamp" /\ proc'[c].version = demo.version
         /\ proc'[c].window = demo.window /\ proc'[c].kind = proc[c].kind
         /\ proc'[c].pw = proc[c].pw /\ proc'[c].token = proc[c].token
BY DEF TypeOK

\* Every step keeps the window that was claimed.
LEMMA WindowNext == WindowInv /\ [Next]_vars => WindowInv'
<1> SUFFICES ASSUME WindowInv, [Next]_vars PROVE (Blank /\ Snapshots /\ OneWindow)'
  BY TypeNext DEF WindowInv
<1>t. TypeOK /\ now # 0
  BY AccessAssumption DEF WindowInv, TypeInv, TypeOK
<1>d. /\ DOMAIN demo = {"there", "pw", "version", "window"}
      /\ DOMAIN told = Clients
  BY <1>t DEF TypeOK, Tenants
<1>i. Blank /\ Snapshots /\ OneWindow
  BY DEF WindowInv
<1>f. ASSUME demo'.window = demo.window, demo'.there => demo.there, told' = told,
             \A d \in Clients : proc'[d].pc \in {"stamp", "issue"} => proc'[d] = proc[d]
      PROVE  (Blank /\ Snapshots /\ OneWindow)'
  BY <1>f, <1>i DEF Blank, Snapshots, OneWindow, Pending
<1>g. Gone => demo'.window = demo.window /\ (demo'.there => demo.there)
  BY <1>d DEF Gone
<1>1. CASE Tick
  BY <1>1, <1>f DEF Tick
<1>2. ASSUME NEW c \in Clients, Begin(c) PROVE (Blank /\ Snapshots /\ OneWindow)'
  BY <1>2, <1>f, <1>t, Fields DEF Begin
<1>3. ASSUME NEW c \in Clients, ReadTenant(c) PROVE (Blank /\ Snapshots /\ OneWindow)'
  <2>1. demo' = demo
    BY <1>3 DEF ReadTenant
  <2>2. CASE Ends(c) /\ UNCHANGED told
    BY <2>1, <2>2, <1>f, <1>t, Fields
  <2>3. CASE proc' = [proc EXCEPT ![c].pc = "expired"] /\ UNCHANGED told
    <3>1. proc'[c].pc = "expired" /\ \A d \in Clients \ {c} : proc'[d] = proc[d]
      BY <2>3, <1>t DEF TypeOK
    <3> QED
      BY <3>1, <2>1, <2>3, <1>f
  <2>4. CASE /\ proc' = [proc EXCEPT ![c] = [proc[c] EXCEPT !.pc = "stamp",
                            !.version = demo.version, !.window = demo.window]]
             /\ UNCHANGED told
    <3>1. /\ \A d \in Clients \ {c} : proc'[d] = proc[d]
          /\ proc'[c].pc = "stamp" /\ proc'[c].window = demo.window
      BY <2>4, <1>t, Reads
    <3>2. Blank' /\ OneWindow'
      BY <2>1, <2>4, <1>i DEF Blank, OneWindow, Pending
    <3>3. Snapshots'
      BY <3>1, <2>1, <1>i DEF Snapshots, Pending
    <3> QED
      BY <3>2, <3>3
  <2>5. CASE Ends(c) /\ told' = [told EXCEPT ![c] = demo.window]
    <3>1. Blank' /\ Snapshots'
      BY <2>1, <2>5, <1>t, <1>i, Fields DEF Blank, Snapshots, Pending
    <3>2. OneWindow'
      BY <2>1, <2>5, <1>d, <1>i DEF OneWindow
    <3> QED
      BY <3>1, <3>2
  <2> QED
    BY <1>3, <2>2, <2>3, <2>4, <2>5 DEF ReadTenant, Admitted
<1>4. ASSUME NEW c \in Clients, Stamp(c) PROVE (Blank /\ Snapshots /\ OneWindow)'
  <2>1. demo' = demo /\ told' = told /\ proc[c].pc = "stamp"
    BY <1>4 DEF Stamp
  <2>2. Blank' /\ OneWindow'
    BY <2>1, <1>i DEF Blank, OneWindow, Pending
  <2>3. Snapshots'
    BY <2>1, <1>4, <1>t, <1>i, Fields DEF Snapshots, Pending
  <2> QED
    BY <2>2, <2>3
<1>5. ASSUME NEW c \in Clients, Issue(c) PROVE (Blank /\ Snapshots /\ OneWindow)'
  <2>1. Ends(c) /\ proc[c].pc = "issue"
    BY <1>5 DEF Issue
  <2>2. CASE ~demo.there
    BY <2>1, <2>2, <1>5, <1>f, <1>t, Fields DEF Issue
  <2>3. CASE demo.there
    <3>1. /\ demo'.window = Activated(c) /\ demo'.there
          /\ told' = [told EXCEPT ![c] = Seen(c)]
      BY <2>3, <1>5, <1>d DEF Issue
    <3>2. ~Pending(proc[c].window) => proc[c].window = demo.window
      BY <2>1, <2>3, <1>i DEF Snapshots
    <3>3. Seen(c) = Activated(c)
      BY <3>2 DEF Seen, Activated
    <3>4. ~Pending(demo.window) => Activated(c) = demo.window
      BY DEF Activated
    <3>5. ~Pending(Activated(c))
      <4>1. proc[c].at # 0
        BY <2>1, <1>i DEF Snapshots
      <4>2. CASE Pending(proc[c].window) /\ Pending(demo.window)
        BY <4>1, <4>2 DEF Activated, From, Pending
      <4>3. CASE Pending(proc[c].window) /\ ~Pending(demo.window)
        BY <4>3, <3>4
      <4>4. CASE ~Pending(proc[c].window)
        BY <4>4, <3>2, <3>4
      <4> QED
        BY <4>2, <4>3, <4>4
    <3>6. Blank'
      BY <3>1, <3>5 DEF Blank, Pending
    <3>7. Pending(demo.window) => demo.window = NoWindow
      BY <1>i DEF Blank
    <3>8. Snapshots'
      <4>1. ASSUME NEW d \in Clients \ {c}, proc[d].pc \in {"stamp", "issue"},
                   ~Pending(proc[d].window)
            PROVE  proc[d].window = demo'.window
        BY <4>1, <2>3, <3>1, <3>4, <1>i DEF Snapshots
      <4> QED
        BY <4>1, <2>1, <1>t, <1>i, Fields DEF Snapshots, Pending
    <3>9. OneWindow'
      <4>1. ASSUME NEW d \in Clients \ {c}, told[d] # NoWindow PROVE told[d] = demo'.window
        BY <4>1, <2>3, <3>1, <3>4, <3>7, <1>i DEF OneWindow
      <4>2. told'[c] = demo'.window /\ \A d \in Clients \ {c} : told'[d] = told[d]
        BY <3>1, <3>3, <1>d
      <4> QED
        BY <4>1, <4>2 DEF OneWindow
    <3> QED
      BY <3>6, <3>8, <3>9
  <2> QED
    BY <2>2, <2>3
<1>6. ASSUME NEW c \in Clients, delete_expired_demo(c)
      PROVE (Blank /\ Snapshots /\ OneWindow)'
  BY <1>6, <1>f, <1>g, <1>t, Fields DEF delete_expired_demo
<1>7. ASSUME NEW m \in Masters, ReplaceBegin(m) PROVE (Blank /\ Snapshots /\ OneWindow)'
  BY <1>7, <1>f DEF ReplaceBegin
<1>8. ASSUME NEW m \in Masters, replace_demo_credentials(m)
      PROVE (Blank /\ Snapshots /\ OneWindow)'
  <2>1. demo'.window = demo.window /\ (demo'.there => demo.there)
    BY <1>8, <1>d DEF replace_demo_credentials
  <2> QED
    BY <2>1, <1>8, <1>f DEF replace_demo_credentials
<1>9. CASE delete_demo_tenant
  BY <1>9, <1>f, <1>g DEF delete_demo_tenant
<1>10. CASE UNCHANGED vars
  BY <1>10, <1>f DEF vars
<1> QED
  BY <1>1, <1>2, <1>3, <1>4, <1>5, <1>6, <1>7, <1>8, <1>9, <1>10 DEF Next, Handler

\* activate_demo_for_login begins one evaluation, and every login, refresh and
\* request answers with that one, whatever overlaps with it.
THEOREM OneEvaluation == Spec => []OneWindow
<1>1. WindowInv => OneWindow
  BY DEF WindowInv
<1> QED
  BY <1>1, WindowInit, WindowNext, PTL DEF Spec

-----------------------------------------------------------------------------
(* The password of a token *)

Counts == demo.version = demo.pw

\* What the master has read is not replaced before it is written.
MasterIsRight == \A m \in Masters : master[m] # 0 => master[m] = demo.version

TokensMatch == \A t \in Tokens : tok[t].version = tok[t].pw

Under == {"user", "stamp", "issue"}

LoginsArePresent ==
    \A c \in Clients : proc[c].pc \in Under /\ proc[c].kind = "login"
        => proc[c].pw = demo.pw

OthersHaveToken ==
    \A c \in Clients : proc[c].pc \in Under /\ proc[c].kind # "login"
        => proc[c].token \in Issued /\ proc[c].pw = tok[proc[c].token].pw

ReadsMatch ==
    \A c \in Clients : proc[c].pc \in {"stamp", "issue"}
        => /\ proc[c].version = proc[c].pw
           /\ proc[c].kind = "login" \/ ~Pending(proc[c].window)

\* There is no token before the evaluation.
TokensFollow == Issued # {} => ~Pending(demo.window)

VersionInv ==
    /\ WindowInv /\ Counts /\ MasterIsRight /\ TokensMatch
    /\ LoginsArePresent /\ OthersHaveToken /\ ReadsMatch /\ TokensFollow

\* The first password is version one everywhere.
LEMMA VersionInit == Init => VersionInv
<1> SUFFICES ASSUME Init PROVE VersionInv
  OBVIOUS
<1>1. Counts /\ MasterIsRight /\ TokensMatch /\ TokensFollow
  BY DEF Init, Counts, MasterIsRight, TokensMatch, TokensFollow, Issued
<1>2. LoginsArePresent /\ OthersHaveToken /\ ReadsMatch
  BY DEF Init, LoginsArePresent, OthersHaveToken, ReadsMatch, Under, Idle
<1> QED
  BY <1>1, <1>2, WindowInit DEF VersionInv

\* Every step keeps versions and passwords together.
LEMMA VersionNext ==
  ASSUME ~Overlap, \A m1, m2 \in Masters : m1 = m2, VersionInv, [Next]_vars
  PROVE  VersionInv'
<1> DEFINE Goal == /\ Counts' /\ MasterIsRight' /\ TokensMatch' /\ LoginsArePresent'
                   /\ OthersHaveToken' /\ ReadsMatch' /\ TokensFollow'
<1> SUFFICES Goal
  BY WindowNext DEF VersionInv
<1> HIDE DEF Goal
<1>t. TypeOK /\ now # 0
  BY AccessAssumption DEF VersionInv, WindowInv, TypeInv, TypeOK
<1>d. /\ DOMAIN demo = {"there", "pw", "version", "window"}
      /\ DOMAIN master = Masters /\ DOMAIN tok = Tokens
      /\ \A t \in Tokens : DOMAIN tok[t] = {"state", "version", "pw"}
  BY <1>t DEF TypeOK, Tenants
<1>i. /\ Counts /\ MasterIsRight /\ TokensMatch /\ LoginsArePresent
      /\ OthersHaveToken /\ ReadsMatch /\ TokensFollow /\ Snapshots /\ Blank
  BY DEF VersionInv, WindowInv
\* A step that leaves the rows alone, or revokes sessions.
<1> DEFINE SameTokens == \A t
    \in Tokens : /\ (tok'[t].state = "none" <=> tok[t].state = "none")
                                           /\ tok'[t].version = tok[t].version
                                           /\ tok'[t].pw = tok[t].pw
<1> DEFINE SameRow == /\ demo'.window = demo.window /\ demo'.version = demo.version
                      /\ demo'.pw = demo.pw
<1> DEFINE SameReads == \A d \in Clients : proc'[d].pc \in Under => proc'[d] = proc[d]
<1>a. ASSUME SameTokens PROVE Issued' = Issued /\ TokensMatch'
  BY <1>a, <1>i DEF Issued, TokensMatch
<1>b. ASSUME SameTokens, SameReads PROVE OthersHaveToken' /\ ReadsMatch'
  <2>1. OthersHaveToken'
    BY <1>a, <1>b, <1>i DEF OthersHaveToken, Issued
  <2>2. ReadsMatch'
    BY <1>b, <1>i DEF ReadsMatch, Under, Pending
  <2> QED
    BY <2>1, <2>2
<1>c. ASSUME SameTokens, SameRow, SameReads, master' = master PROVE Goal
  <2>1. Counts' /\ MasterIsRight' /\ LoginsArePresent' /\ TokensFollow'
    BY <1>a, <1>c, <1>i DEF Counts, MasterIsRight, LoginsArePresent, TokensFollow, Pending
  <2> QED
    BY <2>1, <1>a, <1>b, <1>c DEF Goal
<1>r. ASSUME tok' = Revoked PROVE SameTokens
  BY <1>r, <1>d DEF Revoked
<1>g. Gone => SameTokens /\ SameRow
  BY <1>r, <1>d DEF Gone
<1> HIDE DEF SameTokens, SameRow, SameReads
<1>s. ASSUME UNCHANGED tok PROVE SameTokens
  BY <1>s DEF SameTokens
<1>o. ASSUME UNCHANGED demo PROVE SameRow
  BY <1>o DEF SameRow
<1>e. ASSUME NEW c \in Clients, Ends(c) PROVE SameReads
  BY <1>e, <1>t, Fields DEF SameReads, Under
<1>p. ASSUME UNCHANGED proc PROVE SameReads
  BY <1>p DEF SameReads
<1>1. CASE Tick
  BY <1>1, <1>c, <1>s, <1>o, <1>p DEF Tick
<1>2. ASSUME NEW c \in Clients, Begin(c) PROVE Goal
  <2>1. UNCHANGED <<demo, tok, master>>
    BY <1>2 DEF Begin
  <2>2. /\ \A d \in Clients \ {c} : proc'[d] = proc[d]
        /\ proc'[c].pc = "user"
        /\ proc'[c].kind = "login" => proc'[c].pw = demo.pw
        /\ proc'[c].kind # "login" =>
             proc'[c].token \in Issued /\ proc'[c].pw = tok[proc'[c].token].pw
    BY <1>2, <1>t, Fields
  <2>3. Counts' /\ MasterIsRight' /\ TokensMatch' /\ TokensFollow'
    BY <2>1, <1>i DEF Counts, MasterIsRight, TokensMatch, TokensFollow, Issued, Pending
  <2>4. LoginsArePresent'
    BY <2>1, <2>2, <1>i DEF LoginsArePresent
  <2>5. OthersHaveToken'
    BY <2>1, <2>2, <1>i DEF OthersHaveToken, Issued
  <2>6. ReadsMatch'
    BY <2>2, <1>i DEF ReadsMatch, Pending
  <2> QED
    BY <2>3, <2>4, <2>5, <2>6 DEF Goal
<1>3. ASSUME NEW c \in Clients, ReadTenant(c) PROVE Goal
  <2>1. demo' = demo /\ master' = master /\ proc[c].pc = "user"
    BY <1>3 DEF ReadTenant
  <2>2. CASE Ends(c) /\ UNCHANGED tok
    BY <2>1, <2>2, <1>c, <1>s, <1>o, <1>e
  <2>3. CASE proc' = [proc EXCEPT ![c].pc = "expired"] /\ UNCHANGED tok
    <3>1. proc'[c].pc = "expired" /\ \A d \in Clients \ {c} : proc'[d] = proc[d]
      BY <2>3, <1>t DEF TypeOK
    <3>2. SameReads
      BY <3>1 DEF SameReads, Under
    <3> QED
      BY <3>2, <2>1, <2>3, <1>c, <1>s, <1>o
  <2>4. CASE /\ Ensure(c) = "ok"
             /\ proc[c].kind = "login" \/ (proc[c].kind = "refresh" /\ tok[proc[c].token].state = "live")
             /\ proc' = [proc EXCEPT ![c] = [proc[c] EXCEPT !.pc = "stamp",
                            !.version = demo.version, !.window = demo.window]]
             /\ UNCHANGED tok
    <3>1. /\ \A d \in Clients \ {c} : proc'[d] = proc[d]
          /\ proc'[c].pc = "stamp" /\ proc'[c].version = demo.version
          /\ proc'[c].window = demo.window /\ proc'[c].kind = proc[c].kind
          /\ proc'[c].pw = proc[c].pw /\ proc'[c].token = proc[c].token
      BY <2>4, <1>t, Reads
    <3>2. Counts' /\ MasterIsRight' /\ TokensMatch' /\ TokensFollow'
      BY <2>1, <2>4, <1>i DEF Counts, MasterIsRight, TokensMatch, TokensFollow, Issued,
         Pending
    <3>3. LoginsArePresent' /\ OthersHaveToken'
      BY <2>1, <2>4, <3>1, <1>i DEF LoginsArePresent, OthersHaveToken, Issued, Under
    <3>4. demo.version = proc[c].pw
      <4>1. CASE proc[c].kind = "login"
        BY <4>1, <2>1, <1>i DEF LoginsArePresent, Counts, Under
      <4>2. CASE proc[c].kind # "login"
        <5>1. proc[c].token \in Tokens /\ proc[c].pw = tok[proc[c].token].pw
          BY <4>2, <2>1, <1>i DEF OthersHaveToken, Issued, Under
        <5>2. tok[proc[c].token].version = demo.version
          BY <5>1, <2>4, AccessAssumption DEF Ensure
        <5> QED
          BY <5>1, <5>2, <1>i DEF TokensMatch
      <4> QED
        BY <4>1, <4>2
    <3>5. proc[c].kind = "login" \/ ~Pending(demo.window)
      BY <2>1, <1>i DEF OthersHaveToken, TokensFollow, Under
    <3>6. ReadsMatch'
      BY <3>1, <3>4, <3>5, <1>i DEF ReadsMatch, Pending
    <3> QED
      BY <3>2, <3>3, <3>6 DEF Goal
  <2>5. CASE Ends(c) /\ tok' = [tok EXCEPT ![proc[c].token].state = "revoked"]
             /\ proc[c].kind = "logout"
    <3>1. proc[c].token \in Issued
      BY <2>1, <2>5, <1>i DEF OthersHaveToken, Under
    <3>2. SameTokens
      BY <3>1, <2>5, <1>d DEF SameTokens, Issued
    <3> QED
      BY <3>2, <2>1, <2>5, <1>c, <1>o, <1>e
  <2> QED
    BY <1>3, <2>2, <2>3, <2>4, <2>5 DEF ReadTenant, Admitted
<1>4. ASSUME NEW c \in Clients, Stamp(c) PROVE Goal
  <2>1. UNCHANGED <<demo, tok, master>> /\ proc[c].pc = "stamp"
    BY <1>4 DEF Stamp
  <2>2. /\ \A d \in Clients \ {c} : proc'[d] = proc[d]
        /\ proc'[c].kind = proc[c].kind /\ proc'[c].pw = proc[c].pw
        /\ proc'[c].token = proc[c].token /\ proc'[c].version = proc[c].version
        /\ proc'[c].window = proc[c].window
    BY <1>4, <1>t, Fields
  <2>3. Counts' /\ MasterIsRight' /\ TokensMatch' /\ TokensFollow'
    BY <2>1, <1>i DEF Counts, MasterIsRight, TokensMatch, TokensFollow, Issued, Pending
  <2>4. LoginsArePresent' /\ OthersHaveToken'
    BY <2>1, <2>2, <1>i DEF LoginsArePresent, OthersHaveToken, Issued, Under
  <2>5. ReadsMatch'
    BY <2>1, <2>2, <1>i DEF ReadsMatch, Pending
  <2> QED
    BY <2>3, <2>4, <2>5 DEF Goal
<1>5. ASSUME NEW c \in Clients, Issue(c) PROVE Goal
  <2>1. Ends(c) /\ proc[c].pc = "issue" /\ UNCHANGED master
    BY <1>5 DEF Issue
  <2>2. CASE ~demo.there
    BY <2>1, <2>2, <1>5, <1>c, <1>s, <1>o, <1>e DEF Issue
  <2>3. CASE demo.there
    <3>1. demo'.window = Activated(c) /\ demo'.version = demo.version /\ demo'.pw = demo.pw
      BY <2>3, <1>5, <1>d DEF Issue
    <3>2. PICK t \in Tokens \ Issued :
            tok' = [u \in Tokens |->
              IF u = t THEN [state |-> "live", version |-> Version(c), pw |-> proc[c].pw]
              ELSE IF u = proc[c].token THEN [tok[u] EXCEPT !.state = "revoked"] ELSE tok[u]]
      BY <2>3, <1>5 DEF Issue
    <3>3. /\ tok'[t].version = Version(c) /\ tok'[t].pw = proc[c].pw
          /\ \A u \in Tokens \ {t} : tok'[u].version = tok[u].version
             /\ tok'[u].pw = tok[u].pw
          /\ \A u \in Issued : tok'[u].state # "none"
      BY <3>2, <1>d DEF Issued
    <3>4. Version(c) = proc[c].pw
      <4>1. proc[c].version = proc[c].pw
        BY <2>1, <1>i DEF ReadsMatch
      <4>2. CASE Lost(c)
        <5>1. proc[c].kind = "login"
          BY <4>2, <2>1, <1>i DEF Lost, ReadsMatch
        <5> QED
          BY <4>2, <5>1, <2>1, <1>i DEF Version, LoginsArePresent, Counts, Under
      <4>3. CASE ~Lost(c)
        BY <4>1, <4>3 DEF Version
      <4> QED
        BY <4>2, <4>3
    <3>5. ~Pending(Activated(c))
      <4>1. proc[c].at # 0 /\ (~Pending(proc[c].window) => proc[c].window = demo.window)
        BY <2>1, <2>3, <1>i DEF Snapshots
      <4> QED
        BY <4>1 DEF Activated, From, Pending
    <3>6. Counts' /\ MasterIsRight'
      BY <3>1, <2>1, <1>i DEF Counts, MasterIsRight
    <3>7. TokensMatch'
      BY <3>3, <3>4, <1>i DEF TokensMatch
    <3>8. TokensFollow'
      BY <3>1, <3>5 DEF TokensFollow, Pending
    <3>9. SameReads
      BY <2>1, <1>e
    <3>10. LoginsArePresent' /\ ReadsMatch'
      BY <3>1, <3>9, <1>i DEF SameReads, LoginsArePresent, ReadsMatch, Under, Pending
    <3>11. OthersHaveToken'
      <4>1. \A u \in Issued : u \in Issued' /\ tok'[u].pw = tok[u].pw
        BY <3>2, <3>3 DEF Issued
      <4> QED
        BY <4>1, <3>9, <1>i DEF SameReads, OthersHaveToken
    <3> QED
      BY <3>6, <3>7, <3>8, <3>10, <3>11 DEF Goal
  <2> QED
    BY <2>2, <2>3
<1>6. ASSUME NEW c \in Clients, delete_expired_demo(c) PROVE Goal
  BY <1>6, <1>c, <1>g, <1>e DEF delete_expired_demo
<1>7. ASSUME NEW m \in Masters, ReplaceBegin(m) PROVE Goal
  <2>1. UNCHANGED <<demo, tok, proc>> /\ master' = [master EXCEPT ![m] = demo.version]
    BY <1>7 DEF ReplaceBegin
  <2>2. MasterIsRight'
    BY <2>1, <1>d, <1>i DEF MasterIsRight
  <2>3. SameTokens /\ SameReads /\ SameRow
    BY <2>1, <1>s, <1>p, <1>o
  <2>4. Counts' /\ LoginsArePresent' /\ TokensFollow'
    BY <2>1, <1>i DEF Counts, LoginsArePresent, TokensFollow, Issued, Pending
  <2> QED
    BY <2>2, <2>3, <2>4, <1>a, <1>b DEF Goal
<1>8. ASSUME NEW m \in Masters, replace_demo_credentials(m) PROVE Goal
  <2>1. /\ UNCHANGED proc /\ master' = [master EXCEPT ![m] = 0] /\ master[m] # 0
        /\ \A c \in Busy : proc[c].kind # "login"
    BY <1>8 DEF replace_demo_credentials, Quiet
  <2>2. \A n \in Masters : master'[n] = 0
    BY <2>1, <1>d
  <2>3. MasterIsRight'
    BY <2>2 DEF MasterIsRight
  <2>4. SameTokens
    BY <1>8, <1>r, <1>s DEF replace_demo_credentials
  <2>5. demo'.window = demo.window /\ Counts'
    <3>1. CASE UNCHANGED demo
      BY <3>1, <1>i DEF Counts
    <3>2. CASE demo' = [demo EXCEPT !.pw = @ + 1, !.version = master[m] + 1]
      BY <3>2, <2>1, <1>d, <1>i DEF Counts, MasterIsRight
    <3> QED
      BY <1>8, <3>1, <3>2 DEF replace_demo_credentials
  <2>6. TokensFollow'
    BY <2>4, <2>5, <1>a, <1>i DEF TokensFollow, Pending
  <2>7. LoginsArePresent'
    BY <2>1, <1>i DEF LoginsArePresent, Busy, Under
  <2> QED
    BY <2>1, <2>3, <2>4, <2>5, <2>6, <2>7, <1>a, <1>b, <1>p DEF Goal
<1>9. CASE delete_demo_tenant
  BY <1>9, <1>c, <1>g, <1>p DEF delete_demo_tenant
<1>10. CASE UNCHANGED vars
  BY <1>10, <1>c, <1>s, <1>o, <1>p DEF vars
<1> QED
  BY <1>1, <1>2, <1>3, <1>4, <1>5, <1>6, <1>7, <1>8, <1>9, <1>10 DEF Next, Handler

\* Where one master replaces the credentials of a demo and no login is under
\* way then, a token that is accepted was obtained with the present password,
\* refreshes that overtake the replacement included.
THEOREM ReplacedIsRefused ==
  ASSUME ~Overlap, \A m1, m2 \in Masters : m1 = m2
  PROVE  Spec => []OlderIsRefused
<1>1. VersionInv => OlderIsRefused
  BY DEF VersionInv, OlderIsRefused, TokensMatch, Counts, Issued
<1>2. VersionInv /\ [Next]_vars => VersionInv'
  BY VersionNext
<1> QED
  BY <1>1, <1>2, VersionInit, PTL DEF Spec

-----------------------------------------------------------------------------
(* The workspace of a demo *)

\* What MCDemo assumes of the workspace a demo begins with.
LEMMA Params == Workspace!BaselineAssumption
BY MCAssumption DEF MCAssumption

\* A table is a function on some of the identifiers.
LEMMA TableIs ==
    ASSUME NEW ids, NEW R, NEW f \in Workspace!Tables(ids, R)
    PROVE  /\ f = [x \in DOMAIN f |-> f[x]] /\ DOMAIN f \subseteq ids
           /\ \A x \in DOMAIN f : f[x] \in R
<1>1. PICK S \in SUBSET ids : f \in [S -> R]
    BY DEF Workspace!Tables
<1> QED
    BY <1>1

\* What has rows of the right kind under ids of the right kind is a table.
LEMMA IsTable ==
    ASSUME NEW ids, NEW R, NEW f, f = [x \in DOMAIN f |-> f[x]], DOMAIN f \subseteq ids,
           \A x \in DOMAIN f : f[x] \in R
    PROVE  f \in Workspace!Tables(ids, R)
<1>1. f \in [DOMAIN f -> R]
    OBVIOUS
<1> QED
    BY <1>1 DEF Workspace!Tables

\* Storing a row and dropping rows keep a table.
StoredIn(g, f, k, v) ==
    /\ DOMAIN g = DOMAIN f \cup {k} /\ g[k] = v
    /\ \A x \in DOMAIN f : x # k => g[x] = f[x]
DroppedFrom(g, f, S) ==
    DOMAIN g = DOMAIN f \ S /\ \A x \in DOMAIN f \ S : g[x] = f[x]

\* A table in which a row is stored.
LEMMA PutTable ==
    ASSUME NEW ids, NEW R, NEW f \in Workspace!Tables(ids, R), NEW k \in ids, NEW v \in R
    PROVE  Workspace!Put(f, k, v) \in Workspace!Tables(ids, R)
           /\ StoredIn(Workspace!Put(f, k, v), f, k, v)
<1> DEFINE g == Workspace!Put(f, k, v)
<1>1. /\ g = [x \in DOMAIN g |-> g[x]] /\ DOMAIN g = DOMAIN f \cup {k} /\ g[k] = v
      /\ \A x \in DOMAIN f : x # k => g[x] = f[x]
    BY DEF Workspace!Put
<1>2. DOMAIN f \subseteq ids /\ \A x \in DOMAIN f : f[x] \in R
    BY TableIs
<1> HIDE DEF g
<1>3. DOMAIN g \subseteq ids /\ \A x \in DOMAIN g : g[x] \in R
    BY <1>1, <1>2
<1>4. g \in Workspace!Tables(ids, R)
    BY <1>1, <1>3, IsTable
<1> QED
    BY <1>1, <1>4 DEF g, StoredIn

\* A table from which rows are dropped.
LEMMA DropTable ==
    ASSUME NEW ids, NEW R, NEW f \in Workspace!Tables(ids, R), NEW S
    PROVE  Workspace!Drop(f, S) \in Workspace!Tables(ids, R)
           /\ DroppedFrom(Workspace!Drop(f, S), f, S)
<1> DEFINE g == Workspace!Drop(f, S)
<1>1. /\ g = [x \in DOMAIN g |-> g[x]] /\ DOMAIN g = DOMAIN f \ S
      /\ \A x \in DOMAIN f \ S : g[x] = f[x]
    BY DEF Workspace!Drop
<1>2. DOMAIN f \subseteq ids /\ \A x \in DOMAIN f : f[x] \in R
    BY TableIs
<1> HIDE DEF g
<1>3. DOMAIN g \subseteq ids /\ \A x \in DOMAIN g : g[x] \in R
    BY <1>1, <1>2
<1>4. g \in Workspace!Tables(ids, R)
    BY <1>1, <1>3, IsTable
<1> QED
    BY <1>1, <1>4 DEF g, DroppedFrom

\* Changing a row is storing it.
LEMMA ExceptIsPut ==
    ASSUME NEW ids, NEW R, NEW f \in Workspace!Tables(ids, R), NEW k \in DOMAIN f, NEW v
    PROVE  [f EXCEPT ![k] = v] = Workspace!Put(f, k, v)
<1>1. f = [x \in DOMAIN f |-> f[x]]
    BY TableIs
<1> QED
    BY <1>1 DEF Workspace!Put

\* Tables that hold together: Related and Distinct of a workspace.
Fit(cs, vs, ps, us) ==
    /\ cs \in Workspace!Tables(ClientIds, Workspace!Client)
       /\ vs \in Workspace!Tables(ServiceIds, Names)
    /\ ps \in Workspace!Tables(PlanIds, Workspace!Plan)
       /\ us \in Workspace!Tables(SubIds, Workspace!Sub)
    /\ \A p \in DOMAIN ps : ps[p].service \in DOMAIN vs
    /\ \A u \in DOMAIN us : /\ us[u].client \in DOMAIN cs /\ us[u].plan \in DOMAIN ps
                            /\ us[u].service = ps[us[u].plan].service
    /\ \A c, d \in DOMAIN cs : cs[c].name = cs[d].name => c = d
    /\ \A v, x \in DOMAIN vs : vs[v] = vs[x] => v = x
    /\ \A p, q \in DOMAIN ps : ps[p] = ps[q] => p = q

\* The subscriptions of us that are not in them go with a client or a plan.
Cascade(us, cs, ps, them) ==
    \A u \in DOMAIN us \ DOMAIN them : us[u].client \notin DOMAIN cs \/ us[u].plan \notin DOMAIN ps

\* Services are stored under a name no other has.
LEMMA ServiceStored ==
    ASSUME NEW cs, NEW vs, NEW ps, NEW us, Fit(cs, vs, ps, us),
           NEW v \in ServiceIds, NEW n \in Names, \A x \in DOMAIN vs \ {v} : vs[x] # n
    PROVE  Fit(cs, Workspace!Put(vs, v, n), ps, us)
<1> DEFINE g == Workspace!Put(vs, v, n)
<1>1. g \in Workspace!Tables(ServiceIds, Names) /\ StoredIn(g, vs, v, n)
  <2>1. vs \in Workspace!Tables(ServiceIds, Names)
    BY DEF Fit
  <2> QED
    BY <2>1, PutTable, Zenon
<1> HIDE DEF g
<1>2. Fit(cs, g, ps, us)
    BY <1>1 DEF Fit, StoredIn, DroppedFrom
<1> QED
    BY <1>2 DEF g

\* A service goes with its plans and their subscriptions.
LEMMA ServiceDropped ==
    ASSUME NEW cs, NEW vs, NEW ps, NEW us, Fit(cs, vs, ps, us), NEW v,
           NEW gone, gone = {p \in DOMAIN ps : ps[p].service = v},
           NEW related, related = {u \in DOMAIN us : us[u].service = v \/ us[u].plan
               \in gone}
    PROVE  /\ Fit(cs, Workspace!Drop(vs, {v}), Workspace!Drop(ps, gone), Workspace!Drop(us, related))
           /\ Cascade(us, cs, Workspace!Drop(ps, gone), Workspace!Drop(us, related))
<1> DEFINE V == Workspace!Drop(vs, {v})
           P == Workspace!Drop(ps, gone)
           U == Workspace!Drop(us, related)
<1>1. V \in Workspace!Tables(ServiceIds, Names) /\ DroppedFrom(V, vs, {v})
  <2>1. vs \in Workspace!Tables(ServiceIds, Names)
    BY DEF Fit
  <2> QED
    BY <2>1, DropTable, Zenon
<1>2. P \in Workspace!Tables(PlanIds, Workspace!Plan) /\ DroppedFrom(P, ps, gone)
  <2>1. ps \in Workspace!Tables(PlanIds, Workspace!Plan)
    BY DEF Fit
  <2> QED
    BY <2>1, DropTable, Zenon
<1>3. U \in Workspace!Tables(SubIds, Workspace!Sub) /\ DroppedFrom(U, us, related)
  <2>1. us \in Workspace!Tables(SubIds, Workspace!Sub)
    BY DEF Fit
  <2> QED
    BY <2>1, DropTable, Zenon
<1> HIDE DEF V, P, U
<1>4. \A p \in DOMAIN P : P[p].service \in DOMAIN V
    BY <1>1, <1>2 DEF Fit, StoredIn, DroppedFrom
<1>5. \A u \in DOMAIN U : /\ U[u].client \in DOMAIN cs /\ U[u].plan \in DOMAIN P
                          /\ U[u].service = P[U[u].plan].service
    BY <1>2, <1>3 DEF Fit, StoredIn, DroppedFrom
<1>6. Fit(cs, V, P, U)
    BY <1>1, <1>2, <1>3, <1>4, <1>5 DEF Fit, StoredIn, DroppedFrom
<1>7. Cascade(us, cs, P, U)
    BY <1>2, <1>3 DEF Cascade, Fit, DroppedFrom
<1> QED
    BY <1>6, <1>7 DEF V, P, U

\* Plans are stored under a name no other plan of their service has, and stay
\* with their service.
LEMMA PlanStored ==
    ASSUME NEW cs, NEW vs, NEW ps, NEW us, Fit(cs, vs, ps, us),
           NEW p \in PlanIds, NEW row \in Workspace!Plan, row.service \in DOMAIN vs,
           p \in DOMAIN ps => ps[p].service = row.service,
               \A q \in DOMAIN ps \ {p} : ps[q] # row
    PROVE  Fit(cs, vs, Workspace!Put(ps, p, row), us)
<1> DEFINE g == Workspace!Put(ps, p, row)
<1>1. g \in Workspace!Tables(PlanIds, Workspace!Plan) /\ StoredIn(g, ps, p, row)
  <2>1. ps \in Workspace!Tables(PlanIds, Workspace!Plan)
    BY DEF Fit
  <2> QED
    BY <2>1, PutTable, Zenon
<1> HIDE DEF g
<1>2. \A q \in DOMAIN g : g[q].service \in DOMAIN vs
    BY <1>1 DEF Fit, StoredIn, DroppedFrom
<1>3. \A u \in DOMAIN us : /\ us[u].client \in DOMAIN cs /\ us[u].plan \in DOMAIN g
                           /\ us[u].service = g[us[u].plan].service
    BY <1>1 DEF Fit, StoredIn, DroppedFrom
<1>4. \A q, r \in DOMAIN g : g[q] = g[r] => q = r
    BY <1>1 DEF Fit, StoredIn, DroppedFrom
<1>5. Fit(cs, vs, g, us)
    BY <1>1, <1>2, <1>3, <1>4 DEF Fit, StoredIn, DroppedFrom
<1> QED
    BY <1>5 DEF g

\* A plan goes with its subscriptions.
LEMMA PlanDropped ==
    ASSUME NEW cs, NEW vs, NEW ps, NEW us, Fit(cs, vs, ps, us), NEW p,
           NEW related, related = {u \in DOMAIN us : us[u].plan = p}
    PROVE  /\ Fit(cs, vs, Workspace!Drop(ps, {p}), Workspace!Drop(us, related))
           /\ Cascade(us, cs, Workspace!Drop(ps, {p}), Workspace!Drop(us, related))
<1> DEFINE P == Workspace!Drop(ps, {p})
           U == Workspace!Drop(us, related)
<1>2. P \in Workspace!Tables(PlanIds, Workspace!Plan) /\ DroppedFrom(P, ps, {p})
  <2>1. ps \in Workspace!Tables(PlanIds, Workspace!Plan)
    BY DEF Fit
  <2> QED
    BY <2>1, DropTable, Zenon
<1>3. U \in Workspace!Tables(SubIds, Workspace!Sub) /\ DroppedFrom(U, us, related)
  <2>1. us \in Workspace!Tables(SubIds, Workspace!Sub)
    BY DEF Fit
  <2> QED
    BY <2>1, DropTable, Zenon
<1> HIDE DEF P, U
<1>5. \A u \in DOMAIN U : /\ U[u].client \in DOMAIN cs /\ U[u].plan \in DOMAIN P
                          /\ U[u].service = P[U[u].plan].service
    BY <1>2, <1>3 DEF Fit, StoredIn, DroppedFrom
<1>6. Fit(cs, vs, P, U)
    BY <1>2, <1>3, <1>5 DEF Fit, StoredIn, DroppedFrom
<1>7. Cascade(us, cs, P, U)
    BY <1>2, <1>3 DEF Cascade, StoredIn, DroppedFrom
<1> QED
    BY <1>6, <1>7 DEF P, U

\* Clients are stored under a name no other has.
LEMMA ClientStored ==
    ASSUME NEW cs, NEW vs, NEW ps, NEW us, Fit(cs, vs, ps, us),
           NEW c \in ClientIds, NEW row \in Workspace!Client,
               \A d \in DOMAIN cs \ {c} : cs[d].name # row.name
    PROVE  Fit(Workspace!Put(cs, c, row), vs, ps, us)
<1> DEFINE g == Workspace!Put(cs, c, row)
<1>1. g \in Workspace!Tables(ClientIds, Workspace!Client) /\ StoredIn(g, cs, c, row)
  <2>1. cs \in Workspace!Tables(ClientIds, Workspace!Client)
    BY DEF Fit
  <2> QED
    BY <2>1, PutTable, Zenon
<1> HIDE DEF g
<1>2. \A b, d \in DOMAIN g : g[b].name = g[d].name => b = d
    BY <1>1 DEF Fit, StoredIn, DroppedFrom
<1>3. Fit(g, vs, ps, us)
    BY <1>1, <1>2 DEF Fit, StoredIn, DroppedFrom
<1> QED
    BY <1>3 DEF g

\* A client goes with its subscriptions.
LEMMA ClientDropped ==
    ASSUME NEW cs, NEW vs, NEW ps, NEW us, Fit(cs, vs, ps, us), NEW c,
           NEW related, related = {u \in DOMAIN us : us[u].client = c}
    PROVE  /\ Fit(Workspace!Drop(cs, {c}), vs, ps, Workspace!Drop(us, related))
           /\ Cascade(us, Workspace!Drop(cs, {c}), ps, Workspace!Drop(us, related))
<1> DEFINE C == Workspace!Drop(cs, {c})
           U == Workspace!Drop(us, related)
<1>2. C \in Workspace!Tables(ClientIds, Workspace!Client) /\ DroppedFrom(C, cs, {c})
  <2>1. cs \in Workspace!Tables(ClientIds, Workspace!Client)
    BY DEF Fit
  <2> QED
    BY <2>1, DropTable, Zenon
<1>3. U \in Workspace!Tables(SubIds, Workspace!Sub) /\ DroppedFrom(U, us, related)
  <2>1. us \in Workspace!Tables(SubIds, Workspace!Sub)
    BY DEF Fit
  <2> QED
    BY <2>1, DropTable, Zenon
<1> HIDE DEF C, U
<1>5. \A u \in DOMAIN U : /\ U[u].client \in DOMAIN C /\ U[u].plan \in DOMAIN ps
                          /\ U[u].service = ps[U[u].plan].service
    BY <1>2, <1>3 DEF Fit, StoredIn, DroppedFrom
<1>6. Fit(C, vs, ps, U)
    BY <1>2, <1>3, <1>5 DEF Fit, StoredIn, DroppedFrom
<1>7. Cascade(us, C, ps, U)
    BY <1>2, <1>3 DEF Cascade, StoredIn, DroppedFrom
<1> QED
    BY <1>6, <1>7 DEF C, U

\* A subscription is stored with a client and a plan that are there.
LEMMA SubStored ==
    ASSUME NEW cs, NEW vs, NEW ps, NEW us, Fit(cs, vs, ps, us),
           NEW u \in SubIds, NEW row \in Workspace!Sub, row.client \in DOMAIN cs,
               row.plan \in DOMAIN ps,
           row.service = ps[row.plan].service
    PROVE  Fit(cs, vs, ps, Workspace!Put(us, u, row))
           /\ Cascade(us, cs, ps, Workspace!Put(us, u, row))
<1> DEFINE g == Workspace!Put(us, u, row)
<1>1. g \in Workspace!Tables(SubIds, Workspace!Sub) /\ StoredIn(g, us, u, row)
  <2>1. us \in Workspace!Tables(SubIds, Workspace!Sub)
    BY DEF Fit
  <2> QED
    BY <2>1, PutTable, Zenon
<1> HIDE DEF g
<1>2. \A x \in DOMAIN g : /\ g[x].client \in DOMAIN cs /\ g[x].plan \in DOMAIN ps
                          /\ g[x].service = ps[g[x].plan].service
    BY <1>1 DEF Fit, StoredIn, DroppedFrom
<1>3. Fit(cs, vs, ps, g)
    BY <1>1, <1>2 DEF Fit, StoredIn, DroppedFrom
<1>4. Cascade(us, cs, ps, g)
    BY <1>1 DEF Cascade, StoredIn, DroppedFrom
<1> QED
    BY <1>3, <1>4 DEF g

\* A workspace of four tables, and one that holds together.
Of(cs, vs, ps, us, tour) ==
    [clients |-> cs, services |-> vs, plans |-> ps, subs |-> us, tour |-> tour]
Sound(w) == w \in Workspace!Workspace /\ Workspace!Related(w) /\ Workspace!Distinct(w)

\* What an operation may do to the subscriptions and to the tour.
Cascades(w, x) == Cascade(w.subs, x.clients, x.plans, x.subs) /\ w.tour \subseteq x.tour

\* A workspace is its tables, and holds together when they do.
LEMMA SoundFits ==
    ASSUME NEW w, Sound(w)
    PROVE  /\ Fit(w.clients, w.services, w.plans, w.subs) /\ w.tour \in SUBSET Releases
           /\ w = Of(w.clients, w.services, w.plans, w.subs, w.tour)
<1>1. /\ w.clients \in Workspace!Tables(ClientIds, Workspace!Client)
         /\ w.services \in Workspace!Tables(ServiceIds, Names)
      /\ w.plans \in Workspace!Tables(PlanIds, Workspace!Plan)
         /\ w.subs \in Workspace!Tables(SubIds, Workspace!Sub)
      /\ w.tour \in SUBSET Releases
    BY DEF Sound, Workspace!Workspace
<1>2. w = Of(w.clients, w.services, w.plans, w.subs, w.tour)
    BY DEF Sound, Workspace!Workspace, Of
<1> QED
    BY <1>1, <1>2 DEF Sound, Fit, Workspace!Related, Workspace!Distinct

\* Tables that fit make a sound workspace.
LEMMA FitSound ==
    ASSUME NEW cs, NEW vs, NEW ps, NEW us, NEW tour \in SUBSET Releases, Fit(cs, vs, ps, us)
    PROVE  Sound(Of(cs, vs, ps, us, tour))
<1> DEFINE w == Of(cs, vs, ps, us, tour)
<1>1. w.clients = cs /\ w.services = vs /\ w.plans = ps /\ w.subs = us
    BY DEF Of
<1>2. w \in Workspace!Workspace
    BY DEF Fit, Of, Workspace!Workspace
<1> HIDE DEF w
<1>3. Workspace!Related(w) /\ Workspace!Distinct(w)
    BY <1>1 DEF Fit, Workspace!Related, Workspace!Distinct
<1> QED
    BY <1>2, <1>3 DEF Sound, w

\* The tables of a workspace made of them.
LEMMA OfFields ==
    ASSUME NEW cs, NEW vs, NEW ps, NEW us, NEW tour
    PROVE  LET w == Of(cs, vs, ps, us, tour) IN
           /\ w.clients = cs /\ w.services = vs /\ w.plans = ps /\ w.subs = us
           /\ w.tour = tour
BY DEF Of

\* Two and three tables of a workspace that are replaced.
WithoutService(w, vs, ps, us) == [w EXCEPT !.services = vs, !.plans = ps, !.subs = us]
WithoutPlan(w, ps, us) == [w EXCEPT !.plans = ps, !.subs = us]
WithoutClient(w, cs, us) == [w EXCEPT !.clients = cs, !.subs = us]

\* A workspace whose plans and subscriptions are replaced.
LEMMA PlansReplaced ==
    ASSUME NEW a, NEW b, NEW c, NEW d, NEW e, NEW w, w = Of(a, b, c, d, e), NEW ps, NEW us
    PROVE  WithoutPlan(w, ps, us) = Of(a, b, ps, us, e)
<1> DEFINE x == [w EXCEPT !.plans = ps]
<1>1. [w EXCEPT !.plans = ps, !.subs = us] = [x EXCEPT !.subs = us]
    OBVIOUS
<1>2. x = Of(a, b, ps, d, e)
    BY DEF Of
<1> HIDE DEF x
<1>3. [x EXCEPT !.subs = us] = Of(a, b, ps, us, e)
    BY <1>2 DEF Of
<1> QED
    BY <1>1, <1>3 DEF WithoutPlan

\* A workspace whose clients and subscriptions are replaced.
LEMMA ClientsReplaced ==
    ASSUME NEW a, NEW b, NEW c, NEW d, NEW e, NEW w, w = Of(a, b, c, d, e), NEW cs, NEW us
    PROVE  WithoutClient(w, cs, us) = Of(cs, b, c, us, e)
<1> DEFINE x == [w EXCEPT !.clients = cs]
<1>1. [w EXCEPT !.clients = cs, !.subs = us] = [x EXCEPT !.subs = us]
    OBVIOUS
<1>2. x = Of(cs, b, c, d, e)
    BY DEF Of
<1> HIDE DEF x
<1>3. [x EXCEPT !.subs = us] = Of(cs, b, c, us, e)
    BY <1>2 DEF Of
<1> QED
    BY <1>1, <1>3 DEF WithoutClient

\* A workspace whose services, plans and subscriptions are replaced.
LEMMA ServicesReplaced ==
    ASSUME NEW a, NEW b, NEW c, NEW d, NEW e, NEW w, w = Of(a, b, c, d, e),
           NEW vs, NEW ps, NEW us
    PROVE  WithoutService(w, vs, ps, us) = Of(a, vs, ps, us, e)
<1> DEFINE x == [w EXCEPT !.services = vs]
           y == [x EXCEPT !.plans = ps]
<1>1. [w EXCEPT !.services = vs, !.plans = ps, !.subs = us] = [y EXCEPT !.subs = us]
    OBVIOUS
<1>2. x = Of(a, vs, c, d, e)
    BY DEF Of
<1> HIDE DEF x
<1>3. y = Of(a, vs, ps, d, e)
    BY <1>2 DEF Of
<1> HIDE DEF y
<1>4. [y EXCEPT !.subs = us] = Of(a, vs, ps, us, e)
    BY <1>3 DEF Of
<1> QED
    BY <1>1, <1>4 DEF WithoutService

\* What OnlyCascades and TourKept say of a step.
SubscriptionsCascade ==
    \A u \in DOMAIN wWs.subs :
      wKind = "ok" /\ u \notin DOMAIN wWs'.subs =>
        \/ wWs.subs[u].client \notin DOMAIN wWs'.clients
        \/ wWs.subs[u].plan \notin DOMAIN wWs'.plans
        \/ wWs'.subs = Base.subs
TourStays == (wKind = "ok" /\ wKind' = "ok") \/ wKind' = "stale"
    => wWs.tour \subseteq wWs'.tour
StepSafe == SubscriptionsCascade /\ TourStays

\* An operation that writes tables which hold together.
LEMMA Written ==
    ASSUME Sound(wWs), wKind' = "ok", NEW tour, Workspace!Ensured.tour \subseteq tour,
           tour \in SUBSET Releases,
           NEW cs, NEW vs, NEW ps, NEW us, wWs' = Of(cs, vs, ps, us, tour),
               Fit(cs, vs, ps, us),
           Cascade(Workspace!Ensured.subs, cs, ps, us)
    PROVE  Sound(wWs') /\ StepSafe
<1>1. Sound(wWs')
    BY FitSound
<1>2. wWs'.clients = cs /\ wWs'.plans = ps /\ wWs'.subs = us /\ wWs'.tour = tour
    BY OfFields
<1>3. ASSUME wKind = "ok" PROVE StepSafe
    BY <1>2, <1>3 DEF Workspace!Ensured, StepSafe, SubscriptionsCascade, TourStays, Cascade
<1>4. ASSUME wKind # "ok" PROVE StepSafe
    BY <1>4 DEF StepSafe, SubscriptionsCascade, TourStays
<1> QED
    BY <1>1, <1>3, <1>4

\* Every operation keeps the workspace together.
LEMMA OperationsKeep ==
    ASSUME Sound(wWs), Workspace!Next PROVE Sound(wWs') /\ StepSafe
<1> DEFINE Good == Sound(wWs') /\ StepSafe
           E == Workspace!Ensured
           cs == E.clients
           vs == E.services
           ps == E.plans
           us == E.subs
           tour == E.tour
<1>a. Sound(E)
    BY Params DEF Sound, Workspace!Ensured, Workspace!BaselineAssumption
<1>b. Fit(cs, vs, ps, us) /\ tour \in SUBSET Releases /\ E = Of(cs, vs, ps, us, tour)
    BY <1>a, SoundFits
<1>c. Sound(Base) /\ Base.tour \in SUBSET Releases
    BY Params, SoundFits DEF Sound, Workspace!BaselineAssumption
<1>d. ASSUME NEW C, NEW P PROVE Cascade(us, C, P, us)
    BY DEF Cascade
<1> HIDE DEF Good, E, cs, vs, ps, us, tour
<1>w. ASSUME wKind' = "ok", NEW C, NEW V, NEW P, NEW U, wWs' = Of(C, V, P, U, tour),
             Fit(C, V, P, U),
             Cascade(us, C, P, U)
      PROVE  Good
    BY <1>b, <1>w, Written DEF Good, us, tour, E
<1>x. ASSUME wKind' = "ok", wWs' = E PROVE Good
    BY <1>b, <1>d, <1>w, <1>x
<1>1. ASSUME Workspace!reset PROVE Good
  <2>1. Base = Of(Base.clients, Base.services, Base.plans, Base.subs, Base.tour)
    BY <1>c, SoundFits
  <2>2. wWs' = Of(Base.clients, Base.services, Base.plans, Base.subs,
                 IF Workspace!Readable THEN wWs.tour ELSE {})
    BY <1>1, <2>1 DEF Workspace!reset, Of
  <2>3. Sound(wWs') /\ wWs'.subs = Base.subs /\ wWs'.tour
        = IF Workspace!Readable THEN wWs.tour ELSE {}
    BY <1>c, <2>2, SoundFits, FitSound, OfFields
  <2> QED
    BY <1>1, <2>3 DEF Workspace!reset, Good, StepSafe, SubscriptionsCascade, TourStays,
       Workspace!Readable
<1>2. ASSUME Workspace!clearDemoWorkspace PROVE Good
    BY <1>2, <1>c DEF Workspace!clearDemoWorkspace, Good, StepSafe, SubscriptionsCascade,
       TourStays
<1>3. ASSUME Workspace!Damage PROVE Good
    BY <1>3, <1>c DEF Workspace!Damage, Good, StepSafe, SubscriptionsCascade, TourStays
<1>4. ASSUME Workspace!MetadataChanges PROVE Good
    BY <1>4 DEF Workspace!MetadataChanges, Good, StepSafe, SubscriptionsCascade, TourStays
<1>5. ASSUME NEW r \in Releases, Workspace!saveTourState(r) PROVE Good
  <2>1. wWs = Of(wWs.clients, wWs.services, wWs.plans, wWs.subs, wWs.tour)
        /\ wWs.tour \in SUBSET Releases
        /\ Fit(wWs.clients, wWs.services, wWs.plans, wWs.subs)
    BY SoundFits
  <2>2. wWs' = Of(wWs.clients, wWs.services, wWs.plans, wWs.subs, wWs.tour \cup {r})
    BY <1>5, <2>1 DEF Workspace!saveTourState, Of
  <2>3. Sound(wWs') /\ wWs'.subs = wWs.subs /\ wWs'.tour = wWs.tour \cup {r}
    BY <2>1, <2>2, FitSound, OfFields
  <2> QED
    BY <2>3 DEF Good, StepSafe, SubscriptionsCascade, TourStays
<1>6. ASSUME NEW v \in ServiceIds, NEW n \in Names,
             Workspace!createService(v, n) \/ Workspace!updateService(v, n)
      PROVE  Good
  <2>1. CASE wWs' = E
    BY <1>6, <1>x, <2>1 DEF Workspace!createService, Workspace!updateService,
       Workspace!Operation
  <2>2. CASE /\ \A x \in DOMAIN vs \ {v} : vs[x] # n
             /\ wWs' = [E EXCEPT !.services = Workspace!Put(vs, v, n)]
    <3>1. wWs' = Of(cs, Workspace!Put(vs, v, n), ps, us, tour)
        BY <1>b, <2>2 DEF Of
    <3>2. Fit(cs, Workspace!Put(vs, v, n), ps, us)
        BY <1>b, <2>2, ServiceStored
    <3>3. wKind' = "ok"
        BY <1>6 DEF Workspace!createService, Workspace!updateService, Workspace!Operation
    <3> QED
        BY <1>d, <1>w, <3>1, <3>2, <3>3
  <2> QED
    BY <1>6, <2>1, <2>2 DEF Workspace!createService, Workspace!updateService,
       Workspace!Operation, cs, vs, ps, us, E
<1>7. ASSUME NEW v \in ServiceIds, Workspace!deleteService(v) PROVE Good
  <2> DEFINE gone == {p \in DOMAIN ps : ps[p].service = v}
             related == {u \in DOMAIN us : us[u].service = v \/ us[u].plan \in gone}
             V == Workspace!Drop(vs, {v})
             P == Workspace!Drop(ps, gone)
             U == Workspace!Drop(us, related)
  <2>0. /\ wKind' = "ok"
        /\ \/ wWs' = E
           \/ wWs' = WithoutService(E, V, P, U)
    BY <1>7 DEF Workspace!deleteService, WithoutService, Workspace!Operation, vs, ps, us, E
  <2>1. Fit(cs, V, P, U) /\ Cascade(us, cs, P, U)
    BY <1>b, ServiceDropped
  <2> HIDE DEF V, P, U
  <2>2. WithoutService(E, V, P, U) = Of(cs, V, P, U, tour)
    BY <1>b, ServicesReplaced
  <2> QED
    BY <1>w, <1>x, <2>0, <2>1, <2>2
<1>8. ASSUME NEW p \in PlanIds, NEW v \in ServiceIds, NEW n \in Names,
             Workspace!createPlan(p, v, n)
      PROVE  Good
  <2>1. CASE wWs' = E
    BY <1>8, <1>x, <2>1 DEF Workspace!createPlan, Workspace!Operation
  <2>2. CASE /\ p \notin DOMAIN ps /\ v \in DOMAIN vs
             /\ \A q \in DOMAIN ps : ps[q] # [service |-> v, name |-> n]
             /\ wWs' = [E EXCEPT !.plans = Workspace!Put(ps, p, [service |-> v, name |-> n])]
    <3>1. wWs' = Of(cs, vs, Workspace!Put(ps, p, [service |-> v, name |-> n]), us, tour)
        BY <1>b, <2>2 DEF Of
    <3>2. Fit(cs, vs, Workspace!Put(ps, p, [service |-> v, name |-> n]), us)
        <4> DEFINE row == [service |-> v, name |-> n]
      <4>1. row \in Workspace!Plan /\ row.service = v
        BY DEF Workspace!Plan
      <4>2. p \notin DOMAIN ps /\ v \in DOMAIN vs /\ \A q \in DOMAIN ps : ps[q] # row
        BY <2>2
      <4> HIDE DEF row
      <4>3. Fit(cs, vs, Workspace!Put(ps, p, row), us)
        BY <1>b, <4>1, <4>2, PlanStored
      <4> QED
        BY <4>3 DEF row
    <3>3. wKind' = "ok"
        BY <1>8 DEF Workspace!createPlan, Workspace!Operation
    <3> QED
        BY <1>d, <1>w, <3>1, <3>2, <3>3
  <2> QED
    BY <1>8, <2>1, <2>2 DEF Workspace!createPlan, Workspace!Operation, cs, vs, ps, us, E
<1>9. ASSUME NEW p \in PlanIds, NEW n \in Names, Workspace!updatePlan(p, n) PROVE Good
  <2>1. CASE wWs' = E
    BY <1>9, <1>x, <2>1 DEF Workspace!updatePlan, Workspace!Operation
  <2>2. CASE wWs' # E
    <3> DEFINE row == [ps[p] EXCEPT !.name = n]
    <3>1. /\ wKind' = "ok" /\ p \in DOMAIN ps /\ \A q \in DOMAIN ps \ {p} : ps[q] # row
          /\ wWs' = [E EXCEPT !.plans = [ps EXCEPT ![p] = row]]
        BY <1>9, <2>2 DEF Workspace!updatePlan, Workspace!Operation, ps, E
    <3>2. ps[p] \in Workspace!Plan /\ ps[p].service \in DOMAIN vs
          /\ ps \in Workspace!Tables(PlanIds, Workspace!Plan)
      <4>1. ps \in Workspace!Tables(PlanIds, Workspace!Plan) /\ ps[p].service \in DOMAIN vs
        BY <1>b, <3>1 DEF Fit
      <4> QED
        BY <3>1, <4>1, TableIs
    <3>3. row \in Workspace!Plan /\ row.service = ps[p].service
        BY <3>2 DEF Workspace!Plan
    <3> HIDE DEF row
    <3>4. [ps EXCEPT ![p] = row] = Workspace!Put(ps, p, row)
        BY <3>1, <3>2, ExceptIsPut
    <3>5. wWs' = Of(cs, vs, Workspace!Put(ps, p, row), us, tour)
        BY <1>b, <3>1, <3>4 DEF Of
    <3>6. Fit(cs, vs, Workspace!Put(ps, p, row), us)
        BY <1>b, <3>1, <3>2, <3>3, PlanStored
    <3> QED
        BY <1>d, <1>w, <3>1, <3>5, <3>6
  <2> QED
    BY <2>1, <2>2
<1>10. ASSUME NEW p \in PlanIds, Workspace!deletePlan(p) PROVE Good
  <2> DEFINE P == Workspace!Drop(ps, {p})
             U == Workspace!Drop(us, {u \in DOMAIN us : us[u].plan = p})
  <2>0. wKind' = "ok" /\ (wWs' = E \/ wWs' = WithoutPlan(E, P, U))
    BY <1>10 DEF Workspace!deletePlan, WithoutPlan, Workspace!Operation, ps, us, E
  <2>1. Fit(cs, vs, P, U) /\ Cascade(us, cs, P, U)
    BY <1>b, PlanDropped
  <2> HIDE DEF P, U
  <2>2. WithoutPlan(E, P, U) = Of(cs, vs, P, U, tour)
    BY <1>b, PlansReplaced
  <2> QED
    BY <1>w, <1>x, <2>0, <2>1, <2>2
<1>k. ASSUME wKind' = "ok", NEW c \in ClientIds, NEW row \in Workspace!Client,
             \A d \in DOMAIN cs \ {c} : cs[d].name # row.name,
             wWs' = [E EXCEPT !.clients = Workspace!Put(cs, c, row)]
      PROVE  Good
  <2>1. wWs' = Of(Workspace!Put(cs, c, row), vs, ps, us, tour)
    BY <1>b, <1>k DEF Of
  <2>2. Fit(Workspace!Put(cs, c, row), vs, ps, us)
    BY <1>b, <1>k, ClientStored
  <2> QED
    BY <1>d, <1>w, <1>k, <2>1, <2>2
<1>q. ASSUME NEW c \in DOMAIN cs
      PROVE  cs[c] \in Workspace!Client
             /\ \A row : [cs EXCEPT ![c] = row] = Workspace!Put(cs, c, row)
  <2>1. cs \in Workspace!Tables(ClientIds, Workspace!Client)
    BY <1>b DEF Fit
  <2>2. cs[c] \in Workspace!Client
    BY <2>1, TableIs
  <2>3. ASSUME NEW row PROVE [cs EXCEPT ![c] = row] = Workspace!Put(cs, c, row)
    BY <2>1, ExceptIsPut
  <2> QED
    BY <2>2, <2>3
<1>11. ASSUME NEW c \in ClientIds, NEW n \in Names, Workspace!createClient(c, n) PROVE Good
  <2>1. CASE wWs' = E
    BY <1>11, <1>x, <2>1 DEF Workspace!createClient, Workspace!Operation
  <2>2. CASE wWs' # E
    <3> DEFINE row == [name |-> n, active |-> TRUE]
    <3>1. /\ wKind' = "ok" /\ c \notin DOMAIN cs /\ \A d \in DOMAIN cs : cs[d].name # n
          /\ wWs' = [E EXCEPT !.clients = Workspace!Put(cs, c, row)]
        BY <1>11, <2>2 DEF Workspace!createClient, Workspace!Operation, cs, E
    <3>2. row \in Workspace!Client /\ row.name = n
        BY DEF Workspace!Client
    <3> HIDE DEF row
    <3> QED
        BY <1>k, <3>1, <3>2
  <2> QED
    BY <2>1, <2>2
<1>12. ASSUME NEW c \in ClientIds, NEW n \in Names, Workspace!updateClient(c, n) PROVE Good
  <2>1. CASE wWs' = E
    BY <1>12, <1>x, <2>1 DEF Workspace!updateClient, Workspace!Operation
  <2>2. CASE wWs' # E
    <3> DEFINE row == [cs[c] EXCEPT !.name = n]
    <3>1. /\ wKind' = "ok" /\ c \in DOMAIN cs /\ \A d \in DOMAIN cs \ {c} : cs[d].name # n
          /\ wWs' = [E EXCEPT !.clients = [cs EXCEPT ![c] = row]]
        BY <1>12, <2>2 DEF Workspace!updateClient, Workspace!Operation, cs, E
    <3>2. row \in Workspace!Client /\ row.name = n
        BY <1>q, <3>1 DEF Workspace!Client
    <3> HIDE DEF row
    <3>3. wWs' = [E EXCEPT !.clients = Workspace!Put(cs, c, row)]
        BY <1>q, <3>1
    <3> QED
        BY <1>k, <3>1, <3>2, <3>3
  <2> QED
    BY <2>1, <2>2
<1>13. ASSUME NEW c \in ClientIds, NEW a \in BOOLEAN, Workspace!setActive(c, a) PROVE Good
  <2>1. CASE wWs' = E
    BY <1>13, <1>x, <2>1 DEF Workspace!setActive, Workspace!Operation
  <2>2. CASE wWs' # E
    <3> DEFINE row == [cs[c] EXCEPT !.active = a]
    <3>1. /\ wKind' = "ok" /\ c \in DOMAIN cs
          /\ wWs' = [E EXCEPT !.clients = [cs EXCEPT ![c] = row]]
        BY <1>13, <2>2 DEF Workspace!setActive, Workspace!Operation, cs, E
    <3>2. row \in Workspace!Client /\ row.name = cs[c].name
        BY <1>q, <3>1 DEF Workspace!Client
    <3> HIDE DEF row
    <3>3. \A d \in DOMAIN cs \ {c} : cs[d].name # row.name
        BY <1>b, <3>1, <3>2 DEF Fit
    <3>4. wWs' = [E EXCEPT !.clients = Workspace!Put(cs, c, row)]
        BY <1>q, <3>1
    <3> QED
        BY <1>k, <3>1, <3>2, <3>3, <3>4
  <2> QED
    BY <2>1, <2>2
<1>14. ASSUME NEW c \in ClientIds, Workspace!deleteClient(c) PROVE Good
  <2> DEFINE C == Workspace!Drop(cs, {c})
             U == Workspace!Drop(us, {u \in DOMAIN us : us[u].client = c})
  <2>0. wKind' = "ok" /\ (wWs' = E \/ wWs' = WithoutClient(E, C, U))
    BY <1>14 DEF Workspace!deleteClient, WithoutClient, Workspace!Operation, cs, us, E
  <2>1. Fit(C, vs, ps, U) /\ Cascade(us, C, ps, U)
    BY <1>b, ClientDropped
  <2> HIDE DEF C, U
  <2>2. WithoutClient(E, C, U) = Of(C, vs, ps, U, tour)
    BY <1>b, ClientsReplaced
  <2> QED
    BY <1>w, <1>x, <2>0, <2>1, <2>2
<1>s. ASSUME wKind' = "ok", NEW u \in SubIds, NEW row \in Workspace!Sub,
             row.client \in DOMAIN cs,
             row.plan \in DOMAIN ps, row.service = ps[row.plan].service,
             wWs' = [E EXCEPT !.subs = Workspace!Put(us, u, row)]
      PROVE  Good
  <2>1. wWs' = Of(cs, vs, ps, Workspace!Put(us, u, row), tour)
    BY <1>b, <1>s DEF Of
  <2>2. Fit(cs, vs, ps, Workspace!Put(us, u, row))
        /\ Cascade(us, cs, ps, Workspace!Put(us, u, row))
    BY <1>b, <1>s, SubStored
  <2> QED
    BY <1>w, <1>s, <2>1, <2>2
<1>r. ASSUME NEW u \in DOMAIN us
      PROVE  us[u] \in Workspace!Sub
             /\ \A row : [us EXCEPT ![u] = row] = Workspace!Put(us, u, row)
  <2>1. us \in Workspace!Tables(SubIds, Workspace!Sub)
    BY <1>b DEF Fit
  <2>2. us[u] \in Workspace!Sub
    BY <2>1, TableIs
  <2>3. ASSUME NEW row PROVE [us EXCEPT ![u] = row] = Workspace!Put(us, u, row)
    BY <2>1, ExceptIsPut
  <2> QED
    BY <2>2, <2>3
<1>15. ASSUME NEW u \in SubIds, NEW c \in ClientIds, NEW v \in ServiceIds,
              NEW p \in PlanIds,
              NEW m \in Emails,
                  Workspace!createSubscription(u, c, v, p, m) \/ Workspace!updateSubscription(u, c, v, p, m)
       PROVE  Good
  <2>1. CASE wWs' = E
    BY <1>15, <1>x, <2>1 DEF Workspace!createSubscription, Workspace!updateSubscription,
       Workspace!Operation
  <2>2. ASSUME wWs' # E
        PROVE  \E s \in {"active", "expired", "cancelled"} :
                 /\ wKind' = "ok" /\ c \in DOMAIN cs /\ p \in DOMAIN ps /\ ps[p].service = v
                 /\ wWs' = [E EXCEPT !.subs = Workspace!Put(us, u,
                             [client |-> c, service |-> v, plan |-> p, email |-> m,
                                 status |-> s])]
    <3>1. CASE Workspace!createSubscription(u, c, v, p, m)
        BY <2>2, <3>1 DEF Workspace!createSubscription, Workspace!Operation,
           Workspace!validateRelationships, cs, ps, us, E
    <3>2. CASE Workspace!updateSubscription(u, c, v, p, m)
      <4>1. u \in DOMAIN us
        BY <2>2, <3>2 DEF Workspace!updateSubscription, Workspace!Operation, us, E
      <4>2. us[u].status \in {"active", "expired", "cancelled"}
        BY <1>r, <4>1 DEF Workspace!Sub
      <4>3. /\ wKind' = "ok" /\ c \in DOMAIN cs /\ p \in DOMAIN ps /\ ps[p].service = v
            /\ wWs' = [E EXCEPT !.subs = Workspace!Put(us, u,
                        [client |-> c, service |-> v, plan |-> p, email |-> m,
                         status |-> us[u].status])]
        BY <2>2, <3>2 DEF Workspace!updateSubscription, Workspace!Operation,
           Workspace!validateRelationships, cs, ps, us, E
      <4> QED
        BY <4>2, <4>3
    <3> QED
        BY <1>15, <3>1, <3>2
  <2>3. CASE wWs' # E
    <3>1. PICK s \in {"active", "expired", "cancelled"} :
                 /\ wKind' = "ok" /\ c \in DOMAIN cs /\ p \in DOMAIN ps /\ ps[p].service = v
                 /\ wWs' = [E EXCEPT !.subs = Workspace!Put(us, u,
                             [client |-> c, service |-> v, plan |-> p, email |-> m,
                                 status |-> s])]
        BY <2>2, <2>3
    <3> DEFINE row == [client |-> c, service |-> v, plan |-> p, email |-> m, status |-> s]
    <3>2. row \in Workspace!Sub /\ row.client = c /\ row.plan = p /\ row.service = v
        BY DEF Workspace!Sub
    <3> HIDE DEF row
    <3>3. wWs' = [E EXCEPT !.subs = Workspace!Put(us, u, row)]
        BY <3>1 DEF row
    <3> QED
        BY <1>s, <3>1, <3>2, <3>3
  <2> QED
    BY <2>1, <2>3
<1>16. ASSUME NEW u \in SubIds, NEW s \in {"active", "cancelled"},
              Workspace!setStatus(u, s) PROVE Good
  <2>1. CASE wWs' = E
    BY <1>16, <1>x, <2>1 DEF Workspace!setStatus, Workspace!Operation
  <2>2. CASE wWs' # E
    <3> DEFINE row == [us[u] EXCEPT !.status = s]
    <3>1. /\ wKind' = "ok" /\ u \in DOMAIN us
          /\ wWs' = [E EXCEPT !.subs = [us EXCEPT ![u] = row]]
        BY <1>16, <2>2 DEF Workspace!setStatus, Workspace!Operation, us, E
    <3>2. /\ row \in Workspace!Sub /\ row.client = us[u].client /\ row.plan = us[u].plan
          /\ row.service = us[u].service
        BY <1>r, <3>1 DEF Workspace!Sub
    <3> HIDE DEF row
    <3>3. /\ us[u].client \in DOMAIN cs /\ us[u].plan \in DOMAIN ps
          /\ us[u].service = ps[us[u].plan].service
        BY <1>b, <3>1 DEF Fit
    <3>4. wWs' = [E EXCEPT !.subs = Workspace!Put(us, u, row)]
        BY <1>r, <3>1
    <3> QED
        BY <1>s, <3>1, <3>2, <3>3, <3>4
  <2> QED
    BY <2>1, <2>2
<1>17. Good
    BY <1>1, <1>2, <1>3, <1>4, <1>5, <1>6, <1>7, <1>8, <1>9, <1>10, <1>11, <1>12, <1>13,
       <1>14,
       <1>15, <1>16 DEF Workspace!Next, Workspace!cancel, Workspace!renew,
           Workspace!reactivate
<1> QED
    BY <1>17 DEF Good

\* A step of the composition is a step of the workspace or leaves it alone.
LEMMA WorkspaceRuns == [MCNext]_MCvars => [Workspace!Next]_(Workspace!vars)
BY DEF MCNext, MCvars, wVars, Workspace!vars

\* The workspace holds together at all times.
LEMMA WorkspaceInvariance == MCSpec => []Sound(wWs)
<1>1. MCInit => Sound(wWs)
    BY Params DEF MCInit, Workspace!Init, Sound, Workspace!BaselineAssumption
<1>2. Sound(wWs) /\ [MCNext]_MCvars => Sound(wWs)'
  <2>1. CASE Workspace!Next
    BY <2>1, OperationsKeep
  <2>2. CASE UNCHANGED Workspace!vars
    BY <2>2 DEF Workspace!vars
  <2> QED
    BY <2>1, <2>2, WorkspaceRuns
<1> QED
    BY <1>1, <1>2, PTL DEF MCSpec


\* The storage is in one of the states isWorkspaceEnvelope and ensure tell apart.
Held == wKind \in {"none", "damaged", "stale", "ok"}

\* A demo's workspace holds together whatever its operations are, in whatever
\* order and with whatever identifiers: no plan and no subscription refers to
\* what is not there, names differ, a subscription goes only with its client, its
\* plan or the workspace, and a tour that was seen survives a reset.
THEOREM WorkspaceHolds == MCSpec => WorkspaceSound
<1>1. MCInit => Held
    BY DEF MCInit, Workspace!Init, Held
<1>2. Held /\ [MCNext]_MCvars => Held'
  <2> SUFFICES ASSUME Held, [MCNext]_MCvars PROVE Held'
    OBVIOUS
  <2>1. CASE Workspace!Next
    BY <2>1 DEF Held, Workspace!Next, Workspace!Operation, Workspace!reset,
       Workspace!clearDemoWorkspace, Workspace!Damage, Workspace!MetadataChanges,
       Workspace!saveTourState, Workspace!createService, Workspace!updateService,
       Workspace!deleteService, Workspace!createPlan, Workspace!updatePlan,
       Workspace!deletePlan, Workspace!createClient, Workspace!updateClient,
       Workspace!setActive, Workspace!deleteClient, Workspace!createSubscription,
       Workspace!updateSubscription, Workspace!setStatus, Workspace!cancel,
       Workspace!renew, Workspace!reactivate
  <2>2. CASE UNCHANGED Workspace!vars
    BY <2>2 DEF Workspace!vars, Held
  <2> QED
    BY <2>1, <2>2, WorkspaceRuns
<1>3. Held /\ Sound(wWs) => Workspace!TypeOK /\ Workspace!Linked /\ Workspace!NamesDiffer
    BY DEF Held, Sound, Workspace!TypeOK, Workspace!Linked, Workspace!NamesDiffer
<1>4. Sound(wWs) /\ [MCNext]_MCvars
        => [SubscriptionsCascade]_(Workspace!vars) /\ [TourStays]_(Workspace!vars)
    BY OperationsKeep, WorkspaceRuns DEF StepSafe
<1>5. MCSpec => [][SubscriptionsCascade]_(Workspace!vars) /\ [][TourStays]_(Workspace!vars)
    BY <1>4, WorkspaceInvariance, PTL DEF MCSpec
<1>6. MCSpec => [](Workspace!TypeOK /\ Workspace!Linked /\ Workspace!NamesDiffer)
    BY <1>1, <1>2, <1>3, WorkspaceInvariance, PTL DEF MCSpec
<1>7. MCSpec => Workspace!OnlyCascades /\ Workspace!TourKept
    BY <1>5 DEF Workspace!OnlyCascades, Workspace!TourKept, SubscriptionsCascade, TourStays
<1> QED
    BY <1>6, <1>7 DEF WorkspaceSound
=============================================================================
