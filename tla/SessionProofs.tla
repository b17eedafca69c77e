---------------------------- MODULE SessionProofs ----------------------------
(***************************************************************************)
(* Proofs about Session, for every number of goroutines.                   *)
(*                                                                         *)
(* SessionInv is the inductive invariant.  Its parts say what a            *)
(* goroutine's place implies: which request it serves (Stages), that a     *)
(* renewal holds authMu (Renewals), that two sign-ins on the client know   *)
(* of each other (Overlaps), what a sign-in still undisturbed may rely on  *)
(* (Fresh), and what a quiet logout has done so far and leaves behind      *)
(* (LoggingOut, LoggedOut).                                                *)
(***************************************************************************)
EXTENDS Session, TLAPS

Alone(p) == \A q \in Process \ {p} : pc[q] = Idle

\* Each stage belongs to one kind of request.
Stages ==
  \A p \in Process :
    /\ pc[p] = Idle => local[p] = NoLocal
    /\ pc[p] \in {"read", "store", "configure"} => local[p].op \in {"refresh", "logout"}
    /\ pc[p] \in {"lines", "linesReply", "renew"} => local[p].op = "lines"
    /\ pc[p] \in {"clear"} \cup InLogin => local[p].op \in {"lines", "login"}
    /\ pc[p] = "saveCredentials" => local[p].op = "login"
    /\ pc[p] \in {"out", "outFile", "outKeep", "outCredentials"} => local[p].op = "logout"

\* A renewal holds authMu from its start to its end.
Renewals ==
  \A p \in Process :
    pc[p] \in {"clear"} \cup InLogin /\ local[p].op = "lines" => authMu = p

\* Two sign-ins on the client at a time have both been overlapped.
Overlaps ==
  \A p, q \in Process :
    p # q /\ pc[p] \in SigningIn /\ pc[q] \in SigningIn => p \in overlapped

\* The client answers with the session in its cookie, if it has one.
FreshCookie(p) ==
  pc[p] \in {"take", "result"} => cookie = local[p].mine /\ cookie # NoSession

FreshBody(p) ==
  p \notin filled =>
    /\ pc[p] \in SigningIn => cookie = NoSession
    /\ pc[p] = "result" => token = local[p].mine

\* The sign-in nothing met has the client to itself.
Fresh ==
  \A p \in Process \ overlapped :
    IF place = "body" THEN FreshBody(p) ELSE FreshCookie(p)

\* A quiet logout is alone, and its steps so far hold.
LoggingOut ==
  \A p \in Process :
    quiet /\ local[p].op = "logout" =>
      /\ Alone(p)
      /\ ~out
      /\ pc[p] \in {"outFile", "outKeep", "outCredentials"} => Given({token, cookie}) = {}
      /\ pc[p] \in {"outKeep", "outCredentials"} => file = NoSession
      /\ pc[p] = "outCredentials" => cfgToken = NoSession

\* After it, requests carry nothing and none signs in.
LoggedOut ==
  out /\ quiet =>
    /\ SignedOut
    /\ \A p \in Process :
         /\ local[p].op \in {"refresh", "lines"}
         /\ local[p].read = NoSession
         /\ pc[p] \notin {"clear"} \cup InLogin

SessionInv ==
  /\ TypeOK
  /\ Stages
  /\ Renewals
  /\ Overlaps
  /\ Fresh
  /\ FreshSessionSaved
  /\ LoggingOut
  /\ LoggedOut

Locals == [op : Operation, read : Known, sent : SUBSET Known, retried : BOOLEAN,
           cycle : 0..Cycles - 1, mine : Known, result : Known]

\* The locals of a goroutine at rest.
LEMMA NoLocalTyped == ASSUME TypeOK PROVE NoLocal \in Locals
  BY DEF TypeOK, NoLocal, Locals, Known, NoSession, Operation, Cycles

\* Notes of the right kind keep the types of the locals.
LEMMA NotedTyped ==
  ASSUME TypeOK, NEW p \in Process, NEW f, NEW v,
         UNCHANGED issued, Note(p, f, v),
         \/ f = "op" /\ v \in Operation
         \/ f \in {"read", "mine", "result"} /\ v \in Known
         \/ f = "sent" /\ v \in SUBSET Known
         \/ f = "retried" /\ v \in BOOLEAN
  PROVE  local' \in [Process -> Locals']
<1>1. Known' = Known /\ Locals' = Locals
  BY DEF Known, Locals
<1>2. local \in [Process -> Locals]
  BY DEF TypeOK, Locals
<1>3. local[p] \in Locals
  BY <1>2
<1>4. [local[p] EXCEPT ![f] = v] \in Locals
  <2>1. CASE f = "op" /\ v \in Operation
    BY <2>1, <1>3 DEF Locals
  <2>2. CASE f \in {"read", "mine", "result"} /\ v \in Known
    BY <2>2, <1>3 DEF Locals
  <2>3. CASE f = "sent" /\ v \in SUBSET Known
    BY <2>3, <1>3 DEF Locals
  <2>4. CASE f = "retried" /\ v \in BOOLEAN
    BY <2>4, <1>3 DEF Locals
  <2>5. QED
    BY <2>1, <2>2, <2>3, <2>4
<1>5. QED
  BY <1>1, <1>2, <1>4 DEF Note

\* A step goes to a label.
LEMMA GotoTyped ==
  ASSUME TypeOK, NEW p \in Process, NEW label \in Label, Goto(p, label)
  PROVE  pc' \in [Process -> Label]
  BY DEF Goto, TypeOK

\* A goroutine that returns is typed.
LEMMA ReturnTyped ==
  ASSUME TypeOK, NEW p \in Process, Return(p), Known \subseteq Known'
  PROVE  pc' \in [Process -> Label] /\ local' \in [Process -> Locals']
<1>1. Idle \in Label
  BY DEF Label
<1>2. pc' \in [Process -> Label]
  BY <1>1, GotoTyped DEF Return
<1>3. Locals \subseteq Locals'
  BY DEF Locals
<1>4. local' \in [Process -> Locals]
  <2>1. local \in [Process -> Locals]
    BY DEF TypeOK, Locals
  <2>2. QED
    BY <2>1, NoLocalTyped DEF Return
<1>5. QED
  BY <1>2, <1>3, <1>4

\* Spending keeps a budget a number.
LEMMA SpendTyped ==
  ASSUME TypeOK, NEW kind \in {"request", "fault", "expiry", "crash"}, Spend(kind)
  PROVE  budget' \in [{"request", "fault", "expiry", "crash"} -> Nat]
<1>1. budget[kind] \in Nat /\ budget[kind] - 1 \in Nat
  BY DEF TypeOK, Spend
<1>2. QED
  BY <1>1 DEF TypeOK, Spend

\* A sign-in makes one more session known.
LEMMA IssueTyped ==
  ASSUME TypeOK, Issue
  PROVE  /\ issued' \in Nat /\ place' \in Places
         /\ issued + 1 \in Known'
         /\ Known \subseteq Known'
         /\ valid' \subseteq Known' \ {NoSession}
  BY DEF TypeOK, Issue, Known, NoSession

\* A goroutine's step keeps the types.
LEMMA StepTyped == ASSUME TypeOK, NEW p \in Process, Step(p) PROVE TypeOK'
<1> DEFINE Kinds == {"request", "fault", "expiry", "crash"}
<1>0. /\ issued \in Nat /\ place \in Places
      /\ valid \subseteq Known \ {NoSession}
      /\ {token, cookie, cfgToken, file} \subseteq Known
      /\ {requestMu, authMu} \subseteq Process \cup {NoProcess}
      /\ saved \in BOOLEAN
      /\ pc \in [Process -> Label]
      /\ local \in [Process -> Locals]
      /\ {overlapped, filled} \subseteq SUBSET Process
      /\ {out, quiet} \subseteq BOOLEAN
      /\ budget \in [Kinds -> Nat]
      /\ NoSession \in Known
  BY DEF TypeOK, Locals, Known, NoSession
<1>a. local[p] \in Locals
  BY <1>0
<1>b. /\ local[p].read \in Known /\ local[p].result \in Known /\ local[p].mine \in Known
      /\ local[p].sent \in SUBSET Known
      /\ local[p].retried \in BOOLEAN /\ local[p].cycle \in 0..Cycles - 1
  BY <1>a DEF Locals
<1>c. issued' = issued => Known' = Known /\ Locals' = Locals
  BY DEF Known, Locals
<1>d. ASSUME /\ issued' \in Nat /\ place' \in Places
             /\ valid' \subseteq Known' \ {NoSession}
             /\ {token', cookie', cfgToken', file'} \subseteq Known'
             /\ {requestMu', authMu'} \subseteq Process \cup {NoProcess}
             /\ saved' \in BOOLEAN
             /\ pc' \in [Process -> Label]
             /\ local' \in [Process -> Locals']
             /\ {overlapped', filled'} \subseteq SUBSET Process
             /\ {out', quiet'} \subseteq BOOLEAN
             /\ budget' \in [Kinds -> Nat]
      PROVE  TypeOK'
  BY <1>d DEF TypeOK, Locals
<1> HIDE DEF Kinds
<1>1. CASE ReadSession(p)
  <2>1. local' \in [Process -> Locals']
    BY <1>0, <1>1, NotedTyped DEF ReadSession, provider
  <2>2. pc' \in [Process -> Label]
    BY <1>1, GotoTyped DEF ReadSession, Label
  <2>3. QED
    BY <1>0, <1>1, <1>c, <1>d, <2>1, <2>2 DEF ReadSession, provider, client, store, history
<1>2. CASE StoreSettings(p)
  <2>2. pc' \in [Process -> Label]
    BY <1>2, GotoTyped DEF StoreSettings, Label
  <2>3. QED
    BY <1>0, <1>2, <1>b, <1>c, <1>d, <2>2 DEF StoreSettings, provider, client, store, history
<1>3. CASE Configure(p)
  <2>1. /\ pc' \in [Process -> Label]
        /\ local' \in [Process -> Locals']
    <3>1. CASE Return(p)
      <4>1. Known \subseteq Known'
        BY <1>3, <1>c DEF Configure, provider
      <4>2. QED
        BY <3>1, <4>1, ReturnTyped
    <3>2. CASE Goto(p, "out") /\ UNCHANGED local
      BY <3>2, <1>3, <1>0, <1>c, GotoTyped DEF Label, Configure, provider
    <3>3. QED
      BY <1>3, <3>1, <3>2 DEF Configure
  <2>2. {token', cookie'} \subseteq Known
    BY <1>3, <1>0, <1>b DEF Configure, client
  <2>3. filled' \in SUBSET Process
    BY <1>3, <1>0 DEF Configure
  <2>4. QED
    BY <1>0, <1>3, <1>c, <1>d, <2>1, <2>2, <2>3 DEF Configure, provider, store
<1>4. CASE SendLines(p) \/ SendLogin(p)
  <2>1. PICK reply \in {"linesReply", "loginReply"} : Send(p, reply)
    BY <1>4 DEF SendLines, SendLogin
  <2>2. /\ pc' \in [Process -> Label]
        /\ requestMu' = p
    BY <2>1, GotoTyped DEF Send, Label
  <2>3. UNCHANGED <<provider, client, authMu, cfgToken, store, history, budget>>
    BY <1>4 DEF SendLines, SendLogin
  <2>4. local' \in [Process -> Locals']
    <3>1. Given({token, cookie}) \in SUBSET Known
      BY <1>0 DEF Given
    <3>2. QED
      BY <3>1, <2>1, <2>3, NotedTyped DEF Send, provider
  <2>5. QED
    BY <1>0, <1>c, <1>d, <2>2, <2>3, <2>4 DEF provider, client, store, history
<1>5. CASE LinesAnswered(p)
  <2>1. budget' \in [Kinds -> Nat]
    BY <1>5, <1>0, SpendTyped DEF LinesAnswered, Kinds
  <2>2. issued' = issued
    BY <1>5 DEF LinesAnswered, provider
  <2>3. pc' \in [Process -> Label] /\ local' \in [Process -> Locals']
    BY <1>5, <1>c, <2>2, ReturnTyped DEF LinesAnswered
  <2>4. QED
    BY <1>0, <1>5, <1>c, <1>d, <2>1, <2>2, <2>3
       DEF LinesAnswered, provider, client, store, history
<1>6. CASE LinesRefused(p)
  <2>1. budget' \in [Kinds -> Nat]
    BY <1>6, <1>0, SpendTyped DEF LinesRefused, Kinds
  <2>2. pc' \in [Process -> Label]
    <3>1. PICK label \in {"renew", "lines"} : Goto(p, label)
      BY <1>6 DEF LinesRefused
    <3>2. QED
      BY <3>1, GotoTyped DEF Label
  <2>3. local' \in [Process -> Locals']
    <3>1. (~local[p].retried) \in BOOLEAN
      BY <1>b
    <3>2. QED
      BY <1>6, <3>1, NotedTyped DEF LinesRefused, provider
  <2>4. QED
    BY <1>0, <1>6, <1>c, <1>d, <2>1, <2>2, <2>3
       DEF LinesRefused, provider, client, store, history
<1>7. CASE Renew(p)
  <2>1. pc' \in [Process -> Label]
    BY <1>7, GotoTyped DEF Renew, Label
  <2>2. QED
    BY <1>0, <1>7, <1>c, <1>d, <2>1 DEF Renew, provider, client, store, history
<1>8. CASE NothingToRenew(p)
  <2>1. issued' = issued
    BY <1>8 DEF NothingToRenew, provider
  <2>2. pc' \in [Process -> Label] /\ local' \in [Process -> Locals']
    BY <1>8, <1>c, <2>1, ReturnTyped DEF NothingToRenew
  <2>3. QED
    BY <1>0, <1>8, <1>c, <1>d, <2>2 DEF NothingToRenew, provider, client, store, history
<1>9. CASE ClearAuth(p) \/ LogoutClear(p)
  <2>1. PICK label \in {"login", "outFile"} : Goto(p, label)
    BY <1>9 DEF ClearAuth, LogoutClear
  <2>2. pc' \in [Process -> Label]
    BY <2>1, GotoTyped DEF Label
  <2>3. /\ Clear(p)
        /\ UNCHANGED <<provider, requestMu, authMu, cfgToken, store, local, out, quiet, budget>>
    BY <1>9 DEF ClearAuth, LogoutClear
  <2>4. overlapped' \in SUBSET Process /\ filled' \in SUBSET Process
    BY <1>0, <2>3 DEF Clear, Met
  <2>5. token' = NoSession /\ cookie' = NoSession
    BY <2>3 DEF Clear
  <2>6. QED
    BY <1>0, <1>c, <1>d, <2>2, <2>3, <2>4, <2>5 DEF provider, store
<1>10. CASE LoginAnswered(p)
  <2>1. /\ Issue
        /\ Note(p, "mine", issued + 1)
        /\ requestMu' = NoProcess
        /\ UNCHANGED <<token, authMu, cfgToken, store, history, budget>>
    BY <1>10 DEF LoginAnswered
  <2>2. pc' \in [Process -> Label]
    BY <1>10, GotoTyped DEF LoginAnswered, Label
  <2>3. local' \in [Process -> Locals']
    <3>1. Locals \subseteq Locals'
      BY <2>1, IssueTyped DEF Locals
    <3>2. local[p] \in Locals'
      BY <1>a, <3>1
    <3>3. [local[p] EXCEPT !["mine"] = issued + 1] \in Locals'
      BY <3>2, <2>1, IssueTyped DEF Locals
    <3>4. QED
      BY <1>0, <2>1, <3>1, <3>3 DEF Note
  <2>4. cookie' \in Known'
    BY <1>10, <1>0, <2>1, IssueTyped DEF LoginAnswered
  <2>5. QED
    BY <1>0, <1>d, <2>1, <2>2, <2>3, <2>4, IssueTyped DEF store, history
<1>11. CASE LoginFails(p)
  <2>1. budget' \in [Kinds -> Nat]
    BY <1>11, <1>0, SpendTyped DEF LoginFails, Kinds
  <2>2. /\ issued' \in Nat /\ place' \in Places
        /\ Known \subseteq Known'
        /\ valid' \subseteq Known' \ {NoSession}
        /\ cookie' \in Known'
    <3>1. CASE Issue /\ cookie' \in IF place = "cookie" THEN {cookie, issued + 1} ELSE {cookie}
      <4>1. cookie \in Known' /\ issued + 1 \in Known'
        BY <3>1, <1>0, IssueTyped
      <4> QED
        BY <3>1, <4>1, IssueTyped
    <3>2. CASE UNCHANGED <<provider, cookie>>
      BY <3>2, <1>0, <1>c DEF provider
    <3>3. QED
      BY <1>11, <3>1, <3>2 DEF LoginFails, Unanswered
  <2>3. pc' \in [Process -> Label] /\ local' \in [Process -> Locals']
    BY <1>11, <2>2, ReturnTyped DEF LoginFails, GiveUp
  <2>4. /\ requestMu' = NoProcess /\ authMu' \in {authMu, NoProcess}
        /\ UNCHANGED <<token, cfgToken, store, history>>
    BY <1>11 DEF LoginFails, GiveUp
  <2>5. QED
    BY <1>0, <1>d, <2>1, <2>2, <2>3, <2>4 DEF store, history
<1>12. CASE TakeToken(p)
  <2>1. pc' \in [Process -> Label]
    BY <1>12, GotoTyped DEF TakeToken, Label
  <2>2. token' \in Known
    BY <1>12, <1>0, <1>b DEF TakeToken
  <2>3. QED
    BY <1>0, <1>12, <1>c, <1>d, <2>1, <2>2 DEF TakeToken, provider, store, history
<1>13. CASE NoSessionIssued(p)
  <2>1. issued' = issued
    BY <1>13 DEF NoSessionIssued, provider
  <2>2. pc' \in [Process -> Label] /\ local' \in [Process -> Locals']
    BY <1>13, <1>c, <2>1, ReturnTyped DEF NoSessionIssued, GiveUp
  <2>3. QED
    BY <1>0, <1>13, <1>c, <1>d, <2>1, <2>2
       DEF NoSessionIssued, GiveUp, provider, client, store, history
<1>14. CASE LoginReturns(p)
  <2>1. PICK label \in {"saveCredentials", "saveSession"} : Goto(p, label)
    BY <1>14 DEF LoginReturns
  <2>2. pc' \in [Process -> Label]
    BY <2>1, GotoTyped DEF Label
  <2>3. local' \in [Process -> Locals']
    <3>1. PICK v \in Known : Note(p, "result", v)
      BY <1>14, <1>0 DEF LoginReturns
    <3>2. QED
      BY <1>14, <3>1, NotedTyped DEF LoginReturns, provider
  <2>4. QED
    BY <1>0, <1>14, <1>c, <1>d, <2>2, <2>3 DEF LoginReturns, provider, client, store, history
<1>15. CASE SaveCredentials(p)
  <2>1. budget' \in [Kinds -> Nat]
    BY <1>15, <1>0, SpendTyped DEF SaveCredentials, Kinds
  <2>2. pc' \in [Process -> Label]
    BY <1>15, GotoTyped DEF SaveCredentials, Label
  <2>3. saved' \in BOOLEAN
    BY <1>15, <1>0 DEF SaveCredentials
  <2>4. QED
    BY <1>0, <1>15, <1>c, <1>d, <2>1, <2>2, <2>3 DEF SaveCredentials, provider, client, history
<1>16. CASE SaveSession(p)
  <2>1. budget' \in [Kinds -> Nat]
    BY <1>16, <1>0, SpendTyped DEF SaveSession, Kinds
  <2>2. pc' \in [Process -> Label]
    BY <1>16, GotoTyped DEF SaveSession, Label
  <2>3. file' \in Known
    BY <1>16, <1>0, <1>b DEF SaveSession
  <2>4. QED
    BY <1>0, <1>16, <1>c, <1>d, <2>1, <2>2, <2>3 DEF SaveSession, provider, client, history
<1>17. CASE KeepSession(p)
  <2>1. pc' \in [Process -> Label] /\ local' \in [Process -> Locals']
    <3>1. CASE Return(p)
      <4>1. issued' = issued
        BY <1>17 DEF KeepSession, provider
      <4>2. QED
        BY <3>1, <4>1, <1>c, ReturnTyped
    <3>2. CASE /\ local[p].cycle < Cycles - 1
               /\ local' = [local EXCEPT ![p] = [NoLocal EXCEPT !.op = "lines",
                                                   !.cycle = local[p].cycle + 1]]
               /\ Goto(p, "lines")
      <4>1. local[p].cycle + 1 \in 0..Cycles - 1
        BY <3>2, <1>b DEF Cycles
      <4>2. [NoLocal EXCEPT !.op = "lines", !.cycle = local[p].cycle + 1] \in Locals
        BY <4>1, NoLocalTyped DEF Locals, Operation
      <4>3. local' \in [Process -> Locals]
        BY <4>2, <3>2, <1>0
      <4>4. Locals' = Locals
        BY <1>17, <1>c DEF KeepSession, provider
      <4>5. pc' \in [Process -> Label]
        BY <3>2, GotoTyped DEF Label
      <4>6. QED
        BY <4>3, <4>4, <4>5
    <3>3. QED
      BY <1>17, <3>1, <3>2 DEF KeepSession
  <2>2. /\ cfgToken' \in Known /\ authMu' \in {authMu, NoProcess}
        /\ UNCHANGED <<provider, client, requestMu, store, history, budget>>
    BY <1>17, <1>b DEF KeepSession
  <2>3. QED
    BY <1>0, <1>c, <1>d, <2>1, <2>2 DEF provider, client, store, history
<1>18. CASE LogoutFile(p)
  <2>1. budget' \in [Kinds -> Nat]
    BY <1>18, <1>0, SpendTyped DEF LogoutFile, Kinds
  <2>2. pc' \in [Process -> Label]
    BY <1>18, GotoTyped DEF LogoutFile, Label
  <2>3. file' \in Known /\ quiet' \in BOOLEAN
    BY <1>18, <1>0 DEF LogoutFile
  <2>4. QED
    BY <1>0, <1>18, <1>c, <1>d, <2>1, <2>2, <2>3 DEF LogoutFile, provider, client
<1>19. CASE LogoutKeep(p)
  <2>2. pc' \in [Process -> Label]
    BY <1>19, GotoTyped DEF LogoutKeep, Label
  <2>4. QED
    BY <1>0, <1>19, <1>c, <1>d, <2>2 DEF LogoutKeep, provider, client, store, history
<1>20. CASE LogoutCredentials(p)
  <2>1. budget' \in [Kinds -> Nat]
    BY <1>20, <1>0, SpendTyped DEF LogoutCredentials, Kinds
  <2>2. issued' = issued
    BY <1>20 DEF LogoutCredentials, provider
  <2>3. pc' \in [Process -> Label] /\ local' \in [Process -> Locals']
    BY <1>20, <1>c, <2>2, ReturnTyped DEF LogoutCredentials
  <2>4. saved' \in BOOLEAN /\ quiet' \in BOOLEAN
    BY <1>20, <1>0 DEF LogoutCredentials
  <2>5. out' \in BOOLEAN
    BY <1>20 DEF LogoutCredentials
  <2>6. QED
    BY <1>0, <1>20, <1>c, <1>d, <2>1, <2>2, <2>3, <2>4, <2>5
       DEF LogoutCredentials, provider, client
<1>21. QED
  BY <1>1, <1>2, <1>3, <1>4, <1>5, <1>6, <1>7, <1>8, <1>9, <1>10, <1>11, <1>12, <1>13,
     <1>14, <1>15, <1>16, <1>17, <1>18, <1>19, <1>20
     DEF Step, Refresh, Lines, SignIn, Logout

\* Where a step takes a goroutine, and what it keeps of its locals.
Edge(p, from, to) == pc[p] = from /\ pc'[p] = to
Ends(p) == pc'[p] = Idle /\ local'[p] = NoLocal
Runs(p) ==
  /\ local'[p].op = local[p].op /\ local'[p].read = local[p].read
  /\ local'[p].mine = local[p].mine /\ local'[p].result = local[p].result

Control(p) ==
  /\ \A q \in Process \ {p} : pc'[q] = pc[q] /\ local'[q] = local[q]
  /\ \/ Ends(p)
     \/ Edge(p, "read", "store") /\ local'[p].op = local[p].op
     \/ Edge(p, "result", "saveCredentials") /\ local[p].op = "login" /\ local'[p].op = "login"
     \/ Edge(p, "result", "saveSession") /\ local[p].op # "login" /\ local'[p].op = local[p].op
     \/ /\ Edge(p, "loginReply", "take")
        /\ local'[p].op = local[p].op /\ local'[p].read = local[p].read
     \/ /\ Edge(p, "keep", "lines")
        /\ local'[p].op = "lines" /\ local'[p].read = NoSession
     \/ /\ Runs(p)
        /\ \/ Edge(p, "store", "configure")
           \/ Edge(p, "configure", "out") /\ local[p].op = "logout"
           \/ Edge(p, "lines", "linesReply") \/ Edge(p, "linesReply", "lines")
           \/ Edge(p, "linesReply", "renew") \/ Edge(p, "renew", "clear")
           \/ Edge(p, "clear", "login") \/ Edge(p, "login", "loginReply")
           \/ Edge(p, "take", "result")
           \/ Edge(p, "saveCredentials", "saveSession") \/ Edge(p, "saveSession", "keep")
           \/ Edge(p, "out", "outFile") \/ Edge(p, "outFile", "outKeep")
           \/ Edge(p, "outKeep", "outCredentials")

\* A step moves one goroutine only.
LEMMA Gone ==
  ASSUME TypeOK, NEW p \in Process, NEW label, Goto(p, label)
  PROVE  /\ \A q \in Process \ {p} : pc'[q] = pc[q]
         /\ pc'[p] = label
  BY DEF Goto, TypeOK

\* One that returns forgets its locals.
LEMMA Returned ==
  ASSUME TypeOK, NEW p \in Process, Return(p)
  PROVE  /\ \A q \in Process \ {p} : pc'[q] = pc[q] /\ local'[q] = local[q]
         /\ Ends(p)
<1>1. local \in [Process -> Locals]
  BY DEF TypeOK, Locals
<1>2. QED
  BY <1>1, Gone DEF Return, Ends

\* Every step follows an edge of Control.
LEMMA StepControl == ASSUME TypeOK, NEW p \in Process, Step(p) PROVE Control(p)
<1>0. /\ local \in [Process -> Locals]
      /\ local[p] \in Locals
  BY DEF TypeOK, Locals
<1>n. ASSUME NEW f \in {"read", "sent", "retried", "mine", "result"}, NEW v, Note(p, f, v)
      PROVE  /\ \A q \in Process \ {p} : local'[q] = local[q]
             /\ local'[p].op = local[p].op
             /\ f # "read" => local'[p].read = local[p].read
             /\ f # "mine" => local'[p].mine = local[p].mine
             /\ f # "result" => local'[p].result = local[p].result
             /\ local'[p][f] = v
  BY <1>0, <1>n DEF Note, Locals
<1>1. CASE ReadSession(p)
  BY <1>1, <1>n, Gone DEF ReadSession, Control, Edge
<1>2. CASE StoreSettings(p)
  BY <1>2, Gone DEF StoreSettings, Control, Edge, Runs
<1>3. CASE Configure(p)
  BY <1>3, Gone, Returned DEF Configure, Control, Edge, Runs
<1>4. CASE SendLines(p)
  BY <1>4, <1>n, Gone DEF SendLines, Send, Control, Edge, Runs
<1>5. CASE LinesAnswered(p)
  BY <1>5, Returned DEF LinesAnswered, Control
<1>6. CASE LinesRefused(p)
  BY <1>6, <1>n, Gone DEF LinesRefused, Control, Edge, Runs
<1>7. CASE Renew(p)
  BY <1>7, Gone DEF Renew, Control, Edge, Runs
<1>8. CASE NothingToRenew(p)
  BY <1>8, Returned DEF NothingToRenew, Control
<1>9. CASE ClearAuth(p)
  BY <1>9, Gone DEF ClearAuth, Control, Edge, Runs
<1>10. CASE SendLogin(p)
  BY <1>10, <1>n, Gone DEF SendLogin, Send, Control, Edge, Runs
<1>11. CASE LoginAnswered(p)
  BY <1>11, <1>n, Gone DEF LoginAnswered, Control, Edge
<1>12. CASE LoginFails(p)
  BY <1>12, Returned DEF LoginFails, GiveUp, Control
<1>13. CASE TakeToken(p)
  BY <1>13, Gone DEF TakeToken, Control, Edge, Runs
<1>14. CASE NoSessionIssued(p)
  BY <1>14, Returned DEF NoSessionIssued, GiveUp, Control
<1>15. CASE LoginReturns(p)
  BY <1>15, <1>n, Gone DEF LoginReturns, Control, Edge
<1>16. CASE SaveCredentials(p)
  BY <1>16, Gone DEF SaveCredentials, Control, Edge, Runs
<1>17. CASE SaveSession(p)
  BY <1>17, Gone DEF SaveSession, Control, Edge, Runs
<1>18. CASE KeepSession(p)
  <2>1. CASE Return(p)
    BY <2>1, Returned DEF Control
  <2>2. CASE /\ local' = [local EXCEPT ![p] = [NoLocal EXCEPT !.op = "lines",
                                                 !.cycle = local[p].cycle + 1]]
             /\ Goto(p, "lines")
    <3>1. \A q \in Process \ {p} : local'[q] = local[q]
      BY <2>2, <1>0
    <3>2. local'[p].op = "lines" /\ local'[p].read = NoSession
      BY <2>2, <1>0, NoLocalTyped DEF Locals, NoLocal
    <3>3. QED
      BY <1>18, <2>2, <3>1, <3>2, Gone DEF KeepSession, Control, Edge
  <2>3. QED
    BY <1>18, <2>1, <2>2 DEF KeepSession
<1>19. CASE LogoutClear(p)
  BY <1>19, Gone DEF LogoutClear, Control, Edge, Runs
<1>20. CASE LogoutFile(p)
  BY <1>20, Gone DEF LogoutFile, Control, Edge, Runs
<1>21. CASE LogoutKeep(p)
  BY <1>21, Gone DEF LogoutKeep, Control, Edge, Runs
<1>22. CASE LogoutCredentials(p)
  BY <1>22, Returned DEF LogoutCredentials, Control
<1>23. QED
  BY <1>1, <1>2, <1>3, <1>4, <1>5, <1>6, <1>7, <1>8, <1>9, <1>10, <1>11, <1>12, <1>13,
     <1>14, <1>15, <1>16, <1>17, <1>18, <1>19, <1>20, <1>21, <1>22
     DEF Step, Refresh, Lines, SignIn, Logout

\* Stages: a request keeps its kind, and an ended one is forgotten.
LEMMA StagesKept == ASSUME Stages, NEW p \in Process, Control(p) PROVE Stages'
<1>1. SUFFICES ASSUME NEW q \in Process
               PROVE  /\ pc'[q] = Idle => local'[q] = NoLocal
                      /\ pc'[q] \in {"read", "store", "configure"} => local'[q].op \in {"refresh", "logout"}
                      /\ pc'[q] \in {"lines", "linesReply", "renew"} => local'[q].op = "lines"
                      /\ pc'[q] \in {"clear"} \cup InLogin =>
                           pc'[q] # Idle /\ local'[q].op \in {"lines", "login"}
                      /\ pc'[q] = "saveCredentials" => local'[q].op = "login"
                      /\ pc'[q] \in {"out", "outFile", "outKeep", "outCredentials"} => local'[q].op = "logout"
  BY DEF Stages
<1>2. CASE q # p
  BY <1>2 DEF Control, Stages, Idle, InLogin, SigningIn
<1>3. CASE q = p
  BY <1>3 DEF Control, Stages, Ends, Edge, Runs, Idle, InLogin, SigningIn
<1>4. QED
  BY <1>2, <1>3

\* A goroutine's place says which step it may take.
LEMMA StepAt ==
  ASSUME NEW p \in Process, Step(p)
  PROVE  /\ pc[p] # Idle
         /\ pc[p] = "read" => ReadSession(p)
         /\ pc[p] = "store" => StoreSettings(p)
         /\ pc[p] = "configure" => Configure(p)
         /\ pc[p] = "renew" => Renew(p) \/ NothingToRenew(p)
         /\ pc[p] = "clear" => ClearAuth(p)
         /\ pc[p] = "loginReply" => LoginAnswered(p) \/ LoginFails(p)
         /\ pc[p] = "take" => TakeToken(p)
         /\ pc[p] = "result" => NoSessionIssued(p) \/ LoginReturns(p)
         /\ pc[p] = "saveCredentials" => SaveCredentials(p)
         /\ pc[p] = "saveSession" => SaveSession(p)
         /\ pc[p] = "keep" => KeepSession(p)
         /\ pc[p] = "out" => LogoutClear(p)
         /\ pc[p] = "outFile" => LogoutFile(p)
         /\ pc[p] = "outKeep" => LogoutKeep(p)
         /\ pc[p] = "outCredentials" => LogoutCredentials(p)
  BY DEF Step, Refresh, Lines, SignIn, Logout, ReadSession, StoreSettings, Configure,
     SendLines, LinesAnswered, LinesRefused, Renew, NothingToRenew, ClearAuth, SendLogin,
     LoginAnswered, LoginFails, TakeToken, NoSessionIssued, LoginReturns, SaveCredentials,
     SaveSession, KeepSession, LogoutClear, LogoutFile, LogoutKeep, LogoutCredentials, Idle

\* A step never makes a logout quiet, and only the end of one sets out.
LEMMA HistoryMoves ==
  ASSUME NEW p \in Process, Step(p)
  PROVE  /\ quiet' => quiet
         /\ ~LogoutCredentials(p) => out' = out
<1>1. CASE LogoutFile(p)
  <2>1. out' = out
    BY <1>1 DEF LogoutFile
  <2>2. quiet' = quiet \/ quiet' = FALSE
    BY <1>1 DEF LogoutFile
  <2>3. QED
    BY <2>1, <2>2
<1>3. CASE LogoutCredentials(p)
  <2>1. quiet' = quiet \/ quiet' = FALSE
    BY <1>3 DEF LogoutCredentials
  <2>2. QED
    BY <2>1, <1>3
<1>2. CASE ~LogoutFile(p) /\ ~LogoutCredentials(p)
  BY <1>2 DEF Step, Refresh, Lines, SignIn, Logout, ReadSession, StoreSettings, Configure,
     SendLines, LinesAnswered, LinesRefused, Renew, NothingToRenew, ClearAuth, SendLogin,
     LoginAnswered, LoginFails, TakeToken, NoSessionIssued, LoginReturns, SaveCredentials,
     SaveSession, KeepSession, LogoutClear, LogoutKeep, history
<1>4. QED
  BY <1>1, <1>2, <1>3

\* What a step does to authMu.
LEMMA LockMoves ==
  ASSUME TypeOK, NEW p \in Process, Step(p)
  PROVE  \/ authMu' = authMu /\ ~(pc[p] = "renew" /\ pc'[p] = "clear")
         \/ pc[p] = "renew" /\ authMu = NoProcess /\ authMu' = p
         \/ authMu' = NoProcess /\ authMu = p /\ pc'[p] \in {Idle, "lines"}
<1>1. CASE Renew(p)
  BY <1>1 DEF Renew
<1>2. CASE LoginFails(p) \/ NoSessionIssued(p)
  BY <1>2, Gone DEF LoginFails, NoSessionIssued, GiveUp, Return, Idle
<1>3. CASE KeepSession(p)
  BY <1>3, Gone DEF KeepSession, Return, Idle
<1>4. CASE Step(p) /\ ~Renew(p) /\ ~LoginFails(p) /\ ~NoSessionIssued(p) /\ ~KeepSession(p)
  <2>1. authMu' = authMu
    BY <1>4 DEF Step, Refresh, Lines, SignIn, Logout, ReadSession, StoreSettings, Configure,
       SendLines, LinesAnswered, LinesRefused, NothingToRenew, ClearAuth, SendLogin,
       LoginAnswered, TakeToken, LoginReturns, SaveCredentials, SaveSession, LogoutClear,
       LogoutFile, LogoutKeep, LogoutCredentials
  <2>2. CASE pc[p] = "renew"
    <3>1. NothingToRenew(p)
      BY <1>4, <2>2, StepAt
    <3>2. pc'[p] = Idle
      BY <3>1, Gone DEF NothingToRenew, Return
    <3>3. QED
      BY <2>1, <3>2 DEF Idle
  <2>3. QED
    BY <2>1, <2>2
<1>5. QED
  BY <1>1, <1>2, <1>3, <1>4

\* Renewals: only the holder lets go of authMu, and only at its end.
LEMMA RenewalsKept ==
  ASSUME TypeOK, Stages, Renewals, NEW p \in Process, Step(p)
  PROVE  Renewals'
<1>0. Control(p)
  BY StepControl
<1>1. SUFFICES ASSUME NEW q \in Process, pc'[q] \in {"clear"} \cup InLogin,
                      local'[q].op = "lines"
               PROVE  authMu' = q
  BY DEF Renewals, InLogin, SigningIn
<1>2. p # NoProcess /\ q # NoProcess
  BY SessionAssumption
<1>3. CASE q # p
  <2>1. authMu = q
    BY <1>0, <1>1, <1>3 DEF Control, Renewals
  <2>2. QED
    BY <2>1, <1>2, <1>3, LockMoves
<1>4. CASE q = p
  <2>1. CASE pc[p] = "renew" /\ pc'[p] = "clear"
    BY <2>1, <1>4, LockMoves DEF Idle
  <2>2. CASE ~(pc[p] = "renew" /\ pc'[p] = "clear")
    <3>1. pc[p] \in {"clear"} \cup InLogin /\ local[p].op = "lines" /\ pc'[p] \notin {Idle, "lines"}
      BY <1>0, <1>1, <1>4, <2>2
         DEF Control, Ends, Edge, Runs, InLogin, SigningIn, Idle
    <3>2. authMu = p
      BY <3>1 DEF Renewals
    <3>3. pc[p] # "renew"
      BY <3>1 DEF InLogin, SigningIn
    <3>4. QED
      BY <3>1, <3>2, <3>3, <1>4, LockMoves
  <2>3. QED
    BY <2>1, <2>2
<1>5. QED
  BY <1>3, <1>4

\* The steps that touch the client or its history.
OnClient(p) ==
  \/ Configure(p) \/ ClearAuth(p) \/ LogoutClear(p)
  \/ LoginAnswered(p) \/ LoginFails(p) \/ TakeToken(p)

\* Every other step leaves the client as it is.
LEMMA OffClient ==
  ASSUME NEW p \in Process, Step(p), ~OnClient(p)
  PROVE  UNCHANGED <<place, token, cookie, overlapped, filled>>
  BY DEF OnClient, Step, Refresh, Lines, SignIn, Logout, ReadSession, StoreSettings,
     SendLines, LinesAnswered, LinesRefused, Renew, NothingToRenew, SendLogin,
     NoSessionIssued, LoginReturns, SaveCredentials, SaveSession, KeepSession,
     LogoutFile, LogoutKeep, LogoutCredentials, provider, client, history

\* Only ClearAuth begins a sign-in on the client.
LEMMA EntersSigningIn ==
  ASSUME TypeOK, NEW p \in Process, Step(p), NEW q \in Process,
         pc'[q] \in SigningIn, pc[q] \notin SigningIn
  PROVE  q = p /\ ClearAuth(p)
<1>1. Control(p)
  BY StepControl
<1>2. q = p
  BY <1>1 DEF Control
<1>3. pc[p] = "clear"
  BY <1>1, <1>2 DEF Control, Ends, Edge, SigningIn, Idle
<1>4. QED
  BY <1>2, <1>3, StepAt

\* With authMu between renewals, a sign-in meets every other.
LEMMA MeetsAll ==
  ASSUME TypeOK, Stages, Renewals, NEW p \in Process, pc[p] \in {"clear", "out"},
         NEW q \in Process \ {p}, pc[q] \in SigningIn
  PROVE  q \in Met(p)
<1>1. CASE local[p].op = "lines" /\ local[q].op = "lines"
  <2>1. pc[p] = "clear"
    BY <1>1 DEF Stages
  <2>2. authMu = p /\ authMu = q
    BY <1>1, <2>1 DEF Renewals, InLogin
  <2>3. QED
    BY <2>2
<1>2. CASE ~(local[p].op = "lines" /\ local[q].op = "lines")
  BY <1>2 DEF Met
<1>3. QED
  BY <1>1, <1>2

\* Overlaps: the second sign-in to clear the client marks both.
LEMMA OverlapsKept ==
  ASSUME TypeOK, Stages, Renewals, Overlaps, NEW p \in Process, Step(p)
  PROVE  Overlaps'
<1>0. SUFFICES ASSUME NEW q \in Process, NEW r \in Process, q # r,
                      pc'[q] \in SigningIn, pc'[r] \in SigningIn
               PROVE  q \in overlapped'
  BY DEF Overlaps, SigningIn
<1>1. CASE ClearAuth(p) \/ LogoutClear(p)
  <2>1. /\ Clear(p)
        /\ pc[p] \in {"clear", "out"}
        /\ \A s \in Process \ {p} : pc'[s] = pc[s]
        /\ LogoutClear(p) => pc'[p] = "outFile"
    BY <1>1, Gone DEF ClearAuth, LogoutClear
  <2>2. \A s \in Process \ {p} : pc[s] \in SigningIn => s \in Met(p)
    BY <2>1, MeetsAll
  <2>3. CASE q # p /\ r # p
    <3>1. q \in overlapped
      BY <1>0, <2>1, <2>3 DEF Overlaps
    <3>2. QED
      BY <3>1, <2>1, <2>3 DEF Clear
  <2>4. CASE q = p \/ r = p
    BY <1>0, <2>1, <2>2, <2>4 DEF Clear
  <2>5. QED
    BY <2>3, <2>4
<1>2. CASE ~ClearAuth(p) /\ ~LogoutClear(p)
  <2>1. overlapped' = overlapped
    <3>1. CASE OnClient(p)
      BY <1>2, <3>1 DEF OnClient, Configure, LoginAnswered, LoginFails, TakeToken, history
    <3>2. QED
      BY <3>1, OffClient
  <2>2. pc[q] \in SigningIn /\ pc[r] \in SigningIn
    BY <1>0, <1>2, EntersSigningIn
  <2>3. QED
    BY <1>0, <2>1, <2>2 DEF Overlaps
<1>3. QED
  BY <1>1, <1>2

\* The sign-in of q is as fresh as it has come.
FreshAt(q) == IF place = "body" THEN FreshBody(q) ELSE FreshCookie(q)

\* A step of another goroutine that leaves what q relies on.
LEMMA FreshKept ==
  ASSUME NEW q \in Process, FreshAt(q), place' = place,
         pc'[q] = pc[q], local'[q] = local[q],
         \/ cookie' = cookie /\ token' = token /\ filled' = filled
         \/ pc[q] \notin SigningIn
         \/ place = "body" /\ q \in filled'
         \/ place # "body" /\ cookie' = cookie
  PROVE  FreshAt(q)'
  BY DEF FreshAt, FreshBody, FreshCookie, SigningIn

\* Fresh: only a sign-in, a logout or a refresh that is noted disturbs it.
LEMMA FreshIsKept ==
  ASSUME TypeOK, Stages, Renewals, Overlaps, Fresh, NEW p \in Process, Step(p)
  PROVE  Fresh'
<1>c. Control(p)
  BY StepControl
<1>0. SUFFICES ASSUME NEW q \in Process, q \notin overlapped' PROVE FreshAt(q)'
  BY DEF Fresh, FreshAt, FreshBody, FreshCookie
<1>o. \A s \in Process \ overlapped : FreshAt(s)
  BY DEF Fresh, FreshAt
<1>1. CASE ClearAuth(p) \/ LogoutClear(p)
  <2>1. /\ Clear(p)
        /\ pc[p] \in {"clear", "out"}
        /\ pc'[p] \in {"login", "outFile"}
        /\ place' = place
    BY <1>1, Gone DEF ClearAuth, LogoutClear, provider
  <2>2. CASE q = p
    BY <2>1, <2>2 DEF Clear, FreshAt, FreshBody, FreshCookie, SigningIn
  <2>3. CASE q # p
    <3>1. pc[q] \notin SigningIn
      <4>1. pc[q] \in SigningIn => q \in Met(p)
        BY <2>1, <2>3, MeetsAll
      <4>2. QED
        BY <4>1, <1>0, <2>1 DEF Clear
    <3>2. pc'[q] = pc[q]
      BY <1>c, <2>3 DEF Control
    <3>3. QED
      BY <3>1, <3>2 DEF FreshAt, FreshBody, FreshCookie, SigningIn
  <2>4. QED
    BY <2>2, <2>3
<1>2. CASE Configure(p)
  <2>1. /\ q \notin overlapped /\ place' = place
        /\ pc[p] = "configure" /\ pc'[p] \in {Idle, "out"}
    BY <1>0, <1>2, Gone DEF Configure, provider, Return
  <2>2. CASE q = p
    BY <2>1, <2>2 DEF FreshAt, FreshBody, FreshCookie, SigningIn, Idle
  <2>3. CASE q # p
    <3>1. pc'[q] = pc[q] /\ local'[q] = local[q]
      BY <1>c, <2>3 DEF Control
    <3>2. CASE pc[q] \notin SigningIn
      BY <2>1, <3>1, <3>2 DEF FreshAt, FreshBody, FreshCookie, SigningIn
    <3>3. CASE pc[q] \in SigningIn /\ place = "body"
      <4>1. CASE q \in filled
        BY <1>2, <2>1, <3>3, <4>1 DEF Configure, FreshAt, FreshBody
      <4>2. CASE q \notin filled
        <5>1. cookie = NoSession
          BY <1>o, <2>1, <3>3, <4>2 DEF FreshAt, FreshBody
        <5>2. CASE local[p].read = NoSession
          <6>1. token' = token /\ cookie' = cookie /\ filled' = filled
            BY <1>2, <5>2 DEF Configure, client
          <6>2. QED
            BY <1>o, <2>1, <3>1, <6>1, FreshKept
        <5>3. CASE local[p].read # NoSession
          <6>1. q \in filled'
            BY <1>2, <5>1, <5>3, <3>3 DEF Configure
          <6>2. QED
            BY <2>1, <3>3, <6>1 DEF FreshAt, FreshBody
        <5>4. QED
          BY <5>2, <5>3
      <4>3. QED
        BY <4>1, <4>2
    <3>4. CASE pc[q] \in SigningIn /\ place # "body"
      <4>1. pc[q] \in {"take", "result"} => cookie = local[q].mine /\ cookie # NoSession
        BY <1>o, <2>1, <3>4 DEF FreshAt, FreshCookie
      <4>2. pc[q] \in {"take", "result"} => cookie' = cookie
        BY <1>2, <4>1 DEF Configure, client
      <4>3. QED
        BY <2>1, <3>1, <3>4, <4>1, <4>2 DEF FreshAt, FreshCookie
    <3>5. QED
      BY <3>2, <3>3, <3>4
  <2>4. QED
    BY <2>2, <2>3
<1>3. CASE LoginAnswered(p)
  <2>1. /\ q \notin overlapped /\ place' = place
        /\ pc[p] = "loginReply" /\ pc'[p] = "take"
        /\ filled' = filled /\ token' = token
        /\ cookie' = IF place = "cookie" THEN issued + 1 ELSE cookie
    BY <1>0, <1>3, Gone DEF LoginAnswered, Issue, history
  <2>2. CASE q = p
    <3>1. local'[p].mine = issued + 1
      <4>1. local[p] \in Locals /\ local \in [Process -> Locals]
        BY DEF TypeOK, Locals
      <4>2. QED
        BY <1>3, <4>1 DEF LoginAnswered, Note, Locals
    <3>2. CASE place = "body"
      <4>1. p \notin filled => cookie = NoSession
        BY <1>o, <2>1, <2>2, <3>2 DEF FreshAt, FreshBody, SigningIn
      <4>2. QED
        BY <2>1, <2>2, <3>2, <4>1 DEF FreshAt, FreshBody
    <3>3. CASE place # "body"
      <4>1. cookie' = issued + 1
        BY <2>1, <3>3, SessionAssumption DEF TypeOK
      <4>2. issued + 1 # NoSession
        BY DEF TypeOK, NoSession
      <4>3. QED
        BY <2>1, <2>2, <3>1, <3>3, <4>1, <4>2 DEF FreshAt, FreshCookie
    <3>4. QED
      BY <3>2, <3>3
  <2>3. CASE q # p
    <3>1. pc[q] \notin SigningIn
      BY <2>1, <2>3 DEF Overlaps, SigningIn
    <3>2. pc'[q] = pc[q] /\ local'[q] = local[q]
      BY <1>c, <2>3 DEF Control
    <3>3. QED
      BY <1>o, <2>1, <3>1, <3>2, FreshKept
  <2>4. QED
    BY <2>2, <2>3
<1>7. CASE LoginFails(p)
  <2>1. /\ q \notin overlapped /\ place' = place
        /\ pc[p] = "loginReply" /\ pc'[p] = Idle
        /\ filled' = filled /\ token' = token
    BY <1>0, <1>7, Gone DEF LoginFails, Unanswered, Issue, GiveUp, Return, history, provider
  <2>2. CASE q = p
    BY <2>1, <2>2 DEF FreshAt, FreshBody, FreshCookie, SigningIn, Idle
  <2>3. CASE q # p
    <3>1. pc[q] \notin SigningIn
      BY <2>1, <2>3 DEF Overlaps, SigningIn
    <3>2. pc'[q] = pc[q] /\ local'[q] = local[q]
      BY <1>c, <2>3 DEF Control
    <3>3. QED
      BY <1>o, <2>1, <3>1, <3>2, FreshKept
  <2>4. QED
    BY <2>2, <2>3
<1>4. CASE TakeToken(p)
  <2>1. /\ q \notin overlapped /\ place' = place
        /\ pc[p] = "take" /\ pc'[p] = "result"
        /\ filled' = filled /\ cookie' = cookie
        /\ token' = IF cookie = NoSession /\ place = "body" THEN local[p].mine ELSE token
        /\ local' = local
    BY <1>0, <1>4, Gone DEF TakeToken, history, provider
  <2>2. CASE q = p
    <3>1. FreshAt(p)
      BY <1>o, <2>1, <2>2
    <3>2. QED
      BY <2>1, <2>2, <3>1 DEF FreshAt, FreshBody, FreshCookie, SigningIn
  <2>3. CASE q # p
    <3>1. pc[q] \notin SigningIn
      BY <2>1, <2>3 DEF Overlaps, SigningIn
    <3>2. pc'[q] = pc[q]
      BY <1>c, <2>3 DEF Control
    <3>3. QED
      BY <3>1, <3>2 DEF FreshAt, FreshBody, FreshCookie, SigningIn
  <2>4. QED
    BY <2>2, <2>3
<1>5. CASE ~OnClient(p)
  <2>1. UNCHANGED <<place, token, cookie, overlapped, filled>>
    BY <1>5, OffClient
  <2>2. FreshAt(q)
    BY <1>0, <1>o, <2>1
  <2>3. CASE q # p
    <3>1. pc'[q] = pc[q] /\ local'[q] = local[q]
      BY <1>c, <2>3 DEF Control
    <3>2. QED
      BY <2>1, <2>2, <3>1, FreshKept
  <2>4. CASE q = p
    <3>1. /\ pc'[p] \notin {"take", "result"}
          /\ pc'[p] \in SigningIn => pc[p] \in SigningIn
      <4>1. pc[p] \notin {"clear", "take"}
        BY <1>5, StepAt DEF OnClient
      <4>2. pc[p] # "loginReply"
        BY <1>5, StepAt DEF OnClient
      <4>3. QED
        BY <1>c, <4>1, <4>2 DEF Control, Ends, Edge, SigningIn, Idle
    <3>2. QED
      BY <2>1, <2>2, <2>4, <3>1 DEF FreshAt, FreshBody, FreshCookie
  <2>5. QED
    BY <2>3, <2>4
<1>6. QED
  BY <1>1, <1>2, <1>3, <1>4, <1>5, <1>7 DEF OnClient

Saving == {"saveCredentials", "saveSession", "keep"}

\* What login returns, and saves, is what Fresh says of the client.
LEMMA SavedIsKept ==
  ASSUME TypeOK, Fresh, FreshSessionSaved, NEW p \in Process, Step(p)
  PROVE  FreshSessionSaved'
<1>c. Control(p)
  BY StepControl
<1>0. SUFFICES ASSUME NEW q \in Process, q \notin overlapped', pc'[q] \in Saving,
                      ~(place' = "body" /\ q \in filled')
               PROVE  local'[q].result >= local'[q].mine
  BY DEF FreshSessionSaved, Saving
<1>1. q \notin overlapped /\ ~(place = "body" /\ q \in filled)
  <2>1. CASE ClearAuth(p) \/ LogoutClear(p)
    <3>1. Clear(p) /\ place' = place /\ pc'[p] \in {"login", "outFile"}
      BY <2>1, Gone DEF ClearAuth, LogoutClear, provider
    <3>2. q # p
      BY <1>0, <3>1 DEF Saving
    <3>3. QED
      BY <1>0, <3>1, <3>2 DEF Clear
  <2>2. CASE Configure(p) \/ LoginAnswered(p) \/ LoginFails(p) \/ TakeToken(p)
    BY <1>0, <2>2 DEF Configure, LoginAnswered, LoginFails, Unanswered, TakeToken, Issue,
                      history, provider
  <2>3. CASE ~OnClient(p)
    BY <1>0, <2>3, OffClient
  <2>4. QED
    BY <2>1, <2>2, <2>3 DEF OnClient
<1>2. CASE q # p \/ pc[p] \in Saving
  <2>1. /\ pc[q] \in Saving
        /\ local'[q].result = local[q].result /\ local'[q].mine = local[q].mine
    BY <1>0, <1>c, <1>2 DEF Control, Ends, Edge, Runs, Saving, Idle
  <2>2. QED
    BY <1>1, <2>1 DEF FreshSessionSaved, Saving
<1>3. CASE q = p /\ pc[p] \notin Saving
  <2>1. pc[p] = "result"
    BY <1>0, <1>c, <1>3 DEF Control, Ends, Edge, Saving, Idle
  <2>2. LoginReturns(p)
    <3>1. CASE NoSessionIssued(p)
      BY <1>0, <1>3, <3>1, Gone DEF NoSessionIssued, GiveUp, Return, Idle, Saving
    <3>2. QED
      BY <2>1, <3>1, StepAt
  <2>3. FreshAt(p)
    BY <1>1, <1>3 DEF Fresh, FreshAt
  <2>4. local[p] \in Locals /\ local \in [Process -> Locals]
    BY DEF TypeOK, Locals
  <2>5. /\ local'[p].mine = local[p].mine
        /\ local'[p].result = IF cookie # NoSession THEN cookie ELSE token
    BY <2>2, <2>4 DEF LoginReturns, Note, Locals
  <2>6. local'[p].result = local[p].mine
    <3>1. CASE place = "body"
      <4>1. cookie = NoSession /\ token = local[p].mine
        BY <1>1, <1>3, <2>1, <2>3, <3>1 DEF FreshAt, FreshBody, SigningIn
      <4>2. QED
        BY <2>5, <4>1
    <3>2. CASE place # "body"
      <4>1. cookie # NoSession /\ cookie = local[p].mine
        BY <2>1, <2>3, <3>2 DEF FreshAt, FreshCookie
      <4>2. QED
        BY <2>5, <4>1
    <3>3. QED
      BY <3>1, <3>2
  <2>7. local[p].mine \in Nat
    BY <2>4 DEF Locals, Known, TypeOK
  <2>8. QED
    BY <1>3, <2>5, <2>6, <2>7
<1>4. QED
  BY <1>2, <1>3

\* A quiet logout is alone, and every step of it has happened.
LEMMA LoggingOutKept ==
  ASSUME TypeOK, Stages, LoggingOut, NEW p \in Process, Step(p)
  PROVE  LoggingOut'
<1>c. Control(p)
  BY StepControl
<1>0. SUFFICES ASSUME NEW q \in Process, quiet', local'[q].op = "logout"
      PROVE  /\ \A r \in Process \ {q} : pc'[r] = Idle
             /\ ~out'
             /\ pc'[q] \in {"outFile", "outKeep", "outCredentials"} => Given({token', cookie'}) = {}
             /\ pc'[q] \in {"outKeep", "outCredentials"} => file' = NoSession
             /\ pc'[q] = "outCredentials" => cfgToken' = NoSession
  BY DEF LoggingOut, Alone, Idle, NoSession, Given
<1>1. pc[p] # Idle
  BY StepAt
<1>2. quiet
  BY <1>0, HistoryMoves
<1>3. local[q].op = "logout"
  BY <1>0, <1>c DEF Control, Ends, Edge, Runs, NoLocal
<1>4. /\ \A r \in Process \ {q} : pc[r] = Idle
      /\ ~out
      /\ pc[q] \in {"outFile", "outKeep", "outCredentials"} => Given({token, cookie}) = {}
      /\ pc[q] \in {"outKeep", "outCredentials"} => file = NoSession
      /\ pc[q] = "outCredentials" => cfgToken = NoSession
  BY <1>2, <1>3 DEF LoggingOut, Alone
<1>5. q = p
  BY <1>1, <1>4
<1>6. \A r \in Process \ {q} : pc'[r] = Idle
  BY <1>4, <1>5, <1>c DEF Control
<1>7. pc'[p] # Idle
  BY <1>0, <1>5, <1>c DEF Control, Ends, NoLocal, Edge, Idle
<1>8. CASE LogoutClear(p)
  BY <1>4, <1>5, <1>6, <1>8, Gone DEF LogoutClear, Clear, Given, Idle
<1>9. CASE LogoutFile(p)
  BY <1>0, <1>4, <1>5, <1>6, <1>9, Gone DEF LogoutFile, client, Given
<1>10. CASE LogoutKeep(p)
  BY <1>4, <1>5, <1>6, <1>10, Gone DEF LogoutKeep, client, store, history, Given
<1>11. CASE LogoutCredentials(p)
  BY <1>7, <1>11, Gone DEF LogoutCredentials, Return
<1>12. CASE pc[p] \notin {"out", "outFile", "outKeep", "outCredentials"}
  <2>1. pc[p] \in {"read", "store", "configure"}
    BY <1>3, <1>5, <1>c, <1>12, <1>1, <1>7 DEF Stages, Control, Ends, Edge, InLogin, SigningIn, Idle
  <2>2. pc'[p] \in {"store", "configure", "out"}
    BY <2>1, <1>c, <1>7 DEF Control, Ends, Edge, Idle
  <2>3. out' = out
    BY <1>12, HistoryMoves DEF LogoutCredentials
  <2>4. QED
    BY <1>4, <1>5, <1>6, <2>2, <2>3
<1>13. QED
  BY <1>8, <1>9, <1>10, <1>11, <1>12, StepAt

\* What a goroutine does after a quiet logout, and what the last step of one leaves.
LEMMA LoggedOutKept ==
  ASSUME TypeOK, Stages, LoggingOut, LoggedOut, NEW p \in Process, Step(p)
  PROVE  LoggedOut'
<1>c. Control(p)
  BY StepControl
<1>0. SUFFICES ASSUME out', quiet'
      PROVE  /\ SignedOut'
             /\ \A q \in Process : /\ local'[q].op \in {"refresh", "lines"}
                                   /\ local'[q].read = NoSession
                                   /\ pc'[q] \notin {"clear"} \cup InLogin
  BY DEF LoggedOut, NoSession, InLogin, SigningIn
<1>1. CASE LogoutCredentials(p)
  <2>1. /\ pc[p] = "outCredentials" /\ quiet /\ saved' = FALSE
        /\ UNCHANGED <<token, cookie, cfgToken, file>>
    BY <1>0, <1>1 DEF LogoutCredentials, client
  <2>2. local[p].op = "logout"
    BY <2>1 DEF Stages
  <2>3. /\ \A q \in Process \ {p} : pc[q] = Idle
        /\ Given({token, cookie}) = {} /\ file = NoSession /\ cfgToken = NoSession
    BY <2>1, <2>2 DEF LoggingOut, Alone
  <2>4. SignedOut'
    BY <2>1, <2>3 DEF SignedOut, Given, NoSession
  <2>5. Ends(p)
    BY <1>1, Returned DEF LogoutCredentials
  <2>6. \A q \in Process : pc'[q] = Idle /\ local'[q] = NoLocal
    BY <1>c, <2>3, <2>5 DEF Control, Ends, Stages
  <2>7. QED
    BY <2>4, <2>6 DEF NoLocal, InLogin, SigningIn, Idle
<1>2. CASE ~LogoutCredentials(p)
  <2>1. out /\ quiet
    BY <1>0, <1>2, HistoryMoves
  <2>2. /\ SignedOut
        /\ \A q \in Process : /\ local[q].op \in {"refresh", "lines"}
                              /\ local[q].read = NoSession
                              /\ pc[q] \notin {"clear"} \cup InLogin
    BY <2>1 DEF LoggedOut
  <2>3. /\ token = NoSession /\ cookie = NoSession /\ cfgToken = NoSession
        /\ file = NoSession /\ saved = FALSE
    BY <2>2 DEF SignedOut, Given, TypeOK
  <2>4. pc[p] \notin {"out", "outFile", "outKeep", "outCredentials"}
    BY <2>2 DEF Stages
  <2>5. ~Renew(p)
    BY <2>3 DEF Renew
  <2>6. UNCHANGED <<token, cookie, file, saved>> /\ cfgToken' = NoSession
    <3>1. CASE Refresh(p)
      BY <3>1, <2>2, <2>3
         DEF Refresh, ReadSession, StoreSettings, Configure, client, store
    <3>2. CASE Lines(p)
      BY <3>2, <2>3 DEF Lines, SendLines, LinesAnswered, LinesRefused, client, store
    <3>3. CASE SignIn(p)
      BY <3>3, <2>2, <2>3, <2>5 DEF SignIn, NothingToRenew, ClearAuth, SendLogin,
         LoginAnswered, LoginFails, TakeToken, NoSessionIssued, LoginReturns, SaveCredentials,
         SaveSession, KeepSession, client, store, InLogin, SigningIn
    <3>4. QED
      BY <2>4, <3>1, <3>2, <3>3 DEF Step, Logout, LogoutClear, LogoutFile, LogoutKeep, LogoutCredentials
  <2>7. SignedOut'
    BY <2>3, <2>6 DEF SignedOut, Given, NoSession
  <2>8. ASSUME NEW q \in Process
        PROVE  /\ local'[q].op \in {"refresh", "lines"}
               /\ local'[q].read = NoSession
               /\ pc'[q] \notin {"clear"} \cup InLogin
    <3>1. CASE q # p
      BY <3>1, <2>2, <1>c DEF Control
    <3>2. CASE q = p /\ pc[p] = "read"
      <4>1. ReadSession(p)
        BY <3>2, StepAt
      <4>2. local[p] \in Locals /\ local \in [Process -> Locals]
        BY DEF TypeOK, Locals
      <4>3. local'[p].read = file /\ local'[p].op = local[p].op
        BY <4>1, <4>2 DEF ReadSession, Note, Locals
      <4>4. pc'[p] = "store"
        BY <4>1, Gone DEF ReadSession
      <4>5. QED
        BY <3>2, <2>2, <2>3, <4>3, <4>4 DEF InLogin, SigningIn
    <3>3. CASE q = p /\ pc[p] # "read"
      <4>1. pc[p] \notin {"clear", "loginReply"} \cup InLogin
        BY <2>2 DEF InLogin, SigningIn
      <4>2. pc[p] = "renew" => pc'[p] = Idle
        BY <2>5, StepAt, Gone DEF NothingToRenew, Return
      <4>3. QED
        BY <3>3, <2>2, <1>c, <4>1, <4>2
           DEF Control, Ends, Edge, Runs, NoLocal, InLogin, SigningIn, Idle
    <3>4. QED
      BY <3>1, <3>2, <3>3
  <2>9. QED
    BY <2>7, <2>8
<1>3. QED
  BY <1>1, <1>2

-----------------------------------------------------------------------------
\* A new request starts from nothing, and ends the quiet of a logout under way.
LEMMA RequestKeeps ==
  ASSUME SessionInv, NEW p \in Process, NEW op \in Operation, Request(p, op)
  PROVE  SessionInv'
<1>0. /\ TypeOK /\ Stages /\ Renewals /\ Overlaps /\ Fresh /\ FreshSessionSaved
      /\ LoggingOut /\ LoggedOut
  BY DEF SessionInv
<1>1. /\ UNCHANGED <<valid, issued, place, token, cookie, requestMu, authMu, cfgToken,
                     file, saved, overlapped, filled>>
      /\ pc[p] = Idle
      /\ pc'[p] = CASE op = "lines" -> "lines" [] op = "login" -> "clear" [] OTHER -> "read"
      /\ \A q \in Process \ {p} : pc'[q] = pc[q]
      /\ out' = (out /\ op \notin {"login", "logout"})
  BY <1>0, Gone DEF Request, provider, client, store
<1>2. /\ local'[p] = [local[p] EXCEPT !.op = op]
      /\ \A q \in Process \ {p} : local'[q] = local[q]
      /\ local[p] = NoLocal
      /\ local'[p].op = op /\ local'[p].read = NoSession
  <2>1. local \in [Process -> Locals]
    BY <1>0 DEF TypeOK, Locals
  <2>2. /\ local'[p] = [local[p] EXCEPT !.op = op]
        /\ \A q \in Process \ {p} : local'[q] = local[q]
    BY <2>1 DEF Request, Note, Locals
  <2>3. local[p] = NoLocal
    BY <1>0, <1>1 DEF Stages
  <2>4. QED
    BY <2>2, <2>3 DEF NoLocal
<1>3. TypeOK'
  <2>1. local' \in [Process -> Locals']
    BY <1>0, <1>1, NotedTyped DEF Request
  <2>2. budget' \in [{"request", "fault", "expiry", "crash"} -> Nat]
    BY <1>0, SpendTyped DEF Request
  <2>3. pc' \in [Process -> Label]
    <3>1. PICK label \in {"lines", "clear", "read"} : Goto(p, label)
      BY DEF Request
    <3>2. QED
      BY <1>0, <3>1, GotoTyped DEF Label
  <2>4. quiet' \in BOOLEAN /\ out' \in BOOLEAN
    <3>1. quiet \in BOOLEAN
      BY <1>0 DEF TypeOK
    <3>2. quiet' \in BOOLEAN
      BY <3>1 DEF Request
    <3>3. out' \in BOOLEAN
      BY <1>1
    <3>4. QED
      BY <3>2, <3>3
  <2>5. Known' = Known
    BY <1>1 DEF Known
  <2>6. QED
    BY <1>0, <1>1, <2>1, <2>2, <2>3, <2>4, <2>5 DEF TypeOK, Locals
<1>4. pc'[p] \in {"lines", "clear", "read"}
  BY <1>1
<1>5. Stages'
  <2>1. \/ pc'[p] = "lines" /\ op = "lines"
        \/ pc'[p] = "clear" /\ op = "login"
        \/ pc'[p] = "read" /\ op \in {"refresh", "logout"}
    <3>1. CASE op = "lines"
      BY <1>1, <3>1
    <3>2. CASE op = "login"
      BY <1>1, <3>2
    <3>3. CASE op \in {"refresh", "logout"}
      BY <1>1, <3>3
    <3>4. QED
      BY <3>1, <3>2, <3>3 DEF Operation
  <2>2. SUFFICES ASSUME NEW q \in Process
                 PROVE  /\ pc'[q] = Idle => local'[q] = NoLocal
                        /\ pc'[q] \in {"read", "store", "configure"} => local'[q].op \in {"refresh", "logout"}
                        /\ pc'[q] \in {"lines", "linesReply", "renew"} => local'[q].op = "lines"
                        /\ pc'[q] \in {"clear"} \cup InLogin =>
                             pc'[q] # Idle /\ local'[q].op \in {"lines", "login"}
                        /\ pc'[q] = "saveCredentials" => local'[q].op = "login"
                        /\ pc'[q] \in {"out", "outFile", "outKeep", "outCredentials"} => local'[q].op = "logout"
    BY DEF Stages
  <2>3. CASE q = p
    BY <1>2, <2>1, <2>3 DEF Idle, InLogin, SigningIn
  <2>4. CASE q # p
    BY <1>0, <1>1, <1>2, <2>4 DEF Stages, Idle, InLogin, SigningIn
  <2>5. QED
    BY <2>3, <2>4
<1>6. Renewals'
  BY <1>0, <1>1, <1>2 DEF Renewals, InLogin, SigningIn
<1>7. Overlaps'
  BY <1>0, <1>1, <1>4 DEF Overlaps, SigningIn
<1>8. Fresh'
  <2>1. SUFFICES ASSUME NEW q \in Process, q \notin overlapped PROVE FreshAt(q)'
    BY <1>1 DEF Fresh, FreshAt, FreshBody, FreshCookie
  <2>2. CASE q = p
    BY <1>4, <2>2 DEF FreshAt, FreshBody, FreshCookie, SigningIn
  <2>3. CASE q # p
    BY <1>0, <1>1, <1>2, <2>1, <2>3 DEF Fresh, FreshAt, FreshBody, FreshCookie
  <2>4. QED
    BY <2>2, <2>3
<1>9. FreshSessionSaved'
  BY <1>0, <1>1, <1>2, <1>4 DEF FreshSessionSaved
<1>10. LoggingOut'
  <2>1. SUFFICES ASSUME NEW q \in Process, quiet', local'[q].op = "logout"
        PROVE  /\ \A r \in Process \ {q} : pc'[r] = Idle
               /\ ~out'
               /\ pc'[q] \notin {"outFile", "outKeep", "outCredentials"}
    BY DEF LoggingOut, Alone, Idle
  <2>2. CASE op = "logout"
    <3>1. \A r \in Process \ {p} : pc[r] = Idle /\ local[r] = NoLocal
      BY <1>0, <2>1, <2>2 DEF Request, Stages
    <3>2. q = p
      BY <1>2, <2>1, <3>1 DEF NoLocal
    <3>3. QED
      BY <1>1, <1>4, <2>2, <3>1, <3>2
  <2>3. CASE op # "logout"
    <3>1. \A r \in Process : local[r].op # "logout"
      BY <2>1, <2>3 DEF Request
    <3>2. QED
      BY <1>2, <2>1, <2>3, <3>1
  <2>4. QED
    BY <2>2, <2>3
<1>11. LoggedOut'
  <2>1. SUFFICES ASSUME out', quiet'
        PROVE  /\ SignedOut'
               /\ \A q \in Process : /\ local'[q].op \in {"refresh", "lines"}
                                     /\ local'[q].read = NoSession
                                     /\ pc'[q] \notin {"clear"} \cup InLogin
    BY DEF LoggedOut, NoSession, InLogin, SigningIn
  <2>2. out /\ op \in {"refresh", "lines"}
    BY <1>1, <2>1 DEF Operation
  <2>3. quiet
    BY <2>1, <2>2 DEF Request
  <2>4. /\ SignedOut
        /\ \A q \in Process : /\ local[q].op \in {"refresh", "lines"}
                              /\ local[q].read = NoSession
                              /\ pc[q] \notin {"clear"} \cup InLogin
    BY <1>0, <2>2, <2>3 DEF LoggedOut
  <2>5. SignedOut'
    BY <1>1, <2>4 DEF SignedOut, Given, NoSession
  <2>6. QED
    BY <1>1, <1>2, <2>2, <2>4, <2>5 DEF InLogin, SigningIn
<1>12. QED
  BY <1>3, <1>5, <1>6, <1>7, <1>8, <1>9, <1>10, <1>11 DEF SessionInv

\* A session expires: nothing in the daemon knows.
LEMMA ExpireKeeps == ASSUME SessionInv, Expire PROVE SessionInv'
<1>0. /\ TypeOK /\ Stages /\ Renewals /\ Overlaps /\ Fresh /\ FreshSessionSaved
      /\ LoggingOut /\ LoggedOut
  BY DEF SessionInv
<1>1. /\ UNCHANGED <<issued, place, token, cookie, requestMu, authMu, cfgToken, file, saved,
                     pc, local, overlapped, filled, out, quiet>>
      /\ valid' = {}
  BY DEF Expire, client, store, history
<1>2. budget' \in [{"request", "fault", "expiry", "crash"} -> Nat]
  BY <1>0, SpendTyped DEF Expire
<1>3. TypeOK'
  BY <1>0, <1>1, <1>2 DEF TypeOK, Known
<1>4. Stages' /\ Renewals' /\ Overlaps'
  BY <1>0, <1>1 DEF Stages, Renewals, Overlaps
<1>5. Fresh' /\ FreshSessionSaved'
  BY <1>0, <1>1 DEF Fresh, FreshBody, FreshCookie, FreshSessionSaved
<1>6. LoggingOut'
  BY <1>0, <1>1 DEF LoggingOut, Alone
<1>7. LoggedOut'
  BY <1>0, <1>1 DEF LoggedOut, SignedOut
<1>8. QED
  BY <1>3, <1>4, <1>5, <1>6, <1>7 DEF SessionInv

\* A new daemon runs nothing and has what the file holds, its client not even that.
LEMMA RespawnKeeps == ASSUME SessionInv, Respawn PROVE SessionInv'
<1>0. TypeOK /\ LoggedOut
  BY DEF SessionInv
<1>1. /\ UNCHANGED <<valid, issued, place, file, saved, out, quiet>>
      /\ token' = NoSession /\ cookie' = NoSession /\ cfgToken' = file
      /\ requestMu' = NoProcess /\ authMu' = NoProcess
      /\ overlapped' = {} /\ filled' = {}
  BY DEF Respawn, provider, store
<1>2. \A q \in Process : pc'[q] = Idle /\ local'[q] = NoLocal
  BY DEF Respawn
<1>3. TypeOK'
  <2>1. budget' \in [{"request", "fault", "expiry", "crash"} -> Nat]
    BY <1>0, SpendTyped DEF Respawn
  <2>2. local' \in [Process -> Locals]
    BY <1>0, NoLocalTyped DEF Respawn
  <2>3. pc' \in [Process -> Label]
    BY DEF Respawn, Label
  <2>4. Known' = Known
    BY <1>1 DEF Known
  <2>5. NoSession \in Known
    BY <1>0 DEF TypeOK, Known, NoSession
  <2>6. QED
    BY <1>0, <1>1, <2>1, <2>2, <2>3, <2>4, <2>5 DEF TypeOK, Locals
<1>4. Stages' /\ Renewals' /\ Overlaps'
  BY <1>2 DEF Stages, Renewals, Overlaps, Idle, InLogin, SigningIn
<1>5. Fresh' /\ FreshSessionSaved'
  BY <1>2 DEF Fresh, FreshBody, FreshCookie, FreshSessionSaved, SigningIn, Idle
<1>6. LoggingOut'
  BY <1>2 DEF LoggingOut, NoLocal
<1>7. LoggedOut'
  <2>1. ASSUME out, quiet PROVE SignedOut'
    BY <2>1, <1>0, <1>1 DEF LoggedOut, SignedOut, Given, NoSession
  <2>2. QED
    BY <1>1, <1>2, <2>1 DEF LoggedOut, NoLocal, Idle, InLogin, SigningIn, NoSession
<1>8. QED
  BY <1>3, <1>4, <1>5, <1>6, <1>7 DEF SessionInv

\* Every step of the specification.
LEMMA NextKeeps == ASSUME SessionInv, [Next]_vars PROVE SessionInv'
<1>0. /\ TypeOK /\ Stages /\ Renewals /\ Overlaps /\ Fresh /\ FreshSessionSaved
      /\ LoggingOut /\ LoggedOut
  BY DEF SessionInv
<1>1. ASSUME NEW p \in Process, Step(p) PROVE SessionInv'
  <2>1. TypeOK'
    BY <1>0, <1>1, StepTyped
  <2>2. Stages'
    BY <1>0, <1>1, StepControl, StagesKept
  <2>3. Renewals' /\ Overlaps'
    BY <1>0, <1>1, RenewalsKept, OverlapsKept
  <2>4. Fresh'
    BY <1>0, <1>1, FreshIsKept
  <2>5. FreshSessionSaved'
    BY <1>0, <1>1, SavedIsKept
  <2>6. LoggingOut'
    BY <1>0, <1>1, LoggingOutKept
  <2>7. LoggedOut'
    BY <1>0, <1>1, LoggedOutKept
  <2>8. QED
    BY <2>1, <2>2, <2>3, <2>4, <2>5, <2>6, <2>7 DEF SessionInv
<1>2. CASE UNCHANGED vars
  <2>1. UNCHANGED <<valid, issued, place, token, cookie, requestMu, authMu, cfgToken, file,
                    saved, pc, local, overlapped, filled, out, quiet, budget>>
    BY <1>2 DEF vars, provider, client, store, history
  <2>2. TypeOK'
    BY <1>0, <2>1 DEF TypeOK, Known
  <2>3. Stages' /\ Renewals' /\ Overlaps'
    BY <1>0, <2>1 DEF Stages, Renewals, Overlaps
  <2>4. Fresh' /\ FreshSessionSaved'
    BY <1>0, <2>1 DEF Fresh, FreshBody, FreshCookie, FreshSessionSaved
  <2>5. LoggingOut'
    BY <1>0, <2>1 DEF LoggingOut, Alone
  <2>6. LoggedOut'
    BY <1>0, <2>1 DEF LoggedOut, SignedOut
  <2>7. QED
    BY <2>2, <2>3, <2>4, <2>5, <2>6 DEF SessionInv
<1>3. QED
  BY <1>1, <1>2, RequestKeeps, ExpireKeeps, RespawnKeeps DEF Next

\* The daemon starts with the session of the file.
LEMMA InitKeeps == ASSUME Init PROVE SessionInv
<1>1. NoLocal \in [op : Operation, read : {0, 1}, sent : SUBSET {0, 1}, retried : BOOLEAN,
                   cycle : 0..Cycles - 1, mine : {0, 1}, result : {0, 1}]
  BY DEF NoLocal, NoSession, Operation, Cycles
<1>2. Known = {0, 1}
  BY DEF Init, Known
<1>3. TypeOK
  <2>1. pc \in [Process -> Label]
    BY DEF Init, Label
  <2>2. local \in [Process -> [op : Operation, read : Known, sent : SUBSET Known,
                               retried : BOOLEAN, cycle : 0..Cycles - 1,
                               mine : Known, result : Known]]
    BY <1>1, <1>2 DEF Init
  <2>3. budget \in [{"request", "fault", "expiry", "crash"} -> Nat]
    BY SessionAssumption DEF Init
  <2>4. QED
    <3>1. out \in BOOLEAN /\ quiet \in BOOLEAN /\ saved \in BOOLEAN
      BY DEF Init
    <3>2. /\ issued \in Nat /\ place \in Places
          /\ valid \subseteq Known \ {NoSession}
          /\ {token, cookie, cfgToken, file} \subseteq Known
          /\ {requestMu, authMu} \subseteq Process \cup {NoProcess}
          /\ {overlapped, filled} \subseteq SUBSET Process
      BY <1>2 DEF Init, NoSession
    <3>3. QED
      BY <2>1, <2>2, <2>3, <3>1, <3>2 DEF TypeOK
<1>4. \A p \in Process : pc[p] = Idle /\ local[p] = NoLocal
  BY DEF Init
<1>5. Stages /\ Renewals /\ Overlaps
  BY <1>4 DEF Stages, Renewals, Overlaps, Idle, InLogin, SigningIn
<1>6. Fresh /\ FreshSessionSaved
  BY <1>4 DEF Fresh, FreshBody, FreshCookie, FreshSessionSaved, SigningIn, Idle
<1>7. LoggingOut
  BY <1>4 DEF LoggingOut, NoLocal
<1>8. LoggedOut
  BY DEF Init, LoggedOut
<1>9. QED
  BY <1>3, <1>5, <1>6, <1>7, <1>8 DEF SessionInv

-----------------------------------------------------------------------------
(***************************************************************************)
(* The invariant holds however many goroutines sign in, out and refresh.   *)
(***************************************************************************)
THEOREM SessionInductive == Spec => []SessionInv
<1>1. Init => SessionInv
  BY InitKeeps
<1>2. SessionInv /\ [Next]_vars => SessionInv'
  BY NextKeeps
<1>3. QED
  BY <1>1, <1>2, PTL DEF Spec

(***************************************************************************)
(* Types; every session in the client, the controller and the file is one  *)
(* the provider issued, or none.                                           *)
(***************************************************************************)
THEOREM TypeCorrect == Spec => []TypeOK
<1>1. SessionInv => TypeOK
  BY DEF SessionInv
<1>2. QED
  BY <1>1, SessionInductive, PTL

(***************************************************************************)
(* What login saves is not older than what the provider issued to it, with *)
(* the exceptions that FreshSessionSaved names: authMu keeps renewals      *)
(* apart, and a refresh only fills a cookie that is empty.                 *)
(***************************************************************************)
THEOREM SavedSessionsAreFresh == Spec => []FreshSessionSaved
<1>1. SessionInv => FreshSessionSaved
  BY DEF SessionInv
<1>2. QED
  BY <1>1, SessionInductive, PTL

(***************************************************************************)
(* A logout that nothing overlapped is final until a login: no refresh, no *)
(* request for lines and no restart of the daemon brings a session back.   *)
(***************************************************************************)
THEOREM QuietLogoutsAreFinal == Spec => []QuietLogoutFinal
<1>1. SessionInv => QuietLogoutFinal
  BY DEF SessionInv, LoggedOut, QuietLogoutFinal
<1>2. QED
  BY <1>1, SessionInductive, PTL
=============================================================================
