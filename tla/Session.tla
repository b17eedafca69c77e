------------------------------- MODULE Session -------------------------------
(***************************************************************************)
(* Signing in to the provider: login, logout, reauthenticate and           *)
(* getLinesAuthenticated of controller.go, the client of api.go they share *)
(* and the files of sessionstore.go and authstore.go.  Every handler and   *)
(* ticker also runs refreshSettings, which reads the session file and      *)
(* hands what it read to the client.                                       *)
(*                                                                         *)
(* A session is the number of the sign-in that issued it; NoSession is the *)
(* empty string.  Each step is the code under one lock, one file operation *)
(* or one end of an HTTP exchange.                                         *)
(***************************************************************************)
EXTENDS Naturals, FiniteSets

CONSTANTS
  Process,     \* goroutines: handlers, watchdog, supervisor, tickers
  NoProcess,
  Requests,    \* what they do: a subset of Operation
  Places,      \* where a provider may put the session: "cookie", "body"
  MaxRequests, MaxFaults, MaxExpiries, MaxCrashes  \* bounds of the environment

Operation == {"refresh", "lines", "login", "logout"}

ASSUME SessionAssumption ==
  /\ NoProcess \notin Process
  /\ Requests \subseteq Operation
  /\ Places \subseteq {"cookie", "body"}
  /\ {MaxRequests, MaxFaults, MaxExpiries, MaxCrashes} \subseteq Nat

VARIABLES
  valid, issued, place,   \* the provider: sessions it accepts, sign-ins so
                          \* far, where its answers put the session
  token, cookie,          \* apiClient, under stateMu
  requestMu, authMu,      \* their holders
  cfgToken,               \* controller.cfg.Token
  file, saved,            \* session file, and whether credentials are stored
  pc, local,              \* each goroutine's place and locals
  overlapped, filled,     \* history: sign-ins that a login or logout met on the
                          \* client, or whose empty cookie a refresh filled
  out, quiet,             \* history: a logout is the last word; it was alone
  budget

provider == <<valid, issued, place>>
client == <<token, cookie>>
store == <<file, saved>>
history == <<overlapped, filled, out, quiet>>
vars == <<provider, client, requestMu, authMu, cfgToken, store, pc, local,
          history, budget>>

NoSession == 0
Idle == "idle"
Cycles == 3      \* attempts of getLinesAuthenticated

Label == {Idle, "read", "store", "configure", "lines", "linesReply", "renew",
          "clear", "login", "loginReply", "take", "result", "saveCredentials",
          "saveSession", "keep", "out", "outFile", "outKeep", "outCredentials"}

\* op: the request; read: refreshSettings' token; sent: what a request carried;
\* retried: doAuthenticated's second attempt; cycle: renewals so far;
\* mine, result: the session issued to a sign-in, and what login returns.
NoLocal == [op |-> "refresh", read |-> NoSession, sent |-> {}, retried |-> FALSE,
            cycle |-> 0, mine |-> NoSession, result |-> NoSession]

\* Between clearAuth and the session that login returns.
SigningIn == {"login", "loginReply", "take", "result"}
InLogin == SigningIn \cup {"saveCredentials", "saveSession", "keep"}

Init ==
  /\ valid = {1} /\ issued = 1 /\ place \in Places
  /\ token = 1 /\ cookie = 1 /\ cfgToken = 1
  /\ requestMu = NoProcess /\ authMu = NoProcess
  /\ file = 1 /\ saved = TRUE
  /\ pc = [p \in Process |-> Idle]
  /\ local = [p \in Process |-> NoLocal]
  /\ overlapped = {} /\ filled = {}
  /\ out = FALSE /\ quiet = FALSE
  /\ budget = [request |-> MaxRequests, fault |-> MaxFaults,
               expiry |-> MaxExpiries, crash |-> MaxCrashes]

Spend(kind) == budget[kind] > 0 /\ budget' = [budget EXCEPT ![kind] = @ - 1]
Goto(p, label) == pc' = [pc EXCEPT ![p] = label]
Note(p, field, value) == local' = [local EXCEPT ![p][field] = value]
Return(p) == Goto(p, Idle) /\ local' = [local EXCEPT ![p] = NoLocal]

Given(values) == values \ {NoSession}

-----------------------------------------------------------------------------
(* requests; disconnect, which begins with a refresh, precedes logout *)

Request(p, op) ==
  /\ pc[p] = Idle
  /\ op \in Requests
  /\ Spend("request")
  /\ Note(p, "op", op)
  /\ Goto(p, CASE op = "lines" -> "lines" [] op = "login" -> "clear"
               [] OTHER -> "read")
  /\ out' = (out /\ op \notin {"login", "logout"})
  /\ quiet' = IF op = "logout" THEN \A q \in Process \ {p} : pc[q] = Idle
              ELSE quiet /\ \A q \in Process : local[q].op # "logout"
  /\ UNCHANGED <<provider, client, requestMu, authMu, cfgToken, store, overlapped, filled>>

-----------------------------------------------------------------------------
(* refreshSettings *)

ReadSession(p) ==
  /\ pc[p] = "read"
  /\ Note(p, "read", file)
  /\ Goto(p, "store")
  /\ UNCHANGED <<provider, client, requestMu, authMu, cfgToken, store, history, budget>>

StoreSettings(p) ==
  /\ pc[p] = "store"
  /\ cfgToken' = local[p].read
  /\ Goto(p, "configure")
  /\ UNCHANGED <<provider, client, requestMu, authMu, store, local, history, budget>>

Configure(p) ==
  /\ pc[p] = "configure"
  /\ IF local[p].read = NoSession
     THEN UNCHANGED <<client, filled>>
     ELSE /\ token' = local[p].read
          /\ cookie' = IF cookie = NoSession THEN local[p].read ELSE cookie
          /\ filled' = IF cookie = NoSession
                       THEN filled \cup {q \in Process : pc[q] \in SigningIn}
                       ELSE filled
  /\ IF local[p].op = "logout" THEN Goto(p, "out") /\ UNCHANGED local ELSE Return(p)
  /\ UNCHANGED <<provider, requestMu, authMu, cfgToken, store, overlapped, out, quiet, budget>>

-----------------------------------------------------------------------------
(* apiClient.do, which holds requestMu over the exchange *)

Send(p, reply) ==
  /\ requestMu = NoProcess
  /\ requestMu' = p
  /\ Note(p, "sent", Given({token, cookie}))
  /\ Goto(p, reply)

\* The goroutine leaves getLinesAuthenticated or login.
GiveUp(p) ==
  /\ Return(p)
  /\ authMu' = IF authMu = p THEN NoProcess ELSE authMu

SendLines(p) ==
  /\ pc[p] = "lines"
  /\ Send(p, "linesReply")
  /\ UNCHANGED <<provider, client, authMu, cfgToken, store, history, budget>>

\* The lines, or an error that is not about the session.
LinesAnswered(p) ==
  /\ pc[p] = "linesReply"
  /\ requestMu' = NoProcess
  /\ \/ local[p].sent \cap valid # {} /\ UNCHANGED budget
     \/ Spend("fault")
  /\ Return(p)
  /\ UNCHANGED <<provider, client, authMu, cfgToken, store, history>>

\* Code 20001: tried again once, then renewed.  A fault is the 20001 that the
\* provider returns while a session propagates.
LinesRefused(p) ==
  /\ pc[p] = "linesReply"
  /\ requestMu' = NoProcess
  /\ \/ /\ local[p].sent = {} \/ ~(local[p].sent \subseteq valid)
        /\ UNCHANGED budget
     \/ Spend("fault")
  /\ Note(p, "retried", ~local[p].retried)
  /\ Goto(p, IF local[p].retried THEN "renew" ELSE "lines")
  /\ UNCHANGED <<provider, client, authMu, cfgToken, store, history>>

-----------------------------------------------------------------------------
(* reauthenticate and login *)

\* Seeded error: renewals do not exclude each other.
RenewUnguarded(p) ==
  /\ pc[p] = "renew"
  /\ saved
  /\ authMu' = p
  /\ Goto(p, "clear")
  /\ UNCHANGED <<provider, client, requestMu, cfgToken, store, local, history, budget>>

Renew(p) ==
  /\ pc[p] = "renew"
  /\ authMu = NoProcess
  /\ saved
  /\ authMu' = p
  /\ Goto(p, "clear")
  /\ UNCHANGED <<provider, client, requestMu, cfgToken, store, local, history, budget>>

NothingToRenew(p) ==
  /\ pc[p] = "renew"
  /\ authMu = NoProcess
  /\ ~saved
  /\ Return(p)
  /\ UNCHANGED <<provider, client, requestMu, authMu, cfgToken, store, history, budget>>

\* The other sign-ins under way on the client.  authMu keeps renewals apart,
\* and only those.
Met(p) == {q \in Process \ {p} : /\ pc[q] \in SigningIn
                                  /\ {local[p].op, local[q].op} # {"lines"}}

Clear(p) ==
  /\ token' = NoSession /\ cookie' = NoSession
  /\ overlapped' = IF Met(p) = {} THEN overlapped \ {p}
                   ELSE overlapped \cup Met(p) \cup {p}
  /\ filled' = filled \ {p}

ClearAuth(p) ==
  /\ pc[p] = "clear"
  /\ Clear(p)
  /\ Goto(p, "login")
  /\ UNCHANGED <<provider, requestMu, authMu, cfgToken, store, local, out, quiet, budget>>

SendLogin(p) ==
  /\ pc[p] = "login"
  /\ Send(p, "loginReply")
  /\ UNCHANGED <<provider, client, authMu, cfgToken, store, history, budget>>

\* autokick: the provider ends the sessions it issued before.
Issue ==
  /\ issued' = issued + 1
  /\ valid' = {issued + 1}
  /\ UNCHANGED place

LoginAnswered(p) ==
  /\ pc[p] = "loginReply"
  /\ Issue
  /\ requestMu' = NoProcess
  /\ cookie' = IF place = "cookie" THEN issued + 1 ELSE cookie
  /\ Note(p, "mine", issued + 1)
  /\ Goto(p, "take")
  /\ UNCHANGED <<token, authMu, cfgToken, store, history, budget>>

\* The session may have been issued, and the cookie of a failing answer counts.
Unanswered ==
  \/ Issue /\ cookie' \in IF place = "cookie" THEN {cookie, issued + 1} ELSE {cookie}
  \/ UNCHANGED <<provider, cookie>>

\* Seeded error: the error path keeps authMu.
LoginFailsLocked(p) ==
  /\ pc[p] = "loginReply"
  /\ Spend("fault")
  /\ Unanswered
  /\ requestMu' = NoProcess
  /\ Return(p)
  /\ UNCHANGED <<token, authMu, cfgToken, store, history>>

\* Refused, no answer, a failing one, or an answer lost after the session was issued.
LoginFails(p) ==
  /\ pc[p] = "loginReply"
  /\ Spend("fault")
  /\ Unanswered
  /\ requestMu' = NoProcess
  /\ GiveUp(p)
  /\ UNCHANGED <<token, cfgToken, store, history>>

\* A session in the body counts only if the client has no cookie.
TakeToken(p) ==
  /\ pc[p] = "take"
  /\ token' = IF cookie = NoSession /\ place = "body" THEN local[p].mine ELSE token
  /\ Goto(p, "result")
  /\ UNCHANGED <<provider, cookie, requestMu, authMu, cfgToken, store, local, history, budget>>

NoSessionIssued(p) ==
  /\ pc[p] = "result"
  /\ Given({token, cookie}) = {}
  /\ GiveUp(p)
  /\ UNCHANGED <<provider, client, requestMu, cfgToken, store, history, budget>>

LoginReturns(p) ==
  /\ pc[p] = "result"
  /\ Given({token, cookie}) # {}
  /\ Note(p, "result", IF cookie # NoSession THEN cookie ELSE token)
  /\ Goto(p, IF local[p].op = "login" THEN "saveCredentials" ELSE "saveSession")
  /\ UNCHANGED <<provider, client, requestMu, authMu, cfgToken, store, history, budget>>

\* Failures to save are logged and otherwise ignored.
SaveCredentials(p) ==
  /\ pc[p] = "saveCredentials"
  /\ \/ saved' = TRUE /\ UNCHANGED budget
     \/ UNCHANGED saved /\ Spend("fault")
  /\ Goto(p, "saveSession")
  /\ UNCHANGED <<provider, client, requestMu, authMu, cfgToken, file, local, history>>

SaveSession(p) ==
  /\ pc[p] = "saveSession"
  /\ \/ file' = local[p].result /\ UNCHANGED budget
     \/ UNCHANGED file /\ Spend("fault")
  /\ Goto(p, "keep")
  /\ UNCHANGED <<provider, client, requestMu, authMu, cfgToken, saved, local, history>>

\* Seeded error: one cycle too many.
KeepSessionOneMore(p) ==
  /\ pc[p] = "keep"
  /\ cfgToken' = local[p].result
  /\ authMu' = IF authMu = p THEN NoProcess ELSE authMu
  /\ IF local[p].op = "lines"
     THEN /\ local' = [local EXCEPT ![p] = [NoLocal EXCEPT !.op = "lines",
                                              !.cycle = local[p].cycle + 1]]
          /\ Goto(p, "lines")
     ELSE Return(p)
  /\ UNCHANGED <<provider, client, requestMu, store, history, budget>>

\* setSessionToken; a renewal goes back to the lines, if a cycle is left.
KeepSession(p) ==
  /\ pc[p] = "keep"
  /\ cfgToken' = local[p].result
  /\ authMu' = IF authMu = p THEN NoProcess ELSE authMu
  /\ IF local[p].op = "lines" /\ local[p].cycle < Cycles - 1
     THEN /\ local' = [local EXCEPT ![p] = [NoLocal EXCEPT !.op = "lines",
                                              !.cycle = local[p].cycle + 1]]
          /\ Goto(p, "lines")
     ELSE Return(p)
  /\ UNCHANGED <<provider, client, requestMu, store, history, budget>>

-----------------------------------------------------------------------------
(* logout *)

LogoutClear(p) ==
  /\ pc[p] = "out"
  /\ Clear(p)
  /\ Goto(p, "outFile")
  /\ UNCHANGED <<provider, requestMu, authMu, cfgToken, store, local, out, quiet, budget>>

\* A logout that could not remove a file is not counted as one.
LogoutFile(p) ==
  /\ pc[p] = "outFile"
  /\ \/ file' = NoSession /\ UNCHANGED <<quiet, budget>>
     \/ UNCHANGED file /\ Spend("fault") /\ quiet' = FALSE
  /\ Goto(p, "outKeep")
  /\ UNCHANGED <<provider, client, requestMu, authMu, cfgToken, saved, local,
                 overlapped, filled, out>>

LogoutKeep(p) ==
  /\ pc[p] = "outKeep"
  /\ cfgToken' = NoSession
  /\ Goto(p, "outCredentials")
  /\ UNCHANGED <<provider, client, requestMu, authMu, store, local, history, budget>>

\* Seeded error: the credentials stay.
LogoutKeepsCredentials(p) ==
  /\ pc[p] = "outCredentials"
  /\ out' = TRUE
  /\ Return(p)
  /\ UNCHANGED <<provider, client, requestMu, authMu, cfgToken, store, overlapped, filled, quiet, budget>>

LogoutCredentials(p) ==
  /\ pc[p] = "outCredentials"
  /\ \/ saved' = FALSE /\ UNCHANGED <<quiet, budget>>
     \/ UNCHANGED saved /\ Spend("fault") /\ quiet' = FALSE
  /\ out' = \A q \in Process : local[q].op # "login"
  /\ Return(p)
  /\ UNCHANGED <<provider, client, requestMu, authMu, cfgToken, file, overlapped, filled>>

-----------------------------------------------------------------------------
(* the environment *)

Expire ==
  /\ valid # {}
  /\ Spend("expiry")
  /\ valid' = {}
  /\ UNCHANGED <<issued, place, client, requestMu, authMu, cfgToken, store, pc, local, history>>

\* The daemon dies and procd starts it again: runDaemon reads the files, and the
\* client has no session until the first refresh.
Respawn ==
  /\ Spend("crash")
  /\ token' = NoSession /\ cookie' = NoSession /\ cfgToken' = file
  /\ requestMu' = NoProcess /\ authMu' = NoProcess
  /\ pc' = [p \in Process |-> Idle]
  /\ local' = [p \in Process |-> NoLocal]
  /\ overlapped' = {} /\ filled' = {}
  /\ UNCHANGED <<provider, store, out, quiet>>

Refresh(p) == ReadSession(p) \/ StoreSettings(p) \/ Configure(p)
Lines(p) == SendLines(p) \/ LinesAnswered(p) \/ LinesRefused(p)
SignIn(p) ==
  \/ Renew(p) \/ NothingToRenew(p) \/ ClearAuth(p) \/ SendLogin(p)
  \/ LoginAnswered(p) \/ LoginFails(p) \/ TakeToken(p) \/ NoSessionIssued(p) \/ LoginReturns(p)
  \/ SaveCredentials(p) \/ SaveSession(p) \/ KeepSession(p)
Logout(p) == LogoutClear(p) \/ LogoutFile(p) \/ LogoutKeep(p) \/ LogoutCredentials(p)
Step(p) == Refresh(p) \/ Lines(p) \/ SignIn(p) \/ Logout(p)

Next ==
  \/ \E p \in Process : Step(p) \/ \E op \in Operation : Request(p, op)
  \/ Expire \/ Respawn

Spec == Init /\ [][Next]_vars

\* A goroutine runs on, and a waiter gets its mutex in the end.
FairSpec == Spec /\ \A p \in Process : SF_vars(Step(p))

-----------------------------------------------------------------------------
(***************************************************************************)
(* Types; sessions are sign-ins that happened.                             *)
(***************************************************************************)
Known == 0..issued

TypeOK ==
  /\ issued \in Nat /\ place \in Places
  /\ valid \subseteq Known \ {NoSession}
  /\ {token, cookie, cfgToken, file} \subseteq Known
  /\ {requestMu, authMu} \subseteq Process \cup {NoProcess}
  /\ saved \in BOOLEAN
  /\ pc \in [Process -> Label]
  /\ local \in [Process -> [op : Operation, read : Known, sent : SUBSET Known,
                            retried : BOOLEAN, cycle : 0..Cycles - 1,
                            mine : Known, result : Known]]
  /\ {overlapped, filled} \subseteq SUBSET Process
  /\ {out, quiet} \subseteq BOOLEAN
  /\ budget \in [{"request", "fault", "expiry", "crash"} -> Nat]

(***************************************************************************)
(* login "forces a fresh session": whatever refreshSettings put back into  *)
(* the client in the meantime, what it returns and saves is not older than *)
(* the session the provider issued to it - unless a login or logout, which *)
(* authMu does not hold back, overlapped it, or a session in the body met  *)
(* a cookie that a refresh had restored.                                   *)
(***************************************************************************)
FreshSessionSaved ==
  \A p \in Process \ overlapped :
    /\ pc[p] \in {"saveCredentials", "saveSession", "keep"}
    /\ ~(place = "body" /\ p \in filled)
    => local[p].result >= local[p].mine

SignedOut ==
  /\ Given({token, cookie, cfgToken, file}) = {}
  /\ ~saved

(***************************************************************************)
(* A logout that nothing overlapped is final: no later request for lines,  *)
(* refresh or restart of the daemon signs in again, until a login does.    *)
(***************************************************************************)
QuietLogoutFinal == out /\ quiet => SignedOut

(***************************************************************************)
(* A logout is final whatever was under way: with every goroutine at rest  *)
(* and no login since, no session is left.                                 *)
(* The code does not keep it; the README says how to see that.             *)
(***************************************************************************)
LogoutFinal == out /\ (\A p \in Process : pc[p] = Idle) => SignedOut

(***************************************************************************)
(* A renewal only replaces a session that the provider refuses: concurrent *)
(* requests do not end each other's new session.                           *)
(* The code does not keep it; the README says how to see that.             *)
(***************************************************************************)
RenewsOnlyRefused ==
  \A p \in Process :
    pc[p] = "clear" /\ local[p].op = "lines" => cookie \notin valid

(***************************************************************************)
(* Every request returns: no path through an exchange or a renewal keeps a *)
(* mutex that another goroutine needs.                                     *)
(***************************************************************************)
RequestsReturn == \A p \in Process : pc[p] # Idle ~> pc[p] = Idle
=============================================================================
