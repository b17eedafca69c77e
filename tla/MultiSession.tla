---------------------------- MODULE MultiSession ----------------------------
(***************************************************************************)
(* Two or three sessions at a time: connectMultiLine and issueConnections  *)
(* of dual_experiment.go.  One goroutine for each slot signs in and later  *)
(* connects with a client of its own; the connector, which holds           *)
(* connectMu, waits for all of them, starts the engine, loads the rules    *)
(* and makes slot 1's client the controller's.  Meanwhile tickers run      *)
(* refreshSettings, a speed job may prepare the last slot                  *)
(* (prepareTripleSpeedSession), and a user may disconnect.                 *)
(*                                                                         *)
(* A session is the number of the sign-in of its device, and the provider  *)
(* honours the last one: a sign-in ends the device's line with its         *)
(* session before.                                                         *)
(***************************************************************************)
EXTENDS Naturals

CONSTANTS
  Count,                          \* sessions: 2 or 3
  MaxConnects, MaxOthers, MaxSlotFaults   \* bounds of the environment

Slot == 1..Count
Attempts == 3

ASSUME MultiSessionAssumption ==
  /\ Count \in {2, 3}
  /\ {MaxConnects, MaxOthers, MaxSlotFaults} \subseteq Nat

VARIABLES
  session,    \* the provider: the last session of each slot's device
  lineOf,     \* the provider: the session with which the device is on a line, 0 for none
  slotFile,   \* session_<slot>
  file,       \* session
  client,     \* what c.api sends
  running, using,          \* the engine: how many sessions, and which
  mpc,        \* the connector
  wpc, mine, tries,        \* slot goroutines, their sessions and attempts
  switching,
  ppc, pmine, \* prepareTripleSpeedSession and its session
  rpc, read,  \* refreshSettings on a ticker, and what it read
  excused,    \* history: slots left connected by a path that undoes nothing
  behind,     \* history: files that missed a sign-in (0: the controller's): its answer
              \* or its write failed, or two sign-ins of the device were written at once
  filled,     \* history: an older session filled the empty cookie of a swapped client
  mbudget

provider == <<session, lineOf>>
files == <<slotFile, file>>
engine == <<running, using>>
workers == <<wpc, mine, tries>>
triple == <<ppc, pmine>>
refresher == <<rpc, read>>
multiVars == <<provider, files, client, engine, mpc, workers, switching,
               triple, refresher, excused, behind, filled, mbudget>>

All(value) == [s \in Slot |-> value]

MultiInit ==
  /\ session = All(0) /\ lineOf = All(0)
  /\ slotFile = All(0) /\ file = 0
  /\ client = [token |-> 0, cookie |-> 0]
  /\ running = 0 /\ using = All(0)
  /\ mpc = "idle" /\ wpc = All("idle") /\ mine = All(0) /\ tries = All(0)
  /\ switching = FALSE
  /\ ppc = "idle" /\ pmine = 0
  /\ rpc = "idle" /\ read = 0
  /\ excused = {} /\ behind = {} /\ filled = FALSE
  /\ mbudget \in [connect : 0..MaxConnects, other : 0..MaxOthers, fault : 0..MaxSlotFaults]

SpendSlot(what) == mbudget[what] > 0 /\ mbudget' = [mbudget EXCEPT ![what] = @ - 1]
Free == UNCHANGED mbudget
Connected == {s \in Slot : lineOf[s] # 0}

\* The provider signs a device in.
Issue(s) ==
  /\ session' = [session EXCEPT ![s] = @ + 1]
  /\ lineOf' = [lineOf EXCEPT ![s] = 0]
  /\ excused' = excused \ {s}

\* A request with a session that is not the device's last is refused.
Honoured(s, mineOf) == mineOf = session[s]

-----------------------------------------------------------------------------
(* a goroutine of issueConnections *)

Worker(s, label) == wpc' = [wpc EXCEPT ![s] = label]

\* Another sign-in of the device waits to be saved.
Contended(s) == s = Count /\ ppc = "save"

Login(s) ==
  /\ wpc[s] = "login"
  /\ Issue(s)
  /\ mine' = [mine EXCEPT ![s] = session[s] + 1]
  /\ behind' = IF Contended(s) THEN behind \cup {s} ELSE behind \ {s}
  /\ Worker(s, "save")
  /\ UNCHANGED <<files, client, engine, mpc, tries, switching, triple, refresher, filled, mbudget>>

\* Error 20013 is tried again, three times in all; other errors are not, and the answer
\* may have been lost on its way.
LoginFails(s) ==
  /\ wpc[s] = "login"
  /\ SpendSlot("fault")
  /\ \/ /\ tries[s] + 1 < Attempts /\ tries' = [tries EXCEPT ![s] = @ + 1]
        /\ UNCHANGED <<provider, wpc, excused, behind>>
     \/ /\ Worker(s, "failed") /\ UNCHANGED tries
        /\ \/ UNCHANGED <<provider, excused, behind>>
           \/ Issue(s) /\ behind' = behind \cup {s}
  /\ UNCHANGED <<files, client, engine, mpc, mine, switching, triple, refresher, filled>>

\* saveSlotSession
SaveSlot(s) ==
  /\ wpc[s] = "save"
  /\ \/ /\ slotFile' = [slotFile EXCEPT ![s] = mine[s]] /\ Worker(s, "in")
        /\ UNCHANGED behind /\ Free
     \/ Worker(s, "failed") /\ behind' = behind \cup {s} /\ SpendSlot("fault") /\ UNCHANGED slotFile
  /\ UNCHANGED <<provider, file, client, engine, mpc, mine, tries, switching,
                 triple, refresher, excused, filled>>

OnLine(s, mineOf) == Honoured(s, mineOf) /\ lineOf' = [lineOf EXCEPT ![s] = mineOf]

\* A response without a Shadowsocks server counts as an error, though the device is
\* connected; so does a lost response.
ConnectSlot(s) ==
  /\ wpc[s] = "connect"
  /\ \/ OnLine(s, mine[s]) /\ Worker(s, "connected") /\ Free
     \/ OnLine(s, mine[s]) /\ Worker(s, "failed") /\ SpendSlot("fault")
     \/ UNCHANGED lineOf /\ Worker(s, "failed") /\ SpendSlot("fault")
     \/ ~Honoured(s, mine[s]) /\ UNCHANGED lineOf /\ Worker(s, "failed") /\ Free
  /\ UNCHANGED <<session, files, client, engine, mpc, mine, tries, switching,
                 triple, refresher, excused, behind, filled>>

SlotWorker(s) == Login(s) \/ LoginFails(s) \/ SaveSlot(s) \/ ConnectSlot(s)

-----------------------------------------------------------------------------
(* the connector *)

Connector(label) == mpc' = label
Rest == <<files, client, triple, refresher, behind, filled>>

\* connect returns.
Reset ==
  /\ Connector("idle") /\ switching' = FALSE
  /\ wpc' = All("idle") /\ mine' = All(0) /\ tries' = All(0)

\* It returns an error, and nothing of issueConnections is undone.
Abandon == Reset /\ excused' = excused \cup Connected

Begin ==
  /\ mpc = "idle"
  /\ SpendSlot("connect")
  /\ Connector("login") /\ wpc' = All("login")
  /\ switching' = (running > 0)
  /\ UNCHANGED <<provider, engine, mine, tries, excused, Rest>>

\* Seeded error: the connector goes on when the first slot is ready.
JoinedLoginsOne ==
  /\ mpc = "login" /\ wpc[1] \in {"in", "failed"}
  /\ IF wpc[1] = "failed" THEN Abandon
     ELSE /\ Connector("connect")
          /\ wpc' = [s \in Slot |-> IF wpc[s] = "in" THEN "connect" ELSE wpc[s]]
          /\ UNCHANGED <<mine, tries, switching, excused>>
  /\ UNCHANGED <<provider, engine, mbudget, Rest>>

\* Both waits are for every slot, whatever became of the others.
JoinedLogins ==
  /\ mpc = "login" /\ \A s \in Slot : wpc[s] \in {"in", "failed"}
  /\ IF \E s \in Slot : wpc[s] = "failed" THEN Abandon
     ELSE Connector("connect") /\ wpc' = All("connect") /\ UNCHANGED <<mine, tries, switching, excused>>
  /\ UNCHANGED <<provider, engine, mbudget, Rest>>

\* Seeded error: a slot that failed is not looked for.
JoinedConnectsAny ==
  /\ mpc = "connect" /\ \A s \in Slot : wpc[s] \in {"connected", "failed"}
  /\ Connector(IF switching THEN "stop" ELSE "start") /\ UNCHANGED <<workers, switching, excused>>
  /\ UNCHANGED <<provider, engine, mbudget, Rest>>

JoinedConnects ==
  /\ mpc = "connect" /\ \A s \in Slot : wpc[s] \in {"connected", "failed"}
  /\ IF \E s \in Slot : wpc[s] = "failed" THEN Abandon
     ELSE Connector(IF switching THEN "stop" ELSE "start") /\ UNCHANGED <<workers, switching, excused>>
  /\ UNCHANGED <<provider, engine, mbudget, Rest>>

\* From here on a failure disconnects every slot, as far as its session is the last.
Replaced == {s \in Slot : ~Honoured(s, mine[s])}

StopOld ==
  /\ mpc = "stop"
  /\ running' = 0 /\ UNCHANGED using
  /\ excused' = excused \cap Replaced
  /\ Connector("start")
  /\ UNCHANGED <<provider, workers, switching, mbudget, Rest>>

StartEngine ==
  /\ mpc = "start"
  /\ excused' = excused \cap Replaced
  /\ \/ running = 0 /\ running' = Count /\ using' = mine /\ Connector("route") /\ Free
     \/ UNCHANGED engine /\ Connector("cleanup") /\ SpendSlot("fault")
  /\ UNCHANGED <<provider, workers, switching, Rest>>

\* setupRedirect, and engine.stop if it fails.
Route ==
  /\ mpc = "route"
  /\ \/ Connector("swap") /\ Free /\ UNCHANGED running
     \/ running' = 0 /\ Connector("cleanup") /\ SpendSlot("fault")
  /\ UNCHANGED <<provider, using, workers, switching, excused, Rest>>

Uncleaned == {s \in Slot : wpc[s] = "connected"}

\* Seeded error: only the primary slot is disconnected.
CleanupPrimary ==
  /\ mpc = "cleanup"
  /\ lineOf' = [lineOf EXCEPT ![1] = 0]
  /\ Reset
  /\ UNCHANGED <<session, engine, mbudget, excused, Rest>>

\* cleanup: one request for each slot, whose errors are ignored.
Cleanup ==
  /\ mpc = "cleanup"
  /\ \/ \E s \in Uncleaned :
          /\ \A t \in Uncleaned : s <= t
          /\ Worker(s, "idle")
          /\ \/ lineOf' = [lineOf EXCEPT ![s] = IF Honoured(s, mine[s]) THEN 0 ELSE @]
                /\ UNCHANGED excused /\ Free
             \/ excused' = excused \cup {s} /\ UNCHANGED lineOf /\ SpendSlot("fault")
          /\ UNCHANGED <<mpc, mine, tries, switching>>
     \/ Uncleaned = {} /\ Reset /\ UNCHANGED <<lineOf, excused, mbudget>>
  /\ UNCHANGED <<session, engine, Rest>>

\* c.api = clients[0]; its login put the session in a cookie, or else in a token.
Swap ==
  /\ mpc = "swap"
  /\ client' \in {[token |-> 0, cookie |-> mine[1]], [token |-> mine[1], cookie |-> 0]}
  /\ filled' = FALSE
  /\ Connector("save")
  /\ UNCHANGED <<provider, files, engine, workers, switching, triple, refresher,
                 excused, behind, mbudget>>

\* setSessionToken, the history and the selected line follow (Session, Controller).
SavePrimary ==
  /\ mpc = "save"
  /\ \/ file' = mine[1] /\ behind' = behind \ {0} /\ Free
     \/ behind' = behind \cup {0} /\ SpendSlot("fault") /\ UNCHANGED file
  /\ Reset
  /\ UNCHANGED <<provider, slotFile, client, engine, triple, refresher, excused, filled>>

ConnectMultiLine ==
  \/ JoinedLogins \/ JoinedConnects \/ StopOld \/ StartEngine \/ Route \/ Cleanup
  \/ Swap \/ SavePrimary

-----------------------------------------------------------------------------
(* the others *)

\* controller.disconnect tells the provider nothing, and does not wait for connectMu.
Disconnect ==
  /\ running > 0
  /\ SpendSlot("other")
  /\ running' = 0 /\ UNCHANGED using
  /\ excused' = excused \cup Connected
  /\ UNCHANGED <<provider, mpc, workers, switching, Rest>>

\* prepareTripleSpeedSession, for the device of the last slot: by a speed job, or by a
\* process of its own.
TripleLogin ==
  /\ ppc = "idle"
  /\ Issue(Count)
  /\ \/ /\ SpendSlot("other")
        /\ pmine' = session[Count] + 1 /\ ppc' = "save"
        /\ behind' = IF wpc[Count] = "save" THEN behind \cup {Count} ELSE behind \ {Count}
     \/ SpendSlot("fault") /\ behind' = behind \cup {Count} /\ UNCHANGED triple
  /\ UNCHANGED slotFile

TripleReturns == ppc' = "idle" /\ pmine' = 0

TripleSave ==
  /\ ppc = "save"
  /\ \/ /\ slotFile' = [slotFile EXCEPT ![Count] = pmine] /\ ppc' = "connect"
        /\ UNCHANGED <<pmine, behind>> /\ Free
     \/ behind' = behind \cup {Count} /\ TripleReturns /\ SpendSlot("fault") /\ UNCHANGED slotFile
  /\ UNCHANGED <<provider, excused>>

\* Nothing ends the connection, whether or not its answer, the server in it or the
\* helper's configuration then fail.
TripleConnect ==
  /\ ppc = "connect"
  /\ \/ OnLine(Count, pmine) /\ excused' = excused \cup {Count} /\ Free
     \/ UNCHANGED <<lineOf, excused>> /\ SpendSlot("fault")
     \/ ~Honoured(Count, pmine) /\ UNCHANGED <<lineOf, excused>> /\ Free
  /\ TripleReturns
  /\ UNCHANGED <<session, slotFile, behind>>

PrepareTriple ==
  /\ TripleLogin \/ TripleSave \/ TripleConnect
  /\ UNCHANGED <<file, client, engine, mpc, workers, switching, refresher, filled>>

\* configure: the token, and the cookie if there is none.
Configured(token) == [token |-> token, cookie |-> IF client.cookie = 0 THEN token ELSE client.cookie]

Configure ==
  /\ rpc = "configure" /\ rpc' = "idle"
  /\ client' = IF read = 0 THEN client ELSE Configured(read)
  /\ filled' = (filled \/ (read # 0 /\ client.cookie = 0 /\ client.token \notin {0, read}))

\* Seeded error: the settings are read from a copy made once.
RefreshSettingsCached ==
  /\ \/ /\ rpc = "idle" /\ rpc' = "configure" /\ UNCHANGED <<client, filled>>
        /\ read' = IF read = 0 THEN file ELSE read
     \/ Configure /\ UNCHANGED read
  /\ UNCHANGED <<provider, files, engine, mpc, workers, switching, triple, excused, behind, mbudget>>

\* refreshSettings: the file, then whichever client c.api is.
RefreshSettings ==
  /\ \/ rpc = "idle" /\ rpc' = "configure" /\ read' = file /\ UNCHANGED <<client, filled>>
     \/ Configure /\ read' = 0
  /\ UNCHANGED <<provider, files, engine, mpc, workers, switching, triple, excused, behind, mbudget>>

MultiNext ==
  \/ Begin \/ ConnectMultiLine \/ \E s \in Slot : SlotWorker(s)
  \/ Disconnect \/ PrepareTriple \/ RefreshSettings

MultiSpec == MultiInit /\ [][MultiNext]_multiVars

\* Requests have timeouts; tickers refresh for ever.
MultiFairness ==
  /\ WF_multiVars(ConnectMultiLine) /\ WF_multiVars(RefreshSettings)
  /\ \A s \in Slot : WF_multiVars(SlotWorker(s))

-----------------------------------------------------------------------------
(***************************************************************************)
(* Types of the provider's and the daemon's view of the sessions.          *)
(***************************************************************************)
MultiTypeOK ==
  /\ {session, lineOf, slotFile, using, mine} \subseteq [Slot -> Nat]
  /\ {file, read, pmine} \subseteq Nat
  /\ client \in [token : Nat, cookie : Nat]
  /\ running \in {0, Count} /\ {switching, filled} \subseteq BOOLEAN
  /\ mpc \in {"idle", "login", "connect", "stop", "start", "route", "cleanup",
              "swap", "save"}
  /\ wpc \in [Slot -> {"idle", "login", "save", "in", "connect", "connected", "failed"}]
  /\ tries \in [Slot -> 0..Attempts - 1]
  /\ excused \subseteq Slot /\ behind \subseteq Slot \cup {0}

(***************************************************************************)
(* All or nothing: each session that a running engine was given is the one *)
(* its device is connected with, or was ended by a later sign-in of the    *)
(* device.  The latter is what a switch that fails after its sign-ins, or  *)
(* a speed test, does to an engine that goes on running.                   *)
(***************************************************************************)
EngineOnIssuedSessions ==
  running > 0 => \A s \in Slot : Honoured(s, using[s]) => lineOf[s] = using[s]

(***************************************************************************)
(* Once every slot was connected, a connect that fails leaves none of them *)
(* connected at the provider, unless the request to end it failed: what is *)
(* connected without an engine was left by a failing issueConnections, by  *)
(* a disconnect or by a speed test, and no sign-in came after.             *)
(***************************************************************************)
NothingLeftConnected == mpc = "idle" /\ running = 0 => Connected \subseteq excused

(***************************************************************************)
(* Each slot's file names the last session of its device, unless the       *)
(* answer or the write of a sign-in failed or two sign-ins of the device   *)
(* were written at once; and the controller's file names the session that  *)
(* slot 1 of the running engine uses, unless that write failed.            *)
(***************************************************************************)
SlotFilesAreCurrent ==
  mpc = "idle" /\ ppc = "idle" =>
    /\ \A s \in Slot \ behind : slotFile[s] = session[s]
    /\ running > 0 /\ 0 \notin behind => file = using[1]

(***************************************************************************)
(* The swap of c.api meets refreshes that read the file before: in the end *)
(* the client sends the session on file, as token and as cookie.  A cookie *)
(* can stay another's if a refresh that read before the swap filled it, or *)
(* if the session could not be saved.                                      *)
(***************************************************************************)
ClientAdopts ==
  <>[](file # 0 => /\ client.token = file
                   /\ client.cookie = file \/ filled \/ 0 \in behind)
=============================================================================
