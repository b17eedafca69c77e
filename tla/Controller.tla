----------------------------- MODULE Controller -----------------------------
(***************************************************************************)
(* controller.go with the handlers of server.go and the goroutines of      *)
(* main.go that call it: HTTP clients, the boot-time autoConnect, the      *)
(* auto-route watchdog, the engine supervisor and the SIGTERM handler, all *)
(* driving one Engine and one Redirect.                                    *)
(*                                                                         *)
(* connect holds connectMu from entry to return; disconnect does not take  *)
(* it.  Each step is the code between two points where another goroutine   *)
(* can matter: a lock, an external command or an API call.                 *)
(***************************************************************************)
EXTENDS Naturals, Sequences, FiniteSets

CONSTANTS
  Client,                              \* goroutines serving HTTP requests
  Boot, Watchdog, Supervisor, Signal,  \* the goroutines runDaemon starts
  NoProcess, Line, NoLine, MaxSessions, NoConfig, Broken,
  Background,                          \* which of runDaemon's goroutines run
  Requests,                            \* the kinds of request clients make
  InitialSettings,                     \* /etc/config/opensocks at start
  PostedSettings,                      \* what a client can save
  MaxRequests, MaxFaults, MaxCrashes, MaxDeaths   \* bounds of the environment

Process == Client \cup {Boot, Watchdog, Supervisor, Signal}
Mode == {"smart", "global"}

\* The part of the settings that connect and the watchdog act on.
Settings == [mode : Mode, selected : Line \cup {NoLine}, sessions : 1..MaxSessions,
             autoConnect : BOOLEAN, autoRoute : BOOLEAN]

\* The arguments of setupRedirect.
Config == [mode : Mode, servers : Line \cup {NoLine}, sessions : 0..MaxSessions]
GlobalConfig == {c \in Config : c.mode = "global"}

ASSUME ControllerAssumption ==
  /\ NoProcess \notin Process
  /\ NoLine \notin Line
  /\ MaxSessions \in Nat \ {0}
  /\ NoConfig \notin Config
  /\ Broken \notin Config \cup {NoConfig}
  /\ Background \subseteq {Boot, Watchdog, Supervisor, Signal}
  /\ InitialSettings \subseteq Settings
  /\ PostedSettings \subseteq Settings
  /\ {MaxRequests, MaxFaults, MaxCrashes, MaxDeaths} \subseteq Nat

VARIABLES
  table, ipRule, ipRoute, redirectMu, rpc, rarg,      \* Redirect
  up, cmd, child, stray, conn, emu, epc, earg,        \* Engine
  connectMu,    \* the holder of the mutex
  pc,           \* where each goroutine is
  want,         \* connect's wantID, then the line it will save, if any; the
                \* watchdog's copy of the servers
  got,          \* the line the API's answer to a connect names
  snap,         \* the settings each goroutine read
  switching,    \* connect's local variable
  after,        \* where a goroutine goes once its disconnect is done
  uci,          \* the settings on disk
  loggedIn,     \* a session exists
  stopped,      \* os.Exit was reached
  asked,        \* history: the line the API was last asked to connect
  budget        \* what the environment may still do

RD == INSTANCE Redirect
EN == INSTANCE Engine

netVars == <<table, ipRule, ipRoute, redirectMu, rpc, rarg>>
engVars == <<up, cmd, child, stray, conn, emu, epc, earg>>
locals == <<connectMu, pc, want, got, snap, switching, after>>
disk == <<uci, loggedIn, stopped, asked>>
vars == <<netVars, engVars, locals, disk, budget>>

DefaultSettings == [mode |-> "smart", selected |-> NoLine, sessions |-> 1,
                    autoConnect |-> TRUE, autoRoute |-> TRUE]

Idle == "idle"
Connecting == {"decide", "compare", "api", "stoppingOld", "tearingOld",
               "starting", "route", "routing", "undoing"}   \* holds connectMu
Disconnecting == {"stopping", "tearing"}
Label == {Idle, "lock", "save", "setup", "boot", "probe", "recheck", "servers",
          "count", "repairing"} \cup Connecting \cup Disconnecting

FreshPc == [p \in Process |-> IF p = Boot /\ Boot \in Background THEN "boot" ELSE Idle]
Fresh(value) == [p \in Process |-> value]

Init ==
  /\ RD!Init /\ EN!Init
  /\ connectMu = NoProcess
  /\ pc = FreshPc
  /\ want = Fresh(NoLine) /\ got = Fresh(NoLine)
  /\ snap = Fresh(DefaultSettings)
  /\ switching = Fresh(FALSE)
  /\ after = Fresh(Idle)
  /\ uci \in InitialSettings
  /\ loggedIn \in BOOLEAN
  /\ stopped = FALSE
  /\ asked = NoLine
  /\ budget = [request |-> MaxRequests, fault |-> MaxFaults,
               crash |-> MaxCrashes, death |-> MaxDeaths]

Spend(kind) == budget[kind] > 0 /\ budget' = [budget EXCEPT ![kind] = @ - 1]

-----------------------------------------------------------------------------
Goto(p, label) == pc' = [pc EXCEPT ![p] = label]

\* The goroutine's handler, or its iteration, is over.
Forget(p) ==
  /\ Goto(p, Idle)
  /\ want' = [want EXCEPT ![p] = NoLine] /\ got' = [got EXCEPT ![p] = NoLine]
  /\ snap' = [snap EXCEPT ![p] = DefaultSettings]
  /\ switching' = [switching EXCEPT ![p] = FALSE]
  /\ after' = [after EXCEPT ![p] = Idle]

\* The daemon's process ends: nothing is left of any goroutine.
Die ==
  /\ RD!Crash /\ EN!Crash
  /\ connectMu' = NoProcess
  /\ pc' = FreshPc
  /\ want' = Fresh(NoLine) /\ got' = Fresh(NoLine)
  /\ snap' = Fresh(DefaultSettings)
  /\ switching' = Fresh(FALSE)
  /\ after' = Fresh(Idle)

\* connect returns: the deferred Unlock runs.
Leave(p) == Forget(p) /\ connectMu' = NoProcess

\* Enter connect(line); NoLine stands for an ID that is not positive.
EnterConnect(p, line) ==
  /\ Goto(p, "lock")
  /\ want' = [want EXCEPT ![p] = line]
  /\ UNCHANGED <<connectMu, got, snap, switching, after>>

\* Enter disconnect(): engine.stop() is its first effect.
EnterDisconnect(p, then) ==
  /\ EN!CallStop(p)
  /\ Goto(p, "stopping")
  /\ after' = [after EXCEPT ![p] = then]
  /\ UNCHANGED <<connectMu, want, got, snap, switching>>

\* Methods of the engine that take e.mu to read.
EngineReadable == emu = NoProcess

-----------------------------------------------------------------------------
(* connect *)

\* Seeded error: connectMu does not exclude.
AcquireConnectUnguarded(p) ==
  /\ pc[p] = "lock"
  /\ connectMu' = p
  /\ snap' = [snap EXCEPT ![p] = uci]
  /\ Goto(p, "decide")
  /\ UNCHANGED <<netVars, engVars, want, got, switching, after, disk, budget>>

\* refreshSettings and currentSettings.
AcquireConnect(p) ==
  /\ pc[p] = "lock"
  /\ connectMu = NoProcess
  /\ connectMu' = p
  /\ snap' = [snap EXCEPT ![p] = uci]
  /\ Goto(p, "decide")
  /\ UNCHANGED <<netVars, engVars, want, got, switching, after, disk, budget>>

NotLoggedIn(p) ==
  /\ pc[p] = "decide"
  /\ ~loggedIn
  /\ Leave(p)
  /\ UNCHANGED <<netVars, engVars, disk, budget>>

CheckRunning(p) ==
  /\ pc[p] = "decide"
  /\ loggedIn
  /\ EngineReadable
  /\ Goto(p, IF EN!IsRunning THEN "compare" ELSE "api")
  /\ UNCHANGED <<netVars, engVars, connectMu, want, got, snap, switching, after, disk, budget>>

\* The saved line is the default.
Wanted(p) == IF want[p] = NoLine THEN snap[p].selected ELSE want[p]

\* engine.lineID is read without e.mu.
AlreadyConnected(p) ==
  /\ pc[p] = "compare"
  /\ Wanted(p) \in {NoLine, conn.line}
  /\ Leave(p)
  /\ UNCHANGED <<netVars, engVars, disk, budget>>

SwitchLine(p) ==
  /\ pc[p] = "compare"
  /\ Wanted(p) \notin {NoLine, conn.line}
  /\ switching' = [switching EXCEPT ![p] = TRUE]
  /\ Goto(p, "api")
  /\ UNCHANGED <<netVars, engVars, connectMu, want, got, snap, after, disk, budget>>

Connection(p) == [line |-> got'[p], sessions |-> snap[p].sessions]

\* What connect saves: a line the user chose, or the first there is.  With one session it
\* is the answered line if the directory connect holds lists it, or else the requested
\* one; with more it is the requested one.
ToSave(p, line, answered) ==
  IF want[p] = NoLine /\ snap[p].selected # NoLine THEN {NoLine}
  ELSE IF snap[p].sessions = 1 THEN {line, answered} ELSE {line}

\* Seeded error: the line of the answer is not taken over.
ApiConnectUnanswered(p, line, answered) ==
  /\ pc[p] = "api"
  /\ Wanted(p) \in {NoLine, line}
  /\ asked' = line
  /\ \E saved \in ToSave(p, line, answered) : want' = [want EXCEPT ![p] = saved]
  /\ UNCHANGED got
  /\ IF switching[p]
     THEN EN!CallStop(p) /\ Goto(p, "stoppingOld")
     ELSE EN!CallStart(p, Connection(p)) /\ Goto(p, "starting")
  /\ UNCHANGED <<netVars, connectMu, snap, switching, after, uci, loggedIn, stopped, budget>>

\* The line directory and the connect requests of all sessions, with retries.  The answer
\* to the first one names a line, which need not be the requested one.
ApiConnect(p, line, answered) ==
  /\ pc[p] = "api"
  /\ Wanted(p) \in {NoLine, line}
  /\ asked' = line
  /\ \E saved \in ToSave(p, line, answered) : want' = [want EXCEPT ![p] = saved]
  /\ got' = [got EXCEPT ![p] = answered]
  /\ IF switching[p]
     THEN EN!CallStop(p) /\ Goto(p, "stoppingOld")
     ELSE EN!CallStart(p, Connection(p)) /\ Goto(p, "starting")
  /\ UNCHANGED <<netVars, connectMu, snap, switching, after, uci, loggedIn, stopped, budget>>

\* Seeded error: the early return keeps connectMu.
ApiFailsLocked(p) ==
  /\ pc[p] = "api"
  /\ Spend("fault")
  /\ Forget(p)
  /\ UNCHANGED <<netVars, engVars, disk, connectMu>>

ApiFails(p) ==
  /\ pc[p] = "api"
  /\ Spend("fault")
  /\ Leave(p)
  /\ UNCHANGED <<netVars, engVars, disk>>

OldEngineStopped(p) ==
  /\ pc[p] = "stoppingOld"
  /\ epc[p] = "ok" /\ EN!Return(p)
  /\ RD!Call(p, NoConfig)
  /\ Goto(p, "tearingOld")
  /\ UNCHANGED <<connectMu, want, got, snap, switching, after, disk, budget>>

OldRoutesGone(p) ==
  /\ pc[p] = "tearingOld"
  /\ rpc[p] = "ok" /\ RD!Return(p)
  /\ UNCHANGED got
  /\ EN!CallStart(p, Connection(p))
  /\ Goto(p, "starting")
  /\ UNCHANGED <<connectMu, want, snap, switching, after, disk, budget>>

Started(p) ==
  /\ pc[p] = "starting"
  /\ epc[p] = "ok" /\ EN!Return(p)
  /\ Goto(p, "route")
  /\ UNCHANGED <<netVars, connectMu, want, got, snap, switching, after, disk, budget>>

NotStarted(p) ==
  /\ pc[p] = "starting"
  /\ epc[p] = "err" /\ EN!Return(p)
  /\ Leave(p)
  /\ UNCHANGED <<netVars, disk, budget>>

\* Seeded error: rules for one session, however many there are.
RouteOneSession(p) ==
  /\ pc[p] = "route"
  /\ EngineReadable
  /\ RD!Call(p, [mode |-> snap[p].mode, servers |-> conn.line, sessions |-> 1])
  /\ Goto(p, "routing")
  /\ UNCHANGED <<engVars, connectMu, want, got, snap, switching, after, disk, budget>>

\* The addresses come from the engine, not from the API's answer.
Route(p) ==
  /\ pc[p] = "route"
  /\ EngineReadable
  /\ RD!Call(p, [mode |-> snap[p].mode, servers |-> conn.line, sessions |-> snap[p].sessions])
  /\ Goto(p, "routing")
  /\ UNCHANGED <<engVars, connectMu, want, got, snap, switching, after, disk, budget>>

\* Seeded error: the line is not saved.
RoutedUnsaved(p) ==
  /\ pc[p] = "routing"
  /\ rpc[p] = "ok" /\ RD!Return(p)
  /\ Leave(p)
  /\ UNCHANGED <<engVars, disk, budget>>

\* saveSetting
Routed(p) ==
  /\ pc[p] = "routing"
  /\ rpc[p] = "ok" /\ RD!Return(p)
  /\ uci' = IF want[p] = NoLine THEN uci ELSE [uci EXCEPT !.selected = want[p]]
  /\ Leave(p)
  /\ UNCHANGED <<engVars, loggedIn, stopped, asked, budget>>

\* Seeded error: the engine is left running without rules.
NotRoutedKeepsEngine(p) ==
  /\ pc[p] = "routing"
  /\ rpc[p] = "err" /\ RD!Return(p)
  /\ Leave(p)
  /\ UNCHANGED <<engVars, disk, budget>>

NotRouted(p) ==
  /\ pc[p] = "routing"
  /\ rpc[p] = "err" /\ RD!Return(p)
  /\ EN!CallStop(p)
  /\ Goto(p, "undoing")
  /\ UNCHANGED <<connectMu, want, got, snap, switching, after, disk, budget>>

Undone(p) ==
  /\ pc[p] = "undoing"
  /\ epc[p] = "ok" /\ EN!Return(p)
  /\ Leave(p)
  /\ UNCHANGED <<netVars, disk, budget>>

Connect(p) ==
  \/ AcquireConnect(p) \/ NotLoggedIn(p) \/ CheckRunning(p)
  \/ AlreadyConnected(p) \/ SwitchLine(p)
  \/ ApiFails(p) \/ \E line, answered \in Line : ApiConnect(p, line, answered)
  \/ OldEngineStopped(p) \/ OldRoutesGone(p) \/ Started(p) \/ NotStarted(p)
  \/ Route(p) \/ Routed(p) \/ NotRouted(p) \/ Undone(p)

-----------------------------------------------------------------------------
(* disconnect *)

EngineStopped(p) ==
  /\ pc[p] = "stopping"
  /\ epc[p] = "ok" /\ EN!Return(p)
  /\ RD!Call(p, NoConfig)
  /\ Goto(p, "tearing")
  /\ UNCHANGED <<connectMu, want, got, snap, switching, after, disk, budget>>

\* Back in the caller: the end of a handler, or connect(-1).
Disconnected(p) ==
  /\ pc[p] = "tearing"
  /\ after[p] # "exit"
  /\ rpc[p] = "ok" /\ RD!Return(p)
  /\ Goto(p, after[p])
  /\ after' = [after EXCEPT ![p] = Idle]
  /\ UNCHANGED <<engVars, connectMu, want, got, snap, switching, disk, budget>>

\* os.Exit: every goroutine ends where it is.
Exit(p) ==
  /\ pc[p] = "tearing"
  /\ after[p] = "exit"
  /\ rpc[p] = "ok"
  /\ Die
  /\ stopped' = TRUE
  /\ UNCHANGED <<uci, loggedIn, asked, budget>>

Disconnect(p) == EngineStopped(p) \/ Disconnected(p) \/ Exit(p)

-----------------------------------------------------------------------------
(* HTTP handlers *)

Request(p, kind) ==
  /\ up /\ p \in Client /\ pc[p] = Idle
  /\ kind \in Requests
  /\ Spend("request")

\* handleConnect, handleReconnect
RequestConnect(p, line) ==
  /\ Request(p, "connect")
  /\ EnterConnect(p, line)
  /\ UNCHANGED <<netVars, engVars, disk>>

\* handleDisconnect
RequestDisconnect(p) ==
  /\ Request(p, "disconnect")
  /\ EnterDisconnect(p, Idle)
  /\ UNCHANGED <<netVars, disk>>

\* handleSettings: wasRunning is read before the body is.
RequestSettings(p) ==
  /\ Request(p, "settings")
  /\ EngineReadable
  /\ Goto(p, "save")
  /\ after' = [after EXCEPT ![p] = IF EN!IsRunning THEN "lock" ELSE Idle]
  /\ UNCHANGED <<netVars, engVars, connectMu, want, got, snap, switching, disk>>

\* Seeded error: new settings wait for the next connect.
SaveSettingsOnly(p, new) ==
  /\ pc[p] = "save"
  /\ uci' = [new EXCEPT !.selected = uci.selected]
  /\ Forget(p)
  /\ UNCHANGED <<netVars, engVars, connectMu, loggedIn, stopped, asked, budget>>

SaveSettings(p, new) ==
  /\ pc[p] = "save"
  /\ uci' = [new EXCEPT !.selected = uci.selected]
  /\ IF after[p] = Idle
     THEN Forget(p) /\ UNCHANGED <<engVars, connectMu>>
     ELSE EnterDisconnect(p, after[p])
  /\ UNCHANGED <<netVars, loggedIn, stopped, asked, budget>>

\* handleSetup: setupNetwork saves first and then looks whether it runs.
RequestSetup(p, mode) ==
  /\ Request(p, "setup")
  /\ uci' = [uci EXCEPT !.mode = mode, !.autoConnect = TRUE]
  /\ Goto(p, "setup")
  /\ UNCHANGED <<netVars, engVars, connectMu, want, got, snap, switching, after, loggedIn, stopped, asked>>

SetupNetwork(p) ==
  /\ pc[p] = "setup"
  /\ EngineReadable
  /\ IF EN!IsRunning
     THEN EnterDisconnect(p, "lock")
     ELSE EnterConnect(p, NoLine) /\ UNCHANGED engVars
  /\ UNCHANGED <<netVars, disk, budget>>

Handler(p) ==
  \/ RequestDisconnect(p) \/ RequestSettings(p) \/ SetupNetwork(p)
  \/ \E line \in Line \cup {NoLine} : RequestConnect(p, line)
  \/ \E mode \in Mode : RequestSetup(p, mode)
  \/ \E new \in PostedSettings : SaveSettings(p, new)

-----------------------------------------------------------------------------
(* the goroutines of runDaemon *)

AutoConnect ==
  /\ up /\ pc[Boot] = "boot"
  /\ IF (uci.autoConnect \/ uci.autoRoute) /\ loggedIn
     THEN EnterConnect(Boot, NoLine)
     ELSE Forget(Boot) /\ UNCHANGED connectMu
  /\ UNCHANGED <<netVars, engVars, disk, budget>>

\* A tick of autoRouteWatchdog.  Its back-off only delays the next attempt.
WatchdogTick ==
  /\ up /\ Watchdog \in Background /\ pc[Watchdog] = Idle
  /\ uci.autoRoute
  /\ EngineReadable
  /\ \/ ~EN!IsRunning /\ loggedIn /\ EnterConnect(Watchdog, NoLine)
     \/ /\ EN!IsRunning
        /\ snap' = [snap EXCEPT ![Watchdog] = uci]
        /\ Goto(Watchdog, "probe")
        /\ UNCHANGED <<connectMu, want, got, switching, after>>
  /\ UNCHANGED <<netVars, engVars, disk, budget>>

\* Seeded error: the watchdog never looks at the kernel.
WatchdogProbeIgnored ==
  /\ pc[Watchdog] = "probe"
  /\ Forget(Watchdog)
  /\ UNCHANGED <<netVars, engVars, connectMu, disk, budget>>

\* networkIntegrationState asks the kernel for the chain.
WatchdogProbe ==
  /\ pc[Watchdog] = "probe"
  /\ IF table # << >>
     THEN Forget(Watchdog)
     ELSE Goto(Watchdog, "recheck") /\ UNCHANGED <<want, got, snap, switching, after>>
  /\ UNCHANGED <<netVars, engVars, connectMu, disk, budget>>

WatchdogRecheck ==
  /\ pc[Watchdog] = "recheck"
  /\ EngineReadable
  /\ IF EN!IsRunning
     THEN Goto(Watchdog, "servers") /\ UNCHANGED <<want, got, snap, switching, after>>
     ELSE Forget(Watchdog)
  /\ UNCHANGED <<netVars, engVars, connectMu, disk, budget>>

WatchdogServers ==
  /\ pc[Watchdog] = "servers"
  /\ EngineReadable
  /\ want' = [want EXCEPT ![Watchdog] = conn.line]
  /\ Goto(Watchdog, "count")
  /\ UNCHANGED <<netVars, engVars, connectMu, got, snap, switching, after, disk, budget>>

WatchdogRepair ==
  /\ pc[Watchdog] = "count"
  /\ EngineReadable
  /\ RD!Call(Watchdog, [mode |-> snap[Watchdog].mode, servers |-> want[Watchdog],
                        sessions |-> EN!ActiveSessionCount])
  /\ Goto(Watchdog, "repairing")
  /\ UNCHANGED <<engVars, connectMu, want, got, snap, switching, after, disk, budget>>

WatchdogDone ==
  /\ pc[Watchdog] = "repairing"
  /\ RD!Return(Watchdog)
  /\ Forget(Watchdog)
  /\ UNCHANGED <<engVars, connectMu, disk, budget>>

AutoRouteWatchdog ==
  \/ WatchdogTick \/ WatchdogProbe \/ WatchdogRecheck
  \/ WatchdogServers \/ WatchdogRepair \/ WatchdogDone

\* A tick of supervise, with restartEngine as its callback.
Supervise ==
  /\ up /\ Supervisor \in Background /\ pc[Supervisor] = Idle
  /\ EngineReadable
  /\ IF EN!EngineDied THEN EnterConnect(Supervisor, NoLine) ELSE UNCHANGED locals
  /\ UNCHANGED <<netVars, engVars, disk, budget>>

Terminate ==
  /\ up /\ Signal \in Background /\ pc[Signal] = Idle
  /\ EnterDisconnect(Signal, "exit")
  /\ UNCHANGED <<netVars, disk, budget>>

-----------------------------------------------------------------------------
(* steps inside Redirect and Engine, and the environment *)

Netfilter(p) ==
  /\ \/ (RD!Lock(p) \/ RD!Succeed(p)) /\ UNCHANGED budget
     \/ RD!Fail(p) /\ Spend("fault")
  /\ UNCHANGED <<engVars, locals, disk>>

Children(p) ==
  /\ \/ (EN!Enter(p) \/ EN!Succeed(p)) /\ UNCHANGED budget
     \/ EN!Fail(p) /\ Spend("fault")
  /\ UNCHANGED <<netVars, locals, disk>>

ChildDies ==
  /\ Spend("death")
  /\ \E s \in EN!Slot : EN!ChildDies(s)
  /\ UNCHANGED <<netVars, locals, disk>>

StrayExits ==
  /\ \E s \in EN!Slot : EN!StrayExits(s)
  /\ UNCHANGED <<netVars, locals, disk, budget>>

Crash ==
  /\ Spend("crash")
  /\ Die
  /\ UNCHANGED disk

Restart ==
  /\ ~stopped
  /\ EN!Restart
  /\ UNCHANGED <<netVars, locals, disk, budget>>

Run(p) == Connect(p) \/ Disconnect(p) \/ Handler(p) \/ Netfilter(p) \/ Children(p)

Next ==
  \/ \E p \in Process : Run(p)
  \/ AutoConnect \/ AutoRouteWatchdog \/ Supervise \/ Terminate
  \/ ChildDies \/ StrayExits \/ Crash \/ Restart

Spec == Init /\ [][Next]_vars

\* What a goroutine does on its own once its handler or tick has begun.
Proceed(p) ==
  \/ Connect(p) \/ Disconnect(p) \/ Netfilter(p) \/ Children(p)
  \/ SetupNetwork(p) \/ \E new \in PostedSettings : SaveSettings(p, new)

(***************************************************************************)
(* A goroutine that can run does; one that waits for a mutex gets it (Go's *)
(* mutexes are starvation-free), hence strong fairness.  Tickers tick and  *)
(* procd respawns the daemon.  Nothing is assumed of clients or faults.    *)
(***************************************************************************)
Fairness ==
  /\ \A p \in Process : SF_vars(Proceed(p))
  /\ SF_vars(AutoConnect) /\ SF_vars(AutoRouteWatchdog) /\ SF_vars(Supervise)
  /\ WF_vars(Restart) /\ WF_vars(StrayExits)

FairSpec == Spec /\ Fairness

-----------------------------------------------------------------------------
(***************************************************************************)
(* Types of the controller's locals, the settings and the environment.     *)
(***************************************************************************)
TypeOK ==
  /\ RD!TypeOK /\ EN!TypeOK
  /\ connectMu \in Process \cup {NoProcess}
  /\ pc \in [Process -> Label]
  /\ {want, got} \subseteq [Process -> Line \cup {NoLine}]
  /\ snap \in [Process -> Settings]
  /\ switching \in [Process -> BOOLEAN]
  /\ after \in [Process -> {Idle, "lock", "exit"}]
  /\ uci \in Settings
  /\ loggedIn \in BOOLEAN
  /\ stopped \in BOOLEAN
  /\ asked \in Line \cup {NoLine}
  /\ budget \in [{"request", "fault", "crash", "death"} -> Nat]

(***************************************************************************)
(* connectMu serializes the decision to start with the start: no connect,  *)
(* whoever else connects, disconnects or dies, meets an engine that runs   *)
(* when its own start begins ("engine already running" is never returned). *)
(***************************************************************************)
StartNeverRefused ==
  \A p \in Process : epc[p] \in {"start", "spawn"} =>
    /\ epc[p] = "start" => cmd = {}
    /\ \A q \in Process \ {p} : epc[q] \notin {"start", "spawn"}

\* Where a goroutine is when connectMu protects neither it from a connect nor a
\* connect from it.
Exclusive == Disconnecting \cup {"save", "setup", "probe", "recheck", "servers", "count", "repairing"}

\* Connects race with each other; a disconnect, a saving of settings or a repair
\* begins and ends alone.  The two properties below hold of such behaviours only.
Undisturbed ==
  \A p, q \in Process : p # q /\ pc[p] \in Exclusive => pc[q] = Idle

\* No goroutine is inside an operation.
AtRest == up /\ \A p \in Process : pc[p] = Idle

(***************************************************************************)
(* Between operations the firewall and the engine agree: no table and no   *)
(* engine, or a table built for the servers and the sessions that run.     *)
(***************************************************************************)
EngineAndRoutesAgree ==
  AtRest => \/ table = << >> /\ conn = EN!NoConnection
            \/ /\ table # << >> /\ conn # EN!NoConnection
               /\ table[1].servers = conn.line
               /\ table[1].sessions = conn.sessions

(***************************************************************************)
(* Between operations what runs is what the settings say: their mode and   *)
(* their number of sessions; and the line they name is the one that runs,  *)
(* or the one that was asked for and answered with another.                *)
(***************************************************************************)
SettingsApplied ==
  AtRest /\ table # << >> =>
    /\ table[1].mode = uci.mode
    /\ conn.sessions = uci.sessions
    /\ uci.selected \in {conn.line, asked}

(***************************************************************************)
(* Between operations no LAN traffic is redirected to ports on which no    *)
(* engine listens.                                                         *)
(***************************************************************************)
NoTableWithoutEngine == AtRest /\ table # << >> => conn # EN!NoConnection

(***************************************************************************)
(* main.go on SIGTERM: neither the redirection process nor the firewall    *)
(* table survives as an orphan.                                            *)
(* The code does not keep it beside a connect, as it does not keep         *)
(* NoTableWithoutEngine; the README says how to see that.                  *)
(***************************************************************************)
ShutdownLeavesNothing == stopped => table = << >> /\ stray = {}

(***************************************************************************)
(* An engine that died while connected is replaced by a live one, or the   *)
(* connection is given up: a dead child is not kept for ever.              *)
(***************************************************************************)
DeadEngineReplaced ==
  (\E s \in EN!Slot : child[s] = "defunct") ~> (\A s \in EN!Slot : child[s] # "defunct")

(***************************************************************************)
(* With auto-route on and a session, the watchdog brings back a table and  *)
(* an engine with a live child for each session, whatever finitely many    *)
(* disconnects, failing commands and daemon deaths did, and they stay; or  *)
(* else a child is dead for ever, which nobody notices                     *)
(* (DeadEngineReplaced): one that a process of the dead daemon kept from   *)
(* its port.                                                               *)
(***************************************************************************)
AutoRecovery ==
  [](uci.autoRoute /\ loggedIn) =>
    \/ <>[](/\ conn # EN!NoConnection /\ table # << >>
            /\ \A s \in 1..conn.sessions : child[s] = "running")
    \/ <>[](\E s \in EN!Slot : child[s] = "defunct")

(***************************************************************************)
(* A goroutine that waits for connectMu gets through its connect: no path  *)
(* out of connect keeps a mutex another needs.                             *)
(***************************************************************************)
ConnectsReturn == \A p \in Process : pc[p] = "lock" ~> pc[p] \in {Idle, "boot"}

(***************************************************************************)
(* The goroutines together implement the abstract routing, whatever they   *)
(* do at the same time and wherever the daemon dies.                       *)
(***************************************************************************)
ImplementsRouting == RD!ImplementsRouting
=============================================================================
