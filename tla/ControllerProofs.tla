-------------------------- MODULE ControllerProofs --------------------------
(***************************************************************************)
(* Proofs about Controller, for any clients, lines, settings and bounds of *)
(* the environment.                                                        *)
(*                                                                         *)
(* The argument has two parts.  Every step of the controller is a step or  *)
(* a stutter of Redirect and of Engine, each with arguments of their       *)
(* types, so that their theorems hold of the controller's behaviours.      *)
(* And connectMu admits one connect, whose decision to start rests on an   *)
(* engine without children; nobody else starts any until it is done.       *)
(* From both follows, where nothing that takes no connectMu runs beside    *)
(* another operation, that engine, rules and settings agree at rest.       *)
(***************************************************************************)
EXTENDS Controller, FiniteSetTheorems, TLAPS

RDP == INSTANCE RedirectProofs
ENP == INSTANCE EngineProofs

\* The two modules' assumptions are those of the controller.
LEMMA RedirectAssumed == RDP!RedirectAssumption
<1>1. QED
  BY ControllerAssumption DEF RDP!RedirectAssumption

LEMMA EngineAssumed == ENP!EngineAssumption
<1>1. QED
  BY ControllerAssumption DEF ENP!EngineAssumption

-----------------------------------------------------------------------------
\* The instances the proofs are about are those the controller is made of.
LEMMA SameRedirect == /\ RD!Init => RDP!Init
                      /\ [RD!Next]_(RD!vars) => [RDP!Next]_(RDP!vars)
<1>1. RD!Init => RDP!Init
  BY DEF RD!Init, RDP!Init
<1>2. [RD!Next]_(RD!vars) => [RDP!Next]_(RDP!vars)
  BY DEF RD!Next, RD!Step, RD!Succeed, RD!Fail, RD!Lock, RD!Return, RD!Call, RD!Crash,
         RD!kernel, RD!vars, RD!Goto, RD!Finish, RD!BuildScript, RD!DropTable, RD!DeleteRule,
         RD!FlushRoute, RD!AddRule, RD!AddRoute, RD!LoadTable, RD!LoadChinaRoutesFails,
         RD!AddRuleFails, RD!AddRouteFails, RD!LoadTableFails,
         RDP!Next, RDP!Step, RDP!Succeed, RDP!Fail, RDP!Lock, RDP!Return, RDP!Call, RDP!Crash,
         RDP!kernel, RDP!vars, RDP!Goto, RDP!Finish, RDP!BuildScript, RDP!DropTable, RDP!DeleteRule,
         RDP!FlushRoute, RDP!AddRule, RDP!AddRoute, RDP!LoadTable, RDP!LoadChinaRoutesFails,
         RDP!AddRuleFails, RDP!AddRouteFails, RDP!LoadTableFails
<1>3. QED
  BY <1>1, <1>2

LEMMA SameEngine == /\ EN!Init => ENP!Init
                    /\ [EN!Next]_(EN!vars) => [ENP!Next]_(ENP!vars)
                    /\ ENP!TypeOK <=> EN!TypeOK
<1>1. EN!Init => ENP!Init
  BY DEF EN!Init, ENP!Init, EN!Slot, ENP!Slot, EN!NoConnection, ENP!NoConnection
<1>2. [EN!Next]_(EN!vars) => [ENP!Next]_(ENP!vars)
  BY DEF EN!Next, EN!Enter, EN!Succeed, EN!Fail, EN!Return, EN!CallStop, EN!CallStart, EN!ChildDies,
         EN!StrayExits, EN!Crash, EN!Restart, EN!vars, EN!Slot, EN!Connection, EN!NoConnection,
         EN!Start, EN!StartRefused, EN!StartFails, EN!Stop, EN!Spawn, EN!SpawnFails, EN!Kill,
         EN!Publish, EN!Reap, EN!Stopped, EN!Reaped, EN!IsFirst, EN!IsLast, EN!Unspawned, EN!Goto,
         EN!Finish, EN!IsRunning, EN!Signal0,
         ENP!Next, ENP!Enter, ENP!Succeed, ENP!Fail, ENP!Return, ENP!CallStop, ENP!CallStart,
         ENP!ChildDies, ENP!StrayExits, ENP!Crash, ENP!Restart, ENP!vars, ENP!Slot, ENP!Connection,
         ENP!NoConnection, ENP!Start, ENP!StartRefused, ENP!StartFails, ENP!Stop, ENP!Spawn,
         ENP!SpawnFails, ENP!Kill, ENP!Publish, ENP!Reap, ENP!Stopped, ENP!Reaped, ENP!IsFirst,
         ENP!IsLast, ENP!Unspawned, ENP!Goto, ENP!Finish, ENP!IsRunning, ENP!Signal0
<1>3. ENP!TypeOK <=> EN!TypeOK
  BY DEF EN!TypeOK, ENP!TypeOK, EN!Slot, ENP!Slot, EN!Connection, ENP!Connection,
         EN!NoConnection, ENP!NoConnection, EN!Label, ENP!Label
<1>4. QED
  BY <1>1, <1>2, <1>3

-----------------------------------------------------------------------------
\* The type of what the controller adds to the engine and the firewall.
LocalsOK ==
  /\ connectMu \in Process \cup {NoProcess}
  /\ pc \in [Process -> Label]
  /\ want \in [Process -> Line \cup {NoLine}] /\ got \in [Process -> Line \cup {NoLine}]
  /\ snap \in [Process -> Settings]
  /\ switching \in [Process -> BOOLEAN]
  /\ after \in [Process -> {Idle, "lock", "exit"}]
  /\ uci \in Settings
  /\ loggedIn \in BOOLEAN
  /\ stopped \in BOOLEAN
  /\ asked \in Line \cup {NoLine}
  /\ budget \in [{"request", "fault", "crash", "death"} -> Nat]

\* A connect that is replacing an engine knows the line of the new one.
LineKnown == \A p \in Process : pc[p] \in {"stoppingOld", "tearingOld"} => got[p] \in Line

Typed == LocalsOK /\ LineKnown

\* The settings a daemon starts with are settings.
LEMMA DefaultsAreSettings == DefaultSettings \in Settings
<1>1. 1 \in 1..MaxSessions
  BY ControllerAssumption
<1>2. QED
  BY <1>1 DEF DefaultSettings, Settings, Mode

LEMMA TypedInit == Init => Typed
<1> SUFFICES ASSUME Init PROVE Typed
  OBVIOUS
<1>1. pc \in [Process -> Label] /\ \A p \in Process : pc[p] \in {"boot", Idle}
  BY DEF Init, FreshPc, Label, Idle
<1>2. snap \in [Process -> Settings]
  BY DefaultsAreSettings DEF Init, Fresh
<1>3. switching \in [Process -> BOOLEAN] /\ loggedIn \in BOOLEAN /\ stopped \in BOOLEAN
  BY DEF Init, Fresh
<1>4. /\ want \in [Process -> Line \cup {NoLine}] /\ got \in [Process -> Line \cup {NoLine}]
      /\ asked \in Line \cup {NoLine} /\ after \in [Process -> {Idle, "lock", "exit"}]
  BY DEF Init, Fresh
<1>5. uci \in Settings
  BY ControllerAssumption DEF Init
<1>6. budget \in [{"request", "fault", "crash", "death"} -> Nat]
  BY ControllerAssumption DEF Init
<1>7. connectMu \in Process \cup {NoProcess}
  BY DEF Init
<1>8. QED
  BY <1>1, <1>2, <1>3, <1>4, <1>5, <1>6, <1>7 DEF Typed, LocalsOK, LineKnown, Idle

\* Leaving a handler, entering connect or disconnect, and dying keep the types.
LEMMA MovesTyped ==
  ASSUME Typed, NEW p \in Process
  PROVE  /\ Forget(p) => pc' \in [Process -> Label] /\ {want', got'} \subseteq [Process -> Line \cup {NoLine}]
                         /\ snap' \in [Process -> Settings] /\ switching' \in [Process -> BOOLEAN]
                         /\ after' \in [Process -> {Idle, "lock", "exit"}] /\ LineKnown'
         /\ Die => connectMu' = NoProcess /\ pc' \in [Process -> Label]
                   /\ {want', got'} \subseteq [Process -> Line \cup {NoLine}] /\ snap' \in [Process -> Settings]
                   /\ switching' \in [Process -> BOOLEAN]
                   /\ after' \in [Process -> {Idle, "lock", "exit"}] /\ LineKnown'
<1> USE DEF Typed, LocalsOK, LineKnown, Label, Connecting, Disconnecting, Idle
<1>1. ASSUME Forget(p) PROVE /\ pc' \in [Process -> Label] /\ {want', got'} \subseteq [Process -> Line \cup {NoLine}]
                             /\ snap' \in [Process -> Settings] /\ switching' \in [Process -> BOOLEAN]
                             /\ after' \in [Process -> {Idle, "lock", "exit"}] /\ LineKnown'
  <2>1. switching' \in [Process -> BOOLEAN]
    BY <1>1 DEF Forget
  <2>2. snap' \in [Process -> Settings]
    BY <1>1, DefaultsAreSettings DEF Forget
  <2>3. QED
    BY <1>1, <2>1, <2>2 DEF Forget, Goto
<1>2. ASSUME Die PROVE /\ connectMu' = NoProcess /\ pc' \in [Process -> Label]
                       /\ {want', got'} \subseteq [Process -> Line \cup {NoLine}] /\ snap' \in [Process -> Settings]
                       /\ switching' \in [Process -> BOOLEAN]
                       /\ after' \in [Process -> {Idle, "lock", "exit"}] /\ LineKnown'
  <2>1. switching' \in [Process -> BOOLEAN]
    BY <1>2 DEF Die, Fresh
  <2>2. snap' \in [Process -> Settings]
    BY <1>2, DefaultsAreSettings DEF Die, Fresh
  <2>3. QED
    BY <1>2, <2>1, <2>2 DEF Die, Fresh, FreshPc
<1>3. QED
  BY <1>1, <1>2

\* What the environment may still do only gets less.
LEMMA SpendTyped ==
  ASSUME Typed, NEW kind \in {"request", "fault", "crash", "death"}, Spend(kind)
  PROVE  budget' \in [{"request", "fault", "crash", "death"} -> Nat]
<1>1. budget[kind] \in Nat \ {0}
  BY DEF Typed, LocalsOK, Spend
<1>2. QED
  BY <1>1 DEF Typed, LocalsOK, Spend

\* Connect's steps keep the types.
LEMMA ConnectTyped ==
  ASSUME Typed, EN!TypeOK, NEW p \in Process, Connect(p)
  PROVE  Typed'
<1> USE DEF Typed, LocalsOK, LineKnown, Label, Connecting, Disconnecting, Idle, Goto, disk
<1>1. CASE AcquireConnect(p)
  BY <1>1 DEF AcquireConnect
<1>2. CASE Leave(p) /\ UNCHANGED <<disk, budget>>
  BY <1>2, MovesTyped DEF Leave
<1>3. CASE CheckRunning(p)
  BY <1>3 DEF CheckRunning
<1>4. CASE SwitchLine(p)
  <2>1. switching' \in [Process -> BOOLEAN]
    BY <1>4 DEF SwitchLine
  <2>2. QED
    BY <1>4, <2>1 DEF SwitchLine
<1>5. CASE ApiFails(p)
  BY <1>5, MovesTyped, SpendTyped DEF ApiFails, Leave
<1>6. ASSUME NEW line \in Line, NEW answered \in Line, ApiConnect(p, line, answered) PROVE Typed'
  <2>1. \/ pc' = [pc EXCEPT ![p] = "stoppingOld"]
        \/ pc' = [pc EXCEPT ![p] = "starting"]
    BY <1>6 DEF ApiConnect
  <2>2. want' \in [Process -> Line \cup {NoLine}]
    BY <1>6 DEF ApiConnect, ToSave
  <2>3. UNCHANGED <<switching, loggedIn, stopped, connectMu, snap, after, uci, budget>>
    BY <1>6 DEF ApiConnect
  <2>4. QED
    BY <1>6, <2>1, <2>2, <2>3 DEF ApiConnect
<1>7. CASE OldEngineStopped(p)
  BY <1>7 DEF OldEngineStopped
<1>8. CASE OldRoutesGone(p)
  BY <1>8 DEF OldRoutesGone
<1>9. CASE Started(p) \/ Route(p) \/ NotRouted(p)
  BY <1>9 DEF Started, Route, NotRouted
<1>10. CASE Routed(p)
  <2>1. uci' \in Settings
    BY <1>10 DEF Routed, Settings
  <2>2. QED
    BY <1>10, <2>1, MovesTyped DEF Routed, Leave
<1>11. QED
  BY <1>1, <1>2, <1>3, <1>4, <1>5, <1>6, <1>7, <1>8, <1>9, <1>10
     DEF Connect, NotLoggedIn, AlreadyConnected, NotStarted, Undone

\* Disconnect's steps and the handlers keep the types.
LEMMA HandlerTyped ==
  ASSUME Typed, NEW p \in Process, Disconnect(p) \/ Handler(p)
  PROVE  Typed'
<1> USE DEF Typed, LocalsOK, LineKnown, Label, Connecting, Disconnecting, Idle, Goto, disk
<1>1. CASE EngineStopped(p) \/ Disconnected(p)
  BY <1>1 DEF EngineStopped, Disconnected
<1>2. CASE Exit(p)
  BY <1>2, MovesTyped DEF Exit
<1>3. ASSUME NEW kind, Request(p, kind) PROVE budget' \in [{"request", "fault", "crash", "death"} -> Nat]
  BY <1>3, SpendTyped DEF Request
<1>4. ASSUME NEW line \in Line \cup {NoLine}, RequestConnect(p, line) PROVE Typed'
  BY <1>3, <1>4 DEF RequestConnect, EnterConnect
<1>5. CASE RequestDisconnect(p)
  BY <1>3, <1>5 DEF RequestDisconnect, EnterDisconnect
<1>6. CASE RequestSettings(p)
  BY <1>3, <1>6 DEF RequestSettings
<1>7. ASSUME NEW new \in PostedSettings, SaveSettings(p, new) PROVE Typed'
  <2>1. uci' \in Settings
    <3>1. new \in Settings
      BY ControllerAssumption
    <3>2. QED
      BY <1>7, <3>1 DEF SaveSettings, Settings
  <2>2. CASE after[p] = Idle
    BY <1>7, <2>1, <2>2, MovesTyped DEF SaveSettings
  <2>3. CASE after[p] # Idle
    BY <1>7, <2>1, <2>3 DEF SaveSettings, EnterDisconnect
  <2>4. QED
    BY <2>2, <2>3
<1>8. ASSUME NEW mode \in Mode, RequestSetup(p, mode) PROVE Typed'
  <2>1. uci' \in Settings
    BY <1>8 DEF RequestSetup, Settings
  <2>2. QED
    BY <1>3, <1>8, <2>1 DEF RequestSetup
<1>9. CASE SetupNetwork(p)
  BY <1>9 DEF SetupNetwork, EnterConnect, EnterDisconnect
<1>10. QED
  BY <1>1, <1>2, <1>4, <1>5, <1>6, <1>7, <1>8, <1>9 DEF Disconnect, Handler

\* The goroutines of runDaemon and the environment keep the types.
LEMMA BackgroundTyped ==
  ASSUME Typed, EN!TypeOK,
         \/ AutoConnect \/ AutoRouteWatchdog \/ Supervise \/ Terminate
         \/ ChildDies \/ StrayExits \/ Crash \/ Restart
         \/ \E p \in Process : Netfilter(p) \/ Children(p)
  PROVE  Typed'
<1> USE DEF Typed, LocalsOK, LineKnown, Label, Connecting, Disconnecting, Idle, Goto, disk, locals
<1>1. {Boot, Watchdog, Supervisor, Signal} \subseteq Process
  BY DEF Process
<1>2. CASE AutoConnect
  BY <1>1, <1>2, MovesTyped DEF AutoConnect, EnterConnect
<1>3. CASE WatchdogTick
  BY <1>1, <1>3 DEF WatchdogTick, EnterConnect
<1>4. CASE WatchdogProbe \/ WatchdogRecheck \/ WatchdogDone
  BY <1>1, <1>4, MovesTyped DEF WatchdogProbe, WatchdogRecheck, WatchdogDone
<1>5. CASE WatchdogServers
  <2>1. conn.line \in Line \cup {NoLine}
    BY DEF EN!TypeOK, EN!Connection, EN!NoConnection
  <2>2. QED
    BY <1>1, <1>5, <2>1 DEF WatchdogServers
<1>6. CASE WatchdogRepair
  BY <1>1, <1>6 DEF WatchdogRepair
<1>7. CASE Supervise
  BY <1>1, <1>7 DEF Supervise, EnterConnect
<1>8. CASE Terminate
  BY <1>1, <1>8 DEF Terminate, EnterDisconnect
<1>9. CASE ChildDies
  BY <1>9, SpendTyped DEF ChildDies
<1>10. CASE StrayExits \/ Restart
  BY <1>10 DEF StrayExits, Restart
<1>11. CASE Crash
  BY <1>1, <1>11, MovesTyped, SpendTyped DEF Crash
<1>12. ASSUME NEW p \in Process, Netfilter(p) \/ Children(p) PROVE Typed'
  BY <1>12, SpendTyped DEF Netfilter, Children
<1>13. QED
  BY <1>2, <1>3, <1>4, <1>5, <1>6, <1>7, <1>8, <1>9, <1>10, <1>11, <1>12 DEF AutoRouteWatchdog

LEMMA TypedStep == Typed /\ EN!TypeOK /\ [Next]_vars => Typed'
<1>1. ASSUME Typed, UNCHANGED vars PROVE Typed'
  BY <1>1 DEF Typed, LocalsOK, LineKnown, vars, locals, disk
<1>2. QED
  BY <1>1, ConnectTyped, HandlerTyped, BackgroundTyped DEF Next, Run

-----------------------------------------------------------------------------
(***************************************************************************)
(* What the controller hands to setupRedirect is a configuration: the      *)
(* engine's servers, the mode it read, and either the number of sessions   *)
(* it read or the number of live children.                                 *)
(***************************************************************************)
LEMMA RouteArguments ==
  ASSUME Typed, EN!TypeOK, NEW p \in Process
  PROVE  /\ [mode |-> snap[p].mode, servers |-> conn.line, sessions |-> snap[p].sessions] \in Config
         /\ [mode |-> snap[p].mode, servers |-> want[p],
             sessions |-> EN!ActiveSessionCount] \in Config
<1>1. snap[p].mode \in Mode /\ snap[p].sessions \in 0..MaxSessions
  <2>1. snap[p] \in Settings
    BY DEF Typed, LocalsOK
  <2>2. QED
    BY <2>1, ControllerAssumption DEF Settings
<1>2. conn.line \in Line \cup {NoLine} /\ want[p] \in Line \cup {NoLine}
  BY DEF Typed, LocalsOK, EN!TypeOK, EN!Connection, EN!NoConnection
<1>3. EN!ActiveSessionCount \in 0..MaxSessions
  <2>1. {s \in cmd : EN!Signal0(s)} \subseteq 1..MaxSessions
    BY DEF EN!TypeOK, EN!Slot
  <2>2. IsFiniteSet(1..MaxSessions) /\ Cardinality(1..MaxSessions) = MaxSessions
    <3>1. 1 \in Int /\ MaxSessions \in Int /\ MaxSessions >= 1
      BY ControllerAssumption
    <3>2. QED
      BY <3>1, FS_Interval
  <2>3. /\ IsFiniteSet({s \in cmd : EN!Signal0(s)})
        /\ Cardinality({s \in cmd : EN!Signal0(s)}) <= MaxSessions
    BY <2>1, <2>2, FS_Subset
  <2>4. EN!ActiveSessionCount = Cardinality({s \in cmd : EN!Signal0(s)})
    BY DEF EN!ActiveSessionCount, EN!Cardinality, Cardinality
  <2>5. Cardinality({s \in cmd : EN!Signal0(s)}) \in Nat
    BY <2>3, FS_CardinalityType
  <2>6. QED
    BY <2>3, <2>4, <2>5, ControllerAssumption
<1>4. QED
  BY <1>1, <1>2, <1>3 DEF Config

(***************************************************************************)
(* Each step of the controller is a step of netfilter.go or leaves its     *)
(* state alone.                                                            *)
(***************************************************************************)
LEMMA RedirectStep == Typed /\ EN!TypeOK /\ [Next]_vars => [RD!Next]_(RD!vars)
<1> SUFFICES ASSUME Typed, EN!TypeOK, [Next]_vars, ~UNCHANGED RD!vars PROVE RD!Next
  OBVIOUS
<1> USE DEF netVars, RD!vars
<1>1. ASSUME NEW p \in Process, NEW c \in Config \cup {NoConfig}, RD!Call(p, c) PROVE RD!Next
  BY <1>1 DEF RD!Next
<1>2. ASSUME NEW p \in Process, RD!Return(p) PROVE RD!Next
  BY <1>2 DEF RD!Next, RD!Step
<1>3. CASE RD!Crash
  BY <1>3 DEF RD!Next
<1>4. ASSUME NEW p \in Process, Netfilter(p) PROVE RD!Next
  BY <1>4 DEF Netfilter, RD!Next, RD!Step
<1>5. ASSUME NEW p \in Process, Connect(p) PROVE RD!Next
  <2>1. \/ RD!Return(p) \/ RD!Call(p, NoConfig)
        \/ RD!Call(p, [mode |-> snap[p].mode, servers |-> conn.line, sessions |-> snap[p].sessions])
    BY <1>5 DEF Connect, AcquireConnect, NotLoggedIn, CheckRunning, AlreadyConnected, SwitchLine,
       ApiFails, ApiConnect, OldEngineStopped, OldRoutesGone, Started, NotStarted, Route, Routed,
       NotRouted, Undone
  <2>2. QED
    BY <1>1, <1>2, <2>1, RouteArguments
<1>6. ASSUME NEW p \in Process, Disconnect(p) PROVE RD!Next
  <2>1. RD!Return(p) \/ RD!Call(p, NoConfig) \/ RD!Crash
    BY <1>6 DEF Disconnect, EngineStopped, Disconnected, Exit, Die
  <2>2. QED
    BY <1>1, <1>2, <1>3, <2>1
<1>7. ASSUME NEW p \in Process, Handler(p) \/ Children(p) PROVE FALSE
  BY <1>7 DEF Handler, Children, RequestDisconnect, RequestSettings, SetupNetwork, RequestConnect,
     RequestSetup, SaveSettings
<1>8. CASE AutoRouteWatchdog
  <2>1. \/ RD!Return(Watchdog)
        \/ RD!Call(Watchdog, [mode |-> snap[Watchdog].mode, servers |-> want[Watchdog],
                              sessions |-> EN!ActiveSessionCount])
    BY <1>8 DEF AutoRouteWatchdog, WatchdogTick, WatchdogProbe, WatchdogRecheck, WatchdogServers,
       WatchdogRepair, WatchdogDone
  <2>2. Watchdog \in Process
    BY DEF Process
  <2>3. QED
    BY <1>1, <1>2, <2>1, <2>2, RouteArguments
<1>9. ~(AutoConnect \/ Supervise \/ Terminate \/ ChildDies \/ StrayExits \/ Restart)
  BY DEF AutoConnect, Supervise, Terminate, ChildDies, StrayExits, Restart
<1>10. CASE Crash
  BY <1>3, <1>10 DEF Crash, Die
<1>11. ~UNCHANGED vars
  BY DEF vars
<1>12. QED
  BY <1>4, <1>5, <1>6, <1>7, <1>8, <1>9, <1>10, <1>11 DEF Next, Run

(***************************************************************************)
(* Each step of the controller is a step of mihomo.go or leaves its state  *)
(* alone.                                                                  *)
(***************************************************************************)
LEMMA EngineStep == Typed /\ [Next]_vars => [EN!Next]_(EN!vars)
<1> SUFFICES ASSUME Typed, [Next]_vars, ~UNCHANGED EN!vars PROVE EN!Next
  OBVIOUS
<1> USE DEF engVars, EN!vars
<1>1. ASSUME NEW p \in Process, EN!CallStop(p) \/ EN!Return(p) PROVE EN!Next
  BY <1>1 DEF EN!Next
<1>2. ASSUME NEW p \in Process, NEW c \in EN!Connection, EN!CallStart(p, c) PROVE EN!Next
  BY <1>2 DEF EN!Next
<1>3. CASE EN!Crash
  BY <1>3 DEF EN!Next
<1>4. ASSUME NEW p \in Process, Children(p) PROVE EN!Next
  BY <1>4 DEF Children, EN!Next
<1>5. ASSUME NEW p \in Process, Connect(p) PROVE EN!Next
  <2>1. snap[p].sessions \in EN!Slot
    <3>1. snap[p] \in Settings
      BY DEF Typed, LocalsOK
    <3>2. QED
      BY <3>1 DEF Settings, EN!Slot
  <2>2. ASSUME NEW line \in Line, NEW answered \in Line, ApiConnect(p, line, answered) PROVE EN!Next
    <3>1. CASE switching[p]
      BY <1>1, <2>2, <3>1 DEF ApiConnect
    <3>2. CASE ~switching[p]
      <4>1. EN!CallStart(p, Connection(p)) /\ got'[p] = answered
        BY <2>2, <3>2 DEF ApiConnect, Typed, LocalsOK
      <4>2. Connection(p) \in EN!Connection
        BY <2>1, <4>1 DEF Connection, EN!Connection
      <4>3. QED
        BY <1>2, <4>1, <4>2
    <3>3. QED
      BY <3>1, <3>2
  <2>3. CASE OldRoutesGone(p)
    <3>1. EN!CallStart(p, Connection(p)) /\ got'[p] = got[p] /\ got[p] \in Line
      BY <2>3 DEF OldRoutesGone, Typed, LineKnown
    <3>2. Connection(p) \in EN!Connection
      BY <2>1, <3>1 DEF Connection, EN!Connection
    <3>3. QED
      BY <1>2, <3>1, <3>2
  <2>4. CASE \/ OldEngineStopped(p) \/ Started(p) \/ NotStarted(p) \/ NotRouted(p) \/ Undone(p)
    BY <1>1, <2>4 DEF OldEngineStopped, Started, NotStarted, NotRouted, Undone
  <2>5. ~(\/ AcquireConnect(p) \/ NotLoggedIn(p) \/ CheckRunning(p) \/ AlreadyConnected(p)
          \/ SwitchLine(p) \/ ApiFails(p) \/ Route(p) \/ Routed(p))
    BY DEF AcquireConnect, NotLoggedIn, CheckRunning, AlreadyConnected, SwitchLine, ApiFails,
       Route, Routed
  <2>6. QED
    BY <1>5, <2>2, <2>3, <2>4, <2>5 DEF Connect
<1>6. ASSUME NEW p \in Process, Disconnect(p) PROVE EN!Next
  <2>1. EN!Return(p) \/ EN!Crash
    BY <1>6 DEF Disconnect, EngineStopped, Disconnected, Exit, Die
  <2>2. QED
    BY <1>1, <1>3, <2>1
<1>7. ASSUME NEW p \in Process, Handler(p) PROVE EN!Next
  <2>1. EN!CallStop(p)
    BY <1>7 DEF Handler, RequestDisconnect, RequestSettings, SetupNetwork, RequestConnect,
       RequestSetup, SaveSettings, EnterDisconnect
  <2>2. QED
    BY <1>1, <2>1
<1>8. ASSUME NEW p \in Process, Netfilter(p) PROVE FALSE
  BY <1>8 DEF Netfilter
<1>9. ~(AutoConnect \/ AutoRouteWatchdog \/ Supervise)
  BY DEF AutoConnect, Supervise, AutoRouteWatchdog, WatchdogTick, WatchdogProbe, WatchdogRecheck,
     WatchdogServers, WatchdogRepair, WatchdogDone
<1>10. CASE Terminate
  <2>1. EN!CallStop(Signal) /\ Signal \in Process
    BY <1>10 DEF Terminate, EnterDisconnect, Process
  <2>2. QED
    BY <1>1, <2>1
<1>11. CASE ChildDies \/ StrayExits \/ Restart
  BY <1>11 DEF ChildDies, StrayExits, Restart, EN!Next
<1>12. CASE Crash
  BY <1>3, <1>12 DEF Crash, Die
<1>13. ~UNCHANGED vars
  BY DEF vars
<1>14. QED
  BY <1>4, <1>5, <1>6, <1>7, <1>8, <1>9, <1>10, <1>11, <1>12, <1>13 DEF Next, Run

-----------------------------------------------------------------------------
\* connectMu is held by the goroutine that is inside connect.
ConnectMutexInv == \A p \in Process : pc[p] \in Connecting <=> connectMu = p

\* Who is inside the engine's start or stop is where connect or disconnect calls it.
EngineCallers ==
  \A p \in Process :
    /\ epc[p] \in {"start", "spawn", "kill"} => pc[p] = "starting"
    /\ epc[p] # "out" => pc[p] \in {"starting", "stoppingOld", "undoing", "stopping"}

(***************************************************************************)
(* From the decision to start until the start itself there is no child:    *)
(* the engine was found not running, which means no child at all, or the   *)
(* connect has just stopped it.                                            *)
(***************************************************************************)
NoChildToMeet ==
  \A p \in Process :
    (\/ pc[p] = "api" /\ ~switching[p]
     \/ pc[p] = "stoppingOld" /\ epc[p] = "ok"
     \/ pc[p] = "tearingOld"
     \/ epc[p] = "start") => cmd = {}

Serial == ConnectMutexInv /\ EngineCallers /\ NoChildToMeet

\* On a fresh start, and after the daemon's death, nobody is inside anything.
LEMMA SerialFresh ==
  /\ Init => Serial
  /\ Die => Serial'
<1> USE DEF Serial, ConnectMutexInv, EngineCallers, NoChildToMeet, Connecting, Idle, FreshPc
<1>1. ASSUME Init PROVE Serial
  <2>1. \A p \in Process : pc[p] \in {"boot", Idle} /\ epc[p] = "out"
    BY <1>1 DEF Init, EN!Init
  <2>2. connectMu \notin Process
    BY <1>1, ControllerAssumption DEF Init
  <2>3. QED
    BY <2>1, <2>2
<1>2. ASSUME Die PROVE Serial'
  <2>1. \A p \in Process : pc'[p] \in {"boot", Idle} /\ epc'[p] = "out"
    BY <1>2 DEF Die, EN!Crash
  <2>2. connectMu' \notin Process
    BY <1>2, ControllerAssumption DEF Die
  <2>3. QED
    BY <2>1, <2>2
<1>3. QED
  BY <1>1, <1>2

(***************************************************************************)
(* With e.mu free, an engine that does not run has no child: a dead child  *)
(* is still a zombie and answers kill(pid, 0).                             *)
(***************************************************************************)
LEMMA NotRunningMeansNoChild ==
  ENP!IInv /\ EngineReadable /\ ~EN!IsRunning => cmd = {}
<1> SUFFICES ASSUME ENP!IInv, EngineReadable, ~EN!IsRunning PROVE cmd = {}
  OBVIOUS
<1>1. cmd = 1..conn.sessions /\ conn.sessions \in 0..MaxSessions
  <2>1. cmd = 1..conn.sessions
    BY DEF ENP!IInv, ENP!TrackedSessions, EngineReadable
  <2>2. conn.sessions \in 0..MaxSessions
    BY ControllerAssumption DEF ENP!IInv, ENP!TypeOK, ENP!Connection, ENP!NoConnection, ENP!Slot
  <2>3. QED
    BY <2>1, <2>2
<1>2. \A s \in cmd : EN!Signal0(s)
  <2>1. TAKE s \in cmd
  <2>2. s \in ENP!Slot
    BY DEF ENP!IInv, ENP!TypeOK
  <2>3. child[s] # "none" /\ child[s] \in {"none", "running", "defunct"}
    BY <2>2 DEF ENP!IInv, ENP!TypeOK, ENP!NoForgottenChild
  <2>4. QED
    BY <2>3 DEF EN!Signal0
<1>3. 1 \notin cmd
  BY <1>2 DEF EN!IsRunning
<1>4. QED
  BY <1>1, <1>3, ControllerAssumption

\* What a call of the engine, or its return, does to where the caller is.
LEMMA EngineCalls ==
  ASSUME EN!TypeOK, NEW p \in Process
  PROVE  /\ EN!CallStop(p) => epc[p] = "out" /\ epc' = [epc EXCEPT ![p] = "stop"] /\ cmd' = cmd
         /\ \A c : EN!CallStart(p, c) =>
              epc[p] = "out" /\ epc' = [epc EXCEPT ![p] = "start"] /\ cmd' = cmd
         /\ EN!Return(p) => epc' = [epc EXCEPT ![p] = "out"] /\ cmd' = cmd
<1>1. QED
  BY DEF EN!CallStop, EN!CallStart, EN!Return, EN!Goto

(***************************************************************************)
(* Steps inside the engine: only the start of the connect that holds       *)
(* connectMu makes a child, and stop says "ok" when none is left.          *)
(***************************************************************************)
LEMMA ChildrenSerial ==
  ASSUME Serial, ENP!IInv, EN!TypeOK, NEW p \in Process, EN!Enter(p) \/ EN!Succeed(p) \/ EN!Fail(p),
         UNCHANGED locals
  PROVE  Serial'
<1> USE DEF Serial, ConnectMutexInv, EngineCallers, NoChildToMeet, Connecting, locals,
            EN!TypeOK, EN!Label, EN!Goto, EN!Finish
<1>1. CASE EN!Start(p) \/ EN!Stop(p)
  BY <1>1 DEF EN!Start, EN!Stop
<1>2. CASE EN!StartRefused(p) \/ EN!StartFails(p)
  BY <1>2 DEF EN!StartRefused, EN!StartFails
<1>3. CASE EN!Spawn(p)
  <2>1. epc[p] = "spawn" /\ epc' = epc /\ connectMu = p
    BY <1>3 DEF EN!Spawn
  <2>2. QED
    BY <2>1
<1>4. CASE EN!SpawnFails(p)
  <2>1. epc[p] = "spawn" /\ cmd' = cmd /\ (epc' = [epc EXCEPT ![p] = "err"] \/ epc' = [epc EXCEPT ![p] = "kill"])
    BY <1>4 DEF EN!SpawnFails
  <2>2. QED
    BY <2>1
<1>5. CASE EN!Kill(p)
  <2>1. /\ epc[p] = "kill"
        /\ cmd = {} => cmd' = {}
        /\ epc' = epc \/ epc' = [epc EXCEPT ![p] = "err"]
    BY <1>5 DEF EN!Kill, EN!Reaped
  <2>2. QED
    BY <2>1
<1>6. CASE EN!Publish(p)
  <2>1. epc[p] = "spawn" /\ cmd' = cmd /\ epc' = [epc EXCEPT ![p] = "ok"]
    BY <1>6 DEF EN!Publish
  <2>2. QED
    BY <2>1
<1>7. CASE EN!Reap(p)
  <2>1. (cmd = {} => cmd' = {}) /\ epc' = epc
    BY <1>7 DEF EN!Reap, EN!Reaped
  <2>2. QED
    BY <2>1
<1>8. CASE EN!Stopped(p)
  <2>1. epc[p] = "reap" /\ cmd = {} /\ cmd' = cmd /\ epc' = [epc EXCEPT ![p] = "ok"]
    BY <1>8 DEF EN!Stopped
  <2>2. QED
    BY <2>1
<1>9. QED
  BY <1>1, <1>2, <1>3, <1>4, <1>5, <1>6, <1>7, <1>8 DEF EN!Enter, EN!Succeed, EN!Fail

(***************************************************************************)
(* A goroutine that is outside connect, before the step and after it, and  *)
(* outside the engine, disturbs nobody's connect.                          *)
(***************************************************************************)
LEMMA OutsideSerial ==
  ASSUME Serial, Typed, NEW p \in Process, NEW label \in Label \ (Connecting \cup {"stopping"}),
         pc[p] \notin Connecting \cup {"stopping"}, pc' = [pc EXCEPT ![p] = label],
         \A q \in Process \ {p} : switching'[q] = switching[q],
         UNCHANGED <<connectMu, cmd, epc>>
  PROVE  Serial'
<1>1. QED
  BY DEF Serial, ConnectMutexInv, EngineCallers, NoChildToMeet, Typed, LocalsOK, Connecting

\* Entering disconnect from outside connect.
LEMMA EnterDisconnectSerial ==
  ASSUME Serial, Typed, EN!TypeOK, NEW p \in Process, NEW then, pc[p] \notin Connecting,
         EnterDisconnect(p, then)
  PROVE  Serial'
<1>1. epc' = [epc EXCEPT ![p] = "stop"] /\ cmd' = cmd /\ epc[p] = "out"
  BY EngineCalls DEF EnterDisconnect
<1>2. pc' = [pc EXCEPT ![p] = "stopping"] /\ UNCHANGED <<connectMu, switching>>
  BY DEF EnterDisconnect, Goto
<1>3. QED
  BY <1>1, <1>2 DEF Serial, ConnectMutexInv, EngineCallers, NoChildToMeet, Typed, LocalsOK,
     EN!TypeOK, Connecting

\* The end of connect, on each of its paths.
LEMMA LeaveSerial ==
  ASSUME Serial, Typed, EN!TypeOK, NEW p \in Process, pc[p] \in Connecting, Leave(p),
         \/ UNCHANGED <<cmd, epc>> /\ epc[p] = "out"
         \/ EN!Return(p)
  PROVE  Serial'
<1>1. /\ pc' = [pc EXCEPT ![p] = Idle] /\ switching' = [switching EXCEPT ![p] = FALSE]
      /\ connectMu' = NoProcess /\ connectMu = p
  BY DEF Leave, Forget, Goto, Serial, ConnectMutexInv
<1>2. cmd' = cmd /\ epc'[p] = "out" /\ \A q \in Process \ {p} : epc'[q] = epc[q]
  BY EngineCalls DEF EN!TypeOK
<1>3. QED
  BY <1>1, <1>2, ControllerAssumption
     DEF Serial, ConnectMutexInv, EngineCallers, NoChildToMeet, Typed, LocalsOK, Connecting, Idle

\* A step of connect that neither enters nor leaves it.
LEMMA InsideSerial ==
  ASSUME Serial, Typed, EN!TypeOK, NEW p \in Process, NEW label \in Connecting,
         pc[p] \in Connecting, pc' = [pc EXCEPT ![p] = label], connectMu' = connectMu, cmd' = cmd,
         epc' \in [Process -> EN!Label], \A q \in Process \ {p} : epc'[q] = epc[q],
         \A q \in Process \ {p} : switching'[q] = switching[q],
         epc'[p] \in {"start", "spawn", "kill"} => label = "starting",
         epc'[p] # "out" => label \in {"starting", "stoppingOld", "undoing"},
         (\/ label = "api" /\ ~switching'[p]
          \/ label = "stoppingOld" /\ epc'[p] = "ok"
          \/ label = "tearingOld"
          \/ epc'[p] = "start") => cmd = {}
  PROVE  Serial'
<1>1. QED
  BY DEF Serial, ConnectMutexInv, EngineCallers, NoChildToMeet, Typed, LocalsOK, EN!TypeOK,
     Connecting

\* Every step of connect.
LEMMA ConnectSerial ==
  ASSUME Serial, Typed, ENP!IInv, EN!TypeOK, NEW p \in Process, Connect(p)
  PROVE  Serial'
<1>1. pc[p] \notin {"starting", "stoppingOld", "undoing", "stopping"} => epc[p] = "out"
  BY DEF Serial, EngineCallers
<1>2. CASE AcquireConnect(p)
  <2>1. /\ pc[p] = "lock" /\ connectMu = NoProcess /\ connectMu' = p
        /\ pc' = [pc EXCEPT ![p] = "decide"] /\ UNCHANGED <<switching, cmd, epc>>
    BY <1>2 DEF AcquireConnect, Goto, engVars
  <2>2. QED
    BY <2>1, <1>1, ControllerAssumption DEF Serial, ConnectMutexInv, EngineCallers, NoChildToMeet, Typed,
       LocalsOK, Connecting
<1>3. CASE NotLoggedIn(p) \/ AlreadyConnected(p) \/ ApiFails(p) \/ Routed(p)
  <2>1. pc[p] \in {"decide", "compare", "api", "routing"} /\ Leave(p) /\ UNCHANGED <<cmd, epc>>
    BY <1>3 DEF NotLoggedIn, AlreadyConnected, ApiFails, Routed, engVars
  <2>2. QED
    BY <2>1, <1>1, LeaveSerial DEF Connecting
<1>4. CASE NotStarted(p) \/ Undone(p)
  BY <1>4, LeaveSerial DEF NotStarted, Undone, Connecting
<1>5. CASE CheckRunning(p)
  <2>1. /\ pc[p] = "decide" /\ UNCHANGED <<connectMu, switching, cmd, epc>>
        /\ \/ pc' = [pc EXCEPT ![p] = "compare"]
           \/ pc' = [pc EXCEPT ![p] = "api"] /\ cmd = {}
    BY <1>5, NotRunningMeansNoChild DEF CheckRunning, Goto, engVars
  <2>2. QED
    BY <2>1, <1>1, InsideSerial DEF Connecting, EN!TypeOK
<1>6. CASE SwitchLine(p)
  <2>1. /\ pc[p] = "compare" /\ pc' = [pc EXCEPT ![p] = "api"]
        /\ switching' = [switching EXCEPT ![p] = TRUE] /\ UNCHANGED <<connectMu, cmd, epc>>
    BY <1>6 DEF SwitchLine, Goto, engVars
  <2>2. switching'[p] /\ \A q \in Process \ {p} : switching'[q] = switching[q]
    BY <2>1 DEF Typed, LocalsOK
  <2>3. QED
    BY <2>1, <2>2, <1>1, InsideSerial DEF Connecting, EN!TypeOK
<1>7. ASSUME NEW line \in Line, NEW answered \in Line, ApiConnect(p, line, answered) PROVE Serial'
  <2>1. pc[p] = "api" /\ UNCHANGED <<connectMu, switching>>
    BY <1>7 DEF ApiConnect
  <2>2. CASE switching[p]
    <3>1. pc' = [pc EXCEPT ![p] = "stoppingOld"] /\ EN!CallStop(p)
      BY <1>7, <2>2 DEF ApiConnect, Goto
    <3>2. epc' = [epc EXCEPT ![p] = "stop"] /\ cmd' = cmd
      BY <3>1, EngineCalls
    <3>3. epc' \in [Process -> EN!Label] /\ epc'[p] = "stop" /\ \A q \in Process \ {p} : epc'[q] = epc[q]
      BY <3>2 DEF EN!TypeOK, EN!Label
    <3>4. QED
      BY <2>1, <3>1, <3>2, <3>3, InsideSerial DEF Connecting
  <2>3. CASE ~switching[p]
    <3>1. pc' = [pc EXCEPT ![p] = "starting"] /\ EN!CallStart(p, Connection(p))
      BY <1>7, <2>3 DEF ApiConnect, Goto
    <3>2. epc' = [epc EXCEPT ![p] = "start"] /\ cmd' = cmd
      BY <3>1, EngineCalls
    <3>3. epc' \in [Process -> EN!Label] /\ epc'[p] = "start" /\ \A q \in Process \ {p} : epc'[q] = epc[q]
      BY <3>2 DEF EN!TypeOK, EN!Label
    <3>4. cmd = {}
      BY <2>1, <2>3 DEF Serial, NoChildToMeet
    <3>5. QED
      BY <2>1, <3>1, <3>2, <3>3, <3>4, InsideSerial DEF Connecting
  <2>4. QED
    BY <2>2, <2>3
<1>8. CASE OldEngineStopped(p)
  <2>1. /\ pc[p] = "stoppingOld" /\ epc[p] = "ok" /\ pc' = [pc EXCEPT ![p] = "tearingOld"]
        /\ EN!Return(p) /\ UNCHANGED <<connectMu, switching>>
    BY <1>8 DEF OldEngineStopped, Goto
  <2>2. epc' = [epc EXCEPT ![p] = "out"] /\ cmd' = cmd
    BY <2>1, EngineCalls
  <2>3. epc' \in [Process -> EN!Label] /\ epc'[p] = "out" /\ \A q \in Process \ {p} : epc'[q] = epc[q]
    BY <2>2 DEF EN!TypeOK, EN!Label
  <2>4. cmd = {}
    BY <2>1 DEF Serial, NoChildToMeet
  <2>5. QED
    BY <2>1, <2>2, <2>3, <2>4, InsideSerial DEF Connecting
<1>9. CASE OldRoutesGone(p)
  <2>1. /\ pc[p] = "tearingOld" /\ pc' = [pc EXCEPT ![p] = "starting"]
        /\ EN!CallStart(p, Connection(p)) /\ UNCHANGED <<connectMu, switching>>
    BY <1>9 DEF OldRoutesGone, Goto
  <2>2. epc' = [epc EXCEPT ![p] = "start"] /\ cmd' = cmd
    BY <2>1, EngineCalls
  <2>3. epc' \in [Process -> EN!Label] /\ epc'[p] = "start" /\ \A q \in Process \ {p} : epc'[q] = epc[q]
    BY <2>2 DEF EN!TypeOK, EN!Label
  <2>4. cmd = {}
    BY <2>1 DEF Serial, NoChildToMeet
  <2>5. QED
    BY <2>1, <2>2, <2>3, <2>4, InsideSerial DEF Connecting
<1>10. CASE Started(p)
  <2>1. /\ pc[p] = "starting" /\ pc' = [pc EXCEPT ![p] = "route"]
        /\ EN!Return(p) /\ UNCHANGED <<connectMu, switching>>
    BY <1>10 DEF Started, Goto
  <2>2. epc' = [epc EXCEPT ![p] = "out"] /\ cmd' = cmd
    BY <2>1, EngineCalls
  <2>3. epc' \in [Process -> EN!Label] /\ epc'[p] = "out" /\ \A q \in Process \ {p} : epc'[q] = epc[q]
    BY <2>2 DEF EN!TypeOK, EN!Label
  <2>4. QED
    BY <2>1, <2>2, <2>3, InsideSerial DEF Connecting
<1>11. CASE Route(p)
  <2>1. /\ pc[p] = "route" /\ pc' = [pc EXCEPT ![p] = "routing"]
        /\ UNCHANGED <<connectMu, switching, cmd, epc>>
    BY <1>11 DEF Route, Goto, engVars
  <2>2. QED
    BY <2>1, <1>1, InsideSerial DEF Connecting, EN!TypeOK
<1>12. CASE NotRouted(p)
  <2>1. /\ pc[p] = "routing" /\ pc' = [pc EXCEPT ![p] = "undoing"]
        /\ EN!CallStop(p) /\ UNCHANGED <<connectMu, switching>>
    BY <1>12 DEF NotRouted, Goto
  <2>2. epc' = [epc EXCEPT ![p] = "stop"] /\ cmd' = cmd
    BY <2>1, EngineCalls
  <2>3. epc' \in [Process -> EN!Label] /\ epc'[p] = "stop" /\ \A q \in Process \ {p} : epc'[q] = epc[q]
    BY <2>2 DEF EN!TypeOK, EN!Label
  <2>4. QED
    BY <2>1, <2>2, <2>3, InsideSerial DEF Connecting
<1>13. QED
  BY <1>2, <1>3, <1>4, <1>5, <1>6, <1>7, <1>8, <1>9, <1>10, <1>11, <1>12 DEF Connect

\* A handler or a tick that is over, outside connect and disconnect.
LEMMA ForgetSerial ==
  ASSUME Serial, Typed, NEW p \in Process, pc[p] \notin Connecting \cup {"stopping"}, Forget(p),
         UNCHANGED <<connectMu, cmd, epc>>
  PROVE  Serial'
<1>1. pc' = [pc EXCEPT ![p] = Idle] /\ switching' = [switching EXCEPT ![p] = FALSE]
  BY DEF Forget, Goto
<1>2. \A q \in Process \ {p} : switching'[q] = switching[q]
  BY <1>1 DEF Typed, LocalsOK
<1>3. Idle \in Label \ (Connecting \cup {"stopping"})
  BY DEF Idle, Label, Connecting
<1>4. QED
  BY <1>1, <1>2, <1>3, OutsideSerial

\* Entering connect.
LEMMA EnterConnectSerial ==
  ASSUME Serial, Typed, NEW p \in Process, NEW line, pc[p] \notin Connecting \cup {"stopping"},
         EnterConnect(p, line), UNCHANGED <<cmd, epc>>
  PROVE  Serial'
<1>1. pc' = [pc EXCEPT ![p] = "lock"] /\ UNCHANGED <<connectMu, switching>>
  BY DEF EnterConnect, Goto
<1>2. "lock" \in Label \ (Connecting \cup {"stopping"})
  BY DEF Label, Connecting
<1>3. QED
  BY <1>1, <1>2, OutsideSerial

\* Every step of disconnect and of the handlers.
LEMMA HandlerSerial ==
  ASSUME Serial, Typed, EN!TypeOK, NEW p \in Process, Disconnect(p) \/ Handler(p)
  PROVE  Serial'
<1> USE DEF engVars
<1>1. Idle \notin Connecting \cup {"stopping"} /\ {"save", "setup", "tearing"} \cap (Connecting \cup {"stopping"}) = {}
  BY DEF Idle, Connecting
<1>2. CASE EngineStopped(p)
  <2>1. /\ pc[p] = "stopping" /\ pc' = [pc EXCEPT ![p] = "tearing"]
        /\ EN!Return(p) /\ UNCHANGED <<connectMu, switching>>
    BY <1>2 DEF EngineStopped, Goto
  <2>2. epc' = [epc EXCEPT ![p] = "out"] /\ cmd' = cmd
    BY <2>1, EngineCalls
  <2>3. QED
    BY <2>1, <2>2 DEF Serial, ConnectMutexInv, EngineCallers, NoChildToMeet, Typed, LocalsOK,
       EN!TypeOK, Connecting
<1>3. CASE Disconnected(p)
  <2>1. /\ pc[p] = "tearing" /\ pc' = [pc EXCEPT ![p] = after[p]] /\ after[p] \in {Idle, "lock"}
        /\ UNCHANGED <<connectMu, switching, cmd, epc>>
    BY <1>3 DEF Disconnected, Goto, Typed, LocalsOK
  <2>2. QED
    BY <2>1, <1>1, OutsideSerial DEF Label, Connecting, Idle
<1>4. CASE Exit(p)
  BY <1>4, SerialFresh DEF Exit
<1>5. ASSUME NEW line \in Line \cup {NoLine}, RequestConnect(p, line) PROVE Serial'
  BY <1>1, <1>5, EnterConnectSerial DEF RequestConnect, Request
<1>6. CASE RequestDisconnect(p)
  BY <1>1, <1>6, EnterDisconnectSerial DEF RequestDisconnect, Request
<1>7. CASE RequestSettings(p)
  <2>1. pc[p] = Idle /\ pc' = [pc EXCEPT ![p] = "save"] /\ UNCHANGED <<connectMu, switching, cmd, epc>>
    BY <1>7 DEF RequestSettings, Request, Goto
  <2>2. QED
    BY <2>1, <1>1, OutsideSerial DEF Label
<1>8. ASSUME NEW new \in PostedSettings, SaveSettings(p, new) PROVE Serial'
  <2>1. pc[p] = "save" /\ (\/ Forget(p) /\ UNCHANGED <<connectMu, cmd, epc>>
                          \/ EnterDisconnect(p, after[p]))
    BY <1>8 DEF SaveSettings
  <2>2. QED
    BY <2>1, <1>1, ForgetSerial, EnterDisconnectSerial
<1>9. ASSUME NEW mode \in Mode, RequestSetup(p, mode) PROVE Serial'
  <2>1. pc[p] = Idle /\ pc' = [pc EXCEPT ![p] = "setup"] /\ UNCHANGED <<connectMu, switching, cmd, epc>>
    BY <1>9 DEF RequestSetup, Request, Goto
  <2>2. QED
    BY <2>1, <1>1, OutsideSerial DEF Label
<1>10. CASE SetupNetwork(p)
  <2>1. pc[p] = "setup" /\ (\/ EnterConnect(p, NoLine) /\ UNCHANGED <<cmd, epc>>
                           \/ EnterDisconnect(p, "lock"))
    BY <1>10 DEF SetupNetwork
  <2>2. QED
    BY <2>1, <1>1, EnterConnectSerial, EnterDisconnectSerial
<1>11. QED
  BY <1>2, <1>3, <1>4, <1>5, <1>6, <1>7, <1>8, <1>9, <1>10 DEF Disconnect, Handler

\* The goroutines of runDaemon and the environment.
LEMMA BackgroundSerial ==
  ASSUME Serial, Typed, EN!TypeOK,
         \/ AutoConnect \/ AutoRouteWatchdog \/ Supervise \/ Terminate
         \/ ChildDies \/ StrayExits \/ Crash \/ Restart \/ \E p \in Process : Netfilter(p)
  PROVE  Serial'
<1> USE DEF engVars
<1>1. {Boot, Watchdog, Supervisor, Signal} \subseteq Process
  BY DEF Process
<1>2. {Idle, "boot", "probe", "recheck", "servers", "count", "repairing"} \subseteq Label \ (Connecting \cup {"stopping"})
  BY DEF Idle, Connecting, Label
<1>3. CASE AutoConnect
  BY <1>1, <1>2, <1>3, EnterConnectSerial, ForgetSerial DEF AutoConnect
<1>4. CASE AutoRouteWatchdog
  <2>1. /\ pc[Watchdog] \in {Idle, "probe", "recheck", "servers", "count", "repairing"}
        /\ UNCHANGED <<connectMu, cmd, epc>>
        /\ \/ EnterConnect(Watchdog, NoLine)
           \/ Forget(Watchdog)
           \/ /\ \E label \in {"probe", "recheck", "servers", "count", "repairing"} : Goto(Watchdog, label)
              /\ UNCHANGED switching
    <3>1. CASE WatchdogTick
      BY <3>1 DEF WatchdogTick, EnterConnect
    <3>2. CASE WatchdogProbe \/ WatchdogRecheck \/ WatchdogServers
      BY <3>2 DEF WatchdogProbe, WatchdogRecheck, WatchdogServers
    <3>3. CASE WatchdogRepair \/ WatchdogDone
      BY <3>3 DEF WatchdogRepair, WatchdogDone
    <3>4. QED
      BY <1>4, <3>1, <3>2, <3>3 DEF AutoRouteWatchdog
  <2>2. QED
    BY <1>1, <1>2, <2>1, EnterConnectSerial, ForgetSerial, OutsideSerial DEF Goto
<1>5. CASE Supervise
  <2>1. CASE UNCHANGED locals
    BY <1>5, <2>1 DEF Supervise, locals, Serial, ConnectMutexInv, EngineCallers, NoChildToMeet
  <2>2. QED
    BY <1>1, <1>2, <1>5, <2>1, EnterConnectSerial DEF Supervise
<1>6. CASE Terminate
  BY <1>1, <1>2, <1>6, EnterDisconnectSerial DEF Terminate
<1>7. CASE ChildDies \/ StrayExits \/ Restart \/ \E p \in Process : Netfilter(p)
  <2>1. UNCHANGED <<connectMu, pc, switching, cmd, epc>>
    BY <1>7 DEF ChildDies, StrayExits, Restart, Netfilter, locals, EN!ChildDies, EN!StrayExits, EN!Restart
  <2>2. QED
    BY <2>1 DEF Serial, ConnectMutexInv, EngineCallers, NoChildToMeet
<1>8. CASE Crash
  BY <1>8, SerialFresh DEF Crash
<1>9. QED
  BY <1>3, <1>4, <1>5, <1>6, <1>7, <1>8

LEMMA SerialStep == Serial /\ Typed /\ ENP!IInv /\ [Next]_vars => Serial'
<1> SUFFICES ASSUME Serial, Typed, ENP!IInv, [Next]_vars PROVE Serial'
  OBVIOUS
<1>1. EN!TypeOK
  BY SameEngine DEF ENP!IInv
<1>2. CASE UNCHANGED vars
  BY <1>2 DEF vars, locals, engVars, Serial, ConnectMutexInv, EngineCallers, NoChildToMeet
<1>3. ASSUME NEW p \in Process, Children(p) PROVE Serial'
  BY <1>1, <1>3, ChildrenSerial DEF Children
<1>4. QED
  BY <1>1, <1>2, <1>3, ConnectSerial, HandlerSerial, BackgroundSerial DEF Next, Run

-----------------------------------------------------------------------------
(* the theorems *)

\* The engine's part of the invariant, and what the controller adds to it.
IInv == Typed /\ ENP!IInv /\ Serial

\* The conjunction is an inductive invariant.
THEOREM Inductive == Spec => []IInv
<1>1. Init => IInv
  <2>1. Init => ENP!IInv
    BY SameEngine, EngineAssumed, ENP!InductiveInit DEF ENP!InductiveInit, Init
  <2>2. QED
    BY <2>1, TypedInit, SerialFresh DEF IInv
<1>2. IInv /\ [Next]_vars => IInv'
  <2>1. Typed /\ ENP!IInv /\ [Next]_vars => ENP!IInv'
    BY EngineStep, SameEngine, EngineAssumed, ENP!InductiveStep DEF ENP!InductiveStep
  <2>2. ENP!IInv => EN!TypeOK
    BY SameEngine DEF ENP!IInv
  <2>3. QED
    BY <2>1, <2>2, TypedStep, SerialStep DEF IInv
<1>3. QED
  BY <1>1, <1>2, PTL DEF Spec

(***************************************************************************)
(* The goroutines of main.go and the handlers of server.go drive the       *)
(* firewall and the engine only in ways the two modules allow: every       *)
(* behaviour of the controller is one of netfilter.go and one of           *)
(* mihomo.go, so what is proved of those holds here.                       *)
(***************************************************************************)
THEOREM ImplementsParts == Spec => RD!Spec /\ EN!Spec
<1>1. Init => RD!Init /\ EN!Init
  BY DEF Init
<1>2. IInv /\ [Next]_vars => [RD!Next]_(RD!vars) /\ [EN!Next]_(EN!vars)
  <2>1. IInv => Typed /\ EN!TypeOK
    BY SameEngine DEF IInv, ENP!IInv
  <2>2. QED
    BY <2>1, RedirectStep, EngineStep
<1>3. QED
  BY <1>1, <1>2, Inductive, PTL DEF Spec, RD!Spec, EN!Spec

\* The invariant of the firewall's proofs holds of the controller's behaviours.
LEMMA RedirectInductive == Spec => []RDP!IInv
<1>1. RD!Spec => RDP!Spec
  BY SameRedirect, PTL DEF RD!Spec, RDP!Spec
<1>2. RDP!Spec => []RDP!IInv
  BY RDP!Inductive, RedirectAssumed DEF RDP!Inductive
<1>3. QED
  BY <1>1, <1>2, ImplementsParts, PTL

(***************************************************************************)
(* Every variable keeps its type: those of the controller, and under it    *)
(* those of the engine and of the firewall.                                *)
(***************************************************************************)
THEOREM TypeCorrect == Spec => []TypeOK
<1>1. RDP!IInv => RD!TypeOK
  BY DEF RDP!IInv, RDP!TypeOK, RD!TypeOK, RDP!Label, RD!Label
<1>2. IInv => EN!TypeOK
  BY SameEngine DEF IInv, ENP!IInv
<1>3. IInv /\ RDP!IInv => TypeOK
  BY <1>1, <1>2 DEF IInv, Typed, LocalsOK, TypeOK
<1>4. QED
  BY <1>3, Inductive, RedirectInductive, PTL

(***************************************************************************)
(* No connect meets an engine that runs when its own start begins, nor     *)
(* another start, whatever clients, ticks, signals, faults, deaths and     *)
(* crashes do at the same time.                                            *)
(***************************************************************************)
THEOREM StartsNotRefused == Spec => []StartNeverRefused
<1>1. IInv => StartNeverRefused
  <2> SUFFICES ASSUME IInv, NEW p \in Process, epc[p] \in {"start", "spawn"}
               PROVE  /\ epc[p] = "start" => cmd = {}
                      /\ \A q \in Process \ {p} : epc[q] \notin {"start", "spawn"}
    BY DEF StartNeverRefused
  <2>1. epc[p] = "start" => cmd = {}
    BY DEF IInv, Serial, NoChildToMeet
  <2>2. \A q \in Process : epc[q] \in {"start", "spawn"} => connectMu = q
    BY DEF IInv, Serial, ConnectMutexInv, EngineCallers, Connecting
  <2>3. QED
    BY <2>1, <2>2
<1>2. QED
  BY <1>1, Inductive, PTL

(***************************************************************************)
(* Nobody is inside connect but the holder of connectMu, and the holder    *)
(* is: no path out of connect keeps the mutex, none loses it.              *)
(***************************************************************************)
THEOREM ConnectExcludes == Spec => []ConnectMutexInv
<1>1. IInv => ConnectMutexInv
  BY DEF IInv, Serial
<1>2. QED
  BY <1>1, Inductive, PTL

\* The mapping to the abstract routing is the same in both instances.
LEMMA SameRouting == RDP!ImplementsRouting => RD!ImplementsRouting
<1>1. RDP!Active = RD!Active
  BY DEF RDP!Active, RD!Active
<1>2. RDP!Active' = RD!Active'
  BY DEF RDP!Active, RD!Active
<1>3. RDP!Abstract!Init => RD!Abstract!Init
  BY <1>1 DEF RDP!Abstract!Init, RD!Abstract!Init
<1>4. [RDP!Abstract!Next]_(RDP!Active) => [RD!Abstract!Next]_(RD!Active)
  BY <1>1, <1>2 DEF RDP!Abstract!Next, RD!Abstract!Next, RDP!Abstract!Install,
     RD!Abstract!Install, RDP!Abstract!Remove, RD!Abstract!Remove
<1>5. QED
  BY <1>3, <1>4, PTL DEF RDP!ImplementsRouting, RD!ImplementsRouting, RDP!Abstract!Spec,
     RD!Abstract!Spec

(***************************************************************************)
(* The whole controller implements the abstract routing: whatever its      *)
(* goroutines do at the same time and wherever the daemon dies, the LAN    *)
(* sees one complete configuration or none, replaced through direct.       *)
(***************************************************************************)
THEOREM ControllerImplementsRouting == Spec => ImplementsRouting
<1>1. RD!Spec => RDP!Spec
  BY SameRedirect, PTL DEF RD!Spec, RDP!Spec
<1>2. RDP!Spec => RDP!ImplementsRouting
  BY RDP!RedirectImplementsRouting, RedirectAssumed DEF RDP!RedirectImplementsRouting
<1>3. QED
  BY <1>1, <1>2, ImplementsParts, SameRouting, PTL DEF ImplementsRouting

-----------------------------------------------------------------------------
(* agreement, as long as connects race only with connects *)

\* No engine and no rules.
Off == table = << >> /\ conn = EN!NoConnection

\* The engine runs with so many sessions on the saved line, or on the line with which a
\* connect to the saved line was answered, and the rules are its own.
Serves(mode, sessions) ==
  /\ conn # EN!NoConnection
  /\ uci.selected \in {conn.line, asked}
  /\ conn.sessions = sessions
  /\ table = <<[mode |-> mode, servers |-> conn.line, sessions |-> sessions]>>

Settled == Off \/ Serves(uci.mode, uci.sessions)

\* Where a goroutine has changed the settings, the engine or the rules, but not yet all.
Moving == {"setup", "stoppingOld", "tearingOld", "starting", "route", "routing", "undoing",
           "stopping", "tearing"}

Planned(p) == [line |-> got[p], sessions |-> snap[p].sessions]
Rules(p) == [mode |-> snap[p].mode, servers |-> got[p], sessions |-> snap[p].sessions]

\* What a goroutine has established, by its program counter.
Reached(p) ==
  /\ pc[p] \in Connecting => /\ snap[p].mode = uci.mode /\ snap[p].sessions = uci.sessions
                             /\ snap[p].selected = uci.selected
  /\ pc[p] \in {"stoppingOld", "tearingOld", "starting", "route", "routing"} =>
       IF want[p] = NoLine THEN uci.selected = asked ELSE want[p] \in {asked, got[p]}
  /\ pc[p] = "save" /\ after[p] = Idle => Off
  /\ pc[p] = "setup" => Off \/ \E mode \in Mode : Serves(mode, uci.sessions)
  /\ pc[p] = "recheck" => table = << >>
  /\ pc[p] \notin {"servers", "count", "repairing"}
  /\ pc[p] = "api" /\ ~switching[p] => Off
  /\ pc[p] \in {"stoppingOld", "stopping", "undoing"} /\ epc[p] = "ok" => conn = EN!NoConnection
  /\ pc[p] \in {"tearingOld", "tearing"} =>
       /\ conn = EN!NoConnection /\ rarg[p] = NoConfig
       /\ rpc[p] = "ok" => table = << >>
  /\ pc[p] \in {"starting", "route", "undoing"} => table = << >>
  /\ pc[p] = "starting" =>
       /\ epc[p] \notin {"stop", "reap"}
       /\ epc[p] \in {"start", "spawn"} => earg[p] = Planned(p)
       /\ conn = IF epc[p] = "ok" THEN Planned(p) ELSE EN!NoConnection
  /\ pc[p] \in {"route", "routing"} => conn = Planned(p)
  /\ pc[p] = "routing" =>
       /\ rarg[p] = Rules(p)
       /\ table = IF rpc[p] = "ok" THEN <<Rules(p)>> ELSE << >>

\* Who is inside the firewall's functions is where the controller calls them.
RouteCallers ==
  \A p \in Process : rpc[p] # "out" => pc[p] \in {"tearingOld", "routing", "tearing", "repairing"}

Agreement ==
  /\ RouteCallers
  /\ \A p \in Process : Reached(p)
  /\ (\A p \in Process : pc[p] \notin Moving) => Settled

\* A goroutine that has begun nothing that another could disturb.
Outside == {Idle, "boot", "lock"}

\* What the step of an undisturbed daemon that lives on may assume.
Quiet == Typed /\ ENP!IInv /\ RDP!IInv /\ Serial /\ Undisturbed /\ up

\* Whoever is inside an operation is alone in it.
LEMMA Alone ==
  ASSUME Quiet, NEW p \in Process, pc[p] \in Connecting \cup Exclusive, NEW q \in Process \ {p}
  PROVE  pc[q] \in Outside
<1>1. pc[q] \in Label /\ Label = Outside \cup Connecting \cup Exclusive
  BY DEF Quiet, Typed, LocalsOK, Label, Outside, Exclusive, Disconnecting
<1>2. pc[p] \in Exclusive => pc[q] = Idle
  BY DEF Quiet, Undisturbed
<1>3. pc[q] \in Exclusive => pc[p] = Idle
  BY DEF Quiet, Undisturbed
<1>4. pc[p] \in Connecting => pc[q] \notin Connecting
  BY DEF Quiet, Serial, ConnectMutexInv
<1>5. Idle \notin Connecting \cup Exclusive /\ Idle \in Outside
  BY DEF Idle, Connecting, Exclusive, Disconnecting, Outside
<1>6. QED
  BY <1>1, <1>2, <1>3, <1>4, <1>5

\* With everybody else outside, a step is a matter of the one that takes it.
LEMMA AloneStep ==
  ASSUME Agreement, NEW p \in Process, \A q \in Process \ {p} : pc[q] \in Outside,
         \A q \in Process \ {p} : pc'[q] = pc[q] /\ rpc'[q] = rpc[q],
         rpc'[p] # "out" => pc'[p] \in {"tearingOld", "routing", "tearing", "repairing"},
         Reached(p)',
         pc'[p] \notin Moving => Settled'
  PROVE  Agreement'
<1>1. \A q \in Process \ {p} : Reached(q)'
  BY DEF Reached, Outside, Idle, Connecting
<1>2. RouteCallers'
  BY DEF Agreement, RouteCallers
<1>3. QED
  BY <1>1, <1>2 DEF Agreement

\* When everybody else is outside and oneself is not moving, all is settled.
LEMMA AloneSettled ==
  ASSUME Agreement, NEW p \in Process, \A q \in Process \ {p} : pc[q] \in Outside, pc[p] \notin Moving
  PROVE  Settled
<1>1. \A q \in Process : pc[q] \notin Moving
  BY DEF Outside, Moving, Idle
<1>2. QED
  BY <1>1 DEF Agreement

\* Going from outside to outside disturbs nobody.
LEMMA PassiveStep ==
  ASSUME Agreement, Typed, NEW p \in Process, NEW label \in Outside, pc[p] \in Outside,
         pc' = [pc EXCEPT ![p] = label],
         \A q \in Process \ {p} : /\ want'[q] = want[q] /\ got'[q] = got[q] /\ snap'[q] = snap[q]
                                  /\ switching'[q] = switching[q] /\ after'[q] = after[q],
         UNCHANGED <<table, conn, uci, asked, epc, earg, rpc, rarg>>
  PROVE  Agreement'
<1>1. pc'[p] = label /\ \A q \in Process \ {p} : pc'[q] = pc[q]
  BY DEF Typed, LocalsOK
<1>2. Off' = Off /\ Settled' = Settled /\ \A mode, n : Serves(mode, n)' = Serves(mode, n)
  BY DEF Off, Settled, Serves
<1>3. Reached(p)'
  BY <1>1 DEF Reached, Outside, Idle, Connecting
<1>4. ASSUME NEW q \in Process \ {p} PROVE Reached(q)'
  <2>1. Planned(q)' = Planned(q) /\ Rules(q)' = Rules(q)
    BY DEF Planned, Rules
  <2>2. Reached(q)
    BY DEF Agreement
  <2>3. QED
    BY <1>1, <1>2, <2>1, <2>2 DEF Reached
<1>5. RouteCallers'
  BY <1>1 DEF Agreement, RouteCallers, Outside, Idle
<1>6. (\A q \in Process : pc[q] \notin Moving) <=> (\A q \in Process : pc'[q] \notin Moving)
  BY <1>1 DEF Moving, Outside, Idle
<1>7. QED
  BY <1>2, <1>3, <1>4, <1>5, <1>6 DEF Agreement

\* What a call of the firewall's functions, or its return, does.
LEMMA RouteCalls ==
  ASSUME RDP!IInv, NEW p \in Process
  PROVE  /\ \A c : RD!Call(p, c) =>
              /\ rpc'[p] = "lock" /\ rarg'[p] = c /\ table' = table
              /\ \A q \in Process \ {p} : rpc'[q] = rpc[q]
         /\ RD!Return(p) => /\ rpc'[p] = "out" /\ table' = table
                            /\ \A q \in Process \ {p} : rpc'[q] = rpc[q]
<1>1. QED
  BY DEF RDP!IInv, RDP!TypeOK, RD!Call, RD!Return, RD!Goto, RD!kernel

\* What a call of the engine, or its return, does.
LEMMA EngineMoves ==
  ASSUME ENP!IInv, NEW p \in Process
  PROVE  /\ EN!CallStop(p) => epc'[p] = "stop" /\ conn' = conn
         /\ \A c : EN!CallStart(p, c) => epc'[p] = "start" /\ earg'[p] = c /\ conn' = conn
         /\ EN!Return(p) => epc'[p] = "out" /\ conn' = conn
<1>1. QED
  BY DEF ENP!IInv, ENP!TypeOK, EN!CallStop, EN!CallStart, EN!Return, EN!Goto

\* A step inside setupRedirect or teardownRedirect.
LEMMA RouteSteps ==
  ASSUME RDP!IInv, NEW p \in Process, RD!Lock(p) \/ RD!Succeed(p) \/ RD!Fail(p)
  PROVE  /\ rpc[p] \notin {"out", "ok", "err"} /\ rpc'[p] # "out" /\ rarg' = rarg
         /\ \A q \in Process \ {p} : rpc'[q] = rpc[q]
         /\ table = << >> => table' = IF rpc'[p] = "ok" /\ rarg[p] # NoConfig THEN <<rarg[p]>> ELSE << >>
         /\ rpc'[p] = "ok" /\ rarg[p] = NoConfig => table' = << >>
<1> USE DEF RDP!IInv, RDP!TypeOK, RDP!ArgInv, RDP!StageInv, RDP!Inside, RDP!Label, RD!Goto, RD!Finish,
            RD!kernel
<1>1. CASE RD!Lock(p)
  BY <1>1 DEF RD!Lock
<1>2. CASE RD!BuildScript(p) \/ RD!DropTable(p)
  BY <1>2 DEF RD!BuildScript, RD!DropTable
<1>3. CASE RD!DeleteRule(p)
  BY <1>3 DEF RD!DeleteRule
<1>4. CASE RD!FlushRoute(p)
  BY <1>4 DEF RD!FlushRoute
<1>5. CASE RD!AddRule(p) \/ RD!AddRoute(p)
  BY <1>5 DEF RD!AddRule, RD!AddRoute
<1>6. CASE RD!LoadTable(p)
  <2>1. /\ rpc[p] = "load" /\ table' = Append(table, rarg[p]) /\ rpc' = [rpc EXCEPT ![p] = "ok"]
        /\ rarg' = rarg /\ rarg[p] # NoConfig
    BY <1>6 DEF RD!LoadTable
  <2>2. table = << >> => table' = <<rarg[p]>>
    BY <2>1
  <2>3. QED
    BY <2>1, <2>2
<1>7. CASE RD!Fail(p)
  BY <1>7 DEF RD!Fail, RD!LoadChinaRoutesFails, RD!AddRuleFails, RD!AddRouteFails, RD!LoadTableFails
<1>8. QED
  BY <1>1, <1>2, <1>3, <1>4, <1>5, <1>6, <1>7 DEF RD!Succeed

\* A step inside start or stop.
LEMMA EngineSteps ==
  ASSUME ENP!IInv, NEW p \in Process, EN!Enter(p) \/ EN!Succeed(p) \/ EN!Fail(p)
  PROVE  /\ epc[p] \notin {"out", "ok", "err"} /\ earg' = earg
         /\ epc'[p] \in {"stop", "reap"} => epc[p] \in {"stop", "reap"}
         /\ epc'[p] \in {"start", "spawn"} => epc[p] \in {"start", "spawn"}
         /\ epc'[p] = "ok" => \/ epc[p] = "spawn" /\ conn' = earg[p]
                              \/ epc[p] = "reap" /\ conn' = EN!NoConnection
         /\ epc'[p] # "ok" => conn' = conn
<1> USE DEF ENP!IInv, ENP!TypeOK, ENP!Label, EN!Goto, EN!Finish
<1>1. CASE EN!Enter(p)
  BY <1>1 DEF EN!Enter, EN!Start, EN!StartRefused, EN!Stop
<1>2. CASE EN!Fail(p)
  BY <1>2 DEF EN!Fail, EN!StartFails, EN!SpawnFails
<1>3. CASE EN!Spawn(p) \/ EN!Reap(p)
  <2>1. epc[p] \in {"spawn", "reap"} /\ UNCHANGED <<conn, earg, epc>>
    BY <1>3 DEF EN!Spawn, EN!Reap
  <2>2. QED
    BY <2>1
<1>4. CASE EN!Kill(p)
  <2>1. /\ epc[p] = "kill" /\ UNCHANGED <<conn, earg>>
        /\ epc' = epc \/ epc' = [epc EXCEPT ![p] = "err"]
    BY <1>4 DEF EN!Kill
  <2>2. QED
    BY <2>1
<1>5. CASE EN!Publish(p) \/ EN!Stopped(p)
  BY <1>5 DEF EN!Publish, EN!Stopped
<1>6. QED
  BY <1>1, <1>2, <1>3, <1>4, <1>5 DEF EN!Succeed

\* Steps inside the firewall's functions: the caller is alone in its operation.
LEMMA NetfilterAgrees ==
  ASSUME Quiet, Agreement, NEW p \in Process, Netfilter(p)
  PROVE  Agreement'
<1>1. /\ rpc[p] \notin {"out", "ok", "err"} /\ rpc'[p] # "out" /\ rarg' = rarg
      /\ \A q \in Process \ {p} : rpc'[q] = rpc[q]
      /\ table = << >> => table' = IF rpc'[p] = "ok" /\ rarg[p] # NoConfig THEN <<rarg[p]>> ELSE << >>
      /\ rpc'[p] = "ok" /\ rarg[p] = NoConfig => table' = << >>
  BY RouteSteps DEF Quiet, Netfilter
<1>2. UNCHANGED <<conn, epc, earg, pc, want, got, snap, switching, after, uci, asked>>
  BY DEF Netfilter, engVars, locals, disk
<1>3. pc[p] \in {"tearingOld", "routing", "tearing"} /\ Reached(p)
  BY <1>1 DEF Agreement, RouteCallers, Reached
<1>4. \A q \in Process \ {p} : pc[q] \in Outside
  BY <1>3, Alone DEF Connecting, Exclusive, Disconnecting
<1>5. Rules(p) # NoConfig
  <2>1. snap[p].mode \in Mode /\ snap[p].sessions \in 0..MaxSessions /\ got[p] \in Line \cup {NoLine}
    BY DEF Quiet, Typed, LocalsOK, Settings
  <2>2. Rules(p) \in Config
    BY <2>1 DEF Rules, Config
  <2>3. QED
    BY <2>2, ControllerAssumption
<1>6. Planned(p)' = Planned(p) /\ Rules(p)' = Rules(p)
  BY <1>2 DEF Planned, Rules
<1>7. CASE pc[p] \in {"tearingOld", "tearing"}
  <2>1. Reached(p)'
    BY <1>1, <1>2, <1>3, <1>7 DEF Reached, Connecting
  <2>2. QED
    BY <1>1, <1>2, <1>3, <1>4, <1>7, <2>1, AloneStep DEF Moving
<1>8. CASE pc[p] = "routing"
  <2>1. table' = IF rpc'[p] = "ok" THEN <<Rules(p)>> ELSE << >>
    BY <1>1, <1>3, <1>5, <1>8 DEF Reached
  <2>2. Reached(p)'
    BY <1>1, <1>2, <1>3, <1>6, <1>8, <2>1 DEF Reached, Connecting
  <2>3. QED
    BY <1>1, <1>2, <1>3, <1>4, <1>8, <2>2, AloneStep DEF Moving
<1>9. QED
  BY <1>3, <1>7, <1>8

\* Steps inside the engine: the caller is alone in its operation.
LEMMA ChildrenAgrees ==
  ASSUME Quiet, Agreement, NEW p \in Process, Children(p)
  PROVE  Agreement'
<1>1. /\ epc[p] \notin {"out", "ok", "err"} /\ earg' = earg
      /\ epc'[p] \in {"stop", "reap"} => epc[p] \in {"stop", "reap"}
      /\ epc'[p] \in {"start", "spawn"} => epc[p] \in {"start", "spawn"}
      /\ epc'[p] = "ok" => \/ epc[p] = "spawn" /\ conn' = earg[p]
                           \/ epc[p] = "reap" /\ conn' = EN!NoConnection
      /\ epc'[p] # "ok" => conn' = conn
  BY EngineSteps DEF Quiet, Children
<1>2. UNCHANGED <<table, rpc, rarg, pc, want, got, snap, switching, after, uci, asked>>
  BY DEF Children, netVars, locals, disk
<1>3. pc[p] \in {"starting", "stoppingOld", "undoing", "stopping"} /\ Reached(p)
      /\ (epc[p] \in {"start", "spawn", "kill"} => pc[p] = "starting")
  BY <1>1 DEF Quiet, Serial, EngineCallers, Agreement
<1>4. \A q \in Process \ {p} : pc[q] \in Outside
  BY <1>3, Alone DEF Connecting, Exclusive, Disconnecting
<1>5. Planned(p)' = Planned(p)
  BY <1>2 DEF Planned
<1>6. rpc'[p] = "out"
  BY <1>2, <1>3 DEF Agreement, RouteCallers
<1>7. CASE pc[p] = "starting"
  <2>1. /\ epc[p] \notin {"stop", "reap"} /\ conn = EN!NoConnection /\ table = << >>
        /\ epc[p] \in {"start", "spawn"} => earg[p] = Planned(p)
    BY <1>1, <1>3, <1>7 DEF Reached
  <2>2. conn' = IF epc'[p] = "ok" THEN Planned(p)' ELSE EN!NoConnection
    BY <1>1, <1>5, <2>1
  <2>3. Reached(p)'
    BY <1>1, <1>2, <1>3, <1>5, <1>7, <2>1, <2>2 DEF Reached, Connecting, EN!NoConnection
  <2>4. QED
    BY <1>2, <1>4, <1>6, <1>7, <2>3, AloneStep DEF Moving
<1>8. CASE pc[p] # "starting"
  <2>1. epc'[p] = "ok" => conn' = EN!NoConnection
    BY <1>1, <1>3, <1>8
  <2>2. Reached(p)'
    BY <1>1, <1>2, <1>3, <1>8, <2>1 DEF Reached, Connecting
  <2>3. QED
    BY <1>2, <1>3, <1>4, <1>6, <1>8, <2>2, AloneStep DEF Moving
<1>9. QED
  BY <1>7, <1>8

\* What an operation leaves settled when its goroutine goes outside.
LEMMA OutsideAgrees ==
  ASSUME Quiet, Agreement, NEW p \in Process, NEW label \in Outside,
         \A q \in Process \ {p} : pc[q] \in Outside, pc' = [pc EXCEPT ![p] = label],
         rpc'[p] = "out", \A q \in Process \ {p} : rpc'[q] = rpc[q],
         Settled'
  PROVE  Agreement'
<1>1. pc'[p] = label /\ \A q \in Process \ {p} : pc'[q] = pc[q]
  BY DEF Quiet, Typed, LocalsOK
<1>2. Reached(p)'
  BY <1>1 DEF Reached, Outside, Idle, Connecting
<1>3. QED
  BY <1>1, <1>2, AloneStep

\* With e.mu free, an engine that does not run is not connected.
LEMMA NotRunningMeansNotConnected ==
  Quiet /\ EngineReadable /\ ~EN!IsRunning => conn = EN!NoConnection
<1> SUFFICES ASSUME Quiet, EngineReadable, ~EN!IsRunning PROVE conn = EN!NoConnection
  OBVIOUS
<1>1. cmd = {} /\ cmd = 1..conn.sessions
  BY NotRunningMeansNoChild DEF Quiet, ENP!IInv, ENP!TrackedSessions, EngineReadable
<1>2. conn \in ENP!Connection => 1 \in 1..conn.sessions
  BY ControllerAssumption DEF ENP!Connection, ENP!Slot
<1>3. QED
  BY <1>1, <1>2 DEF Quiet, ENP!IInv, ENP!TypeOK, EN!NoConnection, ENP!NoConnection

\* What the snapshot plans is a connection.
LEMMA PlannedIsConnection ==
  ASSUME Quiet, NEW p \in Process
  PROVE  Planned(p) # EN!NoConnection
<1>1. snap[p].sessions \in 1..MaxSessions
  BY DEF Quiet, Typed, LocalsOK, Settings
<1>2. Planned(p).sessions # EN!NoConnection.sessions
  BY <1>1, ControllerAssumption DEF Planned, EN!NoConnection
<1>3. QED
  BY <1>2

\* Every step of connect.
LEMMA ConnectAgrees ==
  ASSUME Quiet, Agreement, NEW p \in Process, Connect(p)
  PROVE  Agreement'
<1> USE DEF netVars, engVars, disk
<1>1. pc[p] \in Connecting => \A q \in Process \ {p} : pc[q] \in Outside
  BY Alone
<1>2. pc[p] \notin {"tearingOld", "routing", "tearing", "repairing"} => rpc[p] = "out"
  BY DEF Agreement, RouteCallers
<1>3. /\ Reached(p)
      /\ \A label : Goto(p, label) =>
           pc'[p] = label /\ \A q \in Process \ {p} : pc'[q] = pc[q]
  BY DEF Agreement, Goto, Quiet, Typed, LocalsOK
<1>4. ASSUME NEW label \in {"decide", "compare", "api"}, pc[p] = label PROVE Settled
  BY <1>1, <1>4, AloneSettled DEF Connecting, Moving
<1>5. CASE AcquireConnect(p)
  <2>1. /\ pc[p] = "lock" /\ connectMu = NoProcess /\ Goto(p, "decide")
        /\ snap' = [snap EXCEPT ![p] = uci] /\ UNCHANGED <<table, conn, uci, asked, rpc>>
    BY <1>5 DEF AcquireConnect
  <2>2. ASSUME NEW q \in Process \ {p} PROVE pc[q] \in Outside
    <3>1. pc[q] \notin Connecting
      BY <2>1, ControllerAssumption DEF Quiet, Serial, ConnectMutexInv
    <3>2. pc[q] \notin Exclusive
      BY <2>1 DEF Quiet, Undisturbed, Idle
    <3>3. QED
      BY <3>1, <3>2 DEF Quiet, Typed, LocalsOK, Label, Outside, Exclusive, Disconnecting
  <2>3. Settled'
    BY <2>1, <2>2, AloneSettled DEF Moving, Settled, Off, Serves
  <2>4. snap'[p] = uci'
    BY <2>1 DEF Quiet, Typed, LocalsOK
  <2>5. Reached(p)'
    BY <1>3, <2>1, <2>4 DEF Reached
  <2>6. QED
    BY <1>2, <1>3, <2>1, <2>2, <2>3, <2>5, AloneStep
<1>6. CASE NotLoggedIn(p) \/ AlreadyConnected(p) \/ ApiFails(p)
  <2>1. /\ pc[p] \in {"decide", "compare", "api"} /\ pc' = [pc EXCEPT ![p] = Idle]
        /\ UNCHANGED <<table, conn, uci, asked, rpc>>
    BY <1>6 DEF NotLoggedIn, AlreadyConnected, ApiFails, Leave, Forget, Goto
  <2>2. Settled'
    BY <1>4, <2>1 DEF Settled, Off, Serves
  <2>3. QED
    BY <1>1, <1>2, <2>1, <2>2, OutsideAgrees DEF Connecting, Outside
<1>7. CASE CheckRunning(p)
  <2>1. /\ pc[p] = "decide" /\ UNCHANGED <<table, conn, uci, asked, rpc, snap>>
        /\ \/ Goto(p, "compare")
           \/ Goto(p, "api") /\ ~EN!IsRunning /\ EngineReadable
    <3>1. CASE EN!IsRunning
      BY <1>7, <3>1 DEF CheckRunning, Goto
    <3>2. CASE ~EN!IsRunning
      BY <1>7, <3>2 DEF CheckRunning, Goto
    <3>3. QED
      BY <3>1, <3>2
  <2>2. Settled /\ (~EN!IsRunning /\ EngineReadable => Off)
    BY <1>4, <2>1, NotRunningMeansNotConnected DEF Settled, Off, Serves
  <2>3. Settled'
    BY <2>1, <2>2 DEF Settled, Off, Serves
  <2>4. Reached(p)'
    BY <1>3, <2>1, <2>2 DEF Reached, Connecting, Off
  <2>5. QED
    BY <1>1, <1>2, <1>3, <2>1, <2>3, <2>4, AloneStep DEF Connecting
<1>8. CASE SwitchLine(p)
  <2>1. /\ pc[p] = "compare" /\ UNCHANGED <<table, conn, uci, asked, rpc, snap>> /\ Goto(p, "api")
        /\ switching' = [switching EXCEPT ![p] = TRUE]
    BY <1>8 DEF SwitchLine
  <2>2. Settled'
    BY <1>4, <2>1 DEF Settled, Off, Serves
  <2>3. switching'[p]
    BY <2>1 DEF Quiet, Typed, LocalsOK
  <2>4. Reached(p)'
    BY <1>3, <2>1, <2>3 DEF Reached, Connecting
  <2>5. QED
    BY <1>1, <1>2, <1>3, <2>1, <2>2, <2>4, AloneStep DEF Connecting
<1>9. ASSUME NEW line \in Line, NEW answered \in Line, ApiConnect(p, line, answered)
      PROVE  Agreement'
  <2>1. pc[p] = "api" /\ UNCHANGED <<table, uci, rpc, snap, switching>>
    BY <1>9 DEF ApiConnect
  <2>2. IF want'[p] = NoLine THEN uci'.selected = asked' ELSE want'[p] \in {asked', got'[p]}
    <3>1. /\ asked' = line /\ got'[p] = answered /\ want'[p] \in ToSave(p, line, answered)
          /\ Wanted(p) \in {NoLine, line}
      BY <1>9 DEF ApiConnect, Quiet, Typed, LocalsOK
    <3>2. snap[p].selected = uci.selected /\ NoLine \notin Line
      BY <1>3, <2>1, ControllerAssumption DEF Reached, Connecting
    <3>3. CASE want[p] = NoLine /\ snap[p].selected # NoLine
      BY <2>1, <3>1, <3>2, <3>3 DEF ToSave, Wanted
    <3>4. CASE ~(want[p] = NoLine /\ snap[p].selected # NoLine)
      <4>1. want'[p] \in {line, answered}
        BY <3>1, <3>4 DEF ToSave
      <4>2. QED
        BY <3>1, <3>2, <4>1
    <3>5. QED
      BY <3>3, <3>4
  <2>3. CASE switching[p]
    <3>1. Goto(p, "stoppingOld") /\ epc'[p] = "stop"
      BY <1>9, <2>3, EngineMoves DEF ApiConnect, Quiet
    <3>2. Reached(p)'
      BY <1>3, <2>1, <2>2, <3>1 DEF Reached, Connecting
    <3>3. QED
      BY <1>1, <1>2, <1>3, <2>1, <3>1, <3>2, AloneStep DEF Connecting, Moving
  <2>4. CASE ~switching[p]
    <3>1. Goto(p, "starting") /\ epc'[p] = "start" /\ earg'[p] = Connection(p) /\ conn' = conn
      BY <1>9, <2>4, EngineMoves DEF ApiConnect, Quiet
    <3>2. Connection(p) = Planned(p)'
      BY <2>1 DEF Connection, Planned
    <3>3. Off
      BY <1>3, <2>1, <2>4 DEF Reached
    <3>4. Reached(p)'
      BY <1>3, <2>1, <2>2, <3>1, <3>2, <3>3 DEF Reached, Connecting, Off, EN!NoConnection
    <3>5. QED
      BY <1>1, <1>2, <1>3, <2>1, <3>1, <3>4, AloneStep DEF Connecting, Moving
  <2>5. QED
    BY <2>3, <2>4
<1>10. CASE OldEngineStopped(p)
  <2>1. /\ pc[p] = "stoppingOld" /\ epc[p] = "ok" /\ Goto(p, "tearingOld") /\ UNCHANGED <<uci, asked, snap, want, got, conn>>
        /\ rpc'[p] = "lock" /\ rarg'[p] = NoConfig /\ \A q \in Process \ {p} : rpc'[q] = rpc[q]
    BY <1>10, RouteCalls, EngineMoves DEF OldEngineStopped, Quiet
  <2>2. Reached(p)'
    BY <1>3, <2>1 DEF Reached, Connecting, EN!NoConnection
  <2>3. QED
    BY <1>1, <1>3, <2>1, <2>2, AloneStep DEF Connecting, Moving
<1>11. CASE OldRoutesGone(p)
  <2>1. /\ pc[p] = "tearingOld" /\ rpc[p] = "ok" /\ Goto(p, "starting")
        /\ UNCHANGED <<uci, asked, snap, want, got, table, conn>>
        /\ epc'[p] = "start" /\ earg'[p] = Connection(p)
        /\ rpc'[p] = "out" /\ \A q \in Process \ {p} : rpc'[q] = rpc[q]
    BY <1>11, RouteCalls, EngineMoves DEF OldRoutesGone, Quiet
  <2>2. Connection(p) = Planned(p)'
    BY <2>1 DEF Connection, Planned
  <2>3. Reached(p)'
    BY <1>3, <2>1, <2>2 DEF Reached, Connecting, EN!NoConnection
  <2>4. QED
    BY <1>1, <1>3, <2>1, <2>3, AloneStep DEF Connecting, Moving
<1>12. CASE Started(p)
  <2>1. /\ pc[p] = "starting" /\ epc[p] = "ok" /\ Goto(p, "route")
        /\ UNCHANGED <<uci, asked, snap, want, got, table, conn, rpc>>
    BY <1>12, EngineMoves DEF Started, Quiet
  <2>2. Planned(p)' = Planned(p)
    BY <2>1 DEF Planned
  <2>3. Reached(p)'
    BY <1>3, <2>1, <2>2 DEF Reached, Connecting
  <2>4. QED
    BY <1>1, <1>2, <1>3, <2>1, <2>3, AloneStep DEF Connecting, Moving
<1>13. CASE NotStarted(p)
  <2>1. /\ pc[p] = "starting" /\ epc[p] = "err" /\ pc' = [pc EXCEPT ![p] = Idle]
        /\ UNCHANGED <<table, conn, rpc>>
    BY <1>13, EngineMoves DEF NotStarted, Leave, Forget, Goto, Quiet
  <2>2. Off'
    BY <1>3, <2>1 DEF Reached, Off, EN!NoConnection
  <2>3. QED
    BY <1>1, <1>2, <2>1, <2>2, OutsideAgrees DEF Connecting, Outside, Settled
<1>14. CASE Route(p)
  <2>1. /\ pc[p] = "route" /\ Goto(p, "routing") /\ UNCHANGED <<uci, asked, snap, want, got, table, conn>>
        /\ rpc'[p] = "lock"
        /\ rarg'[p] = [mode |-> snap[p].mode, servers |-> conn.line, sessions |-> snap[p].sessions]
        /\ \A q \in Process \ {p} : rpc'[q] = rpc[q]
    BY <1>14, RouteCalls DEF Route, Quiet
  <2>2. Planned(p)' = Planned(p) /\ Rules(p)' = Rules(p)
    BY <2>1 DEF Planned, Rules
  <2>3. conn = Planned(p) /\ table = << >>
    BY <1>3, <2>1 DEF Reached
  <2>4. rarg'[p] = Rules(p)
    BY <2>1, <2>3 DEF Planned, Rules
  <2>5. Reached(p)'
    BY <1>3, <2>1, <2>2, <2>3, <2>4 DEF Reached, Connecting
  <2>6. QED
    BY <1>1, <1>3, <2>1, <2>5, AloneStep DEF Connecting, Moving
<1>15. CASE Routed(p)
  <2>1. /\ pc[p] = "routing" /\ rpc[p] = "ok" /\ pc' = [pc EXCEPT ![p] = Idle]
        /\ UNCHANGED <<table, conn, asked>>
        /\ uci' = IF want[p] = NoLine THEN uci ELSE [uci EXCEPT !.selected = want[p]]
        /\ rpc'[p] = "out" /\ \A q \in Process \ {p} : rpc'[q] = rpc[q]
    BY <1>15, RouteCalls DEF Routed, Leave, Forget, Goto, Quiet
  <2>2. /\ conn = Planned(p) /\ table = <<Rules(p)>>
        /\ snap[p].mode = uci.mode /\ snap[p].sessions = uci.sessions
    BY <1>3, <2>1 DEF Reached, Connecting
  <2>3. /\ uci'.selected = IF want[p] = NoLine THEN uci.selected ELSE want[p]
        /\ uci'.mode = uci.mode /\ uci'.sessions = uci.sessions
    BY <2>1 DEF Quiet, Typed, LocalsOK, Settings
  <2>4. uci'.selected \in {got[p], asked}
    BY <1>3, <2>1, <2>3 DEF Reached
  <2>5. Serves(uci.mode, uci.sessions)'
    BY <2>1, <2>2, <2>3, <2>4, PlannedIsConnection DEF Serves, Planned, Rules, EN!NoConnection
  <2>6. QED
    BY <1>1, <2>1, <2>5, OutsideAgrees DEF Connecting, Outside, Settled
<1>16. CASE NotRouted(p)
  <2>1. /\ pc[p] = "routing" /\ rpc[p] = "err" /\ Goto(p, "undoing") /\ UNCHANGED <<uci, asked, snap, want, got, table>>
        /\ epc'[p] = "stop" /\ rpc'[p] = "out" /\ \A q \in Process \ {p} : rpc'[q] = rpc[q]
    BY <1>16, RouteCalls, EngineMoves DEF NotRouted, Quiet
  <2>2. Reached(p)'
    BY <1>3, <2>1 DEF Reached, Connecting
  <2>3. QED
    BY <1>1, <1>3, <2>1, <2>2, AloneStep DEF Connecting, Moving
<1>17. CASE Undone(p)
  <2>1. /\ pc[p] = "undoing" /\ epc[p] = "ok" /\ pc' = [pc EXCEPT ![p] = Idle]
        /\ UNCHANGED <<table, conn, rpc>>
    BY <1>17, EngineMoves DEF Undone, Leave, Forget, Goto, Quiet
  <2>2. Off'
    BY <1>3, <2>1 DEF Reached, Off, EN!NoConnection
  <2>3. QED
    BY <1>1, <1>2, <2>1, <2>2, OutsideAgrees DEF Connecting, Outside, Settled
<1>18. QED
  BY <1>5, <1>6, <1>7, <1>8, <1>9, <1>10, <1>11, <1>12, <1>13, <1>14, <1>15, <1>16, <1>17 DEF Connect

\* A goroutine that begins an operation that must be alone finds all settled.
LEMMA BeginsAlone ==
  ASSUME Quiet, Agreement, Undisturbed', NEW p \in Process, NEW label \in Exclusive, pc[p] = Idle,
         pc' = [pc EXCEPT ![p] = label]
  PROVE  /\ pc'[p] = label /\ \A q \in Process \ {p} : pc'[q] = pc[q] /\ pc[q] \in Outside
         /\ Settled /\ rpc[p] = "out"
<1>1. pc'[p] = label /\ \A q \in Process \ {p} : pc'[q] = pc[q]
  BY DEF Quiet, Typed, LocalsOK
<1>2. \A q \in Process \ {p} : pc[q] = Idle
  BY <1>1 DEF Undisturbed
<1>3. Settled
  BY <1>2, AloneSettled DEF Outside, Moving, Idle
<1>4. rpc[p] = "out"
  BY DEF Agreement, RouteCallers, Idle
<1>5. QED
  BY <1>1, <1>2, <1>3, <1>4 DEF Outside

\* Entering disconnect, from a state in which the goroutine is alone.
LEMMA EnterDisconnectAgrees ==
  ASSUME Quiet, Agreement, NEW p \in Process, NEW then, EnterDisconnect(p, then),
         \A q \in Process \ {p} : pc[q] \in Outside, rpc[p] = "out", rpc' = rpc
  PROVE  Agreement'
<1>1. pc'[p] = "stopping" /\ \A q \in Process \ {p} : pc'[q] = pc[q]
  BY DEF EnterDisconnect, Goto, Quiet, Typed, LocalsOK
<1>2. epc'[p] = "stop"
  BY EngineMoves DEF EnterDisconnect, Quiet
<1>3. Reached(p)'
  BY <1>1, <1>2 DEF Reached, Connecting
<1>4. QED
  BY <1>1, <1>3, AloneStep DEF Moving

\* Entering connect from outside.
LEMMA EnterConnectAgrees ==
  ASSUME Quiet, Agreement, NEW p \in Process, NEW line, EnterConnect(p, line), pc[p] \in Outside,
         UNCHANGED <<table, conn, uci, asked, epc, earg, rpc, rarg>>
  PROVE  Agreement'
<1>1. /\ pc' = [pc EXCEPT ![p] = "lock"] /\ UNCHANGED <<snap, switching, after>>
      /\ \A q \in Process \ {p} : want'[q] = want[q] /\ got'[q] = got[q]
  BY DEF EnterConnect, Goto, Quiet, Typed, LocalsOK
<1>2. "lock" \in Outside
  BY DEF Outside
<1>3. QED
  BY <1>1, <1>2, PassiveStep DEF Quiet

\* Every step of disconnect.
LEMMA DisconnectAgrees ==
  ASSUME Quiet, Agreement, NEW p \in Process, Disconnect(p), up'
  PROVE  Agreement'
<1> USE DEF netVars, engVars, disk
<1>1. pc[p] \in Disconnecting
  BY DEF Disconnect, EngineStopped, Disconnected, Exit, Disconnecting
<1>2. \A q \in Process \ {p} : pc[q] \in Outside
  BY <1>1, Alone DEF Exclusive
<1>3. Reached(p)
  BY DEF Agreement
<1>4. CASE EngineStopped(p)
  <2>1. /\ pc[p] = "stopping" /\ epc[p] = "ok" /\ Goto(p, "tearing") /\ conn' = conn
        /\ rpc'[p] = "lock" /\ rarg'[p] = NoConfig /\ \A q \in Process \ {p} : rpc'[q] = rpc[q]
    BY <1>4, RouteCalls, EngineMoves DEF EngineStopped, Quiet
  <2>2. pc'[p] = "tearing" /\ \A q \in Process \ {p} : pc'[q] = pc[q]
    BY <2>1 DEF Goto, Quiet, Typed, LocalsOK
  <2>3. Reached(p)'
    BY <1>3, <2>1, <2>2 DEF Reached, Connecting, EN!NoConnection
  <2>4. QED
    BY <1>2, <2>1, <2>2, <2>3, AloneStep DEF Moving
<1>5. CASE Disconnected(p)
  <2>1. /\ pc[p] = "tearing" /\ rpc[p] = "ok" /\ pc' = [pc EXCEPT ![p] = after[p]]
        /\ after[p] # "exit" /\ UNCHANGED <<table, conn>>
        /\ rpc'[p] = "out" /\ \A q \in Process \ {p} : rpc'[q] = rpc[q]
    BY <1>5, RouteCalls DEF Disconnected, Goto, Quiet
  <2>2. after[p] \in Outside
    BY <2>1 DEF Quiet, Typed, LocalsOK, Outside
  <2>3. Off'
    BY <1>3, <2>1 DEF Reached, Off, EN!NoConnection
  <2>4. QED
    BY <1>2, <2>1, <2>2, <2>3, OutsideAgrees DEF Settled
<1>6. CASE Exit(p)
  BY <1>6 DEF Exit, Die, EN!Crash
<1>7. QED
  BY <1>4, <1>5, <1>6 DEF Disconnect

\* Every step of the handlers.
LEMMA HandlerAgrees ==
  ASSUME Quiet, Agreement, Undisturbed', NEW p \in Process, Handler(p)
  PROVE  Agreement'
<1> USE DEF netVars, engVars, disk
<1>1. pc[p] \in {"save", "setup"} => \A q \in Process \ {p} : pc[q] \in Outside
  BY Alone DEF Exclusive
<1>2. pc[p] \in {"save", "setup"} => rpc[p] = "out"
  BY DEF Agreement, RouteCallers
<1>3. Reached(p)
  BY DEF Agreement
<1>4. ASSUME NEW line \in Line \cup {NoLine}, RequestConnect(p, line) PROVE Agreement'
  BY <1>4, EnterConnectAgrees DEF RequestConnect, Request, Outside
<1>5. CASE RequestDisconnect(p)
  <2>1. pc[p] = Idle /\ EnterDisconnect(p, Idle) /\ pc' = [pc EXCEPT ![p] = "stopping"] /\ rpc' = rpc
    BY <1>5 DEF RequestDisconnect, Request, EnterDisconnect, Goto
  <2>2. "stopping" \in Exclusive
    BY DEF Exclusive, Disconnecting
  <2>3. QED
    BY <2>1, <2>2, BeginsAlone, EnterDisconnectAgrees
<1>6. CASE RequestSettings(p)
  <2>1. /\ pc[p] = Idle /\ pc' = [pc EXCEPT ![p] = "save"] /\ UNCHANGED <<table, conn, uci, asked, rpc>>
        /\ EngineReadable /\ after' = [after EXCEPT ![p] = IF EN!IsRunning THEN "lock" ELSE Idle]
    BY <1>6 DEF RequestSettings, Request, Goto
  <2>2. "save" \in Exclusive
    BY DEF Exclusive
  <2>3. /\ pc'[p] = "save" /\ \A q \in Process \ {p} : pc'[q] = pc[q] /\ pc[q] \in Outside
        /\ Settled /\ rpc[p] = "out"
    BY <2>1, <2>2, BeginsAlone
  <2>4. Settled'
    BY <2>1, <2>3 DEF Settled, Off, Serves
  <2>5. after'[p] = Idle => Off'
    <3>1. after'[p] = Idle => ~EN!IsRunning
      BY <2>1 DEF Quiet, Typed, LocalsOK, Idle
    <3>2. QED
      BY <2>1, <2>3, <3>1, NotRunningMeansNotConnected DEF Settled, Off, Serves
  <2>6. Reached(p)'
    BY <2>3, <2>5 DEF Reached, Connecting
  <2>7. QED
    BY <2>1, <2>3, <2>4, <2>6, AloneStep
<1>7. ASSUME NEW new \in PostedSettings, SaveSettings(p, new) PROVE Agreement'
  <2>1. pc[p] = "save" /\ rpc' = rpc /\ table' = table
    BY <1>7 DEF SaveSettings
  <2>2. CASE after[p] = Idle
    <3>1. pc' = [pc EXCEPT ![p] = Idle] /\ conn' = conn
      BY <1>7, <2>2 DEF SaveSettings, Forget, Goto
    <3>2. Off'
      BY <1>3, <2>1, <2>2, <3>1 DEF Reached, Off
    <3>3. QED
      BY <1>1, <1>2, <2>1, <3>1, <3>2, OutsideAgrees DEF Outside, Settled
  <2>3. CASE after[p] # Idle
    <3>1. EnterDisconnect(p, after[p])
      BY <1>7, <2>3 DEF SaveSettings
    <3>2. QED
      BY <1>1, <1>2, <2>1, <3>1, EnterDisconnectAgrees
  <2>4. QED
    BY <2>2, <2>3
<1>8. ASSUME NEW mode \in Mode, RequestSetup(p, mode) PROVE Agreement'
  <2>1. /\ pc[p] = Idle /\ pc' = [pc EXCEPT ![p] = "setup"] /\ UNCHANGED <<table, conn, rpc, asked>>
        /\ uci' = [uci EXCEPT !.mode = mode, !.autoConnect = TRUE]
    BY <1>8 DEF RequestSetup, Request, Goto
  <2>2. "setup" \in Exclusive
    BY DEF Exclusive
  <2>3. /\ pc'[p] = "setup" /\ \A q \in Process \ {p} : pc'[q] = pc[q] /\ pc[q] \in Outside
        /\ Settled /\ rpc[p] = "out"
    BY <2>1, <2>2, BeginsAlone
  <2>4. uci.mode \in Mode /\ uci'.sessions = uci.sessions /\ uci'.selected = uci.selected
    BY <2>1 DEF Quiet, Typed, LocalsOK, Settings
  <2>5. Off' \/ (\E m \in Mode : Serves(m, uci.sessions))'
    <3>1. Off \/ Serves(uci.mode, uci.sessions)
      BY <2>3 DEF Settled
    <3>2. CASE Off
      BY <2>1, <3>2 DEF Off
    <3>3. CASE Serves(uci.mode, uci.sessions)
      <4>1. \E m \in Mode : Serves(m, uci.sessions)
        BY <2>4, <3>3
      <4>2. QED
        BY <2>1, <2>4, <4>1 DEF Serves
    <3>4. QED
      BY <3>1, <3>2, <3>3
  <2>6. Reached(p)'
    BY <2>3, <2>4, <2>5 DEF Reached, Connecting
  <2>7. QED
    BY <2>1, <2>3, <2>6, AloneStep DEF Moving
<1>9. CASE SetupNetwork(p)
  <2>1. pc[p] = "setup" /\ rpc' = rpc
    BY <1>9 DEF SetupNetwork
  <2>2. CASE EN!IsRunning
    <3>1. EnterDisconnect(p, "lock")
      BY <1>9, <2>2 DEF SetupNetwork
    <3>2. QED
      BY <1>1, <1>2, <2>1, <3>1, EnterDisconnectAgrees
  <2>3. CASE ~EN!IsRunning
    <3>1. pc' = [pc EXCEPT ![p] = "lock"] /\ UNCHANGED <<table, conn>> /\ EngineReadable
      BY <1>9, <2>3 DEF SetupNetwork, EnterConnect, Goto
    <3>2. Off'
      BY <1>3, <2>1, <2>3, <3>1, NotRunningMeansNotConnected DEF Reached, Off, Serves
    <3>3. QED
      BY <1>1, <1>2, <2>1, <3>1, <3>2, OutsideAgrees DEF Outside, Settled
  <2>4. QED
    BY <2>2, <2>3
<1>10. QED
  BY <1>4, <1>5, <1>6, <1>7, <1>8, <1>9 DEF Handler

\* The goroutines of runDaemon, and the deaths of children.
LEMMA BackgroundAgrees ==
  ASSUME Quiet, Agreement, Undisturbed', up',
         \/ AutoConnect \/ AutoRouteWatchdog \/ Supervise \/ Terminate
         \/ ChildDies \/ StrayExits \/ Crash \/ Restart
  PROVE  Agreement'
<1> USE DEF netVars, engVars, disk, locals
<1>1. {Boot, Watchdog, Supervisor, Signal} \subseteq Process
  BY DEF Process
<1>2. Idle \in Outside /\ "boot" \in Outside
  BY DEF Outside
<1>3. CASE AutoConnect
  <2>1. /\ pc[Boot] = "boot" /\ UNCHANGED <<table, conn, uci, asked, epc, earg, rpc, rarg>>
        /\ EnterConnect(Boot, NoLine) \/ Forget(Boot)
    BY <1>3 DEF AutoConnect
  <2>2. CASE EnterConnect(Boot, NoLine)
    BY <1>1, <1>2, <2>1, <2>2, EnterConnectAgrees
  <2>3. CASE Forget(Boot)
    <3>1. /\ pc' = [pc EXCEPT ![Boot] = Idle]
          /\ \A q \in Process \ {Boot} : /\ want'[q] = want[q] /\ got'[q] = got[q] /\ snap'[q] = snap[q]
                                         /\ switching'[q] = switching[q] /\ after'[q] = after[q]
      BY <2>3 DEF Forget, Goto, Quiet, Typed, LocalsOK
    <3>2. QED
      BY <1>1, <1>2, <2>1, <3>1, PassiveStep DEF Quiet
  <2>4. QED
    BY <2>1, <2>2, <2>3
<1>4. CASE WatchdogTick
  <2>1. pc[Watchdog] = Idle /\ UNCHANGED <<table, conn, uci, asked, epc, earg, rpc, rarg>>
    BY <1>4 DEF WatchdogTick
  <2>2. CASE EnterConnect(Watchdog, NoLine)
    BY <1>1, <1>2, <2>1, <2>2, EnterConnectAgrees
  <2>3. CASE pc' = [pc EXCEPT ![Watchdog] = "probe"]
    <3>1. "probe" \in Exclusive
      BY DEF Exclusive
    <3>2. /\ pc'[Watchdog] = "probe"
          /\ \A q \in Process \ {Watchdog} : pc'[q] = pc[q] /\ pc[q] \in Outside
          /\ Settled /\ rpc[Watchdog] = "out"
      BY <1>1, <2>1, <2>3, <3>1, BeginsAlone
    <3>3. Settled'
      BY <2>1, <3>2 DEF Settled, Off, Serves
    <3>4. Reached(Watchdog)'
      BY <3>2 DEF Reached, Connecting
    <3>5. QED
      BY <1>1, <2>1, <3>2, <3>3, <3>4, AloneStep
  <2>4. QED
    BY <1>4, <2>2, <2>3 DEF WatchdogTick, Goto
<1>5. ASSUME pc[Watchdog] \in {"probe", "recheck"}
      PROVE  /\ \A q \in Process \ {Watchdog} : pc[q] \in Outside
             /\ Settled /\ rpc[Watchdog] = "out" /\ Reached(Watchdog)
  <2>1. \A q \in Process \ {Watchdog} : pc[q] \in Outside
    BY <1>1, <1>5, Alone DEF Exclusive
  <2>2. Settled
    BY <1>1, <1>5, <2>1, AloneSettled DEF Moving
  <2>3. QED
    BY <1>1, <1>5, <2>1, <2>2 DEF Agreement, RouteCallers
<1>6. CASE WatchdogProbe
  <2>1. /\ pc[Watchdog] = "probe" /\ UNCHANGED <<table, conn, uci, asked, rpc>>
        /\ \/ pc' = [pc EXCEPT ![Watchdog] = Idle]
           \/ pc' = [pc EXCEPT ![Watchdog] = "recheck"] /\ table = << >>
    BY <1>6 DEF WatchdogProbe, Forget, Goto
  <2>2. Settled'
    BY <1>5, <2>1 DEF Settled, Off, Serves
  <2>3. CASE pc' = [pc EXCEPT ![Watchdog] = Idle]
    BY <1>1, <1>2, <1>5, <2>1, <2>2, <2>3, OutsideAgrees
  <2>4. CASE pc' = [pc EXCEPT ![Watchdog] = "recheck"] /\ table = << >>
    <3>1. pc'[Watchdog] = "recheck" /\ \A q \in Process \ {Watchdog} : pc'[q] = pc[q]
      BY <1>1, <2>4 DEF Quiet, Typed, LocalsOK
    <3>2. Reached(Watchdog)'
      BY <2>1, <2>4, <3>1 DEF Reached, Connecting
    <3>3. QED
      BY <1>1, <1>5, <2>1, <2>2, <3>1, <3>2, AloneStep
  <2>5. QED
    BY <2>1, <2>3, <2>4
<1>7. CASE WatchdogRecheck
  <2>1. pc[Watchdog] = "recheck" /\ UNCHANGED <<table, conn, uci, asked, rpc>> /\ EngineReadable
    BY <1>7 DEF WatchdogRecheck
  <2>2. ~EN!IsRunning
    <3>1. table = << >>
      BY <1>5, <2>1 DEF Reached
    <3>2. conn = EN!NoConnection
      BY <1>5, <2>1, <3>1 DEF Settled, Off, Serves
    <3>3. cmd = 1..conn.sessions
      BY <2>1 DEF Quiet, ENP!IInv, ENP!TrackedSessions, EngineReadable
    <3>4. QED
      BY <3>2, <3>3 DEF EN!IsRunning, EN!NoConnection
  <2>3. pc' = [pc EXCEPT ![Watchdog] = Idle]
    BY <1>7, <2>2 DEF WatchdogRecheck, Forget, Goto
  <2>4. Settled'
    BY <1>5, <2>1 DEF Settled, Off, Serves
  <2>5. QED
    BY <1>1, <1>2, <1>5, <2>1, <2>3, <2>4, OutsideAgrees
<1>8. ~(WatchdogServers \/ WatchdogRepair \/ WatchdogDone)
  BY <1>1 DEF WatchdogServers, WatchdogRepair, WatchdogDone, Agreement, Reached
<1>9. CASE UNCHANGED <<pc, want, got, snap, switching, after, uci, asked, table, conn, epc, earg, rpc, rarg>>
  BY <1>9 DEF Agreement, RouteCallers, Reached, Settled, Off, Serves, Planned, Rules
<1>10. CASE Supervise
  <2>1. pc[Supervisor] = Idle /\ UNCHANGED <<table, conn, uci, asked, epc, earg, rpc, rarg>>
    BY <1>10 DEF Supervise
  <2>2. CASE EnterConnect(Supervisor, NoLine)
    BY <1>1, <1>2, <2>1, <2>2, EnterConnectAgrees
  <2>3. QED
    BY <1>9, <1>10, <2>1, <2>2 DEF Supervise
<1>11. CASE Terminate
  <2>1. /\ pc[Signal] = Idle /\ EnterDisconnect(Signal, "exit")
        /\ pc' = [pc EXCEPT ![Signal] = "stopping"] /\ rpc' = rpc
    BY <1>11 DEF Terminate, EnterDisconnect, Goto
  <2>2. "stopping" \in Exclusive
    BY DEF Exclusive, Disconnecting
  <2>3. QED
    BY <1>1, <2>1, <2>2, BeginsAlone, EnterDisconnectAgrees
<1>12. CASE ChildDies \/ StrayExits
  BY <1>9, <1>12 DEF ChildDies, StrayExits, EN!ChildDies, EN!StrayExits
<1>13. ~Crash /\ ~Restart
  BY DEF Crash, Die, EN!Crash, Restart, EN!Restart, Quiet
<1>14. QED
  BY <1>3, <1>4, <1>6, <1>7, <1>8, <1>10, <1>11, <1>12, <1>13 DEF AutoRouteWatchdog

LEMMA AgreementStep == Quiet /\ Agreement /\ Undisturbed' /\ up' /\ [Next]_vars => Agreement'
<1> SUFFICES ASSUME Quiet, Agreement, Undisturbed', up', [Next]_vars PROVE Agreement'
  OBVIOUS
<1>1. CASE UNCHANGED vars
  BY <1>1 DEF vars, netVars, engVars, locals, disk, Agreement, RouteCallers, Reached, Settled, Off,
     Serves, Planned, Rules
<1>2. QED
  BY <1>1, ConnectAgrees, DisconnectAgrees, HandlerAgrees, NetfilterAgrees, ChildrenAgrees,
     BackgroundAgrees DEF Next, Run

\* The daemon starts with nothing on.
LEMMA AgreementInit == Init => Agreement
<1> SUFFICES ASSUME Init PROVE Agreement
  OBVIOUS
<1>1. \A p \in Process : pc[p] \in Outside /\ rpc[p] = "out"
  BY DEF Init, RD!Init, FreshPc, Outside
<1>2. Off
  BY DEF Init, RD!Init, EN!Init, Off
<1>3. QED
  BY <1>1, <1>2 DEF Agreement, RouteCallers, Reached, Settled, Outside, Idle, Connecting

(***************************************************************************)
(* The daemon runs, or has ended by os.Exit in the SIGTERM handler: no     *)
(* kill has left a table behind.                                           *)
(***************************************************************************)
NeverKilled == up \/ stopped

\* While the daemon runs its goroutines agree.
Accord == up => Agreement

\* A daemon that has ended does nothing more.
LEMMA EndedStep == ~up /\ NeverKilled /\ [Next]_vars => ~up'
<1> SUFFICES ASSUME ~up, NeverKilled, [Next]_vars PROVE ~up'
  OBVIOUS
<1> USE DEF engVars, Die, EN!Return, EN!CallStop, EN!CallStart, EN!Crash, EnterDisconnect
<1>1. ASSUME NEW p \in Process, Netfilter(p) \/ Children(p) PROVE ~up'
  BY <1>1 DEF Netfilter, Children, EN!Enter, EN!Succeed, EN!Fail, EN!Start, EN!StartRefused,
     EN!StartFails, EN!Stop, EN!Spawn, EN!SpawnFails, EN!Kill, EN!Publish, EN!Reap, EN!Stopped
<1>2. ASSUME NEW p \in Process, Connect(p) \/ Disconnect(p) PROVE ~up'
  BY <1>2 DEF Connect, AcquireConnect, NotLoggedIn, CheckRunning, AlreadyConnected, SwitchLine,
     ApiFails, ApiConnect, OldEngineStopped, OldRoutesGone, Started, NotStarted, Route, Routed,
     NotRouted, Undone, Disconnect, EngineStopped, Disconnected, Exit
<1>3. ASSUME NEW p \in Process, Handler(p) PROVE ~up'
  BY <1>3 DEF Handler, RequestDisconnect, RequestSettings, SetupNetwork, RequestConnect,
     RequestSetup, SaveSettings
<1>4. CASE AutoConnect \/ AutoRouteWatchdog \/ Supervise \/ Terminate
  BY <1>4 DEF AutoConnect, AutoRouteWatchdog, WatchdogTick, WatchdogProbe, WatchdogRecheck,
     WatchdogServers, WatchdogRepair, WatchdogDone, Supervise, Terminate
<1>5. ~Restart
  BY DEF Restart, NeverKilled
<1>6. CASE ChildDies \/ StrayExits \/ Crash \/ UNCHANGED vars
  BY <1>6 DEF ChildDies, EN!ChildDies, StrayExits, EN!StrayExits, Crash, vars
<1>7. QED
  BY <1>1, <1>2, <1>3, <1>4, <1>5, <1>6 DEF Next, Run

\* Every step that no kill is keeps the accord.
LEMMA AccordStep ==
  ASSUME IInv, RDP!IInv, NeverKilled, Undisturbed, Accord, Undisturbed', [Next]_vars
  PROVE  Accord'
<1>1. CASE ~up
  BY <1>1, EndedStep DEF Accord
<1>2. CASE up
  <2>1. Quiet
    BY <1>2 DEF IInv, Quiet
  <2>2. QED
    BY <1>2, <2>1, AgreementStep DEF Accord
<1>3. QED
  BY <1>1, <1>2

\* Unless it is killed, and while what is not a connect is left alone, the goroutines agree.
THEOREM AccordHolds == Spec /\ [](NeverKilled /\ Undisturbed) => []Accord
<1>1. Init => Accord
  BY AgreementInit DEF Accord
<1>2. /\ IInv /\ RDP!IInv /\ NeverKilled /\ Undisturbed /\ Accord
      /\ Undisturbed' /\ [Next]_vars
      => Accord'
  BY AccordStep
<1>3. QED
  BY <1>1, <1>2, Inductive, RedirectInductive, PTL DEF Spec

(***************************************************************************)
(* Between operations there is no engine and no table, or a table built    *)
(* for the servers and sessions that run: on every error path of connects  *)
(* that race and of anything else that is left alone, for any clients,     *)
(* settings, faults and dying children, until the daemon is killed.        *)
(***************************************************************************)
THEOREM EngineAgreesWithRoutes == Spec /\ [](NeverKilled /\ Undisturbed) => []EngineAndRoutesAgree
<1>1. Accord => EngineAndRoutesAgree
  <2> SUFFICES ASSUME Accord, AtRest PROVE Off \/ Serves(uci.mode, uci.sessions)
    BY DEF EngineAndRoutesAgree, Off, Serves
  <2>1. \A p \in Process : pc[p] \notin Moving
    BY DEF AtRest, Moving, Idle
  <2>2. QED
    BY <2>1 DEF Accord, AtRest, Agreement, Settled
<1>2. QED
  BY <1>1, AccordHolds, PTL

(***************************************************************************)
(* Between operations what runs has the mode and the sessions of the saved *)
(* settings, and their line or the one with which a connect to it was      *)
(* answered, under the same conditions.                                    *)
(***************************************************************************)
THEOREM SettingsAreApplied == Spec /\ [](NeverKilled /\ Undisturbed) => []SettingsApplied
<1>1. Accord => SettingsApplied
  <2> SUFFICES ASSUME Accord, AtRest, table # << >> PROVE Serves(uci.mode, uci.sessions)
    BY DEF SettingsApplied, Serves
  <2>1. \A p \in Process : pc[p] \notin Moving
    BY DEF AtRest, Moving, Idle
  <2>2. QED
    BY <2>1 DEF Accord, AtRest, Agreement, Settled, Off
<1>2. QED
  BY <1>1, AccordHolds, PTL
=============================================================================
