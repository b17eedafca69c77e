------------------------------- MODULE Engine -------------------------------
(***************************************************************************)
(* mihomo.go: the engine owns one ss-redir child per session, slot 1 to 3, *)
(* each listening on its own fixed port.  start and stop run under e.mu    *)
(* and work slot by slot, so a spawn that fails half way and a daemon that *)
(* dies half way are behaviours.                                           *)
(*                                                                         *)
(* A child that dies stays a zombie until the daemon waits for it, and     *)
(* only stop and the clean-up of a failed start do: kill(pid, 0), which is *)
(* Process.Signal(0), succeeds on a zombie.                                *)
(***************************************************************************)
EXTENDS Naturals, FiniteSets

CONSTANTS Process, NoProcess,
          Line,           \* servers the API hands out
          NoLine,         \* no server
          MaxSessions     \* 3 in the code

ASSUME EngineAssumption ==
  /\ NoProcess \notin Process
  /\ NoLine \notin Line
  /\ MaxSessions \in Nat \ {0}

Slot == 1..MaxSessions

\* What startConnections is given: the line and one response per session.
Connection == [line : Line, sessions : Slot]
NoConnection == [line |-> NoLine, sessions |-> 0]

VARIABLES
  up,           \* the daemon runs
  cmd,          \* e.cmd, e.cmd2, e.cmd3: the slots whose pointer is not nil
  child,        \* the state of the process last started on each slot
  stray,        \* ports held by an ss-redir that outlived its daemon
  conn,         \* connected, lineID, lineName, server, servers, sessionLines
  emu,          \* the holder of e.mu
  epc,          \* where each caller is inside start or stop
  earg          \* the connection each caller starts

vars == <<up, cmd, child, stray, conn, emu, epc, earg>>

Label == {"out", "start", "spawn", "kill", "stop", "reap", "ok", "err"}

Init ==
  /\ up = TRUE
  /\ cmd = {}
  /\ child = [s \in Slot |-> "none"]
  /\ stray = {}
  /\ conn = NoConnection
  /\ emu = NoProcess
  /\ epc = [p \in Process |-> "out"]
  /\ earg = [p \in Process |-> NoConnection]

Goto(p, label) == epc' = [epc EXCEPT ![p] = label]
Finish(p, result) == Goto(p, result) /\ emu' = NoProcess

-----------------------------------------------------------------------------
\* kill(pid, 0) = 0: true of a zombie as well.
Signal0(s) == child[s] \in {"running", "defunct"}

\* isRunningLocked; isRunning takes e.mu around it.
IsRunning == 1 \in cmd /\ \A s \in cmd : Signal0(s)

\* activeSessionCount
ActiveSessionCount == Cardinality({s \in cmd : Signal0(s)})

\* supervise's condition for calling onRestart
EngineDied == conn # NoConnection /\ ~IsRunning /\ 1 \in cmd

-----------------------------------------------------------------------------
CallStart(p, c) ==
  /\ up /\ epc[p] = "out"
  /\ Goto(p, "start")
  /\ earg' = [earg EXCEPT ![p] = c]
  /\ UNCHANGED <<up, cmd, child, stray, conn, emu>>

CallStop(p) ==
  /\ up /\ epc[p] = "out"
  /\ Goto(p, "stop")
  /\ UNCHANGED <<up, cmd, child, stray, conn, emu, earg>>

\* Seeded error: a start does not look whether the engine runs.
StartUnguarded(p) ==
  /\ epc[p] = "start"
  /\ emu = NoProcess
  /\ emu' = p
  /\ Goto(p, "spawn")
  /\ UNCHANGED <<up, cmd, child, stray, conn, earg>>

Start(p) ==
  /\ epc[p] = "start"
  /\ emu = NoProcess
  /\ ~IsRunning
  /\ emu' = p
  /\ Goto(p, "spawn")
  /\ UNCHANGED <<up, cmd, child, stray, conn, earg>>

\* "engine already running"
StartRefused(p) ==
  /\ epc[p] = "start"
  /\ emu = NoProcess
  /\ IsRunning
  /\ Goto(p, "err")
  /\ UNCHANGED <<up, cmd, child, stray, conn, emu, earg>>

\* No Shadowsocks endpoint, no binary, no engine directory.
StartFails(p) ==
  /\ epc[p] = "start"
  /\ emu = NoProcess
  /\ Goto(p, "err")
  /\ UNCHANGED <<up, cmd, child, stray, conn, emu, earg>>

Unspawned(p) == {s \in 1..earg[p].sessions : s \notin cmd}
IsFirst(s, S) == s \in S /\ \A t \in S : s <= t
IsLast(s, S) == s \in S /\ \A t \in S : t <= s

\* startOne: a child whose port is taken starts, fails to bind and exits.
Spawn(p) ==
  /\ epc[p] = "spawn"
  /\ \E s \in Slot :
       /\ IsFirst(s, Unspawned(p))
       /\ cmd' = cmd \cup {s}
       /\ child' = [child EXCEPT ![s] = IF s \in stray THEN "defunct" ELSE "running"]
  /\ UNCHANGED <<up, stray, conn, emu, epc, earg>>

\* Seeded error: the children started before a failed one are left.
SpawnFailsLeaks(p) ==
  /\ epc[p] = "spawn"
  /\ Unspawned(p) # {}
  /\ Finish(p, "err")
  /\ UNCHANGED <<up, cmd, child, stray, conn, earg>>

\* startOne fails: the children started before it are killed, last first.
SpawnFails(p) ==
  /\ epc[p] = "spawn"
  /\ Unspawned(p) # {}
  /\ IF cmd = {} THEN Finish(p, "err") ELSE Goto(p, "kill") /\ UNCHANGED emu
  /\ UNCHANGED <<up, cmd, child, stray, conn, earg>>

\* Seeded error: the pointer is cleared without a Wait.
ReapedWithoutWait(s) == cmd' = cmd \ {s} /\ UNCHANGED child

\* SIGTERM, Wait, and the pointer becomes nil.
Reaped(s) == cmd' = cmd \ {s} /\ child' = [child EXCEPT ![s] = "none"]

Kill(p) ==
  /\ epc[p] = "kill"
  /\ \E s \in Slot : IsLast(s, cmd) /\ Reaped(s)
  /\ IF cmd' = {} THEN Finish(p, "err") ELSE UNCHANGED <<emu, epc>>
  /\ UNCHANGED <<up, stray, conn, earg>>

Publish(p) ==
  /\ epc[p] = "spawn"
  /\ Unspawned(p) = {}
  /\ conn' = earg[p]
  /\ Finish(p, "ok")
  /\ UNCHANGED <<up, cmd, child, stray, earg>>

Stop(p) ==
  /\ epc[p] = "stop"
  /\ emu = NoProcess
  /\ emu' = p
  /\ Goto(p, "reap")
  /\ UNCHANGED <<up, cmd, child, stray, conn, earg>>

Reap(p) ==
  /\ epc[p] = "reap"
  /\ \E s \in Slot : IsFirst(s, cmd) /\ Reaped(s)
  /\ UNCHANGED <<up, stray, conn, emu, epc, earg>>

\* Seeded error: stop keeps e.mu.
StoppedLocked(p) ==
  /\ epc[p] = "reap"
  /\ cmd = {}
  /\ conn' = NoConnection
  /\ Goto(p, "ok")
  /\ UNCHANGED <<up, cmd, child, stray, emu, earg>>

Stopped(p) ==
  /\ epc[p] = "reap"
  /\ cmd = {}
  /\ conn' = NoConnection
  /\ Finish(p, "ok")
  /\ UNCHANGED <<up, cmd, child, stray, earg>>

Return(p) ==
  /\ epc[p] \in {"ok", "err"}
  /\ Goto(p, "out")
  /\ earg' = [earg EXCEPT ![p] = NoConnection]
  /\ UNCHANGED <<up, cmd, child, stray, conn, emu>>

-----------------------------------------------------------------------------
ChildDies(s) ==
  /\ child[s] = "running"
  /\ child' = [child EXCEPT ![s] = "defunct"]
  /\ UNCHANGED <<up, cmd, stray, conn, emu, epc, earg>>

\* The daemon is killed: its children live on, reparented, on their ports.
Crash ==
  /\ up
  /\ up' = FALSE
  /\ stray' = stray \cup {s \in Slot : child[s] = "running"}
  /\ cmd' = {}
  /\ child' = [s \in Slot |-> "none"]
  /\ conn' = NoConnection
  /\ emu' = NoProcess
  /\ epc' = [p \in Process |-> "out"]
  /\ earg' = [p \in Process |-> NoConnection]

\* procd starts the daemon again; cleanupStaleEngine signals the strays and
\* does not wait for them.
Restart ==
  /\ ~up
  /\ up' = TRUE
  /\ UNCHANGED <<cmd, child, stray, conn, emu, epc, earg>>

StrayExits(s) ==
  /\ s \in stray
  /\ stray' = stray \ {s}
  /\ UNCHANGED <<up, cmd, child, conn, emu, epc, earg>>

-----------------------------------------------------------------------------
Succeed(p) ==
  Spawn(p) \/ Kill(p) \/ Publish(p) \/ Reap(p) \/ Stopped(p)

Fail(p) == StartFails(p) \/ SpawnFails(p)

Enter(p) == Start(p) \/ StartRefused(p) \/ Stop(p)

Next ==
  \/ \E p \in Process :
       \/ Enter(p) \/ Succeed(p) \/ Fail(p) \/ Return(p) \/ CallStop(p)
       \/ \E c \in Connection : CallStart(p, c)
  \/ \E s \in Slot : ChildDies(s) \/ StrayExits(s)
  \/ Crash \/ Restart

Spec == Init /\ [][Next]_vars

Fairness == \A p \in Process : SF_vars(Enter(p)) /\ WF_vars(Succeed(p) \/ Return(p))

FairSpec == Spec /\ Fairness

-----------------------------------------------------------------------------
(***************************************************************************)
(* Types of the engine's fields, its children and its callers.             *)
(***************************************************************************)
TypeOK ==
  /\ up \in BOOLEAN
  /\ cmd \subseteq Slot
  /\ child \in [Slot -> {"none", "running", "defunct"}]
  /\ stray \subseteq Slot
  /\ conn \in Connection \cup {NoConnection}
  /\ emu \in Process \cup {NoProcess}
  /\ epc \in [Process -> Label]
  /\ earg \in [Process -> Connection \cup {NoConnection}]

(***************************************************************************)
(* Whenever e.mu is free, the children the daemon can still reach are      *)
(* those of the sessions it reports, one for each and no other: neither a  *)
(* start that failed at any slot nor a stop leaves one behind.             *)
(***************************************************************************)
TrackedSessions == emu = NoProcess => cmd = 1..conn.sessions

(***************************************************************************)
(* A child that was started is never forgotten: as long as it has not been *)
(* waited for, its pointer is set, so a later stop will reach it.          *)
(***************************************************************************)
NoForgottenChild == \A s \in Slot : child[s] # "none" <=> s \in cmd

(***************************************************************************)
(* A start never overwrites the pointer of a child on its slot, nor the    *)
(* fields of a connection still in place.                                  *)
(***************************************************************************)
StartFindsNothing ==
  \A p \in Process : epc[p] = "spawn" => /\ conn = NoConnection
                                         /\ cmd \subseteq 1..earg[p].sessions

(***************************************************************************)
(* Every start and stop that was called returns or dies with the daemon:   *)
(* no early return keeps e.mu.                                             *)
(***************************************************************************)
CallsReturn == \A p \in Process : epc[p] \in {"start", "stop"} ~> epc[p] = "out"
=============================================================================
