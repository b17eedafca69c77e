---------------------------- MODULE EngineProofs ----------------------------
(***************************************************************************)
(* Proofs about Engine, for any callers, any lines and any number of       *)
(* session slots.                                                          *)
(*                                                                         *)
(* The argument: e.mu admits one caller, a start that holds it found no    *)
(* child and no connection, and a pointer is nil exactly when its child    *)
(* has been waited for.  That last part is what makes a start safe: a dead *)
(* child is still a zombie, so "not running" can only mean "no child".     *)
(***************************************************************************)
EXTENDS Engine, TLAPS

\* A caller is between its Lock and its Unlock exactly when it holds e.mu.
MutexInv == \A p \in Process : epc[p] \in {"spawn", "kill", "reap"} <=> emu = p

\* What a start has established while it holds e.mu.
StageInv ==
  \A p \in Process :
    /\ epc[p] \in {"start", "spawn"} => earg[p] \in Connection
    /\ epc[p] \in {"spawn", "kill"} => conn = NoConnection
    /\ epc[p] = "spawn" => cmd \subseteq 1..earg[p].sessions

IInv == TypeOK /\ MutexInv /\ StageInv /\ TrackedSessions /\ NoForgottenChild

-----------------------------------------------------------------------------
\* The engine of a daemon that has just started.
LEMMA InductiveInit == Init => IInv
<1> SUFFICES ASSUME Init PROVE IInv
  OBVIOUS
<1>1. TypeOK
  BY DEF Init, TypeOK, Label
<1>2. MutexInv /\ StageInv
  BY EngineAssumption DEF Init, MutexInv, StageInv
<1>3. TrackedSessions /\ NoForgottenChild
  BY DEF Init, TrackedSessions, NoForgottenChild, NoConnection
<1>4. QED
  BY <1>1, <1>2, <1>3 DEF IInv

(***************************************************************************)
(* Every caller, call, command and death keeps the invariant.              *)
(***************************************************************************)
LEMMA InductiveStep == IInv /\ [Next]_vars => IInv'
<1> SUFFICES ASSUME IInv, [Next]_vars PROVE IInv'
  OBVIOUS
<1> USE EngineAssumption
    DEF IInv, TypeOK, MutexInv, StageInv, TrackedSessions, NoForgottenChild,
        Label, Connection, NoConnection, Slot, Goto, Finish
<1>1. ASSUME NEW p \in Process, NEW c \in Connection, CallStart(p, c) PROVE IInv'
  BY <1>1 DEF CallStart
<1>2. ASSUME NEW p \in Process, CallStop(p) PROVE IInv'
  BY <1>2 DEF CallStop
<1>3. ASSUME NEW p \in Process, Start(p) PROVE IInv'
  <2>1. conn = NoConnection /\ cmd = {}
    <3>1. cmd = 1..conn.sessions /\ 1 \notin cmd
      BY <1>3 DEF Start, IsRunning, Signal0
    <3>2. QED
      BY <3>1
  <2>2. QED
    BY <1>3, <2>1 DEF Start
<1>4. ASSUME NEW p \in Process, StartRefused(p) \/ StartFails(p) PROVE IInv'
  BY <1>4 DEF StartRefused, StartFails
<1>5. ASSUME NEW p \in Process, Spawn(p) PROVE IInv'
  BY <1>5 DEF Spawn, IsFirst, Unspawned
<1>6. ASSUME NEW p \in Process, SpawnFails(p) PROVE IInv'
  <2>1. conn = NoConnection /\ 1..conn.sessions = {} /\ epc[p] = "spawn" /\ emu = p
    BY <1>6 DEF SpawnFails
  <2>2. CASE cmd = {}
    BY <1>6, <2>1, <2>2 DEF SpawnFails
  <2>3. CASE cmd # {}
    BY <1>6, <2>1, <2>3 DEF SpawnFails
  <2>4. QED
    BY <2>2, <2>3
<1>7. ASSUME NEW p \in Process, Kill(p) PROVE IInv'
  <2>1. conn = NoConnection /\ 1..conn.sessions = {} /\ epc[p] = "kill" /\ emu = p
    BY <1>7 DEF Kill
  <2>2. PICK s \in Slot : s \in cmd /\ Reaped(s)
    BY <1>7 DEF Kill, IsLast
  <2>3. cmd' = cmd \ {s} /\ child' = [child EXCEPT ![s] = "none"]
    BY <2>2 DEF Reaped
  <2>4. /\ UNCHANGED <<up, stray, conn, earg>>
        /\ \/ cmd' = {} /\ emu' = NoProcess /\ epc' = [epc EXCEPT ![p] = "err"]
           \/ UNCHANGED <<emu, epc>>
    BY <1>7 DEF Kill
  <2>5. TypeOK'
    BY <2>3, <2>4
  <2>6. MutexInv' /\ StageInv' /\ TrackedSessions'
    BY <2>1, <2>4
  <2>7. NoForgottenChild'
    BY <2>3
  <2>8. QED
    BY <2>5, <2>6, <2>7
<1>8. ASSUME NEW p \in Process, Publish(p) PROVE IInv'
  BY <1>8 DEF Publish, Unspawned
<1>9. ASSUME NEW p \in Process, Stop(p) PROVE IInv'
  BY <1>9 DEF Stop
<1>10. ASSUME NEW p \in Process, Reap(p) PROVE IInv'
  BY <1>10 DEF Reap, IsFirst, Reaped
<1>11. ASSUME NEW p \in Process, Stopped(p) PROVE IInv'
  BY <1>11 DEF Stopped
<1>12. ASSUME NEW p \in Process, Return(p) PROVE IInv'
  BY <1>12 DEF Return
<1>13. ASSUME NEW s \in Slot, ChildDies(s) PROVE IInv'
  BY <1>13 DEF ChildDies
<1>14. ASSUME NEW s \in Slot, StrayExits(s) PROVE IInv'
  BY <1>14 DEF StrayExits
<1>15. CASE Crash
  <2>1. stray' \subseteq Slot /\ up' \in BOOLEAN
    BY <1>15 DEF Crash
  <2>2. TypeOK'
    BY <1>15, <2>1 DEF Crash
  <2>3. MutexInv' /\ StageInv'
    BY <1>15 DEF Crash
  <2>4. TrackedSessions' /\ NoForgottenChild'
    BY <1>15 DEF Crash
  <2>5. QED
    BY <2>2, <2>3, <2>4
<1>16. CASE Restart
  BY <1>16 DEF Restart
<1>17. CASE UNCHANGED vars
  BY <1>17 DEF vars
<1>18. QED
  BY <1>1, <1>2, <1>3, <1>4, <1>5, <1>6, <1>7, <1>8, <1>9, <1>10, <1>11, <1>12,
     <1>13, <1>14, <1>15, <1>16, <1>17 DEF Next, Enter, Succeed, Fail

\* The conjunction of all of it is an inductive invariant.
THEOREM Inductive == Spec => []IInv
<1>1. QED
  BY InductiveInit, InductiveStep, PTL DEF Spec

\* Every field of the engine keeps its type.
THEOREM TypeCorrect == Spec => []TypeOK
<1>1. IInv => TypeOK
  BY DEF IInv
<1>2. QED
  BY Inductive, <1>1, PTL

(***************************************************************************)
(* Neither a start that failed at any slot nor a stop leaves a child that  *)
(* the daemon does not report, for any number of slots.                    *)
(***************************************************************************)
THEOREM Tracked == Spec => []TrackedSessions
<1>1. IInv => TrackedSessions
  BY DEF IInv
<1>2. QED
  BY Inductive, <1>1, PTL

(***************************************************************************)
(* No pointer is cleared before its child was waited for, and none stays   *)
(* set after.                                                              *)
(***************************************************************************)
THEOREM NoneForgotten == Spec => []NoForgottenChild
<1>1. IInv => NoForgottenChild
  BY DEF IInv
<1>2. QED
  BY Inductive, <1>1, PTL

(***************************************************************************)
(* A start overwrites no pointer and no connection: whoever called what,   *)
(* "not running" implies that there is nothing to overwrite.               *)
(***************************************************************************)
THEOREM StartsFromNothing == Spec => []StartFindsNothing
<1>1. IInv => StartFindsNothing
  BY DEF IInv, StageInv, StartFindsNothing
<1>2. QED
  BY Inductive, <1>1, PTL
=============================================================================
