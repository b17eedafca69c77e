------------------------- MODULE MultiSessionProofs -------------------------
(***************************************************************************)
(* Proofs about MultiSession, for two and for three sessions and any       *)
(* bounds of the environment.                                              *)
(*                                                                         *)
(* The argument: the connector waits for every slot, so what it is at says *)
(* where all slots are (Stages); no two sign-ins of a device give the same *)
(* session, so a connection made with one of them never passes for one     *)
(* that an engine uses (Numbers); what a device is connected with is the   *)
(* connect's own session, or excused (Lines); and a file holds the last    *)
(* sign-in unless a writer of it is still to come (Files).                 *)
(***************************************************************************)
EXTENDS MultiSession, TLAPS

\* The types of all variables.
MultiTyped ==
  /\ session \in [Slot -> Nat] /\ lineOf \in [Slot -> Nat] /\ using \in [Slot -> Nat]
  /\ slotFile \in [Slot -> Nat]
  /\ file \in Nat /\ read \in Nat /\ pmine \in Nat
  /\ client \in [token : Nat, cookie : Nat]
  /\ running \in {0, Count} /\ switching \in BOOLEAN
  /\ mpc \in {"idle", "login", "connect", "stop", "start", "route", "cleanup",
              "swap", "save"}
  /\ wpc \in [Slot -> {"idle", "login", "save", "in", "connect", "connected", "failed"}]
  /\ mine \in [Slot -> Nat] /\ tries \in [Slot -> 0..Attempts - 1]
  /\ excused \subseteq Slot /\ behind \subseteq Slot \cup {0}
  /\ ppc \in {"idle", "save", "connect"} /\ rpc \in {"idle", "configure"}
  /\ mbudget \in [{"connect", "other", "fault"} -> Nat]

\* Where the connector is says where the slots' goroutines are, and what the engine is.
Stages ==
  /\ \A s \in Slot :
       /\ mpc = "idle" => wpc[s] = "idle"
       /\ mpc = "login" => wpc[s] \in {"login", "save", "in", "failed"}
       /\ mpc = "connect" => wpc[s] \in {"connect", "connected", "failed"}
       /\ mpc \in {"stop", "start", "route", "swap", "save"} => wpc[s] = "connected"
       /\ mpc = "cleanup" => wpc[s] \in {"connected", "idle"}
  /\ mpc \in {"start", "cleanup"} => running = 0
  /\ mpc \in {"login", "connect"} /\ ~switching => running = 0
  /\ mpc \in {"route", "swap", "save"} => using = mine

\* No session is of a sign-in to come, and no two sign-ins give the same.
Numbers ==
  /\ \A s \in Slot :
       /\ mine[s] <= session[s] /\ using[s] <= session[s] /\ lineOf[s] <= session[s]
       /\ wpc[s] \in {"save", "in", "connect"} => mine[s] # using[s]
  /\ ppc \in {"save", "connect"} =>
       /\ 0 < pmine /\ pmine <= session[Count]
       /\ pmine # mine[Count] /\ pmine # using[Count]

\* A connected slot is connected with its own session, or excused.
Lines ==
  /\ \A s \in Slot :
       /\ wpc[s] = "connected" /\ Honoured(s, mine[s]) => lineOf[s] = mine[s]
       /\ wpc[s] = "connected" /\ ~Honoured(s, mine[s]) /\ lineOf[s] # 0 => s \in excused
       /\ mpc = "cleanup" /\ wpc[s] = "idle" /\ lineOf[s] # 0 => s \in excused
       /\ mpc \in {"idle", "route", "swap", "save"} /\ running = 0 /\ lineOf[s] # 0 => s \in excused
  /\ EngineOnIssuedSessions

\* A file is current, or known to be behind, or a writer of it is still to come.
Files ==
  /\ \A s \in Slot \ behind :
       /\ wpc[s] = "save" => mine[s] = session[s]
       /\ s = Count /\ ppc = "save" => pmine = session[s]
       /\ slotFile[s] = session[s] \/ wpc[s] = "save" \/ (s = Count /\ ppc = "save")
  /\ running > 0 /\ 0 \notin behind => file = using[1] \/ mpc \in {"route", "swap", "save"}

MInv == MultiTyped /\ Stages /\ Numbers /\ Lines /\ Files

-----------------------------------------------------------------------------
\* Slot 1 and the last slot are different slots.
LEMMA Slots == /\ Slot = 1..Count /\ Count \in Nat /\ Count > 1
               /\ 1 \in Slot /\ Count \in Slot /\ Count # 1 /\ 0 \notin Slot
<1>1. QED
  BY MultiSessionAssumption DEF Slot

\* A spent budget keeps its type.
LEMMA SpendSlotTyped ==
  ASSUME MultiTyped, NEW what \in {"connect", "other", "fault"}, SpendSlot(what)
  PROVE  mbudget' \in [{"connect", "other", "fault"} -> Nat]
<1>1. mbudget[what] \in Nat \ {0}
  BY DEF MultiTyped, SpendSlot
<1>2. QED
  BY <1>1 DEF MultiTyped, SpendSlot

\* A router without sessions.
LEMMA MultiInductiveInit == MultiInit => MInv
<1> SUFFICES ASSUME MultiInit PROVE MInv
  OBVIOUS
<1> USE DEF MultiInit, All
<1>1. MultiTyped
  <2>1. switching \in BOOLEAN
    OBVIOUS
  <2>2. mbudget \in [{"connect", "other", "fault"} -> Nat]
    BY MultiSessionAssumption
  <2>3. tries \in [Slot -> 0..Attempts - 1]
    BY DEF Attempts
  <2>4. client \in [token : Nat, cookie : Nat]
    OBVIOUS
  <2>5. QED
    BY <2>1, <2>2, <2>3, <2>4 DEF MultiTyped
<1>2. Stages /\ Numbers /\ Lines /\ Files
  BY Slots DEF Stages, Numbers, Lines, EngineOnIssuedSessions, Files
<1>3. QED
  BY <1>1, <1>2 DEF MInv

-----------------------------------------------------------------------------
(* types *)

\* What a sign-in of a device leaves.
LEMMA IssueTyped ==
  ASSUME MultiTyped, NEW s \in Slot, Issue(s)
  PROVE  /\ session' \in [Slot -> Nat] /\ lineOf' \in [Slot -> Nat] /\ excused' \subseteq Slot
         /\ session'[s] = session[s] + 1 /\ lineOf'[s] = 0
         /\ \A t \in Slot \ {s} : session'[t] = session[t] /\ lineOf'[t] = lineOf[t]
<1>1. session[s] + 1 \in Nat /\ session \in [Slot -> Nat]
  BY DEF MultiTyped
<1>2. session' \in [Slot -> Nat] /\ session'[s] = session[s] + 1
      /\ \A t \in Slot \ {s} : session'[t] = session[t]
  BY <1>1 DEF Issue
<1>3. QED
  BY <1>2 DEF Issue, MultiTyped

\* What reset leaves.
LEMMA ResetTyped ==
  ASSUME Reset
  PROVE  /\ mpc' = "idle" /\ switching' \in BOOLEAN /\ switching' = FALSE
         /\ wpc' \in [Slot -> {"idle", "login", "save", "in", "connect", "connected", "failed"}]
         /\ mine' \in [Slot -> Nat] /\ tries' \in [Slot -> 0..Attempts - 1]
         /\ \A s \in Slot : wpc'[s] = "idle" /\ mine'[s] = 0
<1>1. switching' \in BOOLEAN
  BY DEF Reset
<1>2. 0 \in 0..Attempts - 1
  BY DEF Attempts
<1>3. QED
  BY <1>1, <1>2 DEF Reset, All, Connector

\* A slot's goroutine keeps the types.
LEMMA WorkerTyped ==
  ASSUME MultiTyped, NEW s \in Slot, SlotWorker(s)
  PROVE  MultiTyped'
<1> USE DEF MultiTyped, provider, files, engine, workers, triple, refresher, Worker, Free
<1>1. CASE Login(s)
  <2>1. mine' \in [Slot -> Nat]
    <3>1. session[s] + 1 \in Nat
      OBVIOUS
    <3>2. QED
      BY <1>1, <3>1 DEF Login
  <2>2. UNCHANGED <<using, switching, tries, slotFile, client>> /\ Issue(s)
    BY <1>1 DEF Login
  <2>3. behind' \subseteq Slot \cup {0}
    BY <1>1 DEF Login
  <2>4. QED
    BY <1>1, <2>1, <2>2, <2>3, IssueTyped DEF Login
<1>2. CASE LoginFails(s)
  <2>1. mbudget' \in [{"connect", "other", "fault"} -> Nat]
    BY <1>2, SpendSlotTyped DEF LoginFails
  <2>2. CASE tries[s] + 1 < Attempts /\ tries' = [tries EXCEPT ![s] = @ + 1]
             /\ UNCHANGED <<provider, wpc, excused, behind>>
    <3>1. tries[s] \in 0..Attempts - 1
      OBVIOUS
    <3>2. tries[s] + 1 \in 0..Attempts - 1
      BY <2>2, <3>1 DEF Attempts
    <3>3. tries' \in [Slot -> 0..Attempts - 1]
      BY <2>2, <3>2
    <3>4. QED
      BY <1>2, <2>1, <2>2, <3>3 DEF LoginFails
  <2>3. CASE Worker(s, "failed") /\ UNCHANGED <<tries, provider, excused, behind>>
    BY <1>2, <2>1, <2>3 DEF LoginFails
  <2>4. CASE Worker(s, "failed") /\ UNCHANGED tries /\ Issue(s) /\ behind' = behind \cup {s}
    BY <1>2, <2>1, <2>4, IssueTyped DEF LoginFails
  <2>5. QED
    BY <1>2, <2>2, <2>3, <2>4 DEF LoginFails
<1>3. CASE SaveSlot(s)
  <2>1. mbudget' \in [{"connect", "other", "fault"} -> Nat]
    BY <1>3, SpendSlotTyped DEF SaveSlot
  <2>2. QED
    BY <1>3, <2>1 DEF SaveSlot
<1>4. CASE ConnectSlot(s)
  <2>1. mbudget' \in [{"connect", "other", "fault"} -> Nat]
    BY <1>4, SpendSlotTyped DEF ConnectSlot
  <2>2. lineOf' \in [Slot -> Nat] /\ UNCHANGED switching
    BY <1>4 DEF ConnectSlot, OnLine
  <2>3. QED
    BY <1>4, <2>1, <2>2 DEF ConnectSlot
<1>5. QED
  BY <1>1, <1>2, <1>3, <1>4 DEF SlotWorker

\* The connector keeps the types.
LEMMA ConnectorTyped ==
  ASSUME MultiTyped, Begin \/ ConnectMultiLine
  PROVE  MultiTyped'
<1> USE DEF MultiTyped, provider, files, engine, workers, triple, refresher, Rest, Worker,
            Connector, Free
<1>1. CASE Begin
  <2>1. mbudget' \in [{"connect", "other", "fault"} -> Nat]
    BY <1>1, SpendSlotTyped DEF Begin
  <2>2. switching' \in BOOLEAN
    BY <1>1 DEF Begin
  <2>3. QED
    BY <1>1, <2>1, <2>2 DEF Begin, All
<1>2. CASE JoinedLogins
  <2>1. \/ Abandon
        \/ Connector("connect") /\ wpc' = All("connect") /\ UNCHANGED <<mine, tries, switching, excused>>
    BY <1>2 DEF JoinedLogins
  <2>2. CASE Abandon
    BY <1>2, <2>2, ResetTyped DEF JoinedLogins, Abandon, Connected
  <2>3. CASE Connector("connect") /\ wpc' = All("connect") /\ UNCHANGED <<mine, tries, switching, excused>>
    BY <1>2, <2>3 DEF JoinedLogins, All
  <2>4. QED
    BY <2>1, <2>2, <2>3
<1>3. CASE JoinedConnects
  <2>1. \/ Abandon
        \/ (mpc' = "stop" \/ mpc' = "start") /\ UNCHANGED <<wpc, mine, tries, switching, excused>>
    BY <1>3 DEF JoinedConnects
  <2>2. CASE Abandon
    BY <1>3, <2>2, ResetTyped DEF JoinedConnects, Abandon, Connected
  <2>3. CASE ~Abandon
    BY <1>3, <2>1, <2>3 DEF JoinedConnects
  <2>4. QED
    BY <2>2, <2>3
<1>4. CASE StopOld
  BY <1>4 DEF StopOld
<1>5. CASE StartEngine
  BY <1>5, SpendSlotTyped DEF StartEngine
<1>6. CASE Route
  BY <1>6, SpendSlotTyped DEF Route
<1>7. CASE Cleanup
  <2>1. CASE Uncleaned = {} /\ Reset /\ UNCHANGED <<lineOf, excused, mbudget>>
    BY <1>7, <2>1, ResetTyped DEF Cleanup
  <2>2. CASE ~(Uncleaned = {} /\ Reset /\ UNCHANGED <<lineOf, excused, mbudget>>)
    <3>1. PICK s \in Slot :
               /\ Worker(s, "idle")
               /\ \/ lineOf' = [lineOf EXCEPT ![s] = IF Honoured(s, mine[s]) THEN 0 ELSE @]
                     /\ UNCHANGED excused /\ Free
                  \/ excused' = excused \cup {s} /\ UNCHANGED lineOf /\ SpendSlot("fault")
               /\ UNCHANGED <<mpc, mine, tries, switching>>
      BY <1>7, <2>2 DEF Cleanup, Uncleaned
    <3>2. lineOf' \in [Slot -> Nat] /\ excused' \subseteq Slot
      BY <3>1
    <3>3. mbudget' \in [{"connect", "other", "fault"} -> Nat]
      BY <3>1, SpendSlotTyped
    <3>4. QED
      BY <1>7, <3>1, <3>2, <3>3 DEF Cleanup
  <2>3. QED
    BY <2>1, <2>2
<1>8. CASE Swap
  <2>1. client' \in [token : Nat, cookie : Nat]
    <3>1. mine[1] \in Nat
      BY Slots
    <3>2. QED
      BY <1>8, <3>1 DEF Swap
  <2>2. QED
    BY <1>8, <2>1 DEF Swap
<1>9. CASE SavePrimary
  <2>1. mbudget' \in [{"connect", "other", "fault"} -> Nat]
    BY <1>9, SpendSlotTyped DEF SavePrimary
  <2>2. file' \in Nat /\ behind' \subseteq Slot \cup {0}
    <3>1. mine[1] \in Nat
      BY Slots
    <3>2. CASE file' = mine[1] /\ behind' = behind \ {0}
      BY <3>1, <3>2
    <3>3. CASE behind' = behind \cup {0} /\ UNCHANGED file
      BY <3>3
    <3>4. QED
      BY <1>9, <3>2, <3>3 DEF SavePrimary
  <2>3. Reset /\ UNCHANGED <<session, lineOf, slotFile, client, running, using, ppc, pmine, rpc,
                            read, excused>>
    BY <1>9 DEF SavePrimary
  <2>4. QED
    BY <2>1, <2>2, <2>3, ResetTyped
<1>10. QED
  BY <1>1, <1>2, <1>3, <1>4, <1>5, <1>6, <1>7, <1>8, <1>9 DEF ConnectMultiLine

\* Every step keeps the types.
LEMMA MultiTypedStep == MultiTyped /\ [MultiNext]_multiVars => MultiTyped'
<1> SUFFICES ASSUME MultiTyped, [MultiNext]_multiVars PROVE MultiTyped'
  OBVIOUS
<1> USE DEF MultiTyped, provider, files, engine, workers, triple, refresher, Rest, Free
<1>1. CASE Disconnect
  BY <1>1, SpendSlotTyped DEF Disconnect, Connected
<1>2. CASE PrepareTriple
  <2>1. mbudget' \in [{"connect", "other", "fault"} -> Nat]
    BY <1>2, SpendSlotTyped DEF PrepareTriple, TripleLogin, TripleSave, TripleConnect
  <2>2. UNCHANGED <<file, client, running, using, mpc, wpc, mine, tries, switching, rpc, read>>
    BY <1>2 DEF PrepareTriple
  <2>3. CASE TripleLogin
    <3>1. Issue(Count) /\ Count \in Slot /\ session[Count] + 1 \in Nat
      BY <2>3, Slots DEF TripleLogin
    <3>2. pmine' \in Nat /\ ppc' \in {"idle", "save", "connect"} /\ slotFile' = slotFile
          /\ behind' \subseteq Slot \cup {0}
      BY <2>3, <3>1 DEF TripleLogin
    <3>3. QED
      BY <2>1, <2>2, <3>1, <3>2, IssueTyped
  <2>4. CASE TripleSave
    <3>1. slotFile' \in [Slot -> Nat] /\ behind' \subseteq Slot \cup {0}
      <4>1. CASE slotFile' = [slotFile EXCEPT ![Count] = pmine] /\ UNCHANGED behind
        BY <4>1
      <4>2. CASE behind' = behind \cup {Count} /\ UNCHANGED slotFile
        BY <4>2, Slots
      <4>3. QED
        BY <2>4, <4>1, <4>2 DEF TripleSave
    <3>2. ppc' \in {"idle", "save", "connect"} /\ pmine' \in Nat
      BY <2>4 DEF TripleSave, TripleReturns
    <3>3. UNCHANGED <<session, lineOf, excused>>
      BY <2>4 DEF TripleSave
    <3>4. QED
      BY <2>1, <2>2, <3>1, <3>2, <3>3
  <2>5. CASE TripleConnect
    <3>1. lineOf' \in [Slot -> Nat] /\ excused' \subseteq Slot
      <4>1. CASE lineOf' = [lineOf EXCEPT ![Count] = pmine] /\ excused' = excused \cup {Count}
        BY <4>1, Slots
      <4>2. CASE UNCHANGED <<lineOf, excused>>
        BY <4>2
      <4>3. QED
        BY <2>5, <4>1, <4>2 DEF TripleConnect, OnLine
    <3>2. ppc' = "idle" /\ pmine' = 0 /\ UNCHANGED <<session, slotFile, behind>>
      BY <2>5 DEF TripleConnect, TripleReturns
    <3>3. QED
      BY <2>1, <2>2, <3>1, <3>2
  <2>6. QED
    BY <1>2, <2>3, <2>4, <2>5 DEF PrepareTriple
<1>3. CASE RefreshSettings
  <2>1. client' \in [token : Nat, cookie : Nat]
    BY <1>3 DEF RefreshSettings, Configure, Configured
  <2>2. read' \in Nat /\ rpc' \in {"idle", "configure"}
    BY <1>3 DEF RefreshSettings, Configure
  <2>3. UNCHANGED <<session, lineOf, slotFile, file, running, using, mpc, wpc, mine, tries,
                    switching, ppc, pmine, excused, behind, mbudget>>
    BY <1>3 DEF RefreshSettings
  <2>4. QED
    BY <2>1, <2>2, <2>3
<1>4. CASE UNCHANGED multiVars
  BY <1>4 DEF multiVars
<1>5. QED
  BY <1>1, <1>2, <1>3, <1>4, WorkerTyped, ConnectorTyped DEF MultiNext

-----------------------------------------------------------------------------
(* where the goroutines are *)

\* Every step keeps the connector and the slots' goroutines in step.
LEMMA StagesStep == MultiTyped /\ Stages /\ [MultiNext]_multiVars => Stages'
<1> SUFFICES ASSUME MultiTyped, Stages, [MultiNext]_multiVars PROVE Stages'
  OBVIOUS
<1> USE DEF provider, engine, workers
<1>1. ASSUME NEW s \in Slot, SlotWorker(s) PROVE Stages'
  <2>1. /\ mpc \in {"login", "connect"}
        /\ UNCHANGED <<mpc, running, using, switching>>
        /\ mpc = "login" => wpc'[s] \in {"login", "save", "in", "failed"}
        /\ mpc = "connect" => wpc'[s] \in {"connected", "failed"}
        /\ \A t \in Slot \ {s} : wpc'[t] = wpc[t]
    BY <1>1 DEF SlotWorker, Login, LoginFails, SaveSlot, ConnectSlot, Worker, Stages, MultiTyped
  <2>2. QED
    BY <2>1 DEF Stages
<1>2. CASE Begin
  <2>1. /\ mpc = "idle" /\ mpc' = "login" /\ UNCHANGED <<running, using>>
        /\ switching' = (running > 0) /\ \A s \in Slot : wpc'[s] = "login"
    BY <1>2 DEF Begin, Connector, All
  <2>2. ~switching' => running' = 0
    <3>1. running = 0 \/ running > 0
      BY Slots DEF MultiTyped
    <3>2. ASSUME running > 0 PROVE switching'
      BY <2>1, <3>2, Zenon
    <3>3. QED
      BY <2>1, <3>1, <3>2
  <2>3. QED
    BY <2>1, <2>2 DEF Stages
<1>3. ASSUME Reset, UNCHANGED running PROVE Stages'
  BY <1>3, ResetTyped DEF Stages
<1>4. CASE JoinedLogins \/ JoinedConnects
  <2>1. CASE Abandon
    BY <1>3, <1>4, <2>1 DEF JoinedLogins, JoinedConnects, Abandon
  <2>2. CASE ~Abandon
    <3>1. /\ UNCHANGED <<running, using, mine, switching>>
          /\ \/ mpc = "login" /\ mpc' = "connect" /\ \A s \in Slot : wpc'[s] = "connect"
             \/ /\ mpc = "connect" /\ mpc' = IF switching THEN "stop" ELSE "start"
                /\ \A s \in Slot : wpc'[s] = "connected"
      BY <1>4, <2>2 DEF JoinedLogins, JoinedConnects, Connector, All
    <3>2. QED
      BY <3>1 DEF Stages
  <2>3. QED
    BY <2>1, <2>2
<1>5. CASE StopOld \/ StartEngine \/ Route \/ Swap
  BY <1>5 DEF StopOld, StartEngine, Route, Swap, Connector, Stages
<1>6. CASE Cleanup
  <2>1. CASE Reset
    BY <1>3, <1>6, <2>1 DEF Cleanup
  <2>2. CASE ~Reset
    <3>1. PICK s \in Slot : wpc' = [wpc EXCEPT ![s] = "idle"] /\ UNCHANGED mpc
      BY <1>6, <2>2 DEF Cleanup, Uncleaned, Worker
    <3>2. \A t \in Slot : wpc'[t] = wpc[t] \/ wpc'[t] = "idle"
      BY <3>1 DEF MultiTyped
    <3>3. QED
      BY <1>6, <3>1, <3>2 DEF Cleanup, Stages
  <2>3. QED
    BY <2>1, <2>2
<1>7. CASE SavePrimary
  BY <1>3, <1>7 DEF SavePrimary
<1>8. CASE Disconnect
  BY <1>8 DEF Disconnect, Stages
<1>9. CASE PrepareTriple \/ RefreshSettings \/ UNCHANGED multiVars
  BY <1>9 DEF PrepareTriple, RefreshSettings, multiVars, Stages
<1>10. QED
  BY <1>1, <1>2, <1>4, <1>5, <1>6, <1>7, <1>8, <1>9 DEF MultiNext, ConnectMultiLine

-----------------------------------------------------------------------------
(* sessions and connections *)

\* A sign-in of a device: its session is a new one, and nothing is connected with it.
LEMMA IssueKeeps ==
  ASSUME MultiTyped, Numbers, Lines, NEW s \in Slot, Issue(s), UNCHANGED engine,
         mpc' = mpc,
         \A t \in Slot : wpc'[t] # wpc[t] => t = s /\ wpc'[t] \in {"save", "failed"},
         \A t \in Slot : mine'[t] # mine[t] => t = s /\ mine'[t] = session'[t] /\ wpc'[t] = "save",
         wpc'[s] \in {"save", "in", "connect"} => mine'[s] # using[s]
  PROVE  /\ \A t \in Slot :
              /\ mine'[t] <= session'[t] /\ using'[t] <= session'[t] /\ lineOf'[t] <= session'[t]
              /\ wpc'[t] \in {"save", "in", "connect"} => mine'[t] # using'[t]
         /\ Lines'
<1> USE DEF engine
<1>1. /\ session'[s] = session[s] + 1 /\ lineOf'[s] = 0 /\ excused' = excused \ {s}
      /\ \A t \in Slot \ {s} : session'[t] = session[t] /\ lineOf'[t] = lineOf[t]
  BY IssueTyped DEF Issue
<1>2. \A t \in Slot : /\ session[t] \in Nat /\ mine[t] \in Nat /\ using[t] \in Nat /\ lineOf[t] \in Nat
                      /\ mine[t] <= session[t] /\ using[t] <= session[t] /\ lineOf[t] <= session[t]
  BY DEF MultiTyped, Numbers
<1>3. ASSUME NEW t \in Slot
      PROVE /\ mine'[t] <= session'[t] /\ using'[t] <= session'[t] /\ lineOf'[t] <= session'[t]
            /\ wpc'[t] \in {"save", "in", "connect"} => mine'[t] # using'[t]
  <2>1. CASE t = s
    BY <1>1, <1>2, <2>1
  <2>2. CASE t # s
    BY <1>1, <1>2, <2>2 DEF Numbers
  <2>3. QED
    BY <2>1, <2>2
<1>5. session'[s] # using[s] /\ session'[s] # mine[s]
  BY <1>1, <1>2
<1>6. EngineOnIssuedSessions'
  BY <1>1, <1>5 DEF EngineOnIssuedSessions, Honoured, Lines
<1>7. \A t \in Slot \ {s} : wpc'[t] = wpc[t] /\ mine'[t] = mine[t] /\ (t \in excused' <=> t \in excused)
  BY <1>1
<1>8. lineOf'[s] = 0 /\ (mine'[s] = mine[s] \/ wpc'[s] \in {"save", "failed"} \/ wpc'[s] = wpc[s])
  BY <1>1
<1>9. ASSUME NEW t \in Slot
      PROVE  /\ wpc'[t] = "connected" /\ mine'[t] = session'[t] => lineOf'[t] = mine'[t]
             /\ wpc'[t] = "connected" /\ mine'[t] # session'[t] /\ lineOf'[t] # 0 => t \in excused'
             /\ mpc' = "cleanup" /\ wpc'[t] = "idle" /\ lineOf'[t] # 0 => t \in excused'
             /\ mpc' \in {"idle", "route", "swap", "save"} /\ running' = 0 /\ lineOf'[t] # 0
                  => t \in excused'
  <2>1. CASE t = s
    BY <1>5, <1>8, <2>1
  <2>2. CASE t # s
    BY <1>1, <1>7, <2>2 DEF Lines, Honoured
  <2>3. QED
    BY <2>1, <2>2
<1>10. QED
  BY <1>3, <1>6, <1>9 DEF Lines, Honoured

\* A slot's goroutine: what it connects with is not what the engine uses.
LEMMA WorkerLines ==
  ASSUME MultiTyped, Stages, Numbers, Lines, NEW s \in Slot, SlotWorker(s)
  PROVE  Numbers' /\ Lines'
<1> USE DEF provider, engine, workers, triple, Worker
<1>1. CASE Login(s)
  <2>1. /\ Issue(s) /\ UNCHANGED <<engine, mpc, ppc, pmine>>
        /\ \A t \in Slot : wpc'[t] # wpc[t] => t = s /\ wpc'[t] = "save"
        /\ \A t \in Slot : mine'[t] # mine[t] => t = s
        /\ mine'[s] = session[s] + 1 /\ wpc'[s] = "save"
    BY <1>1 DEF Login, MultiTyped
  <2>2. session'[s] = session[s] + 1 /\ \A t \in Slot \ {s} : session'[t] = session[t]
    BY <2>1, IssueTyped
  <2>3. session[s] \in Nat /\ using[s] \in Nat /\ using[s] <= session[s]
    BY DEF MultiTyped, Numbers
  <2>4. /\ \A t \in Slot :
              /\ mine'[t] <= session'[t] /\ using'[t] <= session'[t] /\ lineOf'[t] <= session'[t]
              /\ wpc'[t] \in {"save", "in", "connect"} => mine'[t] # using'[t]
        /\ Lines'
    BY <2>1, <2>2, <2>3, IssueKeeps
  <2>5. ppc' \in {"save", "connect"} =>
          /\ 0 < pmine' /\ pmine' <= session'[Count]
          /\ pmine' # mine'[Count] /\ pmine' # using'[Count]
    <3>1. pmine \in Nat /\ session[Count] \in Nat /\ Count \in Slot
      BY Slots DEF MultiTyped
    <3>2. CASE s = Count
      BY <2>1, <2>2, <3>1, <3>2 DEF Numbers
    <3>3. CASE s # Count
      BY <2>1, <2>2, <3>1, <3>3 DEF Numbers
    <3>4. QED
      BY <3>2, <3>3
  <2>6. QED
    BY <2>4, <2>5 DEF Numbers
<1>2. CASE LoginFails(s)
  <2>1. /\ UNCHANGED <<engine, mpc, ppc, pmine, mine>> /\ wpc[s] = "login"
        /\ \A t \in Slot : wpc'[t] # wpc[t] => t = s /\ wpc'[t] = "failed"
        /\ UNCHANGED <<session, lineOf, excused>> \/ Issue(s)
    BY <1>2 DEF LoginFails, MultiTyped
  <2>2. CASE Issue(s)
    <3>1. session'[s] = session[s] + 1 /\ \A t \in Slot \ {s} : session'[t] = session[t]
      BY <2>2, IssueTyped
    <3>2. wpc'[s] \notin {"save", "in", "connect"}
      BY <2>1
    <3>3. /\ \A t \in Slot :
                /\ mine'[t] <= session'[t] /\ using'[t] <= session'[t] /\ lineOf'[t] <= session'[t]
                /\ wpc'[t] \in {"save", "in", "connect"} => mine'[t] # using'[t]
          /\ Lines'
      BY <2>1, <2>2, <3>2, IssueKeeps
    <3>4. pmine \in Nat /\ session[Count] \in Nat /\ session[Count] <= session'[Count]
          /\ session'[Count] \in Nat
      <4>1. pmine \in Nat /\ Count \in Slot /\ session[Count] \in Nat
        BY Slots DEF MultiTyped
      <4>2. session'[Count] = session[Count] \/ session'[Count] = session[Count] + 1
        BY <3>1, <4>1
      <4>3. QED
        BY <4>1, <4>2
    <3>5. QED
      BY <2>1, <3>3, <3>4 DEF Numbers
  <2>3. CASE UNCHANGED <<session, lineOf, excused>>
    BY <2>1, <2>3 DEF Numbers, Lines, Honoured, EngineOnIssuedSessions
  <2>4. QED
    BY <2>1, <2>2, <2>3
<1>3. CASE SaveSlot(s)
  <2>1. /\ UNCHANGED <<provider, engine, mpc, ppc, pmine, mine, excused>> /\ wpc[s] = "save"
        /\ \A t \in Slot : wpc'[t] # wpc[t] => t = s /\ wpc'[t] \in {"in", "failed"}
    BY <1>3 DEF SaveSlot, MultiTyped
  <2>2. QED
    BY <2>1 DEF Numbers, Lines, Honoured, EngineOnIssuedSessions
<1>4. CASE ConnectSlot(s)
  <2>1. /\ UNCHANGED <<session, engine, mpc, ppc, pmine, mine, excused>> /\ wpc[s] = "connect"
        /\ \A t \in Slot \ {s} : wpc'[t] = wpc[t] /\ lineOf'[t] = lineOf[t]
        /\ \/ lineOf'[s] = mine[s] /\ Honoured(s, mine[s]) /\ wpc'[s] \in {"connected", "failed"}
           \/ lineOf'[s] = lineOf[s] /\ wpc'[s] = "failed"
    BY <1>4 DEF ConnectSlot, OnLine, MultiTyped
  <2>2. mpc = "connect"
    BY <2>1 DEF Stages, MultiTyped
  <2>3. mine[s] # using[s] /\ mine[s] <= session[s]
    BY <2>1 DEF Numbers
  <2>4. Numbers'
    BY <2>1, <2>3 DEF Numbers
  <2>5. EngineOnIssuedSessions'
    BY <2>1, <2>3 DEF Lines, EngineOnIssuedSessions, Honoured
  <2>6. QED
    BY <2>1, <2>2, <2>4, <2>5 DEF Lines, Honoured
<1>5. QED
  BY <1>1, <1>2, <1>3, <1>4 DEF SlotWorker

\* connect returns: what is connected without an engine is excused.
LEMMA ResetLines ==
  ASSUME MultiTyped, Numbers, Lines, Reset, UNCHANGED <<provider, engine, ppc, pmine>>,
         running = 0 => \A s \in Slot : lineOf[s] # 0 => s \in excused'
  PROVE  Numbers' /\ Lines'
<1> USE DEF provider, engine
<1>1. mpc' = "idle" /\ \A s \in Slot : wpc'[s] = "idle" /\ mine'[s] = 0
  BY ResetTyped
<1>2. \A s \in Slot : session[s] \in Nat /\ 0 <= session[s]
  BY DEF MultiTyped
<1>3. pmine \in Nat
  BY DEF MultiTyped
<1>4. Numbers'
  BY <1>1, <1>2, <1>3, Slots DEF Numbers
<1>5. QED
  BY <1>1, <1>4 DEF Lines, EngineOnIssuedSessions, Honoured

\* The connector connects nothing, and a failing one says what it leaves.
LEMMA ConnectorLines ==
  ASSUME MultiTyped, Stages, Numbers, Lines, Begin \/ ConnectMultiLine
  PROVE  Numbers' /\ Lines'
<1> USE DEF provider, engine, workers, triple, Connector, Rest, Worker
<1>1. CASE Begin
  <2>1. /\ UNCHANGED <<provider, engine, mine, excused, ppc, pmine>> /\ mpc' = "login"
        /\ \A s \in Slot : wpc'[s] = "login"
    BY <1>1 DEF Begin, All
  <2>2. QED
    BY <2>1 DEF Numbers, Lines, EngineOnIssuedSessions, Honoured
<1>2. ASSUME Abandon, UNCHANGED <<provider, engine, ppc, pmine>> PROVE Numbers' /\ Lines'
  <2>1. \A s \in Slot : lineOf[s] # 0 => s \in excused'
    BY <1>2 DEF Abandon, Connected
  <2>2. QED
    BY <1>2, <2>1, ResetLines DEF Abandon
<1>3. CASE JoinedLogins
  <2>1. CASE Abandon
    BY <1>2, <1>3, <2>1 DEF JoinedLogins
  <2>2. CASE ~Abandon
    <3>1. /\ UNCHANGED <<provider, engine, mine, excused, ppc, pmine>> /\ mpc' = "connect"
          /\ \A s \in Slot : wpc'[s] = "connect"
      BY <1>3, <2>2 DEF JoinedLogins, All
    <3>2. \A s \in Slot : wpc[s] = "in"
      BY <1>3, <2>2 DEF JoinedLogins
    <3>3. QED
      BY <3>1, <3>2 DEF Numbers, Lines, EngineOnIssuedSessions, Honoured
  <2>3. QED
    BY <2>1, <2>2
<1>4. CASE JoinedConnects
  <2>1. CASE Abandon
    BY <1>2, <1>4, <2>1 DEF JoinedConnects
  <2>2. CASE ~Abandon
    <3>1. /\ UNCHANGED <<provider, engine, wpc, mine, excused, ppc, pmine>>
          /\ mpc' = "stop" \/ mpc' = "start"
      BY <1>4, <2>2 DEF JoinedConnects
    <3>2. QED
      BY <3>1 DEF Numbers, Lines, EngineOnIssuedSessions, Honoured
  <2>3. QED
    BY <2>1, <2>2
<1>5. CASE StopOld
  <2>1. /\ UNCHANGED <<provider, using, wpc, mine, ppc, pmine>> /\ mpc' = "start" /\ running' = 0
        /\ \A s \in Slot : s \in excused /\ session[s] # mine[s] => s \in excused'
    BY <1>5 DEF StopOld, Replaced, Honoured
  <2>2. QED
    BY <2>1 DEF Numbers, Lines, EngineOnIssuedSessions, Honoured
<1>6. CASE StartEngine
  <2>1. \A s \in Slot : wpc[s] = "connected"
    BY <1>6 DEF StartEngine, Stages
  <2>2. UNCHANGED <<provider, wpc, mine, ppc, pmine>>
        /\ \A s \in Slot : s \in excused /\ session[s] # mine[s] => s \in excused'
    BY <1>6 DEF StartEngine, Replaced, Honoured
  <2>3. CASE running' = Count /\ using' = mine /\ mpc' = "route"
    <3>1. Count # 0
      BY Slots
    <3>2. Numbers'
      BY <2>1, <2>2, <2>3, Slots DEF Numbers
    <3>3. QED
      BY <2>1, <2>2, <2>3, <3>1, <3>2 DEF Lines, EngineOnIssuedSessions, Honoured
  <2>4. CASE UNCHANGED engine /\ mpc' = "cleanup"
    BY <2>1, <2>2, <2>4 DEF Numbers, Lines, EngineOnIssuedSessions, Honoured
  <2>5. QED
    BY <1>6, <2>3, <2>4 DEF StartEngine
<1>7. CASE Route
  <2>1. \A s \in Slot : wpc[s] = "connected"
    BY <1>7 DEF Route, Stages
  <2>2. /\ mpc = "route" /\ UNCHANGED <<provider, using, wpc, mine, ppc, pmine, excused>>
        /\ (mpc' = "swap" /\ running' = running) \/ (mpc' = "cleanup" /\ running' = 0)
    BY <1>7 DEF Route
  <2>3. QED
    BY <2>1, <2>2 DEF Numbers, Lines, EngineOnIssuedSessions, Honoured
<1>8. CASE Cleanup
  <2>1. mpc = "cleanup" /\ running = 0 /\ \A s \in Slot : wpc[s] \in {"connected", "idle"}
    BY <1>8 DEF Cleanup, Stages
  <2>2. CASE Uncleaned = {} /\ Reset /\ UNCHANGED <<lineOf, excused, mbudget>>
    <3>1. \A s \in Slot : wpc[s] = "idle"
      BY <2>1, <2>2 DEF Uncleaned
    <3>2. \A s \in Slot : lineOf[s] # 0 => s \in excused'
      BY <2>1, <2>2, <3>1 DEF Lines
    <3>3. UNCHANGED <<provider, engine, ppc, pmine>>
      BY <1>8, <2>2 DEF Cleanup
    <3>4. QED
      BY <2>2, <3>2, <3>3, ResetLines
  <2>3. CASE ~(Uncleaned = {} /\ Reset /\ UNCHANGED <<lineOf, excused, mbudget>>)
    <3>1. PICK s \in Slot :
               /\ wpc[s] = "connected" /\ wpc' = [wpc EXCEPT ![s] = "idle"]
               /\ \/ lineOf' = [lineOf EXCEPT ![s] = IF Honoured(s, mine[s]) THEN 0 ELSE @]
                     /\ UNCHANGED excused
                  \/ excused' = excused \cup {s} /\ UNCHANGED lineOf
               /\ UNCHANGED <<mpc, mine, tries, switching>>
      BY <1>8, <2>3 DEF Cleanup, Uncleaned
    <3>2. UNCHANGED <<session, engine, ppc, pmine>>
      BY <1>8 DEF Cleanup
    <3>3. \A t \in Slot \ {s} : /\ wpc'[t] = wpc[t] /\ lineOf'[t] = lineOf[t]
                                /\ t \in excused' <=> t \in excused
      BY <3>1 DEF MultiTyped
    <3>4. wpc'[s] = "idle" /\ lineOf'[s] \in {0, lineOf[s]} /\ (lineOf'[s] # 0 => s \in excused')
      <4>1. lineOf'[s] = 0 \/ s \in excused' \/ (lineOf'[s] = lineOf[s] /\ ~Honoured(s, mine[s])
              /\ UNCHANGED excused)
        BY <3>1 DEF MultiTyped
      <4>2. wpc'[s] = "idle" /\ lineOf'[s] \in {0, lineOf[s]}
        BY <3>1 DEF MultiTyped
      <4>3. QED
        BY <3>1, <4>1, <4>2 DEF Lines
    <3>5. Numbers'
      <4>1. lineOf'[s] <= session[s]
        BY <3>4 DEF Numbers, MultiTyped
      <4>2. QED
        BY <3>1, <3>2, <3>3, <3>4, <4>1 DEF Numbers
    <3>6. QED
      BY <2>1, <3>1, <3>2, <3>3, <3>4, <3>5 DEF Lines, EngineOnIssuedSessions, Honoured
  <2>4. QED
    BY <2>2, <2>3
<1>9. CASE Swap
  <2>1. mpc = "swap" /\ mpc' = "save" /\ UNCHANGED <<provider, engine, wpc, mine, excused, ppc, pmine>>
    BY <1>9 DEF Swap
  <2>2. QED
    BY <2>1 DEF Numbers, Lines, EngineOnIssuedSessions, Honoured
<1>10. CASE SavePrimary
  <2>1. mpc = "save" /\ Reset /\ UNCHANGED <<provider, engine, excused, ppc, pmine>>
    BY <1>10 DEF SavePrimary
  <2>2. running = 0 => \A s \in Slot : lineOf[s] # 0 => s \in excused'
    BY <2>1 DEF Lines
  <2>3. QED
    BY <2>1, <2>2, ResetLines
<1>11. QED
  BY <1>1, <1>3, <1>4, <1>5, <1>6, <1>7, <1>8, <1>9, <1>10 DEF ConnectMultiLine

\* A speed test's session is not the engine's, nor the connect's.
LEMMA TripleLines ==
  ASSUME MultiTyped, Numbers, Lines, PrepareTriple
  PROVE  Numbers' /\ Lines'
<1> USE DEF provider, engine, workers, triple
<1>1. UNCHANGED <<engine, mpc, wpc, mine>> /\ Count \in Slot
  BY Slots DEF PrepareTriple
<1>2. /\ pmine \in Nat /\ session[Count] \in Nat /\ mine[Count] \in Nat /\ using[Count] \in Nat
      /\ mine[Count] <= session[Count] /\ using[Count] <= session[Count]
  BY <1>1 DEF MultiTyped, Numbers
<1>3. CASE TripleLogin
  <2>1. Issue(Count) /\ ((UNCHANGED triple /\ ppc = "idle") \/ pmine' = session[Count] + 1)
    BY <1>3 DEF TripleLogin
  <2>2. session'[Count] = session[Count] + 1
    BY <1>1, <2>1, IssueTyped
  <2>3. wpc'[Count] \in {"save", "in", "connect"} => mine'[Count] # using[Count]
    BY <1>1 DEF Numbers
  <2>4. /\ \A t \in Slot :
              /\ mine'[t] <= session'[t] /\ using'[t] <= session'[t] /\ lineOf'[t] <= session'[t]
              /\ wpc'[t] \in {"save", "in", "connect"} => mine'[t] # using'[t]
        /\ Lines'
    BY <1>1, <2>1, <2>3, IssueKeeps
  <2>5. ppc' \in {"save", "connect"} =>
          /\ 0 < pmine' /\ pmine' <= session'[Count]
          /\ pmine' # mine'[Count] /\ pmine' # using'[Count]
    BY <1>1, <1>2, <2>1, <2>2
  <2>6. QED
    BY <2>4, <2>5 DEF Numbers
<1>4. CASE TripleSave
  <2>1. UNCHANGED <<session, lineOf, excused>> /\ (ppc' = "idle" \/ (ppc = "save" /\ pmine' = pmine))
    BY <1>4 DEF TripleSave, TripleReturns
  <2>2. QED
    BY <1>1, <2>1 DEF Numbers, Lines, EngineOnIssuedSessions, Honoured
<1>5. CASE TripleConnect
  <2>1. UNCHANGED session /\ ppc = "connect" /\ ppc' = "idle"
    BY <1>5 DEF TripleConnect, TripleReturns
  <2>2. CASE UNCHANGED <<lineOf, excused>>
    BY <1>1, <2>1, <2>2 DEF Numbers, Lines, EngineOnIssuedSessions, Honoured
  <2>3. CASE OnLine(Count, pmine) /\ excused' = excused \cup {Count}
    <3>1. /\ session[Count] = pmine /\ lineOf'[Count] = pmine /\ Count \in excused'
          /\ \A t \in Slot \ {Count} : lineOf'[t] = lineOf[t] /\ (t \in excused' <=> t \in excused)
      BY <1>1, <2>3 DEF OnLine, Honoured, MultiTyped
    <3>2. pmine # mine[Count] /\ pmine # using[Count]
      BY <2>1 DEF Numbers
    <3>3. Numbers'
      BY <1>1, <1>2, <2>1, <3>1 DEF Numbers
    <3>4. QED
      BY <1>1, <2>1, <3>1, <3>2, <3>3 DEF Lines, EngineOnIssuedSessions, Honoured
  <2>4. QED
    BY <1>5, <2>2, <2>3 DEF TripleConnect
<1>6. QED
  BY <1>3, <1>4, <1>5 DEF PrepareTriple

\* Every step keeps the sessions apart, and what is connected is an engine's or excused.
LEMMA LinesStep ==
  MultiTyped /\ Stages /\ Numbers /\ Lines /\ [MultiNext]_multiVars => Numbers' /\ Lines'
<1> SUFFICES ASSUME MultiTyped, Stages, Numbers, Lines, [MultiNext]_multiVars
             PROVE  Numbers' /\ Lines'
  OBVIOUS
<1> USE DEF provider, engine, workers, triple, Rest
<1>1. CASE Disconnect
  <2>1. /\ UNCHANGED <<provider, using, mpc, wpc, mine, ppc, pmine>> /\ running' = 0
        /\ \A s \in Slot : s \in excused \/ lineOf[s] # 0 => s \in excused'
    BY <1>1 DEF Disconnect, Connected
  <2>2. QED
    BY <2>1 DEF Numbers, Lines, EngineOnIssuedSessions, Honoured
<1>2. CASE RefreshSettings \/ UNCHANGED multiVars
  <2>1. UNCHANGED <<provider, engine, mpc, wpc, mine, ppc, pmine, excused>>
    BY <1>2 DEF RefreshSettings, multiVars
  <2>2. QED
    BY <2>1 DEF Numbers, Lines, EngineOnIssuedSessions, Honoured
<1>3. QED
  BY <1>1, <1>2, WorkerLines, ConnectorLines, TripleLines DEF MultiNext

-----------------------------------------------------------------------------
(* files *)

\* What a step that writes no file must leave.
LEMMA FilesKept ==
  ASSUME Files, UNCHANGED <<session, slotFile, pmine, file, using>>, behind \subseteq behind',
         ppc' = ppc \/ (ppc # "save" /\ ppc' # "save"),
         \A s \in Slot : /\ wpc'[s] = "save" => wpc[s] = "save" /\ mine'[s] = mine[s]
                         /\ wpc[s] = "save" => wpc'[s] = "save" \/ s \in behind',
         running' > 0 => \/ running > 0 /\ (mpc' = mpc \/ mpc \notin {"route", "swap", "save"})
                         \/ mpc' \in {"route", "swap", "save"}
  PROVE  Files'
<1>1. QED
  BY DEF Files

\* A slot's goroutine: its file names its session, unless it is behind.
LEMMA WorkerFiles ==
  ASSUME MultiTyped, Files, NEW s \in Slot, SlotWorker(s)
  PROVE  Files'
<1> USE DEF provider, files, engine, workers, triple, Worker
<1>1. CASE Login(s)
  <2>1. /\ UNCHANGED <<slotFile, file, running, using, mpc, ppc, pmine>>
        /\ behind' = IF s = Count /\ ppc = "save" THEN behind \cup {s} ELSE behind \ {s}
        /\ \A t \in Slot \ {s} : wpc'[t] = wpc[t] /\ mine'[t] = mine[t]
        /\ mine'[s] = session[s] + 1 /\ wpc'[s] = "save"
    BY <1>1 DEF Login, Contended, MultiTyped
  <2>2. session'[s] = session[s] + 1 /\ \A t \in Slot \ {s} : session'[t] = session[t]
    BY <1>1, IssueTyped DEF Login
  <2>3. 0 \notin behind' => 0 \notin behind
    BY <2>1, Slots
  <2>4. \A t \in Slot \ {s} : t \notin behind' => t \notin behind
    BY <2>1
  <2>5. QED
    BY <2>1, <2>2, <2>3, <2>4 DEF Files
<1>2. CASE LoginFails(s)
  <2>1. /\ UNCHANGED <<slotFile, file, running, using, mpc, ppc, pmine, mine>> /\ wpc[s] = "login"
        /\ \A t \in Slot \ {s} : wpc'[t] = wpc[t]
        /\ wpc'[s] \in {"login", "failed"}
        /\ \/ UNCHANGED <<session, behind>>
           \/ Issue(s) /\ behind' = behind \cup {s}
    BY <1>2 DEF LoginFails, MultiTyped
  <2>2. CASE Issue(s) /\ behind' = behind \cup {s}
    <3>1. \A t \in Slot \ {s} : session'[t] = session[t]
      BY <2>2, IssueTyped
    <3>2. QED
      BY <2>1, <2>2, <3>1 DEF Files
  <2>3. CASE UNCHANGED <<session, behind>>
    BY <2>1, <2>3 DEF Files
  <2>4. QED
    BY <2>1, <2>2, <2>3
<1>3. CASE SaveSlot(s)
  <2>1. /\ UNCHANGED <<session, file, running, using, mpc, ppc, pmine, mine>> /\ wpc[s] = "save"
        /\ \A t \in Slot \ {s} : wpc'[t] = wpc[t] /\ slotFile'[t] = slotFile[t]
        /\ \/ wpc'[s] = "in" /\ slotFile'[s] = mine[s] /\ UNCHANGED behind
           \/ wpc'[s] = "failed" /\ behind' = behind \cup {s}
    BY <1>3 DEF SaveSlot, MultiTyped
  <2>2. QED
    BY <2>1 DEF Files
<1>4. CASE ConnectSlot(s)
  <2>1. /\ UNCHANGED <<session, slotFile, file, running, using, mpc, ppc, pmine, mine, behind>>
        /\ wpc[s] = "connect" /\ wpc'[s] # "save"
        /\ \A t \in Slot \ {s} : wpc'[t] = wpc[t]
    BY <1>4 DEF ConnectSlot, MultiTyped
  <2>2. QED
    BY <2>1 DEF Files
<1>5. QED
  BY <1>1, <1>2, <1>3, <1>4 DEF SlotWorker

\* The connector: its last step writes the controller's file.
LEMMA ConnectorFiles ==
  ASSUME MultiTyped, Stages, Files, Begin \/ ConnectMultiLine
  PROVE  Files'
<1> USE DEF provider, files, engine, workers, triple, Connector, Rest, Worker
<1>1. CASE Begin
  <2>1. /\ UNCHANGED <<session, slotFile, pmine, file, using, behind, ppc, running>> /\ mpc = "idle"
        /\ \A s \in Slot : wpc[s] = "idle" /\ wpc'[s] = "login"
    BY <1>1 DEF Begin, All, Stages
  <2>2. QED
    BY <2>1, FilesKept
<1>2. CASE JoinedLogins \/ JoinedConnects
  <2>1. /\ UNCHANGED <<session, slotFile, pmine, file, using, behind, ppc, running>>
        /\ mpc \in {"login", "connect"} /\ \A s \in Slot : wpc[s] # "save"
    BY <1>2 DEF JoinedLogins, JoinedConnects
  <2>2. \A s \in Slot : wpc'[s] # "save"
    <3>1. CASE Abandon
      BY <3>1, ResetTyped DEF Abandon
    <3>2. CASE ~Abandon
      BY <1>2, <2>1, <3>2 DEF JoinedLogins, JoinedConnects, All
    <3>3. QED
      BY <3>1, <3>2
  <2>3. QED
    BY <2>1, <2>2, FilesKept
<1>3. CASE StopOld \/ Route
  <2>1. /\ UNCHANGED <<session, slotFile, pmine, file, using, behind, ppc, wpc, mine>>
        /\ running' = 0 \/ (running' = running /\ mpc' = "swap")
    BY <1>3 DEF StopOld, Route
  <2>2. QED
    BY <2>1, FilesKept
<1>4. CASE StartEngine
  <2>1. UNCHANGED <<session, slotFile, pmine, file, behind, ppc, wpc, mine>> /\ running = 0
    BY <1>4 DEF StartEngine, Stages
  <2>2. CASE running' = Count /\ mpc' = "route"
    BY <2>1, <2>2 DEF Files
  <2>3. CASE UNCHANGED <<running, using>>
    BY <2>1, <2>3 DEF Files
  <2>4. QED
    BY <1>4, <2>2, <2>3 DEF StartEngine
<1>5. CASE Cleanup
  <2>1. /\ UNCHANGED <<session, slotFile, pmine, file, using, behind, ppc, running>> /\ running = 0
        /\ \A s \in Slot : wpc[s] \in {"connected", "idle"}
    BY <1>5 DEF Cleanup, Stages
  <2>2. \A s \in Slot : wpc'[s] \in {"connected", "idle"}
    <3>1. CASE Reset
      BY <3>1, ResetTyped
    <3>2. CASE ~Reset
      <4>1. PICK s \in Slot : wpc' = [wpc EXCEPT ![s] = "idle"]
        BY <1>5, <3>2 DEF Cleanup, Uncleaned
      <4>2. QED
        BY <2>1, <4>1 DEF MultiTyped
    <3>3. QED
      BY <3>1, <3>2
  <2>3. QED
    BY <2>1, <2>2, FilesKept
<1>6. CASE Swap
  <2>1. /\ UNCHANGED <<session, slotFile, pmine, file, using, behind, ppc, running, wpc, mine>>
        /\ mpc' = "save"
    BY <1>6 DEF Swap
  <2>2. QED
    BY <2>1, FilesKept
<1>7. CASE SavePrimary
  <2>1. /\ UNCHANGED <<session, slotFile, pmine, using, ppc, running>> /\ using = mine
        /\ \A s \in Slot : wpc[s] = "connected" /\ wpc'[s] = "idle"
        /\ \/ file' = mine[1] /\ behind' = behind \ {0}
           \/ behind' = behind \cup {0} /\ UNCHANGED file
    BY <1>7, ResetTyped DEF SavePrimary, Stages
  <2>2. \A s \in Slot : s \notin behind' => s \notin behind
    BY <2>1, Slots
  <2>3. QED
    BY <2>1, <2>2 DEF Files
<1>8. QED
  BY <1>1, <1>2, <1>3, <1>4, <1>5, <1>6, <1>7 DEF ConnectMultiLine

\* A speed test's sign-in: its file too.
LEMMA TripleFiles ==
  ASSUME MultiTyped, Files, PrepareTriple
  PROVE  Files'
<1> USE DEF provider, files, engine, workers, triple
<1>1. UNCHANGED <<file, using, running, mpc, wpc, mine>> /\ Count \in Slot
  BY Slots DEF PrepareTriple
<1>2. CASE TripleLogin
  <2>1. /\ UNCHANGED slotFile
        /\ \/ /\ pmine' = session[Count] + 1 /\ ppc' = "save"
              /\ behind' = IF wpc[Count] = "save" THEN behind \cup {Count} ELSE behind \ {Count}
           \/ ppc' = ppc /\ ppc = "idle" /\ behind' = behind \cup {Count}
    BY <1>2 DEF TripleLogin
  <2>2. /\ session'[Count] = session[Count] + 1
        /\ \A t \in Slot \ {Count} : session'[t] = session[t]
    BY <1>1, <1>2, IssueTyped DEF TripleLogin
  <2>3. 0 \notin behind' => 0 \notin behind
    BY <2>1, Slots
  <2>4. \A t \in Slot \ {Count} : t \notin behind' => t \notin behind
    BY <2>1
  <2>5. QED
    BY <1>1, <2>1, <2>2, <2>3, <2>4 DEF Files
<1>3. CASE TripleSave
  <2>1. /\ UNCHANGED session /\ ppc = "save" /\ ppc' # "save"
        /\ \A t \in Slot \ {Count} : slotFile'[t] = slotFile[t]
        /\ \/ slotFile'[Count] = pmine /\ UNCHANGED behind
           \/ behind' = behind \cup {Count}
    BY <1>1, <1>3 DEF TripleSave, TripleReturns, MultiTyped
  <2>2. QED
    BY <1>1, <2>1 DEF Files
<1>4. CASE TripleConnect
  <2>1. UNCHANGED <<session, slotFile, behind>> /\ ppc = "connect" /\ ppc' = "idle"
    BY <1>4 DEF TripleConnect, TripleReturns
  <2>2. QED
    BY <1>1, <2>1 DEF Files
<1>5. QED
  BY <1>2, <1>3, <1>4 DEF PrepareTriple

\* Every step leaves the files current, or known to be behind.
LEMMA FilesStep == MultiTyped /\ Stages /\ Files /\ [MultiNext]_multiVars => Files'
<1> SUFFICES ASSUME MultiTyped, Stages, Files, [MultiNext]_multiVars PROVE Files'
  OBVIOUS
<1> USE DEF provider, files, engine, workers, triple, Rest
<1>1. CASE Disconnect
  <2>1. /\ UNCHANGED <<session, slotFile, pmine, file, using, behind, ppc, wpc, mine>> /\ running' = 0
    BY <1>1 DEF Disconnect
  <2>2. QED
    BY <2>1, FilesKept
<1>2. CASE RefreshSettings \/ UNCHANGED multiVars
  BY <1>2 DEF RefreshSettings, multiVars, Files
<1>3. QED
  BY <1>1, <1>2, WorkerFiles, ConnectorFiles, TripleFiles DEF MultiNext

-----------------------------------------------------------------------------
(***************************************************************************)
(* The invariant holds whichever sign-ins, connects, writes and requests   *)
(* fail, whoever disconnects, and wherever a speed test signs the last     *)
(* slot's device in anew.                                                  *)
(***************************************************************************)
THEOREM MultiInductive == MultiSpec => []MInv
<1>1. MInv /\ [MultiNext]_multiVars => MInv'
  BY MultiTypedStep, StagesStep, LinesStep, FilesStep DEF MInv
<1>2. QED
  BY <1>1, MultiInductiveInit, PTL DEF MultiSpec

(***************************************************************************)
(* Each session a running engine was given is the one its device is        *)
(* connected with, or was ended by a later sign-in of the device: of a     *)
(* switch that failed or of a speed test (issueConnections, waiting for    *)
(* every slot; connectMultiLine).                                          *)
(***************************************************************************)
THEOREM EngineOnIssued == MultiSpec => []EngineOnIssuedSessions
<1>1. MInv => EngineOnIssuedSessions
  BY DEF MInv, Lines
<1>2. QED
  BY <1>1, MultiInductive, PTL

(***************************************************************************)
(* When no connect is under way and no engine runs, a device is connected  *)
(* only if a path that undoes nothing left it so, or the request to end    *)
(* its connection failed (cleanup of connectMultiLine).                    *)
(***************************************************************************)
THEOREM CleanupReachesAll == MultiSpec => []NothingLeftConnected
<1>1. MInv => NothingLeftConnected
  BY DEF MInv, Lines, NothingLeftConnected, Connected
<1>2. QED
  BY <1>1, MultiInductive, PTL

(***************************************************************************)
(* When neither a connect nor a speed test is under way, each slot's file  *)
(* names its device's last session and the controller's the session of     *)
(* slot 1, unless an answer or a write failed or two sign-ins of a device  *)
(* were written at once (saveSlotSession, setSessionToken).                *)
(***************************************************************************)
THEOREM FilesFollowSignIns == MultiSpec => []SlotFilesAreCurrent
<1>1. MInv => SlotFilesAreCurrent
  BY Slots DEF MInv, Stages, Files, SlotFilesAreCurrent
<1>2. QED
  BY <1>1, MultiInductive, PTL
=============================================================================
