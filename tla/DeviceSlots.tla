----------------------------- MODULE DeviceSlots -----------------------------
(***************************************************************************)
(* The device that each session slot claims to be: the profile of          *)
(* persistentDeviceProfileForSlot and the identity of                      *)
(* deviceIdentityForSlot.  Both are remembered in the process and kept in  *)
(* a file of the slot; a mutex makes each a single step for the goroutines *)
(* of one process, but the daemon and a command-line mode of the same      *)
(* binary are two processes over the same files.  A file that cannot be    *)
(* read counts as no file, and a write that fails is not seen.             *)
(***************************************************************************)
EXTENDS Naturals, FiniteSets

CONSTANTS
  DeviceSlot,
  Daemon, Cli,               \* the operating-system processes
  Profile,                   \* deviceProfiles
  Identity,                  \* random MAC addresses and UUIDs
  Nothing,                   \* no file, or one that is not valid; not cached
  Hardware,                  \* macAddr() and hashDeviceID(), the same for every slot
  MaxStarts, MaxDeviceFaults \* bounds of the environment

Os == {Daemon, Cli}
DeviceValue == Profile \cup Identity

ASSUME DeviceSlotsAssumption ==
  /\ Daemon # Cli
  /\ Nothing \notin DeviceValue \cup DeviceSlot \cup {Hardware}
  /\ Hardware \notin DeviceValue
  /\ IsFiniteSet(DeviceSlot) /\ IsFiniteSet(Profile)
  /\ Cardinality(DeviceSlot) <= Cardinality(Profile)      \* three slots, six profiles
  /\ {MaxStarts, MaxDeviceFaults} \subseteq Nat

VARIABLES
  kind,       \* which of the two this behaviour is about: they share no state
  cached,     \* cachedDeviceProfiles or cachedDeviceIdentities
  kept,       \* device_profile_<slot>.json or device_identity_<slot>.json
  dpc,        \* where a process is: idle, reading the others' files, writing
  asked,      \* for which slot
  chosen,     \* what it is about to write
  told,       \* what the process's last caller for a slot was answered
  inUse,      \* history: what callers were answered that was on file as well
  mixed,      \* history: a process chose without knowing what another uses
  blind,      \* history: a file that was there could not be read
  dbudget

deviceHistory == <<inUse, mixed, blind>>
deviceVars == <<kind, cached, kept, dpc, asked, chosen, told, deviceHistory, dbudget>>

NoDevice == [s \in DeviceSlot |-> Nothing]

DeviceInit ==
  /\ kind \in {"profile", "identity"}
  /\ cached = [o \in Os |-> NoDevice] /\ kept = NoDevice
  /\ dpc = [o \in Os |-> "idle"]
  /\ asked = [o \in Os |-> Nothing]
  /\ chosen = [o \in Os |-> Nothing]
  /\ told = [o \in Os |-> NoDevice]
  /\ inUse = [s \in DeviceSlot |-> {}] /\ mixed = FALSE /\ blind = FALSE
  /\ dbudget = [start |-> MaxStarts, fault |-> MaxDeviceFaults]

SpendDevice(what) == dbudget[what] > 0 /\ dbudget' = [dbudget EXCEPT ![what] = @ - 1]

Cache(o, s, value) == cached' = [cached EXCEPT ![o][s] = value]

\* What is cached, or else on file.
Known(o, s) == IF cached[o][s] # Nothing THEN cached[o][s] ELSE kept[s]

-----------------------------------------------------------------------------
Answer(o, s, value) == told' = [told EXCEPT ![o][s] = value]

\* A value that is on file is answered.
OnFile(s, value) == inUse' = [inUse EXCEPT ![s] = @ \cup {value}]

\* dev() of api.go asks for both.  Cached: nothing changes.  On file: cached.
Ask(o, s) ==
  /\ dpc[o] = "idle"
  /\ cached[o][s] = Nothing /\ kept[s] # Nothing
  /\ Cache(o, s, kept[s]) /\ Answer(o, s, kept[s]) /\ OnFile(s, kept[s])
  /\ UNCHANGED <<kind, kept, dpc, asked, chosen, mixed, blind, dbudget>>

\* There is no file, as far as this process can tell: another value is chosen.
AskAnew(o, s) ==
  /\ dpc[o] = "idle"
  /\ cached[o][s] = Nothing
  /\ \/ kept[s] = Nothing /\ UNCHANGED <<blind, dbudget>>
     \/ kept[s] # Nothing /\ SpendDevice("fault") /\ blind' = TRUE
  /\ dpc' = [dpc EXCEPT ![o] = "choose"]
  /\ asked' = [asked EXCEPT ![o] = s]
  /\ UNCHANGED <<kind, cached, kept, chosen, told, inUse, mixed>>

\* Seeded error: only the files of the other slots are looked at.
UsedOnFile(o, s, unread) == {kept[t] : t \in DeviceSlot \ (unread \cup {s})}

\* What the other slots are known to use, when the files of unread cannot be read.
Used(o, s, unread) ==
  {Known(o, t) : t \in {u \in DeviceSlot \ {s} : u \in unread => cached[o][u] # Nothing}}

\* A profile no other slot has, if there is one; an identity nobody else drew.
Candidates(o, s, unread) ==
  IF kind = "identity"
  THEN Identity \ ({kept[t] : t \in DeviceSlot} \cup {cached[q][t] : q \in Os, t \in DeviceSlot})
  ELSE IF Profile \subseteq Used(o, s, unread) THEN Profile ELSE Profile \ Used(o, s, unread)

\* Another process is choosing too, or uses what is not on file.
Apart(o) == \E q \in Os \ {o} :
  \/ dpc[q] # "idle"
  \/ \E s \in DeviceSlot : cached[q][s] \notin {Nothing, kept[s]}

\* Without randomness a profile is still chosen, the first; the identity answered
\* is then that of the hardware, which is not remembered (NoRandom).
Choose(o) ==
  /\ dpc[o] = "choose"
  /\ \E unread \in SUBSET (DeviceSlot \ {asked[o]}) :
       /\ IF unread = {} THEN UNCHANGED <<blind, dbudget>>
          ELSE SpendDevice("fault") /\ blind' = TRUE
       /\ \E value \in Candidates(o, asked[o], unread) : chosen' = [chosen EXCEPT ![o] = value]
  /\ dpc' = [dpc EXCEPT ![o] = "write"]
  /\ mixed' = (mixed \/ Apart(o))
  /\ UNCHANGED <<kind, cached, kept, asked, told, inUse>>

NoRandom(o) ==
  /\ dpc[o] = "choose" /\ kind = "identity"
  /\ SpendDevice("fault")
  /\ Answer(o, asked[o], Hardware)
  /\ dpc' = [dpc EXCEPT ![o] = "idle"]
  /\ asked' = [asked EXCEPT ![o] = Nothing]
  /\ UNCHANGED <<kind, cached, kept, chosen, deviceHistory>>

Answered(o) ==
  /\ dpc' = [dpc EXCEPT ![o] = "idle"]
  /\ asked' = [asked EXCEPT ![o] = Nothing]
  /\ chosen' = [chosen EXCEPT ![o] = Nothing]
  /\ UNCHANGED kind

\* Seeded error: the value is remembered before another is drawn for the file.
WriteAnother(o) ==
  /\ dpc[o] = "write"
  /\ \E value \in Candidates(o, asked[o], {}) : kept' = [kept EXCEPT ![asked[o]] = value]
  /\ OnFile(asked[o], chosen[o])
  /\ Cache(o, asked[o], chosen[o]) /\ Answer(o, asked[o], chosen[o])
  /\ mixed' = (mixed \/ Apart(o))
  /\ Answered(o) /\ UNCHANGED <<blind, dbudget>>

\* The file is replaced in one piece (rename), or the write fails, which nobody sees.
Write(o) ==
  /\ dpc[o] = "write"
  /\ \/ /\ kept' = [kept EXCEPT ![asked[o]] = chosen[o]] /\ OnFile(asked[o], chosen[o])
        /\ UNCHANGED dbudget
     \/ SpendDevice("fault") /\ UNCHANGED <<kept, inUse>>
  /\ Cache(o, asked[o], chosen[o]) /\ Answer(o, asked[o], chosen[o])
  /\ mixed' = (mixed \/ Apart(o))
  /\ Answered(o) /\ UNCHANGED blind

\* The daemon is respawned, or a command-line mode starts anew, at any point.
Start(o) ==
  /\ SpendDevice("start")
  /\ cached' = [cached EXCEPT ![o] = NoDevice]
  /\ told' = [told EXCEPT ![o] = NoDevice]
  /\ Answered(o)
  /\ UNCHANGED <<kept, deviceHistory>>

DeviceNext == \E o \in Os :
  \/ \E s \in DeviceSlot : Ask(o, s) \/ AskAnew(o, s)
  \/ Choose(o) \/ NoRandom(o) \/ Write(o) \/ Start(o)

DeviceSpec == DeviceInit /\ [][DeviceNext]_deviceVars

-----------------------------------------------------------------------------
(***************************************************************************)
(* Types of the caches, the files and the choices being made.              *)
(***************************************************************************)
DeviceTypeOK ==
  /\ kind \in {"profile", "identity"}
  /\ cached \in [Os -> [DeviceSlot -> DeviceValue \cup {Nothing}]]
  /\ kept \in [DeviceSlot -> DeviceValue \cup {Nothing}]
  /\ dpc \in [Os -> {"idle", "choose", "write"}]
  /\ asked \in [Os -> DeviceSlot \cup {Nothing}]
  /\ chosen \in [Os -> DeviceValue \cup {Nothing}]
  /\ told \in [Os -> [DeviceSlot -> DeviceValue \cup {Nothing, Hardware}]]
  /\ inUse \in [DeviceSlot -> SUBSET DeviceValue]
  /\ mixed \in BOOLEAN
  /\ blind \in BOOLEAN

(***************************************************************************)
(* The slots of a process are different devices: no two callers are told   *)
(* the same profile or identity, whatever was lost or not written.  The    *)
(* code does not promise it to who is told the identity of the hardware    *)
(* (no randomness), when a file that was there could not be read, or when  *)
(* another process chose at the same time or could not write what it uses. *)
(***************************************************************************)
SlotsAreDistinct ==
  ~mixed /\ ~blind => \A o \in Os : \A s, t \in DeviceSlot :
    s # t /\ told[o][s] \notin {Nothing, Hardware} => told[o][s] # told[o][t]

(***************************************************************************)
(* A slot stays the device it was: what it was once answered to be and was *)
(* on file is still there and is what every process answers, across        *)
(* restarts and failing writes.  What could not be written lasts as long   *)
(* as its process; a file that cannot be read is replaced, and two         *)
(* processes that choose beside each other need not agree.                 *)
(***************************************************************************)
DeviceIsKept ==
  ~mixed /\ ~blind => \A s \in DeviceSlot :
    /\ inUse[s] \subseteq {kept[s]}
    /\ kept[s] # Nothing => \A o \in Os : told[o][s] \in {Nothing, Hardware, kept[s]}
=============================================================================
