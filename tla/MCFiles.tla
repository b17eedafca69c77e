------------------------------- MODULE MCFiles -------------------------------
(***************************************************************************)
(* Instances of StateFiles and of DeviceSlots, which share no variable: a  *)
(* behaviour is one of the first or one of the second.                     *)
(***************************************************************************)
EXTENDS StateFiles, DeviceSlots

CONSTANTS h1, h2, d1, d2, d3, a1, a2, a3, a4, a5, a6

VARIABLE part

MCHandler == {h1, h2}
MCDeviceSlot == {d1, d2, d3}
MCProfile == {a1, a2, a3}
MCIdentity == {a4, a5, a6}

MCInit ==
  /\ FilesInit /\ DeviceInit
  /\ part \in {"files", "devices"}
  /\ part = "files" => kind = "profile"

MCNext ==
  /\ \/ part = "files" /\ FilesNext /\ UNCHANGED deviceVars
     \/ part = "devices" /\ DeviceNext /\ UNCHANGED fileVars
  /\ UNCHANGED part

MCSpec == MCInit /\ [][MCNext]_<<fileVars, deviceVars, part>>
=============================================================================
