------------------------------ MODULE StateFiles ------------------------------
(***************************************************************************)
(* Files of the state directory that one handler replaces and another, or  *)
(* the next daemon, reads: the encrypted credentials and their key         *)
(* (authstore.go), the connection history (history.go) and the token of    *)
(* the mobile API (mobile.go).  The first three are written to a temporary *)
(* file and renamed, each under its mutex; the token is written in place   *)
(* and without one.  A process dies between any two system calls.          *)
(***************************************************************************)
EXTENDS Naturals, Sequences

CONSTANTS
  Handler,       \* goroutines serving requests
  Main,          \* runDaemon
  Nobody,
  Cap,           \* connections that are kept: 100
  MaxCalls, MaxFileFaults, MaxFileCrashes     \* bounds of the environment

Routine == Handler \cup {Main}

ASSUME StateFilesAssumption ==
  /\ Main \notin Handler /\ Nobody \notin Routine
  /\ Cap \in Nat \ {0}
  /\ {MaxCalls, MaxFileFaults, MaxFileCrashes} \subseteq Nat

VARIABLES
  keyFile,       \* credentials.key, 0: none
  sealed,        \* credentials.enc: the key it was sealed with, 0: no file
  records,       \* history.json, newest first
  tokenFile,     \* mobile-token, 0: no file, or one that is too short
  credentialsMu, historyMu,
  fpc, held,     \* where a routine is; its key, token or records
  serving,       \* the token the mobile server asks for, 0: no server
  fresh,         \* keys, tokens and connections there were
  made, paired,  \* history: connections that were recorded; tokens handed out
  raced,         \* history: two handlers made a token at a time
  misread,       \* history: a token that was on file could not be read
  fbudget

onFile == <<keyFile, sealed, records, tokenFile>>
fileLocks == <<credentialsMu, historyMu>>
fileHistory == <<made, paired, raced, misread>>
fileVars == <<onFile, fileLocks, fpc, held, serving, fresh, fileHistory, fbudget>>

FilesInit ==
  /\ keyFile = 0 /\ sealed = 0 /\ records = << >> /\ tokenFile = 0
  /\ credentialsMu = Nobody /\ historyMu = Nobody
  /\ fpc = [p \in Routine |-> IF p = Main THEN "boot" ELSE "idle"]
  /\ held = [p \in Routine |-> << >>]
  /\ serving = 0 /\ fresh = 0
  /\ made = << >> /\ paired = {} /\ raced = FALSE /\ misread = FALSE
  /\ fbudget = [call |-> MaxCalls, fault |-> MaxFileFaults, crash |-> MaxFileCrashes]

SpendFile(what) == fbudget[what] > 0 /\ fbudget' = [fbudget EXCEPT ![what] = @ - 1]
At(p, label) == fpc[p] = label
Move(p, label) == fpc' = [fpc EXCEPT ![p] = label]
Hold(p, values) == held' = [held EXCEPT ![p] = values]
Up == fpc[Main] = "up"

\* A request that a handler takes.
Take(p, label) ==
  /\ p \in Handler /\ Up /\ At(p, "idle")
  /\ SpendFile("call")
  /\ Move(p, label)

Newest(values) == SubSeq(values, 1, IF Len(values) < Cap THEN Len(values) ELSE Cap)

-----------------------------------------------------------------------------
(* authstore.go *)

\* Seeded error: the key is used though its file could not be written.
CredentialKeyUnsaved(p) ==
  IF keyFile # 0 THEN Hold(p, <<keyFile>>) /\ UNCHANGED <<keyFile, fresh>>
  ELSE Hold(p, <<fresh + 1>>) /\ fresh' = fresh + 1 /\ UNCHANGED keyFile

\* A key that is not there is made.
CredentialKey(p) ==
  IF keyFile # 0 THEN Hold(p, <<keyFile>>) /\ UNCHANGED <<keyFile, fresh>>
  ELSE Hold(p, <<fresh + 1>>) /\ fresh' = fresh + 1 /\ keyFile' = fresh + 1

\* login's saveCredentials, logout's, or loadCredentials.
Credentials(p) ==
  /\ \E call \in {"save", "remove", "load"} : Take(p, call)
  /\ credentialsMu = Nobody /\ credentialsMu' = p
  /\ UNCHANGED <<onFile, historyMu, held, serving, fresh, fileHistory>>

FileReturn(p) ==
  /\ Move(p, "idle") /\ Hold(p, << >>)
  /\ credentialsMu' = IF credentialsMu = p THEN Nobody ELSE credentialsMu
  /\ historyMu' = IF historyMu = p THEN Nobody ELSE historyMu

SaveKey(p) ==
  /\ At(p, "save")
  /\ CredentialKey(p)
  /\ Move(p, "seal")
  /\ UNCHANGED <<sealed, records, tokenFile, fileLocks, serving, fileHistory, fbudget>>

Seal(p) ==
  /\ At(p, "seal")
  /\ sealed' = held[p][1]
  /\ FileReturn(p)
  /\ UNCHANGED <<keyFile, records, tokenFile, serving, fresh, fileHistory, fbudget>>

RemoveCredentials(p) ==
  /\ At(p, "remove")
  /\ sealed' = 0
  /\ FileReturn(p)
  /\ UNCHANGED <<keyFile, records, tokenFile, serving, fresh, fileHistory, fbudget>>

\* The key is asked for only when there is something to open.
LoadCredentials(p) ==
  /\ At(p, "load")
  /\ FileReturn(p)
  /\ IF sealed # 0 /\ keyFile = 0 THEN keyFile' = fresh + 1 /\ fresh' = fresh + 1
     ELSE UNCHANGED <<keyFile, fresh>>
  /\ UNCHANGED <<sealed, records, tokenFile, serving, fileHistory, fbudget>>

-----------------------------------------------------------------------------
(* history.go *)

\* Seeded error: the history is read before the mutex is taken.
AppendUnguarded(p) ==
  /\ Take(p, "append")
  /\ historyMu' = p
  /\ Hold(p, records)
  /\ UNCHANGED <<onFile, credentialsMu, serving, fresh, fileHistory>>

AppendHistory(p) ==
  /\ Take(p, "append")
  /\ historyMu = Nobody /\ historyMu' = p
  /\ Hold(p, records)
  /\ UNCHANGED <<onFile, credentialsMu, serving, fresh, fileHistory>>

Record(p) ==
  /\ At(p, "append")
  /\ fresh' = fresh + 1
  /\ records' = Newest(<<fresh + 1>> \o held[p])
  /\ made' = <<fresh + 1>> \o made
  /\ FileReturn(p)
  /\ UNCHANGED <<keyFile, sealed, tokenFile, serving, paired, raced, misread, fbudget>>

\* A command on the way to the rename fails; the file is what it was.
FileFails(p) ==
  /\ fpc[p] \in {"save", "seal", "remove", "append"}
  /\ SpendFile("fault")
  /\ FileReturn(p)
  /\ UNCHANGED <<onFile, serving, fresh, fileHistory>>

-----------------------------------------------------------------------------
(* mobile.go *)

Making == {"create", "write"}

\* What loadOrCreateMobileToken's caller does with it: runDaemon serves it, the
\* handler of /mobile/pairing hands it out.
Token(p, token) ==
  IF p = Main
  THEN /\ serving' = token
       /\ Move(Main, "up") /\ Hold(Main, << >>) /\ UNCHANGED paired
  ELSE /\ paired' = paired \cup {token}
       /\ Move(p, "idle") /\ Hold(p, << >>) /\ UNCHANGED serving

\* No token: the mobile API stays off, or the handler answers an error.
NoToken(p) ==
  /\ Move(p, IF p = Main THEN "up" ELSE "idle")
  /\ Hold(p, << >>)

\* runDaemon, when mobile_enabled is set and when it is not; handleMobilePairing.
WantToken(p) ==
  /\ \/ p = Main /\ At(p, "boot") /\ (Move(p, "token") \/ Move(p, "up")) /\ UNCHANGED fbudget
     \/ Take(p, "token")
  /\ UNCHANGED <<onFile, fileLocks, held, serving, fresh, fileHistory>>

\* There is no token, as far as this routine can tell: it makes one.
MakeToken(p) ==
  /\ Move(p, "create")
  /\ raced' = (raced \/ \E q \in Routine : fpc[q] \in Making)
  /\ UNCHANGED <<held, serving, paired>>

ReadToken(p) ==
  /\ At(p, "token")
  /\ IF tokenFile # 0 THEN Token(p, tokenFile) /\ UNCHANGED raced ELSE MakeToken(p)
  /\ UNCHANGED <<onFile, fileLocks, fresh, made, misread, fbudget>>

\* Any error of ReadFile counts as no token, and the one on file is overwritten.
ReadTokenFails(p) ==
  /\ At(p, "token")
  /\ SpendFile("fault")
  /\ MakeToken(p)
  /\ misread' = (misread \/ tokenFile # 0)
  /\ UNCHANGED <<onFile, fileLocks, fresh, made>>

\* WriteFile empties the file first.
CreateToken(p) ==
  /\ At(p, "create")
  /\ Hold(p, <<fresh + 1>>) /\ fresh' = fresh + 1
  /\ tokenFile' = 0
  /\ Move(p, "write")
  /\ UNCHANGED <<keyFile, sealed, records, fileLocks, serving, fileHistory, fbudget>>

WriteToken(p) ==
  /\ At(p, "write")
  /\ tokenFile' = held[p][1]
  /\ Token(p, held[p][1])
  /\ UNCHANGED <<keyFile, sealed, records, fileLocks, fresh, made, raced, misread, fbudget>>

\* Seeded error: the token is used though it could not be written.
WriteTokenFailsUsed(p) ==
  /\ At(p, "write")
  /\ SpendFile("fault")
  /\ Token(p, held[p][1])
  /\ UNCHANGED <<onFile, fileLocks, fresh, made, raced, misread>>

\* There is no randomness, or the write or the chmod after it fails.
WriteTokenFails(p) ==
  /\ \/ At(p, "create") /\ UNCHANGED tokenFile
     \/ At(p, "write") /\ tokenFile' \in {tokenFile, held[p][1]}
  /\ SpendFile("fault")
  /\ NoToken(p)
  /\ UNCHANGED <<keyFile, sealed, records, fileLocks, serving, fresh, fileHistory>>

-----------------------------------------------------------------------------
FileStep(p) ==
  \/ Credentials(p) \/ SaveKey(p) \/ Seal(p) \/ RemoveCredentials(p) \/ LoadCredentials(p)
  \/ AppendHistory(p) \/ Record(p) \/ FileFails(p)
  \/ WantToken(p) \/ ReadToken(p) \/ ReadTokenFails(p) \/ CreateToken(p) \/ WriteToken(p)
  \/ WriteTokenFails(p)

\* The daemon dies anywhere and is respawned.
RespawnDaemon ==
  /\ SpendFile("crash")
  /\ credentialsMu' = Nobody /\ historyMu' = Nobody
  /\ fpc' = [p \in Routine |-> IF p = Main THEN "boot" ELSE "idle"]
  /\ held' = [p \in Routine |-> << >>]
  /\ serving' = 0
  /\ UNCHANGED <<onFile, fresh, fileHistory>>

FilesNext == (\E p \in Routine : FileStep(p)) \/ RespawnDaemon

FilesSpec == FilesInit /\ [][FilesNext]_fileVars

-----------------------------------------------------------------------------
(***************************************************************************)
(* The credentials on file can be opened with the key on file, wherever a  *)
(* save failed or the daemon died: otherwise every later sign-in fails.    *)
(***************************************************************************)
CredentialsReadable == sealed # 0 => sealed = keyFile

(***************************************************************************)
(* The history holds the newest connections that were recorded, in order   *)
(* and without a gap, whoever recorded them at a time and died doing so.   *)
(***************************************************************************)
HistoryKept == records = Newest(made)

(***************************************************************************)
(* A phone stays paired: the mobile API asks for the token that was handed *)
(* out, across restarts, torn writes and changes of mobile_enabled, unless *)
(* two requests made a token at the same time or the token on file could   *)
(* not be read, which the code takes for no token.                         *)
(***************************************************************************)
PhonesStayPaired == serving # 0 /\ ~raced /\ ~misread => paired \subseteq {serving}
=============================================================================
