--------------------------- MODULE StateFilesProofs ---------------------------
(***************************************************************************)
(* The credentials, the history, the pairing of phones and the devices of  *)
(* the slots survive every interleaving, failure and death: proofs for any *)
(* number of handlers, slots and profiles and any budgets.                 *)
(***************************************************************************)
EXTENDS StateFiles, DeviceSlots, FiniteSetTheorems, SequenceTheorems, TLAPS

-----------------------------------------------------------------------------
(* the credentials *)

(***************************************************************************)
(* A key that is on file stays: whoever is about to seal holds it.  No     *)
(* mutex is needed for that.                                               *)
(***************************************************************************)
KeyInv ==
  /\ fresh \in Nat
  /\ DOMAIN fpc = Routine
  /\ DOMAIN held = Routine
  /\ CredentialsReadable
  /\ \A p \in Routine : fpc[p] = "seal" => keyFile # 0 /\ held[p][1] = keyFile

(***************************************************************************)
(* No credentials and nobody sealing: KeyInv holds at first.               *)
(***************************************************************************)
LEMMA KeyInit == FilesInit => KeyInv
  <1> SUFFICES ASSUME FilesInit PROVE KeyInv
    OBVIOUS
  <1>1. /\ fpc = [p \in Routine |-> IF p = Main THEN "boot" ELSE "idle"]
        /\ held = [p \in Routine |-> << >>]
        /\ sealed = 0 /\ fresh = 0
    BY DEF FilesInit
  <1>2. /\ \A p \in Routine : fpc[p] # "seal"
        /\ DOMAIN fpc = Routine
    BY <1>1
  <1> QED
    BY <1>1, <1>2 DEF KeyInv, CredentialsReadable

(***************************************************************************)
(* A step that moves one routine, to anywhere but the sealing, and touches *)
(* neither key nor credentials, keeps KeyInv.                              *)
(***************************************************************************)
LEMMA KeyElsewhere ==
  ASSUME KeyInv, NEW p \in Routine, NEW label, label # "seal",
         Move(p, label), UNCHANGED <<keyFile, sealed>>, fresh' \in Nat,
         held' = held \/ \E values : Hold(p, values)
  PROVE  KeyInv'
  BY DEF KeyInv, CredentialsReadable, Move, Hold

(***************************************************************************)
(* The credentials' own steps keep KeyInv: a key is made only where there  *)
(* is none, and then nothing is sealed.                                    *)
(***************************************************************************)
LEMMA KeyCredentials ==
  ASSUME KeyInv, NEW p \in Routine,
         Credentials(p) \/ SaveKey(p) \/ Seal(p) \/ RemoveCredentials(p) \/ LoadCredentials(p)
  PROVE  KeyInv'
  <1>1. CASE Credentials(p)
    BY <1>1 DEF Credentials, Take, Move, At, KeyInv, CredentialsReadable, onFile
  <1>2. CASE SaveKey(p)
    <2>1. Move(p, "seal") /\ UNCHANGED sealed
      BY <1>2 DEF SaveKey
    <2>2. \/ keyFile # 0 /\ Hold(p, <<keyFile>>) /\ UNCHANGED <<keyFile, fresh>>
          \/ keyFile = 0 /\ Hold(p, <<fresh + 1>>) /\ fresh' = fresh + 1 /\ keyFile' = fresh + 1
      BY <1>2 DEF SaveKey, CredentialKey
    <2> QED
      BY <2>1, <2>2 DEF Move, Hold, KeyInv, CredentialsReadable
  <1>3. CASE Seal(p)
    BY <1>3 DEF Seal, At, FileReturn, Move, Hold, KeyInv, CredentialsReadable
  <1>4. CASE RemoveCredentials(p)
    BY <1>4 DEF RemoveCredentials, At, FileReturn, Move, Hold, KeyInv, CredentialsReadable
  <1>5. CASE LoadCredentials(p)
    <2>1. Move(p, "idle") /\ Hold(p, << >>) /\ UNCHANGED sealed
      BY <1>5 DEF LoadCredentials, FileReturn
    <2>2. \/ UNCHANGED <<keyFile, fresh>>
          \/ sealed # 0 /\ keyFile = 0
      BY <1>5 DEF LoadCredentials
    <2> QED
      BY <2>1, <2>2 DEF Move, Hold, KeyInv, CredentialsReadable
  <1> QED
    BY <1>1, <1>2, <1>3, <1>4, <1>5

(***************************************************************************)
(* So does every step of a routine.                                        *)
(***************************************************************************)
LEMMA KeyStep ==
  ASSUME KeyInv, NEW p \in Routine, FileStep(p)
  PROVE  KeyInv'
  <1>1. CASE Credentials(p) \/ SaveKey(p) \/ Seal(p) \/ RemoveCredentials(p) \/ LoadCredentials(p)
    BY <1>1, KeyCredentials
  <1>2. CASE AppendHistory(p)
    BY <1>2, KeyElsewhere DEF AppendHistory, Take, onFile, KeyInv
  <1>3. CASE Record(p)
    <2>1. /\ Move(p, "idle") /\ Hold(p, << >>)
          /\ UNCHANGED <<keyFile, sealed>> /\ fresh' = fresh + 1
      BY <1>3 DEF Record, FileReturn
    <2> QED
      BY <2>1, KeyElsewhere DEF KeyInv
  <1>4. CASE FileFails(p)
    BY <1>4, KeyElsewhere DEF FileFails, FileReturn, onFile, KeyInv
  <1>5. CASE WantToken(p)
    BY <1>5, KeyElsewhere DEF WantToken, Take, onFile, KeyInv
  <1>6. CASE ReadToken(p) \/ ReadTokenFails(p)
    BY <1>6, KeyElsewhere DEF ReadToken, ReadTokenFails, MakeToken, Token, onFile, KeyInv
  <1>7. CASE CreateToken(p)
    BY <1>7, KeyElsewhere DEF CreateToken, KeyInv
  <1>8. CASE WriteToken(p)
    BY <1>8, KeyElsewhere DEF WriteToken, Token, KeyInv
  <1>9. CASE WriteTokenFails(p)
    BY <1>9, KeyElsewhere DEF WriteTokenFails, NoToken, KeyInv
  <1> QED
    BY <1>1, <1>2, <1>3, <1>4, <1>5, <1>6, <1>7, <1>8, <1>9 DEF FileStep

(***************************************************************************)
(* The credentials on file can be opened with the key on file, wherever a  *)
(* save failed or the daemon died (saveCredentials, credentialKey).        *)
(***************************************************************************)
THEOREM CredentialsStayReadable == FilesSpec => []CredentialsReadable
  <1>1. FilesInit => KeyInv
    BY KeyInit
  <1>2. KeyInv /\ [FilesNext]_fileVars => KeyInv'
    <2> SUFFICES ASSUME KeyInv, [FilesNext]_fileVars PROVE KeyInv'
      OBVIOUS
    <2>1. ASSUME NEW p \in Routine, FileStep(p) PROVE KeyInv'
      BY <2>1, KeyStep
    <2>2. CASE RespawnDaemon
      BY <2>2 DEF RespawnDaemon, KeyInv, CredentialsReadable, onFile
    <2>3. CASE UNCHANGED fileVars
      BY <2>3 DEF fileVars, onFile, KeyInv, CredentialsReadable
    <2> QED
      BY <2>1, <2>2, <2>3 DEF FilesNext
  <1>3. KeyInv => CredentialsReadable
    BY DEF KeyInv
  <1> QED
    BY <1>1, <1>2, <1>3, PTL DEF FilesSpec

-----------------------------------------------------------------------------
(* the history *)

(***************************************************************************)
(* What is kept is a sequence of at most Cap records, the first of those   *)
(* there are.                                                              *)
(***************************************************************************)
LEMMA NewestProperties ==
  ASSUME NEW s \in Seq(Nat)
  PROVE  /\ Newest(s) \in Seq(Nat)
         /\ Len(Newest(s)) = IF Len(s) < Cap THEN Len(s) ELSE Cap
         /\ \A i \in 1..Len(Newest(s)) : Newest(s)[i] = s[i]
  <1> DEFINE n == IF Len(s) < Cap THEN Len(s) ELSE Cap
  <1>1. n \in Nat /\ n <= Len(s) /\ Cap \in Nat
    BY LenProperties, StateFilesAssumption
  <1>2. \A i \in 1..n : s[i] \in Nat
    BY <1>1, ElementOfSeq
  <1>3. Newest(s) = SubSeq(s, 1, n)
    BY DEF Newest
  <1> HIDE DEF n
  <1>4. /\ SubSeq(s, 1, n) \in Seq(Nat)
        /\ Len(SubSeq(s, 1, n)) = IF 1 <= n THEN n - 1 + 1 ELSE 0
        /\ \A i \in 1 .. n - 1 + 1 : SubSeq(s, 1, n)[i] = s[1 + i - 1]
    BY <1>1, <1>2, SubSeqProperties
  <1>5. Len(SubSeq(s, 1, n)) = n
    BY <1>1, <1>4
  <1> QED
    BY <1>1, <1>3, <1>4, <1>5 DEF n

(***************************************************************************)
(* Dropping the oldest records before one is added makes no difference.    *)
(***************************************************************************)
LEMMA NewestAgain ==
  ASSUME NEW s \in Seq(Nat), NEW x \in Nat
  PROVE  Newest(<<x>> \o Newest(s)) = Newest(<<x>> \o s)
  <1> DEFINE a == <<x>> \o Newest(s)
             b == <<x>> \o s
  <1>0. <<x>> \in Seq(Nat) /\ Len(<<x>>) = 1 /\ Len(s) \in Nat /\ Cap \in Nat \ {0}
    BY StateFilesAssumption
  <1>1. /\ Newest(s) \in Seq(Nat)
        /\ Len(Newest(s)) = IF Len(s) < Cap THEN Len(s) ELSE Cap
        /\ \A i \in 1..Len(Newest(s)) : Newest(s)[i] = s[i]
    BY NewestProperties
  <1>2. /\ a \in Seq(Nat) /\ Len(a) = 1 + Len(Newest(s))
        /\ \A i \in 1..1 + Len(Newest(s)) : a[i] = IF i <= 1 THEN <<x>>[i] ELSE Newest(s)[i - 1]
    BY <1>0, <1>1, ConcatProperties
  <1>3. /\ b \in Seq(Nat) /\ Len(b) = 1 + Len(s)
        /\ \A i \in 1..1 + Len(s) : b[i] = IF i <= 1 THEN <<x>>[i] ELSE s[i - 1]
    BY <1>0, ConcatProperties
  <1> HIDE DEF a, b
  <1>4. /\ Newest(a) \in Seq(Nat)
        /\ Len(Newest(a)) = IF Len(a) < Cap THEN Len(a) ELSE Cap
        /\ \A i \in 1..Len(Newest(a)) : Newest(a)[i] = a[i]
    BY <1>2, NewestProperties
  <1>5. /\ Newest(b) \in Seq(Nat)
        /\ Len(Newest(b)) = IF Len(b) < Cap THEN Len(b) ELSE Cap
        /\ \A i \in 1..Len(Newest(b)) : Newest(b)[i] = b[i]
    BY <1>3, NewestProperties
  <1>6. Len(Newest(a)) = Len(Newest(b))
    BY <1>0, <1>1, <1>2, <1>3, <1>4, <1>5
  <1>7. ASSUME NEW i \in 1..Len(Newest(a)) PROVE Newest(a)[i] = Newest(b)[i]
    <2>1. i \in Nat /\ 1 <= i /\ i <= 1 + Len(Newest(s)) /\ i <= 1 + Len(s)
      BY <1>0, <1>1, <1>2, <1>4
    <2>2. Newest(a)[i] = a[i] /\ Newest(b)[i] = b[i]
      BY <1>4, <1>5, <1>6
    <2>3. CASE i <= 1
      BY <2>1, <2>2, <2>3, <1>0, <1>1, <1>2, <1>3
    <2>4. CASE ~(i <= 1)
      <3>1. i - 1 \in 1..Len(Newest(s))
        BY <2>1, <2>4, <1>0, <1>1
      <3>2. a[i] = Newest(s)[i - 1] /\ b[i] = s[i - 1]
        BY <2>1, <2>4, <1>0, <1>1, <1>2, <1>3
      <3> QED
        BY <3>1, <3>2, <2>2, <1>1
    <2> QED
      BY <2>3, <2>4
  <1>8. Newest(a) = Newest(b)
    BY <1>4, <1>5, <1>6, <1>7, SeqEqual
  <1> QED
    BY <1>8 DEF a, b

(***************************************************************************)
(* HistoryKept is not inductive: what a handler adds to is what it read.   *)
(* historyMu keeps that the history on file.                               *)
(***************************************************************************)
HistoryInv ==
  /\ fresh \in Nat
  /\ DOMAIN fpc = Routine /\ DOMAIN held = Routine
  /\ made \in Seq(Nat)
  /\ HistoryKept
  /\ \A p \in Routine : fpc[p] = "append" => historyMu = p /\ held[p] = records

(***************************************************************************)
(* No connections and an empty history: HistoryInv holds at first.         *)
(***************************************************************************)
LEMMA HistoryInit == FilesInit => HistoryInv
  <1> SUFFICES ASSUME FilesInit PROVE HistoryInv
    OBVIOUS
  <1>1. /\ fpc = [p \in Routine |-> IF p = Main THEN "boot" ELSE "idle"]
        /\ held = [p \in Routine |-> << >>]
        /\ records = << >> /\ made = << >> /\ fresh = 0
    BY DEF FilesInit
  <1>2. /\ \A p \in Routine : fpc[p] # "append"
        /\ DOMAIN fpc = Routine
    BY <1>1
  <1>3. << >> \in Seq(Nat) /\ Newest(<< >>) = << >>
    <2> DEFINE e == << >>
    <2>1. e \in Seq(Nat) /\ Len(e) = 0 /\ 0 < Cap
      BY EmptySeq, StateFilesAssumption
    <2> HIDE DEF e
    <2>2. Newest(e) \in Seq(Nat) /\ Len(Newest(e)) = 0
      BY <2>1, NewestProperties
    <2>3. Newest(e) = e
      BY <2>1, <2>2, SeqEqual
    <2> QED
      BY <2>1, <2>3 DEF e
  <1> QED
    BY <1>1, <1>2, <1>3 DEF HistoryInv, HistoryKept

(***************************************************************************)
(* A step elsewhere, of one that is not adding a record, keeps HistoryInv  *)
(* if it leaves the history and its mutex alone.                           *)
(***************************************************************************)
LEMMA HistoryElsewhere ==
  ASSUME HistoryInv, NEW p \in Routine, NEW label, label # "append",
         Move(p, label), fpc[p] # "append", UNCHANGED <<records, made>>, fresh' \in Nat,
         UNCHANGED historyMu \/ historyMu = p,
         held' = held \/ \E values : Hold(p, values)
  PROVE  HistoryInv'
  BY DEF HistoryInv, HistoryKept, Move, Hold

(***************************************************************************)
(* Every step of a routine keeps HistoryInv: who adds a record adds it to  *)
(* the history on file, since historyMu was its own from the read on.      *)
(***************************************************************************)
LEMMA HistoryStep ==
  ASSUME HistoryInv, NEW p \in Routine, FileStep(p)
  PROVE  HistoryInv'
  <1>1. CASE AppendHistory(p)
    <2>1. /\ Move(p, "append") /\ Hold(p, records)
          /\ historyMu = Nobody /\ historyMu' = p
          /\ UNCHANGED <<records, fresh, made>>
      BY <1>1 DEF AppendHistory, Take, onFile, fileHistory
    <2>2. \A q \in Routine : fpc[q] # "append"
      BY <2>1, StateFilesAssumption DEF HistoryInv
    <2> QED
      BY <2>1, <2>2 DEF Move, Hold, HistoryInv, HistoryKept
  <1>2. CASE Record(p)
    <2>1. /\ fpc[p] = "append" /\ fresh' = fresh + 1
          /\ records' = Newest(<<fresh + 1>> \o held[p])
          /\ made' = <<fresh + 1>> \o made
          /\ Move(p, "idle") /\ Hold(p, << >>)
      BY <1>2 DEF Record, At, FileReturn
    <2>2. /\ fresh + 1 \in Nat /\ made \in Seq(Nat)
          /\ historyMu = p /\ held[p] = Newest(made)
      BY <2>1 DEF HistoryInv, HistoryKept
    <2>3. records' = Newest(made')
      <3>1. Newest(<<fresh + 1>> \o Newest(made)) = Newest(<<fresh + 1>> \o made)
        BY <2>2, NewestAgain
      <3> QED
        BY <2>1, <2>2, <3>1
    <2>4. made' \in Seq(Nat)
      <3>1. <<fresh + 1>> \in Seq(Nat)
        BY <2>2
      <3> QED
        BY <2>1, <2>2, <3>1, ConcatProperties
    <2>5. \A q \in Routine : fpc'[q] # "append"
      BY <2>1, <2>2 DEF Move, HistoryInv
    <2>6. fresh' \in Nat /\ DOMAIN fpc' = Routine /\ DOMAIN held' = Routine
      BY <2>1, <2>2 DEF Move, Hold, HistoryInv
    <2> QED
      BY <2>3, <2>4, <2>5, <2>6 DEF HistoryInv, HistoryKept
  <1>3. CASE FileFails(p)
    <2>1. /\ Move(p, "idle") /\ Hold(p, << >>)
          /\ UNCHANGED <<records, fresh, made>>
          /\ historyMu' = IF historyMu = p THEN Nobody ELSE historyMu
      BY <1>3 DEF FileFails, FileReturn, onFile, fileHistory
    <2> QED
      BY <2>1 DEF Move, Hold, HistoryInv, HistoryKept
  <1>4. CASE Credentials(p)
    BY <1>4, HistoryElsewhere DEF Credentials, Take, At, onFile, fileHistory, HistoryInv
  <1>5. CASE SaveKey(p)
    <2>1. /\ fpc[p] # "append" /\ Move(p, "seal") /\ fresh' \in Nat
          /\ UNCHANGED <<records, made, historyMu>>
          /\ \E values : Hold(p, values)
      BY <1>5 DEF SaveKey, CredentialKey, At, fileLocks, fileHistory, HistoryInv
    <2> QED
      BY <2>1, HistoryElsewhere
  <1>6. CASE Seal(p) \/ RemoveCredentials(p)
    <2>1. /\ fpc[p] # "append" /\ Move(p, "idle") /\ fresh' \in Nat
          /\ UNCHANGED <<records, made>> /\ Hold(p, << >>)
          /\ UNCHANGED historyMu \/ historyMu = p
      BY <1>6 DEF Seal, RemoveCredentials, At, FileReturn, fileHistory, HistoryInv
    <2> QED
      BY <2>1, HistoryElsewhere
  <1>7. CASE LoadCredentials(p)
    <2>1. /\ fpc[p] # "append" /\ Move(p, "idle") /\ fresh' \in Nat
          /\ UNCHANGED <<records, made>> /\ Hold(p, << >>)
          /\ UNCHANGED historyMu \/ historyMu = p
      BY <1>7 DEF LoadCredentials, At, FileReturn, fileHistory, HistoryInv
    <2> QED
      BY <2>1, HistoryElsewhere
  <1>8. CASE WantToken(p)
    <2>1. \E label \in {"token", "up"} :
            /\ fpc[p] # "append" /\ Move(p, label) /\ fresh' \in Nat
            /\ UNCHANGED <<records, made, historyMu, held>>
      BY <1>8 DEF WantToken, Take, At, onFile, fileLocks, fileHistory, HistoryInv
    <2> QED
      BY <2>1, HistoryElsewhere
  <1>9. CASE ReadToken(p) \/ ReadTokenFails(p) \/ CreateToken(p) \/ WriteToken(p) \/ WriteTokenFails(p)
    <2>1. \E label \in {"create", "write", "up", "idle"} :
            /\ fpc[p] # "append" /\ Move(p, label) /\ fresh' \in Nat
            /\ UNCHANGED <<records, made, historyMu>>
            /\ held' = held \/ \E values : Hold(p, values)
      <3>1. fpc[p] # "append" /\ fresh' \in Nat /\ UNCHANGED <<records, made, historyMu>>
        BY <1>9 DEF ReadToken, ReadTokenFails, MakeToken, CreateToken, WriteToken, WriteTokenFails,
                    Token, At, onFile, fileLocks, fileHistory, HistoryInv
      <3>2. \E label \in {"create", "write", "up", "idle"} : Move(p, label)
        BY <1>9 DEF ReadToken, ReadTokenFails, MakeToken, CreateToken, WriteToken, WriteTokenFails,
                    Token, NoToken
      <3>3. held' = held \/ \E values : Hold(p, values)
        BY <1>9 DEF ReadToken, ReadTokenFails, MakeToken, CreateToken, WriteToken, WriteTokenFails,
                    Token, NoToken
      <3> QED
        BY <3>1, <3>2, <3>3
    <2> QED
      BY <2>1, HistoryElsewhere
  <1> QED
    BY <1>1, <1>2, <1>3, <1>4, <1>5, <1>6, <1>7, <1>8, <1>9 DEF FileStep

(***************************************************************************)
(* The history holds the newest connections that were recorded, in order   *)
(* and without a gap, whoever recorded them at a time and died doing so    *)
(* (appendHistory).                                                        *)
(***************************************************************************)
THEOREM HistoryIsKept == FilesSpec => []HistoryKept
  <1>1. FilesInit => HistoryInv
    BY HistoryInit
  <1>2. HistoryInv /\ [FilesNext]_fileVars => HistoryInv'
    <2> SUFFICES ASSUME HistoryInv, [FilesNext]_fileVars PROVE HistoryInv'
      OBVIOUS
    <2>1. ASSUME NEW p \in Routine, FileStep(p) PROVE HistoryInv'
      BY <2>1, HistoryStep
    <2>2. CASE RespawnDaemon
      <3>1. /\ fpc' = [p \in Routine |-> IF p = Main THEN "boot" ELSE "idle"]
            /\ held' = [p \in Routine |-> << >>]
            /\ UNCHANGED <<records, fresh, made>>
        BY <2>2 DEF RespawnDaemon, onFile, fileHistory
      <3>2. DOMAIN fpc' = Routine /\ \A p \in Routine : fpc'[p] # "append"
        BY <3>1
      <3> QED
        BY <3>1, <3>2 DEF HistoryInv, HistoryKept
    <2>3. CASE UNCHANGED fileVars
      BY <2>3 DEF fileVars, onFile, fileLocks, fileHistory, HistoryInv, HistoryKept
    <2> QED
      BY <2>1, <2>2, <2>3 DEF FilesNext
  <1>3. HistoryInv => HistoryKept
    BY DEF HistoryInv
  <1> QED
    BY <1>1, <1>2, <1>3, PTL DEF FilesSpec

-----------------------------------------------------------------------------
(* the token of the mobile API *)

(***************************************************************************)
(* PhonesStayPaired is not inductive: unless two routines made a token at  *)
(* the same time or one on file could not be read, the routine that makes  *)
(* it finds no token on file until it writes its own, and what is served   *)
(* and was handed out is on file.                                          *)
(***************************************************************************)
TokenInv ==
  /\ fresh \in Nat
  /\ DOMAIN fpc = Routine /\ DOMAIN held = Routine
  /\ \A p \in Routine : fpc[p] = "write" => held[p][1] # 0
  /\ ~raced /\ ~misread =>
       /\ \A p, q \in Routine : fpc[p] \in Making /\ fpc[q] \in Making => p = q
       /\ \A p \in Routine : fpc[p] \in Making => tokenFile = 0
       /\ paired \subseteq {tokenFile} \ {0}
       /\ serving # 0 => serving = tokenFile

(***************************************************************************)
(* A step that leaves the token and what was made of it alone, of a        *)
(* routine that does not come to make one, keeps TokenInv.                 *)
(***************************************************************************)
LEMMA TokenElsewhere ==
  ASSUME TokenInv, NEW p \in Routine, NEW label, label \notin Making,
         Move(p, label), fresh' \in Nat,
         UNCHANGED <<tokenFile, serving, paired, raced, misread>>,
         held' = held \/ \E values : Hold(p, values)
  PROVE  TokenInv'
  BY DEF TokenInv, Move, Hold, Making

(***************************************************************************)
(* So does one that gets the token that is on file.                        *)
(***************************************************************************)
LEMMA TokenOnFile ==
  ASSUME TokenInv, NEW p \in Routine, tokenFile # 0, Token(p, tokenFile),
         UNCHANGED <<tokenFile, raced, misread, fresh>>
  PROVE  TokenInv'
  <1>1. \E label \in {"up", "idle"} : Move(p, label)
    BY DEF Token
  <1>2. Hold(p, << >>)
    BY DEF Token
  <1>3. /\ paired' \subseteq paired \cup {tokenFile}
        /\ serving' \in {serving, tokenFile}
    BY DEF Token
  <1> QED
    BY <1>1, <1>2, <1>3 DEF TokenInv, Move, Hold, Making

(***************************************************************************)
(* The steps of loadOrCreateMobileToken keep TokenInv.                     *)
(***************************************************************************)
LEMMA TokenMaking ==
  ASSUME TokenInv, NEW p \in Routine,
         ReadToken(p) \/ ReadTokenFails(p) \/ CreateToken(p) \/ WriteToken(p) \/ WriteTokenFails(p)
  PROVE  TokenInv'
  <1>1. CASE ReadToken(p) /\ tokenFile # 0
    BY <1>1, TokenOnFile DEF ReadToken, onFile
  <1>2. CASE ReadTokenFails(p) \/ (ReadToken(p) /\ tokenFile = 0)
    <2>1. /\ Move(p, "create") /\ UNCHANGED <<tokenFile, fresh, held, serving, paired>>
          /\ raced' = (raced \/ \E q \in Routine : fpc[q] \in Making)
      BY <1>2 DEF ReadToken, ReadTokenFails, MakeToken, onFile
    <2>2. misread' = misread \/ misread' = (misread \/ tokenFile # 0)
      BY <1>2 DEF ReadToken, ReadTokenFails
    <2>3. tokenFile = 0 \/ misread' = (misread \/ tokenFile # 0)
      BY <1>2 DEF ReadToken, ReadTokenFails
    <2>4. ~raced' /\ ~misread' =>
            ~raced /\ ~misread /\ tokenFile = 0 /\ \A q \in Routine : fpc[q] \notin Making
      BY <2>1, <2>2, <2>3
    <2>5. \A q \in Routine : fpc'[q] = IF q = p THEN "create" ELSE fpc[q]
      BY <2>1 DEF Move, TokenInv
    <2>6. DOMAIN fpc' = Routine
      BY <2>1 DEF Move, TokenInv
    <2> QED
      BY <2>1, <2>4, <2>5, <2>6 DEF TokenInv
  <1>3. CASE CreateToken(p)
    <2>1. /\ fpc[p] = "create" /\ Move(p, "write") /\ Hold(p, <<fresh + 1>>)
          /\ fresh' = fresh + 1 /\ tokenFile' = 0
          /\ UNCHANGED <<serving, paired, raced, misread>>
      BY <1>3 DEF CreateToken, At, fileHistory
    <2>2. ~raced /\ ~misread => tokenFile = 0
      BY <2>1 DEF TokenInv, Making
    <2>3. /\ \A q \in Routine : fpc'[q] = IF q = p THEN "write" ELSE fpc[q]
          /\ \A q \in Routine : held'[q] = IF q = p THEN <<fresh + 1>> ELSE held[q]
          /\ DOMAIN fpc' = Routine /\ DOMAIN held' = Routine
      BY <2>1 DEF Move, Hold, TokenInv
    <2>4. held'[p][1] # 0 /\ fresh' \in Nat
      BY <2>1, <2>3 DEF TokenInv
    <2> QED
      BY <2>1, <2>2, <2>3, <2>4 DEF TokenInv, Making
  <1>4. CASE WriteToken(p) \/ WriteTokenFails(p)
    <2>1. /\ fpc[p] \in Making /\ UNCHANGED <<fresh, raced, misread>> /\ Hold(p, << >>)
          /\ \E label \in {"up", "idle"} : Move(p, label)
          /\ tokenFile' # tokenFile => fpc[p] = "write" /\ tokenFile' = held[p][1]
          /\ WriteToken(p) => fpc[p] = "write" /\ tokenFile' = held[p][1]
      BY <1>4 DEF WriteToken, WriteTokenFails, Token, NoToken, At, fileHistory, Making
    <2>2. /\ fpc[p] = "write" => held[p][1] # 0
          /\ ~raced /\ ~misread => tokenFile = 0 /\ paired = {} /\ serving = 0
      BY <2>1 DEF TokenInv
    <2>3. /\ paired' \subseteq paired \cup {tokenFile'} /\ serving' \in {serving, tokenFile'}
          /\ tokenFile' = 0 => UNCHANGED <<paired, serving>>
      BY <1>4, <2>1, <2>2 DEF WriteToken, WriteTokenFails, Token, fileHistory
    <2>4. /\ \A q \in Routine : fpc'[q] \in Making => q # p /\ fpc[q] \in Making
          /\ \A q \in Routine : fpc'[q] = "write" => fpc[q] = "write" /\ held'[q] = held[q]
          /\ DOMAIN fpc' = Routine /\ DOMAIN held' = Routine
      BY <2>1 DEF Move, Hold, TokenInv, Making
    <2>5. ~raced /\ ~misread => \A q \in Routine : fpc'[q] \notin Making
      BY <2>1, <2>4 DEF TokenInv
    <2> QED
      BY <2>1, <2>2, <2>3, <2>4, <2>5 DEF TokenInv
  <1> QED
    BY <1>1, <1>2, <1>3, <1>4

(***************************************************************************)
(* Every step of a routine keeps TokenInv.                                 *)
(***************************************************************************)
LEMMA TokenStep ==
  ASSUME TokenInv, NEW p \in Routine, FileStep(p)
  PROVE  TokenInv'
  <1>1. CASE ReadToken(p) \/ ReadTokenFails(p) \/ CreateToken(p) \/ WriteToken(p) \/ WriteTokenFails(p)
    BY <1>1, TokenMaking
  <1>2. CASE ~(ReadToken(p) \/ ReadTokenFails(p) \/ CreateToken(p) \/ WriteToken(p) \/ WriteTokenFails(p))
    <2>1. \/ Credentials(p) \/ SaveKey(p) \/ Seal(p) \/ RemoveCredentials(p) \/ LoadCredentials(p)
          \/ AppendHistory(p) \/ Record(p) \/ FileFails(p) \/ WantToken(p)
      BY <1>2 DEF FileStep
    <2>2. \E label \in {"save", "remove", "load", "seal", "idle", "append", "token", "up"} :
            Move(p, label)
      BY <2>1 DEF Credentials, SaveKey, Seal, RemoveCredentials, LoadCredentials,
                  AppendHistory, Record, FileFails, WantToken, Take, FileReturn
    <2>3. fresh' \in Nat
      BY <2>1 DEF Credentials, SaveKey, CredentialKey, Seal, RemoveCredentials, LoadCredentials,
                  AppendHistory, Record, FileFails, WantToken, TokenInv
    <2>4. UNCHANGED <<tokenFile, serving, paired, raced, misread>>
      BY <2>1 DEF Credentials, SaveKey, Seal, RemoveCredentials, LoadCredentials,
                  AppendHistory, Record, FileFails, WantToken, onFile, fileHistory
    <2>5. held' = held \/ \E values : Hold(p, values)
      BY <2>1 DEF Credentials, SaveKey, CredentialKey, Seal, RemoveCredentials, LoadCredentials,
                  AppendHistory, Record, FileFails, WantToken, FileReturn
    <2> QED
      BY <2>2, <2>3, <2>4, <2>5, TokenElsewhere DEF Making
  <1> QED
    BY <1>1, <1>2

(***************************************************************************)
(* A phone stays paired across restarts, torn writes and changes of        *)
(* mobile_enabled (loadOrCreateMobileToken), unless two requests made a    *)
(* token at the same time or the one on file could not be read.            *)
(***************************************************************************)
THEOREM PairedPhonesStay == FilesSpec => []PhonesStayPaired
  <1>1. FilesInit => TokenInv
    <2> SUFFICES ASSUME FilesInit PROVE TokenInv
      OBVIOUS
    <2>1. /\ fpc = [p \in Routine |-> IF p = Main THEN "boot" ELSE "idle"]
          /\ held = [p \in Routine |-> << >>]
          /\ fresh = 0 /\ paired = {} /\ serving = 0
      BY DEF FilesInit
    <2>2. DOMAIN fpc = Routine /\ \A p \in Routine : fpc[p] \notin Making
      BY <2>1 DEF Making
    <2> QED
      BY <2>1, <2>2 DEF TokenInv, Making
  <1>2. TokenInv /\ [FilesNext]_fileVars => TokenInv'
    <2> SUFFICES ASSUME TokenInv, [FilesNext]_fileVars PROVE TokenInv'
      OBVIOUS
    <2>1. CASE RespawnDaemon
      <3>1. /\ fpc' = [p \in Routine |-> IF p = Main THEN "boot" ELSE "idle"]
            /\ held' = [p \in Routine |-> << >>]
            /\ serving' = 0 /\ UNCHANGED <<tokenFile, fresh, paired, raced, misread>>
        BY <2>1 DEF RespawnDaemon, onFile, fileHistory
      <3>2. DOMAIN fpc' = Routine /\ \A p \in Routine : fpc'[p] \notin Making
        BY <3>1 DEF Making
      <3> QED
        BY <3>1, <3>2 DEF TokenInv, Making
    <2>2. CASE UNCHANGED fileVars
      BY <2>2 DEF fileVars, onFile, fileHistory, TokenInv
    <2> QED
      BY <2>1, <2>2, TokenStep DEF FilesNext
  <1>3. TokenInv => PhonesStayPaired
    BY DEF TokenInv, PhonesStayPaired
  <1> QED
    BY <1>1, <1>2, <1>3, PTL DEF FilesSpec

-----------------------------------------------------------------------------
(* the devices of the slots *)

(***************************************************************************)
(* The two promises, for every process, with what they rest on: an answer  *)
(* is remembered, who writes for a slot has found nothing for it and has   *)
(* chosen what no other slot it knows of uses, and what was in use is on   *)
(* file.                                                                   *)
(***************************************************************************)
KeptIsCached ==
  \A o \in Os : \A s \in DeviceSlot :
    kept[s] # Nothing /\ cached[o][s] # Nothing => kept[s] = cached[o][s]

KnownAreDistinct ==
  \A o \in Os : \A s, t \in DeviceSlot :
    s # t /\ Known(o, s) # Nothing => Known(o, s) # Known(o, t)

Asking ==
  \A o \in Os : dpc[o] # "idle" =>
    kept[asked[o]] = Nothing /\ cached[o][asked[o]] = Nothing

Chosen ==
  \A o \in Os : dpc[o] = "write" =>
    \A t \in DeviceSlot \ {asked[o]} : chosen[o] # Known(o, t)

ToldIsCached ==
  \A o \in Os : \A s \in DeviceSlot : told[o][s] \in {Nothing, Hardware, cached[o][s]}

UsedIsKept == \A s \in DeviceSlot : inUse[s] \subseteq {kept[s]}

DeviceBasics ==
  /\ DeviceTypeOK
  /\ \A o \in Os : dpc[o] # "idle" => asked[o] \in DeviceSlot
  /\ \A o \in Os : dpc[o] = "write" => chosen[o] \in DeviceValue
  /\ ToldIsCached

DeviceInv ==
  /\ DeviceBasics
  /\ ~mixed /\ ~blind => KeptIsCached /\ KnownAreDistinct /\ Asking /\ Chosen /\ UsedIsKept

(***************************************************************************)
(* There is a profile that no other slot uses: the one function from the   *)
(* profiles to the slots that use them would need as many slots.           *)
(***************************************************************************)
LEMMA ProfileLeft ==
  ASSUME NEW o \in Os, NEW s \in DeviceSlot
  PROVE  ~(Profile \subseteq Used(o, s, {}))
  <1> SUFFICES ASSUME Profile \subseteq Used(o, s, {}) PROVE FALSE
    OBVIOUS
  <1> DEFINE Others == DeviceSlot \ {s}
             user == [v \in Profile |-> CHOOSE t \in Others : Known(o, t) = v]
  <1>1. \A v \in Profile : user[v] \in Others /\ Known(o, user[v]) = v
    <2> SUFFICES ASSUME NEW v \in Profile PROVE user[v] \in Others /\ Known(o, user[v]) = v
      OBVIOUS
    <2>1. \E t \in Others : Known(o, t) = v
      BY DEF Used
    <2>2. user[v] = CHOOSE t \in Others : Known(o, t) = v
      OBVIOUS
    <2> QED
      BY <2>1, <2>2
  <1>2. user \in [Profile -> Others]
    BY <1>1
  <1>3. /\ IsFiniteSet(DeviceSlot) /\ IsFiniteSet(Profile)
        /\ Cardinality(DeviceSlot) <= Cardinality(Profile)
        /\ Cardinality(DeviceSlot) \in Nat /\ Cardinality(Profile) \in Nat
    BY DeviceSlotsAssumption, FS_CardinalityType
  <1>4. IsFiniteSet(Others) /\ Cardinality(Others) = Cardinality(DeviceSlot) - 1
    BY <1>3, FS_RemoveElement
  <1>5. Cardinality(Others) < Cardinality(Profile)
    BY <1>3, <1>4
  <1> HIDE DEF user, Others
  <1>6. \E v, w \in Profile : v # w /\ user[v] = user[w]
    BY <1>2, <1>3, <1>4, <1>5, FS_PigeonHole
  <1> QED
    BY <1>1, <1>6

(***************************************************************************)
(* A candidate is a value, and one that no other slot the process knows of *)
(* uses if every file could be read.                                       *)
(***************************************************************************)
LEMMA CandidateIsNew ==
  ASSUME DeviceTypeOK, NEW o \in Os, NEW s \in DeviceSlot, NEW unread \in SUBSET DeviceSlot,
         NEW value \in Candidates(o, s, unread)
  PROVE  /\ value \in DeviceValue
         /\ unread = {} => \A t \in DeviceSlot \ {s} : value # Known(o, t)
  <1>1. CASE kind = "identity"
    BY <1>1 DEF Candidates, Known, DeviceValue
  <1>2. CASE kind # "identity"
    <2>1. value \in Profile
      BY <1>2 DEF Candidates
    <2>2. unread = {} => value \notin Used(o, s, {})
      BY <1>2, ProfileLeft DEF Candidates
    <2> QED
      BY <2>1, <2>2 DEF Used, DeviceValue
  <1> QED
    BY <1>1, <1>2

(***************************************************************************)
(* Every step keeps the types, a slot is asked for by who is at work, and  *)
(* what was answered is remembered, the identity of the hardware apart.    *)
(***************************************************************************)
LEMMA DeviceTyped ==
  ASSUME DeviceBasics, [DeviceNext]_deviceVars
  PROVE  DeviceBasics'
  <1> USE DEF DeviceBasics, DeviceTypeOK
  <1>1. ASSUME NEW o \in Os, NEW s \in DeviceSlot, Ask(o, s)
        PROVE  DeviceBasics'
    <2>1. /\ kept[s] \in DeviceValue
          /\ cached' = [cached EXCEPT ![o][s] = kept[s]]
          /\ told' = [told EXCEPT ![o][s] = kept[s]]
          /\ inUse' = [inUse EXCEPT ![s] = @ \cup {kept[s]}]
          /\ UNCHANGED <<kind, kept, dpc, asked, chosen, mixed, blind>>
      BY <1>1 DEF Ask, Cache, Answer, OnFile
    <2>2. cached' \in [Os -> [DeviceSlot -> DeviceValue \cup {Nothing}]]
      BY <2>1
    <2>3. told' \in [Os -> [DeviceSlot -> DeviceValue \cup {Nothing, Hardware}]]
      BY <2>1
    <2>4. inUse' \in [DeviceSlot -> SUBSET DeviceValue]
      BY <2>1
    <2>5. ToldIsCached'
      BY <2>1 DEF ToldIsCached
    <2> QED
      BY <2>1, <2>2, <2>3, <2>4, <2>5
  <1>2. ASSUME NEW o \in Os, NEW s \in DeviceSlot, AskAnew(o, s)
        PROVE  DeviceBasics'
    <2>1. /\ UNCHANGED <<kind, cached, kept, chosen, told, inUse, mixed>>
          /\ dpc' = [dpc EXCEPT ![o] = "choose"] /\ asked' = [asked EXCEPT ![o] = s]
      BY <1>2 DEF AskAnew
    <2>2. blind' \in BOOLEAN
      BY <1>2 DEF AskAnew
    <2> QED
      BY <2>1, <2>2 DEF ToldIsCached
  <1>3. ASSUME NEW o \in Os, Choose(o)
        PROVE  DeviceBasics'
    <2>1. /\ dpc[o] = "choose" /\ asked[o] \in DeviceSlot
          /\ dpc' = [dpc EXCEPT ![o] = "write"]
          /\ UNCHANGED <<kind, cached, kept, asked, told, inUse>>
      BY <1>3 DEF Choose
    <2>2. PICK unread \in SUBSET (DeviceSlot \ {asked[o]}) :
            \E value \in Candidates(o, asked[o], unread) : chosen' = [chosen EXCEPT ![o] = value]
      BY <1>3 DEF Choose
    <2>3. PICK value \in Candidates(o, asked[o], unread) : chosen' = [chosen EXCEPT ![o] = value]
      BY <2>2
    <2>4. value \in DeviceValue
      BY <2>1, <2>3, CandidateIsNew
    <2>5. mixed' \in BOOLEAN
      BY <1>3 DEF Choose
    <2>6. blind' \in BOOLEAN
      BY <1>3 DEF Choose
    <2> QED
      BY <2>1, <2>3, <2>4, <2>5, <2>6 DEF ToldIsCached
  <1>4. ASSUME NEW o \in Os, NoRandom(o)
        PROVE  DeviceBasics'
    <2>1. /\ dpc[o] = "choose" /\ asked[o] \in DeviceSlot
          /\ told' = [told EXCEPT ![o][asked[o]] = Hardware]
          /\ dpc' = [dpc EXCEPT ![o] = "idle"] /\ asked' = [asked EXCEPT ![o] = Nothing]
          /\ UNCHANGED <<kind, cached, kept, chosen, inUse, mixed, blind>>
      BY <1>4 DEF NoRandom, Answer, deviceHistory
    <2>2. told' \in [Os -> [DeviceSlot -> DeviceValue \cup {Nothing, Hardware}]]
      BY <2>1
    <2>3. ToldIsCached'
      BY <2>1 DEF ToldIsCached
    <2> QED
      BY <2>1, <2>2, <2>3
  <1>5. ASSUME NEW o \in Os, Write(o)
        PROVE  DeviceBasics'
    <2>1. mixed' \in BOOLEAN /\ UNCHANGED blind
      BY <1>5 DEF Write
    <2>2. asked[o] \in DeviceSlot /\ chosen[o] \in DeviceValue
      BY <1>5 DEF Write
    <2>3. kept' \in [DeviceSlot -> DeviceValue \cup {Nothing}]
      BY <1>5 DEF Write
    <2>4. cached' \in [Os -> [DeviceSlot -> DeviceValue \cup {Nothing}]]
      BY <1>5 DEF Write, Cache
    <2>5. told' \in [Os -> [DeviceSlot -> DeviceValue \cup {Nothing, Hardware}]]
      BY <1>5 DEF Write, Answer
    <2>6. inUse' \in [DeviceSlot -> SUBSET DeviceValue]
      <3>1. inUse' = inUse \/ inUse' = [inUse EXCEPT ![asked[o]] = @ \cup {chosen[o]}]
        BY <1>5 DEF Write, OnFile
      <3> QED
        BY <2>2, <3>1
    <2>7. ToldIsCached'
      BY <1>5, <2>2 DEF Write, Cache, Answer, ToldIsCached
    <2> QED
      BY <1>5, <2>1, <2>3, <2>4, <2>5, <2>6, <2>7 DEF Write, Answered
  <1>6. ASSUME NEW o \in Os, Start(o)
        PROVE  DeviceBasics'
    BY <1>6 DEF Start, Answered, NoDevice, deviceHistory, ToldIsCached
  <1>7. CASE UNCHANGED deviceVars
    BY <1>7 DEF deviceVars, deviceHistory, ToldIsCached
  <1> QED
    BY <1>1, <1>2, <1>3, <1>4, <1>5, <1>6, <1>7 DEF DeviceNext

(***************************************************************************)
(* As long as no process chose or wrote beside another one and every file  *)
(* could be read, every step keeps the devices apart and the files true.   *)
(***************************************************************************)
LEMMA DevicesStep ==
  ASSUME DeviceInv, [DeviceNext]_deviceVars, ~mixed', ~blind'
  PROVE  KeptIsCached' /\ KnownAreDistinct' /\ Asking' /\ Chosen' /\ UsedIsKept'
  <1>a. ~mixed /\ ~blind
    <2>1. ~mixed
      BY DEF DeviceNext, Ask, AskAnew, Choose, NoRandom, Write, Start, deviceVars, deviceHistory
    <2>2. UNCHANGED blind \/ blind' = TRUE
      <3>1. ASSUME NEW o \in Os, Choose(o) PROVE UNCHANGED blind \/ blind' = TRUE
        BY <3>1 DEF Choose
      <3> QED
        BY <3>1 DEF DeviceNext, Ask, AskAnew, NoRandom, Write, Start, deviceVars, deviceHistory
    <2> QED
      BY <2>1, <2>2
  <1>b. /\ DeviceTypeOK /\ KeptIsCached /\ KnownAreDistinct /\ Asking /\ Chosen /\ UsedIsKept
        /\ \A q \in Os : dpc[q] # "idle" => asked[q] \in DeviceSlot
    BY <1>a DEF DeviceInv, DeviceBasics
  <1>1. ASSUME NEW o \in Os, NEW s \in DeviceSlot, Ask(o, s)
        PROVE  KeptIsCached' /\ KnownAreDistinct' /\ Asking' /\ Chosen' /\ UsedIsKept'
    <2>1. /\ \A q \in Os : \A t \in DeviceSlot :
               cached'[q][t] = IF q = o /\ t = s THEN kept[s] ELSE cached[q][t]
          /\ UNCHANGED <<kept, dpc, asked, chosen>>
          /\ dpc[o] = "idle" /\ cached[o][s] = Nothing
          /\ inUse' = [inUse EXCEPT ![s] = @ \cup {kept[s]}]
      BY <1>1, <1>b DEF Ask, Cache, OnFile, DeviceTypeOK
    <2>2. \A q \in Os : \A t \in DeviceSlot : Known(q, t)' = Known(q, t)
      BY <2>1 DEF Known
    <2>3. UsedIsKept'
      BY <2>1, <1>b DEF UsedIsKept, DeviceTypeOK
    <2> QED
      BY <2>1, <2>2, <2>3, <1>b DEF KeptIsCached, KnownAreDistinct, Asking, Chosen
  <1>2. ASSUME NEW o \in Os, NEW s \in DeviceSlot, AskAnew(o, s)
        PROVE  KeptIsCached' /\ KnownAreDistinct' /\ Asking' /\ Chosen' /\ UsedIsKept'
    <2>1. /\ UNCHANGED <<kept, cached, chosen, inUse>> /\ cached[o][s] = Nothing
          /\ kept[s] = Nothing
          /\ \A q \in Os : /\ dpc'[q] = IF q = o THEN "choose" ELSE dpc[q]
                           /\ asked'[q] = IF q = o THEN s ELSE asked[q]
      BY <1>2, <1>b DEF AskAnew, DeviceTypeOK
    <2>2. \A q \in Os : \A t \in DeviceSlot : Known(q, t)' = Known(q, t)
      BY <2>1 DEF Known
    <2> QED
      BY <2>1, <2>2, <1>b DEF KeptIsCached, KnownAreDistinct, Asking, Chosen, UsedIsKept
  <1>3. ASSUME NEW o \in Os, Choose(o)
        PROVE  KeptIsCached' /\ KnownAreDistinct' /\ Asking' /\ Chosen' /\ UsedIsKept'
    <2>1. PICK unread \in SUBSET (DeviceSlot \ {asked[o]}) :
            /\ unread # {} => blind' = TRUE
            /\ \E value \in Candidates(o, asked[o], unread) : chosen' = [chosen EXCEPT ![o] = value]
      BY <1>3 DEF Choose
    <2>2. PICK value \in Candidates(o, asked[o], unread) : chosen' = [chosen EXCEPT ![o] = value]
      BY <2>1
    <2>3. /\ dpc[o] = "choose" /\ UNCHANGED <<cached, kept, asked, inUse>>
          /\ \A q \in Os : /\ dpc'[q] = IF q = o THEN "write" ELSE dpc[q]
                           /\ chosen'[q] = IF q = o THEN value ELSE chosen[q]
      BY <1>3, <2>2, <1>b DEF Choose, DeviceTypeOK
    <2>4. asked[o] \in DeviceSlot /\ unread = {}
      BY <2>1, <2>3, <1>b
    <2>5. \A t \in DeviceSlot \ {asked[o]} : value # Known(o, t)
      BY <2>2, <2>4, <1>b, CandidateIsNew
    <2>6. \A q \in Os : \A t \in DeviceSlot : Known(q, t)' = Known(q, t)
      BY <2>3 DEF Known
    <2> QED
      BY <2>3, <2>5, <2>6, <1>b DEF KeptIsCached, KnownAreDistinct, Asking, Chosen, UsedIsKept
  <1>4. ASSUME NEW o \in Os, NoRandom(o)
        PROVE  KeptIsCached' /\ KnownAreDistinct' /\ Asking' /\ Chosen' /\ UsedIsKept'
    <2>1. /\ UNCHANGED <<cached, kept, chosen, inUse>>
          /\ \A q \in Os : /\ dpc'[q] = IF q = o THEN "idle" ELSE dpc[q]
                           /\ q # o => asked'[q] = asked[q]
      BY <1>4, <1>b DEF NoRandom, DeviceTypeOK, deviceHistory
    <2>2. \A q \in Os : \A t \in DeviceSlot : Known(q, t)' = Known(q, t)
      BY <2>1 DEF Known
    <2> QED
      BY <2>1, <2>2, <1>b DEF KeptIsCached, KnownAreDistinct, Asking, Chosen, UsedIsKept
  <1>5. ASSUME NEW o \in Os, Write(o)
        PROVE  KeptIsCached' /\ KnownAreDistinct' /\ Asking' /\ Chosen' /\ UsedIsKept'
    <2>0. PICK s \in DeviceSlot, v \in DeviceValue : s = asked[o] /\ v = chosen[o]
      BY <1>5, <1>b DEF Write, DeviceInv, DeviceBasics
    <2>1. /\ v # Nothing /\ kept[s] = Nothing /\ cached[o][s] = Nothing
          /\ \A t \in DeviceSlot \ {s} : v # Known(o, t)
      BY <2>0, <1>5, <1>b, DeviceSlotsAssumption DEF Write, Asking, Chosen
    <2>2. /\ \A q \in Os \ {o} : dpc[q] = "idle"
          /\ \A q \in Os \ {o} : \A t \in DeviceSlot : cached[q][t] \in {Nothing, kept[t]}
      BY <1>5 DEF Write, Apart
    <2>3. /\ \A q \in Os : \A t \in DeviceSlot :
               cached'[q][t] = IF q = o /\ t = s THEN v ELSE cached[q][t]
          /\ \A q \in Os : dpc'[q] = IF q = o THEN "idle" ELSE dpc[q]
      BY <1>5, <1>b, <2>0 DEF Write, Cache, Answered, DeviceTypeOK
    <2>4. /\ \A t \in DeviceSlot \ {s} : kept'[t] = kept[t]
          /\ kept'[s] \in {Nothing, v}
      BY <1>5, <1>b, <2>0, <2>1 DEF Write, DeviceTypeOK
    <2>5. Asking' /\ Chosen'
      BY <2>2, <2>3 DEF Asking, Chosen
    <2>6. KeptIsCached'
      BY <2>1, <2>2, <2>3, <2>4, <1>b DEF KeptIsCached
    <2>7. /\ Known(o, s)' = v
          /\ \A t \in DeviceSlot \ {s} : Known(o, t)' = Known(o, t)
      BY <2>1, <2>3, <2>4 DEF Known
    <2>8. ASSUME NEW q \in Os \ {o}
          PROVE  /\ \A t \in DeviceSlot : Known(q, t) = kept[t] /\ Known(q, t)' = kept'[t]
      <3>1. \A t \in DeviceSlot : cached'[q][t] = cached[q][t]
        BY <2>3
      <3>2. cached[q][s] = Nothing
        BY <2>1, <2>2
      <3>3. \A t \in DeviceSlot : Known(q, t) = kept[t]
        BY <2>2 DEF Known
      <3>4. \A t \in DeviceSlot : Known(q, t)' = kept'[t]
        BY <2>2, <2>4, <3>1, <3>2 DEF Known
      <3> QED
        BY <3>3, <3>4
    <2>9. \A t \in DeviceSlot \ {s} : v # kept[t]
      BY <2>1, <1>b DEF Known, KeptIsCached
    <2>10. \A a, b \in DeviceSlot : a # b /\ Known(o, a)' # Nothing => Known(o, a)' # Known(o, b)'
      BY <2>1, <2>7, <1>b DEF KnownAreDistinct
    <2>11. ASSUME NEW q \in Os \ {o}, NEW a \in DeviceSlot, NEW b \in DeviceSlot,
                  a # b, Known(q, a)' # Nothing
           PROVE  Known(q, a)' # Known(q, b)'
      <3>1. Known(q, a)' = kept'[a] /\ Known(q, b)' = kept'[b]
        BY <2>8
      <3>2. kept[a] # Nothing => kept[a] # kept[b]
        BY <2>8, <2>11, <1>b DEF KnownAreDistinct
      <3>3. CASE a = s
        BY <3>1, <3>3, <2>4, <2>9, <2>11
      <3>4. CASE a # s
        BY <3>1, <3>2, <3>4, <2>4, <2>9, <2>11
      <3> QED
        BY <3>3, <3>4
    <2>12. UsedIsKept'
      <3>1. \/ UNCHANGED <<kept, inUse>>
            \/ kept'[s] = v /\ inUse' = [inUse EXCEPT ![s] = @ \cup {v}]
        BY <1>5, <2>0, <1>b DEF Write, OnFile, DeviceTypeOK
      <3>2. inUse[s] = {}
        <4>1. inUse[s] \subseteq DeviceValue /\ inUse[s] \subseteq {Nothing}
          BY <2>1, <1>b DEF UsedIsKept, DeviceTypeOK
        <4> QED
          BY <4>1, DeviceSlotsAssumption
      <3> QED
        BY <2>4, <3>1, <3>2, <1>b DEF UsedIsKept, DeviceTypeOK
    <2> QED
      BY <2>5, <2>6, <2>10, <2>11, <2>12 DEF KnownAreDistinct
  <1>6. ASSUME NEW o \in Os, Start(o)
        PROVE  KeptIsCached' /\ KnownAreDistinct' /\ Asking' /\ Chosen' /\ UsedIsKept'
    <2>1. /\ UNCHANGED <<kept, inUse>>
          /\ \A q \in Os : \A t \in DeviceSlot :
               cached'[q][t] = IF q = o THEN Nothing ELSE cached[q][t]
          /\ dpc'[o] = "idle"
          /\ \A q \in Os \ {o} : /\ dpc'[q] = dpc[q] /\ asked'[q] = asked[q]
                                 /\ chosen'[q] = chosen[q]
      BY <1>6, <1>b DEF Start, Answered, NoDevice, DeviceTypeOK, deviceHistory
    <2>2. /\ \A t \in DeviceSlot : Known(o, t)' = kept[t]
          /\ \A q \in Os \ {o} : \A t \in DeviceSlot : Known(q, t)' = Known(q, t)
      BY <2>1 DEF Known
    <2>3. \A a, b \in DeviceSlot : a # b /\ kept[a] # Nothing => kept[a] # kept[b]
      <3> SUFFICES ASSUME NEW a \in DeviceSlot, NEW b \in DeviceSlot, a # b, kept[a] # Nothing,
                          kept[b] # Nothing
                   PROVE  kept[a] # kept[b]
        OBVIOUS
      <3>1. Known(o, a) = kept[a] /\ Known(o, b) = kept[b]
        BY <1>b DEF Known, KeptIsCached
      <3> QED
        BY <3>1, <1>b DEF KnownAreDistinct
    <2>4. KnownAreDistinct'
      BY <2>2, <2>3, <1>b DEF KnownAreDistinct
    <2> QED
      BY <2>1, <2>2, <2>4, <1>b DEF KeptIsCached, Asking, Chosen, UsedIsKept
  <1>7. CASE UNCHANGED deviceVars
    BY <1>7, <1>b DEF deviceVars, deviceHistory, KeptIsCached, KnownAreDistinct, Asking, Chosen,
                      UsedIsKept, Known
  <1> QED
    BY <1>1, <1>2, <1>3, <1>4, <1>5, <1>6, <1>7 DEF DeviceNext

(***************************************************************************)
(* DeviceInv is inductive.                                                 *)
(***************************************************************************)
THEOREM DevicesInductive == DeviceSpec => []DeviceInv
  <1>1. DeviceInit => DeviceInv
    <2> SUFFICES ASSUME DeviceInit PROVE DeviceInv
      OBVIOUS
    <2>1. DeviceTypeOK
      BY DEF DeviceInit, DeviceTypeOK, NoDevice
    <2>2. \A o \in Os : dpc[o] = "idle" /\ \A s \in DeviceSlot : cached[o][s] = Nothing
      BY DEF DeviceInit, NoDevice
    <2>3. \A s \in DeviceSlot : kept[s] = Nothing /\ inUse[s] = {}
      BY DEF DeviceInit, NoDevice
    <2>4. ToldIsCached
      BY DEF DeviceInit, NoDevice, ToldIsCached
    <2> QED
      BY <2>1, <2>2, <2>3, <2>4 DEF DeviceInv, DeviceBasics, KeptIsCached, KnownAreDistinct,
                                    Asking, Chosen, UsedIsKept, Known
  <1>2. DeviceInv /\ [DeviceNext]_deviceVars => DeviceInv'
    <2> SUFFICES ASSUME DeviceInv, [DeviceNext]_deviceVars PROVE DeviceInv'
      OBVIOUS
    <2>1. DeviceBasics'
      BY DeviceTyped DEF DeviceInv
    <2>2. ~mixed' /\ ~blind' =>
            KeptIsCached' /\ KnownAreDistinct' /\ Asking' /\ Chosen' /\ UsedIsKept'
      BY DevicesStep
    <2> QED
      BY <2>1, <2>2 DEF DeviceInv
  <1> QED
    BY <1>1, <1>2, PTL DEF DeviceSpec

(***************************************************************************)
(* The slots of a process are different devices, for any number of slots   *)
(* that has as many profiles (persistentDeviceProfileForSlot falls back to *)
(* all of them otherwise), unless a caller is told the identity of the     *)
(* hardware, a file could not be read or processes chose beside each other.*)
(***************************************************************************)
THEOREM SlotsStayDistinct == DeviceSpec => []SlotsAreDistinct
  <1>1. DeviceInv => SlotsAreDistinct
    <2> SUFFICES ASSUME DeviceInv, ~mixed, ~blind, NEW o \in Os,
                        NEW s \in DeviceSlot, NEW t \in DeviceSlot,
                        s # t, told[o][s] \notin {Nothing, Hardware}
                 PROVE  told[o][s] # told[o][t]
      BY DEF SlotsAreDistinct
    <2>1. told[o][s] = cached[o][s] /\ told[o][t] \in {Nothing, Hardware, cached[o][t]}
      BY DEF DeviceInv, DeviceBasics, ToldIsCached
    <2>2. Known(o, s) # Nothing => Known(o, s) # Known(o, t)
      BY DEF DeviceInv, KnownAreDistinct
    <2> QED
      BY <2>1, <2>2 DEF Known
  <1> QED
    BY DevicesInductive, <1>1, PTL

(***************************************************************************)
(* A slot stays the device it was: what it was answered to be and was on   *)
(* file is still there and is what every process answers, whichever writes *)
(* failed and whoever was started anew, unless a file could not be read or *)
(* processes chose beside each other.                                      *)
(***************************************************************************)
THEOREM DevicesAreKept == DeviceSpec => []DeviceIsKept
  <1>1. DeviceInv => DeviceIsKept
    BY DEF DeviceInv, DeviceBasics, ToldIsCached, KeptIsCached, UsedIsKept, DeviceIsKept
  <1> QED
    BY DevicesInductive, <1>1, PTL
=============================================================================
