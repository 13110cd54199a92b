----------------------- MODULE ConfigPersistenceProofs -----------------------
(***************************************************************************)
(* Proofs about saving the configuration, for any number of saves and      *)
(* backups, any clock, and every failure and crash of the model.           *)
(***************************************************************************)
EXTENDS ConfigPersistence, SequenceTheorems, FiniteSetTheorems, TLAPS

USE MaxSavesAssumption, MaxBackupsAssumption, MaxSuffixAssumption, MaxClockAssumption

\* The inductive invariant.
Inv == /\ TypeOK /\ SecretsFollowDocuments /\ FilesFollowProgram /\ BackupsAreDistinct
       /\ StateFollowsProgram /\ FilesAreWhole

-----------------------------------------------------------------------------
(* Names, and what pruning leaves.                                         *)

\* A set of natural numbers that is not empty has a least element.
LEMMA LeastNat ==
  ASSUME NEW S, S \subseteq Nat, S # {}
  PROVE  \E x \in S : \A y \in S : x <= y
<1>1. PICK x \in S : \A y \in S : ~(<<y, x>> \in OpToRel(<, Nat))
  BY NatLessThanWellFounded, WFMin
<1>2. \A y \in S : ~(y < x)
  BY <1>1 DEF OpToRel
<1> QED
  BY <1>2

\* The name that backup_current's loop finds is free.
LEMMA NextNameIsFree ==
  ASSUME TypeOK, FreeSuffixes # {}
  PROVE  /\ NextName \in Name /\ NextName \notin staged
         /\ \A b \in backups : b.name # NextName
<1>1. FreeSuffixes \subseteq Nat
  BY DEF FreeSuffixes
<1>2. Min(FreeSuffixes) \in FreeSuffixes
  BY <1>1, LeastNat DEF Min
<1> QED
  BY <1>2 DEF FreeSuffixes, NextName, Name, TypeOK

\* Among backups there is an oldest one.
LEMMA OldestBackup ==
  ASSUME NEW K, K \subseteq Backup, K # {}
  PROVE  \E m \in K : \A b \in K : b.name = m.name \/ Newer(b.name, m.name)
<1> DEFINE Stamps == {b.name.stamp : b \in K}
<1>1. Stamps \subseteq Nat /\ Stamps # {}
  BY DEF Backup, Name
<1>2. PICK s \in Stamps : \A y \in Stamps : s <= y
  BY <1>1, LeastNat
<1> DEFINE Suffixes == {b.name.suffix : b \in {c \in K : c.name.stamp = s}}
<1>3. Suffixes \subseteq Nat /\ Suffixes # {}
  BY <1>2 DEF Backup, Name
<1>4. PICK x \in Suffixes : \A y \in Suffixes : x <= y
  BY <1>3, LeastNat
<1>5. PICK m \in K : m.name.stamp = s /\ m.name.suffix = x
  BY <1>4
<1>6. ASSUME NEW b \in K PROVE b.name = m.name \/ Newer(b.name, m.name)
  <2>1. b.name \in Name /\ m.name \in Name
    BY DEF Backup
  <2>2. s <= b.name.stamp /\ (b.name.stamp = s => x <= b.name.suffix)
    BY <1>2, <1>4
  <2>3. b.name.stamp = m.name.stamp /\ b.name.suffix = m.name.suffix => b.name = m.name
    BY <2>1 DEF Name
  <2> QED
    BY <1>5, <2>1, <2>2, <2>3 DEF Name, Newer
<1> QED
  BY <1>6

\* prune_backups, when it succeeds, leaves at most MAX_BACKUPS of them.
LEMMA PruneLeavesFew ==
  ASSUME TypeOK, BackupsAreDistinct
  PROVE  Cardinality(backups \ Excess) <= MaxBackups
<1> DEFINE K == backups \ Excess
<1>1. IsFiniteSet(backups) /\ IsFiniteSet(K) /\ Cardinality(K) \in Nat
  BY FS_Subset, FS_CardinalityType DEF BackupsAreDistinct
<1>2. CASE K = {}
  BY <1>2, FS_EmptySet
<1>3. CASE K # {}
  <2>1. PICK m \in K : \A b \in K : b.name = m.name \/ Newer(b.name, m.name)
    BY <1>3, OldestBackup DEF TypeOK
  <2> DEFINE N == {c \in backups : Newer(c.name, m.name)}
  <2>2. IsFiniteSet(N) /\ Cardinality(N) \in Nat
    BY <1>1, FS_Subset, FS_CardinalityType
  <2>3. Cardinality(N) < MaxBackups
    BY <2>1, <2>2 DEF Excess
  <2>4. K \ {m} \subseteq N
    BY <2>1 DEF BackupsAreDistinct
  <2>5. Cardinality(K \ {m}) <= Cardinality(N)
    BY <2>2, <2>4, FS_Subset
  <2>6. Cardinality(K \ {m}) = Cardinality(K) - 1
    BY <1>1, <2>1, FS_RemoveElement
  <2> QED
    BY <1>1, <2>2, <2>3, <2>5, <2>6
<1> QED
  BY <1>2, <1>3

-----------------------------------------------------------------------------
(* The invariant.                                                          *)

\* ConfigStore::load of an empty directory establishes the invariant.
LEMMA InitInv == Init => Inv
<1> SUFFICES ASSUME Init PROVE Inv
  OBVIOUS
<1>1. Len(docs) = 0 /\ docs \in Seq([secret : 0..MaxSaves, login : BOOLEAN]) /\ IsFiniteSet(backups)
  BY EmptySeq, FS_EmptySet DEF Init
<1>2. login \in BOOLEAN
  BY Zenon DEF Init
<1>3. TypeOK
  BY <1>1, <1>2 DEF Init, TypeOK, Places, Name, NoName, Torn, Absent
<1>4. SecretsFollowDocuments /\ FilesFollowProgram /\ BackupsAreDistinct /\ FilesAreWhole
  BY <1>1 DEF Init, SecretsFollowDocuments, FilesFollowProgram, BackupsAreDistinct, FilesAreWhole,
     Saving
<1>5. StateFollowsProgram
  <2>1. Doc(memory).secret = 0 /\ Doc(memory).login = FALSE
    BY DEF Init, Doc, Default
  <2> QED
    BY <2>1 DEF Init, StateFollowsProgram, Saving
<1> QED
  BY <1>3, <1>4, <1>5 DEF Inv

\* The document being saved is one of the documents, and newer than the secret
\* of the one in use.
LEMMA CandidateFacts ==
  ASSUME Inv
  PROVE  /\ Len(docs) \in Nat
         /\ pc \in Saving => /\ Candidate \in 1..Len(docs) /\ Candidate \in 1..MaxSaves
                            /\ Doc(memory).secret < Candidate
         /\ \A v \in 1..Len(docs) :
              docs[v] \in [secret : 0..MaxSaves, login : BOOLEAN]
         /\ \A v \in 0..Len(docs) : Doc(v) \in [secret : 0..MaxSaves, login : BOOLEAN]
         /\ \A v \in 1..Len(docs) : docs[v].login \in BOOLEAN /\ docs[v].secret \in 0..MaxSaves
         /\ \A v \in 0..Len(docs) : Doc(v).login \in BOOLEAN /\ Doc(v).secret \in 0..MaxSaves
<1>1. Len(docs) \in Nat /\ memory \in 0..Len(docs) /\ Len(docs) <= MaxSaves
  BY LenProperties DEF Inv, TypeOK
<1>2. \A v \in 1..Len(docs) : docs[v] \in [secret : 0..MaxSaves, login : BOOLEAN]
  BY ElementOfSeq DEF Inv, TypeOK
<1>3. Default \in [secret : 0..MaxSaves, login : BOOLEAN] /\ Default.secret = 0
  <2>1. FALSE \in BOOLEAN /\ 0 \in 0..MaxSaves
    OBVIOUS
  <2>2. \A b \in BOOLEAN : [secret |-> 0, login |-> b] \in [secret : 0..MaxSaves, login : BOOLEAN]
    OBVIOUS
  <2> QED
    BY <2>1, <2>2 DEF Default
<1>4. \A v \in 0..Len(docs) : Doc(v) \in [secret : 0..MaxSaves, login : BOOLEAN]
  BY <1>1, <1>2, <1>3 DEF Doc
<1>5. pc \in Saving => Candidate \in 1..Len(docs) /\ Candidate \in 1..MaxSaves
  BY <1>1 DEF Inv, SecretsFollowDocuments, Candidate
<1>6. Doc(memory).secret <= memory
  BY <1>1, <1>2, <1>3 DEF Inv, SecretsFollowDocuments, Doc
<1>7. pc \in Saving => Doc(memory).secret < Candidate
  BY <1>1, <1>4, <1>5, <1>6 DEF Inv, SecretsFollowDocuments
<1> QED
  BY <1>1, <1>2, <1>4, <1>5, <1>7

\* SecretStore::save.
LEMMA SaveSecretInv == ASSUME Inv, SaveSecret PROVE Inv'
<1> USE DEF Inv, diskVars
<1>1. TypeOK'
  <2>1. Candidate \in 0..MaxSaves
    BY CandidateFacts DEF SaveSecret, Saving, Places
  <2>2. keyring' \subseteq 0..MaxSaves /\ pc' \in Places
    BY <2>1 DEF SaveSecret, GiveUp, TypeOK, Places
  <2> QED
    BY <2>2 DEF SaveSecret, TypeOK
<1>2. SecretsFollowDocuments'
  BY CandidateFacts DEF SaveSecret, GiveUp, SecretsFollowDocuments, Saving, Places, Candidate, Doc
<1>3. FilesFollowProgram'
  BY CandidateFacts DEF SaveSecret, GiveUp, FilesFollowProgram, Candidate, Saving, Places
<1>4. BackupsAreDistinct'
  BY DEF SaveSecret, GiveUp, BackupsAreDistinct
<1>5. StateFollowsProgram'
  BY CandidateFacts DEF SaveSecret, GiveUp, StateFollowsProgram, SecretsFollowDocuments, TypeOK, Candidate, Doc, NewSecret, Saving, Places
<1>6. FilesAreWhole'
  BY CandidateFacts DEF SaveSecret, GiveUp, FilesAreWhole, FilesFollowProgram
<1> QED
  BY <1>1, <1>2, <1>3, <1>4, <1>5, <1>6

\* set_run_at_login.
LEMMA SetLoginInv == ASSUME Inv, SetLogin PROVE Inv'
<1> USE DEF Inv, diskVars
<1>1. TypeOK'
  BY CandidateFacts DEF SetLogin, LoginChanges, TypeOK, Saving, Places, Torn, Absent
<1>2. SecretsFollowDocuments'
  BY CandidateFacts DEF SetLogin, LoginChanges, SecretsFollowDocuments, Saving, Places, Candidate, Doc
<1>3. FilesFollowProgram'
  BY CandidateFacts DEF SetLogin, LoginChanges, FilesFollowProgram, Candidate, Saving, Places
<1>4. BackupsAreDistinct'
  BY DEF SetLogin, LoginChanges, BackupsAreDistinct
<1>5. StateFollowsProgram'
  BY CandidateFacts DEF SetLogin, LoginChanges, StateFollowsProgram, SecretsFollowDocuments, TypeOK, Candidate, Doc, NewSecret, Saving, Places
<1>6. FilesAreWhole'
  BY CandidateFacts DEF SetLogin, LoginChanges, FilesAreWhole, FilesFollowProgram
<1> QED
  BY <1>1, <1>2, <1>3, <1>4, <1>5, <1>6

\* The login setting could not be changed.
LEMMA RevokeInv == ASSUME Inv, Revoke PROVE Inv'
<1> USE DEF Inv, diskVars
<1>1. TypeOK'
  BY CandidateFacts DEF Revoke, GiveUp, DeleteSecret, TypeOK, Saving, Places, Torn, Absent
<1>2. SecretsFollowDocuments'
  BY CandidateFacts DEF Revoke, GiveUp, DeleteSecret, SecretsFollowDocuments, Saving, Places, Candidate, Doc
<1>3. FilesFollowProgram'
  BY CandidateFacts DEF Revoke, GiveUp, DeleteSecret, FilesFollowProgram, Candidate, Saving, Places
<1>4. BackupsAreDistinct'
  BY DEF Revoke, GiveUp, DeleteSecret, BackupsAreDistinct
<1>5. StateFollowsProgram'
  <2>1. /\ UNCHANGED <<docs, memory, main, login, mishaps>> /\ pc \in Saving
        /\ keyring' \in {keyring, keyring \ {Candidate}}
    BY DEF Revoke, GiveUp, DeleteSecret, Saving, Places
  <2>2. Doc(memory).secret \in keyring \cup {0} => Doc(memory).secret \in keyring' \cup {0}
    BY <2>1, CandidateFacts
  <2> QED
    BY <2>1, <2>2 DEF Revoke, GiveUp, DeleteSecret, StateFollowsProgram, Candidate, Doc, NewSecret, Saving
<1>6. FilesAreWhole'
  BY CandidateFacts DEF Revoke, GiveUp, DeleteSecret, FilesAreWhole, FilesFollowProgram
<1> QED
  BY <1>1, <1>2, <1>3, <1>4, <1>5, <1>6

\* The file could not be saved: the secret.
LEMMA RollbackSecretInv == ASSUME Inv, RollbackSecret PROVE Inv'
<1> USE DEF Inv, diskVars
<1>1. TypeOK'
  BY CandidateFacts DEF RollbackSecret, At, DeleteSecret, TypeOK, Saving, Places, Torn, Absent
<1>2. SecretsFollowDocuments'
  BY CandidateFacts DEF RollbackSecret, At, DeleteSecret, SecretsFollowDocuments, Saving, Places, Candidate, Doc
<1>3. FilesFollowProgram'
  BY CandidateFacts DEF RollbackSecret, At, DeleteSecret, FilesFollowProgram, Candidate, Saving, Places
<1>4. BackupsAreDistinct'
  BY DEF RollbackSecret, At, DeleteSecret, BackupsAreDistinct
<1>5. StateFollowsProgram'
  <2>1. /\ UNCHANGED <<docs, memory, main, login, mishaps>> /\ pc \in Saving
        /\ keyring' \in {keyring, keyring \ {Candidate}}
    BY DEF RollbackSecret, At, DeleteSecret, Saving, Places
  <2>2. Doc(memory).secret \in keyring \cup {0} => Doc(memory).secret \in keyring' \cup {0}
    BY <2>1, CandidateFacts
  <2> QED
    BY <2>1, <2>2 DEF RollbackSecret, At, DeleteSecret, StateFollowsProgram, Candidate, Doc, NewSecret, Saving
<1>6. FilesAreWhole'
  BY CandidateFacts DEF RollbackSecret, At, DeleteSecret, FilesAreWhole, FilesFollowProgram
<1> QED
  BY <1>1, <1>2, <1>3, <1>4, <1>5, <1>6

\* The file could not be saved: the login setting.
LEMMA RestoreLoginInv == ASSUME Inv, RestoreLogin PROVE Inv'
<1> USE DEF Inv, diskVars
<1>1. TypeOK'
  BY CandidateFacts DEF RestoreLogin, GiveUp, LoginChanges, TypeOK, Saving, Places, Torn, Absent
<1>2. SecretsFollowDocuments'
  BY CandidateFacts DEF RestoreLogin, GiveUp, LoginChanges, SecretsFollowDocuments, Saving, Places, Candidate, Doc
<1>3. FilesFollowProgram'
  BY CandidateFacts DEF RestoreLogin, GiveUp, LoginChanges, FilesFollowProgram, Candidate, Saving, Places
<1>4. BackupsAreDistinct'
  BY DEF RestoreLogin, GiveUp, LoginChanges, BackupsAreDistinct
<1>5. StateFollowsProgram'
  BY CandidateFacts DEF RestoreLogin, GiveUp, LoginChanges, StateFollowsProgram, SecretsFollowDocuments, TypeOK, Candidate, Doc, NewSecret, Saving, Places
<1>6. FilesAreWhole'
  BY CandidateFacts DEF RestoreLogin, GiveUp, LoginChanges, FilesAreWhole, FilesFollowProgram
<1> QED
  BY <1>1, <1>2, <1>3, <1>4, <1>5, <1>6

\* create_new of the temporary file.
LEMMA CreateTempInv == ASSUME Inv, CreateTemp PROVE Inv'
<1> USE DEF Inv, diskVars
<1>1. TypeOK'
  BY CandidateFacts DEF CreateTemp, TypeOK, Saving, Places, Torn, Absent
<1>2. SecretsFollowDocuments'
  BY CandidateFacts DEF CreateTemp, SecretsFollowDocuments, Saving, Places, Candidate, Doc
<1>3. FilesFollowProgram'
  BY CandidateFacts DEF CreateTemp, FilesFollowProgram, Candidate, Saving, Places
<1>4. BackupsAreDistinct'
  BY DEF CreateTemp, BackupsAreDistinct
<1>5. StateFollowsProgram'
  BY CandidateFacts DEF CreateTemp, StateFollowsProgram, SecretsFollowDocuments, TypeOK, Candidate, Doc, NewSecret, Saving, Places
<1>6. FilesAreWhole'
  BY CandidateFacts DEF CreateTemp, FilesAreWhole, FilesFollowProgram
<1> QED
  BY <1>1, <1>2, <1>3, <1>4, <1>5, <1>6

\* write_all and sync_all.
LEMMA WriteTempInv == ASSUME Inv, WriteTemp PROVE Inv'
<1> USE DEF Inv, diskVars
<1>1. TypeOK'
  <2>1. Candidate \in 0..Absent
    BY CandidateFacts DEF WriteTemp, Saving, Places, Absent
  <2>2. temp' \in 0..Absent /\ pc' \in Places
    BY <2>1 DEF WriteTemp, DropTemp, TypeOK, Places, Absent
  <2> QED
    BY <2>2 DEF WriteTemp, TypeOK
<1>2. SecretsFollowDocuments'
  BY CandidateFacts DEF WriteTemp, DropTemp, SecretsFollowDocuments, Saving, Places, Candidate, Doc
<1>3. FilesFollowProgram'
  BY CandidateFacts DEF WriteTemp, DropTemp, FilesFollowProgram, Candidate, Saving, Places
<1>4. BackupsAreDistinct'
  BY DEF WriteTemp, DropTemp, BackupsAreDistinct
<1>5. StateFollowsProgram'
  BY CandidateFacts DEF WriteTemp, DropTemp, StateFollowsProgram, SecretsFollowDocuments, TypeOK, Candidate, Doc, NewSecret, Saving, Places
<1>6. FilesAreWhole'
  BY CandidateFacts DEF WriteTemp, DropTemp, FilesAreWhole, FilesFollowProgram
<1> QED
  BY <1>1, <1>2, <1>3, <1>4, <1>5, <1>6

\* backup_current, the choice of a name.
LEMMA StageBackupInv == ASSUME Inv, StageBackup PROVE Inv'
<1> USE DEF Inv, diskVars
<1>1. TypeOK'
  BY NextNameIsFree DEF StageBackup, DropTemp, TypeOK, Places, Torn, Absent
<1>2. SecretsFollowDocuments'
  BY CandidateFacts DEF StageBackup, DropTemp, SecretsFollowDocuments, Saving, Places, Candidate, Doc
<1>3. FilesFollowProgram'
  BY CandidateFacts DEF StageBackup, DropTemp, FilesFollowProgram, Candidate, Saving, Places
<1>4. BackupsAreDistinct'
  BY NextNameIsFree DEF StageBackup, DropTemp, BackupsAreDistinct
<1>5. StateFollowsProgram'
  BY CandidateFacts DEF StageBackup, DropTemp, StateFollowsProgram, SecretsFollowDocuments, TypeOK, Candidate, Doc, NewSecret, Saving, Places
<1>6. FilesAreWhole'
  BY CandidateFacts DEF StageBackup, DropTemp, FilesAreWhole, FilesFollowProgram
<1> QED
  BY <1>1, <1>2, <1>3, <1>4, <1>5, <1>6

\* backup_current, the copy.
LEMMA FinishBackupInv == ASSUME Inv, FinishBackup PROVE Inv'
<1> USE DEF Inv, diskVars
<1>1. TypeOK'
  <2>1. pc' \in Places /\ temp' \in 0..Absent /\ staged' \subseteq Name
    BY DEF FinishBackup, DropTemp, TypeOK, Places, Torn, Absent
  <2>2. [name |-> target, content |-> main] \in Backup /\ NoName \in Name
    BY DEF TypeOK, Backup, NoName, Name
  <2> QED
    BY <2>1, <2>2 DEF FinishBackup, TypeOK
<1>2. SecretsFollowDocuments'
  BY CandidateFacts DEF FinishBackup, DropTemp, SecretsFollowDocuments, Saving, Places, Candidate, Doc
<1>3. FilesFollowProgram'
  <2>1. CASE pc' = "rename"
    <3>1. [name |-> target, content |-> main] \in backups'
          /\ [name |-> target, content |-> main].content = main
      BY <2>1 DEF FinishBackup
    <3> QED
      BY <2>1, <3>1 DEF FinishBackup, FilesFollowProgram, Candidate
  <2>2. CASE pc' = "rollback"
    BY <2>2 DEF FilesFollowProgram
  <2> QED
    BY <2>1, <2>2 DEF FinishBackup
<1>4. BackupsAreDistinct'
  <2> DEFINE new == [name |-> target, content |-> main]
  <2>1. new.name = target /\ IsFiniteSet(backups \cup {new})
    BY FS_AddElement DEF BackupsAreDistinct
  <2>2. target \in staged /\ (\A b \in backups : b.name # target)
    BY DEF FinishBackup, BackupsAreDistinct
  <2>3. CASE backups' = backups \cup {new} /\ staged' = staged \ {target} /\ pc' = "rename"
    <3> HIDE DEF new
    <3> QED
      BY <2>1, <2>2, <2>3 DEF BackupsAreDistinct
  <2>4. CASE backups' = backups /\ staged' \subseteq staged /\ pc' = "rollback"
    BY <2>4 DEF BackupsAreDistinct
  <2> QED
    BY <2>3, <2>4 DEF FinishBackup
<1>5. StateFollowsProgram'
  BY CandidateFacts DEF FinishBackup, DropTemp, StateFollowsProgram, SecretsFollowDocuments, TypeOK, Candidate, Doc, NewSecret, Saving, Places
<1>6. FilesAreWhole'
  BY CandidateFacts DEF FinishBackup, DropTemp, FilesAreWhole, FilesFollowProgram
<1> QED
  BY <1>1, <1>2, <1>3, <1>4, <1>5, <1>6

\* rename.
LEMMA RenameInv == ASSUME Inv, Rename PROVE Inv'
<1> USE DEF Inv, diskVars
<1>1. TypeOK'
  BY CandidateFacts DEF Rename, DropTemp, FilesFollowProgram, TypeOK, Saving, Places, Torn, Absent
<1>2. SecretsFollowDocuments'
  BY CandidateFacts DEF Rename, DropTemp, SecretsFollowDocuments, Saving, Places, Candidate, Doc
<1>3. FilesFollowProgram'
  BY CandidateFacts DEF Rename, DropTemp, FilesFollowProgram, Candidate, Saving, Places
<1>4. BackupsAreDistinct'
  BY DEF Rename, DropTemp, BackupsAreDistinct
<1>5. StateFollowsProgram'
  BY CandidateFacts DEF Rename, FilesFollowProgram, StateFollowsProgram, Candidate, Doc, NewSecret, Saving, Places
<1>6. FilesAreWhole'
  BY CandidateFacts DEF Rename, FilesAreWhole, FilesFollowProgram, Saving, Places
<1> QED
  BY <1>1, <1>2, <1>3, <1>4, <1>5, <1>6

\* prune_backups.
LEMMA PruneBackupsInv == ASSUME Inv, PruneBackups PROVE Inv'
<1> USE DEF Inv, diskVars
<1>1. TypeOK'
  BY CandidateFacts DEF PruneBackups, TypeOK, Saving, Places, Torn, Absent
<1>2. SecretsFollowDocuments'
  BY CandidateFacts DEF PruneBackups, SecretsFollowDocuments, Saving, Places, Candidate, Doc
<1>3. FilesFollowProgram'
  BY CandidateFacts DEF PruneBackups, FilesFollowProgram, Candidate, Saving, Places
<1>4. BackupsAreDistinct'
  BY FS_Subset DEF PruneBackups, BackupsAreDistinct
<1>5. StateFollowsProgram'
  BY CandidateFacts DEF PruneBackups, StateFollowsProgram, SecretsFollowDocuments, TypeOK, Candidate, Doc, NewSecret, Saving, Places
<1>6. FilesAreWhole'
  BY PruneLeavesFew DEF PruneBackups, FilesAreWhole
<1> QED
  BY <1>1, <1>2, <1>3, <1>4, <1>5, <1>6

\* persist_config returns Ok.
LEMMA CommitInv == ASSUME Inv, Commit PROVE Inv'
<1> USE DEF Inv, diskVars
<1>1. TypeOK'
  BY CandidateFacts DEF Commit, At, TypeOK, Saving, Places, Torn, Absent
<1>2. SecretsFollowDocuments'
  BY CandidateFacts DEF Commit, At, SecretsFollowDocuments, Saving, Places, Candidate, Doc
<1>3. FilesFollowProgram'
  BY CandidateFacts DEF Commit, At, FilesFollowProgram, Candidate, Saving, Places
<1>4. BackupsAreDistinct'
  BY DEF Commit, At, BackupsAreDistinct
<1>5. StateFollowsProgram'
  BY CandidateFacts DEF Commit, At, StateFollowsProgram, SecretsFollowDocuments, TypeOK, Candidate, Doc, NewSecret, Saving, Places
<1>6. FilesAreWhole'
  BY CandidateFacts DEF Commit, At, FilesAreWhole, FilesFollowProgram
<1> QED
  BY <1>1, <1>2, <1>3, <1>4, <1>5, <1>6

\* The process is killed.
LEMMA CrashInv == ASSUME Inv, Crash PROVE Inv'
<1> USE DEF Inv, diskVars
<1>1. TypeOK'
  <2>1. NoName \in Name /\ pc' \in Places
    BY DEF Crash, NoName, Name, Places
  <2>2. memory' \in 0..Len(docs)
    BY CandidateFacts DEF Crash
  <2> QED
    BY <2>1, <2>2 DEF Crash, TypeOK
<1>2. SecretsFollowDocuments'
  BY CandidateFacts DEF Crash, SecretsFollowDocuments, Saving, Places, Candidate, Doc
<1>3. FilesFollowProgram'
  BY CandidateFacts DEF Crash, FilesFollowProgram, Candidate, Saving, Places
<1>4. BackupsAreDistinct'
  BY DEF Crash, BackupsAreDistinct
<1>5. StateFollowsProgram'
  BY CandidateFacts DEF Crash, StateFollowsProgram, SecretsFollowDocuments, TypeOK, Candidate, Doc, NewSecret, Saving, Places
<1>6. FilesAreWhole'
  BY CandidateFacts DEF Crash, FilesAreWhole, FilesFollowProgram
<1> QED
  BY <1>1, <1>2, <1>3, <1>4, <1>5, <1>6

\* ConfigStore::load.
LEMMA RestartInv == ASSUME Inv, Restart PROVE Inv'
<1> USE DEF Inv, diskVars
<1>1. TypeOK'
  BY CandidateFacts DEF Restart, At, TypeOK, Saving, Places, Torn, Absent
<1>2. SecretsFollowDocuments'
  BY CandidateFacts DEF Restart, At, SecretsFollowDocuments, Saving, Places, Candidate, Doc
<1>3. FilesFollowProgram'
  BY CandidateFacts DEF Restart, At, FilesFollowProgram, Candidate, Saving, Places
<1>4. BackupsAreDistinct'
  BY DEF Restart, At, BackupsAreDistinct
<1>5. StateFollowsProgram'
  BY CandidateFacts DEF Restart, At, StateFollowsProgram, SecretsFollowDocuments, TypeOK, Candidate, Doc, NewSecret, Saving, Places
<1>6. FilesAreWhole'
  BY CandidateFacts DEF Restart, At, FilesAreWhole, FilesFollowProgram
<1> QED
  BY <1>1, <1>2, <1>3, <1>4, <1>5, <1>6

\* Time passes.
LEMMA SetClockInv == ASSUME Inv, SetClock PROVE Inv'
<1> USE DEF Inv, diskVars
<1>1. TypeOK'
  BY CandidateFacts DEF SetClock, TypeOK, Saving, Places, Torn, Absent
<1>2. SecretsFollowDocuments'
  BY CandidateFacts DEF SetClock, SecretsFollowDocuments, Saving, Places, Candidate, Doc
<1>3. FilesFollowProgram'
  BY CandidateFacts DEF SetClock, FilesFollowProgram, Candidate, Saving, Places
<1>4. BackupsAreDistinct'
  BY DEF SetClock, BackupsAreDistinct
<1>5. StateFollowsProgram'
  BY CandidateFacts DEF SetClock, StateFollowsProgram, SecretsFollowDocuments, TypeOK, Candidate, Doc, NewSecret, Saving, Places
<1>6. FilesAreWhole'
  BY CandidateFacts DEF SetClock, FilesAreWhole, FilesFollowProgram
<1> QED
  BY <1>1, <1>2, <1>3, <1>4, <1>5, <1>6

\* SaveConfig: one more document.
LEMMA BeginSaveInv ==
  ASSUME Inv, NEW newSecret \in BOOLEAN, NEW newLogin \in BOOLEAN, BeginSave(newSecret, newLogin)
  PROVE  Inv'
<1> USE DEF Inv, diskVars
<1> DEFINE new == [secret |-> IF newSecret THEN Len(docs) + 1 ELSE Doc(memory).secret,
                   login  |-> newLogin]
           D   == [secret : 0..MaxSaves, login : BOOLEAN]
<1>1. /\ Len(docs) \in Nat /\ Len(docs) < MaxSaves /\ memory \in 0..Len(docs) /\ docs \in Seq(D)
      /\ docs' = Append(docs, new) /\ pc = "idle" /\ pc' = "secret"
      /\ UNCHANGED <<memory, main, temp, backups, staged, target, keyring, login, clock, mishaps>>
  BY CandidateFacts DEF BeginSave, At, TypeOK
<1>2. /\ new \in D /\ new.secret \in {Len(docs) + 1, Doc(memory).secret}
      /\ new.secret <= Len(docs) + 1
  <2>1. /\ Doc(memory).secret \in 0..MaxSaves /\ Len(docs) + 1 \in 0..MaxSaves
        /\ Doc(memory).secret <= Len(docs) + 1
    <3>1. Doc(memory).secret \in 0..MaxSaves
      BY <1>1, CandidateFacts
    <3>2. Doc(memory).secret <= memory
      BY <1>1 DEF SecretsFollowDocuments, Doc, Default
    <3> QED
      BY <1>1, <3>1, <3>2
  <2>2. new.secret \in {Len(docs) + 1, Doc(memory).secret} /\ new.login = newLogin
    OBVIOUS
  <2> QED
    BY <1>1, <2>1, <2>2
<1> HIDE DEF new, D
<1>3. /\ docs' \in Seq(D) /\ Len(docs') = Len(docs) + 1
      /\ \A v \in 1..Len(docs) : docs'[v] = docs[v]
      /\ docs'[Len(docs) + 1] = new
  BY <1>1, <1>2, AppendProperties
<1>4. Candidate' = Len(docs) + 1 /\ Doc(memory)' = Doc(memory)
  BY <1>1, <1>3 DEF Candidate, Doc
<1>5. TypeOK'
  BY <1>1, <1>3 DEF TypeOK, D, Places
<1>6. SecretsFollowDocuments'
  <2>1. \A v \in 1..Len(docs') : docs'[v].secret <= v
    BY <1>1, <1>2, <1>3 DEF SecretsFollowDocuments
  <2> QED
    BY <1>1, <1>2, <1>3, <1>4, <2>1 DEF SecretsFollowDocuments
<1>7. FilesFollowProgram' /\ BackupsAreDistinct'
  BY <1>1 DEF FilesFollowProgram, BackupsAreDistinct
<1>8. StateFollowsProgram'
  BY <1>1, <1>4 DEF StateFollowsProgram
<1>9. FilesAreWhole'
  BY <1>1, <1>3 DEF FilesAreWhole
<1> QED
  BY <1>5, <1>6, <1>7, <1>8, <1>9

\* Every step of a save, every failure, crash and restart preserves the
\* invariant.
LEMMA NextInv == Inv /\ [Next]_vars => Inv'
<1> SUFFICES ASSUME Inv, [Next]_vars PROVE Inv'
  OBVIOUS
<1>1. CASE \E newSecret, newLogin \in BOOLEAN : BeginSave(newSecret, newLogin)
  BY <1>1, BeginSaveInv
<1>2. CASE SaveStep
  BY <1>2, SaveSecretInv, SetLoginInv, RevokeInv, RollbackSecretInv, RestoreLoginInv,
     CreateTempInv, WriteTempInv, StageBackupInv, FinishBackupInv, RenameInv, PruneBackupsInv,
     CommitInv DEF SaveStep
<1>3. CASE Crash \/ Restart \/ SetClock
  BY <1>3, CrashInv, RestartInv, SetClockInv
<1>4. CASE UNCHANGED vars
  BY <1>4 DEF vars, diskVars, Inv, TypeOK, SecretsFollowDocuments, FilesFollowProgram,
     BackupsAreDistinct, StateFollowsProgram, FilesAreWhole, Candidate, Doc, NewSecret
<1> QED
  BY <1>1, <1>2, <1>3, <1>4 DEF Next

-----------------------------------------------------------------------------

\* In every behaviour the variables keep their types.
THEOREM TypeCorrect == Spec => []TypeOK
<1>1. Inv => TypeOK
  BY DEF Inv
<1> QED
  BY <1>1, InitInv, NextInv, PTL DEF Spec

\* Wherever a save fails or the process is killed, config.toml and every
\* backup hold a whole document, and a save that succeeds leaves at most
\* MAX_BACKUPS backups (store.rs, save and prune_backups).
THEOREM FilesAreWholeTheorem == Spec => []FilesAreWhole
<1>1. Inv => FilesAreWhole
  BY DEF Inv
<1> QED
  BY <1>1, InitInv, NextInv, PTL DEF Spec

\* Between saves the file, the memory, the keyring and the login setting
\* agree, unless one of the three accidents has happened
\* (manager.rs, persist_config).
THEOREM SettledStateAgreesTheorem == Spec => []SettledStateAgrees
<1>1. Inv => SettledStateAgrees
  BY DEF Inv, StateFollowsProgram, SettledStateAgrees
<1> QED
  BY <1>1, InitInv, NextInv, PTL DEF Spec

\* A configuration is only replaced after it has been backed up, and only by
\* the document being saved (store.rs, save and backup_current).
THEOREM ReplacedOnlyWithBackupTheorem == Spec => ReplacedOnlyWithBackup
<1> DEFINE Replaced == main' # main =>
                         /\ main' = Candidate
                         /\ main # 0 => \E b \in backups : b.content = main
<1>1. Inv /\ [Next]_vars => [Replaced]_vars
  <2> SUFFICES ASSUME Inv, Next, main' # main PROVE Replaced
    OBVIOUS
  <2>1. pc = "rename" /\ main' = temp
    BY DEF Next, BeginSave, SaveStep, SaveSecret, SetLogin, Revoke, RollbackSecret, RestoreLogin,
       CreateTemp, WriteTemp, StageBackup, FinishBackup, Rename, PruneBackups, Commit,
       Crash, Restart, SetClock, diskVars
  <2> QED
    BY <2>1 DEF Inv, FilesFollowProgram
<1> QED
  BY <1>1, InitInv, NextInv, PTL DEF Spec, ReplacedOnlyWithBackup
=============================================================================
