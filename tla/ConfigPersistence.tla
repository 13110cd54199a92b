------------------------- MODULE ConfigPersistence -------------------------
(***************************************************************************)
(* Saving the configuration: TunnelManager::persist_config                 *)
(* (crates/tunnel-core/src/manager.rs), which pairs a keyring entry, the   *)
(* login-startup setting and the configuration file, and                   *)
(* ConfigStore::save (crates/config-store/src/store.rs), which replaces    *)
(* the file through a temporary file with a backup of the old one.         *)
(*                                                                         *)
(* Every call to the file system, the keyring and the registry is a step   *)
(* that may fail, and the process may crash between any two of them.  A    *)
(* rename is atomic; a file is torn from its creation until it is synced.  *)
(* The manager saves one configuration at a time and only one process runs *)
(* (app/src/instance.rs), so one program counter is enough.                *)
(*                                                                         *)
(* A document is its number: 0 is the default one that load returns when   *)
(* there is no file, and the n-th one offered for saving is n.             *)
(***************************************************************************)
EXTENDS Naturals, Sequences, FiniteSets, FiniteSetsExt

CONSTANTS
  MaxSaves,     \* bound on the number of saves
  MaxBackups,   \* MAX_BACKUPS, 5 in the code
  MaxSuffix,    \* number of backup names per millisecond, 10 in the code
  MaxClock      \* bound on the clock that names backups

ASSUME MaxSavesAssumption   == MaxSaves \in Nat
ASSUME MaxBackupsAssumption == MaxBackups \in Nat \ {0}
ASSUME MaxSuffixAssumption  == MaxSuffix \in Nat \ {0}
ASSUME MaxClockAssumption   == MaxClock \in Nat

VARIABLES
  pc,        \* where persist_config is
  docs,      \* the documents offered so far: [secret, login]
  memory,    \* the document the running application works with
  main,      \* the document in config.toml
  temp,      \* what is in config.toml.tmp
  backups,   \* the files backups/config-<stamp>-<suffix>.toml
  staged,    \* the names of the files backups/config-<stamp>-<suffix>.toml.tmp
  target,    \* the name of the backup in progress
  keyring,   \* the secret references that resolve
  login,     \* the login-startup setting of the user
  clock,     \* SystemTime::now() in milliseconds
  mishaps    \* history: what has gone wrong that nothing repairs

diskVars == <<main, temp, backups, staged, target>>

vars == <<pc, docs, memory, diskVars, keyring, login, clock, mishaps>>

Places == {"idle", "secret", "login", "create", "write", "backup", "copy", "rename",
           "prune", "commit", "revoke", "rollback", "restore", "down"}

\* Two contents that are no document.
Torn   == MaxSaves + 1
Absent == MaxSaves + 2

Default == [secret |-> 0, login |-> FALSE]

Doc(v) == IF v = 0 THEN Default ELSE docs[v]

Candidate == Len(docs)

\* A new password or passphrase gets a reference of its own (editor.rs).
NewSecret == docs[Candidate].secret = Candidate

LoginChanges == docs[Candidate].login # Doc(memory).login

Name == [stamp : 0..MaxClock, suffix : 0..(MaxSuffix - 1)]

\* target when no backup is in progress.
NoName == [stamp |-> 0, suffix |-> 0]

Backup == [name : Name, content : 0..Torn]

TypeOK ==
  /\ pc \in Places
  /\ docs \in Seq([secret : 0..MaxSaves, login : BOOLEAN])
  /\ Len(docs) <= MaxSaves
  /\ memory \in 0..Len(docs)
  /\ main \in 0..Torn
  /\ temp \in 0..Absent
  /\ backups \subseteq Backup
  /\ staged \subseteq Name
  /\ target \in Name
  /\ keyring \subseteq 0..MaxSaves
  /\ login \in BOOLEAN
  /\ clock \in 0..MaxClock
  /\ mishaps \subseteq {"crash", "prune", "undo"}

\* The first start: nothing on disk.
Init ==
  /\ pc = "idle"
  /\ docs = <<>>
  /\ memory = 0
  /\ main = 0
  /\ temp = Absent
  /\ backups = {}
  /\ staged = {}
  /\ target = NoName
  /\ keyring = {}
  /\ login = FALSE
  /\ clock = 0
  /\ mishaps = {}

At(from, to) == pc = from /\ pc' = to

-----------------------------------------------------------------------------
(* persist_config.                                                         *)

\* SaveConfig: a document with or without a new secret; every other
\* document keeps the reference in use.
BeginSave(newSecret, newLogin) ==
  /\ At("idle", "secret")
  /\ Len(docs) < MaxSaves
  /\ docs' = Append(docs, [secret |-> IF newSecret THEN Len(docs) + 1 ELSE Doc(memory).secret,
                           login  |-> newLogin])
  /\ UNCHANGED <<memory, diskVars, keyring, login, clock, mishaps>>

\* An early return of an error.
GiveUp == pc' = "idle"

\* SecretStore::save.
SaveSecret ==
  /\ pc = "secret"
  /\ \/ /\ pc' = "login"
        /\ keyring' = IF NewSecret THEN keyring \cup {Candidate} ELSE keyring
     \/ NewSecret /\ GiveUp /\ UNCHANGED keyring
  /\ UNCHANGED <<docs, memory, diskVars, login, clock, mishaps>>

\* set_run_at_login, when the setting changes.
SetLogin ==
  /\ pc = "login"
  /\ \/ pc' = "create" /\ login' = IF LoginChanges THEN docs[Candidate].login ELSE login
     \/ LoginChanges /\ pc' = "revoke" /\ UNCHANGED login
  /\ UNCHANGED <<docs, memory, diskVars, keyring, clock, mishaps>>

\* SecretStore::delete, whose failure is ignored: the orphan is never used.
DeleteSecret == keyring' \in {keyring, keyring \ {Candidate}}

\* The login setting could not be changed: only the secret is taken back.
Revoke ==
  /\ pc = "revoke"
  /\ GiveUp
  /\ IF NewSecret THEN DeleteSecret ELSE UNCHANGED keyring
  /\ UNCHANGED <<docs, memory, diskVars, login, clock, mishaps>>

\* The file could not be saved: the secret is taken back ...
RollbackSecret ==
  /\ At("rollback", "restore")
  /\ IF NewSecret THEN DeleteSecret ELSE UNCHANGED keyring
  /\ UNCHANGED <<docs, memory, diskVars, login, clock, mishaps>>

\* Mutant of RestoreLogin: the setting is not restored.
RestoreLoginMutant ==
  /\ pc = "restore"
  /\ GiveUp
  /\ UNCHANGED <<docs, memory, diskVars, keyring, login, clock, mishaps>>

\* ... and the login setting restored, if that works.
RestoreLogin ==
  /\ pc = "restore"
  /\ GiveUp
  /\ \/ login' = (IF LoginChanges THEN Doc(memory).login ELSE login) /\ UNCHANGED mishaps
     \/ LoginChanges /\ UNCHANGED login /\ mishaps' = mishaps \cup {"undo"}
  /\ UNCHANGED <<docs, memory, diskVars, keyring, clock>>

\* Ok: the manager goes on with the new configuration.
Commit ==
  /\ At("commit", "idle")
  /\ memory' = Candidate
  /\ UNCHANGED <<docs, diskVars, keyring, login, clock, mishaps>>

-----------------------------------------------------------------------------
(* ConfigStore::save.                                                      *)

\* Serialization, validation and size, the directory, and create_new, which
\* refuses a temporary file that is already there.
CreateTemp ==
  /\ pc = "create"
  /\ \/ temp = Absent /\ pc' = "write" /\ temp' = Torn
     \/ pc' = "rollback" /\ UNCHANGED temp
  /\ UNCHANGED <<docs, memory, main, backups, staged, target, keyring, login, clock, mishaps>>

\* TempCleanup's drop: the file is removed, or stays if that fails too.
DropTemp == temp' \in {temp, Absent}

\* Mutant of WriteTemp: the backup is not made.
WriteTempMutant ==
  /\ pc = "write"
  /\ \/ /\ temp' = Candidate
        /\ pc' = "rename"
     \/ DropTemp /\ pc' = "rollback"
  /\ UNCHANGED <<docs, memory, main, backups, staged, target, keyring, login, clock, mishaps>>

\* write_all and sync_all; then the old file, if there is one, is backed up.
WriteTemp ==
  /\ pc = "write"
  /\ \/ /\ temp' = Candidate
        /\ pc' = IF main = 0 THEN "rename" ELSE "backup"
     \/ DropTemp /\ pc' = "rollback"
  /\ UNCHANGED <<docs, memory, main, backups, staged, target, keyring, login, clock, mishaps>>

\* backup_current's loop: the suffixes of this millisecond that are free.
FreeSuffixes ==
  {s \in 0..(MaxSuffix - 1) :
     LET n == [stamp |-> clock, suffix |-> s]
     IN  n \notin staged /\ \A b \in backups : b.name # n}

NextName == [stamp |-> clock, suffix |-> Min(FreeSuffixes)]

\* Mutant of StageBackup: the backup is written in place.
StageBackupMutant ==
  /\ pc = "backup"
  /\ \/ /\ FreeSuffixes # {}
        /\ pc' = "copy"
        /\ target' = NextName
        /\ staged' = staged \cup {NextName}
        /\ backups' = backups \cup {[name |-> NextName, content |-> Torn]}
        /\ UNCHANGED temp
     \/ DropTemp /\ pc' = "rollback" /\ UNCHANGED <<target, staged, backups>>
  /\ UNCHANGED <<docs, memory, main, keyring, login, clock, mishaps>>

\* The staged file is created, or there is no name left, or an error.
StageBackup ==
  /\ pc = "backup"
  /\ \/ /\ FreeSuffixes # {}
        /\ pc' = "copy"
        /\ target' = NextName
        /\ staged' = staged \cup {NextName}
        /\ UNCHANGED temp
     \/ DropTemp /\ pc' = "rollback" /\ UNCHANGED <<target, staged>>
  /\ UNCHANGED <<docs, memory, main, backups, keyring, login, clock, mishaps>>

\* copy, sync_all and rename of the staged file; on an error both temporary
\* files are dropped.
FinishBackup ==
  /\ pc = "copy"
  /\ \/ /\ pc' = "rename"
        /\ backups' = backups \cup {[name |-> target, content |-> main]}
        /\ staged' = staged \ {target}
        /\ UNCHANGED temp
     \/ /\ pc' = "rollback"
        /\ staged' \in {staged, staged \ {target}}
        /\ DropTemp
        /\ UNCHANGED backups
  /\ target' = NoName
  /\ UNCHANGED <<docs, memory, main, keyring, login, clock, mishaps>>

Rename ==
  /\ pc = "rename"
  /\ \/ pc' = "prune" /\ main' = temp /\ temp' = Absent
     \/ pc' = "rollback" /\ DropTemp /\ UNCHANGED main
  /\ UNCHANGED <<docs, memory, backups, staged, target, keyring, login, clock, mishaps>>

\* The order of the names, which is the order of stamp and suffix.
Newer(a, b) == a.stamp > b.stamp \/ (a.stamp = b.stamp /\ a.suffix > b.suffix)

\* The backups beyond the MaxBackups newest ones.
Excess == {b \in backups : Cardinality({c \in backups : Newer(c.name, b.name)}) >= MaxBackups}

\* prune_backups; an error half way is an error of save.
PruneBackups ==
  /\ pc = "prune"
  /\ \/ pc' = "commit" /\ backups' = backups \ Excess /\ UNCHANGED mishaps
     \/ pc' = "rollback"
        /\ \E removed \in SUBSET Excess : backups' = backups \ removed
        /\ mishaps' = mishaps \cup {"prune"}
  /\ UNCHANGED <<docs, memory, main, temp, staged, target, keyring, login, clock>>

-----------------------------------------------------------------------------
(* Crashes, restarts and the clock.                                        *)

Crash ==
  /\ pc # "down"
  /\ pc' = "down"
  /\ memory' = 0
  /\ target' = NoName
  /\ mishaps' = mishaps \cup {"crash"}
  /\ UNCHANGED <<docs, main, temp, backups, staged, keyring, login, clock>>

\* ConfigStore::load, and RuntimeHost::new, which refreshes an enabled login
\* setting (and goes on if that fails).  A file that cannot be parsed would
\* leave the application without a runtime.
Restart ==
  /\ At("down", "idle")
  /\ main \in 0..Len(docs)
  /\ memory' = main
  /\ login' \in IF Doc(main).login THEN {TRUE, login} ELSE {login}
  /\ UNCHANGED <<docs, diskVars, keyring, clock, mishaps>>

\* Time passes, or the clock is set; not in the middle of a backup.
SetClock ==
  /\ pc = "idle"
  /\ clock' \in 0..MaxClock
  /\ UNCHANGED <<pc, docs, memory, diskVars, keyring, login, mishaps>>

-----------------------------------------------------------------------------

SaveStep ==
  \/ SaveSecret \/ SetLogin \/ Revoke \/ RollbackSecret \/ RestoreLogin
  \/ CreateTemp \/ WriteTemp \/ StageBackup \/ FinishBackup
  \/ Rename \/ PruneBackups \/ Commit

Next ==
  \/ \E newSecret, newLogin \in BOOLEAN : BeginSave(newSecret, newLogin)
  \/ SaveStep
  \/ Crash \/ Restart \/ SetClock

Spec == Init /\ [][Next]_vars

-----------------------------------------------------------------------------
(* How persist_config keeps its books.                                     *)

Saving == Places \ {"idle", "down"}

\* A document refers to its own new secret or to an older one, and the one
\* being saved is newer than the one in use.
SecretsFollowDocuments ==
  /\ \A v \in 1..Len(docs) : docs[v].secret <= v
  /\ pc \in Saving => /\ memory < Candidate
                     /\ docs[Candidate].secret \in {Candidate, Doc(memory).secret}

\* What the temporary file holds, and that a backup comes before the rename.
FilesFollowProgram ==
  /\ pc \in {"backup", "copy", "rename"} => temp = Candidate
  /\ pc \in {"backup", "copy"} => main # 0
  /\ pc = "rename" /\ main # 0 => \E b \in backups : b.content = main

\* No two files in backups/ have the same name, a staged one included.
BackupsAreDistinct ==
  /\ IsFiniteSet(backups)
  /\ \A b, c \in backups : b.name = c.name => b = c
  /\ \A b \in backups : b.name \notin staged
  /\ pc = "copy" => target \in staged

\* As long as nothing irreparable has happened: which document is in the
\* file, which one set the login setting, and which secrets resolve.
StateFollowsProgram ==
  mishaps = {} =>
    /\ pc # "down"
    /\ main = IF pc \in {"prune", "commit"} THEN Candidate ELSE memory
    /\ login = IF pc \in {"idle", "secret", "login", "revoke"}
               THEN Doc(memory).login ELSE docs[Candidate].login
    /\ Doc(memory).secret \in keyring \cup {0}
    /\ pc \in Saving \ {"secret", "revoke", "rollback", "restore"} /\ NewSecret =>
         Candidate \in keyring

-----------------------------------------------------------------------------
(* Safety.                                                                 *)

(***************************************************************************)
(* Whatever fails, and wherever the process is killed, the configuration   *)
(* file and every backup hold a complete document: the next start can load *)
(* it (README.md:53-54, "atomic file replacement").  A save that ends with *)
(* Ok leaves at most MAX_BACKUPS backups, whatever earlier crashes and     *)
(* errors have left (TunnelWarden_SPEC.md:2100-2106).                      *)
(***************************************************************************)
FilesAreWhole ==
  /\ main \in 0..Len(docs)
  /\ \A b \in backups : b.content \in 1..Len(docs)
  /\ pc = "commit" => Cardinality(backups) <= MaxBackups

(***************************************************************************)
(* Between saves everything agrees: the application works with the         *)
(* document in the file, its secret resolves and the login setting is what *)
(* it says.  Three accidents, and no other failure, may break this: a      *)
(* crash, an error while old backups are pruned, and a login setting that  *)
(* cannot be restored.                                                     *)
(***************************************************************************)
SettledStateAgrees ==
  pc = "idle" /\ mishaps = {} =>
    /\ memory = main
    /\ login = Doc(main).login
    /\ Doc(main).secret \in keyring \cup {0}

-----------------------------------------------------------------------------
(* Action properties.                                                      *)

(***************************************************************************)
(* A configuration is only ever replaced once it has been backed up, and   *)
(* only by the document being saved.  TunnelWarden_SPEC.md:2094-2098.      *)
(***************************************************************************)
ReplacedOnlyWithBackup ==
  [][main' # main =>
       /\ main' = Candidate
       /\ main # 0 => \E b \in backups : b.content = main]_vars

-----------------------------------------------------------------------------
(* A statement of the documents that the code does not keep.               *)

(***************************************************************************)
(* No temporary file is left once no save is in progress: asserted after   *)
(* saves (store.rs:308), and said of one whose rename fails                *)
(* (store.rs:108-110).  One that a crash leaves is never removed, and      *)
(* create_new refuses every later save.                                    *)
(***************************************************************************)
NoTempLeftBehind == pc = "idle" /\ mishaps \subseteq {"crash"} => temp = Absent
=============================================================================
