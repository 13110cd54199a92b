------------------------ MODULE HostKeyApprovalProofs ------------------------
(***************************************************************************)
(* Proofs about the verification of host keys, for any number of attempts, *)
(* algorithms, keys, prompts and clicks of the user.                       *)
(***************************************************************************)
EXTENDS HostKeyApproval, SequenceTheorems, FiniteSetTheorems, TLAPS

USE AttemptsAssumption, UserFileAssumption, MaxPromptsAssumption

\* The inductive invariant: the types, who is asked about what, and the files.
Prompts == PromptsAreUnique /\ WaitersAreKnown /\ IdsAreFaithful
Files   == SavesAreExclusive /\ KnownHostsAgree
Inv     == TypeOK /\ Prompts /\ AnswersAreDecisions /\ Files

-----------------------------------------------------------------------------
(* The queue of prompts.                                                   *)

\* A prompt is sent.
LEMMA SendPrompt ==
  ASSUME NEW s \in Seq(Attempts), NEW a \in Attempts, a \notin ToSet(s),
         \A i, j \in 1..Len(s) : s[i] = s[j] => i = j
  PROVE  LET t == Append(s, a) IN
         /\ t \in Seq(Attempts) /\ Len(t) = Len(s) + 1
         /\ ToSet(t) = ToSet(s) \cup {a}
         /\ \A i, j \in 1..Len(t) : t[i] = t[j] => i = j
<1> DEFINE t == Append(s, a)
<1>1. /\ t \in Seq(Attempts) /\ Len(t) = Len(s) + 1 /\ Len(s) \in Nat
      /\ \A i \in 1..Len(s) : t[i] = s[i]
      /\ t[Len(s) + 1] = a
  BY AppendProperties, LenProperties
<1> HIDE DEF t
<1>2. DOMAIN t = 1..(Len(s) + 1) /\ DOMAIN s = 1..Len(s)
  BY <1>1
<1>3. ToSet(t) = ToSet(s) \cup {a}
  BY <1>1, <1>2 DEF ToSet
<1>4. \A i, j \in 1..Len(t) : t[i] = t[j] => i = j
  BY <1>1, <1>2 DEF ToSet
<1> QED
  BY <1>1, <1>3, <1>4 DEF t

\* A prompt is taken.
LEMMA TakePrompt ==
  ASSUME NEW s \in Seq(Attempts), s # <<>>,
         \A i, j \in 1..Len(s) : s[i] = s[j] => i = j
  PROVE  /\ Head(s) \in Attempts /\ Head(s) \in ToSet(s)
         /\ Tail(s) \in Seq(Attempts) /\ Len(Tail(s)) = Len(s) - 1
         /\ ToSet(Tail(s)) = ToSet(s) \ {Head(s)}
         /\ \A i, j \in 1..Len(Tail(s)) : Tail(s)[i] = Tail(s)[j] => i = j
<1>1. /\ Tail(s) \in Seq(Attempts) /\ Len(s) \in Nat \ {0} /\ Len(Tail(s)) = Len(s) - 1
      /\ \A i \in 1..Len(Tail(s)) : Tail(s)[i] = s[i + 1]
      /\ Head(s) = s[1] /\ Head(s) \in Attempts
  BY HeadTailProperties, LenProperties, EmptySeq
<1>2. DOMAIN s = 1..Len(s) /\ DOMAIN Tail(s) = 1..(Len(s) - 1)
  BY <1>1
<1>3. Head(s) \in ToSet(s)
  BY <1>1, <1>2 DEF ToSet
<1>4. \A i, j \in 1..Len(Tail(s)) : Tail(s)[i] = Tail(s)[j] => i = j
  BY <1>1
<1>5. ToSet(Tail(s)) = ToSet(s) \ {Head(s)}
  <2>1. ASSUME NEW x \in ToSet(Tail(s)) PROVE x \in ToSet(s) \ {Head(s)}
    <3>1. PICK i \in 1..(Len(s) - 1) : x = s[i + 1]
      BY <1>1, <1>2, <2>1 DEF ToSet
    <3>2. i + 1 \in 1..Len(s) /\ i + 1 # 1
      BY <1>1
    <3> QED
      BY <1>1, <1>2, <3>1, <3>2 DEF ToSet
  <2>2. ASSUME NEW x \in ToSet(s) \ {Head(s)} PROVE x \in ToSet(Tail(s))
    <3>1. PICK i \in 1..Len(s) : x = s[i]
      BY <1>2, <2>2 DEF ToSet
    <3>2. i - 1 \in 1..(Len(s) - 1) /\ Tail(s)[i - 1] = x
      BY <1>1, <2>2, <3>1
    <3> QED
      BY <1>2, <3>2 DEF ToSet
  <2> QED
    BY <2>1, <2>2
<1> QED
  BY <1>1, <1>3, <1>4, <1>5

-----------------------------------------------------------------------------
(* The invariant.                                                          *)

\* TunnelManager::new, before any handshake, establishes the invariant.
LEMMA InitInv == Init => Inv
<1> SUFFICES ASSUME Init PROVE Inv
  OBVIOUS
<1>1. /\ channel = <<>> /\ Len(channel) = 0 /\ ToSet(channel) = {}
      /\ channel \in Seq(Attempts)
      /\ Len(commands) = 0 /\ commands \in Seq([id : Id, decision : Decisions])
      /\ Len(app_file) = 0 /\ app_file \in Seq(Keys)
  BY EmptySeq DEF Init, ToSet
<1>2. IsFiniteSet({})
  BY FS_EmptySet
<1>3. TypeOK
  BY <1>1, <1>2 DEF Init, TypeOK, Stages, Decisions, Id
<1>4. Prompts
  BY <1>1, <1>2 DEF Init, Prompts, PromptsAreUnique, WaitersAreKnown, IdsAreFaithful
<1>5. AnswersAreDecisions
  BY DEF Init, AnswersAreDecisions
<1>6. Files
  BY <1>1 DEF Init, Files, SavesAreExclusive, KnownHostsAgree
<1> QED
  BY <1>3, <1>4, <1>5, <1>6 DEF Inv

\* A verification that goes on without asking concerns no prompt.
LEMMA StageMoves ==
  ASSUME Inv, NEW a \in Attempts, NEW to \in Stages,
         stage' = [stage EXCEPT ![a] = to], to # "waiting",
         to \in {"unborn", "checking"} => stage[a] \in {"unborn", "checking"},
         to \in {"locking", "saving", "learning"} => answer[a] = "TrustAndSave",
         UNCHANGED grounds \/ \E why \in {"bypass", "known", "user"} :
                                /\ grounds' = [grounds EXCEPT ![a] = why]
                                /\ why = "user" => answer[a] \in {"TrustOnce", "TrustAndSave"},
         UNCHANGED <<key, answer, channel, managerVars, commands, decided>>
  PROVE  /\ Prompts' /\ AnswersAreDecisions'
         /\ stage' \in [Attempts -> Stages]
         /\ grounds' \in [Attempts -> {"none", "bypass", "known", "user"}]
<1> USE DEF Inv, Prompts, managerVars
<1>1. /\ stage' \in [Attempts -> Stages]
      /\ grounds' \in [Attempts -> {"none", "bypass", "known", "user"}]
  BY DEF TypeOK
<1>2. PromptsAreUnique'
  BY DEF TypeOK, PromptsAreUnique
<1>3. WaitersAreKnown'
  BY DEF TypeOK, WaitersAreKnown
<1>4. IdsAreFaithful'
  BY DEF IdsAreFaithful
<1>5. AnswersAreDecisions'
  <2> SUFFICES ASSUME NEW b \in Attempts
               PROVE  /\ answer[b] \in {"TrustOnce", "TrustAndSave"} =>
                           \E d \in decided : d.key = key[b] /\ d.decision = answer[b]
                      /\ grounds'[b] = "user" => answer[b] \in {"TrustOnce", "TrustAndSave"}
                      /\ stage'[b] \in {"locking", "saving", "learning"} => answer[b] = "TrustAndSave"
    BY DEF AnswersAreDecisions
  <2>1. CASE b = a
    BY <2>1 DEF TypeOK, AnswersAreDecisions
  <2>2. CASE b # a
    BY <2>2 DEF TypeOK, AnswersAreDecisions
  <2> QED
    BY <2>1, <2>2
<1> QED
  BY <1>1, <1>2, <1>3, <1>4, <1>5

\* What the files say about a key depends on the files and the key only.
LEMMA UnlearnedKept ==
  ASSUME NEW a \in Attempts, UNCHANGED <<key, app_file>>
  PROVE  Unlearned(a)' <=> Unlearned(a)
  BY DEF Unlearned, Matches, Changed

\* A key that is learned is the first of its algorithm.
LEMMA LearnedIsFirst ==
  ASSUME Inv, NEW a \in Attempts, Unlearned(a), KnownHostsAgree, orphans = {}, orphans' = {},
         app_file' = Append(app_file, key[a])
  PROVE  KnownHostsAgree'
<1>1. /\ Len(app_file) \in Nat /\ DOMAIN app_file = 1..Len(app_file)
      /\ DOMAIN app_file' = 1..(Len(app_file) + 1)
      /\ \A i \in 1..Len(app_file) : app_file'[i] = app_file[i]
      /\ app_file'[Len(app_file) + 1] = key[a]
  BY AppendProperties, LenProperties DEF Inv, TypeOK
<1>2. /\ \A k \in UserFile : ~SameAlgorithm(k, key[a])
      /\ \A i \in 1..Len(app_file) : ~SameAlgorithm(app_file[i], key[a])
  BY <1>1 DEF Unlearned, Matches, Changed, ToSet
<1>3. \A k, l : SameAlgorithm(k, l) <=> SameAlgorithm(l, k)
  BY DEF SameAlgorithm
<1>4. \A i \in 1..(Len(app_file) + 1) : i \in 1..Len(app_file) \/ i = Len(app_file) + 1
  BY <1>1
<1>5. ASSUME NEW i \in DOMAIN app_file', NEW k \in UserFile
      PROVE  ~SameAlgorithm(app_file'[i], k)
  BY <1>1, <1>2, <1>3, <1>4 DEF KnownHostsAgree
<1>6. ASSUME NEW i \in DOMAIN app_file', NEW j \in DOMAIN app_file',
             SameAlgorithm(app_file'[i], app_file'[j])
      PROVE  i = j
  BY <1>1, <1>2, <1>3, <1>4, <1>6 DEF KnownHostsAgree
<1> QED
  BY <1>5, <1>6 DEF KnownHostsAgree

\* A verification that is not saving leaves the lock to whoever is.
LEMMA FilesKept ==
  ASSUME Inv, NEW a \in Attempts, NEW to \in Stages,
         stage' = [stage EXCEPT ![a] = to], to \notin {"saving", "learning"},
         UNCHANGED <<key, app_file, orphans>>,
         save_lock' = save_lock \/ (save_lock = a /\ save_lock' = None)
  PROVE  Files'
<1>1. \A b \in Attempts : Unlearned(b)' <=> Unlearned(b)
  BY UnlearnedKept
<1>2. SavesAreExclusive'
  BY <1>1 DEF Inv, Files, TypeOK, SavesAreExclusive
<1>3. KnownHostsAgree'
  BY DEF Inv, Files, KnownHostsAgree
<1> QED
  BY <1>2, <1>3 DEF Files

\* check_server_key is called.
LEMMA BeginInv == ASSUME Inv, NEW a \in Attempts, Begin(a) PROVE Inv'
<1>1. Prompts' /\ AnswersAreDecisions' /\ stage' \in [Attempts -> Stages]
  BY StageMoves DEF Begin, Move, Stages
<1>2. Files'
  BY FilesKept DEF Begin, Move, Stages, fileVars
<1> QED
  BY <1>1, <1>2 DEF Begin, Inv, TypeOK, managerVars, fileVars

\* The files are consulted, and the user asked.
LEMMA CheckInv == ASSUME Inv, NEW a \in Attempts, Check(a) PROVE Inv'
<1>1. CASE /\ UNCHANGED channel
           /\ Accept(a, "bypass") \/ Accept(a, "known") \/ Refuse(a)
  <2>1. PICK to \in {"accepted", "refused"} :
          /\ stage' = [stage EXCEPT ![a] = to]
          /\ UNCHANGED grounds \/ \E why \in {"bypass", "known"} : grounds' = [grounds EXCEPT ![a] = why]
    BY <1>1 DEF Accept, Refuse, Move
  <2>2. UNCHANGED <<key, answer, managerVars, commands, decided, fileVars>>
    BY DEF Check
  <2>3. /\ Prompts' /\ AnswersAreDecisions' /\ stage' \in [Attempts -> Stages]
        /\ grounds' \in [Attempts -> {"none", "bypass", "known", "user"}]
    BY <1>1, <2>1, <2>2, StageMoves DEF Stages
  <2>4. Files'
    BY <2>1, <2>2, FilesKept DEF Stages, fileVars
  <2> QED
    BY <1>1, <2>2, <2>3, <2>4 DEF Inv, TypeOK, managerVars, fileVars
<1>2. CASE /\ manager # "ended" /\ Len(channel) < MaxPrompts
           /\ channel' = Append(channel, a)
           /\ Move(a, "waiting") /\ UNCHANGED grounds
  <2> USE DEF Inv, Prompts
  <2>1. UNCHANGED <<key, answer, pending, next_id, views, manager, commands, decided,
                    save_lock, app_file, orphans>> /\ stage[a] = "checking"
    BY DEF Check, managerVars, fileVars
  <2>2. /\ stage' \in [Attempts -> Stages] /\ stage'[a] = "waiting"
        /\ \A b \in Attempts : b # a => stage'[b] = stage[b]
    BY <1>2 DEF Move, TypeOK, Stages
  <2>3. answer[a] = "none" /\ a \notin ToSet(channel) /\ \A p \in pending : p.attempt # a
    BY <2>1 DEF PromptsAreUnique
  <2>4. /\ channel' \in Seq(Attempts) /\ Len(channel') = Len(channel) + 1
        /\ ToSet(channel') = ToSet(channel) \cup {a}
        /\ \A i, j \in 1..Len(channel') : channel'[i] = channel'[j] => i = j
    <3>1. /\ channel \in Seq(Attempts) /\ channel' = Append(channel, a)
          /\ \A i, j \in 1..Len(channel) : channel[i] = channel[j] => i = j
      BY <1>2 DEF TypeOK, PromptsAreUnique
    <3>2. a \notin ToSet(channel)
      BY <2>3
    <3> HIDE DEF Inv, Prompts
    <3> QED
      BY <3>1, <3>2, SendPrompt
  <2>5. TypeOK'
    BY <1>2, <2>1, <2>2, <2>4, LenProperties DEF TypeOK
  <2>6. PromptsAreUnique'
    BY <2>1, <2>2, <2>3, <2>4 DEF PromptsAreUnique
  <2>7. WaitersAreKnown'
    BY <1>2, <2>1, <2>2, <2>4 DEF WaitersAreKnown, TypeOK
  <2>8. IdsAreFaithful'
    BY <2>1 DEF IdsAreFaithful
  <2>9. AnswersAreDecisions'
    BY <1>2, <2>1, <2>2 DEF AnswersAreDecisions
  <2>10. Files'
    BY <1>2, <2>1, FilesKept DEF Move, Stages
  <2> QED
    BY <2>5, <2>6, <2>7, <2>8, <2>9, <2>10
<1> QED
  BY <1>1, <1>2 DEF Check

\* The answer is there.
LEMMA ReceiveInv == ASSUME Inv, NEW a \in Attempts, Receive(a) PROVE Inv'
<1>1. PICK to \in {"accepted", "locking", "refused"} :
        /\ stage' = [stage EXCEPT ![a] = to]
        /\ to = "locking" => answer[a] = "TrustAndSave"
        /\ UNCHANGED grounds \/ (grounds' = [grounds EXCEPT ![a] = "user"] /\ answer[a] = "TrustOnce")
  BY DEF Receive, Accept, Refuse, Move
<1>2. UNCHANGED <<key, answer, channel, managerVars, commands, decided, fileVars>>
  BY DEF Receive
<1>3. /\ Prompts' /\ AnswersAreDecisions' /\ stage' \in [Attempts -> Stages]
      /\ grounds' \in [Attempts -> {"none", "bypass", "known", "user"}]
  BY <1>1, <1>2, StageMoves DEF Stages
<1>4. Files'
  BY <1>1, <1>2, FilesKept DEF Stages, fileVars
<1> QED
  BY <1>2, <1>3, <1>4 DEF Inv, TypeOK, managerVars, fileVars

\* The lock is taken.
LEMMA LockInv == ASSUME Inv, NEW a \in Attempts, Lock(a) PROVE Inv'
<1>1. /\ stage' = [stage EXCEPT ![a] = "saving"] /\ stage[a] = "locking"
      /\ save_lock = None /\ save_lock' = a
      /\ UNCHANGED <<key, grounds, answer, channel, managerVars, commands, decided, app_file,
                     orphans>>
  BY DEF Lock, Move
<1>2. answer[a] = "TrustAndSave"
  BY <1>1 DEF Inv, AnswersAreDecisions
<1>3. /\ Prompts' /\ AnswersAreDecisions' /\ stage' \in [Attempts -> Stages]
  BY <1>1, <1>2, StageMoves DEF Stages
<1>4. \A b \in Attempts : Unlearned(b)' <=> Unlearned(b)
  BY <1>1, UnlearnedKept
<1>5. SavesAreExclusive'
  BY <1>1, <1>4 DEF Inv, Files, TypeOK, SavesAreExclusive
<1>6. KnownHostsAgree'
  BY <1>1 DEF Inv, Files, KnownHostsAgree
<1> QED
  BY <1>1, <1>3, <1>5, <1>6 DEF Inv, Files, TypeOK, managerVars

\* What the end of a save does to the attempt and to the lock.
LEMMA FinishResult ==
  ASSUME Inv, NEW a \in Attempts, NEW ok \in BOOLEAN, Finish(a, ok),
         stage[a] \in {"saving", "learning"},
         UNCHANGED <<key, answer, channel, managerVars, commands, decided>>
  PROVE  /\ Prompts' /\ AnswersAreDecisions' /\ stage' \in [Attempts -> Stages]
         /\ grounds' \in [Attempts -> {"none", "bypass", "known", "user"}]
         /\ save_lock' = save_lock \/ (save_lock = a /\ save_lock' = None)
         /\ \E to \in {"dropped", "accepted", "refused"} : stage' = [stage EXCEPT ![a] = to]
<1>1. answer[a] = "TrustAndSave"
  BY DEF Inv, AnswersAreDecisions
<1>2. PICK to \in {"dropped", "accepted", "refused"} :
        /\ stage' = [stage EXCEPT ![a] = to]
        /\ UNCHANGED grounds \/ grounds' = [grounds EXCEPT ![a] = "user"]
  BY DEF Finish, Accept, Refuse, Move
<1>3. /\ Prompts' /\ AnswersAreDecisions' /\ stage' \in [Attempts -> Stages]
      /\ grounds' \in [Attempts -> {"none", "bypass", "known", "user"}]
  BY <1>1, <1>2, StageMoves DEF Stages
<1> QED
  BY <1>2, <1>3 DEF Finish

\* The files are read again under the lock.
LEMMA RereadInv == ASSUME Inv, NEW a \in Attempts, Reread(a) PROVE Inv'
<1>1. /\ stage[a] = "saving"
      /\ UNCHANGED <<key, answer, channel, managerVars, commands, decided, app_file, orphans>>
  BY DEF Reread
<1>2. CASE Finish(a, TRUE) \/ Finish(a, FALSE)
  <2>1. PICK ok \in BOOLEAN : Finish(a, ok)
    BY <1>2
  <2>2. /\ Prompts' /\ AnswersAreDecisions' /\ stage' \in [Attempts -> Stages]
        /\ grounds' \in [Attempts -> {"none", "bypass", "known", "user"}]
        /\ save_lock' = save_lock \/ (save_lock = a /\ save_lock' = None)
    BY <1>1, <2>1, FinishResult
  <2>3. PICK to \in {"dropped", "accepted", "refused"} : stage' = [stage EXCEPT ![a] = to]
    BY <1>1, <2>1, FinishResult
  <2>4. Files'
    BY <1>1, <2>2, <2>3, FilesKept DEF Stages
  <2> QED
    BY <1>1, <2>2, <2>4 DEF Inv, TypeOK, managerVars
<1>3. CASE /\ Unlearned(a)
           /\ Move(a, "learning")
           /\ UNCHANGED <<grounds, save_lock>>
  <2>1. answer[a] = "TrustAndSave"
    BY <1>1 DEF Inv, AnswersAreDecisions
  <2>2. /\ Prompts' /\ AnswersAreDecisions' /\ stage' \in [Attempts -> Stages]
    BY <1>1, <1>3, <2>1, StageMoves DEF Stages, Move
  <2>3. \A b \in Attempts : Unlearned(b)' <=> Unlearned(b)
    BY <1>1, UnlearnedKept
  <2>4. SavesAreExclusive'
    BY <1>1, <1>3, <2>3 DEF Move, Inv, Files, TypeOK, SavesAreExclusive
  <2>5. KnownHostsAgree'
    BY <1>1 DEF Inv, Files, KnownHostsAgree
  <2> QED
    BY <1>1, <1>3, <2>2, <2>4, <2>5 DEF Inv, Files, TypeOK, managerVars
<1> QED
  BY <1>2, <1>3 DEF Reread

\* A key is appended to the application's file, or that fails.
LEMMA LearnInv == ASSUME Inv, NEW a \in Attempts, Learn(a) PROVE Inv'
<1>1. /\ stage[a] = "learning"
      /\ UNCHANGED <<key, answer, channel, managerVars, commands, decided, orphans>>
  BY DEF Learn
<1>2. PICK ok \in BOOLEAN : Finish(a, ok)
  BY DEF Learn
<1>3. /\ Prompts' /\ AnswersAreDecisions' /\ stage' \in [Attempts -> Stages]
      /\ grounds' \in [Attempts -> {"none", "bypass", "known", "user"}]
      /\ save_lock' = save_lock \/ (save_lock = a /\ save_lock' = None)
  BY <1>1, <1>2, FinishResult
<1>4. PICK to \in {"dropped", "accepted", "refused"} : stage' = [stage EXCEPT ![a] = to]
  BY <1>1, <1>2, FinishResult
<1>5. CASE UNCHANGED app_file
  <2>1. Files'
    BY <1>1, <1>3, <1>4, <1>5, FilesKept DEF Stages
  <2> QED
    BY <1>1, <1>3, <1>5, <2>1 DEF Inv, TypeOK, managerVars
<1>6. CASE app_file' = Append(app_file, key[a])
  <2>1. key[a] \in Keys /\ app_file \in Seq(Keys)
    BY DEF Inv, TypeOK
  <2>2. app_file' \in Seq(Keys) /\ Len(app_file') = Len(app_file) + 1
    BY <1>6, <2>1, AppendProperties
  <2>3. SavesAreExclusive'
    BY <1>1, <1>3, <1>4 DEF Inv, Files, TypeOK, SavesAreExclusive
  <2>4. KnownHostsAgree'
    <3>1. CASE orphans # {}
      BY <1>1, <3>1 DEF KnownHostsAgree
    <3>2. CASE orphans = {}
      BY <1>1, <1>6, <3>2, LearnedIsFirst DEF Inv, Files, SavesAreExclusive
    <3> QED
      BY <3>1, <3>2
  <2> QED
    BY <1>1, <1>3, <2>2, <2>3, <2>4 DEF Inv, Files, TypeOK, managerVars
<1> QED
  BY <1>5, <1>6 DEF Learn

\* russh's task goes.
LEMMA DropTaskInv == ASSUME Inv, NEW a \in Attempts, DropTask(a) PROVE Inv'
<1>1. /\ UNCHANGED <<key, grounds, answer, channel, managerVars, commands, decided, app_file>>
      /\ save_lock' = save_lock \/ (save_lock = a /\ save_lock' = None)
  BY DEF DropTask
<1>2. CASE Move(a, "dropped") /\ UNCHANGED orphans
  <2>1. /\ Prompts' /\ AnswersAreDecisions' /\ stage' \in [Attempts -> Stages]
    BY <1>1, <1>2, StageMoves DEF Stages, Move
  <2>2. Files'
    BY <1>1, <1>2, FilesKept DEF Stages, Move
  <2> QED
    BY <1>1, <1>2, <2>1, <2>2 DEF Inv, TypeOK, managerVars
<1>3. CASE orphans' = orphans \cup {a} /\ UNCHANGED stage
  <2>1. Prompts' /\ AnswersAreDecisions'
    BY <1>1, <1>3 DEF Inv, Prompts, PromptsAreUnique, WaitersAreKnown, IdsAreFaithful,
       AnswersAreDecisions, managerVars
  <2>2. Files'
    BY <1>3 DEF Files, SavesAreExclusive, KnownHostsAgree
  <2> QED
    BY <1>1, <1>3, <2>1, <2>2 DEF Inv, TypeOK, managerVars
<1> QED
  BY <1>2, <1>3 DEF DropTask

\* A reply to attempts that still have a prompt, and to no other.
LEMMA ReplyResult ==
  ASSUME Inv, NEW A \in SUBSET Attempts, NEW decision \in Decisions, Reply(A, decision),
         \A a \in A : answer[a] = "none",
         decision = "Cancel" \/ \A a \in A : \E d \in decided : d.key = key[a] /\ d.decision = decision,
         UNCHANGED <<stage, key, grounds, decided>>
  PROVE  /\ answer' \in [Attempts -> Decisions \cup {"none"}]
         /\ \A a \in Attempts : a \in A => answer'[a] # "none"
         /\ \A a \in Attempts : a \notin A => answer'[a] = answer[a]
         /\ AnswersAreDecisions'
<1>1. /\ answer' \in [Attempts -> Decisions \cup {"none"}]
      /\ \A a \in Attempts : a \in A => answer'[a] = decision
      /\ \A a \in Attempts : a \notin A => answer'[a] = answer[a]
  BY DEF Reply, Inv, TypeOK
<1>2. AnswersAreDecisions'
  <2> SUFFICES ASSUME NEW b \in Attempts
               PROVE  /\ answer'[b] \in {"TrustOnce", "TrustAndSave"} =>
                           \E d \in decided : d.key = key[b] /\ d.decision = answer'[b]
                      /\ grounds[b] = "user" => answer'[b] \in {"TrustOnce", "TrustAndSave"}
                      /\ stage[b] \in {"locking", "saving", "learning"} => answer'[b] = "TrustAndSave"
    BY DEF AnswersAreDecisions
  <2>1. CASE b \in A
    BY <1>1, <2>1 DEF Inv, AnswersAreDecisions
  <2>2. CASE b \notin A
    BY <1>1, <2>2 DEF Inv, AnswersAreDecisions
  <2> QED
    BY <2>1, <2>2
<1> QED
  BY <1>1, <1>2 DEF Decisions

\* The files do not change when the manager or the user does something.
LEMMA FilesUnchanged ==
  ASSUME Inv, UNCHANGED <<stage, key, fileVars>>
  PROVE  Files'
<1>1. \A b \in Attempts : Unlearned(b)' <=> Unlearned(b)
  BY UnlearnedKept DEF fileVars
<1>2. SavesAreExclusive'
  BY <1>1 DEF Inv, Files, SavesAreExclusive, fileVars
<1>3. KnownHostsAgree'
  BY DEF Inv, Files, KnownHostsAgree, fileVars
<1> QED
  BY <1>2, <1>3 DEF Files

\* What the window shows is what the list says.
LEMMA PublishResult ==
  ASSUME TypeOK, NEW P \in SUBSET Prompt, Publish(P)
  PROVE  /\ views' \subseteq View
         /\ \A v \in views' : \E p \in P : v.id = p.id /\ v.key = key[p.attempt]
<1>1. views' = {[id |-> p.id, key |-> key[p.attempt]] : p \in P}
  BY DEF Publish
<1>2. \A p \in P : [id |-> p.id, key |-> key[p.attempt]] \in View
  BY DEF TypeOK, Prompt, View
<1> QED
  BY <1>1, <1>2

\* queue_host_key.
LEMMA QueueHostKeyInv == ASSUME Inv, QueueHostKey PROVE Inv'
<1> USE DEF Inv, Prompts
<1> DEFINE a == Head(channel)
<1>1. /\ manager = "running" /\ channel # <<>> /\ channel' = Tail(channel)
      /\ UNCHANGED <<stage, key, grounds, commands, manager, decided, fileVars>>
  BY DEF QueueHostKey
<1>2. /\ a \in Attempts /\ a \in ToSet(channel)
      /\ channel' \in Seq(Attempts) /\ Len(channel') = Len(channel) - 1
      /\ ToSet(channel') = ToSet(channel) \ {a}
      /\ \A i, j \in 1..Len(channel') : channel'[i] = channel'[j] => i = j
  <2>1. /\ channel \in Seq(Attempts) /\ channel # <<>>
        /\ \A i, j \in 1..Len(channel) : channel[i] = channel[j] => i = j
    BY <1>1 DEF TypeOK, PromptsAreUnique
  <2>2. /\ Head(channel) \in Attempts /\ Head(channel) \in ToSet(channel)
        /\ Tail(channel) \in Seq(Attempts) /\ Len(Tail(channel)) = Len(channel) - 1
        /\ ToSet(Tail(channel)) = ToSet(channel) \ {Head(channel)}
        /\ \A i, j \in 1..Len(Tail(channel)) : Tail(channel)[i] = Tail(channel)[j] => i = j
    BY <2>1, TakePrompt, Zenon
  <2> QED
    BY <1>1, <2>2, Zenon
<1>3. /\ Len(channel) \in Nat /\ Len(channel') <= MaxPrompts
  BY <1>2, LenProperties DEF TypeOK
<1>4. answer[a] = "none" /\ \A p \in pending : p.attempt # a
  BY <1>2 DEF PromptsAreUnique
<1>5. Files'
  BY <1>1, FilesUnchanged
<1>6. CASE Reply({a}, "Cancel") /\ UNCHANGED <<pending, next_id, views>>
  <2>1. /\ answer' \in [Attempts -> Decisions \cup {"none"}]
        /\ \A b \in Attempts : b \in {a} => answer'[b] # "none"
        /\ \A b \in Attempts : b \notin {a} => answer'[b] = answer[b]
        /\ AnswersAreDecisions'
    <3>1. "Cancel" \in Decisions /\ {a} \in SUBSET Attempts
      BY <1>2 DEF Decisions
    <3> QED
      BY <1>1, <1>4, <1>6, <3>1, ReplyResult
  <2> HIDE DEF a
  <2>2. TypeOK'
    BY <1>1, <1>2, <1>3, <1>6, <2>1 DEF TypeOK, fileVars
  <2>3. PromptsAreUnique'
    <3>1. stage[a] \notin {"unborn", "checking"}
      BY <1>2 DEF PromptsAreUnique
    <3> QED
      BY <1>1, <1>2, <1>4, <1>6, <2>1, <3>1 DEF PromptsAreUnique
  <2>4. WaitersAreKnown'
    BY <1>1, <1>2, <1>6, <2>1 DEF WaitersAreKnown
  <2>5. IdsAreFaithful'
    BY <1>1, <1>6 DEF IdsAreFaithful
  <2> QED
    BY <1>5, <2>1, <2>2, <2>3, <2>4, <2>5
<1>7. CASE /\ pending' = pending \cup {[id |-> next_id, attempt |-> a]}
           /\ next_id' = next_id + 1
           /\ Publish(pending')
           /\ UNCHANGED answer
  <2> DEFINE new == [id |-> next_id, attempt |-> a]
  <2> HIDE DEF a
  <2>1. new \in Prompt /\ new.id = next_id /\ new.attempt = a /\ next_id' \in Id /\ next_id \in Nat
    BY <1>2, <1>7 DEF Prompt, TypeOK, Id
  <2>2. pending' = pending \cup {new}
    BY <1>7
  <2> HIDE DEF new
  <2>3. /\ pending' \in SUBSET Prompt /\ views' \subseteq View
        /\ \A v \in views' : \E p \in pending' : v.id = p.id /\ v.key = key[p.attempt]
    BY <1>7, <2>1, <2>2, PublishResult DEF TypeOK
  <2>4. TypeOK'
    BY <1>1, <1>2, <1>3, <1>7, <2>1, <2>3 DEF TypeOK, fileVars
  <2>5. PromptsAreUnique'
    <3>1. IsFiniteSet(pending')
      BY <2>2, FS_AddElement DEF PromptsAreUnique
    <3>2. \A p, q \in pending' : p.attempt = q.attempt \/ p.id = q.id => p = q
      BY <1>4, <2>1, <2>2 DEF PromptsAreUnique, IdsAreFaithful
    <3>3. \A p \in pending' : p.attempt \notin ToSet(channel')
      BY <1>2, <2>1, <2>2 DEF PromptsAreUnique
    <3>4. stage[a] \notin {"unborn", "checking"}
      BY <1>2 DEF PromptsAreUnique
    <3> QED
      BY <1>1, <1>2, <1>4, <1>7, <2>1, <2>2, <3>1, <3>2, <3>3, <3>4 DEF PromptsAreUnique
  <2>6. WaitersAreKnown'
    BY <1>1, <1>2, <1>7, <2>1, <2>2 DEF WaitersAreKnown
  <2>7. IdsAreFaithful'
    <3>1. \A p \in pending' : p.id < next_id' /\ p.id \in Nat
      BY <1>7, <2>1, <2>2 DEF IdsAreFaithful, TypeOK, Prompt, Id
    <3>2. \A v \in views' : v.id < next_id' /\ \A p \in pending' : p.id = v.id => v.key = key[p.attempt]
      BY <2>3, <2>5, <3>1, <1>1 DEF PromptsAreUnique
    <3>3. \A d \in decided : d.id < next_id /\ d.id \in Nat
      BY DEF IdsAreFaithful, TypeOK, Id
    <3>4. \A d \in decided : d.id < next_id' /\ \A p \in pending' : p.id = d.id => d.key = key[p.attempt]
      BY <1>7, <2>1, <2>2, <3>3 DEF IdsAreFaithful
    <3> QED
      BY <1>1, <3>1, <3>2, <3>4 DEF IdsAreFaithful
  <2>8. AnswersAreDecisions'
    BY <1>1, <1>7 DEF AnswersAreDecisions
  <2> QED
    BY <1>5, <2>4, <2>5, <2>6, <2>7, <2>8
<1> QED
  BY <1>6, <1>7 DEF QueueHostKey

\* The user clicks on what the window shows.
LEMMA ClickInv ==
  ASSUME Inv, NEW view \in views, NEW decision \in Decisions, Click(view, decision)
  PROVE  Inv'
<1> USE DEF Inv, Prompts
<1> DEFINE new == [id |-> view.id, key |-> view.key, decision |-> decision]
           command == [id |-> view.id, decision |-> decision]
<1>1. /\ commands' = Append(commands, command)
      /\ decided' = decided \cup {new}
      /\ UNCHANGED <<stage, key, grounds, answer, channel, managerVars, fileVars>>
  BY DEF Click
<1>2. view.id \in Id /\ view.key \in Keys /\ view.id < next_id
  BY DEF TypeOK, View, IdsAreFaithful
<1>3. /\ new \in [id : Id, key : Keys, decision : Decisions] /\ command \in [id : Id, decision : Decisions]
      /\ new.id = view.id /\ new.key = view.key /\ new.decision = decision
      /\ command.id = view.id /\ command.decision = decision
  BY <1>2
<1> HIDE DEF new, command
<1>4. /\ commands' \in Seq([id : Id, decision : Decisions]) /\ Len(commands') = Len(commands) + 1
      /\ Len(commands) \in Nat
      /\ \A i \in 1..Len(commands) : commands'[i] = commands[i]
      /\ commands'[Len(commands) + 1] = command
  BY <1>1, <1>3, AppendProperties, LenProperties DEF TypeOK
<1>5. TypeOK'
  BY <1>1, <1>3, <1>4 DEF TypeOK, managerVars, fileVars
<1>6. PromptsAreUnique' /\ WaitersAreKnown'
  BY <1>1 DEF PromptsAreUnique, WaitersAreKnown, managerVars
<1>7. IdsAreFaithful'
  <2>1. \A d \in decided' : d.id < next_id /\ \A p \in pending : p.id = d.id => d.key = key[p.attempt]
    BY <1>1, <1>2, <1>3 DEF IdsAreFaithful
  <2>2. ASSUME NEW i \in 1..Len(commands')
        PROVE  \E d \in decided' : d.id = commands'[i].id /\ d.decision = commands'[i].decision
    <3>1. CASE i \in 1..Len(commands)
      BY <1>1, <1>4, <3>1 DEF IdsAreFaithful
    <3>2. CASE i = Len(commands) + 1
      BY <1>1, <1>3, <1>4, <3>2
    <3> QED
      BY <1>4, <3>1, <3>2
  <2> QED
    BY <1>1, <2>1, <2>2 DEF IdsAreFaithful, managerVars
<1>8. AnswersAreDecisions'
  BY <1>1 DEF AnswersAreDecisions
<1>9. Files'
  BY <1>1, FilesUnchanged
<1> QED
  BY <1>5, <1>6, <1>7, <1>8, <1>9

\* What is left of the queue of commands.
LEMMA TakeCommand ==
  ASSUME Inv, commands # <<>>, commands' = Tail(commands)
  PROVE  /\ commands' \in Seq([id : Id, decision : Decisions])
         /\ Head(commands) \in [id : Id, decision : Decisions]
         /\ \E d \in decided : d.id = Head(commands).id /\ d.decision = Head(commands).decision
         /\ \A i \in 1..Len(commands') :
              \E d \in decided : d.id = commands'[i].id /\ d.decision = commands'[i].decision
<1> DEFINE C == [id : Id, decision : Decisions]
<1>1. commands \in Seq(C)
  BY DEF Inv, TypeOK
<1> HIDE DEF C
<1>2. /\ Tail(commands) \in Seq(C) /\ Len(commands) \in Nat \ {0}
      /\ Len(Tail(commands)) = Len(commands) - 1
      /\ \A i \in 1..Len(Tail(commands)) : Tail(commands)[i] = commands[i + 1]
      /\ Head(commands) = commands[1] /\ Head(commands) \in C
  BY <1>1, HeadTailProperties, LenProperties, EmptySeq
<1>3. \A i \in 1..Len(commands) :
        \E d \in decided : d.id = commands[i].id /\ d.decision = commands[i].decision
  BY DEF Inv, Prompts, IdsAreFaithful
<1>4. \A i \in 1..Len(Tail(commands)) : i + 1 \in 1..Len(commands)
  BY <1>2
<1> QED
  BY <1>2, <1>3, <1>4 DEF C

\* Prompts that go, answered or not, leave the others as they are.
LEMMA PromptsGo ==
  ASSUME Inv, NEW A \in SUBSET Attempts, pending' \subseteq pending,
         \A p \in pending \ pending' : p.attempt \in A \/ stage[p.attempt] # "waiting",
         \A p \in pending' : p.attempt \notin A,
         \A a \in A : \E p \in pending : p.attempt = a,
         \A a \in Attempts : a \in A => answer'[a] # "none",
         \A a \in Attempts : a \notin A => answer'[a] = answer[a],
         manager' # "running" => pending' = {},
         manager' = "ended" => manager = "ended",
         \A v \in views' : v.id < next_id /\ \A p \in pending' : p.id = v.id => v.key = key[p.attempt],
         \A i \in 1..Len(commands') :
            \E d \in decided : d.id = commands'[i].id /\ d.decision = commands'[i].decision,
         UNCHANGED <<stage, key, channel, next_id, decided>>
  PROVE  Prompts'
<1> USE DEF Inv, Prompts
<1>1. PromptsAreUnique'
  <2>1. IsFiniteSet(pending')
    BY FS_Subset DEF PromptsAreUnique
  <2>2. \A a \in A : a \notin ToSet(channel) /\ stage[a] \notin {"unborn", "checking"}
    BY DEF PromptsAreUnique
  <2>3. ASSUME NEW a \in Attempts
        PROVE  /\ stage[a] \in {"unborn", "checking"} \/ answer'[a] # "none" =>
                    a \notin ToSet(channel) /\ \A p \in pending' : p.attempt # a
               /\ stage[a] \in {"unborn", "checking"} => answer'[a] = "none"
    BY <2>2 DEF PromptsAreUnique
  <2> QED
    BY <2>1, <2>3 DEF PromptsAreUnique
<1>2. WaitersAreKnown'
  BY DEF WaitersAreKnown
<1>3. IdsAreFaithful'
  BY DEF IdsAreFaithful
<1> QED
  BY <1>1, <1>2, <1>3

\* The views are about prompts that are or were in the list.
LEMMA ViewsOfPending ==
  ASSUME Inv, pending' \subseteq pending, Publish(pending'), UNCHANGED key
  PROVE  /\ views' \subseteq View
         /\ \A v \in views' : v.id < next_id /\ \A p \in pending' : p.id = v.id => v.key = key[p.attempt]
<1>1. pending' \in SUBSET Prompt
  BY DEF Inv, TypeOK
<1>2. /\ views' \subseteq View
      /\ \A v \in views' : \E p \in pending' : v.id = p.id /\ v.key = key[p.attempt]
  BY <1>1, PublishResult DEF Inv
<1> QED
  BY <1>2 DEF Inv, Prompts, PromptsAreUnique, IdsAreFaithful

\* ResolveHostKey answers the prompt of the command's id with the decision that
\* the user has taken on that prompt's key.
LEMMA ResolveHostKeyInv == ASSUME Inv, ResolveHostKey PROVE Inv'
<1> DEFINE command == Head(commands)
           found   == {p \in pending : p.id = command.id}
           A       == {p.attempt : p \in found}
<1>1. /\ manager = "running" /\ commands # <<>> /\ commands' = Tail(commands)
      /\ pending' = pending \ found /\ Reply(A, command.decision) /\ Publish(pending')
      /\ UNCHANGED <<stage, key, grounds, channel, next_id, manager, decided, fileVars>>
  BY DEF ResolveHostKey
<1>2. /\ commands' \in Seq([id : Id, decision : Decisions])
      /\ command.decision \in Decisions
      /\ \E d \in decided : d.id = command.id /\ d.decision = command.decision
      /\ \A i \in 1..Len(commands') :
           \E d \in decided : d.id = commands'[i].id /\ d.decision = commands'[i].decision
  BY <1>1, TakeCommand
<1> HIDE DEF command
<1>3. \A p \in pending : p.attempt \in Attempts /\ answer[p.attempt] = "none"
  BY DEF Inv, TypeOK, Prompt, Prompts, PromptsAreUnique
<1>4. A \in SUBSET Attempts /\ \A a \in A : answer[a] = "none"
  BY <1>3
<1>5. \A a \in A : \E d \in decided : d.key = key[a] /\ d.decision = command.decision
  BY <1>2 DEF Inv, Prompts, IdsAreFaithful
<1>6. \A a \in A : \E p \in pending : p.attempt = a
  OBVIOUS
<1>7. /\ pending' \subseteq pending
      /\ \A p \in pending \ pending' : p.attempt \in A
      /\ \A p \in pending' : p.attempt \notin A
  BY <1>1 DEF Inv, Prompts, PromptsAreUnique
<1> HIDE DEF A, found
<1>8. /\ answer' \in [Attempts -> Decisions \cup {"none"}]
      /\ \A a \in Attempts : a \in A => answer'[a] # "none"
      /\ \A a \in Attempts : a \notin A => answer'[a] = answer[a]
      /\ AnswersAreDecisions'
  BY <1>1, <1>2, <1>4, <1>5, ReplyResult
<1>9. /\ views' \subseteq View
      /\ \A v \in views' : v.id < next_id /\ \A p \in pending' : p.id = v.id => v.key = key[p.attempt]
  BY <1>1, <1>7, ViewsOfPending
<1>10. Prompts'
  BY <1>1, <1>2, <1>4, <1>6, <1>7, <1>8, <1>9, PromptsGo
<1>11. Files'
  BY <1>1, FilesUnchanged
<1>12. TypeOK'
  BY <1>1, <1>2, <1>7, <1>8, <1>9 DEF Inv, TypeOK, fileVars
<1> QED
  BY <1>8, <1>10, <1>11, <1>12 DEF Inv

\* refresh.
LEMMA RefreshInv == ASSUME Inv, Refresh PROVE Inv'
<1>1. /\ manager = "running" /\ Publish(pending') /\ pending' \subseteq pending
      /\ \A p \in pending \ pending' : stage[p.attempt] # "waiting"
      /\ UNCHANGED <<stage, key, grounds, answer, channel, next_id, commands, manager, decided, fileVars>>
  BY DEF Refresh
<1>2. /\ views' \subseteq View
      /\ \A v \in views' : v.id < next_id /\ \A p \in pending' : p.id = v.id => v.key = key[p.attempt]
  BY <1>1, ViewsOfPending
<1>3. \A i \in 1..Len(commands') :
        \E d \in decided : d.id = commands'[i].id /\ d.decision = commands'[i].decision
  BY <1>1 DEF Inv, Prompts, IdsAreFaithful
<1>4. {} \in SUBSET Attempts
  OBVIOUS
<1>5. Prompts'
  BY <1>1, <1>2, <1>3, <1>4, PromptsGo
<1>6. Files'
  BY <1>1, FilesUnchanged
<1>7. TypeOK' /\ AnswersAreDecisions'
  BY <1>1, <1>2 DEF Inv, TypeOK, AnswersAreDecisions, fileVars
<1> QED
  BY <1>5, <1>6, <1>7 DEF Inv

\* The loop of run ends: who has a prompt gets Cancel.
LEMMA LeaveLoopInv == ASSUME Inv, LeaveLoop PROVE Inv'
<1> DEFINE A == {p.attempt : p \in pending}
<1>1. /\ manager' = "draining" /\ pending' = {} /\ Reply(A, "Cancel")
      /\ UNCHANGED <<stage, key, grounds, channel, next_id, views, commands, decided, fileVars>>
  BY DEF LeaveLoop
<1>2. \A p \in pending : p.attempt \in Attempts /\ answer[p.attempt] = "none"
  BY DEF Inv, TypeOK, Prompt, Prompts, PromptsAreUnique
<1>3. /\ A \in SUBSET Attempts /\ \A a \in A : answer[a] = "none"
      /\ \A p \in pending : p.attempt \in A
      /\ \A a \in A : \E p \in pending : p.attempt = a
  BY <1>2
<1> HIDE DEF A
<1>4. /\ answer' \in [Attempts -> Decisions \cup {"none"}]
      /\ \A a \in Attempts : a \in A => answer'[a] # "none"
      /\ \A a \in Attempts : a \notin A => answer'[a] = answer[a]
      /\ AnswersAreDecisions'
  BY <1>1, <1>3, ReplyResult DEF Decisions
<1>5. /\ \A v \in views' : v.id < next_id /\ \A p \in pending' : p.id = v.id => v.key = key[p.attempt]
      /\ \A i \in 1..Len(commands') :
           \E d \in decided : d.id = commands'[i].id /\ d.decision = commands'[i].decision
  BY <1>1 DEF Inv, Prompts, IdsAreFaithful
<1>6. Prompts'
  BY <1>1, <1>3, <1>4, <1>5, PromptsGo
<1>7. Files'
  BY <1>1, FilesUnchanged
<1>8. TypeOK'
  BY <1>1, <1>4 DEF Inv, TypeOK, fileVars
<1> QED
  BY <1>4, <1>6, <1>7, <1>8 DEF Inv

\* run returns: who is still in the channel gets Cancel.
LEMMA EndRunInv == ASSUME Inv, EndRun PROVE Inv'
<1> DEFINE A == ToSet(channel)
<1>1. /\ manager = "draining" /\ manager' = "ended" /\ channel' = <<>> /\ Reply(A, "Cancel")
      /\ UNCHANGED <<stage, key, grounds, pending, next_id, views, commands, decided, fileVars>>
  BY DEF EndRun
<1>2. /\ A \in SUBSET Attempts /\ pending = {}
      /\ \A a \in A : answer[a] = "none" /\ stage[a] \notin {"unborn", "checking"}
  <2>1. A \in SUBSET Attempts
    BY ElementOfSeq DEF ToSet, Inv, TypeOK
  <2> QED
    BY <1>1, <2>1 DEF Inv, Prompts, PromptsAreUnique, WaitersAreKnown
<1>3. Len(channel') = 0 /\ ToSet(channel') = {} /\ channel' \in Seq(Attempts)
  BY <1>1, EmptySeq DEF ToSet
<1> HIDE DEF A
<1>4. /\ answer' \in [Attempts -> Decisions \cup {"none"}]
      /\ \A a \in Attempts : a \in A => answer'[a] # "none"
      /\ \A a \in Attempts : a \notin A => answer'[a] = answer[a]
      /\ AnswersAreDecisions'
  BY <1>1, <1>2, ReplyResult DEF Decisions
<1>5. PromptsAreUnique'
  BY <1>1, <1>2, <1>3, <1>4 DEF Inv, Prompts, PromptsAreUnique
<1>6. WaitersAreKnown'
  BY <1>1, <1>2, <1>3, <1>4 DEF Inv, Prompts, WaitersAreKnown, A
<1>7. IdsAreFaithful'
  BY <1>1 DEF Inv, Prompts, IdsAreFaithful
<1>8. Files'
  BY <1>1, FilesUnchanged
<1>9. TypeOK'
  BY <1>1, <1>3, <1>4 DEF Inv, TypeOK, fileVars
<1> QED
  BY <1>4, <1>5, <1>6, <1>7, <1>8, <1>9 DEF Inv, Prompts

\* Every step of the handshakes, the manager and the user preserves the
\* invariant.
LEMMA NextInv == Inv /\ [Next]_vars => Inv'
<1> SUFFICES ASSUME Inv, [Next]_vars PROVE Inv'
  OBVIOUS
<1>1. CASE VerifierStep
  BY <1>1, CheckInv, ReceiveInv, LockInv, RereadInv, LearnInv DEF VerifierStep
<1>2. CASE ManagerStep \/ Refresh \/ LeaveLoop
  BY <1>2, QueueHostKeyInv, ResolveHostKeyInv, EndRunInv, RefreshInv, LeaveLoopInv DEF ManagerStep
<1>3. CASE \E a \in Attempts : Begin(a) \/ DropTask(a)
  BY <1>3, BeginInv, DropTaskInv
<1>4. CASE \E view \in views, decision \in Decisions : Click(view, decision)
  BY <1>4, ClickInv
<1>5. CASE UNCHANGED vars
  BY <1>5 DEF vars, managerVars, fileVars, Inv, Prompts, Files, TypeOK, PromptsAreUnique,
     WaitersAreKnown, IdsAreFaithful, AnswersAreDecisions, SavesAreExclusive, KnownHostsAgree,
     Unlearned, Matches, Changed
<1> QED
  BY <1>1, <1>2, <1>3, <1>4, <1>5 DEF Next

-----------------------------------------------------------------------------

\* In every behaviour the variables keep their types.
THEOREM TypeCorrect == Spec => []TypeOK
<1>1. Inv => TypeOK
  BY DEF Inv
<1> QED
  BY <1>1, InitInv, NextInv, PTL DEF Spec

\* A key that no file has is accepted, or saved, only after the user has
\* trusted that very key (manager.rs:381-386, host_key.rs:208-217).
THEOREM AcceptedIsTrustedTheorem == Spec => []AcceptedIsTrusted
<1>1. Inv => AcceptedIsTrusted
  BY DEF Inv, AnswersAreDecisions, AcceptedIsTrusted
<1> QED
  BY <1>1, InitInv, NextInv, PTL DEF Spec

\* Whoever waits for the user is in the channel, in the list or answered, in
\* one of them once; a manager that has ended has answered everybody
\* (manager.rs:399, 409-412).
THEOREM NobodyWaitsInVainTheorem == Spec => []NobodyWaitsInVain
<1>1. Inv => NobodyWaitsInVain
  <2> SUFFICES ASSUME Inv, NEW a \in Attempts, stage[a] = "waiting"
               PROVE  /\ Cardinality({i \in DOMAIN channel : channel[i] = a})
                           + Cardinality({p \in pending : p.attempt = a})
                           + (IF answer[a] = "none" THEN 0 ELSE 1) = 1
                      /\ manager = "ended" => answer[a] # "none"
    BY DEF NobodyWaitsInVain
  <2> USE DEF Inv, Prompts
  <2> DEFINE C == {i \in DOMAIN channel : channel[i] = a}
             P == {p \in pending : p.attempt = a}
  <2>1. DOMAIN channel = 1..Len(channel) /\ channel \in Seq(Attempts)
    BY DEF TypeOK
  <2>2. C = {} <=> a \notin ToSet(channel)
    BY DEF ToSet
  <2>3. C = {} \/ \E i : C = {i}
    <3>1. \A i, j \in C : i = j
      BY <2>1 DEF PromptsAreUnique
    <3>2. SUFFICES ASSUME NEW i \in C PROVE C = {i}
      BY <3>2
    <3> HIDE DEF C
    <3> QED
      BY <3>1
  <2>4. P = {} \/ \E p : P = {p}
    <3>1. \A p, q \in P : p = q
      BY DEF PromptsAreUnique
    <3>2. SUFFICES ASSUME NEW p \in P PROVE P = {p}
      BY <3>2
    <3> HIDE DEF P
    <3> QED
      BY <3>1
  <2>5. /\ Cardinality(C) = IF C = {} THEN 0 ELSE 1
        /\ Cardinality(P) = IF P = {} THEN 0 ELSE 1
    BY <2>3, <2>4, FS_EmptySet, FS_Singleton
  <2>6. C = {} \/ P = {}
    BY <2>2 DEF PromptsAreUnique
  <2>7. answer[a] # "none" => C = {} /\ P = {}
    BY <2>2 DEF PromptsAreUnique
  <2>8. answer[a] = "none" => C # {} \/ P # {}
    BY <2>2 DEF WaitersAreKnown
  <2>9. manager = "ended" => C = {} /\ P = {}
    BY <2>2, EmptySeq DEF WaitersAreKnown, ToSet
  <2> HIDE DEF C, P
  <2>10. /\ Cardinality(C) + Cardinality(P) + (IF answer[a] = "none" THEN 0 ELSE 1) = 1
         /\ manager = "ended" => answer[a] # "none"
    BY <2>5, <2>6, <2>7, <2>8, <2>9
  <2> QED
    BY <2>10 DEF C, P
<1> QED
  BY <1>1, InitInv, NextInv, PTL DEF Spec

\* The two files never disagree about the server and no key is learned twice,
\* unless the task of a save was dropped (host_key.rs:213-259).
THEOREM KnownHostsAgreeTheorem == Spec => []KnownHostsAgree
<1>1. Inv => KnownHostsAgree
  BY DEF Inv, Files
<1> QED
  BY <1>1, InitInv, NextInv, PTL DEF Spec
=============================================================================
