-------------------------- MODULE HostKeyApproval --------------------------
(***************************************************************************)
(* Verifying the key of one SSH server (ssh-engine/src/host_key.rs): the   *)
(* known_hosts files, the prompt that goes through TunnelManager to the    *)
(* user and back (tunnel-core/src/manager.rs), and saving a key.           *)
(*                                                                         *)
(* Several attempts to connect to the server, of one tunnel or of many,    *)
(* verify at the same time, and the server may present another key each    *)
(* time.  A verification runs in russh's task: the connection that wanted  *)
(* it may have been given up (120 s, or Stop) long before the user         *)
(* answers.  Whether and when that task is dropped is up to russh and the  *)
(* runtime.                                                                *)
(***************************************************************************)
EXTENDS Naturals, Sequences, FiniteSets, SequencesExt

CONSTANTS
  Attempts,      \* verifications, one per handshake
  Algorithms,    \* the keys the server may present, one set for each algorithm
  UserFile,      \* ~/.ssh/known_hosts, which is only read: its keys of the server
  MaxPrompts,    \* MAX_HOST_KEY_PROMPTS, 16 in the code
  MaxCommands,   \* bound: the user's clicks on their way to the manager
  None           \* no attempt

ASSUME AttemptsAssumption   == None \notin Attempts
ASSUME AlgorithmsAssumption == \A s, t \in Algorithms : s = t \/ s \cap t = {}
ASSUME UserFileAssumption   == UserFile \subseteq UNION Algorithms
ASSUME MaxPromptsAssumption == MaxPrompts \in Nat \ {0}

VARIABLES
  stage,      \* per attempt, where check_server_key is
  key,        \* per attempt, the key the server has presented
  grounds,    \* per attempt, why the key was accepted
  answer,     \* per attempt, the value in its oneshot channel
  channel,    \* the mpsc channel of prompts, as attempts
  pending,    \* the manager's pending_host_keys; they are looked up by id, so
              \* their order says nothing
  next_id,    \* its next_host_key_id
  views,      \* the watch value the window shows
  commands,   \* ResolveHostKey commands in the manager's queue
  manager,    \* the manager's run: in its loop, past it, returned
  decided,    \* history: what the user has decided, on what they were shown
  save_lock,  \* the save_lock mutex
  app_file,   \* the application's known_hosts, in the order of its lines
  orphans     \* attempts whose save went on, or goes on, without their task

managerVars == <<pending, next_id, views, manager>>
fileVars    == <<save_lock, app_file, orphans>>

vars == <<stage, key, grounds, answer, channel, managerVars, commands, decided, fileVars>>

Keys == UNION Algorithms

SameAlgorithm(k, l) == \E s \in Algorithms : k \in s /\ l \in s

Decisions == {"TrustOnce", "TrustAndSave", "Cancel"}

Stages == {"unborn", "checking", "waiting", "locking", "saving", "learning",
           "accepted", "refused", "dropped"}

Id     == Nat \ {0}
Prompt == [id : Id, attempt : Attempts]
View   == [id : Id, key : Keys]

TypeOK ==
  /\ stage \in [Attempts -> Stages]
  /\ key \in [Attempts -> Keys]
  /\ grounds \in [Attempts -> {"none", "bypass", "known", "user"}]
  /\ answer \in [Attempts -> Decisions \cup {"none"}]
  /\ channel \in Seq(Attempts) /\ Len(channel) <= MaxPrompts
  /\ pending \subseteq Prompt
  /\ next_id \in Id
  /\ views \subseteq View
  /\ commands \in Seq([id : Id, decision : Decisions])
  /\ manager \in {"running", "draining", "ended"}
  /\ decided \subseteq [id : Id, key : Keys, decision : Decisions]
  /\ save_lock \in Attempts \cup {None}
  /\ app_file \in Seq(Keys)
  /\ orphans \subseteq Attempts

Init ==
  /\ stage = [a \in Attempts |-> "unborn"]
  /\ key \in [Attempts -> Keys]
  /\ grounds = [a \in Attempts |-> "none"]
  /\ answer = [a \in Attempts |-> "none"]
  /\ channel = <<>> /\ pending = {} /\ next_id = 1 /\ views = {} /\ commands = <<>>
  /\ manager = "running"
  /\ decided = {}
  /\ save_lock = None
  /\ app_file = <<>>
  /\ orphans = {}

Move(a, to) == stage' = [stage EXCEPT ![a] = to]

Accept(a, why) == Move(a, "accepted") /\ grounds' = [grounds EXCEPT ![a] = why]

Refuse(a) == Move(a, "refused") /\ UNCHANGED grounds

\* check_known_hosts_path for the key of attempt a: only another key of the
\* same algorithm makes it a changed one.
Matches(a, file) == key[a] \in file
Changed(a, file) == \E k \in file : SameAlgorithm(k, key[a]) /\ k # key[a]

\* Neither file says anything about the key of attempt a.
Unlearned(a) == \A f \in {UserFile, ToSet(app_file)} : ~Matches(a, f) /\ ~Changed(a, f)

-----------------------------------------------------------------------------
(* check_server_key.                                                       *)

Begin(a) ==
  /\ stage[a] = "unborn"
  /\ Move(a, "checking")
  /\ UNCHANGED <<key, grounds, answer, channel, managerVars, commands, decided, fileVars>>

\* The host's policy is Bypass; or a file has the key and none a changed one; or
\* a file cannot be read, has a changed one, there is nobody to ask, or the
\* queue is full or closed; or the user is asked.
Check(a) ==
  /\ stage[a] = "checking"
  /\ LET files == {UserFile, ToSet(app_file)}
         known == \E f \in files : Matches(a, f)
         changed == \E f \in files : Changed(a, f)
     IN \/ Accept(a, "bypass") /\ UNCHANGED channel
        \/ known /\ ~changed /\ Accept(a, "known") /\ UNCHANGED channel
        \/ Refuse(a) /\ UNCHANGED channel
        \/ /\ Unlearned(a)
           /\ manager # "ended" /\ Len(channel) < MaxPrompts
           /\ channel' = Append(channel, a)
           /\ Move(a, "waiting") /\ UNCHANGED grounds
  /\ UNCHANGED <<key, answer, managerVars, commands, decided, fileVars>>

Receive(a) ==
  /\ stage[a] = "waiting"
  /\ \/ answer[a] = "TrustOnce" /\ Accept(a, "user")
     \/ answer[a] = "TrustAndSave" /\ Move(a, "locking") /\ UNCHANGED grounds
     \/ answer[a] = "Cancel" /\ Refuse(a)
  /\ UNCHANGED <<key, answer, channel, managerVars, commands, decided, fileVars>>

\* Mutant of Lock: the guard is not held during the save.
LockMutant(a) ==
  /\ stage[a] = "locking"
  /\ Move(a, "saving")
  /\ UNCHANGED <<key, grounds, answer, channel, managerVars, commands, decided, fileVars>>

\* save_lock.lock().await, then spawn_blocking.
Lock(a) ==
  /\ stage[a] = "locking" /\ save_lock = None
  /\ save_lock' = a
  /\ Move(a, "saving")
  /\ UNCHANGED <<key, grounds, answer, channel, managerVars, commands, decided, app_file,
                 orphans>>

\* What check_server_key returns after the closure, if it is still there to
\* return: the guard is dropped with it.
Finish(a, ok) ==
  /\ \/ a \in orphans /\ Move(a, "dropped") /\ UNCHANGED grounds
     \/ a \notin orphans /\ ok /\ Accept(a, "user")
     \/ a \notin orphans /\ ~ok /\ Refuse(a)
  /\ save_lock' = IF save_lock = a THEN None ELSE save_lock

\* The blocking closure reads the files again, in their order; the first that
\* has a key of the server of this algorithm decides, and nothing is learned
\* unless both have none.
Reread(a) ==
  /\ stage[a] = "saving"
  /\ \/ /\ ~Changed(a, UserFile)
        /\ \/ Matches(a, UserFile)
           \/ Matches(a, ToSet(app_file)) /\ ~Changed(a, ToSet(app_file))
        /\ Finish(a, TRUE)
     \/ Finish(a, FALSE)
     \/ /\ Unlearned(a)
        /\ Move(a, "learning")
        /\ UNCHANGED <<grounds, save_lock>>
  /\ UNCHANGED <<key, answer, channel, managerVars, commands, decided, app_file, orphans>>

\* learn_known_hosts_path.
Learn(a) ==
  /\ stage[a] = "learning"
  /\ \/ app_file' = Append(app_file, key[a]) /\ Finish(a, TRUE)
     \/ UNCHANGED app_file /\ Finish(a, FALSE)
  /\ UNCHANGED <<key, answer, channel, managerVars, commands, decided, orphans>>

\* russh's task is dropped where it waits.  A blocking save goes on, without
\* the guard.
DropTask(a) ==
  /\ a \notin orphans
  /\ \/ stage[a] \in {"waiting", "locking"} /\ Move(a, "dropped") /\ UNCHANGED orphans
     \/ /\ stage[a] \in {"saving", "learning"}
        /\ orphans' = orphans \cup {a}
        /\ UNCHANGED stage
  /\ save_lock' = IF save_lock = a THEN None ELSE save_lock
  /\ UNCHANGED <<key, grounds, answer, channel, managerVars, commands, decided, app_file>>

-----------------------------------------------------------------------------
(* TunnelManager, and the window.                                          *)

\* publish_host_keys.
Publish(prompts) == views' = {[id |-> p.id, key |-> key[p.attempt]] : p \in prompts}

\* oneshot::Sender::send, or dropping it, which the receiver takes for Cancel.
Reply(attempts, decision) ==
  answer' = [a \in Attempts |-> IF a \in attempts THEN decision ELSE answer[a]]

\* Mutant of QueueHostKey: a prompt beyond the limit is put aside.
QueueHostKeyMutant ==
  /\ manager = "running" /\ channel # <<>>
  /\ channel' = Tail(channel)
  /\ \/ /\ Cardinality(pending) >= MaxPrompts
        /\ UNCHANGED <<answer, pending, next_id, views>>
     \/ /\ Cardinality(pending) < MaxPrompts
        /\ pending' = pending \cup {[id |-> next_id, attempt |-> Head(channel)]}
        /\ next_id' = next_id + 1
        /\ Publish(pending')
        /\ UNCHANGED answer
  /\ UNCHANGED <<stage, key, grounds, commands, manager, decided, fileVars>>

\* queue_host_key: at the limit the prompt is cancelled on the user's behalf.
QueueHostKey ==
  /\ manager = "running" /\ channel # <<>>
  /\ channel' = Tail(channel)
  /\ \/ /\ Cardinality(pending) >= MaxPrompts
        /\ Reply({Head(channel)}, "Cancel")
        /\ UNCHANGED <<pending, next_id, views>>
     \/ /\ Cardinality(pending) < MaxPrompts
        /\ pending' = pending \cup {[id |-> next_id, attempt |-> Head(channel)]}
        /\ next_id' = next_id + 1
        /\ Publish(pending')
        /\ UNCHANGED answer
  /\ UNCHANGED <<stage, key, grounds, commands, manager, decided, fileVars>>

\* The user clicks on a prompt that the window shows, perhaps a second time.
Click(view, decision) ==
  /\ view \in views /\ Len(commands) < MaxCommands
  /\ commands' = Append(commands, [id |-> view.id, decision |-> decision])
  /\ decided' = decided \cup {[id |-> view.id, key |-> view.key, decision |-> decision]}
  /\ UNCHANGED <<stage, key, grounds, answer, channel, managerVars, fileVars>>

\* Mutant of ResolveHostKey: the oldest prompt is answered.
ResolveHostKeyMutant ==
  /\ manager = "running" /\ commands # <<>>
  /\ commands' = Tail(commands)
  /\ \/ \E p \in pending :
          /\ \A q \in pending : p.id <= q.id
          /\ pending' = pending \ {p}
          /\ Reply({p.attempt}, Head(commands).decision)
          /\ Publish(pending')
     \/ pending = {} /\ UNCHANGED <<pending, answer, views>>
  /\ UNCHANGED <<stage, key, grounds, channel, next_id, manager, decided, fileVars>>

\* Mutant of ResolveHostKey: the prompt is removed and its sender dropped,
\* which the receiver takes for Cancel.
ResolveHostKeyMutantReply ==
  /\ manager = "running" /\ commands # <<>>
  /\ commands' = Tail(commands)
  /\ LET found == {p \in pending : p.id = Head(commands).id}
     IN /\ pending' = pending \ found
        /\ Reply({p.attempt : p \in found}, "Cancel")
        /\ Publish(pending')
  /\ UNCHANGED <<stage, key, grounds, channel, next_id, manager, decided, fileVars>>

\* ResolveHostKey: the prompt with the command's id, if it is still there.
ResolveHostKey ==
  /\ manager = "running" /\ commands # <<>>
  /\ commands' = Tail(commands)
  /\ LET command == Head(commands)
         found == {p \in pending : p.id = command.id}
     IN /\ pending' = pending \ found
        /\ Reply({p.attempt : p \in found}, command.decision)
        /\ Publish(pending')
  /\ UNCHANGED <<stage, key, grounds, channel, next_id, manager, decided, fileVars>>

\* refresh drops the prompts whose receiver is gone.
Refresh ==
  /\ manager = "running"
  /\ pending' = {p \in pending : stage[p.attempt] = "waiting"}
  /\ pending' # pending
  /\ Publish(pending')
  /\ UNCHANGED <<stage, key, grounds, answer, channel, next_id, commands, manager, decided, fileVars>>

\* The loop of run ends and pending_host_keys is cleared.
LeaveLoop ==
  /\ manager = "running"
  /\ manager' = "draining"
  /\ pending' = {}
  /\ Reply({p.attempt : p \in pending}, "Cancel")
  /\ UNCHANGED <<stage, key, grounds, channel, next_id, views, commands, decided, fileVars>>

\* run returns: the manager goes, and with it the prompts nobody has taken.
EndRun ==
  /\ manager = "draining"
  /\ manager' = "ended"
  /\ Reply(ToSet(channel), "Cancel")
  /\ channel' = <<>>
  /\ UNCHANGED <<stage, key, grounds, pending, next_id, views, commands, decided, fileVars>>

-----------------------------------------------------------------------------

VerifierStep == \E a \in Attempts : Check(a) \/ Receive(a) \/ Lock(a) \/ Reread(a) \/ Learn(a)

ManagerStep == QueueHostKey \/ ResolveHostKey \/ EndRun

Next ==
  \/ VerifierStep \/ ManagerStep \/ Refresh \/ LeaveLoop
  \/ \E a \in Attempts : Begin(a) \/ DropTask(a)
  \/ \E view \in views, decision \in Decisions : Click(view, decision)

Spec == Init /\ [][Next]_vars

(***************************************************************************)
(* Fairness: tasks that can run do, the mutex is fair, blocking saves end, *)
(* and the manager takes what is in its queues.  The user need not answer, *)
(* the manager need not be shut down, and refresh need not happen: it is   *)
(* only polled while a tunnel is active (manager.rs:393).                  *)
(***************************************************************************)
Fairness ==
  /\ \A a \in Attempts :
       /\ WF_vars(Check(a)) /\ WF_vars(Receive(a)) /\ SF_vars(Lock(a))
       /\ WF_vars(Reread(a) \/ Learn(a))
  /\ WF_vars(ManagerStep)

FairSpec == Spec /\ Fairness

-----------------------------------------------------------------------------
(* How the prompts and their answers are kept apart.                       *)

\* Each attempt has at most one prompt, which is in one place, and none before
\* it asks or after it was answered.
PromptsAreUnique ==
  /\ IsFiniteSet(pending)
  /\ \A i, j \in 1..Len(channel) : channel[i] = channel[j] => i = j
  /\ \A p, q \in pending : p.attempt = q.attempt \/ p.id = q.id => p = q
  /\ \A p \in pending : p.attempt \notin ToSet(channel)
  /\ \A a \in Attempts :
       stage[a] \in {"unborn", "checking"} \/ answer[a] # "none" =>
         a \notin ToSet(channel) /\ \A p \in pending : p.attempt # a
  /\ \A a \in Attempts : stage[a] \in {"unborn", "checking"} => answer[a] = "none"

\* Who waits is somewhere, and nobody is left behind by a manager that ends.
WaitersAreKnown ==
  /\ \A a \in Attempts : stage[a] = "waiting" /\ answer[a] = "none" =>
       a \in ToSet(channel) \/ \E p \in pending : p.attempt = a
  /\ manager # "running" => pending = {}
  /\ manager = "ended" => channel = <<>>

\* An id stands for one key: in the list, on the screen and in the decisions.
IdsAreFaithful ==
  /\ \A p \in pending : p.id < next_id
  /\ \A v \in views : v.id < next_id /\ \A p \in pending : p.id = v.id => v.key = key[p.attempt]
  /\ \A d \in decided : d.id < next_id /\ \A p \in pending : p.id = d.id => d.key = key[p.attempt]
  /\ \A i \in 1..Len(commands) :
       \E d \in decided : d.id = commands[i].id /\ d.decision = commands[i].decision

\* An answer in favour of a key is a decision of the user about that key.
AnswersAreDecisions ==
  \A a \in Attempts :
    /\ answer[a] \in {"TrustOnce", "TrustAndSave"} =>
         \E d \in decided : d.key = key[a] /\ d.decision = answer[a]
    /\ grounds[a] = "user" => answer[a] \in {"TrustOnce", "TrustAndSave"}
    /\ stage[a] \in {"locking", "saving", "learning"} => answer[a] = "TrustAndSave"

\* The lock protects the files as long as no save has lost its task.
SavesAreExclusive ==
  orphans = {} =>
    \A a \in Attempts :
      /\ stage[a] \in {"saving", "learning"} => save_lock = a
      /\ stage[a] = "learning" => Unlearned(a)

-----------------------------------------------------------------------------
(* Properties.                                                             *)

(***************************************************************************)
(* A key that no file has is accepted, or saved, only after the user has   *)
(* trusted that very key: a command never answers another prompt than the  *)
(* one the user saw, however late it comes (manager.rs:381-386).           *)
(***************************************************************************)
AcceptedIsTrusted ==
  \A a \in Attempts :
    /\ grounds[a] = "user" => \E d \in decided : d.key = key[a] /\ d.decision = answer[a]
    /\ stage[a] \in {"locking", "saving", "learning"} =>
         \E d \in decided : d.key = key[a] /\ d.decision = "TrustAndSave"

(***************************************************************************)
(* Whoever waits for the user can still be answered: the prompt is in the  *)
(* channel or in the list exactly once, or the answer is there             *)
(* (manager.rs:409-412).  A manager that has ended answers nobody, so it   *)
(* must have left an answer for everybody (manager.rs:399).                *)
(***************************************************************************)
NobodyWaitsInVain ==
  \A a \in Attempts :
    stage[a] = "waiting" =>
      /\ Cardinality({i \in DOMAIN channel : channel[i] = a})
           + Cardinality({p \in pending : p.attempt = a})
           + (IF answer[a] = "none" THEN 0 ELSE 1) = 1
      /\ manager = "ended" => answer[a] # "none"

(***************************************************************************)
(* The two files never disagree about the server and no key is learned     *)
(* twice: for each algorithm they have one key at most, whatever is saved  *)
(* at the same time, unless the task of a save was dropped: its closure    *)
(* then runs without the lock (host_key.rs:213-259).                       *)
(***************************************************************************)
KnownHostsAgree ==
  orphans = {} =>
    \A i \in DOMAIN app_file :
      /\ \A j \in DOMAIN app_file : SameAlgorithm(app_file[i], app_file[j]) => i = j
      /\ \A k \in UserFile : ~SameAlgorithm(app_file[i], k)

\* The user has answered attempt a's prompt, and this click is the first.
Clicked(a, decision) ==
  \E p \in pending, i \in DOMAIN commands :
    /\ p.attempt = a
    /\ commands[i] = [id |-> p.id, decision |-> decision]
    /\ \A j \in 1..(i - 1) : commands[j].id # p.id

\* What the attempt returns on it; saving the key may fail.
Obeyed(a, decision) ==
  /\ answer[a] = decision
  /\ \/ decision = "TrustOnce" /\ stage[a] = "accepted"
     \/ decision = "TrustAndSave" /\ stage[a] \in {"accepted", "refused"}
     \/ decision = "Cancel" /\ stage[a] = "refused"

(***************************************************************************)
(* The first decision of the user on a prompt is the one its attempt acts  *)
(* on, whatever else is clicked, queued or refreshed meanwhile             *)
(* (manager.rs:381-387, host_key.rs:208-263): it does not become the       *)
(* Cancel of a dropped sender, unless the manager is shut down first; and  *)
(* nobody hears of it if the attempt's task is gone.                       *)
(***************************************************************************)
DecisionArrives ==
  \A a \in Attempts, decision \in Decisions :
    Clicked(a, decision) ~>
      \/ Obeyed(a, decision)
      \/ stage[a] = "dropped"
      \/ manager # "running" /\ Obeyed(a, "Cancel")
=============================================================================
