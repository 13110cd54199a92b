----------------------------- MODULE Supervisor -----------------------------
(***************************************************************************)
(* The supervisor of one Local or Dynamic tunnel with the worker it        *)
(* creates for each SSH session: crates/tunnel-core/src/supervisor.rs and  *)
(* the parts of local_forward.rs that decide when a session ends and who   *)
(* owns the listener.                                                      *)
(*                                                                         *)
(* Around the supervisor task run, concurrently: the manager, which reads  *)
(* the published state, sends retry hints, cancels and, when its stop      *)
(* deadline passes, aborts the task; the SSH server and the network, which *)
(* may end the session at any time; clients of the local port; and the     *)
(* tasks spawned for them.                                                 *)
(*                                                                         *)
(* Time is abstract: a timeout is a nondeterministic choice, a deadline a  *)
(* step that may be taken.  Error texts and round trip times are left out. *)
(* Channel opening by connection tasks does not change any state shown     *)
(* here and is not part of this module.                                    *)
(***************************************************************************)
EXTENDS Naturals

CONSTANTS
  Dynamic,          \* SupervisorMode::Dynamic rather than Local
  MaxAttempt,       \* u32::MAX in the code: where saturating_add stays
  MaxClients,       \* MAX_UNHEALTHY_CLIENTS, 64 in the code
  MaxConnections    \* MAX_ACTIVE_CONNECTIONS, 64 in the code

ASSUME DynamicAssumption        == Dynamic \in BOOLEAN
ASSUME MaxAttemptAssumption     == MaxAttempt \in Nat \ {0}
ASSUME MaxClientsAssumption     == MaxClients \in Nat
ASSUME MaxConnectionsAssumption == MaxConnections \in Nat

VARIABLES
  pc,           \* where the supervisor task is
  published,    \* the watch value: latest SupervisorState (its variant)
  attempt,      \* run_until_stopped's retry counter
  verdict,      \* after_failure's argument: "Transient" or "Blocked"
  counted,      \* attempt already counts the failure being waited out
  owner,        \* who owns the ListenerRuntime
  chain,        \* the SshChain of this attempt
  failures,     \* history: failed attempts and sessions since a stable one
  age,          \* healthy_since is stable_after ago
  ping_failures,\* the worker's consecutive failed pings
  pinging,      \* the worker is inside ping_all
  reported,     \* the worker's health value the supervisor has not seen yet
  clients,      \* tasks in unhealthy_clients
  connections,  \* tasks in the worker's connections
  cancelled,    \* the tunnel's CancellationToken
  hint,         \* whose hint the manager is about to give with notify_one
  permit,       \* the sources of the permit stored in retry_hint
  woken         \* the sources of the wake-up given to the wait in progress

retryVars   == <<attempt, verdict, counted, failures>>
workerVars  == <<age, ping_failures, pinging, reported>>
hintVars    == <<permit, woken>>
managerVars == <<cancelled, hint, hintVars>>

vars == <<pc, published, retryVars, owner, chain, clients, connections,
          workerVars, managerVars>>

Places == {"loop", "connecting", "pinging", "pinged", "working", "releasing",
           "disconnecting", "released", "failed", "parking", "backoff", "blocked",
           "closing", "stopping", "stopped", "done", "aborted"}

States == {"Connecting", "Reconnecting", "Healthy", "Degraded", "Blocked", "Stopped"}

PingLimit == 3

TypeOK ==
  /\ pc \in Places
  /\ published \in States
  /\ attempt \in 1..MaxAttempt
  /\ verdict \in {"Transient", "Blocked"}
  /\ counted \in BOOLEAN
  /\ failures \in 0..MaxAttempt
  /\ owner \in {"Supervisor", "Worker", "None"}
  /\ chain \in {"None", "Open", "Dead"}
  /\ age \in {"Young", "Old"}
  /\ ping_failures \in 0..(PingLimit - 1)
  /\ pinging \in BOOLEAN
  /\ reported \in {"None", "Healthy", "Degraded"}
  /\ clients \in 0..MaxClients
  /\ connections \in 0..MaxConnections
  /\ cancelled \in BOOLEAN
  /\ hint \in {"none", "user", "network"}
  /\ permit \subseteq {"user", "network"}
  /\ woken \subseteq {"user", "network"}

\* LocalForwardSupervisor::new, given a bound listener.
Init ==
  /\ pc = "loop"
  /\ published = "Connecting"
  /\ attempt = 1
  /\ verdict = "Transient"
  /\ counted = FALSE
  /\ failures = 0
  /\ owner = "Supervisor"
  /\ chain = "None"
  /\ age = "Young"
  /\ ping_failures = 0
  /\ pinging = FALSE
  /\ reported = "None"
  /\ clients = 0
  /\ connections = 0
  /\ cancelled = FALSE
  /\ hint = "none"
  /\ permit = {}
  /\ woken = {}

At(from, to) == pc = from /\ pc' = to

\* saturating_add(1)
Saturating(n) == IF n = MaxAttempt THEN n ELSE n + 1
NextAttempt   == Saturating(attempt)

-----------------------------------------------------------------------------
(* run_until_stopped: the loop around one SSH attempt.                     *)

\* The head of the loop: leave when cancelled, else announce the attempt.
BeginAttempt ==
  /\ pc = "loop"
  /\ \/ /\ cancelled
        /\ pc' = "closing"
        /\ UNCHANGED published
     \/ /\ ~cancelled
        /\ pc' = "connecting"
        /\ published' = "Connecting"
  /\ UNCHANGED <<retryVars, owner, chain, clients, connections,
                 workerVars, managerVars>>

\* The connector returns a chain.
ConnectSucceeds ==
  /\ At("connecting", "pinging")
  /\ ~cancelled
  /\ chain' = "Open"
  /\ UNCHANGED <<published, retryVars, owner, clients, connections,
                 workerVars, managerVars>>

\* The connector returns an error, classified by chain_retryability.
ConnectFails ==
  /\ At("connecting", "failed")
  /\ ~cancelled
  /\ verdict' \in {"Transient", "Blocked"}
  /\ counted' = FALSE
  /\ failures' = Saturating(failures)
  /\ UNCHANGED <<published, attempt, owner, chain, clients, connections,
                 workerVars, managerVars>>

\* The initial ping_all succeeds; a cancelled session's ping fails instead.
InitialPingSucceeds ==
  /\ At("pinging", "pinged")
  /\ ~cancelled /\ chain = "Open"
  /\ UNCHANGED <<published, retryVars, owner, chain, clients, connections,
                 workerVars, managerVars>>

\* Mutant of InitialPingFails: the chain is kept.
InitialPingFailsMutant ==
  /\ At("pinging", "failed")
  /\ verdict' = "Transient"
  /\ counted' = FALSE
  /\ failures' = Saturating(failures)
  /\ UNCHANGED <<published, attempt, owner, chain, clients, connections,
                 workerVars, managerVars>>

\* The initial ping fails: the chain is disconnected before after_failure.
InitialPingFails ==
  /\ At("pinging", "failed")
  /\ chain' = "None"
  /\ verdict' = "Transient"
  /\ counted' = FALSE
  /\ failures' = Saturating(failures)
  /\ UNCHANGED <<published, attempt, owner, clients, connections,
                 workerVars, managerVars>>

\* The listener and the chain move into a new worker.  There is no await and
\* no check of the token between the ping and this point.
StartWorker ==
  /\ At("pinged", "working")
  /\ owner' = "Worker"
  /\ published' = "Healthy"
  /\ age' = "Young"
  /\ ping_failures' = 0
  /\ pinging' = FALSE
  /\ reported' = "None"
  /\ UNCHANGED <<retryVars, chain, clients, connections, managerVars>>

\* The select loop's other branch: pass the worker's health on.
RelayHealth ==
  /\ pc = "working"
  /\ reported # "None"
  /\ published' = reported
  /\ reported' = "None"
  /\ UNCHANGED <<pc, retryVars, owner, chain, age, ping_failures, pinging,
                 clients, connections, managerVars>>

\* release_listener cancels the session's token, joins the connection tasks
\* and aborts and joins those that miss the deadline.
JoinConnections ==
  /\ At("releasing", "disconnecting")
  /\ connections' = 0
  /\ UNCHANGED <<published, retryVars, owner, chain, clients,
                 workerVars, managerVars>>

\* ... then it disconnects the chain and hands the listener back.
Disconnect ==
  /\ At("disconnecting", "released")
  /\ chain' = "None"
  /\ owner' = "Supervisor"
  /\ UNCHANGED <<published, retryVars, clients, connections,
                 workerVars, managerVars>>

\* After the worker: should_reset decides what becomes of the retry counter.
AfterWorker ==
  /\ pc = "released"
  /\ \/ /\ cancelled
        /\ pc' = "closing"
        /\ UNCHANGED retryVars
     \/ /\ ~cancelled
        /\ pc' = "failed"
        /\ verdict' = "Transient"
        /\ attempt' = IF age = "Old" THEN 1 ELSE NextAttempt
        /\ counted' = TRUE
        /\ failures' = IF age = "Old" THEN 0 ELSE Saturating(failures)
  /\ UNCHANGED <<published, owner, chain, clients, connections, workerVars, managerVars>>

-----------------------------------------------------------------------------
(* after_failure and while_unhealthy.                                      *)

\* Mutant of PublishFailure: a session that was lost is called Blocked too.
PublishFailureMutant ==
  /\ At("failed", "parking")
  /\ published' = IF verdict = "Blocked" \/ counted THEN "Blocked" ELSE "Reconnecting"
  /\ UNCHANGED <<retryVars, owner, chain, clients, connections,
                 workerVars, managerVars>>

\* Publish the outcome.  The hint is only polled by the next step.
PublishFailure ==
  /\ At("failed", "parking")
  /\ published' = IF verdict = "Blocked" THEN "Blocked" ELSE "Reconnecting"
  /\ UNCHANGED <<retryVars, owner, chain, clients, connections,
                 workerVars, managerVars>>

\* The first poll of the wait takes a stored permit.
Park ==
  /\ pc = "parking"
  /\ pc' = IF verdict = "Blocked" THEN "blocked" ELSE "backoff"
  /\ woken' = permit
  /\ permit' = {}
  /\ UNCHANGED <<published, retryVars, owner, chain, clients, connections,
                 workerVars, cancelled, hint>>

\* Mutant of Resume: every path increments the counter.
ResumeMutant == pc' = "loop" /\ attempt' = NextAttempt

\* The attempt counter after a wait: the two failure paths of the loop body
\* increment it, the path after a worker has already done so.
Resume == pc' = "loop" /\ attempt' = IF counted THEN attempt ELSE NextAttempt

\* The wait is dropped: a wake-up it has not seen becomes a permit again.
ForwardWakeUp == permit' = permit \cup woken /\ woken' = {}

\* sleep(delay) is over; the select may prefer it to a wake-up.
BackoffElapses ==
  /\ pc = "backoff"
  /\ ~cancelled
  /\ Resume
  /\ ForwardWakeUp
  /\ UNCHANGED <<published, verdict, counted, failures, owner, chain, clients, connections,
                 workerVars, cancelled, hint>>

\* notified() is ready.
TakeHint ==
  /\ pc \in {"backoff", "blocked"}
  /\ ~cancelled
  /\ woken # {}
  /\ woken' = {}
  /\ Resume
  /\ UNCHANGED <<published, verdict, counted, failures, owner, chain, clients, connections,
                 workerVars, cancelled, hint, permit>>

Waiting == pc \in {"connecting", "backoff", "blocked"}

\* Mutant of LeaveWait: a blocked tunnel does not watch its token.
LeaveWaitMutant ==
  /\ pc \in {"connecting", "backoff"} /\ cancelled
  /\ pc' = "closing"
  /\ ForwardWakeUp
  /\ UNCHANGED <<published, retryVars, owner, chain, clients, connections,
                 workerVars, cancelled, hint>>

\* The token comes first in while_unhealthy's biased select; the connector's
\* future is dropped.
LeaveWait ==
  /\ Waiting /\ cancelled
  /\ pc' = "closing"
  /\ ForwardWakeUp
  /\ UNCHANGED <<published, retryVars, owner, chain, clients, connections,
                 workerVars, cancelled, hint>>

\* A client arrives while there is no session: a SOCKS client is given a task
\* that answers it; a raw client is closed at once.
RejectClient ==
  /\ Waiting /\ ~cancelled /\ Dynamic
  /\ clients < MaxClients
  /\ clients' = clients + 1
  /\ UNCHANGED <<pc, published, retryVars, owner, chain, connections,
                 workerVars, managerVars>>

\* A client task has ended and is joined (only while_unhealthy joins them).
ReapClient ==
  /\ Waiting /\ clients > 0
  /\ clients' = clients - 1
  /\ UNCHANGED <<pc, published, retryVars, owner, chain, connections,
                 workerVars, managerVars>>

\* accept fails: SupervisorError::Accept ends the tunnel.
AcceptFails ==
  /\ Waiting /\ ~cancelled
  /\ clients < MaxClients
  /\ pc' = "closing"
  /\ ForwardWakeUp
  /\ UNCHANGED <<published, retryVars, owner, chain, clients, connections,
                 workerVars, cancelled, hint>>

-----------------------------------------------------------------------------
(* run: what follows the loop.                                             *)

\* cancellation.cancel(), which also ends the client tasks.
CancelSelf ==
  /\ At("closing", "stopping")
  /\ cancelled' = TRUE
  /\ UNCHANGED <<published, retryVars, owner, chain, clients, connections,
                 workerVars, hint, hintVars>>

\* Mutant of StopListener: the client tasks are not waited for.
StopListenerMutant ==
  /\ At("stopping", "stopped")
  /\ owner' = "None"
  /\ UNCHANGED <<published, retryVars, chain, clients, connections, workerVars, managerVars>>

\* shutdown_unhealthy_clients joins or aborts them; then listener.stop().
StopListener ==
  /\ At("stopping", "stopped")
  /\ clients' = 0
  /\ owner' = "None"
  /\ UNCHANGED <<published, retryVars, chain, connections, workerVars, managerVars>>

PublishStopped ==
  /\ At("stopped", "done")
  /\ published' = "Stopped"
  /\ UNCHANGED <<retryVars, owner, chain, clients, connections,
                 workerVars, managerVars>>

-----------------------------------------------------------------------------
(* The worker: LocalForwardWorker::run, polled by the supervisor's select. *)

AtSelect == pc = "working" /\ ~pinging

\* The token, or session_tick finding the chain closed, or accept failing.
WorkerReturns ==
  /\ AtSelect
  /\ pc' = "releasing"
  /\ UNCHANGED <<published, retryVars, owner, chain, clients, connections,
                 workerVars, managerVars>>

SeeCancelled == cancelled /\ WorkerReturns

\* Mutant of SessionTick: a session with open connections is not looked at.
SessionTickMutant == ~cancelled /\ chain = "Dead" /\ connections = 0 /\ WorkerReturns

SessionTick == ~cancelled /\ chain = "Dead" /\ WorkerReturns

WorkerAcceptFails == ~cancelled /\ connections < MaxConnections /\ WorkerReturns

HealthTick ==
  /\ AtSelect /\ ~cancelled
  /\ pinging' = TRUE
  /\ UNCHANGED <<pc, published, retryVars, owner, chain, clients, connections,
                 age, ping_failures, reported, managerVars>>

PingSucceeds ==
  /\ pc = "working" /\ pinging
  /\ ~cancelled /\ chain = "Open"
  /\ pinging' = FALSE
  /\ ping_failures' = 0
  /\ reported' = "Healthy"
  /\ UNCHANGED <<pc, published, retryVars, owner, chain, clients, connections,
                 age, managerVars>>

\* A ping times out, or finds the session closed or cancelled; the third
\* failure in a row ends the session.
PingFails ==
  /\ pc = "working" /\ pinging
  /\ pinging' = FALSE
  /\ \/ /\ ping_failures + 1 >= PingLimit
        /\ pc' = "releasing"
        /\ UNCHANGED <<ping_failures, reported>>
     \/ /\ ping_failures + 1 < PingLimit
        /\ ping_failures' = ping_failures + 1
        /\ reported' = "Degraded"
        /\ UNCHANGED pc
  /\ UNCHANGED <<published, retryVars, owner, chain, clients, connections,
                 age, managerVars>>

AcceptConnection ==
  /\ AtSelect /\ ~cancelled
  /\ connections < MaxConnections
  /\ connections' = connections + 1
  /\ UNCHANGED <<pc, published, retryVars, owner, chain, clients,
                 workerVars, managerVars>>

ReapConnection ==
  /\ AtSelect /\ ~cancelled
  /\ connections > 0
  /\ connections' = connections - 1
  /\ UNCHANGED <<pc, published, retryVars, owner, chain, clients,
                 workerVars, managerVars>>

-----------------------------------------------------------------------------
(* The environment.                                                        *)

\* The server, or the network, ends the SSH session.
SessionDies ==
  /\ chain = "Open"
  /\ chain' = "Dead"
  /\ UNCHANGED <<pc, published, retryVars, owner, clients, connections,
                 workerVars, managerVars>>

\* stable_after has passed since the worker was created.  The clock runs on
\* while the session is Degraded and while it is released: elapsed() is read
\* when release_listener has returned.
SessionAges ==
  /\ pc \in {"working", "releasing", "disconnecting", "released"} /\ age = "Young"
  /\ age' = "Old"
  /\ UNCHANGED <<pc, published, retryVars, owner, chain, clients, connections,
                 ping_failures, pinging, reported, managerVars>>

Alive == pc \notin {"done", "aborted"}

\* RetryTunnel and NetworkRecovered look at the published state ...
ReadForRetry(source) ==
  /\ Alive /\ ~cancelled /\ hint = "none"
  /\ published \in IF source = "user" THEN {"Blocked", "Reconnecting"} ELSE {"Reconnecting"}
  /\ hint' = source
  /\ UNCHANGED <<pc, published, retryVars, owner, chain, clients, connections,
                 workerVars, cancelled, hintVars>>

Parked == pc \in {"backoff", "blocked"} /\ woken = {}

\* Mutant of NotifyOne: only a wait that is already parked is woken
\* (notify_waiters stores no permit).
NotifyOneMutant ==
  /\ hint # "none"
  /\ woken' = IF Parked THEN {hint} ELSE woken
  /\ hint' = "none"
  /\ UNCHANGED <<pc, published, retryVars, owner, chain, clients, connections,
                 workerVars, cancelled, permit>>

\* ... and notify_one wakes the wait, or leaves one permit for the next.
NotifyOne ==
  /\ hint # "none"
  /\ IF Parked
     THEN woken' = {hint} /\ UNCHANGED permit
     ELSE permit' = permit \cup {hint} /\ UNCHANGED woken
  /\ hint' = "none"
  /\ UNCHANGED <<pc, published, retryVars, owner, chain, clients, connections,
                 workerVars, cancelled>>

\* TunnelManager::stop cancels the token (the manager does one thing at a time).
Cancel ==
  /\ Alive /\ ~cancelled /\ hint = "none"
  /\ cancelled' = TRUE
  /\ UNCHANGED <<pc, published, retryVars, owner, chain, clients, connections,
                 workerVars, hint, hintVars>>

\* Its deadline passes: the task is aborted and joined.  What the future owns
\* is dropped with it; tasks in its join sets are aborted but not joined.
Abort ==
  /\ Alive /\ cancelled /\ hint = "none"
  /\ pc' = "aborted"
  /\ owner' = "None"
  /\ chain' = "None"
  /\ UNCHANGED <<published, retryVars, clients, connections, workerVars, managerVars>>

\* The runtime drops the aborted tasks.
OrphanEnds ==
  /\ pc = "aborted"
  /\ \/ clients > 0 /\ clients' = clients - 1 /\ UNCHANGED connections
     \/ connections > 0 /\ connections' = connections - 1 /\ UNCHANGED clients
  /\ UNCHANGED <<pc, published, retryVars, owner, chain, workerVars, managerVars>>

-----------------------------------------------------------------------------

SupervisorStep ==
  \/ BeginAttempt \/ ConnectSucceeds \/ ConnectFails
  \/ InitialPingSucceeds \/ InitialPingFails \/ StartWorker
  \/ RelayHealth \/ JoinConnections \/ Disconnect \/ AfterWorker
  \/ PublishFailure \/ Park \/ BackoffElapses \/ TakeHint
  \/ LeaveWait \/ RejectClient \/ ReapClient \/ AcceptFails
  \/ CancelSelf \/ StopListener \/ PublishStopped

WorkerStep ==
  \/ SeeCancelled \/ SessionTick \/ WorkerAcceptFails
  \/ HealthTick \/ PingSucceeds \/ PingFails
  \/ AcceptConnection \/ ReapConnection

EnvironmentStep == SessionDies \/ SessionAges \/ OrphanEnds

ManagerStep ==
  \/ \E source \in {"user", "network"} : ReadForRetry(source)
  \/ NotifyOne \/ Cancel \/ Abort

Next == SupervisorStep \/ WorkerStep \/ EnvironmentStep \/ ManagerStep

Spec == Init /\ [][Next]_vars

(***************************************************************************)
(* Fairness.  Every wait of the supervisor ends: connecting and pinging    *)
(* have timeouts, the joins have deadlines after which they abort, sleep   *)
(* ends, and every select is either biased towards these events or picks   *)
(* at random, so serving clients cannot starve them.  The manager gives    *)
(* the hint it decided to give, and the runtime drops aborted tasks.       *)
(* Nothing is assumed of the user, the network and the clients.            *)
(***************************************************************************)
Progress ==
  \/ BeginAttempt \/ ConnectSucceeds \/ ConnectFails
  \/ InitialPingSucceeds \/ InitialPingFails \/ StartWorker
  \/ JoinConnections \/ Disconnect \/ AfterWorker
  \/ PublishFailure \/ Park \/ BackoffElapses \/ TakeHint \/ LeaveWait
  \/ CancelSelf \/ StopListener \/ PublishStopped

Fairness ==
  /\ WF_vars(Progress)
  /\ WF_vars(SeeCancelled \/ SessionTick)
  /\ WF_vars(PingSucceeds \/ PingFails)
  /\ WF_vars(RelayHealth)
  /\ WF_vars(NotifyOne)
  /\ WF_vars(OrphanEnds)

FairSpec == Spec /\ Fairness

-----------------------------------------------------------------------------
(* Safety.                                                                 *)

(***************************************************************************)
(* Ownership follows the program: the listener is with the worker exactly  *)
(* while there is one, with the supervisor otherwise, and is given up only *)
(* at the very end (supervisor.rs:75-76, "The local listener stays bound   *)
(* across every SSH attempt"); an SSH chain exists only between a          *)
(* successful connect and the end of its session, so no attempt leaks one  *)
(* to the next; connections exist only under a worker.                     *)
(***************************************************************************)
OwnershipFollowsProgram ==
  /\ owner = CASE pc \in {"working", "releasing", "disconnecting"} -> "Worker"
               [] pc \in {"stopped", "done", "aborted"}            -> "None"
               [] OTHER                                            -> "Supervisor"
  /\ (chain # "None") <=> pc \in {"pinging", "pinged", "working", "releasing", "disconnecting"}
  /\ connections > 0 => pc \in {"working", "releasing", "aborted"}

(***************************************************************************)
(* Stopped is the last word: once it is published the port is free, no     *)
(* session is left and every client has been dismissed.  Invariant 1 of    *)
(* TunnelWarden_SPEC.md:1986-1993.                                         *)
(***************************************************************************)
StoppedOwnsNothing ==
  published = "Stopped" =>
    owner = "None" /\ chain = "None" /\ clients = 0 /\ connections = 0

(***************************************************************************)
(* What is published agrees with the session (the conditions of Healthy,   *)
(* TunnelWarden_SPEC.md:1509-1517).  Healthy and Degraded mean that a      *)
(* worker has a session, be it one it is just tearing down.  There are two *)
(* exceptions: the moment between the end of the teardown and the          *)
(* publication of the loss, and the way out of a tunnel that was stopped,  *)
(* which shows them until Stopped.  While the worker runs they say how the *)
(* last ping went, unless its outcome is waiting to be passed on.  A       *)
(* worker's session is never shown as anything else, and Reconnecting and  *)
(* Blocked mean that there is none.                                        *)
(***************************************************************************)
StatusFollowsSession ==
  /\ published \in {"Healthy", "Degraded"} =>
       \/ owner = "Worker" /\ chain # "None"
       \/ pc = "released" \/ (pc = "failed" /\ counted)
       \/ cancelled /\ pc \in {"closing", "stopping", "stopped", "aborted"}
  /\ pc = "working" =>
       (IF reported = "None" THEN published ELSE reported)
         = IF ping_failures = 0 THEN "Healthy" ELSE "Degraded"
  /\ owner = "Worker" => published \in {"Healthy", "Degraded"}
  /\ published \in {"Reconnecting", "Blocked"} => chain = "None"

(***************************************************************************)
(* The published status says where the supervisor is: the statement behind *)
(* StatusFollowsSession that is inductive.                                 *)
(***************************************************************************)
StatusFollowsProgram ==
  /\ pc \in {"connecting", "pinging", "pinged"} => published = "Connecting"
  /\ pc \in {"working", "releasing", "disconnecting", "released"} =>
       published \in {"Healthy", "Degraded"}
  /\ pc = "working" =>
       (IF reported = "None" THEN published ELSE reported)
         = IF ping_failures = 0 THEN "Healthy" ELSE "Degraded"
  /\ pc = "failed" =>
       IF counted THEN published \in {"Healthy", "Degraded"} /\ verdict = "Transient"
                  ELSE published = "Connecting"
  /\ pc = "parking" => published = IF verdict = "Blocked" THEN "Blocked" ELSE "Reconnecting"
  /\ pc = "backoff" => published = "Reconnecting"
  /\ pc = "blocked" => published = "Blocked"
  /\ pc = "loop" => published \in {"Connecting", "Reconnecting", "Blocked"}
  /\ published = "Stopped" <=> pc = "done"
  /\ /\ pc \in {"closing", "stopping", "stopped", "aborted"}
     /\ published \in {"Healthy", "Degraded"}
     => cancelled
  /\ pc \in {"stopped", "done"} => clients = 0

\* The waits of after_failure, and the moments before them.
AfterFailure == pc \in {"failed", "parking", "backoff", "blocked"}

(***************************************************************************)
(* The retry counter counts every failed attempt and every lost session    *)
(* once, though the three paths of the loop increment it in two places,    *)
(* two after the wait and one before it; and it starts over only after a   *)
(* session that lasted.  So the delay before attempt n + 1 is the one of   *)
(* n failures in a row, except that after a lost session the wait is       *)
(* already one step longer.  A session lasts from the creation of its      *)
(* worker to the end of its release, Degraded or not;                      *)
(* TunnelWarden_SPEC.md:1464-1478 asks for 60 s of Healthy.                *)
(***************************************************************************)
BackoffCountsFailures ==
  /\ AfterFailure /\ ~counted => attempt = failures
  /\ \/ AfterFailure /\ counted
     \/ pc \in {"loop", "connecting", "pinging", "pinged", "working",
                "releasing", "disconnecting", "released"}
     => attempt = Saturating(failures)

-----------------------------------------------------------------------------
(* Liveness.                                                               *)

(***************************************************************************)
(* Stop always gets through, wherever it finds the supervisor: the task    *)
(* ends or is aborted, the port is free and no task of the tunnel is left. *)
(***************************************************************************)
StopReleasesEverything ==
  cancelled ~> (owner = "None" /\ chain = "None" /\ clients = 0 /\ connections = 0)

\* A Blocked tunnel hears the user's Retry, even one given after Blocked is
\* published and before the supervisor waits for it (unless it is aborted).
RetryIsHeard ==
  (hint = "user" /\ published = "Blocked") ~> (published # "Blocked" \/ pc = "aborted")

\* A lost session leads to a new attempt, unless the tunnel is stopped: the
\* worker notices it, gives the listener back and the backoff ends.
LostSessionIsReplaced ==
  (pc = "working" /\ chain = "Dead") ~> (published \in {"Connecting", "Stopped"} \/ pc = "aborted")

-----------------------------------------------------------------------------
(* Refinement.                                                             *)

Contract == INSTANCE TunnelContract WITH port <- owner # "None", status <- published

\* The supervisor keeps the promise of TunnelContract to whoever watches it.
ImplementsContract == Contract!Spec
=============================================================================
