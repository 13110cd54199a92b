--------------------------- MODULE RemoteForward ---------------------------
(***************************************************************************)
(* A Remote tunnel: the supervisor                                         *)
(* (crates/tunnel-core/src/remote_supervisor.rs), the worker it creates    *)
(* for each SSH session (remote_forward.rs), the session's requests to     *)
(* register and cancel a port on the server and the handler of the         *)
(* channels the server opens (ssh-engine/src/client.rs, host_key.rs).      *)
(*                                                                         *)
(* What makes it harder than a Local tunnel is that the port belongs to    *)
(* the server: a registration ends when the server is asked to cancel it   *)
(* or notices that the session is gone, which a client that has lost the   *)
(* network cannot bring about.  The tunnel's port is a fixed one (a        *)
(* binding to port 0 is given a new port each time).                       *)
(*                                                                         *)
(* Time is abstract: every request may time out.  Stop is not looked at    *)
(* while the initial ping and the registration are awaited, so the         *)
(* manager's deadline may pass there.                                      *)
(***************************************************************************)
EXTENDS Naturals

CONSTANTS
  MaxAttempt,      \* u32::MAX in the code: where saturating_add stays
  MaxQueued,       \* MAX_FORWARDED_CHANNELS, 64 in the code
  MaxConnections   \* MAX_ACTIVE_CONNECTIONS, 64 in the code

ASSUME MaxAttemptAssumption     == MaxAttempt \in Nat \ {0}
ASSUME MaxQueuedAssumption      == MaxQueued \in Nat
ASSUME MaxConnectionsAssumption == MaxConnections \in Nat

VARIABLES
  pc,            \* where the supervisor task is
  published,     \* the watch value: latest SupervisorState (its variant)
  attempt,       \* run's retry counter
  verdict,       \* after_failure's argument: "Transient" or "Blocked"
  counted,       \* attempt already counts the failure being waited out
  chain,         \* the SshChain of this attempt
  held,          \* who holds the port on the server
  enabled,       \* the session's remote_enabled is not 0
  accepting,     \* the handler is inside reply.accept, with a place in the queue
  queue,         \* accepted channels that the worker has not taken yet
  connections,   \* tasks in the worker's connections
  age,           \* whether the session has been healthy for stable_after
  ping_failures, \* the worker's consecutive failed pings
  pinging,       \* the worker is inside ping_all
  reported,      \* the worker's health value the supervisor has not seen yet
  cancelled,     \* the tunnel's CancellationToken
  permit         \* a retry hint that no wait has taken yet

retryVars  == <<attempt, verdict, counted>>
healthVars == <<age, ping_failures, pinging, reported>>
serverVars == <<chain, held, enabled, accepting, queue>>

vars == <<pc, published, retryVars, serverVars, connections, healthVars, cancelled, permit>>

Places == {"loop", "connecting", "pinging", "registering", "registered", "working",
           "stopping", "cancelling", "joining", "disconnecting", "released",
           "failed", "backoff", "blocked", "closing", "done", "aborted"}

States == {"Connecting", "Reconnecting", "Healthy", "Degraded", "Blocked", "Stopped"}

PingLimit == 3

TypeOK ==
  /\ pc \in Places
  /\ published \in States
  /\ attempt \in 1..MaxAttempt
  /\ verdict \in {"Transient", "Blocked"}
  /\ counted \in BOOLEAN
  /\ chain \in {"None", "Open", "Dead"}
  /\ held \in {"free", "ours", "stale", "foreign"}
  /\ enabled \in BOOLEAN
  /\ accepting \in BOOLEAN
  /\ queue \in 0..MaxQueued
  /\ connections \in 0..MaxConnections
  /\ age \in {"Young", "Old"}
  /\ ping_failures \in 0..(PingLimit - 1)
  /\ pinging \in BOOLEAN
  /\ reported \in {"None", "Healthy", "Degraded"}
  /\ cancelled \in BOOLEAN
  /\ permit \in BOOLEAN

\* RemoteForwardSupervisor::new.
Init ==
  /\ pc = "loop"
  /\ published = "Connecting"
  /\ attempt = 1
  /\ verdict = "Transient"
  /\ counted = FALSE
  /\ chain = "None"
  /\ held \in {"free", "foreign"}
  /\ enabled = FALSE
  /\ accepting = FALSE
  /\ queue = 0
  /\ connections = 0
  /\ age = "Young"
  /\ ping_failures = 0
  /\ pinging = FALSE
  /\ reported = "None"
  /\ cancelled = FALSE
  /\ permit = FALSE

At(from, to) == pc = from /\ pc' = to

\* saturating_add(1)
NextAttempt == IF attempt = MaxAttempt THEN attempt ELSE attempt + 1

\* The chain and its session go: the handler goes with the session's task,
\* channels nobody took are dropped, and the server frees the port if it
\* hears of it.
EndChain ==
  /\ chain' = "None"
  /\ held' = IF held # "ours" THEN held ELSE IF chain = "Open" THEN "free" ELSE "stale"
  /\ enabled' = FALSE
  /\ accepting' = FALSE
  /\ queue' = 0

-----------------------------------------------------------------------------
(* run: one attempt.                                                       *)

BeginAttempt ==
  /\ pc = "loop"
  /\ \/ cancelled /\ pc' = "closing" /\ UNCHANGED published
     \/ ~cancelled /\ pc' = "connecting" /\ published' = "Connecting"
  /\ UNCHANGED <<retryVars, serverVars, connections, healthVars, cancelled, permit>>

ConnectSucceeds ==
  /\ At("connecting", "pinging")
  /\ ~cancelled
  /\ chain' = "Open"
  /\ UNCHANGED <<published, retryVars, held, enabled, accepting, queue, connections, healthVars, cancelled, permit>>

\* An error of the connector, classified by chain_retryability.
ConnectFails ==
  /\ At("connecting", "failed")
  /\ ~cancelled
  /\ verdict' \in {"Transient", "Blocked"}
  /\ counted' = FALSE
  /\ UNCHANGED <<published, attempt, serverVars, connections, healthVars, cancelled, permit>>

\* Only this part of an attempt watches Stop.
LeaveConnect ==
  /\ At("connecting", "closing")
  /\ cancelled
  /\ UNCHANGED <<published, retryVars, serverVars, connections, healthVars, cancelled, permit>>

InitialPingSucceeds ==
  /\ At("pinging", "registering")
  /\ chain = "Open"
  /\ UNCHANGED <<published, retryVars, serverVars, connections, healthVars, cancelled, permit>>

InitialPingFails ==
  /\ At("pinging", "failed")
  /\ verdict' = "Transient"
  /\ counted' = FALSE
  /\ EndChain
  /\ UNCHANGED <<published, attempt, connections, healthVars, cancelled, permit>>

-----------------------------------------------------------------------------
(* start_chain: request_remote_forward.                                    *)

\* The server binds the port; its answer is on the way.
ServerRegisters ==
  /\ pc = "registering" /\ chain = "Open"
  /\ held = "free"
  /\ held' = "ours"
  /\ UNCHANGED <<pc, published, retryVars, chain, enabled, accepting, queue, connections, healthVars, cancelled, permit>>

\* Mutant of RegisterSucceeds: the server's answer is not awaited.
RegisterSucceedsMutant ==
  /\ At("registering", "registered")
  /\ chain = "Open"
  /\ enabled' = TRUE
  /\ UNCHANGED <<published, retryVars, chain, held, accepting, queue, connections, healthVars, cancelled, permit>>

\* The answer arrives: from here on the handler accepts channels.
RegisterSucceeds ==
  /\ At("registering", "registered")
  /\ chain = "Open" /\ held = "ours"
  /\ enabled' = TRUE
  /\ UNCHANGED <<published, retryVars, chain, held, accepting, queue, connections, healthVars, cancelled, permit>>

\* The session is disconnected before the error is returned.
GiveUpRegistration(retryability) ==
  /\ At("registering", "failed")
  /\ verdict' = retryability
  /\ counted' = FALSE
  /\ EndChain
  /\ UNCHANGED <<published, attempt, connections, healthVars, cancelled, permit>>

\* RequestDenied, for whatever reason the server has, or a target or address
\* that is not valid: Blocked.
RegisterDenied == held # "ours" /\ GiveUpRegistration("Blocked")

\* A timeout, before or after the server has bound the port, or a dead session.
RegisterTimesOut == GiveUpRegistration("Transient")

Announce ==
  /\ At("registered", "working")
  /\ published' = "Healthy"
  /\ age' = "Young"
  /\ ping_failures' = 0
  /\ pinging' = FALSE
  /\ reported' = "None"
  /\ UNCHANGED <<retryVars, serverVars, connections, cancelled, permit>>

-----------------------------------------------------------------------------
(* The supervisor's select around the worker, and the worker's own.        *)

\* Mutant of SeeCancelled: the session is closed without cancelling the forward.
SeeCancelledMutant ==
  /\ At("working", "disconnecting")
  /\ cancelled
  /\ connections' = 0
  /\ UNCHANGED <<published, retryVars, serverVars, healthVars, cancelled, permit>>

\* Stop: the worker's future is dropped, wherever it is.
SeeCancelled ==
  /\ At("working", "stopping")
  /\ cancelled
  /\ UNCHANGED <<published, retryVars, serverVars, connections, healthVars, cancelled, permit>>

RelayHealth ==
  /\ pc = "working" /\ ~cancelled
  /\ reported # "None"
  /\ published' = reported
  /\ reported' = "None"
  /\ UNCHANGED <<pc, retryVars, serverVars, connections, age, ping_failures, pinging, cancelled, permit>>

AtSelect == pc = "working" /\ ~pinging /\ ~cancelled

\* Mutant of SessionTick: a session with open connections is not looked at.
SessionTickMutant ==
  /\ AtSelect /\ chain = "Dead" /\ connections = 0
  /\ pc' = "stopping"
  /\ UNCHANGED <<published, retryVars, serverVars, connections, healthVars, cancelled, permit>>

\* session_tick finds the chain closed, or the channels have ended.
SessionTick ==
  /\ AtSelect /\ chain = "Dead"
  /\ pc' = "stopping"
  /\ UNCHANGED <<published, retryVars, serverVars, connections, healthVars, cancelled, permit>>

HealthTick ==
  /\ AtSelect
  /\ pinging' = TRUE
  /\ UNCHANGED <<pc, published, retryVars, serverVars, connections, age, ping_failures, reported,
                 cancelled, permit>>

PingSucceeds ==
  /\ pc = "working" /\ pinging /\ ~cancelled
  /\ chain = "Open"
  /\ pinging' = FALSE
  /\ ping_failures' = 0
  /\ reported' = "Healthy"
  /\ UNCHANGED <<pc, published, retryVars, serverVars, connections, age, cancelled, permit>>

PingFails ==
  /\ pc = "working" /\ pinging /\ ~cancelled
  /\ pinging' = FALSE
  /\ \/ /\ ping_failures + 1 >= PingLimit
        /\ pc' = "stopping"
        /\ UNCHANGED <<ping_failures, reported>>
     \/ /\ ping_failures + 1 < PingLimit
        /\ ping_failures' = ping_failures + 1
        /\ reported' = "Degraded"
        /\ UNCHANGED pc
  /\ UNCHANGED <<published, retryVars, serverVars, connections, age, cancelled, permit>>

\* A channel is taken and a task connects it to the local target.
TakeChannel ==
  /\ AtSelect
  /\ queue > 0 /\ connections < MaxConnections
  /\ queue' = queue - 1
  /\ connections' = connections + 1
  /\ UNCHANGED <<pc, published, retryVars, chain, held, enabled, accepting, healthVars, cancelled, permit>>

ReapConnection ==
  /\ AtSelect
  /\ connections > 0
  /\ connections' = connections - 1
  /\ UNCHANGED <<pc, published, retryVars, serverVars, healthVars, cancelled, permit>>

-----------------------------------------------------------------------------
(* The worker's stop.                                                      *)

\* cancel_remote_forward first disables the handler ...
BeginCancel ==
  /\ At("stopping", "cancelling")
  /\ enabled' = FALSE
  /\ UNCHANGED <<published, retryVars, chain, held, accepting, queue, connections, healthVars, cancelled, permit>>

\* ... then asks the server, which does it or not in time ...
FinishCancel ==
  /\ At("cancelling", "joining")
  /\ held' \in {held} \cup IF chain = "Open" THEN {"free"} ELSE {}
  /\ UNCHANGED <<published, retryVars, chain, enabled, accepting, queue, connections, healthVars, cancelled, permit>>

\* ... the connection tasks are joined or, after a deadline, aborted ...
JoinConnections ==
  /\ At("joining", "disconnecting")
  /\ connections' = 0
  /\ UNCHANGED <<published, retryVars, serverVars, healthVars, cancelled, permit>>

\* ... and the chain is disconnected.
Disconnect ==
  /\ At("disconnecting", "released")
  /\ EndChain
  /\ UNCHANGED <<published, retryVars, connections, healthVars, cancelled, permit>>

\* Mutant of AfterWorker: the loop goes on without after_failure.
AfterWorkerMutant ==
  /\ pc = "released"
  /\ \/ cancelled /\ pc' = "closing" /\ UNCHANGED retryVars
     \/ /\ ~cancelled
        /\ pc' = "loop"
        /\ attempt' = IF age = "Old" THEN 1 ELSE NextAttempt
        /\ UNCHANGED <<verdict, counted>>
  /\ UNCHANGED <<published, serverVars, connections, healthVars, cancelled, permit>>

\* should_reset decides what becomes of the retry counter.
AfterWorker ==
  /\ pc = "released"
  /\ \/ cancelled /\ pc' = "closing" /\ UNCHANGED retryVars
     \/ /\ ~cancelled
        /\ pc' = "failed"
        /\ verdict' = "Transient"
        /\ attempt' = IF age = "Old" THEN 1 ELSE NextAttempt
        /\ counted' = TRUE
  /\ UNCHANGED <<published, serverVars, connections, healthVars, cancelled, permit>>

-----------------------------------------------------------------------------
(* after_failure, and the end of run.                                      *)

PublishFailure ==
  /\ pc = "failed"
  /\ pc' = IF verdict = "Blocked" THEN "blocked" ELSE "backoff"
  /\ published' = IF verdict = "Blocked" THEN "Blocked" ELSE "Reconnecting"
  /\ UNCHANGED <<retryVars, serverVars, connections, healthVars, cancelled, permit>>

\* The paths without a worker count the failure after the wait.
Resume ==
  /\ pc' = "loop"
  /\ attempt' = IF counted THEN attempt ELSE NextAttempt
  /\ UNCHANGED <<published, verdict, counted, serverVars, connections, healthVars, cancelled>>

BackoffElapses == pc = "backoff" /\ ~cancelled /\ Resume /\ UNCHANGED permit

\* Mutant of LeaveWait: a blocked tunnel does not watch its token.
LeaveWaitMutant ==
  /\ pc = "backoff" /\ cancelled
  /\ pc' = "closing"
  /\ UNCHANGED <<published, retryVars, serverVars, connections, healthVars, cancelled, permit>>

TakeHint ==
  /\ pc \in {"backoff", "blocked"} /\ ~cancelled
  /\ permit /\ permit' = FALSE
  /\ Resume

LeaveWait ==
  /\ pc \in {"backoff", "blocked"} /\ cancelled
  /\ pc' = "closing"
  /\ UNCHANGED <<published, retryVars, serverVars, connections, healthVars, cancelled, permit>>

PublishStopped ==
  /\ At("closing", "done")
  /\ published' = "Stopped"
  /\ UNCHANGED <<retryVars, serverVars, connections, healthVars, cancelled, permit>>
-----------------------------------------------------------------------------
(* The server, the network, the manager.                                   *)

\* The server opens a channel for somebody who connected to its port.  The
\* handler, which serves one request at a time, looks at enabled and takes a
\* place in the queue ...
ChannelOpens ==
  /\ chain = "Open" /\ held = "ours"
  /\ ~accepting /\ enabled /\ queue < MaxQueued
  /\ accepting' = TRUE
  /\ UNCHANGED <<pc, published, retryVars, chain, held, enabled, queue, connections, healthVars, cancelled, permit>>

\* ... and queues the channel once the server has been told, whatever has
\* become of enabled meanwhile.
ChannelAccepted ==
  /\ accepting
  /\ accepting' = FALSE
  /\ queue' = queue + 1
  /\ UNCHANGED <<pc, published, retryVars, chain, held, enabled, connections, healthVars, cancelled, permit>>

\* The session ends: the server closed it, and freed the port, or the network
\* is lost, and the server does not know.
SessionDies ==
  /\ chain = "Open"
  /\ chain' = "Dead"
  /\ held' \in {held} \cup IF held = "ours" THEN {"free"} ELSE {}
  /\ UNCHANGED <<pc, published, retryVars, enabled, accepting, queue, connections, healthVars, cancelled, permit>>

\* The server gives up a session that it has not heard of for a while.
ServerNotices ==
  /\ held = "stale" \/ (held = "ours" /\ chain = "Dead")
  /\ held' = "free"
  /\ UNCHANGED <<pc, published, retryVars, chain, enabled, accepting, queue, connections, healthVars, cancelled, permit>>

\* Somebody else takes the port, or leaves it.
OthersUsePort ==
  /\ \/ held = "free" /\ held' = "foreign"
     \/ held = "foreign" /\ held' = "free"
  /\ UNCHANGED <<pc, published, retryVars, chain, enabled, accepting, queue, connections, healthVars, cancelled, permit>>

\* healthy_since.elapsed() is taken after the worker's stop, and counts the
\* time the session was Degraded.
SessionAges ==
  /\ pc \in {"working", "stopping", "cancelling", "joining", "disconnecting", "released"}
  /\ age = "Young"
  /\ age' = "Old"
  /\ UNCHANGED <<pc, published, retryVars, serverVars, connections, ping_failures, pinging, reported,
                 cancelled, permit>>

Alive == pc \notin {"done", "aborted"}

\* notify_one.  The manager decides on a state it has read earlier, so the
\* hint may come at any time.
Hint ==
  /\ Alive /\ ~cancelled /\ ~permit
  /\ permit' = TRUE
  /\ UNCHANGED <<pc, published, retryVars, serverVars, connections, healthVars, cancelled>>

\* TunnelManager::stop cancels the token ...
Cancel ==
  /\ Alive /\ ~cancelled
  /\ cancelled' = TRUE
  /\ UNCHANGED <<pc, published, retryVars, serverVars, connections, healthVars, permit>>

\* ... and aborts the task when its deadline passes; the connection tasks are
\* aborted with their JoinSet, but not joined.
Abort ==
  /\ Alive /\ cancelled
  /\ pc' = "aborted"
  /\ EndChain
  /\ UNCHANGED <<published, retryVars, connections, healthVars, cancelled, permit>>

OrphanEnds ==
  /\ pc = "aborted" /\ connections > 0
  /\ connections' = connections - 1
  /\ UNCHANGED <<pc, published, retryVars, serverVars, healthVars, cancelled, permit>>

-----------------------------------------------------------------------------

AttemptStep ==
  \/ BeginAttempt \/ ConnectSucceeds \/ ConnectFails \/ LeaveConnect
  \/ InitialPingSucceeds \/ InitialPingFails
  \/ RegisterSucceeds \/ RegisterDenied \/ RegisterTimesOut \/ Announce

WorkerStep ==
  \/ SeeCancelled \/ RelayHealth \/ SessionTick
  \/ HealthTick \/ PingSucceeds \/ PingFails \/ TakeChannel \/ ReapConnection

StopStep == BeginCancel \/ FinishCancel \/ JoinConnections \/ Disconnect \/ AfterWorker

WaitStep == PublishFailure \/ BackoffElapses \/ TakeHint \/ LeaveWait \/ PublishStopped

EnvironmentStep ==
  \/ ServerRegisters \/ ChannelOpens \/ ChannelAccepted \/ SessionDies \/ ServerNotices
  \/ OthersUsePort \/ SessionAges \/ OrphanEnds

ManagerStep == Hint \/ Cancel \/ Abort

Next == AttemptStep \/ WorkerStep \/ StopStep \/ WaitStep \/ EnvironmentStep \/ ManagerStep

Spec == Init /\ [][Next]_vars

(***************************************************************************)
(* Fairness: the supervisor's own steps happen, since every request has a  *)
(* timeout and every join a deadline; the select of the worker looks at    *)
(* Stop and at the session whatever the channels do; the runtime drops     *)
(* aborted tasks.  Nothing is assumed of server, network and user.         *)
(***************************************************************************)
Fairness ==
  /\ WF_vars(AttemptStep \/ StopStep \/ WaitStep)
  /\ WF_vars(SeeCancelled \/ SessionTick)
  /\ WF_vars(PingSucceeds \/ PingFails)
  /\ WF_vars(OrphanEnds)

FairSpec == Spec /\ Fairness

-----------------------------------------------------------------------------
(* Safety.                                                                 *)

(***************************************************************************)
(* The session and everything that belongs to it exist only where the      *)
(* program has them: no chain leaks into the next attempt, the handler     *)
(* takes up channels only between the server's answer and the request to   *)
(* cancel, one that it queues after that goes with the session, the        *)
(* queue has room for a channel being accepted, and the server holds the   *)
(* port for the current session only while there is one                    *)
(* (remote_forward.rs:42, 168-171, host_key.rs:115-127).                   *)
(***************************************************************************)
SessionFollowsProgram ==
  /\ (chain # "None") <=> pc \in {"pinging", "registering", "registered", "working",
                                  "stopping", "cancelling", "joining", "disconnecting"}
  /\ enabled <=> pc \in {"registered", "working", "stopping"}
  /\ accepting => queue < MaxQueued
  /\ accepting \/ queue > 0 =>
       pc \in {"registered", "working", "stopping", "cancelling", "joining", "disconnecting"}
  /\ held = "ours" => pc \in {"registering", "registered", "working", "stopping",
                              "cancelling", "joining", "disconnecting"}
  /\ connections > 0 => pc \in {"working", "stopping", "cancelling", "joining", "aborted"}

(***************************************************************************)
(* Healthy and Degraded promise a forward: the server holds the port for   *)
(* this session, or the session is dead, or it is being torn down.         *)
(***************************************************************************)
HealthyIsRegistered ==
  published \in {"Healthy", "Degraded"} =>
    held = "ours" \/ chain = "Dead"
      \/ pc \in {"joining", "disconnecting", "released", "failed", "closing", "aborted"}

\* What is published while a port is being obtained, held or given back: the
\* part of the state that HealthyIsRegistered and the contract rest on.
StatusFollowsProgram ==
  /\ pc \in {"connecting", "pinging", "registering", "registered"} => published = "Connecting"
  /\ pc \in {"working", "stopping", "cancelling", "joining", "disconnecting", "released"} =>
       published \in {"Healthy", "Degraded"}
  /\ pc = "failed" =>
       published = "Connecting" \/ (published \in {"Healthy", "Degraded"} /\ verdict = "Transient")
  /\ pc = "backoff" => published = "Reconnecting"
  /\ pc = "blocked" => published = "Blocked"
  /\ pc = "loop" => published \in {"Connecting", "Reconnecting", "Blocked"}
  /\ published = "Stopped" <=> pc = "done"
  /\ chain = "Open" /\ pc \in {"registered", "working", "stopping", "cancelling"} => held = "ours"

-----------------------------------------------------------------------------
(* Action properties.                                                      *)

(***************************************************************************)
(* "The server registration must be cancelled while the SSH session is     *)
(* still live" (remote_forward.rs:169-171, TunnelWarden_SPEC.md:1892-1898):*)
(* a session whose forward is enabled is never closed by the tunnel,       *)
(* except by an abort, before it has stopped accepting channels and asked  *)
(* the server.                                                             *)
(***************************************************************************)
CancelBeforeClose ==
  [][chain = "Open" /\ chain' = "None" /\ published \in {"Healthy", "Degraded"} =>
       pc' = "aborted" \/ (pc = "disconnecting" /\ ~enabled)]_vars

-----------------------------------------------------------------------------
(* Liveness.                                                               *)

\* Stop always gets through, from wherever the supervisor waits: session, port
\* and tasks are given up, and so is a channel that the handler was accepting
\* while the forward was being cancelled.
StopReleasesEverything ==
  cancelled ~> /\ ~Alive
               /\ chain = "None" /\ held # "ours"
               /\ ~accepting /\ queue = 0 /\ connections = 0

\* A lost session leads to a new attempt, unless the tunnel is stopped.
LostSessionIsReplaced == (pc = "working" /\ chain = "Dead") ~> (published = "Connecting" \/ ~Alive)

-----------------------------------------------------------------------------
(* Refinement.                                                             *)

Contract == INSTANCE TunnelContract WITH
              port <- pc \notin {"closing", "done", "aborted"}, status <- published

(***************************************************************************)
(* What TunnelManager assumes of its tasks.  A Remote tunnel has no local  *)
(* port; in the place of one stands its claim on the server's, which lasts *)
(* until the supervisor gives up trying.                                   *)
(***************************************************************************)
ImplementsContract == Contract!Spec

-----------------------------------------------------------------------------
(* A statement of the specification document that the code does not keep.  *)

(***************************************************************************)
(* A forward that was lost is a transient error                            *)
(* (TunnelWarden_SPEC.md:1384-1403), so an attempt that meets nothing but  *)
(* the tunnel's own earlier registration is retried.  The server answers   *)
(* such an attempt with RequestDenied, which summary calls Blocked.        *)
(***************************************************************************)
LostForwardIsRetried ==
  [][pc = "registering" /\ held = "stale" /\ pc' = "failed" => verdict' = "Transient"]_vars
=============================================================================
