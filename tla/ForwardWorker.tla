--------------------------- MODULE ForwardWorker ---------------------------
(***************************************************************************)
(* One worker of a Local or Dynamic tunnel,                                *)
(* crates/tunnel-core/src/local_forward.rs, composed with the listener it  *)
(* is lent (ListenerRuntime) and the relays of its connections (Relay).    *)
(*                                                                         *)
(* The worker is one loop: it watches the session, pings it, joins         *)
(* finished connection tasks, opens SSH channels for the others and        *)
(* accepts clients.  Its select is biased, so a branch is only taken when  *)
(* those above it are not ready.  While it awaits a ping or a channel it   *)
(* does nothing else.  Every client is served by a task of its own, which  *)
(* asks the loop for a channel and waits for the answer.  Supervisor       *)
(* models who builds workers and when; here a worker is built whenever the *)
(* listener is bound.                                                      *)
(***************************************************************************)
EXTENDS ListenerRuntime, Relay

CONSTANT MaxActive    \* MAX_ACTIVE_CONNECTIONS, 64 in the code

ASSUME MaxActiveAssumption == MaxActive \in Nat \ {0}

VARIABLES
  mode,           \* ForwardMode: "Fixed" or "Dynamic"
  worker,         \* where the worker is
  cancelled,      \* the tunnel's token
  released,       \* session_cancellation, on its own account
  chain,          \* the SSH session: "None", "Open" or "Dead"
  ping_failures,
  due,            \* health_tick is ready
  task,           \* where the task of each client is
  requests,       \* the channel of OpenRequests
  serving,        \* the request being opened, or "none"
  answer,         \* the oneshot of each request
  dialogue        \* what a SOCKS client has been told

workerVars == <<mode, worker, cancelled, released, chain, ping_failures, due>>
taskVars   == <<task, requests, serving, answer, dialogue>>
allVars    == <<runtimeVars, relayVars, workerVars, taskVars>>

-----------------------------------------------------------------------------
(* Data.                                                                   *)

\* Run is somewhere in its loop, so the receiver of requests exists.
Running == worker \in {"loop", "pinging", "opening"}

\* The token of the connections is a child of session_cancellation, which is
\* a child of the tunnel's.
Cancelled == cancelled \/ released

\* ForwardingFailure.
Failures == {"NotAllowed", "ConnectFailed", "ResourceShortage", "Timeout",
             "SessionUnavailable", "Other"}

Handshake == {"greeting", "request"}
Serving   == Handshake \cup {"sending", "waiting", "refusing", "confirming", "relaying"}

\* The JoinSet: finished tasks stay in it until they are joined.
Connections == {c \in Clients : task[c] \in Serving \cup {"finished"}}
Finished    == {c \in Clients : task[c] = "finished"}

\* Replies of the parser, and what a failed channel is reported as.
Rejections == {"GeneralFailure", "CommandNotSupported", "AddressTypeNotSupported"}

map_socks_failure(failure) ==
  CASE failure = "NotAllowed"         -> "NotAllowed"
    [] failure = "ConnectFailed"      -> "ConnectionRefused"
    [] failure = "Timeout"            -> "TtlExpired"
    [] failure = "SessionUnavailable" -> "HostUnreachable"
    [] OTHER                          -> "GeneralFailure"

WorkerInit ==
  /\ RuntimeInit
  /\ FreshStreams
  /\ mode \in {"Fixed", "Dynamic"}
  /\ worker = "none"
  /\ cancelled = FALSE
  /\ released = FALSE
  /\ chain = "None"
  /\ ping_failures = 0
  /\ due = FALSE
  /\ task = [c \in Clients |-> "away"]
  /\ requests = <<>>
  /\ serving = "none"
  /\ answer = [c \in Clients |-> "none"]
  /\ dialogue = [c \in Clients |-> <<>>]

-----------------------------------------------------------------------------
(* The listener while no worker has it.                                    *)

Unlent ==
  /\ worker = "none"
  /\ UNCHANGED <<relayVars, mode, worker, released, chain, ping_failures, due,
                 requests, serving, answer, dialogue>>

\* Every start of a tunnel has a token of its own.
ListenerStarts == Unlent /\ StartListener /\ cancelled' = FALSE /\ UNCHANGED task

ListenerRuns ==
  /\ Unlent
  /\ Acquire \/ BindSucceeds \/ KeepSocket \/ Proceed \/ BindFails
       \/ StopListener \/ CompleteStop \/ StopIdle
  /\ UNCHANGED <<cancelled, task>>

\* The clients the system has queued for the socket are reset with it.
ListenerDrops ==
  /\ Unlent
  /\ DropSocket
  /\ task' = [c \in Clients |-> IF task[c] = "backlog" THEN "away" ELSE task[c]]
  /\ UNCHANGED cancelled

\* build, and the head of run: the supervisor has connected a chain and lends
\* the listener.  The first tick of an interval is ready at once.
Build ==
  /\ worker = "none"
  /\ call = "idle" /\ socket
  /\ ~cancelled
  /\ worker' = "loop"
  /\ chain' = "Open"
  /\ released' = FALSE
  /\ ping_failures' = 0
  /\ due' = TRUE
  /\ task' = [c \in Clients |-> IF task[c] = "gone" THEN "away" ELSE task[c]]
  /\ answer' = [c \in Clients |-> "none"]
  /\ dialogue' = [c \in Clients |-> <<>>]
  /\ NewStreams
  /\ UNCHANGED <<runtimeVars, mode, cancelled, requests, serving>>

-----------------------------------------------------------------------------
(* What happens around the worker.                                         *)

\* The tunnel is stopped.
Cancel ==
  /\ worker # "none" /\ ~cancelled
  /\ cancelled' = TRUE
  /\ UNCHANGED <<runtimeVars, relayVars, taskVars, mode, worker, released, chain,
                 ping_failures, due>>

SessionDies ==
  /\ chain = "Open"
  /\ chain' = "Dead"
  /\ UNCHANGED <<runtimeVars, relayVars, taskVars, mode, worker, cancelled, released,
                 ping_failures, due>>

ClientConnects(c) ==
  /\ socket /\ task[c] = "away"
  /\ task' = [task EXCEPT ![c] = "backlog"]
  /\ UNCHANGED <<runtimeVars, relayVars, workerVars, requests, serving, answer, dialogue>>

-----------------------------------------------------------------------------
(* run: the loop.                                                          *)

\* run returns: its locals go, and with them the receiver of the requests;
\* whoever waits for an answer is told Cancelled.
EndRun ==
  /\ worker' = "ended"
  /\ due' = FALSE
  /\ requests' = <<>>
  /\ answer' = [c \in Clients |-> IF c \in Range(requests) /\ task[c] = "waiting"
                                  THEN "SessionUnavailable" ELSE answer[c]]
  /\ UNCHANGED <<runtimeVars, relayVars, mode, cancelled, released, chain, task, serving, dialogue>>

InLoop == worker = "loop" /\ ~cancelled

LoopCancelled ==
  /\ worker = "loop" /\ cancelled
  /\ EndRun
  /\ UNCHANGED ping_failures

SessionTick ==
  /\ InLoop
  /\ chain = "Dead"
  /\ EndRun
  /\ UNCHANGED ping_failures

(***************************************************************************)
(* Ten seconds since the last tick was due: at the select, in an open, or  *)
(* in a ping, for ping_all pings hop after hop with 5 s for each.  A tick  *)
(* that is missed is ready as soon as the loop is back at its select.      *)
(***************************************************************************)
TickFires ==
  /\ Running /\ ~due
  /\ due' = TRUE
  /\ UNCHANGED <<runtimeVars, relayVars, taskVars, mode, worker, cancelled, released, chain,
                 ping_failures>>

HealthTick ==
  /\ InLoop
  /\ due
  /\ worker' = "pinging"
  /\ due' = FALSE
  /\ UNCHANGED <<runtimeVars, relayVars, taskVars, mode, cancelled, released, chain, ping_failures>>

PingSucceeds ==
  /\ worker = "pinging"
  /\ chain = "Open"
  /\ worker' = "loop"
  /\ ping_failures' = 0
  /\ UNCHANGED <<runtimeVars, relayVars, taskVars, mode, cancelled, released, chain, due>>

PingFails ==
  /\ worker = "pinging"
  /\ ping_failures' = ping_failures + 1
  /\ \/ /\ ping_failures' >= PingLimit
        /\ EndRun
     \/ /\ ping_failures' < PingLimit
        /\ worker' = "loop"
        /\ UNCHANGED <<runtimeVars, relayVars, taskVars, mode, cancelled, released, chain, due>>

\* The branches below the ticks are looked at when no tick is ready.
BelowTicks == InLoop /\ ~due

JoinNext(c) ==
  /\ BelowTicks
  /\ task[c] = "finished"
  /\ task' = [task EXCEPT ![c] = "gone"]
  /\ dialogue' = [dialogue EXCEPT ![c] = <<>>]
  /\ UNCHANGED <<runtimeVars, relayVars, workerVars, requests, serving, answer>>

TakeRequest ==
  /\ BelowTicks
  /\ Finished = {}
  /\ requests # <<>>
  /\ worker' = "opening"
  /\ serving' = Head(requests)
  /\ requests' = Tail(requests)
  /\ UNCHANGED <<runtimeVars, relayVars, mode, cancelled, released, chain, ping_failures, due,
                 task, answer, dialogue>>

\* What open_direct_tcpip can come back with; the stop of the tunnel is
\* looked at first.
OpenResults ==
  IF cancelled
  THEN {"SessionUnavailable"}
  ELSE (Failures \ {"SessionUnavailable"}) \cup (IF chain = "Open" THEN {"Channel"} ELSE {})

\* The answer of somebody who no longer waits is dropped, its channel closed.
OpenEnds ==
  /\ worker = "opening"
  /\ \E result \in OpenResults :
       answer' = IF task[serving] = "waiting"
                 THEN [answer EXCEPT ![serving] = result] ELSE answer
  /\ worker' = "loop"
  /\ serving' = "none"
  /\ UNCHANGED <<runtimeVars, relayVars, mode, cancelled, released, chain, ping_failures, due,
                 task, requests, dialogue>>

\* Mutant of MayAccept: one connection more than the limit.
MayAcceptMutant ==
  BelowTicks /\ Finished = {} /\ requests = <<>> /\ Cardinality(Connections) <= MaxActive

\* Mutant of MayAccept: one connection less than the limit.
MayAcceptShort ==
  BelowTicks /\ Finished = {} /\ requests = <<>> /\ Cardinality(Connections) + 1 < MaxActive

\* accept is the last branch, and has a limit.
MayAccept ==
  BelowTicks /\ Finished = {} /\ requests = <<>> /\ Cardinality(Connections) < MaxActive

Accept(c) ==
  /\ MayAccept
  /\ task[c] = "backlog"
  /\ task' = [task EXCEPT ![c] = IF mode = "Dynamic" THEN "greeting" ELSE "sending"]
  /\ UNCHANGED <<runtimeVars, relayVars, workerVars, requests, serving, answer, dialogue>>

AcceptFails ==
  /\ MayAccept
  /\ EndRun
  /\ UNCHANGED ping_failures

-----------------------------------------------------------------------------
(* release_listener, and stop, which is the same and then stops the        *)
(* listener.                                                               *)

ReleaseListener ==
  /\ worker = "ended"
  /\ worker' = "releasing"
  /\ released' = TRUE
  /\ UNCHANGED <<runtimeVars, relayVars, taskVars, mode, cancelled, chain, ping_failures, due>>

\* What is left of the tasks when all have been joined.
AllJoined ==
  /\ task' = [c \in Clients |-> IF c \in Connections THEN "gone" ELSE task[c]]
  /\ answer' = [c \in Clients |-> "none"]
  /\ dialogue' = [c \in Clients |-> <<>>]
  /\ UNCHANGED <<requests, serving>>

JoinAll ==
  /\ worker = "releasing"
  /\ Connections = Finished
  /\ worker' = "disconnecting"
  /\ AllJoined
  /\ UNCHANGED <<runtimeVars, relayVars, mode, cancelled, released, chain, ping_failures, due>>

\* abort_all drops the tasks where they are, with their guards, and joins them.
Deadline ==
  /\ worker = "releasing"
  /\ Connections # Finished
  /\ worker' = "disconnecting"
  /\ AllJoined
  /\ DropStreams(Connections)
  /\ active' = active - Cardinality({c \in Connections : task[c] = "relaying"})
  /\ UNCHANGED <<runtimeVars, mode, cancelled, released, chain, ping_failures, due>>

\* Mutant of Disconnect: the session is dropped without being ended.
DisconnectMutant ==
  /\ worker = "disconnecting"
  /\ worker' = "none"
  /\ UNCHANGED <<runtimeVars, relayVars, taskVars, mode, cancelled, released, chain,
                 ping_failures, due>>

\* SshChain models the steps of disconnect.
Disconnect ==
  /\ worker = "disconnecting"
  /\ worker' = "none"
  /\ chain' = "None"
  /\ UNCHANGED <<runtimeVars, relayVars, taskVars, mode, cancelled, released, ping_failures, due>>

-----------------------------------------------------------------------------
(* handle_connection: the task of one client.                              *)

\* What no task touches.
TaskFrame == UNCHANGED <<runtimeVars, workerVars, serving>>

Moves(c, to) == task' = [task EXCEPT ![c] = to]
Says(c, word) == dialogue' = [dialogue EXCEPT ![c] = Append(@, word)]

\* The task returns; a relay gives its ActiveConnection back.
Ends(c) ==
  /\ Moves(c, "finished")
  /\ DropStreams({c})
  /\ active' = IF task[c] = "relaying" THEN active - 1 ELSE active
  /\ answer' = [answer EXCEPT ![c] = "none"]

StartsRelay(c) ==
  /\ Moves(c, "relaying")
  /\ active' = active + 1
  /\ UNCHANGED <<sent, eof, taken, chunk, received, shut, traffic, answer>>

\* read_connect: the methods a client offers.  The client may also send
\* something else, or close.
Greeting(c) ==
  /\ task[c] = "greeting" /\ ~Cancelled
  /\ \/ Moves(c, "request") /\ Says(c, "NoAuth") /\ UNCHANGED <<relayVars, answer>>
     \/ Ends(c) /\ Says(c, "NoAcceptable")
     \/ Ends(c) /\ UNCHANGED dialogue
  /\ TaskFrame /\ UNCHANGED requests

\* Mutant of Request: a client hears of success before there is a channel.
RequestMutant(c) ==
  /\ task[c] = "request" /\ ~Cancelled
  /\ \/ Moves(c, "sending") /\ Says(c, "Succeeded") /\ UNCHANGED <<relayVars, answer>>
     \/ \E rejection \in Rejections : Ends(c) /\ Says(c, rejection)
     \/ Ends(c) /\ UNCHANGED dialogue
  /\ TaskFrame /\ UNCHANGED requests

\* read_connect: the request.  One that is wrong is rejected on the spot.
Request(c) ==
  /\ task[c] = "request" /\ ~Cancelled
  /\ \/ Moves(c, "sending") /\ UNCHANGED <<relayVars, answer, dialogue>>
     \/ \E rejection \in Rejections : Ends(c) /\ Says(c, rejection)
     \/ Ends(c) /\ UNCHANGED dialogue
  /\ TaskFrame /\ UNCHANGED requests

HandshakeTimeout(c) ==
  /\ task[c] \in Handshake
  /\ Ends(c)
  /\ TaskFrame /\ UNCHANGED <<requests, dialogue>>

\* request_channel: the request is queued if there is room ...
SendRequest(c) ==
  /\ task[c] = "sending" /\ ~Cancelled
  /\ Running
  /\ Len(requests) < MaxActive
  /\ requests' = Append(requests, c)
  /\ Moves(c, "waiting")
  /\ TaskFrame /\ UNCHANGED <<relayVars, answer, dialogue>>

\* ... and fails when run has returned.
SendFails(c) ==
  /\ task[c] = "sending" /\ ~Cancelled
  /\ ~Running
  /\ IF mode = "Dynamic"
     THEN /\ Moves(c, "refusing")
          /\ answer' = [answer EXCEPT ![c] = "SessionUnavailable"]
          /\ UNCHANGED relayVars
     ELSE Ends(c)
  /\ TaskFrame /\ UNCHANGED <<requests, dialogue>>

TakeAnswer(c) ==
  /\ task[c] = "waiting" /\ ~Cancelled
  /\ answer[c] # "none"
  /\ IF answer[c] = "Channel"
     THEN IF mode = "Dynamic"
          THEN Moves(c, "confirming") /\ UNCHANGED <<relayVars, answer>>
          ELSE StartsRelay(c)
     ELSE IF mode = "Dynamic"
          THEN Moves(c, "refusing") /\ UNCHANGED <<relayVars, answer>>
          ELSE Ends(c)
  /\ TaskFrame /\ UNCHANGED <<requests, dialogue>>

\* The failure is reported within CHANNEL_OPEN_TIMEOUT or not at all; this
\* does not look at the token.
Refuse(c) ==
  /\ task[c] = "refusing"
  /\ Says(c, map_socks_failure(answer[c])) \/ UNCHANGED dialogue
  /\ Ends(c)
  /\ TaskFrame /\ UNCHANGED requests

Confirm(c) ==
  /\ task[c] = "confirming" /\ ~Cancelled
  /\ \/ Says(c, "Succeeded") /\ StartsRelay(c)
     \/ Ends(c) /\ UNCHANGED dialogue
  /\ TaskFrame /\ UNCHANGED requests

\* Every await but the one of Refuse gives way to the token.
TaskCancelled(c) ==
  /\ Cancelled
  /\ task[c] \in Serving \ {"refusing"}
  /\ Ends(c)
  /\ TaskFrame /\ UNCHANGED <<requests, dialogue>>

RelayStep(c, d) ==
  /\ task[c] = "relaying"
  /\ \/ SourceSends(<<c, d>>) \/ SourceEnds(<<c, d>>)
     \/ ~Cancelled /\ CopyDirection(<<c, d>>)
  /\ TaskFrame /\ UNCHANGED <<task, requests, answer, dialogue>>

RelayDone(c) ==
  /\ task[c] = "relaying"
  /\ BothShut(c)
  /\ Ends(c)
  /\ TaskFrame /\ UNCHANGED <<requests, dialogue>>

\* A read or a write of one direction fails: try_join! drops the other.
RelayFails(c) ==
  /\ task[c] = "relaying"
  /\ Ends(c)
  /\ TaskFrame /\ UNCHANGED <<requests, dialogue>>

-----------------------------------------------------------------------------

LoopStep ==
  \/ TickFires \/ SessionTick \/ HealthTick \/ PingSucceeds \/ PingFails
  \/ TakeRequest \/ OpenEnds \/ AcceptFails
  \/ \E c \in Clients : JoinNext(c) \/ Accept(c)

TaskStep(c) ==
  \/ Greeting(c) \/ Request(c) \/ HandshakeTimeout(c)
  \/ SendRequest(c) \/ SendFails(c) \/ TakeAnswer(c)
  \/ Refuse(c) \/ Confirm(c) \/ TaskCancelled(c)
  \/ RelayDone(c) \/ RelayFails(c) \/ \E d \in Directions : RelayStep(c, d)

WorkerNext ==
  \/ ListenerStarts \/ ListenerRuns \/ ListenerDrops
  \/ Build \/ Cancel \/ SessionDies
  \/ LoopCancelled \/ LoopStep
  \/ ReleaseListener \/ JoinAll \/ Deadline \/ Disconnect
  \/ \E c \in Clients : ClientConnects(c) \/ TaskStep(c)

(***************************************************************************)
(* Deadlines pass, tasks that are ready are polled, and the caller of run  *)
(* calls release_listener.  A branch below the ticks is enabled only while *)
(* no tick is due, so weak fairness would ask nothing of it: the select    *)
(* takes a ready branch each time it finds no tick due, which is SF.  That *)
(* it ever finds none is no part of this: it is TicksLeaveTime.  Nothing   *)
(* makes a peer send or read.                                              *)
(***************************************************************************)
WorkerFairness ==
  /\ WF_allVars(LoopCancelled)
  /\ WF_allVars(SessionTick)
  /\ WF_allVars(HealthTick)
  /\ WF_allVars(PingSucceeds \/ PingFails)
  /\ WF_allVars(OpenEnds)
  /\ SF_allVars(TakeRequest)
  /\ WF_allVars(ReleaseListener)
  /\ WF_allVars(JoinAll \/ Deadline)
  /\ WF_allVars(Disconnect)
  /\ \A c \in Clients :
       /\ SF_allVars(JoinNext(c))
       /\ SF_allVars(Accept(c))
       /\ WF_allVars(TaskCancelled(c))
       /\ WF_allVars(HandshakeTimeout(c))
       /\ WF_allVars(SendRequest(c) \/ SendFails(c))
       /\ WF_allVars(TakeAnswer(c))
       /\ WF_allVars(Refuse(c))
       /\ WF_allVars(RelayDone(c))

WorkerSpec == WorkerInit /\ [][WorkerNext]_allVars /\ WorkerFairness

-----------------------------------------------------------------------------
(* Properties.                                                             *)

Verdicts == {"Succeeded", "NotAllowed", "ConnectionRefused", "TtlExpired", "HostUnreachable"}
              \cup Rejections

\* All that a client may have been told.
Dialogues == {<<>>, <<"NoAuth">>, <<"NoAcceptable">>} \cup {<<"NoAuth", v>> : v \in Verdicts}

(***************************************************************************)
(* A SOCKS client hears the method, then one verdict, and nothing after    *)
(* it.  Succeeded means that its channel is open and comes before any      *)
(* byte of the destination; a client that was refused has no channel       *)
(* (local_forward.rs:350, "channel_failure_produces_socks_failure_instead  *)
(* _of_success").                                                          *)
(***************************************************************************)
SuccessMeansChannel ==
  \A c \in Clients :
    /\ dialogue[c] \in Dialogues
    /\ dialogue[c] = <<"NoAuth", "Succeeded">> /\ task[c] = "relaying" => answer[c] = "Channel"
    /\ Len(dialogue[c]) = 2 => task[c] \in {"relaying", "finished", "gone"}
    /\ mode = "Dynamic" /\ task[c] = "relaying" => dialogue[c] = <<"NoAuth", "Succeeded">>

(***************************************************************************)
(* While the loop runs, its queue has room for every connection it has     *)
(* accepted: no task is ever blocked in send, so an open never waits for   *)
(* room (local_forward.rs:161-162, "requests cannot accumulate").          *)
(***************************************************************************)
RequestsNeverBlock ==
  \A c \in Clients : task[c] = "sending" /\ Running => Len(requests) < MaxActive

(***************************************************************************)
(* Again and again a worker that runs is back at its select before the     *)
(* next health tick is due.  Nothing in the code sees to that: with more   *)
(* than one hop, pings that are answered but take ten seconds together     *)
(* (chain.rs:161-174) make the next tick due at once, and the branches     *)
(* below it starve for as long as the network is that slow.                *)
(***************************************************************************)
TicksLeaveTime == []<>(Running => worker = "loop" /\ ~due)

(***************************************************************************)
(* Unless the pings starve the loop (TicksLeaveTime), nobody waits for     *)
(* ever.  A client stays in the system's backlog only while every slot is  *)
(* in use: with a slot free, or a finished connection still to be joined,  *)
(* the loop gets round to accepting it, whatever single pings and opens    *)
(* cost.  And a task that has asked for a channel is answered, or told     *)
(* that the loop it asked is gone.                                         *)
(***************************************************************************)
ClientsAreServed ==
  \A c \in Clients :
    /\ TicksLeaveTime =>
         (task[c] = "backlog" /\ Running
            ~> \/ task[c] # "backlog" \/ ~Running
               \/ Cardinality(Connections \ Finished) >= MaxActive)
    /\ TicksLeaveTime => (task[c] = "waiting" ~> task[c] # "waiting")

(***************************************************************************)
(* A run that has ended is cleaned up: within the deadline every task is   *)
(* gone, active_connections is back to 0 and the SSH chain is closed, even *)
(* when a client does not read its refusal.                                *)
(***************************************************************************)
ReleaseEnds ==
  worker = "ended" ~> worker = "none" /\ Connections = {} /\ active = 0 /\ chain = "None"

-----------------------------------------------------------------------------
(* What the safety properties rest on.                                     *)

Replies == {"NoAuth", "NoAcceptable"} \cup Verdicts

WorkerTypeOK ==
  /\ mode \in {"Fixed", "Dynamic"}
  /\ worker \in {"none", "loop", "pinging", "opening", "ended", "releasing", "disconnecting"}
  /\ cancelled \in BOOLEAN
  /\ released \in BOOLEAN
  /\ chain \in {"None", "Open", "Dead"}
  /\ ping_failures \in Nat
  /\ due \in BOOLEAN
  /\ task \in [Clients -> Serving \cup {"away", "backlog", "finished", "gone"}]
  /\ requests \in Seq(Clients)
  /\ serving \in Clients \cup {"none"}
  /\ answer \in [Clients -> Failures \cup {"Channel", "none"}]
  /\ dialogue \in [Clients -> Seq(Replies)]

\* Tasks live as long as their worker, and there are never more than it may
\* accept.
TasksBelongToWorker ==
  /\ worker \in {"none", "disconnecting"} => Connections = {}
  /\ Running => ~released
  /\ IsFiniteSet(Connections)
  /\ Cardinality(Connections) <= MaxActive

\* What a client has been told, and what it was answered, follow from where
\* its task is.
DialogueFollowsTask ==
  \A c \in Clients :
    /\ task[c] \in {"greeting", "request", "refusing", "confirming"} => mode = "Dynamic"
    /\ task[c] \in {"away", "backlog", "greeting", "gone"} => dialogue[c] = <<>>
    /\ task[c] = "request" => dialogue[c] = <<"NoAuth">>
    /\ task[c] \in {"sending", "waiting", "refusing", "confirming"} =>
         dialogue[c] = IF mode = "Dynamic" THEN <<"NoAuth">> ELSE <<>>
    /\ task[c] = "relaying" =>
         dialogue[c] = IF mode = "Dynamic" THEN <<"NoAuth", "Succeeded">> ELSE <<>>
    /\ task[c] \in {"confirming", "relaying"} => answer[c] = "Channel"
    /\ task[c] = "refusing" => answer[c] \in Failures
    /\ task[c] \notin {"waiting", "refusing", "confirming", "relaying"} => answer[c] = "none"
    /\ dialogue[c] \in Dialogues

\* A request in the queue, or being opened, is of one connection that has not
\* been joined and has no answer yet; it has stopped waiting for one only if
\* the tunnel is being stopped.
Owed(c) ==
  /\ answer[c] = "none"
  /\ task[c] = "waiting" \/ (cancelled /\ task[c] = "finished")

RequestsAreOwed ==
  /\ \A i \in DOMAIN requests : Owed(requests[i])
  /\ \A i, j \in DOMAIN requests : requests[i] = requests[j] => i = j
  /\ worker = "opening" =>
       /\ serving \in Clients
       /\ Owed(serving)
       /\ \A i \in DOMAIN requests : requests[i] # serving
  /\ ~Running => requests = <<>>

\* A stream moves only while its connection is relayed: the bytes delivered
\* and the bytes in the buffer are those that were read, in order, and a
\* writer is shut when nothing is left to read.
StreamFollowsTask(c, s) ==
  /\ task[c] \notin {"relaying", "finished", "gone"} => received[s] = <<>>
  /\ task[c] # "relaying" => /\ chunk[s] = <<>> /\ taken[s] = 0 /\ sent[s] = 0
                             /\ ~eof[s] /\ ~shut[s]
  /\ \A i \in DOMAIN received[s] : received[s][i] = i
  /\ task[c] = "relaying" =>
       /\ Len(received[s]) + Len(chunk[s]) = taken[s]
       /\ taken[s] <= sent[s]
       /\ \A i \in DOMAIN chunk[s] : chunk[s][i] = Len(received[s]) + i
       /\ shut[s] => eof[s] /\ chunk[s] = <<>> /\ taken[s] = sent[s]

StreamsFollowTask == \A c \in Clients, d \in Directions : StreamFollowsTask(c, <<c, d>>)

\* active_connections counts the relays.
ActiveIsCounted == active = Cardinality({c \in Clients : task[c] = "relaying"})
=============================================================================
