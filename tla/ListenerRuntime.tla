-------------------------- MODULE ListenerRuntime --------------------------
(***************************************************************************)
(* The owner of a Local or Dynamic tunnel's listening socket,              *)
(* crates/tunnel-core/src/runtime.rs, composed with the state machine it   *)
(* drives.  start_listener and stop hand a fixed sequence of events to the *)
(* machine, with the bind and the drop of the socket between them; each    *)
(* event and each socket operation is a step here, and call is where in    *)
(* its method the runtime is.  Both methods take &mut self, so only one of *)
(* them runs at a time; the bind is awaited, and any process may own the   *)
(* port meanwhile.                                                         *)
(***************************************************************************)
EXTENDS Lifecycle

VARIABLES
  socket,   \* ListenerRuntime.listener is Some
  call      \* the step of the method that is running, or "idle"

runtimeVars == <<vars, socket, call>>

RuntimeInit ==
  /\ Init
  /\ socket = FALSE
  /\ call = "idle"

\* One step of a method: from one place to the next.
At(from, to) == call = from /\ call' = to

-----------------------------------------------------------------------------
(* start_listener                                                          *)

StartListener ==
  /\ At("idle", "acquire")
  /\ Start
  /\ UNCHANGED socket

Acquire ==
  /\ At("acquire", "bind")
  /\ Phase(generation, "AcquiringListener")
  /\ UNCHANGED socket

\* TcpListener::bind and local_addr succeed: the machine hears of it ...
BindSucceeds ==
  /\ At("bind", "register")
  /\ ListenerBound(generation)
  /\ UNCHANGED socket

\* ... the runtime takes the socket ...
KeepSocket ==
  /\ At("register", "proceed")
  /\ socket' = TRUE
  /\ UNCHANGED vars

\* ... and the tunnel goes on to its SSH chain.
Proceed ==
  /\ At("proceed", "idle")
  /\ Phase(generation, "BuildingJumpChain")
  /\ UNCHANGED socket

\* record_bind_failure: AddrInUse is a conflict, everything else is a
\* disconnection, classified by bind_error.
BindFails ==
  /\ At("bind", "idle")
  /\ \/ ListenerConflict(generation)
     \/ \E retryability \in {"Transient", "Blocked"} : Disconnected(generation, retryability)
  /\ UNCHANGED socket

-----------------------------------------------------------------------------
(* stop                                                                    *)

StopListener ==
  /\ At("idle", "drop")
  /\ Stop
  /\ UNCHANGED socket

\* Mutant of DropSocket: the socket is forgotten on the way.
DropSocketMutant ==
  /\ At("drop", "complete")
  /\ UNCHANGED <<vars, socket>>

DropSocket ==
  /\ At("drop", "complete")
  /\ socket' = FALSE
  /\ UNCHANGED vars

CompleteStop ==
  /\ At("complete", "idle")
  /\ ShutdownComplete(generation)
  /\ UNCHANGED socket

\* stop of a runtime that is not running: Ok, nothing to do.
StopIdle ==
  /\ call = "idle"
  /\ StopNoChange
  /\ UNCHANGED <<socket, call>>

RuntimeNext ==
  \/ StartListener \/ Acquire \/ BindSucceeds \/ KeepSocket \/ Proceed \/ BindFails
  \/ StopListener \/ DropSocket \/ CompleteStop \/ StopIdle

RuntimeSpec == RuntimeInit /\ [][RuntimeNext]_runtimeVars

(***************************************************************************)
(* What the machine says of the listener is true of the socket whenever no *)
(* method is running, and a Stopped machine never owns a port, not even in *)
(* the middle of stop (runtime.rs:98-99, "so Stopped means no owned port").*)
(***************************************************************************)
SocketMatchesMachine ==
  /\ call = "idle" => (socket <=> listener.kind = "Bound")
  /\ phase = "Stopped" => ~socket

\* Where the method is tells what the machine has heard and what has been
\* done to the socket.
CallFollowsMachine ==
  /\ call \in {"idle", "acquire", "bind", "register", "proceed", "drop", "complete"}
  /\ socket \in BOOLEAN
  /\ call \in {"idle", "drop"} => (socket <=> listener.kind = "Bound")
  /\ call \in {"acquire", "bind"} => ~socket /\ listener.kind # "Bound"
  /\ call = "register" => ~socket
  /\ call \in {"register", "proceed"} => listener.kind = "Bound" /\ phase = "Starting"
  /\ call = "proceed" => socket
  /\ call = "complete" => ~socket
=============================================================================
