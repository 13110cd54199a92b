------------------------------ MODULE SshChain ------------------------------
(***************************************************************************)
(* Connecting and disconnecting a chain of jump hosts                      *)
(* (crates/ssh-engine/src/chain.rs), hop by hop (client.rs), with the      *)
(* russh task that serves each hop's transport (cancellable_stream.rs).    *)
(*                                                                         *)
(* A hop's transport is a channel of the hop before it.  The transports    *)
(* are served by detached tasks, so what the program drops is not what     *)
(* ends: a transport ends when its cancellation token is cancelled, when   *)
(* the transport below it ends, or when the network fails.  The module is  *)
(* about who still holds each token.                                       *)
(*                                                                         *)
(* One attempt of a supervisor; time is abstract and every awaited step    *)
(* may time out.                                                           *)
(***************************************************************************)
EXTENDS Naturals, Sequences, SequencesExt

CONSTANT MaxHops   \* MAX_HOPS, 16 in the code

ASSUME MaxHopsAssumption == MaxHops \in Nat \ {0}

VARIABLES
  total,      \* the number of hosts in the tunnel's jump chain
  pc,         \* where connect_with_approval, or the owner of its result, is
  hop,        \* the hop that is being connected
  sessions,   \* the Vec<DirectSshSession>, as the hops of its sessions
  stopped,    \* the parent token, held by the supervisor, is cancelled
  revoked,    \* per hop, the session's child token was cancelled by itself
  task,       \* per hop, the russh task that serves the transport
  error       \* what connect_with_approval returned, by its summary

vars == <<total, pc, hop, sessions, stopped, revoked, task, error>>

Hops == 1..MaxHops

Connecting == {"building", "built", "preparing", "dialing", "opening", "handshaking",
               "authenticating", "unwinding"}

Over == {"failed", "closed", "dropped"}

TypeOK ==
  /\ total \in 0..(MaxHops + 1)
  /\ pc \in Connecting \cup {"connected", "disconnecting"} \cup Over
  /\ hop \in Hops
  /\ sessions \in Seq(Hops)
  /\ stopped \in BOOLEAN
  /\ revoked \in [Hops -> BOOLEAN]
  /\ task \in [Hops -> {"none", "running", "asking", "ended"}]
  /\ error \in {"none", "Cancelled", "Transient", "Blocked"}

Init ==
  /\ total \in 0..(MaxHops + 1)
  /\ pc = "building"
  /\ hop = 1
  /\ sessions = <<>>
  /\ stopped = FALSE
  /\ revoked = [h \in Hops |-> FALSE]
  /\ task = [h \in Hops |-> "none"]
  /\ error = "none"

\* A child token is cancelled with its parent.
Cancelled(h) == stopped \/ revoked[h]

\* `?` or an explicit return: sessions that exist are disconnected first.
GiveUp(reason) ==
  /\ error' = reason
  /\ pc' = IF sessions = <<>> THEN "failed" ELSE "unwinding"

-----------------------------------------------------------------------------
(* connect_with_approval.                                                  *)

\* build_hops loads the credentials, or fails.
BuildHops ==
  /\ pc = "building"
  /\ \/ pc' = "built" /\ UNCHANGED error
     \/ GiveUp("Blocked")
  /\ UNCHANGED <<total, hop, sessions, stopped, revoked, task>>

\* Empty and TooManyHops, else the first hop.
Begin ==
  /\ pc = "built"
  /\ IF total \notin Hops THEN GiveUp("Blocked") ELSE pc' = "preparing" /\ UNCHANGED error
  /\ UNCHANGED <<total, hop, sessions, stopped, revoked, task>>

\* From here on a russh task serves the transport.
Handshake ==
  /\ pc' = "handshaking"
  /\ task' = [task EXCEPT ![hop] = "running"]
  /\ UNCHANGED error

\* validate and load_private_key.  The first hop then dials, the others have
\* their channel already.
Prepare ==
  /\ pc = "preparing"
  /\ \/ GiveUp("Blocked") /\ UNCHANGED task
     \/ hop = 1 /\ pc' = "dialing" /\ UNCHANGED <<task, error>>
     \/ hop > 1 /\ Handshake
  /\ UNCHANGED <<total, hop, sessions, stopped, revoked>>

\* TcpStream::connect, for the first hop.
Dial ==
  /\ pc = "dialing"
  /\ \/ Cancelled(hop) /\ GiveUp("Cancelled") /\ UNCHANGED task
     \/ ~Cancelled(hop) /\ GiveUp("Transient") /\ UNCHANGED task
     \/ ~Cancelled(hop) /\ Handshake
  /\ UNCHANGED <<total, hop, sessions, stopped, revoked>>

\* open_direct_tcpip on the session before: it watches that session's token.
OpenChannel ==
  /\ pc = "opening"
  /\ LET previous == hop - 1 IN
     \/ Cancelled(previous) /\ GiveUp("Cancelled")
     \/ ~Cancelled(previous) /\ \E reason \in {"Transient", "Blocked"} : GiveUp(reason)
     \/ /\ ~Cancelled(previous) /\ task[previous] = "running"
        /\ pc' = "preparing"
        /\ UNCHANGED error
  /\ UNCHANGED <<total, hop, sessions, stopped, revoked, task>>

\* The handshake of the current hop waits for the user's decision.
AskUser ==
  /\ pc = "handshaking" /\ task[hop] = "running"
  /\ task' = [task EXCEPT ![hop] = "asking"]
  /\ UNCHANGED <<total, pc, hop, sessions, stopped, revoked, error>>

HandshakeSucceeds ==
  /\ pc = "handshaking"
  /\ ~Cancelled(hop) /\ task[hop] = "running"
  /\ pc' = "authenticating"
  /\ UNCHANGED <<total, hop, sessions, stopped, revoked, task, error>>

\* Mutant of HandshakeFails: the transport is left to itself.
HandshakeFailsMutant ==
  /\ pc = "handshaking"
  /\ \/ Cancelled(hop) /\ GiveUp("Cancelled") /\ UNCHANGED task
     \/ ~Cancelled(hop) /\ GiveUp("Transient") /\ UNCHANGED task
     \/ /\ ~Cancelled(hop)
        /\ \E reason \in {"Transient", "Blocked"} : GiveUp(reason)
        /\ task' = [task EXCEPT ![hop] = "ended"]
  /\ UNCHANGED <<total, hop, sessions, stopped, revoked>>

\* Mutant of HandshakeFails: no deadline while the user is asked.
HandshakeFailsMutantDeadline ==
  /\ pc = "handshaking"
  /\ \/ Cancelled(hop) /\ GiveUp("Cancelled") /\ UNCHANGED task
     \/ ~Cancelled(hop) /\ task[hop] # "asking" /\ GiveUp("Transient") /\ UNCHANGED task
     \/ /\ ~Cancelled(hop) /\ task[hop] # "asking"
        /\ \E reason \in {"Transient", "Blocked"} : GiveUp(reason)
        /\ task' = [task EXCEPT ![hop] = "ended"]
  /\ revoked' = [revoked EXCEPT ![hop] = TRUE]
  /\ UNCHANGED <<total, hop, sessions, stopped>>

\* Stop, or the deadline, which leave the russh task as it is, or an error of
\* that task, host key errors included.  The token is cancelled in any case.
HandshakeFails ==
  /\ pc = "handshaking"
  /\ \/ Cancelled(hop) /\ GiveUp("Cancelled") /\ UNCHANGED task
     \/ ~Cancelled(hop) /\ GiveUp("Transient") /\ UNCHANGED task
     \/ /\ ~Cancelled(hop) /\ task[hop] # "asking"
        /\ \E reason \in {"Transient", "Blocked"} : GiveUp(reason)
        /\ task' = [task EXCEPT ![hop] = "ended"]
  /\ revoked' = [revoked EXCEPT ![hop] = TRUE]
  /\ UNCHANGED <<total, hop, sessions, stopped>>

\* Mutant of AuthenticateSucceeds: the token is cancelled when the function
\* returns, as if it were guarded.
AuthenticateSucceedsMutant ==
  /\ pc = "authenticating"
  /\ ~Cancelled(hop) /\ task[hop] = "running"
  /\ sessions' = Append(sessions, hop)
  /\ revoked' = [revoked EXCEPT ![hop] = TRUE]
  /\ \/ hop = total /\ pc' = "connected" /\ UNCHANGED hop
     \/ hop < total /\ pc' = "opening" /\ hop' = hop + 1
  /\ UNCHANGED <<total, stopped, task, error>>

\* The session is complete and pushed; the next hop goes through it.
AuthenticateSucceeds ==
  /\ pc = "authenticating"
  /\ ~Cancelled(hop) /\ task[hop] = "running"
  /\ sessions' = Append(sessions, hop)
  /\ \/ hop = total /\ pc' = "connected" /\ UNCHANGED hop
     \/ hop < total /\ pc' = "opening" /\ hop' = hop + 1
  /\ UNCHANGED <<total, stopped, revoked, task, error>>

AuthenticateFails ==
  /\ pc = "authenticating"
  /\ \/ Cancelled(hop) /\ GiveUp("Cancelled")
     \/ ~Cancelled(hop) /\ \E reason \in {"Transient", "Blocked"} : GiveUp(reason)
  /\ revoked' = [revoked EXCEPT ![hop] = TRUE]
  /\ UNCHANGED <<total, hop, sessions, stopped, task>>

-----------------------------------------------------------------------------
(* Leaving: disconnect, and dropping.                                      *)

\* SshChain::disconnect, by the supervisor or the worker.
Disconnect ==
  /\ pc = "connected"
  /\ pc' = "disconnecting"
  /\ UNCHANGED <<total, hop, sessions, stopped, revoked, task, error>>

\* DirectSshSession::disconnect: the russh task is asked to end and joined
\* until a deadline; then the token is cancelled.
Close(h) ==
  /\ \E end \in {"ended", task[h]} : task' = [task EXCEPT ![h] = end]
  /\ revoked' = [revoked EXCEPT ![h] = TRUE]

\* disconnect_all, one session.
PopSession ==
  /\ pc \in {"unwinding", "disconnecting"}
  /\ Close(Last(sessions))
  /\ sessions' = Front(sessions)
  /\ pc' = IF Len(sessions) > 1 THEN pc ELSE IF pc = "unwinding" THEN "failed" ELSE "closed"
  /\ UNCHANGED <<total, hop, stopped, error>>

\* The future, or the chain, is dropped: every session cancels its token.
\* A hop that is being connected has no session yet that could do so.
Drop ==
  /\ pc \notin Over
  /\ pc' = "dropped"
  /\ revoked' = [h \in Hops |-> revoked[h] \/ h \in ToSet(sessions)]
  /\ sessions' = <<>>
  /\ UNCHANGED <<total, hop, stopped, task, error>>

\* The supervisor's token: cancelled by Stop at any time, and by the
\* supervisor itself after it has dropped a connect future.
Stop ==
  /\ ~stopped
  /\ stopped' = TRUE
  /\ UNCHANGED <<total, pc, hop, sessions, revoked, task, error>>

-----------------------------------------------------------------------------
(* russh, the user and the network.                                        *)

\* CancellableStream fails the next read or write, or the channel below is gone.
TransportEnds(h) ==
  /\ task[h] = "running"
  /\ Cancelled(h) \/ (h > 1 /\ task[h - 1] = "ended")
  /\ task' = [task EXCEPT ![h] = "ended"]
  /\ UNCHANGED <<total, pc, hop, sessions, stopped, revoked, error>>

NetworkFails(h) ==
  /\ task[h] = "running"
  /\ task' = [task EXCEPT ![h] = "ended"]
  /\ UNCHANGED <<total, pc, hop, sessions, stopped, revoked, error>>

\* The user answers, possibly for a handshake that was given up long ago.
Answer(h) ==
  /\ task[h] = "asking"
  /\ \E end \in {"running", "ended"} : task' = [task EXCEPT ![h] = end]
  /\ UNCHANGED <<total, pc, hop, sessions, stopped, revoked, error>>

-----------------------------------------------------------------------------

ConnectStep ==
  \/ BuildHops \/ Begin \/ Prepare \/ Dial \/ OpenChannel \/ HandshakeSucceeds \/ HandshakeFails
  \/ AuthenticateSucceeds \/ AuthenticateFails \/ PopSession

TransportStep == \E h \in Hops : TransportEnds(h) \/ NetworkFails(h) \/ Answer(h)

Next == ConnectStep \/ AskUser \/ Disconnect \/ Drop \/ Stop \/ TransportStep

Spec == Init /\ [][Next]_vars

(***************************************************************************)
(* Fairness: every await of the connection and of disconnect_all on the    *)
(* network has a deadline; reading a secret or a key file has none         *)
(* (manager.rs:902, client.rs:842) and is assumed to return; a cancelled   *)
(* transport is polled again and ends; and whoever drops a connect future  *)
(* cancels the token next (supervisor.rs:136, remote_supervisor.rs:75).    *)
(* Nothing is assumed of user and network.                                 *)
(***************************************************************************)
Fairness ==
  /\ WF_vars(ConnectStep)
  /\ \A h \in Hops : WF_vars(TransportEnds(h))
  /\ WF_vars(pc = "dropped" /\ Stop)

FairSpec == Spec /\ Fairness

-----------------------------------------------------------------------------
(* How the program keeps its books.                                        *)

Forward == {"building", "built", "preparing", "dialing", "opening", "handshaking",
            "authenticating"}

\* The sessions are those of the first hops, and as many as the program is past.
SessionsFollowProgram ==
  /\ pc \in {"preparing", "dialing", "opening", "handshaking", "authenticating"} => total \in Hops
  /\ Len(sessions) <= hop
  /\ \A i \in 1..Len(sessions) : sessions[i] = i
  /\ pc \in Forward => Len(sessions) = hop - 1
  /\ pc \in {"building", "built", "dialing"} => hop = 1
  /\ pc = "opening" => hop > 1
  /\ pc \in {"unwinding", "connected", "disconnecting"} => sessions # <<>>
  /\ pc \in Over => sessions = <<>>

\* A hop has no transport before its handshake, and on the way there no token
\* has been cancelled but the parent.
TransportsFollowProgram ==
  /\ \A h \in Hops : h > hop => task[h] = "none"
  /\ pc \in {"building", "built", "preparing", "dialing", "opening"} => task[hop] = "none"
  /\ pc \in Forward \cup {"connected"} => \A h \in Hops : ~revoked[h]

-----------------------------------------------------------------------------
(* Properties.                                                             *)

(***************************************************************************)
(* No transport is forgotten: one whose token is not cancelled belongs to  *)
(* a session that is still held, or to the hop that is being connected.    *)
(* The supervisor's promise that "any sessions it created are cancelled by *)
(* their owners" (supervisor.rs:127-129) rests on it; after a drop the hop *)
(* under way has no owner but the supervisor's token.                      *)
(***************************************************************************)
LiveTransportIsOwned ==
  \A h \in Hops :
    task[h] \in {"running", "asking"} /\ ~Cancelled(h) =>
      h \in ToSet(sessions) \/ (h = hop /\ pc \in {"handshaking", "authenticating", "dropped"})

(***************************************************************************)
(* Cancelled is classified as Blocked, a state that only the user ends     *)
(* (client.rs:138-142), so it is returned only when the tunnel was         *)
(* stopped, whichever of the tokens was looked at.                         *)
(***************************************************************************)
CancelledOnlyByStop == error = "Cancelled" => stopped

(***************************************************************************)
(* An attempt comes to an end, even if the user is asked and never         *)
(* answers; and once the program is done with the chain its transports end *)
(* too: only a task that waits for the user's decision stays for as long   *)
(* as that takes (client.rs:515-532, 699-706).                             *)
(***************************************************************************)
ConnectEnds ==
  /\ pc \in Connecting ~> pc \notin Connecting
  /\ \A h \in Hops : (pc \in Over /\ task[h] = "running") ~> task[h] = "ended"
=============================================================================
