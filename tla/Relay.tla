------------------------------- MODULE Relay -------------------------------
(***************************************************************************)
(* Forwarding the bytes of connections, crates/forwarding/src/relay.rs.    *)
(*                                                                         *)
(* relay_bidirectional runs copy_direction twice: "up" from the local      *)
(* client to the SSH channel and "down" back.  Each direction reads a      *)
(* chunk into its buffer, writes it out piece by piece, and after the end  *)
(* of its input shuts the other side's writer down, while the opposite     *)
(* direction goes on (half-close).  The n-th byte sent in a direction is   *)
(* the number n, so that lost, repeated and reordered bytes can be told    *)
(* apart.  The cancellation token is looked at by the composing module.    *)
(***************************************************************************)
EXTENDS Naturals, Sequences, FiniteSetsExt

CONSTANTS
  Clients,       \* the connections
  Bytes,         \* how many bytes the source of each direction may send
  BufferBytes    \* RELAY_BUFFER_BYTES, 16 KiB in the code

ASSUME ClientsAssumption     == IsFiniteSet(Clients)
ASSUME BytesAssumption       == Bytes \in [Clients \X {"up", "down"} -> Nat]
ASSUME BufferBytesAssumption == BufferBytes \in Nat \ {0}

VARIABLES
  sent,       \* bytes the source of a direction has sent
  eof,        \* the source has finished
  taken,      \* bytes that have been read
  chunk,      \* read into the buffer and not written yet
  received,   \* what the other side has got
  shut,       \* the writer was shut down, copy_direction has returned
  traffic,    \* TrafficCounters.uploaded and downloaded
  active      \* TrafficCounters.active_connections

relayVars == <<sent, eof, taken, chunk, received, shut, traffic, active>>

Directions == {"up", "down"}
Streams == Clients \X Directions

RelayTypeOK ==
  /\ sent \in [Streams -> Nat]
  /\ eof \in [Streams -> BOOLEAN]
  /\ taken \in [Streams -> Nat]
  /\ chunk \in [Streams -> Seq(Nat)]
  /\ received \in [Streams -> Seq(Nat)]
  /\ shut \in [Streams -> BOOLEAN]
  /\ traffic \in [Directions -> Nat]
  /\ active \in 0..Cardinality(Clients)

\* Counters and streams of a new worker: at first, and when one is built.
FreshStreams ==
  /\ sent = [s \in Streams |-> 0]
  /\ eof = [s \in Streams |-> FALSE]
  /\ taken = [s \in Streams |-> 0]
  /\ chunk = [s \in Streams |-> <<>>]
  /\ received = [s \in Streams |-> <<>>]
  /\ shut = [s \in Streams |-> FALSE]
  /\ traffic = [d \in Directions |-> 0]
  /\ active = 0

NewStreams ==
  /\ sent' = [s \in Streams |-> 0]
  /\ eof' = [s \in Streams |-> FALSE]
  /\ taken' = [s \in Streams |-> 0]
  /\ chunk' = [s \in Streams |-> <<>>]
  /\ received' = [s \in Streams |-> <<>>]
  /\ shut' = [s \in Streams |-> FALSE]
  /\ traffic' = [d \in Directions |-> 0]
  /\ active' = 0

\* The relays of these clients return, or are aborted: their sockets and buffers
\* are dropped.  What was delivered, and counted, stays so.
DropStreams(clients) ==
  /\ sent' = [s \in Streams |-> IF s[1] \in clients THEN 0 ELSE sent[s]]
  /\ eof' = [s \in Streams |-> s[1] \notin clients /\ eof[s]]
  /\ taken' = [s \in Streams |-> IF s[1] \in clients THEN 0 ELSE taken[s]]
  /\ chunk' = [s \in Streams |-> IF s[1] \in clients THEN <<>> ELSE chunk[s]]
  /\ shut' = [s \in Streams |-> s[1] \notin clients /\ shut[s]]
  /\ UNCHANGED <<received, traffic>>

-----------------------------------------------------------------------------
(* The two ends of a connection.                                           *)

SourceSends(s) ==
  /\ ~eof[s]
  /\ sent[s] < Bytes[s]
  /\ sent' = [sent EXCEPT ![s] = @ + 1]
  /\ UNCHANGED <<eof, taken, chunk, received, shut, traffic, active>>

\* The end of the input: a FIN of the client, an EOF or the loss of the channel.
SourceEnds(s) ==
  /\ ~eof[s]
  /\ eof' = [eof EXCEPT ![s] = TRUE]
  /\ UNCHANGED <<sent, taken, chunk, received, shut, traffic, active>>

-----------------------------------------------------------------------------
(* copy_direction                                                          *)

\* A read returns some of the bytes that have arrived.
ReadChunk(s) ==
  /\ chunk[s] = <<>>
  /\ \E n \in 1..BufferBytes :
       /\ taken[s] + n <= sent[s]
       /\ chunk' = [chunk EXCEPT ![s] = [i \in 1..n |-> taken[s] + i]]
       /\ taken' = [taken EXCEPT ![s] = @ + n]
  /\ UNCHANGED <<sent, eof, received, shut, traffic, active>>

\* Mutant of WriteChunk: a short write is taken for a complete one.
WriteChunkMutant(s) ==
  /\ chunk[s] # <<>>
  /\ \E n \in 1..Len(chunk[s]) :
       /\ received' = [received EXCEPT ![s] = @ \o SubSeq(chunk[s], 1, n)]
       /\ chunk' = [chunk EXCEPT ![s] = <<>>]
       /\ traffic' = [traffic EXCEPT ![s[2]] = @ + n]
  /\ UNCHANGED <<sent, eof, taken, shut, active>>

\* write accepts some of the buffer; the rest is written by the next calls.
WriteChunk(s) ==
  /\ chunk[s] # <<>>
  /\ \E n \in 1..Len(chunk[s]) :
       /\ received' = [received EXCEPT ![s] = @ \o SubSeq(chunk[s], 1, n)]
       /\ chunk' = [chunk EXCEPT ![s] = SubSeq(@, n + 1, Len(@))]
       /\ traffic' = [traffic EXCEPT ![s[2]] = @ + n]
  /\ UNCHANGED <<sent, eof, taken, shut, active>>

\* A read returns 0: the writer is shut down and the direction is done.
ForwardEof(s) ==
  /\ chunk[s] = <<>>
  /\ taken[s] = sent[s]
  /\ eof[s]
  /\ ~shut[s]
  /\ shut' = [shut EXCEPT ![s] = TRUE]
  /\ UNCHANGED <<sent, eof, taken, chunk, received, traffic, active>>

CopyDirection(s) == ReadChunk(s) \/ WriteChunk(s) \/ ForwardEof(s)

\* try_join! returns when both directions have.
BothShut(c) == \A d \in Directions : shut[<<c, d>>]

-----------------------------------------------------------------------------

\* Each stream by itself, and the counters over all of them.
StreamsAreInOrder ==
  \A s \in Streams :
    /\ \A i \in 1..Len(received[s]) : received[s][i] = i
    /\ shut[s] => eof[s] /\ Len(received[s]) = sent[s]

TrafficIsCounted ==
  \A d \in Directions : traffic[d] = SumFunction([c \in Clients |-> Len(received[<<c, d>>])])

(***************************************************************************)
(* Whatever the sizes of the reads and writes, each side gets a prefix of  *)
(* what the other has sent, in order; its end is forwarded only when       *)
(* everything has arrived; and the counters say what was delivered.        *)
(* TunnelWarden_SPEC.md:1902-1930.                                         *)
(***************************************************************************)
StreamsAreFaithful == StreamsAreInOrder /\ TrafficIsCounted
=============================================================================
