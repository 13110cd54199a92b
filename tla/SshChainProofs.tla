--------------------------- MODULE SshChainProofs ---------------------------
(***************************************************************************)
(* Proofs about connecting and disconnecting a chain, for any MAX_HOPS.    *)
(***************************************************************************)
EXTENDS SshChain, SequenceTheorems, TLAPS

USE MaxHopsAssumption DEF Hops

\* The inductive invariant.
Inv == /\ TypeOK /\ SessionsFollowProgram /\ TransportsFollowProgram
       /\ LiveTransportIsOwned /\ CancelledOnlyByStop

\* The sessions held are those of the first Len(sessions) hops.
LEMMA SessionSet ==
  ASSUME NEW s \in Seq(Hops), \A i \in 1..Len(s) : s[i] = i
  PROVE  ToSet(s) = 1..Len(s)
  BY DEF ToSet

\* What Vec::push does to them.
LEMMA PushSession ==
  ASSUME NEW s \in Seq(Hops), \A i \in 1..Len(s) : s[i] = i,
         NEW h \in Hops, h = Len(s) + 1
  PROVE  LET t == Append(s, h) IN
         /\ t \in Seq(Hops) /\ t # <<>>
         /\ Len(t) = h
         /\ \A i \in 1..Len(t) : t[i] = i
  BY AppendProperties

\* What Vec::pop does to them.
LEMMA PopResult ==
  ASSUME NEW s \in Seq(Hops), \A i \in 1..Len(s) : s[i] = i, s # <<>>
  PROVE  /\ Last(s) = Len(s) /\ Len(s) \in Nat \ {0} /\ Last(s) \in Hops
         /\ Front(s) \in Seq(Hops)
         /\ Len(Front(s)) = Len(s) - 1
         /\ \A i \in 1..Len(Front(s)) : Front(s)[i] = i
         /\ Len(s) = 1 => Front(s) = <<>>
<1>1. Len(s) \in Nat \ {0} /\ Last(s) = Len(s) /\ Last(s) \in Hops
  BY EmptySeq, LenProperties, ElementOfSeq DEF Last
<1>2. \A i \in 1..(Len(s) - 1) : s[i] \in Hops
  BY <1>1, ElementOfSeq
<1>3. /\ Front(s) \in Seq(Hops)
      /\ Len(Front(s)) = Len(s) - 1
      /\ \A i \in 1..(Len(s) - 1) : Front(s)[i] = s[i]
  BY <1>1, <1>2, SubSeqProperties DEF Front
<1>4. Len(s) = 1 => Front(s) = <<>>
  BY <1>3, EmptySeq
<1> QED
  BY <1>1, <1>3, <1>4

\* A chain that is about to be connected satisfies the invariant.
LEMMA InitInv == Init => Inv
<1> SUFFICES ASSUME Init PROVE Inv
  OBVIOUS
<1>1. Len(sessions) = 0 /\ sessions \in Seq(Hops)
  BY EmptySeq DEF Init
<1>2. TypeOK
  <2>1. /\ total \in 0..(MaxHops + 1) /\ hop \in Hops
        /\ task \in [Hops -> {"none", "running", "asking", "ended"}]
    BY DEF Init
  <2>2. stopped \in BOOLEAN /\ revoked \in [Hops -> BOOLEAN]
    BY Zenon DEF Init
  <2> QED
    BY <1>1, <2>1, <2>2 DEF Init, TypeOK, Connecting, Over
<1>3. SessionsFollowProgram /\ TransportsFollowProgram
  BY <1>1 DEF Init, SessionsFollowProgram, TransportsFollowProgram, Forward, Over
<1>4. LiveTransportIsOwned /\ CancelledOnlyByStop
  BY DEF Init, LiveTransportIsOwned, CancelledOnlyByStop
<1> QED
  BY <1>2, <1>3, <1>4 DEF Inv

\* Every step of the connection, its owner, russh, the user and the network
\* preserves the invariant.
LEMMA NextInv == Inv /\ [Next]_vars => Inv'
<1> SUFFICES ASSUME Inv, [Next]_vars PROVE Inv'
  OBVIOUS
<1> USE DEF Inv
<1>s. /\ ToSet(sessions) = 1..Len(sessions) /\ Len(sessions) \in Nat
      /\ Len(sessions) = 0 <=> sessions = <<>>
  BY SessionSet, LenProperties, EmptySeq DEF TypeOK, SessionsFollowProgram
<1>1. CASE BuildHops
  BY <1>1, <1>s DEF BuildHops, GiveUp, TypeOK, SessionsFollowProgram, TransportsFollowProgram,
     LiveTransportIsOwned, CancelledOnlyByStop, Cancelled, Forward, Over, Connecting
<1>2. CASE Begin
  BY <1>2, <1>s DEF Begin, GiveUp, TypeOK, SessionsFollowProgram, TransportsFollowProgram,
     LiveTransportIsOwned, CancelledOnlyByStop, Cancelled, Forward, Over, Connecting
<1>3. CASE Prepare
  BY <1>3, <1>s DEF Prepare, Handshake, GiveUp, TypeOK, SessionsFollowProgram, TransportsFollowProgram,
     LiveTransportIsOwned, CancelledOnlyByStop, Cancelled, Forward, Over, Connecting
<1>4. CASE Dial
  BY <1>4, <1>s DEF Dial, Handshake, GiveUp, TypeOK, SessionsFollowProgram, TransportsFollowProgram,
     LiveTransportIsOwned, CancelledOnlyByStop, Cancelled, Forward, Over, Connecting
<1>5. CASE OpenChannel
  BY <1>5, <1>s DEF OpenChannel, GiveUp, TypeOK, SessionsFollowProgram, TransportsFollowProgram,
     LiveTransportIsOwned, CancelledOnlyByStop, Cancelled, Forward, Over, Connecting
<1>6. CASE HandshakeSucceeds
  BY <1>6, <1>s DEF HandshakeSucceeds, TypeOK, SessionsFollowProgram, TransportsFollowProgram,
     LiveTransportIsOwned, CancelledOnlyByStop, Cancelled, Forward, Over, Connecting
<1>7. CASE HandshakeFails
  BY <1>7, <1>s DEF HandshakeFails, GiveUp, TypeOK, SessionsFollowProgram, TransportsFollowProgram,
     LiveTransportIsOwned, CancelledOnlyByStop, Cancelled, Forward, Over, Connecting
<1>8. CASE AuthenticateSucceeds
  <2>1. /\ sessions' \in Seq(Hops) /\ sessions' # <<>>
        /\ Len(sessions') = hop
        /\ \A i \in 1..Len(sessions') : sessions'[i] = i
    BY <1>8, <1>s, PushSession DEF AuthenticateSucceeds, TypeOK, SessionsFollowProgram, Forward
  <2>2. ToSet(sessions') = 1..hop
    BY <2>1, SessionSet
  <2>3. TypeOK' /\ SessionsFollowProgram' /\ CancelledOnlyByStop'
    BY <1>8, <1>s, <2>1 DEF AuthenticateSucceeds, TypeOK, SessionsFollowProgram,
       CancelledOnlyByStop, Forward, Over, Connecting
  <2>4. TransportsFollowProgram'
    BY <1>8, <1>s DEF AuthenticateSucceeds, TypeOK, SessionsFollowProgram,
       TransportsFollowProgram, Forward
  <2>5. LiveTransportIsOwned'
    BY <1>8, <1>s, <2>2 DEF AuthenticateSucceeds, TypeOK, SessionsFollowProgram,
       LiveTransportIsOwned, Cancelled, Forward
  <2> QED
    BY <2>3, <2>4, <2>5
<1>9. CASE AuthenticateFails
  BY <1>9, <1>s DEF AuthenticateFails, GiveUp, TypeOK, SessionsFollowProgram, TransportsFollowProgram,
     LiveTransportIsOwned, CancelledOnlyByStop, Cancelled, Forward, Over, Connecting
<1>10. CASE PopSession
  <2>1. /\ Last(sessions) = Len(sessions) /\ Last(sessions) \in Hops
        /\ sessions' \in Seq(Hops)
        /\ Len(sessions') = Len(sessions) - 1
        /\ \A i \in 1..Len(sessions') : sessions'[i] = i
        /\ Len(sessions) = 1 => sessions' = <<>>
    BY <1>10, PopResult DEF PopSession, TypeOK, SessionsFollowProgram
  <2>2. ToSet(sessions') = 1..(Len(sessions) - 1)
    BY <2>1, SessionSet
  <2>3. Len(sessions) > 1 => sessions' # <<>>
    BY <1>s, <2>1, EmptySeq
  <2>4. TypeOK'
    BY <1>10, <2>1 DEF PopSession, Close, TypeOK, Over, Connecting
  <2>5. SessionsFollowProgram' /\ CancelledOnlyByStop'
    BY <1>10, <1>s, <2>1, <2>3 DEF PopSession, Close, TypeOK, SessionsFollowProgram,
       CancelledOnlyByStop, Forward, Over
  <2>6. TransportsFollowProgram'
    BY <1>10, <1>s, <2>1 DEF PopSession, Close, TypeOK, SessionsFollowProgram,
       TransportsFollowProgram, Forward
  <2>7. LiveTransportIsOwned'
    BY <1>10, <1>s, <2>1, <2>2 DEF PopSession, Close, TypeOK, LiveTransportIsOwned, Cancelled
  <2> QED
    BY <2>4, <2>5, <2>6, <2>7
<1>11. CASE AskUser
  BY <1>11, <1>s DEF AskUser, TypeOK, SessionsFollowProgram, TransportsFollowProgram,
     LiveTransportIsOwned, CancelledOnlyByStop, Cancelled, Forward, Over, Connecting
<1>12. CASE Disconnect
  BY <1>12, <1>s DEF Disconnect, TypeOK, SessionsFollowProgram, TransportsFollowProgram,
     LiveTransportIsOwned, CancelledOnlyByStop, Cancelled, Forward, Over, Connecting
<1>13. CASE Drop
  <2>1. sessions' \in Seq(Hops) /\ Len(sessions') = 0 /\ ToSet(sessions') = {}
    BY <1>13, EmptySeq DEF Drop, ToSet
  <2>2. /\ revoked' \in [Hops -> BOOLEAN]
        /\ \A h \in Hops : revoked'[h] <=> revoked[h] \/ h \in ToSet(sessions)
    BY <1>13, Zenon DEF Drop, TypeOK
  <2>3. TypeOK' /\ SessionsFollowProgram' /\ CancelledOnlyByStop'
    BY <1>13, <2>1, <2>2 DEF Drop, TypeOK, SessionsFollowProgram, CancelledOnlyByStop,
       Forward, Over, Connecting
  <2>4. TransportsFollowProgram'
    BY <1>13 DEF Drop, TransportsFollowProgram, Forward
  <2>5. LiveTransportIsOwned'
    BY <1>13, <2>2 DEF Drop, LiveTransportIsOwned, Cancelled
  <2> QED
    BY <2>3, <2>4, <2>5
<1>14. CASE Stop
  BY <1>14, <1>s DEF Stop, TypeOK, SessionsFollowProgram, TransportsFollowProgram,
     LiveTransportIsOwned, CancelledOnlyByStop, Cancelled, Forward, Over, Connecting
<1>15. CASE TransportStep
  <2>1. PICK h \in Hops : TransportEnds(h) \/ NetworkFails(h) \/ Answer(h)
    BY <1>15 DEF TransportStep
  <2>2. /\ task[h] \in {"running", "asking"}
        /\ \E end \in {"running", "ended"} : task' = [task EXCEPT ![h] = end]
        /\ UNCHANGED <<total, pc, hop, sessions, stopped, revoked, error>>
    BY <2>1 DEF TransportEnds, NetworkFails, Answer
  <2>3. TypeOK' /\ SessionsFollowProgram' /\ CancelledOnlyByStop'
    BY <2>2 DEF TypeOK, SessionsFollowProgram, CancelledOnlyByStop
  <2>4. TransportsFollowProgram'
    BY <2>2 DEF TypeOK, TransportsFollowProgram
  <2>5. LiveTransportIsOwned'
    BY <2>2 DEF TypeOK, LiveTransportIsOwned, Cancelled
  <2> QED
    BY <2>3, <2>4, <2>5
<1>16. CASE UNCHANGED vars
  BY <1>16 DEF vars, TypeOK, SessionsFollowProgram, TransportsFollowProgram,
     LiveTransportIsOwned, CancelledOnlyByStop, Cancelled
<1> QED
  BY <1>1, <1>2, <1>3, <1>4, <1>5, <1>6, <1>7, <1>8, <1>9, <1>10, <1>11, <1>12, <1>13, <1>14,
     <1>15, <1>16 DEF Next, ConnectStep

\* In every behaviour the variables keep their types.
THEOREM TypeCorrect == Spec => []TypeOK
<1>1. Inv => TypeOK
  BY DEF Inv
<1> QED
  BY <1>1, InitInv, NextInv, PTL DEF Spec

\* No transport is forgotten: one that is served and not cancelled belongs to
\* a session that is held or to the hop under way, for chains of any length
\* (chain.rs, client.rs).
THEOREM LiveTransportIsOwnedTheorem == Spec => []LiveTransportIsOwned
<1>1. Inv => LiveTransportIsOwned
  BY DEF Inv
<1> QED
  BY <1>1, InitInv, NextInv, PTL DEF Spec

\* Connecting returns Cancelled only when the tunnel was stopped
\* (client.rs:138-142).
THEOREM CancelledOnlyByStopTheorem == Spec => []CancelledOnlyByStop
<1>1. Inv => CancelledOnlyByStop
  BY DEF Inv
<1> QED
  BY <1>1, InitInv, NextInv, PTL DEF Spec
=============================================================================
