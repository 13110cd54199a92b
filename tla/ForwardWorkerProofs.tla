------------------------ MODULE ForwardWorkerProofs ------------------------
(***************************************************************************)
(* Proofs about the lifecycle state machine, for every listener mode,      *)
(* every last generation, every chain length and every journal limit; and  *)
(* about a worker that drives it, its listener and its relays, for every   *)
(* finite set of clients, every limit of connections, every buffer size    *)
(* and every number of bytes.                                              *)
(***************************************************************************)
EXTENDS ForwardWorker, FiniteSetTheorems, SequenceTheorems, TLAPS

-----------------------------------------------------------------------------
(* What SumFunction computes.  The library defines it with a recursive     *)
(* function on sets, and none of its theorems says that there is one; so   *)
(* that comes first, and then what a change of one summand does.           *)

\* A set of natural numbers that is not empty has a least element.
LEMMA LeastNat ==
  ASSUME NEW S, S \subseteq Nat, S # {}
  PROVE  \E x \in S : \A y \in S : x <= y
<1>1. PICK x \in S : \A y \in S : ~(<<y, x>> \in OpToRel(<, Nat))
  BY NatLessThanWellFounded, WFMin
<1>2. \A y \in S : ~(y < x)
  BY <1>1 DEF OpToRel
<1> QED
  BY <1>2

Pick(s) == CHOOSE x \in s : TRUE
Rest(s) == s \ {Pick(s)}

\* One step of the sum of f over s, when F has the sums over smaller sets.
SumStep(F, f, s) == IF s = {} THEN 0 ELSE f[Pick(s)] + F[Rest(s)]
Sums(F, f, S)    == F = [s \in SUBSET S |-> SumStep(F, f, s)]

\* What the library's definition says, with the steps named.
LEMMA SumFunctionIs ==
  ASSUME NEW f
  PROVE  SumFunction(f) = (CHOOSE F : Sums(F, f, DOMAIN f))[DOMAIN f]
  BY Zenon DEF SumFunction, SumFunctionOnSet, FoldFunctionOnSet, MapThenFoldSet, Sums, SumStep,
               Pick, Rest

\* What is left of a subset is a smaller one.
LEMMA RestIsSmaller ==
  ASSUME NEW S, IsFiniteSet(S), NEW s \in SUBSET S, s # {}
  PROVE  /\ Pick(s) \in s /\ Rest(s) \in SUBSET S
         /\ Cardinality(s) \in Nat \ {0}
         /\ Cardinality(Rest(s)) = Cardinality(s) - 1
<1>1. Pick(s) \in s
  BY DEF Pick
<1>2. IsFiniteSet(s)
  BY FS_Subset
<1> QED
  BY <1>1, <1>2, FS_CardinalityType, FS_EmptySet, FS_RemoveElement DEF Rest

\* What holds of the empty set, and of every set if it holds of the rest,
\* holds of every subset of a finite set.
LEMMA SubsetInduction ==
  ASSUME NEW S, IsFiniteSet(S), NEW P, {} \in P,
         \A s \in SUBSET S : s # {} /\ Rest(s) \in P => s \in P
  PROVE  \A s \in SUBSET S : s \in P
<1> DEFINE Sizes == {Cardinality(s) : s \in {t \in SUBSET S : t \notin P}}
<1> SUFFICES ASSUME Sizes # {} PROVE FALSE
  OBVIOUS
<1>1. Sizes \subseteq Nat
  BY FS_Subset, FS_CardinalityType
<1>2. PICK n \in Sizes : \A m \in Sizes : n <= m
  BY <1>1, LeastNat
<1>3. PICK s \in SUBSET S : s \notin P /\ Cardinality(s) = n
  BY <1>2
<1>4. s # {}
  BY <1>3
<1>5. /\ Rest(s) \in SUBSET S /\ n \in Nat
      /\ Cardinality(Rest(s)) = n - 1
  BY <1>3, <1>4, RestIsSmaller
<1>6. Rest(s) \notin P
  BY <1>3, <1>4
<1>7. Cardinality(Rest(s)) \in Sizes
  BY <1>5, <1>6
<1>8. n <= n - 1
  BY <1>2, <1>5, <1>7
<1> QED
  BY <1>5, <1>8

\* There is a function that has all the sums.
LEMMA SumsExist ==
  ASSUME NEW S, IsFiniteSet(S), NEW f
  PROVE  \E F : Sums(F, f, S)
<1> DEFINE Good(F, n) == \A s \in SUBSET S : Cardinality(s) <= n => F[s] = SumStep(F, f, s)
           Bad == {n \in Nat : ~ \E F : Good(F, n)}
<1>1. Bad = {}
  <2> SUFFICES ASSUME Bad # {} PROVE FALSE
    OBVIOUS
  <2>1. PICK n \in Bad : \A m \in Bad : n <= m
    BY LeastNat
  <2>2. CASE n = 0
    <3>1. \A s \in SUBSET S : Cardinality(s) <= 0 => s = {}
      BY RestIsSmaller
    <3>2. Good([s \in SUBSET S |-> 0], 0)
      BY <3>1 DEF SumStep
    <3> QED
      BY <2>1, <2>2, <3>2
  <2>3. CASE n # 0
    <3>1. n - 1 \in Nat /\ n - 1 \notin Bad
      BY <2>1, <2>3
    <3>2. PICK F : Good(F, n - 1)
      BY <3>1
    <3> DEFINE G == [s \in SUBSET S |-> SumStep(F, f, s)]
    <3>3. ASSUME NEW s \in SUBSET S, Cardinality(s) <= n
          PROVE  G[s] = SumStep(G, f, s)
      <4>1. CASE s = {}
        BY <4>1 DEF SumStep
      <4>2. CASE s # {}
        <5>1. Rest(s) \in SUBSET S /\ Cardinality(Rest(s)) <= n - 1
          BY <3>1, <3>3, <4>2, RestIsSmaller
        <5>2. F[Rest(s)] = SumStep(F, f, Rest(s))
          BY <3>2, <5>1
        <5>3. F[Rest(s)] = G[Rest(s)]
          BY <5>1, <5>2
        <5> QED
          BY <4>2, <5>3 DEF SumStep
      <4> QED
        BY <4>1, <4>2
    <3>4. Good(G, n)
      BY <3>3
    <3> QED
      BY <2>1, <3>4
  <2> QED
    BY <2>2, <2>3
<1>2. Cardinality(S) \in Nat /\ \A s \in SUBSET S : Cardinality(s) <= Cardinality(S)
  BY FS_CardinalityType, FS_Subset
<1>3. PICK F : Good(F, Cardinality(S))
  BY <1>1, <1>2
<1> DEFINE G == [s \in SUBSET S |-> SumStep(F, f, s)]
<1>4. \A s \in SUBSET S : G[s] = F[s]
  BY <1>2, <1>3
<1>5. \A s \in SUBSET S : SumStep(G, f, s) = SumStep(F, f, s)
  BY <1>4, RestIsSmaller DEF SumStep
<1>6. Sums(G, f, S)
  BY <1>5 DEF Sums
<1> QED
  BY <1>6

\* F has the sums of f over all subsets of S.
HasSums(F, f, S) == \A s \in SUBSET S : F[s] = SumStep(F, f, s) /\ F[s] \in Nat

\* SumFunction is the last value of such a function.
LEMMA SumFunctionFacts ==
  ASSUME NEW S, IsFiniteSet(S), NEW f \in [S -> Nat]
  PROVE  \E F : SumFunction(f) = F[S] /\ HasSums(F, f, S)
<1>1. DOMAIN f = S
  OBVIOUS
<1> DEFINE F == CHOOSE F : Sums(F, f, S)
<1>2. SumFunction(f) = F[S]
  BY <1>1, SumFunctionIs
<1>3. Sums(F, f, S)
  BY SumsExist
<1> HIDE DEF F
<1>4. \A s \in SUBSET S : F[s] = SumStep(F, f, s)
  BY <1>3 DEF Sums
<1> DEFINE P == {s \in SUBSET S : F[s] \in Nat}
<1>5. {} \in P
  BY <1>4 DEF SumStep
<1>6. ASSUME NEW s \in SUBSET S, s # {}, Rest(s) \in P
      PROVE  s \in P
  <2>1. f[Pick(s)] \in Nat
    BY <1>6, RestIsSmaller
  <2> QED
    BY <1>4, <1>6, <2>1 DEF SumStep
<1> HIDE DEF P
<1>7. \A s \in SUBSET S : s \in P
  BY <1>5, <1>6, SubsetInduction
<1> QED
  BY <1>2, <1>4, <1>7 DEF P, HasSums

\* Nothing sums up to nothing.
LEMMA SumOfZeros ==
  ASSUME NEW S, IsFiniteSet(S)
  PROVE  SumFunction([x \in S |-> 0]) = 0
<1> DEFINE f == [x \in S |-> 0]
<1>0. f \in [S -> Nat]
  OBVIOUS
<1> HIDE DEF f
<1>1. PICK F : SumFunction(f) = F[S] /\ HasSums(F, f, S)
  BY <1>0, SumFunctionFacts
<1> DEFINE P == {s \in SUBSET S : F[s] = 0}
<1>2. {} \in P
  BY <1>1 DEF SumStep, HasSums
<1>3. ASSUME NEW s \in SUBSET S, s # {}, Rest(s) \in P
      PROVE  s \in P
  <2>1. f[Pick(s)] = 0
    BY <1>3, RestIsSmaller DEF f
  <2> QED
    BY <1>1, <1>3, <2>1 DEF SumStep, HasSums
<1> HIDE DEF P
<1>4. \A s \in SUBSET S : s \in P
  BY <1>2, <1>3, SubsetInduction
<1>5. S \in P
  BY <1>4
<1> QED
  BY <1>1, <1>5 DEF P, f

\* What is added to one summand is added to the sum.
LEMMA SumGrows ==
  ASSUME NEW S, IsFiniteSet(S), NEW f \in [S -> Nat], NEW x \in S, NEW n \in Nat
  PROVE  SumFunction([f EXCEPT ![x] = f[x] + n]) = SumFunction(f) + n
<1> DEFINE g == [f EXCEPT ![x] = f[x] + n]
<1>0. /\ g \in [S -> Nat] /\ g[x] = f[x] + n
      /\ \A y \in S \ {x} : g[y] = f[y]
  OBVIOUS
<1> HIDE DEF g
<1>1. PICK F : SumFunction(f) = F[S] /\ HasSums(F, f, S)
  BY SumFunctionFacts
<1>2. PICK G : SumFunction(g) = G[S] /\ HasSums(G, g, S)
  BY <1>0, SumFunctionFacts
<1> DEFINE P == {s \in SUBSET S : G[s] = F[s] + (IF x \in s THEN n ELSE 0)}
<1>3. {} \in P
  BY <1>1, <1>2 DEF SumStep, HasSums
<1>4. ASSUME NEW s \in SUBSET S, s # {}, Rest(s) \in P
      PROVE  s \in P
  <2>1. /\ Pick(s) \in s /\ Rest(s) \in SUBSET S
        /\ f[Pick(s)] \in Nat /\ F[Rest(s)] \in Nat
    BY <1>1, <1>4, RestIsSmaller DEF HasSums
  <2>2. F[s] = f[Pick(s)] + F[Rest(s)] /\ G[s] = g[Pick(s)] + G[Rest(s)]
    BY <1>1, <1>2, <1>4 DEF SumStep, HasSums
  <2>3. CASE Pick(s) = x
    <3>1. x \in s /\ x \notin Rest(s)
      BY <2>1, <2>3 DEF Rest
    <3>2. G[Rest(s)] = F[Rest(s)] + 0
      BY <1>4, <3>1
    <3> QED
      BY <1>0, <2>1, <2>2, <2>3, <3>1, <3>2
  <2>4. CASE Pick(s) # x
    <3>1. x \in s <=> x \in Rest(s)
      BY <2>4 DEF Rest
    <3>2. g[Pick(s)] = f[Pick(s)]
      BY <1>0, <2>1, <2>4
    <3> QED
      BY <1>4, <2>1, <2>2, <3>1, <3>2
  <2> QED
    BY <2>3, <2>4
<1> HIDE DEF P
<1>5. \A s \in SUBSET S : s \in P
  BY <1>3, <1>4, SubsetInduction
<1>6. S \in P
  BY <1>5
<1> QED
  BY <1>1, <1>2, <1>6 DEF P, HasSums, g

\* The same for the sums that the counters are compared with.
LEMMA ClientSumGrows ==
  ASSUME NEW f \in [Clients -> Nat], NEW c \in Clients, NEW n \in Nat
  PROVE  SumFunction([f EXCEPT ![c] = f[c] + n]) = SumFunction(f) + n
<1>1. IsFiniteSet(Clients)
  BY ClientsAssumption
<1> QED
  BY <1>1, SumGrows, ZenonT(60)

-----------------------------------------------------------------------------
(* The lifecycle state machine on its own.                                 *)

\* The inductive invariant: the parts of the safety property hold each
\* other up, so they are proved together.
Inv ==
  /\ TypeOK
  /\ HealthFollowsPhase
  /\ OnlyCurrentGeneration
  /\ AppliedCommandHolds
  /\ OneShutdownOwed

USE ListenerRequiredAssumption, MaxGenerationAssumption, MaxHopsAssumption,
    JournalLimitAssumption

\* The machine is created (StateMachine::new) in a state of the invariant.
LEMMA InitInv == Init => Inv
<1> SUFFICES ASSUME Init PROVE Inv
  OBVIOUS
<1> USE DEF Init, Plain, phase, DefaultHealth, ReleasedListener
<1>1. TypeOK
  <2>1. runtime \in RuntimeState
    BY DEF RuntimeState, PlainPhase
  <2>2. listener \in ListenerState
    BY DEF ListenerState
  <2>3. health \in HealthState
    BY DEF HealthState, PingLimit
  <2>4. generation \in 0..MaxGeneration /\ journal \in Seq(JournalEntry)
    OBVIOUS
  <2>5. command \in Command
    BY DEF Command
  <2> QED
    BY <2>1, <2>2, <2>3, <2>4, <2>5 DEF TypeOK
<1>2. HealthFollowsPhase
  BY DEF HealthFollowsPhase, HopPhase
<1>3. OnlyCurrentGeneration
  BY DEF OnlyCurrentGeneration
<1>4. AppliedCommandHolds
  BY DEF AppliedCommandHolds, DesiredAgreesWithPhase
<1>5. OneShutdownOwed
  BY DEF OneShutdownOwed
<1> QED
  BY <1>1, <1>2, <1>3, <1>4, <1>5 DEF Inv

\* The values that begin, Interrupt and ShutdownComplete reset to.
LEMMA DefaultTypes == DefaultHealth \in HealthState /\ ReleasedListener \in ListenerState
<1>1. DefaultHealth \in HealthState
  BY DEF DefaultHealth, HealthState, PingLimit
<1>2. ReleasedListener \in ListenerState
  BY DEF ReleasedListener, ListenerState
<1> QED
  BY <1>1, <1>2

\* record keeps the journal a sequence of entries.
LEMMA RecordType ==
  ASSUME TypeOK, Record, runtime' \in RuntimeState, generation' \in Nat
  PROVE  journal' \in Seq(JournalEntry)
<1>1. phase \in Phases /\ runtime'.phase \in Phases
  BY DEF TypeOK, RuntimeState, phase, Phases
<1> DEFINE entry == [from |-> phase, to |-> runtime'.phase, generation |-> generation']
           kept == IF Len(journal) = JournalLimit THEN Tail(journal) ELSE journal
<1>2. entry \in JournalEntry
  BY <1>1 DEF JournalEntry
<1>3. kept \in Seq(JournalEntry)
  BY DEF TypeOK
<1>4. Append(kept, entry) \in Seq(JournalEntry)
  BY <1>2, <1>3
<1> QED
  BY <1>4 DEF Record

-----------------------------------------------------------------------------
(* One lemma for each event: it preserves the invariant.                   *)

\* Event::Start begins a generation, state_machine.rs:241-248.
LEMMA StartInv ==
  ASSUME Inv, Start
  PROVE  Inv'
<1> USE DEF Inv, phase, Start, NextGeneration, Begin
<1>1. runtime' \in RuntimeState
  BY DEF TypeOK, RuntimeState, Starting, StartPhase
<1>2. generation' \in 0..MaxGeneration /\ generation' \in Nat
  BY DEF TypeOK
<1>3. listener' \in ListenerState
  BY DefaultTypes DEF TypeOK, ListenerState
<1>4. health' \in HealthState
  BY DefaultTypes DEF TypeOK
<1>5. TypeOK'
  BY <1>1, <1>2, <1>3, <1>4, RecordType DEF TypeOK, Issued, Answer, Command
<1>6. HealthFollowsPhase'
  BY DEF TypeOK, HealthFollowsPhase, DefaultHealth, HealthState, PingLimit, HopPhase, Starting
<1>7. OnlyCurrentGeneration'
  BY DEF TypeOK, OnlyCurrentGeneration, ListenerState, ReleasedListener, DefaultHealth,
         HealthState, AppliedCommandHolds, DesiredAgreesWithPhase,
         HealthFollowsPhase, Starting
<1>8. AppliedCommandHolds'
  BY DEF TypeOK, AppliedCommandHolds, DesiredAgreesWithPhase, Answer, Starting
<1>9. OneShutdownOwed'
  BY DEF TypeOK, OneShutdownOwed, Starting
<1> QED
  BY <1>5, <1>6, <1>7, <1>8, <1>9

\* Event::Stop of an active tunnel opens the generation of its shutdown.
LEMMA StopInv ==
  ASSUME Inv, Stop
  PROVE  Inv'
<1> USE DEF Inv, phase, Stop, NextGeneration, Interrupt
<1>1. runtime' \in RuntimeState
  BY DEF TypeOK, RuntimeState, Plain, PlainPhase
<1>2. generation' \in 0..MaxGeneration /\ generation' \in Nat
  BY DEF TypeOK
<1>3. listener' \in ListenerState
  BY DefaultTypes DEF TypeOK, ListenerState
<1>4. health' \in HealthState
  BY DefaultTypes DEF TypeOK
<1>5. TypeOK'
  BY <1>1, <1>2, <1>3, <1>4, RecordType DEF TypeOK, Issued, Answer, Command
<1>6. HealthFollowsPhase'
  BY DEF TypeOK, HealthFollowsPhase, DefaultHealth, HealthState, PingLimit, HopPhase, Plain
<1>7. OnlyCurrentGeneration'
  BY DEF TypeOK, OnlyCurrentGeneration, ListenerState, ReleasedListener, DefaultHealth,
         HealthState, AppliedCommandHolds, DesiredAgreesWithPhase,
         HealthFollowsPhase, Plain
<1>8. AppliedCommandHolds'
  BY DEF TypeOK, AppliedCommandHolds, DesiredAgreesWithPhase, Answer, Plain
<1>9. OneShutdownOwed'
  BY DEF TypeOK, OneShutdownOwed, Plain
<1> QED
  BY <1>5, <1>6, <1>7, <1>8, <1>9

\* Event::Stop of a tunnel that is down or going down changes nothing.
LEMMA StopNoChangeInv ==
  ASSUME Inv, StopNoChange
  PROVE  Inv'
<1> USE DEF Inv, phase, StopNoChange
<1>1. runtime' \in RuntimeState
  BY DEF TypeOK
<1>2. generation' \in 0..MaxGeneration /\ generation' \in Nat
  BY DEF TypeOK
<1>3. listener' \in ListenerState
  BY DefaultTypes DEF TypeOK, ListenerState
<1>4. health' \in HealthState
  BY DefaultTypes DEF TypeOK
<1>5. TypeOK'
  BY <1>1, <1>2, <1>3, <1>4 DEF TypeOK, Issued, Answer, Command
<1>6. HealthFollowsPhase'
  BY DEF TypeOK, HealthFollowsPhase, DefaultHealth, HealthState, PingLimit, HopPhase
<1>7. OnlyCurrentGeneration'
  BY DEF TypeOK, OnlyCurrentGeneration, ListenerState, ReleasedListener, DefaultHealth,
         HealthState, AppliedCommandHolds, DesiredAgreesWithPhase,
         HealthFollowsPhase
<1>8. AppliedCommandHolds'
  BY DEF TypeOK, AppliedCommandHolds, DesiredAgreesWithPhase, Answer
<1>9. OneShutdownOwed'
  BY DEF TypeOK, OneShutdownOwed
<1> QED
  BY <1>5, <1>6, <1>7, <1>8, <1>9

\* Event::Restart begins a generation or interrupts the present one.
LEMMA RestartInv ==
  ASSUME Inv, Restart
  PROVE  Inv'
<1> USE DEF Inv, phase, Restart, NextGeneration, Begin, Interrupt
<1>1. runtime' \in RuntimeState
  BY DEF TypeOK, RuntimeState, Starting, Plain, StartPhase, PlainPhase
<1>2. generation' \in 0..MaxGeneration /\ generation' \in Nat
  BY DEF TypeOK
<1>3. listener' \in ListenerState
  BY DefaultTypes DEF TypeOK, ListenerState
<1>4. health' \in HealthState
  BY DefaultTypes DEF TypeOK
<1>5. TypeOK'
  BY <1>1, <1>2, <1>3, <1>4, RecordType DEF TypeOK, Issued, Answer, Command
<1>6. HealthFollowsPhase'
  BY DEF TypeOK, HealthFollowsPhase, DefaultHealth, HealthState, PingLimit, HopPhase, Starting, Plain
<1>7. OnlyCurrentGeneration'
  BY DEF TypeOK, OnlyCurrentGeneration, ListenerState, ReleasedListener, DefaultHealth,
         HealthState, AppliedCommandHolds, DesiredAgreesWithPhase,
         HealthFollowsPhase, Starting, Plain
<1>8. AppliedCommandHolds'
  BY DEF TypeOK, AppliedCommandHolds, DesiredAgreesWithPhase, Answer, Starting, Plain
<1>9. OneShutdownOwed'
  BY DEF TypeOK, OneShutdownOwed, Starting, Plain
<1> QED
  BY <1>5, <1>6, <1>7, <1>8, <1>9

\* Event::Restart of a tunnel that is going down changes nothing.
LEMMA RestartNoChangeInv ==
  ASSUME Inv, RestartNoChange
  PROVE  Inv'
<1> USE DEF Inv, phase, RestartNoChange
<1>1. runtime' \in RuntimeState
  BY DEF TypeOK
<1>2. generation' \in 0..MaxGeneration /\ generation' \in Nat
  BY DEF TypeOK
<1>3. listener' \in ListenerState
  BY DefaultTypes DEF TypeOK, ListenerState
<1>4. health' \in HealthState
  BY DefaultTypes DEF TypeOK
<1>5. TypeOK'
  BY <1>1, <1>2, <1>3, <1>4 DEF TypeOK, Issued, Answer, Command
<1>6. HealthFollowsPhase'
  BY DEF TypeOK, HealthFollowsPhase, DefaultHealth, HealthState, PingLimit, HopPhase
<1>7. OnlyCurrentGeneration'
  BY DEF TypeOK, OnlyCurrentGeneration, ListenerState, ReleasedListener, DefaultHealth,
         HealthState, AppliedCommandHolds, DesiredAgreesWithPhase,
         HealthFollowsPhase
<1>8. AppliedCommandHolds'
  BY DEF TypeOK, AppliedCommandHolds, DesiredAgreesWithPhase, Answer
<1>9. OneShutdownOwed'
  BY DEF TypeOK, OneShutdownOwed
<1> QED
  BY <1>5, <1>6, <1>7, <1>8, <1>9

\* Event::ConfigChanged makes everything in flight stale.
LEMMA ConfigChangedInv ==
  ASSUME Inv, ConfigChanged
  PROVE  Inv'
<1> USE DEF Inv, phase, ConfigChanged, NextGeneration, Interrupt
<1>1. runtime' \in RuntimeState
  BY DEF TypeOK, RuntimeState, Plain, PlainPhase
<1>2. generation' \in 0..MaxGeneration /\ generation' \in Nat
  BY DEF TypeOK
<1>3. listener' \in ListenerState
  BY DefaultTypes DEF TypeOK, ListenerState
<1>4. health' \in HealthState
  BY DefaultTypes DEF TypeOK
<1>5. TypeOK'
  BY <1>1, <1>2, <1>3, <1>4, RecordType DEF TypeOK, Issued
<1>6. HealthFollowsPhase'
  BY DEF TypeOK, HealthFollowsPhase, DefaultHealth, HealthState, PingLimit, HopPhase, Plain
<1>7. OnlyCurrentGeneration'
  BY DEF TypeOK, OnlyCurrentGeneration, ListenerState, ReleasedListener, DefaultHealth,
         HealthState, AppliedCommandHolds, DesiredAgreesWithPhase,
         HealthFollowsPhase, Plain
<1>8. AppliedCommandHolds'
  <2>1. CASE phase = "Stopped"
    BY <2>1 DEF AppliedCommandHolds, DesiredAgreesWithPhase
  <2>2. CASE phase # "Stopped"
    <3>1. restart_after_shutdown' = (desired' = "Running") /\ runtime'.phase = "Stopping"
      BY <2>2 DEF Plain
    <3> QED
      BY <3>1 DEF AppliedCommandHolds, DesiredAgreesWithPhase, TypeOK
  <2> QED
    BY <2>1, <2>2
<1>9. OneShutdownOwed'
  BY DEF TypeOK, OneShutdownOwed, Plain
<1> QED
  BY <1>5, <1>6, <1>7, <1>8, <1>9

\* Event::ShutdownComplete ends the shutdown it was owed for.
LEMMA ShutdownCompleteInv ==
  ASSUME Inv, NEW g \in cleanup, ShutdownComplete(g)
  PROVE  Inv'
<1> USE DEF Inv, phase, ShutdownComplete, Begin, Current
<1>1. runtime' \in RuntimeState
  BY DEF TypeOK, RuntimeState, Starting, Plain, StartPhase, PlainPhase
<1>2. generation' \in 0..MaxGeneration /\ generation' \in Nat
  BY DEF TypeOK
<1>3. listener' \in ListenerState
  BY DefaultTypes DEF TypeOK, ListenerState
<1>4. health' \in HealthState
  BY DefaultTypes DEF TypeOK
<1>5. TypeOK'
  BY <1>1, <1>2, <1>3, <1>4, RecordType DEF TypeOK, Issued
<1>6. HealthFollowsPhase'
  BY DEF TypeOK, HealthFollowsPhase, DefaultHealth, HealthState, PingLimit, HopPhase, Starting, Plain
<1>7. OnlyCurrentGeneration'
  BY DEF TypeOK, OnlyCurrentGeneration, ListenerState, ReleasedListener, DefaultHealth,
         HealthState, AppliedCommandHolds, DesiredAgreesWithPhase,
         HealthFollowsPhase, Starting, Plain
<1>8. AppliedCommandHolds'
  BY DEF TypeOK, AppliedCommandHolds, DesiredAgreesWithPhase, Starting, Plain
<1>9. OneShutdownOwed'
  BY DEF TypeOK, OneShutdownOwed, Starting, Plain
<1> QED
  BY <1>5, <1>6, <1>7, <1>8, <1>9

\* Event::Phase moves a starting tunnel between its start phases.
LEMMA PhaseInv ==
  ASSUME Inv, NEW g \in Issued, NEW step \in StartPhase, Phase(g, step)
  PROVE  Inv'
<1> USE DEF Inv, phase, Phase, Advance, RequirePhase, RequireRunning, Current
<1>1. runtime' \in RuntimeState
  BY DEF TypeOK, RuntimeState, Starting, StartPhase
<1>2. generation' \in 0..MaxGeneration /\ generation' \in Nat
  BY DEF TypeOK
<1>3. listener' \in ListenerState
  BY DefaultTypes DEF TypeOK, ListenerState
<1>4. health' \in HealthState
  BY DefaultTypes DEF TypeOK
<1>5. TypeOK'
  BY <1>1, <1>2, <1>3, <1>4, RecordType DEF TypeOK, Issued
<1>6. HealthFollowsPhase'
  BY DEF TypeOK, HealthFollowsPhase, DefaultHealth, HealthState, PingLimit, HopPhase, Starting
<1>7. OnlyCurrentGeneration'
  BY DEF TypeOK, OnlyCurrentGeneration, ListenerState, ReleasedListener, DefaultHealth,
         HealthState, AppliedCommandHolds, DesiredAgreesWithPhase,
         HealthFollowsPhase, Starting
<1>8. AppliedCommandHolds'
  BY DEF TypeOK, AppliedCommandHolds, DesiredAgreesWithPhase, Starting
<1>9. OneShutdownOwed'
  BY DEF TypeOK, OneShutdownOwed, Starting
<1> QED
  BY <1>5, <1>6, <1>7, <1>8, <1>9

\* Event::ListenerBound is only applied for the current generation.
LEMMA ListenerBoundInv ==
  ASSUME Inv, NEW g \in Issued, ListenerBound(g)
  PROVE  Inv'
<1> USE DEF Inv, phase, ListenerBound, Advance, RequireStartPhase, RequireRunning, Current
<1>1. runtime' \in RuntimeState
  BY DEF TypeOK
<1>2. generation' \in 0..MaxGeneration /\ generation' \in Nat
  BY DEF TypeOK
<1>3. listener' \in ListenerState
  BY DefaultTypes DEF TypeOK, ListenerState
<1>4. health' \in HealthState
  BY DefaultTypes DEF TypeOK
<1>5. TypeOK'
  BY <1>1, <1>2, <1>3, <1>4, RecordType DEF TypeOK, Issued
<1>6. HealthFollowsPhase'
  BY DEF TypeOK, HealthFollowsPhase, DefaultHealth, HealthState, PingLimit, HopPhase
<1>7. OnlyCurrentGeneration'
  BY DEF TypeOK, OnlyCurrentGeneration, ListenerState, ReleasedListener, DefaultHealth,
         HealthState, AppliedCommandHolds, DesiredAgreesWithPhase,
         HealthFollowsPhase
<1>8. AppliedCommandHolds'
  BY DEF TypeOK, AppliedCommandHolds, DesiredAgreesWithPhase
<1>9. OneShutdownOwed'
  BY DEF TypeOK, OneShutdownOwed
<1> QED
  BY <1>5, <1>6, <1>7, <1>8, <1>9

\* Event::ListenerConflict blocks the tunnel without a listener.
LEMMA ListenerConflictInv ==
  ASSUME Inv, NEW g \in Issued, ListenerConflict(g)
  PROVE  Inv'
<1> USE DEF Inv, phase, ListenerConflict, Advance, RequireStartPhase, RequireRunning, Current
<1>1. runtime' \in RuntimeState
  BY DEF TypeOK, RuntimeState, Plain, PlainPhase
<1>2. generation' \in 0..MaxGeneration /\ generation' \in Nat
  BY DEF TypeOK
<1>3. listener' \in ListenerState
  BY DefaultTypes DEF TypeOK, ListenerState
<1>4. health' \in HealthState
  BY DefaultTypes DEF TypeOK
<1>5. TypeOK'
  BY <1>1, <1>2, <1>3, <1>4, RecordType DEF TypeOK, Issued
<1>6. HealthFollowsPhase'
  BY DEF TypeOK, HealthFollowsPhase, DefaultHealth, HealthState, PingLimit, HopPhase, Plain
<1>7. OnlyCurrentGeneration'
  BY DEF TypeOK, OnlyCurrentGeneration, ListenerState, ReleasedListener, DefaultHealth,
         HealthState, AppliedCommandHolds, DesiredAgreesWithPhase,
         HealthFollowsPhase, Plain
<1>8. AppliedCommandHolds'
  BY DEF TypeOK, AppliedCommandHolds, DesiredAgreesWithPhase, Plain
<1>9. OneShutdownOwed'
  BY DEF TypeOK, OneShutdownOwed, Plain
<1> QED
  BY <1>5, <1>6, <1>7, <1>8, <1>9

\* Event::Connecting forgets the health of the previous session.
LEMMA ConnectingInv ==
  ASSUME Inv, NEW g \in Issued, NEW hop \in 0..MaxHops, NEW total \in 0..MaxHops, Connecting(g, hop, total)
  PROVE  Inv'
<1> USE DEF Inv, phase, Connecting, Advance, RequirePhase, RequireRunning, Current, CheckHop
<1>1. runtime' \in RuntimeState
  BY DEF TypeOK, RuntimeState, AtHop, HopPhase
<1>2. generation' \in 0..MaxGeneration /\ generation' \in Nat
  BY DEF TypeOK
<1>3. listener' \in ListenerState
  BY DefaultTypes DEF TypeOK, ListenerState
<1>4. health' \in HealthState
  BY DefaultTypes DEF TypeOK
<1>5. TypeOK'
  BY <1>1, <1>2, <1>3, <1>4, RecordType DEF TypeOK, Issued
<1>6. HealthFollowsPhase'
  BY DEF TypeOK, HealthFollowsPhase, DefaultHealth, HealthState, PingLimit, HopPhase, AtHop
<1>7. OnlyCurrentGeneration'
  BY DEF TypeOK, OnlyCurrentGeneration, ListenerState, ReleasedListener, DefaultHealth,
         HealthState, AppliedCommandHolds, DesiredAgreesWithPhase,
         HealthFollowsPhase, AtHop
<1>8. AppliedCommandHolds'
  BY DEF TypeOK, AppliedCommandHolds, DesiredAgreesWithPhase, AtHop
<1>9. OneShutdownOwed'
  BY DEF TypeOK, OneShutdownOwed, AtHop
<1> QED
  BY <1>5, <1>6, <1>7, <1>8, <1>9

\* Event::Authenticating stays at the hop being connected.
LEMMA AuthenticatingInv ==
  ASSUME Inv, NEW g \in Issued, NEW hop \in 0..MaxHops, NEW total \in 0..MaxHops, Authenticating(g, hop, total)
  PROVE  Inv'
<1> USE DEF Inv, phase, Authenticating, Advance, RequirePhase, RequireRunning, Current, CheckHop
<1>1. runtime' \in RuntimeState
  BY DEF TypeOK, RuntimeState, AtHop, HopPhase
<1>2. generation' \in 0..MaxGeneration /\ generation' \in Nat
  BY DEF TypeOK
<1>3. listener' \in ListenerState
  BY DefaultTypes DEF TypeOK, ListenerState
<1>4. health' \in HealthState
  BY DefaultTypes DEF TypeOK
<1>5. TypeOK'
  BY <1>1, <1>2, <1>3, <1>4, RecordType DEF TypeOK, Issued
<1>6. HealthFollowsPhase'
  BY DEF TypeOK, HealthFollowsPhase, DefaultHealth, HealthState, PingLimit, HopPhase, AtHop
<1>7. OnlyCurrentGeneration'
  BY DEF TypeOK, OnlyCurrentGeneration, ListenerState, ReleasedListener, DefaultHealth,
         HealthState, AppliedCommandHolds, DesiredAgreesWithPhase,
         HealthFollowsPhase, AtHop
<1>8. AppliedCommandHolds'
  BY DEF TypeOK, AppliedCommandHolds, DesiredAgreesWithPhase, AtHop
<1>9. OneShutdownOwed'
  BY DEF TypeOK, OneShutdownOwed, AtHop
<1> QED
  BY <1>5, <1>6, <1>7, <1>8, <1>9

\* Event::Authenticated of the last hop makes the session current.
LEMMA AuthenticatedInv ==
  ASSUME Inv, NEW g \in Issued, Authenticated(g)
  PROVE  Inv'
<1> USE DEF Inv, phase, Authenticated, Advance, RequirePhase, RequireRunning, Current
<1>1. runtime' \in RuntimeState
  BY DEF TypeOK, RuntimeState, Plain, PlainPhase
<1>2. generation' \in 0..MaxGeneration /\ generation' \in Nat
  BY DEF TypeOK
<1>3. listener' \in ListenerState
  BY DefaultTypes DEF TypeOK, ListenerState
<1>4. health' \in HealthState
  BY DEF TypeOK, HealthState, PingLimit, HealthFollowsPhase
<1>5. TypeOK'
  BY <1>1, <1>2, <1>3, <1>4, RecordType DEF TypeOK, Issued
<1>6. HealthFollowsPhase'
  BY DEF TypeOK, HealthFollowsPhase, DefaultHealth, HealthState, PingLimit, HopPhase, Plain
<1>7. OnlyCurrentGeneration'
  BY DEF TypeOK, OnlyCurrentGeneration, ListenerState, ReleasedListener, DefaultHealth,
         HealthState, AppliedCommandHolds, DesiredAgreesWithPhase,
         HealthFollowsPhase, Plain
<1>8. AppliedCommandHolds'
  BY DEF TypeOK, AppliedCommandHolds, DesiredAgreesWithPhase, Plain
<1>9. OneShutdownOwed'
  BY DEF TypeOK, OneShutdownOwed, Plain
<1> QED
  BY <1>5, <1>6, <1>7, <1>8, <1>9

\* Event::HopAuthenticated of a jump host moves to the next hop.
LEMMA HopAuthenticatedInv ==
  ASSUME Inv, NEW g \in Issued, HopAuthenticated(g)
  PROVE  Inv'
<1> USE DEF Inv, phase, HopAuthenticated, Advance, RequirePhase, RequireRunning, Current
<1>1. runtime' \in RuntimeState
  <2>1. runtime.hop \in 1..MaxHops /\ runtime.total \in 1..MaxHops
    BY DEF TypeOK, RuntimeState, PlainPhase
  <2>2. runtime.hop + 1 \in 1..MaxHops
    BY <2>1
  <2> QED
    BY <2>1, <2>2 DEF RuntimeState, AtHop, HopPhase
<1>2. generation' \in 0..MaxGeneration /\ generation' \in Nat
  BY DEF TypeOK
<1>3. listener' \in ListenerState
  BY DefaultTypes DEF TypeOK, ListenerState
<1>4. health' \in HealthState
  BY DefaultTypes DEF TypeOK
<1>5. TypeOK'
  BY <1>1, <1>2, <1>3, <1>4, RecordType DEF TypeOK, Issued
<1>6. HealthFollowsPhase'
  BY DEF TypeOK, HealthFollowsPhase, DefaultHealth, HealthState, PingLimit, HopPhase, AtHop
<1>7. OnlyCurrentGeneration'
  BY DEF TypeOK, OnlyCurrentGeneration, ListenerState, ReleasedListener, DefaultHealth,
         HealthState, AppliedCommandHolds, DesiredAgreesWithPhase,
         HealthFollowsPhase, AtHop
<1>8. AppliedCommandHolds'
  BY DEF TypeOK, AppliedCommandHolds, DesiredAgreesWithPhase, AtHop
<1>9. OneShutdownOwed'
  BY DEF TypeOK, OneShutdownOwed, AtHop
<1> QED
  BY <1>5, <1>6, <1>7, <1>8, <1>9

\* Event::ForwardReady needs the authenticated session.
LEMMA ForwardReadyInv ==
  ASSUME Inv, NEW g \in Issued, ForwardReady(g)
  PROVE  Inv'
<1> USE DEF Inv, phase, ForwardReady, Advance, RequirePhase, RequireRunning, Current
<1>1. runtime' \in RuntimeState
  BY DEF TypeOK, RuntimeState, Starting, StartPhase
<1>2. generation' \in 0..MaxGeneration /\ generation' \in Nat
  BY DEF TypeOK
<1>3. listener' \in ListenerState
  BY DefaultTypes DEF TypeOK, ListenerState
<1>4. health' \in HealthState
  BY DEF TypeOK, HealthState, PingLimit, HealthFollowsPhase
<1>5. TypeOK'
  BY <1>1, <1>2, <1>3, <1>4, RecordType DEF TypeOK, Issued
<1>6. HealthFollowsPhase'
  BY DEF TypeOK, HealthFollowsPhase, DefaultHealth, HealthState, PingLimit, HopPhase, Starting
<1>7. OnlyCurrentGeneration'
  BY DEF TypeOK, OnlyCurrentGeneration, ListenerState, ReleasedListener, DefaultHealth,
         HealthState, AppliedCommandHolds, DesiredAgreesWithPhase,
         HealthFollowsPhase, Starting
<1>8. AppliedCommandHolds'
  BY DEF TypeOK, AppliedCommandHolds, DesiredAgreesWithPhase, Starting
<1>9. OneShutdownOwed'
  BY DEF TypeOK, OneShutdownOwed, Starting
<1> QED
  BY <1>5, <1>6, <1>7, <1>8, <1>9

\* Event::PingSucceeded needs an established session.
LEMMA PingSucceededInv ==
  ASSUME Inv, NEW g \in Issued, PingSucceeded(g)
  PROVE  Inv'
<1> USE DEF Inv, phase, PingSucceeded, Advance, Pingable, RequirePhase, RequireRunning, Current
<1>1. runtime' \in RuntimeState
  BY DEF TypeOK, RuntimeState, Plain, PlainPhase
<1>2. generation' \in 0..MaxGeneration /\ generation' \in Nat
  BY DEF TypeOK
<1>3. listener' \in ListenerState
  BY DefaultTypes DEF TypeOK, ListenerState
<1>4. health' \in HealthState
  BY DEF TypeOK, HealthState, PingLimit, HealthFollowsPhase
<1>5. TypeOK'
  BY <1>1, <1>2, <1>3, <1>4, RecordType DEF TypeOK, Issued
<1>6. HealthFollowsPhase'
  BY DEF TypeOK, HealthFollowsPhase, DefaultHealth, HealthState, PingLimit, HopPhase, Plain
<1>7. OnlyCurrentGeneration'
  BY DEF TypeOK, OnlyCurrentGeneration, ListenerState, ReleasedListener, DefaultHealth,
         HealthState, AppliedCommandHolds, DesiredAgreesWithPhase,
         HealthFollowsPhase, Plain
<1>8. AppliedCommandHolds'
  BY DEF TypeOK, AppliedCommandHolds, DesiredAgreesWithPhase, Plain
<1>9. OneShutdownOwed'
  BY DEF TypeOK, OneShutdownOwed, Plain
<1> QED
  BY <1>5, <1>6, <1>7, <1>8, <1>9

\* Event::PingFailed degrades the session, or condemns it at the limit.
LEMMA PingFailedInv ==
  ASSUME Inv, NEW g \in Issued, PingFailed(g)
  PROVE  Inv'
<1> USE DEF Inv, phase, PingFailed, Advance, Pingable, RequirePhase, RequireRunning, Current
<1>1. runtime' \in RuntimeState
  BY DEF TypeOK, RuntimeState, Plain, PlainPhase
<1>2. generation' \in 0..MaxGeneration /\ generation' \in Nat
  BY DEF TypeOK
<1>3. listener' \in ListenerState
  BY DefaultTypes DEF TypeOK, ListenerState
<1>4. health' \in HealthState
  BY DEF TypeOK, HealthState, PingLimit, HealthFollowsPhase
<1>5. TypeOK'
  BY <1>1, <1>2, <1>3, <1>4, RecordType DEF TypeOK, Issued
<1>6. HealthFollowsPhase'
  <2>1. health.consecutive_ping_failures \in 0..2 /\ health.authenticated /\ health.forward_ready
    BY DEF TypeOK, HealthState, HealthFollowsPhase, PingLimit
  <2>2. CASE health.consecutive_ping_failures + 1 >= PingLimit
    <3>1. runtime' = [phase |-> "Reconnecting"] /\ ~health'.authenticated /\ ~health'.forward_ready
      BY <2>2 DEF Plain
    <3> QED
      BY <3>1 DEF HealthFollowsPhase, HopPhase
  <2>3. CASE ~(health.consecutive_ping_failures + 1 >= PingLimit)
    <3>1. runtime' = [phase |-> "Degraded"]
      BY <2>3 DEF Plain
    <3>2. health'.authenticated /\ health'.forward_ready
      BY <2>3
    <3>3. health'.consecutive_ping_failures < PingLimit
      BY <2>1, <2>3 DEF PingLimit
    <3> QED
      BY <3>1, <3>2, <3>3 DEF HealthFollowsPhase, HopPhase
  <2> QED
    BY <2>2, <2>3
<1>7. OnlyCurrentGeneration'
  BY DEF TypeOK, OnlyCurrentGeneration, ListenerState, ReleasedListener, DefaultHealth,
         HealthState, AppliedCommandHolds, DesiredAgreesWithPhase,
         HealthFollowsPhase, Plain
<1>8. AppliedCommandHolds'
  BY DEF TypeOK, AppliedCommandHolds, DesiredAgreesWithPhase, Plain
<1>9. OneShutdownOwed'
  BY DEF TypeOK, OneShutdownOwed, Plain
<1> QED
  BY <1>5, <1>6, <1>7, <1>8, <1>9

\* Event::Disconnected drops the session, whatever the retryability.
LEMMA DisconnectedInv ==
  ASSUME Inv, NEW g \in Issued, NEW retryability \in {"Transient", "Blocked"}, Disconnected(g, retryability)
  PROVE  Inv'
<1> USE DEF Inv, phase, Disconnected, Advance, RequireRunning, Current
<1>1. runtime' \in RuntimeState
  BY DEF TypeOK, RuntimeState, Plain, PlainPhase
<1>2. generation' \in 0..MaxGeneration /\ generation' \in Nat
  BY DEF TypeOK
<1>3. listener' \in ListenerState
  BY DefaultTypes DEF TypeOK, ListenerState
<1>4. health' \in HealthState
  BY DefaultTypes DEF TypeOK
<1>5. TypeOK'
  BY <1>1, <1>2, <1>3, <1>4, RecordType DEF TypeOK, Issued
<1>6. HealthFollowsPhase'
  BY DEF TypeOK, HealthFollowsPhase, DefaultHealth, HealthState, PingLimit, HopPhase, Plain
<1>7. OnlyCurrentGeneration'
  BY DEF TypeOK, OnlyCurrentGeneration, ListenerState, ReleasedListener, DefaultHealth,
         HealthState, AppliedCommandHolds, DesiredAgreesWithPhase,
         HealthFollowsPhase, Plain
<1>8. AppliedCommandHolds'
  BY DEF TypeOK, AppliedCommandHolds, DesiredAgreesWithPhase, Plain
<1>9. OneShutdownOwed'
  BY DEF TypeOK, OneShutdownOwed, Plain
<1> QED
  BY <1>5, <1>6, <1>7, <1>8, <1>9

-----------------------------------------------------------------------------
(* The theorems.                                                           *)

\* Every step of the machine preserves the invariant.
LEMMA NextInv == Inv /\ [Next]_vars => Inv'
<1> SUFFICES ASSUME Inv, [Next]_vars PROVE Inv'
  OBVIOUS
<1>1. CASE UserEvent
  BY <1>1, StartInv, StopInv, StopNoChangeInv, RestartInv, RestartNoChangeInv, ConfigChangedInv
     DEF UserEvent
<1>2. CASE \E g \in cleanup : ShutdownComplete(g)
  BY <1>2, ShutdownCompleteInv
<1>3. ASSUME NEW g \in Issued, TaskEvent(g)
      PROVE  Inv'
  <2>1. CASE \E step \in StartPhase : Phase(g, step)
    BY <2>1, PhaseInv
  <2>2. CASE \E hop, total \in 0..MaxHops : Connecting(g, hop, total) \/ Authenticating(g, hop, total)
    BY <2>2, ConnectingInv, AuthenticatingInv
  <2>3. CASE \E retryability \in {"Transient", "Blocked"} : Disconnected(g, retryability)
    BY <2>3, DisconnectedInv
  <2> QED
    BY <1>3, <2>1, <2>2, <2>3, ListenerBoundInv, ListenerConflictInv, AuthenticatedInv,
       HopAuthenticatedInv, ForwardReadyInv, PingSucceededInv, PingFailedInv DEF TaskEvent
<1>4. CASE UNCHANGED vars
  BY <1>4 DEF vars, Inv, TypeOK, HealthFollowsPhase, OnlyCurrentGeneration,
              AppliedCommandHolds, DesiredAgreesWithPhase, OneShutdownOwed, phase
<1> QED
  BY <1>1, <1>2, <1>3, <1>4 DEF Next

(***************************************************************************)
(* The invariant holds in every reachable state: what the run Lifecycle    *)
(* checks for four generations and two hops is true of any number.         *)
(***************************************************************************)
THEOREM Invariance == Spec => []Inv
<1>1. Init => Inv
  BY InitInv
<1>2. Inv /\ [Next]_vars => Inv'
  BY NextInv
<1> QED
  BY <1>1, <1>2, PTL DEF Spec

\* Type correctness of the lifecycle.
THEOREM TypeCorrect == Spec => []TypeOK
  BY Invariance, PTL DEF Inv

(***************************************************************************)
(* Sessions and listeners belong to the current generation: no event of an *)
(* old task ever makes a tunnel healthy or gives it a listener.            *)
(***************************************************************************)
THEOREM CurrentGenerationOnly == Spec => []OnlyCurrentGeneration
  BY Invariance, PTL DEF Inv

\* Healthy and Degraded tunnels have an established, uncondemned session.
THEOREM HealthIsHonest == Spec => []HealthFollowsPhase
  BY Invariance, PTL DEF Inv

(***************************************************************************)
(* The user's last command that was applied stays in force, whatever the   *)
(* tasks report and however often the configuration changes: after an      *)
(* applied Stop the tunnel is down or going down and no restart is due.    *)
(* (A Stop answered NoChange is StopIsObeyed, which the code breaks.)      *)
(***************************************************************************)
THEOREM StoppedIsStopped == Spec => []AppliedCommandHolds
  BY Invariance, PTL DEF Inv

\* Stopping always has the one report outstanding that will end it.
THEOREM ShutdownIsOwed == Spec => []OneShutdownOwed
  BY Invariance, PTL DEF Inv

-----------------------------------------------------------------------------
(* Blocked.                                                                *)

(***************************************************************************)
(* No event of a task, of whatever generation, takes a tunnel out of       *)
(* Blocked: only the user's Stop, Restart and ConfigChanged do.            *)
(***************************************************************************)
THEOREM BlockedIsLeftByUser == Spec => BlockedWaitsForUser
<1> DEFINE A == phase = "Blocked" /\ phase' # "Blocked" =>
                  phase' = "Stopping" /\ generation' = generation + 1
<1>1. [Next]_vars => [A]_vars
  <2> SUFFICES ASSUME Next, phase = "Blocked" PROVE A
    OBVIOUS
  <2>1. CASE UserEvent
    BY <2>1 DEF UserEvent, Start, Stop, StopNoChange, Restart, RestartNoChange,
                ConfigChanged, Interrupt, NextGeneration, Plain, phase
  <2>2. CASE \E g \in cleanup : ShutdownComplete(g)
    BY <2>2 DEF ShutdownComplete
  <2>3. CASE \E g \in Issued : TaskEvent(g)
    BY <2>3 DEF TaskEvent, Phase, ListenerBound, ListenerConflict, Connecting, Authenticating,
                Authenticated, HopAuthenticated, ForwardReady, PingSucceeded, PingFailed,
                Disconnected, Pingable, RequirePhase, RequireStartPhase, RequireRunning
  <2> QED
    BY <2>1, <2>2, <2>3 DEF Next
<1> QED
  BY <1>1, PTL DEF Spec, BlockedWaitsForUser

-----------------------------------------------------------------------------
(* The journal.                                                            *)

\* record extends an unbroken journal to an unbroken journal.
LEMMA RecordHistory ==
  ASSUME TypeOK, JournalIsHistory, Record, generation' \in Nat, generation' >= generation
  PROVE  JournalIsHistory'
<1> DEFINE e == [from |-> phase, to |-> runtime'.phase, generation |-> generation']
           kept == IF Len(journal) = JournalLimit THEN Tail(journal) ELSE journal
           n == Len(kept)
<1>1. journal \in Seq(JournalEntry) /\ Len(journal) \in Nat /\ generation \in Nat
  BY DEF TypeOK
<1>2. kept \in Seq(JournalEntry) /\ n \in Nat /\ n < JournalLimit
  BY <1>1 DEF JournalIsHistory
<1>3. journal' = Append(kept, e)
  BY DEF Record
<1>4. /\ Len(journal') = n + 1
      /\ journal'[n + 1] = e
      /\ \A i \in 1..n : journal'[i] = kept[i]
  BY <1>2, <1>3
<1>5. /\ \A i \in 1..(n - 1) : /\ kept[i].to = kept[i + 1].from
                              /\ kept[i].generation <= kept[i + 1].generation
      /\ n > 0 => kept[n].to = phase /\ kept[n].generation = generation
  <2>1. CASE Len(journal) = JournalLimit
    <3>1. kept = Tail(journal) /\ n = Len(journal) - 1 /\ journal # <<>>
      BY <1>1, <2>1
    <3>2. \A i \in 1..n : kept[i] = journal[i + 1]
      BY <1>1, <3>1
    <3> QED
      BY <1>1, <1>2, <3>1, <3>2 DEF JournalIsHistory
  <2>2. CASE Len(journal) # JournalLimit
    BY <1>1, <2>2 DEF JournalIsHistory
  <2> QED
    BY <2>1, <2>2
<1>6. Len(journal') <= JournalLimit /\ journal' # <<>>
  BY <1>2, <1>3, <1>4
<1>7. /\ journal'[Len(journal')].to = phase'
      /\ journal'[Len(journal')].generation = generation'
  BY <1>4 DEF phase
<1>8. ASSUME NEW i \in 1..(Len(journal') - 1)
      PROVE  /\ journal'[i].to = journal'[i + 1].from
             /\ journal'[i].generation <= journal'[i + 1].generation
  <2>1. i \in 1..n
    BY <1>2, <1>4
  <2>2. CASE i = n
    BY <1>1, <1>2, <1>4, <1>5, <2>1, <2>2
  <2>3. CASE i # n
    <3>1. i \in 1..(n - 1) /\ i + 1 \in 1..n
      BY <1>2, <2>1, <2>3
    <3>2. journal'[i] = kept[i] /\ journal'[i + 1] = kept[i + 1]
      BY <1>4, <2>1, <3>1
    <3> QED
      BY <1>5, <3>1, <3>2
  <2> QED
    BY <2>2, <2>3
<1> QED
  BY <1>6, <1>7, <1>8 DEF JournalIsHistory

\* A step either records itself, under a generation that has not gone back,
\* or changes neither phase nor generation.
LEMMA EveryStepRecorded ==
  ASSUME TypeOK, [Next]_vars
  PROVE  \/ Record /\ generation' \in Nat /\ generation' >= generation
         \/ UNCHANGED <<journal, runtime, generation>>
<1>0. generation \in Nat
  BY DEF TypeOK
<1>1. CASE UserEvent
  <2>1. (Record /\ generation' = generation + 1) \/ StopNoChange \/ RestartNoChange
    BY <1>1 DEF UserEvent, Start, Stop, Restart, ConfigChanged, NextGeneration
  <2>2. generation + 1 \in Nat /\ generation + 1 >= generation
    BY <1>0
  <2> QED
    BY <2>1, <2>2 DEF StopNoChange, RestartNoChange
<1>2. CASE \E g \in cleanup : ShutdownComplete(g)
  BY <1>0, <1>2 DEF ShutdownComplete
<1>3. CASE \E g \in Issued : TaskEvent(g)
  <2>1. Advance
    BY <1>3 DEF TaskEvent, Phase, ListenerBound, ListenerConflict, Connecting, Authenticating,
                Authenticated, HopAuthenticated, ForwardReady, PingSucceeded, PingFailed,
                Disconnected
  <2> QED
    BY <1>0, <2>1 DEF Advance
<1>4. CASE UNCHANGED vars
  BY <1>4 DEF vars
<1> QED
  BY <1>1, <1>2, <1>3, <1>4 DEF Next

(***************************************************************************)
(* The journal is always the unbroken tail of the tunnel's history.        *)
(***************************************************************************)
THEOREM JournalIsFaithful == Spec => []JournalIsHistory
<1>1. Init => JournalIsHistory
  BY DEF Init, JournalIsHistory, Plain, phase
<1>2. TypeOK /\ JournalIsHistory /\ [Next]_vars => JournalIsHistory'
  <2> SUFFICES ASSUME TypeOK, JournalIsHistory, [Next]_vars PROVE JournalIsHistory'
    OBVIOUS
  <2>1. CASE Record /\ generation' \in Nat /\ generation' >= generation
    BY <2>1, RecordHistory
  <2>2. CASE UNCHANGED <<journal, runtime, generation>>
    BY <2>2 DEF JournalIsHistory, phase
  <2> QED
    BY <2>1, <2>2, EveryStepRecorded
<1> QED
  BY <1>1, <1>2, TypeCorrect, PTL DEF Spec

-----------------------------------------------------------------------------
HIDE JournalLimitAssumption
HIDE MaxHopsAssumption
HIDE MaxGenerationAssumption
HIDE ListenerRequiredAssumption
USE ClientsAssumption, BytesAssumption, BufferBytesAssumption, MaxActiveAssumption

-----------------------------------------------------------------------------
(* The listener.  Whatever the worker does, the machine sees a step of the *)
(* runtime or none, and a step of the runtime is an event of the machine.  *)

\* Only the runtime touches the machine and the socket, and it does so while
\* no worker has the listener.
LEMMA WorkerStepIsRuntimeStep == [WorkerNext]_allVars => [RuntimeNext]_runtimeVars
<1> SUFFICES ASSUME [WorkerNext]_allVars PROVE [RuntimeNext]_runtimeVars
  OBVIOUS
<1>1. CASE ListenerStarts \/ ListenerRuns \/ ListenerDrops
  BY <1>1 DEF ListenerStarts, ListenerRuns, ListenerDrops, RuntimeNext
<1>2. CASE Build \/ Cancel \/ SessionDies \/ LoopCancelled
  BY <1>2 DEF Build, Cancel, SessionDies, LoopCancelled, EndRun
<1>3. CASE LoopStep
  BY <1>3 DEF LoopStep, SessionTick, TickFires, HealthTick, PingSucceeds, PingFails, TakeRequest,
              OpenEnds, AcceptFails, JoinNext, Accept, EndRun
<1>4. CASE ReleaseListener \/ JoinAll \/ Deadline \/ Disconnect
  BY <1>4 DEF ReleaseListener, JoinAll, Deadline, Disconnect
<1>5. CASE \E c \in Clients : ClientConnects(c) \/ TaskStep(c)
  BY <1>5 DEF ClientConnects, TaskStep, Greeting, Request, HandshakeTimeout, SendRequest,
              SendFails, TakeAnswer, Refuse, Confirm, TaskCancelled, RelayDone, RelayFails,
              RelayStep, TaskFrame
<1>6. CASE UNCHANGED allVars
  BY <1>6 DEF allVars
<1> QED
  BY <1>1, <1>2, <1>3, <1>4, <1>5, <1>6 DEF WorkerNext

\* start_listener and stop report to the machine under the generation it has.
LEMMA RuntimeStepIsEvent == Inv /\ [RuntimeNext]_runtimeVars => [Next]_vars
<1> SUFFICES ASSUME Inv, [RuntimeNext]_runtimeVars PROVE [Next]_vars
  OBVIOUS
<1>1. generation \in Issued
  BY DEF Inv, TypeOK, Issued
<1>2. CASE StartListener \/ StopListener \/ StopIdle
  BY <1>2 DEF StartListener, StopListener, StopIdle, UserEvent, Next
<1>3. CASE Acquire \/ Proceed
  BY <1>1, <1>3 DEF Acquire, Proceed, StartPhase, TaskEvent, Next
<1>4. CASE BindSucceeds \/ BindFails
  BY <1>1, <1>4 DEF BindSucceeds, BindFails, TaskEvent, Next
<1>5. CASE KeepSocket \/ DropSocket
  BY <1>5 DEF KeepSocket, DropSocket
<1>6. CASE CompleteStop
  <2>1. ShutdownComplete(generation) /\ generation \in cleanup
    BY <1>6 DEF CompleteStop, ShutdownComplete
  <2> QED
    BY <2>1 DEF Next
<1>7. CASE UNCHANGED runtimeVars
  BY <1>7 DEF runtimeVars
<1> QED
  BY <1>2, <1>3, <1>4, <1>5, <1>6, <1>7 DEF RuntimeNext

\* The machine's invariant survives whatever the worker and its runtime do.
LEMMA MachineInvariant == WorkerSpec => []Inv
<1>1. WorkerInit => Inv
  BY InitInv DEF WorkerInit, RuntimeInit
<1>2. Inv /\ [WorkerNext]_allVars => Inv'
  BY WorkerStepIsRuntimeStep, RuntimeStepIsEvent, NextInv
<1> QED
  BY <1>1, <1>2, PTL DEF WorkerSpec

(***************************************************************************)
(* A worker and the runtime of its listener drive the state machine as the *)
(* lifecycle specifies: each of their steps is one event of the machine or *)
(* none, so everything proved of the lifecycle is true of a machine that   *)
(* is driven by them (runtime.rs:51-119).                                  *)
(***************************************************************************)
THEOREM WorkerDrivesLifecycle == WorkerSpec => Spec
<1>1. WorkerInit => Init
  BY DEF WorkerInit, RuntimeInit
<1>2. Inv /\ [WorkerNext]_allVars => [Next]_vars
  BY WorkerStepIsRuntimeStep, RuntimeStepIsEvent
<1> QED
  BY <1>1, <1>2, MachineInvariant, PTL DEF WorkerSpec, Spec

\* The place in the method keeps telling what has been done so far.
LEMMA CallStep == Inv /\ CallFollowsMachine /\ [RuntimeNext]_runtimeVars => CallFollowsMachine'
<1> SUFFICES ASSUME Inv, CallFollowsMachine, [RuntimeNext]_runtimeVars
             PROVE  CallFollowsMachine'
  OBVIOUS
<1> USE DEF CallFollowsMachine, At, phase
<1>1. CASE StartListener
  <2>1. ~socket
    BY <1>1 DEF StartListener, Start, Inv, OnlyCurrentGeneration, AppliedCommandHolds,
              DesiredAgreesWithPhase
  <2> QED
    BY <1>1, <2>1 DEF StartListener, Start, Begin, ReleasedListener
<1>2. CASE Acquire \/ Proceed
  BY <1>2 DEF Acquire, Proceed, Phase, Starting
<1>3. CASE BindSucceeds
  BY <1>3 DEF BindSucceeds, ListenerBound, RequireStartPhase
<1>4. CASE KeepSocket \/ DropSocket
  BY <1>4 DEF KeepSocket, DropSocket, vars
<1>5. CASE BindFails
  BY <1>5 DEF BindFails, ListenerConflict, Disconnected
<1>6. CASE StopListener \/ StopIdle
  BY <1>6 DEF StopListener, StopIdle, Stop, Interrupt, StopNoChange
<1>7. CASE CompleteStop
  BY <1>7 DEF CompleteStop, ShutdownComplete, Begin, ReleasedListener
<1>8. CASE UNCHANGED runtimeVars
  BY <1>8 DEF runtimeVars, vars
<1> QED
  BY <1>1, <1>2, <1>3, <1>4, <1>5, <1>6, <1>7, <1>8 DEF RuntimeNext

(***************************************************************************)
(* What the machine says of the listener is true of the socket, and a      *)
(* Stopped machine owns no port (runtime.rs:98-99).                        *)
(***************************************************************************)
THEOREM SocketMatchesMachineTheorem == WorkerSpec => []SocketMatchesMachine
<1>1. WorkerInit => CallFollowsMachine
  <2> SUFFICES ASSUME WorkerInit PROVE CallFollowsMachine
    OBVIOUS
  <2>1. listener.kind # "Bound" /\ socket = FALSE /\ call = "idle"
    BY DEF WorkerInit, RuntimeInit, Init, ReleasedListener
  <2> QED
    BY <2>1 DEF CallFollowsMachine
<1>2. Inv /\ CallFollowsMachine /\ [WorkerNext]_allVars => CallFollowsMachine'
  BY WorkerStepIsRuntimeStep, CallStep
<1>3. Inv /\ CallFollowsMachine => SocketMatchesMachine
  BY DEF Inv, CallFollowsMachine, SocketMatchesMachine, OnlyCurrentGeneration,
         AppliedCommandHolds, DesiredAgreesWithPhase, phase
<1> QED
  BY <1>1, <1>2, <1>3, MachineInvariant, PTL DEF WorkerSpec

-----------------------------------------------------------------------------
(* The worker, its tasks and their streams.                                *)

WorkerInv ==
  /\ WorkerTypeOK
  /\ RelayTypeOK
  /\ TasksBelongToWorker
  /\ DialogueFollowsTask
  /\ RequestsAreOwed
  /\ StreamsFollowTask
  /\ ActiveIsCounted

\* What the reply to a refused client can be.
LEMMA FailureIsVerdict ==
  \A failure \in Failures : map_socks_failure(failure) \in Verdicts
  BY DEF Failures, Verdicts, Rejections, map_socks_failure

\* The words of the SOCKS dialogue, one after the other.
LEMMA Words ==
  /\ Append(<<>>, "NoAuth") = <<"NoAuth">>
  /\ Append(<<>>, "NoAcceptable") = <<"NoAcceptable">>
  /\ \A v \in Verdicts : Append(<<"NoAuth">>, v) = <<"NoAuth", v>>
<1>1. ASSUME NEW v \in Verdicts
      PROVE  Append(<<"NoAuth">>, v) = <<"NoAuth", v>>
  <2>1. <<"NoAuth">> \in Seq(Replies) /\ v \in Replies /\ <<"NoAuth", v>> \in Seq(Replies)
    BY DEF Replies
  <2> DEFINE s == Append(<<"NoAuth">>, v)
             t == <<"NoAuth", v>>
  <2>2. s \in Seq(Replies) /\ Len(s) = 2 /\ s[1] = "NoAuth" /\ s[2] = v
    BY <2>1
  <2>3. Len(t) = 2 /\ t[1] = "NoAuth" /\ t[2] = v
    OBVIOUS
  <2>4. t \in Seq(Replies)
    BY <2>1
  <2>5. \A i \in 1..Len(s) : s[i] = t[i]
    BY <2>2, <2>3
  <2> HIDE DEF s, t
  <2>6. s = t
    BY <2>2, <2>3, <2>4, <2>5, SeqEqual
  <2> QED
    BY <2>6 DEF s, t
<1> QED
  BY <1>1

\* A reply makes a dialogue longer.
LEMMA SaysType ==
  ASSUME WorkerTypeOK, NEW c \in Clients, NEW word \in Replies, Says(c, word)
  PROVE  dialogue' \in [Clients -> Seq(Replies)]
<1>1. Append(dialogue[c], word) \in Seq(Replies)
  BY DEF WorkerTypeOK
<1> QED
  BY <1>1 DEF WorkerTypeOK, Says

LEMMA WorkerTypeStep ==
  ASSUME WorkerInv, [WorkerNext]_allVars
  PROVE  WorkerTypeOK'
<1> USE DEF WorkerInv, WorkerTypeOK
<1>1. CASE ListenerStarts \/ ListenerRuns
  BY <1>1 DEF ListenerStarts, ListenerRuns, Unlent
<1>2. CASE ListenerDrops
  BY <1>2 DEF ListenerDrops, Unlent
<1>3. CASE Build
  <2>1. <<>> \in Seq(Replies)
    OBVIOUS
  <2> QED
    BY <1>3, <2>1 DEF Build
<1>4. CASE \/ Cancel \/ SessionDies \/ TickFires \/ HealthTick \/ PingSucceeds
           \/ ReleaseListener \/ Disconnect
  <2>1. UNCHANGED taskVars /\ UNCHANGED mode
    BY <1>4 DEF Cancel, SessionDies, TickFires, HealthTick, PingSucceeds, ReleaseListener, Disconnect
  <2>2. /\ worker' \in {"none", "loop", "pinging", "opening", "ended", "releasing",
                        "disconnecting"}
        /\ cancelled' \in BOOLEAN /\ released' \in BOOLEAN
        /\ chain' \in {"None", "Open", "Dead"} /\ ping_failures' \in Nat
    <3>1. CASE Cancel \/ SessionDies
      BY <3>1 DEF Cancel, SessionDies
    <3>2. CASE TickFires \/ HealthTick \/ PingSucceeds
      BY <3>2 DEF TickFires, HealthTick, PingSucceeds
    <3>3. CASE ReleaseListener \/ Disconnect
      BY <3>3 DEF ReleaseListener, Disconnect
    <3> QED
      BY <1>4, <3>1, <3>2, <3>3
  <2>3. due' \in BOOLEAN
    BY <1>4, Zenon DEF Cancel, SessionDies, TickFires, HealthTick, PingSucceeds,
                       ReleaseListener, Disconnect
  <2> QED
    BY <2>1, <2>2, <2>3 DEF taskVars
<1>5. ASSUME EndRun, ping_failures' \in Nat
      PROVE  WorkerTypeOK'
  <2>1. answer' \in [Clients -> Failures \cup {"Channel", "none"}]
    BY <1>5 DEF EndRun, Failures
  <2>2. due' \in BOOLEAN
    BY <1>5, Zenon DEF EndRun
  <2> QED
    BY <1>5, <2>1, <2>2 DEF EndRun
<1>6. CASE LoopCancelled \/ SessionTick \/ AcceptFails
  BY <1>5, <1>6 DEF LoopCancelled, SessionTick, AcceptFails
<1>7. CASE PingFails
  BY <1>5, <1>7 DEF PingFails, taskVars
<1>8. CASE \E c \in Clients : JoinNext(c)
  BY <1>8 DEF JoinNext, workerVars
<1>9. CASE \E c \in Clients : Accept(c)
  BY <1>9 DEF Accept, workerVars, Serving, Handshake
<1>10. CASE \E c \in Clients : ClientConnects(c)
  BY <1>10 DEF ClientConnects, workerVars
<1>11. CASE TakeRequest
  <2>1. Head(requests) \in Clients /\ Tail(requests) \in Seq(Clients)
    BY <1>11 DEF TakeRequest
  <2> QED
    BY <1>11, <2>1 DEF TakeRequest
<1>12. CASE OpenEnds
  <2>1. OpenResults \subseteq Failures \cup {"Channel"}
    BY DEF OpenResults, Failures
  <2> QED
    BY <1>12, <2>1 DEF OpenEnds
<1>13. CASE JoinAll \/ Deadline
  <2>1. <<>> \in Seq(Replies)
    OBVIOUS
  <2> QED
    BY <1>13, <2>1 DEF JoinAll, Deadline, AllJoined
<1>14. ASSUME NEW c \in Clients, TaskStep(c)
       PROVE  WorkerTypeOK'
  <2> USE DEF TaskFrame, workerVars, Moves, Ends, StartsRelay, Serving, Handshake
  <2>1. CASE Greeting(c)
    <3>1. dialogue' \in [Clients -> Seq(Replies)]
      BY <2>1, SaysType DEF Greeting, Replies
    <3> QED
      BY <2>1, <3>1 DEF Greeting
  <2>2. CASE Request(c)
    <3>1. dialogue' \in [Clients -> Seq(Replies)]
      BY <2>2, SaysType DEF Request, Replies, Verdicts
    <3> QED
      BY <2>2, <3>1 DEF Request
  <2>3. CASE HandshakeTimeout(c) \/ TaskCancelled(c) \/ RelayDone(c) \/ RelayFails(c)
    BY <2>3 DEF HandshakeTimeout, TaskCancelled, RelayDone, RelayFails
  <2>4. CASE SendRequest(c)
    BY <2>4 DEF SendRequest
  <2>5. CASE SendFails(c)
    BY <2>5 DEF SendFails, Failures
  <2>6. CASE TakeAnswer(c)
    BY <2>6 DEF TakeAnswer
  <2>7. CASE Refuse(c)
    <3>1. map_socks_failure(answer[c]) \in Replies
      BY <2>7, FailureIsVerdict DEF Refuse, DialogueFollowsTask, Replies
    <3>2. dialogue' \in [Clients -> Seq(Replies)]
      BY <2>7, <3>1, SaysType DEF Refuse
    <3> QED
      BY <2>7, <3>2 DEF Refuse
  <2>8. CASE Confirm(c)
    <3>1. dialogue' \in [Clients -> Seq(Replies)]
      BY <2>8, SaysType DEF Confirm, Replies, Verdicts
    <3> QED
      BY <2>8, <3>1 DEF Confirm
  <2>9. CASE \E d \in Directions : RelayStep(c, d)
    BY <2>9 DEF RelayStep
  <2> QED
    BY <1>14, <2>1, <2>2, <2>3, <2>4, <2>5, <2>6, <2>7, <2>8, <2>9 DEF TaskStep
<1>15. CASE UNCHANGED allVars
  BY <1>15 DEF allVars, workerVars, taskVars
<1> QED
  BY <1>1, <1>2, <1>3, <1>4, <1>6, <1>7, <1>8, <1>9, <1>10, <1>11, <1>12, <1>13, <1>14, <1>15
     DEF WorkerNext, LoopStep

\* A task that returns has been answered no longer; what it said stays.
LEMMA EndsDialogue ==
  ASSUME WorkerInv, NEW c \in Clients, Ends(c), UNCHANGED mode,
         NEW words \in Dialogues, dialogue' = [dialogue EXCEPT ![c] = words]
  PROVE  DialogueFollowsTask'
<1> SUFFICES ASSUME NEW k \in Clients
             PROVE  DialogueFollowsTask!(k)'
  BY DEF DialogueFollowsTask
<1>1. CASE k = c
  BY <1>1 DEF WorkerInv, WorkerTypeOK, Ends, Moves
<1>2. CASE k # c
  BY <1>2 DEF WorkerInv, WorkerTypeOK, DialogueFollowsTask, Ends, Moves
<1> QED
  BY <1>1, <1>2

\* Who has been told what, and answered what, stays in step with the tasks.
LEMMA DialogueStep ==
  ASSUME WorkerInv, [WorkerNext]_allVars
  PROVE  DialogueFollowsTask'
<1> USE DEF WorkerInv, WorkerTypeOK, DialogueFollowsTask
<1>0. <<>> \in Dialogues
  BY DEF Dialogues
<1>1. CASE ListenerStarts \/ ListenerRuns
  BY <1>1 DEF ListenerStarts, ListenerRuns, Unlent
<1>2. CASE ListenerDrops
  BY <1>2 DEF ListenerDrops, Unlent
<1>3. CASE Build
  BY <1>0, <1>3 DEF Build, TasksBelongToWorker, Connections, Serving
<1>4. CASE \/ Cancel \/ SessionDies \/ TickFires \/ HealthTick \/ PingSucceeds
           \/ ReleaseListener \/ Disconnect
  BY <1>4 DEF Cancel, SessionDies, TickFires, HealthTick, PingSucceeds, ReleaseListener, Disconnect,
              taskVars
<1>5. ASSUME EndRun
      PROVE  DialogueFollowsTask'
  BY <1>5 DEF EndRun
<1>6. CASE LoopCancelled \/ SessionTick \/ AcceptFails
  BY <1>5, <1>6 DEF LoopCancelled, SessionTick, AcceptFails
<1>7. CASE PingFails
  BY <1>5, <1>7 DEF PingFails, taskVars
<1>8. CASE \E c \in Clients : JoinNext(c)
  BY <1>0, <1>8 DEF JoinNext, workerVars
<1>9. CASE \E c \in Clients : Accept(c)
  BY <1>9 DEF Accept, workerVars
<1>10. CASE \E c \in Clients : ClientConnects(c)
  BY <1>10 DEF ClientConnects, workerVars
<1>11. CASE TakeRequest
  BY <1>11 DEF TakeRequest
<1>12. CASE OpenEnds
  BY <1>12 DEF OpenEnds, RequestsAreOwed
<1>13. CASE JoinAll \/ Deadline
  BY <1>0, <1>13 DEF JoinAll, Deadline, AllJoined, Connections, Serving
<1>14. ASSUME NEW c \in Clients, TaskStep(c)
       PROVE  DialogueFollowsTask'
  <2> USE DEF TaskFrame, workerVars, Moves, Ends, StartsRelay
  <2>1. CASE Greeting(c)
    <3>1. dialogue[c] = <<>>
      BY <2>1 DEF Greeting
    <3>2. CASE Ends(c)
      <4>1. PICK words \in Dialogues : dialogue' = [dialogue EXCEPT ![c] = words]
        BY <2>1, <3>1, <3>2, Words DEF Greeting, Says, Dialogues
      <4> QED
        BY <2>1, <3>2, <4>1, EndsDialogue DEF Greeting
    <3>3. CASE Moves(c, "request") /\ Says(c, "NoAuth") /\ UNCHANGED answer
      <4>1. dialogue' = [dialogue EXCEPT ![c] = <<"NoAuth">>]
        BY <3>1, <3>3, Words DEF Says
      <4> HIDE DEF Ends
      <4> QED
        BY <2>1, <3>3, <4>1 DEF Greeting, Dialogues
    <3> QED
      BY <2>1, <3>2, <3>3 DEF Greeting, relayVars
  <2>2. CASE Request(c)
    <3>1. dialogue[c] = <<"NoAuth">>
      BY <2>2 DEF Request
    <3>2. CASE Ends(c)
      <4>1. CASE \E rejection \in Rejections : Says(c, rejection)
        <5>1. PICK rejection \in Verdicts : Says(c, rejection)
          BY <4>1 DEF Verdicts
        <5>2. /\ dialogue' = [dialogue EXCEPT ![c] = <<"NoAuth", rejection>>]
              /\ <<"NoAuth", rejection>> \in Dialogues
          BY <3>1, <5>1, Words DEF Says, Dialogues
        <5> QED
          BY <2>2, <3>2, <5>2, EndsDialogue DEF Request
      <4>2. CASE UNCHANGED dialogue
        <5>1. dialogue' = [dialogue EXCEPT ![c] = dialogue[c]] /\ dialogue[c] \in Dialogues
          BY <4>2
        <5> QED
          BY <2>2, <3>2, <5>1, EndsDialogue DEF Request
      <4> QED
        BY <2>2, <4>1, <4>2 DEF Request
    <3>3. CASE Moves(c, "sending") /\ UNCHANGED <<answer, dialogue>>
      BY <2>2, <3>1, <3>3 DEF Request
    <3> QED
      BY <2>2, <3>2, <3>3 DEF Request
  <2>3. CASE HandshakeTimeout(c) \/ TaskCancelled(c) \/ RelayDone(c) \/ RelayFails(c)
    <3>1. Ends(c) /\ UNCHANGED <<mode, dialogue>>
      BY <2>3 DEF HandshakeTimeout, TaskCancelled, RelayDone, RelayFails
    <3>2. dialogue[c] \in Dialogues /\ dialogue' = [dialogue EXCEPT ![c] = dialogue[c]]
      BY <3>1
    <3> QED
      BY <3>1, <3>2, EndsDialogue
  <2>4. CASE SendRequest(c)
    BY <2>4 DEF SendRequest
  <2>5. CASE SendFails(c)
    BY <2>5 DEF SendFails, Failures
  <2>6. CASE TakeAnswer(c)
    BY <2>6 DEF TakeAnswer
  <2>7. CASE Refuse(c)
    <3>1. map_socks_failure(answer[c]) \in Verdicts
      BY <2>7, FailureIsVerdict DEF Refuse
    <3>2. dialogue[c] = <<"NoAuth">> /\ Ends(c) /\ UNCHANGED mode
      BY <2>7 DEF Refuse
    <3>3. PICK words \in Dialogues : dialogue' = [dialogue EXCEPT ![c] = words]
      BY <2>7, <3>1, <3>2, Words DEF Refuse, Says, Dialogues
    <3> QED
      BY <3>2, <3>3, EndsDialogue
  <2>8. CASE Confirm(c)
    <3>1. dialogue[c] = <<"NoAuth">> /\ mode = "Dynamic" /\ UNCHANGED mode
      BY <2>8 DEF Confirm
    <3>2. CASE Ends(c) /\ UNCHANGED dialogue
      <4>1. dialogue[c] \in Dialogues /\ dialogue' = [dialogue EXCEPT ![c] = dialogue[c]]
        BY <3>2
      <4> QED
        BY <3>1, <3>2, <4>1, EndsDialogue
    <3>3. CASE Says(c, "Succeeded") /\ StartsRelay(c)
      <4>1. dialogue' = [dialogue EXCEPT ![c] = <<"NoAuth", "Succeeded">>]
        BY <3>1, <3>3, Words DEF Says, Verdicts
      <4>2. <<"NoAuth", "Succeeded">> \in Dialogues
        BY DEF Dialogues, Verdicts
      <4>3. task' = [task EXCEPT ![c] = "relaying"] /\ UNCHANGED answer
        BY <3>3
      <4>4. answer[c] = "Channel"
        BY <2>8 DEF Confirm
      <4> HIDE DEF Ends, StartsRelay
      <4> QED
        BY <3>1, <4>1, <4>2, <4>3, <4>4
    <3> QED
      BY <2>8, <3>2, <3>3 DEF Confirm
  <2>9. CASE \E d \in Directions : RelayStep(c, d)
    BY <2>9 DEF RelayStep
  <2> QED
    BY <1>14, <2>1, <2>2, <2>3, <2>4, <2>5, <2>6, <2>7, <2>8, <2>9 DEF TaskStep
<1>15. CASE UNCHANGED allVars
  BY <1>15 DEF allVars, workerVars, taskVars
<1> QED
  BY <1>1, <1>2, <1>3, <1>4, <1>6, <1>7, <1>8, <1>9, <1>10, <1>11, <1>12, <1>13, <1>14, <1>15
     DEF WorkerNext, LoopStep

\* Connections only come by Accept, which looks at the limit.
LEMMA TasksStep ==
  ASSUME WorkerInv, [WorkerNext]_allVars
  PROVE  TasksBelongToWorker'
<1> USE DEF WorkerInv, WorkerTypeOK
<1>0. /\ worker \in {"none", "disconnecting"} => Connections = {}
      /\ Running => ~released
      /\ IsFiniteSet(Connections) /\ Cardinality(Connections) \in Nat
      /\ Cardinality(Connections) <= MaxActive
  BY FS_CardinalityType DEF TasksBelongToWorker
\* A step that accepts nobody.
<1>1. ASSUME Connections' \subseteq Connections,
             worker' \in {"none", "disconnecting"} => Connections' = {},
             Running' => ~released'
      PROVE  TasksBelongToWorker'
  <2>1. /\ IsFiniteSet(Connections') /\ Cardinality(Connections') \in Nat
        /\ Cardinality(Connections') <= Cardinality(Connections)
    BY <1>0, <1>1, FS_Subset, FS_CardinalityType
  <2> QED
    BY <1>0, <1>1, <2>1 DEF TasksBelongToWorker
<1>2. CASE ListenerStarts \/ ListenerRuns
  BY <1>0, <1>1, <1>2 DEF ListenerStarts, ListenerRuns, Unlent, Connections, Running
<1>3. CASE ListenerDrops
  <2>1. Connections' \subseteq Connections /\ UNCHANGED <<worker, released>>
    BY <1>3 DEF ListenerDrops, Unlent, Connections, Serving, Handshake
  <2> QED
    BY <1>0, <1>1, <2>1 DEF Running
<1>4. CASE Build
  <2>1. Connections' = {}
    BY <1>0, <1>4 DEF Build, Connections, Serving, Handshake
  <2> QED
    BY <1>1, <1>4, <2>1 DEF Build
<1>5. CASE Cancel \/ SessionDies \/ TickFires \/ HealthTick \/ PingSucceeds
  BY <1>0, <1>1, <1>5 DEF Cancel, SessionDies, TickFires, HealthTick, PingSucceeds, InLoop, taskVars,
                          Connections, Running
<1>6. CASE ReleaseListener \/ Disconnect
  BY <1>0, <1>1, <1>6 DEF ReleaseListener, Disconnect, taskVars, Connections, Running
<1>7. CASE EndRun
  BY <1>0, <1>1, <1>7 DEF EndRun, Connections, Running
<1>8. CASE LoopCancelled \/ SessionTick \/ AcceptFails
  BY <1>7, <1>8 DEF LoopCancelled, SessionTick, AcceptFails
<1>9. CASE PingFails
  BY <1>0, <1>1, <1>7, <1>9 DEF PingFails, taskVars, Connections, Running
<1>10. CASE \E c \in Clients : JoinNext(c) \/ ClientConnects(c)
  BY <1>0, <1>1, <1>10 DEF JoinNext, ClientConnects, workerVars, Connections, Serving, Handshake,
                           Running
<1>11. ASSUME NEW c \in Clients, Accept(c)
       PROVE  TasksBelongToWorker'
  <2>1. Connections' = Connections \cup {c} /\ c \notin Connections
    BY <1>11 DEF Accept, Connections, Serving, Handshake
  <2>2. Cardinality(Connections) < MaxActive
    BY <1>11 DEF Accept, MayAccept
  <2>3. IsFiniteSet(Connections') /\ Cardinality(Connections') = Cardinality(Connections) + 1
    BY <1>0, <2>1, FS_AddElement
  <2>4. worker = "loop" /\ UNCHANGED <<worker, released>>
    BY <1>11 DEF Accept, MayAccept, BelowTicks, InLoop, workerVars
  <2> QED
    BY <1>0, <2>2, <2>3, <2>4 DEF TasksBelongToWorker, Running
<1>12. CASE TakeRequest \/ OpenEnds
  BY <1>0, <1>1, <1>12 DEF TakeRequest, OpenEnds, BelowTicks, InLoop, Connections, Running
<1>13. CASE JoinAll \/ Deadline
  <2>1. Connections' = {}
    BY <1>13 DEF JoinAll, Deadline, AllJoined, Connections, Serving, Handshake
  <2> QED
    BY <1>1, <1>13, <2>1 DEF JoinAll, Deadline, Running
<1>14. ASSUME NEW c \in Clients, TaskStep(c)
       PROVE  TasksBelongToWorker'
  <2>1. UNCHANGED workerVars
    BY <1>14 DEF TaskStep, Greeting, Request, HandshakeTimeout, SendRequest, SendFails,
                 TakeAnswer, Refuse, Confirm, TaskCancelled, RelayDone, RelayFails, RelayStep,
                 TaskFrame
  <2>2. /\ c \in Connections
        /\ \E to : task' = [task EXCEPT ![c] = to]
    BY <1>14 DEF TaskStep, Greeting, Request, HandshakeTimeout, SendRequest, SendFails,
                 TakeAnswer, Refuse, Confirm, TaskCancelled, RelayDone, RelayFails, RelayStep,
                 Ends, StartsRelay, Moves, Connections, Serving, Handshake
  <2>3. Connections' \subseteq Connections
    BY <2>2 DEF Connections
  <2> QED
    BY <1>0, <1>1, <2>1, <2>3 DEF workerVars, Running
<1>15. CASE UNCHANGED allVars
  BY <1>0, <1>1, <1>15 DEF allVars, workerVars, taskVars, Connections, Running
<1> QED
  BY <1>2, <1>3, <1>4, <1>5, <1>6, <1>8, <1>9, <1>10, <1>11, <1>12, <1>13, <1>14, <1>15
     DEF WorkerNext, LoopStep

\* The queue holds each waiting task once; the loop takes the first out before
\* it answers it, and joins only tasks whose requests are gone.
LEMMA RequestsStep ==
  ASSUME WorkerInv, [WorkerNext]_allVars
  PROVE  RequestsAreOwed'
<1> USE DEF WorkerInv, WorkerTypeOK, RequestsAreOwed, Owed, Running
<1>1. CASE ListenerStarts \/ ListenerRuns
  BY <1>1 DEF ListenerStarts, ListenerRuns, Unlent
<1>2. CASE ListenerDrops
  BY <1>2 DEF ListenerDrops, Unlent
<1>3. CASE Build
  BY <1>3 DEF Build
<1>4. CASE Cancel \/ SessionDies \/ TickFires \/ HealthTick \/ PingSucceeds
  BY <1>4 DEF Cancel, SessionDies, TickFires, HealthTick, PingSucceeds, BelowTicks, InLoop, taskVars
<1>5. CASE ReleaseListener \/ Disconnect
  BY <1>5 DEF ReleaseListener, Disconnect, taskVars
<1>6. CASE EndRun
  BY <1>6 DEF EndRun
<1>7. CASE LoopCancelled \/ SessionTick \/ AcceptFails
  BY <1>6, <1>7 DEF LoopCancelled, SessionTick, AcceptFails
<1>8. CASE PingFails
  BY <1>6, <1>8 DEF PingFails, taskVars
<1>9. CASE \E c \in Clients : JoinNext(c) \/ Accept(c) \/ ClientConnects(c)
  BY <1>9 DEF JoinNext, Accept, MayAccept, BelowTicks, InLoop, ClientConnects, workerVars
<1>10. CASE TakeRequest
  <2>1. /\ requests # <<>> /\ requests' = Tail(requests) /\ serving' = Head(requests)
        /\ worker' = "opening"
        /\ UNCHANGED <<cancelled, task, answer>>
    BY <1>10 DEF TakeRequest
  <2>2. /\ Len(requests) \in Nat /\ Len(requests) > 0
        /\ DOMAIN requests = 1..Len(requests)
        /\ DOMAIN requests' = 1..(Len(requests) - 1)
        /\ \A i \in 1..(Len(requests) - 1) : requests'[i] = requests[i + 1]
        /\ serving' = requests[1] /\ serving' \in Clients
    BY <2>1
  <2>3. \A i \in DOMAIN requests' : i + 1 \in DOMAIN requests /\ requests'[i] = requests[i + 1]
    BY <2>2
  <2>4. 1 \in DOMAIN requests /\ \A i \in DOMAIN requests : Owed(requests[i])
    BY <2>2
  <2>5. ASSUME NEW i \in DOMAIN requests', requests'[i] = serving'
        PROVE  FALSE
    <3>1. i + 1 \in DOMAIN requests /\ requests[i + 1] = requests[1]
      BY <2>2, <2>3, <2>5
    <3>2. i + 1 = 1
      BY <2>4, <3>1
    <3> QED
      BY <2>2, <3>2
  <2>6. \A i, j \in DOMAIN requests' : requests'[i] = requests'[j] => i = j
    BY <2>2, <2>3
  <2>7. \A c : Owed(c) => Owed(c)'
    BY <2>1
  <2> HIDE DEF Owed
  <2>8. Owed(serving)' /\ \A i \in DOMAIN requests' : Owed(requests[i])'
    BY <2>2, <2>3, <2>4, <2>7
  <2> QED
    BY <2>1, <2>2, <2>5, <2>6, <2>8
<1>11. CASE OpenEnds
  BY <1>11 DEF OpenEnds
<1>12. CASE JoinAll \/ Deadline
  BY <1>12 DEF JoinAll, Deadline, AllJoined
<1>13. ASSUME NEW c \in Clients, TaskStep(c)
       PROVE  RequestsAreOwed'
  <2> USE DEF TaskFrame, workerVars, Moves, Cancelled
  <2>1. CASE SendRequest(c)
    <3>1. /\ task[c] = "sending" /\ answer[c] = "none"
          /\ task' = [task EXCEPT ![c] = "waiting"]
          /\ requests' = Append(requests, c)
          /\ Running
          /\ UNCHANGED <<worker, cancelled, serving, answer>>
      BY <2>1 DEF SendRequest, DialogueFollowsTask
    <3>2. /\ Len(requests) \in Nat
          /\ DOMAIN requests = 1..Len(requests)
          /\ DOMAIN requests' = 1..(Len(requests) + 1)
          /\ \A i \in 1..Len(requests) : requests'[i] = requests[i]
          /\ requests'[Len(requests) + 1] = c
      BY <3>1
    <3>3. \A i \in DOMAIN requests : requests[i] # c /\ requests[i] \in Clients
      BY <3>1
    <3> QED
      BY <3>1, <3>2, <3>3
  \* A task that moves without being owed an answer.
  <2>2. ASSUME UNCHANGED <<worker, cancelled, requests, serving>>, ~Owed(c),
               \A k \in Clients \ {c} : task'[k] = task[k] /\ answer'[k] = answer[k]
        PROVE  RequestsAreOwed'
    <3>1. \A k \in Clients : Owed(k) => Owed(k)' /\ k # c
      BY <2>2 DEF WorkerTypeOK
    <3>2. \A i \in DOMAIN requests : requests[i] \in Clients
      OBVIOUS
    <3> QED
      BY <2>2, <3>1, <3>2
  <2>3. CASE \/ Greeting(c) \/ Request(c) \/ HandshakeTimeout(c) \/ SendFails(c)
             \/ Refuse(c) \/ Confirm(c) \/ RelayDone(c) \/ RelayFails(c)
    <3>1. /\ UNCHANGED <<worker, cancelled, requests, serving>>
          /\ \A k \in Clients \ {c} : task'[k] = task[k] /\ answer'[k] = answer[k]
      BY <2>3 DEF Greeting, Request, HandshakeTimeout, SendFails, Refuse, Confirm, RelayDone,
                  RelayFails, Ends, StartsRelay
    <3>2. task[c] \in {"greeting", "request", "sending", "refusing", "confirming", "relaying"}
      BY <2>3 DEF Greeting, Request, HandshakeTimeout, SendFails, Refuse, Confirm, RelayDone,
                  RelayFails, Handshake
    <3> QED
      BY <2>2, <3>1, <3>2
  <2>4. CASE TakeAnswer(c)
    <3>1. /\ UNCHANGED <<worker, cancelled, requests, serving>>
          /\ \A k \in Clients \ {c} : task'[k] = task[k] /\ answer'[k] = answer[k]
          /\ answer[c] # "none"
      BY <2>4 DEF TakeAnswer, Ends, StartsRelay
    <3> QED
      BY <2>2, <3>1
  <2>5. CASE TaskCancelled(c)
    <3>1. /\ task' = [task EXCEPT ![c] = "finished"]
          /\ answer' = [answer EXCEPT ![c] = "none"]
          /\ UNCHANGED <<worker, cancelled, requests, serving>>
          /\ cancelled \/ released
      BY <2>5 DEF TaskCancelled, Ends
    <3> QED
      BY <3>1 DEF TasksBelongToWorker
  <2>6. CASE \E d \in Directions : RelayStep(c, d)
    BY <2>6 DEF RelayStep
  <2> QED
    BY <1>13, <2>1, <2>3, <2>4, <2>5, <2>6 DEF TaskStep
<1>14. CASE UNCHANGED allVars
  BY <1>14 DEF allVars, workerVars, taskVars
<1> QED
  BY <1>1, <1>2, <1>3, <1>4, <1>5, <1>7, <1>8, <1>9, <1>10, <1>11, <1>12, <1>13, <1>14
     DEF WorkerNext, LoopStep

-----------------------------------------------------------------------------
(* The streams.                                                            *)

\* Streams as pairs.
LEMMA StreamPairs ==
  \A s \in Streams : /\ s[1] \in Clients /\ s[2] \in Directions
                     /\ s = <<s[1], s[2]>>
  BY DEF Streams

LEMMA PairIsStream ==
  ASSUME NEW c \in Clients, NEW d \in Directions
  PROVE  <<c, d>> \in Streams
  BY DEF Streams

\* The types of the streams, without the counter of relays.
StreamTypes ==
  /\ sent \in [Streams -> Nat]
  /\ eof \in [Streams -> BOOLEAN]
  /\ taken \in [Streams -> Nat]
  /\ chunk \in [Streams -> Seq(Nat)]
  /\ received \in [Streams -> Seq(Nat)]
  /\ shut \in [Streams -> BOOLEAN]
  /\ traffic \in [Directions -> Nat]

\* The bytes of a sequence are numbered from the one after m.
Counts(bytes, m) == \A i \in DOMAIN bytes : bytes[i] = m + i

\* A read of n bytes, and a write of the first n bytes of the buffer.
LEMMA Chunks ==
  ASSUME NEW m \in Nat, NEW n \in Nat
  PROVE  /\ [i \in 1..n |-> m + i] \in Seq(Nat)
         /\ Len([i \in 1..n |-> m + i]) = n
  OBVIOUS

LEMMA WrittenChunk ==
  ASSUME NEW r \in Seq(Nat), NEW b \in Seq(Nat), NEW n \in 1..Len(b),
         Counts(r, 0), Counts(b, Len(r))
  PROVE  /\ r \o SubSeq(b, 1, n) \in Seq(Nat)
         /\ SubSeq(b, n + 1, Len(b)) \in Seq(Nat)
         /\ Len(r \o SubSeq(b, 1, n)) = Len(r) + n
         /\ Len(SubSeq(b, n + 1, Len(b))) = Len(b) - n
         /\ Counts(r \o SubSeq(b, 1, n), 0)
         /\ Counts(SubSeq(b, n + 1, Len(b)), Len(r) + n)
<1> DEFINE h == SubSeq(b, 1, n)
           w == r \o h
           l == SubSeq(b, n + 1, Len(b))
<1>1. Len(b) \in Nat /\ Len(r) \in Nat /\ n \in Nat
  OBVIOUS
<1>2. /\ h \in Seq(Nat) /\ Len(h) = n
      /\ \A i \in 1..n : h[i] = b[i]
  BY <1>1
<1>3. /\ l \in Seq(Nat) /\ Len(l) = Len(b) - n
      /\ \A i \in 1..(Len(b) - n) : l[i] = b[n + i]
  <2>1. l \in Seq(Nat) /\ Len(l) = Len(b) - n
    BY <1>1
  <2>2. ASSUME NEW i \in 1..(Len(b) - n)
        PROVE  l[i] = b[n + i]
    <3>1. (n + 1) + i - 1 = n + i /\ i \in 1..Len(l)
      BY <1>1, <2>1
    <3>2. l[i] = b[(n + 1) + i - 1]
      BY <1>1, <3>1, SubSeqProperties
    <3> QED
      BY <3>1, <3>2
  <2> QED
    BY <2>1, <2>2
<1>4. /\ w \in Seq(Nat) /\ Len(w) = Len(r) + n
      /\ \A i \in 1..Len(r) : w[i] = r[i]
      /\ \A i \in (Len(r) + 1)..(Len(r) + n) : w[i] = h[i - Len(r)]
  BY <1>1, <1>2
<1>5. ASSUME NEW i \in DOMAIN w PROVE w[i] = 0 + i
  <2>1. CASE i \in 1..Len(r)
    BY <1>1, <1>4, <2>1 DEF Counts
  <2>2. CASE i \in (Len(r) + 1)..(Len(r) + n)
    <3>1. i - Len(r) \in 1..n /\ i - Len(r) \in DOMAIN b
      BY <1>1, <2>2
    <3> QED
      BY <1>1, <1>2, <1>4, <2>2, <3>1 DEF Counts
  <2> QED
    BY <1>1, <1>4, <2>1, <2>2
<1>6. ASSUME NEW i \in DOMAIN l PROVE l[i] = (Len(r) + n) + i
  <2>1. i \in 1..(Len(b) - n) /\ n + i \in DOMAIN b
    BY <1>1, <1>3
  <2> QED
    BY <1>1, <1>3, <2>1 DEF Counts
<1>7. Counts(w, 0) /\ Counts(l, Len(r) + n)
  BY <1>5, <1>6 DEF Counts
<1> QED
  BY <1>3, <1>4, <1>7

streamVars == <<sent, eof, taken, chunk, received, shut, traffic>>

Relaying == {c \in Clients : task[c] = "relaying"}

LEMMA FiniteRelaying == IsFiniteSet(Relaying) /\ Cardinality(Relaying) \in Nat
  BY FS_Subset, FS_CardinalityType DEF Relaying

\* A step that leaves the streams alone, starts no relay and ends none.
LEMMA QuietStreams ==
  ASSUME WorkerInv, UNCHANGED relayVars,
         \A c \in Clients :
           /\ task'[c] = "relaying" <=> task[c] = "relaying"
           /\ task[c] \in {"finished", "gone"} => task'[c] \in {"finished", "gone"}
  PROVE  StreamTypes' /\ StreamsFollowTask' /\ ActiveIsCounted'
<1>1. StreamTypes'
  BY DEF WorkerInv, RelayTypeOK, StreamTypes, relayVars
<1>2. ASSUME NEW c \in Clients, NEW d \in Directions
      PROVE  StreamFollowsTask(c, <<c, d>>)'
  BY DEF WorkerInv, StreamsFollowTask, StreamFollowsTask, relayVars
<1>3. ActiveIsCounted'
  <2>1. Relaying' = Relaying
    BY DEF Relaying
  <2> QED
    BY <2>1 DEF WorkerInv, ActiveIsCounted, Relaying, relayVars
<1> QED
  BY <1>1, <1>2, <1>3 DEF StreamsFollowTask

\* Tasks that end, or are aborted, drop their streams.
LEMMA DroppedStreams ==
  ASSUME WorkerInv, NEW clients \in SUBSET Clients, DropStreams(clients),
         \A c \in clients : task'[c] \in {"finished", "gone"},
         \A c \in Clients \ clients : task'[c] = task[c]
  PROVE  StreamTypes' /\ StreamsFollowTask'
<1> USE DEF WorkerInv, RelayTypeOK, DropStreams
<1>1. StreamTypes'
  <2>1. <<>> \in Seq(Nat) /\ 0 \in Nat
    OBVIOUS
  <2> QED
    BY <2>1 DEF StreamTypes
<1>2. ASSUME NEW c \in Clients, NEW d \in Directions
      PROVE  StreamFollowsTask(c, <<c, d>>)'
  <2> DEFINE s == <<c, d>>
  <2>1. s \in Streams /\ s[1] = c
    BY PairIsStream
  <2>2. StreamFollowsTask(c, s)
    BY DEF StreamsFollowTask
  <2>3. received'[s] = received[s]
    OBVIOUS
  <2>4. CASE c \in clients
    <3>1. /\ sent'[s] = 0 /\ taken'[s] = 0 /\ chunk'[s] = <<>>
          /\ ~eof'[s] /\ ~shut'[s]
      BY <2>1, <2>4
    <3>2. task'[c] \in {"finished", "gone"}
      BY <2>4
    <3> HIDE DEF s
    <3> QED
      BY <2>2, <2>3, <3>1, <3>2 DEF StreamFollowsTask, s
  <2>5. CASE c \notin clients
    <3>1. /\ sent'[s] = sent[s] /\ taken'[s] = taken[s] /\ chunk'[s] = chunk[s]
          /\ eof'[s] = eof[s] /\ shut'[s] = shut[s]
      BY <2>1, <2>5
    <3>2. task'[c] = task[c]
      BY <2>5
    <3> HIDE DEF s
    <3> QED
      BY <2>2, <2>3, <3>1, <3>2 DEF StreamFollowsTask, s
  <2> QED
    BY <2>4, <2>5
<1> QED
  BY <1>1, <1>2 DEF StreamsFollowTask

LEMMA EndedStreams ==
  ASSUME WorkerInv, NEW c \in Clients, Ends(c)
  PROVE  StreamTypes' /\ StreamsFollowTask' /\ ActiveIsCounted'
<1>1. /\ DropStreams({c}) /\ {c} \in SUBSET Clients
      /\ task'[c] = "finished"
      /\ \A k \in Clients \ {c} : task'[k] = task[k]
  BY DEF Ends, Moves, WorkerInv, WorkerTypeOK
<1>2. StreamTypes' /\ StreamsFollowTask'
  BY <1>1, DroppedStreams
<1>3. Relaying' = Relaying \ {c} /\ (c \in Relaying <=> task[c] = "relaying")
  BY <1>1 DEF Relaying
<1>4. Cardinality(Relaying') = IF task[c] = "relaying" THEN Cardinality(Relaying) - 1
                               ELSE Cardinality(Relaying)
  BY <1>3, FiniteRelaying, FS_RemoveElement
<1> QED
  BY <1>2, <1>4 DEF Ends, ActiveIsCounted, Relaying, WorkerInv

\* A relay starts with empty streams.
LEMMA StartedStreams ==
  ASSUME WorkerInv, NEW c \in Clients, StartsRelay(c),
         task[c] \notin {"relaying", "finished", "gone"}
  PROVE  StreamTypes' /\ StreamsFollowTask' /\ ActiveIsCounted'
<1>1. UNCHANGED streamVars
  BY DEF StartsRelay, streamVars
<1>2. task' = [task EXCEPT ![c] = "relaying"]
  BY DEF StartsRelay, Moves
<1>3. StreamTypes'
  BY <1>1 DEF WorkerInv, RelayTypeOK, StreamTypes, streamVars
<1>4. ASSUME NEW k \in Clients, NEW d \in Directions
      PROVE  StreamFollowsTask(k, <<k, d>>)'
  <2> DEFINE s == <<k, d>>
  <2>1. StreamFollowsTask(k, s) /\ s \in Streams
    BY PairIsStream DEF WorkerInv, StreamsFollowTask
  <2> HIDE DEF s
  <2>2. CASE k = c
    <3>1. received[s] = <<>> /\ chunk[s] = <<>> /\ taken[s] = 0 /\ sent[s] = 0 /\ ~shut[s]
      BY <2>1, <2>2 DEF StreamFollowsTask
    <3>2. Len(<<>>) = 0 /\ DOMAIN <<>> = {}
      OBVIOUS
    <3>3. task'[k] = "relaying"
      BY <1>2, <2>2 DEF WorkerInv, WorkerTypeOK
    <3>4. StreamFollowsTask(k, s)'
      BY <1>1, <3>1, <3>2, <3>3 DEF StreamFollowsTask, streamVars, s
    <3> QED
      BY <3>4 DEF s
  <2>3. CASE k # c
    <3>1. task'[k] = task[k]
      BY <1>2, <2>3 DEF WorkerInv, WorkerTypeOK
    <3>2. StreamFollowsTask(k, s)'
      BY <1>1, <2>1, <3>1 DEF StreamFollowsTask, streamVars, s
    <3> QED
      BY <3>2 DEF s
  <2> QED
    BY <2>2, <2>3
<1>5. ActiveIsCounted'
  <2>1. Relaying' = Relaying \cup {c} /\ c \notin Relaying
    BY <1>2 DEF WorkerInv, WorkerTypeOK, Relaying
  <2>2. Cardinality(Relaying') = Cardinality(Relaying) + 1
    BY <2>1, FiniteRelaying, FS_AddElement
  <2> QED
    BY <2>2 DEF StartsRelay, ActiveIsCounted, Relaying, WorkerInv
<1> QED
  BY <1>3, <1>4, <1>5 DEF StreamsFollowTask

\* Fresh streams suit tasks that have not started.
LEMMA FreshStreamsFollow ==
  ASSUME NEW c \in Clients, NEW d \in Directions, FreshStreams, task[c] # "relaying"
  PROVE  StreamFollowsTask(c, <<c, d>>)
  BY PairIsStream DEF FreshStreams, StreamFollowsTask

LEMMA NewStreamsFollow ==
  ASSUME NEW c \in Clients, NEW d \in Directions, NewStreams, task'[c] # "relaying"
  PROVE  StreamFollowsTask(c, <<c, d>>)'
  BY PairIsStream DEF NewStreams, StreamFollowsTask

\* A step of one stream of a relay; the other streams stay as they are.
LEMMA MovedStream ==
  ASSUME WorkerInv, NEW c \in Clients, NEW d \in Directions,
         SourceSends(<<c, d>>) \/ SourceEnds(<<c, d>>) \/ CopyDirection(<<c, d>>),
         task[c] = "relaying", UNCHANGED task
  PROVE  StreamTypes' /\ StreamsFollowTask' /\ ActiveIsCounted'
<1> DEFINE s == <<c, d>>
<1>1. s \in Streams /\ s[2] = d /\ d \in Directions
  BY PairIsStream
<1>2. StreamTypes /\ StreamFollowsTask(c, s)
  BY DEF WorkerInv, RelayTypeOK, StreamTypes, StreamsFollowTask
<1>3. \A k \in Clients, e \in Directions : <<k, e>> # s => StreamFollowsTask(k, <<k, e>>)
  BY DEF WorkerInv, StreamsFollowTask
<1>4. SourceSends(s) \/ SourceEnds(s) \/ ReadChunk(s) \/ WriteChunk(s) \/ ForwardEof(s)
  BY DEF CopyDirection
<1> HIDE DEF s
<1>5. /\ Len(received[s]) + Len(chunk[s]) = taken[s]
      /\ taken[s] <= sent[s]
      /\ \A i \in DOMAIN received[s] : received[s][i] = i
      /\ \A i \in DOMAIN chunk[s] : chunk[s][i] = Len(received[s]) + i
      /\ shut[s] => eof[s] /\ chunk[s] = <<>> /\ taken[s] = sent[s]
  BY <1>2 DEF StreamFollowsTask
<1>6. /\ sent[s] \in Nat /\ taken[s] \in Nat
      /\ chunk[s] \in Seq(Nat) /\ received[s] \in Seq(Nat)
  BY <1>1, <1>2 DEF StreamTypes
<1>7. StreamTypes' /\ StreamFollowsTask(c, s)'
  <2>1. CASE SourceSends(s)
    <3>1. /\ ~eof[s] /\ sent' = [sent EXCEPT ![s] = sent[s] + 1]
          /\ UNCHANGED <<eof, taken, chunk, received, shut, traffic>>
      BY <2>1 DEF SourceSends
    <3>2. StreamTypes' /\ sent'[s] = sent[s] + 1
      BY <1>1, <1>2, <1>6, <3>1 DEF StreamTypes
    <3>3. taken[s] <= sent[s] + 1 /\ ~shut[s]
      BY <1>5, <1>6, <3>1
    <3> QED
      BY <1>5, <3>1, <3>2, <3>3 DEF StreamFollowsTask
  <2>2. CASE SourceEnds(s)
    <3>1. /\ eof' = [eof EXCEPT ![s] = TRUE]
          /\ UNCHANGED <<sent, taken, chunk, received, shut, traffic>>
      BY <2>2 DEF SourceEnds
    <3>2. StreamTypes' /\ eof'[s]
      BY <1>1, <1>2, <3>1 DEF StreamTypes
    <3> QED
      BY <1>5, <3>1, <3>2 DEF StreamFollowsTask
  <2>3. CASE ReadChunk(s)
    <3>1. PICK n \in 1..BufferBytes :
            /\ taken[s] + n <= sent[s]
            /\ chunk' = [chunk EXCEPT ![s] = [i \in 1..n |-> taken[s] + i]]
            /\ taken' = [taken EXCEPT ![s] = taken[s] + n]
      BY <2>3 DEF ReadChunk
    <3>2. chunk[s] = <<>> /\ UNCHANGED <<sent, eof, received, shut, traffic>>
      BY <2>3 DEF ReadChunk
    <3>3. n \in Nat \ {0} /\ Len(received[s]) = taken[s] /\ ~shut[s]
      BY <1>5, <1>6, <3>1, <3>2
    <3> DEFINE new == [i \in 1..n |-> taken[s] + i]
    <3>4. new \in Seq(Nat) /\ Len(new) = n /\ \A i \in DOMAIN new : new[i] = taken[s] + i
      BY <1>6, <3>3, Chunks
    <3> HIDE DEF new
    <3>5. StreamTypes' /\ chunk'[s] = new /\ taken'[s] = taken[s] + n
      BY <1>1, <1>2, <1>6, <3>1, <3>2, <3>3, <3>4 DEF StreamTypes, new
    <3> QED
      BY <1>5, <1>6, <3>1, <3>2, <3>3, <3>4, <3>5 DEF StreamFollowsTask
  <2>4. CASE WriteChunk(s)
    <3>1. PICK n \in 1..Len(chunk[s]) :
            /\ received' = [received EXCEPT ![s] = received[s] \o SubSeq(chunk[s], 1, n)]
            /\ chunk' = [chunk EXCEPT ![s] = SubSeq(chunk[s], n + 1, Len(chunk[s]))]
            /\ traffic' = [traffic EXCEPT ![d] = traffic[d] + n]
      BY <1>1, <2>4 DEF WriteChunk
    <3>2. chunk[s] # <<>> /\ UNCHANGED <<sent, eof, taken, shut>>
      BY <2>4 DEF WriteChunk
    <3>3. PICK r, b, t : r = received[s] /\ b = chunk[s] /\ t = taken[s]
      OBVIOUS
    <3>4. PICK w, l :
            /\ w = r \o SubSeq(b, 1, n) /\ l = SubSeq(b, n + 1, Len(b))
            /\ w \in Seq(Nat) /\ l \in Seq(Nat)
            /\ Len(w) + Len(l) = t
            /\ Counts(w, 0) /\ Counts(l, Len(w))
      <4>1. /\ r \in Seq(Nat) /\ b \in Seq(Nat) /\ n \in 1..Len(b)
            /\ Counts(r, 0) /\ Counts(b, Len(r))
            /\ Len(r) + Len(b) = t
        <5>1. /\ r \in Seq(Nat) /\ b \in Seq(Nat) /\ n \in 1..Len(b)
              /\ \A i \in DOMAIN r : r[i] = i
              /\ \A i \in DOMAIN b : b[i] = Len(r) + i
              /\ Len(r) + Len(b) = t
          BY <1>5, <1>6, <3>3
        <5>2. \A i \in DOMAIN r : 0 + i = i
          BY <5>1
        <5> QED
          BY <5>1, <5>2 DEF Counts
      <4>2. PICK w, l : w = r \o SubSeq(b, 1, n) /\ l = SubSeq(b, n + 1, Len(b))
        OBVIOUS
      <4>3. /\ w \in Seq(Nat) /\ l \in Seq(Nat)
            /\ Len(w) = Len(r) + n /\ Len(l) = Len(b) - n
            /\ Counts(w, 0) /\ Counts(l, Len(r) + n)
        BY <4>1, <4>2, WrittenChunk
      <4>4. Len(r) \in Nat /\ Len(b) \in Nat /\ n \in Nat
        BY <4>1
      <4>5. Len(w) + Len(l) = t
        BY <4>1, <4>3, <4>4
      <4> QED
        BY <4>2, <4>3, <4>5
    <3>5. traffic' \in [Directions -> Nat]
      <4>1. traffic[d] + n \in Nat
        BY <1>1, <1>2, <1>6 DEF StreamTypes
      <4> QED
        BY <1>2, <3>1, <4>1 DEF StreamTypes
    <3>6. StreamTypes' /\ received'[s] = w /\ chunk'[s] = l
      BY <1>1, <1>2, <3>1, <3>2, <3>3, <3>4, <3>5 DEF StreamTypes
    <3>7. ~shut[s] /\ Len(w) + Len(l) = taken[s]
      BY <1>5, <3>2, <3>3, <3>4
    <3>8. \A i \in DOMAIN w : 0 + i = i
      BY <3>4
    <3>9. /\ \A i \in DOMAIN w : w[i] = i
          /\ \A i \in DOMAIN l : l[i] = Len(w) + i
      BY <3>4, <3>8 DEF Counts
    <3> QED
      BY <1>5, <3>2, <3>6, <3>7, <3>9 DEF StreamFollowsTask
  <2>5. CASE ForwardEof(s)
    <3>1. /\ chunk[s] = <<>> /\ taken[s] = sent[s] /\ eof[s]
          /\ shut' = [shut EXCEPT ![s] = TRUE]
          /\ UNCHANGED <<sent, eof, taken, chunk, received, traffic>>
      BY <2>5 DEF ForwardEof
    <3>2. StreamTypes' /\ shut'[s]
      BY <1>1, <1>2, <3>1 DEF StreamTypes
    <3> QED
      BY <1>5, <3>1, <3>2 DEF StreamFollowsTask
  <2> QED
    BY <1>4, <2>1, <2>2, <2>3, <2>4, <2>5
<1>8. \A t \in Streams \ {s} :
        /\ sent'[t] = sent[t] /\ eof'[t] = eof[t] /\ taken'[t] = taken[t] /\ chunk'[t] = chunk[t]
        /\ received'[t] = received[t] /\ shut'[t] = shut[t]
  BY <1>1, <1>2, <1>4 DEF StreamTypes, SourceSends, SourceEnds, ReadChunk, WriteChunk, ForwardEof
<1>9. ASSUME NEW k \in Clients, NEW e \in Directions
      PROVE  StreamFollowsTask(k, <<k, e>>)'
  <2>1. CASE <<k, e>> = s
    <3>1. k = c /\ e = d
      BY <2>1 DEF s
    <3> QED
      BY <1>7, <3>1 DEF s
  <2>2. CASE <<k, e>> # s
    <3> DEFINE t == <<k, e>>
    <3>1. t \in Streams \ {s} /\ StreamFollowsTask(k, t)
      BY <1>3, <2>2, PairIsStream
    <3> HIDE DEF t
    <3>2. StreamFollowsTask(k, t)'
      BY <1>8, <3>1 DEF StreamFollowsTask, t
    <3> QED
      BY <3>2 DEF t
  <2> QED
    BY <2>1, <2>2
<1>10. ActiveIsCounted'
  BY <1>4 DEF WorkerInv, ActiveIsCounted, SourceSends, SourceEnds, ReadChunk, WriteChunk, ForwardEof
<1> QED
  BY <1>7, <1>9, <1>10 DEF StreamsFollowTask

\* Every step moves the streams and the count of relays along with the tasks.
LEMMA StreamsStep ==
  ASSUME WorkerInv, [WorkerNext]_allVars
  PROVE  StreamTypes' /\ StreamsFollowTask' /\ ActiveIsCounted'
<1> DEFINE Goal == StreamTypes' /\ StreamsFollowTask' /\ ActiveIsCounted'
<1>1. ASSUME UNCHANGED relayVars, UNCHANGED task
      PROVE  Goal
  BY <1>1, QuietStreams
\* One task moves, and neither starts nor ends a relay.
<1>2. ASSUME NEW c \in Clients, NEW to, UNCHANGED relayVars, task' = [task EXCEPT ![c] = to],
             task[c] # "relaying", to # "relaying",
             task[c] \in {"finished", "gone"} => to \in {"finished", "gone"}
      PROVE  Goal
  <2>1. \A k \in Clients : task'[k] = IF k = c THEN to ELSE task[k]
    BY <1>2 DEF WorkerInv, WorkerTypeOK
  <2> QED
    BY <1>2, <2>1, QuietStreams
<1>3. CASE ListenerStarts \/ ListenerRuns
  BY <1>1, <1>3 DEF ListenerStarts, ListenerRuns, Unlent
<1>4. CASE ListenerDrops
  BY <1>4, QuietStreams DEF ListenerDrops, Unlent
<1>5. CASE Build
  <2>1. \A c \in Clients : task'[c] # "relaying"
    BY <1>5 DEF Build, WorkerInv, TasksBelongToWorker, Connections, Serving
  <2>2. StreamTypes'
    <3>1. <<>> \in Seq(Nat) /\ 0 \in Nat
      OBVIOUS
    <3> QED
      BY <1>5, <3>1 DEF Build, NewStreams, StreamTypes
  <2>3. StreamsFollowTask'
    BY <1>5, <2>1, NewStreamsFollow DEF Build, StreamsFollowTask
  <2>4. Relaying' = {}
    BY <2>1 DEF Relaying
  <2> QED
    BY <1>5, <2>2, <2>3, <2>4, FS_EmptySet DEF Build, NewStreams, ActiveIsCounted, Relaying
<1>6. CASE \/ Cancel \/ SessionDies \/ TickFires \/ HealthTick \/ PingSucceeds \/ PingFails
           \/ ReleaseListener \/ Disconnect
  BY <1>1, <1>6 DEF Cancel, SessionDies, TickFires, HealthTick, PingSucceeds, PingFails, EndRun,
                    ReleaseListener, Disconnect, taskVars
<1>7. CASE LoopCancelled \/ SessionTick \/ AcceptFails \/ TakeRequest \/ OpenEnds
  BY <1>1, <1>7 DEF LoopCancelled, SessionTick, AcceptFails, EndRun, TakeRequest, OpenEnds
<1>8. CASE \E c \in Clients : JoinNext(c) \/ Accept(c) \/ ClientConnects(c)
  <2>1. PICK c \in Clients : JoinNext(c) \/ Accept(c) \/ ClientConnects(c)
    BY <1>8
  <2>2. PICK to : /\ task' = [task EXCEPT ![c] = to] /\ to # "relaying"
                  /\ task[c] \in {"finished", "gone"} => to \in {"finished", "gone"}
    BY <2>1 DEF JoinNext, Accept, ClientConnects
  <2>3. UNCHANGED relayVars /\ task[c] # "relaying"
    BY <2>1 DEF JoinNext, Accept, ClientConnects
  <2> QED
    BY <1>2, <2>2, <2>3
<1>9. CASE JoinAll
  <2>1. /\ Connections = Finished /\ UNCHANGED relayVars
        /\ task' = [c \in Clients |-> IF c \in Connections THEN "gone" ELSE task[c]]
    BY <1>9 DEF JoinAll, AllJoined
  <2>2. \A c \in Clients : task[c] # "relaying"
    BY <2>1 DEF Connections, Finished, Serving
  <2> QED
    BY <2>1, <2>2, QuietStreams
<1>10. CASE Deadline
  <2>1. /\ DropStreams(Connections) /\ Connections \in SUBSET Clients
        /\ task' = [c \in Clients |-> IF c \in Connections THEN "gone" ELSE task[c]]
        /\ active' = active - Cardinality({c \in Connections : task[c] = "relaying"})
    BY <1>10 DEF Deadline, AllJoined, Connections
  <2>2. StreamTypes' /\ StreamsFollowTask'
    BY <2>1, DroppedStreams
  <2>3. {c \in Connections : task[c] = "relaying"} = Relaying /\ Relaying' = {}
    BY <2>1 DEF Connections, Serving, Relaying
  <2>4. active = Cardinality(Relaying)
    BY DEF WorkerInv, ActiveIsCounted, Relaying
  <2>5. active' = 0
    BY <2>1, <2>3, <2>4, FiniteRelaying
  <2> QED
    BY <2>2, <2>3, <2>5, FS_EmptySet DEF ActiveIsCounted, Relaying
<1>11. ASSUME NEW c \in Clients, TaskStep(c)
       PROVE  Goal
  <2>1. CASE Ends(c)
    BY <2>1, EndedStreams
  <2>2. CASE StartsRelay(c) /\ (TakeAnswer(c) \/ Confirm(c))
    BY <2>2, StartedStreams DEF TakeAnswer, Confirm
  <2>3. CASE Greeting(c) \/ Request(c) \/ SendRequest(c)
    BY <1>2, <2>1, <2>3 DEF Greeting, Request, SendRequest, Moves
  <2>4. CASE SendFails(c)
    BY <1>2, <2>1, <2>4 DEF SendFails, Moves
  <2>5. CASE TakeAnswer(c)
    BY <1>2, <2>1, <2>2, <2>5 DEF TakeAnswer, Moves
  <2>6. CASE \/ HandshakeTimeout(c) \/ Refuse(c) \/ TaskCancelled(c)
             \/ RelayDone(c) \/ RelayFails(c)
    BY <2>1, <2>6 DEF HandshakeTimeout, Refuse, TaskCancelled, RelayDone, RelayFails
  <2>7. CASE Confirm(c)
    BY <2>1, <2>2, <2>7 DEF Confirm
  <2>8. CASE \E d \in Directions : RelayStep(c, d)
    BY <2>8, MovedStream DEF RelayStep
  <2> QED
    BY <1>11, <2>3, <2>4, <2>5, <2>6, <2>7, <2>8 DEF TaskStep
<1>12. CASE UNCHANGED allVars
  BY <1>1, <1>12 DEF allVars, taskVars
<1> QED
  BY <1>3, <1>4, <1>5, <1>6, <1>7, <1>8, <1>9, <1>10, <1>11, <1>12 DEF WorkerNext, LoopStep

\* The types of the streams and the count of relays give the type of the rest.
LEMMA RelayTypes == StreamTypes /\ ActiveIsCounted => RelayTypeOK
<1>1. Cardinality(Relaying) \in 0..Cardinality(Clients)
  <2>1. Relaying \in SUBSET Clients
    BY DEF Relaying
  <2> QED
    BY <2>1, FiniteRelaying, FS_Subset, FS_CardinalityType
<1> QED
  BY <1>1 DEF StreamTypes, ActiveIsCounted, Relaying, RelayTypeOK

-----------------------------------------------------------------------------
(* The traffic counters.                                                   *)

\* How much each client has been sent, or has sent, with success.
Delivered(d) == [c \in Clients |-> Len(received[<<c, d>>])]

\* What was delivered is a number for each client.
LEMMA DeliveredType ==
  ASSUME NEW r \in [Streams -> Seq(Nat)], NEW d \in Directions
  PROVE  [c \in Clients |-> Len(r[<<c, d>>])] \in [Clients -> Nat]
<1>1. ASSUME NEW c \in Clients
      PROVE  Len(r[<<c, d>>]) \in Nat
  <2>1. r[<<c, d>>] \in Seq(Nat)
    BY PairIsStream
  <2> QED
    BY <2>1, LenProperties
<1> QED
  BY <1>1

\* Only a write adds to what was delivered, and it is counted.
LEMMA WriteIsCounted ==
  ASSUME WorkerInv, TrafficIsCounted, NEW c \in Clients, NEW d \in Directions,
         WriteChunk(<<c, d>>), StreamTypes'
  PROVE  TrafficIsCounted'
<1> DEFINE s == <<c, d>>
<1>1. s \in Streams /\ s[2] = d
  BY PairIsStream
<1>2. StreamTypes
  BY DEF WorkerInv, RelayTypeOK, StreamTypes
<1>3. PICK n \in 1..Len(chunk[s]) :
        /\ received' = [received EXCEPT ![s] = received[s] \o SubSeq(chunk[s], 1, n)]
        /\ traffic' = [traffic EXCEPT ![d] = traffic[d] + n]
  BY <1>1 DEF WriteChunk
<1>4. n \in Nat /\ Len(received'[s]) = Len(received[s]) + n
  <2>1. PICK r, b : r = received[s] /\ b = chunk[s]
    OBVIOUS
  <2>2. r \in Seq(Nat) /\ b \in Seq(Nat) /\ n \in 1..Len(b)
    BY <1>1, <1>2, <1>3, <2>1 DEF StreamTypes
  <2>3. Len(r \o SubSeq(b, 1, n)) = Len(r) + n /\ n \in Nat
    BY <2>2
  <2>4. received'[s] = r \o SubSeq(b, 1, n)
    BY <1>1, <1>2, <1>3, <2>1 DEF StreamTypes
  <2> QED
    BY <2>1, <2>3, <2>4
<1>5. \A t \in Streams \ {s} : received'[t] = received[t]
  BY <1>1, <1>2, <1>3 DEF StreamTypes
<1>6. ASSUME NEW e \in Directions
      PROVE  traffic'[e] = SumFunction(Delivered(e)')
  <2>1. CASE e # d
    <3>1. \A k \in Clients : <<k, e>> \in Streams \ {s}
      BY <2>1, PairIsStream
    <3>2. Delivered(e)' = Delivered(e)
      BY <1>5, <3>1 DEF Delivered
    <3>3. traffic'[e] = traffic[e]
      BY <1>2, <1>3, <2>1 DEF StreamTypes
    <3> QED
      BY <3>2, <3>3 DEF TrafficIsCounted, Delivered
  <2>2. CASE e = d
    <3>1. PICK f, g : f = Delivered(d) /\ g = Delivered(d)'
      OBVIOUS
    <3>2. f \in [Clients -> Nat] /\ g \in [Clients -> Nat]
      <4>1. received \in [Streams -> Seq(Nat)] /\ received' \in [Streams -> Seq(Nat)]
        BY <1>2 DEF StreamTypes
      <4> QED
        BY <3>1, <4>1, DeliveredType DEF Delivered
    <3>3. g[c] = f[c] + n
      BY <1>4, <3>1 DEF Delivered
    <3>4. \A k \in Clients \ {c} : <<k, d>> \in Streams \ {s}
      BY PairIsStream
    <3>5. \A k \in Clients \ {c} : g[k] = f[k]
      BY <1>5, <3>1, <3>4 DEF Delivered
    <3>6. SumFunction(g) = SumFunction(f) + n
      <4>1. g = [f EXCEPT ![c] = f[c] + n]
        BY <3>2, <3>3, <3>5
      <4> QED
        BY <1>4, <3>2, <4>1, ClientSumGrows
    <3>7. traffic'[d] = traffic[d] + n /\ traffic[d] = SumFunction(f)
      BY <1>2, <1>3, <3>1 DEF StreamTypes, TrafficIsCounted, Delivered
    <3> QED
      BY <2>2, <3>1, <3>6, <3>7
  <2> QED
    BY <2>1, <2>2
<1> QED
  BY <1>6 DEF TrafficIsCounted, Delivered

\* A new worker starts from zero, and no other step changes the counters.
LEMMA TrafficStep ==
  ASSUME WorkerInv, TrafficIsCounted, [WorkerNext]_allVars
  PROVE  TrafficIsCounted'
<1>1. CASE UNCHANGED <<received, traffic>>
  BY <1>1 DEF TrafficIsCounted
<1>2. CASE Build
  <2>1. \A d \in Directions, c \in Clients : Len(received'[<<c, d>>]) = 0
    <3>1. \A t \in Streams : received'[t] = <<>>
      BY <1>2 DEF Build, NewStreams
    <3> QED
      BY <3>1, PairIsStream
  <2>2. \A d \in Directions : Delivered(d)' = [c \in Clients |-> 0]
    BY <2>1 DEF Delivered
  <2>3. \A d \in Directions : traffic'[d] = 0
    BY <1>2 DEF Build, NewStreams
  <2>4. SumFunction([c \in Clients |-> 0]) = 0
    BY SumOfZeros
  <2> QED
    BY <2>2, <2>3, <2>4 DEF TrafficIsCounted, Delivered
<1>3. ASSUME NEW c \in Clients, TaskStep(c)
      PROVE  TrafficIsCounted'
  <2>1. CASE \E d \in Directions : RelayStep(c, d)
    <3>1. PICK d \in Directions :
            SourceSends(<<c, d>>) \/ SourceEnds(<<c, d>>) \/ CopyDirection(<<c, d>>)
      BY <2>1 DEF RelayStep
    <3>2. CASE WriteChunk(<<c, d>>)
      BY <3>2, StreamsStep, WriteIsCounted
    <3>3. CASE ~WriteChunk(<<c, d>>)
      BY <1>1, <3>1, <3>3 DEF SourceSends, SourceEnds, CopyDirection, ReadChunk, ForwardEof
    <3> QED
      BY <3>2, <3>3
  <2>2. CASE ~ \E d \in Directions : RelayStep(c, d)
    BY <1>1, <1>3, <2>2 DEF TaskStep, Greeting, Request, HandshakeTimeout, SendRequest, SendFails,
       TakeAnswer, Refuse, Confirm, TaskCancelled, RelayDone, RelayFails, Moves, Ends, StartsRelay,
       DropStreams, relayVars
  <2> QED
    BY <2>1, <2>2
<1>4. CASE UNCHANGED allVars
  BY <1>1, <1>4 DEF allVars, relayVars
<1>5. CASE \/ ListenerStarts \/ ListenerRuns \/ ListenerDrops \/ Cancel \/ SessionDies
           \/ ReleaseListener \/ Disconnect \/ JoinAll \/ Deadline \/ LoopCancelled
  BY <1>1, <1>5 DEF ListenerStarts, ListenerRuns, ListenerDrops, Unlent, Cancel, SessionDies,
     ReleaseListener, Disconnect, JoinAll, Deadline, AllJoined, LoopCancelled, EndRun,
     DropStreams, relayVars, taskVars
<1>6. CASE \/ LoopStep \/ \E c \in Clients : ClientConnects(c)
  BY <1>1, <1>6 DEF LoopStep, ClientConnects, SessionTick, TickFires, HealthTick,
              PingSucceeds, PingFails,
     TakeRequest, OpenEnds, AcceptFails, JoinNext, Accept, EndRun, relayVars, taskVars
<1> QED
  BY <1>2, <1>3, <1>4, <1>5, <1>6 DEF WorkerNext

-----------------------------------------------------------------------------
(* The invariant, and what follows from it.                                *)

LEMMA WorkerInitInv == WorkerInit => WorkerInv
<1> SUFFICES ASSUME WorkerInit PROVE WorkerInv
  OBVIOUS
<1> USE DEF WorkerInit
<1>1. <<>> \in Seq(Replies) /\ <<>> \in Seq(Clients) /\ <<>> \in Seq(Nat) /\ DOMAIN <<>> = {}
  OBVIOUS
<1>2. WorkerTypeOK
  BY <1>1 DEF WorkerTypeOK
<1>3. StreamTypes
  BY <1>1 DEF FreshStreams, StreamTypes
<1>4. Connections = {} /\ Relaying = {}
  BY DEF Connections, Relaying, Serving, Handshake
<1>5. TasksBelongToWorker
  BY <1>4, FS_EmptySet DEF TasksBelongToWorker, Running
<1>6. DialogueFollowsTask
  BY DEF DialogueFollowsTask, Dialogues
<1>7. RequestsAreOwed
  BY <1>1 DEF RequestsAreOwed
<1>8. StreamsFollowTask
  BY FreshStreamsFollow DEF StreamsFollowTask
<1>9. ActiveIsCounted
  BY <1>4, FS_EmptySet DEF ActiveIsCounted, Relaying, FreshStreams
<1> QED
  BY <1>2, <1>3, <1>5, <1>6, <1>7, <1>8, <1>9, RelayTypes DEF WorkerInv

LEMMA WorkerNextInv == WorkerInv /\ [WorkerNext]_allVars => WorkerInv'
<1> SUFFICES ASSUME WorkerInv, [WorkerNext]_allVars PROVE WorkerInv'
  OBVIOUS
<1>1. StreamTypes' /\ StreamsFollowTask' /\ ActiveIsCounted'
  BY StreamsStep
<1>2. RelayTypeOK'
  BY <1>1, RelayTypes, PTL
<1> QED
  BY <1>1, <1>2, WorkerTypeStep, TasksStep, DialogueStep, RequestsStep DEF WorkerInv

LEMMA WorkerInvariance == WorkerSpec => []WorkerInv
  BY WorkerInitInv, WorkerNextInv, PTL DEF WorkerSpec

\* Type correctness of the worker, its tasks and its streams.
THEOREM WorkerTypeCorrect == WorkerSpec => [](WorkerTypeOK /\ RelayTypeOK)
<1>1. WorkerInv => WorkerTypeOK /\ RelayTypeOK
  BY DEF WorkerInv
<1> QED
  BY <1>1, WorkerInvariance, PTL

(***************************************************************************)
(* A SOCKS client is told Succeeded exactly when it has its channel, and   *)
(* nothing is said after the verdict (local_forward.rs:350).               *)
(***************************************************************************)
THEOREM SuccessMeansChannelTheorem == WorkerSpec => []SuccessMeansChannel
<1>1. WorkerInv => SuccessMeansChannel
  <2> SUFFICES ASSUME WorkerInv, NEW c \in Clients
               PROVE  SuccessMeansChannel!(c)
    BY DEF SuccessMeansChannel
  <2>1. Len(<<>>) = 0 /\ Len(<<"NoAuth">>) = 1
    OBVIOUS
  <2>2. task[c] \in Serving \cup {"away", "backlog", "finished", "gone"}
    BY DEF WorkerInv, WorkerTypeOK
  <2>3. Len(dialogue[c]) = 2 => task[c] \in {"relaying", "finished", "gone"}
    BY <2>1, <2>2 DEF WorkerInv, DialogueFollowsTask, Serving, Handshake
  <2> QED
    BY <2>3 DEF WorkerInv, DialogueFollowsTask
<1> QED
  BY <1>1, WorkerInvariance, PTL

(***************************************************************************)
(* The queue of requests has room for every accepted connection            *)
(* (local_forward.rs:161-162): each entry belongs to another connection,   *)
(* and to one other than the connection that is about to send.             *)
(***************************************************************************)
THEOREM RequestsNeverBlockTheorem == WorkerSpec => []RequestsNeverBlock
<1>1. WorkerInv => RequestsNeverBlock
  <2> SUFFICES ASSUME WorkerInv, NEW c \in Clients, task[c] = "sending", Running
               PROVE  Len(requests) < MaxActive
    BY DEF RequestsNeverBlock
  <2> DEFINE others == Connections \ {c}
  <2>1. /\ IsFiniteSet(Connections) /\ Cardinality(Connections) \in Nat
        /\ Cardinality(Connections) <= MaxActive
    BY FS_CardinalityType DEF WorkerInv, TasksBelongToWorker
  <2>2. c \in Connections
    BY DEF Connections, Serving
  <2>3. IsFiniteSet(others) /\ Cardinality(others) = Cardinality(Connections) - 1
    BY <2>1, <2>2, FS_RemoveElement
  <2>4. requests \in Seq(Clients) /\ Len(requests) \in Nat /\ DOMAIN requests = 1..Len(requests)
    BY DEF WorkerInv, WorkerTypeOK
  <2>5. \A i \in 1..Len(requests) : requests[i] \in others
    BY <2>4 DEF WorkerInv, RequestsAreOwed, Owed, Connections, Serving
  <2>6. \A i, j \in 1..Len(requests) : requests[i] = requests[j] => i = j
    BY <2>4 DEF WorkerInv, RequestsAreOwed
  <2>7. requests \in [1..Len(requests) -> others]
    BY <2>4, <2>5
  <2> HIDE DEF others
  <2>8. requests \in Injection(1..Len(requests), others)
    BY <2>6, <2>7 DEF Injection, IsInjective
  <2>9. Cardinality(1..Len(requests)) <= Cardinality(others)
    BY <2>3, <2>8, FS_Injection
  <2>10. Cardinality(1..Len(requests)) = Len(requests)
    <3>1. PICK n \in Nat : n = Len(requests)
      BY <2>4
    <3>2. Cardinality(1..n) = IF 1 > n THEN 0 ELSE n - 1 + 1
      BY FS_Interval
    <3> QED
      BY <3>1, <3>2
  <2> QED
    BY <2>1, <2>3, <2>4, <2>9, <2>10
<1> QED
  BY <1>1, WorkerInvariance, PTL

(***************************************************************************)
(* Each side of a connection gets a prefix of what the other has sent, in  *)
(* order, and its end only after all of it, whatever the sizes of reads    *)
(* and writes and of the buffer; and uploaded and downloaded are the bytes *)
(* delivered over all connections (relay.rs).                              *)
(***************************************************************************)
THEOREM StreamsAreFaithfulTheorem == WorkerSpec => []StreamsAreFaithful
<1>1. WorkerInv => StreamsAreInOrder
  <2> SUFFICES ASSUME WorkerInv, NEW s \in Streams
               PROVE  /\ \A i \in 1..Len(received[s]) : received[s][i] = i
                      /\ shut[s] => eof[s] /\ Len(received[s]) = sent[s]
    BY DEF StreamsAreInOrder
  <2>1. PICK c \in Clients, d \in Directions : s = <<c, d>>
    BY StreamPairs
  <2>2. StreamFollowsTask(c, s)
    BY <2>1 DEF WorkerInv, StreamsFollowTask
  <2>3. received[s] \in Seq(Nat) /\ DOMAIN received[s] = 1..Len(received[s])
    BY DEF WorkerInv, RelayTypeOK
  <2>4. ASSUME shut[s]
        PROVE  eof[s] /\ Len(received[s]) = sent[s]
    <3>1. PICK r, n : r = received[s] /\ n = sent[s]
      OBVIOUS
    <3>2. eof[s] /\ Len(r) + Len(<<>>) = n
      BY <2>2, <2>4, <3>1 DEF StreamFollowsTask
    <3>3. Len(<<>>) = 0 /\ Len(r) \in Nat
      BY <2>3, <3>1
    <3>4. Len(r) = n
      BY <3>2, <3>3
    <3> QED
      BY <3>1, <3>2, <3>4
  <2> QED
    BY <2>2, <2>3, <2>4 DEF StreamFollowsTask
<1>2. WorkerInit => TrafficIsCounted
  <2> SUFFICES ASSUME WorkerInit, NEW d \in Directions
               PROVE  traffic[d] = SumFunction(Delivered(d))
    BY DEF TrafficIsCounted, Delivered
  <2>1. \A t \in Streams : received[t] = <<>>
    BY DEF WorkerInit, FreshStreams
  <2>2. \A c \in Clients : Len(received[<<c, d>>]) = 0
    BY <2>1, PairIsStream
  <2>3. Delivered(d) = [c \in Clients |-> 0] /\ traffic[d] = 0
    BY <2>2 DEF Delivered, WorkerInit, FreshStreams
  <2>4. SumFunction([c \in Clients |-> 0]) = 0
    BY SumOfZeros
  <2> QED
    BY <2>3, <2>4
<1>3. WorkerInv /\ TrafficIsCounted /\ [WorkerNext]_allVars => TrafficIsCounted'
  BY TrafficStep
<1>4. WorkerSpec => []TrafficIsCounted
  BY <1>2, <1>3, WorkerInvariance, PTL DEF WorkerSpec
<1> QED
  BY <1>1, <1>4, WorkerInvariance, PTL DEF StreamsAreFaithful

(***************************************************************************)
(* active_connections is the number of relays, however they end: it never  *)
(* goes below 0 and is 0 when they are gone (relay.rs, ActiveConnection).  *)
(***************************************************************************)
THEOREM ActiveIsCountedTheorem == WorkerSpec => []ActiveIsCounted
<1>1. WorkerInv => ActiveIsCounted
  BY DEF WorkerInv
<1> QED
  BY <1>1, WorkerInvariance, PTL
=============================================================================
