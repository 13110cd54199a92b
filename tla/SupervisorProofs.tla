-------------------------- MODULE SupervisorProofs --------------------------
(***************************************************************************)
(* Proofs about the supervisor of a Local or Dynamic tunnel, for any       *)
(* limits on clients, connections and attempts.                            *)
(***************************************************************************)
EXTENDS Supervisor, Integers, TLAPS

USE DynamicAssumption, MaxAttemptAssumption, MaxClientsAssumption, MaxConnectionsAssumption

\* The inductive invariant.
Inv == TypeOK /\ OwnershipFollowsProgram /\ StatusFollowsProgram /\ BackoffCountsFailures

\* LocalForwardSupervisor::new establishes the invariant.
LEMMA InitInv == Init => Inv
<1> SUFFICES ASSUME Init PROVE Inv
  OBVIOUS
<1> USE DEF Init
<1>1. /\ attempt \in 1..MaxAttempt
      /\ failures \in 0..MaxAttempt
      /\ ping_failures \in 0..(PingLimit - 1)
      /\ clients \in 0..MaxClients
      /\ connections \in 0..MaxConnections
  BY DEF PingLimit
<1>2. TypeOK
  BY <1>1, Zenon DEF TypeOK, Places, States
<1>3. OwnershipFollowsProgram /\ StatusFollowsProgram
  BY DEF OwnershipFollowsProgram, StatusFollowsProgram
<1>4. BackoffCountsFailures
  BY DEF BackoffCountsFailures, AfterFailure, Saturating
<1> QED
  BY <1>2, <1>3, <1>4 DEF Inv

\* Every step of the supervisor, its worker, the manager and the environment
\* preserves the invariant.
LEMMA NextInv == Inv /\ [Next]_vars => Inv'
<1> SUFFICES ASSUME Inv, [Next]_vars PROVE Inv'
  OBVIOUS
<1> USE DEF Inv, At, retryVars, workerVars, managerVars, hintVars
<1>1. CASE BeginAttempt
  <2> USE <1>1 DEF BeginAttempt
  <2>1. TypeOK'
    BY DEF TypeOK, Places, States, PingLimit, Saturating
  <2>2. OwnershipFollowsProgram'
    BY DEF TypeOK, OwnershipFollowsProgram
  <2>3. StatusFollowsProgram'
    BY DEF TypeOK, StatusFollowsProgram, PingLimit
  <2>4. BackoffCountsFailures'
    BY DEF TypeOK, BackoffCountsFailures, AfterFailure, Saturating
  <2> QED
    BY <2>1, <2>2, <2>3, <2>4
<1>2. CASE ConnectSucceeds
  <2> USE <1>2 DEF ConnectSucceeds
  <2>1. TypeOK'
    BY DEF TypeOK, Places, States, PingLimit, Saturating
  <2>2. OwnershipFollowsProgram'
    BY DEF TypeOK, OwnershipFollowsProgram
  <2>3. StatusFollowsProgram'
    BY DEF TypeOK, StatusFollowsProgram, PingLimit
  <2>4. BackoffCountsFailures'
    BY DEF TypeOK, BackoffCountsFailures, AfterFailure, Saturating
  <2> QED
    BY <2>1, <2>2, <2>3, <2>4
<1>3. CASE ConnectFails
  <2> USE <1>3 DEF ConnectFails
  <2>a. counted' \in BOOLEAN
    BY Zenon DEF TypeOK
  <2>b. failures' \in 0..MaxAttempt
    BY DEF TypeOK, Saturating
  <2>1. TypeOK'
    BY <2>a, <2>b DEF TypeOK, Places, States
  <2>2. OwnershipFollowsProgram'
    BY DEF TypeOK, OwnershipFollowsProgram
  <2>3. StatusFollowsProgram'
    BY DEF TypeOK, StatusFollowsProgram, PingLimit
  <2>4. BackoffCountsFailures'
    BY DEF TypeOK, BackoffCountsFailures, AfterFailure, Saturating
  <2> QED
    BY <2>1, <2>2, <2>3, <2>4
<1>4. CASE InitialPingSucceeds
  <2> USE <1>4 DEF InitialPingSucceeds
  <2>1. TypeOK'
    BY DEF TypeOK, Places, States, PingLimit, Saturating
  <2>2. OwnershipFollowsProgram'
    BY DEF TypeOK, OwnershipFollowsProgram
  <2>3. StatusFollowsProgram'
    BY DEF TypeOK, StatusFollowsProgram, PingLimit
  <2>4. BackoffCountsFailures'
    BY DEF TypeOK, BackoffCountsFailures, AfterFailure, Saturating
  <2> QED
    BY <2>1, <2>2, <2>3, <2>4
<1>5. CASE InitialPingFails
  <2> USE <1>5 DEF InitialPingFails
  <2>a. counted' \in BOOLEAN
    BY Zenon DEF TypeOK
  <2>b. failures' \in 0..MaxAttempt
    BY DEF TypeOK, Saturating
  <2>1. TypeOK'
    BY <2>a, <2>b DEF TypeOK, Places, States
  <2>2. OwnershipFollowsProgram'
    BY DEF TypeOK, OwnershipFollowsProgram
  <2>3. StatusFollowsProgram'
    BY DEF TypeOK, StatusFollowsProgram, PingLimit
  <2>4. BackoffCountsFailures'
    BY DEF TypeOK, BackoffCountsFailures, AfterFailure, Saturating
  <2> QED
    BY <2>1, <2>2, <2>3, <2>4
<1>6. CASE StartWorker
  <2> USE <1>6 DEF StartWorker
  <2>a. pinging' \in BOOLEAN
    BY Zenon DEF TypeOK
  <2>b. ping_failures' \in 0..(PingLimit - 1)
    BY DEF TypeOK, PingLimit
  <2>1. TypeOK'
    BY <2>a, <2>b DEF TypeOK, Places, States
  <2>2. OwnershipFollowsProgram'
    BY DEF TypeOK, OwnershipFollowsProgram
  <2>3. StatusFollowsProgram'
    BY DEF TypeOK, StatusFollowsProgram, PingLimit
  <2>4. BackoffCountsFailures'
    BY DEF TypeOK, BackoffCountsFailures, AfterFailure, Saturating
  <2> QED
    BY <2>1, <2>2, <2>3, <2>4
<1>7. CASE RelayHealth
  <2> USE <1>7 DEF RelayHealth
  <2>1. TypeOK'
    BY DEF TypeOK, Places, States, PingLimit, Saturating
  <2>2. OwnershipFollowsProgram'
    BY DEF TypeOK, OwnershipFollowsProgram
  <2>3. StatusFollowsProgram'
    BY DEF TypeOK, StatusFollowsProgram, PingLimit
  <2>4. BackoffCountsFailures'
    BY DEF TypeOK, BackoffCountsFailures, AfterFailure, Saturating
  <2> QED
    BY <2>1, <2>2, <2>3, <2>4
<1>8. CASE JoinConnections
  <2> USE <1>8 DEF JoinConnections
  <2>1. TypeOK'
    BY DEF TypeOK, Places, States, PingLimit, Saturating
  <2>2. OwnershipFollowsProgram'
    BY DEF TypeOK, OwnershipFollowsProgram
  <2>3. StatusFollowsProgram'
    BY DEF TypeOK, StatusFollowsProgram, PingLimit
  <2>4. BackoffCountsFailures'
    BY DEF TypeOK, BackoffCountsFailures, AfterFailure, Saturating
  <2> QED
    BY <2>1, <2>2, <2>3, <2>4
<1>9. CASE Disconnect
  <2> USE <1>9 DEF Disconnect
  <2>1. TypeOK'
    BY DEF TypeOK, Places, States, PingLimit, Saturating
  <2>2. OwnershipFollowsProgram'
    BY DEF TypeOK, OwnershipFollowsProgram
  <2>3. StatusFollowsProgram'
    BY DEF TypeOK, StatusFollowsProgram, PingLimit
  <2>4. BackoffCountsFailures'
    BY DEF TypeOK, BackoffCountsFailures, AfterFailure, Saturating
  <2> QED
    BY <2>1, <2>2, <2>3, <2>4
<1>10. CASE AfterWorker
  <2> USE <1>10 DEF AfterWorker, NextAttempt
  <2>a. counted' \in BOOLEAN
    BY Zenon DEF TypeOK
  <2>b. attempt' \in 1..MaxAttempt /\ failures' \in 0..MaxAttempt
    BY DEF TypeOK, Saturating
  <2>1. TypeOK'
    BY <2>a, <2>b DEF TypeOK, Places, States
  <2>2. OwnershipFollowsProgram'
    BY DEF TypeOK, OwnershipFollowsProgram
  <2>3. StatusFollowsProgram'
    BY DEF TypeOK, StatusFollowsProgram, PingLimit
  <2>4. BackoffCountsFailures'
    BY DEF TypeOK, BackoffCountsFailures, AfterFailure, Saturating
  <2> QED
    BY <2>1, <2>2, <2>3, <2>4
<1>11. CASE PublishFailure
  <2> USE <1>11 DEF PublishFailure
  <2>1. TypeOK'
    BY DEF TypeOK, Places, States, PingLimit, Saturating
  <2>2. OwnershipFollowsProgram'
    BY DEF TypeOK, OwnershipFollowsProgram
  <2>3. StatusFollowsProgram'
    BY DEF TypeOK, StatusFollowsProgram, PingLimit
  <2>4. BackoffCountsFailures'
    BY DEF TypeOK, BackoffCountsFailures, AfterFailure, Saturating
  <2> QED
    BY <2>1, <2>2, <2>3, <2>4
<1>12. CASE Park
  <2> USE <1>12 DEF Park
  <2>1. TypeOK'
    BY DEF TypeOK, Places, States, PingLimit, Saturating
  <2>2. OwnershipFollowsProgram'
    BY DEF TypeOK, OwnershipFollowsProgram
  <2>3. StatusFollowsProgram'
    BY DEF TypeOK, StatusFollowsProgram, PingLimit
  <2>4. BackoffCountsFailures'
    BY DEF TypeOK, BackoffCountsFailures, AfterFailure, Saturating
  <2> QED
    BY <2>1, <2>2, <2>3, <2>4
<1>13. CASE BackoffElapses
  <2> USE <1>13 DEF BackoffElapses, Resume, ForwardWakeUp, NextAttempt
  <2>1. TypeOK'
    BY DEF TypeOK, Places, States, PingLimit, Saturating
  <2>2. OwnershipFollowsProgram'
    BY DEF TypeOK, OwnershipFollowsProgram
  <2>3. StatusFollowsProgram'
    BY DEF TypeOK, StatusFollowsProgram, PingLimit
  <2>4. BackoffCountsFailures'
    BY DEF TypeOK, BackoffCountsFailures, AfterFailure, Saturating
  <2> QED
    BY <2>1, <2>2, <2>3, <2>4
<1>14. CASE TakeHint
  <2> USE <1>14 DEF TakeHint, Resume, NextAttempt
  <2>1. TypeOK'
    BY DEF TypeOK, Places, States, PingLimit, Saturating
  <2>2. OwnershipFollowsProgram'
    BY DEF TypeOK, OwnershipFollowsProgram
  <2>3. StatusFollowsProgram'
    BY DEF TypeOK, StatusFollowsProgram, PingLimit
  <2>4. BackoffCountsFailures'
    BY DEF TypeOK, BackoffCountsFailures, AfterFailure, Saturating
  <2> QED
    BY <2>1, <2>2, <2>3, <2>4
<1>15. CASE LeaveWait
  <2> USE <1>15 DEF LeaveWait, Waiting, ForwardWakeUp
  <2>1. TypeOK'
    BY DEF TypeOK, Places, States, PingLimit, Saturating
  <2>2. OwnershipFollowsProgram'
    BY DEF TypeOK, OwnershipFollowsProgram
  <2>3. StatusFollowsProgram'
    BY DEF TypeOK, StatusFollowsProgram, PingLimit
  <2>4. BackoffCountsFailures'
    BY DEF TypeOK, BackoffCountsFailures, AfterFailure, Saturating
  <2> QED
    BY <2>1, <2>2, <2>3, <2>4
<1>16. CASE RejectClient
  <2> USE <1>16 DEF RejectClient, Waiting
  <2>1. TypeOK'
    BY DEF TypeOK, Places, States, PingLimit, Saturating
  <2>2. OwnershipFollowsProgram'
    BY DEF TypeOK, OwnershipFollowsProgram
  <2>3. StatusFollowsProgram'
    BY DEF TypeOK, StatusFollowsProgram, PingLimit
  <2>4. BackoffCountsFailures'
    BY DEF TypeOK, BackoffCountsFailures, AfterFailure, Saturating
  <2> QED
    BY <2>1, <2>2, <2>3, <2>4
<1>17. CASE ReapClient
  <2> USE <1>17 DEF ReapClient, Waiting
  <2>1. TypeOK'
    BY DEF TypeOK, Places, States, PingLimit, Saturating
  <2>2. OwnershipFollowsProgram'
    BY DEF TypeOK, OwnershipFollowsProgram
  <2>3. StatusFollowsProgram'
    BY DEF TypeOK, StatusFollowsProgram, PingLimit
  <2>4. BackoffCountsFailures'
    BY DEF TypeOK, BackoffCountsFailures, AfterFailure, Saturating
  <2> QED
    BY <2>1, <2>2, <2>3, <2>4
<1>18. CASE AcceptFails
  <2> USE <1>18 DEF AcceptFails, Waiting, ForwardWakeUp
  <2>1. TypeOK'
    BY DEF TypeOK, Places, States, PingLimit, Saturating
  <2>2. OwnershipFollowsProgram'
    BY DEF TypeOK, OwnershipFollowsProgram
  <2>3. StatusFollowsProgram'
    BY DEF TypeOK, StatusFollowsProgram, PingLimit
  <2>4. BackoffCountsFailures'
    BY DEF TypeOK, BackoffCountsFailures, AfterFailure, Saturating
  <2> QED
    BY <2>1, <2>2, <2>3, <2>4
<1>19. CASE CancelSelf
  <2> USE <1>19 DEF CancelSelf
  <2>1. TypeOK'
    BY DEF TypeOK, Places, States, PingLimit, Saturating
  <2>2. OwnershipFollowsProgram'
    BY DEF TypeOK, OwnershipFollowsProgram
  <2>3. StatusFollowsProgram'
    BY DEF TypeOK, StatusFollowsProgram, PingLimit
  <2>4. BackoffCountsFailures'
    BY DEF TypeOK, BackoffCountsFailures, AfterFailure, Saturating
  <2> QED
    BY <2>1, <2>2, <2>3, <2>4
<1>20. CASE StopListener
  <2> USE <1>20 DEF StopListener
  <2>1. TypeOK'
    BY DEF TypeOK, Places, States, PingLimit, Saturating
  <2>2. OwnershipFollowsProgram'
    BY DEF TypeOK, OwnershipFollowsProgram
  <2>3. StatusFollowsProgram'
    BY DEF TypeOK, StatusFollowsProgram, PingLimit
  <2>4. BackoffCountsFailures'
    BY DEF TypeOK, BackoffCountsFailures, AfterFailure, Saturating
  <2> QED
    BY <2>1, <2>2, <2>3, <2>4
<1>21. CASE PublishStopped
  <2> USE <1>21 DEF PublishStopped
  <2>1. TypeOK'
    BY DEF TypeOK, Places, States, PingLimit, Saturating
  <2>2. OwnershipFollowsProgram'
    BY DEF TypeOK, OwnershipFollowsProgram
  <2>3. StatusFollowsProgram'
    BY DEF TypeOK, StatusFollowsProgram, PingLimit
  <2>4. BackoffCountsFailures'
    BY DEF TypeOK, BackoffCountsFailures, AfterFailure, Saturating
  <2> QED
    BY <2>1, <2>2, <2>3, <2>4
<1>22. CASE SeeCancelled
  <2> USE <1>22 DEF SeeCancelled, WorkerReturns, AtSelect
  <2>1. TypeOK'
    BY DEF TypeOK, Places, States, PingLimit, Saturating
  <2>2. OwnershipFollowsProgram'
    BY DEF TypeOK, OwnershipFollowsProgram
  <2>3. StatusFollowsProgram'
    BY DEF TypeOK, StatusFollowsProgram, PingLimit
  <2>4. BackoffCountsFailures'
    BY DEF TypeOK, BackoffCountsFailures, AfterFailure, Saturating
  <2> QED
    BY <2>1, <2>2, <2>3, <2>4
<1>23. CASE SessionTick
  <2> USE <1>23 DEF SessionTick, WorkerReturns, AtSelect
  <2>1. TypeOK'
    BY DEF TypeOK, Places, States, PingLimit, Saturating
  <2>2. OwnershipFollowsProgram'
    BY DEF TypeOK, OwnershipFollowsProgram
  <2>3. StatusFollowsProgram'
    BY DEF TypeOK, StatusFollowsProgram, PingLimit
  <2>4. BackoffCountsFailures'
    BY DEF TypeOK, BackoffCountsFailures, AfterFailure, Saturating
  <2> QED
    BY <2>1, <2>2, <2>3, <2>4
<1>24. CASE WorkerAcceptFails
  <2> USE <1>24 DEF WorkerAcceptFails, WorkerReturns, AtSelect
  <2>1. TypeOK'
    BY DEF TypeOK, Places, States, PingLimit, Saturating
  <2>2. OwnershipFollowsProgram'
    BY DEF TypeOK, OwnershipFollowsProgram
  <2>3. StatusFollowsProgram'
    BY DEF TypeOK, StatusFollowsProgram, PingLimit
  <2>4. BackoffCountsFailures'
    BY DEF TypeOK, BackoffCountsFailures, AfterFailure, Saturating
  <2> QED
    BY <2>1, <2>2, <2>3, <2>4
<1>25. CASE HealthTick
  <2> USE <1>25 DEF HealthTick, AtSelect
  <2>1. TypeOK'
    BY DEF TypeOK, Places, States, PingLimit, Saturating
  <2>2. OwnershipFollowsProgram'
    BY DEF TypeOK, OwnershipFollowsProgram
  <2>3. StatusFollowsProgram'
    BY DEF TypeOK, StatusFollowsProgram, PingLimit
  <2>4. BackoffCountsFailures'
    BY DEF TypeOK, BackoffCountsFailures, AfterFailure, Saturating
  <2> QED
    BY <2>1, <2>2, <2>3, <2>4
<1>26. CASE PingSucceeds
  <2> USE <1>26 DEF PingSucceeds
  <2>a. pinging' \in BOOLEAN
    BY Zenon DEF TypeOK
  <2>b. ping_failures' \in 0..(PingLimit - 1)
    BY DEF TypeOK, PingLimit
  <2>1. TypeOK'
    BY <2>a, <2>b DEF TypeOK, Places, States
  <2>2. OwnershipFollowsProgram'
    BY DEF TypeOK, OwnershipFollowsProgram
  <2>3. StatusFollowsProgram'
    BY DEF TypeOK, StatusFollowsProgram, PingLimit
  <2>4. BackoffCountsFailures'
    BY DEF TypeOK, BackoffCountsFailures, AfterFailure, Saturating
  <2> QED
    BY <2>1, <2>2, <2>3, <2>4
<1>27. CASE PingFails
  <2> USE <1>27 DEF PingFails
  <2>a. pinging' \in BOOLEAN
    BY Zenon DEF TypeOK
  <2>b. ping_failures' \in 0..(PingLimit - 1)
    BY DEF TypeOK, PingLimit
  <2>1. TypeOK'
    BY <2>a, <2>b DEF TypeOK, Places, States
  <2>2. OwnershipFollowsProgram'
    BY DEF TypeOK, OwnershipFollowsProgram
  <2>3. StatusFollowsProgram'
    BY DEF TypeOK, StatusFollowsProgram, PingLimit
  <2>4. BackoffCountsFailures'
    BY DEF TypeOK, BackoffCountsFailures, AfterFailure, Saturating
  <2> QED
    BY <2>1, <2>2, <2>3, <2>4
<1>28. CASE AcceptConnection
  <2> USE <1>28 DEF AcceptConnection, AtSelect
  <2>1. TypeOK'
    BY DEF TypeOK, Places, States, PingLimit, Saturating
  <2>2. OwnershipFollowsProgram'
    BY DEF TypeOK, OwnershipFollowsProgram
  <2>3. StatusFollowsProgram'
    BY DEF TypeOK, StatusFollowsProgram, PingLimit
  <2>4. BackoffCountsFailures'
    BY DEF TypeOK, BackoffCountsFailures, AfterFailure, Saturating
  <2> QED
    BY <2>1, <2>2, <2>3, <2>4
<1>29. CASE ReapConnection
  <2> USE <1>29 DEF ReapConnection, AtSelect
  <2>1. TypeOK'
    BY DEF TypeOK, Places, States, PingLimit, Saturating
  <2>2. OwnershipFollowsProgram'
    BY DEF TypeOK, OwnershipFollowsProgram
  <2>3. StatusFollowsProgram'
    BY DEF TypeOK, StatusFollowsProgram, PingLimit
  <2>4. BackoffCountsFailures'
    BY DEF TypeOK, BackoffCountsFailures, AfterFailure, Saturating
  <2> QED
    BY <2>1, <2>2, <2>3, <2>4
<1>30. CASE SessionDies
  <2> USE <1>30 DEF SessionDies
  <2>1. TypeOK'
    BY DEF TypeOK, Places, States, PingLimit, Saturating
  <2>2. OwnershipFollowsProgram'
    BY DEF TypeOK, OwnershipFollowsProgram
  <2>3. StatusFollowsProgram'
    BY DEF TypeOK, StatusFollowsProgram, PingLimit
  <2>4. BackoffCountsFailures'
    BY DEF TypeOK, BackoffCountsFailures, AfterFailure, Saturating
  <2> QED
    BY <2>1, <2>2, <2>3, <2>4
<1>31. CASE SessionAges
  <2> USE <1>31 DEF SessionAges
  <2>1. TypeOK'
    BY DEF TypeOK, Places, States, PingLimit, Saturating
  <2>2. OwnershipFollowsProgram'
    BY DEF TypeOK, OwnershipFollowsProgram
  <2>3. StatusFollowsProgram'
    BY DEF TypeOK, StatusFollowsProgram, PingLimit
  <2>4. BackoffCountsFailures'
    BY DEF TypeOK, BackoffCountsFailures, AfterFailure, Saturating
  <2> QED
    BY <2>1, <2>2, <2>3, <2>4
<1>32. CASE OrphanEnds
  <2> USE <1>32 DEF OrphanEnds
  <2>1. TypeOK'
    BY DEF TypeOK, Places, States, PingLimit, Saturating
  <2>2. OwnershipFollowsProgram'
    BY DEF TypeOK, OwnershipFollowsProgram
  <2>3. StatusFollowsProgram'
    BY DEF TypeOK, StatusFollowsProgram, PingLimit
  <2>4. BackoffCountsFailures'
    BY DEF TypeOK, BackoffCountsFailures, AfterFailure, Saturating
  <2> QED
    BY <2>1, <2>2, <2>3, <2>4
<1>33. CASE NotifyOne
  <2> USE <1>33 DEF NotifyOne, Parked
  <2>0. permit' \subseteq {"user", "network"} /\ woken' \subseteq {"user", "network"}
    BY DEF TypeOK, PingLimit
  <2>1. TypeOK'
    BY <2>0 DEF TypeOK, Places, States
  <2>2. OwnershipFollowsProgram'
    BY DEF TypeOK, OwnershipFollowsProgram
  <2>3. StatusFollowsProgram'
    BY DEF TypeOK, StatusFollowsProgram, PingLimit
  <2>4. BackoffCountsFailures'
    BY DEF TypeOK, BackoffCountsFailures, AfterFailure, Saturating
  <2> QED
    BY <2>1, <2>2, <2>3, <2>4
<1>34. CASE Cancel
  <2> USE <1>34 DEF Cancel, Alive
  <2>1. TypeOK'
    BY DEF TypeOK, Places, States, PingLimit, Saturating
  <2>2. OwnershipFollowsProgram'
    BY DEF TypeOK, OwnershipFollowsProgram
  <2>3. StatusFollowsProgram'
    BY DEF TypeOK, StatusFollowsProgram, PingLimit
  <2>4. BackoffCountsFailures'
    BY DEF TypeOK, BackoffCountsFailures, AfterFailure, Saturating
  <2> QED
    BY <2>1, <2>2, <2>3, <2>4
<1>35. CASE Abort
  <2> USE <1>35 DEF Abort, Alive
  <2>1. TypeOK'
    BY DEF TypeOK, Places, States, PingLimit, Saturating
  <2>2. OwnershipFollowsProgram'
    BY DEF TypeOK, OwnershipFollowsProgram
  <2>3. StatusFollowsProgram'
    BY DEF TypeOK, StatusFollowsProgram, PingLimit
  <2>4. BackoffCountsFailures'
    BY DEF TypeOK, BackoffCountsFailures, AfterFailure, Saturating
  <2> QED
    BY <2>1, <2>2, <2>3, <2>4
<1>36. CASE \E source \in {"user", "network"} : ReadForRetry(source)
  <2> USE <1>36 DEF ReadForRetry, Alive
  <2>1. TypeOK'
    BY DEF TypeOK, Places, States, PingLimit
  <2>2. OwnershipFollowsProgram'
    BY DEF TypeOK, OwnershipFollowsProgram
  <2>3. StatusFollowsProgram'
    BY DEF TypeOK, StatusFollowsProgram, PingLimit
  <2>4. BackoffCountsFailures'
    BY DEF TypeOK, BackoffCountsFailures, AfterFailure, Saturating
  <2> QED
    BY <2>1, <2>2, <2>3, <2>4
<1>37. CASE UNCHANGED vars
  BY <1>37 DEF vars, TypeOK, OwnershipFollowsProgram, StatusFollowsProgram, BackoffCountsFailures,
               AfterFailure
<1> QED
  BY <1>1, <1>2, <1>3, <1>4, <1>5, <1>6, <1>7, <1>8, <1>9, <1>10, <1>11, <1>12, <1>13, <1>14,
     <1>15, <1>16, <1>17, <1>18, <1>19, <1>20, <1>21, <1>22, <1>23, <1>24, <1>25, <1>26, <1>27,
     <1>28, <1>29, <1>30, <1>31, <1>32, <1>33, <1>34, <1>35, <1>36, <1>37
     DEF Next, SupervisorStep, WorkerStep, EnvironmentStep, ManagerStep

(* The invariant holds in every reachable state of the supervisor. *)
THEOREM Invariance == Spec => []Inv
<1>1. Inv /\ [Next]_vars => Inv'
  BY NextInv
<1> QED
  BY InitInv, <1>1, PTL DEF Spec

(* Type correctness: the retry counter, the number of failed pings and the *)
(* numbers of client and connection tasks stay within their limits.        *)
THEOREM TypeCorrect == Spec => []TypeOK
<1>1. Inv => TypeOK
  BY DEF Inv
<1> QED
  BY Invariance, <1>1, PTL

(* The listener is never lost between attempts and no attempt leaks its    *)
(* SSH chain to the next (run_until_stopped with release_listener).        *)
THEOREM OwnershipIsHandedOver == Spec => []OwnershipFollowsProgram
<1>1. Inv => OwnershipFollowsProgram
  BY DEF Inv
<1> QED
  BY Invariance, <1>1, PTL

(* SupervisorState::Stopped is published only when the port is free, the   *)
(* session is gone and every client has been dismissed.                    *)
THEOREM StoppedIsReleased == Spec => []StoppedOwnsNothing
<1>1. Inv => StoppedOwnsNothing
  BY DEF Inv, TypeOK, OwnershipFollowsProgram, StatusFollowsProgram, StoppedOwnsNothing
<1> QED
  BY Invariance, <1>1, PTL

(* Healthy and Degraded are the outcome of the last ping of a session that *)
(* a worker has, apart from the two moments the property names, and a      *)
(* session in use is never shown as anything else.                         *)
THEOREM StatusIsHonest == Spec => []StatusFollowsSession
<1>1. Inv => StatusFollowsSession
  <2> SUFFICES ASSUME Inv PROVE StatusFollowsSession
    OBVIOUS
  <2> USE DEF Inv, TypeOK, Places, OwnershipFollowsProgram, StatusFollowsProgram
  <2>1. ASSUME published \in {"Healthy", "Degraded"}
        PROVE  \/ owner = "Worker" /\ chain # "None"
               \/ pc = "released" \/ (pc = "failed" /\ counted)
               \/ cancelled /\ pc \in {"closing", "stopping", "stopped", "aborted"}
    BY <2>1
  <2>2. ASSUME owner = "Worker"
        PROVE  published \in {"Healthy", "Degraded"}
    BY <2>2
  <2>3. ASSUME published \in {"Reconnecting", "Blocked"}
        PROVE  chain = "None"
    BY <2>3
  <2> QED
    BY <2>1, <2>2, <2>3 DEF StatusFollowsSession
<1> QED
  BY Invariance, <1>1, PTL

(* Every failure is counted once, and only a session that lasted restarts  *)
(* the backoff, for any limit at which the counter saturates.              *)
THEOREM BackoffIsKept == Spec => []BackoffCountsFailures
<1>1. Inv => BackoffCountsFailures
  BY DEF Inv
<1> QED
  BY Invariance, <1>1, PTL

-----------------------------------------------------------------------------
(* The supervisor implements TunnelContract.  The mapping is direct: the   *)
(* port is held while someone owns the listener, and the status is the     *)
(* published one.                                                          *)

\* A step that leaves the owner and the published state alone stutters.
LEMMA Stutters ==
  ASSUME owner' = owner, published' = published
  PROVE  [Contract!Next]_(Contract!contractVars)
BY DEF Contract!contractVars

\* A new status along an edge of the contract, while the listener is owned.
LEMMA Reports ==
  ASSUME owner # "None", owner' # "None",
         published' = published \/ published' \in Contract!Successors(published)
  PROVE  [Contract!Next]_(Contract!contractVars)
BY DEF Contract!contractVars, Contract!Next, Contract!Report

\* Every step is a step of the contract or a stutter.
LEMMA StepRefines ==
  ASSUME Inv, [Next]_vars
  PROVE  [Contract!Next]_(Contract!contractVars)
<1> USE DEF Inv, TypeOK, OwnershipFollowsProgram, StatusFollowsProgram, At,
            retryVars, workerVars, managerVars, hintVars
<1>1. CASE BeginAttempt
  <2>1. owner # "None" /\ owner' # "None"
    BY <1>1 DEF BeginAttempt
  <2>2. published' = published \/ published' \in Contract!Successors(published)
    BY <1>1 DEF BeginAttempt, Contract!Successors
  <2> QED
    BY <2>1, <2>2, Reports
<1>2. CASE StartWorker
  <2>1. owner # "None" /\ owner' # "None"
    BY <1>2 DEF StartWorker
  <2>2. published' = published \/ published' \in Contract!Successors(published)
    BY <1>2 DEF StartWorker, Contract!Successors
  <2> QED
    BY <2>1, <2>2, Reports
<1>3. CASE RelayHealth
  <2>1. owner # "None" /\ owner' # "None"
    BY <1>3 DEF RelayHealth
  <2>2. published' = published \/ published' \in Contract!Successors(published)
    BY <1>3 DEF RelayHealth, Contract!Successors
  <2> QED
    BY <2>1, <2>2, Reports
<1>4. CASE PublishFailure
  <2>1. owner # "None" /\ owner' # "None"
    BY <1>4 DEF PublishFailure
  <2>2. published' = published \/ published' \in Contract!Successors(published)
    BY <1>4 DEF PublishFailure, Contract!Successors
  <2> QED
    BY <2>1, <2>2, Reports
<1>5. CASE Disconnect
  <2>1. owner # "None" /\ owner' # "None"
    BY <1>5 DEF Disconnect
  <2>2. published' = published \/ published' \in Contract!Successors(published)
    BY <1>5 DEF Disconnect, Contract!Successors
  <2> QED
    BY <2>1, <2>2, Reports
<1>6. CASE StopListener \/ Abort
  BY <1>6 DEF StopListener, Abort, Contract!contractVars, Contract!Next, Contract!Release
<1>7. CASE PublishStopped
  BY <1>7 DEF PublishStopped, Contract!contractVars, Contract!Next, Contract!Conclude
<1>8. CASE SupervisorStep
  BY <1>1, <1>2, <1>3, <1>4, <1>5, <1>6, <1>7, <1>8, Stutters DEF SupervisorStep,
     ConnectSucceeds, ConnectFails, InitialPingSucceeds, InitialPingFails, JoinConnections,
     AfterWorker, Park, BackoffElapses, TakeHint, LeaveWait, RejectClient, ReapClient,
     AcceptFails, CancelSelf
<1>9. CASE WorkerStep
  BY <1>9, Stutters DEF WorkerStep, SeeCancelled, SessionTick, WorkerAcceptFails, WorkerReturns,
     HealthTick, PingSucceeds, PingFails, AcceptConnection, ReapConnection
<1>10. CASE EnvironmentStep
  BY <1>10, Stutters DEF EnvironmentStep, SessionDies, SessionAges, OrphanEnds
<1>11. CASE ManagerStep
  BY <1>6, <1>11, Stutters DEF ManagerStep, ReadForRetry, NotifyOne, Cancel
<1>12. CASE UNCHANGED vars
  BY <1>12, Stutters DEF vars
<1> QED
  BY <1>8, <1>9, <1>10, <1>11, <1>12 DEF Next

(* The supervisor keeps the contract for any limits: to whoever watches,   *)
(* the port is held without a gap until it is released for good, the       *)
(* status moves only along the contract's edges, and Stopped comes last.   *)
THEOREM Refinement == Spec => ImplementsContract
<1>1. Init => Contract!Init
  BY DEF Init, Contract!Init
<1>2. Inv /\ [Next]_vars => [Contract!Next]_(Contract!contractVars)
  BY StepRefines
<1> QED
  BY Invariance, <1>1, <1>2, PTL DEF Spec, ImplementsContract, Contract!Spec
=============================================================================
