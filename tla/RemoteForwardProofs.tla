------------------------- MODULE RemoteForwardProofs -------------------------
(***************************************************************************)
(* Proofs about a Remote tunnel, for any limits on attempts, queued        *)
(* channels and connections.                                               *)
(***************************************************************************)
EXTENDS RemoteForward, TLAPS

USE MaxAttemptAssumption, MaxQueuedAssumption, MaxConnectionsAssumption

\* The inductive invariant.
Inv == TypeOK /\ SessionFollowsProgram /\ StatusFollowsProgram

\* RemoteForwardSupervisor::new establishes the invariant.
LEMMA InitInv == Init => Inv
<1> SUFFICES ASSUME Init PROVE Inv
  OBVIOUS
<1> USE DEF Init
<1>1. /\ attempt \in 1..MaxAttempt
      /\ ping_failures \in 0..(PingLimit - 1)
      /\ queue \in 0..MaxQueued
      /\ connections \in 0..MaxConnections
  BY DEF PingLimit
<1>2. held \in {"free", "ours", "stale", "foreign"}
  OBVIOUS
<1>3. TypeOK
  BY <1>1, <1>2, Zenon DEF TypeOK, Places, States
<1>4. SessionFollowsProgram /\ StatusFollowsProgram
  BY DEF SessionFollowsProgram, StatusFollowsProgram
<1> QED
  BY <1>3, <1>4 DEF Inv

\* What ending a chain leaves behind.
LEMMA EndChainResult ==
  ASSUME TypeOK, EndChain
  PROVE  /\ chain' = "None" /\ held' \in {"free", "stale", "foreign"}
         /\ enabled' \in BOOLEAN /\ ~enabled' /\ queue' = 0
         /\ accepting' \in BOOLEAN /\ ~accepting'
<1>1. chain' = "None" /\ held' \in {"free", "stale", "foreign"} /\ queue' = 0
  BY DEF EndChain, TypeOK
<1>2. enabled' \in BOOLEAN /\ ~enabled' /\ accepting' \in BOOLEAN /\ ~accepting'
  BY Zenon DEF EndChain
<1> QED
  BY <1>1, <1>2

\* Every step of the supervisor, its worker, the manager, the server and the
\* network preserves the invariant.
LEMMA NextInv == Inv /\ [Next]_vars => Inv'
<1> SUFFICES ASSUME Inv, [Next]_vars PROVE Inv'
  OBVIOUS
<1> USE DEF Inv, At, retryVars, healthVars, serverVars
<1>1. CASE BeginAttempt
  BY <1>1 DEF BeginAttempt,
     TypeOK, SessionFollowsProgram, StatusFollowsProgram, Places, States, PingLimit
<1>2. CASE ConnectSucceeds
  BY <1>2 DEF ConnectSucceeds,
     TypeOK, SessionFollowsProgram, StatusFollowsProgram, Places, States, PingLimit
<1>3. CASE ConnectFails
  BY <1>3 DEF ConnectFails,
     TypeOK, SessionFollowsProgram, StatusFollowsProgram, Places, States, PingLimit
<1>4. CASE LeaveConnect
  BY <1>4 DEF LeaveConnect,
     TypeOK, SessionFollowsProgram, StatusFollowsProgram, Places, States, PingLimit
<1>5. CASE InitialPingSucceeds
  BY <1>5 DEF InitialPingSucceeds,
     TypeOK, SessionFollowsProgram, StatusFollowsProgram, Places, States, PingLimit
<1>6. CASE InitialPingFails
  <2> USE <1>6 DEF InitialPingFails
  <2>1. /\ chain' = "None" /\ held' \in {"free", "stale", "foreign"}
        /\ enabled' \in BOOLEAN /\ ~enabled' /\ queue' = 0
        /\ accepting' \in BOOLEAN /\ ~accepting'
    BY EndChainResult
  <2>2. counted' \in BOOLEAN
    BY Zenon
  <2>3. TypeOK'
    BY <2>1, <2>2 DEF TypeOK, Places, States, PingLimit
  <2>4. SessionFollowsProgram'
    BY <2>1 DEF TypeOK, SessionFollowsProgram
  <2>5. StatusFollowsProgram'
    BY <2>1 DEF TypeOK, SessionFollowsProgram, StatusFollowsProgram
  <2> QED
    BY <2>3, <2>4, <2>5
<1>7. CASE RegisterSucceeds
  BY <1>7 DEF RegisterSucceeds,
     TypeOK, SessionFollowsProgram, StatusFollowsProgram, Places, States, PingLimit
<1>8. CASE RegisterDenied
  <2> USE <1>8 DEF RegisterDenied, GiveUpRegistration
  <2>1. /\ chain' = "None" /\ held' \in {"free", "stale", "foreign"}
        /\ enabled' \in BOOLEAN /\ ~enabled' /\ queue' = 0
        /\ accepting' \in BOOLEAN /\ ~accepting'
    BY EndChainResult
  <2>2. counted' \in BOOLEAN
    BY Zenon
  <2>3. TypeOK'
    BY <2>1, <2>2 DEF TypeOK, Places, States, PingLimit
  <2>4. SessionFollowsProgram'
    BY <2>1 DEF TypeOK, SessionFollowsProgram
  <2>5. StatusFollowsProgram'
    BY <2>1 DEF TypeOK, SessionFollowsProgram, StatusFollowsProgram
  <2> QED
    BY <2>3, <2>4, <2>5
<1>9. CASE RegisterTimesOut
  <2> USE <1>9 DEF RegisterTimesOut, GiveUpRegistration
  <2>1. /\ chain' = "None" /\ held' \in {"free", "stale", "foreign"}
        /\ enabled' \in BOOLEAN /\ ~enabled' /\ queue' = 0
        /\ accepting' \in BOOLEAN /\ ~accepting'
    BY EndChainResult
  <2>2. counted' \in BOOLEAN
    BY Zenon
  <2>3. TypeOK'
    BY <2>1, <2>2 DEF TypeOK, Places, States, PingLimit
  <2>4. SessionFollowsProgram'
    BY <2>1 DEF TypeOK, SessionFollowsProgram
  <2>5. StatusFollowsProgram'
    BY <2>1 DEF TypeOK, SessionFollowsProgram, StatusFollowsProgram
  <2> QED
    BY <2>3, <2>4, <2>5
<1>10. CASE Announce
  <2> USE <1>10 DEF Announce
  <2>1. pinging' \in BOOLEAN
    BY Zenon DEF TypeOK
  <2>2. ping_failures' \in 0..(PingLimit - 1)
    BY DEF TypeOK, PingLimit
  <2>3. TypeOK'
    BY <2>1, <2>2 DEF TypeOK, Places, States
  <2>4. SessionFollowsProgram'
    BY DEF TypeOK, SessionFollowsProgram
  <2>5. StatusFollowsProgram'
    BY DEF TypeOK, SessionFollowsProgram, StatusFollowsProgram
  <2> QED
    BY <2>3, <2>4, <2>5
<1>11. CASE SeeCancelled
  BY <1>11 DEF SeeCancelled,
     TypeOK, SessionFollowsProgram, StatusFollowsProgram, Places, States, PingLimit
<1>12. CASE RelayHealth
  BY <1>12 DEF RelayHealth,
     TypeOK, SessionFollowsProgram, StatusFollowsProgram, Places, States, PingLimit
<1>13. CASE SessionTick
  BY <1>13 DEF SessionTick, AtSelect,
     TypeOK, SessionFollowsProgram, StatusFollowsProgram, Places, States, PingLimit
<1>14. CASE HealthTick
  BY <1>14 DEF HealthTick, AtSelect,
     TypeOK, SessionFollowsProgram, StatusFollowsProgram, Places, States, PingLimit
<1>15. CASE PingSucceeds
  <2> USE <1>15 DEF PingSucceeds
  <2>1. pinging' \in BOOLEAN
    BY Zenon DEF TypeOK
  <2>2. ping_failures' \in 0..(PingLimit - 1)
    BY DEF TypeOK, PingLimit
  <2>3. TypeOK'
    BY <2>1, <2>2 DEF TypeOK, Places, States
  <2>4. SessionFollowsProgram'
    BY DEF TypeOK, SessionFollowsProgram
  <2>5. StatusFollowsProgram'
    BY DEF TypeOK, SessionFollowsProgram, StatusFollowsProgram
  <2> QED
    BY <2>3, <2>4, <2>5
<1>16. CASE PingFails
  <2> USE <1>16 DEF PingFails
  <2>1. pinging' \in BOOLEAN
    BY Zenon DEF TypeOK
  <2>2. ping_failures' \in 0..(PingLimit - 1)
    BY DEF TypeOK, PingLimit
  <2>3. TypeOK'
    BY <2>1, <2>2 DEF TypeOK, Places, States
  <2>4. SessionFollowsProgram'
    BY DEF TypeOK, SessionFollowsProgram
  <2>5. StatusFollowsProgram'
    BY DEF TypeOK, SessionFollowsProgram, StatusFollowsProgram
  <2> QED
    BY <2>3, <2>4, <2>5
<1>17. CASE TakeChannel
  BY <1>17 DEF TakeChannel, AtSelect,
     TypeOK, SessionFollowsProgram, StatusFollowsProgram, Places, States, PingLimit
<1>18. CASE ReapConnection
  BY <1>18 DEF ReapConnection, AtSelect,
     TypeOK, SessionFollowsProgram, StatusFollowsProgram, Places, States, PingLimit
<1>19. CASE BeginCancel
  <2> USE <1>19 DEF BeginCancel
  <2>1. enabled' \in BOOLEAN /\ ~enabled'
    BY Zenon
  <2>2. counted' \in BOOLEAN
    BY Zenon DEF TypeOK
  <2>3. TypeOK'
    BY <2>1, <2>2 DEF TypeOK, Places, States, PingLimit
  <2>4. SessionFollowsProgram'
    BY <2>1 DEF TypeOK, SessionFollowsProgram
  <2>5. StatusFollowsProgram'
    BY <2>1 DEF TypeOK, SessionFollowsProgram, StatusFollowsProgram
  <2> QED
    BY <2>3, <2>4, <2>5
<1>20. CASE FinishCancel
  BY <1>20 DEF FinishCancel,
     TypeOK, SessionFollowsProgram, StatusFollowsProgram, Places, States, PingLimit
<1>21. CASE JoinConnections
  BY <1>21 DEF JoinConnections,
     TypeOK, SessionFollowsProgram, StatusFollowsProgram, Places, States, PingLimit
<1>22. CASE Disconnect
  <2> USE <1>22 DEF Disconnect
  <2>1. /\ chain' = "None" /\ held' \in {"free", "stale", "foreign"}
        /\ enabled' \in BOOLEAN /\ ~enabled' /\ queue' = 0
        /\ accepting' \in BOOLEAN /\ ~accepting'
    BY EndChainResult
  <2>2. counted' \in BOOLEAN
    BY Zenon DEF TypeOK
  <2>3. TypeOK'
    BY <2>1, <2>2 DEF TypeOK, Places, States, PingLimit
  <2>4. SessionFollowsProgram'
    BY <2>1 DEF TypeOK, SessionFollowsProgram
  <2>5. StatusFollowsProgram'
    BY <2>1 DEF TypeOK, SessionFollowsProgram, StatusFollowsProgram
  <2> QED
    BY <2>3, <2>4, <2>5
<1>23. CASE AfterWorker
  <2> USE <1>23 DEF AfterWorker, NextAttempt
  <2>1. counted' \in BOOLEAN
    BY Zenon DEF TypeOK
  <2>2. attempt' \in 1..MaxAttempt
    BY DEF TypeOK
  <2>3. TypeOK'
    BY <2>1, <2>2 DEF TypeOK, Places, States
  <2>4. SessionFollowsProgram'
    BY DEF TypeOK, SessionFollowsProgram
  <2>5. StatusFollowsProgram'
    BY DEF TypeOK, SessionFollowsProgram, StatusFollowsProgram
  <2> QED
    BY <2>3, <2>4, <2>5
<1>24. CASE PublishFailure
  BY <1>24 DEF PublishFailure,
     TypeOK, SessionFollowsProgram, StatusFollowsProgram, Places, States, PingLimit
<1>25. CASE BackoffElapses
  BY <1>25 DEF BackoffElapses, Resume, NextAttempt,
     TypeOK, SessionFollowsProgram, StatusFollowsProgram, Places, States, PingLimit
<1>26. CASE TakeHint
  <2> USE <1>26 DEF TakeHint, Resume, NextAttempt
  <2>1. permit' \in BOOLEAN
    BY Zenon
  <2>2. attempt' \in 1..MaxAttempt
    BY DEF TypeOK
  <2>3. TypeOK'
    BY <2>1, <2>2 DEF TypeOK, Places, States
  <2>4. SessionFollowsProgram'
    BY DEF TypeOK, SessionFollowsProgram
  <2>5. StatusFollowsProgram'
    BY DEF TypeOK, SessionFollowsProgram, StatusFollowsProgram
  <2> QED
    BY <2>3, <2>4, <2>5
<1>27. CASE LeaveWait
  BY <1>27 DEF LeaveWait,
     TypeOK, SessionFollowsProgram, StatusFollowsProgram, Places, States, PingLimit
<1>28. CASE PublishStopped
  BY <1>28 DEF PublishStopped,
     TypeOK, SessionFollowsProgram, StatusFollowsProgram, Places, States, PingLimit
<1>29. CASE ServerRegisters
  BY <1>29 DEF ServerRegisters,
     TypeOK, SessionFollowsProgram, StatusFollowsProgram, Places, States, PingLimit
<1>30. CASE ChannelOpens \/ ChannelAccepted
  <2> USE <1>30 DEF ChannelOpens, ChannelAccepted
  <2>1. accepting' \in BOOLEAN
    BY Zenon
  <2>2. queue' \in 0..MaxQueued /\ (accepting' => queue' < MaxQueued)
    BY DEF TypeOK, SessionFollowsProgram
  <2>3. TypeOK'
    BY <2>1, <2>2 DEF TypeOK
  <2>4. SessionFollowsProgram'
    BY <2>2 DEF TypeOK, SessionFollowsProgram
  <2>5. StatusFollowsProgram'
    BY DEF StatusFollowsProgram
  <2> QED
    BY <2>3, <2>4, <2>5
<1>31. CASE SessionDies
  BY <1>31 DEF SessionDies,
     TypeOK, SessionFollowsProgram, StatusFollowsProgram, Places, States, PingLimit
<1>32. CASE ServerNotices
  BY <1>32 DEF ServerNotices,
     TypeOK, SessionFollowsProgram, StatusFollowsProgram, Places, States, PingLimit
<1>33. CASE OthersUsePort
  BY <1>33 DEF OthersUsePort,
     TypeOK, SessionFollowsProgram, StatusFollowsProgram, Places, States, PingLimit
<1>34. CASE SessionAges
  BY <1>34 DEF SessionAges,
     TypeOK, SessionFollowsProgram, StatusFollowsProgram, Places, States, PingLimit
<1>35. CASE OrphanEnds
  BY <1>35 DEF OrphanEnds,
     TypeOK, SessionFollowsProgram, StatusFollowsProgram, Places, States, PingLimit
<1>36. CASE Hint
  BY <1>36 DEF Hint, Alive,
     TypeOK, SessionFollowsProgram, StatusFollowsProgram, Places, States, PingLimit
<1>37. CASE Cancel
  BY <1>37 DEF Cancel, Alive,
     TypeOK, SessionFollowsProgram, StatusFollowsProgram, Places, States, PingLimit
<1>38. CASE Abort
  <2> USE <1>38 DEF Abort, Alive
  <2>1. /\ chain' = "None" /\ held' \in {"free", "stale", "foreign"}
        /\ enabled' \in BOOLEAN /\ ~enabled' /\ queue' = 0
        /\ accepting' \in BOOLEAN /\ ~accepting'
    BY EndChainResult
  <2>2. counted' \in BOOLEAN
    BY Zenon DEF TypeOK
  <2>3. TypeOK'
    BY <2>1, <2>2 DEF TypeOK, Places, States, PingLimit
  <2>4. SessionFollowsProgram'
    BY <2>1 DEF TypeOK, SessionFollowsProgram
  <2>5. StatusFollowsProgram'
    BY <2>1 DEF TypeOK, SessionFollowsProgram, StatusFollowsProgram
  <2> QED
    BY <2>3, <2>4, <2>5
<1>39. CASE UNCHANGED vars
  BY <1>39 DEF vars, TypeOK, SessionFollowsProgram, StatusFollowsProgram
<1> QED
  BY <1>1, <1>2, <1>3, <1>4, <1>5, <1>6, <1>7, <1>8, <1>9, <1>10, <1>11, <1>12, <1>13, <1>14,
     <1>15, <1>16, <1>17, <1>18, <1>19, <1>20, <1>21, <1>22, <1>23, <1>24, <1>25, <1>26, <1>27, <1>28,
     <1>29, <1>30, <1>31, <1>32, <1>33, <1>34, <1>35, <1>36, <1>37, <1>38, <1>39
     DEF Next, AttemptStep, WorkerStep, StopStep, WaitStep, EnvironmentStep, ManagerStep

(* The invariant holds in every reachable state of a Remote tunnel. *)
THEOREM Invariance == Spec => []Inv
<1>1. Inv /\ [Next]_vars => Inv'
  BY NextInv
<1> QED
  BY InitInv, <1>1, PTL DEF Spec

(* Type correctness: the retry counter, the failed pings, the queue of     *)
(* channels and the number of connections stay within their limits.        *)
THEOREM TypeCorrect == Spec => []TypeOK
<1>1. Inv => TypeOK
  BY DEF Inv
<1> QED
  BY Invariance, <1>1, PTL

(* No session, queue or enabled handler outlives the attempt that made it  *)
(* (RemoteForwardWorker::stop, start_chain's error paths).                 *)
THEOREM SessionIsContained == Spec => []SessionFollowsProgram
<1>1. Inv => SessionFollowsProgram
  BY DEF Inv
<1> QED
  BY Invariance, <1>1, PTL

(* Healthy and Degraded are published only for a port that the server has  *)
(* bound for the current session (start_chain before send_replace).        *)
THEOREM HealthyIsHonest == Spec => []HealthyIsRegistered
<1>1. Inv => HealthyIsRegistered
  BY DEF Inv, TypeOK, Places, SessionFollowsProgram, StatusFollowsProgram, HealthyIsRegistered
<1> QED
  BY Invariance, <1>1, PTL

-----------------------------------------------------------------------------
(* The order of a stop.                                                    *)

\* Only these steps end a chain.
LEMMA ClosingStep ==
  ASSUME Inv, [Next]_vars, chain = "Open", chain' = "None",
         published \in {"Healthy", "Degraded"}
  PROVE  pc' = "aborted" \/ (pc = "disconnecting" /\ ~enabled)
<1> USE DEF Inv, TypeOK, SessionFollowsProgram, StatusFollowsProgram, At,
            retryVars, healthVars, serverVars
<1>1. CASE Disconnect \/ Abort
  BY <1>1 DEF Disconnect, Abort
<1>2. CASE InitialPingFails \/ RegisterDenied \/ RegisterTimesOut
  BY <1>2 DEF InitialPingFails, RegisterDenied, RegisterTimesOut, GiveUpRegistration
<1>3. CASE UNCHANGED chain
  BY <1>3
<1>4. CASE AttemptStep
  BY <1>2, <1>3, <1>4 DEF AttemptStep, BeginAttempt, ConnectSucceeds, ConnectFails,
     LeaveConnect, InitialPingSucceeds, RegisterSucceeds, Announce
<1>5. CASE WorkerStep
  BY <1>3, <1>5 DEF WorkerStep, SeeCancelled, RelayHealth, SessionTick, HealthTick,
     PingSucceeds, PingFails, TakeChannel, ReapConnection
<1>6. CASE StopStep
  BY <1>1, <1>3, <1>6 DEF StopStep, BeginCancel, FinishCancel, JoinConnections, AfterWorker
<1>7. CASE WaitStep
  BY <1>3, <1>7 DEF WaitStep, PublishFailure, BackoffElapses, TakeHint, Resume, LeaveWait,
     PublishStopped
<1>8. CASE EnvironmentStep
  BY <1>3, <1>8 DEF EnvironmentStep, ServerRegisters, ChannelOpens, ChannelAccepted, SessionDies,
     ServerNotices, OthersUsePort, SessionAges, OrphanEnds
<1>9. CASE ManagerStep
  BY <1>1, <1>3, <1>9 DEF ManagerStep, Hint, Cancel
<1>10. CASE UNCHANGED vars
  BY <1>3, <1>10 DEF vars
<1> QED
  BY <1>4, <1>5, <1>6, <1>7, <1>8, <1>9, <1>10 DEF Next

(* The forward is cancelled before its session is closed, unless the       *)
(* manager aborts the task (remote_forward.rs:169-171).                    *)
THEOREM CancelComesFirst == Spec => CancelBeforeClose
<1>1. Inv /\ [Next]_vars =>
        [chain = "Open" /\ chain' = "None" /\ published \in {"Healthy", "Degraded"} =>
           pc' = "aborted" \/ (pc = "disconnecting" /\ ~enabled)]_vars
  BY ClosingStep
<1> QED
  BY Invariance, <1>1, PTL DEF Spec, CancelBeforeClose

-----------------------------------------------------------------------------
(* A Remote tunnel implements TunnelContract.                              *)

\* The places where the tunnel still claims its port.
Claims == pc \notin {"closing", "done", "aborted"}

\* A step that neither gives the claim up nor changes the published state.
LEMMA Stutters ==
  ASSUME Claims' = Claims, published' = published
  PROVE  [Contract!Next]_(Contract!contractVars)
BY DEF Contract!contractVars, Claims

\* A new status along an edge of the contract.
LEMMA Reports ==
  ASSUME Claims, Claims', published' \in Contract!Successors(published)
  PROVE  [Contract!Next]_(Contract!contractVars)
BY DEF Contract!contractVars, Contract!Next, Contract!Report, Claims

\* The claim is given up under the same status.
LEMMA Releases ==
  ASSUME Claims, ~Claims', published' = published
  PROVE  [Contract!Next]_(Contract!contractVars)
BY DEF Contract!contractVars, Contract!Next, Contract!Release, Claims

\* Every step is a step of the contract or a stutter.
LEMMA StepRefines ==
  ASSUME Inv, [Next]_vars
  PROVE  [Contract!Next]_(Contract!contractVars)
<1> USE DEF Inv, TypeOK, StatusFollowsProgram, At, retryVars, healthVars, serverVars
<1>1. CASE BeginAttempt
  <2>1. CASE cancelled
    BY <1>1, <2>1, Releases DEF BeginAttempt, Claims
  <2>2. CASE ~cancelled
    BY <1>1, <2>2, Reports DEF BeginAttempt, Claims, Contract!Successors
  <2> QED
    BY <2>1, <2>2
<1>2. CASE Announce
  BY <1>2, Reports DEF Announce, Claims, Contract!Successors
<1>3. CASE RelayHealth
  BY <1>3, Reports DEF RelayHealth, Claims, Contract!Successors
<1>4. CASE PublishFailure
  BY <1>4, Reports DEF PublishFailure, Claims, Contract!Successors
<1>5. CASE LeaveConnect \/ LeaveWait
  BY <1>5, Releases DEF LeaveConnect, LeaveWait, Claims
<1>6. CASE AfterWorker
  BY <1>6, Releases, Stutters DEF AfterWorker, Claims
<1>7. CASE Abort
  BY <1>7, Releases, Stutters DEF Abort, Alive, Claims
<1>8. CASE PublishStopped
  BY <1>8 DEF PublishStopped, Contract!contractVars, Contract!Next, Contract!Conclude
<1>9. CASE AttemptStep
  BY <1>1, <1>2, <1>5, <1>9, Stutters DEF AttemptStep, ConnectSucceeds, ConnectFails,
     InitialPingSucceeds, InitialPingFails, RegisterSucceeds, RegisterDenied,
     RegisterTimesOut, GiveUpRegistration, Claims
<1>10. CASE WorkerStep
  BY <1>3, <1>10, Stutters DEF WorkerStep, SeeCancelled, SessionTick, HealthTick,
     PingSucceeds, PingFails, TakeChannel, ReapConnection, AtSelect, Claims
<1>11. CASE StopStep
  BY <1>6, <1>11, Stutters DEF StopStep, BeginCancel, FinishCancel, JoinConnections,
     Disconnect, Claims
<1>12. CASE WaitStep
  BY <1>4, <1>5, <1>8, <1>12, Stutters DEF WaitStep, BackoffElapses, TakeHint, Resume, Claims
<1>13. CASE EnvironmentStep
  BY <1>13, Stutters DEF EnvironmentStep, ServerRegisters, ChannelOpens, ChannelAccepted, SessionDies,
     ServerNotices, OthersUsePort, SessionAges, OrphanEnds, Claims
<1>14. CASE ManagerStep
  BY <1>7, <1>14, Stutters DEF ManagerStep, Hint, Cancel, Claims
<1>15. CASE UNCHANGED vars
  BY <1>15, Stutters DEF vars, Claims
<1> QED
  BY <1>9, <1>10, <1>11, <1>12, <1>13, <1>14, <1>15 DEF Next

(* A Remote tunnel keeps the contract that TunnelManager assumes of its    *)
(* tasks, for any limits: the status moves only along the contract's edges *)
(* and Stopped comes last.                                                 *)
THEOREM Refinement == Spec => ImplementsContract
<1>1. Init => Contract!Init
  BY DEF Init, Contract!Init
<1>2. Inv /\ [Next]_vars => [Contract!Next]_(Contract!contractVars)
  BY StepRefines
<1> QED
  BY Invariance, <1>1, <1>2, PTL DEF Spec, ImplementsContract, Contract!Spec
=============================================================================
