------------------------- MODULE TunnelManagerProofs -------------------------
(***************************************************************************)
(* Proofs about the manager, for any tunnels, ports, configurations and    *)
(* any number of supervisor tasks.                                         *)
(***************************************************************************)
EXTENDS TunnelManager, TLAPS

\* The inductive invariant.
Inv == /\ TypeOK /\ TasksAreTidy /\ TasksRunConfig /\ ReplacementIsPrepared
       /\ NothingAfterLoop /\ EveryTaskOwned /\ ViewIsBacked

\* A configuration has tunnels, and each of them a definition.
LEMMA ConfigFacts ==
  ASSUME NEW config \in Configs
  PROVE  /\ DOMAIN config \subseteq Tunnels
         /\ \A id \in DOMAIN config : config[id] \in Definition
<1>1. PICK S \in SUBSET Tunnels : config \in [S -> Definitions]
  BY DEF Configs
<1> QED
  BY <1>1, DefinitionsAssumption

\* A handle that is not in use.
LEMMA UnusedFacts ==
  Unused \in Task /\ Unused.life = "none" /\ ~Unused.bound
<1>1. (CHOOSE r \in Revisions : TRUE) \in Revisions
  BY RevisionsAssumption
<1> QED
  BY <1>1 DEF Unused, Task, States

\* A task that gives up its port, one that is cancelled, one that is looked
\* at, one that reports and one that is aborted.
LEMMA TaskUpdates ==
  ASSUME NEW k \in Task
  PROVE  /\ [k EXCEPT !.bound = FALSE] \in Task
         /\ [k EXCEPT !.cancelled = TRUE] \in Task
         /\ [k EXCEPT !.seen = TRUE] \in Task
         /\ \A s \in States : [k EXCEPT !.status = s, !.seen = FALSE] \in Task
         /\ [k EXCEPT !.life = "over", !.bound = FALSE] \in Task
<1>1. \A b \in BOOLEAN : /\ [k EXCEPT !.bound = b] \in Task
                        /\ [k EXCEPT !.cancelled = b] \in Task
                        /\ [k EXCEPT !.seen = b] \in Task
                        /\ [k EXCEPT !.life = "over", !.bound = b] \in Task
  BY DEF Task
<1>2. \A s \in States, b \in BOOLEAN : [k EXCEPT !.status = s, !.seen = b] \in Task
  BY DEF Task
<1>3. \A s \in States : [k EXCEPT !.status = s, !.seen = FALSE] \in Task
  BY <1>2, Zenon
<1> QED
  BY <1>1, <1>3, Zenon

\* The other tasks stay as they are when one changes.
LEMMA OneTaskChanges ==
  ASSUME TypeOK, NEW t \in Tunnels \X Runs, NEW k \in Task, task' = [task EXCEPT ![t] = k]
  PROVE  /\ task' \in [Tunnels \X Runs -> Task] /\ task'[t] = k
         /\ \A u \in Tunnels \X Runs : u # t => task'[u] = task[u]
  BY DEF TypeOK

\* TunnelManager::new establishes the invariant.
LEMMA InitInv == Init => Inv
<1> SUFFICES ASSUME Init PROVE Inv
  OBVIOUS
<1> USE DEF Init
<1>1. \A t \in Tunnels \X Runs : task[t] = Unused
  OBVIOUS
<1>2. Active = {} /\ ~Joining
  BY DEF Active, Joining, NoTask
<1>3. /\ tunnels \in Configs /\ joining = NoTask
      /\ active \in [Tunnels -> Runs \cup {"none"}]
      /\ task \in [Tunnels \X Runs -> Task]
      /\ phase = "booting" /\ shutdown \in BOOLEAN
  BY UnusedFacts
<1>4. pending \in [stop : SUBSET Tunnels, replace : SUBSET Configs, start : SUBSET Tunnels]
      /\ pending.replace = {}
  BY ConfigFacts DEF AutoStarted, Nothing
<1>5. /\ DOMAIN view = DOMAIN tunnels
      /\ \A id \in DOMAIN view : view[id] \in View /\ view[id].state = "Stopped"
  BY DEF View, States
<1>6. TypeOK
  BY <1>3, <1>4, <1>5 DEF TypeOK
<1>7. TasksAreTidy /\ EveryTaskOwned
  BY <1>1, <1>2, UnusedFacts DEF TasksAreTidy, EveryTaskOwned
<1>8. TasksRunConfig /\ ReplacementIsPrepared
  BY <1>2, <1>4 DEF TasksRunConfig, ReplacementIsPrepared
<1>9. ViewIsBacked
  BY <1>1, <1>5, UnusedFacts, ConfigFacts DEF ViewIsBacked
<1> QED
  BY <1>6, <1>7, <1>8, <1>9 DEF Inv, NothingAfterLoop

-----------------------------------------------------------------------------
(* One lemma per action.                                                   *)

\* A tunnel that is neither active nor being joined holds nothing.
LEMMA FreeTunnel ==
  ASSUME Inv, NEW id \in Tunnels, id \notin Active, ~(Joining /\ joining.tunnel = id),
         NEW run \in Runs
  PROVE  task[<<id, run>>] = Unused
<1>1. active[id] = "none" /\ run # "none"
  BY RunsAssumption DEF Active
<1>2. joining # [tunnel |-> id, run |-> run]
  BY <1>1 DEF Joining
<1>3. task[<<id, run>>].life = "none"
  BY <1>1, <1>2 DEF Inv, EveryTaskOwned
<1> QED
  BY <1>3 DEF Inv, TasksAreTidy

\* set_state leaves the other views, and the set of views, alone.
LEMMA SetStateResult ==
  ASSUME TypeOK, NEW id, NEW state \in States, NEW addr \in BOOLEAN, SetState(id, state, addr)
  PROVE  /\ DOMAIN view' = DOMAIN view
         /\ \A i \in DOMAIN view : view'[i] \in View
         /\ \A i \in DOMAIN view : i # id => view'[i] = view[i]
         /\ id \in DOMAIN view => view'[id].state = state
<1>1. [state |-> state, local_addr |-> addr] \in View
  BY DEF View
<1> QED
  BY <1>1 DEF SetState, TypeOK

\* start, for one tunnel.
LEMMA StartTunnelInv ==
  ASSUME Inv, NEW id \in Tunnels, StartTunnel(id)
  PROVE  Inv'
<1> USE DEF Inv
<1> DEFINE def == tunnels[id]
<1>0. /\ pending.replace = {} /\ pending'.replace = {} /\ ~Joining /\ UNCHANGED <<tunnels, joining, phase, shutdown>>
      /\ pending' \in [stop : SUBSET Tunnels, replace : SUBSET Configs, start : SUBSET Tunnels]
      /\ ReplacementIsPrepared' /\ DOMAIN tunnels \subseteq Tunnels
  BY ConfigFacts DEF StartTunnel, TypeOK, ReplacementIsPrepared
<1>p. phase \notin {"draining", "ended"}
  BY DEF StartTunnel, NothingAfterLoop, Nothing
<1>n. NothingAfterLoop'
  BY <1>0, <1>p DEF NothingAfterLoop
<1>1. CASE (id \in Active \/ id \notin DOMAIN tunnels) /\ UNCHANGED <<active, task, view>>
  BY <1>0, <1>n, <1>1 DEF TypeOK, TasksAreTidy, TasksRunConfig, EveryTaskOwned, ViewIsBacked, Active, Joining
<1>2. CASE /\ id \notin Active /\ id \in DOMAIN tunnels
           /\ SetState(id, "Blocked", FALSE)
           /\ UNCHANGED <<active, task>>
  <2>1. /\ DOMAIN view' = DOMAIN view
        /\ \A i \in DOMAIN view : view'[i] \in View
        /\ \A i \in DOMAIN view : i # id => view'[i] = view[i]
        /\ id \in DOMAIN view => view'[id].state = "Blocked"
    BY <1>2, SetStateResult DEF States
  <2>2. TypeOK'
    BY <1>0, <1>2, <2>1 DEF TypeOK
  <2>3. ViewIsBacked'
    BY <1>0, <1>2, <2>1 DEF ViewIsBacked, Active, Joining
  <2> QED
    BY <1>0, <1>n, <1>2, <2>2, <2>3 DEF TasksAreTidy, TasksRunConfig, EveryTaskOwned, Active, Joining
<1>3. CASE /\ id \notin Active /\ id \in DOMAIN tunnels
           /\ def.valid /\ def.port \notin BoundPorts
           /\ \E run \in {r \in Runs : task[<<id, r>>].life = "none"} :
                /\ active' = [active EXCEPT ![id] = run]
                /\ task' = [task EXCEPT ![<<id, run>>] =
                     [life |-> "live", status |-> "Connecting", seen |-> TRUE,
                      bound |-> def.port # "none", port |-> def.port,
                      revision |-> def.revision, cancelled |-> FALSE]]
           /\ SetState(id, "Connecting", def.port # "none")
  <2>1. PICK run \in Runs :
                /\ task[<<id, run>>].life = "none"
                /\ active' = [active EXCEPT ![id] = run]
                /\ task' = [task EXCEPT ![<<id, run>>] =
                     [life |-> "live", status |-> "Connecting", seen |-> TRUE,
                      bound |-> def.port # "none", port |-> def.port,
                      revision |-> def.revision, cancelled |-> FALSE]]
    BY <1>3
  <2> DEFINE new == [life |-> "live", status |-> "Connecting", seen |-> TRUE,
                      bound |-> def.port # "none", port |-> def.port,
                      revision |-> def.revision, cancelled |-> FALSE]
  <2>2. new \in Task
    <3>1. def \in Definition
      BY <1>3, ConfigFacts DEF TypeOK
    <3>2. def.port \in Ports \cup {"none"} /\ def.revision \in Revisions
      BY <3>1 DEF Definition
    <3>3. (def.port # "none") \in BOOLEAN
      OBVIOUS
    <3> QED
      BY <3>2, <3>3 DEF Task, States
  <2>3. /\ new.life = "live" /\ new.status = "Connecting" /\ new.port = def.port
        /\ new.revision = def.revision
    OBVIOUS
  <2>4. /\ task' \in [Tunnels \X Runs -> Task] /\ task'[<<id, run>>] = new
        /\ \A t \in Tunnels \X Runs : t # <<id, run>> => task'[t] = task[t]
    <3> HIDE DEF new
    <3>1. task' = [task EXCEPT ![<<id, run>>] = new]
      BY <2>1 DEF new
    <3> QED
      BY <3>1, <2>2 DEF TypeOK
  <2> HIDE DEF new
  <2>5. /\ active' \in [Tunnels -> Runs \cup {"none"}] /\ active'[id] = run
        /\ \A i \in Tunnels : i # id => active'[i] = active[i]
        /\ run # "none"
    BY <2>1, RunsAssumption DEF TypeOK
  <2>6. Active' = Active \cup {id}
    BY <2>5 DEF Active
  <2>7. /\ DOMAIN view' = DOMAIN view
        /\ \A i \in DOMAIN view : view'[i] \in View
        /\ \A i \in DOMAIN view : i # id => view'[i] = view[i]
        /\ id \in DOMAIN view => view'[id].state = "Connecting"
    <3>1. (def.port # "none") \in BOOLEAN /\ "Connecting" \in States
      BY DEF States
    <3> QED
      BY <1>3, <3>1, SetStateResult
  <2>8. \A r \in Runs : task[<<id, r>>] = Unused
    BY <1>0, <1>3, FreeTunnel
  <2>9. TypeOK'
    BY <1>0, <2>4, <2>5, <2>7 DEF TypeOK
  <2>10. TasksAreTidy'
    BY <2>3, <2>4 DEF TasksAreTidy
  <2>11. TasksRunConfig'
    BY <1>0, <1>3, <2>3, <2>4, <2>5, <2>6, RunsAssumption DEF TypeOK, Active, TasksRunConfig, SameRuntime
  <2>12. EveryTaskOwned'
    BY <1>0, <1>p, <2>4, <2>5, <2>8, UnusedFacts DEF EveryTaskOwned, Joining
  <2>13. ViewIsBacked'
    BY <1>0, <2>4, <2>6, <2>7 DEF ViewIsBacked, TypeOK, Joining
  <2> QED
    BY <1>0, <1>n, <2>9, <2>10, <2>11, <2>12, <2>13
<1> QED
  BY <1>1, <1>2, <1>3 DEF StartTunnel

\* stop, up to where it awaits the task.
LEMMA StopTunnelInv ==
  ASSUME Inv, NEW id \in Tunnels, StopTunnel(id)
  PROVE  Inv'
<1> USE DEF Inv
<1>0. /\ ~Joining /\ UNCHANGED <<tunnels, phase, shutdown>>
      /\ pending' \in [stop : SUBSET Tunnels, replace : SUBSET Configs, start : SUBSET Tunnels]
      /\ pending'.replace = pending.replace /\ pending'.stop = pending.stop \ {id}
      /\ phase \notin {"draining", "ended"}
  BY DEF StopTunnel, TypeOK, NothingAfterLoop, Nothing
<1>n. NothingAfterLoop'
  BY <1>0 DEF NothingAfterLoop
<1>1. CASE id \notin Active /\ SetState(id, "Stopped", FALSE) /\ UNCHANGED <<active, task, joining>>
  <2>1. /\ DOMAIN view' = DOMAIN view
        /\ \A i \in DOMAIN view : view'[i] \in View
        /\ \A i \in DOMAIN view : i # id => view'[i] = view[i]
        /\ id \in DOMAIN view => view'[id].state = "Stopped"
    BY <1>1, SetStateResult DEF States
  <2>2. \A run \in Runs : ~task[<<id, run>>].bound
    BY <1>0, <1>1, FreeTunnel, UnusedFacts
  <2>3. TypeOK'
    BY <1>0, <1>1, <2>1 DEF TypeOK
  <2>4. ViewIsBacked'
    BY <1>0, <1>1, <2>1, <2>2 DEF ViewIsBacked, Active, Joining
  <2>5. ReplacementIsPrepared'
    BY <1>0, <1>1 DEF ReplacementIsPrepared, Active
  <2> QED
    BY <1>0, <1>n, <1>1, <2>3, <2>4, <2>5
    DEF TasksAreTidy, TasksRunConfig, EveryTaskOwned, Active, Joining
<1>2. CASE /\ id \in Active
           /\ active' = [active EXCEPT ![id] = "none"]
           /\ task' = [task EXCEPT ![<<id, active[id]>>].cancelled = TRUE]
           /\ joining' = [tunnel |-> id, run |-> active[id]]
           /\ UNCHANGED view
  <2> DEFINE t == <<id, active[id]>>
  <2>1. t \in Tunnels \X Runs /\ active[id] \in Runs /\ active[id] # "none"
    BY <1>2 DEF Active, TypeOK
  <2>2. /\ task' \in [Tunnels \X Runs -> Task]
        /\ \A u \in Tunnels \X Runs :
             /\ task'[u].life = task[u].life /\ task'[u].bound = task[u].bound
             /\ task'[u].status = task[u].status
             /\ task'[u].port = task[u].port /\ task'[u].revision = task[u].revision
             /\ u # t => task'[u] = task[u]
    <3> DEFINE k == [task[t] EXCEPT !.cancelled = TRUE]
    <3>1. task[t] \in Task /\ k \in Task
      BY <2>1, TaskUpdates DEF TypeOK
    <3>2. /\ k.life = task[t].life /\ k.bound = task[t].bound /\ k.status = task[t].status
          /\ k.port = task[t].port /\ k.revision = task[t].revision
      BY <3>1 DEF Task
    <3>3. task' = [task EXCEPT ![t] = k]
      BY <1>2
    <3> HIDE DEF k, t
    <3> QED
      BY <2>1, <3>1, <3>2, <3>3, OneTaskChanges
  <2>3. /\ active' \in [Tunnels -> Runs \cup {"none"}] /\ active'[id] = "none"
        /\ \A i \in Tunnels : i # id => active'[i] = active[i]
    BY <1>2 DEF TypeOK
  <2>4. Active' = Active \ {id}
    BY <2>3 DEF Active
  <2>5. joining' \in [tunnel : Tunnels, run : Runs] /\ Joining' /\ joining'.tunnel = id
    BY <1>2, <2>1 DEF Joining
  <2>6. TypeOK'
    BY <1>0, <1>2, <2>2, <2>3, <2>5 DEF TypeOK
  <2>7. TasksAreTidy'
    <3>1. task[t].life # "none"
      BY <1>2 DEF TasksRunConfig
    <3> QED
      BY <2>2, <3>1 DEF TasksAreTidy
  <2>8. TasksRunConfig'
    BY <1>0, <2>2, <2>3, <2>4 DEF TasksRunConfig, SameRuntime, Active, TypeOK
  <2>9. ReplacementIsPrepared'
    BY <1>0, <2>4 DEF ReplacementIsPrepared
  <2>10. EveryTaskOwned'
    <3>1. ASSUME NEW i \in Tunnels, NEW run \in Runs, task'[<<i, run>>].life # "none"
          PROVE  active'[i] = run \/ joining' = [tunnel |-> i, run |-> run]
      <4>1. joining # [tunnel |-> i, run |-> run]
        BY <1>0, RunsAssumption DEF Joining
      <4>2. active[i] = run
        BY <2>2, <3>1, <4>1 DEF EveryTaskOwned
      <4> QED
        BY <1>2, <2>3, <4>2
    <3> QED
      BY <1>0, <2>3, <2>5, <3>1 DEF EveryTaskOwned
  <2>11. ViewIsBacked'
    BY <1>0, <1>2, <2>2, <2>4, <2>5, ConfigFacts DEF ViewIsBacked, Joining, TypeOK
  <2> QED
    BY <1>n, <2>6, <2>7, <2>8, <2>9, <2>10, <2>11
<1> QED
  BY <1>0, <1>1, <1>2 DEF StopTunnel

\* What a task does by itself, or is told, disturbs nothing as long as it
\* takes no port, keeps its configuration and stays in its handle.
LEMMA TaskChange ==
  ASSUME Inv, UNCHANGED <<tunnels, active, view, pending, joining, shutdown>>,
         phase' \in {"booting", "serving", "draining", "ended"},
         phase' = phase \/ phase' = "draining",
         NothingAfterLoop',
         task' \in [Tunnels \X Runs -> Task],
         \A u \in Tunnels \X Runs :
           /\ task[u].life = "none" => task'[u] = task[u]
           /\ task'[u].life = "none" => task[u].life = "none"
           /\ task'[u].port = task[u].port /\ task'[u].revision = task[u].revision
           /\ task'[u].bound => task[u].bound
           /\ task'[u].status = "Stopped" => ~task'[u].bound
  PROVE  Inv'
<1> USE DEF Inv
<1>1. TypeOK'
  BY DEF TypeOK
<1>2. TasksAreTidy'
  BY DEF TasksAreTidy
<1>3. TasksRunConfig'
  <2>1. \A id \in Active : <<id, active[id]>> \in Tunnels \X Runs
    BY DEF Active, TypeOK
  <2> QED
    BY <2>1 DEF TasksRunConfig, SameRuntime, Active
<1>4. ReplacementIsPrepared'
  BY DEF ReplacementIsPrepared, Active
<1>5. EveryTaskOwned'
  BY UnusedFacts DEF EveryTaskOwned, Joining
<1>6. ViewIsBacked'
  BY ConfigFacts DEF ViewIsBacked, Active, Joining, TypeOK
<1> QED
  BY <1>1, <1>2, <1>3, <1>4, <1>5, <1>6

\* A supervisor task reports, releases its port, concludes or ends.
LEMMA TaskStepInv ==
  ASSUME Inv, NEW t \in Tunnels \X Runs, TaskStep(t)
  PROVE  Inv'
<1>1. task[t].life = "live" /\ UNCHANGED Others
  BY DEF TaskStep, TaskReports, TaskReleases, TaskConcludes, TaskEnds
<1>2. /\ task' \in [Tunnels \X Runs -> Task]
      /\ \A u \in Tunnels \X Runs : u # t => task'[u] = task[u]
      /\ task'[t].life # "none"
      /\ task'[t].port = task[t].port /\ task'[t].revision = task[t].revision
      /\ task'[t].bound => task[t].bound
      /\ task'[t].status = "Stopped" => ~task'[t].bound
  <2>1. CASE TaskReports(t)
    <3>1. PICK s \in Contract!Successors(task[t].status) :
            task' = [task EXCEPT ![t].status = s, ![t].seen = FALSE]
      BY <2>1 DEF TaskReports
    <3>2. s \in States /\ s # "Stopped"
      BY DEF Contract!Successors, States, Inv, TypeOK, Task
    <3> DEFINE k == [task[t] EXCEPT !.status = s, !.seen = FALSE]
    <3>3. task[t] \in Task /\ k \in Task
      BY <3>2, TaskUpdates DEF Inv, TypeOK
    <3>4. /\ k.life = task[t].life /\ k.bound = task[t].bound /\ k.status = s
          /\ k.port = task[t].port /\ k.revision = task[t].revision
      BY <3>3 DEF Task
    <3>5. task' = [task EXCEPT ![t] = k]
      BY <3>1
    <3> HIDE DEF k
    <3> QED
      BY <1>1, <3>2, <3>3, <3>4, <3>5, OneTaskChanges DEF Inv
  <2>2. CASE TaskReleases(t)
    <3> DEFINE k == [task[t] EXCEPT !.bound = FALSE]
    <3>1. task[t] \in Task /\ k \in Task
      BY TaskUpdates DEF Inv, TypeOK
    <3>2. /\ k.life = task[t].life /\ ~k.bound
          /\ k.port = task[t].port /\ k.revision = task[t].revision
      BY <3>1 DEF Task
    <3>3. task' = [task EXCEPT ![t] = k]
      BY <2>2 DEF TaskReleases
    <3> HIDE DEF k
    <3> QED
      BY <1>1, <3>1, <3>2, <3>3, OneTaskChanges DEF Inv
  <2>3. CASE TaskConcludes(t)
    <3> DEFINE k == [task[t] EXCEPT !.status = "Stopped", !.seen = FALSE]
    <3>1. task[t] \in Task /\ k \in Task
      BY TaskUpdates DEF Inv, TypeOK, States
    <3>2. /\ k.life = task[t].life /\ k.bound = task[t].bound
          /\ k.port = task[t].port /\ k.revision = task[t].revision
      BY <3>1 DEF Task
    <3>3. task' = [task EXCEPT ![t] = k] /\ ~task[t].bound
      BY <2>3 DEF TaskConcludes
    <3> HIDE DEF k
    <3> QED
      BY <1>1, <3>1, <3>2, <3>3, OneTaskChanges DEF Inv
  <2>4. CASE TaskEnds(t)
    BY <1>1, <2>4 DEF TaskEnds, Inv, TypeOK, Task, TasksAreTidy
  <2> QED
    BY <2>1, <2>2, <2>3, <2>4 DEF TaskStep
<1>3. \A u \in Tunnels \X Runs :
           /\ task[u].life = "none" => task'[u] = task[u]
           /\ task'[u].life = "none" => task[u].life = "none"
           /\ task'[u].port = task[u].port /\ task'[u].revision = task[u].revision
           /\ task'[u].bound => task[u].bound
           /\ task'[u].status = "Stopped" => ~task'[u].bound
  BY <1>1, <1>2 DEF Inv, TasksAreTidy
<1>4. phase' = phase /\ phase' \in {"booting", "serving", "draining", "ended"} /\ NothingAfterLoop'
  BY <1>1 DEF Others, Inv, TypeOK, NothingAfterLoop
<1> QED
  BY <1>1, <1>2, <1>3, <1>4, TaskChange DEF Others

\* The deadline of stop.
LEMMA AbortTaskInv ==
  ASSUME Inv, AbortTask
  PROVE  Inv'
<1>1. Joined \in Tunnels \X Runs
  BY DEF AbortTask, Joining, Joined, NoTask, Inv, TypeOK
<1>2. /\ task' \in [Tunnels \X Runs -> Task]
      /\ \A u \in Tunnels \X Runs :
           /\ task[u].life = "none" => task'[u] = task[u]
           /\ task'[u].life = "none" => task[u].life = "none"
           /\ task'[u].port = task[u].port /\ task'[u].revision = task[u].revision
           /\ task'[u].bound => task[u].bound
           /\ task'[u].status = "Stopped" => ~task'[u].bound
  <2> DEFINE k == [task[Joined] EXCEPT !.life = "over", !.bound = FALSE]
  <2>1. task[Joined] \in Task /\ k \in Task
    BY <1>1, TaskUpdates DEF Inv, TypeOK
  <2>2. /\ k.life = "over" /\ ~k.bound
        /\ k.port = task[Joined].port /\ k.revision = task[Joined].revision
    BY <2>1 DEF Task
  <2>3. task' = [task EXCEPT ![Joined] = k] /\ task[Joined].life = "live"
    BY DEF AbortTask
  <2> HIDE DEF k
  <2>4. /\ task' \in [Tunnels \X Runs -> Task] /\ task'[Joined] = k
        /\ \A u \in Tunnels \X Runs : u # Joined => task'[u] = task[u]
    BY <1>1, <2>1, <2>3, OneTaskChanges DEF Inv
  <2> QED
    BY <2>2, <2>3, <2>4 DEF Inv, TasksAreTidy
<1>3. phase' = phase /\ phase' \in {"booting", "serving", "draining", "ended"} /\ NothingAfterLoop'
  BY DEF AbortTask, Inv, TypeOK, NothingAfterLoop
<1> QED
  BY <1>2, <1>3, TaskChange DEF AbortTask

\* The end of stop, or of the shutdown, for one task.
LEMMA JoinTaskInv ==
  ASSUME Inv, JoinTask
  PROVE  Inv'
<1> USE DEF Inv
<1>0. /\ UNCHANGED <<tunnels, active, pending, phase, shutdown>> /\ joining' = NoTask /\ ~Joining'
      /\ joining \in [tunnel : Tunnels, run : Runs] /\ joining.tunnel \in Tunnels /\ joining.run \in Runs
      /\ active[joining.tunnel] = "none" /\ NothingAfterLoop' /\ Active' = Active /\ ReplacementIsPrepared'
      /\ Joining
  BY DEF JoinTask, Joining, NoTask, EveryTaskOwned, TypeOK, NothingAfterLoop, Active, ReplacementIsPrepared
<1> DEFINE id == joining.tunnel
<1>1. Joined \in Tunnels \X Runs /\ Joined = <<id, joining.run>>
  BY <1>0 DEF Joined
<1>2. /\ task' \in [Tunnels \X Runs -> Task] /\ task'[Joined] = Unused
      /\ \A u \in Tunnels \X Runs : u # Joined => task'[u] = task[u]
  BY <1>1, UnusedFacts, OneTaskChanges DEF JoinTask
<1>3. /\ DOMAIN view' = DOMAIN view
      /\ \A i \in DOMAIN view : view'[i] \in View
      /\ \A i \in DOMAIN view : i # id => view'[i] = view[i]
      /\ phase = "draining" => view' = view
      /\ phase # "draining" /\ id \in DOMAIN view => view'[id].state = "Stopped"
  <2>1. CASE phase = "draining"
    BY <2>1 DEF JoinTask, TypeOK
  <2>2. CASE phase # "draining"
    BY <2>2, SetStateResult DEF JoinTask, States
  <2> QED
    BY <2>1, <2>2
<1>4. \A run \in Runs : task'[<<id, run>>] = Unused
  <2> SUFFICES ASSUME NEW run \in Runs PROVE task'[<<id, run>>] = Unused
    OBVIOUS
  <2>1. CASE run = joining.run
    BY <1>1, <1>2, <2>1
  <2>2. CASE run # joining.run
    <3>1. <<id, run>> # Joined /\ joining # [tunnel |-> id, run |-> run]
      BY <1>1, <2>2
    <3>2. active[id] # run
      BY <1>0, RunsAssumption
    <3>3. task[<<id, run>>].life = "none"
      BY <1>0, <3>1, <3>2 DEF EveryTaskOwned
    <3> QED
      BY <1>0, <1>2, <3>1, <3>3 DEF TasksAreTidy
  <2> QED
    BY <2>1, <2>2
<1>5. TypeOK'
  BY <1>0, <1>2, <1>3 DEF TypeOK
<1>6. TasksAreTidy'
  BY <1>2, UnusedFacts DEF TasksAreTidy
<1>7. TasksRunConfig'
  <2>1. \A i \in Active : <<i, active[i]>> \in Tunnels \X Runs /\ <<i, active[i]>> # Joined
    BY <1>0, <1>1 DEF Active, TypeOK
  <2> QED
    BY <1>0, <1>2, <2>1 DEF TasksRunConfig
<1>8. EveryTaskOwned'
  <2>1. ASSUME NEW i \in Tunnels, NEW run \in Runs, task'[<<i, run>>].life # "none"
        PROVE  active'[i] = run
    <3>1. i # id
      BY <1>4, <2>1, UnusedFacts
    <3>2. <<i, run>> # Joined /\ joining # [tunnel |-> i, run |-> run]
      BY <1>1, <3>1
    <3> QED
      BY <1>0, <1>2, <2>1, <3>2 DEF EveryTaskOwned
  <2>2. phase = "ended" => \A t \in Tunnels \X Runs : task'[t] = Unused
    BY <1>2 DEF EveryTaskOwned
  <2> QED
    BY <1>0, <2>1, <2>2 DEF EveryTaskOwned
<1>9. ViewIsBacked'
  <2>1. DOMAIN view \subseteq Tunnels
    BY ConfigFacts DEF TypeOK
  <2>2. ASSUME NEW i \in DOMAIN view, i # id
        PROVE  /\ view'[i].state = "Stopped" => \A run \in Runs : ~task'[<<i, run>>].bound
               /\ view'[i].state \notin {"Stopped", "Blocked"} =>
                    i \in Active' \/ phase' \in {"draining", "ended"}
    BY <1>0, <1>1, <1>2, <1>3, <2>1, <2>2 DEF ViewIsBacked
  <2>3. ASSUME id \in DOMAIN view
        PROVE  /\ view'[id].state = "Stopped" => \A run \in Runs : ~task'[<<id, run>>].bound
               /\ view'[id].state \notin {"Stopped", "Blocked"} => phase' \in {"draining", "ended"}
    BY <1>0, <1>3, <1>4, <2>3, UnusedFacts
  <2> QED
    BY <1>3, <2>2, <2>3 DEF ViewIsBacked
<1> QED
  BY <1>0, <1>5, <1>6, <1>7, <1>8, <1>9

\* The user's commands change no tunnel by themselves.
LEMMA CommandInv ==
  ASSUME Inv, CommandStep
  PROVE  Inv'
<1> USE DEF Inv
<1>0. /\ UNCHANGED <<tunnels, active, task, view, joining, phase, shutdown>>
      /\ phase = "serving"
  BY DEF CommandStep, StartCommand, StopCommand, RestartCommand, SaveConfig, Serving
<1>1. /\ pending' \in [stop : SUBSET Tunnels, replace : SUBSET Configs, start : SUBSET Tunnels]
      /\ \A config \in pending'.replace : \A id \in Active \ pending'.stop :
           id \in DOMAIN config /\ SameRuntime(tunnels[id], config[id])
  <2>1. ASSUME NEW ids \in SUBSET Tunnels \ {{}}, StartCommand(ids) \/ StopCommand(ids)
        PROVE  <1>1!:
    BY <2>1 DEF StartCommand, StopCommand, Nothing
  <2>2. ASSUME NEW id \in Tunnels, RestartCommand(id)
        PROVE  <1>1!:
    BY <2>2 DEF RestartCommand, Nothing
  <2>3. ASSUME NEW config \in Configs, SaveConfig(config)
        PROVE  <1>1!:
    <3>1. AutoStarted(config) \subseteq Tunnels /\ Active \subseteq Tunnels /\ NeedsRestart(config) \subseteq Tunnels
      BY ConfigFacts DEF AutoStarted, Active, NeedsRestart
    <3> QED
      BY <2>3, <3>1 DEF SaveConfig, NeedsRestart
  <2> QED
    BY <2>1, <2>2, <2>3 DEF CommandStep
<1>2. Active' = Active /\ (Joining' <=> Joining)
  BY <1>0 DEF Active, Joining
<1> QED
  BY <1>0, <1>1, <1>2 DEF TypeOK, TasksAreTidy, TasksRunConfig, ReplacementIsPrepared,
     NothingAfterLoop, EveryTaskOwned, ViewIsBacked

\* replace_config, between the stops and the starts.
LEMMA ReplaceConfigInv ==
  ASSUME Inv, ReplaceConfig
  PROVE  Inv'
<1> USE DEF Inv
<1>0. /\ UNCHANGED <<active, task, joining, phase, shutdown>> /\ ~Joining /\ ~Joining'
      /\ Active' = Active /\ pending.stop = {} /\ pending'.replace = {}
      /\ pending' \in [stop : SUBSET Tunnels, replace : SUBSET Configs, start : SUBSET Tunnels]
      /\ pending.replace # {}
  BY DEF ReplaceConfig, Joining, Active, TypeOK
<1>p. phase \notin {"draining", "ended"}
  BY <1>0 DEF NothingAfterLoop, Nothing
<1>1. PICK config \in pending.replace :
        /\ tunnels' = config
        /\ view' = [id \in DOMAIN config |->
                      IF id \in DOMAIN view THEN view[id]
                      ELSE [state |-> "Stopped", local_addr |-> FALSE]]
  BY DEF ReplaceConfig
<1>2. config \in Configs /\ DOMAIN config \subseteq Tunnels
  BY ConfigFacts DEF TypeOK
<1>3. [state |-> "Stopped", local_addr |-> FALSE] \in View
  BY DEF View, States
<1>4. /\ DOMAIN view' = DOMAIN tunnels'
      /\ \A id \in DOMAIN view' : view'[id] \in View
      /\ \A id \in DOMAIN view' : id \in DOMAIN view => view'[id] = view[id]
      /\ \A id \in DOMAIN view' : id \notin DOMAIN view => view'[id].state = "Stopped"
  BY <1>1, <1>3 DEF TypeOK
<1>5. TypeOK'
  BY <1>0, <1>1, <1>2, <1>4 DEF TypeOK
<1>6. TasksRunConfig'
  BY <1>0, <1>1 DEF TasksRunConfig, ReplacementIsPrepared, SameRuntime
<1>7. ViewIsBacked'
  <2>1. ASSUME NEW id \in DOMAIN view', id \notin DOMAIN view
        PROVE  \A run \in Runs : ~task[<<id, run>>].bound
    <3>1. id \in Tunnels /\ id \notin Active
      BY <1>1, <1>2, <1>4, <2>1 DEF TasksRunConfig, TypeOK
    <3> QED
      BY <1>0, <3>1, FreeTunnel, UnusedFacts
  <2> QED
    BY <1>0, <1>4, <2>1 DEF ViewIsBacked
<1> QED
  BY <1>0, <1>p, <1>5, <1>6, <1>7
  DEF TasksAreTidy, ReplacementIsPrepared, NothingAfterLoop, EveryTaskOwned

\* refresh.
LEMMA RefreshInv ==
  ASSUME Inv, Refresh
  PROVE  Inv'
<1> USE DEF Inv
<1>0. /\ UNCHANGED <<tunnels, pending, joining, phase, shutdown>> /\ ~Joining /\ ~Joining'
      /\ pending.replace = {} /\ phase = "serving"
  BY DEF Refresh, Serving, Idle, Nothing, Joining
<1>d. DOMAIN view \subseteq Tunnels /\ DOMAIN view = DOMAIN tunnels
  BY ConfigFacts DEF TypeOK
<1>a. \A id \in Active : active[id] \in Runs /\ <<id, active[id]>> \in Tunnels \X Runs
  BY DEF Active, TypeOK
<1>1. /\ active' \in [Tunnels -> Runs \cup {"none"}]
      /\ \A id \in Tunnels : active'[id] = IF id \in Finished THEN "none" ELSE active[id]
      /\ Active' = Active \ Finished
  BY DEF Refresh, TypeOK, Active
<1>2. /\ task' \in [Tunnels \X Runs -> Task]
      /\ \A id \in Tunnels, run \in Runs :
           LET t == <<id, run>> IN
           /\ active[id] # run => task'[t] = task[t]
           /\ active[id] = run /\ id \in Finished => task'[t] = Unused
           /\ active[id] = run /\ id \notin Finished => task'[t] = [task[t] EXCEPT !.seen = TRUE]
  <2>1. task' = [t \in Tunnels \X Runs |->
       IF active[t[1]] # t[2] THEN task[t]
       ELSE IF t[1] \in Finished THEN Unused
       ELSE [task[t] EXCEPT !.seen = TRUE]]
    BY DEF Refresh, TypeOK
  <2>2. \A t \in Tunnels \X Runs : task[t] \in Task /\ [task[t] EXCEPT !.seen = TRUE] \in Task
    BY TaskUpdates DEF TypeOK
  <2> QED
    BY <2>1, <2>2, UnusedFacts
<1>3. \A id \in Tunnels, run \in Runs :
        LET t == <<id, run>> IN
        active[id] = run /\ id \notin Finished =>
          /\ task'[t].life = task[t].life /\ task'[t].status = task[t].status
          /\ task'[t].bound = task[t].bound /\ task'[t].port = task[t].port
          /\ task'[t].revision = task[t].revision
  <2>1. \A k \in Task : LET s == [k EXCEPT !.seen = TRUE] IN
          /\ s.life = k.life /\ s.status = k.status /\ s.bound = k.bound /\ s.port = k.port
          /\ s.revision = k.revision
    BY DEF Task
  <2>2. \A id \in Tunnels, run \in Runs : task[<<id, run>>] \in Task
    BY DEF TypeOK
  <2> QED
    BY <1>2, <2>1, <2>2
<1>4. /\ DOMAIN view' = DOMAIN view
      /\ \A id \in DOMAIN view :
           /\ id \in Finished => view'[id] = [state |-> "Blocked", local_addr |-> FALSE]
           /\ id \in Active \ Finished =>
                \/ view'[id] = view[id]
                \/ view'[id] = [view[id] EXCEPT !.state = task[<<id, active[id]>>].status]
           /\ id \notin Active => view'[id] = view[id]
  BY DEF Refresh, Finished
<1>5. \A id \in DOMAIN view :
        /\ view'[id] \in View
        /\ id \in Finished => view'[id].state = "Blocked"
        /\ id \in Active \ Finished =>
             view'[id] = view[id] \/ view'[id].state = task[<<id, active[id]>>].status
  <2>1. [state |-> "Blocked", local_addr |-> FALSE] \in View
    BY DEF View, States
  <2>2. \A id \in Active : task[<<id, active[id]>>].status \in States
    BY <1>a DEF TypeOK, Task
  <2>3. \A id \in DOMAIN view : view[id] \in View
    BY DEF TypeOK
  <2>4. \A v \in View, s \in States : [v EXCEPT !.state = s] \in View /\ [v EXCEPT !.state = s].state = s
    BY DEF View
  <2>5. Finished \subseteq Active
    BY DEF Finished
  <2>6. [state |-> "Blocked", local_addr |-> FALSE].state = "Blocked"
    OBVIOUS
  <2> SUFFICES ASSUME NEW id \in DOMAIN view
               PROVE  /\ view'[id] \in View
                      /\ id \in Finished => view'[id].state = "Blocked"
                      /\ id \in Active \ Finished =>
                           view'[id] = view[id] \/ view'[id].state = task[<<id, active[id]>>].status
    OBVIOUS
  <2>7. CASE id \in Finished
    BY <1>4, <2>1, <2>6, <2>7
  <2>8. CASE id \in Active \ Finished
    <3> DEFINE v == view[id]
               s == task[<<id, active[id]>>].status
               w == [v EXCEPT !.state = s]
    <3>1. v \in View /\ s \in States
      BY <2>2, <2>3, <2>8
    <3>2. w \in View /\ w.state = s
      BY <3>1, <2>4
    <3>3. view'[id] = v \/ view'[id] = w
      BY <1>4, <2>8
    <3> HIDE DEF v, s, w
    <3>4. view'[id] \in View /\ (view'[id] = v \/ view'[id].state = s)
      BY <3>1, <3>2, <3>3
    <3> QED
      BY <2>8, <3>4 DEF v, s
  <2>9. CASE id \notin Active
    BY <1>4, <2>3, <2>5, <2>9
  <2> QED
    BY <2>7, <2>8, <2>9
<1>6. TypeOK'
  BY <1>0, <1>1, <1>2, <1>4, <1>5 DEF TypeOK
<1>7. TasksAreTidy'
  <2> SUFFICES ASSUME NEW id \in Tunnels, NEW run \in Runs
               PROVE  /\ task'[<<id, run>>].life = "none" => task'[<<id, run>>] = Unused
                      /\ task'[<<id, run>>].status = "Stopped" => ~task'[<<id, run>>].bound
    BY DEF TasksAreTidy
  <2>1. active[id] = run => task[<<id, run>>].life # "none"
    BY RunsAssumption DEF TasksRunConfig, Active
  <2>2. CASE active[id] # run
    BY <1>2, <2>2 DEF TasksAreTidy
  <2>3. CASE active[id] = run /\ id \in Finished
    BY <1>2, <2>3, UnusedFacts
  <2>4. CASE active[id] = run /\ id \notin Finished
    BY <1>3, <2>1, <2>4 DEF TasksAreTidy
  <2> QED
    BY <2>2, <2>3, <2>4
<1>8. TasksRunConfig'
  BY <1>0, <1>a, <1>1, <1>3 DEF TasksRunConfig, SameRuntime, Active
<1>9. EveryTaskOwned'
  BY <1>0, <1>1, <1>2, UnusedFacts DEF EveryTaskOwned
<1>10. ViewIsBacked'
  <2> SUFFICES ASSUME NEW id \in DOMAIN view
               PROVE  /\ view'[id].state = "Stopped" => \A run \in Runs : ~task'[<<id, run>>].bound
                      /\ view'[id].state \notin {"Stopped", "Blocked"} =>
                           id \in Active' \/ phase' \in {"draining", "ended"}
    BY <1>4 DEF ViewIsBacked
  <2>1. CASE id \notin Active
    <3>1. \A run \in Runs : task[<<id, run>>] = Unused /\ task'[<<id, run>>] = Unused
      BY <1>0, <1>d, <1>2, <2>1, FreeTunnel, RunsAssumption DEF Active
    <3> QED
      BY <1>0, <1>4, <2>1, <3>1, UnusedFacts DEF ViewIsBacked
  <2>2. CASE id \in Finished
    BY <1>5, <2>2
  <2>3. CASE id \in Active \ Finished
    <3>1. \A run \in Runs : task'[<<id, run>>].bound => task[<<id, run>>].bound
      BY <1>d, <1>2, <1>3, <2>3
    <3>2. \A run \in Runs : run # active[id] => ~task[<<id, run>>].bound
      <4>1. \A run \in Runs : joining # [tunnel |-> id, run |-> run]
        BY <1>0, RunsAssumption DEF Joining
      <4> QED
        BY <1>d, <4>1, UnusedFacts DEF EveryTaskOwned, TasksAreTidy
    <3>3. CASE view'[id] = view[id]
      BY <1>1, <2>3, <3>1, <3>3 DEF ViewIsBacked
    <3>4. CASE view'[id].state = task[<<id, active[id]>>].status
      BY <1>a, <1>1, <2>3, <3>1, <3>2, <3>4 DEF TasksAreTidy
    <3> QED
      BY <1>5, <2>3, <3>3, <3>4
  <2> QED
    BY <2>1, <2>2, <2>3
<1> QED
  BY <1>0, <1>6, <1>7, <1>8, <1>9, <1>10 DEF NothingAfterLoop, ReplacementIsPrepared

\* The rest of run, from the automatic starts to its return.
LEMMA CourseInv ==
  ASSUME Inv, Serve \/ Shutdown \/ Drain \/ EndRun \/ \E id \in Tunnels : DrainTask(id)
  PROVE  Inv'
<1> USE DEF Inv
<1>1. CASE Serve \/ Shutdown
  <2>1. /\ UNCHANGED <<tunnels, active, task, view, joining>> /\ shutdown' \in BOOLEAN
        /\ \/ phase' = phase /\ pending' = pending
           \/ phase' = "serving" /\ phase = "booting" /\ pending' = Nothing
    <3>1. CASE Serve
      BY <3>1 DEF Serve, TypeOK
    <3>2. CASE Shutdown
      <4>1. shutdown' \in BOOLEAN
        BY <3>2, Zenon DEF Shutdown
      <4> QED
        BY <3>2, <4>1 DEF Shutdown
    <3> QED
      BY <1>1, <3>1, <3>2
  <2>2. /\ pending' \in [stop : SUBSET Tunnels, replace : SUBSET Configs, start : SUBSET Tunnels]
        /\ phase' \in {"booting", "serving", "draining", "ended"}
    BY <2>1 DEF TypeOK, Nothing
  <2>3. TypeOK'
    BY <2>1, <2>2 DEF TypeOK
  <2>4. ReplacementIsPrepared' /\ NothingAfterLoop'
    BY <2>1 DEF ReplacementIsPrepared, NothingAfterLoop, Nothing, Active
  <2> QED
    BY <2>1, <2>3, <2>4
    DEF TasksAreTidy, TasksRunConfig, EveryTaskOwned, ViewIsBacked, Active, Joining
<1>2. CASE Drain
  <2>1. /\ phase' = "draining" /\ pending' = Nothing
        /\ UNCHANGED <<tunnels, active, view, pending, joining, shutdown>>
    BY <1>2 DEF Drain, Idle
  <2>2. \A k \in Task : LET c == [k EXCEPT !.cancelled = TRUE] IN
          /\ c \in Task /\ c.life = k.life /\ c.status = k.status /\ c.bound = k.bound
          /\ c.port = k.port /\ c.revision = k.revision
    BY TaskUpdates DEF Task
  <2>3. /\ \A t \in Tunnels \X Runs : task[t] \in Task
        /\ task' = [t \in Tunnels \X Runs |->
             IF active[t[1]] = t[2] THEN [task[t] EXCEPT !.cancelled = TRUE] ELSE task[t]]
    BY <1>2 DEF Drain, TypeOK
  <2>4. /\ task' \in [Tunnels \X Runs -> Task]
        /\ \A t \in Tunnels \X Runs :
             /\ task'[t].life = task[t].life /\ task'[t].status = task[t].status
             /\ task'[t].bound = task[t].bound
             /\ task'[t].port = task[t].port /\ task'[t].revision = task[t].revision
             /\ active[t[1]] # t[2] => task'[t] = task[t]
    BY <2>2, <2>3
  <2>5. \A t \in Tunnels \X Runs : task[t].life = "none" => task'[t] = task[t]
    <3> SUFFICES ASSUME NEW id \in Tunnels, NEW run \in Runs, task[<<id, run>>].life = "none"
                 PROVE  task'[<<id, run>>] = task[<<id, run>>]
      OBVIOUS
    <3>1. active[id] # run
      BY RunsAssumption DEF TasksRunConfig, Active
    <3> QED
      BY <2>4, <3>1
  <2>6. NothingAfterLoop'
    BY <2>1 DEF NothingAfterLoop
  <2> QED
    BY <2>1, <2>4, <2>5, <2>6, TaskChange DEF TasksAreTidy
<1>3. CASE EndRun
  <2>1. /\ phase' = "ended" /\ phase = "draining" /\ ~Joining /\ Active = {}
        /\ UNCHANGED <<tunnels, active, task, view, pending, joining, shutdown>>
    BY <1>3 DEF EndRun
  <2>2. \A id \in Tunnels, run \in Runs : task[<<id, run>>] = Unused
    BY <2>1, FreeTunnel
  <2>3. EveryTaskOwned'
    BY <2>1, <2>2 DEF EveryTaskOwned, Joining
  <2> QED
    BY <2>1, <2>3 DEF TypeOK, TasksAreTidy, TasksRunConfig, ReplacementIsPrepared,
       NothingAfterLoop, ViewIsBacked, Active, Joining
<1>4. ASSUME NEW id \in Tunnels, DrainTask(id) PROVE Inv'
  <2>1. /\ id \in Active /\ ~Joining /\ phase = "draining"
        /\ joining' = [tunnel |-> id, run |-> active[id]]
        /\ UNCHANGED <<tunnels, task, view, pending, phase, shutdown>>
    BY <1>4 DEF DrainTask
  <2>2. active[id] \in Runs /\ active[id] # "none"
    BY <2>1 DEF Active, TypeOK
  <2>3. /\ active' \in [Tunnels -> Runs \cup {"none"}] /\ active'[id] = "none"
        /\ \A i \in Tunnels : i # id => active'[i] = active[i]
        /\ Active' = Active \ {id}
    BY <1>4 DEF DrainTask, TypeOK, Active
  <2>4. joining' \in [tunnel : Tunnels, run : Runs] /\ Joining' /\ joining'.tunnel = id
    BY <2>1, <2>2 DEF Joining
  <2>5. TypeOK'
    BY <2>1, <2>3, <2>4 DEF TypeOK
  <2>6. EveryTaskOwned'
    <3>1. ASSUME NEW i \in Tunnels, NEW run \in Runs, task[<<i, run>>].life # "none"
          PROVE  active'[i] = run \/ joining' = [tunnel |-> i, run |-> run]
      <4>1. joining # [tunnel |-> i, run |-> run]
        BY <2>1, RunsAssumption DEF Joining
      <4>2. active[i] = run
        BY <3>1, <4>1 DEF EveryTaskOwned
      <4> QED
        BY <2>1, <2>3, <4>2
    <3> QED
      BY <2>1, <2>3, <2>4, <3>1 DEF EveryTaskOwned
  <2> QED
    BY <2>1, <2>3, <2>5, <2>6 DEF TasksAreTidy, TasksRunConfig, ReplacementIsPrepared,
       NothingAfterLoop, ViewIsBacked, Active
<1> QED
  BY <1>1, <1>2, <1>3, <1>4

\* Every step of the manager and of the tasks preserves the invariant.
LEMMA NextInv == Inv /\ [Next]_vars => Inv'
<1> SUFFICES ASSUME Inv, [Next]_vars PROVE Inv'
  OBVIOUS
<1>1. CASE CommandStep
  BY <1>1, CommandInv
<1>2. CASE WorkStep
  BY <1>2, StartTunnelInv, StopTunnelInv, AbortTaskInv, JoinTaskInv, ReplaceConfigInv, CourseInv
  DEF WorkStep
<1>3. CASE Refresh
  BY <1>3, RefreshInv
<1>4. CASE Shutdown
  BY <1>4, CourseInv
<1>5. ASSUME NEW t \in Tunnels \X Runs, TaskStep(t) PROVE Inv'
  BY <1>5, TaskStepInv
<1>6. CASE UNCHANGED vars
  BY <1>6 DEF vars, Inv, TypeOK, TasksAreTidy, TasksRunConfig, ReplacementIsPrepared,
     NothingAfterLoop, EveryTaskOwned, ViewIsBacked, Active, Joining
<1> QED
  BY <1>1, <1>2, <1>3, <1>4, <1>5, <1>6 DEF Next

-----------------------------------------------------------------------------

\* In every behaviour the variables keep their types.
THEOREM TypeCorrect == Spec => []TypeOK
<1>1. Inv => TypeOK
  BY DEF Inv
<1> QED
  BY <1>1, InitInv, NextInv, PTL DEF Spec

\* The manager owns every supervisor task until it has ended, and returns
\* from run with none left (manager.rs:190-191, 400-407).
THEOREM EveryTaskOwnedTheorem == Spec => []EveryTaskOwned
<1>1. Inv => EveryTaskOwned
  BY DEF Inv
<1> QED
  BY <1>1, InitInv, NextInv, PTL DEF Spec

\* A tunnel shown as Stopped holds no port, and one shown at work has a task
\* (manager.rs, set_state, refresh and stop).
THEOREM ViewIsBackedTheorem == Spec => []ViewIsBacked
<1>1. Inv => ViewIsBacked
  BY DEF Inv
<1> QED
  BY <1>1, InitInv, NextInv, PTL DEF Spec

\* No task runs an old revision of its tunnel or outlives it once
\* replace_config is through (manager.rs:490-560).
THEOREM RunsCurrentConfigTheorem == Spec => []RunsCurrentConfig
<1>1. Inv => RunsCurrentConfig
  BY DEF Inv, TasksRunConfig, RunsCurrentConfig
<1> QED
  BY <1>1, InitInv, NextInv, PTL DEF Spec
=============================================================================
