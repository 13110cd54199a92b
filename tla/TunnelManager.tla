--------------------------- MODULE TunnelManager ---------------------------
(***************************************************************************)
(* The manager of all tunnels, crates/tunnel-core/src/manager.rs: the      *)
(* single task that owns every supervisor task, applies the commands of    *)
(* the user interface one at a time and publishes what the user sees.      *)
(*                                                                         *)
(* A supervisor task is represented by what TunnelContract promises of it: *)
(* it reports states along the contract's edges, gives up its port for     *)
(* good, reports Stopped and ends.  It may end without being told to.      *)
(* Tasks run between any two steps of the manager, in particular while it  *)
(* awaits the end of one of them.                                          *)
(*                                                                         *)
(* Left out: the command queue (commands arrive in any order, which covers *)
(* every queue), retry hints (module Supervisor), the event log, host key  *)
(* prompts and the import and export of files, which change no tunnel;     *)
(* persisting a configuration is module ConfigPersistence.                 *)
(***************************************************************************)
EXTENDS Naturals, FiniteSets

CONSTANTS
  Tunnels,      \* tunnel identifiers
  Runs,         \* handles of supervisor tasks
  Ports,        \* local ports
  Revisions,    \* what same_tunnel_runtime and same_host_connection compare,
                \* beyond the local endpoint
  Definitions   \* the tunnel configurations the user chooses from

ASSUME TunnelsAssumption == IsFiniteSet(Tunnels)
ASSUME RunsAssumption    == "none" \notin Runs
ASSUME PortsAssumption   == "none" \notin Ports
ASSUME RevisionsAssumption == Revisions # {}

\* A tunnel's configuration.  A Remote tunnel has no local port; valid says
\* whether validate and the lookup of its jump chain succeed.
Definition ==
  [port : Ports \cup {"none"}, revision : Revisions, auto_start : BOOLEAN, valid : BOOLEAN]

ASSUME DefinitionsAssumption == Definitions \subseteq Definition

VARIABLES
  tunnels,    \* self.tunnels with the hosts and groups they refer to
  active,     \* self.active: the handle of each tunnel's task, or "none"
  task,       \* the supervisor tasks
  view,       \* self.current: what the user sees of each tunnel
  pending,    \* what is left to do of the command in progress
  joining,    \* the task whose end the manager awaits
  phase,      \* the part of run: "booting", "serving", "draining" or "ended"
  shutdown    \* the manager's CancellationToken

vars == <<tunnels, active, task, view, pending, joining, phase, shutdown>>

Contract == INSTANCE TunnelContract WITH port <- FALSE, status <- "Connecting"

States == {"Connecting", "Reconnecting", "Healthy", "Degraded", "Blocked", "Stopped"}

\* A configuration is a function from the tunnels it has to their definitions.
Configs == UNION {[S -> Definitions] : S \in SUBSET Tunnels}

Task == [life   : {"none", "live", "over"},  \* over: finished, handle not yet joined
         status : States,                    \* the watch value
         seen   : BOOLEAN,                   \* ... has not changed since the last look
         bound  : BOOLEAN,                   \* owns its port
         port   : Ports \cup {"none"},
         revision  : Revisions,
         cancelled : BOOLEAN]

View == [state : States, local_addr : BOOLEAN]

Nothing == [stop |-> {}, replace |-> {}, start |-> {}]

NoTask == [tunnel |-> "none", run |-> "none"]

TypeOK ==
  /\ tunnels \in Configs
  /\ active \in [Tunnels -> Runs \cup {"none"}]
  /\ task \in [Tunnels \X Runs -> Task]
  /\ DOMAIN view = DOMAIN tunnels
  /\ \A id \in DOMAIN view : view[id] \in View
  /\ pending \in [stop : SUBSET Tunnels, replace : SUBSET Configs, start : SUBSET Tunnels]
  /\ joining \in [tunnel : Tunnels, run : Runs] \cup {NoTask}
  /\ phase \in {"booting", "serving", "draining", "ended"}
  /\ shutdown \in BOOLEAN

Active == {id \in Tunnels : active[id] # "none"}

Joining == joining.run # "none"

Idle == pending = Nothing /\ ~Joining

BoundPorts == {task[t].port : t \in {u \in Tunnels \X Runs : task[u].bound}}

Unused == [life |-> "none", status |-> "Stopped", seen |-> TRUE, bound |-> FALSE, port |-> "none",
           revision |-> CHOOSE r \in Revisions : TRUE, cancelled |-> FALSE]

AutoStarted(config) == {id \in DOMAIN config : config[id].auto_start}

\* TunnelManager::new and the head of run.
Init ==
  /\ tunnels \in Configs
  /\ active = [id \in Tunnels |-> "none"]
  /\ task = [t \in Tunnels \X Runs |-> Unused]
  /\ view = [id \in DOMAIN tunnels |-> [state |-> "Stopped", local_addr |-> FALSE]]
  /\ pending = [Nothing EXCEPT !.start = AutoStarted(tunnels)]
  /\ joining = NoTask
  /\ phase = "booting"
  /\ shutdown = FALSE

\* set_state: a tunnel that has been removed has no view to set.
SetState(id, state, addr) ==
  view' = IF id \in DOMAIN view
          THEN [view EXCEPT ![id] = [state |-> state, local_addr |-> addr]]
          ELSE view

-----------------------------------------------------------------------------
(* start and stop.                                                         *)

(***************************************************************************)
(* start: nothing for an active or an unknown tunnel; Blocked for one that *)
(* is not valid or whose port cannot be bound (another tunnel has it, or   *)
(* something else on this machine); else a supervisor task is spawned.     *)
(***************************************************************************)
StartTunnel(id) ==
  /\ id \in pending.start /\ pending.stop = {} /\ pending.replace = {} /\ ~Joining
  /\ pending' = [pending EXCEPT !.start = @ \ {id}]
  /\ LET def == tunnels[id] IN
     \/ /\ id \in Active \/ id \notin DOMAIN tunnels
        /\ UNCHANGED <<active, task, view>>
     \/ /\ id \notin Active /\ id \in DOMAIN tunnels
        /\ ~def.valid \/ def.port # "none"
        /\ SetState(id, "Blocked", FALSE)
        /\ UNCHANGED <<active, task>>
     \/ /\ id \notin Active /\ id \in DOMAIN tunnels
        /\ def.valid /\ def.port \notin BoundPorts
        /\ \E run \in {r \in Runs : task[<<id, r>>].life = "none"} :
             /\ active' = [active EXCEPT ![id] = run]
             /\ task' = [task EXCEPT ![<<id, run>>] =
                  [life |-> "live", status |-> "Connecting", seen |-> TRUE,
                   bound |-> def.port # "none", port |-> def.port,
                   revision |-> def.revision, cancelled |-> FALSE]]
        /\ SetState(id, "Connecting", def.port # "none")
  /\ UNCHANGED <<tunnels, joining, phase, shutdown>>

\* stop: an active tunnel's task is cancelled and awaited ...
StopTunnel(id) ==
  /\ id \in pending.stop /\ ~Joining
  /\ pending' = [pending EXCEPT !.stop = @ \ {id}]
  /\ \/ /\ id \notin Active
        /\ SetState(id, "Stopped", FALSE)
        /\ UNCHANGED <<active, task, joining>>
     \/ /\ id \in Active
        /\ active' = [active EXCEPT ![id] = "none"]
        /\ task' = [task EXCEPT ![<<id, active[id]>>].cancelled = TRUE]
        /\ joining' = [tunnel |-> id, run |-> active[id]]
        /\ UNCHANGED view
  /\ UNCHANGED <<tunnels, phase, shutdown>>

Joined == <<joining.tunnel, joining.run>>

\* Mutant of AbortTask: only a task that still holds its port is aborted.
AbortTaskMutant ==
  /\ Joining /\ task[Joined].life = "live" /\ task[Joined].bound
  /\ task' = [task EXCEPT ![Joined].life = "over", ![Joined].bound = FALSE]
  /\ UNCHANGED <<tunnels, active, view, pending, joining, phase, shutdown>>

\* ... and aborted when STOP_DEADLINE passes; its port goes with it ...
AbortTask ==
  /\ Joining /\ task[Joined].life = "live"
  /\ task' = [task EXCEPT ![Joined].life = "over", ![Joined].bound = FALSE]
  /\ UNCHANGED <<tunnels, active, view, pending, joining, phase, shutdown>>

\* Mutant of JoinTask: the end of the task is not awaited.
JoinTaskMutant ==
  /\ Joining
  /\ task' = [task EXCEPT ![Joined] = IF @.life = "over" THEN Unused ELSE @]
  /\ joining' = NoTask
  /\ IF phase = "draining" THEN UNCHANGED view ELSE SetState(joining.tunnel, "Stopped", FALSE)
  /\ UNCHANGED <<tunnels, active, pending, phase, shutdown>>

\* ... and once it has ended the tunnel is shown as Stopped.
JoinTask ==
  /\ Joining /\ task[Joined].life = "over"
  /\ task' = [task EXCEPT ![Joined] = Unused]
  /\ joining' = NoTask
  /\ IF phase = "draining" THEN UNCHANGED view ELSE SetState(joining.tunnel, "Stopped", FALSE)
  /\ UNCHANGED <<tunnels, active, pending, phase, shutdown>>

-----------------------------------------------------------------------------
(* Commands.                                                               *)

Serving == phase = "serving" /\ Idle /\ ~shutdown

\* StartTunnel, StartGroup, StartAll, and RetryTunnel of an inactive tunnel.
StartCommand(ids) ==
  /\ Serving
  /\ pending' = [Nothing EXCEPT !.start = ids]
  /\ UNCHANGED <<tunnels, active, task, view, joining, phase, shutdown>>

\* StopTunnel, StopGroup and StopAll.
StopCommand(ids) ==
  /\ Serving
  /\ pending' = [Nothing EXCEPT !.stop = ids]
  /\ UNCHANGED <<tunnels, active, task, view, joining, phase, shutdown>>

RestartCommand(id) ==
  /\ Serving
  /\ pending' = [Nothing EXCEPT !.stop = {id}, !.start = {id}]
  /\ UNCHANGED <<tunnels, active, task, view, joining, phase, shutdown>>

\* same_tunnel_runtime and same_host_connection.
SameRuntime(old, new) == old.port = new.port /\ old.revision = new.revision

\* Mutant of NeedsRestart: a tunnel that has been removed keeps running.
NeedsRestartMutant(config) ==
  {id \in Active : id \in DOMAIN config /\ ~SameRuntime(tunnels[id], config[id])}

\* The running tunnels that the new configuration removes or changes.
NeedsRestart(config) ==
  {id \in Active : id \notin DOMAIN config \/ ~SameRuntime(tunnels[id], config[id])}

\* SaveConfig once the configuration is on disk: replace_config computes whom
\* to stop and whom to start ...
SaveConfig(config) ==
  /\ Serving
  /\ pending' = [stop    |-> NeedsRestart(config),
                 replace |-> {config},
                 start   |-> AutoStarted(config) \cup (Active \cap DOMAIN config)]
  /\ UNCHANGED <<tunnels, active, task, view, joining, phase, shutdown>>

\* ... stops, replaces the configuration and the views, then starts.
ReplaceConfig ==
  /\ pending.stop = {} /\ ~Joining
  /\ \E config \in pending.replace :
       /\ tunnels' = config
       /\ view' = [id \in DOMAIN config |->
                     IF id \in DOMAIN view THEN view[id]
                     ELSE [state |-> "Stopped", local_addr |-> FALSE]]
  /\ pending' = [pending EXCEPT !.replace = {}]
  /\ UNCHANGED <<active, task, joining, phase, shutdown>>

-----------------------------------------------------------------------------
(* refresh: every 250 ms while a tunnel is active.                         *)

Finished == {id \in Active : task[<<id, active[id]>>].life = "over"}

\* Copy what changed; a task that has ended by itself is a Blocked tunnel.
Refresh ==
  /\ Serving /\ Active # {}
  /\ view' = [id \in DOMAIN view |->
       IF id \in Finished THEN [state |-> "Blocked", local_addr |-> FALSE]
       ELSE IF id \in Active /\ ~task[<<id, active[id]>>].seen
       THEN [view[id] EXCEPT !.state = task[<<id, active[id]>>].status]
       ELSE view[id]]
  /\ active' = [id \in Tunnels |-> IF id \in Finished THEN "none" ELSE active[id]]
  /\ task' = [t \in DOMAIN task |->
       IF active[t[1]] # t[2] THEN task[t]
       ELSE IF t[1] \in Finished THEN Unused
       ELSE [task[t] EXCEPT !.seen = TRUE]]
  /\ UNCHANGED <<tunnels, pending, joining, phase, shutdown>>

-----------------------------------------------------------------------------
(* The course of run.                                                      *)

\* The automatic starts are done, or given up because of a shutdown.
Serve ==
  /\ phase = "booting"
  /\ ~Joining /\ (pending.start = {} \/ shutdown)
  /\ pending' = Nothing
  /\ phase' = "serving"
  /\ UNCHANGED <<tunnels, active, task, view, joining, shutdown>>

\* ManagerHandle::shutdown.
Shutdown ==
  /\ ~shutdown
  /\ shutdown' = TRUE
  /\ UNCHANGED <<tunnels, active, task, view, pending, joining, phase>>

\* The loop ends: every task is cancelled ...
Drain ==
  /\ phase = "serving" /\ Idle /\ shutdown
  /\ phase' = "draining"
  /\ task' = [t \in DOMAIN task |->
       IF active[t[1]] = t[2] THEN [task[t] EXCEPT !.cancelled = TRUE] ELSE task[t]]
  /\ UNCHANGED <<tunnels, active, view, pending, joining, shutdown>>

\* Mutant of DrainTask: the tasks are cancelled but not joined.
DrainTaskMutant(id) ==
  /\ phase = "draining" /\ ~Joining /\ id \in Active
  /\ active' = [active EXCEPT ![id] = "none"]
  /\ UNCHANGED <<tunnels, task, view, pending, joining, phase, shutdown>>

\* ... and joined or, after the deadline, aborted.
DrainTask(id) ==
  /\ phase = "draining" /\ ~Joining /\ id \in Active
  /\ active' = [active EXCEPT ![id] = "none"]
  /\ joining' = [tunnel |-> id, run |-> active[id]]
  /\ UNCHANGED <<tunnels, task, view, pending, phase, shutdown>>

EndRun ==
  /\ phase = "draining" /\ ~Joining /\ Active = {}
  /\ phase' = "ended"
  /\ UNCHANGED <<tunnels, active, task, view, pending, joining, shutdown>>

-----------------------------------------------------------------------------
(* The supervisor tasks.                                                   *)

Others == <<tunnels, active, view, pending, joining, phase, shutdown>>

\* A task that has its port (a Remote one has none) reports along the edges.
TaskReports(t) ==
  /\ task[t].life = "live"
  /\ task[t].bound \/ task[t].port = "none"
  /\ \E s \in Contract!Successors(task[t].status) :
       task' = [task EXCEPT ![t].status = s, ![t].seen = FALSE]
  /\ UNCHANGED Others

TaskReleases(t) ==
  /\ task[t].life = "live" /\ task[t].bound
  /\ task' = [task EXCEPT ![t].bound = FALSE]
  /\ UNCHANGED Others

TaskConcludes(t) ==
  /\ task[t].life = "live" /\ ~task[t].bound /\ task[t].status # "Stopped"
  /\ task' = [task EXCEPT ![t].status = "Stopped", ![t].seen = FALSE]
  /\ UNCHANGED Others

TaskEnds(t) ==
  /\ task[t].life = "live" /\ task[t].status = "Stopped"
  /\ task' = [task EXCEPT ![t].life = "over"]
  /\ UNCHANGED Others

TaskStep(t) == TaskReports(t) \/ TaskReleases(t) \/ TaskConcludes(t) \/ TaskEnds(t)

-----------------------------------------------------------------------------

CommandStep ==
  \/ \E ids \in SUBSET Tunnels \ {{}} : StartCommand(ids) \/ StopCommand(ids)
  \/ \E id \in Tunnels : RestartCommand(id)
  \/ \E config \in Configs : SaveConfig(config)

WorkStep ==
  \/ \E id \in Tunnels : StartTunnel(id) \/ StopTunnel(id) \/ DrainTask(id)
  \/ AbortTask \/ JoinTask \/ ReplaceConfig \/ Serve \/ Drain \/ EndRun

Next ==
  \/ CommandStep \/ WorkStep \/ Refresh \/ Shutdown
  \/ \E t \in Tunnels \X Runs : TaskStep(t)

Spec == Init /\ [][Next]_vars

(***************************************************************************)
(* Fairness: the manager finishes what it has begun, and refresh gets its  *)
(* turn again and again; the select is biased towards commands, so this    *)
(* assumes that the queue runs empty from time to time.  Nothing is        *)
(* assumed of the tasks: the stop deadline is the manager's own.           *)
(***************************************************************************)
FairSpec == Spec /\ WF_vars(WorkStep) /\ SF_vars(Refresh)

-----------------------------------------------------------------------------
(* How the manager keeps its books.                                        *)

\* A handle that is not in use says nothing, and Stopped is the last report.
TasksAreTidy ==
  \A t \in Tunnels \X Runs :
    /\ task[t].life = "none" => task[t] = Unused
    /\ task[t].status = "Stopped" => ~task[t].bound

\* A handle in active is that of a task that runs its tunnel's configuration,
\* in the middle of a command too.
TasksRunConfig ==
  \A id \in Active :
    /\ task[<<id, active[id]>>].life # "none"
    /\ id \in DOMAIN tunnels /\ SameRuntime(task[<<id, active[id]>>], tunnels[id])

\* A configuration that is about to replace the old one keeps every running
\* tunnel that is not still to be stopped.
ReplacementIsPrepared ==
  \A config \in pending.replace : \A id \in Active \ pending.stop :
    id \in DOMAIN config /\ SameRuntime(tunnels[id], config[id])

\* Nothing is left to do once the loop is over.
NothingAfterLoop == phase \in {"draining", "ended"} => pending = Nothing

-----------------------------------------------------------------------------
(* Safety.                                                                 *)

(***************************************************************************)
(* The manager "owns every supervisor task" (manager.rs:190-191): a task   *)
(* that has not ended is the one of its tunnel in active, or the one being *)
(* joined; so a tunnel never has two (TunnelWarden_SPEC.md, Invariant 4),  *)
(* and none is left when run returns.                                      *)
(***************************************************************************)
EveryTaskOwned ==
  /\ \A id \in Tunnels, run \in Runs :
       task[<<id, run>>].life # "none" =>
         active[id] = run \/ joining = [tunnel |-> id, run |-> run]
  /\ Joining => active[joining.tunnel] = "none"
  /\ phase = "ended" => \A t \in Tunnels \X Runs : task[t] = Unused

(***************************************************************************)
(* A tunnel shown as Stopped holds no port, and a tunnel shown at work has *)
(* a task, unless the manager is just stopping it or has shut down.        *)
(***************************************************************************)
ViewIsBacked ==
  \A id \in DOMAIN view :
    /\ view[id].state = "Stopped" => \A run \in Runs : ~task[<<id, run>>].bound
    /\ view[id].state \notin {"Stopped", "Blocked"} =>
         id \in Active \/ (Joining /\ joining.tunnel = id) \/ phase \in {"draining", "ended"}

(***************************************************************************)
(* When no command is in progress, every task runs the configuration that  *)
(* is in force: none runs an old revision, and none outlives its tunnel.   *)
(***************************************************************************)
RunsCurrentConfig ==
  pending.replace = {} =>
    \A id \in Active :
      /\ id \in DOMAIN tunnels
      /\ SameRuntime(task[<<id, active[id]>>], tunnels[id])

-----------------------------------------------------------------------------
(* Liveness.                                                               *)

(***************************************************************************)
(* The manager never waits for ever, whatever the tasks do: stop gets past *)
(* the task it joins, a shutdown ends with every task joined, and a task   *)
(* that has ended by itself is noticed (manager.rs:734-740, 400-406, 749). *)
(***************************************************************************)
StopEnds ==
  /\ \A id \in Tunnels : joining.tunnel = id ~> joining.tunnel # id
  /\ shutdown ~> phase = "ended"
  /\ \A id \in Tunnels : (id \in Finished /\ phase = "serving") ~> (id \notin Finished)
=============================================================================
