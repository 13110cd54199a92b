----------------------------- MODULE Lifecycle -----------------------------
(***************************************************************************)
(* The lifecycle state machine of one tunnel,                              *)
(* crates/tunnel-core/src/state_machine.rs.                                *)
(*                                                                         *)
(* Every mutation of a tunnel's lifecycle is an Event handed to            *)
(* StateMachine::transition.  Start, Stop, Restart and ConfigChanged come  *)
(* from the user; every other event comes from a task and carries the      *)
(* generation the task captured when it was started.  Tasks are            *)
(* asynchronous, so an event of any generation issued so far may arrive at *)
(* any time, in any order and any number of times: each event action below *)
(* takes its generation from the set Issued.                               *)
(*                                                                         *)
(* An event that transition rejects (InvalidTransition, InvalidHop,        *)
(* GenerationExhausted) or ignores (IgnoredStale, NoChange) leaves the     *)
(* machine as it is: it is a stuttering step, except where a history       *)
(* variable tells that the call was answered with Ok.                      *)
(***************************************************************************)
EXTENDS Naturals, Sequences

CONSTANTS
  ListenerRequired,   \* StateMachine::new's argument
  MaxGeneration,      \* u64::MAX in the code: where checked_add gives up
  MaxHops,            \* bound on the hops of a chain (usize in the code)
  JournalLimit        \* JOURNAL_LIMIT, 200 in the code

ASSUME ListenerRequiredAssumption == ListenerRequired \in BOOLEAN
ASSUME MaxGenerationAssumption    == MaxGeneration \in Nat
ASSUME MaxHopsAssumption          == MaxHops \in Nat
ASSUME JournalLimitAssumption     == JournalLimit \in Nat \ {0}

VARIABLES
  desired,                  \* Lifecycle.desired
  runtime,                  \* Lifecycle.runtime
  listener,                 \* Lifecycle.listener
  health,                   \* Lifecycle.health (without the last RTT)
  generation,               \* Lifecycle.generation
  restart_after_shutdown,
  journal,                  \* [from, to, generation] of the last transitions
  cleanup,     \* generations for which CancelAndJoin's owner has yet to report
  session,     \* history: the generation whose Authenticated was last applied
  command      \* history: the user's last Start, Stop or Restart answered Ok

vars == <<desired, runtime, listener, health, generation,
          restart_after_shutdown, journal, cleanup, session, command>>

-----------------------------------------------------------------------------
(* The data: tunnel-domain/src/state.rs.                                   *)

StartPhase == {"Validating", "AcquiringListener", "BuildingJumpChain",
               "RegisteringRemoteForward", "StartingHealthMonitor"}

PlainPhase == {"Stopped", "EstablishingForward", "Healthy", "Degraded",
               "Reconnecting", "Blocked", "Stopping"}

HopPhase == {"Connecting", "Authenticating"}

Phases == PlainPhase \cup HopPhase \cup {"Starting"}

(***************************************************************************)
(* RuntimeState, without times, reasons and attempt numbers.  The variant  *)
(* Failed is absent: no event of the machine produces it.                  *)
(***************************************************************************)
RuntimeState ==
  [phase : PlainPhase]
    \cup [phase : {"Starting"}, step : StartPhase]
    \cup [phase : HopPhase, hop : 1..MaxHops, total : 1..MaxHops]

Plain(p)        == [phase |-> p]
Starting(step)  == [phase |-> "Starting", step |-> step]
AtHop(p, h, t)  == [phase |-> p, hop |-> h, total |-> t]

(***************************************************************************)
(* ListenerState.  The address of a bound socket is abstracted to the      *)
(* generation of the task that bound it; the other variants carry none.    *)
(***************************************************************************)
ListenerState == [kind : {"NotRequired", "Unbound", "Conflict"}]
                   \cup [kind : {"Bound"}, by : Nat]

ReleasedListener == [kind |-> IF ListenerRequired THEN "Unbound" ELSE "NotRequired"]

\* Three failed pings in a row condemn the session.
PingLimit == 3

HealthState == [authenticated : BOOLEAN, forward_ready : BOOLEAN,
                consecutive_ping_failures : 0..PingLimit]

DefaultHealth == [authenticated |-> FALSE, forward_ready |-> FALSE,
                  consecutive_ping_failures |-> 0]

\* What a command wants, and whether transition answered Applied or NoChange.
Command == [wants : {"Running", "Stopped"}, outcome : {"Applied", "NoChange"}]

JournalEntry == [from : Phases, to : Phases, generation : Nat]

phase == runtime.phase

\* Every generation a task may have captured.
Issued == 0..generation

TypeOK ==
  /\ desired \in {"Running", "Stopped"}
  /\ runtime \in RuntimeState
  /\ listener \in ListenerState
  /\ health \in HealthState
  /\ generation \in 0..MaxGeneration
  /\ restart_after_shutdown \in BOOLEAN
  /\ journal \in Seq(JournalEntry)
  /\ cleanup \subseteq Nat
  /\ session \in Nat
  /\ command \in Command

-----------------------------------------------------------------------------
(* Helpers of transition.                                                  *)

Init ==
  /\ desired = "Stopped"
  /\ runtime = Plain("Stopped")
  /\ listener = ReleasedListener
  /\ health = DefaultHealth
  /\ generation = 0
  /\ restart_after_shutdown = FALSE
  /\ journal = <<>>
  /\ cleanup = {}
  /\ session = 0
  /\ command = [wants |-> "Stopped", outcome |-> "NoChange"]

\* Mutant of Current: events of earlier generations are applied too.
CurrentMutant(g) == g <= generation

\* The generation check at the head of transition.
Current(g) == g = generation

\* checked_add: at the last generation the event is an error and changes nothing.
NextGeneration ==
  /\ generation < MaxGeneration
  /\ generation' = generation + 1

\* record: the journal forgets its oldest entry when it is full.
Record ==
  LET kept == IF Len(journal) = JournalLimit THEN Tail(journal) ELSE journal
  IN  journal' = Append(kept, [from       |-> phase,
                               to         |-> runtime'.phase,
                               generation |-> generation'])

Answer(wants, outcome) == command' = [wants |-> wants, outcome |-> outcome]

\* begin: a fresh start of the current generation.
Begin ==
  /\ desired' = "Running"
  /\ runtime' = Starting("Validating")
  /\ health' = DefaultHealth
  /\ listener' = ReleasedListener

\* Mutant of RequireRunning: a blocked tunnel still takes part in events.
RequireRunningMutant ==
  /\ desired = "Running"
  /\ phase \notin {"Stopping", "Stopped"}

RequireRunning ==
  /\ desired = "Running"
  /\ phase \notin {"Stopping", "Stopped", "Blocked"}

RequirePhase(valid) == RequireRunning /\ phase \in valid

RequireStartPhase(step) == RequireRunning /\ phase = "Starting" /\ runtime.step = step

CheckHop(hop, total) == total > 0 /\ hop \in 1..total

(***************************************************************************)
(* What Stop, Restart and ConfigChanged do to an active tunnel: a new      *)
(* generation, no health, and the effect CancelAndJoin.  The caller that   *)
(* receives the effect joins the old tasks and then reports                *)
(* ShutdownComplete with the generation it reads after the event.          *)
(***************************************************************************)
Interrupt(restart) ==
  /\ runtime' = Plain("Stopping")
  /\ health' = DefaultHealth
  /\ restart_after_shutdown' = restart
  /\ cleanup' = cleanup \cup {generation'}
  /\ UNCHANGED listener

-----------------------------------------------------------------------------
(* The user's events.                                                      *)

Start ==
  /\ phase = "Stopped"
  /\ NextGeneration
  /\ Begin
  /\ Record
  /\ Answer("Running", "Applied")
  /\ UNCHANGED <<restart_after_shutdown, cleanup, session>>

Stop ==
  /\ phase \notin {"Stopped", "Stopping"}
  /\ NextGeneration
  /\ desired' = "Stopped"
  /\ Interrupt(FALSE)
  /\ Record
  /\ Answer("Stopped", "Applied")
  /\ UNCHANGED session

(***************************************************************************)
(* Stop of a tunnel that is down or going down: Ok(NoChange).  That is     *)
(* also the answer when the shutdown is that of a Restart or a             *)
(* ConfigChanged, and the tunnel then starts again.                        *)
(***************************************************************************)
StopNoChange ==
  /\ phase \in {"Stopped", "Stopping"}
  /\ Answer("Stopped", "NoChange")
  /\ UNCHANGED <<desired, runtime, listener, health, generation,
                 restart_after_shutdown, journal, cleanup, session>>

\* Mutant of Restart: a restart during shutdown opens one more generation.
RestartMutant ==
  /\ NextGeneration
  /\ \/ /\ phase = "Stopped"
        /\ Begin
        /\ UNCHANGED <<restart_after_shutdown, cleanup>>
     \/ /\ phase \notin {"Stopped", "Stopping"}
        /\ Interrupt(TRUE)
        /\ UNCHANGED desired
     \/ /\ phase = "Stopping"
        /\ restart_after_shutdown' = TRUE
        /\ UNCHANGED <<desired, runtime, health, listener, cleanup>>
  /\ Record
  /\ Answer("Running", "Applied")
  /\ UNCHANGED session

Restart ==
  /\ phase # "Stopping"
  /\ NextGeneration
  /\ \/ /\ phase = "Stopped"
        /\ Begin
        /\ UNCHANGED <<restart_after_shutdown, cleanup>>
     \/ /\ phase # "Stopped"
        /\ Interrupt(TRUE)
        /\ UNCHANGED desired
  /\ Record
  /\ Answer("Running", "Applied")
  /\ UNCHANGED session

\* Restart of a tunnel that is going down: Ok(NoChange), like Stop.
RestartNoChange ==
  /\ phase = "Stopping"
  /\ Answer("Running", "NoChange")
  /\ UNCHANGED <<desired, runtime, listener, health, generation,
                 restart_after_shutdown, journal, cleanup, session>>

\* Mutant of ConfigChanged: a change during shutdown is not ignored: it
\* interrupts once more and asks for a restart.
ConfigChangedMutant ==
  /\ NextGeneration
  /\ \/ /\ phase = "Stopped"
        /\ UNCHANGED <<runtime, health, listener, restart_after_shutdown, cleanup>>
     \/ /\ phase # "Stopped"
        /\ Interrupt(TRUE)
  /\ Record
  /\ UNCHANGED <<desired, session, command>>

ConfigChanged ==
  /\ phase # "Stopping"
  /\ NextGeneration
  /\ \/ /\ phase = "Stopped"
        /\ UNCHANGED <<runtime, health, listener, restart_after_shutdown, cleanup>>
     \/ /\ phase # "Stopped"
        /\ Interrupt(desired = "Running")
  /\ Record
  /\ UNCHANGED <<desired, session, command>>

-----------------------------------------------------------------------------
(* The events of tasks.                                                    *)

ShutdownComplete(g) ==
  /\ g \in cleanup
  /\ Current(g)
  /\ phase = "Stopping"
  /\ cleanup' = cleanup \ {g}
  /\ restart_after_shutdown' = FALSE
  /\ \/ /\ restart_after_shutdown
        /\ Begin
     \/ /\ ~restart_after_shutdown
        /\ listener' = ReleasedListener
        /\ health' = DefaultHealth
        /\ runtime' = Plain("Stopped")
        /\ UNCHANGED desired
  /\ UNCHANGED <<generation, session, command>>
  /\ Record

\* What every event of a running tunnel leaves alone.
Advance ==
  /\ UNCHANGED <<desired, generation, restart_after_shutdown, cleanup, command>>
  /\ Record

Phase(g, step) ==
  /\ Current(g)
  /\ RequirePhase({"Starting"})
  /\ runtime' = Starting(step)
  /\ UNCHANGED <<listener, health, session>>
  /\ Advance

ListenerBound(g) ==
  /\ Current(g)
  /\ RequireStartPhase("AcquiringListener")
  /\ ListenerRequired /\ listener.kind = "Unbound"
  /\ listener' = [kind |-> "Bound", by |-> g]
  /\ UNCHANGED <<runtime, health, session>>
  /\ Advance

ListenerConflict(g) ==
  /\ Current(g)
  /\ RequireStartPhase("AcquiringListener")
  /\ ListenerRequired /\ listener.kind = "Unbound"
  /\ listener' = [kind |-> "Conflict"]
  /\ runtime' = Plain("Blocked")
  /\ UNCHANGED <<health, session>>
  /\ Advance

Connecting(g, hop, total) ==
  /\ Current(g)
  /\ RequirePhase({"Starting", "Reconnecting"})
  /\ phase = "Starting" => RequireStartPhase("BuildingJumpChain")
  /\ CheckHop(hop, total)
  /\ health' = DefaultHealth
  /\ runtime' = AtHop("Connecting", hop, total)
  /\ UNCHANGED <<listener, session>>
  /\ Advance

Authenticating(g, hop, total) ==
  /\ Current(g)
  /\ RequirePhase({"Connecting"})
  /\ CheckHop(hop, total)
  /\ runtime.hop = hop /\ runtime.total = total
  /\ runtime' = AtHop("Authenticating", hop, total)
  /\ UNCHANGED <<listener, health, session>>
  /\ Advance

\* The final hop is authenticated.
Authenticated(g) ==
  /\ Current(g)
  /\ RequirePhase({"Authenticating"})
  /\ runtime.hop = runtime.total
  /\ health' = [health EXCEPT !.authenticated = TRUE]
  /\ session' = g
  /\ runtime' = Plain("EstablishingForward")
  /\ UNCHANGED listener
  /\ Advance

\* A jump host is authenticated; the next hop is tunnelled through it.
HopAuthenticated(g) ==
  /\ Current(g)
  /\ RequirePhase({"Authenticating"})
  /\ runtime.hop < runtime.total
  /\ runtime' = AtHop("Connecting", runtime.hop + 1, runtime.total)
  /\ UNCHANGED <<listener, health, session>>
  /\ Advance

ForwardReady(g) ==
  /\ Current(g)
  /\ RequirePhase({"EstablishingForward"})
  /\ health' = [health EXCEPT !.forward_ready = TRUE]
  /\ runtime' = Starting("StartingHealthMonitor")
  /\ UNCHANGED <<listener, session>>
  /\ Advance

\* The common guard of PingSucceeded and PingFailed.
Pingable ==
  /\ RequirePhase({"Starting", "Healthy", "Degraded"})
  /\ health.authenticated /\ health.forward_ready

PingSucceeded(g) ==
  /\ Current(g)
  /\ Pingable
  /\ health' = [health EXCEPT !.consecutive_ping_failures = 0]
  /\ runtime' = Plain("Healthy")
  /\ UNCHANGED <<listener, session>>
  /\ Advance

PingFailed(g) ==
  LET failures == health.consecutive_ping_failures + 1
      dead     == failures >= PingLimit
  IN  /\ Current(g)
      /\ Pingable
      /\ health' = [authenticated |-> ~dead, forward_ready |-> ~dead,
                    consecutive_ping_failures |-> failures]
      /\ runtime' = Plain(IF dead THEN "Reconnecting" ELSE "Degraded")
      /\ UNCHANGED <<listener, session>>
      /\ Advance

Disconnected(g, retryability) ==
  /\ Current(g)
  /\ RequireRunning
  /\ health' = DefaultHealth
  /\ runtime' = Plain(IF retryability = "Transient" THEN "Reconnecting" ELSE "Blocked")
  /\ UNCHANGED <<listener, session>>
  /\ Advance

-----------------------------------------------------------------------------

UserEvent == Start \/ Stop \/ StopNoChange \/ Restart \/ RestartNoChange \/ ConfigChanged

TaskEvent(g) ==
  \/ \E step \in StartPhase : Phase(g, step)
  \/ ListenerBound(g)
  \/ ListenerConflict(g)
  \/ \E hop, total \in 0..MaxHops : Connecting(g, hop, total) \/ Authenticating(g, hop, total)
  \/ Authenticated(g)
  \/ HopAuthenticated(g)
  \/ ForwardReady(g)
  \/ PingSucceeded(g)
  \/ PingFailed(g)
  \/ \E retryability \in {"Transient", "Blocked"} : Disconnected(g, retryability)

Next ==
  \/ UserEvent
  \/ \E g \in cleanup : ShutdownComplete(g)
  \/ \E g \in Issued : TaskEvent(g)

Spec == Init /\ [][Next]_vars

(***************************************************************************)
(* The one fairness assumption: whoever received CancelAndJoin does report *)
(* ShutdownComplete (the join it waits for has a deadline and then aborts).*)
(***************************************************************************)
FairSpec == Spec /\ WF_vars(\E g \in cleanup : ShutdownComplete(g))

-----------------------------------------------------------------------------
(* Safety.                                                                 *)

(***************************************************************************)
(* The bookkeeping of a session follows its phase: only an established     *)
(* session has forward_ready, only a tunnel that finished authenticating   *)
(* and is not waiting to reconnect is authenticated, a tunnel shown        *)
(* Healthy or Degraded has both and fewer failed pings than condemn it.    *)
(* (Phase may move a started tunnel back to AcquiringListener, so a port   *)
(* conflict can also block a tunnel whose session is still recorded.)      *)
(* TunnelWarden_SPEC.md:1509-1517, the conditions of Healthy.              *)
(***************************************************************************)
HealthFollowsPhase ==
  /\ phase \in HopPhase => health = DefaultHealth
  /\ health.forward_ready => health.authenticated
  /\ health.authenticated =>
       \/ phase \in {"Starting", "EstablishingForward", "Healthy", "Degraded"}
       \/ phase = "Blocked" /\ listener.kind = "Conflict"
  /\ phase = "EstablishingForward" => health.authenticated /\ ~health.forward_ready
  /\ phase \in {"Healthy", "Degraded"} => health.forward_ready
  /\ phase = "Healthy" => health.consecutive_ping_failures = 0
  /\ health.authenticated => health.consecutive_ping_failures < PingLimit

(***************************************************************************)
(* An authenticated session is one of the current generation, and so is a  *)
(* bound listener, unless it is the one a shutdown in progress is about to *)
(* release; a Stopped tunnel has none.  Invariants 1, 2 and 6 of           *)
(* TunnelWarden_SPEC.md:1984-2020.                                         *)
(***************************************************************************)
OnlyCurrentGeneration ==
  /\ health.authenticated => session = generation
  /\ listener.kind = "Bound" =>
       \/ listener.by = generation /\ desired = "Running"
       \/ listener.by < generation /\ phase = "Stopping"

\* The variables agree: a tunnel that is not desired is down or going down,
\* one that is down is not desired, a shutdown restarts a desired tunnel.
DesiredAgreesWithPhase ==
  /\ desired = "Stopped" => phase \in {"Stopping", "Stopped"}
  /\ phase = "Stopped" => desired = "Stopped"
  /\ restart_after_shutdown <=> (phase = "Stopping" /\ desired = "Running")

(***************************************************************************)
(* The last Start, Stop or Restart that was answered Applied is in force:  *)
(* no later change of the configuration, report of a shutdown or late      *)
(* event of a task turns a stopped tunnel back on or a wanted one off.     *)
(* The user's wish is taken from the call, not from desired.  A command    *)
(* answered NoChange is no part of it: see StopIsObeyed.                   *)
(***************************************************************************)
AppliedCommandHolds ==
  /\ command.outcome = "Applied" => desired = command.wants
  /\ DesiredAgreesWithPhase

(***************************************************************************)
(* "DesiredState = Stopped" is the first thing Stop must do                *)
(* (TunnelWarden_SPEC.md:1338-1366): a Stop that was answered Ok leaves a  *)
(* tunnel that is not to run.  Not so during the shutdown of a Restart or  *)
(* a ConfigChanged (state_machine.rs:250-255).                             *)
(***************************************************************************)
StopIsObeyed == command.wants = "Stopped" => desired = "Stopped"

(***************************************************************************)
(* While the tunnel is Stopping exactly one report is outstanding, and it  *)
(* is one the generation check will let through; otherwise there is none.  *)
(* If this failed the tunnel could hang in Stopping, or a late report      *)
(* could end the shutdown of a later generation.                           *)
(***************************************************************************)
OneShutdownOwed == cleanup = IF phase = "Stopping" THEN {generation} ELSE {}

(***************************************************************************)
(* The journal is the unbroken tail of the tunnel's history: entries       *)
(* follow on from one another, generations never go back, and the last     *)
(* entry is the present phase and generation (nothing changes either       *)
(* outside transition).                                                    *)
(***************************************************************************)
JournalIsHistory ==
  /\ Len(journal) <= JournalLimit
  /\ IF journal = <<>>
     THEN phase = "Stopped" /\ generation = 0
     ELSE /\ journal[Len(journal)].to = phase
          /\ journal[Len(journal)].generation = generation
  /\ \A i \in 1..(Len(journal) - 1) :
       /\ journal[i].to = journal[i + 1].from
       /\ journal[i].generation <= journal[i + 1].generation

-----------------------------------------------------------------------------
(* Action properties.                                                      *)

(***************************************************************************)
(* A Blocked tunnel does not retry by itself: it leaves Blocked only into  *)
(* a shutdown under a new generation, which is what Stop, Restart and      *)
(* ConfigChanged do.  TunnelWarden_SPEC.md:1408-1433.                      *)
(***************************************************************************)
BlockedWaitsForUser ==
  [][phase = "Blocked" /\ phase' # "Blocked" =>
       phase' = "Stopping" /\ generation' = generation + 1]_vars

-----------------------------------------------------------------------------
(* Liveness.                                                               *)

(***************************************************************************)
(* A shutdown ends: whatever the user asks for meanwhile, the report of    *)
(* the owner of the cleanup is never discarded as stale.                   *)
(***************************************************************************)
ShutdownEnds == phase = "Stopping" ~> phase # "Stopping"

=============================================================================
