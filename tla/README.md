# TunnelWarden: a TLA+ verification project

TunnelWarden is a Windows application that keeps SSH tunnels (Local `-L`, Remote
`-R`, Dynamic SOCKS5 `-D`) alive. This directory holds TLA+ models of the part of
it that decides things: the tunnel state machine, the reconnect loops, the worker
that forwards connections, the way through the jump hosts, host key approval, the
manager that owns every tunnel, and the way its configuration is edited, imported,
checked and saved. TLC checks
them on small instances; TLAPS proves the central invariants for every value of the
constants. Paths in this file are relative to the repository.

## 1. The system

### 1.1 Components

| component | source | state it keeps | operations |
|---|---|---|---|
| lifecycle state machine | `crates/tunnel-core/src/state_machine.rs`, `tunnel-domain/src/state.rs` | desired and runtime state, generation, health, listener, journal of transitions | `transition` over 15 events |
| listener runtime | `tunnel-core/src/runtime.rs` | a state machine and the bound socket | `start_listener`, `stop` |
| local/dynamic supervisor | `tunnel-core/src/supervisor.rs` | reconnect loop position, attempt counter, listener between sessions, clients without a session, a `watch` of its state | `run_until_stopped`, retry hints, cancel |
| local forward worker | `tunnel-core/src/local_forward.rs` | one SSH chain, the listener, connection tasks, ping counter | accept, open channel, relay, ping, `release_listener` |
| remote supervisor and worker | `tunnel-core/src/remote_supervisor.rs`, `remote_forward.rs` | as above, with a port registered on the server instead of a local one | register, serve, cancel the registration |
| tunnel manager | `tunnel-core/src/manager.rs` | configuration, one handle per running supervisor, snapshot for the user interface, pending host key prompts, event log | 15 or so commands, 250 ms refresh, shutdown |
| retry schedule | `tunnel-core/src/retry.rs` | none | delay of an attempt with jitter |
| configuration store | `config-store/src/store.rs` | `config.toml`, its temporary file, backups | `load`, `save`, `import`, `export` |
| secrets, login startup | `config-store/src/secrets.rs`, `startup.rs` | keyring entries, registry value | save, delete, resolve; set, refresh |
| schema, validation | `config-store/src/schema.rs`, `tunnel-domain/src/validation.rs` | none | (de)serialization, semantic checks |
| OpenSSH import | `config-store/src/ssh_import.rs` | none | parse a config file |
| SSH client and chain | `ssh-engine/src/client.rs`, `chain.rs`, `cancellable_stream.rs` | the sessions of the hops | connect hop by hop, ping all, disconnect |
| host key verification | `ssh-engine/src/host_key.rs` | `known_hosts` under a lock | check, ask, save |
| forwarding | `forwarding/src/relay.rs`, `socks5.rs` | a buffer per direction, traffic counters | relay with half close; SOCKS5 request |
| runtime host, instance guard, network watcher | `app/src/runtime_host.rs`, `instance.rs`, `network.rs` | the runtime thread, a named mutex, an OS registration | start, shut down, activate, report a recovered network |
| user interface | `app/src/{main,workspace,editor,tray}.rs` | a copy of the configuration, the open editor or preview, a pending save | edits, imports, exports; sends manager commands, shows the snapshot |

### 1.2 How they interact

* The user interface sends commands to the manager through a bounded queue and reads
  a `watch` of its snapshot. The manager is one task that handles one command at a
  time, so a stop that awaits a supervisor delays everything behind it.
* The manager spawns one supervisor task per running tunnel with a cancellation token,
  a `Notify` for retry hints and a `watch` for the state. It polls the `watch` every
  250 ms. It stops a task by cancelling it, waiting three seconds and aborting it.
* The window edits a copy of the configuration and sends the whole copy; the manager
  saves it and answers. Closing the window drops whoever waits for the answer, not the
  request.
* Every accepted client has a task, which asks the worker's loop for an SSH channel; the
  loop opens one channel at a time and does nothing else meanwhile.
* A supervisor owns the listening socket and lends it to a worker for each SSH
  session; the worker gives it back when the session has ended.
* A remote worker asks the last session of the chain to register a port on the server;
  channels the server opens come through russh's handler and a bounded queue.
* Every hop's transport is served by a detached task of russh that ends when the
  hop's cancellation token is cancelled. That task also asks for host key approval: a
  prompt goes to the manager, from there to the window, and the answer comes back through
  a `oneshot`.
* `persist_config` changes three stores one after the other: keyring, registry, file.
* The listener runtime drives the state machine with a fixed sequence of events.
  (At this commit the state machine is driven by the listener runtime and by tests; the
  supervisors publish their own, coarser states.)

### 1.3 What is hard, and what makes it correct

* *Late events of an old generation* must not touch the current one
  (`OnlyCurrentGeneration`), and the one report that ends a shutdown must never be
  taken for a late one (`OneShutdownOwed`, `ShutdownEnds`). *Commands given during a
  shutdown* must not be turned around (`AppliedCommandHolds`, `StopIsObeyed`).
* *Stop at any point* of connecting, pinging, serving, backing off or being blocked
  must free the port, the session and all tasks (`StopReleasesEverything`,
  `StoppedOwnsNothing`).
* *The listener changes hands* at every session and must not be lost, nor a chain
  leaked (`OwnershipFollowsProgram`, `ImplementsContract`).
* *What is shown* is published by one task and read by another
  (`StatusFollowsSession`, `ViewIsBacked`, `StopEnds`).
* *Retry hints* race with the waits they are meant for (`RetryIsHeard`), and *failures are
  counted* on three paths in two places (`BackoffCountsFailures`).
* *The port of a Remote tunnel belongs to the server*, which may not know that the
  session is lost (`HealthyIsRegistered`, `CancelBeforeClose`, `LostForwardIsRetried`).
* *A failure at any hop*, or a future dropped in the middle of a handshake, must leave no
  transport running (`LiveTransportIsOwned`, `ConnectEnds`).
* *A decision about a host key* travels through two queues and may be late, repeated, or
  for a prompt that is gone (`AcceptedIsTrusted`, `NobodyWaitsInVain`, `DecisionArrives`).
* *Replacing the configuration* awaits tasks half way (`RunsCurrentConfig`,
  `EveryTaskOwned`).
* *Crashes and errors between the steps of a save* (`FilesAreWhole`,
  `SettledStateAgrees`, `ReplacedOnlyWithBackup`).
* *One loop opens every channel* and has a limit on connections; it must not starve or
  block anybody, and must leave nothing behind (`ClientsAreServed`,
  `RequestsNeverBlock`, `ReleaseEnds`).
* *Bytes and replies*: short reads and writes, half-close and aborts
  (`StreamsAreFaithful`), and a SOCKS client that must not hear of success too early
  (`SuccessMeansChannel`).
* *A long sequence of edits*, only some of which are validated before they are sent, must
  not reach a configuration that cannot be loaded again (`SavedIsUsable`).
* *The copy in the window* is stale when a save is answered late or its window is gone
  (`ViewIsCurrent`).
* *Includes that form a circle, limits and overruled values* of an OpenSSH file
  (`PreviewIsFaithful`), and the *edges of the backoff arithmetic* (`BackoffIsBounded`).

`PROJECT.json` lists the hazards one by one with their source lines.

## 2. The modules

| module | models | extends / uses |
|---|---|---|
| `Lifecycle` | `StateMachine::transition`, one action per event | |
| `ListenerRuntime` | `ListenerRuntime::start_listener`, `stop` | EXTENDS `Lifecycle` (composition) |
| `TunnelContract` | abstract: what a running tunnel promises | |
| `Supervisor` | `LocalForwardSupervisor` with its `LocalForwardWorker` | INSTANCE `TunnelContract` (refinement) |
| `RemoteForward` | `RemoteForwardSupervisor`, `RemoteForwardWorker`, the registration of a port on the server | INSTANCE `TunnelContract` (refinement) |
| `SshChain` | `SshChain::connect_with_approval`, `disconnect`, and the transports of the hops | |
| `HostKeyApproval` | `HostKeyVerifier::check_server_key`, the manager's prompts, the window's buttons | |
| `TunnelManager` | `TunnelManager::run` and its commands | INSTANCE `TunnelContract` (assumption on tasks) |
| `MCTunnelManager` | small configurations for TLC | EXTENDS `TunnelManager` |
| `ConfigPersistence` | `persist_config`, `ConfigStore::save` and `load` | |
| `Relay` | `copy_direction` and `relay_bidirectional`, counters | |
| `ForwardWorker` | `LocalForwardWorker` with the tasks of its connections and SOCKS5 | EXTENDS `ListenerRuntime`, `Relay` (composition) |
| `MCForwardWorker` | how much each client sends | EXTENDS `ForwardWorker` |
| `ConfigSchema` | the file's document, its conversions, all rules of validation | |
| `RetrySchedule` | `RetryPolicy`: delays with jitter | |
| `SshImport` | the OpenSSH parser and resolver, and what the files mean to OpenSSH | EXTENDS `ConfigSchema` |
| `Workspace` | editors, imports and the life of the window, and the manager's answers | EXTENDS `ConfigSchema`, `RetrySchedule`, `SshImport` |
| `MCWorkspace` | forms, documents and files | EXTENDS `Workspace` |
| `SupervisorProofs`, `RemoteForwardProofs`, `SshChainProofs`, `HostKeyApprovalProofs`, `TunnelManagerProofs`, `ConfigPersistenceProofs` | theorems | EXTENDS the module of the name, TLAPS |
| `ForwardWorkerProofs` | theorems about the state machine, then listener, worker and relays | EXTENDS `ForwardWorker`, TLAPS |
| `WorkspaceProofs` | theorems about conversions, editing, imports and the delays between attempts | EXTENDS `Workspace`, TLAPS |

### Lifecycle

`desired`, `generation`, `runtime`, `health`, `listener`, `restart_after_shutdown` and
`journal` are the fields of `StateMachine`. `phase` abbreviates the kind of `runtime`.
Three variables are not in the code: `cleanup` (which `CancelAndJoin` effects have been
handed out and not yet answered by `ShutdownComplete`), `session` (the generation
whose hop authenticated) and `command` (what the last Start, Stop or Restart asked for, and whether
it was answered Applied or NoChange).
Timestamps, reasons, round trip times and addresses are left out. A rejected event
changes nothing in the code and is no step here; `StopNoChange` and `RestartNoChange` are the
commands that are answered Ok without a change. Task events carry any generation that
has been issued, so they may be late, repeated and out of order.
`MaxGeneration` bounds a `u64` counter; behaviours end there, hence `CHECK_DEADLOCK FALSE`.

### ListenerRuntime

Every event the two methods hand to the machine and every socket operation between them
is a step; `call` is the position in the method. `BindFails` is
`record_bind_failure` with both outcomes of `bind_error`. It is checked as part of
`ForwardWorker`, where deadlock *is* checked: with an even last generation a deadlock
would be a method stuck half way.

### Relay and ForwardWorker

A direction of a connection is a stream whose n-th byte is the number n. `ReadChunk` and
`WriteChunk` take any part of what is there, so short reads and writes are the rule. In
`ForwardWorker` the select of `run` is one action per branch, and being biased shows in
the guards: no branch is taken while a health tick is due (`due`), a request only when no finished task
is left to join, a client accepted only when no request is queued either. `pinging` and `opening` are the awaits
inside a branch. `task` is where the task of each client is, `requests` the queue of
`OpenRequest`s, `answer` the oneshots, `dialogue` what a SOCKS client has been told.
`Cancelled` is what the connections' token says. `ListenerStarts`, `ListenerRuns` and
`ListenerDrops` are the steps of `ListenerRuntime` while no worker has the socket;
`Supervisor` says who builds workers and when. That russh reports the loss of a session
as an end of input or an error of the channel is external. What a client has sent before
its relay starts is sent when it starts.

### ConfigSchema and RetrySchedule

Operators only. `try_from` and `into_domain` are the two conversions (home directory,
numbers that do not fit, secrets without a reference), `validate` and its parts the rules, `Accepted` what a save goes through. A
text is a tuple of model parts; what no rule looks at is left out. Names are compared as they are; the code
ignores ASCII case when it does so. `unjittered` and `delay` are the code's arithmetic
in unbounded integers, which is what `u128` amounts to for `u64` inputs.
`HasHome` says whether the environment names a home directory; without one a path below it is refused.
`IsConfigDocument` is the type a file is decoded into, as far as a proof needs it: lists, options, and
milliseconds that `u64` holds.

### SshImport and Workspace

A file is a sequence of lines that have been split into words. `read_lines` keeps the
files it has visited, the limits on files and bytes, and, in place of the calls the code
nests, the lines and files that are still to be read (`todo`), the innermost first; `lookup` is the first
value of a matching block. The reference `Said` reads the files without any of this, the way OpenSSH
does: a line counts for an alias if it, and every Include above it, stands under a Host
that matches. `SameMeaning` says for which files the importer, to which an included file has no end, should
agree. `DeleteGroup` and `MoveGroup` say what `retain` and `sort_by_key` do by
the one order-keeping selection, and the one sorted arrangement, that there is. `Workspace` has the window's copy `startup`, one open `editor`,
`saving` with the `candidate` it took along, previews, and the manager's side: `requests`,
`running`, `file`. `Shown` is the guard of what an open editor hides. A save is sent as a
whole, and `SaveSucceeds`, `SaveFails` and `SavePruneFails` (the file was replaced, and the answer is an error all the
same) are the manager's answers, whose steps `ConfigPersistence` models; `unreported` is a history
variable with the configuration of such a save. `CloseWindow` leaves requests in the queue and marks them as nobody's;
`show_main_window` starts from what the manager has. `overtaken` is a history variable: the window was
opened while a save was under way. After `MaxSaves` requests nothing new is begun.

### Supervisor

`pc` is the position in `run_until_stopped` and in the worker's `run`; `owner` and `chain`
say who holds the listener and whether an SSH chain is open, dead (the peer is gone, not
yet noticed) or absent. The worker's select loop becomes one action per branch. Time is
abstract: every timeout is a choice, `age` says whether `stable_after` has passed since the worker
was made, which goes on while the session is Degraded and while it is torn down. `failures` is a
history variable: failed attempts and lost sessions since the last stable one. `notify_one` and `notified` are modelled as tokio has them: a
permit if nobody waits, else a wake-up; both remember who gave them. `Cancel` and `Abort`
are what `TunnelManager::stop` does to the task. An abort drops what the future owns at
once and leaves the tasks of its join sets to the runtime (`OrphanEnds`).
The system ends when the task does, hence `CHECK_DEADLOCK FALSE`.

### TunnelContract

A tunnel holds its port without a gap until it gives it up for good, reports states
along fixed edges meanwhile, and reports Stopped only after that. `Supervisor` and
`RemoteForward` implement it (checked and proved); `TunnelManager` assumes no more than that of its tasks,
so the modules meet in this specification.

### RemoteForward

`pc` is the position in `run`, in `start_chain`, in the worker's `run` and in its `stop`. `chain` is
as in `Supervisor`; `held` says who has the port on the server: nobody, this session
(`ours`), a session the client has lost and the server has not (`stale`), or somebody else.
`enabled` is `remote_enabled` of the session, which russh's handler looks at; `accepting` says that it
has looked and is telling the server, and `queue` holds the channels it has passed on. The server binds the port in one step and its answer arrives in
another, so a timeout may fall between them. Only the connect, the worker and the two
waits watch Stop; in the other places it is the timeouts, or the manager's abort, that
make it get through. The binding has a fixed port; a binding to port 0 never meets its own old one.
The claim a Remote tunnel has in the contract is that it is still trying.

### SshChain

One attempt: `connect_with_approval` with its hops (also none, and one more than
`MAX_HOPS`), then the owner of the chain, who disconnects or drops it. `task` is russh's task for each hop, which
may be asking the user; `stopped` and `revoked` are the parent token and the child tokens.
`Drop` may happen at every await. What it leaves behind is the point of the module:
the hop that was being connected has no session that could cancel its token, so the
supervisor's cancellation must follow.

### HostKeyApproval

Attempts to reach one server, each offered a key; `channel`, `pending` and `commands` are
the queue of prompts, `pending_host_keys` and the queue of commands, `views` what the window
shows. A prompt is found by its id, which is used once, so `pending` is a set. A file of known hosts is the keys it has for
the server. `Algorithms` groups the keys: russh calls a key changed only if the file has another one of
the same algorithm. `UserFile`, which the program never writes, is a constant. The save runs in a blocking
closure, which goes on without the lock if its task is dropped (`orphans`).
`decided` is a history variable: what the user clicked, with the key that was shown. The system may come to rest, hence
`CHECK_DEADLOCK FALSE`, as in the two modules before.

### TunnelManager

`tunnels`, `active`, `view` are `self.tunnels`, `self.active`, `self.current`; `task` holds
the supervisor tasks, each with its `watch` value and the configuration it was started
with. A command becomes `pending` work, which `StopTunnel`, `ReplaceConfig` and
`StartTunnel` do in the code's order while the tasks go on; `joining` is the
task awaited inside `stop`. Commands come in any order at any time, which covers every
content of the queue. The configuration is abstracted to local port, a revision (all that
`same_tunnel_runtime` and `same_host_connection` compare besides), `auto_start`, and
whether it validates. Starting a tunnel with a port may also fail because a foreign process has it.
The system ends after a shutdown, hence
`CHECK_DEADLOCK FALSE`.

### ConfigPersistence

Each file system, keyring and registry call is a step that may fail; `Crash` may happen
between any two. A document is a number; `docs` says which secret and login
setting it refers to. A file is `Torn` from its creation until it is synced; a rename is
atomic. Backup names are pairs of clock and suffix, ordered as the file names are. The
clock may be set freely between saves. `mishaps` is a history variable naming the
accidents that nothing repairs. After `MaxSaves` saves nothing is left to do, hence
`CHECK_DEADLOCK FALSE`.

## 3. The runs

| run | instance | shows |
|---|---|---|
| `lifecycle` | 4 generations, 2 hops, journal of 3 | no mark of an old generation, the last command that was applied is in force, Blocked is left by the user only, shutdowns end |
| `supervisor` | Dynamic, 3 attempts, 2 clients, 2 connections | what Stopped means, status, backoff, contract, Stop and Retry get through, a lost session is replaced |
| `manager` | 1 tunnel, 4 definitions, 2 task handles | ownership of tasks, honesty of the view, tasks run the current configuration; stop and shutdown get to their end, and the end of a task is noticed |
| `remote_forward` | 3 attempts, queue and connections of 2 | honesty of Healthy, order of cancelling and closing, contract, Stop and lost sessions |
| `ssh_chain` | up to 4 hops, and 0 and 5 | ownership and end of transports, meaning of Cancelled, the end of an attempt |
| `host_key` | 2 attempts, 3 keys of 2 algorithms, one of them known, 1 prompt shown and 1 queued, 2 commands | the user decides about what they saw, prompts are answered once and a shutdown leaves none open, files agree |
| `config_persistence` | 3 saves, 1 backup, 2 suffixes, 2 clock values | files are whole and backups bounded, stores agree, backups made |
| `forward_worker` | 2 generations, 2 clients, 1 slot; one sends 2 bytes through a buffer of 2 | the socket is what the machine says it is, bytes arrive in order, SOCKS replies are true, requests never block, clients are served, a worker leaves nothing behind |
| `workspace` | 2 saves; up to 3 hosts, 2 groups, 1 tunnel, 1 hop; 3 files, 15 lines, 2 entries; suffixes up to 3; 60 s as the longest time | only usable configurations are sent and saved, the window edits the current one, previews say what the files say, delays keep their bounds |

Violation runs, each a disagreement between a document and the code:

| run | statement that fails |
|---|---|
| `lifecycle_stop` | Stop sets the desired state to Stopped first (`TunnelWarden_SPEC.md:1338-1366`): during the shutdown of a Restart or ConfigChanged it is answered Ok, changes nothing, and the tunnel starts again (`state_machine.rs:250`) |
| `config_temp` | no temporary file stays behind (`store.rs:108`, test at `store.rs:308`): one left by a crash makes every later save fail |
| `remote_lost` | a lost remote forward leads to Reconnecting (`TunnelWarden_SPEC.md:1386-1403`): when the server still holds the port for the lost session, it denies the new registration, which is classified as Blocked |

Disagreements that were met while modelling and have no run of their own:

* `should_reset` is asked with the time since the worker was made, after it was released: Degraded
  time and the teardown count as well (`supervisor.rs:228-236`, `remote_supervisor.rs:160-171`;
  `TunnelWarden_SPEC.md:1464-1478` asks for 60 s of Healthy). `BackoffCountsFailures` is about what the code does.
* After a lost session the wait is one step longer than after as many failed attempts: this path counts
  before it waits, the others after it (`supervisor.rs:171`, `236`).
* The intervals of the worker burst and its select is biased: if the pings of all hops together take as long
  as their interval (five seconds are allowed for each hop, one after the other, `chain.rs:161-174`), the
  branches below get no turn, and nobody is accepted or given a channel (`local_forward.rs:167-219`).
* Neither supervisor looks at the token between the initial ping and publishing Healthy
  (`supervisor.rs:204`, `remote_supervisor.rs:129`; `TunnelWarden_SPEC.md:3267`). The
  manager has forgotten the task by then, so its snapshot does not show it
  (`ViewIsBacked`).
* A network hint that comes just after the wait it was meant for is stored and ends a later
  Blocked wait (`supervisor.rs:257`; `TunnelWarden_SPEC.md:1426`).
* Every saved change starts the `auto_start` tunnels, also those the user has stopped
  (`manager.rs:534`; `TunnelWarden_SPEC.md:367`).
* A handshake that was given up while the user is asked leaves russh's task waiting for the
  answer, so its prompt stays in the window until somebody answers (`client.rs:529`);
  in `SshChain` this is the exception in `ConnectEnds`.
* The login setting and the secrets are rolled back not only if the *write* fails
  (`startup.rs:17`) but also when the new file is in place and only the pruning of
  old backups fails (`store.rs:136`); the manager then works with the old configuration until it
  is started again. `SettledStateAgrees` names this accident, `SavedIsUsable` says what the file is then.
* A window opened from the tray while a save of the earlier window is under way has the
  configuration from before that save, and its next change takes the save back
  (`main.rs:306`; `TunnelWarden_SPEC.md:480`). `ViewIsCurrent` says it is the only way.
* A late Ok closes every editor and preview, also one opened after the save was sent
  (`workspace.rs:497`).
* The window does not look at the number of groups; the store refuses the 129th
  (`workspace.rs:386`).
* A key path entered with `~` is used as it is by the running manager; it is
  expanded when the file is loaded again (`schema.rs:362`).
* With 100 % of jitter the delay may be zero, and with any jitter it may exceed
  `max_delay` (`retry.rs:19`).
* In an OpenSSH import the last Host block of an included file also takes the lines that follow
  the Include, and a Host line in a file included under another Host is not limited by that one
  (`ssh_import.rs:246-306`; `TunnelWarden_SPEC.md:457-470`). `PreviewIsFaithful` leaves such files out (`SameMeaning`).

**Why the bounds are enough.** Four generations allow start, restart, stop and start
again, with late events of three older ones; the checks compare generations only with the current one.
Two hops distinguish first, middle-or-last and last. Three attempts let the counter grow,
saturate and be reset; two clients and two connections reach the limit and leave it again.
A queue of two channels reaches its limit and leaves it. Four hops distinguish the first, two
inner ones and the last. Two attempts and one prompt fill the list and make the
channel's second prompt wait or be refused; two commands allow a repeated click. Two keys of one
algorithm can contradict each other, and the third is known and contradicts neither.
Two handles for one tunnel would allow a second task beside the first (`EveryTaskOwned` says it
does not happen); what a second tunnel adds, conflicts over a port and commands that stop several, is covered by the
proofs, which hold for any number. Three saves with one backup kept give a first save,
one that makes a backup and one that prunes; two suffixes let the names of a
millisecond run out.
One slot for two clients makes the second wait in the backlog and get the place of the
first; two bytes through a buffer of two can be written in one piece or in two; two
generations are a start and a stop, and any number of workers may be built in between.
Two saves are one that is answered late and another made meanwhile, and every limit on
hosts, groups, tunnels and hops can be passed by one edit or import. Three files of 15 lines let a circle,
a missing one, one too long and one too many happen. The longest time is enough for every preset delay.

No run uses symmetry.

## 4. Fairness

* `Lifecycle`: whoever received `CancelAndJoin` reports `ShutdownComplete`; the joins
  behind it have a deadline after which they abort.
* `Supervisor`: weak fairness of the supervisor's own progress (connect and
  ping have timeouts, sleeps end, joins abort after a deadline), of the worker's noticing
  a cancelled token or a dead session (the select is biased to the first and has a
  timer for the second), of the end of a ping, of passing health on, of the
  manager giving the hint it decided to give, and of the runtime dropping aborted tasks.
  Nothing is assumed of user, network or clients; in particular not that the manager's
  deadline strikes.
* `RemoteForward`: the supervisor's own steps happen, since every request has a timeout
  and every join a deadline; the select of the worker looks at Stop and at the session
  whatever the channels do; a ping ends; aborted tasks are dropped. Nothing is assumed
  of server, network and user.
* `SshChain`: every await on the network has a deadline; reading a secret or a key file
  (`manager.rs:902`, `client.rs:842`) has none, and is assumed to return. A transport that is cancelled or has lost its
  channel ends, and who drops a connect future cancels the token next. The user need
  never answer.
* `HostKeyApproval`: tasks that can run do, the manager takes what is in its queues, and
  a blocking save ends. `Lock` is strongly fair because tokio's mutex is served in
  the order of arrival. Nothing is assumed of the user, of the shutdown, or of refresh, which
  is only polled while a tunnel is active.
* `ForwardWorker`: timers fire, a task that can run does, a ping and an open end within
  their timeouts, the supervisor releases the listener of a run that has ended, and the join has a deadline. Joining, taking a
  request and accepting are strongly fair: each time the select finds no tick due it takes a branch that is
  ready. That it finds none again and again is *not* assumed, but the premise `TicksLeaveTime` of
  `ClientsAreServed`: slow pings can starve these branches (section 3). Nothing is assumed of clients, server
  or destinations.
* `TunnelManager`: the manager goes on with the work it has begun (weak), and
  `Refresh` happens again and again (strong). The select of `run` is biased towards
  commands, so the second assumes that the queue becomes empty from time to
  time: a user interface that sends commands without a pause could delay refresh.
  Nothing is assumed of the tasks.

## 5. What is proved

Every safety property of the runs, invariant or action property, is also a theorem, except
`PreviewIsFaithful` of `Workspace`, of which one part is. The type invariants and the strengthenings of the inductive
invariants are proved and not checked by a run once more.

The theorems hold for all values of the constants under the named assumptions beside
their declarations: limits are naturals, some of them positive; `Clients` and `Tunnels` are
finite; the value that stands for nothing is none of the others; the documents of `Workspace` have
the type of documents, and the first one loads. TLC evaluates the assumptions in the runs.

**SupervisorProofs.** `Inv` is `TypeOK`, `OwnershipFollowsProgram`,
`StatusFollowsProgram` and `BackoffCountsFailures`, which is inductive beside the first three. The
property a user cares about, `StatusFollowsSession`, does not
say what is published while connecting or waiting, so it is not inductive;
`StatusFollowsProgram` is what it needs. From `Inv`: `StoppedIsReleased`, `StatusIsHonest`,
`BackoffIsKept`, and `Refinement`, that the supervisor implements `TunnelContract`. Each
step changes neither port nor status, or it reports along an edge of the contract, or it releases, or it
concludes (`StepRefines`).

**RemoteForwardProofs.** `Inv` is `TypeOK`, `SessionFollowsProgram` and
`StatusFollowsProgram`. `HealthyIsRegistered` is not inductive: that Announce is honest needs
that the port is ours wherever a live session has been registered, which is the last
conjunct of `StatusFollowsProgram`, and that nobody else frees it, which is
`SessionFollowsProgram`. From `Inv`: `SessionIsContained`, `HealthyIsHonest`,
`CancelComesFirst` (an action property) and `Refinement`, with the same three kinds of steps
as in `SupervisorProofs`.

**SshChainProofs.** `LiveTransportIsOwned` needs to know which sessions are held:
`SessionsFollowProgram` says that they are those of the first hops, in order, and
`TransportsFollowProgram` that no hop has a transport before its handshake and that no child
token is revoked on the way forward. The theorems hold for any limit on hops.

**TunnelManagerProofs.** `Inv` adds four parts to `EveryTaskOwned` and `ViewIsBacked`.
`TasksAreTidy` says what an unused handle looks like and that Stopped is reported without a
port; `TasksRunConfig` is `RunsCurrentConfig` in the middle of a command too;
`ReplacementIsPrepared` is what keeps it true: a tunnel that is running and not still to be
stopped has the same runtime in the configuration that is about to be put in place.
`NothingAfterLoop` says that the end of the loop leaves no work. For any finite set of tunnels
and any definitions and handles.

**ConfigPersistenceProofs.** `FilesFollowProgram` says what the temporary file holds and that
a backup comes before the rename, `StateFollowsProgram` which document is in the file, in
the login setting and in the keyring at each step, as long as none of the accidents has happened,
`SecretsFollowDocuments` that a document refers to its own new secret or to an older one, and
`BackupsAreDistinct` that no two backups have one name. That pruning leaves `MAX_BACKUPS` is a
lemma about finite sets (`PruneLeavesFew`), for which backups must have an oldest
one (`OldestBackup`). The action property `ReplacedOnlyWithBackup` follows from the same `Inv`.

**HostKeyApprovalProofs.** Three groups: prompts (`PromptsAreUnique`, `WaitersAreKnown`,
`IdsAreFaithful`: a prompt is in one place and only between the question and its answer, who
waits is in the channel, in the list or answered, and an id stands for one key), answers (`AnswersAreDecisions`: what is
answered was decided for that key), and files (`SavesAreExclusive`: as long as no save has lost its task, who is saving
holds the lock, and the files have no key of the algorithm when a key is about to be written). `NobodyWaitsInVain` follows from the first by counting.

**ForwardWorkerProofs, the state machine.** `Inv` is the conjunction of `TypeOK`, `HealthFollowsPhase`,
`OnlyCurrentGeneration`, `AppliedCommandHolds` (of which `DesiredAgreesWithPhase` is a part) and `OneShutdownOwed`. None of the
parts after the first is inductive alone: that a bound listener is of the current
generation, say, needs to know that a restart happens only when the tunnel is still
wanted, and that needs the bookkeeping of the pending shutdown. There is one lemma per action, and
`NextInv` puts them together. `BlockedIsLeftByUser` is an action property that follows
from `Inv`. `JournalIsFaithful` has its own small induction: every step appends through
`Record` or leaves phase and generation alone, and `Record` evicts from the front only.

**ForwardWorkerProofs, the worker.** First the composition: a step of the worker is a step of the listener runtime
or leaves it alone, and a step of the runtime is an event of the state machine
(`WorkerDrivesLifecycle`: the composition implements `Lifecycle`). So all that is proved of
the state machine holds of it, and with `CallFollowsMachine` it gives `SocketMatchesMachine`. Then `WorkerInv`:
`TasksBelongToWorker`, `DialogueFollowsTask` (what a SOCKS client has heard at each place of its
task), `RequestsAreOwed` (who is in the queue, or being served, is there once and has no answer yet;
`RequestsNeverBlock` follows by counting the tasks that are not about to send),
`StreamsFollowTask` (received and buffered bytes make up the bytes read) and `ActiveIsCounted`
(the number of relays, however they end). The traffic counters are compared with
`SumFunction` of the community modules, whose definition is recursive on sets. That it is well defined, is 0
on zeros and grows with a summand (`SumsExist`, `SumOfZeros`, `SumGrows`) is proved here, by
looking at a smallest set for which it fails. `StreamsAreFaithful` then holds for every finite set
of clients, any number of bytes and every buffer.

**WorkspaceProofs.** The window validates what an editor or an OpenSSH import makes, and sends the
rest unseen: groups added, deleted and moved, settings, and a document that was
accepted when it was imported. `SavedIsUsable` claims that this is enough. It rests on lemmas about the operators:

* the conversions: a configuration that is written and read is the same up to the home directory
  (`ConfigRoundTrip`), what `Accepted` asks can be asked of the configuration itself (`AcceptedMeans`:
  `Sound`, whose rules only count ids), what is made of an accepted document is accepted again and has nothing
  left to expand (`LoadedIsUsable`), and what is written can be a file (`UsableIsDocument`);
* the changes: after `DeletedGroup` and `MovedGroup` the groups are the old ones, each once,
  and no tunnel is left in one that is gone; `SavedGroup` has at most one too many; `SavedHost`,
  `SavedTunnel` and `ImportedHosts` have the type of configurations, whatever is entered, so that validating
  them says something;
* the import: `AddSelected` is a recursive function, so it first has to exist (`AddsExist`); then a
  smallest number of hosts for which `Merged` fails leads to a contradiction (`AllAdded`).

`WorkspaceInv` is inductive. `ViewIsCurrent` needs `RequestsInv` (a request the window waits for is
the last one and carries its candidate; there is only that one unless the window was overtaken)
and `AnswerInv` (an answer means that the queue is empty, and Ok that the candidate is running).
`SavedIsUsable` needs that every configuration anywhere, in the window, in a preview, in the queue or in the
file, is usable, and that the file was written from `Stored`: what the manager works with, or what was sent by the last save that
failed after the rename (`StoredInv`, `PreviewInv`, `SentInv`). TLC has checked `WorkspaceInv` on the instance of
the run. There is one lemma per action; the actions that send share `SendingStep`. `ImportsOnlyAdd`
is the last part of `PreviewIsFaithful`. `DelaysAreBounded` is `DelayIsBounded` of `RetrySchedule` for every policy,
attempt and jitter, and `BackoffsAreBounded` says that no other policy ever comes into use; its first
conjunct is `BackoffIsBounded` without the bounds on attempts and jitter.

**Only model-checked**: all liveness properties (fairness and ENABLED are outside what TLAPS
does here); `ImplementsContract` of the tasks the manager runs is an assumption of `TunnelManager`
that `SupervisorProofs` and `RemoteForwardProofs` discharge for the two kinds of tunnels; and
the parts of `PreviewIsFaithful` about what the parser reads and what the files say, for which one
would need induction over the lines of a file.

## 6. What is not modelled

* Relaying the bytes of Remote connections: they go through the same `relay_bidirectional`
  as those of `ForwardWorker`.
* Authentication methods: an attempt to authenticate succeeds, fails for good or fails for now.
* The format of `known_hosts` and what russh does with it.
* The event log and the export of a configuration: they change no state another component
  depends on.
* The encoding of SOCKS5 addresses, splitting an OpenSSH line into words, the TOML syntax
  (which has no numbers above `i64::MAX`).
* Rendering, paging, the list of tunnels, the tray, Windows handles.

## 7. Plan

What is left are compositions: host key approval inside `SshChain`'s handshake, and `SshChain`
under the supervisors' connect, each a refinement of the outcomes the larger module chooses from.
