# A TLA+ model of the Sentrits daemon

Sentrits keeps terminal sessions (mostly AI coding CLIs) alive on a host and lets
several devices watch them and take turns at controlling them. This directory
models the daemon's core: the life of a session, who controls it, how its output
travels, how logs become lines and evidence, what clients are told about a session, how a
device becomes trusted, how the host keeps its configuration, how the server starts and
stops, what survives a crash, which environment
a program gets, and the command line client that attaches to a session. Paths below are relative to the repository root (`src/` in `PROJECT.json`).

Contents: [system](#the-system) · [modules](#modules-and-the-code-they-model) ·
[runs](#what-the-runs-check) · [fairness](#fairness) · [proofs](#what-is-proved) ·
[findings](#where-the-code-and-the-documents-disagree) ·
[limits](#what-is-not-modelled) · [plan](#plan)

## The system

One daemon process, one io thread (Boost.Asio) that runs every handler to
completion. Beside it run: the programs in the sessions, reader threads of log
sessions, the hub threads, and the signal path that stops the server.

| Component | State | Operations | Talks to |
|---|---|---|---|
| Session state machine (`session_lifecycle.cpp`, `session_record.cpp`) | status | `TryTransition` | everything that changes a status |
| `SessionRuntime`, `PosixPtyProcess` | pid, master descriptor, record, output buffer | `Start`, `WriteInput`, `ResizeTerminal`, `PollOnce`, `HandleExit`, `Shutdown` | kernel (`fork`, `read`, `waitpid`, `kill`) |
| `SessionOutputBuffer` | chunks, next sequence | `Append`, `Tail`, `SliceFromSequence` | runtime (writes), sockets (read) |
| `ManagedLogProcess`, `LogBuffer` | pid, pipes, reader threads, lines | `Start`, `PollExit`, `Terminate`, `Append`, `Tail`, `Range`, `Search`, `Context` | session manager |
| `SessionManager` | `sessions_`: runtime or log process or recovered snapshot, controller kind and client, timestamps, viewports | create, poll, input, resize, request/release control, stop, clear, tags, shutdown, load | runtimes, session store |
| `WebSocketSession` (observer socket) | stream window, pending frames, last summary, claimed kind | client commands, `SendPendingOutput` | session manager, registry |
| `RemoteControllerWebSocketSession` | `has_control_`, next output sequence, pending frames, own wait on the PTY | accept, binary and text frames, readable wait, `ForceClose` | session manager, registry |
| `LocalControllerSession` (`sentrits attach`) | `has_control_`, own wait on the PTY, pending frames | handshake, frames `I` `R` `C`, readable wait, `ForceClose` | session manager |
| `SessionPump` | readable watchers, timer | `DoPoll`, `NotifySessionClients`, `SyncReadableWatchers` | session manager, all sockets |
| `HttpSession`, routes of `http_shared.cpp` | none of their own | REST calls | session manager, pairing, stores |
| `HttpServer` | io context, acceptors, `stopping_`, hub parts | `Run`, `Stop`, `EnableHubControlChannel` | everything |
| `FileSessionStore` and other file stores | JSON files | load, upsert, remove (write to a temporary file and rename) | session manager, pairing |
| `DefaultPairingService`, `DefaultAuthorizer` | pending and approved pairings, approved claims | start, approve, claim, reject; authorise | routes, pairing store |
| `HubClient`, `HubControlChannel` | heartbeat thread, control loop, bridges, `RelayTokenStore` | start, stop, heartbeat, relay requests | hub (external), routes |
| `OverviewWebSocketSession` | pending frames, last payload | connect, `QueueInventorySnapshot`, observations | pump, session manager |
| Summaries (`BuildSummary`, attention inference), workspace and git polls | stamps and kinds in the entry | polls, `PollAll` | overview, routes |
| `ObservationStore`, `FileStoredEvidenceStore`, prompt templates | audit of reads; a directory per snapshot; a file per template | evidence queries, snapshots, templates | routes, overview |
| `FileHostConfigStore` (`host_identity.json`) | identity, listeners, hub, provider commands, launch records | load, save | routes, `serve`, `host set-hub` |
| `sentrits session attach` (`daemon_client.cpp`) | belief about control, terminal size | main loop, reader thread | observer socket |
| `ResolveEnvironment`, `BootstrappedEnvCache`, .env parser | cached environments of login shells, last warning | resolve the layers of a mode, run a login shell | session manager, login shells |
| Discovery, terminal multiplexer, JSON | – | – | see `PROJECT.json` |

What is hard, and why the model is built the way it is:

* **Who polls.** Reading the PTY and noticing the end of its program is
  everybody's and nobody's job: a timer (`PollAll`), watchers, and each
  privileged controller's own wait. While a privileged client is in control the
  first two stand back. A controller that is gone but still recorded, or that has
  no wait, leaves the session unpolled for good.
* **What a connection knows.** `has_control_` is what a connection last knew;
  other handlers run in between and may have moved control.
* **The program runs beside the daemon**, also between two system calls of one poll.
* **Two clocks for one stream.** What was queued and what was delivered advance
  in different callbacks, while the buffer evicts what slow clients have not had.
* **The daemon may die anywhere**; the store is all that is left.
* **Failures of a part**: `kill`, `waitpid`, `dup`, `ioctl` and store writes fail,
  and some results are not looked at.

The full list, each at its line, is under `hazards` in `PROJECT.json`.

What makes each component correct: a session ends once and keeps its verdict;
processes and books agree; control moves only as host precedence allows; whoever
is in control polls, or somebody else does; observers get the stream in order and
completely; a restart tells the same story; a device stays trusted until the host
removes it, and none is trusted that the host was not told of; a relay
token is good once; stopping the server stops everything; a setting that was saved stays;
evidence and templates are what a client was told; every read for another session is
in the audit; the overview comes to show what the manager knows; a client that has control
comes to know it.

## Modules and the code they model

| Module | Models | State and actions |
|---|---|---|
| `SessionLifecycle` | `session_lifecycle.cpp`, `session_record.cpp`, `IsInteractiveStatus`, `NormalizeRecoveredStatus` | operators only |
| `SessionContract` | nothing in particular: what clients of a session may rely on | abstract specification: phase, holder and lane of each session |
| `SessionManager` | `SessionManager` with runtime, PTY process, log process, children and store | `entry` is `sessions_`, `child` the kernel's view of each process, `stored` the session store, `issued` the ids given out, `daemon` whether it is up; one action per method |
| `ControllerAttach` | the three kinds of connection, `SessionPump`, the REST calls, around one PTY session | `conn` are the connections (`has` = `has_control_`, `wait` = the wait on the PTY, `writing`, `closing` = `close_after_writes_`, `told` = `exit_event_sent_`), `control` the controller in the entry, `tty` and `child` the program, `watcher` the pump's watcher; one action per handler |
| `StreamDelivery` | the output path: `PollOnce`, `SessionOutputBuffer`, stream windows, write queues | bytes are numbered; `chunks`, `nextSeq` the buffer; `io` who has the io thread and where in `PollOnce` it is; `armed`, `ready` the waits; `conn` windows and queues |
| `Pairing` | `DefaultPairingService`, the pairing and trusted-device routes, `FilePairingStore` | `store` is the file (requests and devices; how many writes have failed, and whether one took the file away), `claims` and `rejected` the two maps in memory, `job` the approval under way; `past` and `verdict` record what the host and the requesters were told; one action per route, an approval cut at its writes |
| `LogSessions` | `ManagedLogProcess`, `LogBuffer`, the evidence queries of the session manager, around one log session | `program` is the program, a process it may leave behind, and what they wrote; `pipe`, `reader` the two pipes and threads; `buffer`, `open` the state of `LogBuffer`; `session` pid, status and whether the io thread is in `JoinReaders`; `completed` the history of lines; queries are operators |
| `ServerLifecycle` | `HttpServer::Run` and `Stop`, `EnableHubControlChannel`, `HubClient`, `HubControlChannel`, `RelayTokenStore`, the signal thread of `sentrits serve` | `at` is where the main and the signal thread are; `server` `stopping_`, the callback, the io context; `stopArgs` what `Stop` copied under the mutex; `control`, `bridge`, `client` the hub threads, `threads` is `bridge_threads_`, `tokens` the token store; one action per region under a mutex and per blocking call |
| `Supervision` | `PollSession`, `PollAll`, `BuildSummary` and the `Infer*` functions, the classification of terminal changes, `OverviewWebSocketSession` | `world` is the program and the workspace, `entry` and `age` the entry and its stamps, `polled` the intervals, `overview` the socket with its queue and last payload; one action per handler, poll and event |
| `HostConfig` | `host_identity.json` and everybody who changes it: `serve`, `POST /host/config`, `DELETE /host/records`, creation of sessions, `host set-hub` and `clear-hub` | `file` is the object on disk, `daemon` how far the start is, `launches` and `deleted` the history, `told` the settings somebody was told are saved; one action per writer, each with its failing save |
| `Evidence` | evidence queries, `EvidenceResponseAssembler`, `ObservationStore`, `FileStoredEvidenceStore`, prompt templates | `log` is what the queries read, `events` the store of observations, `sent` what was broadcast, `files` the two files of each snapshot, `task` the write or removal under way, `templates` the files; `asked`, `reads`, `told` record what clients were told |
| `AttachClient` | `AttachSession` of `daemon_client.cpp` over the observer WebSocket, the observer socket's commands and status events | `main` and `reader` are the two threads, `belief` is `stream_state`, `toServer` and `toClient` the connection, `session` and `socket` the server's side, `others` another client |
| `Environment` | `ResolveEnvironment`, the .env parser, `BootstrappedEnvCache`, `BuildShellModeCommand`, `BuildEnvp` | `cache` is `cache_`; `job` the bootstrap under way with its login shell, its pipes and a process that may hold them; `workspace`, `host` and `since` the files, the configuration and the profiles of the shells; `given` what the session just created was told and what its program got; parsing and layering are operators |
| `SessionManagerProofs`, `ControllerAttachProofs`, `StreamDeliveryProofs`, `PairingProofs`, `ServerLifecycleProofs`, `HostConfigProofs`, `EvidenceProofs`, `LogSessionsProofs` | [theorems](#what-is-proved) about the module of the same name; `ControllerAttachProofs` also has those about the client's side, `AttachClient`, and `LogSessionsProofs` those about `Environment` | their inductive invariants, and lemmas about its operators and steps |
| `MC*` | instances for TLC | |

`SessionManager` and `ControllerAttach` both implement `SessionContract`: the
first through a refinement mapping that also covers crash and restart (while the
daemon is down, a client would be told what the next daemon reads from the store),
the second step by step, for everything the connections do.

`ControllerAttach` and `StreamDelivery` look at one session, since no handler of
a connection touches another. They share what `SessionManager` establishes: the
PTY descriptor is open exactly as long as the session is interactive
(`OwnershipOK`, proved). `ControllerAttach` has no bytes, and its write queue is only empty or
not; `StreamDelivery` has bytes and queues and leaves the rules of control out.

Each handler is one action with all the manager calls it makes, because the io
thread does not interleave handlers. The exceptions: `PollOnce` in
`StreamDelivery` is cut at its system calls, since the program runs in between;
`RunBootstrap` in `Environment` at its waits, since the login shell does too; `ApprovePairing`, and in `Evidence` the creation and removal of a snapshot, at their writes, since the
daemon may die in between; the end of a log session at its join, since the readers run in
between. `ServerLifecycle` and `AttachClient` are about threads and cut at every mutex,
blocking call and message. Operators whose comment starts with "Mutant:" are faulty variants of the definition
that follows them; no specification uses them. They show that a property notices
the fault.

## What the runs check

| Run | Instance | Shows |
|---|---|---|
| `manager` | 2 sessions, 3 clients (2 privileged); kill and waitpid may fail | `ControllerOK`, `OwnershipOK`, `CrashSafe`, `ShutdownOK`; `TerminalIsFinal`; the contract through crash and restart; exits are noticed |
| `attach` | 1 local attach, 1 remote controller, 1 observer that may claim either kind; hosts where `resize`, `dup`, both or neither may fail | `NoControlLeak`, `DriverPolls`; every step is one of the contract; `ExitNoticed`, `ConnectionsClosed` |
| `stream` | an observer that reads, a remote controller that need not, a local attach; buffer of 2, output of 3 bytes, reads of up to 2 | `StreamBooks`, `InOrder`, `ViewersDelivered` |
| `pairing` | 2 pairings, 2 devices and the host's browser, a lifetime of 1 in a time of 0..3, 2 failing writes | `TrustLasts`, `NothingTrustedUntold`, `OneDeviceEach`, `VerdictIsFinal` |
| `logs` | 4 bytes (letter, `\r`, `\n`) over both pipes, reads of up to 3, limits of 2 lines and 1 byte | `LinesAsWritten`, `Retention`, `QueriesOK`, `NothingLost`; `EndNoticed` |
| `server` | 1 relay; listeners with TLS on, off or invalid; a hub address that can be parsed or not; one signal at any moment | `OneJoiner`, `QuietInTheEnd`, `OneUse`; `StopCompletes` |
| `supervision` | 4 sorts of terminal reads, 3 events and any number of changes of control, windows of at most 1 tick, 1 frame in the queue | `Converges`, `ChangesNoticed` |
| `config` | new launches and launches from records, 2 ports, 2 records kept of 3 launches, 4 changes or starts; every save may fail | `ConfigLasts` (with the identity of the host), `RecordsAreHistory` |
| `evidence` | 1 snapshot id, 2 actors, log of 3 lines of which 2 are kept, 2 observations kept, 3 requests or crashes; 1 template beside the defaults | `EvidenceAsTold`, `AuditComplete`, `TemplatesAsTold` |
| `client` | 2 terminal sizes; another client takes control once | `NoSilentControl`; `AttachEnds`, `SizeFollows` |
| `environment` | every mode with the files of the workspace or its own file and override; 2 shells, one with a profile that changes; 2 workspaces, 2 configurations; entries live 2 ticks, the deadline is 1, in a time of 0..3 | `EnvironmentAsTold`; `BootstrapReturns` |
| `config_stable` | `config` with launches that override a record | the disagreement [below](#where-the-code-and-the-documents-disagree) |

Why the bounds are enough.

* `manager`: sessions meet only in `PollAll`, `ClearInactiveSessions` and `Shutdown`, which treat
  them one by one: two show every mix. Three clients are a holder, a challenger and
  somebody without privilege.
* `attach`: every kind of connection once. The observer may claim as host or as remote, so
  each lane has a holder and a contender; a connection is used once, because a new
  one has a new client id. Which faults the host can have is chosen in the initial state.
* `stream`: the output exceeds the buffer, so eviction happens between any two steps;
  `TailMax` is smaller than the buffer, so a first picture is cut; `MaxPending` bounds the
  queue only for events that are not the exit event, output is never held back by it.
* `pairing`: two devices are what one request approved twice would make; a request made at 0 is
  live at 1 and expired at 2, so 0..3 has both sides of the boundary and room for a second
  request; two failing writes are a removal that fails and the failure to undo it.
  Pairings and devices are symmetric.
* `logs`: four bytes hold a split `\r\n`, a rewritten line, a line that follows one, three lines where
  two fit, and a line of two bytes where one fits, which evicts itself; a read of 3 takes all but one.
* `server`: one relay passes through every step of its thread while both callers of `Stop`
  are at any of theirs; bridges share only the token store, the thread list and the
  io contexts, which `Stop` treats one by one.
* `supervision`: three events are a change, another while the first is being noticed, and
  one that makes attention fade. A client takes and returns control as often as it likes, at any moment between
  polls. Time passes for ever, ages stop at one past their window.
* `config`: two records of three launches, so one is trimmed; four changes are a first start, a
  setting, a restart and another writer. Launches that override the command of a record are in
  `config_stable` only.
* `evidence`: three requests are two reads and the one that is wrong about them, or a creation,
  a removal and a crash between their writes; three lines evict one, three observations
  evict one. The actors are symmetric; only safety is checked.
* `client`: control starts with nobody or with a remote; the other client takes it once,
  as host or remote, and may give it back. The terminal only grows, one key is under way at a
  time, and the input and the session do not both end: more of these repeat a round of the main loop.

* `environment`: within 0..3 an entry is fresh at 1 and stale at 2, and a second bootstrap still ends; the profile changes
  once, before, during or after a capture. The files extend `PATH` twice, refer to a line before, to
  the other file and to nothing, quote a reference, and set a variable twice.

`MaxBytes`, `MaxPending`, `MaxTime`, `MaxFaults`, `MaxReads`, `MaxEvents`, `MaxFrames`, `MaxLaunches`,
`MaxChanges`, `MaxLines`, `MaxRequests`, `MaxOthers` and `Bridges` are the only bounds on otherwise
unbounded counters.

`NoControlLeak` and `DriverPolls` are stated for a host where resizing an open PTY
or `dup` does not fail: `EnsureControlForInput` (`http_server.cpp:2440`) forgets
control it was granted when the resize fails, and a connection whose `dup` failed
has no wait. `ExitNoticed` in `attach` says that nothing else can
leave the end of a program unnoticed. `CrashSafe` and `ImplementsContract` are for a
store whose writes succeed. `ConnectionsClosed` is about an attach that has its wait: one
whose session ended while the handshake was being answered has none and is left
to its peer. `ClearInactiveSessions` may remove a failed session that a daemon
just restored; that is what it is for.

The properties of `Pairing` say under which failures they hold. `TrustLasts` holds until a
write takes the file away (`file_stores.cpp:217`). `NothingTrustedUntold` survives one failing
write, not two: the write that should take the device back may be the second. A crash
between the writes of an approval leaves a device whose token nobody was given, which is
why `past.cut` is excepted. `VerdictIsFinal` and `OneDeviceEach` are for writes that work: a
rejection whose write fails is forgotten by a restart, and the request is pending again.

`LinesAsWritten` and `QueriesOK` compare the code, a state machine over characters and index
arithmetic, with definitions that say what lines, ranges and contexts are. `NothingLost` includes a
program that is killed. `EndNoticed` excepts a program that leaves a process with open
pipes behind: the io thread then waits in `JoinReaders` until that process ends.
Nothing else, and in particular not `log_mutex_`, can hold it there.

`StopCompletes` is about a signal that comes while the io context runs: `Run` resets `stopping_`
(`http_server.cpp:2571`), so an earlier one is lost. `QuietInTheEnd` excepts a `Stop` during the start
from one of its parts, with `stopArgs.started`. `ChangesNoticed` is about control that
in the end stays with the host, and `Converges` about control that stays with one of them. It is not enough for `ChangesNoticed` that
control comes back to the host again and again: files and git are not polled for a session that a
client drives, but `PollAll` resets the intervals all the same (`session_manager.cpp:2175`), so a client
that has control whenever a poll is due keeps a change from being noticed for good. `TemplatesAsTold` lets a deletion stand until the
template is saved again or no template is left, which is when the defaults may come back. `EvidenceAsTold` asks for readable content when all lines are UTF-8, and
excepts what is being removed. `SizeFollows` is about a client that no other client has ever
kept from control: one that gets it later does not send its size again (`session_runtime_and_pty.md:148` asks
for a resize command from a client that becomes controller). `EnvironmentAsTold` compares the code,
which patches a list of entries layer by layer and file by file, with the highest layer that has a
variable, the files taken as one. It excepts a log session in shell mode, whose program gets the
environment of the daemon, and says nothing against an empty capture of a shell that ended well without
printing. `BootstrapReturns` excepts `waitpid` after the pipes have closed, which has no deadline.

## Fairness

* `PollAll`/`DoPoll`: the maintenance timer rearms itself in every turn.
* Handlers of the io thread (`WatcherReadable`, `LocalReadable`, `RemoteReadable`,
  completions of local writes): the reactor runs what is ready. In
  `StreamDelivery` handlers are ready only between two turns, hence strong
  fairness; Asio's queue is first in, first out.
* Write completions: in `ControllerAttach` a peer reads or goes away sooner or later. In
  `StreamDelivery` only the peers in `Prompt` are known to read.
* Reader threads of a log session run, and get `log_mutex_`, which no step keeps; `join` returns when they have ended.
* `ServerLifecycle`: every thread runs, blocking calls to the hub return (connects by the
  kernel's time-out), and the io thread answers an upgrade while it runs. None for signals, requests of the
  hub, lost connections and the expiry of tokens.
* `Supervision`: the pump and the clock go on, the wait of a driving client polls, and the overview's
  peer reads what is written. None for what happens in the session or for giving control back.
* `AttachClient`: the two threads of the client run, the pump runs, and the server handles what arrived. None
  for the user, the other client and the connection.
* `Environment`: the io thread goes on with the bootstrap (`select` returns at the deadline), and time
  passes. None for the login shell and the process it leaves behind.
* No fairness for clients' commands, for the program, for crashes or restarts.

## What is proved

Eight modules have proofs. They hold for every value of the constants, also of those that only bound
a run (`MaxBytes`, `MaxRequests`, ...), under the assumptions named in the modules and the hypotheses that stand in the
theorems. Every safety property that a run checks is a theorem; the ten modules they are about are all but
`Supervision`, whose properties are about what eventually happens.

| Module | Theorems | Statement |
|---|---|---|
| `SessionManagerProofs` | `TypeCorrect`, `ControllerSafe`, `OwnershipSafe`, `CrashIsSafe`, `ShutdownIsComplete` | `[]` of `TypeOK`, `ControllerOK`, `OwnershipOK`, `CrashSafe`, `ShutdownOK` |
| | `TerminalStaysFinal`, `RemoteIsSafe` | the action properties `TerminalIsFinal`, `RemoteNotStolen` |
| | `ContractKept` | `ImplementsContract`: the refinement, if `~StoreCanFail` |
| `ControllerAttachProofs` | `TypeCorrect`, `ControlDoesNotLeak`, `DriverAlwaysPolls` | `[]` of `TypeOK`, `NoControlLeak`, `DriverPolls` |
| | `ContractKept` | `KeepsContract`: every step is one of the contract |
| | `ClientTypeCorrect`, `ControlIsNeverSilent` | `[]` of `ClientTypeOK`, `NoSilentControl` (`AttachClient`) |
| `StreamDeliveryProofs` | `TypeCorrect`, `BooksAreKept` | `[]` of `TypeOK`, `StreamBooks` |
| | `StreamInOrder` | the action property `InOrder` |
| `PairingProofs` | `PairingTypes`, `TrustIsSafe`, `UntoldIsSafe`, `OneDeviceIsSafe` | `[]` of `TypeOK`, `TrustLasts`, `NothingTrustedUntold`, `OneDeviceEach` |
| | `VerdictIsSafe` | the action property `VerdictIsFinal` |
| `ServerLifecycleProofs` | `TypeCorrect`, `TokensAreUsedOnce`, `JoinersAlternate`, `StopLeavesNothing` | `[]` of `TypeOK`, `OneUse`, `OneJoiner`, `QuietInTheEnd` |
| `HostConfigProofs` | `ConfigIsKept`, `RecordsStayHistory` | `[]` of `ConfigLasts`, `RecordsAreHistory`, if `BodiesAreSound` |
| `EvidenceProofs` | `EvidenceStaysAsTold`, `AuditIsComplete`, `TemplatesStayAsTold` | `[]` of `EvidenceAsTold`, `AuditComplete`, `TemplatesAsTold` |
| `LogSessionsProofs` | `TypeCorrect`, `NothingIsLost`, `LinesAreAsWritten`, `RetentionHolds`, `QueriesAnswer` | `[]` of `TypeOK`, `NothingLost`, `LinesAsWritten`, `Retention`, `QueriesOK` |
| | `EnvironmentIsAsTold` | `[]` of `EnvironmentAsTold` (`Environment`) |

In each the argument is the same: an inductive invariant holds initially, every step keeps it (one lemma per
action or group of actions), and it implies the property. What follows is what each
invariant adds to the properties, and why they are not inductive without it.

### Sessions

`SessionManagerProofs`, for any sets `Sessions`, `Clients`, `Privileged`, with or without
failing store writes and failing `kill`/`waitpid`. The only assumption is
`ManagerAssumption`: privileged clients are clients, and `NoClient`, `NoRecord` are
none of the values they stand beside. `ControllerSafe` is why the dereference of
`controller_client_id` at `session_manager.cpp:1989` is safe. `RemoteNotStolen` is part of what
`ImplementsContract` checks, and has no run of its own.

The inductive invariant is `IInv`: `TypeOK`, `ControllerOK`, `OwnershipOK` and
`BooksOK`. The last is what the others lack: ids not yet issued have left no
trace (or `CreateSession` could meet a child or a record of its own id), an entry between two
handlers is interactive or ended (or a poll's `TryTransition` could be refused and the
pid kept), an entry without a process object has ended (or `OwnershipOK` would
ask for its pid), and a daemon that is down has neither entries nor children.
`PollEffect`, `ShutdownEffect` and `StepShape` say once what a poll, a shutdown and a step do to an
entry.

`CrashSafe` and `ShutdownOK` are about the store as well, and need `RecordsOK`: with writes that
succeed, the record of a PTY session is there and, once the session has ended, says how. `RecordStep` says
what a step does to an entry together with its record, which is the same for all actions that end in
a persist. `StoreInv` is the whole.

The refinement maps an entry, or while the daemon is down its record as the next daemon reads it, to the phase of the session, its
controller and the kind of it. `PhaseShape` gives what a step does to the phase, in or out of a crash: a crash ends the live sessions
in the story (a PTY session reads as exited, a log session as gone) and leaves the others, by `RecordsOK`, and a restart is a
stutter. `StepShape` gives what it does to control. With a store that may fail the refinement does not hold, since a crash may
take an end back, so `~StoreCanFail` is a hypothesis.

### Connections

`ControllerAttachProofs`, for any sets of attaches, remote controllers and observers that have no member in common, and any
of the two faults. `NoControlLeak` and `DriverPolls` are local to a connection once two things are added: a
session that is gone has no controller (a connection closed for that reason has nothing to
give back), and a connection not yet served has nothing. Every action is then one `SessionMove` and `ControlMove`, and
an `ActorMove` of one connection that leaves the others alone; only `NotifyMove` changes them all. `KeepsContract` follows from the moves.

### The stream of output

`StreamDeliveryProofs`, for any number of observers, any capacity of the buffer, any read and tail sizes.
The properties speak of the queue of a connection and of the buffer apart from each other; what relates them is
that a connection is *at* a byte of the stream (`IsLast`, `IsAt`): the last byte it was queued, which is where the chunk before its
`reserved` sequence ends, or that chunk has been evicted. `RunOK` says that the buffer is an unbroken run, from its end, where
`Append` works; `QueueOK` and `Window` that queues rise and end at what is reserved; `DriverWaits` that the remote
controller's wait and turn do not outlast its connection (or its `SendPendingOutput` would queue for one
that is closed). `AppendKeeps`, `SliceIs`, `TailIs` and `QueueFramesIs` are the facts about `Append`, `SliceFromSequence`, `Tail` and
`QueueFrame` that the proofs rest on; sizes are cardinalities of sets of bytes, so eviction needs no recursion.

### Pairing

`PairingProofs`, for any sets of pairings and devices, any lifetime of a request (also none: `Ttl`
of zero or less) and any bounds. `PairingAssumption`: the host's browser is not one of the
devices, and the bounds are numbers.

The inductive invariant `PInv` adds to them: `IdsOK` (ids are issued once, and whatever names
one names an issued one; or a new device could already be somebody's), `JobOK` (an
approval under way has its device in the file and in nobody's hands, so taking it
back breaks no trust), `UntoldOK` (`NothingTrustedUntold` also while an approval is under way),
`RequestGone` (the request of a trusted device is gone, or it could be approved again) and
`VerdictOK` (behind a final verdict there is no claim and no request that has not
expired, so no restart can bring the pairing back). `Shrunk` says what failing writes and removals can
do to the file. That the set of requests is finite is part of the invariant because the expired ones are counted.

### Starting and stopping

`ServerLifecycleProofs`, for any set of relay requests. `SignalFirst` is the key: whatever ends the io context, and so
lets `Run` go on to its own `StopHub`, is the last thing the signal thread's `Stop` does; from it `OneJoiner` follows.
`StoppedBy` says what is gone for good once a thread has come to a point of the hub's `Stop`, and `MainOK`, `StartedOK` and `CallbackOK` apply
it to the main thread, to a `Stop` that found everything started, and to the sessions. `ThreadsKnown` (a bridge that runs is
in `bridge_threads_`) is why joining the list leaves none. `RelayOK` and `OneUse` need no more than that a bridge is named by its request.

### The host's configuration

`HostConfigProofs`, for any names, ports, bodies and `MaxLaunchRecords > 0`. Both theorems have the hypothesis `BodiesAreSound`,
which the code does not enforce:

* no request that launches a record gives a command of its own. Without it the theorems are false, which is
  what the run `config_stable` shows;
* no port is 0. `sentrits serve --admin-port 0` accepts and saves it (`main.cpp:1300`), and the loader rejects the file
  (`file_stores.cpp:694`).

`SaveLoads` is the lemma behind both: what was saved under the hypothesis is accepted by the loader and gives the same identity.
`RecordsAreHistory` needs `Ordered` in place of decreasing ids: two records are at least as many launches apart as places. Only that
gives that a record which is trimmed has had `MaxLaunchRecords` launches after it, also when records between were deleted.

### Evidence, audit and templates

`EvidenceProofs`, for any ids, actors, lines, limits and templates. `EvidenceAsTold` needs `ToldOK`: the metadata of a
snapshot, which is what makes it visible, is not there before the content is, nor while the answer is open; and `TaskOK`, how far the
request under way has come. `AuditComplete` counts the reads that are no repeated tails; `AuditInv` adds that the last
read is what was sent last (also when it was not sent, because it repeated that), and `IsEndOf`: the store is the end of what
was sent, so comparing with its last event is comparing with the last read. `TemplatesAsTold` needs `DeletionsStand`: while a
deletion stands there is another template, so nothing is seeded.

### The client

The second half of `ControllerAttachProofs` is about the other end of the connection, `AttachClient` (whose specification is `ClientSpec`, so that one module can extend both), for terminal sizes that include the two that the model starts with and grows to. `LastTold` says that
the last update under way, or, if there is none, the belief, is what the server told last; with `StopSaid` (a thread that takes
no events any more has said so first) a quiet connection leaves no difference between belief and session, and `BeliefOK`
closes the argument: somebody of the client's own kind in control is taken for the client itself.

### Log sessions

`LogSessionsProofs`, for any read size, any two limits (0 is none) and any number of bytes, from `LogAssumption` alone. The inductive
invariant `Inv` has four parts besides the types:

* `Threads`: a reader ends at the end of its pipe with nothing in its hands, and the session after both readers. This gives `NothingLost`.
* `StreamFlows`, per stream: what was written is what was appended, then what the reader holds, then what is in the pipe.
* `Told` and `Settled`, in it: the lines completed so far are those that the appended bytes should give, and so is the partial line with `pending_cr`. This
  is not inductive within `Append`: between a carriage return and what decides its meaning the partial line may hold what the definition
  has given up or the other way round. `Underway` is what a round of the loop keeps instead; `Going` puts the parts of a round together (`RoundGoes`, `RoundOther`),
  and at the end of the data `Underway` is `Settled` again.
* `Kept`: the entries are the end of the lines, numbered, with their bytes on the account, within the limits, and one more would not be.
  `EvictedIs` and `CompleteKeeps` are the facts about `EvictIfNeeded` and `CompleteLine`; `Retention` and `QueriesOK` follow from `Kept`.

What a loop computes needs an induction over data. No prover can instantiate an induction theorem that has an operator parameter, so
`SetInduction` states it for a set of numbers that has 0 and with each number the next, and its proof (`LeastNat`) takes a least number outside from the well-foundedness of
the naturals. `RoundsExist` uses it to show that the recursive function of `AppendData` exists and does in each place what its
definition says; `LoopGoes` to carry `Going` through the rounds; `Sum` to add up bytes.

`QueriesOK` is about limits of 0 to 2, any range and any revision, as checked by the run.

### Environments

The second half of `LogSessionsProofs` is about `Environment` (whose specification is `EnvSpec`), for any requests, workspaces, configurations,
profiles and times. Its assumptions say what the code guarantees of these: a file is a sequence of lines and the workspace
knows the two default files and any that is asked for (`WorkspacesAssumption`), kinds and modes are those of the
enumerations (`RequestsAssumption`), the shell that is configured is one that is there (`ShellsAssumption`), times are positive (`TimesAssumption`).
The theorem has two parts.

* What the layers come to. `ParseEnvFileIs` shows that the parser's recursive function exists and gives each line what it stands for, by
  induction over the lines as above (`ValuesExist`); `AssignmentsAre` what the file sets in the end. `JoinedAssignments` is the
  step that is not obvious: reading `.env.in` and then `.env` over its result gives the same as reading one file with the lines of
  both, since a reference to a line of the first file finds it either way. With `FilesAreOneLayer`, `LayersAre` (the highest layer that
  has a variable gives value and source) and `BaseEntriesAre` this is `ResolvedAsExpected`.
* When the shell printed it. `EnvInv` adds that a bootstrap under way has printed nothing, or what the shell prints since some moment not before the start
  (`JobOK`), and an entry of the cache the same of its `captured_at` (`EntryOK`). The entry is stamped with the start of the bootstrap and not with
  its end, and that is what is needed: the profile may change while the bootstrap runs (`PrintedStays`), and a later request is
  measured from before anything was printed (`PrintedIsRecent`).

Proving it turned up a `CASE` in the model whose arms overlapped (a PTY session in a mode other than shell), where the
choice is not determined; `BuildEnvp` now says which arm it is.

### Only model-checked

* Liveness under fairness, and what rests on `ENABLED`: `ExitNoticed`, `ConnectionsClosed`, `ViewersDelivered`, `EndNoticed`, `StopCompletes`,
  `Converges`, `ChangesNoticed`, `AttachEnds`, `SizeFollows`, `BootstrapReturns`. They are out of the prover's reach.
* `Supervision` has only liveness properties.

## Where the code and the documents disagree

One disagreement has a run that shows it:

* `config_stable`: launching a record of a shell command again with an explicit `argv` (or the
  other way round) saves a record with both, which `ParseLaunchRecord` rejects, and with it the
  whole of `host_identity.json`. The next start makes a new identity and the paired hub, the settings and
  the records are gone, although `hostId` "is generated once on first runtime boot"
  (`api_and_event_schema.md:37`).

Others the models have as behaviours, or had to be stated around:

* What a program writes between the last empty read and `waitpid` of one poll (`session_runtime.cpp:203`) is
  lost, although PTY output should not be dropped "before it enters the session ring buffer"
  (`design_details1.md:246`). `StreamDelivery` has the step.
* The .env variables and overrides of a log session in shell mode, the default, are shown by
  `GET /sessions/{id}/env` and never reach its program (`session_manager.cpp:1150`), although "Session overrides
  always win" (`environment_management.md:94`).
* The bootstrap of an environment has a "Hard timeout: 5 seconds" (`bootstrapped_env_cache.h:42`), which does not cover
  the last `waitpid`; "Call Invalidate() on SIGHUP" (`:38`) never happens.
* In shell mode `PATH=x:$PATH` in a .env file becomes `x:`, because the file is expanded over an empty base.
* A log session is not stored when it is created, although a "daemon restart restores session
  records" (`implementation_plan.md:193`).
* REST input is not asked for control, and a displaced remote controller may still resize,
  although "only one active controller may send terminal input" (`api_and_event_schema.md:456`).
* Output that another wait has read reaches the remote controller only with the next output,
  although it is "the privileged low-latency controller lane" (`api_and_event_schema.md:301`).
* During the start of the hub parts, `Stop` may shut sessions down before the hub is
  stopped (`http_server.cpp:2754` says it is the other way round).
* Only the last read of a poll decides whether output was meaningful
  (`session_attention_inference_v1.md:258`).
* A client that gets control back does not send its size again (`session_runtime_and_pty.md:148`).

## What is not modelled

Screen contents and the terminal emulator (`Supervision` has the features its classification
looks at); viewports; wording and layout of events, JSON and logs; the order of environment entries and
the characters of their values; a `select` that fails during a bootstrap for another reason than a signal; file and git queries; input over REST; the other commands of the command line client, which are one HTTP
request each, and its attach over the Unix socket (the server's side is in `ControllerAttach`); the probe, frontends and
packaging. The JSON of session records and pairings is modelled as records that are written whole or not at all, which is
what writing to a temporary file and renaming gives as long as the disk takes all of it;
`Pairing` also has the file that is lost because the rename over it fails twice. Wrong pairing
codes only appear as refusals, random ids never repeat, and the clock does not go back. The `kqueue` reactor, which may deliver
a completed wait after it was cancelled, is not modelled.

Risks that were met on the way and that no property reaches, because what they are about is
abstracted: queues of clients that do not read grow without bound (`http_server.cpp:735`, `:441`); `good()` is
asked before a file is flushed (`file_stores.cpp:206`); one record that cannot be parsed rejects the whole
file of sessions (`file_stores.cpp:1103`), and store errors are ignored (`:1207`); an enormous `after` wraps
(`log_buffer.cpp:139`); `Stop` uses an io context that `Run` may have reset (`http_server.cpp:2769`); blocking
hub calls have no time limit of their own (`hub_control_channel.cpp:172`) and finished bridges and expired tokens
are never reaped (`:381`); bridges take TLS from the command line alone (`http_server.cpp:2786`); `--admin-port 65536`
becomes 0 (`main.cpp:1300`).

## Plan

In this order; all of it is done.

1. `SessionLifecycle`, `SessionContract`, `SessionManager`, with proofs.
2. `ControllerAttach`: control and polling across connections.
3. `StreamDelivery`: buffer, windows, delivery.
4. `Pairing`: requests, approvals, claims and the file across crashes, with proofs.
5. `LogSessions`: reader threads and `LogBuffer` against a reference definition of lines.
6. `ServerLifecycle`: `Run` and `Stop`, hub threads, relay tokens.
7. `Supervision`, `Evidence`, `HostConfig`, `AttachClient`, `Environment`.
8. Proofs of the safety properties of `SessionManager`, `ControllerAttach`, `StreamDelivery`, `Pairing`, `ServerLifecycle`, `HostConfig`,
   `Evidence`, `AttachClient`, `LogSessions` and `Environment`, and of both implementations of `SessionContract`.
