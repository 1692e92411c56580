# RuntimePulse: a formal model

RuntimePulse resumes coding agents when something happens at run time: watchers observe
services, files and containers, an event that matches a rule makes a continuation, and a
dispatcher runs the continuations of each agent session one at a time. This directory
holds TLA+ models of the parts where that promise is decided, TLC runs that check them on
small instances, and TLAPS proofs for instances of any size.

Run a check with `tlc -config X.cfg M` and a proof with `tlapm M.tla`; `PROJECT.json`
says which configuration belongs to which module, which source lines each definition
models, and for every property a plausible bug (a `Mutant` definition next to the original)
that breaks it.

## 1. The system

| Part | Source | State it keeps | Operations that change it |
| --- | --- | --- | --- |
| store | `internal/store` | SQLite tables of sessions, rules, events, continuations, watches | one method per operation; `Ingest`, `ClaimContinuation`, `ResetRunningContinuations`, `Sweep` are the delicate ones |
| core types | `internal/core` | none | selector matching, rule activity, prompt rendering |
| dispatcher | `internal/dispatch` | `workers` map, wake channel of capacity 1, one goroutine for each busy session | `Run`, `scan`, `worker`, `execute`, `emitResult` |
| engine | `internal/engine` | none | `Ingest`: assign an id, commit, publish, notify |
| daemon and RPC | `internal/daemon` | the process, its lock and socket, connection handlers | boot, sweeper, shutdown, the RPC methods |
| agent adapters | `internal/adapter` | a child process for each resume | start, end, kill by timeout or shutdown |
| watch manager | `internal/watch/manager.go` | map from watch id to handle, one goroutine for each watch | `Run`, `Start`, `Stop`, the goroutine's clean-up |
| watchers | `internal/watch` | belief, pending change, debounce timer, last event | `RunPoller`, `RunFileWatch`, `RunDockerWatch`, `RunGitWatch` |
| bus and streams | `internal/bus`, `internal/wsserver` | subscribers with bounded channels | subscribe, publish, drop |
| client and auto-start | `internal/client`, lock and socket of `internal/daemon` | lock file, socket file | find or start a daemon |
| workflow, apply | `internal/workflow`, `cmd_apply.go` | none | add rules one by one, roll back |
| agent set-up | `internal/setup`, `cmd_setup.go` | configs and instruction files of the agents | register the MCP server, merge a marked block |
| MCP server, command line | `internal/mcpserver`, `cmd` | none | translate into RPC calls |

How they interact. RPC handlers and watcher goroutines call `Engine.Ingest`, which commits
an event together with the continuations of the rules it matches and then sends a token on
the wake channel. The dispatcher's loop takes the token, reads which sessions have pending
work, and starts a worker for each session that has none; a worker claims, runs and records
continuations until its session has no more, emits a result event for each (which can match
further rules: chains), deregisters and wakes the loop. The sweeper deletes old rows beside
all this. The database has a single connection, so every store method is atomic and nothing
between two of them is. After the commit an event is also offered to the bus, whose
subscribers are the connections of `events.follow` and of the WebSocket server. Every client
(a command, an MCP server) first makes sure that there is a daemon, and starts one if not.

What is hard. Everything between two store calls is an interleaving: the snapshot of a scan
and the map it is compared with, the exit of a worker and the arrival of new work, the check
and the insertion of a manual continuation, the two halves of `watch.add` and of
`watch.remove`. The daemon can be stopped or die anywhere, its children live on, and only
the tables survive. Store calls can fail and most failures are only logged. The sweeper
compares timestamps that the other parts update or forget to. `PROJECT.json` lists these
hazards one by one under `hazards`, with the property that would catch each going wrong or
the reason why none does yet.

What makes each part correct:

- *dispatcher*: one worker for a session; a claimed row belongs to its worker; no wake-up is
  lost; every pending continuation is settled; shutdown ends.
- *store*: a oneShot rule fires once; order within a session; retention touches nothing that
  is still needed.
- *daemon*: a restart recovers what was interrupted and repeats nothing that was settled.
- *watch manager*: the map is exact; what is persisted is watched.
- *watchers*: flaps are suppressed, lasting changes are not; after a burst the watcher is
  right; stopping a watch is not an outage.
- *streams*: nothing is missed between the answer and the subscription; a match that was read
  is returned; a wait ends; the bus forgets a client that has gone.
- *start of the daemon*: one daemon at a time has the store; the one that serves is the one
  that clients reach; a client gets one in the end.
- *apply*: a workflow is added as a whole or not at all.
- *set-up*: what is not ours stays, over interrupted and repeated runs; one agent's failure is
  not another's.

## 2. The modules

| Module | Models | Kind |
| --- | --- | --- |
| `Store` | the tables and every method that writes sessions, rules or continuations | operators, one per store method |
| `Dispatcher` | the loop and the workers over `Store` | actions |
| `Daemon` | handlers, sweeper, clock, process over `Dispatcher`; the specification and its properties | composition |
| `ContinuationQueue` | what the daemon promises about continuations | abstract specification |
| `WatchManager` | watches table, manager map, `watch.add`, `watch.remove`, goroutines, boot and crash | component |
| `Poller`, `FileWatch`, `DockerWatch`, `GitWatch` | the watchers | components |
| `Lifecycle` | daemon processes, their lock and socket file, the clients that start them | component |
| `EventStream` | `Engine.Ingest`, the bus, both stream handlers, `Client.Follow`, `wait_for_event` | component |
| `Apply` | `workflow.Parse`, `apply`, `rule.add` and `rule.remove` as it sees them | component |
| `Setup` | `setup`: registration, both merges, atomic writes, the user's edits | component |
| `MCDaemon`, `MCWatchers`, `MCClients` | small instances | for TLC |
| `DaemonProofs`, `WakeUpProofs`, `OutcomeProofs`, `QueueProofs` | theorems about `Daemon` | for TLAPS |
| `WatchProofs`, `WatcherProofs` | theorems about the watch manager and the watchers | for TLAPS |
| `ClientProofs`, `SetupProofs` | theorems about `Lifecycle`, `EventStream` and `Apply`; about `Setup` | for TLAPS |

### Daemon = Store + Dispatcher + handlers + process

State. `session`, `rule`, `cont` are the tables, as functions from ids to rows. The events
table is reduced to `results`, the number of result events of each continuation, because
nothing else reads it back. An id is in the state "unused" or "unadded" before its row is
inserted: ids are random and never used again. `loop`, `snapshot`, `wake`, `workers`,
`worker` are the dispatcher's goroutines, channel and map; a goroutine is where its `pc`
says. `call` is what each connection handler or watcher is in the middle of. `cancelled`
is `ctx.Err() # nil`; a shutdown closes the listener only, so that the connections that are
open and the watchers go on (`Serving`) until the process has ended. `orphans` are the agent
processes that outlive their daemon.

Actions. One action for each store call, lock section, channel operation or select case, so
that everything else can happen in between; for instance `execute` is `WorkerLookup`,
`WorkerMark`, `WorkerResume`, `AgentEnds`, `WorkerUnmark`, `WorkerRecord`, `WorkerEmit`,
`WorkerNotify`, and `continuation.run` is a look-up, a reading of the clock, an insertion and
a wake. Every store call may fail (`StoreFails`, at most `MaxErrs` times), and the action then
does what the code does about it, which is mostly to log and go on. `Crash` ends the
process at any moment and also stands for `Close` giving up on the dispatcher after ten
seconds; `Shutdown` cancels the context, and `Exit` follows when the workers have drained.

Abstractions.

- A prompt is the set of payload keys its template needs (`needs`); an event carries a set
  of keys. A template whose keys are missing does not render, and the continuation is born
  failed (`Born`).
- Two clocks: `tick` orders `created_at`, `day` counts retention windows. `created_at` of a
  manual continuation is read before its insertion, as in the code, so a manual row can be
  older than a row that was inserted before it.
- Days pass only while there is no daemon or nothing to do (`Quiescent`): the safety tick
  (5 seconds) and the resume timeout (30 minutes) bound how long a running daemon is busy.
- Ties of `created_at` are broken by a random id, so any of the oldest rows may be next.
- `updated_at` of a continuation is kept for terminal rows only; the sweep compares no other.
- The engine gives every event a fresh id, so the `INSERT OR IGNORE` of `Ingest` never
  ignores; `Bus.Publish` does not block and changes nothing that is modelled.
- A session is registered with an agent from `Registrants` and a state from `Given`, any
  strings as in the code. Registering it again keeps its state. `astray` remembers the
  sessions that were registered as running, or with an agent that has no adapter: nothing
  but a run sets a session back, and for such an agent `execute` fails before it could.
- A child process that the daemon starts is one of three outcomes: it does not start, it
  succeeds, it fails; its output is left out.

`ContinuationQueue` says what remains when goroutines, snapshots, tokens and crashes are
taken away: rows are enqueued, start one at a time in each session and in order, finish,
are put back by a restart and are forgotten. Order is promised between the continuations
that rules make. A manual one may overtake, as its stamp is older than its row.

### WatchManager

`row` is the watches table (unique on type and target), `running` the manager's map,
`goroutine` the goroutines by handle, `call` the two RPC calls. `watch.add` is three steps
(insert or ignore, select, start) and `watch.remove` three (take the entry out of the map,
cancel, delete the row), as locks and store calls divide them. The store calls can fail, the
list at boot among them (`RunFails`); `left` remembers the rows that a failing SELECT or
DELETE has left in the table without attending to their watcher. A goroutine goes through
`wrap` and `emit` (the check for a cancelled context, then the engine), `watch`, and its
deferred clean-up. `Fragile` are the targets whose watcher can return an error, `owed`
remembers which `watch.add` was promised an initial state.

### The watchers

`Poller` is `RunPoller` with the wrapper that the manager puts around `emit`. The tick, the
probe's return and what is made of its answer are three steps (`Tick`, `ProbeReturns`, `Poll`),
so that the watch can be stopped in a probe and after it. Time passes in
amounts from `Gaps`; ages are kept up to the threshold, since the code only compares them
with it. `FileWatch` is `RunFileWatch` over an external file system and fsnotify: a change
under an armed watch queues an event, the end of the directory queues one and disarms the
watch (fsnotify 1.10). `Timer.Reset` drops a tick that nobody took (Go 1.23 and later; the
module asks for a later one). `DockerWatch` is `RunDockerWatch` over an external docker: the
stream carries events from the moment docker has subscribed, its end can lose lines, and an
inspection can fail. A `kill` line announces a signal, which need not end the container.
`GitWatch` is `RunGitWatch`: events are `HEAD`, `ref` or `other`, by the file they are about;
`recent` and `near` are the two comparisons with the debounce that matter, of the last event
and of the last reported branch. The branch is read when the event is handled, not when it
was queued.

### Lifecycle

`proc` is where each daemon process is between `New` and the end of `Close`, one step for
each system call that others can see; `lock` and `path` are the lock file and the socket file,
with their owners. A socket file whose process has died is `Stale`. Binding and listening are
two steps, as the comment on `acquireLock` says they are, and the probe and the unlinking of
a stale socket are two. Serve's end for any other reason than a signal takes the same way
through `Close`. A client is in `EnsureDaemon`: `Ping`, `NoAnswer`, `StartDaemon`, the polls,
`GiveUp`. `Fault` bounds deaths, signals, failing system calls and missed deadlines.

### EventStream

An ingest is `Commit` and `Publish`, so two of them can publish in the other order. `sub` is a
stream's place in the bus with its channel, `conn` the handler goroutine and what it has
written, `reader` the client. Notes on the wire are read in order; a write blocks on a full
wire and fails on a closed one. `Expire` is the timeout of `wait_for_event`, `CloseConn` the
goroutine that closes the connection when the context is done; after it the decoder may still
hold a note (`ReadEvent`) or fail (`ReadFails`). `ContextDone` may come at any time, although
the code has it for all WebSocket streams at once. `events --follow` is the same stream with
neither timeout nor match.

### Apply

A file is its steps with label, type and prompt. `SendAdd` and `ReadAnswer` are a call;
`NoReply` is its deadline or a broken connection, after which the daemon may still commit
(`RuleAdded`). `adrift` remembers the steps that apply could not know of or not remove.
`RuleAddAccepts` is what `ruleAdd` demands of the same step.

### Setup

A config is what a merge distinguishes: absent, an object, the value `null` or not JSON; other
keys; text after the first value; the section of the servers; its servers. On `null` the
merge panics and the command dies (`Panic`). An instruction file is a sequence of
lines: the two markers, a body of this or of an older release, lines of the user. The user
edits between runs and an agent's CLI may disappear during one. `EndSetup` is the end of a
run and its interruption at any point. Files are written to a temporary file first
(`WriteConfig`, `WriteRule`) and renamed (`RenameConfig`, `RenameRule`); a failure of any part
of `atomicWrite` is the second disjunct of the rename.

## 3. The runs

| Run | Configuration | Instance | Shows |
| --- | --- | --- | --- |
| `daemon` | `Daemon` | 1 session, 3 continuations, 2 rules, 2 workers, 1 caller, 2 stimuli, 1 stop, 1 long pause, an agent without adapter | `TypeOK`, `WorkerExclusion`, `NoLostWakeUp`, `ResultAtMostOnce`, `OneShotFiresOnce`, `RunningSessionIsOwed`, `HeldRowIsRunning`, `ArmedSessionExists`, `ImplementsQueue` |
| `wakeups` | `DaemonWakeUps` | 2 manual continuations, 2 workers, 1 stop and 1 failing store call | `WorkerExclusion`, `EveryWakeUpSettles`, `SessionComesBack`, `ShutdownEnds` |
| `watching` | `Watching` | 2 targets, 2 ids, 3 handles, 2 handlers, 1 stop, 1 failing store call; threshold 3 with gaps 1 and 2; queues of 6, 5 and 4; 2 branches | `TypeOK`, `WatcherKeepsItsEntry`, `EntryIsLive`, `RowIsWatched`; `StableIsBelieved`, `FlapSuppressed`, `StopIsNoOutage`, `FileConverges`, `ChangesReported`, `DockerConverges`, `LoneSwitchReported` |
| `clients` | `Clients` | 2 processes, 2 clients, 3 faults; 2 ingesters, 2 events, 2 streams; files of 0 or 3 steps; 2 agents | see below |

`clients` checks the four parts around the daemon:

- `Lifecycle`: `OneDaemon` (who has passed the lock has the store alone), `ServedIsReachable`
  (no clean-up of an earlier daemon and no stale-socket check takes the socket of one that
  serves), `CommandIsServed` (every client gets a daemon in the end);
- `EventStream`: `NoSilentGap` (after the answer every event arrives, in the order of the bus,
  unless the channel was full), `MatchIsKept` (the first match that was read is returned),
  `WaitEnds`, `HungUpIsUnsubscribed`;
- `Apply`: `NoHalfWorkflow`, `ParsedIsAccepted` (the daemon refuses nothing that `Parse` let
  through);
- `Setup`: `GuidanceKeepsText`, `ConfigKeepsRest`, `EveryAgentServed`.

The run `daemon` shows that the dispatcher, over its handlers, its sweeper, crashes and shutdowns, keeps
every pending continuation covered, runs them one at a time and in order, and keeps what
retention must keep. `wakeups` shows that what is promised comes, with a stop and a failing
store call in one behaviour, in either order. `watching` shows first that the table, the map
and the goroutines of the watch manager agree, then what each watcher reports.

Eight more runs end in a counterexample on purpose (section 4).

Why the bounds are enough for the questions asked.

- *Conts*: three rows let a chain of two rules and a manual continuation, or two events,
  meet in one session, which is what order and exclusion need. Two suffice for `wakeups`.
- *Sessions*: one; sessions meet only in the scan's snapshot and in the map, and a single
  one contends for everything that is shared. The proofs have no such bound.
- *Workers* is a pool of identities: a session can have one live worker and one between
  deregistering and its last wake, hence two. When none is idle a scan waits for one.
- *MaxStimuli* bounds injected events and manual continuations, *MaxStops* crashes and
  shutdowns, *MaxDay* retention windows, *MaxErrs* failing store calls. One stop is enough
  to leave each kind of unfinished work behind, and recovery starts from there.
- *SessionIdle*, *ContinuationAge* are 0 days, so that a single pause passes both.
- *Handles*: one watcher, its successor and one more that a restart makes; *Ids* are never
  reused, so a target can be added, removed and added again.
- *MaxQueue*, *MaxLines* stop the file system and docker when a queue is full: a full queue
  is several bursts long.
- *Threshold* is no multiple of one of the gaps, so that being late and being exact differ.
- *MaxErrs* is 0 in `daemon`, whose instance is too large with a failing call as well: what
  fails there is the subject of `wakeups`, and of the proofs, which bound no failures.
- *DayOrDays* (the constraint of `daemon`) keeps two halves of the run apart. Within one
  retention window: two out of a second stimulus, a chain of two rules and a stop. Over a
  window, with one stimulus and one rule: two out of a stop, the window's passing, a session
  that goes astray, and the rule's expiry or removal. What the sweep deletes is decided for
  each row by itself, so that one of each is enough.
- *FaultsOrStimuli* (the constraint of `wakeups`): a stop and a failing store call, in either
  order, with one stimulus; one of the two faults with two stimuli. A behaviour that is cut
  has a continuation more than one that is checked. A constraint cuts what leaves it for good,
  by a step that no fairness asks for, so the liveness properties are checked on all
  behaviours that stay within it.
- *WatchesOrErrors* (the constraint of `watching`): a store call fails only while there has been
  one watch. A call that fails concerns the one target it was made for.
- *Procs*, *Commands*: a daemon that drains beside one that starts, each of another client;
  three *MaxFaults* let one die, its successor be stopped, and a deadline be missed.
- *Buffer*, *MaxWire* are 1 (the code: 64 and the kernel's), so that full and empty are one
  event apart; two events fill the channel behind a handler that is blocked.
- *MCFiles*: three steps, with the labels that collide with a default one among them; *MCDocs*,
  *MCConfigs* have one file of each kind that the merges tell apart; *MaxEdits*, *MaxDoc* keep
  files finite, and one edit makes each kind of stray marker.

The manager and the watchers share nothing but the wrapped `emit`, which both have, so in
`MCWatchers` a behaviour is one of any one of them; so do the parts of `MCClients`, which share
no more than the daemon that they call.
`MCDaemon` declares continuations and workers symmetric, in the runs without liveness, and
`MCWatchers` handles and handlers.
A worker that holds no continuation has a fixed one as a place-holder; no action reads it,
so the states that the symmetry identifies behave alike.

Fairness (`FairSpec`). Weak fairness of the loop's steps, and of those of the workers, the calls
in progress and the process taken together (`Work`): goroutines are scheduled. It includes the
end of an agent, which the resume timeout kills. Strong fairness of the select case of a done
context, since Go's `select` chooses at random among the ready cases, and a tick or token can
be ready again and again.
`Work` includes `Boot`, because the next client starts a daemon that is not there
(`internal/client/ensure.go`), and `Exit`. As long as no store call fails, nothing is
assumed about the safety tick: the wake channel alone has to do. After a failure the tick is
fair, as a ticker is. Nothing is assumed about clients, the sweeper, crashes or the clock.

Fairness of the clients (`LifeFairness`, `StreamFairness`). Processes, handler goroutines and
readers get on with their work, a timeout passes and the goroutine that waits for it closes
the connection. A client whose daemon did not start tries again: `EnsureDaemon` itself gives
up after three seconds, so `CommandIsServed` is about a user, or an agent, who repeats the
command. Nothing is assumed about ingests, so a wait has to end without an event; nor about
faults, whose number is bounded.

## 4. What the code does not keep

Each of these is a run with a counterexample, and a statement of the repository that it
contradicts; `PROJECT.json` quotes both.

- `lost_wake_up` (`FailedWasTried`): the sweep spares sessions that are running or that an
  active rule names, but not those with a continuation still to run. After a long pause the
  boot sweep can delete the session of an interrupted continuation, which then fails
  untried. The documentation promises at-least-once delivery.
- `lost_result` (`TerminalHasResult`): the result is recorded in one transaction and its
  event ingested in another. A daemon that dies in between never emits the event, and a
  chain that waits for it stops.
- `orphan_agent` (`OneAgentPerSession`): an agent outlives a daemon that dies; the restarted
  daemon resumes the same session beside it.
- `silent_create` (`CreationReports`): adding a watch that already runs emits no state.
- `stale_removed` (`EventsAreTrue`): when the directory was replaced, file included, before
  the watcher notices, `file.removed` is emitted for a file that exists.
- `clobbered_config` (`NotJSONIsKept`): the merge reads the first JSON value of a config and
  rewrites the file, and text after that value is lost, although the file is not valid JSON.
- `null_config` (`FailureNeverFatal`): a config that is the JSON value `null` makes the merge
  assign to a nil map. The command panics, and the agents that come later are neither
  registered nor reported, though a failure is said to be recorded and never fatal.
- `stray_marker` (`ContentUndisturbed`): in an instruction file with a begin marker that has
  no end, the first set-up appends its block, and the next one takes everything from the
  stray marker to the block's end for the block. The user's lines in between are lost, though
  the write is said never to disturb existing content.

One more has no run, since it is about states that are never entered: `docs/PROJECT.md:156` gives
a session the states `waiting → queued → resuming → running → waiting | done`, and
`internal/core/session.go` names them all, but the dispatcher sets `running` and `waiting` only.
Any other state is one that a client gave in `session.register`, which takes every string;
registering again does not change it, and the first run of the session overwrites it.

Limits that the models show and no document denies: an event may be missed by a stream whose
channel is full; the last change of a burst of one type is not reported by the git watcher; a
transition between the inspection and the subscription of the docker watcher is seen by
neither; a call of `apply` that is not answered may leave a rule behind; a `rule.add` that names
an existing session can find it and insert the rule after a sweep has deleted it; a persisted
watch stays without a watcher after a failing SELECT of `watch.add` or DELETE of
`watch.remove`, until it is added again or the daemon starts again.

## 5. The proofs

Every invariant and every action property that a passing run checks is also a theorem, for any
sets of sessions, agents, continuations, rules, workers, callers, ids, handles, handlers, processes,
clients and streams, files and queues of any length, any bounds, and any number of crashes
and failing store calls. Only the liveness properties stay with TLC.

The theorems rest on the named assumptions of the modules, which TLC evaluates on every
instance: the sets that a default is chosen from are not empty, rules name known sessions,
`Manual` is no rule, `NoAgent` is no agent, a session is not registered as "absent" (which
stands for a missing row), adapters and registrants are agents, what is injected is no
continuation's result, place-holders (`NoHandle`, `NoTarget`, `NoProc`, `Stale`) are none of
the others, bounds are naturals and channels have room for one event at least, a workflow is a
sequence of steps, and the agents are finitely many, each either native or configured.

| Theorem | States | By |
| --- | --- | --- |
| `TypeCorrect` | `Spec => []TypeOK` (`Daemon`) | one lemma for each group of actions |
| `Exclusion` | `Spec => []WorkerExclusion` | `WorkerInv` |
| `HeldRow` | `Spec => []HeldRowIsRunning` | `RowInv` |
| `WakeUps` | `Spec => []NoLostWakeUp` | `WakeInv` |
| `ResultOnce` | `Spec => []ResultAtMostOnce` | `ResultInv` |
| `OneShotOnce` | `Spec => []OneShotFiresOnce` | `RuleInv` |
| `ArmedSession` | `Spec => []ArmedSessionExists` | `ArmedInv` |
| `OwedSession` | `Spec => []RunningSessionIsOwed` | `OwedInv` |
| `QueueRefinement` | `Spec /\ [](errs = 0) => ImplementsQueue` | `QueueInv` |
| `EntryKept`, `EntryLive` | `ManagerSpec => []WatcherKeepsItsEntry`, `[]EntryIsLive` | `MapInv` |
| `RowsWatched` | `ManagerSpec => []RowIsWatched` | `MapInv`, `AttendInv` |
| `StableBelieved`, `FlapsSuppressed`, `StopNoOutage` | `PollSpec => []StableIsBelieved`, `FlapSuppressed`, `StopIsNoOutage` | `PollInv` |
| `FileSettles`, `WritesReported` | `FileSpec => []FileConverges`, `[]ChangesReported` | `FileInv` |
| `DockerSettles` | `DockerSpec => []DockerConverges` | `DockerInv` |
| `LoneSwitch` | `GitSpec => []LoneSwitchReported` | `GitInv` |
| `WatcherTypes` | `Spec => []TypeOK` (`MCWatchers`) | those of the manager and the watchers |
| `OneDaemonAtATime`, `ServedReachable` | `LifeSpec => []OneDaemon`, `[]ServedIsReachable` | `LifeInv` |
| `WholeWorkflow`, `ParseSuffices` | `ApplySpec => []NoHalfWorkflow`, `[]ParsedIsAccepted` | `ApplyInv` |
| `StreamGapless`, `MatchKept` | `StreamSpec => []NoSilentGap`, `[]MatchIsKept` | `StreamInv` |
| `AgentsServed`, `ConfigRestKept`, `GuidanceKept` | `SetupSpec => []EveryAgentServed`, `ConfigKeepsRest`, `GuidanceKeepsText` | `SetupInv` |
| `ClientTypes` | `Spec => []TypeOK` (`MCClients`) | all four |

One theorem has a hypothesis. `QueueRefinement` supposes that no store call fails, because a
worker whose result could not be recorded goes on to the next row while the first one stays
running; `NoLostWakeUp`, `ResultAtMostOnce` and `RunningSessionIsOwed` have that supposition in
their statements. `RunningSessionIsOwed` is about the sessions that are not `astray`: an unknown
agent makes `execute` fail before it marks or unmarks the session, so a session that was marked
under its former agent and registered again with an unknown one can stay marked, and so can
one whose client registered it as running.

*WorkerInv.* Exclusion alone is not inductive: a scan starts a worker for each session that
is in its snapshot and not in the map, so the map must be known to hold every live worker's
session. `Registry` says it holds exactly these. A worker leaves the map and stops being
live in one step, under the lock, so its last wake can overlap with its successor.

*RowInv.* A held row stays running because every other writer is excluded for a reason of
its own: boot recovery runs before any worker exists, the sweep deletes terminal rows only,
claims take pending rows, and results are recorded by the holder. The last one needs that no
two workers hold the same continuation, which follows from exclusion and from the held row
belonging to its worker's session.

*WakeInv.* As long as no store call fails, every session with pending work is covered: the
loop is about to scan, or has it in its snapshot, or there is a token, or somebody is about
to send one, or a live worker of the session will look again. The proof goes by what each
action can take away: the loop takes the token only to scan; a scan that skips a session
finds it in the map, hence (by `Registry`) with a live worker; a worker gives up only when
the queue of its session is empty, or the context done; and it wakes the loop on leaving.

*MapInv.* The two properties of the manager's map hold only together, and with two facts
about the calls in progress: a handle that a `Stop` has taken out of the map is in it no
more, nobody else has taken the same one, and a goroutine is cancelled only after that.
Clean-up then removes an entry only if it is its own handle, which is what keeps a successor.

*ResultInv.* A result event is stored after the row is terminal, and a terminal row is never run
again. What is left is that two workers could be about to emit for the same row; `EmitOnce`
excludes that, together with a worker that is about to emit what has been emitted already.

*RuleInv.* A oneShot rule fires once because a rule of which there is a continuation is consumed
or removed (`FiredIsOver`), and because a rule is added once only, by the call that carries it
(`AddedOnce`): without this a rule that has fired could be armed again.

*ArmedInv.* Once a rule is active, the sweep spares its session. In between the two statements of a
`rule.add` that registers its session, the session is fresh instead (`Enrolled`): the upsert
sets `updated_at`, a retention window does not pass while a call is in progress (`Quiescent`),
and no call outlives the process (`DownIsIdle`). A rule becomes active by a `rule.add` only.

*OwedInv.* That a session marked running has unsettled work survives the end of that work because
the session was set back first (`SetBack`), which `execute` does in this order.

*QueueInv.* The refinement maps each row to itself, so the work is in the guards of the abstract
steps. A start needs that nothing of the session runs: after boot recovery a running row is one
that a worker holds, or one that a shutdown has left behind in a session whose workers start
nothing any more (`RunningIsHeld`). It needs that no older row of a rule waits: the row chosen at
the read is still the oldest at the claim (`ChosenIsOldest`), since rows that are inserted in
between have later stamps (`Stamps`).

*AttendInv.* Every row without a watcher has a call that attends to it: one that will start a
watcher for it, or one that will remove it; if that call fails, the row is in `left`. That needs
that an id is never used again, that a watcher which runs or is about to be started watches what
its row says, and that only a fragile target's watcher ends by itself.

*PollInv, GitInv, FileInv, DockerInv.* Each says what the watcher's memory has to do with the world
between two events. The poller: a pending change is exactly as old as the probes' agreement,
and younger than the threshold; and unless it is cancelled, the answer it holds is what its
probe saw (`AnswerIsSeen`). Git: a switch of its own that is not reported yet has its
event in the queue, and no report of a switch is recent. File: a directory that is not the
one being watched is noticed, since the event of its loss is in the queue and is the last one
there; and a file that is not as believed has an event in the queue or a timer. Docker: the
lines that are still to be read end in the one that tells the state of the container.

*LifeInv.* That a served socket is reachable needs to be known from the bind on, when nobody can
be reached yet (`OwnPath`), and it needs `OneDaemon`: every step that touches the path is one of
the process that has the lock, since `Close` removes the socket before it gives the lock back.

*ApplyInv.* A rule in the store is one that apply has in its list, waits for, or has given up on
(`RulesAreKnown`). It needs the history of the calls: steps are sent in order and once each,
the daemon works on nothing that was answered, and its answers are true.

*StreamInv.* What was published since the first response is the end of what the client has read
followed by what is on the wire, in the handler and in the channel. Each step moves an event
from one of these to the next; the proof shows once that such a move leaves the concatenation
alone. The first response, which goes over the same wire, is always read before any event.

*SetupInv.* Before the rules, an agent that is not served is still to come, after a panic too. A
file that has been written to the temporary one is the merge of the file as it still is
(`TempIsMerge`), since nobody else writes meanwhile; so what a rename changes is what a merge
changes. About the merge itself, `MergeKeepsText` shows that the result is the user's lines around
one block, and that merging again finds that block.

Only model-checked. The liveness properties (`EveryWakeUpSettles`, `SessionComesBack`,
`ShutdownEnds`, `CommandIsServed`, `WaitEnds`, `HungUpIsUnsubscribed`): fairness and ENABLED
are beyond the provers used here. The eight properties of section 4 do not hold.

## 6. What is not modelled

- The command line: flags, tables and one RPC call each. `exec` runs a command of the user and
  reports its end as one injected event.
- The MCP tools other than `wait_for_event`: each is one RPC call. An MCP server makes sure of
  a daemon when it starts and not again; after a stop its calls fail until some client starts
  a daemon.
- `status` and the `list` calls, which read.
- The Windows variants of lock and socket, the token of the WebSocket server, the database file
  and its migrations, project scope and the prompts of `setup`.
- Command lines and output of the agents, the wording of prompts and logs.

Left out of the models of the parts that are there: paused containers, an overflow of
fsnotify's queue (which the code ignores), a grandchild that keeps an agent's output open, the
configuration of a watch. `EnsureDaemon` returns an error after three seconds; the client that
tries again is the user (`GiveUp`).

## 7. The plan

Done: the core (`Store`, `Dispatcher`, `Daemon`, `ContinuationQueue`), the watch manager, the
four watchers, the parts around the daemon (`Lifecycle`, `EventStream`, `Apply`, `Setup`), and
the theorems above, which cover every safety property of the passing runs. What is left:

1. The safety half of the liveness arguments: that a state in which the promised thing is still
   to come always has a goroutine that can move, as `NoLostWakeUp` has it for the loop.
2. How far the queues are kept when store calls do fail: exclusion and `HeldRow` hold then too,
   order and `RunningIsHeld` do not; a weaker abstract queue would say what remains.
