# agenkit-runtime in TLA+

TLA+ models of the agenkit-runtime daemon and its recovery tool, the TLC
configurations that check them on small instances, and proofs, checked by TLAPS,
that hold for every number of slots, hosts, requests and runs. Paths are relative
to the repository (`src/` is its root).

## The system

`agenkit-runtime serve` is one Go process that keeps a pool of Firecracker microVMs
per host. Each microVM ("slot") runs one agent session. When the cloud provider
announces that the instance will be taken away, the daemon asks the agent in every
busy slot, over vsock, to checkpoint, and writes a migration manifest.
`agenkit-runtime recover` reads the manifests later and asks agents in ready slots
to resume. Operators talk to the daemon over a Unix socket.

| Component | State it keeps | Operations | Talks to |
|---|---|---|---|
| VM slot, `pkg/pool/vm.go` | state, session, pid, goroutines of drains | Provision, MarkReady, Assign, Drain, Deprovision | pool, Spawn |
| Spawn, `pkg/pool/vm.go` | the process it has started, the socket file | Spawn | VM slot, operating system, Firecracker |
| Pool, `pkg/pool/pool.go` | the slots, `p.mu` | Acquire, Drain, ActiveSessions, Stats, Available | slots; handlers, spot callback, metrics, recover |
| Migration, `pkg/migration/{migrator,manifest}.go` | workers, channel of results, manifest file | MigrateAll | vsock bus; called by the spot callback |
| vsock bus, `pkg/vsock` | one connection | Dial, SendSignal, ReceiveAck, RequestCheckpoint, RequestResume | agents in the guests |
| Spot monitor, `pkg/migration/spot.go`, callback in `cmd/internal/serve.go` | polling or not, sessions collected | Run, OnInterruption | metadata service, pools, MigrateAll |
| recover, `cmd/internal/recover.go` | manifests in memory and on disk, a counter | runRecover, resumeSession, rewriteManifest | manifests, state file, agents |
| Cluster state, `pkg/config/cluster.go`, handlers, `serve.go` | hosts with VMStates, pools, state file | host.add/remove/drain/resume, cluster.provision/teardown, startup, shutdown | operators, pools |
| API server and client, `pkg/api`, CLI | connections | Serve, Send | handlers |
| Snapshot build, `pkg/snapshot/manager.go` | whether the VM is paused | Build | Firecracker's management API |
| Snapshot stores, `pkg/snapshot/{store,s3store}.go`, `snapshot push` and `pull` of the CLI | files and objects | Push, Pull, List, Delete | file system, S3; the daemon or the command itself |
| Hosts, `pkg/host` | instances at EC2 | Provision, Terminate | EC2 |
| Provisioning, `pkg/provision` | what is installed on a machine | Dial, WaitForSSH, Bootstrap, Unbootstrap | machines over SSH |
| Metrics, `pkg/metrics` | counters and gauges | a ticker that reads Stats | Prometheus |

### What is hard here, and what correct means

* **Slots and pool.** `v.mu` is held per method and `p.mu` per call, but the two
  locks are not nested consistently: a slot changes between the look at its state
  and the step that relies on it; Drain finishes in a goroutine that looks at
  nothing, and which the caller of Pool.Drain does not wait for; ActiveSessions
  takes no slot lock. Correct: no session on a slot that does not serve it, no slot
  stuck in draining, no call that overlooks a slot that was there all along.
* **Spawn.** Two calls may race for one slot; the process may exit, hang, or come
  up after the limit. Correct: the call returns, a failed one leaves no process, a
  successful one has recorded its own.
* **Migration.** Workers, guests, the deadline and the end of the host race.
  Correct: one truthful entry per active session, and MigrateAll returns.
* **Recovery.** The process may die anywhere, guests answer late, writes fail, and
  later runs start from the file. Correct: the record never lies about what was
  resumed, settled entries stay settled, the run ends with the right code.
* **Cluster state.** Handlers change maps and save through one temporary file
  without a lock; a host may be given another pool size while its pool runs; the
  daemon may die anywhere. Correct: what an operator was told survives; the file
  can always be read; a clean restart restores the ready slots that still fit.
* **Snapshot build.** Pause, create and resume, each of which may fail, from
  several connections of a daemon that may die in between. Correct: the VM does not
  stay paused.
* **Snapshot copies.** A command that hears nothing for 30 seconds copies by itself
  while the daemon's copy goes on into the same files; copies fail half-way or die
  with the daemon. Correct: when the last of the copies into a place succeeds, the
  place holds the source exactly, and a command ends.
* **Adding hosts.** Launching, waiting, dialling and six remote commands take
  longer than the operator listens; each may fail, and requests and their saves
  overlap. Correct: what is recorded has been bootstrapped, an operator who is told
  "ok" has the host in the state file, and requests return.

`PROJECT.json` lists the hazards line by line, with the properties aimed at each.

## Modules

| Module | Models | Extends / uses |
|---|---|---|
| `SlotLifecycle` | what the methods of vm.go do to one slot, goroutines left out | abstract |
| `VM` | vm.go without Spawn | implements `SlotLifecycle` |
| `Pool` | pool.go | extends `VM`, uses it as `VM` allows |
| `Spawn` | VM.Spawn, its process and socket | extends `VM` |
| `SessionMigration` | what a migration promises of sessions, whoever carries it out | abstract |
| `Migrator` | MigrateAll, its workers, the manifest file | runs inside `SpotEviction` |
| `SpotEviction` | monitor, callback, and MigrateAll started by it | extends `Migrator`, implements `SessionMigration` |
| `Recover` | runs of the recover command over the manifests | implements `SessionMigration` |
| `ClusterState` | state file, handlers, startup, shutdown | |
| `SnapshotBuild` | Manager.Build | |
| `SnapshotStore` | `snapshot push` and `pull` from the command to the files | |
| `Provisioning` | `host add`, `host remove`, `cluster provision` from the command to the machines | |
| `VMProofs`, `PoolProofs`, `SpawnProofs`, `EvictionProofs`, `RecoverProofs`, `ClusterStateProofs`, `SnapshotProofs`, `ProvisioningProofs` | the theorems | extend the modules of their name (`EvictionProofs`: `SpotEviction`; `SnapshotProofs`: `SnapshotBuild` and `SnapshotStore`) |
| `MC...` | model values and bounds for TLC | extend the above |

Two abstract specifications tie the parts together. `SlotLifecycle` is what the
users of a slot can rely on; it is read off the methods, and differs from the state
machine drawn at vm.go:18 in four ways, which its header lists. `SessionMigration`
is the contract between the host that goes away and the recovery tool: a record
published as a whole or not at all, in which only a session with a checkpoint is
pending, and which leaves pending once. Eviction and recovery implement the same
contract over the same record, so that one can follow the other.

Every module names the code of each definition in the `map` of `PROJECT.json`.
Definitions called `Bad...` are not part of a specification: each is the form that
an action or operator would have with a plausible mistake in the code, and
substituting it must violate the property it is listed with.

### How state and steps correspond to the code

* **VM.** `state`, `sessionID`, `pid` are the fields of `VM`; `drainer[g]` is a
  goroutine of Drain with its slot, its mode and what it waits for. A method that
  holds `v.mu` for its body is one step. A call that returns an error changes
  nothing and is no step. `Drain` is two or three: the marking, the grace period of
  a spot drain (`GraceEnds`), and `FinishDrain`, which sets idle whatever the state
  is. Only a spot drain waits: graceful and force both leave the deadline at 0
  (`Launch`). Nothing in the code keeps a second Drain from a slot whose first one
  is still running, Pool.Drain discards the channel it could wait for, and nothing
  in the model does either. `overlapped` is history: the slots whose latest Drain
  found an earlier one running.
* **Pool.** A call is a loop over the slots; each look at a slot, and each call of
  a slot's method, is a step, because `v.mu` is released in between. `mu` is
  `p.mu`: Acquire, ActiveSessions and Stats hold it throughout, Drain only while it
  copies the slice. Drain evaluates `vm.State()` up to twice per slot.
  ActiveSessions reads the string `sessionID` twice without a lock: a read that
  races a write may return the old or new value or a torn header (`Torn`).
  `steady`, `quiet` and `before` are history: which slots were ready, or free of
  drains, since a call began, and what sessions they had then.
* **Spawn.** Start, poll, Provision, MarkReady. A round of the poll is a step for
  os.Stat (`SocketFound`, `SocketMissing`), one for what is looked at when the
  socket is missing (`ExitedEarly`, `TimedOut`, or on to `WaitToPoll`), and one for
  the wait (`PollAgain`, `PollCancelled`), so that the socket may appear in
  between. `expired` and `cancelled` are the limit of two seconds and the context
  of a call. An exit with status 0 is taken from the channel and ignored, as in the
  code. `Exits` is any end of the process, the kill by `exec.CommandContext` after
  Spawn has returned included. The owner of the slots assigns, drains and
  deprovisions. `strays` is history: slots that a Spawn has provisioned while a
  drain of an earlier life was still running.
* **Migrator.** `FanOut` starts one worker per active slot, or reports an error at
  once for a slot without an address. A worker dials and sends, then takes either
  the answer or the end of the context (`AnswerArrives`, `WorkerGivesUp`): both are
  possible when both are there, as in the `select`. `Gather` takes results in the
  order of the channel. WriteFile is two steps, so that a crash can leave a part of
  the temporary file; rename is one.
* **SpotEviction.** The callback visits the pools in any order (Go's map order),
  slot by slot, as ActiveSessions does, and keys sessions by slot index, as
  `serve.go` does. A drain may end between two slots (`SessionDrained`), or between
  the two reads of one slot: then the empty session is entered (`CollectEnded`).
  Then MigrateAll runs. The daemon does not wait for it when it exits, so `Crash`
  stands for that too. `Promise` maps what can be read in the manifest file, and
  the guests with a checkpoint, to `SessionMigration`: everything before the rename
  is a checkpoint or no step of the contract, the rename is Publish.
* **Recover.** A run reads the manifests it can (`Start`), or none because the
  directory cannot be read, which is an error exit of its own (`ReadDirFails`);
  then, entry by entry: skip or take, dial and send, wait, decide, rewrite. `exit0`
  and `exit1` are the two exit codes. `inbox` holds signals on their way: one that
  a dead or impatient run has sent may still be acted on. `CompletedAt` is written
  and never read, and is left out. `Promise` maps the manifests on disk and the
  sessions a guest has resumed to `SessionMigration`; a rewrite may settle several
  entries at once, when earlier rewrites have failed.
* **ClusterState.** `known`, `size` and `warm` are `state.Hosts` with `PoolSize`
  and `VMStates`; `pools`, fixed at startup, have `width` slots, of which some are
  `ready`. `Enter` puts a new entry, with the size it is given and no VMStates, in
  the place of what a host had, while its pool stays as it is. `Start` makes a pool
  of the recorded size and readies the recorded slots up to that size. `disk` and
  `tmp` are the two files. SaveState is marshal, open (truncate), write, rename,
  each a step; `fd` follows a file that is renamed or removed while it is open.
  What a crash leaves of a half-done write is `Partial`, which LoadState cannot
  parse, so the daemon starts afresh. `acked` and `rest` are history: what the last
  answer about a host promised, and which slots were ready, and fitted into the
  size of their host, when the daemon was told to stop. The race on the map of
  hosts is modelled by its worst outcome, the fatal error of the Go runtime, which
  is a `Crash`; `OneAtATime` restricts operators to one request at a time.
* **SnapshotBuild.** Pause, create and resume with their outcomes; a request may
  take effect although its answer is lost. The daemon may die with any request on
  its way (`BuildsDie`). `stranded` is history: since the last resume that
  succeeded, a pause took effect and was not answered, a resume failed, or the
  daemon died with the VM paused.
* **SnapshotStore.** `cmd` is where a command is, `pc`, `todo` and `held` where a
  copier (a handler of the daemon, or the command itself) is: the list of files
  (`todo`), then open, copy and close of one after the other in the order of their
  names (`Current`). Opening a local file for writing truncates it, also for
  another copier that writes it (`cut`); an object in S3 is replaced as a whole at
  the end. A store made by a command is a local directory even when the URL names
  S3 (`StoreOf`), as in `snapshot.go`. The contents of a file are the number of the
  build it comes from, absent, or partial. `expect` is history: what the copies
  under way should leave.
* **Provisioning.** `call` is a connection, `work` the goroutine of one host:
  launch, wait, dial, the commands of Bootstrap, insert. `listening` are requests
  whose command still waits; `GiveUp` is its 30 seconds, after which the request
  goes on unheard. RunInstances may fail with an instance launched. The TCP connect
  (`Dial`, 15 seconds) and the SSH handshake (`Handshake`, no limit) are separate.
  A command over SSH may take effect although it is reported as failed. A save
  marshals (`Marshal`) and renames later (`Rename`, `SaveFails`). Saves that
  overlap (`mixed`) share the temporary file, whose bytes are in `ClusterState`;
  here the file ends up as the copy of any of them, as it was, or as nothing that
  can be parsed. Existing machines and instances are known by their address;
  instances without a public name share the empty one, which SSH takes for the
  daemon's own machine. `told` is history: what the operator heard of an instance,
  withdrawn when it is removed or when a save that overlaps another puts it at
  risk.

## Runs

| Run | Question | Bounds | Distinct states |
|---|---|---|---|
| `vm_graceful` | Does a graceful drain wait for the session? **No** | 2 slots, 2 goroutines | violated |
| `pool_calls` | What do the calls guarantee while slots change under them? | 2 slots, 2 callers, 2 goroutines, 1 session | 1,636,802 |
| `pool_reserve` | Does Acquire reserve? **No** | 2 sessions, 1 goroutine | violated |
| `spawn_overlap` | Does a slot keep its lifecycle and its sessions, do drains end, and do Spawns return, clean up, and keep their slot, when all of them overlap? | 1 slot, 1 session, 2 calls, 2 processes, 2 goroutines, force and spot drains | 224,557 |
| `spoteviction_one_host` | Does a notice reach every live session, is the manifest complete and truthful, and the contract kept? | 1 host, 2 slots, 2 sessions, remainders 5, 10, 16 s | 172,013 |
| `spoteviction_two_hosts` | Does it with two hosts? **No** | 2 hosts | violated |
| `recover_reruns` | Is the contract kept over runs and crashes, and does a run end with the right code? | 1 manifest, 3 sessions, 2 runs | 381,238 |
| `clusterstate_requests` | Does what operators were told survive, and do the right slots come back? | 2 hosts, 1 configured with a pool of 2, added ones with 1; 1 connection | 3,477,608 |
| `clusterstate_two_saves` | Is the state file whole when two requests overlap? **No** | 2 connections | violated |
| `snapshotbuild_overlap` | Does the VM run again after overlapping builds? | 3 calls | 9,904 |
| `snapshotstore_copies` | Are copies exact whatever overlaps and failed before, and does a command end? | 1 command, run again and again, 1 handler, 2 builds, both stores | 536,956 |
| `provisioning_fleet` | Is what is recorded bootstrapped, is nobody told "ok" in vain, do requests return? | 2 requests (1 may be a batch), 1 machine, 2 instances (1 without a name), 1 command of Bootstrap | 660,563 |

`PROJECT.json` lists the properties of each run. The ones worth a second look:

* `SessionOnlyWhenServing`, `DrainingHasDrainer`: however Drain, Deprovision, Spawn
  and left-over goroutines interleave, no session survives on a slot that does not
  serve it, and draining is never a dead end. `DrainCompletes`: a drain by force or
  on a spot warning makes the slot idle, whatever the session does. Of a graceful
  drain it says nothing: the comments want it to wait (see Findings).
* `DrainOwnsSlot`: a goroutine is the only one of its slot, which stays draining
  until it is done. The exception is a slot in `overlapped`; the property says that
  overlap is the only way to lose ownership, which no Deprovision, Provision or
  Spawn in between is.
* `LifecycleSpec`: refinement of `SlotLifecycle` by every slot, with `phase <-
  state`, `held <- sessionID`, `late <- overlapped`; a step of a goroutine that
  only waits is a stutter. Only `EndLate`, for overlapped slots, leaves a state
  other than draining when a drain ends.
* `AcquireMissesNoFreeSlot`, `DrainMissesNoSteadySlot`, `StatsCountSteadySlots`,
  `ActiveIsSnapshot`: what a call returns, related to what was true of the slots
  since it began. They are the strongest statements that survive the gaps between
  the locks; "Acquire fails only when no slot is ready" would be false. When
  Acquire fails, every slot that was ready all along runs a session: the property
  leaves room for an Acquire that skips such slots, as one that reserves would, and
  forbids one that stops at the first Assign that fails. `ActiveIsSnapshot` speaks
  of slots without a drain; what a drain that ends between the two reads leaves in
  the result is in `SpotEviction`.
* `SlotsFollowVM`: the pool touches its slots through steps of `VM` only.
* `FailedSpawnKills`: of two calls for one slot the loser kills its own process,
  also while drains of the slot's former life are running. `SpawnHoldsSlot`:
  nothing comes between Provision and MarkReady, so that MarkReady does not fail
  and the process recorded is that of the call. The exception, `strays`, is exactly
  where vm.go:280 bites: a slot is drained twice, the second goroutine still waits
  when the first has ended and the slot is deprovisioned, Spawn provisions it, the
  second goroutine makes it idle, and MarkReady fails with the process running.
* `ManifestComplete`, `PendingIsCheckpointed`: entries and guests agree whatever
  acks are lost, late, or beaten by the deadline; an empty session that
  ActiveSessions has returned has its entry as well. `BudgetInTime`: the budget is
  positive, and within what is left when that is at least 10 seconds.
* `NoSessionLeftBehind`: with one host, a session that is live when the migration
  starts is part of it, whatever ended while the slots were looked at.
  `NoticeLeadsToEntry`: neither the monitor nor a silent guest holds it up.
* `KeepsContract` of `SpotEviction` and of `Recover`: the refinements of
  `SessionMigration`. Across crashes, failed writes, deadlines and reruns the
  record is published once and whole, a settled status never changes, and "resumed"
  was resumed. `SignalOnlyPending`: nothing settled is tried again.
  `ExitDecidesAll` relates the end of a run to what it had read, and its exit code
  to both causes of an error: a session that failed, a directory that cannot be
  read. That a guest may be asked again after a run that died between its ack and
  the rewrite is allowed by all of them, because the code does it.
* `AckedIsDurable`: an answered add or remove is on disk from then on, through
  failed saves of other requests, crashes, and shutdowns. `PrewarmRestores`: slots
  are recorded before the pools are drained at shutdown, and the next start readies
  those, up to the size that their host has by then. A host whose entry was
  replaced by a smaller one keeps its larger pool until the restart, and the slots
  beyond the new size are not ready again (8 become 4).
* `LastCallResumes`: of builds that overlap, fail and are cut off, only three
  events leave the VM paused, and the next build that resumes it makes up for them.
* `LastCopyIsExact`: stale, truncated and half-written files of earlier copies do
  not survive a copy that succeeds when no other writes, and copies that agree do
  not spoil each other; those that read a source that changes, or different
  sources, are promised nothing. `CommandEnds` holds with a daemon that never
  answers.
* `RecordedIsBootstrapped`, `NoSilentLeak`: over requests that go on after their
  command gave up, are asked again, and run beside each other. `NoSilentLeak` holds
  while saves do not overlap; what overlapping ones put at risk is withdrawn from
  `told`, because the code can lose it (see Findings). It is about instances nobody
  hears of: one that is left running after an error that was told is outside it.
  `HandlerReturns` says that only the SSH handshake and a remote command, which
  have no time limit, can hold a request.

### Why the bounds are enough

The properties speak of one or two slots, callers or sessions at a time: a race
needs two actors on one slot, and a second slot shows that they do not disturb
their neighbours in the pool, where the calls loop over them; in `spawn_overlap`
nothing links two slots, and there is one. Two drain goroutines are what a stale
drain needs. Two processes are a winner and a loser, or a former life and a present
one; a pid is not used again, so two is also the bound on calls that start a
process in one behaviour (later calls wait at `start`, which is why `SpawnReturns`
starts from `poll`). Three sessions make a manifest whose middle entry is rewritten
between settled ones, and two runs a rerun after every crash point. Remainders 5,
10 and 16 lie below, at and just above the floor and the buffer. In
`clusterstate_requests` the configured host can be added over its own pool of 2
with the size 1, so that a restart finds more slots recorded than it makes; the
other host has a pool only after a restart. In `snapshotstore_copies` one command
and one handler are two copiers into the same place: the handler's copy goes on
after the command has fallen back, and the next run of the command meets what is
left; two files and two builds make mixtures visible. In `provisioning_fleet` two
requests overlap, one of them with two hosts; the one command of Bootstrap may fail
before or after it takes effect, and an interruption between two commands is left
to the proof of `RecordedIsBootstrapped`, which is for every number of them. What
is proved below holds for every bound. Symmetry is used in `pool_calls`, which has
no liveness property. Deadlock is checked except in `Spawn`, `SpotEviction` and
`Recover`, whose processes end.

### Fairness

Only what the code's own scheduling justifies is fair: goroutines that can run do
run, and timers fire. So the steps of a Spawn call and its limit of two seconds,
the goroutine of a drain with its grace period, the main goroutine, workers and
context of MigrateAll, the callback, and the recover process each have weak
fairness. In `SnapshotStore` the timer of the client runs and a command copies its
local files; the daemon owes nobody an answer. In `Provisioning` the handlers run,
requests to EC2 return, and the limits of waiting for an instance and for a TCP
connection are kept; success is not owed by anybody, and neither is the end of an
SSH handshake or of a remote command. Operators, owners of slots, Firecracker,
guests, machines, the metadata service, crashes and cancelled contexts have no
fairness.

## Findings

Four runs show that the program does not do what its comments say:

* `vm_graceful`: a graceful drain waits for nothing (vm.go:138) and clears the
  session at once; line 40 says that it "waits for the current session to complete
  naturally".
* `pool_reserve`: `Acquire` (pool.go:51) takes the first *ready* slot and Assign
  leaves it ready, so the next call gets the same slot and replaces its session.
* `spoteviction_two_hosts`: the callback (serve.go:161) keys sessions by slot index
  alone; of two hosts with a session on the same index one is lost.
* `clusterstate_two_saves`: SaveState (config/cluster.go:125) uses one temporary
  file for concurrent connections, and "atomically" (line 118) fails.

Seen while modelling, without a run of their own:

* vm.go:18 draws arrows from draining back to ready and from deprovisioned to
  absent that no method takes, and none from deprovisioned to provisioned, which
  Provision takes. vm.go:150: a goroutine left over from an overlapping drain makes
  a slot idle that has been deprovisioned and provisioned again. `LifecycleSpec`
  shows that there are no other departures.
* vm.go:275: Spawn takes `v.mu` twice, for Provision and for MarkReady. When such a
  goroutine makes the slot idle in between, MarkReady fails (line 280) and the
  process is not killed; when the slot has been deprovisioned and provisioned by
  another call by then, MarkReady succeeds, and the first call returns success for
  a slot that runs the process of the other.
* vm.go:248: nobody removes the socket file, so that of an earlier process makes
  Spawn mark a slot ready before its own process is up. Deprovision (vm.go:294)
  sets the pid to 0 and stops no process.
* pool.go:81: ActiveSessions can return an entry with the empty session, because it
  reads the field twice without `v.mu`. pool.go:60 says Drain drains "all
  currently-assigned VMs"; it drains ready ones too.
* migrator.go:52: with less than 10 seconds left the budget ends after the
  deadline. migrator.go:109: nothing is written until all workers have reported, so
  an early end of the host leaves no record of checkpoints already taken.
* recover.go:104: a run that dies between a guest's ack and the rewrite leaves the
  session pending, and the next run resumes it again. recover.go:182: every session
  is sent to the first ready slot, which stays ready. recover.go:97: a session with
  status failed is skipped and not counted in the exit code. recover.go:205:
  CompletedAt is set at the first rewrite.
* handlers/host.go:59: adding or provisioning a host again replaces its PoolSize
  while its pool stays; the slots recorded at shutdown that do not fit into the new
  size are not ready after the restart (serve.go:97).
* config/cluster.go:129: of two saves that overlap, the slower one can rename an
  older copy over a newer one, or leave a file that cannot be parsed, so that a
  host whose operator was told "ok" is missing after a restart.
* provision/ssh.go:46: the limit of 15 seconds is one of the TCP connect only. A
  machine that accepts the connection and never completes the SSH handshake holds
  its request for ever, the five minutes of WaitForSSH notwithstanding, which are
  looked at between two attempts.
* handlers/cluster.go:118: teardown walks the pools, so hosts added since startup
  stay (`TeardownRemovesPooled` states what does hold). handlers/host.go:67: an
  added host gets no pool until a restart. handlers/host.go:121: a drain is neither
  recorded (`Drained` is never set) nor saved.
* snapshot/manager.go:135: the resume request uses the context of the call; once
  that is done, the VM stays paused, against line 94. handlers/snapshot.go names
  pid 0 whatever its arguments say. Its client has no time limit.
* cmd/internal/snapshot.go:99: the fallback makes a local store of the configured
  URL, so with S3 it writes a directory named `s3:`. A command that was told "ok"
  can be followed by the end of a slower copy of the daemon that truncates what it
  wrote. A partial copy is listed and pulled like a snapshot (store.go:100), and a
  pull of one that is not in the bucket succeeds (s3store.go:107).
* cmd/internal/handlers/host.go:86 says that `host remove` "terminates a host", and
  cmd/internal/cluster.go:59 that teardown will "Terminate all cluster resources":
  nothing calls Terminate, and the instances stay. The same holds of an instance
  whose provisioning fails after the launch (ec2.go:86).
* cmd/internal/cluster.go: when a provision takes longer than the client waits, the
  command says that the daemon is unavailable and exits with 0; the request goes
  on.
* pkg/host/ec2.go:98: instances without a public name have the empty address, so
  Bootstrap runs on the machine of the daemon, and their entries replace each
  other. HostAdd ignores the address it is given for type ec2, and hosts of the
  configuration file have neither image nor key name.
* serve.go:162 builds addresses `vsock:N`, which Dial hands to TCP as host and
  port. Spawn has no caller in the repository, and the daemon never calls Acquire:
  ready slots and sessions come from the state file and from users of package
  `pool`, which is why the owner of the slots is part of the environment.

## Proofs

The theorems hold for every value of the constants that meets the assumptions named
in the modules: "no value" constants differ from values, pool sizes are natural
numbers, the sets over which the code counts or loops (slots, manifests, hosts) are
finite, there is at least one host, `Remainders` are integers, the commands and the
handlers of snapshots are different and `Nobody` is neither, an initial
configuration names hosts that there are. No theorem assumes that callers wait for
drains. Theorems about `ClusterState` other than its types assume one request at a
time, which the run `clusterstate_two_saves` shows to be necessary.

| Theorem | States | Rests on |
|---|---|---|
| `TypeCorrect` | `TypeOK` of every slot | |
| `SessionSafety`, `DrainerSafety` | the safety invariants of every slot | `TypeOK` |
| `DrainOwnership` | `DrainOwnsSlot`: no goroutine loses its slot but by an overlapping Drain | `TypeOK` |
| `ImplementsLifecycle` | `Spec => LifecycleSpec`, for every slot | `DrainOwnsSlot`, `DrainingHasDrainer` |
| `PoolSafety` | `PoolTypeOK` and `PoolInv` | `PoolInv` is inductive |
| `AcquireComplete`, `DrainComplete`, `ActiveConsistent`, `StatsComplete` | the guarantees of the calls | `PoolInv` |
| `PoolImplementsVM` | `SlotsFollowVM` | `PoolInv` |
| `SpawnImplementsVM`, `SpawnType` | `SpawnSpec => Spec` of `VM`, `SpawnTypeOK` | `CallsOK`, `HasChild` |
| `FailedSpawnKillsHolds` | `FailedSpawnKills` | `HasChild` |
| `SpawnHoldsSlotHolds` | `SpawnHoldsSlot`, except for `strays` | `Holding`: one call there, no drain left |
| `ManifestCompleteHolds`, `PendingIsCheckpointedHolds`, `BudgetInTimeHolds` | the manifest of an eviction | a counting invariant |
| `NoResultIsLost`, `MigrationComesToAnEnd` | MigrateAll never waits in vain, and each of its steps brings its return nearer | `Tracked`; a rank |
| `ManifestStartsRecover` | what eviction publishes is a state recover starts from | `ManifestComplete` |
| `EvictionKeepsContract` | `EvictionSpec => KeepsContract` | the same |
| `OneHostLeavesNoneBehind` | `NoSessionLeftBehind` | one host |
| `RecordIsTruthfulHolds`, `SignalOnlyPendingHolds`, `ExitDecidesAllHolds` | the record over any runs and crashes, and both exit codes | invariants of the record and of a run |
| `RecoverKeepsContract` | `Spec => KeepsContract` | `RecordIsTruthful` |
| `RecoverType` | `TypeOK` | `BoundInv` |
| `RunGoesOn`, `RunAdvances` | a run is never stuck, and each of its steps brings its end nearer | `BoundInv`; a rank |
| `ClusterType` | `TypeOK`, for overlapping requests: no slot is ready that its pool does not have | a host that is not known has no slots recorded |
| `StateFileWholeHolds`, `AckedIsDurableHolds`, `TeardownHolds`, `PrewarmHolds` | the safety properties of `clusterstate_requests`, with pool sizes replaced under their pools | `InStep`; one request at a time |
| `SnapshotBuildType`, `LastCallResumesHolds` | `LastCallResumes`, over the death of the daemon | `OwesResume` |
| `SnapshotStoreType` | `TypeOK` | `ClientOK` |
| `LastCopyIsExactHolds` | `LastCopyIsExact` | `CopyInv` |
| `CommandsAtWork`, `CommandAdvances` | a command is never stuck, and each of its steps brings its end nearer | `ClientOK`; a rank |
| `ProvisioningType` | `TypeOK` | |
| `RecordedIsBootstrappedHolds` | `RecordedIsBootstrapped` | `Counts`, `Progress`, what saves have marshalled |
| `NoSilentLeakHolds` | `NoSilentLeak`, with saves in several steps | `OwnHost`, `OwnEntry`, `SavesMix`, `ToldIsKept`, `Owed` |
| `RequestsComeToAnEnd` | each step of a goroutine or a handler brings the end of the request nearer | `Counts`; a rank |

The invariants of a slot are inductive relative to `TypeOK`. `DrainOwnsSlot` needs
no assumption about callers: a Drain that finds an earlier goroutine puts its slot
into `overlapped`, one that finds none owns it, and Deprovision and Provision are
refused while the slot is draining. Refinement has two cases that matter. A
`FinishDrain` of a slot that is not overlapped starts from draining, because the
goroutine owns it, and maps to `End`; any other maps to `EndLate`. A Drain with no
goroutine left finds the slot ready and not draining, by `DrainingHasDrainer`, and
maps to `Close`.

The guarantees of the pool's calls are not inductive: they speak of the moment a
call returns. `PoolInv` adds what is true at every point of the loop: the holder of
`p.mu` is the one caller in a locked call; every slot the loop of Acquire or Drain
has passed is not `steady`; every slot passed by Stats that is steady was counted
ready; every slot passed by ActiveSessions that is `quiet` has its session of
`before` in the map, because only an Acquire, which `p.mu` keeps out, or the end of
a drain could have changed it. The proof splits each step into the caller that
takes it and the callers that rest: `RestKeeps` shows once and for all that a
resting caller's part of the invariant survives any step, and there is one lemma
per action for the acting caller.

`SpawnProofs` first shows that the calls touch the slots by steps of `VM` only, and
gets everything proved of `VM` from that. A call between Provision and MarkReady of
a slot that is not in `strays` is alone there, and no goroutine is left on the slot
(`Undisturbed`): another Provision is refused, Drain finds the slot neither ready
nor draining, and Deprovision does not find it idle.

The manifest is complete because results are conserved: every active slot is with
one worker, in the channel, or gathered, exactly once. The proof follows this
bijection from `FanOut` to `GatherEnds`, where the channel is empty and the count
of gathered results is that of the active slots. `Tracked` is the converse: a slot
is never without one of the three, so that a `MigrateAll` short of a result has one
in the channel or a goroutine that owes one.

`RecoverProofs` relates memory to the file: what a run has in memory differs from
the file only in entries it has decided itself since the last rewrite that
succeeded, each decided as resumed only after its guest has. That makes a rewrite a
Settle of the contract, and everything else a Resume or no step. The counters of
`TypeOK` need `BoundInv`: signals that a guest has accepted or may still accept
come from different runs, because a run sends one only for the session in hand,
which it has then taken off the list; and the sessions that failed, the one in
hand, and those on the list are never more than there are.

`InStep` in `ClusterStateProofs` says what the one running thread has done: a save
in progress has what memory has, and the temporary file is complete when it is
renamed; past its changes memory is what the answer will promise, and past the save
the file is what memory is; a request has withdrawn earlier promises about its
hosts, so what it changes was promised to nobody; the shutdown records, host by
host, what was ready when it began, and drains only then. Nothing in it relates the
size of an entry to the slots recorded with it, which may be more: the next start
makes the pool and intersects, which is what `rest` has.

`Progress` in `ProvisioningProofs` says that a goroutine at command n of Bootstrap
has had the earlier ones take effect on its machine, and at Insert all of them
(`Counts` says that n is at least 1); nothing is ever uninstalled. What is
marshalled was in memory, so that whichever save wins, old or new, it has
bootstrapped hosts only. For `NoSilentLeak`, `OwnHost` and `OwnEntry` say that an
instance with a name belongs to one goroutine, then to one entry; `Owed` that the
request of one whose command was not told yet has an error to tell, or a goroutine
that will insert it, or has inserted it, and saves it before the answer;
`ToldIsKept` that one told "ok" is in memory, in the file, and in the copy of any
save under way. A save that begins beside another withdraws what it could lose;
without it, `SavesMix` says that there is one save, and that it is not mixed, so
that its rename puts the copy into the file.

`CopyInv` in `SnapshotProofs` follows what a place is expected to hold (`expect`)
while copies into it overlap. `SourceOK`: the source of a copy that still promises
something is as it was when the copy began, because a write into a place spoils the
promises of those who read from it. `HeldOK`: what a copier has read of such a file
is what is expected. `PastOK`: once a copier is past a file, it holds what is
expected, or another one that has opened it, and was not cut off, is still writing
it. When the last copy into the place has nothing left on its list it is past every
file, and there is no other, so the files are exact. `ClientOK` gives the types
their missing fact: a handler works for at most the command that waits for it, and
only a command that asks nobody copies by itself.

### Progress

Every liveness property is model-checked only, because fairness speaks of ENABLED,
which is out of the prover's reach. For four of the six the argument is proved up
to that point: a rank, a natural number, falls with each step of the process that
is to end, and no step of its environment raises it.

| Property | Proved for every instance | Left to TLC |
|---|---|---|
| `NoticeLeadsToEntry` | `NoResultIsLost`: a wait of MigrateAll is for a result on its way; `MigrationComesToAnEnd`: the rank, over slots, goroutines, results and phases, falls; `ManifestCompleteHolds`: the entry is there | that the steps happen; the callback before MigrateAll |
| `RunEnds` | `RunGoesOn`: there is a next entry while the list is not empty; `RunAdvances`: six steps per entry | that they happen |
| `CommandEnds` | `CommandsAtWork`, `CommandAdvances`: two steps per file | that they happen |
| `HandlerReturns` | `RequestsComeToAnEnd`: the rank of each goroutine, then of the handler | that they happen, where no handshake or command hangs |
| `DrainCompletes`, `SpawnReturns` | `DrainerSafety`: a draining slot has a goroutine that will end the drain | the rest, for drains by force and on a spot warning |

## Not modelled

* Operations without a caller in the repository: Delete and List of the stores,
  Terminate of hosts, Unbootstrap, SignalShutdown of the bus.
* Commands that only print, flags, host.list and cluster.status, which only read;
  LoadConfig is input. Decoding errors and deadlines of the API server.
* Metrics: counters, and a ticker that reads Stats, which `Pool` models.
* The cache of the metadata token (six hours); a Dial of the bus that is given up
  leaves its goroutine to finish alone; failures of `rand.Read`; reuse of pids;
  read errors of the state file other than a file that is absent or cannot be
  parsed.
* Concurrent recover commands: each would read, resume and rewrite on its own and
  the last rewrite wins, so nothing can be promised beyond single runs.
* The bytes of what Bootstrap installs, of requests to EC2, and of snapshots.

## Order of the work

`SlotLifecycle`, `VM` and its proofs; `Pool` and its proofs; `Migrator`,
`SpotEviction`, `Recover`, `ClusterState`, `Spawn`, `SnapshotBuild`; then
`SessionMigration` and the two refinements, `SnapshotStore`, `Provisioning`; then
the proofs of all of them, those of `SnapshotStore` last, and of what can be proved
of progress.

Left for an extension: two recover commands at once over one manifest;
`ClusterState` and `Provisioning` over one state file.
