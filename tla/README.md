# Verification of pgdev

TLA+ models of `src/pgdev`, the tool that runs two disposable PostgreSQL
machines on a Mac and lets a developer snapshot, restore and promote them.
TLC checks the models on small instances; TLAPS proves theorems about the
transaction engine, snapshot and restore, the forwarder and promote, the store
bootstrap, the daemon, the LaunchAgent and the host's commands for every value of
their constants.

## 1. Inventory of the system

A host CLI (`cmd/pgdev`) talks HTTP to one daemon per virtual machine
(`cmd/pgdevd serve`). Each machine, one per slot `a` or `b`, runs one Incus
container with PostgreSQL on an XFS data store. A forwarder on the host maps a
stable port to whichever machine is active and another one to staging.

| component | state it keeps | operations | interacts by |
|---|---|---|---|
| task engine `internal/task/task.go` | none but the running call | Run, Recover, forward, resolve, rollback, ensures | calls Step.Do/Undo, Ensure.Run and the journal |
| file journal `internal/task/journal.go` | one JSON record per task id, on disk | Begin, Advance, Commit, Pending | temp file, rename, fsync |
| slot store `internal/store/store.go` | the directories of a slot, their content and mtime | List, After, Move, RemoveAll, StageClone, TouchNow, ... | file system only |
| store bootstrap `internal/store/bootstrap.go` | disk image, mount, fstab | Bootstrap, grow, RemoveSlotData | shell commands |
| ops `internal/ops` | none; builds tasks | Snapshot, Restore, RestoreLast, prune, unprune | hands tasks to the engine |
| incus backend `internal/backend` | container and PostgreSQL unit (external) | StopPG, EnsurePGRunning, StopContainer(Force), StartContainerAndWait, RepairIP, Launch, Delete | `incus` under a context |
| daemon `internal/daemon` | the mutation mutex | Snapshot, Restore, Start, Stop, Reconcile, Up, Down, RecoverPending | called by HTTP handlers under the client's context |
| pgdevd `cmd/pgdevd` | process | serve (recovery, then listen); one-shot snapshot, restore | systemd restarts it on failure |
| agent API `internal/agentapi` | bearer token | server, client with a 30 s default timeout | HTTP/JSON |
| forwarder `internal/forward` | targets, live sessions, listeners | Serve, watch, reload, handle | reads pointer and IP files |
| launchd `internal/forward/launchd.go` | the installed job | Install, Ensure, Restart, bootout | `launchctl`, asynchronous |
| active pointer `internal/activeslot` | one file: which slot is active | Get, Staging, Set | read by CLI and forwarder |
| host commands `cmd/pgdev` | none | up, down, promote, refresh, snapshot, restore, rebuild, deploy | HTTP, pointer, IP files, machine CLI |
| reconcile, blueprint | the proxy device | Reconcile | incus |
| applecli | machines (external) | Boot, WaitReady, Delete, Recreate | `container` CLI |

What is hard in it: a mutation is interrupted anywhere (crash, deploy, reboot)
and resolved by another process from a record that may lag behind the world;
every callback can fail half way; rollback and ensures run under the context of
the client that may just have gone away; clients of PostgreSQL keep writing;
the journal itself may fail to be written; host decisions (confirm, promote,
rebuild, forward) are taken on state read earlier. `PROJECT.json` lists each of
these hazards at its line, with the properties that cover it.

What makes each component correct:

- engine and journal: a mutation is applied or undone, never between; what is
  durable is never turned back; success is reported of an applied mutation only;
  a killed daemon eventually resolves what it left behind;
- ops and store: the same of the actual directories, plus: nothing that may have
  to be put back is ever destroyed, snapshots are copies of a quiet cluster, the
  listing is in the order of creation, PostgreSQL is up again at the end;
- daemon: one mutation at a time, recovery before every mutation;
- daemon provisioning: Up leaves a machine that serves or can be asked again,
  the golden image is whole, Down removes data under no container;
- store bootstrap: the image is complete or absent, data on it is never
  replaced, containers exist only where the mount precedes them at boot, and what
  failed bootstraps leave behind does not keep the next one from serving;
- forwarder: no session and no new connection stays on a machine that lost the
  role; the two roles lead by the files of two slots; it converges on the files;
- launchd: installing frees the ports of what the old agent left, and `make start`
  gets a forwarder on them whatever it starts from;
- host: a promote hands over to a machine that runs, a confirmed one is routed; rebuild never deletes the active machine
  and can be repeated; a restore discards only what the user confirmed and
  restores what it announced.

## 2. Modules

| module | models | extends or instantiates |
|---|---|---|
| `TaskEngine` | the control of `internal/task`: one action per operation of Run, Recover, forward, resolve, rollback, ensures and the journal, with each error return, and the kill of the process; steps are abstract | |
| `TaskContract` | `TaskEngine` over steps that keep the package's CONTRACT: a step's effect is none, partial or done | EXTENDS `TaskEngine`; `AtomicTask` |
| `AtomicTask` | what the engine promises: open, apply, close | |
| `PgOps` | snapshot and restore of one slot: the step lists of `internal/ops` as primitive calls on directories and the container, run by `TaskEngine`; clients that write | `TaskEngine`, `AtomicTask` |
| `StoreBootstrap` | `pgdevd bootstrap` command by command | |
| `DaemonService` | the resident daemon: requests, mutex, provisioning, what is left behind; one-shot `pgdevd` processes | |
| `Routing` | what the forwarder promises a client | |
| `Forwarder` | the watcher, the client goroutines, the report, the process, the files | `Routing` |
| `Promote` | `pgdev promote` against a running forwarder | EXTENDS `Forwarder` |
| `HostRoles` | role to slot to address to machine: up, down, ip, refresh, deploy, promote, staging start, stop and rebuild | |
| `HostRestore` | snapshot and restore as a user sees them, against a daemon that looks again | |
| `Launchd` | the LaunchAgent of the forwarder: install, ensure, restart, uninstall | |
| `TaskContractProofs`, `PgOpsProofs`, `ForwarderProofs` (also of `Promote`), `StoreBootstrapProofs`, `DaemonServiceProofs`, `HostRestoreProofs`, `HostRolesProofs`, `LaunchdProofs` | theorems | the component, TLAPS |
| `MC...` | the constants of the instances TLC checks | |

How state and actions correspond to the code:

**TaskEngine.** `task` and `record` are the file in the journal directory
(`record` is `Record.Completed`; `NoRecord`, no file). `pc`, `at`, `phase`,
`caller` and `err` are the call stack of the process: `caller` is the entry
(`cmdServe`, a request's RecoverPending, `task.Run`), `phase` tells forward
called by Run ("run") from forward called by resolve ("rollforward"), its
failure ("kept": the record stays) and rollback. `reply` is what the call
returned. A crash loses all but `task` and `record`. The modules above conjoin
their variables to the engine's actions: an engine action says what the journal
and the call do, the module using it what happens to the world in the same step.

**PgOps.** A path is a pair <<kind, name>>: `current`, `current.restore-new`,
`current.restore-old`, `snapshots/NAME`, `.stage.NAME`, `.replaced.NAME`,
`.restore-prune` and the snapshots inside it. A directory is its content (a
version of the cluster, Torn, Empty or Gone) and its mtime; the clock is later
than every stamp (`Now`), and a listing is what comes before what (`List`). A Do
or Undo is a
sequence of primitives; `sub` counts those executed, and a kill may fall between
any two and tear the tree a clone or a removal is working on. No incus command
and no copy succeeds under a `cancelled` context. `before` and `after` are
history: the slot when the task began, and the slot the operation promises,
stated on what a user sees and not on the steps. `marred` records which of the
six events the engine does not withstand have happened (`Marrings`): an undo
that failed, an ensure that failed, the undos of a replacing snapshot run a
second time, a record left behind the commit point, an empty live directory that
a restart made in the place of one that is set aside, and a mutation that begins
on what one of these left over. `Bootstrap` is the unit's `ExecStartPre`, which
makes that directory (`store.EnsureLayout`) before the daemon recovers; it may
fail first, so it may or may not happen before `Starts`.

**StoreBootstrap.** Files are inodes under the names `image.creating` and
`image`, so that a rename over a mounted image is what it is. `disk` has the
size of each file, of the XFS on it (0: none) and whether it holds data;
`loopSize` what its loop device has taken notice of. One action per command of
`createImage`, `ensureFstab`, `mountChecked`, `verifyReflink`, `grow` and of
`Service.Bootstrap`. `Spec` is the program where each command finds what the one
before left; `PairSpec` adds the commands that find nothing because another
bootstrap took it away, which only two at a time can meet.

**DaemonService.** `req` is a handler with its position; `live` is its client,
whose context every command runs under. `records` are the kinds of journal
records; a task's steps are in PgOps, here a task is its record, what it does to
the container, and whether its resolution returns nil: `resolve` removes the
record whatever became of undos and ensures (`Resolve`), unless it cannot be
removed. `golden` and `build` are the image and the container it is built in.
The daemon asks `incus info` whether there is a container and takes every failure
for no (`Exists`, `Unanswered`); `missed` is history, a Down that did so of a
container that was there.
`DaemonStart` is systemd with its `ExecStartPre` bootstrap that may fail;
`DaemonRecovers` the recovery before it listens.

**Forwarder, Promote.** `reload` is the reload in progress with its locals:
the pointer and the two address files are read one after the other while
`SetPointer` (a rename, atomic) and `TruncateIP`/`WriteIP` (`os.WriteFile`, not
atomic) write them. `conn` is a client's goroutine between reading the table,
dialling and registering; `late` is history, the clients in between at the last
swap. A read that fails is no error: the pointer then says "a" (`PointerUnread`;
`fallback` is history, the table comes of such a reload), an address file nothing
(`AddressUnread`). The two slots may have addresses in common. Under the lock the table is replaced and the sessions it drops leave the
table of live ones (`Swap`); their connections are closed after it, one by one
(`CloseDropped`). `Promote` adds the two status calls, the flip
and the wait for `forward-state.json`.

**HostRoles.** `machine` has life, lease, daemon on disk, unit, answering
daemon, backend and data of each slot, `ipFile` and `pointer` the files in
`var/`. A command carries the slots it still has to do and the address it took:
a stale address reaches whichever machine has it now (`Answers`), and every
daemon takes the token. A call of a daemon is one step. `misses` counts live
readings of an address that failed. An `up` looks at the pointer and writes it in
two steps (`UpStat`, `UpSet`); a machine is stopped before it is deleted, so a
delete that fails may leave it so, and a `machine inspect` that fails counts as
absence (`StopsOrNot`, `DeleteUnseen`).

**HostRestore.** `timeline` is a machine's listing in order; `work` the task its
daemon runs, during which a listing sees the task's work and after which it is
applied or rolled back (as TaskContract shows). The command keeps what it
showed (`agreed`, `target`) and, history, what it saw (`seen`).

**Launchd.** `job` is what launchd has under the label, `proc` its process,
`port` who listens. launchd, the kernel and socat are external: KeepAlive starts
what is loaded, a bootout is asynchronous, children of socat outlive it. A plist
may be written half (`torn`), a command interrupted between two of its calls, and
the reap is best effort (`ReapListeners`): `unreaped` is history, the last one left
socat on the ports.

Operators named `Bad...` are deliberately broken variants of the definition that
follows them. No specification uses them; each was put in the place of the
correct one to see that a property depends on it.

## 3. Runs

The composition of components that interact is either one specification
(`Promote` with `Forwarder`, `PgOps` with `TaskEngine`) or one module standing on
what another shows: `DaemonService` takes a task to be resolved in one step,
`HostRestore` takes it to be applied or rolled back, `HostRoles` takes a call of
a daemon to be one step.

| run | instance | shows |
|---|---|---|
| `task_faults` | 3 shapes of task (commit before the last step, at it, at 0), 3 to 4 steps; kills, failing reads, begins, steps and removals | the inductive invariant; NeverBetween, NilMeansApplied, EnsuredBeforeCleared, DurableEndsApplied; the refinement of AtomicTask |
| `task_live` | the same shapes, every fault | RestartResolves |
| `ops` | 3 names; a slot as Up leaves it, or three snapshots; 2 mutations, up to 2 client writes, 2 kills that may take the machine down; failing commands, copies and journal writes, clients that go away | Converged, NothingLost, NilMeansApplied, RunningWhenCleared, CopiedQuiesced; the refinement of AtomicTask |
| `forwarder` | 1 client, 2 addresses, one of them in both slots' files, 2 writes of files, 1 end, failed start or failed read | StaleOnlyIfLate, RolesApart; the refinement of Routing; Settles |
| `promote` | the same addresses, 3 writes, 1 end, failed start or failed read, promotes that are refused, interrupted or wait | ConfirmedRouted |
| `bootstrap` | 3 inodes, 3 sizes, 4 faults, 2 changes of size, one at a time | ImageComplete, DataKept, BootOrder, GrownOutsideIn, NextServes |
| `daemon` | 2 requests of all seven operations, 1 fault, 1 client that goes away, 1 record that cannot be removed | KeptUnderContainer, GoldenComplete, UpLeavesReady, ReplaysOnlyInterrupted; AlwaysReadyAgain, DaemonComesBack |
| `roles` | 3 addresses, all nine commands one at a time, 1 failing step, 1 unread address, 2 restarts of the Mac | ActiveNeverTouched, ReportedIsDone, PromotedIsRunning |
| `roles_again` | rebuild and stop, 2 failing steps, 1 unread address, 1 restart | AlwaysStagingAgain |
| `restore` | 2 commands at a time, 3 names, 3 snapshots, 1 promote | NothingLostUnasked, ConfirmedUnlessNew, RestoresUnlessMoved, the order of a timeline |
| `launchd` | 2 commands at a time, 2 of them not `make start`, 2 faults (crashes, interrupts, failed calls, plists and reaps), 1 unanswered print | InstallDone, ServesAgain |
| `cancel_restore` | 1 client that goes away | the violation of NeverBetween (finding) |

Bounds, and why they are enough. *ops*: three names give a snapshot to replace,
one to keep and two to prune, between whose renames a kill may fall; two
mutations are one that leaves something behind and one that meets it; the second
kill interrupts the recovery from the first. *task*: shapes are small because
the theorems cover the others. *forwarder*: a session is late against one swap
and one flip; two writes flip and flip back or flip and rewrite an address; the
theorems cover any number of clients, writes and faults. *promote*: the third
write is the second flip next to an address that is rewritten; one fault, for a
failed read, an end and a failed start each meet every promote. *bootstrap*: an
image being made, one left half made and one in use are three inodes; the
theorems cover any number of each. *daemon*: a second request meets every
intermediate state of the first, and its client, daemon or machine may be gone;
the theorems cover any number of requests and faults.
*roles*: the third address is the fresh lease of a machine that is made again
while the old one is in the other's file; the second restart undoes what a
command did after the first. *restore*: the second command snapshots, restores
or replaces between any two steps of the first. *launchd*: `MaxBootouts` and
`MaxBootstraps` (2 and 2 for the 20 and 4 of the code) let every retry succeed,
fail or run out, and as many faults as bootouts let launchd refuse all of them. `CHECK_DEADLOCK FALSE` stands where a bound, or a user who has nothing
more to ask, ends the behaviours.

What the conditions of properties exclude:

- *Converged, NothingLost, RunningWhenCleared* (`PgOps`): a slot that is
  `marred`. Converged admits failed ensures; NothingLost failed undos, failed
  ensures and the restart that makes an empty live directory. That restart takes
  no second event: one kill between the two renames of swap-data (`ops.go:218`)
  leaves no live directory, bootstrap makes one, and the undo that is to put the
  old one back refuses (`MCPgOps_one_kill`). Admitted is everything else: a kill
  anywhere but there, or there with a bootstrap that fails, a second kill where
  no replacing snapshot was being undone, every failing incus command, copy and
  journal write other than the one that loses a commit, and clients that go away
  where no undo fails for it.
- *KeptUnderContainer*: a Down whose question after the container failed although
  there is one, `incus info` by itself or because the client was gone (`missed`).
- *ReportedIsDone, the first part of ActiveNeverTouched*: an address that could
  not be read.
- *PromotedIsRunning*: two address files that hold one address. The model has no
  probe of the machine behind an address, as the code has none.
- *InstallDone*: a print without an answer; as many faults as bootoutWait makes
  attempts, for when each of them fails the old agent stays loaded, and `Install`
  reaps and bootstraps next to it; and a reap that came to nothing (`unreaped`:
  no `lsof`, or one that fails), after which `Install` goes on as well. An `lsof`
  that never works is outside ServesAgain too: faults are bounded.
- *ConfirmedRouted*: promotes onto the slot the report named already, and tables
  of a reload that could not read the pointer (`fallback`): they have the roles of
  "a" until the next tick.
- *RolesApart* says by whose file a role leads. Leases drift, so both files may
  hold one address, and then both roles lead there; nothing in the code prevents it.
- *ConfirmedUnlessNew, RestoresUnlessMoved*: machines that gained a snapshot
  since the listing; for `restore-last`, ones whose latest snapshot is another.

Each of them is broken where it is excluded, by one of the configurations below.

### Fairness

- `TaskContract`: weak fairness of the process's next step and of its start:
  code that can run does, and systemd restarts the daemon (`Restart=on-failure`,
  `cmd/pgdev/deploy.go:43`). No request, no success of a callback, no absence of
  faults is assumed; RestartResolves speaks of behaviours in which faults cease.
- `Forwarder`: weak fairness of a reload's steps, of launchd's KeepAlive, of each
  handler and of finishing a file write (reads go on failing only finitely often,
  `MaxFaults`); strong fairness of watch's return, for
  its `select` picks at random among what is ready.
- `StoreBootstrap`: a bootstrap that began goes on. Nobody has to start one: the
  unit runs it when the daemon starts and serves without another when it fails
  (`cmd/pgdev/deploy.go:37-41`). NextServes speaks of the bootstraps there are.
- `DaemonService`: strong fairness of a request's steps (the mutex is fair to
  waiters), weak fairness of the daemon's start and recovery and of `make start`
  where the store is not mounted; a user who finds no backend asks for `up`, and
  one who finds a backend that does not serve follows Up's error message, `down`
  and `up` (`daemon/provision.go:81`).
- `HostRoles`: a command's steps go on, the unit starts the daemon, the user says
  yes and asks for the rebuild again while staging is not whole.
- `Launchd`: launchd starts what is loaded and finishes a bootout, whoever took
  the ports gives them back, `make start` is run again and again by a user who
  lets what it loaded bind its ports, and not each time in the instant between the
  start of a crash-looping process and its exit (launchd waits ten seconds in
  between).

### The finding, and other deviations

`cancel_restore`: `resolve` clears the journal record even when an undo failed
(`task/task.go:154`). A client that disconnects or times out during a restore's
start-container makes the undo of swap-data fail under the same cancelled
context: restored data live, the old data aside, and no record. `task.go:15` and
the de-shelling spec promise "never between".

The other configurations of the directory are not part of the listed runs. TLC
finds the property of each violated by what the code does:

| configuration | property | code | what is said of it |
|---|---|---|---|
| `MCPgOps_one_kill` | NeverBetween | `store/store.go:51`: after a kill between the renames of swap-data the restart makes an empty `current` before it recovers; the undo then finds both directories and fails, and `task.go:154` clears the record | `task.go:15-25`; `doc/issues/0001-pgdev-de-shelling-spec.md:223` "never between" |
| `MCPgOps_two_crashes` | NeverBetween | `ops/ops.go:123`: the undo of install, run twice, deletes the snapshot the first run put back | `task.go:21-25` "MUST be idempotent and convergent" |
| `MCPromote_interrupted` | Promoted | `main.go:222`: a promote after an interrupted one is confirmed by the report from before both | `main.go:217-218` |
| `MCPromote_port_taken` | ConfirmedAlive | `forward/forward.go:89`: the report is written before the ports are bound | `forward/state.go:26-27` |
| `MCPromote_stop_race` | FlipsOntoRunning | `commands.go:276`: the states are read, then the pointer is written | `commands.go:264-265` |
| `MCStoreBootstrap_grow` | ServedGrown | `store/bootstrap.go:126`: grow looks at the file; a kill after truncate leaves the filesystem small for good | `bootstrap.go:14-17` "is grown to `size` if it was raised" |
| `MCStoreBootstrap_two` | DataKept | `bootstrap.go:72`: the slower of two bootstraps renames its empty image over the one in use | `cmd/pgdevd/main.go:73` "safe to run standalone" |
| `MCDaemonService_unanswered_down` | DataUnderContainer | `backend/incus.go:356`: an `incus info` that fails, of a running incusd too, counts as absent, and Down removes the data under the container | `daemon/provision.go:171-173` "only removed once the container is gone" |
| `MCDaemonService_oneshot` | ReplaysOnlyInterrupted | `cmd/pgdevd/main.go:145`: a one-shot command recovers the record of a task the daemon is running | `main.go:129-130` "any interrupted prior mutation" |
| `MCHostRoles_promoted` | ActiveNeverTouched | `commands.go:535`: staging is decided before the question; a promote makes it the active one | `commands.go:525-526` "never touched" |
| `MCHostRoles_up_race` | UpKeepsRoles | `commands.go:43`: up looks for the pointer and writes it in two steps; a promote in between is flipped back | `commands.go:41-42` "the first time the pointer file has never been written" |
| `MCHostRoles_swapped` | StagingOnly | `main.go:111`: a cached address that became the other machine's | `commands.go:455` |
| `MCHostRoles_refresh` | RefreshedIsLive | `commands.go:319`: refresh writes the cached address back | `commands.go:313` "Re-discover both machine IPs" |
| `MCHostRoles_unread` | DeployedMeansLive | `deploy.go:172`: the handshake dials the old address when the live one is not read | `deploy.go:202` |
| `MCHostRestore_newer` | ConfirmedOnly | `commands.go:440`: yes becomes force, which covers what is newer by then | `commands.go:405-406` |
| `MCHostRestore_last` | RestoresWhatItSaid | `commands.go:444`: restore-last is resolved again by the daemon | `commands.go:424` |
| `MCLaunchd_looping` | HealthyServes | `launchd.go:177`: an agent that crash-loops is healthy when looked at in the right instant | `main.go:176-179` |

Four need no run: an Advance that fails at the commit point and once more
(`task/task.go:130`) makes the next recovery roll back a task whose replaced
snapshot is gone, the marring `advance` of `PgOps`; the ensures of a snapshot run
under its client's cancelled context (`task.go:155`), so PostgreSQL stays down
although `ops/ops.go:99` "restarts PG on every exit", the marring `ensure`; `cmd/pgdev/main.go:128` truncates an address file before it writes
it, and a reload in between drops every session of the role though its machine kept
the address (`forward/router.go:24-25`); `daemon/service.go:2-5` says that every mutation first replays
what a predecessor left, and Start, Stop, Up and Down do not call RecoverPending.

## 4. Proofs

| theorem | statement |
|---|---|
| `TypeCorrect` | Spec => []TypeOK, whatever the faults |
| `Invariance` | Sound => (Spec => []IInv) |
| `Convergence` | Sound => (Spec => []NeverBetween) |
| `NilIsApplied` | Sound => (Spec => []NilMeansApplied) |
| `DurableIsFinal` | Sound => (Spec => DurableEndsApplied) |
| `Ensured` | "ensure" not a fault => (Spec => []EnsuredBeforeCleared) |
| `Refinement` | Sound => (Spec => Atomic) |
| `SlotTyped`, `SlotSafe` | Spec => []TypeOK, []SlotInv |
| `NilIsTrue`, `CopiedAtRest`, `ClearedIsUp` | Spec => []NilMeansApplied, CopiedQuiesced, RunningWhenCleared |
| `SlotIsAtomic` | Spec => Atomic |
| `SlotRecovers` | Spec => []BackInv |
| `EndsBeforeOrAfter`, `NothingIsLost` | Spec => []Converged, []NothingLost |
| `ForwarderTypeCorrect` | Spec => []TypeOK |
| `StaleSessions` | Spec => []StaleOnlyIfLate |
| `RolesStayApart` | Spec => []RolesApart |
| `ForwarderRefinesRouting` | Spec => Routes |
| `ConfirmedPromotesRoute` | PromoteSpec => []ConfirmedRouted |
| `ImageAlwaysComplete`, `DataAlwaysKept`, `BootOrderKept`, `GrowsOutsideIn` | Alone => (Spec => []...) |
| `DaemonTyped`, `GoldenIsComplete`, `DataKeptUnderContainer` | Spec => []TypeOK, []GoldenComplete, []KeptUnderContainer |
| `UpIsReady`, `OnlyInterruptedReplayed` | OneShots = {} => (Spec => UpLeavesReady), (Spec => ReplaysOnlyInterrupted) |
| `TimelinesOrdered`, `UnaskedLosesNothing`, `ConfirmedIsShown`, `RestoresTarget` | Spec => []TypeOK, NothingLostUnasked, ConfirmedUnlessNew, RestoresUnlessMoved |
| `AgentTyped`, `RetiredIsGone`, `InstallFreesPorts` | Spec => []TypeOK, []GoneInv, InstallDone |
| `HostTyped` | Spec => []TypeOK |
| `RebuildKeepsOff`, `ReportsAreTrue`, `PromoteHandsOver` | OneCommand => (Spec => ActiveNeverTouched), (Spec => ReportedIsDone), (Spec => PromotedIsRunning) |

**TaskContractProofs**, for every set of tasks, number of steps, commit index
and set of undoable steps, from `EngineAssumption` and `ContractAssumption`.
`Sound` names the faults under which the promise can hold at all: no undo fails
(the finding), and progress writes do not fail or the task commits with its last
step (the marring `advance` of `PgOps`). NeverBetween is not inductive: that a record is only
removed of a resolved task depends on what the running call knows, which depends
on what the record said when the call began. `Knows` has one conjunct per
situation. `RecordTellsTruth`: steps before a durable record are done, steps
beyond the one in progress of any other have no effect. `ForwardKnows`: forward
is at the recorded step and everything before it is done. `RollbackKnows`:
rollback is below the commit point and everything above its index is undone.
`ResolvedKnows`: at the ensures the task is all done or untouched, as its phase
says. `RestKnows` ties the error to the rollback. `TypeInv` adds where `at` may
be. The refinement first shows that only four kinds of step move the record
(`RecordMoves`) and maps each to AtomicTask.

**PgOpsProofs**, for every set of names, initial timelines, number of mutations,
writes and kills, and every set of faults: no hypothesis but `OpsAssumption`. A Do or
an Undo is a sequence of primitives whose length depends on what is pruned, so the
first part says of each step which primitive comes when (`SnapshotDo`, `RestoreDo`
and their undos) and what each primitive leaves of each path. `SlotInv` is inductive:
`Typed` (types, and how `pc`, `phase`, `at` and `record` go together, `EngineInv`),
`WorldInv` (nothing comes from the future, PostgreSQL runs on a complete cluster
only, the undo of swap-data has a stopped container), `SnapshotForward` and
`RestoreForward` (in a forward run the promised state can be read off the
directories after every primitive: of what is live, then of the staged clone, then
of what was installed or swapped in) and `AppliedInv` (beyond the commit point the
user sees the promised state). The last needs the two before it at the advance to
the commit point; they need `WorldInv`, for a snapshot is the youngest of a listing
because no stamp is later than the clock, and a client's write can change what a
snapshot promises only while nothing is copied, because PostgreSQL is down from its
first step on. The refinement maps the abstract task to the record: it is applied
when the record reaches the commit point.

`BackInv` adds to it what makes an interrupted mutation recoverable, and gives
Converged and NothingLost. `SlotInv` says nothing of a run that turned back, and
Converged by itself is far from inductive: it speaks of the moment the record is
gone, when the undos are over. `UndoableInv` therefore says, below the commit point,
that the slot as it was can be read off the directories (`Old`: a snapshot under its
name or under the name it was set aside as, the live data in `current` or in
`current.restore-old`), that there are no transaction directories of anyone else
(`NoOthers`), and that each undo finds what it needs: `SnapshotBack` follows the
replaced snapshot (`Whole`: before the undo of step k it is where that undo looks)
and what steps beyond the reached one have left (`SnapshotBelow`); `RestoreBack`
follows the live data through the two renames (`Aside`, told apart by whether the
new ones are live) and each snapshot to prune, which is in exactly one of two places
(`Apart`) and has come back once the rollback has passed its index. `CleanInv` says
of a durable mutation what is left to remove, up to nothing when its last step is
done (`Cleaned`). `ClosedInv` carries both to the states in which no mutation is
open: the view is that of before or after and nothing is left, or, when an undo
failed, the live data at least are still aside. Kills come for free, a crash
changes no directory; what makes the proof long is that an undo may start after any
primitive of a Do that failed half-way, and again after any primitive of itself.
After the second undo of `MCPgOps_two_crashes`, or an Advance lost at the commit
point, the replaced snapshot is not where `Whole` has it for the next undo: there
the invariant stops being inductive, and there `marred` ends the promise. The same
goes for the empty directory that a restart makes between the two renames of
swap-data. `UndoableInv` admits it (`Aside`: with the live data aside, what is in
their place is the restored data or empty), and the undo that cannot move anything
over it ends in the second half of `ClosedInv`.

**ForwarderProofs**, for every set of clients and addresses, every bound and
fault, from `ForwarderAssumption`. StaleOnlyIfLate is strengthened by what a
handler between reading and registering knows (`LateInv`): its target is its
role's, or it is late. RolesApart is carried from the files to the table
(`ApartInv`): `FilesInv` (a file holds an address of its own slot or none),
`ReloadInv` (so do the locals of a reload), `TableInv` and `ReportInv`. The
refinement maps a handler to Routing's `session`, which the proof takes apart
handler by handler (`View`): a goroutine is admitted when it reads the table and
open once it is registered. ConfirmedRouted rests on `RouteInv`: after the flip
the pointer stays on the promoted slot (`PointerInv`), and a report with news of
it was written by a reload whose table leads there (`NewsInv`), unless a read of
the pointer failed: such a reload says so until its table is replaced (`fallback`).

**StoreBootstrapProofs**, for every set of inodes and sizes, every bound, with
one bootstrap at a time (`Alone`; two are the deviation above). `StoreInv` joins
the four properties to what makes them inductive: `image.creating` and `image`
are two files and only the image holds data, the image has a filesystem, what is
mounted is the image with its device between filesystem and file, and the
declared topology comes after everything else. `Making` says what a bootstrap
that creates has where it is: there is no image, and `image.creating` is sized,
attached and formatted in that order, so complete when it is detached and
renamed. `Using` says the same of the steps that follow: there is an image, then
the fstab entry, the mount, the layout, the ordering.

**DaemonServiceProofs**, for any number of requests and one-shot processes, any
set of operations and every bound. What is inductive is `Good`: the type
invariant, whose last clause is the mutex (of the requests only one is beyond
`lock`), and `IInv`: where a request can be by its operation, no request goes on
without a daemon, a build container that has got to being stopped has
PostgreSQL, an absent container is wholly absent, and the data parts: Down is at
its wipe only over an absent container, or one it could not ask about
(`missed`). `UpLeavesReady` and
`ReplaysOnlyInterrupted` assume `OneShots = {}`: a `pgdevd snapshot` beside the
daemon takes no mutex the daemon sees, and breaks both
(`MCDaemonService_oneshot`). `UpInv` then says how far an Up has come at each of
its steps; that nobody else moves the container meanwhile is the mutex.

**HostRestoreProofs**, for any number of commands, names, snapshots and promotes.
Snapshots are ordered by their number and a name is in a timeline once
(`Ordered`), which holds of what a task works on, of what it would leave and of
what it falls back to (`Timed`). From there `Asked` is what a command knows: what
it agreed to lose is newer than its target in what it has seen, and it sends
force only with a flag or a yes. The lemmas say what `After`, `Upto`, `Without`
and `Added` keep of an ordered timeline.

**LaunchdProofs**, for any number of commands and every bound. `GoneInv` has one
conjunct for each step of an install: the plist is no longer the retired one;
while the retired agent is loaded every bootout so far has failed; from the reap
on it is not loaded, and at the bootstrap its children do not have the ports
unless the last reap came to nothing. It is inductive only where not all bootouts
fail: the attempt to prove InstallDone without that condition stops at an install
whose every bootout was refused, and TLC reaches it once `MaxFaults = MaxBootouts`,
as the run has it now.

**HostRolesProofs**, for every set of addresses, commands and bounds. HostTyped
carries the leases (no two machines share an address, an address is held exactly
while a machine is up) through every command. The other three assume one command
at a time (`OneCommand`): a promote while a rebuild waits at its prompt makes the
slot it holds the active one (`MCHostRoles_promoted`), and a stop of the staging
machine between a promote's calls and its flip hands over to one that is down
(`MCPromote_stop_race`). `WorkInv` says that a rebuild
has the staging slot in hand from first to last, that the machine it makes has no
backend until it asks for one, and what a deploy has reached at each of its steps
(`Reached`): the machine up, the file with its address, the binary shipped, the
daemon restarted, the client of that daemon. PromotedIsRunning needs what a
promote knows between its two calls: the address it called first was answered by a
machine with a running backend, whichever that was, and since addresses are
leased to one machine at a time two addresses were answered by two machines.

Only model-checked: every liveness property (RestartResolves, Settles,
NextServes, AlwaysReadyAgain, DaemonComesBack, AlwaysStagingAgain,
ServesAgain), since liveness under fairness is out of the prover's reach. Every
safety property of the runs is a theorem, those of the deviations (section 3)
apart: they are violated.

## 5. Not modelled

- the text of the PostgreSQL scripts (`internal/pg`): `DaemonService` has what
  running them leaves; configuration and logging: no state;
- JSON, routing and the token of the agent API beyond what reaches the state;
- name validation, sizes that do not parse, permissions except as a call that
  may fail; `RequireMounted` is whether the store is mounted;
- mtimes as clock readings: snapshots are ordered by when they were taken, and a
  clock that is set back is not modelled;
- durations: a timeout is a choice, retry loops end in one of their outcomes;
- restarts of a single machine in the middle of a host command other than the
  restart of the whole Mac; the macOS privacy permission of the LaunchAgent; the
  back-off of a failing accept and the log of failed dials;
- the loss of unsynced renames of data directories in a power failure: a crash
  keeps what was on disk; cancellation of the boot-time recovery by a signal;
- several records of one kind in one journal.

## 6. Plan

Done, in the order of the plan: the engine and its theorems, ops, the forwarder
with Routing and its theorems, promote, the store bootstrap with its theorems,
the daemon with provisioning, the host's roles, restore and launchd. The safety
properties of every module are proved. Left: mtimes and clock steps in `PgOps`; the recovery of `HostRoles`
commands from a single machine that stops.
