# TLA+ model of checkpoint-runtime

checkpoint-runtime coordinates the checkpoints of distributed training runs. A
Python control plane keeps the state of runs, checkpoints and workers; a Rust
data plane streams checkpoint shards into an object store; workers upload
shards, ask for a commit, and restore after a failure.

## The system

| Part | State | Operations | Talks to |
|---|---|---|---|
| Run state machine (`state_machine.py`) | the state of one run | `transition`, `can_transition` | Coordinator |
| Coordinator (`coordinator.py`) | `_fsms` in memory; runs, checkpoints and workers in the key-value store | create/transition a run, create/update/delete a checkpoint, register/heartbeat a worker, list by prefix | in-memory or etcd store |
| REST API (`api/rest.py`) | `_CHECKPOINT_SHARDS`, event queues, restart flags, visitors, activity feed, all in memory | run, checkpoint, shard, worker, event, metric and demo endpoints | Coordinator, data plane (gRPC), docker, object store |
| Recovery manager (`recovery.py`) | the recovery checkpoint of each run, in memory | failure callback: FAILED, abort records, RECOVERING, restart the group | Coordinator, REST's restart scheduler |
| Heartbeat manager (`heartbeat.py`) | leases, in memory | register, heartbeat, periodic scan | calls back Worker and Recovery managers |
| Worker manager (`worker_manager.py`) | index of registrations, rank counters, in memory | register, supersede, deregister, heartbeat, rehydrate | Coordinator, Heartbeat manager |
| Retention manager (`retention.py`) | none; works from a listing | periodic pass in a thread | object store, Coordinator |
| Data plane (`grpc_service.rs`, `checkpoint/`) | queue depth | WriteShard, CommitCheckpoint, AbortCheckpoint, ReadShard | object store |
| Training harness (`train.py`) | model, worker id | heartbeat thread, save, restore, resume; its log | REST API |
| Web console (`frontend/src/pages`) | per page: what was fetched, spinner, error, open rows, modal; on the demo page a simulated run | poll, post, render, timers | REST API |
| Live panels (`frontend/src/components`, `hooks`) | parsed log, event list, polled status, opened manifest | event sources, polling, clicks | REST API |
| App shell (`App.tsx`, `ThemeToggle.tsx`) | saved scroll positions, menu, theme | navigate, toggle, redirect | the pages |
| SDK (`sdk/client.py`) | none | one request per call | REST API |

Hard parts. The control plane is one asyncio loop: a handler runs alone between
two awaits, but several handlers await the data plane at once and resume in any
order, with what they read before the await. A handler makes several separate
writes to the store; each may fail, and the process may die between any two. A
gRPC call has no timeout, its answer can be lost, and it can take effect after
the handler, or the whole control plane, has given up on it. Memory (state
machines, tracked shards, leases) is rebuilt from the store after a restart.
Failure detection, restarts of the worker group and retention run beside all
this. In the data plane every write is two tasks joined by a bounded channel, one
of which is dropped when the client resets its stream. In the browser a page
starts a round of calls every few seconds whether or not the last one has
answered, stores answers in the order they arrive, and handles clicks with the
values of its last render; React runs the effects of a render later; an
EventSource reconnects and asks for nothing it missed. `PROJECT.json` lists these
hazards at their lines.

What makes each part correct: a run only moves along `VALID_TRANSITIONS`; a
checkpoint recorded COMMITTED has a manifest whose shards exist; references
between records never dangle; recovery never disturbs committed work; every
handler returns; one ACTIVE registration per rank, each watched by a lease; a
failure is acted on once; retention never deletes what a run can resume from and
does bound the storage; a write that is answered is stored whole; an event is
delivered in order and once, or its loss is explained; a page acts on what it
shows, says what is saved only when it is, and catches up with the server.

## Modules

**`RunLifecycle`** is the abstract specification of a run: one variable,
`runState`, that is created once and moves along `VALID_TRANSITIONS`.

**`CheckpointProtocol`** is the core. Its state is what the code keeps, by where
it lives:

| Variable | Code |
|---|---|
| `runState`, `lastCkpt` | `RunStatus.state`, `.last_checkpoint_id` in the store |
| `ckptState`, `ckptStep` | `CheckpointInfo.state`, `.step` in the store |
| `fsm` | `Coordinator._fsms[run]` |
| `tracked` | `_CHECKPOINT_SHARDS` |
| `recoveryCkpt` | `RecoveryManager._recovery_checkpoints[run]` |
| `loop` | the handler segment that holds the event loop, between two of its store writes |
| `req` | handlers awaiting a data-plane call, with the answer once it came |
| `rpcs` | data-plane calls and how far each has got; `NoReq` owns a call nobody waits for |
| `objects`, `manifested`, `manifest` | shard objects, the presence and the content of `_manifest.json` |
| `everFailed` | history: the checkpoints whose record was ever FAILED |

Actions. The run endpoints are `CreateRun`, `StartRun`, `CancelRun`,
`CompleteRun`, `FailRun`, `ResumeRun`, and `RejectedTransition` for a 409 (which
still leaves a state machine in memory). `TriggerCheckpoint`,
`CreateCheckpoint`, `SetLastCheckpoint` are the three writes of POST
/checkpoint. `UploadShard` and `ShardUploaded` are the two halves of an upload;
`CommitRun`, `CheckpointCommitted`, `CommitTransition` are those of a commit;
`CallFailed`, `AbortRun`, `AbortAnswered` are the failure path of either
(`_abort_failed_checkpoint`). `WorkerFailure`, `AbortPending`, `AttemptRecovery`
are the recovery manager's callback. `StoreShard`, `CheckManifest`,
`PutManifest`, `ListShards`, `DeleteShard`, `RpcReply` are the steps of the data
plane that read or change the store. Faults are `RpcFail` (a call ends in an
error wherever it has got), `ConnectionLost` (the handler gets an error, the
call goes on), `Restart` (the control plane's memory is lost, its calls go on)
and, inside the actions, store writes that raise whether applied or not.

One run is modelled: checkpoints, state machines and tracked shards are keyed by
run or by checkpoint, so runs share nothing that these actions touch. Shards are
content-addressed objects, so one element stands for an upload of equal bytes by
any rank. Reading a body, formatting answers, events, logging and byte counts are left out.

**`MCCheckpointProtocol`** adds two budgets for TLC: `MaxCalls`, the uploads and
commits started in a behaviour, and `MaxFaults`. **`CheckpointProtocolProofs`**
holds the theorems.

**`WorkerLiveness`** models the workers of the supervised run: registration,
heartbeats, failure detection and the restart of the whole group.

| Variable | Code |
|---|---|
| `kvStatus`, `rank` | `WorkerInfo.status`, `.rank` in the store; `"NONE"` is no record |
| `index`, `members`, `nextRank` | `WorkerManager._workers` (the status), `_run_workers`, `_rank_counters` |
| `lease` | `HeartbeatManager._leases`: none, fresh, stale (older than the dead threshold, not yet seen), dead |
| `inFlight`, `lastAttempt` | `_WORKER_RESTART_IN_FLIGHT`, `_WORKER_RESTART_LAST_ATTEMPT` |
| `threads` | threads running `docker restart` |
| `seg` | the handler or task that holds the loop, between two of its writes |
| `runState` | `RunStatus.state`; the other endpoints move it as `RunLifecycle` allows |
| `uptime` | whether `time.monotonic()` has reached the 30 s of the throttle |

Actions. `RegisterRank` or `RegisterNextRank`, one `Supersede` per retired
registration and `RegisterWorker` are a registration; `Deregister` and
`Heartbeat` are one step each. `BeginScan`, `DeclareDead`, `FailureCallback`,
`EndScan` are a pass of the monitor and the callbacks of the worker and recovery
managers. `AttemptRecovery` (from the callback) and `Reconcile` (every 10 s) call
the scheduler: `Refused` is its early return, `BeginRestart` the claim,
`MarkGroupDead` its loop, `StartThread` and `StartThreadFails` its end,
`ThreadSucceeds` and `ThreadGivesUp` the thread's. `ResumeRun` resets the
throttle; `KillWorkers`, `KillMark`, `KillLeases` are the demo's kill endpoint.
`LeaseExpires`, `AttemptAges`, `HostAges` are time passing, at any moment.
`Restart` is `_rehydrate_workers` in a new process.

Left out: clients may send any request at any time, so the training harness is
not needed for safety; store writes succeed here; the supervised-run file names
this run; `recover_run` and the synchronous scan are called by tests only.
**`MCWorkerLiveness`** bounds restarts and failing threads by `MaxFaults`; the
number of worker ids bounds the registrations. **`WorkerLivenessProofs`** holds
the theorems. Both protocols instantiate `RunLifecycle` for the table of transitions.

### The web console: `WebPages`

The router mounts one page at a time and a page that is not mounted has no state,
so `WebPages` composes the pages as a choice: a behaviour is one `visit`, with an
instance of that page's module, and the variables of the other pages are `None`.
Ten visits are followed; several are of the same page with other bounds: one run
or two, with jumps in the history or without, rounds that overlap or not, prompt
effects or late ones. How many runs, calls in flight, workers, changes and failures
a visit has are constants of `WebPages`, functions of the visit; `MCWebPages` gives
them their values. The modules:

- **`RunConsole`**: the run list, the run page and the new-run modal
  (`RunsPage.tsx`, `RunDetailPage.tsx`, `ui.tsx`) against the run endpoints. A
  slot is one call of the browser from the request to its continuation; answers
  are taken from the server when it handles the call and stored when they arrive.
  `RunsButtons` and `DetailButtons` are what is offered; `ClickRow`,
  `ClickDetail`, `SubmitRun` post; `OpenRun`, `JumpToRun`, `Leave` navigate, and
  `JumpToRun` keeps the component mounted, as the router does. Each run is an
  instance of `RunLifecycle`, moved by this console and by everybody else.
- **`MetricsPages`**: `HealthPage.tsx`, `PerformancePage.tsx`, `usePolling.ts`: a
  round asks for every part at once, waits for all, then stores them one after
  another with an await before each. Calls are refused, rejected, or break off
  while the body is read. The server's answers (`health_check`, `metrics_summary`,
  the lags) are computed from workers, leases, checkpoints and a store that goes
  down and comes back.
- **`CheckpointBrowser`**: its two-stage round over all runs, sorting, and the
  rows' own state under the keys React gives them.
- **`DemoSimulation`**: the simulated trainer of `DemoPage.tsx`. An interval queues
  an update (`Tick`), a later `Render` applies it, `RunEffect` logs and saves with
  the values it closed over, a click runs between any two of these, and two
  timeouts (`DetectTimeout`, `RestoreTimeout`) bring a killed worker back.
- **`AppShell`**: routes, lazily loaded pages, saved scroll positions, the mobile
  menu and the two theme buttons, the redirect of operator pages on the hosted site.

`RunConsoleProofs`, `PagesProofs` (of `MetricsPages`) and `DemoProofs` hold the
theorems about these pages; `WebPages` instantiates them, so that `WebPagesProofs` can
cite them for every visit. `WebPagesProofs` also proves what `CheckpointBrowser` and
`AppShell` need, and states the properties of `WebPages` as the runs check them.

### Streams, panels, retention and the streaming write: `Services`

These share neither state nor locks with each other, and `Services` composes them
in the same way: a behaviour follows one `service`.

- **`EventFeed`**: `publish_event`, the bounded queue of each subscriber, the
  generator of GET /events, and `useEventStream.ts` with its reconnections.
- **`LogFeed`**: the lines of the workers, the log stream, `useLogParser.ts` with
  its caps, and what chart and checkpoint panel draw. **`LogPane`**: the automatic
  scrolling of `LogStream.tsx`.
- **`Visitors`**: pings, the country look-up with its await, cleaning, activity feed.
- **`KillDemo`**: the kill endpoint, Docker's restart policy, the safety net, and
  the panels that poll the containers.
- **`StoragePanel`**: the listing with its limit, the tree, opened manifests.
- **`Retention`**: a pass cut where other threads act (`List`, `Decide`, a `DeleteBatch`
  or `DeleteFails` per batch, `delete_checkpoint` per record), among uploads, commits, failures and resumes.
- **`ShardStream`**: `write_shard` and `write_shard_stream`: the depth test and its
  increment, the channel, the writer's parts (a turn of `take_part`'s loop per step),
  the staging upload, its promotion to the content-addressed key, the sidecar, storage
  errors, and resets that drop the handler at any await. Bytes are numbered, so a digest
  is the sequence it is computed over, and a chunk is a slice of the stream.
- **`PrefixRange`**: `_prefix_end` against `startswith`, for every prefix and key of
  up to three bytes of a three-letter alphabet whose last letter is 0xFF.

`Services` has an instance of each and composes them; its two instances of `ShardStream`
are instances of `ShardStreamProofs`, which brings that module's lemmas along.
`ServicesProofs` proves that each of the other services keeps its invariant, and the
properties of `Services` as the runs check them. `MCServices` gives the constants their
values for TLC.

## Runs

| Run | Instance | Checks |
|---|---|---|
| `ckpt_race` | 1 checkpoint, 2 shards, 2 requests at once, 4 calls, 2 faults, restarts | `TypeOK`, `CommittedHasManifest`, `UnfailedIsRestorable`, `CommittedIsStable` |
| `ckpt_recovery` | 2 checkpoints, steps 0..1, 1 shard, 2 requests, 3 calls, 1 fault | `LastCheckpointExists`, `RecoveryTargetHasManifest`, `FsmMatchesStore`, and the refinement `FollowsLifecycle` |
| `ckpt_store_errors` | 1 checkpoint, 2 shards, 3 calls, 1 other fault, any store write may raise | what survives that: `InductiveInv`, which implies `CommittedHasManifest`, `UnfailedIsRestorable` and `LastCheckpointExists` |
| `ckpt_live` | 1 checkpoint, 3 calls, 1 fault, fair | `HandlersReturn` |
| `worker_group` | 3 registrations, 2 ranks, 2 workers needed, 2 faults | `TypeOK`, `OneActivePerRank`, `ActiveIsWatched`, `OneRestartAtATime`, `RetiredStaysRetired`, `WorkerInv` |
| `worker_live` | 2 registrations, 2 ranks, 1 fault, fair | `RecoveryIsRetried`, `SilenceIsNoticed` |
| `pages` | ten visits, bounds in `MCWebPages` and `pages.cfg` | `TypeOK`, `ActsOnWhatItShows`, `SavedIsSaved`, `NothingMissing`, `RecoversFromASave`, `RunFollowsLifecycle` (a refinement), `NeverGoesBack`, `KeepsItsPlace` |
| `pages_live` | six visits, fair | `PagesCatchUp`, `NoVisitIsStuck` |
| `services` | twelve services, bounds in `services.cfg` and, for a service with several instances, at its `INSTANCE` in `Services` | `TypeOK`, `GapsAreExplained`, `PanelsAreTrue`, `DrawnAsRead`, `KeepsLatest`, `MetadataOutlivesShards`, `WritesAreWhole`, `RangeIsPrefix` |
| `services_live` | nine services, fair | `EventsArrive`, `PanelsCatchUp`, `StorageIsBounded`, `EveryCallEnds` |
| `doc_manifest_valid`, `doc_stream_room` | smallest instances that show it | two disagreements below |

A property of `pages` or `services` is a conjunction over the visits or services
it is about; each conjunct is a named property of the component's module, stated
and commented there. The inductive invariants of the proofs below are among these
conjuncts (`ConsoleInv` in `ActsOnWhatItShows`; `WatchInv`, `OneRoundInv`,
`BrowserInv` and `ShellInv` in `NothingMissing`; `DemoInv` and `PromptInv` in
`RecoversFromASave`; `FeedInv` in `GapsAreExplained`; `AnnouncedInv`, `KeptInv`,
`KillInv`, `CurveInv` and `PaneInv` in `PanelsAreTrue`; `SavedInv` and `OwnInv` in
`DrawnAsRead`; `RetentionInv` in `KeepsLatest`; `StreamInv` in `WritesAreWhole`), so the runs check them too.

The bounds let the cases of the hazard list happen: a checkpoint needs two calls
to be committed (an upload and a commit), so four calls leave room for an upload
or a second commit that races the first; two faults allow a lost answer followed
by a failing HEAD request or a restart. Two checkpoints with equal and different
steps exercise the order of `list_checkpoints` and the tie of `max`. Three
registrations over two ranks are a full group and a process that registers again,
with or without its rank; two faults are a restart of the control plane in the
middle of what the previous one left behind. Two slots are two overlapping calls
or rounds of a page, the least that lets answers overtake each other; two runs
let an answer arrive on the wrong page. The simulation runs to step 160 with the
page's own step sizes, three saves and more entries than the (reduced) caps. Event
queues of two hold fewer events than are published; logs are longer than the tail
that is sent again and than the lists that keep them. The chunk sizes of the
stream lie below, at and above one and two parts; two calls are a shard and its
retry. The grace period of retention is exactly the longest upload plus the longest
time from listing to decision, the least `RetentionAssumption` allows. Requests, shards, slots and calls are interchangeable, so the
safety runs use symmetry; the liveness runs do not.

Deadlock is not checked in the composed runs and in `MC` runs whose budgets run
out: a browser nobody clicks, or a bucket nobody writes, really stops.

Fairness. A started segment runs on (weak fairness of the loop's steps); a
handler whose answer has arrived is eventually resumed although other handlers
take the loop in between, because asyncio's ready queue is first-in first-out
and segments are finite (strong fairness per handler); tokio drives a call that
somebody waits for (weak). Clients, faults and restarts are not fair. For the
workers: a segment runs on; the monitor and the reconciliation task wake up
periodically and get the loop although requests compete for it (strong
fairness); the throttle's clock advances. Workers and the outcome of a restart
are not fair, so `RecoveryIsRetried` says that restarts are tried again, not that
they succeed. In the browser intervals fire, the server answers, continuations
run and React runs what it has scheduled (weak); nobody has to click, and no call
has to fail. An EventSource reconnects (weak, from the standard's reconnection
time); Docker's policy restarts a container, where it works; the retention loop
repeats its pass whatever happened to the last one. Each condition is on the
variables of its component, so that a step of another one does not count.

### Where documents and code disagree

Two disagreements are runs of their own: `doc_manifest_valid` (README.md says a
manifest means a valid checkpoint; a commit whose answer is lost is aborted by the
control plane after the manifest was written, the abort deletes the shards and
keeps the manifest) and `doc_stream_room` (a refused caller is told to try again
later; a reset stream never gives its place in the queue back, and after
`max_depth` of them every write is refused until the data plane restarts).

The others are kept as definitions, in a section of their own in the module, and
belong to no run. Each was refuted by TLC on an instance like those above.

| Property | Code | What |
|---|---|---|
| `DemoSimulation!RestoresLastSavePoint` | `DemoPage.tsx:243` | src/frontend/src/pages/DemoPage.tsx:350 says "The demo restores the last save point and continues the simulated training counter." The click handler reads the list of the last render; the effect that saves the step just rendered may still be pending and runs right after the handler, so the list gets a newer save point (which the banner announces) than the one the timeouts restore. |
| `DemoSimulation!FirstSavePoint` | `DemoPage.tsx:218` | src/frontend/src/pages/DemoPage.tsx:525 says "The first simulated save point appears at step 50." startSimulation resets the refs and lists, then its render runs the effect still pending from the old run with the old step: the new run starts at step 0 with a checkpoint of the old run, a worker can be killed at once, and the next saves up to that step are skipped. |
| `RunConsole!WorkerEndsRecovery` | `RunDetailPage.tsx:124` | rest.py:740 says of resume "Only transition to RECOVERING — the worker will call resume() again after loading the checkpoint to go RECOVERING -> RUNNING." The detail page's Resume button stays enabled while its request is out (RunDetailPage.tsx:77-86, 123-125); a second click is answered by the RECOVERING branch and makes the run RUNNING before any worker loaded the checkpoint. |
| `MetricsPages!LatestData` | `usePolling.ts:21` | src/frontend/src/hooks/usePolling.ts:5 says the hook "Returns the latest data". The interval starts a fetch whether or not the previous one has answered, and every answer is stored when it arrives: a slow answer overwrites a newer one until the next round. |
| `MetricsPages!LagForAllWorkers` | `HealthPage.tsx:126` | src/python-controlplane/src/controlplane/api/rest.py:33 describes /api/metrics/heartbeat-lags as "Heartbeat lag for all workers". get_heartbeat_lags leaves out every lease that is not alive, and the health page shows a missing lag as 0: a worker declared dead after 60 s of silence gets a green lag of 0.0 s. |
| `MetricsPages!NoDataMeansNoCheckpoint` | `PerformancePage.tsx:164` | src/frontend/src/pages/PerformancePage.tsx:178 says "No throughput data yet. Complete a checkpoint cycle to see metrics." checkpoint_count is the length of a list in memory: after a restart of the control plane it is 0 while the same page counts committed checkpoints. |
| `CheckpointBrowser!EmptyMeansAsked` | `CheckpointBrowser.tsx:82` | src/frontend/src/pages/CheckpointBrowser.tsx:127 says "No checkpoints found across any run." A list that is refused or lost counts as empty (lines 82-84) and the round clears the error: with every list failing the page states that there are no checkpoints. |
| `EventFeed!ArrivedIsListed` | `useEventStream.ts:29` | src/frontend/src/hooks/useEventStream.ts:8-10 says the hook "subscribes to a Server-Sent Events stream for run lifecycle events" and "Returns the accumulated event list". Every event the server publishes is named run_created, run_started, run_cancelled, run_completed, checkpoint_started, checkpoint_committed, run_resumed or run_failed (rest.py:564-778); the hook, like RunDetailPage.tsx:46-69, listens to unnamed events, state_change, checkpoint and error_event: the list stays empty. |
| `LogFeed!LatestCheckpoint` | `useLogParser.ts:68` | src/frontend/src/components/CheckpointProof.tsx:16 titles the panel "Latest Checkpoint" and shows the last element of the list. Steps are recorded once (useLogParser.ts:59), checkpoints are not: when the EventSource reconnects, the tail is sent again and an older checkpoint is the last element until the tail has been read. |
| `AppShell!RestoredOnArrival` | `App.tsx:74` | src/frontend/src/App.tsx:71 says "Save scroll position before leaving, restore when arriving". The effect that reads window.scrollY runs after the new page has been committed: when that page is shorter, the browser has already cut the position, and the cut one is saved for the page that was left. |
| `AppShell!TitleIsTrue` | `ThemeToggle.tsx:4` | src/frontend/src/components/ThemeToggle.tsx:19 titles the button "Switch to light mode" or "Switch to dark mode". Each of the two mounted buttons keeps a state of its own, read once: after a click on the menu's button the desktop one is stale, its title is wrong and its first click changes nothing. |
| `AppShell!LockedByMenuShown` | `App.tsx:86` | src/frontend/src/App.tsx:84 says "Lock body scroll when menu is open" and App.tsx:156 "Mobile nav (visible only on mobile)". menuOpen does not depend on the width: a window that becomes wide hides the menu, its button and its backdrop, and the body stays locked until the next navigation. |
| `LogFeed!RestoreIsHighlighted` | `LogStream.tsx:23` | src/frontend/src/components/LogStream.tsx:87-90 tells the user to look for "restored from checkpoint" messages, which line 23 highlights. The workers log "Restored from runtime checkpoint: ..." (src/training-harness/train.py:487), which the pattern does not match: the line is not highlighted. |
| `LogPane!ScrolledByUser` | `LogStream.tsx:68` | src/frontend/src/components/LogStream.tsx:64 says "Detect if user scrolled away from bottom". The scroll event of the pane's own auto-scroll is dispatched a frame later; when lines have been rendered in between, whose effect has not run yet, handleScroll finds the pane away from the bottom and sets userScrolled although nobody scrolled. The next effect and its event put it right. |
| `StoragePanel!FailureIsShown` | `StorageBrowser.tsx:52` | src/frontend/src/components/StorageBrowser.tsx:54 shows "Failed to load manifest" when a manifest cannot be had, but only when fetch throws: an answer that is not ok (404 for a manifest the retention manager deleted) leaves the content of the manifest opened before, which is then drawn below the new file. |
| `Retention!CommitSignal` | `retention.py:142` | retention.py:3 says "The manifest is the checkpoint commit signal." The bucket is listed before the runs are read and the objects deleted are the ones listed: when a run commits and completes in between and is not among the newest, its shards are deleted and its manifest, written after the listing, stays until the next pass, an hour later. |
| `ShardStream!GaugeIsDepth` | `grpc_service.rs:61` | metrics.rs:71 describes the gauge as "Current depth of the backpressure queue". Each handler loads the depth and then sets the gauge; when two do so at once the older value can be set last, and an idle data plane goes on reporting a call in its queue. |
| `ShardStream!NeverOverfull` | `grpc_service.rs:48` | grpc_service.rs:47 says "Check backpressure before accepting work". The depth is compared with max_depth and incremented in two separate atomic operations, so calls that test together are all accepted and the depth exceeds max_depth. |
| `ShardStream!SidecarDescribesTheShard` | `writer.rs:203` | ARCHITECTURE.md:218 gives the storage layout "shard-0.sha256     # SHA256 checksum" next to the shard. The dropped handler of a reset stream closes the channel, the spawned writer takes that for the end of the shard, stores the truncated bytes under their own key and overwrites the sidecar, possibly after a retry has stored the whole shard. (The manifest takes its checksums from the answers and is not affected.) |
| `CheckpointProtocol!ManifestAfterAllShards` | `rest.py:665` | proto/checkpoint.proto:18 says of CommitCheckpoint "Write manifest after all shards confirmed. Atomic commit point." commit_run sends whatever shards are tracked when it is called; an upload of the same checkpoint still in flight is left out of the manifest, and when it completes it puts the COMMITTED record back to IN_PROGRESS. |
| `CheckpointProtocol!OnlyValidTransitions` | `coordinator.py:261` | state_machine.py:84 says it "Enforces that only valid transitions are performed". transition_run moves the state machine before it writes the record; when the write raises, the two disagree, and the next accepted transition stores a state that VALID_TRANSITIONS does not allow from the stored one (CREATED to FAILED after a failed start). |
| `CheckpointProtocol!IncompleteShardsCollected` | `recovery.py:158` | ARCHITECTURE.md:114 says of failure recovery "If mid-checkpoint: AbortCheckpoint (GC incomplete shards)". _abort_pending_checkpoints only rewrites the records; no AbortCheckpoint is sent and the shards stay until the retention task, if it is enabled, removes them. |
| `WorkerLiveness!FailureIsReported` | `heartbeat.py:333` | README.md:126 says that when a worker's heartbeats stop "Control plane marks the run as FAILED." _check_workers stores the worker DEAD first and fails the run in a callback afterwards; when the control plane dies in between, _rehydrate_workers gives leases to ACTIVE workers only (worker_manager.py:73), so nothing reports the failure again and the run stays RUNNING. |
| `WorkerLiveness!TombstonesStay` | `rest.py:254` | tests/test_integration.py:403, test_deregistered_worker_heartbeat_is_a_tombstone_conflict, expects a heartbeat of a deregistered worker to be answered 409. _schedule_worker_group_restart sets what the index remembers of every registration of the run to DEAD, the SUPERSEDED and DEREGISTERED ones too, so such a heartbeat is answered 404 afterwards, which the training harness takes as a request to register again. |

Smaller remarks met on the way, without a definition. The panel says one can watch
a killed worker change to exited, but Docker may restart it between two polls.
`demo_kill_worker` schedules its safety net at the end: when the second `docker
kill` times out it answers 504, and neither fails the run nor restarts anything
(Docker's own policy then has to). A retention pass that fails in a later batch
leaves the records of the checkpoints it deleted, and no later pass finds them.
The success bar of the performance page is painted as an error above 80 %.
`UNHEALTHY` is tested by the frontend and never sent. `_RESTORE_DURATIONS` is never
appended to. The `onClose` of a submitted modal closes one opened after it.

`CommittedIsStable`, `UnfailedIsRestorable`, `KeepsLatest`, `WritesAreWhole`,
`KeepsItsPlace` and `RecoversFromASave` state what does hold beside these.

## Proofs

Everything in `CheckpointProtocolProofs` holds for every set of checkpoints,
shards and requests and every setting of the fault switches, from the
assumptions on the constants only (`CkptAssumption`, `ReqAssumption`,
`StepAssumption`, `SwitchAssumption`); the last two theorems also assume
`~KVFaults`, and `OnlyValidTransitions`, above, is refuted without it.

The argument. `CommittedHasManifest` alone is not inductive: the record is
written by a handler that saw an answer, sent by a call that saw the manifest.
`ManifestKnown` says so of each link: a call about to answer, a handler with a
good answer, the record, the recovery target. To carry a fact from the call to
its handler one must know that a call has the handler that waits for it, and
only that one: `CallsHaveOwners`, which survives lost connections and restarts
because these disown the call. `ObjectsKept` does the same for shards: a
confirmed, tracked, sent or named object is in the store as long as its
checkpoint was never marked FAILED, because no deletion is in flight before that
mark. `LastIsRecorded` and `TodoIsPending` cover the records that a segment of
the loop is about to refer to or to fail. `WellFormed` is what the types need of
segments and handlers. Their conjunction is `InductiveInv`, which TLC also
checks with every kind of fault switched on.

| Theorem | States |
|---|---|
| `TypeCorrect`, `TypesHold` | types and well-formedness; `TypeOK` |
| `Inductive` | `InductiveInv` |
| `CommitIsDurable`, `RecoveryIsDurable` | `CommittedHasManifest`, `RecoveryTargetHasManifest` |
| `UnfailedStaysRestorable` | `UnfailedIsRestorable` |
| `LastNeverDangles` | `LastCheckpointExists` |
| `CommittedStable` | the action property `CommittedIsStable` |
| `FsmFollowsStore`, `ImplementsLifecycle` | `FsmMatchesStore`, and the refinement of `RunLifecycle`, when no store write raises |

`WorkerLivenessProofs` holds for every set of worker ids, every rank bound and
every `NumWorkers`, from `WorkerAssumption`, `RankAssumption`, `NumAssumption`
and `OptionAssumption`. `OneActivePerRank` is not inductive: a registration
retires the workers that the *index* remembers as ACTIVE among the *members* of
the run, and `_next_rank` retires none. `WorkerInv` adds what it relies on:
`IndexFollowsStore` (the index says ACTIVE only of stored ACTIVE workers, but for
the one whose failure is being reported), `WatchInv` (every ACTIVE worker is a
member and has a live lease, and leases only outlive records in the kill
endpoint), `RankInv` (the counter is beyond every stored rank, and what is left
of a segment's work list), `FlagInv` (the in-flight flag is up exactly while a
restart is prepared or runs, which gives `OneRestartAtATime` whatever the
throttle does) and `RecoverInv`.

| Theorem | States |
|---|---|
| `WorkerTypes`, `WorkerInductive` | `TypeOK`, `WorkerInv` |
| `RanksAreExclusive`, `ActiveAreWatched`, `SingleRestart` | `OneActivePerRank`, `ActiveIsWatched`, `OneRestartAtATime` |
| `RetiredForGood` | the action property `RetiredStaysRetired` |

### The services and the pages together

A behaviour of `Services` or `WebPages` follows one service or visit. `ServicesProofs`
and `WebPagesProofs` show that it starts in an initial state of that module and that
each step is a step of that module's `Next` or leaves its variables alone (`StartOf`,
`StepOf`); the invariant of the followed module is then kept by its own lemma, and
the properties the runs check follow from the conjunction, `ServicesInv` and
`PagesInv`. The assumptions are those of the components, `ServicesAssumption` and
`PagesAssumption`, which TLC evaluates on the instances of the runs. The sections below
give the argument for each component.

### Retention

What `ServicesProofs` shows of `Retention` holds for every assignment of checkpoints to runs, every batch
size, every number of checkpoints and runs kept, and any failures of batches, from
`RetentionAssumption`. What that assumes of time is that an upload and a listing
together take no longer than `orphan_grace`; the code does not enforce it, it is what
a grace period is for, and the argument below rests on it.

The pass decides from a listing that is old when the runs are read, and deletes what
it decided later still, in batches. `KeepsLatest` therefore needs `ListingIsRecent`
(what has appeared since the listing is younger than its start; a complete checkpoint
whose manifest is not in the listing was committed after it, so it is newer than every
listed one) and `VictimsAreSpare` (what is to be deleted is an abandoned upload, or a
commit with a newer one that is not a victim; and each of its objects is either still
to be deleted or gone, which is what lets the last step delete the record).
`ObjectsMatchRecords` and `StampsArePast` connect records, objects and the clock.

### Event stream

This part of `ServicesProofs` holds for every queue size and any number of runs, connections,
events and breaks (`FeedAssumption`). `InOrderOnce` is about what has arrived;
`InOneLine` says it of the page, the wire and the subscriber's queue together: each is
in order, everything on the page precedes everything on the wire, which precedes
everything queued, and whatever was published is in one of the three or counted as
missed. `OneSource` is why there is only one wire and one queue to consider: a
connection that is not the page's is closed and has nothing left to deliver.

### Streaming write

`ShardStreamProofs` holds for every number of calls, every part size, channel size and
depth limit, any sizes of chunks, and storage errors and resets at any point
(`StreamAssumption`). A byte passes from the client through the handler, the channel and
the buffer to a part, and each of the four is touched by a different step. `StreamInv`
says of the call as a whole that these are adjacent slices of one stream: what is hashed
is a prefix of it, the channel continues that prefix up to what was sent, but for the
chunk the handler holds (`Line`), and the uploaded parts, the part being taken and the
buffer are together what was hashed (`Whole`). `buffered_bytes` counts what is not
uploaded, which is why `take_part` never runs out of chunks. The channel ends without an
error only if the handler has seen the end of the stream or was dropped, so a writer that
finishes for a handler that is still there has hashed all that was sent, and
`AnsweredIsStored` follows: no object under a content-addressed key is ever replaced by
another, whichever call fails or retries (`KeysAreDigests`). That chunks join without a
gap is proved of slices (`BytesJoin`, `LineGrows`, `LineMoves`, `LineIsCut`), not by
induction over chunks. `DepthAccounts` counts handlers, the dropped ones included, which
is the disagreement `LaterThereIsRoom` above.

### Prefix range

`ServicesProofs` proves `RangeIsPrefix` for every alphabet and every length of
keys: `_prefix_end` strips trailing 0xFF bytes and increments the byte before, and the
half-open range then holds exactly the keys that start with the prefix. The
byte-wise order is defined by a first difference, so the proof finds one: two strings
that agree on no common length have a least position where they differ (the
well-ordering theorem of the library; no induction over strings is needed), and the
cases are whether it lies within the stripped prefix, at the incremented byte, or
among the stripped 0xFF bytes.

### Panels

The five parts of `PanelsAreTrue` and the three of `DrawnAsRead` are proved for any number of tabs, workers, log
lines, messages and clicks. `AnnouncedOnce` holds because a
visit that was announced is in the table (`AnnouncedInv`) and the handler looks there
again after its await for the country. `OpenIsKept` is a matter of
counting intervals: a tab that was answered was heard of in this interval or the last,
but for the pings lost (`KeptInv`); it needs `MaxLost + 2 <= StaleAfter` and requests
that take less than an interval, and this is where the 45 s of the code are enough for
one lost ping. `KillInv` says that the run is active only while no container is down,
whichever of overlapping kills, restarts and resumes comes first. `CurveInv` keeps
every point of the curve among the steps seen, so a step that two workers log, that a
recovery repeats or that a new connection sends again is not added twice. `PaneInv`
says that, unless a scroll event is due, the pane counts as scrolled away only when it
is, and always when it is unless the pending effect goes back to the end.

`DrawnAsRead` is about what the panels compute from what they have read. `findLoss`,
`buildTree` and the listing are loops, modelled as recursive functions. That such a
function has a value is proved by contradiction with the least length for which it has
none (`FoldExists`, `SelectExists`, `TreesExist`), and what it computes in the same way,
by the least position at which it would be wrong: the closest point among the first i
(`FoldIsClosest`), one place for each of the first i files, under its run and checkpoint
(`PushDraws`, `TreeDraws`). The library's well-ordering theorem is all this needs; its
induction theorems are not used.

`CaughtUpIsSaved` needs an argument about the log. After the line of the last
checkpoint rank 0 writes at most the steps of one interval before it saves again or is
restarted, and a restart adds one line and begins the interval anew: there are at most
`CkptEvery * (MaxCrashes + 1)` lines after it. `SavedInv` counts them, so a connection
that is sent a tail of that length (`TailReaches`) starts before that line, reads it,
and reads no other checkpoint after it; until then the panel may show an older one
(`LatestCheckpoint`, above). A line of the model is a step that is logged: with the
defaults of `train.py`, a line every 50 steps and a checkpoint every 100, an interval is
two lines of the 30 that are sent. `OwnInv` says that a file is opened only while
nothing is loading, or the load under way is its own.

### Run console

`RunConsoleProofs` holds for every set of runs and of calls in flight and any number
of changes by others and failures, from `ConsoleAssumption`, for every set of states
the runs may start in. The properties speak of the screen; `ConsoleInv` says the
same of every answer on its way to it: a snapshot of a run is never newer than the
run, shows its state if the run has not changed since, and lists as committed only
what is committed (`Faithful`, `Keeps`); a call belongs to the page that is mounted or
its answer is ignored (`CallInv`). `ActionsReachTheirRun` and `SavedCheckpointsStay`
assume `~HistoryJumps`: with a jump from one run's page to another's the component
stays mounted and an answer for the first run can be stored on the page of the second,
so TLC refutes the first, and the argument for the second is lost; `ConsoleInv` itself,
the lifecycle, the buttons and `NeverBlank` hold with jumps too.

### Polling pages

`PagesProofs` holds for all three pages and every finite set of workers, any number
of rounds in flight, changes and faults, from `PageAssumption`. `WatchInv` extends
`NothingMissing` to the rounds: a round stores its parts one after another with an
await in between, so it must be known that what it has stored is still on the page,
although other rounds store theirs, and that its remaining answers leave nothing to
throw (`StoredIsShown`); `Sound` relates the two counts of a bar. The last three
theorems of the table are about pages whose rounds do not overlap, stated as at most
one element of `Slot`; `LatestData`, above, is refuted without it.

### Checkpoint browser

`BrowserInv` holds for every number of checkpoints, runs and overlapping rounds
(`BrowserAssumption`). What a row, or a list still on its way, says of a checkpoint was
so at the server once; COMMITTED is only left by deletion, so a row that says Saved is
right however late its list arrived (`Known`). A list has the checkpoints of the run it
was asked for, once each (`ListOK`), so the lists of a round can be put together and
sorted without meeting a checkpoint twice, which the keys of the rows rely on. That
the sorted list exists is proved by the rank of each checkpoint, the number of those no
older than it: ranks are different numbers from one to the number of checkpoints.

### App shell

The position saved for a page that is not shown is where it was left, cut to the height
of the page it was left for (`ShellInv`), for every set of pages and heights
(`ShellAssumption`). With it `ShownWhereLeft` says when a page is found where it was
left; `RestoredOnArrival`, above, is the stronger statement of a comment and is
refuted. `StoredIsShown` is inductive by itself once stale buttons are allowed.

### Demo page

`DemoProofs` holds for every step size, save interval, cap and set of workers and every
order of ticks, renders, effects, clicks and timeouts (`DemoAssumption`). `DemoInv`
adds to `RecoversFromASave` that the refs, which an effect reads after any number of
renders, bound what the lists hold, and that a killed worker and the steps the timeouts
closed over are set while they are pending. `LosesLittle` assumes `~LateEffects`, an
effect runs before the next click; `PromptInv` says that the newest save is then the
rendered step rounded down. With late effects it fails: `RestoresLastSavePoint`, above.

| Module | Theorem | States |
|---|---|---|
| `ServicesProofs` | `ServicesInvariant` | `ServicesInv`: `FeedInv`, `CurveInv`, `SavedInv`, `PaneInv`, `AnnouncedInv`, `KeptInv`, `KillInv`, `OwnInv`, `RetentionInv`, `StreamInv`, and the types |
| | `ServicesAreTyped` | `TypeOK` |
| | `NoUnexplainedGap` | `GapsAreExplained`, with `InOrderOnce` |
| | `PanelsStayTrue` | `PanelsAreTrue` |
| | `PanelsDrawWhatTheyRead` | `DrawnAsRead` |
| | `LatestIsKept` | `KeepsLatest`, with `UploadsHaveGrace` |
| | `MetadataGoesLast` | the action property `MetadataOutlivesShards` |
| | `WritesStayWhole` | `WritesAreWhole` |
| | `RangeFindsThePrefix` | `RangeIsPrefix` |
| `ShardStreamProofs` | `StreamIsWhole` | `StreamInv`, `AnsweredIsStored`, `NothingLeftBehind` |
| `WebPagesProofs` | `PagesInvariant` | `PagesInv`: `ConsoleInv`, `BrowserInv`, `WatchInv`, `OneRoundInv`, `DemoInv`, `PromptInv`, `ShellInv` |
| | `PagesAreTyped` | `TypeOK` |
| | `ActionsReachWhatIsShown`, `SavedIsStored` | `ActsOnWhatItShows`, `SavedIsSaved` |
| | `NothingIsMissing`, `RecoveryIsFromASave` | `NothingMissing`, `RecoversFromASave` |
| | `RunsKeepToTheLifecycle` | the refinement `RunFollowsLifecycle` |
| | `NothingGoesBack`, `PlacesAreKept` | the action properties `NeverGoesBack`, `KeepsItsPlace` |
| `RunConsoleProofs` | `Invariant` | `ConsoleInv` |
| | `ActionsReachTheirRun`, `SavedCheckpointsStay` | `ActsOnWhatItShows`, `SavedIsSaved`, without history jumps |
| | `ButtonsAndScreens` | `OfferedIsAccepted`, `SubmitsOnce`, `NeverBlank` |
| | `RunsFollowTheirLifecycle` | the steps of `RunLifecycle`, for each run |
| `PagesProofs` | `WatchInvariant` | `WatchInv` |
| | `NothingIsMissing`, `BarsStayInRange` | `NothingMissing`, `BarsInRange` |
| | `OneRoundInvariant`, `NeverOlder`, `EndsAsItsRound` | `OneRoundInv`, the action properties `NeverGoesBack` and `EndsAsOneRound`, one round at a time |
| `DemoProofs` | `DemoInvariant` | `DemoInv` |
| | `RecoveryIsFromASave` | `RecoversFromASave` |
| | `CounterMovesBack` | the action property `CounterMovesBackOnlyToASave` |
| | `LosesLittle` | `LosesLessThanOneInterval`, with prompt effects |

### Only model-checked

Every invariant and action property of a passing run is stated by a theorem. Liveness
under fairness is out of the prover's reach and stays with TLC: `HandlersReturn`,
`RecoveryIsRetried`, `SilenceIsNoticed`, `PagesCatchUp`, `NoVisitIsStuck`,
`EventsArrive`, `PanelsCatchUp`, `StorageIsBounded`, `EveryCallEnds`.

## Plan

1. `RunLifecycle`, `CheckpointProtocol`, `WorkerLiveness`: done, with proofs.
2. The web console, streams, panels, retention and the streaming write: done.
3. Proofs about them: done for `WebPages` and `Services` as a whole.
4. The writes of worker records that raise: one swallowed by the monitor leaves an
   ACTIVE record that nobody watches.

## Not modelled

- `LandingPage`, `HowItWorksPage`, `BenchmarksPage`, `TryLocallyPage`,
  `TrainingInfo`, `ArchitectureDiagram`, `DemoWalkthrough`, `useReveal`: markup, text
  and animation, with at most a flag nothing else depends on. They are a third of
  the frontend's lines.
- React's scheduling, the EventSource, scrolling and the clock are external: a
  module states what it assumes of them. The browser's own scroll restoration and
  another tab's writes to localStorage are left out.
- Metrics export (Prometheus, OpenTelemetry), the throughput counters and the
  `storage_healthy` flag of `write_shard`; formatting, colours and wording.
- The training harness beyond its log: clients may send any request at any time.
- `RetryPolicy`, `BoundedQueue`, `collect_orphans`, `force_state` and the synchronous
  heartbeat scan are used by tests only. The SDK is one request per method;
  deployment files hold no logic.
