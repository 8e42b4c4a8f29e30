# Fusion Multi-Node: a TLA+ model

This directory holds a formal model of the Python package `fusion_multi_node`: a
master that schedules AI tasks on worker nodes, several masters that elect a
leader, and the agents that execute the tasks. The modules are translated from
the code; `PROJECT.json` maps every definition to the lines it stands for, and
lists the runs, the mutants that show each property can fail, the hazards and
the theorems.

- `tlc -config <run>.cfg <module>` checks a run.
- `tlapm <module>.tla` checks the proofs of a module; the modules with proofs end in
  `Proofs` (section 8).

## 1. Inventory of the system

| Part | State | Operations | Hard behaviour | What makes it correct | Module |
|---|---|---|---|---|---|
| Task scheduler (`ClusterMaster`) | node table, task table, `_pending_queue`, `_pending_retry`, dispatch handles | submit, assign, drain, retry, cancel, migrate, degrade, finalise, drain a node | coroutines that suspend between a decision and its use; timeouts against late answers; retries of what is still running | no pending task is lost, one result per task, quotas, exclusions, pins and drains obeyed, every run ends | `TaskScheduler` |
| Election (`MasterElection`) | state, term, vote, votes, leader, fencing token, state file | campaign, vote, heartbeat, save, load | handlers that overlap at every await, saves in threads, lost and late messages, crashes | one leader per term, priorities respected, a leader gets known | `MasterElection` |
| HA glue | `_is_leader`, `_fencing_token`, the agents' last token | standby guard, fencing check | two masters at once | a standby dispatches nothing, a stale master is refused | `MasterHA` |
| Task store and recovery | `tasks.json`, dirty flags | throttled write, periodic write, restore | threads that write out of order, crash between accept, write and dispatch | a restored task avoids its last node, its queue and table agree | `PeerSync` |
| Node registry, approval, bans | admission list, node table, fault counts, bans | join, approve, register, leave, heartbeat, report fault, probe | probes that answer after the node was reported, left or came back | nobody joins unapproved, bans end and cannot be shaken off | `NodeRegistry` |
| Idempotency, sessions, chat slots | key table, session table, slot counters | look up, register, hand over, acquire, release | look-up and registration in different critical sections, slots on error paths | one task per key, slots never leak, a hand-over is not undone | `RequestGate` |
| Active-active synchronisation | pushed tasks, owners | push, merge, owner check | late and lost pushes, restarts, both sides writing | only the owner dispatches, its own state wins | `PeerSync` |
| Rule epochs and confirmations | epoch, confirmations, `rule_epoch.json`, the agents' epoch | advance, broadcast, receive, push, save | messages out of order, saves that are deferred or overtaken, restarts | epochs never go back and reach everybody | `RuleEpoch` |
| Pipeline dispatch | checkpoint in the parameters of the task | run segment by segment, resume, degrade | a segment fails in the middle, the master restarts | a completed task went through every segment once | `PipelineRun` |
| Test batches | job ids of a batch | submit, derive status, report | tasks end during the submission and are forgotten later | a verdict is never better than what the jobs did | `TestBatches` |
| Node agent | `_running_task_handles`, temporary directories, rate pacer, last token | execute, cancel, pace, stop | cancellation against completion, repeated posts, a deposed master, overload | one run per id, capacity and fencing kept, a cancelled task yields no result, every request is answered | `NodeAgent`, abstract: `TaskSlots` |
| Schedule host | schedules, run history, `schedules.json` | register, pause, remove, fire | schedules change while one fires, crashes, a full disk | due schedules run, missed ones are not caught up, changes are durable | `ScheduleHost` |
| FMP link, circuit breaker, router | pool, connections, breakers, rounds | connect, reconnect, read, send, disconnect, route | five tasks on one connection object | a live connection is watched and not refused by its breaker | `FmpLink` |
| KV cache of a node | LRU table, index, byte counter, `kv_cache.json` | store, look up, evict, expire, export, import | exports that end after their entry has gone | the counter is exact, the budget kept | `KVCache` |
| KV directory of masters | directory of entries and copies | register, find, synchronise, push | three exchanges of a transfer, any of them fails | a copy that is listed was imported | `KVDirectory` |
| Key-value store | keys, partition index, file | put, get, delete, expire, snapshot, remote calls | timeouts against late answers, restarts | what is clean is saved, what was reported was done | `KVStore` |
| Shard storage and replication | volume, LRU list, replicas | write, evict, replicate, repair, quorum read and write | one of several replicas fails, torn writes | limits kept, quorum reads are current | `ShardStore` |
| Transcripts, users, audit log | files of the master | put, fork; create, revoke; append | death in the middle of a write, a write that fails | what was answered survives, a loss can be seen | `TranscriptStore`, `UserAccess`, `AuditLog` |
| Load routing, discovery, observability, cryptography, MLX transport, configuration, CLI, web console | keys, logs, files | parsing, formatting, arithmetic, sockets | mostly input and output | - | not modelled |

How the parts interact: clients reach the master over HTTP; its routes call
`ClusterMaster`. The master posts tasks to the agents' HTTP servers and waits for
the answer in a background coroutine per task; agents report heartbeats and
faults. Masters exchange votes, heartbeats and state over HTTP. Everything on one
master runs on one asyncio event loop; only file writes run in threads.

## 2. Plan

Done, in this order: the scheduling core of one master (`TaskScheduler`); the
election and its use (`MasterElection`, `MasterHA`); the agent (`NodeAgent`), now
with its abstract specification `TaskSlots`; active-active masters (`PeerSync`);
then the parts around them (sections 4 to 8). MC modules compose them:

| MC module | Parts |
|---|---|
| `MCTaskScheduler` | the scheduler |
| `MCTimers` | scheduler, schedule host |
| `MCMasterElection` | the election |
| `MCMasterGroup` | election, node registry, rule epochs |
| `MCCrashes` | election, users, audit log, transcripts, KV cache, key-value store, shards |
| `MCNodeLife` | agent, FMP link |
| `MCPeerSync` | active-active masters |
| `MCMasterTables` | active-active masters, KV directory, request gate, pipelines, test batches |

The parts put together in `MCTimers`, `MCMasterGroup`, `MCCrashes`, `MCNodeLife`
and `MCMasterTables` share no variables in the code, so their interleavings show
nothing that the parts do not show alone. A variable `part` chooses at the start
which of them a behaviour moves; the others stay in their initial states. Fairness
of a part that rests asks nothing of it, because none of its fair actions is
enabled in its initial state.

Left: the shard planner of `task_sharding.py` and the load router as functions
against a reference definition, once their float arithmetic is cut down to
integers faithfully; the accepting side of FMP; what a degraded task still keeps, as
a theorem; abstract specifications of the registry, the request gate and the stores,
with refinements like the one of `TaskSlots`.

## 3. The scheduler

### Correspondence

`TaskScheduler` models `ClusterMaster` on a master without an election. Node
state is `nodeStatus`, `fresh` (is the last heartbeat young enough), `active`
(`active_tasks`) and `draining`. A task has `status`, `assigned`, `exclude`,
`retries`, `backoff` (is `next_retry_at` still ahead), `overdue`, `degraded`.
`queue` and `retryq` count the entries of each task, because the code can queue a
task twice. `todo` holds the snapshots that a drain of the queue and the retry
loop iterate over. `wait` holds the coroutines that wait for a store write.
`dstate` and `dres` are the dispatch handle of a task and the answers it has.

asyncio runs one coroutine at a time, and a section under `_nodes_lock` and
`_tasks_lock` never suspends in this code. So the code between two real
suspension points is atomic. `assign_task` is called from loops that do not
suspend between two calls; the model makes each call a step of its own and keeps
the loop uninterrupted with `turn` (who has the event loop) and `cur` (the task
it assigns). `Place` shows the one suspension inside `assign_task`, the store
write, which the write throttle may skip.

| Action | Code |
|---|---|
| `Submit`, `AssignTask` (`AlreadyAssigned`, `QuotaQueued`, `LocalForced`, `Scheduled`), `WriteDone` | submit route, `assign_task` |
| `DrainNext`, `RetryTick`, `RetryNext`, `LoopEnd` | `_drain_pending_locked`, `_retry_loop` |
| `CancelTask`, `CancelWriteDone`, `MigrateTask`, `DegradeTask` | `cancel_task`, `migrate_task`, `degrade_task` |
| `DispatchStart`, `Answer`, `TransportError`, `DispatchFinish`, `DispatchEnd` | `_dispatch_task`, `_dispatch_data`, `_dispatch_to_node`, `_finalize_task` |
| `RegisterNode`, `UnregisterNode`, `Heartbeat`, `ReportFault`, `SetNodeDraining` | the methods of these names |
| `HealthTick` | one round of `_health_check_loop`: `check_timeouts`, `_refresh_node_statuses` |
| `HeartbeatLapse`, `BackoffExpires`, `TimeoutPasses` | time passes |

Left open, so that every choice is explored: the ranking of nodes by load, the
order of tasks of one priority, whether a write is throttled. Left out: the
pipeline mode, sub-tasks, sessions, metrics.

### Runs

| Run | Instance | Shows |
|---|---|---|
| `Scheduler_churn` | 2 unreliable nodes, 1 task | `AvoidsFailedNodes`, `RunningIsDriven` while nodes fail, leave and return and the task is retried, migrated and cancelled |
| `Scheduler_contention` | 1 node, 2 tasks of a tenant with quota 1, 2 concurrent drains | `NoPendingTaskLost`, `QuotaRespected`, `FinalIsFinal` |
| `Scheduler_drain` | 2 nodes, a pinned task that can be degraded and one that needs both nodes | `PinnedStaysPut`, `DrainReadyIsStable` |
| `Scheduler_liveness` | 2 nodes, 1 task, agents that may never answer; or the schedule host (section 8) | `TimersOK` (with `TypeOK`), `RunningSettles`, `RetriesHappen`; `NoCatchUp`, `DueIsServed` |
| `Scheduler_claim_cancel`, `Scheduler_claim_pinned` | 1 task | counterexamples, see section 9 |

Bounds: `MaxActive`, `MaxRetry`, `MaxQueue` are 1 or 2, so that "full" and "no
budget left" are reached in a few steps; `Drainers` bounds how many coroutines
drain the queue at once (two are enough for two snapshots to overlap);
`MaxRetryLoop` keeps the code's value 10, which `MaxRetry` hides. Two tasks and
two nodes are what it takes for a race about a node and for a retry elsewhere.
`FinalIsFinal` is checked where no task is degraded and `DrainReadyIsStable` and
`AvoidsFailedNodes` where the local-force path is not taken: the code does not
keep them there (section 9).

Fairness (`TimerFairness`): asyncio runs every ready callback, the two background
loops sleep and wake for ever, store writes end, time passes. It is strong
fairness because every action waits for the event loop to be free, which it is
again and again. Nothing is assumed of agents or of the network in
`Scheduler_liveness`: the task timeout alone must do.

### Proofs

`TimersProofs` proves for every set of nodes, tasks, tenants and every
limit, from `ConstantsAssumption` (the parameters have their types; the pinned
node is the preferred one and not in the request's exclusions, as the submit
route makes sure) and `FinitenessAssumption`:

- `TypeCorrect`: `TypeOK`, with `active <= max_tasks` and `retries <= MaxRetry`.
  `TypeOK` is not inductive by itself: a drain that starts after a cancellation
  overwrites `todo`, and `cur` is only meaningful with a `turn`. The inductive
  invariant is `TypeOK` and `LoopsOK`.
- `PendingTaskKept`: `NoPendingTaskLost`. A step that takes a task out of one
  place puts it into another; the cases are the actions that touch a queue.
- `FailedNodesAvoided` and `PinKept`: `AvoidsFailedNodes`, `PinnedStaysPut`. Both
  rest on one lemma: in every step a running task either keeps its nodes and its
  exclusions or has just been placed by `assign_task` on candidates and backups.
- `QuotaKept`: `QuotaRespected`, by counting: a step makes at most one task of a
  tenant RUNNING, and only when fewer than the limit are.
- `EntriesAreKept`: for a task that was never degraded, `EntryInv`. It has at most
  one entry in the queue, the retry list, the snapshots and `cur` together
  (`OneEntry`); a task that is settled has none (`SettledIsNowhere`); while
  a handle writes its result nothing can start the task again (`SavingIsQuiet`); one
  that runs has a node and somebody to finish it (`RunIsDriven`). None of the four is inductive alone.
  `RunsAreDriven` (`RunningIsDriven`) and `EndsAreFinal` (`FinalIsFinal`) follow.
  Both assume `MaxDegrade = 0` for every task, which is a system in which nobody
  calls `degrade_task`: that route assigns a task and leaves its queue entry, which
  may run it again after its end (section 9). `EndsAreKept` has no such assumption:
  it is the same fact for every task that was not degraded, next to tasks that were.
- `DrainedNodesStayFree`: `DrainReadyIsStable`, from `LocalForce = {}`: the
  local-force path of `assign_task` does not look at `draining`.
- `ScheduleTypes`, `AnsweredSchedulesAreKept`, `NothingIsCaughtUp` about the schedule
  host, and `TimersAreKept` (`TimersOK`) about both (section 8).

## 4. The election

`MasterElection` has one event loop per master. A handler is atomic up to its
save of the state file; saves run in threads, so they end in any order and other
handlers run meanwhile (`saving`, `beatSaves` and unsent `answers` are the
snapshots under way). A master without a `state_path` does not suspend there
(`Durable = FALSE`). The campaign is a coroutine (`camp`) that asks one peer after
the other. A broadcast of heartbeats reads the term anew for every peer
(`SendHeartbeat`). `CrashRestart` restores what the state file holds.

| Run | Instance | Shows |
|---|---|---|
| `Election_crash` (module `MCCrashes`) | 2 masters of different priority, state files, lossy network, crashes, 2 terms; or one of the file-keeping parts of section 8 | `OneLeaderPerTerm`, `LeaderOutranksVoters` |
| `Election_trio` (module `MCMasterGroup`) | 3 masters without state files; or the registry or the rule epochs of section 8 | `GroupOK` (with `TypeOK`), `OneLeaderPerTerm`, `LeaderGetsKnown` |
| `Election_claim_split` | 3 masters with state files | counterexample to `OneLeaderPerTerm`, section 9 |
| `HA_claim_standby` | 2 masters | counterexample to `StandbyRefuses`, section 9 |

Bounds: `MaxTerm` ends the elections (deadlock checking is off for that reason,
and because candidates that split the vote really stay where they are). One copy
of a heartbeat is in flight from a master to a peer in a term.

Fairness (`ElectionFairness`): a campaign that has begun, the broadcasts, the
handlers and the saves go on. Nobody has to begin a campaign.
`LeaderGetsKnown` is checked with a network that delivers.

### Proofs

`MasterElectionProofs` proves for any number of masters, any ranks, any losses, any
`MaxTerm`, from `ElectionAssumption`:

- `ElectionTypes` and `VotersOutranked` (`LeaderOutranksVoters`), with or without
  state files and crashes. The inductive invariant `ElectionInv` adds to the types:
  the token of a master leaves room for what its campaign may still add to it
  (`TokenPaced`), in memory and in every snapshot on its way to a file
  (`SnapshotsPaced`); followers have no votes and leaders a majority (`VotesFitRoles`);
  an answer that grants a vote comes from a master of no higher rank
  (`GrantsRespectRank`).
- `PriorityDecides`: so every leader ranks at least as high as a majority.
- `OneLeader`: `OneLeaderPerTerm`, with state files and without, with crashes and
  without, under two conditions on the behaviour: no campaign is told of a later term
  by an answer (`NobodyYields`; with a file it raises its term, saves, and only then
  steps down and forgets its vote), and whoever crashes has its present term and vote
  in its file (`TidyCrash`). So those are the only two ways to two leaders of a term.
  Without files nobody yields, and without crashes every crash is tidy, so masters
  like those of `Election_trio` need neither condition. The invariant
  `SplitInv` says that a vote that was given, be it counted or on its way, is
  remembered by its voter for the rest of the term (`VotesRemembered`), that nobody
  gives two votes in a term (`OneVotePerTerm`), and that who is no follower is in the
  term of its campaign (`OwnVote`); two majorities meet.
- `OneLeaderByRank`: `OneLeaderPerTerm` whatever the files hold and whoever crashes, if
  at most one master ranks as high as a majority (as in `Election_crash`: of two
  masters, the lower one can never lead).

With state files and equal ranks the property is false (`Election_claim_split`, by
way of a campaign that yields), which is why `OneLeader` needs its conditions and
`OneLeaderByRank` its ranks.

Not modelled: a torn state file (the writers share one temporary file name), and
nodes added to or removed from `_known_nodes` while masters run.

## 5. HA glue

`MasterHA` adds the standby guard of `assign_task`, the fencing token that
dispatches carry, and the agent's check of it to the election.

## 6. The agent

`NodeAgent` models `execute_task` and `cancel_task` of one agent and the routes
that call them. A request of a master is a call in `Calls`. It passes the gates
of `execute_task` in one step (nothing there suspends); if it is accepted, a
coroutine runs it (`pc`, `id`, `tok`, `tries`, `doomed`), which is registered in
`_running_task_handles` (`handles`) and has a temporary directory (`tmp`).

| Action | Code |
|---|---|
| `Duplicate`, `RejectStale`, `RejectUnsafe`, `RejectFull`, `Accept` | the early returns of `execute_task` and the registration of the coroutine |
| `RunBegins`, `RunRefused`, `BackendReplies`, `BackendLimits`, `PauseEnds` | `_run`, the backends, `dispatch_with_pacing` |
| `CancelTask`, `CancelThrown`, `RunNeverBegins` | the cancel route; the `CancelledError` at the next resumption; a coroutine that is cancelled before its first step |
| `Restart` | `stop()` or a crash, and a new process |

Run `Agent_execute` (module `MCNodeLife`, which adds the FMP link of section 8)
has three calls for one id or for none, `MaxTasks` 2,
`MaxTries` 2, tokens up to 2 and two anonymous ids. Three calls are what it takes
for a run, a repeated post and a third that finds the agent full. The run checks
`LifeOK` (types, `OneRunPerId`, `RunsAreRegistered`, `CapacityKept`, `TempDirKept`),
`NewestMasterOnly`, `RequestsEnd` and `ImplementsSlots`.

`TaskSlots` is what a master relies on: a fixed number of slots, no task in two
of them, one answer for every task, and nothing but "cancelled" for a task whose
cancellation was acknowledged. `ImplementsSlots` is that specification under the
mapping of `NodeAgent`: a slot is busy with the id of a live coroutine, it is
condemned when that coroutine is to be cancelled, and the answer is the class of
the reply. Handles that are left over occupy no slot of the abstract agent, so
the detailed one may refuse when the abstract one has room; `TaskSlots` lets an
agent refuse at any time.

Fairness: weak fairness of the steps of every execution. The event loop resumes
ready coroutines, pauses end, and every request to a backend, a plugin or a
sandbox has a timeout.

`NodeLifeProofs` proves all of these but `RequestsEnd`, the refinement
(`SlotsImplemented`) included, and `CancelIsHonoured`, for any calls, ids and limits. The
refinement needs `OneRunPerId` (two runs of one id would be one busy slot) and
`CapacityKept`, both from the invariant. `CapacityKept` counts executions, the code counts handles; so the
invariant `AgentInv` says that runs are registered, at most one for each id
(`RunsAreRegistered`, `OneRunPerId`), and that the registry is bounded
(`RegistryBounded`). Left-over handles are part of the registry, which is why
the bound is on handles and not on runs. `TokensBehind` (no run has a later token
than the agent remembers) carries the fencing, `AnonGivenOut` the distinctness of
anonymous ids. `LifeIsKept` is `LifeOK`, for the agent and its link together.

Not modelled: `_current_task` (display only), heartbeats and hardware reports (the
scheduler's `Heartbeat` and `RegisterNode`), requests accepted while `stop()` waits.

## 7. Active-active masters and the task store

`PeerSync` has several masters, each with a table (`mem`), the objects in its
queues (`queue`), a store (`disk`), snapshots that threads are writing (`writing`),
and the pushes under way (`net`). A copy of a task has its status, owner, node and
exclusions; the life of a running task is reduced to `Place`, `Finish`, `Retry` and
`CancelTask`. The table and the queue hold the same Python object in the code as
long as nobody replaces one of them; the model keeps both, because
`receive_synced_tasks` and `_enqueue_pending` do.

| Action | Code |
|---|---|
| `Submit`, `Place`, `Requeue`, `Finish`, `Retry`, `CancelTask` | submit route, `assign_task`, `_drain_pending_locked`, `_finalize_task`, `_enqueue_retry`, `cancel_task` |
| `PersistLoop`, `WriteEnds` | `_persist_loop`, the threads in `_write_task_store` |
| `Restart`, `Serve` | a crash or `stop()`, then `start()` up to and from the setting of `_ha_mode` |
| `RegisterNodes` | `register_node` and the nodes of `receive_synced_state` |
| `Push`, `Receive`, `Lose` | `_peer_sync_loop`, `receive_synced_tasks`, a failed post |

Run `Sync_peers` (module `MCMasterTables`, with the tables of section 8): two
masters, one task, two nodes (one to crash on and one to go to), two store writes at once (so that they overlap and end out of order), one
push and one restart. Two constraints keep it small: before the first restart no
task comes until the nodes have registered with every master
(`UpBeforeFirstTask`; a master without nodes only waits), and the threads of one
master write at a time (`OneMasterWrites`; two masters write different files, and
a write may end without effect). The proofs need neither. Symmetry is sound
because no property is about liveness.

- `OnlyOwnerRuns`: single-owner dispatch. `start()` drains the restored queue,
  mirrors included, before the owner check is armed. It holds because a starting
  master has no nodes yet: the server that registers them is started later.
- `QueueIsCurrent` (in `TablesOK`): the owner's queue and table hold the same object.
- `CrashNodeAvoided`: a restored task avoids the node that the store names.

`PeerSyncProofs` proves the three and the type invariant for any number of masters, tasks, writes, pushes
and restarts, from `SyncAssumption` alone (the types of the bounds, and that
`None` is no master and no node). The inductive
invariant `SyncInv` adds: every copy anywhere names the master that accepted the
task (`CopiesFit`, which is why a mirror that comes back is harmless); a starting
master knows no node (`StartsAlone`); no queued object is running (`QueueIdle`);
what the store named at the crash stays excluded (`LeftKept`); a task runs on a
node it does not exclude (`RunsElsewhere`).

Not modelled: pinned tasks and tasks forced on the local node (the latter ignore
`exclude_nodes`), `_persist_dirty` (the model may write in any round), overlapping
writes of two equal snapshots, the push of nodes and bans. Sessions, batches and
pipeline checkpoints in the store, and the push of KV entries and epochs, are in
the modules of section 8.

## 8. The parts around the core

Each of these modules is one component; the run named in the table moves it as
one of its parts.

| Module | Code | State and actions | Run |
|---|---|---|---|
| `NodeRegistry` | `register_node`, `unregister_node`, `report_fault`, the health loop and its probes; `node_approval.py`; the node routes | admission, status, lateness, ban and fault count of every node, and the probes of the round under way. Routes are atomic; the health loop awaits one probe after the other (`ProbeStarts`, `ProbeAnswers`) while everything else goes on | `Election_trio` |
| `RuleEpoch` | `advance_rule_epoch`, `broadcast_rule_epoch`, `receive_rule_epoch`, confirmations, `_persist_rule_epoch_async`, the agent's epoch | epochs, confirmations, files, saves in threads, the deferred flag, posts under way. A post is lost, late or in order (`EpochReaches`) | `Election_trio` |
| `FmpLink` | `fmp_connection.py`, `circuit_breaker.py`, `fmp_router.py` | one peer: pool, connection objects, the tasks on each (connect with retries, read loop, reconnect, senders, disconnect in three steps), breaker, rounds | `Agent_execute` |
| `ScheduleHost` | `scheduling.py`, `/api/schedules` | specifications, plan, history, file; `LoopTick` takes the list of due schedules, `FireBegins` and `FireEnds` enclose the awaited execution | `Scheduler_liveness` |
| `RequestGate` | both submit routes around `try_idempotency` and `register_idempotency`; chat slots; sessions | submissions between look-up and registration, key table, slot counter and quota, sessions and their stored copy | `Sync_peers` |
| `KVDirectory` | `register_kv_cache`, `find_kv_cache`, `sync_kv_cache`, the KV part of a state push | directories of several masters, transfers between their three exchanges, pushes under way | `Sync_peers` |
| `PipelineRun` | `_dispatch_pipeline` and what retries, degrades, stores and restores its task | status, running chain, checkpoint, stored copy. Hidden states are the list of segments that made them | `Sync_peers` |
| `TestBatches` | `/api/test/batches`, `test_batch.py` | rows of the task table, what really happened to the jobs (`truth`), the derived status | `Sync_peers` |
| `UserAccess` | `user_store.py`, `auth.py`, `permission.py`, `/api/v1/users` | users, tokens, file; a call holds the role the middleware found | `Election_crash` |
| `AuditLog` | `audit_log.py` | sequence number, previous hash, lines of the file | `Election_crash` |
| `TranscriptStore` | `session_store.py` and its routes | files, and what each client holds between get and put | `Election_crash` |
| `KVCache` | `kv_cache_sharing.py`, `/api/kv/*` | entries in LRU order, index, byte counter, file, exports under way | `Election_crash` |
| `KVStore` | `kv_store.py`, the KV handlers of `fmp_server.py` | keys, partition index, dirty flag, file, remote calls and answers | `Election_crash` |
| `ShardStore` | `storage_volume.py`, `shard_replication.py` | files and counter of a volume, LRU list, state of the replicas | `Election_crash` |

### What the runs show of them

- Registry: `BansAreNotShakenOff` (before its time only the answer to a probe that was
  on its way lifts a ban) and `BansAreReviewed` (a ban that is over
  does not stay). `GroupOK` has the types, `OnlyApprovedJoin` and
  `UnbannedStartsAfresh`. Two nodes, one of them matching an auto-approve pattern;
  `MaxPending` 0 makes every request of the other an overflow of the pending list;
  two faults make a ban.
- Rule epochs: `EpochSpreads` (as long as the latest epoch stays the latest, the
  masters come to agree on it) and `AgentsCatchUp`. Two masters, one of them without
  a file, one agent, two epochs, one post and one save under way. Epoch and
  confirmations are followed in behaviours of their own (`part` is "epoch" or
  "confirms"): they travel in the same messages, but no guard looks at both.
- FMP link: `UpIsClosed`; `LifeOK` has the types, among them the bound on the rounds
  of a conversation, and `RunningIsWatched`. Two connection objects are what it
  takes to replace one.
- Schedule host: `NoCatchUp`, `DueIsServed`; `TimersOK` has the types and
  `AnsweredIsDurable`. Two schedules, so that one waits while the other runs; one of
  them by interval, the other by weekday or refused; days and weeks are two
  instants long; the disk refuses changes of one of them.
- Request gate: `OneTaskPerKey`, `ChatCountIsExact`; `TablesOK` has the types and
  `HandoffIsKept`. Three submissions, two keys and a table of one, so that a key is
  dropped; two chats and quotas 0, 1, 2; one session and two residents.
- KV directory: `CopyWasImported`, with two masters, two agents, one cache and one
  transfer. Pipeline: `ResultIsUnbroken` (the hidden states of a result went through
  the segments in order and none twice, as many as it names nodes at least; fewer than
  all only if the attempt was forced onto one local node), with three segments, two
  attempts and one degradation. Batches: `VerdictIsTrue`, with two jobs.
- Files: `RevokedStaysOut`, `LossIsVisible`, `AnsweredTranscriptKept`, `CounterIsExact`,
  `QuorumReadIsLatest`; `FilesOK` has the types and `AnsweredChangesSurvive`,
  `CleanIsSaved`, `ReportedPutWasMade`, `DiskWithinLimit`. Two users and three tokens
  (one more than it takes to revoke one and use another), four audit events, two
  clients of two transcripts and at most one write in place without an answer since
  the last answer (`FewLostPuts`; torn temporary files are not counted), a cache of
  three bytes for entries of one and two, two
  partitions, three replicas (the smallest number with a real majority), any of which
  is elsewhere. Two constraints cut behaviours and no invariant: a state beyond
  `FewLostPuts`, or one in which a shard has no active replica left (`OneIsActive`; a
  quorum read finds nothing then), is checked and not gone on from.

Exceptions that the code makes, stated in the properties themselves:
`QuorumReadIsLatest` speaks of writes that put their data in the volume, for a quorum
of other nodes alone leaves it (section 9); `CleanIsSaved` lets the file of a clean
store be unreadable, but only if its last save failed; `AnsweredTranscriptKept`
allows a write that was made after the answered one and never answered, be it a put,
a fork or a delete in the middle of which the master died.

`TimersOK`, `FilesOK`, `GroupOK`, `LifeOK` and `TablesOK` are conjunctions of the type and
consistency invariants of the parts of a run. `PROJECT.json` has a mutant for nearly
every conjunct that is more than types.

Properties with an exception name it in the state: `excused`, `steady`, `clean`,
`spoiled`, `behind`, `unsaved`, `landed`, `saveFailed` record that a step happened after which the code does
not keep the promise. These steps are in the model and under section 9.

### Fairness

- `RegistryFairness`: the health loop goes round every 10 s and a probe ends within 5 s.
- `EpochFairness`: `_state_sync_loop` broadcasts to every target again and again, and
  not all of these posts are lost. `AgentsCatchUp` and `EpochSpreads` rest on this.
- `SchedFairness`: the loop of the host goes on, and the executor answers every task
  (`RequestsEnd`). Nothing is assumed of users, restarts or the clock.
- The other parts have safety properties only.

### Proofs

| Module | About | Theorems | Inductive invariants |
|---|---|---|---|
| `MasterGroupProofs` | `NodeRegistry` | `ApprovedOnly`, `FreshAfterBan`, `BansStick` | `RegistryInv`: types and both invariants together; `BansStick` is an action property that needs only the types |
| | `RuleEpoch` | `EpochTypes` | `EpochInv`: every save, file and message carries an epoch within the bound and a list of confirmations without repetition and within its limit, so that whatever a master takes over is as good as what it has |
| | `MCMasterGroup` | `GroupIsKept` (`GroupOK`) | those, and `ElectionInv` (section 4) |
| `MasterTablesProofs` | `PipelineRun` | `PipelineTypes`, `UnbrokenChain` | `PipeInv`: every place hidden states rest in (attempt, checkpoint, store) holds a proper beginning of the chain |
| | `KVDirectory` | `DirectoryTypes`, `CopiesWereImported` | `DirectoryInv`: what is pushed is as sound as what it was taken from, and a transfer at its last step has imported its copy |
| | `TestBatches` | `VerdictsAreTrue` | `BatchInv`: a row that has ended is how the run of its job ended; the store has no ended row |
| | `RequestGate` | `GateTypes`, `OneTaskForAKey`, `ChatsAreCounted`, `HandoffsAreKept` | `GateInv`: a key that is not excused leads to the task that is under way (`KeysLead`); the chats that were counted are finite and as many as the counter says; sessions and their stored copies |
| | `MCMasterTables` | `TablesAreKept` (`TablesOK`) | those, and `SyncInv` (section 7) |
| `NodeLifeProofs` | `FmpLink` | `LinkTypes`, `BreakerClosedWhileUp`, `RunningWatched` | `FmpInv`: nobody is connecting what is connected (`UpIsSettled`; without it a failing connect would open the breaker of a live connection), and an object that was not made does nothing (`UnmadeIsIdle`) |
| `TimersProofs` | `ScheduleHost` | `ScheduleTypes`, `AnsweredSchedulesAreKept`, `NothingIsCaughtUp` | `SchedInv`: the file is one the host could have written (`FileOK`); every run was numbered at an instant of its own, so what is not on the list of the round is planned for later than its last run (`RunsArePast`); the schedule that fires was valid (`FiredOK`) |
| `FilesProofs` | `UserAccess` | `AccessTypes`, `RevokedTokensStayOut`, `UsersSurvive` | `AccessInv`: store and file alike have tokens of users only, no token twice, and none that was withdrawn |
| | `AuditLog` | `LossesAreVisible` | `AuditInv`: the previous hash, if there is one, is not older than any chained event; between a line and the one it refers to no event was chained |
| | `TranscriptStore` | `TranscriptsSurvive` | `ShelfInv`: the file of every session is the answered one or an attempted one |
| | `KVStore` | `KeysAreIndexed`, `CleanKeysAreSaved`, `ReportedPutsWereMade` | `TableInv` (every key is in the index of its partition; an unreadable file comes of a failed save) and `CallInv` (an answer that says done is of a put that was made) |
| | `ShardStore` | `VolumesHold`, `QuorumReadsAreLatest` | `ShardInv`: unless it is spoiled, a volume has counted at least what its files have (`Covered`, `GoodVolume`); a shard whose last write reached its quorum and the volume has that data registered and in its file, or has no file |
| | `KVCache` | `CacheTypes`, `CounterIsKept` | `KvInv`: entries differ in their ids; as long as `clean` holds, an export holds the size that its entry has, no two exports hold one id, and whose id is cached holds the entry itself (`ExportsOK`) |
| | `MCCrashes` | `FilesAreKept` (`FilesOK`) | those |
| `FoldProofs` | - | lemmas only | see below |

They hold for any number of nodes, connections, senders, segments, attempts, clients,
keys, files, replicas and so on, from the assumptions named in the modules (types of
the parameters; `ShardAssumption` also says that paths of shards are no other paths
and that there are finitely many of them).

`GroupIsKept`, `TablesAreKept`, `LifeIsKept`, `TimersAreKept` and `FilesAreKept` rest on one
lemma each: a behaviour of the composition is a behaviour of every part, because a
step moves one part and leaves the variables of the others alone.

The code adds up, evicts and loads in loops, which the modules write as folds of the
community modules. A fold is a recursive function over sets of positions, and what it
computes is usually shown by induction, which needs an operator as a parameter. Here
the induction runs over a set instead: the positions up to which something holds
are a set of numbers that has 0 and, with each one, the next (`CountingUp` of
`FoldProofs`); or the subsets for which it holds (`SubsetsUp`). From these `FoldProofs`
gets the table of the intermediate results of a fold (`FoldTable`, `FoldSteps`,
`FoldStays`), of a recursive function over numbers (`StepTable`) and of sums over a set
(`SumTable`, `SumParts`, `SumSame`). So `VolumesHold` follows `_evict_lru` through any
number of files, and `CounterIsKept` follows `_evict` and `load` through any number of
entries.

Some operators are written so that they can be reasoned about: what leaves a sequence
leaves it with `RemoveAt`, `RemoveFirst` or `RemoveFirstMatch`, and `Those` of `KVCache`
filters with a fold, because the prover cannot expand `SelectSeq`. The entries that
leave are the same: ids and paths occur once in their lists, which is proved too.

## 9. Disagreements between code and documents

Refuted by a run, with the quotation in `PROJECT.json`:

- `Scheduler_claim_cancel`: a task cancelled while it is in `_pending_retry` is
  assigned again by the retry loop.
- `Scheduler_claim_pinned`: migrating a pinned task, or losing its node, puts the
  pinned node into `exclude_nodes`, and the task can never be placed again.
- `Election_claim_split`: a leader that learns of a later term raises its term
  before it steps down, with a file write in between; two leaders of one term.
- `HA_claim_standby`: the callbacks are assigned to attributes that the election
  never reads, so every master considers itself the leader.

Met while modelling; those about the scheduler, the election, the agent and the
synchronisation are reproducible with the modules by stating the claim as a
property, the others were met while reading:

- `_finalize_task` does not drain the queue (`README.md` of the repository, lines
  658 and 665, says task completion does); a queued task may wait for ever.
- `_trigger_dispatch` does nothing while an older handle of the task waits, so a
  re-assigned task is not posted to its new node.
- The local-force path of `assign_task` ignores `exclude_nodes` and `draining`.
- `degrade_task` leaves the queue entry of the task it assigns; the task can run
  a second time after it completed.
- A vote given while a campaign saves a later term is forgotten when the
  campaign becomes a follower; a deposed leader finishes its broadcast in the new
  term; older snapshots can replace newer ones in the state file; a split vote is
  never followed by another election.
- Agent: a coroutine cancelled before its first step never runs its `finally`, so
  its entry of `_running_task_handles` stays, blocks the id and a slot, and is
  counted in heartbeats. `_last_fencing_token` is forgotten at a restart.
  Cancelling a test task does not end its subprocess.
- Resident agents: `NodeAgent.start` awaits `ScheduleHost.load`, a plain function
  (`node_agent.py:1159`), and fails with a `TypeError`; `README.md` of the
  repository, lines 60 to 66, calls schedules restart-safe. A schedule removed
  while it fires comes back when it ends; weekly schedules take the wrong weekday.
- Task store: a queued task is not written until something else is; writers share
  one temporary file; `_persist_dirty` is cleared by the write of an older
  snapshot; the `continue` in `_persist_loop` skips the write of rule epochs.
- Active-active: a task that ends is not pushed again, so its mirror stays PENDING
  (`docs/CHANGELOG.md:342` says convergence is eventually consistent). If its owner
  restarts, the mirror comes back as PENDING, is written to the owner's store, and
  runs again after the next restart. Until then it is in no queue. A mirror that is
  cancelled does not cancel the task. `receive_synced_state` replaces node
  records, `draining` included. `HASyncStateRequest` has no field for the rule
  epoch, so that part of a push is dropped.
- Registry: a FAULT node stays FAULT when it registers again, sends heartbeats or is
  unbanned (`cluster_master.py:482` and `tests/test_task_circuit_breaker.py:250`
  expect it back); registering again resets `draining` (the docstring at
  `cluster_master.py:402` keeps it); a probe's answer lifts a ban that was set while
  the probe was under way, and a failed one bans a node that joined anew meanwhile.
- Idempotency: overlapping submissions with one key make two tasks; a hit skips the
  registration of the run id; a PARTIAL task, or a batch, keeps its key until the
  entry expires. `set_tenant_quota` says 0 is unlimited, but then the global quota
  applies. A quota that changes between zero and not zero during a chat, or a stream
  that never starts, leaks or steals a slot.
- FMP: a connect that ends after a disconnect leaves a live connection; a late send
  failure marks the next connection dead; after a send failure with the read loop
  still reading nobody reconnects; the breaker never refuses anything (`UpIsClosed`);
  `start_heartbeat` does not await `stop_heartbeat`; a conversation idle for an hour
  is no longer limited; `_InboundPeer.read_loop` never awaits `_dispatch`; a timeout
  in the middle of a body leaves the stream out of step; `cli.py:208` and `:363` pass
  host and port to `FMPServer.start()`, which takes none.
- KV cache: an entry that replaces its predecessor and evicts it is subtracted twice;
  overlapping exports count twice; an entry warmed without a model is found for
  another model; `import_stream` drops the rest of a chunk between two shards. A
  copy in the KV directory has its original's `created_at` and may be evicted at once.
- Schedule host: a paused schedule in the list of the round still fires.
- Users: an id with "_" can never authenticate; two administrators may demote each
  other, or one himself; a handler uses the role from before; an unreadable users
  file with `FUSION_BOOTSTRAP_ADMIN` set is overwritten.
- Rule epochs: the `continue` at `cluster_master.py:3703` skips the deferred save that
  the comment at `:3424` relies on; a failed save does not keep the dirty flag
  (`:3407` says it does); saves end out of order; an agent takes lower epochs, though
  the docstring at `:3243` says they are refused; without HA nothing is repeated;
  synced confirmations overwrite newer ones.
- Storage: `(N + 1) // 2` is no majority of an even number; without an event loop a
  quorum write over FMP succeeds without the file that a quorum read reads
  (`shard_replication.py:199`), and the read returns older data; a volume
  made anew forgets what its files use; overwriting counts twice; eviction stops at
  70 % although the write may still not fit; `list_keys` of a partition returns stale
  keys; a save of a clean key-value store that fails leaves it clean with a file nobody
  can read (`kv_store.py:187`, `:224`); forks of one transcript within a millisecond collide; the last of two
  overlapping puts wins.
- Audit log: a comment says the number does not advance when the chain fields fail;
  it already has.
- Standby synchronisation adds nodes and never removes any.
- Pipelines: the local-force path of `assign_task` (`cluster_master.py:1495`) does not
  look at the mode, so a pipeline task with a small or unknown model and a preferred
  node gets that node alone, and `_dispatch_pipeline` (`:1900`), which goes through
  the nodes and not through `model_shards`, completes it after the first segment, or
  after none when the task comes with a checkpoint; its docstring (`:1871` to `:1873`) has every
  segment run in turn and the exit of the last one as the result. `degrade_task` keeps the checkpoint, so hidden states of the old model
  go into the smaller one; the cancel route posts the id of the task, but segments
  run under `<task_id>-step<k>`.
- Test batches: finished tasks that are cleaned up or lost turn a finished batch back
  to running; a refused job keeps it running for ever; a 400 for a later job leaves
  the earlier ones without a batch; a job with an exit code other than 0 is counted
  as pending.

## 10. What is only model-checked, and what is not covered

Model-checked only, because the proof system does not handle fairness: all liveness
(`RunningSettles`, `RetriesHappen`, `LeaderGetsKnown`, `RequestsEnd`, `DueIsServed`,
`BansAreReviewed`, `EpochSpreads`, `AgentsCatchUp`).

Every safety property of the runs that pass is also a theorem. Four of them are
theorems with a hypothesis, for the code does not keep them
otherwise (section 9): `OneLeaderPerTerm` (nobody yields and crashes are tidy, or ranks
that leave one possible leader), `RunningIsDriven` and `FinalIsFinal` (no task is degraded),
`DrainReadyIsStable` (no task is forced onto the local node). `CancelIsHonoured` is
proved and not checked by a run of its own: it follows from `ImplementsSlots`.

Not modelled, with the reason in `PROJECT.json`: load routing and the shard planner
(float arithmetic; the scheduler explores every ranking), the supervisor bridge and
memory probe, key exchange and encodings, the tensor transport, cryptography and the
sandbox, training checkpoints (`storage/checkpoint.py`, which only its tests use),
discovery, observability, configuration, command line and web console, the records of
task specifications.
