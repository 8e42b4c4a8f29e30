--------------------------- MODULE TaskScheduler ---------------------------
(***************************************************************************)
(* The scheduling core of ClusterMaster (master/cluster_master.py): the    *)
(* node table, the task table, the priority queue, the retry list and the  *)
(* background dispatch of DATA tasks, on a master without an election.     *)
(*                                                                         *)
(* The master is one asyncio event loop.  None of its lock-protected       *)
(* sections suspends, so the code between two real suspension points (a    *)
(* store write in a thread, an HTTP exchange, a sleep, the start of a new  *)
(* coroutine) is atomic.  The variable turn keeps that atomicity: while it *)
(* names a coroutine, only that coroutine moves.  A loop that calls        *)
(* assign_task several times without suspending is several steps here, but *)
(* nothing else can happen between them.                                   *)
(***************************************************************************)
EXTENDS Integers, FiniteSets, FiniteSetsExt

CONSTANTS
    Nodes,          \* worker nodes
    Tasks,          \* task ids that clients may submit
    Users,          \* tenants
    None,           \* "no node", "no task", "no coroutine"
    Drainers,       \* coroutines that may be draining the queue at a time (a bound)
    RetryLoop,      \* the _retry_loop coroutine
    Submitter,      \* an assign_task call made by a submit route
    Mover,          \* an assign_task call made by migrate_task or degrade_task
    UserOf,         \* [Tasks -> Users]
    Priority,       \* [Tasks -> Int]
    Need,           \* [Tasks -> Nat]: len(task.model_shards) or 1
    Pinned,         \* [Tasks -> Nodes \cup {None}]: pinned_node_id
    Preferred,      \* [Tasks -> Nodes \cup {None}]: preferred_node_id
    Avoid,          \* [Tasks -> SUBSET Nodes]: exclude_nodes of the submit request
    LocalForce,     \* tasks for which _is_local_force holds
    HasCapability,  \* [Tasks -> SUBSET Nodes]: nodes with the required capability
    HasMemory,      \* [Tasks -> SUBSET Nodes]: nodes with the required memory
    TenantLimit,    \* [Users -> Nat]: _tenant_limit_for, 0 is no limit
    MaxActive,      \* NodeInfo.max_tasks
    MaxRetry,       \* _max_retry_attempts
    MaxRetryLoop,   \* _max_retry_loop_attempts
    MaxQueue,       \* _MAX_PENDING_QUEUE
    MaxDegrade,     \* [Tasks -> Nat]: how many times the model can be degraded
    Cancellable,    \* tasks a client may cancel
    Movable,        \* tasks an operator may migrate
    Replies,        \* the kinds of answer nodes give to a dispatch
    Unreliable,     \* nodes that may miss heartbeats, report faults, leave and join
    Drainable       \* nodes an operator may put in drain

ASSUME ConstantsAssumption ==
    /\ UserOf \in [Tasks -> Users]
    /\ Priority \in [Tasks -> Int]
    /\ Need \in [Tasks -> Nat \ {0}]
    /\ Pinned \in [Tasks -> Nodes \cup {None}]
    /\ Preferred \in [Tasks -> Nodes \cup {None}]
    /\ \A t \in Tasks : Pinned[t] # None => Preferred[t] = Pinned[t] /\ Pinned[t] \notin Avoid[t]
    /\ Avoid \in [Tasks -> SUBSET Nodes]
    /\ HasCapability \in [Tasks -> SUBSET Nodes]
    /\ HasMemory \in [Tasks -> SUBSET Nodes]
    /\ TenantLimit \in [Users -> Nat]
    /\ MaxDegrade \in [Tasks -> Nat]
    /\ MaxActive \in Nat \ {0}
    /\ MaxRetry \in Nat /\ MaxRetryLoop \in Nat /\ MaxQueue \in Nat
    /\ LocalForce \subseteq Tasks /\ Cancellable \subseteq Tasks
    /\ Movable \subseteq Tasks /\ Replies \subseteq {"ok", "transient", "blocked", "fenced", "error"}
    /\ Unreliable \subseteq Nodes /\ Drainable \subseteq Nodes
    /\ None \notin Nodes \cup Tasks \cup Drainers \cup {RetryLoop, Submitter, Mover}
    /\ RetryLoop \notin Drainers /\ Submitter \notin Drainers /\ Mover \notin Drainers
    /\ Submitter # RetryLoop /\ Mover # RetryLoop /\ Submitter # Mover

ASSUME FinitenessAssumption == IsFiniteSet(Tasks) /\ IsFiniteSet(Nodes)

VARIABLES
    nodeStatus, \* NodeInfo.status; "absent" when the node is not in self.nodes
    fresh,      \* the last heartbeat is younger than heartbeat_timeout
    active,     \* NodeInfo.active_tasks
    draining,   \* NodeInfo.draining
    status,     \* ClusterTask.status; "none": not submitted, "rejected": refused
    assigned,   \* ClusterTask.assigned_nodes
    exclude,    \* ClusterTask.exclude_nodes
    retries,    \* ClusterTask._retry_count
    backoff,    \* next_retry_at is still in the future
    overdue,    \* the task has been RUNNING longer than timeout_seconds
    degraded,   \* ClusterTask.degradation_count
    queue,      \* _pending_queue: how often each task is in it
    retryq,     \* _pending_retry: how often each task is in it
    todo,       \* the snapshots that _drain_pending_locked and _retry_loop iterate
    wait,       \* <<coroutine, task>>: awaiting a task-store write
    turn,       \* the coroutine that holds the event loop between two steps
    cur,        \* the task it has called assign_task for
    dstate,     \* the _dispatch_task handle of a task
    dres        \* the answers that handle has collected

nodeVars == <<nodeStatus, fresh, active, draining>>
taskVars == <<status, assigned, exclude, retries, backoff, overdue, degraded>>
loopVars == <<queue, retryq, todo, wait, turn, cur>>
dispatchVars == <<dstate, dres>>
vars == <<nodeVars, taskVars, loopVars, dispatchVars>>

NodeStatus == {"online", "busy", "offline", "fault"}
TaskStatus == {"pending", "running", "completed", "failed", "cancelled", "partial"}
Answers == {"ok", "transient", "blocked", "fenced", "error"}

Loops == Drainers \cup {RetryLoop}
Callers == Loops \cup {Submitter, Mover}

\* Several entries of one task can be queued, so a queue counts its entries.
\* The order among the entries of one priority is left open.
Empty == [t \in Tasks |-> 0]
QueueLen == MapThenSumSet(LAMBDA t : queue[t], Tasks)

Idle == turn = None
Present(n) == nodeStatus[n] # "absent"
Free(n) == nodeStatus[n] = "online" /\ active[n] < MaxActive
Running == {t \in Tasks : status[t] = "running"}

Init ==
    /\ nodeStatus = [n \in Nodes |-> "absent"]
    /\ fresh = [n \in Nodes |-> FALSE]
    /\ active = [n \in Nodes |-> 0]
    /\ draining = [n \in Nodes |-> FALSE]
    /\ status = [t \in Tasks |-> "none"]
    /\ assigned = [t \in Tasks |-> {}]
    /\ exclude = Avoid
    /\ retries = [t \in Tasks |-> 0]
    /\ backoff = [t \in Tasks |-> FALSE]
    /\ overdue = [t \in Tasks |-> FALSE]
    /\ degraded = [t \in Tasks |-> 0]
    /\ queue = Empty
    /\ retryq = Empty
    /\ todo = [c \in Loops |-> Empty]
    /\ wait = {}
    /\ turn = None
    /\ cur = None
    /\ dstate = [t \in Tasks |-> "idle"]
    /\ dres = [t \in Tasks |-> [n \in Nodes |-> "none"]]

-----------------------------------------------------------------------------
(* Pieces of handlers                                                      *)

\* node.active_tasks = max(0, node.active_tasks - 1) for the nodes of S that
\* are still registered.
Released(S) ==
    [n \in Nodes |->
        IF n \in S /\ Present(n) /\ active[n] > 0 THEN active[n] - 1 ELSE active[n]]

HasBudgetOffByOne(t) == retries[t] <= MaxRetry
HasBudget(t) == retries[t] < MaxRetry

RetryEntriesForgotten(S) == retryq
\* self._pending_retry.append for every task of S.
RetryEntries(S) == [t \in Tasks |-> IF t \in S THEN retryq[t] + 1 ELSE retryq[t]]

\* _enqueue_retry for every task of S, when the assigned and exclude lists of
\* the tasks are asg and exc: within the budget the task turns PENDING with a
\* back-off and avoids the nodes it was on, beyond the budget it turns FAILED
\* and keeps its lists.
EnqueueRetry(S, asg, exc) ==
    LET again == {t \in S : HasBudget(t)}
    IN  /\ status' = [t \in Tasks |-> IF t \in again THEN "pending"
                                      ELSE IF t \in S THEN "failed" ELSE status[t]]
        /\ exclude' = [t \in Tasks |-> IF t \in again
                                       THEN exc[t] \cup (asg[t] \ {Pinned[t]})
                                       ELSE exc[t]]
        /\ assigned' = [t \in Tasks |-> IF t \in again THEN {} ELSE asg[t]]
        /\ retries' = [t \in Tasks |-> IF t \in again THEN retries[t] + 1 ELSE retries[t]]
        /\ backoff' = [t \in Tasks |-> IF t \in again THEN TRUE ELSE backoff[t]]
        /\ retryq' = RetryEntries(again)

\* _enqueue_pending, past its check of the queue's limit.
EnqueuePending(t) ==
    /\ status' = [status EXCEPT ![t] = "pending"]
    /\ assigned' = [assigned EXCEPT ![t] = {}]
    /\ queue' = [queue EXCEPT ![t] = @ + 1]

TriggerDispatchSkipped(t, asg) == dstate' = dstate
\* _trigger_dispatch for a task whose assigned nodes are asg: nothing happens
\* while an earlier handle of the task is alive.
TriggerDispatch(t, asg) ==
    dstate' = IF asg # {} /\ dstate[t] = "idle"
              THEN [dstate EXCEPT ![t] = "new"] ELSE dstate

\* assign_task returns to its caller; a loop goes on with its next entry.
Return ==
    /\ cur' = None
    /\ turn' = IF turn \in Loops THEN turn ELSE None

\* The end of every path on which assign_task cannot place t: t joins the
\* queue, or the queue is full and the caller handles the refusal.  The drain
\* loop puts t back regardless of the limit, the retry loop, migrate_task and
\* degrade_task go through _enqueue_retry, and a submit route answers 503.
QueueOrRefuse(t) ==
    /\ \/ /\ QueueLen < MaxQueue \/ turn \in Drainers
          /\ EnqueuePending(t)
          /\ UNCHANGED <<exclude, retries, backoff, retryq>>
       \/ /\ QueueLen >= MaxQueue
          /\ turn \in {RetryLoop, Mover}
          /\ EnqueueRetry({t}, assigned, exclude)
          /\ UNCHANGED queue
       \/ /\ QueueLen >= MaxQueue
          /\ turn = Submitter
          /\ status' = [status EXCEPT ![t] = "rejected"]
          /\ UNCHANGED <<assigned, exclude, retries, backoff, queue, retryq>>
    /\ Return
    /\ UNCHANGED <<nodeVars, overdue, degraded, todo, wait, dispatchVars>>

-----------------------------------------------------------------------------
(* assign_task(cur), called by turn                                        *)

CandidatesInDrain(t) ==
    {n \in HasCapability[t] \cap HasMemory[t] :
        /\ nodeStatus[n] \in {"online", "busy"} /\ fresh[n]
        /\ n \notin exclude[t]
        /\ Pinned[t] # None => n = Pinned[t]}

\* select_nodes: the nodes that pass every filter.  LoadRouter.select_n ranks
\* them by load, which is left open, and may return fewer than asked for, but
\* never none of a non-empty list.
Candidates(t) ==
    {n \in HasCapability[t] \cap HasMemory[t] :
        /\ nodeStatus[n] \in {"online", "busy"} /\ fresh[n]
        /\ ~draining[n]
        /\ n \notin exclude[t]
        /\ Pinned[t] # None => n = Pinned[t]}

Selections(t) ==
    {S \in SUBSET Candidates(t) :
        Cardinality(S) <= Need[t] /\ (S = {} => Candidates(t) = {})}

BackupsOfExcluded(t, S) ==
    {n \in HasCapability[t] \cap HasMemory[t] :
        Free(n) /\ ~draining[n] /\ n \notin S /\ Pinned[t] = None}
BackupsOfPinned(t, S) ==
    {n \in HasCapability[t] \cap HasMemory[t] :
        Free(n) /\ ~draining[n] /\ n \notin exclude[t] \cup S}

\* _select_free_nodes_locked: the nodes that may fill up a selection of which
\* only the nodes of S are still free.  A pinned task is never filled up.
Backups(t, S) ==
    {n \in HasCapability[t] \cap HasMemory[t] :
        /\ Free(n) /\ ~draining[n]
        /\ n \notin exclude[t] \cup S
        /\ Pinned[t] = None}

\* The task is RUNNING on S from here on.
Occupy(t, S) ==
    /\ status' = [status EXCEPT ![t] = "running"]
    /\ assigned' = [assigned EXCEPT ![t] = S]
    /\ overdue' = [overdue EXCEPT ![t] = FALSE]
    /\ active' = [n \in Nodes |-> IF n \in S THEN active[n] + 1 ELSE active[n]]
    /\ UNCHANGED <<nodeStatus, fresh, draining, exclude, retries, backoff, degraded,
                   queue, retryq, todo, dres>>

\* assign_task then waits for the store write, unless the throttle defers the
\* write to _persist_loop, in which case it goes on at once.
Place(t, S) ==
    /\ Occupy(t, S)
    /\ \/ /\ wait' = wait \cup {<<turn, t>>}
          /\ turn' = None /\ cur' = None
          /\ UNCHANGED dstate
       \/ /\ TriggerDispatch(t, S)
          /\ Return
          /\ UNCHANGED wait

NothingToDo == Return /\ UNCHANGED <<nodeVars, taskVars, queue, retryq, todo, wait, dispatchVars>>

OverQuotaOffByOne(t) ==
    LET limit == TenantLimit[UserOf[t]]
    IN  limit > 0 /\ Cardinality({u \in Running : UserOf[u] = UserOf[t]}) > limit
\* The P1-H tenant quota: count the tenant's RUNNING tasks.
OverQuota(t) ==
    LET limit == TenantLimit[UserOf[t]]
    IN  limit > 0 /\ Cardinality({u \in Running : UserOf[u] = UserOf[t]}) >= limit

\* The M4-02 path: the preferred node takes a lightweight task as it is, and
\* the change is not written to the store.
LocalForcePossible(t) ==
    /\ t \in LocalForce
    /\ Preferred[t] # None
    /\ Free(Preferred[t]) /\ Preferred[t] \in HasMemory[t]

AlreadyAssigned ==
    /\ cur \in Running
    /\ NothingToDo

QuotaQueued ==
    /\ cur \notin Running /\ OverQuota(cur)
    /\ IF queue[cur] > 0 THEN NothingToDo ELSE QueueOrRefuse(cur)

LocalForced ==
    /\ cur \notin Running /\ ~OverQuota(cur)
    /\ LocalForcePossible(cur)
    /\ Occupy(cur, {Preferred[cur]})
    /\ TriggerDispatch(cur, {Preferred[cur]})
    /\ Return
    /\ UNCHANGED wait

Scheduled ==
    /\ cur \notin Running /\ ~OverQuota(cur)
    /\ ~LocalForcePossible(cur)
    /\ \E S \in Selections(cur) :
         IF Cardinality(S) < Need[cur]
         THEN IF queue[cur] > 0 THEN NothingToDo ELSE QueueOrRefuse(cur)
         ELSE LET confirmed == {n \in S : Free(n)}
                  shortfall == Need[cur] - Cardinality(confirmed)
                  backups   == Backups(cur, confirmed)
              IN  IF Cardinality(backups) < shortfall
                  THEN QueueOrRefuse(cur)
                  ELSE \E B \in SUBSET backups :
                         Cardinality(B) = shortfall /\ Place(cur, confirmed \cup B)

AssignTask ==
    /\ cur # None
    /\ \/ AlreadyAssigned
       \/ QuotaQueued
       \/ LocalForced
       \/ Scheduled

-----------------------------------------------------------------------------
(* Callers of assign_task                                                  *)

\* A coroutine that can start draining the queue.
Available(d) == todo[d] = Empty /\ \A w \in wait : w[1] # d

\* _drain_pending_locked up to its first assign_task: take the whole queue.
StartDrain(d) ==
    IF queue = Empty
    THEN UNCHANGED <<queue, todo, turn>>
    ELSE /\ todo' = [todo EXCEPT ![d] = queue]
         /\ queue' = Empty
         /\ turn' = d

\* POST /api/tasks/submit.
Submit(t) ==
    /\ Idle
    /\ status[t] = "none"
    /\ turn' = Submitter /\ cur' = t
    /\ UNCHANGED <<nodeVars, taskVars, queue, retryq, todo, wait, dispatchVars>>

\* The drain loop calls assign_task for its next entry, by priority.
DrainNext(d) ==
    /\ turn = d /\ cur = None
    /\ \E t \in Tasks :
         /\ todo[d][t] > 0
         /\ \A u \in Tasks : todo[d][u] > 0 => Priority[u] <= Priority[t]
         /\ todo' = [todo EXCEPT ![d][t] = @ - 1]
         /\ cur' = t
    /\ UNCHANGED <<nodeVars, taskVars, queue, retryq, wait, turn, dispatchVars>>

DueTooEarly == [t \in Tasks |-> IF backoff[t] THEN retryq[t] ELSE 0]
\* The entries whose next_retry_at has passed.
Due == [t \in Tasks |-> IF backoff[t] THEN 0 ELSE retryq[t]]

\* The retry loop wakes up and takes the entries whose back-off has expired.
RetryTick ==
    /\ Idle
    /\ Available(RetryLoop)
    /\ Due # Empty
    /\ todo' = [todo EXCEPT ![RetryLoop] = Due]
    /\ retryq' = [t \in Tasks |-> retryq[t] - Due[t]]
    /\ turn' = RetryLoop
    /\ UNCHANGED <<nodeVars, taskVars, queue, wait, cur, dispatchVars>>

RetryNext ==
    /\ turn = RetryLoop /\ cur = None
    /\ \E t \in Tasks :
         /\ todo[RetryLoop][t] > 0
         /\ todo' = [todo EXCEPT ![RetryLoop][t] = @ - 1]
         /\ IF retries[t] >= MaxRetryLoop
            THEN /\ status' = [status EXCEPT ![t] = "failed"]
                 /\ UNCHANGED cur
            ELSE /\ cur' = t
                 /\ UNCHANGED status
    /\ UNCHANGED <<nodeVars, assigned, exclude, retries, backoff, overdue, degraded,
                   queue, retryq, wait, turn, dispatchVars>>

\* A loop has no entry left and goes to sleep (the retry loop) or returns.
LoopEnd ==
    /\ turn \in Loops /\ cur = None
    /\ todo[turn] = Empty
    /\ turn' = None
    /\ UNCHANGED <<nodeVars, taskVars, queue, retryq, todo, wait, cur, dispatchVars>>

\* The store write that assign_task waited for is done: it triggers the
\* dispatch of whatever the task is assigned to by now and returns.
WriteDone(c, t) ==
    /\ Idle
    /\ <<c, t>> \in wait
    /\ wait' = wait \ {<<c, t>>}
    /\ TriggerDispatch(t, assigned[t])
    /\ turn' = IF c \in Loops THEN c ELSE None
    /\ UNCHANGED <<nodeVars, taskVars, queue, retryq, todo, cur, dres>>

UnqueuedOthers(t) == [u \in Tasks |-> IF u = t THEN queue[u] ELSE 0]
\* The queue without the entries of t.
Unqueued(t) == [queue EXCEPT ![t] = 0]

\* cancel_task: the task leaves the queue but not the retry list; its handle
\* and the snapshots of the loops keep it.  The coroutine then waits for the
\* store write, and drains the queue after it.
CancelTask(t, d) ==
    /\ Idle
    /\ t \in Cancellable
    /\ status[t] \in {"pending", "running"}
    /\ Available(d)
    /\ active' = Released(assigned[t])
    /\ assigned' = [assigned EXCEPT ![t] = {}]
    /\ queue' = Unqueued(t)
    /\ status' = [status EXCEPT ![t] = "cancelled"]
    /\ wait' = wait \cup {<<d, None>>}
    /\ UNCHANGED <<nodeStatus, fresh, draining, exclude, retries, backoff, overdue,
                   degraded, retryq, todo, turn, cur, dispatchVars>>

CancelWriteDone(d) ==
    /\ Idle
    /\ <<d, None>> \in wait
    /\ wait' = wait \ {<<d, None>>}
    /\ StartDrain(d)
    /\ UNCHANGED <<nodeVars, taskVars, retryq, cur, dispatchVars>>

\* migrate_task: the nodes it was on are avoided from now on, the pinned node
\* like any other.
MigrateTask(t) ==
    /\ Idle
    /\ t \in Movable
    /\ status[t] = "running"
    /\ <<Mover, t>> \notin wait
    /\ exclude' = [exclude EXCEPT ![t] = @ \cup assigned[t]]
    /\ active' = Released(assigned[t])
    /\ assigned' = [assigned EXCEPT ![t] = {}]
    /\ status' = [status EXCEPT ![t] = "pending"]
    /\ turn' = Mover /\ cur' = t
    /\ UNCHANGED <<nodeStatus, fresh, draining, retries, backoff, overdue, degraded,
                   queue, retryq, todo, wait, dispatchVars>>

\* degrade_task: also for a task that is queued, in the retry list or FAILED.
DegradeTask(t) ==
    /\ Idle
    /\ status[t] \in {"running", "pending", "failed"}
    /\ degraded[t] < MaxDegrade[t]
    /\ <<Mover, t>> \notin wait
    /\ active' = Released(assigned[t])
    /\ assigned' = [assigned EXCEPT ![t] = {}]
    /\ degraded' = [degraded EXCEPT ![t] = @ + 1]
    /\ status' = [status EXCEPT ![t] = "pending"]
    /\ turn' = Mover /\ cur' = t
    /\ UNCHANGED <<nodeStatus, fresh, draining, exclude, retries, backoff, overdue,
                   queue, retryq, todo, wait, dispatchVars>>

-----------------------------------------------------------------------------
(* _dispatch_task, one handle per task                                     *)

\* The handle starts: it posts to the nodes the task has now.  A node that is
\* no longer registered counts as a transient failure without a request.
DispatchStart(t) ==
    /\ Idle
    /\ dstate[t] = "new"
    /\ dstate' = [dstate EXCEPT ![t] = IF assigned[t] = {} THEN "idle" ELSE "sent"]
    /\ dres' = [dres EXCEPT ![t] =
                  [n \in Nodes |-> IF n \notin assigned[t] THEN "none"
                                   ELSE IF Present(n) THEN "wait" ELSE "transient"]]
    /\ UNCHANGED <<nodeVars, taskVars, loopVars>>

\* A node answers: it ran the task, was overloaded or rate limited, refused it
\* as a duplicate or for its sandbox, refused an old master, or failed inside.
Answer(t, n) ==
    /\ Idle
    /\ dres[t][n] = "wait"
    /\ \E a \in Replies : dres' = [dres EXCEPT ![t][n] = a]
    /\ UNCHANGED <<nodeVars, taskVars, loopVars, dstate>>

\* The exchange fails or times out: report_fault, then a transient failure.
TransportError(t, n) ==
    /\ Idle
    /\ n \in Unreliable
    /\ dres[t][n] = "wait"
    /\ dres' = [dres EXCEPT ![t][n] = "transient"]
    /\ nodeStatus' = [nodeStatus EXCEPT ![n] = IF Present(n) THEN "fault" ELSE @]
    /\ UNCHANGED <<fresh, active, draining, taskVars, loopVars, dstate>>

Got(t, A) == \E n \in Nodes : dres[t][n] \in A

FinalizableAlways(t) == status[t] # "none"
\* _finalize_task leaves a task alone that was cancelled or timed out meanwhile.
Finalizable(t) == status[t] = "running"

\* Every node has answered: _dispatch_data sorts the answers and calls
\* _finalize_task, which releases the nodes the task has now, records the
\* outcome and waits for the store.
DispatchFinish(t) ==
    /\ Idle
    /\ dstate[t] = "sent"
    /\ ~Got(t, {"wait"})
    /\ dres' = [dres EXCEPT ![t] = [n \in Nodes |-> "none"]]
    /\ nodeStatus' = [n \in Nodes |-> IF dres[t][n] = "error" /\ Present(n)
                                      THEN "fault" ELSE nodeStatus[n]]
    /\ IF ~Finalizable(t)
       THEN /\ dstate' = [dstate EXCEPT ![t] = "idle"]
            /\ UNCHANGED <<active, taskVars, retryq>>
       ELSE /\ dstate' = [dstate EXCEPT ![t] = "flush"]
            /\ active' = Released(assigned[t])
            /\ IF ~Got(t, {"ok"}) /\ Got(t, {"transient"}) /\ ~Got(t, {"fenced", "error"})
               THEN EnqueueRetry({t}, assigned, exclude)
               ELSE /\ status' = [status EXCEPT ![t] =
                          IF ~Got(t, {"ok"}) THEN "failed"
                          ELSE IF Got(t, Answers \ {"ok"}) THEN "partial" ELSE "completed"]
                    /\ UNCHANGED <<assigned, exclude, retries, backoff, retryq>>
            /\ UNCHANGED <<overdue, degraded>>
    /\ UNCHANGED <<fresh, draining, queue, todo, wait, turn, cur>>

\* The store write of _finalize_task is done and the handle ends.
DispatchEnd(t) ==
    /\ Idle
    /\ dstate[t] = "flush"
    /\ dstate' = [dstate EXCEPT ![t] = "idle"]
    /\ UNCHANGED <<nodeVars, taskVars, loopVars, dres>>

-----------------------------------------------------------------------------
(* Nodes, timers and operators                                             *)

\* register_node, for a new node or again; the new NodeInfo replaces the old
\* one except for the fields it copies, which draining is not among.
RegisterNode(n, d) ==
    /\ Idle
    /\ Present(n) => n \in Unreliable
    /\ Available(d)
    /\ nodeStatus' = [nodeStatus EXCEPT ![n] = IF @ \in {"absent", "offline"} THEN "online" ELSE @]
    /\ fresh' = [fresh EXCEPT ![n] = TRUE]
    /\ \E k \in 0..MaxActive :
         active' = [active EXCEPT ![n] = IF Present(n) THEN @ ELSE k]
    /\ draining' = [draining EXCEPT ![n] = FALSE]
    /\ StartDrain(d)
    /\ UNCHANGED <<taskVars, retryq, wait, cur, dispatchVars>>

\* unregister_node, and _cleanup_offline_nodes.
UnregisterNode(n) ==
    /\ Idle
    /\ n \in Unreliable /\ Present(n)
    /\ nodeStatus' = [nodeStatus EXCEPT ![n] = "absent"]
    /\ fresh' = [fresh EXCEPT ![n] = FALSE]
    /\ active' = [active EXCEPT ![n] = 0]
    /\ draining' = [draining EXCEPT ![n] = FALSE]
    /\ UNCHANGED <<taskVars, loopVars, dispatchVars>>

\* update_heartbeat and update_node_load: the node's own count of its tasks,
\* taken at some earlier moment, replaces the master's.
Heartbeat(n) ==
    /\ Idle
    /\ Present(n)
    /\ fresh' = [fresh EXCEPT ![n] = TRUE]
    /\ \E k \in 0..MaxActive : active' = [active EXCEPT ![n] = k]
    /\ nodeStatus' = [nodeStatus EXCEPT ![n] = IF @ = "offline" THEN "online" ELSE @]
    /\ UNCHANGED <<draining, taskVars, loopVars, dispatchVars>>

\* Time passes: the last heartbeat of a node is older than heartbeat_timeout.
HeartbeatLapse(n) ==
    /\ Idle
    /\ n \in Unreliable /\ fresh[n]
    /\ fresh' = [fresh EXCEPT ![n] = FALSE]
    /\ UNCHANGED <<nodeStatus, active, draining, taskVars, loopVars, dispatchVars>>

\* POST /api/nodes/fault.
ReportFault(n) ==
    /\ Idle
    /\ n \in Unreliable /\ Present(n)
    /\ nodeStatus' = [nodeStatus EXCEPT ![n] = "fault"]
    /\ UNCHANGED <<fresh, active, draining, taskVars, loopVars, dispatchVars>>

SetNodeDraining(n, b) ==
    /\ Idle
    /\ n \in Drainable /\ Present(n)
    /\ draining' = [draining EXCEPT ![n] = b]
    /\ UNCHANGED <<nodeStatus, fresh, active, taskVars, loopVars, dispatchVars>>

\* Time passes for a task.
BackoffExpires(t) ==
    /\ Idle
    /\ backoff[t]
    /\ dstate[t] # "flush"  \* 30 s and more: the handle's store write is over by then
    /\ backoff' = [backoff EXCEPT ![t] = FALSE]
    /\ UNCHANGED <<nodeVars, status, assigned, exclude, retries, overdue, degraded,
                   loopVars, dispatchVars>>

TimeoutPasses(t) ==
    /\ Idle
    /\ t \in Running /\ ~overdue[t]
    /\ overdue' = [overdue EXCEPT ![t] = TRUE]
    /\ UNCHANGED <<nodeVars, status, assigned, exclude, retries, backoff, degraded,
                   loopVars, dispatchVars>>

NoneLate == {}
\* check_timeouts: RUNNING tasks past their timeout_seconds.
Late == {t \in Running : overdue[t]}

\* One round of _health_check_loop: check_timeouts, then _refresh_node_statuses.
\* Both send tasks through _enqueue_retry; neither releases active counters.
HealthTick ==
    LET lost    == {n \in Nodes : nodeStatus[n] \in {"online", "busy"} /\ ~fresh[n]}
        stuck   == {t \in Running \ Late : assigned[t] \cap lost # {}}
    IN  /\ Idle
        /\ nodeStatus' = [n \in Nodes |->
              IF n \in lost THEN "offline"
              ELSE IF nodeStatus[n] = "online" /\ active[n] >= MaxActive THEN "busy"
              ELSE IF nodeStatus[n] = "busy" /\ active[n] < MaxActive THEN "online"
              ELSE nodeStatus[n]]
        /\ EnqueueRetry(Late \cup stuck,
                        [t \in Tasks |-> IF t \in stuck THEN {} ELSE assigned[t]],
                        [t \in Tasks |-> IF t \in stuck
                                         THEN exclude[t] \cup (assigned[t] \cap lost)
                                         ELSE exclude[t]])
        /\ UNCHANGED <<fresh, active, draining, overdue, degraded, queue, todo, wait, turn,
                       cur, dispatchVars>>

-----------------------------------------------------------------------------
NodeStep ==
    \/ \E n \in Nodes, d \in Drainers : RegisterNode(n, d)
    \/ \E n \in Nodes : \/ UnregisterNode(n)
                        \/ Heartbeat(n)
                        \/ HeartbeatLapse(n)
                        \/ ReportFault(n)
                        \/ \E b \in BOOLEAN : SetNodeDraining(n, b)

ClientStep ==
    \E t \in Tasks : \/ Submit(t)
                     \/ \E d \in Drainers : CancelTask(t, d)
                     \/ MigrateTask(t)
                     \/ DegradeTask(t)

LoopStep ==
    \/ AssignTask
    \/ \E d \in Drainers : DrainNext(d)
    \/ RetryNext
    \/ LoopEnd

DispatchStep ==
    \E t \in Tasks : \/ DispatchStart(t)
                     \/ \E n \in Nodes : Answer(t, n) \/ TransportError(t, n)
                     \/ DispatchFinish(t)
                     \/ DispatchEnd(t)

TimeStep ==
    \/ \E t \in Tasks : BackoffExpires(t) \/ TimeoutPasses(t)
    \/ HealthTick
    \/ RetryTick
    \/ \E c \in Callers, t \in Tasks : WriteDone(c, t)
    \/ \E d \in Drainers : CancelWriteDone(d)

Next == NodeStep \/ ClientStep \/ LoopStep \/ DispatchStep \/ TimeStep

Spec == Init /\ [][Next]_vars

-----------------------------------------------------------------------------
(* Fairness.  asyncio runs every ready callback in turn, so a coroutine    *)
(* that is ready again and again runs; time passes; a store write ends.    *)
TimerFairness ==
    /\ WF_vars(LoopStep)
    /\ SF_vars(HealthTick)
    /\ SF_vars(RetryTick)
    /\ \A t \in Tasks :
          /\ SF_vars(\E c \in Callers : WriteDone(c, t))
          /\ SF_vars(DispatchEnd(t))
          /\ SF_vars(BackoffExpires(t))
          /\ SF_vars(TimeoutPasses(t))

\* A dispatch makes progress as well: a request is answered or runs into its
\* HTTP timeout.
DispatchFairness ==
    /\ \A d \in Drainers : SF_vars(CancelWriteDone(d))
    /\ \A t \in Tasks :
          /\ SF_vars(DispatchStart(t))
          /\ SF_vars(\E n \in Nodes : Answer(t, n) \/ TransportError(t, n))
          /\ SF_vars(DispatchFinish(t))

\* Agents may never answer.
TimedSpec == Spec /\ TimerFairness

FairSpec == TimedSpec /\ DispatchFairness

-----------------------------------------------------------------------------
(* Properties                                                              *)

\* Every variable stays in its type; the counters stay in their bounds: no
\* node is charged with more than max_tasks, no task is retried beyond the
\* budget of _enqueue_retry.
TypeOK ==
    /\ nodeStatus \in [Nodes -> NodeStatus \cup {"absent"}]
    /\ fresh \in [Nodes -> BOOLEAN]
    /\ active \in [Nodes -> 0..MaxActive]
    /\ draining \in [Nodes -> BOOLEAN]
    /\ status \in [Tasks -> TaskStatus \cup {"none", "rejected"}]
    /\ assigned \in [Tasks -> SUBSET Nodes]
    /\ exclude \in [Tasks -> SUBSET Nodes]
    /\ retries \in [Tasks -> 0..MaxRetry]
    /\ backoff \in [Tasks -> BOOLEAN]
    /\ overdue \in [Tasks -> BOOLEAN]
    /\ degraded \in [Tasks -> Nat]
    /\ queue \in [Tasks -> Nat]
    /\ retryq \in [Tasks -> Nat]
    /\ todo \in [Loops -> [Tasks -> Nat]]
    /\ wait \subseteq Callers \X (Tasks \cup {None})
    /\ turn \in Callers \cup {None}
    /\ cur \in Tasks \cup {None}
    /\ dstate \in [Tasks -> {"idle", "new", "sent", "flush"}]
    /\ dres \in [Tasks -> [Nodes -> Answers \cup {"none", "wait"}]]

\* The event loop: assign_task is only ever running for a coroutine that has
\* the turn, and a cancel_task that waits for the store has nothing to drain yet.
LoopsOK ==
    /\ cur # None => turn \in Callers
    /\ \A d \in Drainers : <<d, None>> \in wait => todo[d] = Empty

Held(t) == queue[t] > 0 \/ retryq[t] > 0 \/ cur = t \/ \E c \in Loops : todo[c][t] > 0

\* A PENDING task is never forgotten: it is in _pending_queue, in _pending_retry,
\* or in the hands of a coroutine that will assign or re-queue it, whatever
\* drains, retries, cancellations and node losses overlap.
NoPendingTaskLost == \A t \in Tasks : status[t] = "pending" => Held(t)

\* No tenant ever has more RUNNING tasks than its limit, although assign_task
\* counts them first and marks the task RUNNING later.
QuotaRespected ==
    \A u \in Users : TenantLimit[u] > 0 =>
        Cardinality({t \in Running : UserOf[t] = u}) <= TenantLimit[u]

\* A task that is scheduled (not forced onto its preferred node) never runs on
\* a node of its exclude_nodes, the nodes it failed on included.
AvoidsFailedNodes ==
    \A t \in Running \ LocalForce : assigned[t] \cap exclude[t] = {}

\* A pinned task runs on the pinned node and nowhere else.
PinnedStaysPut ==
    \A t \in Running : Pinned[t] # None => assigned[t] = {Pinned[t]}

\* A RUNNING task always has somebody to finish it: a dispatch handle before
\* its _finalize_task, or an assign_task call about to trigger one.
RunningIsDriven ==
    \A t \in Running : \/ dstate[t] \in {"new", "sent"}
                       \/ \E c \in Callers : <<c, t>> \in wait

Final == {"completed", "partial", "failed", "rejected"}

\* A task that ended keeps its end: nothing left over in a queue, a snapshot or
\* a handle of an earlier attempt starts it again or changes the result.
FinalIsFinal ==
    [][\A t \in Tasks : status[t] \in Final => status'[t] = status[t]]_vars

Ready(n) == draining[n] /\ \A t \in Running : n \notin assigned[t]

\* The drain contract of drain_status: once a draining node is ready, it stays
\* ready for as long as it is draining.
DrainReadyIsStable ==
    [][\A n \in Nodes : Ready(n) /\ draining'[n] => Ready(n)']_vars

\* No task is RUNNING forever: its dispatch ends, or its timeout does it.
RunningSettles == \A t \in Tasks : t \in Running ~> t \notin Running

\* A task in the retry list is taken out of it again.
RetriesHappen == \A t \in Tasks : retryq[t] > 0 ~> retryq[t] = 0

=============================================================================
