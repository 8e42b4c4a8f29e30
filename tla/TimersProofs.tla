---------------------------- MODULE TimersProofs ----------------------------
(***************************************************************************)
(* What a master promises of its tasks (TaskScheduler) and a node of its   *)
(* schedules (ScheduleHost), for every value of their constants.           *)
(***************************************************************************)
EXTENDS MCTimers, FoldProofs, FiniteSetTheorems, TLAPS

\* The inductive invariant of the event loop.
TypeInv == TypeOK /\ LoopsOK

-----------------------------------------------------------------------------
(* Types of the pieces                                                     *)

\* Releasing nodes keeps their loads in range (_release_node).
LEMMA ReleasedType ==
    ASSUME TypeOK, NEW S \in SUBSET Nodes
    PROVE  Released(S) \in [Nodes -> 0..MaxActive]
  BY ConstantsAssumption DEF TypeOK, Released

\* A retry entry is well formed (_enqueue_retry).
LEMMA EnqueueRetryType ==
    ASSUME TypeOK,
           NEW S \in SUBSET Tasks,
           NEW asg \in [Tasks -> SUBSET Nodes],
           NEW exc \in [Tasks -> SUBSET Nodes],
           EnqueueRetry(S, asg, exc)
    PROVE  /\ status' \in [Tasks -> TaskStatus \cup {"none", "rejected"}]
           /\ assigned' \in [Tasks -> SUBSET Nodes]
           /\ exclude' \in [Tasks -> SUBSET Nodes]
           /\ retries' \in [Tasks -> 0..MaxRetry]
           /\ backoff' \in [Tasks -> BOOLEAN]
           /\ retryq' \in [Tasks -> Nat]
  <1> DEFINE again == {t \in S : HasBudget(t)}
  <1>1. status' \in [Tasks -> TaskStatus \cup {"none", "rejected"}]
    BY DEF TypeOK, EnqueueRetry, TaskStatus
  <1>2. assigned' \in [Tasks -> SUBSET Nodes]
    BY DEF EnqueueRetry
  <1>3. exclude' \in [Tasks -> SUBSET Nodes]
    BY DEF EnqueueRetry
  <1>4. retries' \in [Tasks -> 0..MaxRetry]
    BY ConstantsAssumption DEF TypeOK, EnqueueRetry, HasBudget
  <1>5. backoff' \in [Tasks -> BOOLEAN]
    BY DEF TypeOK, EnqueueRetry
  <1>6. retryq' \in [Tasks -> Nat]
    BY DEF TypeOK, EnqueueRetry, RetryEntries
  <1> QED BY <1>1, <1>2, <1>3, <1>4, <1>5, <1>6

\* Both answers for want of nodes keep the types (_queue_or_refuse).
LEMMA QueueOrRefuseType ==
    ASSUME TypeInv, NEW t \in Tasks, cur = t, QueueOrRefuse(t)
    PROVE  TypeInv'
  <1> USE DEF TypeInv
  <1>1. CASE EnqueuePending(t) /\ UNCHANGED <<exclude, retries, backoff, retryq>>
    BY <1>1, ConstantsAssumption
    DEF TypeOK, LoopsOK, QueueOrRefuse, EnqueuePending, Return, TaskStatus, Callers, Loops,
        nodeVars, dispatchVars, Empty
  <1>2. CASE EnqueueRetry({t}, assigned, exclude) /\ UNCHANGED queue
    <2>1. /\ status' \in [Tasks -> TaskStatus \cup {"none", "rejected"}]
          /\ assigned' \in [Tasks -> SUBSET Nodes]
          /\ exclude' \in [Tasks -> SUBSET Nodes]
          /\ retries' \in [Tasks -> 0..MaxRetry]
          /\ backoff' \in [Tasks -> BOOLEAN]
          /\ retryq' \in [Tasks -> Nat]
      BY <1>2, EnqueueRetryType DEF TypeOK
    <2> QED
      BY <1>2, <2>1, ConstantsAssumption
      DEF TypeOK, LoopsOK, QueueOrRefuse, Return, Callers, Loops, nodeVars, dispatchVars, Empty
  <1>3. CASE status' = [status EXCEPT ![t] = "rejected"]
             /\ UNCHANGED <<assigned, exclude, retries, backoff, queue, retryq>>
    BY <1>3, ConstantsAssumption
    DEF TypeOK, LoopsOK, QueueOrRefuse, Return, Callers, Loops, nodeVars, dispatchVars, Empty
  <1> QED BY <1>1, <1>2, <1>3 DEF QueueOrRefuse

\* The nodes a task is placed on have room for it.
LEMMA PlaceType ==
    ASSUME TypeInv, NEW t \in Tasks, cur = t,
           NEW S \in SUBSET Nodes, \A n \in S : Free(n), Place(t, S)
    PROVE  TypeInv'
  <1> USE DEF TypeInv
  <1>1. active' \in [Nodes -> 0..MaxActive]
    BY ConstantsAssumption DEF TypeOK, Place, Occupy, Free
  <1>2. status' \in [Tasks -> TaskStatus \cup {"none", "rejected"}]
    BY DEF TypeOK, Place, Occupy, TaskStatus
  <1>3. turn \in Callers /\ t # None
    BY ConstantsAssumption DEF TypeOK, LoopsOK
  <1>4. dstate' \in [Tasks -> {"idle", "new", "sent", "flush"}]
    BY DEF TypeOK, Place, TriggerDispatch
  <1>5. turn' \in Callers \cup {None} /\ cur' = None
    BY <1>3 DEF Place, Return
  <1>6. /\ wait' \subseteq Callers \X (Tasks \cup {None})
        /\ \A d : <<d, None>> \in wait' => <<d, None>> \in wait
    BY <1>3 DEF TypeOK, Place
  <1> QED
    BY <1>1, <1>2, <1>4, <1>5, <1>6, ConstantsAssumption DEF TypeOK, LoopsOK, Place, Occupy, Empty

\* An assignment with nothing to do changes no table.
LEMMA NothingToDoType ==
    ASSUME TypeInv, cur \in Tasks, NothingToDo
    PROVE  TypeInv'
  BY DEF TypeInv, TypeOK, LoopsOK, NothingToDo, Return, Empty, nodeVars, taskVars, dispatchVars

\* The nodes an assignment takes, backups included, are free nodes.
LEMMA ScheduledNodesFree ==
    ASSUME TypeInv, NEW t \in Tasks, NEW S \in Selections(t),
           NEW B \in SUBSET Backups(t, {n \in S : Free(n)})
    PROVE  /\ {n \in S : Free(n)} \cup B \in SUBSET Nodes
           /\ \A n \in {n \in S : Free(n)} \cup B : Free(n)
  BY ConstantsAssumption DEF Selections, Candidates, Backups

\* An assignment keeps the types (assign_task).
LEMMA AssignTaskType ==
    ASSUME TypeInv, AssignTask
    PROVE  TypeInv'
  <1>0. cur \in Tasks
    BY DEF AssignTask, TypeInv, TypeOK
  <1>1. CASE AlreadyAssigned
    BY <1>0, <1>1, NothingToDoType DEF AlreadyAssigned
  <1>2. CASE QuotaQueued
    BY <1>0, <1>2, NothingToDoType, QueueOrRefuseType DEF QuotaQueued
  <1>3. CASE LocalForced
    <2> DEFINE S == {Preferred[cur]}
    <2>1. S \in SUBSET Nodes /\ \A n \in S : Free(n)
      BY <1>0, <1>3, ConstantsAssumption DEF LocalForced, LocalForcePossible
    <2>2. Place(cur, S)
      BY <1>3 DEF LocalForced, Place
    <2> QED BY <1>0, <2>1, <2>2, PlaceType
  <1>4. CASE Scheduled
    <2>1. PICK S \in Selections(cur) :
            \/ NothingToDo
            \/ QueueOrRefuse(cur)
            \/ \E B \in SUBSET Backups(cur, {n \in S : Free(n)}) :
                  Place(cur, {n \in S : Free(n)} \cup B)
      BY <1>4 DEF Scheduled
    <2>2. CASE NothingToDo
      BY <1>0, <2>2, NothingToDoType
    <2>3. CASE QueueOrRefuse(cur)
      BY <1>0, <2>3, QueueOrRefuseType
    <2>4. CASE \E B \in SUBSET Backups(cur, {n \in S : Free(n)}) :
                  Place(cur, {n \in S : Free(n)} \cup B)
      BY <1>0, <2>4, ScheduledNodesFree, PlaceType
    <2> QED BY <2>1, <2>2, <2>3, <2>4
  <1> QED BY <1>1, <1>2, <1>3, <1>4 DEF AssignTask

\* Draining starts with an empty snapshot, and takes the queue as it is.
LEMMA StartDrainType ==
    ASSUME TypeInv, NEW d \in Drainers, StartDrain(d)
    PROVE  /\ queue' \in [Tasks -> Nat]
           /\ todo' \in [Loops -> [Tasks -> Nat]]
           /\ turn' \in Callers \cup {None}
           /\ \A e \in Drainers : e # d => todo'[e] = todo[e]
  <1> USE DEF TypeInv
  <1>1. CASE queue = Empty
    BY <1>1 DEF TypeOK, StartDrain
  <1>2. CASE queue # Empty
    <2>1. todo' = [todo EXCEPT ![d] = queue] /\ queue' = Empty /\ turn' = d
      BY <1>2 DEF StartDrain
    <2>2. d \in Loops /\ d \in Callers /\ Drainers \subseteq Loops
      BY DEF Loops, Callers
    <2>3. Empty \in [Tasks -> Nat]
      BY DEF Empty
    <2> QED BY <2>1, <2>2, <2>3 DEF TypeOK
  <1> QED BY <1>1, <1>2

-----------------------------------------------------------------------------
\* The initial state is well typed.
LEMMA TypeInit == Init => TypeInv
  BY ConstantsAssumption
  DEF Init, TypeInv, TypeOK, LoopsOK, Empty, NodeStatus, TaskStatus, Answers

\* Every step keeps the types.
LEMMA TypeStep ==
    ASSUME TypeInv, [Next]_vars
    PROVE  TypeInv'
  <1> USE DEF TypeInv, Idle
  <1>1. ASSUME NEW n \in Nodes, NEW d \in Drainers, RegisterNode(n, d)
        PROVE  TypeInv'
    <2>1. /\ queue' \in [Tasks -> Nat]
          /\ todo' \in [Loops -> [Tasks -> Nat]]
          /\ turn' \in Callers \cup {None}
          /\ \A e \in Drainers : e # d => todo'[e] = todo[e]
      BY <1>1, StartDrainType DEF RegisterNode
    <2>2. <<d, None>> \notin wait
      BY <1>1 DEF RegisterNode, Available
    <2>3. cur = None
      BY <1>1, ConstantsAssumption DEF RegisterNode, LoopsOK, Callers, Loops
    <2>4. active' \in [Nodes -> 0..MaxActive]
      BY <1>1, ConstantsAssumption DEF RegisterNode, TypeOK
    <2>5. /\ nodeStatus' \in [Nodes -> NodeStatus \cup {"absent"}]
          /\ fresh' \in [Nodes -> BOOLEAN]
          /\ draining' \in [Nodes -> BOOLEAN]
      BY <1>1 DEF RegisterNode, TypeOK, NodeStatus
    <2> QED
      BY <1>1, <2>1, <2>2, <2>3, <2>4, <2>5
      DEF RegisterNode, TypeOK, LoopsOK, taskVars, dispatchVars, Empty
  <1>2. ASSUME NEW n \in Nodes, UnregisterNode(n)
        PROVE  TypeInv'
    BY <1>2, ConstantsAssumption
    DEF UnregisterNode, TypeOK, LoopsOK, NodeStatus, taskVars, loopVars, dispatchVars, Empty
  <1>3. ASSUME NEW n \in Nodes, Heartbeat(n)
        PROVE  TypeInv'
    BY <1>3, ConstantsAssumption
    DEF Heartbeat, TypeOK, LoopsOK, NodeStatus, taskVars, loopVars, dispatchVars, Empty
  <1>4. ASSUME NEW n \in Nodes, HeartbeatLapse(n)
        PROVE  TypeInv'
    BY <1>4 DEF HeartbeatLapse, TypeOK, LoopsOK, taskVars, loopVars, dispatchVars, Empty
  <1>5. ASSUME NEW n \in Nodes, ReportFault(n)
        PROVE  TypeInv'
    BY <1>5 DEF ReportFault, TypeOK, LoopsOK, NodeStatus, taskVars, loopVars, dispatchVars, Empty
  <1>6. ASSUME NEW n \in Nodes, NEW b \in BOOLEAN, SetNodeDraining(n, b)
        PROVE  TypeInv'
    BY <1>6 DEF SetNodeDraining, TypeOK, LoopsOK, taskVars, loopVars, dispatchVars, Empty
  <1>7. ASSUME NEW t \in Tasks, Submit(t)
        PROVE  TypeInv'
    BY <1>7
    DEF Submit, TypeOK, LoopsOK, Callers, nodeVars, taskVars, dispatchVars, Empty
  <1>8. ASSUME NEW t \in Tasks, NEW d \in Drainers, CancelTask(t, d)
        PROVE  TypeInv'
    <2>1. active' \in [Nodes -> 0..MaxActive]
      BY <1>8, ReleasedType DEF CancelTask, TypeOK
    <2>2. todo[d] = Empty
      BY <1>8 DEF CancelTask, Available
    <2>3. wait' \subseteq Callers \X (Tasks \cup {None})
      BY <1>8 DEF CancelTask, TypeOK, Callers, Loops
    <2>4. \A e \in Drainers : <<e, None>> \in wait' => todo'[e] = Empty
      BY <1>8, <2>2 DEF CancelTask, LoopsOK
    <2> QED
      BY <1>8, <2>1, <2>3, <2>4
      DEF CancelTask, Unqueued, TypeOK, LoopsOK, TaskStatus, dispatchVars, Empty
  <1>9. ASSUME NEW t \in Tasks, MigrateTask(t)
        PROVE  TypeInv'
    <2>1. active' \in [Nodes -> 0..MaxActive]
      BY <1>9, ReleasedType DEF MigrateTask, TypeOK
    <2> QED
      BY <1>9, <2>1 DEF MigrateTask, TypeOK, LoopsOK, TaskStatus, Callers, dispatchVars, Empty
  <1>10. ASSUME NEW t \in Tasks, DegradeTask(t)
         PROVE  TypeInv'
    <2>1. active' \in [Nodes -> 0..MaxActive]
      BY <1>10, ReleasedType DEF DegradeTask, TypeOK
    <2> QED
      BY <1>10, <2>1 DEF DegradeTask, TypeOK, LoopsOK, TaskStatus, Callers, dispatchVars, Empty
  <1>11. ASSUME NEW d \in Drainers, DrainNext(d)
         PROVE  TypeInv'
    BY <1>11, ConstantsAssumption
    DEF DrainNext, TypeOK, LoopsOK, Callers, Loops, nodeVars, taskVars, dispatchVars, Empty
  <1>12. ASSUME RetryNext
         PROVE  TypeInv'
    <2>1. PICK t \in Tasks :
            /\ todo' = [todo EXCEPT ![RetryLoop][t] = @ - 1]
            /\ todo[RetryLoop][t] > 0
            /\ \/ status' = [status EXCEPT ![t] = "failed"] /\ cur' = cur
               \/ status' = status /\ cur' = t
      BY <1>12 DEF RetryNext
    <2>2. RetryLoop \in Loops /\ RetryLoop \in Callers /\ turn = RetryLoop /\ turn' = turn
      BY <1>12 DEF RetryNext, Loops, Callers
    <2>3. todo' \in [Loops -> [Tasks -> Nat]]
      BY <2>1, <2>2 DEF TypeOK
    <2>4. status' \in [Tasks -> TaskStatus \cup {"none", "rejected"}]
      BY <2>1 DEF TypeOK, TaskStatus
    <2>5. \A d \in Drainers : todo'[d] = todo[d]
      BY <2>1, <2>2, ConstantsAssumption DEF TypeOK, Loops
    <2> QED
      BY <1>12, <2>1, <2>2, <2>3, <2>4, <2>5
      DEF RetryNext, TypeOK, LoopsOK, nodeVars, dispatchVars, Empty
  <1>13. ASSUME LoopEnd
         PROVE  TypeInv'
    BY <1>13 DEF LoopEnd, TypeOK, LoopsOK, nodeVars, taskVars, dispatchVars, Empty
  <1>14. ASSUME NEW t \in Tasks, DispatchStart(t)
         PROVE  TypeInv'
    BY <1>14 DEF DispatchStart, TypeOK, LoopsOK, Answers, nodeVars, taskVars, loopVars, Empty
  <1>15. ASSUME NEW t \in Tasks, NEW n \in Nodes, Answer(t, n)
         PROVE  TypeInv'
    BY <1>15, ConstantsAssumption
    DEF Answer, TypeOK, LoopsOK, Answers, nodeVars, taskVars, loopVars, Empty
  <1>16. ASSUME NEW t \in Tasks, NEW n \in Nodes, TransportError(t, n)
         PROVE  TypeInv'
    BY <1>16 DEF TransportError, TypeOK, LoopsOK, NodeStatus, Answers, taskVars, loopVars, Empty
  <1>17. ASSUME NEW t \in Tasks, DispatchFinish(t)
         PROVE  TypeInv'
    <2>1. active' \in [Nodes -> 0..MaxActive]
      BY <1>17, ReleasedType DEF DispatchFinish, TypeOK
    <2>2. /\ nodeStatus' \in [Nodes -> NodeStatus \cup {"absent"}]
          /\ dstate' \in [Tasks -> {"idle", "new", "sent", "flush"}]
          /\ dres' \in [Tasks -> [Nodes -> Answers \cup {"none", "wait"}]]
      BY <1>17 DEF DispatchFinish, TypeOK, NodeStatus
    <2>3. /\ status' \in [Tasks -> TaskStatus \cup {"none", "rejected"}]
          /\ assigned' \in [Tasks -> SUBSET Nodes]
          /\ exclude' \in [Tasks -> SUBSET Nodes]
          /\ retries' \in [Tasks -> 0..MaxRetry]
          /\ backoff' \in [Tasks -> BOOLEAN]
          /\ retryq' \in [Tasks -> Nat]
      <3>1. CASE EnqueueRetry({t}, assigned, exclude)
        BY <3>1, EnqueueRetryType DEF TypeOK
      <3>2. CASE ~EnqueueRetry({t}, assigned, exclude)
        BY <1>17, <3>2 DEF DispatchFinish, TypeOK, TaskStatus, taskVars
      <3> QED BY <3>1, <3>2
    <2> QED
      BY <1>17, <2>1, <2>2, <2>3 DEF DispatchFinish, TypeOK, LoopsOK, taskVars, Empty
  <1>18. ASSUME NEW t \in Tasks, DispatchEnd(t)
         PROVE  TypeInv'
    BY <1>18 DEF DispatchEnd, TypeOK, LoopsOK, nodeVars, taskVars, loopVars, Empty
  <1>19. ASSUME NEW t \in Tasks, BackoffExpires(t) \/ TimeoutPasses(t)
         PROVE  TypeInv'
    BY ZenonT(30), <1>19
    DEF BackoffExpires, TimeoutPasses, TypeOK, LoopsOK, nodeVars, loopVars, dispatchVars, Empty
  <1>20. ASSUME HealthTick
         PROVE  TypeInv'
    <2> DEFINE lost == {n \in Nodes : nodeStatus[n] \in {"online", "busy"} /\ ~fresh[n]}
               stuck == {t \in Running \ Late : assigned[t] \cap lost # {}}
               asg == [t \in Tasks |-> IF t \in stuck THEN {} ELSE assigned[t]]
               exc == [t \in Tasks |-> IF t \in stuck THEN exclude[t] \cup (assigned[t] \cap lost)
                                                      ELSE exclude[t]]
    <2>1. /\ asg \in [Tasks -> SUBSET Nodes]
          /\ exc \in [Tasks -> SUBSET Nodes]
          /\ Late \cup stuck \in SUBSET Tasks
      BY DEF TypeOK, Late, Running
    <2>2. EnqueueRetry(Late \cup stuck, asg, exc)
      BY <1>20 DEF HealthTick
    <2> HIDE DEF asg, exc, stuck
    <2>3. /\ status' \in [Tasks -> TaskStatus \cup {"none", "rejected"}]
          /\ assigned' \in [Tasks -> SUBSET Nodes]
          /\ exclude' \in [Tasks -> SUBSET Nodes]
          /\ retries' \in [Tasks -> 0..MaxRetry]
          /\ backoff' \in [Tasks -> BOOLEAN]
          /\ retryq' \in [Tasks -> Nat]
      BY <2>1, <2>2, EnqueueRetryType
    <2> QED
      BY <1>20, <2>3 DEF HealthTick, TypeOK, LoopsOK, NodeStatus, dispatchVars, Empty
  <1>21. ASSUME RetryTick
         PROVE  TypeInv'
    BY <1>21, ConstantsAssumption
    DEF RetryTick, Due, TypeOK, LoopsOK, Callers, Loops, nodeVars, taskVars, dispatchVars, Empty
  <1>22. ASSUME NEW c \in Callers, NEW t \in Tasks, WriteDone(c, t)
         PROVE  TypeInv'
    BY <1>22, ConstantsAssumption
    DEF WriteDone, TriggerDispatch, TypeOK, LoopsOK, Callers, nodeVars, taskVars, Empty
  <1>23. ASSUME NEW d \in Drainers, CancelWriteDone(d)
         PROVE  TypeInv'
    <2>1. /\ queue' \in [Tasks -> Nat]
          /\ todo' \in [Loops -> [Tasks -> Nat]]
          /\ turn' \in Callers \cup {None}
          /\ \A e \in Drainers : e # d => todo'[e] = todo[e]
      BY <1>23, StartDrainType DEF CancelWriteDone
    <2>2. cur = None
      BY <1>23, ConstantsAssumption DEF CancelWriteDone, LoopsOK, Callers, Loops
    <2> QED
      BY <1>23, <2>1, <2>2 DEF CancelWriteDone, TypeOK, LoopsOK, nodeVars, taskVars, dispatchVars, Empty
  <1>24. CASE UNCHANGED vars
    BY <1>24 DEF vars, TypeOK, LoopsOK, nodeVars, taskVars, loopVars, dispatchVars, Empty
  <1> QED
    BY <1>1, <1>2, <1>3, <1>4, <1>5, <1>6, <1>7, <1>8, <1>9, <1>10, <1>11, <1>12, <1>13, <1>14,
       <1>15, <1>16, <1>17, <1>18, <1>19, <1>20, <1>21, <1>22, <1>23, <1>24, AssignTaskType
    DEF Next, NodeStep, ClientStep, LoopStep, DispatchStep, TimeStep

\* Type correctness, with the bounds of the counters: max_tasks is never
\* exceeded by what assign_task charges, _retry_count never by _enqueue_retry.
THEOREM TypeCorrect == Spec => []TypeOK
  <1>1. TypeInv => TypeOK
    BY DEF TypeInv
  <1> QED BY <1>1, TypeInit, TypeStep, PTL DEF Spec

-----------------------------------------------------------------------------
(* No PENDING task is lost                                                 *)

\* What EnqueueRetry makes PENDING is in the retry list; it drops nothing.
LEMMA EnqueueRetryHolds ==
    ASSUME TypeOK,
           NEW S \in SUBSET Tasks, NEW asg, NEW exc,
           EnqueueRetry(S, asg, exc)
    PROVE  /\ \A t \in S : status'[t] = "pending" => retryq'[t] > 0
           /\ \A t \in Tasks \ S : status'[t] = status[t]
           /\ \A t \in Tasks : retryq'[t] >= retryq[t]
  BY DEF TypeOK, EnqueueRetry, RetryEntries

\* A task that finds no node is still held somewhere (_queue_or_refuse).
LEMMA QueueOrRefuseHolds ==
    ASSUME TypeOK, NoPendingTaskLost, cur \in Tasks, QueueOrRefuse(cur)
    PROVE  NoPendingTaskLost'
  <1> SUFFICES ASSUME NEW u \in Tasks, status'[u] = "pending"
               PROVE  Held(u)'
    BY DEF NoPendingTaskLost
  <1>0. todo' = todo /\ cur' = None
    BY DEF QueueOrRefuse, Return
  <1>1. CASE EnqueuePending(cur) /\ UNCHANGED <<exclude, retries, backoff, retryq>>
    <2>1. CASE u = cur
      BY <1>1, <2>1 DEF EnqueuePending, TypeOK, Held
    <2>2. CASE u # cur
      <3>1. status[u] = "pending" /\ queue'[u] = queue[u] /\ retryq'[u] = retryq[u]
        BY <1>1, <2>2 DEF EnqueuePending, TypeOK
      <3> QED BY <1>0, <2>2, <3>1 DEF NoPendingTaskLost, Held
    <2> QED BY <2>1, <2>2
  <1>2. CASE EnqueueRetry({cur}, assigned, exclude) /\ UNCHANGED queue
    <2>1. CASE u = cur
      BY <1>2, <2>1, EnqueueRetryHolds DEF Held
    <2>2. CASE u # cur
      <3>1. status[u] = "pending" /\ queue'[u] = queue[u] /\ retryq'[u] >= retryq[u]
        BY <1>2, <2>2, EnqueueRetryHolds
      <3>2. retryq[u] \in Nat /\ retryq'[u] \in Nat
        BY <1>2 DEF TypeOK, EnqueueRetry, RetryEntries
      <3> QED BY <1>0, <2>2, <3>1, <3>2 DEF NoPendingTaskLost, Held
    <2> QED BY <2>1, <2>2
  <1>3. CASE status' = [status EXCEPT ![cur] = "rejected"]
             /\ UNCHANGED <<assigned, exclude, retries, backoff, queue, retryq>>
    <2>1. u # cur /\ status[u] = "pending"
      BY <1>3 DEF TypeOK
    <2> QED BY <1>0, <1>3, <2>1 DEF NoPendingTaskLost, Held
  <1> QED BY <1>1, <1>2, <1>3 DEF QueueOrRefuse

\* Occupying nodes for one task loses no other pending task.
LEMMA OccupyHolds ==
    ASSUME TypeOK, NoPendingTaskLost, cur \in Tasks, NEW S, Occupy(cur, S), cur' = None
    PROVE  NoPendingTaskLost'
  <1> SUFFICES ASSUME NEW u \in Tasks, status'[u] = "pending"
               PROVE  Held(u)'
    BY DEF NoPendingTaskLost
  <1>1. u # cur /\ status[u] = "pending"
    BY DEF Occupy, TypeOK
  <1> QED BY <1>1 DEF Occupy, NoPendingTaskLost, Held

\* assign_task was called for a task that is RUNNING or queued already.
LEMMA NothingToDoHolds ==
    ASSUME TypeOK, NoPendingTaskLost, cur \in Tasks, NothingToDo,
           cur \in Running \/ queue[cur] > 0
    PROVE  NoPendingTaskLost'
  <1> SUFFICES ASSUME NEW u \in Tasks, status'[u] = "pending"
               PROVE  Held(u)'
    BY DEF NoPendingTaskLost
  <1>1. UNCHANGED <<status, queue, retryq, todo>>
    BY DEF NothingToDo, taskVars
  <1>2. CASE u = cur
    BY <1>1, <1>2 DEF Running, Held
  <1>3. CASE u # cur
    BY <1>1, <1>3 DEF NoPendingTaskLost, Held
  <1> QED BY <1>2, <1>3

\* An assignment loses no pending task (assign_task).
LEMMA AssignTaskHolds ==
    ASSUME TypeOK, NoPendingTaskLost, AssignTask
    PROVE  NoPendingTaskLost'
  <1>0. cur \in Tasks
    BY DEF AssignTask, TypeOK
  <1>1. CASE AlreadyAssigned
    BY <1>0, <1>1, NothingToDoHolds DEF AlreadyAssigned
  <1>2. CASE QuotaQueued
    BY <1>0, <1>2, NothingToDoHolds, QueueOrRefuseHolds DEF QuotaQueued
  <1>3. CASE LocalForced
    BY <1>0, <1>3, OccupyHolds DEF LocalForced, Return
  <1>4. CASE Scheduled
    <2>1. \/ NothingToDo /\ queue[cur] > 0
          \/ QueueOrRefuse(cur)
          \/ \E S : Place(cur, S)
      BY <1>4 DEF Scheduled
    <2>2. ASSUME NEW S, Place(cur, S) PROVE NoPendingTaskLost'
      BY <1>0, <2>2, OccupyHolds DEF Place, Return
    <2> QED BY <1>0, <2>1, <2>2, NothingToDoHolds, QueueOrRefuseHolds
  <1> QED BY <1>1, <1>2, <1>3, <1>4 DEF AssignTask

\* Taking the queue into an empty snapshot loses nothing.
LEMMA StartDrainHolds ==
    ASSUME TypeOK, NoPendingTaskLost, NEW d \in Drainers, todo[d] = Empty,
           StartDrain(d), UNCHANGED <<status, retryq, cur>>
    PROVE  NoPendingTaskLost'
  <1> SUFFICES ASSUME NEW u \in Tasks, status'[u] = "pending"
               PROVE  Held(u)'
    BY DEF NoPendingTaskLost
  <1>1. Held(u)
    BY DEF NoPendingTaskLost
  <1>2. CASE queue = Empty
    BY <1>1, <1>2 DEF StartDrain, Held
  <1>3. CASE queue # Empty
    <2>1. todo' = [todo EXCEPT ![d] = queue] /\ d \in Loops
      BY <1>3 DEF StartDrain, Loops
    <2>2. todo'[d][u] = queue[u] /\ \A c \in Loops : c # d => todo'[c][u] = todo[c][u]
      BY <2>1 DEF TypeOK
    <2>3. ~(todo[d][u] > 0)
      BY DEF Empty
    <2> QED BY <1>1, <2>1, <2>2, <2>3 DEF Held
  <1> QED BY <1>2, <1>3

\* No step loses a pending task.
LEMMA PendingStep ==
    ASSUME TypeInv, NoPendingTaskLost, [Next]_vars
    PROVE  NoPendingTaskLost'
  <1> USE DEF TypeInv
  <1>0. turn = None => cur = None
    BY ConstantsAssumption DEF LoopsOK, Callers, Loops
  <1>1. CASE UNCHANGED <<status, queue, retryq, todo, cur>>
    BY <1>1 DEF NoPendingTaskLost, Held
  <1>2. ASSUME NEW n \in Nodes, NEW d \in Drainers, RegisterNode(n, d)
        PROVE  NoPendingTaskLost'
    BY <1>2, StartDrainHolds DEF RegisterNode, Available, taskVars
  <1>3. ASSUME NEW t \in Tasks, Submit(t)
        PROVE  NoPendingTaskLost'
    BY <1>0, <1>3, ConstantsAssumption DEF Submit, Idle, NoPendingTaskLost, Held, taskVars
  <1>4. ASSUME NEW t \in Tasks, NEW d \in Drainers, CancelTask(t, d)
        PROVE  NoPendingTaskLost'
    <2>1. \A u \in Tasks : status'[u] = "pending" => u # t /\ status[u] = "pending"
      BY <1>4 DEF CancelTask, TypeOK
    <2>2. \A u \in Tasks : u # t => queue'[u] = queue[u]
      BY <1>4 DEF CancelTask, Unqueued, TypeOK
    <2> QED BY <1>4, <2>1, <2>2 DEF CancelTask, NoPendingTaskLost, Held
  <1>5. ASSUME NEW t \in Tasks, MigrateTask(t) \/ DegradeTask(t)
        PROVE  NoPendingTaskLost'
    <2>1. /\ cur' = t /\ cur = None
          /\ \A u \in Tasks : u # t => status'[u] = status[u]
          /\ UNCHANGED <<queue, retryq, todo>>
      BY <1>0, <1>5 DEF MigrateTask, DegradeTask, Idle, TypeOK
    <2> QED BY <2>1, ConstantsAssumption DEF NoPendingTaskLost, Held
  <1>6. ASSUME NEW d \in Drainers, DrainNext(d)
        PROVE  NoPendingTaskLost'
    <2>1. PICK t \in Tasks : /\ todo' = [todo EXCEPT ![d][t] = @ - 1]
                             /\ cur' = t
      BY <1>6 DEF DrainNext
    <2>2. \A u \in Tasks, c \in Loops : u # t => todo'[c][u] = todo[c][u]
      BY <2>1 DEF TypeOK
    <2>3. cur = None /\ UNCHANGED <<status, queue, retryq>>
      BY <1>6 DEF DrainNext, taskVars
    <2> QED BY <2>1, <2>2, <2>3, ConstantsAssumption DEF NoPendingTaskLost, Held
  <1>7. ASSUME RetryNext
        PROVE  NoPendingTaskLost'
    <2>1. PICK t \in Tasks :
            /\ todo' = [todo EXCEPT ![RetryLoop][t] = @ - 1]
            /\ \/ status' = [status EXCEPT ![t] = "failed"] /\ cur' = cur
               \/ status' = status /\ cur' = t
      BY <1>7 DEF RetryNext
    <2>2. \A u \in Tasks, c \in Loops : u # t => todo'[c][u] = todo[c][u]
      BY <2>1 DEF TypeOK
    <2>3. cur = None /\ UNCHANGED <<queue, retryq>>
      BY <1>7 DEF RetryNext
    <2>4. \A u \in Tasks : status'[u] = "pending" => status[u] = "pending" /\ (u # t \/ cur' = t)
      BY <2>1 DEF TypeOK
    <2> QED BY <2>1, <2>2, <2>3, <2>4, ConstantsAssumption DEF NoPendingTaskLost, Held
  <1>8. ASSUME NEW t \in Tasks, DispatchFinish(t)
        PROVE  NoPendingTaskLost'
    <2>0. UNCHANGED <<queue, todo, cur>>
      BY <1>8 DEF DispatchFinish
    <2>1. CASE EnqueueRetry({t}, assigned, exclude)
      <3>1. /\ status'[t] = "pending" => retryq'[t] > 0
            /\ \A u \in Tasks : u # t => status'[u] = status[u]
            /\ \A u \in Tasks : retryq'[u] >= retryq[u]
        BY <2>1, EnqueueRetryHolds
      <3>2. \A u \in Tasks : retryq[u] \in Nat /\ retryq'[u] \in Nat
        BY <2>1 DEF TypeOK, EnqueueRetry, RetryEntries
      <3> QED BY <2>0, <3>1, <3>2 DEF NoPendingTaskLost, Held
    <2>2. CASE ~EnqueueRetry({t}, assigned, exclude)
      <3>1. \/ UNCHANGED <<status, retryq>>
            \/ /\ UNCHANGED retryq
               /\ \E s \in {"failed", "partial", "completed"} : status' = [status EXCEPT ![t] = s]
        BY <1>8, <2>2 DEF DispatchFinish, taskVars
      <3>2. \A u \in Tasks : status'[u] = "pending" => status[u] = "pending"
        BY <3>1 DEF TypeOK
      <3> QED BY <2>0, <3>1, <3>2 DEF NoPendingTaskLost, Held
    <2> QED BY <2>1, <2>2
  <1>9. ASSUME HealthTick
        PROVE  NoPendingTaskLost'
    <2> DEFINE lost == {n \in Nodes : nodeStatus[n] \in {"online", "busy"} /\ ~fresh[n]}
               stuck == {t \in Running \ Late : assigned[t] \cap lost # {}}
               asg == [t \in Tasks |-> IF t \in stuck THEN {} ELSE assigned[t]]
               exc == [t \in Tasks |-> IF t \in stuck THEN exclude[t] \cup (assigned[t] \cap lost)
                                                      ELSE exclude[t]]
               S == Late \cup stuck
    <2>1. S \in SUBSET Tasks
      BY DEF Late, Running
    <2>2. EnqueueRetry(S, asg, exc) /\ UNCHANGED <<queue, todo, cur>>
      BY <1>9 DEF HealthTick
    <2> HIDE DEF asg, exc, S
    <2>3. /\ \A u \in S : status'[u] = "pending" => retryq'[u] > 0
          /\ \A u \in Tasks \ S : status'[u] = status[u]
          /\ \A u \in Tasks : retryq'[u] >= retryq[u]
      BY <2>1, <2>2, EnqueueRetryHolds
    <2>4. \A u \in Tasks : retryq[u] \in Nat /\ retryq'[u] \in Nat
      BY <2>1, <2>2 DEF TypeOK, EnqueueRetry, RetryEntries
    <2> QED BY <2>2, <2>3, <2>4 DEF NoPendingTaskLost, Held
  <1>10. ASSUME RetryTick
         PROVE  NoPendingTaskLost'
    <2> SUFFICES ASSUME NEW u \in Tasks, status'[u] = "pending"
                 PROVE  Held(u)'
      BY DEF NoPendingTaskLost
    <2>1. /\ todo' = [todo EXCEPT ![RetryLoop] = Due]
          /\ retryq' = [t \in Tasks |-> retryq[t] - Due[t]]
          /\ todo[RetryLoop] = Empty
          /\ UNCHANGED <<status, queue, cur>>
      BY <1>10 DEF RetryTick, Available, taskVars
    <2>2. Held(u) /\ ~(todo[RetryLoop][u] > 0)
      BY <2>1 DEF NoPendingTaskLost, Empty
    <2>3. /\ todo'[RetryLoop][u] = Due[u]
          /\ \A c \in Loops : c # RetryLoop => todo'[c][u] = todo[c][u]
          /\ RetryLoop \in Loops
      BY <2>1 DEF TypeOK, Loops
    <2>4. retryq[u] > 0 => Due[u] > 0 \/ retryq'[u] > 0
      BY <2>1 DEF Due, TypeOK
    <2> QED BY <2>1, <2>2, <2>3, <2>4 DEF Held
  <1>11. ASSUME NEW d \in Drainers, CancelWriteDone(d)
         PROVE  NoPendingTaskLost'
    <2>1. todo[d] = Empty
      BY <1>11 DEF CancelWriteDone, LoopsOK
    <2> QED BY <1>11, <2>1, StartDrainHolds DEF CancelWriteDone, taskVars
  <1>12. CASE AssignTask
    BY <1>12, AssignTaskHolds
  <1>13. ASSUME NEW n \in Nodes,
                \/ UnregisterNode(n) \/ Heartbeat(n) \/ HeartbeatLapse(n) \/ ReportFault(n)
                \/ \E b \in BOOLEAN : SetNodeDraining(n, b)
         PROVE  UNCHANGED <<status, queue, retryq, todo, cur>>
    BY <1>13
    DEF UnregisterNode, Heartbeat, HeartbeatLapse, ReportFault, SetNodeDraining, taskVars, loopVars
  <1>14. ASSUME NEW t \in Tasks,
                \/ DispatchStart(t) \/ DispatchEnd(t) \/ BackoffExpires(t) \/ TimeoutPasses(t)
                \/ \E n \in Nodes : Answer(t, n) \/ TransportError(t, n)
                \/ \E c \in Callers : WriteDone(c, t)
         PROVE  UNCHANGED <<status, queue, retryq, todo, cur>>
    BY <1>14
    DEF DispatchStart, DispatchEnd, BackoffExpires, TimeoutPasses, Answer, TransportError,
        WriteDone, taskVars, loopVars
  <1>15. ASSUME LoopEnd \/ UNCHANGED vars
         PROVE  UNCHANGED <<status, queue, retryq, todo, cur>>
    BY <1>15 DEF LoopEnd, vars, taskVars, loopVars
  <1> QED
    BY <1>1, <1>2, <1>3, <1>4, <1>5, <1>6, <1>7, <1>8, <1>9, <1>10, <1>11, <1>12, <1>13, <1>14, <1>15
    DEF Next, NodeStep, ClientStep, LoopStep, DispatchStep, TimeStep

\* For every number of nodes, tasks and concurrent drains: a PENDING task is
\* always in the queue, in the retry list or in the hands of a coroutine that
\* will assign or re-queue it.
THEOREM PendingTaskKept == Spec => []NoPendingTaskLost
  <1>1. Init => NoPendingTaskLost
    BY DEF Init, NoPendingTaskLost
  <1>2. TypeInv /\ NoPendingTaskLost /\ [Next]_vars => (TypeInv /\ NoPendingTaskLost)'
    BY TypeStep, PendingStep
  <1> QED BY <1>1, <1>2, TypeInit, PTL DEF Spec

-----------------------------------------------------------------------------
(* Where and when a task starts to run                                     *)

KeepsPlace(t) ==
    t \in Running /\ assigned'[t] = assigned[t] /\ exclude'[t] = exclude[t]

GoodPlace(t, S) ==
    \/ t \in LocalForce /\ Preferred[t] # None /\ S = {Preferred[t]}
    \/ S \cap exclude[t] = {} /\ (Pinned[t] # None => S = {Pinned[t]}) /\ \A n \in S : ~draining[n]

NewlyPlaced(t) ==
    /\ t \in Tasks \ Running /\ ~OverQuota(t)
    /\ GoodPlace(t, assigned'[t]) /\ exclude'[t] = exclude[t]
    /\ \A u \in Running' : u # t => KeepsPlace(u)

\* A placement that select_nodes and the backup selection agree on avoids the
\* excluded nodes, and is the pinned node alone if there is one.
LEMMA ScheduledPlaceGood ==
    ASSUME NEW t \in Tasks, NEW S \in Selections(t),
           NEW B \in SUBSET Backups(t, {n \in S : Free(n)}),
           Cardinality(B) = Need[t] - Cardinality({n \in S : Free(n)})
    PROVE  GoodPlace(t, {n \in S : Free(n)} \cup B)
  <1> DEFINE confirmed == {n \in S : Free(n)}
  <1>1. (confirmed \cup B) \cap exclude[t] = {}
    BY DEF Selections, Candidates, Backups
  <1>2. ASSUME Pinned[t] # None PROVE confirmed \cup B = {Pinned[t]}
    <2>1. B = {} /\ confirmed \subseteq {Pinned[t]}
      BY <1>2 DEF Selections, Candidates, Backups
    <2>2. Cardinality(B) = 0
      BY <2>1, FS_EmptySet
    <2>3. confirmed # {}
      <3> SUFFICES ASSUME confirmed = {} PROVE FALSE
        OBVIOUS
      <3>1. Cardinality(confirmed) = 0
        BY FS_EmptySet
      <3>2. Need[t] \in Nat \ {0}
        BY ConstantsAssumption
      <3> HIDE DEF confirmed
      <3> QED BY <2>2, <3>1, <3>2 DEF confirmed
    <2> QED BY <2>1, <2>3
  <1>3. \A n \in confirmed \cup B : ~draining[n]
    BY DEF Selections, Candidates, Backups
  <1> QED BY <1>1, <1>2, <1>3 DEF GoodPlace

\* The only step that makes a task RUNNING is an assign_task that found its
\* tenant below the limit and a good place for it; every other step leaves the
\* place of a RUNNING task alone.
LEMMA RunningStep ==
    ASSUME TypeInv, [Next]_vars
    PROVE  \A t \in Running' : KeepsPlace(t) \/ NewlyPlaced(t)
  <1> USE DEF TypeInv
  <1> DEFINE Kept == \A t \in Running' : KeepsPlace(t)
  <1>1. CASE UNCHANGED <<status, assigned, exclude>>
    BY <1>1 DEF Running, KeepsPlace
  <1>2. ASSUME NEW S \in SUBSET Tasks, S \subseteq Running \/ \A t \in S : t \notin Running,
               NEW asg, NEW exc, EnqueueRetry(S, asg, exc),
               \A t \in Tasks \ S : asg[t] = assigned[t] /\ exc[t] = exclude[t]
        PROVE  Kept
    BY <1>2 DEF EnqueueRetry, Running, KeepsPlace
  <1>3. ASSUME NEW t \in Tasks, NEW s \in TaskStatus \cup {"rejected"}, s # "running",
               status' = [status EXCEPT ![t] = s],
               \A u \in Tasks : u # t => assigned'[u] = assigned[u] /\ exclude'[u] = exclude[u]
        PROVE  Kept
    BY <1>3 DEF TypeOK, Running, KeepsPlace
  <1>4. ASSUME AssignTask
        PROVE  \A t \in Running' : KeepsPlace(t) \/ NewlyPlaced(t)
    <2>0. cur \in Tasks
      BY <1>4 DEF AssignTask, TypeOK
    <2>1. CASE NothingToDo
      BY <1>1, <2>1 DEF NothingToDo, taskVars
    <2>2. CASE QueueOrRefuse(cur)
      <3>1. CASE EnqueuePending(cur) /\ UNCHANGED exclude
        BY <1>3, <2>0, <3>1 DEF EnqueuePending, TypeOK, TaskStatus
      <3>2. CASE EnqueueRetry({cur}, assigned, exclude)
        BY <1>2, <2>0, <3>2
      <3>3. CASE status' = [status EXCEPT ![cur] = "rejected"] /\ UNCHANGED <<assigned, exclude>>
        BY <1>3, <2>0, <3>3
      <3> QED BY <2>2, <3>1, <3>2, <3>3 DEF QueueOrRefuse
    <2>3. ASSUME NEW S, Occupy(cur, S), GoodPlace(cur, S), cur \notin Running, ~OverQuota(cur)
          PROVE  \A t \in Running' : KeepsPlace(t) \/ NewlyPlaced(t)
      <3>1. \A u \in Running' : u # cur => KeepsPlace(u)
        BY <2>0, <2>3 DEF Occupy, TypeOK, Running, KeepsPlace
      <3>2. assigned'[cur] = S /\ exclude'[cur] = exclude[cur]
        BY <2>0, <2>3 DEF Occupy, TypeOK
      <3> QED BY <2>0, <2>3, <3>1, <3>2 DEF NewlyPlaced
    <2>4. CASE LocalForced
      BY <2>0, <2>3, <2>4 DEF LocalForced, LocalForcePossible, GoodPlace
    <2>5. CASE Scheduled
      <3>1. PICK S \in Selections(cur) :
              \/ NothingToDo
              \/ QueueOrRefuse(cur)
              \/ \E B \in SUBSET Backups(cur, {n \in S : Free(n)}) :
                    /\ Cardinality(B) = Need[cur] - Cardinality({n \in S : Free(n)})
                    /\ Place(cur, {n \in S : Free(n)} \cup B)
        BY <2>5 DEF Scheduled
      <3>2. ASSUME NEW B \in SUBSET Backups(cur, {n \in S : Free(n)}),
                   Cardinality(B) = Need[cur] - Cardinality({n \in S : Free(n)}),
                   Place(cur, {n \in S : Free(n)} \cup B)
            PROVE  \A t \in Running' : KeepsPlace(t) \/ NewlyPlaced(t)
        <4>1. GoodPlace(cur, {n \in S : Free(n)} \cup B)
          BY <2>0, <3>2, ScheduledPlaceGood
        <4> QED BY <2>3, <2>5, <3>2, <4>1 DEF Place, Scheduled
      <3> QED BY <2>1, <2>2, <3>1, <3>2
    <2> QED
      BY <1>4, <2>1, <2>2, <2>4, <2>5 DEF AssignTask, AlreadyAssigned, QuotaQueued
  <1>5. ASSUME NEW t \in Tasks, NEW d \in Drainers, CancelTask(t, d)
        PROVE  Kept
    BY <1>3, <1>5 DEF CancelTask, TypeOK, TaskStatus
  <1>6. ASSUME NEW t \in Tasks, MigrateTask(t) \/ DegradeTask(t)
        PROVE  Kept
    BY <1>3, <1>6 DEF MigrateTask, DegradeTask, TypeOK, TaskStatus
  <1>7. CASE RetryNext
    BY <1>1, <1>3, <1>7 DEF RetryNext, TaskStatus
  <1>8. ASSUME NEW t \in Tasks, DispatchFinish(t)
        PROVE  Kept
    <2>1. CASE EnqueueRetry({t}, assigned, exclude)
      BY <1>2, <2>1
    <2>2. CASE ~EnqueueRetry({t}, assigned, exclude)
      <3>1. \/ UNCHANGED <<status, assigned, exclude>>
            \/ /\ UNCHANGED <<assigned, exclude>>
               /\ \E s \in {"failed", "partial", "completed"} : status' = [status EXCEPT ![t] = s]
        BY <1>8, <2>2 DEF DispatchFinish, taskVars
      <3> QED BY <1>1, <1>3, <3>1 DEF TaskStatus, Running, KeepsPlace
    <2> QED BY <2>1, <2>2
  <1>9. CASE HealthTick
    <2> DEFINE lost == {n \in Nodes : nodeStatus[n] \in {"online", "busy"} /\ ~fresh[n]}
               stuck == {t \in Running \ Late : assigned[t] \cap lost # {}}
               asg == [t \in Tasks |-> IF t \in stuck THEN {} ELSE assigned[t]]
               exc == [t \in Tasks |-> IF t \in stuck THEN exclude[t] \cup (assigned[t] \cap lost)
                                                      ELSE exclude[t]]
               S == Late \cup stuck
    <2>1. S \in SUBSET Tasks /\ S \subseteq Running
      BY DEF Late, Running
    <2>2. EnqueueRetry(S, asg, exc)
      BY <1>9 DEF HealthTick
    <2>3. \A t \in Tasks \ S : asg[t] = assigned[t] /\ exc[t] = exclude[t]
      OBVIOUS
    <2> HIDE DEF asg, exc, S
    <2>4. Kept
      BY <1>2, <2>1, <2>2, <2>3
    <2> QED BY <2>4
  <1>10. ASSUME NEW n \in Nodes,
                \/ UnregisterNode(n) \/ Heartbeat(n) \/ HeartbeatLapse(n) \/ ReportFault(n)
                \/ \E b \in BOOLEAN : SetNodeDraining(n, b)
                \/ \E d \in Drainers : RegisterNode(n, d)
         PROVE  UNCHANGED <<status, assigned, exclude>>
    BY <1>10
    DEF UnregisterNode, Heartbeat, HeartbeatLapse, ReportFault, SetNodeDraining, RegisterNode, taskVars
  <1>11. ASSUME NEW t \in Tasks,
                \/ DispatchStart(t) \/ DispatchEnd(t) \/ BackoffExpires(t) \/ TimeoutPasses(t)
                \/ \E n \in Nodes : Answer(t, n) \/ TransportError(t, n)
                \/ \E c \in Callers : WriteDone(c, t)
                \/ Submit(t)
         PROVE  UNCHANGED <<status, assigned, exclude>>
    BY <1>11
    DEF DispatchStart, DispatchEnd, BackoffExpires, TimeoutPasses, Answer, TransportError,
        WriteDone, Submit, taskVars
  <1>12. ASSUME NEW d \in Drainers, DrainNext(d) \/ CancelWriteDone(d)
         PROVE  UNCHANGED <<status, assigned, exclude>>
    BY <1>12 DEF DrainNext, CancelWriteDone, taskVars
  <1>13. ASSUME LoopEnd \/ RetryTick \/ UNCHANGED vars
         PROVE  UNCHANGED <<status, assigned, exclude>>
    BY <1>13 DEF LoopEnd, RetryTick, vars, taskVars
  <1> QED
    BY <1>1, <1>4, <1>5, <1>6, <1>7, <1>8, <1>9, <1>10, <1>11, <1>12, <1>13
    DEF Next, NodeStep, ClientStep, LoopStep, DispatchStep, TimeStep

\* A task never runs on a node of its exclude_nodes, unless it was forced onto
\* its preferred node.
THEOREM FailedNodesAvoided == Spec => []AvoidsFailedNodes
  <1>1. Init => AvoidsFailedNodes
    BY DEF Init, AvoidsFailedNodes, Running
  <1>2. ASSUME TypeInv, AvoidsFailedNodes, [Next]_vars PROVE AvoidsFailedNodes'
    <2> SUFFICES ASSUME NEW t \in Running', t \notin LocalForce
                 PROVE  assigned'[t] \cap exclude'[t] = {}
      BY DEF AvoidsFailedNodes
    <2>1. KeepsPlace(t) \/ NewlyPlaced(t)
      BY <1>2, RunningStep
    <2> QED BY <1>2, <2>1 DEF KeepsPlace, NewlyPlaced, GoodPlace, AvoidsFailedNodes
  <1> QED BY <1>1, <1>2, TypeInit, TypeStep, PTL DEF Spec

\* A task pinned to a node runs there and nowhere else, however often it is
\* retried, migrated or re-queued.
THEOREM PinKept == Spec => []PinnedStaysPut
  <1>1. Init => PinnedStaysPut
    BY DEF Init, PinnedStaysPut, Running
  <1>2. ASSUME TypeInv, PinnedStaysPut, [Next]_vars PROVE PinnedStaysPut'
    <2> SUFFICES ASSUME NEW t \in Running', Pinned[t] # None
                 PROVE  assigned'[t] = {Pinned[t]}
      BY DEF PinnedStaysPut
    <2>1. KeepsPlace(t) \/ NewlyPlaced(t)
      BY <1>2, RunningStep
    <2> QED
      BY <1>2, <2>1, ConstantsAssumption DEF KeepsPlace, NewlyPlaced, GoodPlace, PinnedStaysPut
  <1> QED BY <1>1, <1>2, TypeInit, TypeStep, PTL DEF Spec

\* No interleaving of submissions, drains, retries and migrations takes a
\* tenant over its limit of RUNNING tasks.
THEOREM QuotaKept == Spec => []QuotaRespected
  <1> DEFINE R(u) == {t \in Running : UserOf[t] = u}
  <1>1. Init => QuotaRespected
    <2> SUFFICES ASSUME Init, NEW u \in Users, TenantLimit[u] > 0
                 PROVE  Cardinality(R(u)) <= TenantLimit[u]
      BY DEF QuotaRespected
    <2>1. R(u) = {}
      BY DEF Init, Running
    <2>2. Cardinality(R(u)) = 0
      BY <2>1, FS_EmptySet, Zenon
    <2>3. TenantLimit[u] \in Nat
      BY ConstantsAssumption
    <2> HIDE DEF R
    <2> QED BY <2>2, <2>3
  <1>2. ASSUME TypeInv, QuotaRespected, [Next]_vars PROVE QuotaRespected'
    <2> SUFFICES ASSUME NEW u \in Users, TenantLimit[u] > 0
                 PROVE  Cardinality(R(u)') <= TenantLimit[u]
      BY DEF QuotaRespected
    <2>0. /\ IsFiniteSet(R(u)) /\ TenantLimit[u] \in Nat
          /\ Cardinality(R(u)) <= TenantLimit[u] /\ Cardinality(R(u)) \in Nat
      <3>1. IsFiniteSet(R(u))
        BY FinitenessAssumption, FS_Subset DEF Running
      <3> QED
        BY <1>2, <3>1, FS_CardinalityType, ConstantsAssumption DEF QuotaRespected
    <2>1. \A t \in Running' : KeepsPlace(t) \/ NewlyPlaced(t)
      BY <1>2, RunningStep
    <2>2. CASE \A t \in R(u)' : KeepsPlace(t)
      <3>1. R(u)' \subseteq R(u)
        BY <2>2 DEF KeepsPlace, Running
      <3>2. Cardinality(R(u)') <= Cardinality(R(u)) /\ Cardinality(R(u)') \in Nat
        BY <2>0, <3>1, FS_Subset, FS_CardinalityType
      <3> QED BY <2>0, <3>2
    <2>3. ASSUME NEW t \in R(u)', NewlyPlaced(t)
          PROVE  Cardinality(R(u)') <= TenantLimit[u]
      <3>1. R(u)' \subseteq R(u) \cup {t}
        BY <2>3 DEF NewlyPlaced, KeepsPlace, Running
      <3>2. ~(Cardinality(R(u)) >= TenantLimit[u])
        BY <2>3 DEF NewlyPlaced, OverQuota
      <3>3. /\ IsFiniteSet(R(u) \cup {t})
            /\ Cardinality(R(u) \cup {t}) <= Cardinality(R(u)) + 1
            /\ Cardinality(R(u) \cup {t}) \in Nat
        <4> DEFINE S == R(u)
        <4> HIDE DEF S
        <4>1. IsFiniteSet(S) /\ Cardinality(S) \in Nat
          BY <2>0 DEF S
        <4>2. CASE t \in S
          <5>1. S \cup {t} = S
            BY <4>2
          <5> QED BY <4>1, <5>1 DEF S
        <4>3. CASE t \notin S
          <5>1. IsFiniteSet(S \cup {t}) /\ Cardinality(S \cup {t}) = Cardinality(S) + 1
            BY <4>1, <4>3, FS_AddElement
          <5>2. /\ IsFiniteSet(S \cup {t})
                /\ Cardinality(S \cup {t}) <= Cardinality(S) + 1
                /\ Cardinality(S \cup {t}) \in Nat
            BY <4>1, <5>1
          <5> QED BY <5>2 DEF S
        <4> QED BY <4>2, <4>3
      <3>4. Cardinality(R(u)') <= Cardinality(R(u) \cup {t}) /\ Cardinality(R(u)') \in Nat
        BY <3>1, <3>3, FS_Subset, FS_CardinalityType
      <3> QED BY <2>0, <3>2, <3>3, <3>4
    <2> QED BY <2>1, <2>2, <2>3
  <1> QED BY <1>1, <1>2, TypeInit, TypeStep, PTL DEF Spec

\* A node that is ready for its drain stays ready while it drains: assign_task
\* places nothing on it.  (The local-force path does not look at the drain.)
THEOREM DrainedNodesStayFree ==
    ASSUME LocalForce = {} PROVE Spec => DrainReadyIsStable
  <1>1. ASSUME TypeInv, [Next]_vars, NEW n \in Nodes, Ready(n), draining'[n] PROVE Ready(n)'
    <2> SUFFICES ASSUME NEW t \in Running' PROVE n \notin assigned'[t]
      BY <1>1 DEF Ready
    <2>1. KeepsPlace(t) \/ NewlyPlaced(t)
      BY <1>1, RunningStep
    <2>2. CASE KeepsPlace(t)
      BY <1>1, <2>2 DEF KeepsPlace, Ready
    <2>3. CASE NewlyPlaced(t)
      BY <1>1, <2>3 DEF NewlyPlaced, GoodPlace, Ready
    <2> QED BY <2>1, <2>2, <2>3
  <1>2. TypeInv /\ [Next]_vars => [\A n \in Nodes : Ready(n) /\ draining'[n] => Ready(n)']_vars
    BY <1>1
  <1> QED BY <1>2, TypeInit, TypeStep, PTL DEF Spec, DrainReadyIsStable

-----------------------------------------------------------------------------
(***************************************************************************)
(* Where a task that was never degraded is listed: in one place at most,   *)
(* and nowhere once it runs or has ended.  degrade_task leaves the queue   *)
(* entry of the task it assigns and does not wait for the task's handle,   *)
(* so the code keeps none of this for a degraded task.                     *)
(***************************************************************************)

Undegraded(t) == degraded[t] = 0

Unlisted(t) == \A c \in Loops : todo[c][t] = 0

\* One entry in all of _pending_queue, _pending_retry and the snapshots.
OneEntry(t) ==
    /\ queue[t] <= 1 /\ retryq[t] <= 1 /\ \A c \in Loops : todo[c][t] <= 1
    /\ queue[t] > 0 => retryq[t] = 0 /\ cur # t /\ Unlisted(t)
    /\ retryq[t] > 0 => cur # t /\ Unlisted(t)
    /\ \A c \in Loops : todo[c][t] > 0 => cur # t /\ \A e \in Loops \ {c} : todo[e][t] = 0

\* What runs or has ended has no entry, what is not submitted yet neither.
SettledIsNowhere(t) ==
    /\ status[t] \in Final \cup {"running", "none"} => queue[t] = 0 /\ retryq[t] = 0 /\ Unlisted(t)
    /\ status[t] \in Final \cup {"running"} => cur # t

\* While a handle writes its result, nothing can start the task again.
SavingIsQuiet(t) ==
    dstate[t] = "flush" =>
        /\ status[t] \notin {"running", "none"}
        /\ queue[t] = 0 /\ cur # t /\ Unlisted(t)
        /\ retryq[t] > 0 => backoff[t]

\* A task that runs has nodes and somebody who finishes it.
RunIsDriven(t) ==
    t \in Running =>
        /\ assigned[t] # {}
        /\ dstate[t] \in {"new", "sent"} \/ \E c \in Callers : <<c, t>> \in wait

EntriesOK(t) == OneEntry(t) /\ SettledIsNowhere(t) /\ SavingIsQuiet(t) /\ RunIsDriven(t)

EntryInv == \A t \in Tasks : Undegraded(t) => EntriesOK(t)

\* A step that leaves everything of a task alone, or adds a waiting write.
Untouched(u) ==
    /\ status'[u] = status[u] /\ assigned'[u] = assigned[u] /\ backoff'[u] = backoff[u]
    /\ queue'[u] = queue[u] /\ retryq'[u] = retryq[u] /\ dstate'[u] = dstate[u]
    /\ \A c \in Loops : todo'[c][u] = todo[c][u]
    /\ cur' = u => cur = u
    /\ \A c \in Callers : <<c, u>> \in wait => <<c, u>> \in wait'

\* A task that a step does not touch keeps its entries.
LEMMA UntouchedStaysListed ==
    ASSUME NEW u \in Tasks, EntriesOK(u), Untouched(u)
    PROVE  EntriesOK(u)'
  <1>1. OneEntry(u)'
    BY DEF EntriesOK, Untouched, OneEntry, Unlisted
  <1>2. SettledIsNowhere(u)'
    BY DEF EntriesOK, Untouched, SettledIsNowhere, Unlisted
  <1>3. SavingIsQuiet(u)'
    BY DEF EntriesOK, Untouched, SavingIsQuiet, Unlisted
  <1>4. RunIsDriven(u)'
    BY DEF EntriesOK, Untouched, RunIsDriven, Running
  <1> QED BY <1>1, <1>2, <1>3, <1>4 DEF EntriesOK

\* What _enqueue_retry makes of a task that is nowhere else.
LEMMA RetriedIsListed ==
    ASSUME TypeOK, NEW S \in SUBSET Tasks, NEW asg, NEW exc, EnqueueRetry(S, asg, exc),
           NEW u \in S, queue'[u] = 0, retryq[u] = 0, cur' # u,
           \A c \in Loops : todo'[c][u] = 0
    PROVE  /\ EntriesOK(u)'
           /\ status'[u] \in {"pending", "failed"}
  <1>1. \/ status'[u] = "pending" /\ retryq'[u] = 1 /\ backoff'[u] = TRUE
        \/ status'[u] = "failed" /\ retryq'[u] = 0
    BY DEF EnqueueRetry, RetryEntries, TypeOK
  <1>2. OneEntry(u)' /\ SettledIsNowhere(u)'
    BY <1>1 DEF OneEntry, SettledIsNowhere, Unlisted, Final
  <1>3. SavingIsQuiet(u)' /\ RunIsDriven(u)'
    BY <1>1 DEF SavingIsQuiet, Unlisted, RunIsDriven, Running
  <1> QED BY <1>1, <1>2, <1>3 DEF EntriesOK

\* The task that assign_task has in its hands has no entry.
LEMMA CurIsUnlisted ==
    ASSUME TypeOK, cur \in Tasks, EntriesOK(cur)
    PROVE  /\ queue[cur] = 0 /\ retryq[cur] = 0 /\ \A c \in Loops : todo[c][cur] = 0
           /\ status[cur] \notin Final \cup {"running"} /\ dstate[cur] # "flush"
  <1>1. queue[cur] \in Nat /\ retryq[cur] \in Nat /\ \A c \in Loops : todo[c][cur] \in Nat
    BY DEF TypeOK
  <1> QED BY <1>1 DEF EntriesOK, OneEntry, SettledIsNowhere, SavingIsQuiet, Unlisted

\* A queued or refused task has no second entry (_queue_or_refuse).
LEMMA QueueOrRefuseEntries ==
    ASSUME TypeInv, cur \in Tasks, QueueOrRefuse(cur), NEW u \in Tasks, EntriesOK(u)
    PROVE  EntriesOK(u)'
  <1> USE DEF TypeInv
  <1>0. todo' = todo /\ cur' = None /\ None \notin Tasks /\ wait' = wait /\ dstate' = dstate
    BY ConstantsAssumption DEF QueueOrRefuse, Return, dispatchVars
  <1>1. CASE u # cur
    <2>1. status'[u] = status[u] /\ assigned'[u] = assigned[u] /\ backoff'[u] = backoff[u]
          /\ queue'[u] = queue[u] /\ retryq'[u] = retryq[u]
      <3>1. CASE EnqueuePending(cur) /\ UNCHANGED <<backoff, retryq>>
        BY <1>1, <3>1 DEF EnqueuePending, TypeOK
      <3>2. CASE EnqueueRetry({cur}, assigned, exclude) /\ UNCHANGED queue
        BY <1>1, <3>2 DEF EnqueueRetry, RetryEntries
      <3>3. CASE /\ status' = [status EXCEPT ![cur] = "rejected"]
                 /\ UNCHANGED <<assigned, backoff, queue, retryq>>
        BY <1>1, <3>3 DEF TypeOK
      <3> QED BY <3>1, <3>2, <3>3 DEF QueueOrRefuse
    <2> QED BY <1>0, <2>1, UntouchedStaysListed DEF Untouched
  <1>2. CASE u = cur
    <2>0. /\ queue[u] = 0 /\ retryq[u] = 0 /\ \A c \in Loops : todo[c][u] = 0
          /\ dstate[u] # "flush"
      BY <1>2, CurIsUnlisted
    <2>1. CASE EnqueuePending(cur) /\ UNCHANGED <<exclude, retries, backoff, retryq>>
      <3>1. status'[u] = "pending" /\ queue'[u] = 1 /\ retryq'[u] = 0
        BY <1>2, <2>0, <2>1 DEF EnqueuePending, TypeOK
      <3>2. OneEntry(u)' /\ SettledIsNowhere(u)'
        BY <1>0, <2>0, <3>1 DEF OneEntry, SettledIsNowhere, Unlisted, Final
      <3>3. SavingIsQuiet(u)' /\ RunIsDriven(u)'
        BY <1>0, <2>0, <3>1 DEF SavingIsQuiet, RunIsDriven, Running
      <3> QED BY <3>2, <3>3 DEF EntriesOK
    <2>2. CASE EnqueueRetry({cur}, assigned, exclude) /\ UNCHANGED queue
      BY <1>0, <1>2, <2>0, <2>2, RetriedIsListed
    <2>3. CASE status' = [status EXCEPT ![cur] = "rejected"]
               /\ UNCHANGED <<assigned, exclude, retries, backoff, queue, retryq>>
      <3>1. status'[u] = "rejected" /\ queue'[u] = 0 /\ retryq'[u] = 0
        BY <1>2, <2>0, <2>3 DEF TypeOK
      <3>2. OneEntry(u)' /\ SettledIsNowhere(u)'
        BY <1>0, <2>0, <3>1 DEF OneEntry, SettledIsNowhere, Unlisted
      <3>3. SavingIsQuiet(u)' /\ RunIsDriven(u)'
        BY <1>0, <2>0, <3>1 DEF SavingIsQuiet, RunIsDriven, Running
      <3> QED BY <3>2, <3>3 DEF EntriesOK
    <2> QED BY <2>1, <2>2, <2>3 DEF QueueOrRefuse
  <1> QED BY <1>1, <1>2

\* assign_task makes the task RUNNING and leaves somebody to finish it.
LEMMA OccupyEntries ==
    ASSUME TypeInv, cur \in Tasks, NEW S, S # {}, Occupy(cur, S), cur' = None,
           \/ wait' = wait \cup {<<turn, cur>>} /\ dstate' = dstate
           \/ wait' = wait /\ TriggerDispatch(cur, S),
           NEW u \in Tasks, EntriesOK(u)
    PROVE  EntriesOK(u)'
  <1> USE DEF TypeInv
  <1>0. /\ None \notin Tasks /\ turn \in Callers
        /\ UNCHANGED <<backoff, queue, retryq, todo>>
        /\ \A w \in wait : w \in wait'
    BY ConstantsAssumption DEF LoopsOK, Occupy
  <1>1. CASE u # cur
    <2>1. status'[u] = status[u] /\ assigned'[u] = assigned[u] /\ dstate'[u] = dstate[u]
      BY <1>1 DEF Occupy, TriggerDispatch, TypeOK
    <2> QED BY <1>0, <2>1, UntouchedStaysListed DEF Untouched
  <1>2. CASE u = cur
    <2>0. /\ queue[u] = 0 /\ retryq[u] = 0 /\ \A c \in Loops : todo[c][u] = 0
          /\ dstate[u] # "flush"
      BY <1>2, CurIsUnlisted
    <2>1. status'[u] = "running" /\ assigned'[u] = S
      BY <1>2 DEF Occupy, TypeOK
    <2>2. OneEntry(u)' /\ SettledIsNowhere(u)'
      BY <1>0, <2>0, <2>1 DEF OneEntry, SettledIsNowhere, Unlisted
    <2>3. dstate'[u] # "flush" /\ (wait' = wait => dstate'[u] \in {"new", "sent"} \/ <<turn, u>> \in wait')
      BY <1>2, <2>0 DEF TriggerDispatch, TypeOK
    <2>4. SavingIsQuiet(u)' /\ RunIsDriven(u)'
      BY <1>0, <1>2, <2>1, <2>3 DEF SavingIsQuiet, RunIsDriven
    <2> QED BY <2>2, <2>4 DEF EntriesOK
  <1> QED BY <1>1, <1>2

\* An assignment makes no second entry (assign_task).
LEMMA AssignTaskEntries ==
    ASSUME TypeInv, AssignTask, NEW u \in Tasks, EntriesOK(u)
    PROVE  EntriesOK(u)'
  <1> USE DEF TypeInv
  <1>0. cur \in Tasks /\ None \notin Tasks
    BY ConstantsAssumption DEF AssignTask, TypeOK
  <1>1. CASE NothingToDo
    <2>1. Untouched(u)
      BY <1>0, <1>1 DEF NothingToDo, Return, Untouched, taskVars, dispatchVars
    <2> QED BY <2>1, UntouchedStaysListed
  <1>2. CASE QueueOrRefuse(cur)
    BY <1>0, <1>2, QueueOrRefuseEntries
  <1>3. CASE LocalForced
    BY <1>0, <1>3, OccupyEntries DEF LocalForced, Return
  <1>4. CASE Scheduled
    <2>1. PICK S \in Selections(cur) :
            \/ NothingToDo
            \/ QueueOrRefuse(cur)
            \/ \E B \in SUBSET Backups(cur, {n \in S : Free(n)}) :
                  /\ Cardinality(B) = Need[cur] - Cardinality({n \in S : Free(n)})
                  /\ Place(cur, {n \in S : Free(n)} \cup B)
      BY <1>4 DEF Scheduled
    <2>2. ASSUME NEW B, Cardinality(B) = Need[cur] - Cardinality({n \in S : Free(n)}),
                 Place(cur, {n \in S : Free(n)} \cup B)
          PROVE  EntriesOK(u)'
      <3> DEFINE confirmed == {n \in S : Free(n)}
                 placed == confirmed \cup B
      <3>1. placed # {}
        <4> SUFFICES ASSUME B = {}, confirmed = {} PROVE FALSE
          OBVIOUS
        <4>1. Cardinality(B) = 0 /\ Cardinality(confirmed) = 0
          BY FS_EmptySet
        <4>2. Need[cur] \in Nat \ {0}
          BY <1>0, ConstantsAssumption
        <4> HIDE DEF confirmed
        <4> QED BY <2>2, <4>1, <4>2 DEF confirmed
      <3>2. Place(cur, placed)
        BY <2>2
      <3> HIDE DEF placed
      <3> QED BY <1>0, <3>1, <3>2, OccupyEntries DEF Place, Return
    <2> QED BY <1>1, <1>2, <2>1, <2>2
  <1> QED
    BY <1>1, <1>2, <1>3, <1>4 DEF AssignTask, AlreadyAssigned, QuotaQueued

\* The snapshot of a drain takes the entries of the queue.
LEMMA StartDrainEntries ==
    ASSUME TypeInv, NEW d \in Drainers, todo[d] = Empty, StartDrain(d),
           UNCHANGED <<taskVars, retryq, cur, dispatchVars>>,
           NEW u \in Tasks, \A c \in Callers : <<c, u>> \in wait => <<c, u>> \in wait',
           EntriesOK(u)
    PROVE  EntriesOK(u)'
  <1> USE DEF TypeInv
  <1>1. CASE queue[u] = 0
    <2>1. queue'[u] = 0 /\ \A c \in Loops : todo'[c][u] = todo[c][u]
      BY <1>1 DEF StartDrain, Empty, TypeOK
    <2> QED BY <1>1, <2>1, UntouchedStaysListed DEF Untouched, taskVars, dispatchVars
  <1>2. CASE queue[u] # 0
    <2>1. queue[u] = 1 /\ retryq[u] = 0 /\ cur # u /\ Unlisted(u) /\ dstate[u] # "flush"
      BY <1>2 DEF EntriesOK, OneEntry, SavingIsQuiet, TypeOK
    <2>2. d \in Loops /\ queue'[u] = 0 /\ todo'[d][u] = 1 /\ \A c \in Loops \ {d} : todo'[c][u] = 0
      BY <1>2, <2>1 DEF StartDrain, Empty, TypeOK, Loops, Unlisted
    <2>3. status'[u] = status[u] /\ status[u] \notin Final \cup {"running", "none"}
      BY <1>2 DEF taskVars, EntriesOK, SettledIsNowhere
    <2>4. OneEntry(u)' /\ SettledIsNowhere(u)'
      BY <2>1, <2>2, <2>3 DEF OneEntry, SettledIsNowhere, Unlisted
    <2>5. SavingIsQuiet(u)' /\ RunIsDriven(u)'
      BY <2>1, <2>3 DEF SavingIsQuiet, RunIsDriven, Running, dispatchVars
    <2> QED BY <2>4, <2>5 DEF EntriesOK
  <1> QED BY <1>1, <1>2

\* The loops take their entries one by one.
LEMMA LoopEntries ==
    ASSUME TypeInv, NEW u \in Tasks, EntriesOK(u),
           (\E d \in Drainers : DrainNext(d)) \/ RetryNext \/ LoopEnd \/ RetryTick
    PROVE  EntriesOK(u)'
  <1> USE DEF TypeInv
  <1>0. RetryLoop \in Loops /\ Drainers \subseteq Loops /\ None \notin Tasks
    BY ConstantsAssumption DEF Loops
  <1>1. ASSUME NEW c \in Loops, NEW t \in Tasks, todo[c][t] > 0, cur = None,
               todo' = [todo EXCEPT ![c][t] = @ - 1],
               UNCHANGED <<assigned, backoff, queue, retryq, wait, dstate>>,
               \/ cur' = t /\ status' = status
               \/ cur' = None /\ status' = [status EXCEPT ![t] = "failed"]
        PROVE  EntriesOK(u)'
    <2>1. CASE u # t
      <3>1. status'[u] = status[u] /\ (cur' = u => cur = u) /\ \A e \in Loops : todo'[e][u] = todo[e][u]
        BY <1>0, <1>1, <2>1 DEF TypeOK
      <3> QED BY <1>1, <3>1, UntouchedStaysListed DEF Untouched
    <2>2. CASE u = t
      <3>1. /\ todo[c][u] = 1 /\ \A e \in Loops \ {c} : todo[e][u] = 0
            /\ queue[u] = 0 /\ retryq[u] = 0
        BY <1>1, <2>2 DEF EntriesOK, OneEntry, TypeOK, Unlisted
      <3>2. \A e \in Loops : todo'[e][u] = 0
        BY <1>1, <2>2, <3>1 DEF TypeOK
      <3>3. /\ status[u] \notin Final \cup {"running", "none"} /\ dstate[u] # "flush"
            /\ (status'[u] = "failed" /\ cur' # u) \/ status'[u] = status[u]
        BY <1>0, <1>1, <2>2, <3>1 DEF EntriesOK, SettledIsNowhere, SavingIsQuiet, Unlisted, TypeOK
      <3>4. OneEntry(u)' /\ SettledIsNowhere(u)'
        BY <1>1, <3>1, <3>2, <3>3 DEF OneEntry, SettledIsNowhere, Unlisted
      <3>5. SavingIsQuiet(u)' /\ RunIsDriven(u)'
        BY <1>1, <3>3 DEF SavingIsQuiet, RunIsDriven, Running
      <3> QED BY <3>4, <3>5 DEF EntriesOK
    <2> QED BY <2>1, <2>2
  <1>2. ASSUME NEW d \in Drainers, DrainNext(d) PROVE EntriesOK(u)'
    <2>1. PICK t \in Tasks : todo[d][t] > 0 /\ todo' = [todo EXCEPT ![d][t] = @ - 1] /\ cur' = t
      BY <1>2 DEF DrainNext
    <2>2. cur = None /\ status' = status /\ UNCHANGED <<assigned, backoff, queue, retryq, wait, dstate>>
      BY <1>2 DEF DrainNext, taskVars, dispatchVars
    <2> QED BY <1>0, <1>1, <2>1, <2>2
  <1>3. CASE RetryNext
    <2>1. PICK t \in Tasks :
            /\ todo[RetryLoop][t] > 0 /\ todo' = [todo EXCEPT ![RetryLoop][t] = @ - 1]
            /\ \/ status' = [status EXCEPT ![t] = "failed"] /\ cur' = cur
               \/ cur' = t /\ status' = status
      BY <1>3 DEF RetryNext
    <2>2. cur = None /\ UNCHANGED <<assigned, backoff, queue, retryq, wait, dstate>>
      BY <1>3 DEF RetryNext, dispatchVars
    <2> QED BY <1>0, <1>1, <2>1, <2>2
  <1>4. CASE LoopEnd
    BY <1>4, UntouchedStaysListed DEF LoopEnd, Untouched, taskVars, dispatchVars
  <1>5. CASE RetryTick
    <2>0. /\ todo[RetryLoop] = Empty /\ todo' = [todo EXCEPT ![RetryLoop] = Due]
          /\ retryq' = [t \in Tasks |-> retryq[t] - Due[t]]
          /\ UNCHANGED <<status, assigned, backoff, queue, wait, dstate, cur>>
      BY <1>5 DEF RetryTick, Available, taskVars, dispatchVars
    <2>1. CASE Due[u] = 0
      <3>1. retryq'[u] = retryq[u] /\ \A c \in Loops : todo'[c][u] = todo[c][u]
        BY <1>0, <2>0, <2>1 DEF TypeOK, Empty
      <3> QED BY <2>0, <3>1, UntouchedStaysListed DEF Untouched
    <2>2. CASE Due[u] # 0
      <3>1. /\ ~backoff[u] /\ Due[u] = 1 /\ retryq[u] = 1
            /\ queue[u] = 0 /\ cur # u /\ Unlisted(u)
        BY <2>2 DEF Due, EntriesOK, OneEntry, TypeOK
      <3>2. retryq'[u] = 0 /\ todo'[RetryLoop][u] = 1 /\ \A c \in Loops \ {RetryLoop} : todo'[c][u] = 0
        BY <1>0, <2>0, <3>1 DEF TypeOK, Unlisted
      <3>3. status[u] \notin Final \cup {"running", "none"} /\ dstate[u] # "flush"
        BY <3>1 DEF EntriesOK, SettledIsNowhere, SavingIsQuiet
      <3>4. OneEntry(u)' /\ SettledIsNowhere(u)'
        BY <1>0, <2>0, <3>1, <3>2, <3>3 DEF OneEntry, SettledIsNowhere, Unlisted
      <3>5. SavingIsQuiet(u)' /\ RunIsDriven(u)'
        BY <2>0, <3>3 DEF SavingIsQuiet, RunIsDriven, Running
      <3> QED BY <3>4, <3>5 DEF EntriesOK
    <2> QED BY <2>1, <2>2
  <1> QED BY <1>2, <1>3, <1>4, <1>5

\* Submitting, cancelling, migrating.
LEMMA ClientEntries ==
    ASSUME TypeInv, NEW t \in Tasks, NEW u \in Tasks, EntriesOK(u), Undegraded(u)',
           Submit(t) \/ (\E d \in Drainers : CancelTask(t, d)) \/ MigrateTask(t) \/ DegradeTask(t)
    PROVE  EntriesOK(u)'
  <1> USE DEF TypeInv, Idle
  <1>0. turn = None => cur = None
    BY ConstantsAssumption DEF LoopsOK, Callers, Loops
  <1>1. CASE Submit(t)
    <2>1. /\ status[t] = "none" /\ cur' = t /\ cur = None
          /\ UNCHANGED <<status, assigned, backoff, queue, retryq, todo, wait, dstate>>
      BY <1>0, <1>1 DEF Submit, taskVars, dispatchVars
    <2>2. CASE u # t
      BY <2>1, <2>2, UntouchedStaysListed DEF Untouched
    <2>3. CASE u = t
      <3>1. OneEntry(u)' /\ SettledIsNowhere(u)'
        BY <2>1, <2>3 DEF EntriesOK, OneEntry, SettledIsNowhere, Unlisted, Final
      <3>2. SavingIsQuiet(u)' /\ RunIsDriven(u)'
        BY <2>1, <2>3 DEF EntriesOK, SavingIsQuiet, RunIsDriven, Running
      <3> QED BY <3>1, <3>2 DEF EntriesOK
    <2> QED BY <2>2, <2>3
  <1>2. ASSUME NEW d \in Drainers, CancelTask(t, d) PROVE EntriesOK(u)'
    <2>1. /\ status[t] \in {"pending", "running"} /\ \A w \in wait : w \in wait'
          /\ status' = [status EXCEPT ![t] = "cancelled"]
          /\ assigned' = [assigned EXCEPT ![t] = {}] /\ queue' = [queue EXCEPT ![t] = 0]
          /\ UNCHANGED <<backoff, retryq, todo, cur, dstate>>
      BY <1>2 DEF CancelTask, Unqueued, dispatchVars
    <2>2. CASE u # t
      <3>1. status'[u] = status[u] /\ assigned'[u] = assigned[u] /\ queue'[u] = queue[u]
        BY <2>1, <2>2 DEF TypeOK
      <3> QED BY <2>1, <3>1, UntouchedStaysListed DEF Untouched
    <2>3. CASE u = t
      <3>1. status'[u] = "cancelled" /\ queue'[u] = 0
        BY <2>1, <2>3 DEF TypeOK
      <3>2. OneEntry(u)' /\ SettledIsNowhere(u)'
        BY <2>1, <3>1 DEF EntriesOK, OneEntry, SettledIsNowhere, Unlisted, Final
      <3>3. SavingIsQuiet(u)' /\ RunIsDriven(u)'
        BY <2>1, <3>1 DEF EntriesOK, SavingIsQuiet, RunIsDriven, Running, Unlisted
      <3> QED BY <3>2, <3>3 DEF EntriesOK
    <2> QED BY <2>2, <2>3
  <1>3. CASE MigrateTask(t)
    <2>1. /\ status[t] = "running" /\ cur' = t /\ cur = None
          /\ status' = [status EXCEPT ![t] = "pending"]
          /\ assigned' = [assigned EXCEPT ![t] = {}]
          /\ UNCHANGED <<backoff, queue, retryq, todo, wait, dstate>>
      BY <1>0, <1>3 DEF MigrateTask, dispatchVars
    <2>2. CASE u # t
      <3>1. status'[u] = status[u] /\ assigned'[u] = assigned[u]
        BY <2>1, <2>2 DEF TypeOK
      <3> QED BY <2>1, <2>2, <3>1, UntouchedStaysListed DEF Untouched
    <2>3. CASE u = t
      <3>1. /\ status'[u] = "pending" /\ dstate'[u] # "flush"
            /\ queue'[u] = 0 /\ retryq'[u] = 0 /\ \A c \in Loops : todo'[c][u] = 0
        BY <2>1, <2>3 DEF TypeOK, EntriesOK, SettledIsNowhere, SavingIsQuiet, Unlisted
      <3>2. OneEntry(u)' /\ SettledIsNowhere(u)'
        BY <3>1 DEF OneEntry, SettledIsNowhere, Unlisted, Final
      <3>3. SavingIsQuiet(u)' /\ RunIsDriven(u)'
        BY <3>1 DEF SavingIsQuiet, RunIsDriven, Running
      <3> QED BY <3>2, <3>3 DEF EntriesOK
    <2> QED BY <2>2, <2>3
  <1>4. CASE DegradeTask(t)
    <2>1. /\ cur' = t /\ cur = None
          /\ degraded' = [degraded EXCEPT ![t] = @ + 1]
          /\ status' = [status EXCEPT ![t] = "pending"]
          /\ assigned' = [assigned EXCEPT ![t] = {}]
          /\ UNCHANGED <<backoff, queue, retryq, todo, wait, dstate>>
      BY <1>0, <1>4 DEF DegradeTask, dispatchVars
    <2>2. u # t
      BY <2>1 DEF Undegraded, TypeOK
    <2>3. status'[u] = status[u] /\ assigned'[u] = assigned[u]
      BY <2>1, <2>2 DEF TypeOK
    <2> QED BY <2>1, <2>2, <2>3, UntouchedStaysListed DEF Untouched
  <1> QED BY <1>1, <1>2, <1>3, <1>4

\* The handle of a task.
LEMMA DispatchEntries ==
    ASSUME TypeInv, NEW t \in Tasks, NEW u \in Tasks, EntriesOK(u),
           \/ DispatchStart(t) \/ DispatchFinish(t) \/ DispatchEnd(t)
           \/ \E n \in Nodes : Answer(t, n) \/ TransportError(t, n)
    PROVE  EntriesOK(u)'
  <1> USE DEF TypeInv, Idle
  <1>0. turn = None => cur = None /\ None \notin Tasks
    BY ConstantsAssumption DEF LoopsOK, Callers, Loops
  <1>1. CASE DispatchStart(t)
    <2>1. /\ UNCHANGED <<status, assigned, backoff, queue, retryq, todo, cur, wait>>
          /\ dstate[t] = "new"
          /\ dstate' = [dstate EXCEPT ![t] = IF assigned[t] = {} THEN "idle" ELSE "sent"]
      BY <1>1 DEF DispatchStart, taskVars, loopVars
    <2>2. CASE u # t
      BY <2>1, <2>2, UntouchedStaysListed DEF Untouched, TypeOK
    <2>3. CASE u = t
      <3>1. dstate'[u] = IF assigned[u] = {} THEN "idle" ELSE "sent"
        BY <2>1, <2>3 DEF TypeOK
      <3>2. OneEntry(u)' /\ SettledIsNowhere(u)'
        BY <2>1 DEF EntriesOK, OneEntry, SettledIsNowhere, Unlisted
      <3>3. SavingIsQuiet(u)' /\ RunIsDriven(u)'
        BY <2>1, <3>1 DEF EntriesOK, SavingIsQuiet, RunIsDriven, Running
      <3> QED BY <3>2, <3>3 DEF EntriesOK
    <2> QED BY <2>2, <2>3
  <1>2. CASE DispatchFinish(t)
    <2>1. /\ dstate[t] = "sent" /\ UNCHANGED <<queue, todo, wait, cur>> /\ cur = None
          /\ dstate' = [dstate EXCEPT ![t] = IF Finalizable(t) THEN "flush" ELSE "idle"]
      BY <1>0, <1>2 DEF DispatchFinish
    <2>2. CASE u # t
      <3>1. /\ status'[u] = status[u] /\ assigned'[u] = assigned[u] /\ backoff'[u] = backoff[u]
            /\ retryq'[u] = retryq[u]
        <4>1. CASE EnqueueRetry({t}, assigned, exclude)
          BY <2>2, <4>1 DEF EnqueueRetry, RetryEntries
        <4>2. CASE ~EnqueueRetry({t}, assigned, exclude)
          <5>1. \/ UNCHANGED <<status, assigned, backoff, retryq>>
                \/ /\ UNCHANGED <<assigned, backoff, retryq>>
                   /\ \E s \in {"failed", "partial", "completed"} : status' = [status EXCEPT ![t] = s]
            BY <1>2, <4>2 DEF DispatchFinish, taskVars
          <5> QED BY <2>2, <5>1 DEF TypeOK
        <4> QED BY <4>1, <4>2
      <3>2. dstate'[u] = dstate[u]
        BY <2>1, <2>2 DEF TypeOK
      <3> QED BY <2>1, <3>1, <3>2, UntouchedStaysListed DEF Untouched
    <2>3. CASE u = t /\ ~Finalizable(t)
      <3>1. /\ UNCHANGED <<status, assigned, backoff, retryq>> /\ status[u] # "running"
            /\ dstate'[u] = "idle"
        BY <1>2, <2>1, <2>3 DEF DispatchFinish, taskVars, Finalizable, TypeOK
      <3>2. OneEntry(u)' /\ SettledIsNowhere(u)'
        BY <2>1, <3>1 DEF EntriesOK, OneEntry, SettledIsNowhere, Unlisted
      <3>3. SavingIsQuiet(u)' /\ RunIsDriven(u)'
        BY <3>1 DEF SavingIsQuiet, RunIsDriven, Running
      <3> QED BY <3>2, <3>3 DEF EntriesOK
    <2>4. CASE u = t /\ Finalizable(t)
      <3>0. /\ queue'[u] = 0 /\ retryq[u] = 0 /\ cur' # u /\ \A c \in Loops : todo'[c][u] = 0
        BY <1>0, <2>1, <2>4 DEF Finalizable, EntriesOK, SettledIsNowhere, Unlisted
      <3>1. CASE EnqueueRetry({t}, assigned, exclude)
        BY <2>4, <3>0, <3>1, RetriedIsListed
      <3>2. CASE ~EnqueueRetry({t}, assigned, exclude)
        <4>1. retryq' = retryq /\ status'[u] \in {"failed", "partial", "completed"}
          BY <1>2, <2>4, <3>2 DEF DispatchFinish, TypeOK
        <4>2. OneEntry(u)' /\ SettledIsNowhere(u)'
          BY <3>0, <4>1 DEF OneEntry, SettledIsNowhere, Unlisted
        <4>3. SavingIsQuiet(u)' /\ RunIsDriven(u)'
          BY <3>0, <4>1 DEF SavingIsQuiet, RunIsDriven, Running, Unlisted
        <4> QED BY <4>2, <4>3 DEF EntriesOK
      <3> QED BY <3>1, <3>2
    <2> QED BY <2>2, <2>3, <2>4
  <1>3. CASE DispatchEnd(t)
    <2>1. /\ UNCHANGED <<status, assigned, backoff, queue, retryq, todo, cur, wait>>
          /\ dstate[t] = "flush" /\ dstate' = [dstate EXCEPT ![t] = "idle"]
      BY <1>3 DEF DispatchEnd, taskVars, loopVars
    <2>2. CASE u # t
      BY <2>1, <2>2, UntouchedStaysListed DEF Untouched, TypeOK
    <2>3. CASE u = t
      <3>1. dstate'[u] = "idle" /\ status'[u] # "running"
        BY <2>1, <2>3 DEF TypeOK, EntriesOK, SavingIsQuiet
      <3>2. OneEntry(u)' /\ SettledIsNowhere(u)'
        BY <2>1 DEF EntriesOK, OneEntry, SettledIsNowhere, Unlisted
      <3>3. SavingIsQuiet(u)' /\ RunIsDriven(u)'
        BY <3>1 DEF SavingIsQuiet, RunIsDriven, Running
      <3> QED BY <3>2, <3>3 DEF EntriesOK
    <2> QED BY <2>2, <2>3
  <1>4. CASE \E n \in Nodes : Answer(t, n) \/ TransportError(t, n)
    <2>1. UNCHANGED <<status, assigned, backoff, queue, retryq, todo, cur, wait, dstate>>
      BY <1>4 DEF Answer, TransportError, taskVars, loopVars
    <2> QED BY <2>1, UntouchedStaysListed DEF Untouched
  <1> QED BY <1>1, <1>2, <1>3, <1>4

\* Time, the store writes and the health loop.
LEMMA TimeEntries ==
    ASSUME TypeInv, NEW u \in Tasks, EntriesOK(u),
           \/ \E t \in Tasks : BackoffExpires(t) \/ TimeoutPasses(t)
           \/ HealthTick
           \/ \E c \in Callers, t \in Tasks : WriteDone(c, t)
           \/ \E d \in Drainers : CancelWriteDone(d)
    PROVE  EntriesOK(u)'
  <1> USE DEF TypeInv, Idle
  <1>0. (turn = None => cur = None) /\ None \notin Tasks
    BY ConstantsAssumption DEF LoopsOK, Callers, Loops
  <1>1. ASSUME NEW t \in Tasks, BackoffExpires(t) PROVE EntriesOK(u)'
    <2>1. /\ UNCHANGED <<status, assigned, queue, retryq, todo, cur, wait, dstate>>
          /\ dstate[t] # "flush" /\ backoff' = [backoff EXCEPT ![t] = FALSE]
      BY <1>1 DEF BackoffExpires, loopVars, dispatchVars
    <2>2. CASE u # t
      BY <2>1, <2>2, UntouchedStaysListed DEF Untouched, TypeOK
    <2>3. CASE u = t
      BY <2>1, <2>3 DEF EntriesOK, OneEntry, SettledIsNowhere, SavingIsQuiet, RunIsDriven,
                        Running, Unlisted
    <2> QED BY <2>2, <2>3
  <1>2. ASSUME NEW t \in Tasks, TimeoutPasses(t) PROVE EntriesOK(u)'
    BY <1>2, UntouchedStaysListed DEF Untouched, TimeoutPasses, loopVars, dispatchVars
  <1>3. CASE HealthTick
    <2> DEFINE lost == {n \in Nodes : nodeStatus[n] \in {"online", "busy"} /\ ~fresh[n]}
               stuck == {t \in Running \ Late : assigned[t] \cap lost # {}}
               asg == [t \in Tasks |-> IF t \in stuck THEN {} ELSE assigned[t]]
               exc == [t \in Tasks |-> IF t \in stuck THEN exclude[t] \cup (assigned[t] \cap lost)
                                                      ELSE exclude[t]]
               S == Late \cup stuck
    <2>1. /\ S \in SUBSET Tasks /\ S \subseteq Running
          /\ asg \in [Tasks -> SUBSET Nodes] /\ \A t \in Tasks \ S : asg[t] = assigned[t]
      BY DEF Late, Running, TypeOK
    <2>2. EnqueueRetry(S, asg, exc) /\ UNCHANGED <<queue, todo, wait, cur, dstate>> /\ cur = None
      BY <1>0, <1>3 DEF HealthTick, dispatchVars
    <2> HIDE DEF S, asg, exc
    <2>3. CASE u \notin S
      <3>1. /\ status'[u] = status[u] /\ assigned'[u] = assigned[u] /\ backoff'[u] = backoff[u]
            /\ retryq'[u] = retryq[u]
        BY <2>1, <2>2, <2>3 DEF EnqueueRetry, RetryEntries
      <3> QED BY <2>2, <3>1, UntouchedStaysListed DEF Untouched
    <2>4. CASE u \in S
      <3>1. queue'[u] = 0 /\ retryq[u] = 0 /\ cur' # u /\ \A c \in Loops : todo'[c][u] = 0
        BY <1>0, <2>1, <2>2, <2>4 DEF EntriesOK, SettledIsNowhere, Running, Unlisted
      <3> QED BY <2>1, <2>2, <2>4, <3>1, RetriedIsListed
    <2> QED BY <2>3, <2>4
  <1>4. ASSUME NEW c \in Callers, NEW t \in Tasks, WriteDone(c, t) PROVE EntriesOK(u)'
    <2>1. /\ wait' = wait \ {<<c, t>>} /\ TriggerDispatch(t, assigned[t])
          /\ UNCHANGED <<status, assigned, backoff, queue, retryq, todo, cur>>
      BY <1>4 DEF WriteDone, taskVars
    <2>2. CASE u # t
      <3>1. dstate'[u] = dstate[u]
        BY <2>1, <2>2 DEF TriggerDispatch, TypeOK
      <3> QED BY <2>1, <2>2, <3>1, UntouchedStaysListed DEF Untouched
    <2>3. CASE u = t
      <3>1. /\ dstate'[u] = IF assigned[u] # {} /\ dstate[u] = "idle" THEN "new" ELSE dstate[u]
            /\ dstate[u] \in {"idle", "new", "sent", "flush"}
        BY <2>1, <2>3 DEF TriggerDispatch, TypeOK
      <3>2. OneEntry(u)' /\ SettledIsNowhere(u)'
        BY <2>1 DEF EntriesOK, OneEntry, SettledIsNowhere, Unlisted
      <3>3. SavingIsQuiet(u)' /\ RunIsDriven(u)'
        BY <2>1, <3>1 DEF EntriesOK, SavingIsQuiet, RunIsDriven, Running, Unlisted
      <3> QED BY <3>2, <3>3 DEF EntriesOK
    <2> QED BY <2>2, <2>3
  <1>5. ASSUME NEW d \in Drainers, CancelWriteDone(d) PROVE EntriesOK(u)'
    <2>1. /\ todo[d] = Empty /\ StartDrain(d) /\ UNCHANGED <<taskVars, retryq, cur, dispatchVars>>
          /\ wait' = wait \ {<<d, None>>}
      BY <1>5 DEF CancelWriteDone, LoopsOK
    <2>2. \A c \in Callers : <<c, u>> \in wait => <<c, u>> \in wait'
      BY <1>0, <2>1
    <2> QED BY <2>1, <2>2, StartDrainEntries
  <1> QED BY <1>1, <1>2, <1>3, <1>4, <1>5

\* No other step degrades a task.
LEMMA OnlyDegradeDegrades ==
    ASSUME [Next]_vars
    PROVE  degraded' = degraded \/ \E t \in Tasks : DegradeTask(t)
  BY DEF Next, NodeStep, ClientStep, LoopStep, DispatchStep, TimeStep, vars, taskVars,
         RegisterNode, UnregisterNode, Heartbeat, HeartbeatLapse, ReportFault, SetNodeDraining,
         Submit, CancelTask, MigrateTask, AssignTask, AlreadyAssigned, QuotaQueued, LocalForced,
         Scheduled, NothingToDo, QueueOrRefuse, Occupy, Place, DrainNext, RetryNext, LoopEnd,
         DispatchStart, Answer, TransportError, DispatchFinish, DispatchEnd, BackoffExpires,
         TimeoutPasses, HealthTick, RetryTick, WriteDone, CancelWriteDone

\* Every step keeps the entries of the tasks that are not degraded.
LEMMA EntryStep ==
    ASSUME TypeInv, EntryInv, [Next]_vars
    PROVE  EntryInv'
  <1> SUFFICES ASSUME NEW u \in Tasks, Undegraded(u)' PROVE EntriesOK(u)'
    BY DEF EntryInv
  <1>1. Undegraded(u)
    <2>1. CASE degraded' = degraded
      BY <2>1 DEF Undegraded
    <2>2. ASSUME NEW t \in Tasks, DegradeTask(t) PROVE Undegraded(u)
      BY <2>2 DEF DegradeTask, Undegraded, TypeInv, TypeOK
    <2> QED BY <2>1, <2>2, OnlyDegradeDegrades
  <1>2. EntriesOK(u)
    BY <1>1 DEF EntryInv
  <1>3. ASSUME NEW n \in Nodes, NEW d \in Drainers, RegisterNode(n, d) PROVE EntriesOK(u)'
    BY <1>2, <1>3, StartDrainEntries DEF RegisterNode, Available
  <1>4. ASSUME NEW n \in Nodes,
               \/ UnregisterNode(n) \/ Heartbeat(n) \/ HeartbeatLapse(n) \/ ReportFault(n)
               \/ \E b \in BOOLEAN : SetNodeDraining(n, b)
        PROVE  EntriesOK(u)'
    <2>1. UNCHANGED <<taskVars, loopVars, dispatchVars>>
      BY <1>4 DEF UnregisterNode, Heartbeat, HeartbeatLapse, ReportFault, SetNodeDraining
    <2> QED
      BY <1>2, <2>1, UntouchedStaysListed DEF Untouched, taskVars, loopVars, dispatchVars
  <1>5. CASE UNCHANGED vars
    BY <1>2, <1>5, UntouchedStaysListed DEF Untouched, vars, taskVars, loopVars, dispatchVars
  <1> QED
    BY <1>2, <1>3, <1>4, <1>5, AssignTaskEntries, LoopEntries, ClientEntries, DispatchEntries,
       TimeEntries
    DEF Next, NodeStep, ClientStep, LoopStep, DispatchStep, TimeStep

\* A task that was never degraded has one entry at most, and none once it runs
\* or has ended; a run of it has nodes and is driven.
THEOREM EntriesAreKept == Spec => []EntryInv
  <1>1. Init => EntryInv
    <2> SUFFICES ASSUME Init, NEW u \in Tasks PROVE EntriesOK(u)
      BY DEF EntryInv
    <2>1. OneEntry(u) /\ SettledIsNowhere(u)
      BY ConstantsAssumption
      DEF Init, Empty, OneEntry, SettledIsNowhere, Unlisted, Final
    <2>2. SavingIsQuiet(u) /\ RunIsDriven(u)
      BY DEF Init, SavingIsQuiet, RunIsDriven, Running
    <2> QED BY <2>1, <2>2 DEF EntriesOK
  <1>2. TypeInv /\ EntryInv /\ [Next]_vars => (TypeInv /\ EntryInv)'
    BY TypeStep, EntryStep
  <1> QED BY <1>1, <1>2, TypeInit, PTL DEF Spec

\* How often a task was degraded stays below its limit.
DegradedOK == \A t \in Tasks : degraded[t] <= MaxDegrade[t]

\* No step degrades a task more often than its bound allows.
LEMMA DegradationsStep ==
    ASSUME TypeInv, DegradedOK, [Next]_vars
    PROVE  DegradedOK'
  <1>1. CASE degraded' = degraded
    BY <1>1 DEF DegradedOK
  <1>2. ASSUME NEW t \in Tasks, DegradeTask(t) PROVE DegradedOK'
    <2>1. /\ degraded' = [degraded EXCEPT ![t] = degraded[t] + 1] /\ degraded[t] < MaxDegrade[t]
          /\ degraded \in [Tasks -> Nat] /\ MaxDegrade[t] \in Nat
      BY <1>2, ConstantsAssumption DEF DegradeTask, TypeInv, TypeOK
    <2>2. degraded'[t] <= MaxDegrade[t] /\ \A u \in Tasks : u # t => degraded'[u] = degraded[u]
      BY <2>1
    <2> QED BY <2>2 DEF DegradedOK
  <1> QED BY <1>1, <1>2, OnlyDegradeDegrades

\* A RUNNING task has somebody to finish it, as long as no task is degraded.
THEOREM RunsAreDriven ==
    ASSUME \A t \in Tasks : MaxDegrade[t] = 0 PROVE Spec => []RunningIsDriven
  <1>1. Init => DegradedOK
    BY DEF Init, DegradedOK
  <1>2. TypeInv /\ DegradedOK /\ [Next]_vars => (TypeInv /\ DegradedOK)'
    BY TypeStep, DegradationsStep
  <1>3. ASSUME TypeOK, DegradedOK, EntryInv PROVE RunningIsDriven
    <2> SUFFICES ASSUME NEW t \in Running
                 PROVE  dstate[t] \in {"new", "sent"} \/ \E c \in Callers : <<c, t>> \in wait
      BY DEF RunningIsDriven
    <2>1. t \in Tasks /\ degraded[t] \in Nat /\ degraded[t] <= MaxDegrade[t]
      BY <1>3 DEF Running, TypeOK, DegradedOK
    <2>2. Undegraded(t)
      BY <2>1 DEF Undegraded
    <2> QED BY <1>3, <2>1, <2>2 DEF EntryInv, EntriesOK, RunIsDriven
  <1> QED BY <1>1, <1>2, <1>3, TypeInit, TypeCorrect, EntriesAreKept, PTL DEF Spec

\* A task that ended, and is not degraded now, keeps its end.
LEMMA EndStays ==
    ASSUME TypeInv, [Next]_vars, NEW u \in Tasks, EntriesOK(u), status[u] \in Final,
           ~DegradeTask(u)
    PROVE  status'[u] = status[u]
  <1> USE DEF TypeInv
  <1>0. /\ queue[u] = 0 /\ retryq[u] = 0 /\ cur # u /\ \A c \in Loops : todo[c][u] = 0
        /\ status[u] \notin {"none", "pending", "running"}
    BY DEF EntriesOK, SettledIsNowhere, Unlisted, Final
  <1>1. CASE UNCHANGED status
    BY <1>1
  <1>2. ASSUME NEW S \in SUBSET Tasks, u \notin S, NEW asg, NEW exc, EnqueueRetry(S, asg, exc)
        PROVE  status'[u] = status[u]
    BY <1>2 DEF EnqueueRetry
  <1>3. ASSUME NEW t \in Tasks, t # u, NEW s, status' = [status EXCEPT ![t] = s]
        PROVE  status'[u] = status[u]
    BY <1>3 DEF TypeOK
  <1>4. CASE AssignTask
    <2>0. cur \in Tasks
      BY <1>4 DEF AssignTask, TypeOK
    <2>1. CASE NothingToDo
      BY <1>1, <2>1 DEF NothingToDo, taskVars
    <2>2. CASE QueueOrRefuse(cur)
      <3>1. CASE EnqueuePending(cur)
        BY <1>0, <1>3, <2>0, <3>1 DEF EnqueuePending
      <3>2. CASE EnqueueRetry({cur}, assigned, exclude)
        BY <1>0, <1>2, <2>0, <3>2
      <3>3. CASE status' = [status EXCEPT ![cur] = "rejected"]
        BY <1>0, <1>3, <2>0, <3>3
      <3> QED BY <2>2, <3>1, <3>2, <3>3 DEF QueueOrRefuse
    <2>3. ASSUME NEW S, Occupy(cur, S) PROVE status'[u] = status[u]
      BY <1>0, <1>3, <2>0, <2>3 DEF Occupy
    <2>4. CASE LocalForced
      BY <2>3, <2>4 DEF LocalForced
    <2>5. CASE Scheduled
      <3>1. \/ NothingToDo
            \/ QueueOrRefuse(cur)
            \/ \E S : Place(cur, S)
        BY <2>5 DEF Scheduled
      <3> QED BY <2>1, <2>2, <2>3, <3>1 DEF Place
    <2> QED BY <1>4, <2>1, <2>2, <2>4, <2>5 DEF AssignTask, AlreadyAssigned, QuotaQueued
  <1>5. ASSUME NEW t \in Tasks, (\E d \in Drainers : CancelTask(t, d)) \/ MigrateTask(t) \/ DegradeTask(t)
        PROVE  status'[u] = status[u]
    <2>1. CASE DegradeTask(t)
      BY <1>3, <2>1 DEF DegradeTask
    <2>2. CASE \E d \in Drainers : CancelTask(t, d)
      BY <1>0, <1>3, <2>2 DEF CancelTask
    <2>3. CASE MigrateTask(t)
      BY <1>0, <1>3, <2>3 DEF MigrateTask
    <2> QED BY <1>5, <2>1, <2>2, <2>3
  <1>6. CASE RetryNext
    <2>1. RetryLoop \in Loops
      BY DEF Loops
    <2>2. \/ UNCHANGED status
          \/ \E t \in Tasks : todo[RetryLoop][t] > 0 /\ status' = [status EXCEPT ![t] = "failed"]
      BY <1>6 DEF RetryNext
    <2>3. ~(todo[RetryLoop][u] > 0)
      BY <1>0, <2>1
    <2> QED BY <1>1, <1>3, <2>2, <2>3
  <1>7. ASSUME NEW t \in Tasks, DispatchFinish(t) PROVE status'[u] = status[u]
    <2>1. CASE t = u
      BY <1>0, <1>1, <1>7, <2>1 DEF DispatchFinish, Finalizable, taskVars
    <2>2. CASE t # u
      <3>1. CASE EnqueueRetry({t}, assigned, exclude)
        BY <1>2, <2>2, <3>1
      <3>2. CASE ~EnqueueRetry({t}, assigned, exclude)
        <4>1. \/ UNCHANGED status
              \/ \E s \in {"failed", "partial", "completed"} : status' = [status EXCEPT ![t] = s]
          BY <1>7, <3>2 DEF DispatchFinish, taskVars
        <4> QED BY <1>1, <1>3, <2>2, <4>1
      <3> QED BY <3>1, <3>2
    <2> QED BY <2>1, <2>2
  <1>8. CASE HealthTick
    <2> DEFINE lost == {n \in Nodes : nodeStatus[n] \in {"online", "busy"} /\ ~fresh[n]}
               stuck == {t \in Running \ Late : assigned[t] \cap lost # {}}
               asg == [t \in Tasks |-> IF t \in stuck THEN {} ELSE assigned[t]]
               exc == [t \in Tasks |-> IF t \in stuck THEN exclude[t] \cup (assigned[t] \cap lost)
                                                      ELSE exclude[t]]
               S == Late \cup stuck
    <2>1. S \in SUBSET Tasks /\ u \notin S
      BY <1>0 DEF Late, Running
    <2>2. EnqueueRetry(S, asg, exc)
      BY <1>8 DEF HealthTick
    <2> HIDE DEF S, asg, exc
    <2> QED BY <1>2, <2>1, <2>2
  <1>9. ASSUME \/ NodeStep \/ UNCHANGED vars \/ LoopEnd \/ RetryTick
               \/ \E d \in Drainers : DrainNext(d) \/ CancelWriteDone(d)
               \/ \E t \in Tasks : \/ DispatchStart(t) \/ DispatchEnd(t) \/ BackoffExpires(t)
                                   \/ TimeoutPasses(t) \/ Submit(t)
                                   \/ \E n \in Nodes : Answer(t, n) \/ TransportError(t, n)
                                   \/ \E c \in Callers : WriteDone(c, t)
        PROVE  UNCHANGED status
    BY <1>9
    DEF NodeStep, UnregisterNode, Heartbeat, HeartbeatLapse, ReportFault, SetNodeDraining,
        RegisterNode, DispatchStart, DispatchEnd, BackoffExpires, TimeoutPasses, Answer,
        TransportError, WriteDone, Submit, DrainNext, CancelWriteDone, LoopEnd, RetryTick, vars,
        taskVars
  <1> QED
    BY <1>1, <1>4, <1>5, <1>6, <1>7, <1>8, <1>9
    DEF Next, ClientStep, LoopStep, DispatchStep, TimeStep

\* A task that ended keeps its end until it is degraded: nothing left over in a
\* queue, a snapshot or a handle of an earlier attempt starts it again.
THEOREM EndsAreKept ==
    Spec => [][\A t \in Tasks : degraded[t] = 0 /\ status[t] \in Final /\ ~DegradeTask(t)
                                => status'[t] = status[t]]_vars
  <1> DEFINE Keeps(t) == degraded[t] = 0 /\ status[t] \in Final /\ ~DegradeTask(t)
                           => status'[t] = status[t]
  <1>1. TypeInv /\ EntryInv /\ [Next]_vars => [\A t \in Tasks : Keeps(t)]_vars
    BY EndStays DEF EntryInv, Undegraded
  <1> QED BY <1>1, TypeInit, TypeStep, EntriesAreKept, PTL DEF Spec

\* Without degradations every end is final.
THEOREM EndsAreFinal ==
    ASSUME \A t \in Tasks : MaxDegrade[t] = 0 PROVE Spec => FinalIsFinal
  <1>1. Init => DegradedOK
    BY DEF Init, DegradedOK
  <1>2. TypeInv /\ DegradedOK /\ [Next]_vars => (TypeInv /\ DegradedOK)'
    BY TypeStep, DegradationsStep
  <1>3. ASSUME TypeInv, DegradedOK, EntryInv, [Next]_vars, NEW t \in Tasks, status[t] \in Final
        PROVE  status'[t] = status[t]
    <2>1. degraded[t] \in Nat /\ degraded[t] <= MaxDegrade[t] /\ MaxDegrade[t] = 0
      BY <1>3 DEF TypeInv, TypeOK, DegradedOK
    <2>2. degraded[t] = 0
      BY <2>1
    <2>3. ~DegradeTask(t)
      BY <2>1, <2>2 DEF DegradeTask
    <2> QED BY <1>3, <2>2, <2>3, EndStays DEF EntryInv, Undegraded
  <1>4. TypeInv /\ DegradedOK /\ EntryInv /\ [Next]_vars
          => [\A t \in Tasks : status[t] \in Final => status'[t] = status[t]]_vars
    BY <1>3
  <1> QED BY <1>1, <1>2, <1>4, TypeInit, EntriesAreKept, PTL DEF Spec, FinalIsFinal

-----------------------------------------------------------------------------
(***************************************************************************)
(* The schedule host.  That a run number never passes the clock is not     *)
(* inductive: a schedule fires only when its time has come, so the         *)
(* strengthening says by how much a number lags behind: a schedule that    *)
(* waits for its time has a number below it, one in the list of the loop   *)
(* a number below the clock.                                               *)
(***************************************************************************)

ValidSpecs == {p \in Specs : p.valid}

\* What schedules.json holds could be loaded.
FileOK ==
    /\ file.spec \in [Schedules -> ValidSpecs \cup {NoSpec}]
    /\ file.enabled \in [Schedules -> BOOLEAN]
    /\ file.runs \in [Schedules -> Seq(1..clock)]
    /\ \A s \in Schedules : Len(file.runs[s]) <= MaxRuns

\* Every number was given at a time of its own.
RunsArePast ==
    /\ history \in [Schedules -> Seq(1..clock)]
    /\ seq \in [Schedules -> 0..clock]
    /\ \A s \in due : seq[s] < clock
    /\ \A s \in Registered \ due : enabled[s] /\ firing # s => seq[s] < nextRun[s]

FiredOK == ~Resting => fired.spec \in ValidSpecs /\ fired.seq \in 1..clock

SchedInv == SchedTypeOK /\ FileOK /\ RunsArePast /\ FiredOK /\ AnsweredIsDurable

-----------------------------------------------------------------------------

\* A day at a time is always later.
LEMMA DaysLater == ASSUME NEW k \in Nat \ {0} PROVE k * Day \in Nat /\ k * Day >= Day
<1>1. Day \in Nat \ {0} /\ \E j \in Nat : k = j + 1
  <2>1. k = (k - 1) + 1 /\ k - 1 \in Nat
    OBVIOUS
  <2> QED  BY <2>1, ScheduleAssumption
<1>2. PICK j \in Nat : k = j + 1
  BY <1>1
<1>3. k * Day = j * Day + Day
  BY <1>1, <1>2
<1>4. j * Day \in Nat
  BY <1>1
<1> QED  BY <1>1, <1>3, <1>4

\* A plan is always for an instant to come.
LEMMA PlansAhead ==
  ASSUME NEW p \in Specs, NEW t \in Nat
  PROVE  NextRunAt(p, t) \in Nat /\ NextRunAt(p, t) > t
<1>1. /\ p.every \in Nat \ {0} /\ p.at \in 0..(Day - 1) /\ p.weekday \in 0..(Week - 1)
      /\ Day \in Nat \ {0} /\ Week \in Nat \ {0}
  BY ScheduleAssumption
<1>2. t \div Day \in Nat /\ t = Day * (t \div Day) + (t % Day) /\ t % Day \in 0..(Day - 1)
  BY <1>1
<1>3. DayOf(t) \in Nat /\ DayOf(t) * Day \in Nat /\ DayOf(t) * Day + Day > t
  BY <1>1, <1>2 DEF DayOf
<1> DEFINE base == DayOf(t) * Day + p.at
           ahead == (p.weekday - DayOf(t)) % Week
           days == IF ahead = 0 THEN Week ELSE ahead
<1>4. days \in Nat \ {0}
  <2>1. p.weekday - DayOf(t) \in Int
    BY <1>1, <1>3
  <2>2. ahead \in 0..(Week - 1)
    BY <2>1, <1>1
  <2> QED  BY <2>2, <1>1
<1>5. base \in Nat /\ base + Day > t
  BY <1>1, <1>3
<1> HIDE DEF base, ahead
<1>6. days * Day \in Nat /\ days * Day >= Day
  BY <1>4, DaysLater
<1> HIDE DEF days
<1>7. AtTime(p, t) = IF base > t THEN base
                     ELSE IF p.kind = "daily" THEN base + Day
                     ELSE base + days * Day
  BY DEF AtTime, base, days, ahead
<1>8. AtTime(p, t) \in Nat /\ AtTime(p, t) > t
  BY <1>1, <1>5, <1>6, <1>7
<1> QED  BY <1>1, <1>8 DEF NextRunAt

\* The number load() continues from is one of the file's, or 0.
LEMMA LastIsPast ==
  ASSUME NEW n \in Nat, NEW r \in Seq(1..n)
  PROVE  LastSeq(r) \in 0..n
<1>1. {0} \cup ToSet(r) \in SUBSET (0..n) /\ {0} \cup ToSet(r) # {}
  <2>1. \A i \in DOMAIN r : r[i] \in 1..n
    OBVIOUS
  <2> QED  BY <2>1 DEF ToSet
<1>2. Max({0} \cup ToSet(r)) \in {0} \cup ToSet(r)
  BY <1>1, LargestOf
<1> QED  BY <1>1, <1>2 DEF LastSeq

\* Numbers up to n are numbers up to m.
LEMMA LaterRuns ==
  ASSUME NEW n \in Nat, NEW m \in Nat, n <= m, NEW h \in [Schedules -> Seq(1..n)]
  PROVE  h \in [Schedules -> Seq(1..m)]
<1>1. ASSUME NEW s \in Schedules PROVE h[s] \in Seq(1..m)
  <2>1. h[s] \in Seq(1..n)
    OBVIOUS
  <2>2. Len(h[s]) \in Nat /\ DOMAIN h[s] = 1..Len(h[s]) /\ \A i \in 1..Len(h[s]) : h[s][i] \in 1..n
    BY <2>1
  <2>3. \A i \in 1..Len(h[s]) : h[s][i] \in 1..m
    BY <2>2
  <2>4. h[s] = [i \in 1..Len(h[s]) |-> h[s][i]]
    BY <2>1
  <2> QED  BY <2>2, <2>3, <2>4
<1> QED  BY <1>1

-----------------------------------------------------------------------------

\* The first load finds no file: nothing is registered.
LEMMA SchedStarts == SchedInit => SchedInv
<1> SUFFICES ASSUME SchedInit PROVE SchedInv
  OBVIOUS
<1>1. <<>> \in Seq(1..MaxClock) /\ <<>> \in Seq(1..clock) /\ Len(<<>>) = 0
  OBVIOUS
<1>2. SchedTypeOK
  <2>1. clock \in 0..MaxClock /\ seq \in [Schedules -> 0..MaxClock] /\ nextRun \in [Schedules -> Nat]
    BY ScheduleAssumption DEF SchedInit
  <2>2. spec \in [Schedules -> {p \in Specs : p.valid} \cup {NoSpec}]
    BY DEF SchedInit
  <2>3. /\ enabled \in [Schedules -> BOOLEAN] /\ unsaved \in BOOLEAN
        /\ due \subseteq Schedules /\ firing \in Schedules \cup {NoSpec}
    BY DEF SchedInit
  <2>4. /\ history \in [Schedules -> Seq(1..MaxClock)]
        /\ \A s \in Schedules : Len(history[s]) <= MaxRuns
    BY <1>1, ScheduleAssumption DEF SchedInit
  <2> QED  BY <2>1, <2>2, <2>3, <2>4 DEF SchedTypeOK
<1>3. FileOK
  BY <1>1, ScheduleAssumption DEF SchedInit, FileOK
<1>4. RunsArePast
  BY <1>1, ScheduleAssumption DEF SchedInit, RunsArePast, Registered
<1>5. FiredOK /\ AnsweredIsDurable
  BY ScheduleAssumption DEF SchedInit, FiredOK, Resting, AnsweredIsDurable
<1> QED  BY <1>2, <1>3, <1>4, <1>5 DEF SchedInv

\* What a change keeps of the file, whether the disk takes it or not.
LEMMA SaveKeepsFile ==
  ASSUME SchedInv, NEW s \in Schedules,
         spec' \in [Schedules -> ValidSpecs \cup {NoSpec}],
         enabled' \in [Schedules -> BOOLEAN],
         history' \in [Schedules -> Seq(1..clock)],
         \A x \in Schedules : Len(history'[x]) <= MaxRuns,
         clock' = clock,
         SaveSchedules(s, spec', enabled', history')
  PROVE  FileOK' /\ AnsweredIsDurable' /\ unsaved' \in BOOLEAN
<1>1. CASE file' = [spec |-> spec', enabled |-> enabled', runs |-> history'] /\ unsaved' = FALSE
  BY <1>1 DEF FileOK, AnsweredIsDurable
<1>2. CASE file' = file /\ unsaved' = TRUE
  BY <1>2 DEF SchedInv, FileOK, AnsweredIsDurable
<1> QED  BY <1>1, <1>2 DEF SaveSchedules

\* register, remove and set_enabled.
LEMMA RegisterStep ==
  ASSUME SchedInv, NEW p \in Specs, RegisterSchedule(p)
  PROVE  SchedInv'
<1> DEFINE s == p.id
<1>1. s \in Schedules /\ p \in ValidSpecs
  BY ScheduleAssumption DEF RegisterSchedule, ValidSpecs
<1>2. NextRunAt(p, clock) \in Nat /\ NextRunAt(p, clock) > clock
  BY PlansAhead DEF SchedInv, SchedTypeOK
<1>3. /\ spec' = [spec EXCEPT ![s] = p] /\ enabled' = [enabled EXCEPT ![s] = p.on]
      /\ nextRun' = [nextRun EXCEPT ![s] = NextRunAt(p, clock)]
      /\ SaveSchedules(s, spec', enabled', history')
      /\ clock' = clock /\ history' = history /\ seq' = seq
      /\ due' = due /\ firing' = firing /\ fired' = fired
  BY DEF RegisterSchedule, loop
<1> HIDE DEF s
<1>4. p.on \in BOOLEAN
  BY ScheduleAssumption
<1>5. /\ spec' \in [Schedules -> ValidSpecs \cup {NoSpec}]
      /\ enabled' \in [Schedules -> BOOLEAN]
      /\ nextRun' \in [Schedules -> Nat]
  BY <1>1, <1>2, <1>3, <1>4 DEF SchedInv, SchedTypeOK, ValidSpecs
<1>6. FileOK' /\ AnsweredIsDurable' /\ unsaved' \in BOOLEAN
  BY <1>1, <1>3, <1>5, SaveKeepsFile DEF SchedInv, RunsArePast, SchedTypeOK
<1>7. SchedTypeOK'
  BY <1>3, <1>5, <1>6 DEF SchedInv, SchedTypeOK, ValidSpecs
<1>8. RunsArePast'
  <2>1. \A x \in Schedules : seq[x] <= clock
    BY DEF SchedInv, RunsArePast, SchedTypeOK
  <2>2. ASSUME NEW x \in (Registered \ due)', enabled'[x], firing' # x PROVE seq'[x] < nextRun'[x]
    <3>1. CASE x = s
      BY <3>1, <2>1, <1>1, <1>2, <1>3 DEF SchedInv, SchedTypeOK, RunsArePast
    <3>2. CASE x # s
      BY <3>2, <2>2, <1>3 DEF SchedInv, SchedTypeOK, RunsArePast, Registered
    <3> QED  BY <3>1, <3>2
  <2> QED  BY <1>3, <2>2 DEF SchedInv, RunsArePast
<1>9. FiredOK'
  BY <1>3 DEF SchedInv, FiredOK, Resting
<1> QED  BY <1>6, <1>7, <1>8, <1>9 DEF SchedInv

\* A schedule is removed (remove).
LEMMA RemoveStep ==
  ASSUME SchedInv, NEW s \in Schedules, RemoveSchedule(s)
  PROVE  SchedInv'
<1>3. /\ spec' = [spec EXCEPT ![s] = NoSpec] /\ enabled' = [enabled EXCEPT ![s] = FALSE]
      /\ nextRun' = [nextRun EXCEPT ![s] = 0]
      /\ history' = [history EXCEPT ![s] = <<>>] /\ seq' = [seq EXCEPT ![s] = 0]
      /\ SaveSchedules(s, spec', enabled', history')
      /\ clock' = clock
      /\ due' = due /\ firing' = firing /\ fired' = fired
  BY DEF RemoveSchedule, loop
<1>4. <<>> \in Seq(1..MaxClock) /\ <<>> \in Seq(1..clock) /\ Len(<<>>) = 0
  OBVIOUS
<1>5. /\ spec' \in [Schedules -> ValidSpecs \cup {NoSpec}]
      /\ enabled' \in [Schedules -> BOOLEAN]
      /\ nextRun' \in [Schedules -> Nat]
      /\ history' \in [Schedules -> Seq(1..MaxClock)]
      /\ history' \in [Schedules -> Seq(1..clock)]
      /\ \A x \in Schedules : Len(history'[x]) <= MaxRuns
  BY <1>3, <1>4, ScheduleAssumption DEF SchedInv, SchedTypeOK, RunsArePast, ValidSpecs
<1>6. FileOK' /\ AnsweredIsDurable' /\ unsaved' \in BOOLEAN
  BY <1>3, <1>5, SaveKeepsFile
<1>7. seq' \in [Schedules -> 0..MaxClock] /\ seq' \in [Schedules -> 0..clock]
  BY <1>3, ScheduleAssumption DEF SchedInv, SchedTypeOK, RunsArePast
<1>8. SchedTypeOK'
  BY <1>3, <1>5, <1>6, <1>7 DEF SchedInv, SchedTypeOK, ValidSpecs
<1>9. RunsArePast'
  <2>1. \A x \in due' : seq'[x] < clock'
    BY <1>3 DEF SchedInv, RunsArePast, SchedTypeOK
  <2>2. \A x \in (Registered \ due)' : x # s /\ x \in Registered \ due
    BY <1>3 DEF Registered, SchedInv, SchedTypeOK
  <2>3. \A x \in (Registered \ due)' : enabled'[x] /\ firing' # x => seq'[x] < nextRun'[x]
    BY <1>3, <2>2 DEF SchedInv, SchedTypeOK, RunsArePast, Registered
  <2> QED  BY <1>3, <1>5, <1>7, <2>1, <2>3 DEF RunsArePast
<1>10. FiredOK'
  BY <1>3 DEF SchedInv, FiredOK, Resting
<1> QED  BY <1>6, <1>8, <1>9, <1>10 DEF SchedInv

\* A schedule is switched on or off (set_enabled).
LEMMA EnableStep ==
  ASSUME SchedInv, NEW s \in Schedules, NEW on \in BOOLEAN, SetEnabled(s, on)
  PROVE  SchedInv'
<1> DEFINE plan == IF on THEN NextRunAt(spec[s], clock) ELSE 0
<1>1. s \in Registered /\ spec[s] \in ValidSpecs
  BY DEF SetEnabled, Registered, SchedInv, SchedTypeOK, ValidSpecs
<1>2. plan \in Nat /\ (on => plan > clock)
  BY <1>1, PlansAhead DEF SchedInv, SchedTypeOK, ValidSpecs
<1>3. /\ spec' = spec /\ enabled' = [enabled EXCEPT ![s] = on]
      /\ nextRun' = [nextRun EXCEPT ![s] = plan]
      /\ SaveSchedules(s, spec', enabled', history')
      /\ clock' = clock /\ history' = history /\ seq' = seq
      /\ due' = due /\ firing' = firing /\ fired' = fired
  BY DEF SetEnabled, loop
<1> HIDE DEF plan
<1>5. /\ spec' \in [Schedules -> ValidSpecs \cup {NoSpec}]
      /\ enabled' \in [Schedules -> BOOLEAN]
      /\ nextRun' \in [Schedules -> Nat]
  BY <1>2, <1>3 DEF SchedInv, SchedTypeOK, ValidSpecs
<1>6. FileOK' /\ AnsweredIsDurable' /\ unsaved' \in BOOLEAN
  BY <1>3, <1>5, SaveKeepsFile DEF SchedInv, RunsArePast, SchedTypeOK
<1>7. SchedTypeOK'
  BY <1>3, <1>5, <1>6 DEF SchedInv, SchedTypeOK, ValidSpecs
<1>8. RunsArePast'
  <2>1. \A x \in Schedules : seq[x] <= clock
    BY DEF SchedInv, RunsArePast, SchedTypeOK
  <2>2. ASSUME NEW x \in (Registered \ due)', enabled'[x], firing' # x PROVE seq'[x] < nextRun'[x]
    <3>1. CASE x = s
      BY <3>1, <2>1, <2>2, <1>2, <1>3 DEF SchedInv, SchedTypeOK, RunsArePast
    <3>2. CASE x # s
      BY <3>2, <2>2, <1>3 DEF SchedInv, SchedTypeOK, RunsArePast, Registered
    <3> QED  BY <3>1, <3>2
  <2> QED  BY <1>3, <2>2 DEF SchedInv, RunsArePast
<1>9. FiredOK'
  BY <1>3 DEF SchedInv, FiredOK, Resting
<1> QED  BY <1>6, <1>7, <1>8, <1>9 DEF SchedInv

-----------------------------------------------------------------------------

\* The loop: a tick, a schedule that is skipped, the two ends of a run.
LEMMA LoopTickStep == SchedInv /\ LoopTick => SchedInv'
<1> SUFFICES ASSUME SchedInv, LoopTick PROVE SchedInv'
  OBVIOUS
<1>1. /\ due = {} /\ Resting /\ due' = {s \in Schedules : IsDue(s)}
      /\ clock' = clock /\ firing' = firing /\ fired' = fired /\ file' = file /\ unsaved' = unsaved
      /\ spec' = spec /\ enabled' = enabled /\ nextRun' = nextRun
      /\ history' = history /\ seq' = seq
  BY DEF LoopTick, memory
<1>2. SchedTypeOK'
  BY <1>1 DEF SchedInv, SchedTypeOK
<1>3. FileOK' /\ FiredOK' /\ AnsweredIsDurable'
  BY <1>1 DEF SchedInv, FileOK, FiredOK, Resting, AnsweredIsDurable
<1>4. RunsArePast'
  <2>1. ASSUME NEW s \in due' PROVE seq[s] < clock
    <3>1. s \in Registered \ due /\ enabled[s] /\ nextRun[s] <= clock /\ firing # s
      BY <1>1, <2>1 DEF IsDue, Resting
    <3>2. seq[s] < nextRun[s] /\ s \in Schedules
      BY <3>1 DEF SchedInv, RunsArePast, Registered
    <3> QED  BY <3>1, <3>2 DEF SchedInv, SchedTypeOK
  <2>2. \A s \in (Registered \ due)' : s \in Registered \ due
    BY <1>1 DEF Registered
  <2> QED  BY <1>1, <2>1, <2>2 DEF SchedInv, RunsArePast
<1> QED  BY <1>2, <1>3, <1>4 DEF SchedInv

\* A due schedule that was removed meanwhile is not fired (_fire).
LEMMA SkipStep ==
  ASSUME SchedInv, NEW s \in Schedules, FireSkips(s)
  PROVE  SchedInv'
<1>1. /\ s \notin Registered /\ due' = due \ {s} /\ nextRun' = [nextRun EXCEPT ![s] = 0]
      /\ clock' = clock /\ firing' = firing /\ fired' = fired /\ file' = file /\ unsaved' = unsaved
      /\ spec' = spec /\ enabled' = enabled /\ history' = history /\ seq' = seq
  BY DEF FireSkips
<1>2. SchedTypeOK'
  BY <1>1 DEF SchedInv, SchedTypeOK
<1>3. FileOK' /\ FiredOK' /\ AnsweredIsDurable'
  BY <1>1 DEF SchedInv, FileOK, FiredOK, Resting, AnsweredIsDurable
<1>4. RunsArePast'
  <2>1. \A x \in (Registered \ due)' : x \in Registered \ due /\ x # s /\ nextRun'[x] = nextRun[x]
    BY <1>1 DEF Registered, SchedInv, SchedTypeOK
  <2> QED  BY <1>1, <2>1 DEF SchedInv, RunsArePast
<1> QED  BY <1>2, <1>3, <1>4 DEF SchedInv

\* A due schedule starts its run (_fire, up to the submission).
LEMMA FireBeginsStep ==
  ASSUME SchedInv, NEW s \in Schedules, FireBegins(s)
  PROVE  SchedInv'
<1>1. /\ s \in due /\ s \in Registered /\ due' = due \ {s} /\ Resting
      /\ firing' = s /\ fired' = [spec |-> spec[s], seq |-> seq[s] + 1]
      /\ seq' = [seq EXCEPT ![s] = seq[s] + 1]
      /\ clock' = clock /\ file' = file /\ unsaved' = unsaved
      /\ spec' = spec /\ enabled' = enabled /\ history' = history /\ nextRun' = nextRun
  BY DEF FireBegins
<1>2. seq[s] \in Nat /\ seq[s] + 1 <= clock /\ clock \in Nat /\ clock <= MaxClock
  BY <1>1, ScheduleAssumption DEF SchedInv, RunsArePast, SchedTypeOK
<1>3. seq' \in [Schedules -> 0..clock] /\ seq' \in [Schedules -> 0..MaxClock]
  BY <1>1, <1>2, ScheduleAssumption DEF SchedInv, RunsArePast, SchedTypeOK
<1>4. SchedTypeOK'
  BY <1>1, <1>3 DEF SchedInv, SchedTypeOK
<1>5. FileOK' /\ AnsweredIsDurable'
  BY <1>1 DEF SchedInv, FileOK, AnsweredIsDurable
<1>6. FiredOK'
  <2>1. spec[s] \in ValidSpecs
    BY <1>1 DEF Registered, SchedInv, SchedTypeOK, ValidSpecs
  <2> QED  BY <1>1, <1>2, <2>1 DEF FiredOK
<1>7. RunsArePast'
  <2>1. \A x \in due' : x \in due /\ x # s /\ x \in Schedules
    BY <1>1 DEF SchedInv, SchedTypeOK
  <2>2. \A x \in (Registered \ due)' : x # s => x \in Registered \ due /\ firing # x
    BY <1>1 DEF Registered, Resting
  <2>3. \A x \in Schedules : x # s => seq'[x] = seq[x]
    BY <1>1 DEF SchedInv, SchedTypeOK
  <2>4. \A x \in (Registered \ due)' : enabled'[x] /\ firing' # x => seq'[x] < nextRun'[x]
    <3> SUFFICES ASSUME NEW x \in (Registered \ due)', enabled'[x], firing' # x
                 PROVE  seq'[x] < nextRun'[x]
      OBVIOUS
    <3>1. x # s /\ x \in Schedules
      BY <1>1 DEF Registered
    <3>2. x \in Registered \ due /\ firing # x /\ enabled[x]
      BY <1>1, <2>2, <3>1
    <3>3. seq[x] < nextRun[x]
      BY <3>2 DEF SchedInv, RunsArePast
    <3> QED  BY <1>1, <2>3, <3>1, <3>3
  <2>5. \A x \in due' : seq'[x] < clock'
    BY <1>1, <2>1, <2>3 DEF SchedInv, RunsArePast
  <2>6. history' \in [Schedules -> Seq(1..clock)]'
    BY <1>1 DEF SchedInv, RunsArePast
  <2> QED  BY <1>1, <1>3, <2>4, <2>5, <2>6 DEF RunsArePast
<1> QED  BY <1>4, <1>5, <1>6, <1>7 DEF SchedInv

\* What a run leaves: its number recorded, the schedule planned anew.
LEMMA FireEndsFacts ==
  ASSUME SchedInv, FireEnds
  PROVE  /\ firing \in Schedules
         /\ Planned(firing) \in Nat /\ Planned(firing) > clock
         /\ Recorded(firing) \in Seq(1..clock) /\ Len(Recorded(firing)) <= MaxRuns
<1>1. firing \in Schedules /\ fired.spec \in ValidSpecs /\ fired.seq \in 1..clock
  BY DEF FireEnds, SchedInv, FiredOK, Resting
<1>2. Planned(firing) \in Nat /\ Planned(firing) > clock
  <2>1. fired.spec \in Specs /\ clock \in Nat
    BY <1>1 DEF ValidSpecs, SchedInv, SchedTypeOK
  <2> QED  BY <2>1, PlansAhead DEF Planned
<1>3. history[firing] \in Seq(1..clock) /\ Len(history[firing]) <= MaxRuns
  BY <1>1 DEF SchedInv, RunsArePast, SchedTypeOK
<1> DEFINE r == Append(history[firing], fired.seq)
<1>4. r \in Seq(1..clock) /\ Len(r) = Len(history[firing]) + 1 /\ Len(r) \in Nat /\ r # <<>>
  BY <1>1, <1>3
<1>5. Tail(r) \in Seq(1..clock) /\ Len(Tail(r)) = Len(r) - 1
  BY <1>4
<1>6. Recorded(firing) = IF Len(r) > MaxRuns THEN Tail(r) ELSE r
  BY DEF Recorded
<1> HIDE DEF r
<1>7. Recorded(firing) \in Seq(1..clock)
  BY <1>4, <1>5, <1>6
<1>8. Len(Recorded(firing)) <= MaxRuns
  BY <1>3, <1>4, <1>5, <1>6, ScheduleAssumption
<1> QED  BY <1>1, <1>2, <1>7, <1>8

\* The run is recorded and the next one planned (_fire, the rest).
LEMMA FireEndsStep == SchedInv /\ FireEnds => SchedInv'
<1> SUFFICES ASSUME SchedInv, FireEnds PROVE SchedInv'
  OBVIOUS
<1>1. /\ history' = [history EXCEPT ![firing] = Recorded(firing)]
      /\ nextRun' = [nextRun EXCEPT ![firing] = Planned(firing)]
      /\ firing' = NoSpec /\ fired' = NoSpec
      /\ clock' = clock /\ file' = file /\ unsaved' = unsaved
      /\ spec' = spec /\ enabled' = enabled /\ seq' = seq /\ due' = due
  BY DEF FireEnds
<1>2. /\ firing \in Schedules /\ clock \in Nat /\ MaxClock \in Nat /\ clock <= MaxClock
      /\ Planned(firing) \in Nat /\ Planned(firing) > clock
      /\ Recorded(firing) \in Seq(1..clock) /\ Len(Recorded(firing)) <= MaxRuns
  BY FireEndsFacts, ScheduleAssumption DEF SchedInv, SchedTypeOK
<1>3. history' \in [Schedules -> Seq(1..clock)] /\ \A x \in Schedules : Len(history'[x]) <= MaxRuns
  BY <1>1, <1>2 DEF SchedInv, RunsArePast, SchedTypeOK
<1>4. history' \in [Schedules -> Seq(1..MaxClock)]
  BY <1>2, <1>3, LaterRuns
<1>5. nextRun' \in [Schedules -> Nat]
  BY <1>1, <1>2 DEF SchedInv, SchedTypeOK
<1>6. SchedTypeOK'
  BY <1>1, <1>3, <1>4, <1>5 DEF SchedInv, SchedTypeOK
<1>7. FileOK' /\ AnsweredIsDurable' /\ FiredOK'
  BY <1>1, ScheduleAssumption DEF SchedInv, FileOK, AnsweredIsDurable, FiredOK, Resting
<1>8. RunsArePast'
  <2>1. ASSUME NEW x \in (Registered \ due)', enabled'[x] PROVE seq'[x] < nextRun'[x]
    <3>1. x \in Registered \ due /\ x \in Schedules /\ seq[x] \in 0..clock
      BY <1>1 DEF Registered, SchedInv, RunsArePast
    <3>2. CASE x = firing
      BY <1>1, <1>2, <3>1, <3>2 DEF SchedInv, SchedTypeOK
    <3>3. CASE x # firing
      BY <1>1, <2>1, <3>1, <3>3 DEF SchedInv, SchedTypeOK, RunsArePast
    <3> QED  BY <3>2, <3>3
  <2> QED  BY <1>1, <1>3, <2>1 DEF SchedInv, RunsArePast
<1> QED  BY <1>6, <1>7, <1>8 DEF SchedInv

-----------------------------------------------------------------------------

\* A new process reads the file of an earlier one, or the one stop() wrote.
LEMMA LoadStep ==
  ASSUME SchedInv, NEW f, LoadSchedules(f), file' = f,
         f.spec \in [Schedules -> ValidSpecs \cup {NoSpec}],
         f.enabled \in [Schedules -> BOOLEAN],
         f.runs \in [Schedules -> Seq(1..clock)],
         \A s \in Schedules : Len(f.runs[s]) <= MaxRuns
  PROVE  SchedInv'
<1> DEFINE kept == {s \in Schedules : f.spec[s] # NoSpec}
<1>0. clock \in Nat /\ MaxClock \in Nat /\ MaxRuns \in Nat /\ clock <= MaxClock /\ clock' = clock
  BY ScheduleAssumption DEF SchedInv, SchedTypeOK, LoadSchedules
<1>1. /\ spec' = f.spec /\ enabled' = f.enabled
      /\ nextRun' = [s \in Schedules |-> IF s \in kept THEN LoadPlan(f, s) ELSE 0]
      /\ history' = [s \in Schedules |-> IF s \in kept THEN f.runs[s] ELSE <<>>]
      /\ seq' = [s \in Schedules |-> IF s \in kept THEN LastSeq(f.runs[s]) ELSE 0]
      /\ due' = {} /\ firing' = NoSpec /\ fired' = NoSpec /\ unsaved' = FALSE
  BY DEF LoadSchedules
<1>2. ASSUME NEW s \in kept
      PROVE  LoadPlan(f, s) \in Nat /\ LoadPlan(f, s) > clock
  <2>1. f.spec[s] \in Specs
    BY <1>2 DEF ValidSpecs
  <2> QED  BY <1>0, <2>1, PlansAhead DEF LoadPlan
<1>3. ASSUME NEW s \in kept PROVE LastSeq(f.runs[s]) \in 0..clock
  <2>1. f.runs[s] \in Seq(1..clock)
    BY <1>3
  <2> QED  BY <1>0, <2>1, LastIsPast
<1>4. <<>> \in Seq(1..clock) /\ Len(<<>>) = 0
  OBVIOUS
<1>5. history' \in [Schedules -> Seq(1..clock)] /\ \A s \in Schedules : Len(history'[s]) <= MaxRuns
  <2>1. \A s \in Schedules : f.runs[s] \in Seq(1..clock) /\ Len(f.runs[s]) <= MaxRuns
    OBVIOUS
  <2>2. \A s \in Schedules : history'[s] \in Seq(1..clock) /\ Len(history'[s]) <= MaxRuns
    <3> SUFFICES ASSUME NEW s \in Schedules
                 PROVE  history'[s] \in Seq(1..clock) /\ Len(history'[s]) <= MaxRuns
      OBVIOUS
    <3>1. CASE s \in kept
      BY <1>1, <2>1, <3>1
    <3>2. CASE s \notin kept
      <4>1. history'[s] = <<>>
        BY <1>1, <3>2
      <4> QED  BY <1>0, <1>4, <4>1
    <3> QED  BY <3>1, <3>2
  <2>3. history' = [s \in Schedules |-> history'[s]]
    BY <1>1
  <2> QED  BY <2>2, <2>3
<1>6. history' \in [Schedules -> Seq(1..MaxClock)]
  BY <1>0, <1>5, LaterRuns
<1>7. seq' \in [Schedules -> 0..clock] /\ seq' \in [Schedules -> 0..MaxClock]
  BY <1>0, <1>1, <1>3
<1>8. nextRun' \in [Schedules -> Nat]
  BY <1>1, <1>2
<1>9. SchedTypeOK'
  BY <1>0, <1>1, <1>5, <1>6, <1>7, <1>8 DEF SchedInv, SchedTypeOK, ValidSpecs
<1>10. FileOK' /\ AnsweredIsDurable' /\ FiredOK'
  BY <1>0, <1>1, ScheduleAssumption DEF FileOK, AnsweredIsDurable, FiredOK, Resting
<1>11. RunsArePast'
  <2>1. ASSUME NEW s \in (Registered \ due)' PROVE seq'[s] < nextRun'[s]
    <3>1. s \in kept /\ s \in Schedules
      BY <1>1 DEF Registered
    <3> QED  BY <3>1, <1>0, <1>1, <1>2, <1>3
  <2>2. due' = {}
    BY <1>1
  <2> QED  BY <1>0, <1>5, <1>7, <2>1, <2>2 DEF RunsArePast
<1> QED  BY <1>9, <1>10, <1>11 DEF SchedInv

\* The host stops without a save and loads what the file has.
LEMMA CrashStep == SchedInv /\ CrashAndLoad => SchedInv'
  BY LoadStep DEF CrashAndLoad, SchedInv, FileOK

\* The host saves, stops and loads.
LEMMA StopStep == SchedInv /\ StopAndLoad => SchedInv'
<1> SUFFICES ASSUME SchedInv, StopAndLoad PROVE SchedInv'
  OBVIOUS
<1> DEFINE f == [spec |-> spec, enabled |-> enabled, runs |-> history]
<1>1. file' = f /\ LoadSchedules(f)
  BY DEF StopAndLoad, LoadSchedules, LoadPlan
<1>2. /\ f.spec \in [Schedules -> ValidSpecs \cup {NoSpec}] /\ f.enabled \in [Schedules -> BOOLEAN]
      /\ f.runs \in [Schedules -> Seq(1..clock)] /\ \A s \in Schedules : Len(f.runs[s]) <= MaxRuns
  BY DEF SchedInv, SchedTypeOK, RunsArePast, ValidSpecs
<1> HIDE DEF f
<1> QED  BY <1>1, <1>2, LoadStep

\* Time passes.
LEMMA ClockStep == SchedInv /\ ClockTick => SchedInv'
<1> SUFFICES ASSUME SchedInv, ClockTick PROVE SchedInv'
  OBVIOUS
<1>1. /\ clock' = clock + 1 /\ clock < MaxClock /\ clock \in Nat /\ clock' \in Nat /\ MaxClock \in Nat
      /\ spec' = spec /\ enabled' = enabled /\ nextRun' = nextRun /\ history' = history /\ seq' = seq
      /\ due' = due /\ firing' = firing /\ fired' = fired /\ file' = file /\ unsaved' = unsaved
  BY ScheduleAssumption DEF ClockTick, memory, loop, SchedInv, SchedTypeOK
<1>2. history' \in [Schedules -> Seq(1..clock')] /\ file'.runs \in [Schedules -> Seq(1..clock')]
  <2>1. history \in [Schedules -> Seq(1..clock)] /\ file.runs \in [Schedules -> Seq(1..clock)]
    BY DEF SchedInv, RunsArePast, FileOK
  <2> QED  BY <1>1, <2>1, LaterRuns
<1>3. SchedTypeOK'
  BY <1>1 DEF SchedInv, SchedTypeOK
<1>4. FileOK' /\ AnsweredIsDurable'
  BY <1>1, <1>2 DEF SchedInv, FileOK, AnsweredIsDurable
<1>5. FiredOK'
  BY <1>1 DEF SchedInv, FiredOK, Resting
<1>6. RunsArePast'
  <2>1. seq' \in [Schedules -> 0..clock']
    BY <1>1 DEF SchedInv, RunsArePast
  <2>2. \A s \in due' : seq'[s] < clock'
    BY <1>1 DEF SchedInv, SchedTypeOK, RunsArePast
  <2>3. \A s \in (Registered \ due)' : enabled'[s] /\ firing' # s => seq'[s] < nextRun'[s]
    BY <1>1 DEF SchedInv, RunsArePast, Registered
  <2> QED  BY <1>2, <2>1, <2>2, <2>3 DEF RunsArePast
<1> QED  BY <1>3, <1>4, <1>5, <1>6 DEF SchedInv

\* The strengthening holds of every reachable state.
THEOREM ScheduleInvariant == SchedSpec => []SchedInv
<1>1. SchedInv /\ UNCHANGED schedVars => SchedInv'
  <2> SUFFICES ASSUME SchedInv, UNCHANGED schedVars PROVE SchedInv'
    OBVIOUS
  <2>1. /\ clock' = clock /\ spec' = spec /\ enabled' = enabled /\ nextRun' = nextRun
        /\ history' = history /\ seq' = seq /\ due' = due /\ firing' = firing /\ fired' = fired
        /\ file' = file /\ unsaved' = unsaved
    BY DEF schedVars, memory, loop
  <2> QED
    BY <2>1 DEF SchedInv, SchedTypeOK, FileOK, RunsArePast, FiredOK, AnsweredIsDurable,
                Registered, Resting
<1>2. SchedInv /\ SchedNext => SchedInv'
  BY RegisterStep, RemoveStep, EnableStep, LoopTickStep, SkipStep, FireBeginsStep, FireEndsStep,
     CrashStep, StopStep, ClockStep DEF SchedNext, HostStep
<1> QED  BY SchedStarts, <1>1, <1>2, PTL DEF SchedSpec

\* The state of the host is well formed; no schedule has more runs than there
\* were instants to run it at.
THEOREM ScheduleTypes == SchedSpec => []SchedTypeOK
<1>1. SchedInv => SchedTypeOK
  BY DEF SchedInv
<1> QED  BY <1>1, ScheduleInvariant, PTL

\* What register, remove and set_enabled have answered is in schedules.json
\* unless the disk refused it.
THEOREM AnsweredSchedulesAreKept == SchedSpec => []AnsweredIsDurable
<1>1. SchedInv => AnsweredIsDurable
  BY DEF SchedInv
<1> QED  BY <1>1, ScheduleInvariant, PTL

\* No missed instant is caught up: every plan is for an instant to come.
THEOREM NothingIsCaughtUp == SchedSpec => NoCatchUp
<1> DEFINE Ahead(s) ==
      (nextRun'[s] # nextRun[s] \/ (firing = s /\ firing' # s)) /\ spec'[s] # NoSpec /\ enabled'[s]
        => nextRun'[s] > clock
<1>1. ASSUME SchedInv, SchedNext, NEW s \in Schedules PROVE Ahead(s)
  <2>0. clock \in Nat /\ s # NoSpec /\ NoSpec \notin Schedules
    BY <1>1, ScheduleAssumption DEF SchedInv, SchedTypeOK
  <2>1. ASSUME NEW p \in Specs, RegisterSchedule(p) PROVE Ahead(s)
    <3>1. NextRunAt(p, clock) > clock
      BY <2>0, PlansAhead
    <3> QED  BY <1>1, <2>1, <3>1 DEF RegisterSchedule, SchedInv, SchedTypeOK, loop
  <2>2. ASSUME NEW x \in Schedules, RemoveSchedule(x) PROVE Ahead(s)
    BY <1>1, <2>2 DEF RemoveSchedule, SchedInv, SchedTypeOK, loop
  <2>3. ASSUME NEW x \in Schedules, NEW on \in BOOLEAN, SetEnabled(x, on) PROVE Ahead(s)
    <3>1. spec[x] \in Specs
      BY <1>1, <2>3 DEF SetEnabled, Registered, SchedInv, SchedTypeOK
    <3>2. NextRunAt(spec[x], clock) > clock
      BY <2>0, <3>1, PlansAhead
    <3> QED  BY <1>1, <2>3, <3>2 DEF SetEnabled, SchedInv, SchedTypeOK, loop
  <2>4. CASE LoopTick
    BY <2>4 DEF LoopTick, memory
  <2>5. ASSUME NEW x \in Schedules, FireSkips(x) PROVE Ahead(s)
    BY <1>1, <2>5 DEF FireSkips, Registered, SchedInv, SchedTypeOK
  <2>6. ASSUME NEW x \in Schedules, FireBegins(x) PROVE Ahead(s)
    BY <2>6 DEF FireBegins, Resting
  <2>7. CASE FireEnds
    <3>1. Planned(firing) > clock /\ firing \in Schedules
      BY <1>1, <2>7, FireEndsFacts
    <3> QED  BY <1>1, <2>7, <3>1 DEF FireEnds, SchedInv, SchedTypeOK
  <2>8. ASSUME NEW f, f.spec \in [Schedules -> ValidSpecs \cup {NoSpec}], LoadSchedules(f)
        PROVE  Ahead(s)
    <3>1. CASE f.spec[s] # NoSpec
      <4>1. f.spec[s] \in Specs
        BY <1>1, <2>8, <3>1 DEF ValidSpecs
      <4>2. LoadPlan(f, s) > clock
        BY <2>0, <4>1, PlansAhead DEF LoadPlan
      <4> QED  BY <1>1, <2>8, <3>1, <4>2 DEF LoadSchedules
    <3>2. CASE f.spec[s] = NoSpec
      BY <2>8, <3>2 DEF LoadSchedules
    <3> QED  BY <3>1, <3>2
  <2>9. CASE CrashAndLoad
    BY <1>1, <2>8, <2>9 DEF CrashAndLoad, SchedInv, FileOK
  <2>10. CASE StopAndLoad
    <3> DEFINE f == [spec |-> spec, enabled |-> enabled, runs |-> history]
    <3>1. LoadSchedules(f)
      BY <2>10 DEF StopAndLoad, LoadSchedules, LoadPlan
    <3>2. f.spec \in [Schedules -> ValidSpecs \cup {NoSpec}]
      BY <1>1 DEF SchedInv, SchedTypeOK, ValidSpecs
    <3> HIDE DEF f
    <3> QED  BY <2>8, <3>1, <3>2
  <2>11. CASE ClockTick
    BY <2>11 DEF ClockTick, memory, loop
  <2> HIDE DEF Ahead
  <2> QED
    BY <1>1, <2>1, <2>2, <2>3, <2>4, <2>5, <2>6, <2>7, <2>9, <2>10, <2>11 DEF SchedNext, HostStep
<1>2. SchedInv /\ [SchedNext]_schedVars => [\A s \in Schedules : Ahead(s)]_schedVars
  BY <1>1
<1> HIDE DEF Ahead
<1>3. SchedInv /\ [SchedNext]_schedVars
        => [\A s \in Schedules :
             /\ nextRun'[s] # nextRun[s] \/ (firing = s /\ firing' # s)
             /\ spec'[s] # NoSpec /\ enabled'[s]
             => nextRun'[s] > clock]_schedVars
  BY <1>2 DEF Ahead
<1> QED  BY <1>3, ScheduleInvariant, PTL DEF SchedSpec, NoCatchUp

-----------------------------------------------------------------------------
(***************************************************************************)
(* Both of them (MCTimers).                                                *)
(***************************************************************************)

\* Tasks and schedules behave as each does alone.
LEMMA TimersAreParts == TimersSpec => Spec /\ SchedSpec
<1>1. TimersInit => Init /\ SchedInit
  BY DEF TimersInit
<1>2. [TimersNext]_timerVars => [Next]_vars /\ [SchedNext]_schedVars
  BY DEF TimersNext, timerVars
<1> QED  BY <1>1, <1>2, PTL DEF TimersSpec, Spec, SchedSpec

\* The tables of the master and the schedules are well formed, and what the
\* schedule host answered is in its file unless the disk refused it.
THEOREM TimersAreKept == TimersSpec => []TimersOK
<1>1. TypeOK /\ SchedTypeOK /\ AnsweredIsDurable => TimersOK
  BY DEF TimersOK
<1> QED
  BY <1>1, TimersAreParts, TypeCorrect, ScheduleTypes, AnsweredSchedulesAreKept, PTL
=============================================================================
