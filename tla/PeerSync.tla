------------------------------ MODULE PeerSync ------------------------------
(***************************************************************************)
(* Masters in active-active mode (master/cluster_master.py): each accepts  *)
(* tasks, owns those it accepted, writes its table to a task store, pushes *)
(* it to its peers, and starts again from the store after a crash.         *)
(*                                                                         *)
(* What happens to a task between its assignment and its end is reduced to *)
(* the steps that change its record; TaskScheduler has the detail.  A      *)
(* queue entry here is an entry of _pending_queue or of _pending_retry.    *)
(* Tasks are neither pinned nor light enough to be forced on the local     *)
(* node, and run on one node.                                              *)
(* The store is written by threads, so several writes are under way at     *)
(* once and end in any order.                                              *)
(***************************************************************************)
EXTENDS Naturals, FiniteSets

CONSTANTS
    Masters, Tasks, Nodes,
    None,       \* no master, no node
    MaxWriters, \* store writes under way, on all masters (a bound)
    MaxNet,     \* pushes under way (a bound)
    MaxStarts   \* restarts of masters (a bound)

ASSUME SyncAssumption ==
    /\ None \notin Masters \cup Nodes
    /\ MaxWriters \in Nat /\ MaxNet \in Nat /\ MaxStarts \in Nat

VARIABLES
    mem,        \* self.tasks, as copies of the tasks
    queue,      \* the queued objects of a master, as copies
    known,      \* self.nodes: the nodes registered with a master
    mode,       \* is _ha_mode set already: starting, active
    disk,       \* the task store of a master
    writing,    \* the snapshots its threads are writing
    net,        \* pushes of tasks under way
    starts,     \* restarts so far
    home,       \* history: the master a task was submitted to
    left        \* history: where a task ran, says the store, when its home crashed

store == <<disk, writing>>
history == <<starts, home, left>>
vars == <<mem, queue, known, mode, store, net, history>>

\* What a master knows of a task it does not know.
Blank == [status |-> "absent", owner |-> None, node |-> None, exclude |-> {}]
EmptyTable == [t \in Tasks |-> Blank]

\* A copy of a task has a node (assigned_nodes) exactly while it runs.
Copy ==
    {c \in [status : {"absent", "pending", "running", "final"},
            owner : Masters \cup {None}, node : Nodes \cup {None},
            exclude : SUBSET Nodes] :
        c.status = "running" <=> c.node # None}

Queued(m, t) == queue[m][t].status # "absent"

Init ==
    /\ mem = [m \in Masters |-> EmptyTable]
    /\ queue = [m \in Masters |-> EmptyTable]
    /\ known = [m \in Masters |-> {}]
    /\ mode = [m \in Masters |-> "starting"]
    /\ disk = [m \in Masters |-> EmptyTable]
    /\ writing = [m \in Masters |-> {}]
    /\ net = {}
    /\ starts = 0
    /\ home = [t \in Tasks |-> None]
    /\ left = [t \in Tasks |-> {}]

-----------------------------------------------------------------------------
(* The records.                                                            *)

\* _persist_tasks_locked: the tasks that have not ended.
SnapshotOf(table) ==
    [t \in Tasks |-> IF table[t].status = "final" THEN Blank ELSE table[t]]

\* _task_from_dict: a task that ran is pending again, away from its nodes.
FromDictInPlace(c) ==
    IF c.status = "running"
    THEN [c EXCEPT !.status = "pending", !.node = None]
    ELSE c
FromDictAssigned(c) ==
    IF c.status = "running"
    THEN [c EXCEPT !.status = "pending", !.exclude = @ \cup {c.node}]
    ELSE c
FromDict(c) ==
    IF c.status = "running"
    THEN [c EXCEPT !.status = "pending", !.node = None,
                   !.exclude = @ \cup {c.node}]
    ELSE c

\* The table of m after the step is handed to a thread that writes it.
WriteTable(m) ==
    /\ Cardinality(UNION {{m2} \X writing[m2] : m2 \in Masters}) < MaxWriters
    /\ writing' = [writing EXCEPT ![m] = @ \cup {SnapshotOf(mem'[m])}]
    /\ UNCHANGED disk

-----------------------------------------------------------------------------
(* The scheduler of a master.                                              *)

\* The submit route: the task gets this master's prefix and owner, and
\* assign_task queues it.  A queued task is not written to the store.
Submit(m, t) ==
    /\ mode[m] = "active" /\ home[t] = None
    /\ LET c == [status |-> "pending", owner |-> m, node |-> None, exclude |-> {}]
       IN  /\ mem' = [mem EXCEPT ![m][t] = c]
           /\ queue' = [queue EXCEPT ![m][t] = c]
    /\ home' = [home EXCEPT ![t] = m]
    /\ UNCHANGED <<known, mode, store, net, starts, left>>

\* The owner check of assign_task.  start() drains the restored queue before
\* it sets _ha_mode, and the check is off until then.
MayAssignAny(m, c) == TRUE
MayAssign(m, c) == mode[m] = "starting" \/ c.owner = m

\* assign_task for a queued task, with a node for it.  The write is left to
\* _persist_loop if the last one was a moment ago.
Place(m, t, n) ==
    /\ Queued(m, t) /\ MayAssign(m, queue[m][t])
    /\ mem[m][t].status # "running"
    /\ n \in known[m] \ queue[m][t].exclude
    /\ mem' = [mem EXCEPT ![m][t] =
                 [queue[m][t] EXCEPT !.status = "running", !.node = n]]
    /\ queue' = [queue EXCEPT ![m][t] = Blank]
    /\ WriteTable(m) \/ UNCHANGED store
    /\ UNCHANGED <<known, mode, net, history>>

\* assign_task refuses or finds no node, and the object is queued again: it
\* takes the place of whatever the table holds by now (_enqueue_pending).
Requeue(m, t) ==
    /\ Queued(m, t)
    /\ LET c == [queue[m][t] EXCEPT !.status = "pending", !.node = None]
       IN  /\ mem' = [mem EXCEPT ![m][t] = c]
           /\ queue' = [queue EXCEPT ![m][t] = c]
    /\ UNCHANGED <<known, mode, store, net, history>>

\* A task ends: _finalize_task writes the table, check_timeouts does not.  (The
\* node of a task that has ended is not kept in the model.)
Finish(m, t) ==
    /\ mem[m][t].status = "running"
    /\ mem' = [mem EXCEPT ![m][t] = [@ EXCEPT !.status = "final", !.node = None]]
    /\ WriteTable(m) \/ UNCHANGED store
    /\ UNCHANGED <<queue, known, mode, net, history>>

\* _enqueue_retry, after a transient failure, a timeout or a migration, the last
\* two without a write.
Retry(m, t) ==
    /\ mem[m][t].status = "running"
    /\ LET c == [mem[m][t] EXCEPT !.status = "pending", !.node = None,
                                  !.exclude = @ \cup {mem[m][t].node}]
       IN  /\ mem' = [mem EXCEPT ![m][t] = c]
           /\ queue' = [queue EXCEPT ![m][t] = c]
    /\ WriteTable(m) \/ UNCHANGED store
    /\ UNCHANGED <<known, mode, net, history>>

\* cancel_task, of an own task or of a mirror.  An entry of _pending_queue is
\* removed, one of _pending_retry stays (mirrors are never in the latter).
CancelTask(m, t) ==
    /\ mode[m] = "active" /\ mem[m][t].status \in {"pending", "running"}
    /\ LET c == [mem[m][t] EXCEPT !.status = "final", !.node = None]
       IN  /\ mem' = [mem EXCEPT ![m][t] = c]
           /\ \/ queue' = [queue EXCEPT ![m][t] = Blank]
              \/ /\ Queued(m, t) /\ mem[m][t].owner = m
                 /\ queue' = [queue EXCEPT ![m][t] = c]
    /\ WriteTable(m)
    /\ UNCHANGED <<known, mode, net, history>>

\* The nodes register (register_node), or are learnt from a peer
\* (receive_synced_state); when they all have, every choice of one is open.
RegisterNodes(m) ==
    /\ mode[m] = "active" /\ known[m] # Nodes
    /\ known' = [known EXCEPT ![m] = Nodes]
    /\ UNCHANGED <<mem, queue, mode, store, net, history>>

-----------------------------------------------------------------------------
(* The task store.                                                         *)

\* A round of _persist_loop.  _persist_dirty, which lets it skip rounds, is
\* left out: the model may write in any round, and may skip any.
PersistLoop(m) ==
    /\ mem' = mem
    /\ WriteTable(m)
    /\ UNCHANGED <<queue, known, mode, net, history>>

\* A thread ends _write_task_store.  All threads use one temporary file: of
\* two that overlap one may find it gone, and the store may be unreadable.
WriteEnds(m, s) ==
    /\ s \in writing[m]
    /\ writing' = [writing EXCEPT ![m] = @ \ {s}]
    /\ \/ disk' = [disk EXCEPT ![m] = s]
       \/ /\ Cardinality(writing[m]) > 1
          /\ disk' = [disk EXCEPT ![m] = EmptyTable]
       \/ UNCHANGED disk
    /\ UNCHANGED <<mem, queue, known, mode, net, history>>

\* What start() puts into the table: _restore_tasks.
Restored(s) == [t \in Tasks |-> FromDict(s[t])]

\* What the store may hold when a master is gone, by a crash or by stop(),
\* which writes once more.
LastStores(m) == {disk[m], SnapshotOf(mem[m])}

\* The end of a master and the first part of start(): the tasks of the store are
\* pending and queued; no node is known yet.
Restart(m) ==
    starts < MaxStarts /\ starts' = starts + 1 /\
    \E s \in LastStores(m) :
        /\ disk' = [disk EXCEPT ![m] = s]
        /\ mem' = [mem EXCEPT ![m] = Restored(s)]
        /\ queue' = [queue EXCEPT ![m] = Restored(s)]
        /\ known' = [known EXCEPT ![m] = {}]
        /\ mode' = [mode EXCEPT ![m] = "starting"]
        /\ writing' = [writing EXCEPT ![m] = {}]
        /\ left' = [t \in Tasks |->
                      IF home[t] # m THEN left[t]
                      ELSE IF s[t].status = "running" THEN {s[t].node} ELSE {}]
        /\ UNCHANGED <<net, home>>

\* The rest of start(): the mode is set and the server listens.
Serve(m) ==
    /\ mode[m] = "starting"
    /\ mode' = [mode EXCEPT ![m] = "active"]
    /\ UNCHANGED <<mem, queue, known, store, net, history>>

-----------------------------------------------------------------------------
(* Synchronisation.                                                        *)

\* One round of _peer_sync_loop to one peer: all tasks that have not ended,
\* mirrors too.  The post of an earlier round may still be under way.
Push(m, p) ==
    /\ mode[m] = "active" /\ m # p
    /\ SnapshotOf(mem[m]) # EmptyTable
    /\ Cardinality(net) < MaxNet
    /\ net' = net \cup {[to |-> p, tasks |-> SnapshotOf(mem[m])]}
    /\ UNCHANGED <<mem, queue, known, mode, store, history>>

\* What receive_synced_tasks takes over: nothing of a task that has ended
\* here, nothing of a task of its own.
TakesAnyOwner(m, t, c) ==
    /\ c.status # "absent"
    /\ mem[m][t].status # "final"
Takes(m, t, c) ==
    /\ c.status # "absent"
    /\ mem[m][t].status # "final"
    /\ mem[m][t].owner # m

Receive(g) ==
    LET m == g.to
        taken == {t \in Tasks : Takes(m, t, g.tasks[t])}
    IN  /\ g \in net /\ mode[m] = "active"
        /\ net' = net \ {g}
        /\ mem' = [mem EXCEPT ![m] = [t \in Tasks |->
                     IF t \in taken THEN FromDict(g.tasks[t]) ELSE @[t]]]
        /\ IF taken # {} THEN WriteTable(m) ELSE UNCHANGED store
        /\ UNCHANGED <<queue, known, mode, history>>

\* The post fails: the peer is down or the network loses it.
Lose(g) ==
    /\ g \in net
    /\ net' = net \ {g}
    /\ UNCHANGED <<mem, queue, known, mode, store, history>>

-----------------------------------------------------------------------------

TaskStep(m, t) ==
    \/ Submit(m, t) \/ Requeue(m, t) \/ Finish(m, t) \/ Retry(m, t) \/ CancelTask(m, t)
    \/ \E n \in Nodes : Place(m, t, n)

MasterStep(m) ==
    \/ PersistLoop(m) \/ Restart(m) \/ Serve(m) \/ RegisterNodes(m)
    \/ \E s \in writing[m] : WriteEnds(m, s)
    \/ \E p \in Masters : Push(m, p)

Next ==
    \/ \E m \in Masters : MasterStep(m) \/ \E t \in Tasks : TaskStep(m, t)
    \/ \E g \in net : Receive(g) \/ Lose(g)

Spec == Init /\ [][Next]_vars

-----------------------------------------------------------------------------
(* What active-active mode promises.                                       *)

\* The variables have their types; a copy that is read back from the store or
\* from a peer has no node (_task_from_dict).
TypeOK ==
    /\ mem \in [Masters -> [Tasks -> Copy]]
    /\ queue \in [Masters -> [Tasks -> Copy]]
    /\ known \in [Masters -> SUBSET Nodes]
    /\ mode \in [Masters -> {"starting", "active"}]
    /\ disk \in [Masters -> [Tasks -> Copy]]
    /\ writing \in [Masters -> SUBSET [Tasks -> Copy]]
    /\ net \in SUBSET [to : Masters, tasks : [Tasks -> Copy]]
    /\ starts \in 0..MaxStarts
    /\ home \in [Tasks -> Masters \cup {None}]
    /\ left \in [Tasks -> SUBSET Nodes]

\* Single-owner dispatch: whatever is pushed, stored and restored, a task runs
\* only on behalf of the master that accepted it (assign_task, "owner-skip"),
\* also in the time in which a starting master does not check the owner.
OnlyOwnerRuns ==
    \A m \in Masters, t \in Tasks : mem[m][t].status = "running" => home[t] = m

\* The queue of a task's own master holds the object that is in its table: no
\* push has replaced the one and left the other (receive_synced_tasks).
QueueIsCurrent ==
    \A m \in Masters, t \in Tasks :
        home[t] = m /\ Queued(m, t) => queue[m][t] = mem[m][t]

\* A task is not sent back to the node it was on when its master crashed, as
\* far as the store told (P1-1 in _task_from_dict).
CrashNodeAvoided ==
    \A m \in Masters, t \in Tasks :
        home[t] = m /\ mem[m][t].status = "running" => mem[m][t].node \notin left[t]
=============================================================================
