--------------------------- MODULE PeerSyncProofs ---------------------------
(***************************************************************************)
(* Proofs that active-active mode keeps its promises, for any number of    *)
(* masters, tasks, nodes, store writes, pushes and restarts.               *)
(***************************************************************************)
EXTENDS PeerSync, TLAPS

\* A copy of a task names the master in h as its owner.
Fits(h, c) ==
    IF c.status = "absent" THEN c = Blank ELSE h \in Masters /\ c.owner = h

GoodTable(h) == {f \in [Tasks -> Copy] : \A t \in Tasks : Fits(h[t], f[t])}

\* Every copy, wherever it is, names the master the task was submitted to.
CopiesFit ==
    /\ \A m \in Masters : /\ mem[m] \in GoodTable(home)
                          /\ queue[m] \in GoodTable(home)
                          /\ disk[m] \in GoodTable(home)
                          /\ \A s \in writing[m] : s \in GoodTable(home)
    /\ \A g \in net : g.tasks \in GoodTable(home)

\* A master that is starting has not met a node yet.
StartsAlone == \A m \in Masters : mode[m] = "starting" => known[m] = {}

\* No queued object is marked as running.
QueueIdle == \A m \in Masters, t \in Tasks : queue[m][t].status # "running"

\* The owner of a task remembers where the task ran when it crashed.
LeftKept ==
    \A t \in Tasks : IF home[t] = None THEN left[t] = {}
                     ELSE left[t] \subseteq mem[home[t]][t].exclude

\* A task runs on a node it does not exclude.
RunsElsewhere ==
    \A m \in Masters, t \in Tasks :
        mem[m][t].status = "running" => mem[m][t].node \notin mem[m][t].exclude

SyncInv ==
    /\ TypeOK
    /\ CopiesFit
    /\ StartsAlone
    /\ OnlyOwnerRuns
    /\ QueueIdle
    /\ QueueIsCurrent
    /\ LeftKept
    /\ RunsElsewhere

-----------------------------------------------------------------------------

\* What is read back from a store or a push fits if what was written does, and
\* does not run (_task_from_dict).
LEMMA FromDictFits ==
    ASSUME NEW h, NEW c \in Copy, Fits(h, c)
    PROVE  /\ FromDict(c) \in Copy /\ Fits(h, FromDict(c))
           /\ FromDict(c).status # "running"
           /\ c.status = "absent" => FromDict(c) = c
           /\ c.status = "running" => c.node \in FromDict(c).exclude /\ c.node \in Nodes
BY SyncAssumption DEF FromDict, Copy, Fits, Blank

\* The absent copy of a task fits every master.
LEMMA BlankFits ==
    ASSUME NEW h
    PROVE  Blank \in Copy /\ Fits(h, Blank) /\ Blank.status = "absent"
BY DEF Blank, Copy, Fits

\* The snapshot of a table fits if the table does (_persist_tasks_locked).
LEMMA SnapshotFits ==
    ASSUME NEW h, NEW f \in GoodTable(h)
    PROVE  SnapshotOf(f) \in GoodTable(h)
BY BlankFits DEF SnapshotOf, GoodTable

\* So does the table that is restored from one (_restore_tasks).
LEMMA RestoredFits ==
    ASSUME NEW h, NEW f \in GoodTable(h)
    PROVE  /\ Restored(f) \in GoodTable(h)
           /\ \A t \in Tasks : Restored(f)[t].status # "running"
BY FromDictFits DEF Restored, GoodTable

\* So does the table that has no task.
LEMMA EmptyFits ==
    ASSUME NEW h
    PROVE  EmptyTable \in GoodTable(h)
BY BlankFits DEF EmptyTable, GoodTable

\* Replacing one entry of a table by one that fits.
LEMMA UpdateFits ==
    ASSUME NEW h, NEW f \in GoodTable(h), NEW t \in Tasks,
           NEW c \in Copy, Fits(h[t], c)
    PROVE  [f EXCEPT ![t] = c] \in GoodTable(h)
BY DEF GoodTable

\* A step that hands the table to a writer leaves good tables in the store.
LEMMA WriteFits ==
    ASSUME SyncInv, NEW m \in Masters, WriteTable(m),
           mem' \in [Masters -> [Tasks -> Copy]], mem'[m] \in GoodTable(home)
    PROVE  /\ disk' = disk
           /\ writing' \in [Masters -> SUBSET [Tasks -> Copy]]
           /\ \A p \in Masters : \A s \in writing'[p] : s \in GoodTable(home)
<1>1. SnapshotOf(mem'[m]) \in GoodTable(home)
  BY SnapshotFits
<1>2. SnapshotOf(mem'[m]) \in [Tasks -> Copy]
  BY <1>1 DEF GoodTable
<1> QED  BY <1>1, <1>2 DEF SyncInv, TypeOK, CopiesFit, WriteTable

-----------------------------------------------------------------------------

\* A step of the scheduler gives a task the copy c in the table and d in the
\* queue of one master.  It keeps the invariant if only the owner runs c, if the
\* owner's copies agree, and if the owner forgets no excluded node.
LEMMA TaskUpdate ==
    ASSUME SyncInv, NEW m \in Masters, NEW t \in Tasks,
           NEW c \in Copy, NEW d \in Copy, Fits(home[t], c), Fits(home[t], d),
           mem' = [mem EXCEPT ![m][t] = c], queue' = [queue EXCEPT ![m][t] = d],
           UNCHANGED <<known, mode, net, starts, home, left>>,
           WriteTable(m) \/ UNCHANGED store,
           c.status = "running" => home[t] = m /\ c.node \notin c.exclude,
           d.status # "running",
           home[t] = m /\ d.status # "absent" => d = c,
           home[t] = m => mem[m][t].exclude \subseteq c.exclude
    PROVE  SyncInv'
<1> USE DEF SyncInv
<1>1. /\ mem'[m] = [mem[m] EXCEPT ![t] = c] /\ queue'[m] = [queue[m] EXCEPT ![t] = d]
      /\ \A p \in Masters \ {m} : mem'[p] = mem[p] /\ queue'[p] = queue[p]
      /\ mem' \in [Masters -> [Tasks -> Copy]] /\ queue' \in [Masters -> [Tasks -> Copy]]
  BY DEF TypeOK
<1>2. mem'[m] \in GoodTable(home) /\ queue'[m] \in GoodTable(home)
  BY <1>1, UpdateFits DEF CopiesFit
<1>3. /\ disk' = disk
      /\ writing' \in [Masters -> SUBSET [Tasks -> Copy]]
      /\ \A p \in Masters : \A s \in writing'[p] : s \in GoodTable(home)
  <2>1. CASE WriteTable(m)  BY <2>1, <1>1, <1>2, WriteFits
  <2>2. CASE UNCHANGED store  BY <2>2 DEF store, TypeOK, CopiesFit
  <2> QED  BY <2>1, <2>2
<1>4. TypeOK'
  BY <1>1, <1>3 DEF TypeOK
<1>5. CopiesFit'
  BY <1>1, <1>2, <1>3 DEF CopiesFit
<1>6. StartsAlone'
  BY DEF StartsAlone
<1>7. OnlyOwnerRuns' /\ QueueIdle' /\ RunsElsewhere'
  BY <1>1 DEF OnlyOwnerRuns, QueueIdle, RunsElsewhere, TypeOK
<1>8. QueueIsCurrent'
  BY <1>1 DEF QueueIsCurrent, Queued, TypeOK
<1>9. LeftKept'
  BY <1>1 DEF LeftKept, TypeOK
<1> QED  BY <1>4, <1>5, <1>6, <1>7, <1>8, <1>9

\* The steps of the scheduler, other than the acceptance of a task.
LEMMA SchedulerSteps ==
    ASSUME SyncInv, NEW m \in Masters, NEW t \in Tasks,
           \/ Requeue(m, t) \/ Finish(m, t) \/ Retry(m, t) \/ CancelTask(m, t)
           \/ \E n \in Nodes : Place(m, t, n)
    PROVE  SyncInv'
<1> DEFINE a == mem[m][t]  q == queue[m][t]
<1>1. /\ a \in Copy /\ q \in Copy /\ Fits(home[t], a) /\ Fits(home[t], q)
      /\ q.status # "running"
      /\ home[t] = m /\ q.status # "absent" => q = a
      /\ a.status = "running" => home[t] = m
  BY DEF SyncInv, TypeOK, CopiesFit, GoodTable, QueueIdle, QueueIsCurrent, Queued,
         OnlyOwnerRuns
<1>2. Blank \in Copy /\ Fits(home[t], Blank) /\ Blank.status = "absent"
  BY BlankFits
<1>3. CASE Requeue(m, t)
  <2> DEFINE c == [q EXCEPT !.status = "pending", !.node = None]
  <2>1. c \in Copy /\ Fits(home[t], c) /\ c.status = "pending" /\ c.exclude = q.exclude
    BY <1>1, <1>3, SyncAssumption DEF Requeue, Queued, Copy, Fits
  <2>2. mem' = [mem EXCEPT ![m][t] = c] /\ queue' = [queue EXCEPT ![m][t] = c]
    BY <1>3 DEF Requeue
  <2>3. UNCHANGED <<known, mode, net, starts, home, left>> /\ UNCHANGED store
    BY <1>3 DEF Requeue, history
  <2>4. home[t] = m => a.exclude \subseteq c.exclude
    BY <1>1, <1>3, <2>1 DEF Requeue, Queued
  <2> HIDE DEF c
  <2> QED  BY <2>1, <2>2, <2>3, <2>4, TaskUpdate
<1>4. CASE Finish(m, t)
  <2> DEFINE c == [a EXCEPT !.status = "final", !.node = None]
  <2>1. c \in Copy /\ Fits(home[t], c) /\ c.status = "final" /\ c.exclude = a.exclude
    BY <1>1, <1>4, SyncAssumption DEF Finish, Copy, Fits
  <2>2. mem' = [mem EXCEPT ![m][t] = c] /\ queue' = [queue EXCEPT ![m][t] = q]
    BY <1>4 DEF Finish, SyncInv, TypeOK
  <2>3. /\ UNCHANGED <<known, mode, net, starts, home, left>>
        /\ WriteTable(m) \/ UNCHANGED store
    BY <1>4 DEF Finish, history
  <2>4. home[t] = m /\ q.status # "absent" => q = c
    BY <1>1, <1>4 DEF Finish
  <2> HIDE DEF c, q
  <2> QED  BY <1>1, <2>1, <2>2, <2>3, <2>4, TaskUpdate
<1>5. CASE Retry(m, t)
  <2> DEFINE c == [a EXCEPT !.status = "pending", !.node = None,
                            !.exclude = @ \cup {a.node}]
  <2>1. /\ c \in Copy /\ Fits(home[t], c) /\ c.status = "pending"
        /\ a.exclude \subseteq c.exclude
    BY <1>1, <1>5, SyncAssumption DEF Retry, Copy, Fits
  <2>2. mem' = [mem EXCEPT ![m][t] = c] /\ queue' = [queue EXCEPT ![m][t] = c]
    BY <1>5 DEF Retry
  <2>3. /\ UNCHANGED <<known, mode, net, starts, home, left>>
        /\ WriteTable(m) \/ UNCHANGED store
    BY <1>5 DEF Retry, history
  <2> HIDE DEF c
  <2> QED  BY <2>1, <2>2, <2>3, TaskUpdate
<1>6. CASE CancelTask(m, t)
  <2> DEFINE c == [a EXCEPT !.status = "final", !.node = None]
  <2>1. c \in Copy /\ Fits(home[t], c) /\ c.status = "final" /\ c.exclude = a.exclude
    BY <1>1, <1>6, SyncAssumption DEF CancelTask, Copy, Fits
  <2>2. /\ mem' = [mem EXCEPT ![m][t] = c]
        /\ \/ queue' = [queue EXCEPT ![m][t] = Blank]
           \/ queue' = [queue EXCEPT ![m][t] = c]
    BY <1>6 DEF CancelTask
  <2>3. UNCHANGED <<known, mode, net, starts, home, left>> /\ WriteTable(m)
    BY <1>6 DEF CancelTask, history
  <2> HIDE DEF c
  <2>4. CASE queue' = [queue EXCEPT ![m][t] = Blank]
    BY <1>2, <2>1, <2>2, <2>3, <2>4, TaskUpdate
  <2>5. CASE queue' = [queue EXCEPT ![m][t] = c]
    BY <2>1, <2>2, <2>3, <2>5, TaskUpdate
  <2> QED  BY <2>2, <2>4, <2>5
<1>7. ASSUME NEW n \in Nodes, Place(m, t, n) PROVE SyncInv'
  <2> DEFINE c == [q EXCEPT !.status = "running", !.node = n]
  <2>1. /\ c \in Copy /\ Fits(home[t], c) /\ c.status = "running" /\ c.node = n
        /\ c.exclude = q.exclude /\ n \notin c.exclude
    BY <1>1, <1>7, SyncAssumption DEF Place, Queued, Copy, Fits
  <2>2. mem' = [mem EXCEPT ![m][t] = c] /\ queue' = [queue EXCEPT ![m][t] = Blank]
    BY <1>7 DEF Place
  <2>3. /\ UNCHANGED <<known, mode, net, starts, home, left>>
        /\ WriteTable(m) \/ UNCHANGED store
    BY <1>7 DEF Place, history
  <2>4. mode[m] # "starting"
    BY <1>7 DEF Place, SyncInv, StartsAlone
  <2>5. home[t] = m
    BY <1>1, <1>7, <2>4 DEF Place, MayAssign, Queued, Fits
  <2>6. a.exclude \subseteq c.exclude
    BY <1>1, <1>7, <2>1, <2>5 DEF Place, Queued
  <2> HIDE DEF c
  <2> QED  BY <1>2, <2>1, <2>2, <2>3, <2>5, <2>6, TaskUpdate
<1> QED  BY <1>3, <1>4, <1>5, <1>6, <1>7

\* The acceptance of a task: no copy of it exists yet, so all copies fit still.
LEMMA SubmissionStep ==
    ASSUME SyncInv, NEW m \in Masters, NEW t \in Tasks, Submit(m, t)
    PROVE  SyncInv'
<1> DEFINE c == [status |-> "pending", owner |-> m, node |-> None, exclude |-> {}]
<1> USE DEF SyncInv
<1>1. /\ home[t] = None /\ home' = [home EXCEPT ![t] = m]
      /\ mem' = [mem EXCEPT ![m][t] = c] /\ queue' = [queue EXCEPT ![m][t] = c]
      /\ UNCHANGED <<known, mode, disk, writing, net, starts, left>>
  BY DEF Submit, store
<1>2. c \in Copy /\ Fits(home'[t], c) /\ c.status = "pending"
  BY <1>1, SyncAssumption DEF Copy, Fits, TypeOK
<1>3. ASSUME NEW f \in GoodTable(home) PROVE f \in GoodTable(home')
  BY <1>1, SyncAssumption DEF GoodTable, Fits, TypeOK
<1>4. /\ mem'[m] = [mem[m] EXCEPT ![t] = c] /\ queue'[m] = [queue[m] EXCEPT ![t] = c]
      /\ \A p \in Masters \ {m} : mem'[p] = mem[p] /\ queue'[p] = queue[p]
  BY <1>1 DEF TypeOK
<1> HIDE DEF c
<1>5. TypeOK'
  BY <1>1, <1>2 DEF TypeOK
<1>6. CopiesFit'
  <2>1. mem[m] \in GoodTable(home') /\ queue[m] \in GoodTable(home')
    BY <1>3 DEF CopiesFit
  <2>2. mem'[m] \in GoodTable(home') /\ queue'[m] \in GoodTable(home')
    BY <1>2, <1>4, <2>1, UpdateFits
  <2>3. \A p \in Masters : /\ mem'[p] \in GoodTable(home')
                           /\ queue'[p] \in GoodTable(home')
    BY <1>3, <1>4, <2>2 DEF CopiesFit
  <2>4. \A p \in Masters : /\ disk'[p] \in GoodTable(home')
                           /\ \A s \in writing'[p] : s \in GoodTable(home')
    BY <1>1, <1>3 DEF CopiesFit
  <2>5. \A g \in net' : g.tasks \in GoodTable(home')
    BY <1>1, <1>3 DEF CopiesFit
  <2> QED  BY <2>3, <2>4, <2>5 DEF CopiesFit
<1>7. StartsAlone' /\ OnlyOwnerRuns' /\ QueueIdle' /\ RunsElsewhere'
  <2>1. StartsAlone'
    BY <1>1 DEF StartsAlone
  <2>2. ASSUME NEW p \in Masters, NEW u \in Tasks
        PROVE  /\ queue'[p][u].status # "running"
               /\ mem'[p][u].status = "running" =>
                    home'[u] = p /\ mem'[p][u].node \notin mem'[p][u].exclude
    <3>1. CASE p = m /\ u = t
      BY <1>2, <1>4, <3>1 DEF TypeOK
    <3>2. CASE ~(p = m /\ u = t)
      <4>1. mem'[p][u] = mem[p][u] /\ queue'[p][u] = queue[p][u]
        BY <1>4, <3>2 DEF TypeOK
      <4>2. home[u] = p => home'[u] = p
        BY <1>1, SyncAssumption DEF TypeOK
      <4> QED  BY <4>1, <4>2 DEF OnlyOwnerRuns, QueueIdle, RunsElsewhere
    <3> QED  BY <3>1, <3>2
  <2> QED  BY <2>1, <2>2 DEF OnlyOwnerRuns, QueueIdle, RunsElsewhere
<1>8. QueueIsCurrent'
  <2> SUFFICES ASSUME NEW p \in Masters, NEW u \in Tasks, home'[u] = p, Queued(p, u)'
               PROVE  queue'[p][u] = mem'[p][u]
    BY DEF QueueIsCurrent
  <2>1. CASE u = t  BY <2>1, <1>1, <1>4 DEF TypeOK
  <2>2. CASE u # t  BY <2>2, <1>1, <1>4 DEF TypeOK, QueueIsCurrent, Queued
  <2> QED  BY <2>1, <2>2
<1>9. LeftKept'
  <2> SUFFICES ASSUME NEW u \in Tasks
               PROVE  IF home'[u] = None THEN left[u] = {}
                      ELSE left[u] \subseteq mem'[home'[u]][u].exclude
    BY <1>1 DEF LeftKept
  <2>1. CASE u = t  BY <2>1, <1>1 DEF LeftKept, TypeOK
  <2>2. CASE u # t  BY <2>2, <1>1 DEF LeftKept, TypeOK
  <2> QED  BY <2>1, <2>2
<1> QED  BY <1>5, <1>6, <1>7, <1>8, <1>9

\* A restart: the tables come from one snapshot, and what it says of the nodes
\* in use is in the exclusions.
LEMMA RestartStep ==
    ASSUME SyncInv, NEW m \in Masters, Restart(m)
    PROVE  SyncInv'
<1> USE DEF SyncInv
<1>1. PICK s \in LastStores(m) :
        /\ disk' = [disk EXCEPT ![m] = s]
        /\ mem' = [mem EXCEPT ![m] = Restored(s)]
        /\ queue' = [queue EXCEPT ![m] = Restored(s)]
        /\ known' = [known EXCEPT ![m] = {}]
        /\ mode' = [mode EXCEPT ![m] = "starting"]
        /\ writing' = [writing EXCEPT ![m] = {}]
        /\ left' = [t \in Tasks |->
                      IF home[t] # m THEN left[t]
                      ELSE IF s[t].status = "running" THEN {s[t].node} ELSE {}]
        /\ UNCHANGED <<net, home>>
  BY DEF Restart
<1>2. s \in GoodTable(home)
  BY SnapshotFits DEF CopiesFit, LastStores
<1>3. /\ Restored(s) \in GoodTable(home)
      /\ \A t \in Tasks : Restored(s)[t].status # "running"
  BY <1>2, RestoredFits
<1>4. s \in [Tasks -> Copy] /\ Restored(s) \in [Tasks -> Copy]
  BY <1>2, <1>3 DEF GoodTable
<1>5. \A t \in Tasks : s[t].status = "running" =>
        s[t].node \in Nodes /\ s[t].node \in Restored(s)[t].exclude
  BY <1>2, FromDictFits DEF GoodTable, Restored
<1>6. starts' \in 0..MaxStarts
  BY SyncAssumption DEF Restart, TypeOK
<1>7. TypeOK'
  BY <1>1, <1>4, <1>5, <1>6 DEF TypeOK
<1>8. CopiesFit'
  BY <1>1, <1>2, <1>3 DEF CopiesFit, TypeOK
<1>9. StartsAlone' /\ OnlyOwnerRuns' /\ QueueIdle' /\ QueueIsCurrent' /\ RunsElsewhere'
  BY <1>1, <1>3 DEF StartsAlone, OnlyOwnerRuns, QueueIdle, QueueIsCurrent, Queued,
                    RunsElsewhere, TypeOK
<1>10. LeftKept'
  <2> SUFFICES ASSUME NEW t \in Tasks
               PROVE  IF home[t] = None THEN left'[t] = {}
                      ELSE left'[t] \subseteq mem'[home[t]][t].exclude
    BY <1>1 DEF LeftKept
  <2>1. CASE home[t] = m
    BY <2>1, <1>1, <1>5, SyncAssumption DEF TypeOK
  <2>2. CASE home[t] # m
    BY <2>2, <1>1 DEF TypeOK, LeftKept
  <2> QED  BY <2>1, <2>2
<1> QED  BY <1>7, <1>8, <1>9, <1>10

\* A push that arrives: of the tasks of its own the receiver takes only those
\* it does not know, and these it left nowhere.
LEMMA ReceiveStep ==
    ASSUME SyncInv, NEW g \in net, Receive(g)
    PROVE  SyncInv'
<1> USE DEF SyncInv
<1> DEFINE m == g.to
           taken == {t \in Tasks : Takes(m, t, g.tasks[t])}
           f == [t \in Tasks |-> IF t \in taken THEN FromDict(g.tasks[t]) ELSE mem[m][t]]
<1>1. m \in Masters /\ g.tasks \in GoodTable(home)
  BY DEF TypeOK, CopiesFit
<1>2. /\ mem' = [mem EXCEPT ![m] = f] /\ net' = net \ {g}
      /\ WriteTable(m) \/ UNCHANGED store
      /\ UNCHANGED <<queue, known, mode, starts, home, left>>
  BY <1>1 DEF Receive, history, TypeOK
<1>3. \A t \in taken : /\ FromDict(g.tasks[t]) \in Copy
                       /\ Fits(home[t], FromDict(g.tasks[t]))
                       /\ FromDict(g.tasks[t]).status # "running"
  BY <1>1, FromDictFits DEF GoodTable
<1>4. f \in [Tasks -> Copy] /\ f \in GoodTable(home)
  BY <1>1, <1>3 DEF GoodTable, TypeOK, CopiesFit
<1>5. ASSUME NEW t \in taken, home[t] = m
      PROVE  mem[m][t] = Blank /\ queue[m][t].status = "absent"
  <2>1. mem[m][t] = Blank
    BY <1>1, <1>5 DEF CopiesFit, GoodTable, Fits, Takes
  <2> QED  BY <1>1, <1>5, <2>1 DEF QueueIsCurrent, Queued, Blank
<1>6. /\ \A t \in taken : f[t].status # "running"
      /\ \A t \in Tasks \ taken : f[t] = mem[m][t]
  BY <1>3
<1> HIDE DEF f, taken
<1>7. mem' \in [Masters -> [Tasks -> Copy]] /\ mem'[m] \in GoodTable(home)
  BY <1>1, <1>2, <1>4 DEF TypeOK
<1>8. /\ disk' = disk
      /\ writing' \in [Masters -> SUBSET [Tasks -> Copy]]
      /\ \A p \in Masters : \A s \in writing'[p] : s \in GoodTable(home)
  <2>1. CASE WriteTable(m)  BY <2>1, <1>1, <1>7, WriteFits
  <2>2. CASE UNCHANGED store  BY <2>2 DEF store, TypeOK, CopiesFit
  <2> QED  BY <1>2, <2>1, <2>2
<1>9. TypeOK'
  BY <1>2, <1>7, <1>8 DEF TypeOK
<1>10. CopiesFit'
  BY <1>1, <1>2, <1>7, <1>8 DEF CopiesFit, TypeOK
<1>11. StartsAlone' /\ OnlyOwnerRuns' /\ QueueIdle' /\ RunsElsewhere'
  BY <1>1, <1>2, <1>6 DEF StartsAlone, OnlyOwnerRuns, QueueIdle, RunsElsewhere, TypeOK
<1>12. QueueIsCurrent'
  BY <1>1, <1>2, <1>5, <1>6 DEF QueueIsCurrent, Queued, TypeOK
<1>13. LeftKept'
  <2> SUFFICES ASSUME NEW t \in Tasks
               PROVE  IF home[t] = None THEN left[t] = {}
                      ELSE left[t] \subseteq mem'[home[t]][t].exclude
    BY <1>2 DEF LeftKept
  <2>1. CASE t \in taken /\ home[t] = m
    BY <2>1, <1>1, <1>5, SyncAssumption DEF LeftKept, Blank
  <2>2. CASE ~(t \in taken /\ home[t] = m)
    BY <2>2, <1>1, <1>2, <1>6 DEF LeftKept, TypeOK
  <2> QED  BY <2>1, <2>2
<1> QED  BY <1>9, <1>10, <1>11, <1>12, <1>13

\* The steps that leave the tables alone.
LEMMA OtherSteps ==
    ASSUME SyncInv,
           \/ \E m \in Masters : PersistLoop(m) \/ Serve(m) \/ RegisterNodes(m)
           \/ \E m \in Masters : \E s \in writing[m] : WriteEnds(m, s)
           \/ \E m \in Masters : \E p \in Masters : Push(m, p)
           \/ \E g \in net : Lose(g)
           \/ UNCHANGED vars
    PROVE  SyncInv'
<1> USE DEF SyncInv
<1>1. UNCHANGED <<mem, queue, starts, home, left>>
  BY DEF PersistLoop, Serve, RegisterNodes, WriteEnds, Push, Lose, vars, history
<1>2. OnlyOwnerRuns' /\ QueueIdle' /\ QueueIsCurrent' /\ LeftKept' /\ RunsElsewhere'
  BY <1>1 DEF OnlyOwnerRuns, QueueIdle, QueueIsCurrent, Queued, LeftKept, RunsElsewhere
<1>3. TypeOK' /\ CopiesFit' /\ StartsAlone'
  <2>1. ASSUME NEW m \in Masters, PersistLoop(m)
        PROVE  TypeOK' /\ CopiesFit' /\ StartsAlone'
    <3>1. mem' \in [Masters -> [Tasks -> Copy]] /\ mem'[m] \in GoodTable(home)
      BY <1>1 DEF TypeOK, CopiesFit
    <3>2. WriteTable(m) /\ UNCHANGED <<known, mode, net>>
      BY <2>1 DEF PersistLoop
    <3>3. /\ disk' = disk
          /\ writing' \in [Masters -> SUBSET [Tasks -> Copy]]
          /\ \A p \in Masters : \A s \in writing'[p] : s \in GoodTable(home)
      BY <3>1, <3>2, WriteFits
    <3> QED  BY <1>1, <3>2, <3>3 DEF TypeOK, CopiesFit, StartsAlone
  <2>2. ASSUME NEW m \in Masters, Serve(m) \/ RegisterNodes(m)
        PROVE  TypeOK' /\ CopiesFit' /\ StartsAlone'
    BY ZenonT(30), <1>1, <2>2 DEF Serve, RegisterNodes, store, TypeOK, CopiesFit, StartsAlone
  <2>3. ASSUME NEW m \in Masters, NEW s \in writing[m], WriteEnds(m, s)
        PROVE  TypeOK' /\ CopiesFit' /\ StartsAlone'
    <3>1. EmptyTable \in GoodTable(home) /\ EmptyTable \in [Tasks -> Copy]
      BY EmptyFits DEF GoodTable
    <3>2. /\ writing' = [writing EXCEPT ![m] = @ \ {s}]
          /\ \/ disk' = [disk EXCEPT ![m] = s]
             \/ disk' = [disk EXCEPT ![m] = EmptyTable]
             \/ disk' = disk
          /\ UNCHANGED <<known, mode, net>>
      BY <2>3 DEF WriteEnds
    <3>3. s \in GoodTable(home) /\ s \in [Tasks -> Copy]
      BY <2>3 DEF CopiesFit, GoodTable
    <3>4. /\ disk' \in [Masters -> [Tasks -> Copy]]
          /\ \A p \in Masters : disk'[p] \in GoodTable(home)
      <4>1. disk \in [Masters -> [Tasks -> Copy]]
        BY DEF TypeOK
      <4>2. \A p \in Masters : disk[p] \in GoodTable(home)
        BY DEF CopiesFit
      <4> QED  BY <3>1, <3>2, <3>3, <4>1, <4>2
    <3>5. /\ writing' \in [Masters -> SUBSET [Tasks -> Copy]]
          /\ \A p \in Masters : writing'[p] \subseteq writing[p]
      <4>1. writing \in [Masters -> SUBSET [Tasks -> Copy]]
        BY DEF TypeOK
      <4> QED  BY <3>2, <4>1
    <3> QED  BY <1>1, <3>2, <3>4, <3>5 DEF TypeOK, CopiesFit, StartsAlone
  <2>4. ASSUME NEW m \in Masters, NEW p \in Masters, Push(m, p)
        PROVE  TypeOK' /\ CopiesFit' /\ StartsAlone'
    <3>1. SnapshotOf(mem[m]) \in GoodTable(home)
      BY SnapshotFits DEF CopiesFit
    <3>2. SnapshotOf(mem[m]) \in [Tasks -> Copy]
      BY <3>1 DEF GoodTable
    <3>3. /\ net' = net \cup {[to |-> p, tasks |-> SnapshotOf(mem[m])]}
          /\ UNCHANGED <<known, mode, disk, writing>>
      BY <2>4 DEF Push, store
    <3> QED  BY <1>1, <3>1, <3>2, <3>3 DEF TypeOK, CopiesFit, StartsAlone
  <2>5. ASSUME NEW g \in net, Lose(g)
        PROVE  TypeOK' /\ CopiesFit' /\ StartsAlone'
    BY <1>1, <2>5 DEF Lose, store, TypeOK, CopiesFit, StartsAlone
  <2>6. CASE UNCHANGED vars
    BY <2>6 DEF vars, store, history, TypeOK, CopiesFit, StartsAlone
  <2> QED  BY <2>1, <2>2, <2>3, <2>4, <2>5, <2>6
<1> QED  BY <1>2, <1>3

-----------------------------------------------------------------------------

\* The invariant holds of every behaviour of the masters.
THEOREM SyncInvariant == Spec => []SyncInv
<1>1. Init => SyncInv
  <2> SUFFICES ASSUME Init PROVE SyncInv
    OBVIOUS
  <2> USE DEF Init
  <2>1. EmptyTable \in GoodTable(home) /\ EmptyTable \in [Tasks -> Copy]
    BY EmptyFits DEF GoodTable
  <2>2. \A t \in Tasks : EmptyTable[t].status = "absent"
    BY DEF EmptyTable, Blank
  <2>3. TypeOK
    BY <2>1, SyncAssumption DEF TypeOK
  <2>4. CopiesFit
    BY <2>1 DEF CopiesFit
  <2>5. /\ StartsAlone /\ OnlyOwnerRuns /\ QueueIdle /\ QueueIsCurrent
        /\ LeftKept /\ RunsElsewhere
    BY <2>2 DEF StartsAlone, OnlyOwnerRuns, QueueIdle, QueueIsCurrent, Queued,
                LeftKept, RunsElsewhere
  <2> QED  BY <2>3, <2>4, <2>5 DEF SyncInv
<1>2. SyncInv /\ [Next]_vars => SyncInv'
  <2> SUFFICES ASSUME SyncInv, [Next]_vars PROVE SyncInv'
    OBVIOUS
  <2>1. ASSUME NEW m \in Masters, NEW t \in Tasks, TaskStep(m, t) PROVE SyncInv'
    BY <2>1, SubmissionStep, SchedulerSteps DEF TaskStep
  <2>2. ASSUME NEW m \in Masters, MasterStep(m) PROVE SyncInv'
    BY <2>2, RestartStep, OtherSteps DEF MasterStep
  <2>3. ASSUME NEW g \in net, Receive(g) \/ Lose(g) PROVE SyncInv'
    BY <2>3, ReceiveStep, OtherSteps
  <2>4. CASE UNCHANGED vars
    BY <2>4, OtherSteps
  <2> QED  BY <2>1, <2>2, <2>3, <2>4 DEF Next
<1> QED  BY <1>1, <1>2, PTL DEF Spec

\* Tables, stores and pushes hold well-formed copies of tasks, however often
\* masters crash, restore and exchange them.
THEOREM SyncTypes == Spec => []TypeOK
<1>1. SyncInv => TypeOK
  BY DEF SyncInv
<1> QED  BY <1>1, SyncInvariant, PTL

\* Single-owner dispatch: a task runs only on behalf of the master that
\* accepted it, whatever crashes, restarts and late pushes there are.
THEOREM SingleOwnerDispatch == Spec => []OnlyOwnerRuns
<1>1. SyncInv => OnlyOwnerRuns
  BY DEF SyncInv
<1> QED  BY <1>1, SyncInvariant, PTL

\* The owner's queue never holds an object that a push has replaced in the
\* task table.
THEOREM OwnerQueueCurrent == Spec => []QueueIsCurrent
<1>1. SyncInv => QueueIsCurrent
  BY DEF SyncInv
<1> QED  BY <1>1, SyncInvariant, PTL

\* A recovered task is not sent back to the node it was on at the crash.
THEOREM CrashNodeIsAvoided == Spec => []CrashNodeAvoided
<1>1. SyncInv => CrashNodeAvoided
  BY ZenonT(30), SyncAssumption DEF SyncInv, CrashNodeAvoided, LeftKept, RunsElsewhere, TypeOK
<1> QED  BY <1>1, SyncInvariant, PTL
=============================================================================
