---------------------------- MODULE TestBatches ----------------------------
(***************************************************************************)
(* A test batch of the master: /api/test/batches (server/master_server.py, *)
(* _build_test_batch and the two queries) and master/test_batch.py.  Every *)
(* job of the batch is a task of its own; the batch only remembers their   *)
(* ids and derives its status from the task table whenever it is asked.    *)
(*                                                                         *)
(* The submission suspends in assign_task once per job, and tasks of       *)
(* earlier jobs may end meanwhile.  Finished tasks are dropped from the    *)
(* table by the cleanup and are not in the task store, so a batch may      *)
(* outlive what it is derived from; what it must never do is claim more    *)
(* than its jobs have done.                                                *)
(***************************************************************************)
EXTENDS Naturals, FiniteSets

CONSTANT JobCount    \* len(req.jobs)

ASSUME BatchAssumption == JobCount \in Nat \ {0}

Jobs == 1..JobCount
\* How the task of a job can end.  "completed" keeps apart the exit code of the
\* command; "failed" stands for failed, timeout and cancelled as well.
Ends == {"passed", "broke", "failed", "partial"}

VARIABLES upto,       \* jobs handed to assign_task so far, JobCount + 1: answered
          listed,     \* the batch is in _test_batches
          row,        \* the task of a job in the table, "none" if it is not there
          truth,      \* how the last run of a job ended (history)
          batchFile   \* the task store: the batch and the tasks that are not final

batchVars == <<upto, listed, row, truth, batchFile>>

NoRows == [j \in Jobs |-> "none"]

BatchInit ==
    /\ upto = 0
    /\ listed = FALSE
    /\ row = NoRows
    /\ truth = NoRows
    /\ batchFile = [known |-> FALSE, row |-> NoRows]

\* One turn of the loop in _build_test_batch: assign_task runs the job, queues
\* it, or refuses it and leaves no trace.
AssignJob ==
    /\ upto < JobCount
    /\ upto' = upto + 1
    /\ \E s \in {"running", "pending", "none"} : row' = [row EXCEPT ![upto + 1] = s]
    /\ UNCHANGED <<listed, truth, batchFile>>

\* A job without a command ends the submission with 400; the earlier ones go on.
RefuseBatch ==
    /\ upto < JobCount
    /\ upto' = JobCount + 1
    /\ UNCHANGED <<listed, row, truth, batchFile>>

\* register_test_batch, and the answer: the ids, or 503 if no job was taken.
RegisterBatch ==
    /\ upto = JobCount
    /\ upto' = JobCount + 1
    /\ listed' = TRUE
    /\ UNCHANGED <<row, truth, batchFile>>

\* The scheduler runs a queued task, puts a running one back (retry), ends it, or
\* degrade_task revives one that has failed.
TaskStarts(j) ==
    /\ row[j] = "pending"
    /\ row' = [row EXCEPT ![j] = "running"]
    /\ UNCHANGED <<upto, listed, truth, batchFile>>

TaskReturns(j) ==
    /\ row[j] \in {"running", "failed"}
    /\ row' = [row EXCEPT ![j] = "pending"]
    /\ UNCHANGED <<upto, listed, truth, batchFile>>

TaskEnds(j, e) ==
    /\ \/ row[j] = "running"
       \/ row[j] = "pending" /\ e = "failed"
    /\ row' = [row EXCEPT ![j] = e]
    /\ truth' = [truth EXCEPT ![j] = e]
    /\ UNCHANGED <<upto, listed, batchFile>>

\* _cleanup_completed_tasks.
CleanupJob(j) ==
    /\ row[j] \in Ends
    /\ row' = [row EXCEPT ![j] = "none"]
    /\ UNCHANGED <<upto, listed, truth, batchFile>>

\* A write of the task store: all batches, and the tasks that are not final.
PersistBatch ==
    /\ batchFile' = [known |-> listed, row |-> [j \in Jobs |-> IF row[j] \in Ends THEN "none" ELSE row[j]]]
    /\ UNCHANGED <<upto, listed, row, truth>>

\* The master dies and starts again with what the store holds; a submission
\* under way is lost.
RestartBatch ==
    /\ upto' = IF upto = 0 THEN 0 ELSE JobCount + 1
    /\ listed' = batchFile.known
    /\ row' = [j \in Jobs |-> IF batchFile.row[j] = "running" THEN "pending" ELSE batchFile.row[j]]
    /\ UNCHANGED <<truth, batchFile>>

BatchNext ==
    \/ AssignJob \/ RefuseBatch \/ RegisterBatch \/ PersistBatch \/ RestartBatch
    \/ \E j \in Jobs :
          TaskStarts(j) \/ TaskReturns(j) \/ CleanupJob(j) \/ \E e \in Ends : TaskEnds(j, e)

BatchSpec == BatchInit /\ [][BatchNext]_batchVars

-----------------------------------------------------------------------------
(* What a client is told.                                                  *)

\* The jobs derive_status looks at; one whose task is missing counts as pending.
StatesOfPresent == {row[j] : j \in Jobs} \ {"none"}
States == {IF row[j] = "none" THEN "pending" ELSE row[j] : j \in Jobs}

\* TestBatch.derive_status.
DeriveStatus ==
    IF States \subseteq {"passed", "broke"} THEN "completed"
    ELSE IF States \subseteq {"failed"} THEN "failed"
    ELSE IF States \subseteq Ends THEN "partial"
    ELSE "running"

\* get_test_batch_report: the summary counts a completed job with another exit
\* code than 0 as pending.
Summary ==
    [passed  |-> Cardinality({j \in Jobs : row[j] = "passed"}),
     failed  |-> Cardinality({j \in Jobs : row[j] = "failed"}),
     running |-> Cardinality({j \in Jobs : row[j] = "running"})]

\* get_test_batch: what a client that asks for the batch is told.
Told == IF listed THEN DeriveStatus ELSE "unknown"

-----------------------------------------------------------------------------
(* Properties.                                                             *)

\* A batch that is reported finished is finished: every job has had its run and
\* the verdict is theirs, and no more jobs are reported passed than did pass;
\* also when tasks were refused, cleaned up, or lost by a restart
\* (test_batch.py, derive_status; master_server.py, get_test_batch_report).
VerdictIsTrue ==
    /\ Told = "completed" => \A j \in Jobs : truth[j] \in {"passed", "broke"}
    /\ Told = "failed" => \A j \in Jobs : truth[j] = "failed"
    /\ Told = "partial" => \A j \in Jobs : truth[j] \in Ends
    /\ Summary.passed <= Cardinality({j \in Jobs : truth[j] = "passed"})
    /\ Summary.failed <= Cardinality({j \in Jobs : truth[j] = "failed"})
=============================================================================
