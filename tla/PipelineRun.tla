---------------------------- MODULE PipelineRun ----------------------------
(***************************************************************************)
(* A PIPELINE task of ClusterMaster (master/cluster_master.py,             *)
(* _dispatch_pipeline): the layers of a model are cut into Segments, every *)
(* segment runs on a node of its own and gets the hidden_states its        *)
(* predecessor returned.  With FUSION_PIPELINE_CHECKPOINT=1 the output of  *)
(* the last finished segment is kept in task.params["_pipeline_ckpt"],     *)
(* travels with the task into the task store, and the next attempt goes on *)
(* from there: after a transient failure, a timeout, a degradation or a    *)
(* restart of the master.                                                  *)
(*                                                                         *)
(* The coroutine goes through the nodes of its attempt, not through the    *)
(* segments: a small model whose preferred node is free is forced onto     *)
(* that one node, whatever it was cut into, and is completed after one     *)
(* segment.                                                                *)
(*                                                                         *)
(* hidden_states are abstracted to the sequence of segments that produced  *)
(* them.  Which model a segment ran is not recorded: README, Disagreements.*)
(***************************************************************************)
EXTENDS Naturals, Sequences

CONSTANTS Segments,       \* len(task.model_shards)
          MaxAttempts,    \* _max_retry_attempts
          MaxDegradations \* max_degradations

ASSUME PipelineAssumption ==
    /\ Segments \in Nat \ {0}
    /\ MaxAttempts \in Nat
    /\ MaxDegradations \in Nat

VARIABLES pstatus,   \* status of the task, "gone" when no master knows it
          chain,     \* the dispatch coroutine: [busy, nodes: len(node_ids), hidden]
          ckpt,      \* task.params["_pipeline_ckpt"]["hidden_states"], <<>> if absent
          ckptOn,    \* the environment variable, read by the running process
          kept,      \* the task in the store, with its checkpoint and counters
          attempts,  \* _retry_count
          lowered,   \* degradation_count
          output     \* task.result of a completed task: [hidden, node_count]

pipeVars == <<pstatus, chain, ckpt, ckptOn, kept, attempts, lowered, output>>

Quiet == [busy |-> FALSE, nodes |-> 0, hidden |-> <<>>]
NoResult == [hidden |-> <<>>, node_count |-> 0]
Open == {"pending", "running"}

PipeInit ==
    /\ pstatus = "pending"
    /\ chain = Quiet
    /\ ckpt = <<>>
    /\ ckptOn \in BOOLEAN
    /\ kept = [there |-> FALSE, ckpt |-> <<>>, tried |-> 0, degraded |-> 0]
    /\ attempts = 0
    /\ lowered = 0
    /\ output = NoResult

\* _persist_tasks_locked takes the tasks that are not final; the write itself is
\* done by a thread and may fail or come too late.
TaskSnapshot(s, c, a, d) ==
    IF s \in Open THEN [there |-> TRUE, ckpt |-> c, tried |-> a, degraded |-> d]
                  ELSE [there |-> FALSE, ckpt |-> <<>>, tried |-> 0, degraded |-> 0]
Persisted(s, c, a) == kept' \in {kept, TaskSnapshot(s, c, a, lowered)}

\* The beginning of _dispatch_pipeline: go on after the checkpoint, if there is
\* one and the process looks at it.
ResumedTwice == IF ckptOn /\ ckpt # <<>> THEN Append(SubSeq(ckpt, 1, Len(ckpt) - 1), Len(ckpt) + 1) ELSE <<>>
Resumed == IF ckptOn THEN ckpt ELSE <<>>

\* _trigger_dispatch starts an attempt on so many nodes, unless the coroutine of
\* an earlier one is still there.
Dispatched(n) ==
    chain' = IF chain.busy THEN chain ELSE [busy |-> TRUE, nodes |-> n, hidden |-> Resumed]

\* assign_task, a node for every segment: marks the task RUNNING.
AssignPipeline ==
    /\ pstatus = "pending"
    /\ pstatus' = "running"
    /\ Dispatched(Segments)
    /\ Persisted("running", ckpt, attempts)
    /\ UNCHANGED <<ckpt, ckptOn, attempts, lowered, output>>

\* assign_task, _is_local_force: the model (which degrade_task may have made
\* smaller) needs little memory and the preferred node is free.  It gets that
\* one node, whatever mode and segments the task has, and nothing is written.
ForceLocal ==
    /\ pstatus = "pending"
    /\ pstatus' = "running"
    /\ Dispatched(1)
    /\ UNCHANGED <<ckpt, ckptOn, kept, attempts, lowered, output>>

\* _enqueue_retry: back to PENDING within the budget, FAILED beyond it.
Retried(c) ==
    /\ pstatus' = IF attempts < MaxAttempts THEN "pending" ELSE "failed"
    /\ attempts' = IF attempts < MaxAttempts THEN attempts + 1 ELSE attempts
    /\ Persisted(pstatus', c, attempts')

\* The agent ran the segment it was sent on the hidden_states it was sent.
Forwarded == Append(chain.hidden, Len(chain.hidden) + 1)

\* There is a node the attempt has not come to: one that resumed at least as
\* many segments as it has nodes sends nothing.
HasNext == chain.busy /\ Len(chain.hidden) < chain.nodes

\* A segment answers with hidden_states and another one follows: the checkpoint
\* is replaced and the next segment is dispatched.
SegmentEnds ==
    /\ HasNext
    /\ Len(chain.hidden) + 1 < chain.nodes
    /\ chain' = [chain EXCEPT !.hidden = Forwarded]
    /\ ckpt' = IF ckptOn THEN Forwarded ELSE ckpt
    /\ UNCHANGED <<pstatus, ckptOn, kept, attempts, lowered, output>>

\* What a finished chain leaves of the checkpoint: nothing.
ClearedNever == IF ckptOn THEN Forwarded ELSE ckpt
Cleared == IF ckptOn THEN <<>> ELSE ckpt

\* The segment of the last node answers, or there was none to send: the
\* checkpoint goes, and _finalize_task completes the task if it is (still, or
\* again) RUNNING.
ChainEnds ==
    /\ chain.busy
    /\ Len(chain.hidden) + 1 >= chain.nodes
    /\ chain' = Quiet
    /\ ckpt' = Cleared
    /\ IF pstatus = "running"
       THEN /\ pstatus' = "completed"
            /\ output' = [hidden |-> IF HasNext THEN Forwarded ELSE chain.hidden,
                          node_count |-> chain.nodes]
            /\ Persisted("completed", <<>>, attempts)
       ELSE UNCHANGED <<pstatus, output, kept>>
    /\ UNCHANGED <<ckptOn, attempts, lowered>>

\* A segment cannot be reached, is rate limited or overloaded: the attempt ends
\* and the task is tried again.
SegmentIsTransient ==
    /\ HasNext
    /\ chain' = Quiet
    /\ IF pstatus = "running" THEN Retried(ckpt) ELSE UNCHANGED <<pstatus, attempts, kept>>
    /\ UNCHANGED <<ckpt, ckptOn, lowered, output>>

\* A segment is refused (duplicate, sandbox, old fencing token), has no upstream
\* or answers with an error: the task has failed.
SegmentFails ==
    /\ HasNext
    /\ chain' = Quiet
    /\ IF pstatus = "running"
       THEN pstatus' = "failed" /\ Persisted("failed", ckpt, attempts)
       ELSE UNCHANGED <<pstatus, kept>>
    /\ UNCHANGED <<ckpt, ckptOn, attempts, lowered, output>>

\* check_timeouts: the task is tried again, the attempt goes on waiting.
PipelineTimesOut ==
    /\ pstatus = "running"
    /\ pstatus' = IF attempts < MaxAttempts THEN "pending" ELSE "failed"
    /\ attempts' = IF attempts < MaxAttempts THEN attempts + 1 ELSE attempts
    /\ UNCHANGED <<chain, ckpt, ckptOn, kept, lowered, output>>

\* degrade_task: a smaller model, and PENDING again, even when it had failed.
DegradePipeline ==
    /\ pstatus \in {"pending", "running", "failed"}
    /\ lowered < MaxDegradations
    /\ lowered' = lowered + 1
    /\ pstatus' = "pending"
    /\ UNCHANGED <<chain, ckpt, ckptOn, kept, attempts, output>>

\* /api/tasks/{task_id}/cancel: cancel_task, and a notice to the nodes with the
\* id of the task.  Segments run under ids of their own, so the attempt goes on.
CancelPipeline ==
    /\ pstatus \in Open
    /\ pstatus' = "cancelled"
    /\ Persisted("cancelled", ckpt, attempts)
    /\ UNCHANGED <<chain, ckpt, ckptOn, attempts, lowered, output>>

\* _persist_loop writes the tasks every few seconds.
PersistPipeline ==
    /\ kept' = TaskSnapshot(pstatus, ckpt, attempts, lowered)
    /\ UNCHANGED <<pstatus, chain, ckpt, ckptOn, attempts, lowered, output>>

\* The master dies and starts again, perhaps with the other setting:
\* _restore_tasks brings back what the store holds, as PENDING.
RestartPipeline ==
    /\ pstatus # "gone"
    /\ pstatus' = IF kept.there THEN "pending" ELSE "gone"
    /\ ckpt' = kept.ckpt
    /\ chain' = Quiet
    /\ ckptOn' \in BOOLEAN
    /\ attempts' = kept.tried
    /\ lowered' = kept.degraded
    /\ output' = NoResult
    /\ UNCHANGED kept

PipeNext ==
    \/ AssignPipeline \/ ForceLocal \/ SegmentEnds \/ ChainEnds
    \/ SegmentIsTransient \/ SegmentFails \/ PipelineTimesOut
    \/ DegradePipeline \/ CancelPipeline \/ PersistPipeline \/ RestartPipeline

PipeSpec == PipeInit /\ [][PipeNext]_pipeVars

(***************************************************************************)
(* Properties.                                                             *)
(***************************************************************************)
\* Well typed: an attempt on all nodes never resumes more segments than it can
\* still extend, so model_shards[idx] and assigned_nodes have an entry to go on
\* with (_dispatch_pipeline; one past the end would complete without running).
PipeTypeOK ==
    /\ pstatus \in {"pending", "running", "completed", "failed", "cancelled", "gone"}
    /\ chain.busy \in BOOLEAN
    /\ chain.busy => chain.nodes \in {1, Segments}
    /\ Len(chain.hidden) < Segments
    /\ Len(ckpt) < Segments
    /\ kept.there \in BOOLEAN
    /\ Len(kept.ckpt) < Segments
    /\ attempts \in 0..MaxAttempts
    /\ lowered \in 0..MaxDegradations

\* However often the task was retried, degraded, timed out, written and brought
\* back, the hidden_states of a completed pipeline went through the segments
\* from the first one on, each once and in order, through as many as its result
\* names nodes (node_count) at least: through all of them, unless the attempt
\* that ended was forced onto one local node (_dispatch_pipeline: "hidden_states
\* chained, any segment failing fails all"; README, Disagreements).
ResultIsUnbroken ==
    pstatus = "completed" =>
        \E n \in output.node_count..Segments : output.hidden = [i \in 1..n |-> i]

=============================================================================
