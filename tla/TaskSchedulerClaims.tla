------------------------ MODULE TaskSchedulerClaims ------------------------
(***************************************************************************)
(* What the documentation and the comments of the repository say about the *)
(* scheduler and the code does not do.  Each claim is refuted by a run of  *)
(* its own; PROJECT.json quotes the line it is taken from.                 *)
(***************************************************************************)
EXTENDS MCTaskScheduler

\* "Task full-lifecycle cancel": a cancelled task does not run again.  The code
\* leaves it in _pending_retry and in the snapshots of the loops.
CancelledStaysCancelled ==
    [][\A t \in Tasks : status[t] = "cancelled" => status'[t] = "cancelled"]_vars

\* "the pinned node never lands in exclude_nodes".  migrate_task and
\* _refresh_node_statuses exclude it like any other node.
PinnedNeverExcluded == \A t \in Tasks : Pinned[t] \notin exclude[t]
=============================================================================
