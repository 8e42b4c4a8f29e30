---------------------------- MODULE NodeRegistry ----------------------------
(***************************************************************************)
(* How a node gets into the cluster, is banned and comes back: the routes  *)
(* /api/join, /api/nodes/register, /api/v1/nodes/register, approve, reject *)
(* and DELETE (server/master_server.py), NodeApprovalManager               *)
(* (security/node_approval.py), and the node table, the fault counts, the  *)
(* bans and the health loop of ClusterMaster.                              *)
(*                                                                         *)
(* A route runs without suspension, since no holder of _nodes_lock         *)
(* suspends.  The health loop does: it takes a snapshot of the bans that   *)
(* are over and then awaits the answer of one node after the other, while  *)
(* faults, registrations and departures go on.                             *)
(*                                                                         *)
(* The approval manager is switched on.  Draining is in TaskScheduler.     *)
(***************************************************************************)
EXTENDS Naturals, FiniteSets, FiniteSetsExt

CONSTANTS
    Members,        \* node ids
    AutoApproved,   \* nodes that match auto_approve_patterns
    MaxPending,     \* max_pending of the approval manager
    FaultThreshold  \* _FAULT_THRESHOLD

ASSUME RegistryAssumption ==
    /\ AutoApproved \subseteq Members
    /\ MaxPending \in Nat /\ FaultThreshold \in Nat \ {0}

VARIABLES
    admission,  \* which of _pending, _approved and _rejected has the node
    nstat,      \* NodeInfo.status, or "absent"
    late,       \* its last heartbeat is older than heartbeat_timeout
    ban,        \* _banned_nodes: "no", "active", or "over" (the time has passed)
    faults,     \* _fault_counts, up to the threshold
    probes      \* nodes of the health loop's snapshot not yet probed

registryVars == <<admission, nstat, late, ban, faults, probes>>

RegistryInit ==
    /\ admission = [n \in Members |-> "none"]
    /\ nstat = [n \in Members |-> "absent"]
    /\ late = [n \in Members |-> FALSE]
    /\ ban = [n \in Members |-> "no"]
    /\ faults = [n \in Members |-> 0]
    /\ probes = {}

-----------------------------------------------------------------------------
(* NodeApprovalManager.                                                    *)

\* request_join: what was decided stays; else the request waits, and requests
\* that are too old may be dropped when there are too many.
RequestJoin(n) ==
    LET asked == [admission EXCEPT ![n] = IF n \in AutoApproved THEN "approved" ELSE "pending"]
        waiting == {m \in Members : asked[m] = "pending"}
    IN  IF admission[n] \in {"approved", "rejected"} THEN {admission}
        ELSE IF asked[n] = "approved" \/ Cardinality(waiting) <= MaxPending THEN {asked}
        ELSE {[m \in Members |-> IF m \in old THEN "none" ELSE asked[m]] :
                  old \in SUBSET (waiting \ {n})}

-----------------------------------------------------------------------------
(* ClusterMaster: register_node and unregister_node.                       *)

\* _is_node_banned_locked drops a ban whose time has passed, and the faults.
LapsedBan(n) ==
    /\ ban' = [ban EXCEPT ![n] = "no"]
    /\ faults' = [faults EXCEPT ![n] = IF ban[n] = "over" THEN 0 ELSE @]

\* A registration of a node that is there keeps its status, unless offline.
Patched(n) == IF nstat[n] \in {"absent", "offline"} THEN "online" ELSE nstat[n]

MasterRegister(n) ==
    \/ /\ ban[n] = "active"
       /\ UNCHANGED <<nstat, late, ban, faults>>
    \/ /\ ban[n] # "active"
       /\ LapsedBan(n)
       /\ nstat' = [nstat EXCEPT ![n] = Patched(n)]
       /\ late' = [late EXCEPT ![n] = FALSE]

\* DELETE /api/nodes/{node_id} and /api/v1/nodes/{node_id}.
UnregisterClearsBan(n) ==
    /\ nstat[n] # "absent"
    /\ nstat' = [nstat EXCEPT ![n] = "absent"]
    /\ late' = [late EXCEPT ![n] = FALSE]
    /\ ban' = [ban EXCEPT ![n] = "no"]
    /\ faults' = [faults EXCEPT ![n] = 0]
    /\ UNCHANGED <<admission, probes>>
UnregisterNode(n) ==
    /\ nstat[n] # "absent"
    /\ nstat' = [nstat EXCEPT ![n] = "absent"]
    /\ late' = [late EXCEPT ![n] = FALSE]
    /\ UNCHANGED <<admission, ban, faults, probes>>

-----------------------------------------------------------------------------
(* The routes.                                                             *)

\* /api/nodes/register and /api/v1/nodes/register: only who is approved goes on.
MayRegisterUnlessRejected(n) == admission'[n] # "rejected"
MayRegister(n) == admission'[n] = "approved"

RegisterRoute(n) ==
    /\ admission' \in RequestJoin(n)
    /\ IF MayRegister(n) THEN MasterRegister(n) ELSE UNCHANGED <<nstat, late, ban, faults>>
    /\ UNCHANGED probes

\* report_hardware: an agent registers when it starts, whatever it was before.
ReportHardware(n) == RegisterRoute(n)

\* /api/join only files the request.
JoinRoute(n) ==
    /\ admission' \in RequestJoin(n)
    /\ UNCHANGED <<nstat, late, ban, faults, probes>>

\* /api/nodes/approve registers the node at once, if it is not there; a node
\* that is banned stays approved.
ApproveRoute(n) ==
    /\ admission[n] = "pending"
    /\ admission' = [admission EXCEPT ![n] = "approved"]
    /\ IF nstat[n] = "absent" THEN MasterRegister(n) ELSE UNCHANGED <<nstat, late, ban, faults>>
    /\ UNCHANGED probes

RejectRoute(n) ==
    /\ admission[n] = "pending"
    /\ admission' = [admission EXCEPT ![n] = "rejected"]
    /\ UNCHANGED <<nstat, late, ban, faults, probes>>

\* /api/nodes/heartbeat, update_heartbeat.
UpdateHeartbeat(n) ==
    /\ nstat[n] # "absent"
    /\ late' = [late EXCEPT ![n] = FALSE]
    /\ nstat' = [nstat EXCEPT ![n] = IF @ = "offline" THEN "online" ELSE @]
    /\ UNCHANGED <<admission, ban, faults, probes>>

\* /api/nodes/fault, and the dispatcher's own reports: the faults that are
\* still in the window and this one; a full window bans, or bans again.
ReportFault(n) ==
    /\ nstat[n] # "absent"
    /\ nstat' = [nstat EXCEPT ![n] = "fault"]
    /\ \E k \in 0..Min({faults[n], FaultThreshold - 1}) :
          /\ faults' = [faults EXCEPT ![n] = k + 1]
          /\ ban' = [ban EXCEPT ![n] = IF k + 1 >= FaultThreshold THEN "active" ELSE @]
    /\ UNCHANGED <<admission, late, probes>>

-----------------------------------------------------------------------------
(* Time and the health loop.                                               *)

\* send_heartbeat of the agent fails, or comes late.
HeartbeatIsLate(n) ==
    /\ nstat[n] # "absent" /\ ~late[n]
    /\ late' = [late EXCEPT ![n] = TRUE]
    /\ UNCHANGED <<admission, nstat, ban, faults, probes>>

BanRunsOut(n) ==
    /\ ban[n] = "active"
    /\ ban' = [ban EXCEPT ![n] = "over"]
    /\ UNCHANGED <<admission, nstat, late, faults, probes>>

\* _refresh_node_statuses; whether a node is full is the node's own count.
RefreshStatus(n) ==
    /\ nstat[n] \in {"online", "busy"}
    /\ \/ late[n] /\ nstat' = [nstat EXCEPT ![n] = "offline"]
       \/ ~late[n] /\ nstat' = [nstat EXCEPT ![n] = IF @ = "online" THEN "busy" ELSE "online"]
    /\ UNCHANGED <<admission, late, ban, faults, probes>>

\* _cleanup_offline_nodes, after an hour.
CleanupOffline(n) ==
    /\ nstat[n] = "offline" /\ late[n]
    /\ nstat' = [nstat EXCEPT ![n] = "absent"]
    /\ late' = [late EXCEPT ![n] = FALSE]
    /\ UNCHANGED <<admission, ban, faults, probes>>

\* select_nodes and _select_free_nodes_locked look at a ban that is over.
SelectLooks(n) ==
    /\ ban[n] = "over" /\ nstat[n] # "absent"
    /\ LapsedBan(n)
    /\ UNCHANGED <<admission, nstat, late, probes>>

\* _probe_banned_nodes: bans of nodes that are gone are dropped at once.
ProbeStartsWithPresent ==
    /\ probes = {}
    /\ probes' = {n \in Members : ban[n] = "over" /\ nstat[n] # "absent"}
    /\ probes' # {}
    /\ UNCHANGED <<admission, nstat, late, ban, faults>>
ProbeStarts ==
    LET over == {n \in Members : ban[n] = "over"}
        gone == {n \in over : nstat[n] = "absent"}
    IN  /\ probes = {} /\ over # {}
        /\ probes' = over \ gone
        /\ ban' = [n \in Members |-> IF n \in gone THEN "no" ELSE ban[n]]
        /\ faults' = [n \in Members |-> IF n \in gone THEN 0 ELSE faults[n]]
        /\ UNCHANGED <<admission, nstat, late>>

\* The answer counts for whatever ban the node has by then.
UnbannedWithRecord(n) == faults
Unbanned(n) == [faults EXCEPT ![n] = 0]

ProbeAnswers(n) ==
    /\ n \in probes
    /\ probes' = probes \ {n}
    /\ \E ok \in BOOLEAN : ban' = [ban EXCEPT ![n] = IF ok THEN "no" ELSE "active"]
    /\ faults' = Unbanned(n)
    /\ UNCHANGED <<admission, nstat, late>>

HealthStep == ProbeStarts \/ \E n \in Members : ProbeAnswers(n)

RegistryNext ==
    \/ \E n \in Members :
          \/ ReportHardware(n) \/ JoinRoute(n) \/ ApproveRoute(n) \/ RejectRoute(n)
          \/ UnregisterNode(n) \/ UpdateHeartbeat(n) \/ ReportFault(n)
          \/ HeartbeatIsLate(n) \/ BanRunsOut(n) \/ RefreshStatus(n) \/ CleanupOffline(n)
          \/ SelectLooks(n)
    \/ HealthStep

RegistrySpec == RegistryInit /\ [][RegistryNext]_registryVars

\* The health loop goes round every 10 s, and a probe ends within 5 s.
RegistryFairness == WF_registryVars(HealthStep)

-----------------------------------------------------------------------------
(* What the registry promises.                                             *)

\* Types.
RegistryTypeOK ==
    /\ admission \in [Members -> {"none", "pending", "approved", "rejected"}]
    /\ nstat \in [Members -> {"absent", "online", "busy", "offline", "fault"}]
    /\ late \in [Members -> BOOLEAN]
    /\ ban \in [Members -> {"no", "active", "over"}]
    /\ faults \in [Members -> 0..FaultThreshold]
    /\ probes \subseteq Members

\* Nobody is in the node table whom the administrator, or a pattern, has not
\* let in, by whatever route and in whatever order the requests come.
OnlyApprovedJoin == \A n \in Members : nstat[n] # "absent" => admission[n] = "approved"

\* A node that is not banned has room for a fault: whoever lifts a ban also
\* forgets the faults that led to it.
UnbannedStartsAfresh == \A n \in Members : ban[n] = "no" => faults[n] < FaultThreshold

\* A node cannot shake off a ban that runs, by leaving, joining again, heart-
\* beats or a task that looks for nodes: before its time only the answer to a
\* probe that was on its way lifts it.
BansAreNotShakenOff ==
    [][\A n \in Members :
         ban[n] = "active" /\ ban'[n] = "no" => n \in probes \ probes']_registryVars

\* A ban that is over does not stay: the node is let in again or banned anew,
\* also when no task is ever meant for it and when it has left the cluster.
BansAreReviewed == \A n \in Members : ban[n] = "over" ~> ban[n] # "over"
=============================================================================
