------------------------------ MODULE MasterHA ------------------------------
(***************************************************************************)
(* The masters of MasterElection at work: ClusterMaster's standby guard    *)
(* and fencing token, and the check a NodeAgent makes of the token.        *)
(*                                                                         *)
(* setup_election passes no callback to MasterElection's constructor, it   *)
(* assigns the attributes on_elected and on_demoted afterwards.  Elections *)
(* call _on_elected and _on_demoted, which stay None.  So no action of     *)
(* MasterElection touches isLeader and fencing.                            *)
(***************************************************************************)
EXTENDS MCMasterElection

CONSTANT Agents

VARIABLES
    isLeader,   \* ClusterMaster._is_leader
    fencing,    \* ClusterMaster._fencing_token
    lastToken   \* NodeAgent._last_fencing_token

haVars == <<isLeader, fencing, lastToken>>

HAInit ==
    /\ Init
    /\ isLeader = [m \in Masters |-> TRUE]
    /\ fencing = [m \in Masters |-> 0]
    /\ lastToken = [a \in Agents |-> 0]

\* assign_task's guard: an election is configured, so only a leader dispatches.
MayDispatch(m) == isLeader[m]

\* execute_task's check: token 0 is never refused.
Refused(m, a) == fencing[m] # 0 /\ fencing[m] < lastToken[a]

\* A master dispatches a task to an agent, which accepts it.
Dispatch(m, a) ==
    /\ MayDispatch(m)
    /\ ~Refused(m, a)
    /\ lastToken' = [lastToken EXCEPT ![a] = IF fencing[m] > @ THEN fencing[m] ELSE @]
    /\ UNCHANGED <<vars, isLeader, fencing>>

HANext ==
    \/ Next /\ UNCHANGED haVars
    \/ \E m \in Masters, a \in Agents : Dispatch(m, a)

HASpec == HAInit /\ [][HANext]_<<vars, haVars>>

\* docs/DEPLOYMENT.md: a standby, which follows the leader it has heard of,
\* refuses to dispatch.
StandbyRefuses ==
    \A m \in Masters :
        role[m] = "follower" /\ leader[m] \in Masters \ {m} => ~MayDispatch(m)
=============================================================================
