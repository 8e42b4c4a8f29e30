---------------------------- MODULE MCMasterGroup ----------------------------
(***************************************************************************)
(* A group of masters and its nodes, for TLC: the election, the registry   *)
(* of nodes with its bans, and the rule epoch the masters spread.  These   *)
(* parts share no state.  A behaviour moves one of them, chosen at the     *)
(* start; the others stay in their initial states, where none of their     *)
(* fair actions is enabled.                                                *)
(***************************************************************************)
EXTENDS MCMasterElection, NodeRegistry, RuleEpoch

VARIABLE part

groupVars == <<part, vars, registryVars, epochVars>>

GroupInit ==
    /\ part \in {"election", "registry", "epoch", "confirms"}
    /\ Init /\ RegistryInit /\ EpochInit

\* The epoch and the confirmations travel in the same messages and meet in the
\* same file; each is followed without the other.
EpochPart ==
    /\ EpochNext
    /\ part = "epoch" => \A m \in Heads : confirms'[m] = <<>>
    /\ part = "confirms" => \A m \in Heads : epoch'[m] = 0

GroupNext ==
    /\ UNCHANGED part
    /\ \/ part = "election" /\ Next /\ UNCHANGED <<registryVars, epochVars>>
       \/ part = "registry" /\ RegistryNext /\ UNCHANGED <<vars, epochVars>>
       \/ part \in {"epoch", "confirms"} /\ EpochPart /\ UNCHANGED <<vars, registryVars>>

GroupSpec ==
    /\ GroupInit /\ [][GroupNext]_groupVars
    /\ ElectionFairness /\ RegistryFairness /\ EpochFairness

\* Elections, the registry and the epochs are well formed; whoever is in the
\* node table was approved, and whoever is not banned has room for a fault.
GroupOK ==
    /\ TypeOK
    /\ RegistryTypeOK /\ OnlyApprovedJoin /\ UnbannedStartsAfresh
    /\ EpochTypeOK
=============================================================================
