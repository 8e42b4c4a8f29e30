-------------------------- MODULE MCMasterElection --------------------------
(* Small instances of MasterElection for TLC.                              *)
EXTENDS MasterElection, TLC

CONSTANTS m1, m2, m3

AllOthers == [m \in Masters |-> Masters \ {m}]
SameRank == [m \in Masters |-> 0]
FirstOutranks == [m \in Masters |-> IF m = m1 THEN 1 ELSE 0]
Symmetric == Permutations(Masters)
=============================================================================
