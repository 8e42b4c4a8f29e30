---------------------------- MODULE MCPeerSync ----------------------------
(* Small instances of PeerSync for TLC.                                    *)
EXTENDS PeerSync, TLC

\* No definition tells one master from another or one node from another, and
\* no property is a liveness property.
Symmetric == Permutations(Masters) \cup Permutations(Nodes)

\* Bounds for TLC.  The nodes register with all masters before the first task
\* comes; after a restart they register at any time.  The threads of one master
\* write at a time: those of two masters write different files, and a write
\* may end without effect.
UpBeforeFirstTask ==
    starts = 0 /\ (\E t \in Tasks : home[t] # None) => \A m \in Masters : known[m] = Nodes
OneMasterWrites == Cardinality({m \in Masters : writing[m] # {}}) <= 1
=============================================================================
