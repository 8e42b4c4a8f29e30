----------------------------- MODULE MCNodeLife -----------------------------
(***************************************************************************)
(* A node at work, for TLC: its agent and its FMP link to a peer.  The two *)
(* share no state.  A behaviour moves one of them, chosen at the start;    *)
(* the other stays in its initial state, where no fair action is enabled.  *)
(***************************************************************************)
EXTENDS NodeAgent, FmpLink

VARIABLE part

lifeVars == <<part, vars, fmpVars>>

LifeInit == part \in {"agent", "link"} /\ Init /\ FmpInit

LifeNext ==
    /\ UNCHANGED part
    /\ \/ part = "agent" /\ Next /\ UNCHANGED fmpVars
       \/ part = "link" /\ FmpNext /\ UNCHANGED vars

LifeSpec == LifeInit /\ [][LifeNext]_lifeVars /\ AgentFairness

\* The registry of the agent is well formed and agrees with what runs: every
\* execution has its handle and its directory, no id has two, and max_tasks
\* holds; a connection is well formed, and watched while it runs.
LifeOK ==
    /\ TypeOK /\ OneRunPerId /\ RunsAreRegistered /\ CapacityKept /\ TempDirKept
    /\ FmpTypeOK /\ RunningIsWatched
=============================================================================
