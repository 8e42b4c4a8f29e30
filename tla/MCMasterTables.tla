--------------------------- MODULE MCMasterTables ---------------------------
(***************************************************************************)
(* The tables of masters, for TLC: the tasks of active-active masters      *)
(* (PeerSync), the directory of KV caches, what a master keeps about its   *)
(* clients, the checkpoints of pipelines, and test batches.  These parts   *)
(* share no state.  A behaviour moves one of them, chosen at the start;    *)
(* the others stay in their initial states.  Only PeerSync has the sets of *)
(* the symmetry.                                                           *)
(***************************************************************************)
EXTENDS MCPeerSync, KVDirectory, RequestGate, PipelineRun, TestBatches

VARIABLE part

tableVars == <<part, vars, directoryVars, gateVars, pipeVars, batchVars>>

TablesInit ==
    /\ part \in {"peers", "directory", "submit", "chat", "session", "pipeline", "batch"}
    /\ Init /\ DirectoryInit
    /\ GateInit /\ (part # "chat" => quota = 0)
    /\ PipeInit /\ (part # "pipeline" => ckptOn)
    /\ BatchInit

\* Submissions, chats and sessions have nothing in common but the restart of
\* the master.
ClientStep ==
    \/ part = "submit" /\ SubmitStep
    \/ part = "chat" /\ ChatStep
    \/ part = "session" /\ SessionStep
    \/ part \in {"submit", "chat", "session"} /\ RestartMaster

TablesNext ==
    /\ UNCHANGED part
    /\ \/ part = "peers" /\ Next
          /\ UNCHANGED <<directoryVars, gateVars, pipeVars, batchVars>>
       \/ part = "directory" /\ DirectoryNext
          /\ UNCHANGED <<vars, gateVars, pipeVars, batchVars>>
       \/ ClientStep
          /\ UNCHANGED <<vars, directoryVars, pipeVars, batchVars>>
       \/ part = "pipeline" /\ PipeNext
          /\ UNCHANGED <<vars, directoryVars, gateVars, batchVars>>
       \/ part = "batch" /\ BatchNext
          /\ UNCHANGED <<vars, directoryVars, gateVars, pipeVars>>

TablesSpec == TablesInit /\ [][TablesNext]_tableVars

\* The tables are well formed and within their limits, queue and table of an
\* owner hold the same object, and a session that was handed over stays there.
TablesOK ==
    /\ TypeOK /\ QueueIsCurrent
    /\ DirectoryTypeOK
    /\ GateTypeOK /\ HandoffIsKept
    /\ PipeTypeOK
=============================================================================
