------------------------------ MODULE MCCrashes ------------------------------
(***************************************************************************)
(* Processes that crash and what their files have, for TLC: masters in an  *)
(* election, the users, the audit log and the transcripts of a master, and *)
(* the KV cache, the key-value store and the shards of a node.  These      *)
(* parts share no state.  A behaviour moves one of them, chosen at the     *)
(* start; the others stay in their initial states.                         *)
(***************************************************************************)
EXTENDS MCMasterElection, KVCache, KVStore, ShardStore, UserAccess, AuditLog, TranscriptStore

CONSTANTS d1, d2  \* contents of shards

\* The second content is the larger one.
MCSize == (d1 :> 1) @@ (d2 :> 2)

VARIABLE part

masterFiles == <<accessVars, auditVars, transcriptVars>>
nodeFiles == <<kvVars, storeVars, shardVars>>
crashVars == <<part, vars, masterFiles, nodeFiles>>

CrashInit ==
    /\ part \in {"election", "users", "audit", "transcripts", "cache", "keys", "shards"}
    /\ Init /\ KvInit /\ StoreInit /\ AuditInit /\ TranscriptInit
    /\ ShardInit /\ (part # "shards" => away = {})
    /\ AccessInit /\ given = {CHOOSE t \in Tokens : TRUE}

MasterFilesNext ==
    \/ part = "users" /\ AccessNext /\ UNCHANGED <<auditVars, transcriptVars>>
    \/ part = "audit" /\ AuditNext /\ UNCHANGED <<accessVars, transcriptVars>>
    \/ part = "transcripts" /\ TranscriptNext /\ UNCHANGED <<accessVars, auditVars>>

NodeFilesNext ==
    \/ part = "cache" /\ KvNext /\ UNCHANGED <<storeVars, shardVars>>
    \/ part = "keys" /\ StoreNext /\ UNCHANGED <<kvVars, shardVars>>
    \/ part = "shards" /\ ShardNext /\ UNCHANGED <<kvVars, storeVars>>

CrashNext ==
    /\ UNCHANGED part
    /\ \/ part = "election" /\ Next /\ UNCHANGED <<masterFiles, nodeFiles>>
       \/ MasterFilesNext /\ UNCHANGED <<vars, nodeFiles>>
       \/ NodeFilesNext /\ UNCHANGED <<vars, masterFiles>>

CrashSpec == CrashInit /\ [][CrashNext]_crashVars

\* Bounds for TLC.  One put or delete, of all transcripts, was made and not answered
\* since its session was last answered.  A shard has a replica that is active.
FewLostPuts == Cardinality(UNION {{s} \X attempted[s] : s \in Transcripts}) <= 1
OneIsActive == \A s \in Shards : \E r \in 1..Replicas : state[s][r] = "active"

\* What is in memory is well formed and agrees with the files, as far as their
\* owner believes it does: users and tokens, cached entries, keys and their
\* partitions, the files of a volume; and a put over FMP that was reported as
\* done was made.
FilesOK ==
    /\ AccessTypeOK /\ AnsweredChangesSurvive
    /\ KvTypeOK
    /\ StoreTypeOK /\ CleanIsSaved /\ ReportedPutWasMade
    /\ ShardTypeOK /\ DiskWithinLimit
=============================================================================
