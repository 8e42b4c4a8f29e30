----------------------------- MODULE ShardStore -----------------------------
(***************************************************************************)
(* Model shards in a storage volume: StorageVolume                         *)
(* (storage/storage_volume.py) with its limit and LRU eviction, and        *)
(* ShardReplicator (storage/shard_replication.py), whose replicas are      *)
(* written to and read from the volume it is given.                        *)
(*                                                                         *)
(* Both are synchronous classes; every method is one step.  All replicas   *)
(* of a shard have the same volume and path, so local replicas share one   *)
(* file.  A replica on another node, once an FMP interface is set, is sent *)
(* over FMP and leaves the volume as it is: inside an event loop it is not *)
(* waited for and does not count as written, outside of one it does.  A    *)
(* write that fails may leave a torn file, which is not counted.           *)
(***************************************************************************)
EXTENDS Naturals, Sequences, SequencesExt, FiniteSetsExt

CONSTANTS
    Shards,         \* replicated shards, and the paths of their files
    OtherPaths,     \* paths of other files of the volume
    Data,           \* contents of a shard
    NoData,         \* no content
    Torn,           \* content of a file whose write failed
    SizeMap,        \* bytes of a content
    VolLimit,       \* size_limit_mb, in bytes
    Replicas        \* replication_factor

ASSUME ShardAssumption ==
    /\ VolLimit \in Nat /\ Replicas \in Nat \ {0}
    /\ SizeMap \in [Data -> Nat \ {0}]
    /\ NoData \notin Data /\ Torn \notin Data \cup {NoData}
    /\ IsFiniteSet(Shards \cup OtherPaths) /\ Shards \cap OtherPaths = {}

VARIABLES
    vol,        \* the files, used_bytes, and the entries, least recently used first
    spoiled,    \* the volume was made anew over its files, or a write failed (history)
    state,      \* status of each replica of a shard
    away,       \* replicas on other nodes
    shardData,  \* _shard_data
    written     \* the last write of a shard, if it reached its quorum, and whether its
                \* data landed in the volume (history)

shardVars == <<vol, spoiled, state, away, shardData, written>>

Paths == Shards \cup OtherPaths

NoFile == [data |-> NoData, size |-> 0]
Unwritten == [data |-> NoData, landed |-> FALSE]
EmptyVolume == [files |-> [s \in Paths |-> NoFile], used |-> 0, lru |-> <<>>]

ShardInit ==
    /\ vol = EmptyVolume /\ spoiled = FALSE
    /\ state = [s \in Shards |-> [r \in 1..Replicas |-> "active"]]
    /\ away \in {{}, 2..Replicas}
    /\ shardData = [s \in Shards |-> NoData]
    /\ written = [s \in Shards |-> Unwritten]

-----------------------------------------------------------------------------
(* StorageVolume.                                                          *)

LowWatermark == (VolLimit * 7) \div 10

Touched(v, s) == [v EXCEPT !.lru = Append(RemoveFirst(@, s), s)]

\* delete_file: what the file has, not what was counted for it, is subtracted.
FileDeleted(v, s) ==
    LET size == v.files[s].size IN
    [files |-> [v.files EXCEPT ![s] = NoFile],
     used |-> IF v.used > size THEN v.used - size ELSE 0,
     lru |-> RemoveFirst(v.lru, s)]

\* _evict_lru: the least recently used files go until 70 % are left.
Evicted(v) ==
    FoldLeft(LAMBDA w, s : IF w.used <= LowWatermark THEN w ELSE FileDeleted(w, s), v, v.lru)

\* The capacity check of write_file, before and after an eviction.
FitsOnce(v, d) == TRUE
Fits(v, d) == v.used + SizeMap[d] <= VolLimit
Roomy(v, d) == IF v.used + SizeMap[d] <= VolLimit THEN v ELSE Evicted(v)

\* write_file: a file that is overwritten is counted once more.
FileWritten(v, s, d) ==
    LET w == Roomy(v, d) IN
    IF Fits(w, d)
    THEN Touched([w EXCEPT !.files[s] = [data |-> d, size |-> SizeMap[d]], !.used = @ + SizeMap[d]], s)
    ELSE w

\* write_file when the operating system fails it: some of the bytes are there.
FileTorn(v, s, d) ==
    LET w == Roomy(v, d) IN
    IF Fits(w, d) THEN [w EXCEPT !.files[s] = [data |-> Torn, size |-> SizeMap[d] - 1]] ELSE w

ReadFile(s) ==
    /\ vol.files[s] # NoFile
    /\ vol' = IF Contains(vol.lru, s) THEN Touched(vol, s) ELSE vol
    /\ UNCHANGED <<spoiled, state, away, shardData, written>>

\* write_file and distribute_shard by others.
WriteFile(s, d, ok) ==
    /\ s \in OtherPaths
    /\ vol' = IF ok THEN FileWritten(vol, s, d) ELSE FileTorn(vol, s, d)
    /\ spoiled' = (spoiled \/ ~ok)
    /\ UNCHANGED <<state, away, shardData, written>>

DeleteFile(s) ==
    /\ vol' = FileDeleted(vol, s)
    /\ UNCHANGED <<spoiled, state, away, shardData, written>>

\* create_volume of a volume that exists: the files stay, the counts start anew.
CreateVolume ==
    /\ vol' = [vol EXCEPT !.used = 0, !.lru = <<>>]
    /\ spoiled' = (spoiled \/ \E s \in Paths : vol.files[s] # NoFile)
    /\ UNCHANGED <<state, away, shardData, written>>

\* delete_volume, and a new one.
DeleteVolume ==
    /\ vol' = EmptyVolume
    /\ spoiled' = FALSE
    /\ UNCHANGED <<state, away, shardData, written>>

-----------------------------------------------------------------------------
(* ShardReplicator.                                                        *)

\* _sync_via_fmp: the data leaves for another node.  It counts as written if the
\* send was awaited (outside an event loop) and went well.
SyncViaFmp(v, awaited) == [vol |-> v, ok |-> awaited]

\* _sync_local: written to the volume, unless the write fails.
SyncLocal(v, s, d, fails) ==
    IF fails THEN [vol |-> FileTorn(v, s, d), ok |-> FALSE]
    ELSE [vol |-> FileWritten(v, s, d), ok |-> Fits(Roomy(v, d), d)]

\* sync_to_node: the outcome of one replica, when the writes of bad fail and the
\* sends to sent are awaited and go well.
SyncToNode(v, s, d, r, bad, sent) ==
    IF r \in away THEN SyncViaFmp(v, r \in sent) ELSE SyncLocal(v, s, d, r \in bad)

Quorum == (Replicas + 1) \div 2

\* quorum_write: replica by replica until enough were written.  The data is in
\* the volume if the last of the replicas here was written.
QuorumLoop(s, d, bad, sent) ==
    FoldLeft(LAMBDA a, r :
                IF a.oks >= Quorum \/ state[s][r] = "failed" THEN a
                ELSE LET o == SyncToNode(a.vol, s, d, r, bad, sent) IN
                     [vol |-> o.vol, oks |-> IF o.ok THEN a.oks + 1 ELSE a.oks,
                      landed |-> IF r \in away THEN a.landed ELSE o.ok],
             [vol |-> vol, oks |-> 0, landed |-> FALSE], [r \in 1..Replicas |-> r])

\* The data is registered first: sync_to_node takes it from there.
DataToSyncEarlier(s, d) == IF shardData[s] = NoData THEN d ELSE shardData[s]
DataToSync(s, d) == d

QuorumWrite(s, d, bad, sent) ==
    LET a == QuorumLoop(s, DataToSync(s, d), bad, sent) IN
    /\ shardData' = [shardData EXCEPT ![s] = d]
    /\ vol' = a.vol
    /\ spoiled' = (spoiled \/ bad # {})
    /\ written' = [written EXCEPT ![s] =
           IF a.oks >= Quorum THEN [data |-> d, landed |-> a.landed] ELSE Unwritten]
    /\ UNCHANGED <<state, away>>

\* register_shard_data, for a later repair or sync_all_replicas.
RegisterShardData(s, d) ==
    /\ shardData' = [shardData EXCEPT ![s] = d]
    /\ written' = [written EXCEPT ![s] = IF @.data = d THEN @ ELSE Unwritten]
    /\ UNCHANGED <<vol, spoiled, state, away>>

\* A replica got the registered data, with outcome o; a local write that fails
\* leaves a torn file.
Synced(s, o, bad) ==
    /\ vol' = o.vol
    /\ written' = [written EXCEPT ![s] = IF bad = {} THEN @ ELSE Unwritten]
    /\ spoiled' = (spoiled \/ bad # {})
    /\ UNCHANGED <<away, shardData>>

\* repair_replica: recovering, and active once the data was written.
RepairReplica(s, r, bad, sent) ==
    /\ shardData[s] # NoData
    /\ LET o == SyncToNode(vol, s, shardData[s], r, bad, sent) IN
       /\ Synced(s, o, bad)
       /\ state' = [state EXCEPT ![s][r] = IF o.ok THEN "active" ELSE "recovering"]

\* sync_all_replicas, one of its active replicas.
SyncActive(s, r, bad) ==
    /\ shardData[s] # NoData
    /\ state[s][r] = "active"
    /\ Synced(s, SyncToNode(vol, s, shardData[s], r, bad, {}), bad)
    /\ UNCHANGED state

\* mark_replica_failed and remove_node_replicas.
MarkReplicaFailed(s, r) ==
    /\ state' = [state EXCEPT ![s][r] = "failed"]
    /\ UNCHANGED <<vol, spoiled, away, shardData, written>>

\* assign_replicas for the nodes there are now.
AssignReplicas(s) ==
    /\ state' = [state EXCEPT ![s] = [r \in 1..Replicas |-> "active"]]
    /\ UNCHANGED <<vol, spoiled, away, shardData, written>>

\* quorum_read returns the file when enough replicas are active; all of them are
\* the one file.
QuorumReads(s) ==
    IF Cardinality({r \in 1..Replicas : state[s][r] = "active"}) >= Quorum
    THEN vol.files[s].data ELSE NoData

ShardNext ==
    \/ CreateVolume \/ DeleteVolume
    \/ \E s \in Paths :
          ReadFile(s) \/ DeleteFile(s) \/ \E d \in Data, ok \in BOOLEAN : WriteFile(s, d, ok)
    \/ \E s \in Shards :
          \/ AssignReplicas(s)
          \/ \E d \in Data :
                \/ RegisterShardData(s, d)
                \/ \E bad \in SUBSET ((1..Replicas) \ away), sent \in SUBSET away :
                      QuorumWrite(s, d, bad, sent)
          \/ \E r \in 1..Replicas :
                \/ MarkReplicaFailed(s, r)
                \/ \E bad \in SUBSET ({r} \ away) :
                      \/ SyncActive(s, r, bad)
                      \/ \E sent \in SUBSET ({r} \cap away) : RepairReplica(s, r, bad, sent)

ShardSpec == ShardInit /\ [][ShardNext]_shardVars

-----------------------------------------------------------------------------
(* What the store promises.                                                *)

DiskSize == FoldFunction(LAMBDA f, n : f.size + n, 0, vol.files)

\* Types; used_bytes is within the limit, and every entry has a file.
ShardTypeOK ==
    /\ vol.used <= VolLimit
    /\ \A s \in ToSet(vol.lru) : vol.files[s] # NoFile
    /\ IsInjective(vol.lru)
    /\ state \in [Shards -> [1..Replicas -> {"active", "recovering", "failed"}]]

\* The files of a volume are within its limit, however often they were
\* overwritten, evicted and deleted, unless the volume was made anew over its
\* files or a write failed half-way.
DiskWithinLimit == ~spoiled => DiskSize <= VolLimit

\* After a quorum write that put its data in the volume, and until the shard is
\* written again, a quorum read (quorum_read) returns what was written or fails;
\* it never returns older data.  The exception is a write without an event loop
\* that found its quorum among other nodes while no replica here was written:
\* the volume quorum_read reads keeps the older data (README, Disagreements).
QuorumReadIsLatest ==
    \A s \in Shards : written[s].landed => QuorumReads(s) \in {written[s].data, NoData}
=============================================================================
