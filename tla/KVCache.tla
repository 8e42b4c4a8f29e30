------------------------------ MODULE KVCache ------------------------------
(***************************************************************************)
(* The KV cache of a node agent: KVSharingManager                          *)
(* (distributed_mlx/kv_cache_sharing.py) behind the routes /api/kv/*       *)
(* (server/agent_server.py).  It keeps the entries in an OrderedDict for   *)
(* LRU eviction, an index from (model, prompt hash) to a cache id, the     *)
(* counter _local_size_bytes that the eviction trusts, and kv_cache.json.  *)
(*                                                                         *)
(* All of it runs on one event loop.  Storing and looking up never         *)
(* suspend; an export does, while the transport produces the tensors, and  *)
(* then goes on with the entry object it found before.  That object may    *)
(* have left the cache, or another one may have its id.                    *)
(*                                                                         *)
(* An entry has one shard.  Steps after which the counter is wrong are     *)
(* part of the model, but it follows the cache no further than to the next *)
(* restart, since the counter then drifts without limit.                   *)
(***************************************************************************)
EXTENDS Integers, Sequences, SequencesExt, FiniteSetsExt

CONSTANTS
    CacheIds,   \* cache ids
    Keys,       \* pairs of a model and a prompt hash
    KvNone,     \* no id
    Sizes,      \* sizes of the entries that arrive
    MaxBytes,   \* max_local_cache_mb
    TensorSize, \* what a tensor adds to a shard
    Exports     \* concurrent exports (a bound)

ASSUME KvAssumption ==
    /\ KvNone \notin CacheIds
    /\ Sizes \subseteq Nat /\ MaxBytes \in Nat /\ TensorSize \in Nat \ {0}

VARIABLES
    cache,      \* _local_cache: entries, the least recently used one first
    index,      \* _lookup_index
    bytes,      \* _local_size_bytes
    export,     \* the entry each running export holds
    kvFile,     \* kv_cache.json
    clean       \* no step has done what the counter does not survive (history)

kvVars == <<cache, index, bytes, export, kvFile, clean>>

NoExport == [id |-> KvNone, old |-> 0, live |-> FALSE]
Nothing == [cache |-> <<>>, index |-> [k \in Keys |-> KvNone], bytes |-> 0, clean |-> TRUE]

KvInit ==
    /\ cache = <<>> /\ index = Nothing.index /\ bytes = 0 /\ clean = TRUE
    /\ export = [x \in Exports |-> NoExport]
    /\ kvFile = <<>>

\* What store_local reads and writes.
Mem == [cache |-> cache, index |-> index, bytes |-> bytes, clean |-> clean]
SetMem(m) ==
    /\ cache' = m.cache /\ index' = m.index
    /\ bytes' = m.bytes /\ clean' = m.clean

SizeOf(c) == FoldLeft(LAMBDA n, e : n + e.size, 0, c)
IdsOf(c) == {c[n].id : n \in DOMAIN c}
PlaceOf(c, i) == CHOOSE n \in DOMAIN c : c[n].id = i

\* The exports that held an entry of which none is left in c hold one that is
\* no longer cached.
Exporting(gone) == [x \in Exports |-> [export[x] EXCEPT !.live = @ /\ export[x].id \notin gone]]

-----------------------------------------------------------------------------
(* store_local and _evict.                                                 *)

\* The oldest entry leaves the cache and the counter, and the index forgets
\* its key, whichever id the index has for it.
PopOldest(m) ==
    [cache |-> Tail(m.cache), bytes |-> m.bytes - Head(m.cache).size,
     index |-> [m.index EXCEPT ![Head(m.cache).key] = KvNone], clean |-> m.clean]

Room(b, need) == b + need <= MaxBytes

Evict(m, need) ==
    LET After[k \in 0..Len(m.cache)] == IF k = 0 THEN m ELSE PopOldest(After[k - 1])
    IN  After[Min({k \in 0..Len(m.cache) :
                     k = Len(m.cache) \/ Room(After[k].bytes, need)})]

\* An entry larger than the cache is refused.  The bytes of an entry with the
\* same id are given back before the eviction, which may take that entry as
\* well and give them back again.
StoreLocal(m, e) ==
    LET old == e.id \in IdsOf(m.cache)
        back == IF old THEN m.cache[PlaceOf(m.cache, e.id)].size ELSE 0
        room == Evict([m EXCEPT !.bytes = @ - back], e.size)
        kept == e.id \in IdsOf(room.cache)
    IN  IF e.size > MaxBytes THEN m
        ELSE [cache |-> IF kept THEN [room.cache EXCEPT ![PlaceOf(room.cache, e.id)] = e]
                        ELSE Append(room.cache, e),
              bytes |-> room.bytes + e.size,
              index |-> [room.index EXCEPT ![e.key] = e.id],
              clean |-> m.clean /\ kept = old]

\* An entry arrives and is stored.
StoreKv(e) ==
    LET m == StoreLocal(Mem, e)
        stored == e.size <= MaxBytes
    IN  /\ clean
        /\ SetMem([m EXCEPT !.clean = @ /\ ~(stored /\ \E x \in Exports : export[x].id = e.id)])
        /\ export' = IF stored THEN Exporting((IdsOf(cache) \ IdsOf(m.cache)) \cup {e.id})
                     ELSE export
        /\ UNCHANGED kvFile

\* /api/kv/warm makes an entry without a tensor; transfer_from_remote fetches
\* one as the peer has it; import_bundle and import_stream ask the transport to
\* take the tensor, and store the entry whether it did or not.
WarmKv(e) == ~e.tensor /\ StoreKv(e)
TransferFromRemote(e) == StoreKv(e)
ImportBundle(e) == StoreKv(e)
ImportStream(e) == StoreKv(e)

-----------------------------------------------------------------------------
(* lookup_local and lookup_local_by_id.                                    *)

WithoutId(i) == RemoveFirstMatch(cache, LAMBDA e : e.id = i)

DropUncounted(e, k) ==
    /\ cache' = WithoutId(e.id)
    /\ index' = [index EXCEPT ![k] = KvNone]
    /\ export' = Exporting({e.id})
    /\ UNCHANGED <<bytes, kvFile, clean>>
\* An expired entry is removed when it is met.
Drop(e, k) ==
    /\ cache' = WithoutId(e.id)
    /\ bytes' = bytes - e.size
    /\ index' = [index EXCEPT ![k] = KvNone]
    /\ export' = Exporting({e.id})
    /\ UNCHANGED <<kvFile, clean>>

\* The index leads to nothing, to an expired entry, or to a hit, which
\* becomes the most recently used entry.
LookupLocal(k) ==
    /\ clean /\ index[k] # KvNone
    /\ \/ /\ index[k] \notin IdsOf(cache)
          /\ index' = [index EXCEPT ![k] = KvNone]
          /\ UNCHANGED <<cache, bytes, export, kvFile, clean>>
       \/ \E e \in ToSet(cache) : e.id = index[k] /\ e.expired /\ Drop(e, k)
       \/ \E e \in ToSet(cache) :
            /\ e.id = index[k] /\ ~e.expired
            /\ cache' = Append(WithoutId(e.id), e)
            /\ UNCHANGED <<index, bytes, export, kvFile, clean>>

\* /api/kv/transfer, and the beginning of an export, of an expired entry.
LookupLocalById(e) == clean /\ e.expired /\ Drop(e, e.key)

Expire(n) ==
    /\ clean /\ ~cache[n].expired
    /\ cache' = [cache EXCEPT ![n].expired = TRUE]
    /\ UNCHANGED <<index, bytes, export, kvFile, clean>>

-----------------------------------------------------------------------------
(* export_bundle and export_stream.                                        *)

\* The tensor is missing: the export awaits the transport.
ExportBegins(x, e) ==
    /\ clean /\ export[x] = NoExport /\ ~e.expired /\ ~e.tensor
    /\ export' = [export EXCEPT ![x] = [id |-> e.id, old |-> e.size, live |-> TRUE]]
    /\ clean' = \A y \in Exports : export[y].id # e.id
    /\ UNCHANGED <<cache, index, bytes, kvFile>>

SyncLocalSizeNever(i, delta) == bytes
\* _sync_local_size_delta: the id is looked up, not the entry.
SyncLocalSizeDelta(i, delta) == IF i \in IdsOf(cache) THEN bytes + delta ELSE bytes

\* The tensor, if the transport has one, is added to the shard, and the size
\* of the entry is computed anew.
ExportEnds(x) ==
    /\ clean /\ export[x] # NoExport
    /\ export' = [export EXCEPT ![x] = NoExport]
    /\ \E got \in {0, TensorSize} :
         LET i == export[x].id
             n == PlaceOf(cache, i)
             size == (IF export[x].live THEN cache[n].size ELSE export[x].old) + got
         IN  /\ cache' = IF export[x].live
                         THEN [cache EXCEPT ![n].size = size, ![n].tensor = @ \/ got > 0]
                         ELSE cache
             /\ bytes' = SyncLocalSizeDelta(i, size - export[x].old)
    /\ UNCHANGED <<index, kvFile, clean>>

-----------------------------------------------------------------------------

\* The entries of c that are in keep, in their order.
Those(c, keep) == FoldLeft(LAMBDA s, e : IF e \in keep THEN Append(s, e) ELSE s, <<>>, c)

\* start(): load() stores the entries of the file that have not expired.
LoadKv(f) ==
    /\ export' = [x \in Exports |-> NoExport]
    /\ SetMem(FoldLeft(StoreLocal, Nothing, f))

\* The agent stops, which saves what has not expired, or crashes, and starts
\* again after a time in which any entry of the file may have expired.
StopAndStart ==
    /\ kvFile' = Those(cache, {e \in ToSet(cache) : ~e.expired})
    /\ LoadKv(kvFile')

CrashAndStart ==
    /\ UNCHANGED kvFile
    /\ \E live \in SUBSET ToSet(kvFile) :
          LoadKv(Those(kvFile, live))

KvNext ==
    \/ \E i \in CacheIds, k \in Keys, s \in Sizes, t \in BOOLEAN :
            LET e == [id |-> i, key |-> k, size |-> s, tensor |-> t, expired |-> FALSE]
            IN  WarmKv(e) \/ TransferFromRemote(e) \/ ImportBundle(e) \/ ImportStream(e)
    \/ \E k \in Keys : LookupLocal(k)
    \/ \E e \in ToSet(cache) : LookupLocalById(e)
    \/ \E n \in DOMAIN cache : Expire(n)
    \/ \E x \in Exports : (\E e \in ToSet(cache) : ExportBegins(x, e)) \/ ExportEnds(x)
    \/ StopAndStart \/ CrashAndStart

KvSpec == KvInit /\ [][KvNext]_kvVars

-----------------------------------------------------------------------------
(* What the cache promises.                                                *)

\* Types; the ids of the cached entries differ, and a live export holds one
\* of them.
KvTypeOK ==
    /\ \A e \in ToSet(cache) : e.id \in CacheIds /\ e.key \in Keys /\ e.size \in Nat
    /\ \A m, n \in DOMAIN cache : m # n => cache[m].id # cache[n].id
    /\ index \in [Keys -> CacheIds \cup {KvNone}]
    /\ bytes \in Int /\ clean \in BOOLEAN
    /\ \A x \in Exports : export[x].live => export[x].id \in IdsOf(cache)

\* _local_size_bytes is what the cached entries add up to, through stores,
\* evictions, expirations and exports that end after their entry has gone,
\* as long as no entry was stored over its own predecessor with that one
\* evicted to make room for it, and no export overlapped with another export
\* or with a store of the same id.
CounterIsExact == clean => bytes = SizeOf(cache)
=============================================================================
