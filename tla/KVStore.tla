------------------------------- MODULE KVStore -------------------------------
(***************************************************************************)
(* DistributedKVStore (storage/kv_store.py): keys with partitions, versions*)
(* and expiry, the index of the partitions, snapshots, and the calls that  *)
(* put and get a key at another node over FMP, with the handlers that      *)
(* serve them there (protocol/fmp_server.py).                              *)
(*                                                                         *)
(* One store is modelled, with its file; callers on other nodes reach it   *)
(* through messages that may be lost or late.  A key may expire at any     *)
(* moment and stays in the store until somebody looks at it.  The file is  *)
(* written in place: a write that fails or dies may leave it unreadable,   *)
(* and a store that was clean before goes on believing that it is.         *)
(***************************************************************************)
EXTENDS Naturals, FiniteSets

CONSTANTS
    KvKeys,         \* keys
    Partitions,     \* partitions
    KvVersions,     \* versions reached (a bound)
    Unreadable,     \* a file that cannot be parsed
    Puts, Gets      \* requests of remote callers, each with its own request_id

ASSUME StoreAssumption ==
    /\ KvVersions \in Nat /\ Puts \cap Gets = {}
    /\ Unreadable \notin [KvKeys -> [part : Partitions \cup {"none"}, version : Nat, expired : BOOLEAN]]

VARIABLES
    kvs,        \* _store
    parts,      \* _partitions
    kvDirty,    \* _dirty
    storeFile,     \* kv_store.json
    reqNet,     \* requests under way to the store
    replyNet,   \* answers under way: request and success or found
    waits,      \* state of the caller of each request
    pendingReqs,\* _pending_requests of the callers
    applied,    \* puts that were made (history)
    saveFailed  \* the last save failed (history)

storeVars == <<kvs, parts, kvDirty, storeFile, reqNet, replyNet, waits, pendingReqs,
              applied, saveFailed>>
callVars == <<reqNet, replyNet, waits, pendingReqs, applied>>

RemoteCalls == Puts \cup Gets
NoEntry == [part |-> "none", version |-> 0, expired |-> FALSE]
EmptyKvs == [k \in KvKeys |-> NoEntry]

StoreInit ==
    /\ kvs = EmptyKvs /\ parts = [p \in Partitions |-> {}] /\ kvDirty = FALSE
    /\ storeFile = EmptyKvs
    /\ reqNet = {} /\ replyNet = {} /\ pendingReqs = {} /\ applied = {}
    /\ waits = [q \in RemoteCalls |-> "idle"]
    /\ saveFailed = FALSE

-----------------------------------------------------------------------------
(* The store.                                                              *)

\* put: the key joins the index of its partition; one it was in before keeps it.
EnteredNewOnly(k, p) ==
    /\ kvs[k].version < KvVersions
    /\ kvs' = [kvs EXCEPT ![k] = [part |-> p, version |-> @.version + 1, expired |-> FALSE]]
    /\ parts' = IF kvs[k] = NoEntry THEN [parts EXCEPT ![p] = @ \cup {k}] ELSE parts
    /\ kvDirty' = TRUE
Entered(k, p) ==
    /\ kvs[k].version < KvVersions
    /\ kvs' = [kvs EXCEPT ![k] = [part |-> p, version |-> @.version + 1, expired |-> FALSE]]
    /\ parts' = [parts EXCEPT ![p] = @ \cup {k}]
    /\ kvDirty' = TRUE

PutKey(k, p) == Entered(k, p) /\ UNCHANGED <<storeFile, saveFailed, callVars>>

\* delete for each key of a set, each out of the index of its partition.
Unindexed(ks) == [p \in Partitions |-> parts[p] \ {k \in ks : kvs[k].part = p}]

DeletedUnmarked(ks) ==
    /\ kvs' = [k \in KvKeys |-> IF k \in ks THEN NoEntry ELSE kvs[k]]
    /\ parts' = Unindexed(ks)
    /\ UNCHANGED kvDirty
DeletedKeys(ks) ==
    /\ kvs' = [k \in KvKeys |-> IF k \in ks THEN NoEntry ELSE kvs[k]]
    /\ parts' = Unindexed(ks)
    /\ kvDirty' = (kvDirty \/ ks # {})

DeleteKey(k) ==
    /\ kvs[k] # NoEntry
    /\ DeletedKeys({k})
    /\ UNCHANGED <<storeFile, saveFailed, callVars>>

KeyExpires(k) ==
    /\ kvs[k] # NoEntry /\ ~kvs[k].expired
    /\ kvs' = [kvs EXCEPT ![k].expired = TRUE]
    /\ UNCHANGED <<parts, kvDirty, storeFile, saveFailed, callVars>>

\* get and get_entry: an expired key is deleted.
Looked(k) == DeletedKeys({x \in {k} : kvs[x].expired})

GetKey(k) == Looked(k) /\ UNCHANGED <<storeFile, saveFailed, callVars>>

\* _cleanup_expired, in list_keys and list_partition.
CleanupKeys ==
    /\ DeletedKeys({k \in KvKeys : kvs[k].expired})
    /\ UNCHANGED <<storeFile, saveFailed, callVars>>

\* save: the keys that have not expired.  One that fails may have spoiled the file
\* or not have come to it, and leaves _dirty as it is.
SaveKeys(ok) ==
    /\ kvs' = [k \in KvKeys |-> IF kvs[k].expired THEN NoEntry ELSE kvs[k]]
    /\ parts' = Unindexed({k \in KvKeys : kvs[k].expired})
    /\ kvDirty' = IF ok THEN FALSE ELSE kvDirty \/ \E k \in KvKeys : kvs[k].expired
    /\ IF ok THEN storeFile' = kvs' ELSE storeFile' \in {storeFile, Unreadable}
    /\ saveFailed' = ~ok
    /\ UNCHANGED callVars

\* A new process loads its file; load puts every key anew.
SavedKeys == IF storeFile = Unreadable THEN EmptyKvs ELSE storeFile

RestartStore ==
    /\ kvs' = SavedKeys
    /\ parts' = [p \in Partitions |-> {k \in KvKeys : SavedKeys[k].part = p}]
    /\ kvDirty' = (SavedKeys # EmptyKvs)
    /\ reqNet' = {}
    /\ UNCHANGED <<storeFile, saveFailed, replyNet, waits, pendingReqs, applied>>

\* restore of the file into the running store: merge replaces, without it only
\* keys that are not there are put.
RestoreKeys(merge) ==
    LET ks == {k \in KvKeys : SavedKeys[k] # NoEntry /\ (merge \/ kvs[k] = NoEntry)} IN
    /\ kvs' = [k \in KvKeys |-> IF k \in ks THEN SavedKeys[k] ELSE kvs[k]]
    /\ parts' = [p \in Partitions |-> parts[p] \cup {k \in ks : SavedKeys[k].part = p}]
    /\ kvDirty' = (kvDirty \/ ks # {})
    /\ UNCHANGED <<storeFile, saveFailed, callVars>>

-----------------------------------------------------------------------------
(* Remote calls.                                                           *)

\* get_remote and put_remote: the future is entered before the message is sent;
\* a send that fails ends the call.
CallRemote(q) ==
    /\ waits[q] = "idle"
    /\ \/ /\ waits' = [waits EXCEPT ![q] = "waiting"]
          /\ pendingReqs' = pendingReqs \cup {q}
          /\ reqNet' \in {reqNet, reqNet \cup {q}}
       \/ /\ waits' = [waits EXCEPT ![q] = "failed"]
          /\ UNCHANGED <<pendingReqs, reqNet>>
    /\ UNCHANGED <<kvs, parts, kvDirty, storeFile, saveFailed, replyNet, applied>>

\* _on_kv_put and _on_kv_get; the answer may be lost.
ServePut(q, k, p) ==
    /\ q \in reqNet \cap Puts
    /\ reqNet' = reqNet \ {q}
    /\ Entered(k, p)
    /\ applied' = applied \cup {q}
    /\ replyNet' \in {replyNet, replyNet \cup {[req |-> q, good |-> TRUE]}}
    /\ UNCHANGED <<storeFile, saveFailed, waits, pendingReqs>>

ServeGet(q, k, p) ==
    /\ q \in reqNet \cap Gets
    /\ reqNet' = reqNet \ {q}
    /\ Looked(k)
    /\ replyNet' \in {replyNet, replyNet \cup {[req |-> q, good |-> kvs'[k].part = p]}}
    /\ UNCHANGED <<storeFile, saveFailed, waits, pendingReqs, applied>>

\* handle_kv_response: an answer nobody waits for is dropped.
HandleKvResponse(a) ==
    /\ a \in replyNet
    /\ replyNet' = replyNet \ {a}
    /\ pendingReqs' = pendingReqs \ {a.req}
    /\ waits' = IF a.req \in pendingReqs
                THEN [waits EXCEPT ![a.req] = IF a.good THEN "done" ELSE "failed"] ELSE waits
    /\ UNCHANGED <<kvs, parts, kvDirty, storeFile, saveFailed, reqNet, applied>>

\* What the caller is told when its time is up.
TimeoutAnswerGood(q) == "done"
TimeoutAnswer(q) == "failed"

RemoteTimesOut(q) ==
    /\ waits[q] = "waiting"
    /\ waits' = [waits EXCEPT ![q] = TimeoutAnswer(q)]
    /\ pendingReqs' = pendingReqs \ {q}
    /\ UNCHANGED <<kvs, parts, kvDirty, storeFile, saveFailed, reqNet, replyNet, applied>>

StoreNext ==
    \/ \E k \in KvKeys :
          \/ DeleteKey(k) \/ KeyExpires(k) \/ GetKey(k)
          \/ \E p \in Partitions :
                PutKey(k, p) \/ \E q \in RemoteCalls : ServePut(q, k, p) \/ ServeGet(q, k, p)
    \/ CleanupKeys \/ RestartStore
    \/ \E b \in BOOLEAN : SaveKeys(b) \/ RestoreKeys(b)
    \/ \E q \in RemoteCalls : CallRemote(q) \/ RemoteTimesOut(q)
    \/ \E a \in replyNet : HandleKvResponse(a)

StoreSpec == StoreInit /\ [][StoreNext]_storeVars

-----------------------------------------------------------------------------
(* What the store promises.                                                *)

\* Types; a key is in the index of its own partition, so list_partition finds
\* it, whatever partitions it was in before; a pending future has its caller.
StoreTypeOK ==
    /\ \A k \in KvKeys : kvs[k] = NoEntry \/ (kvs[k].part \in Partitions /\ k \in parts[kvs[k].part])
    /\ \A k \in KvKeys : kvs[k].version \in 0..KvVersions
    /\ \A q \in pendingReqs : waits[q] = "waiting"

\* A store that is not dirty has nothing a restart would lose or bring back,
\* except when its file is unreadable, which the last save must then have made it:
\* save of a clean store that fails in its write answers False and leaves _dirty
\* False, and a restart loses every key (README, Disagreements).
CleanIsSaved ==
    ~kvDirty => IF storeFile = Unreadable THEN saveFailed
                ELSE \A k \in KvKeys :
                        kvs[k] = storeFile[k] \/ kvs[k] = [storeFile[k] EXCEPT !.expired = TRUE]

\* A put that was reported as done was made at the other node; one that timed
\* out may still be made later.
ReportedPutWasMade == \A q \in Puts : waits[q] = "done" => q \in applied
=============================================================================
