----------------------------- MODULE KVDirectory -----------------------------
(***************************************************************************)
(* The masters' directory of KV caches: register_kv_cache, find_kv_cache,  *)
(* the transfer of a cache from one agent to another (sync_kv_cache), and  *)
(* what a master takes from the state another one pushes                   *)
(* (receive_synced_state; master/cluster_master.py), with the routes of    *)
(* server/master_server.py.                                                *)
(*                                                                         *)
(* A transfer awaits twice, for the export and for the import, and looks   *)
(* its entry up again at its end; meanwhile entries come and go.  What an  *)
(* agent does with a bundle is KVCache's matter, which nodes are in the    *)
(* table is NodeRegistry's: here any step may fail.  Registrations are in  *)
(* different instants; a copy has the instant of its original.  The names  *)
(* cache_id and cache_id@node_id are the pairs <<cache, NoNode>> and       *)
(* <<cache, node>>.                                                        *)
(***************************************************************************)
EXTENDS Naturals, FiniteSets

CONSTANTS
    Chiefs,     \* masters
    Hosts,      \* agents
    Caches,     \* cache ids
    NoNode,     \* no host
    MaxKvCache, \* _max_kv_cache
    MaxKvTime,  \* registrations (a bound)
    Transfers   \* calls of sync_kv_cache at a time (a bound)

ASSUME DirectoryAssumption == MaxKvCache \in Nat \ {0} /\ MaxKvTime \in Nat /\ NoNode \notin Hosts

VARIABLES
    directory,  \* kv_cache of a master: a set of entries
    kvTime,     \* registrations so far
    imported,   \* <<cache, host>> that were imported (history)
    transfer,   \* the calls of sync_kv_cache under way
    pushed      \* states a master has sent to another one

directoryVars == <<directory, kvTime, imported, transfer, pushed>>

NoTransfer == [pc |-> "none", chief |-> NoNode, cache |-> NoNode, to |-> NoNode]

DirectoryInit ==
    /\ directory = [m \in Chiefs |-> {}]
    /\ kvTime = 0
    /\ imported = {}
    /\ transfer = [j \in Transfers |-> NoTransfer]
    /\ pushed = {}

-----------------------------------------------------------------------------
(* The table.                                                              *)

\* The key of an entry is its cache_id.
Put(d, e) == {x \in d : x.id # e.id} \cup {e}

\* What is left when the oldest entries have gone until the limit holds; of two
\* of one instant either goes.
TrimmedLate(d) ==
    {r \in SUBSET d : /\ Cardinality(r) = IF Cardinality(d) > MaxKvCache + 1 THEN MaxKvCache ELSE Cardinality(d)
                      /\ \A x \in d \ r, y \in r : x.at <= y.at}
Trimmed(d) ==
    {r \in SUBSET d : /\ Cardinality(r) = IF Cardinality(d) > MaxKvCache THEN MaxKvCache ELSE Cardinality(d)
                      /\ \A x \in d \ r, y \in r : x.at <= y.at}

\* register_kv: anybody may say that a node has a cache.
RegisterKv(m, c, n) ==
    /\ kvTime < MaxKvTime
    /\ kvTime' = kvTime + 1
    /\ \E r \in Trimmed(Put(directory[m], [id |-> <<c, NoNode>>, node |-> n, at |-> kvTime'])) :
          directory' = [directory EXCEPT ![m] = r]
    /\ UNCHANGED <<imported, transfer, pushed>>

\* find_kv_cache drops the expired entries it meets before it finds a live one
\* on a node that is online; any entry may have expired.
FindKv(m) == \E old \in SUBSET directory[m] :
    /\ old # {}
    /\ directory' = [directory EXCEPT ![m] = @ \ old]
    /\ UNCHANGED <<kvTime, imported, transfer, pushed>>

-----------------------------------------------------------------------------
(* sync_kv_cache.                                                          *)

\* The entry, the source and the target are looked up; any of them missing
\* ends the call.  The target is the one asked for, or any other node.
SyncLooks(j, m, c, to) ==
    /\ transfer[j] = NoTransfer
    /\ \E e \in directory[m] : e.id = <<c, NoNode>>
    /\ transfer' = [transfer EXCEPT ![j] =
                      [pc |-> "export", chief |-> m, cache |-> c, to |-> to]]
    /\ UNCHANGED <<directory, kvTime, imported, pushed>>

\* The export, as a stream or, from an agent that has no such route, as JSON: a
\* source without the cache, an error and a timeout end the call.
SyncExports(j) ==
    /\ transfer[j].pc = "export"
    /\ \/ transfer' = [transfer EXCEPT ![j].pc = "import"]
       \/ transfer' = [transfer EXCEPT ![j] = NoTransfer]
    /\ UNCHANGED <<directory, kvTime, imported, pushed>>

\* The answer to an import that lets the call go on: HTTP 200 and stored = 1.
ConfirmedByStatus(stored) == TRUE
Confirmed(stored) == stored

\* The import: stored or not, and answered or not.
SyncImports(j) == \E stored, answered \in BOOLEAN :
    /\ transfer[j].pc = "import"
    /\ imported' = IF stored THEN imported \cup {<<transfer[j].cache, transfer[j].to>>} ELSE imported
    /\ transfer' = [transfer EXCEPT ![j] = IF answered /\ Confirmed(stored)
                                           THEN [@ EXCEPT !.pc = "record"] ELSE NoTransfer]
    /\ UNCHANGED <<directory, kvTime, pushed>>

\* The copy is entered if the entry is still there.
SyncRecords(j) ==
    LET t == transfer[j] IN
    /\ t.pc = "record"
    /\ transfer' = [transfer EXCEPT ![j] = NoTransfer]
    /\ UNCHANGED <<kvTime, imported, pushed>>
    /\ \/ /\ \A e \in directory[t.chief] : e.id # <<t.cache, NoNode>>
          /\ UNCHANGED directory
       \/ \E e \in directory[t.chief] :
             /\ e.id = <<t.cache, NoNode>>
             /\ \E r \in Trimmed(Put(directory[t.chief], [id |-> <<t.cache, t.to>>, node |-> t.to, at |-> e.at])) :
                   directory' = [directory EXCEPT ![t.chief] = r]

-----------------------------------------------------------------------------
(* Synchronisation with another master.                                    *)

\* _kv_to_dict of all there is; one state under way at most.
PushState(m, k) ==
    /\ m # k /\ pushed = {}
    /\ pushed' = {[to |-> k, kv |-> directory[m]]}
    /\ UNCHANGED <<directory, kvTime, imported, transfer>>

\* Entries replace those of the same name; only what is too much goes.
Merged(d, e) == {x \in d : \A y \in e : y.id # x.id} \cup e

ReceiveSyncedState == \E p \in pushed :
    /\ pushed' = {}
    /\ \E r \in Trimmed(Merged(directory[p.to], p.kv)) : directory' = [directory EXCEPT ![p.to] = r]
    /\ UNCHANGED <<kvTime, imported, transfer>>

LosePush ==
    /\ pushed # {}
    /\ pushed' = {}
    /\ UNCHANGED <<directory, kvTime, imported, transfer>>

\* The directory is in memory only.  A call under way dies with its master.
RestartChief(m) ==
    /\ directory' = [directory EXCEPT ![m] = {}]
    /\ transfer' = [j \in Transfers |-> IF transfer[j].chief = m THEN NoTransfer ELSE transfer[j]]
    /\ UNCHANGED <<kvTime, imported, pushed>>

DirectoryNext ==
    \/ \E m \in Chiefs :
          \/ FindKv(m) \/ RestartChief(m)
          \/ \E n \in Hosts, c \in Caches : RegisterKv(m, c, n)
          \/ \E k \in Chiefs : PushState(m, k)
          \/ \E j \in Transfers, c \in Caches, to \in Hosts : SyncLooks(j, m, c, to)
    \/ \E j \in Transfers : SyncExports(j) \/ SyncImports(j) \/ SyncRecords(j)
    \/ ReceiveSyncedState \/ LosePush

DirectorySpec == DirectoryInit /\ [][DirectoryNext]_directoryVars

-----------------------------------------------------------------------------
(* What the directory promises.                                            *)

\* Types; a name is in the directory once, and the limit holds, whether entries
\* come from routes, from transfers or from another master.
DirectoryTypeOK ==
    /\ \A m \in Chiefs :
          /\ Cardinality(directory[m]) <= MaxKvCache
          /\ \A x, y \in directory[m] : x.id = y.id => x = y
    /\ kvTime \in 0..MaxKvTime

\* Where the directory of any master sends a caller for a copy, the cache was
\* imported: not after a refused import, a lost answer, or a push that was late.
CopyWasImported ==
    \A m \in Chiefs : \A e \in directory[m] :
        e.id[2] # NoNode => e.node = e.id[2] /\ e.id \in imported
=============================================================================
