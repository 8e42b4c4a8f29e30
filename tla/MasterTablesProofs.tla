------------------------- MODULE MasterTablesProofs -------------------------
(***************************************************************************)
(* What masters promise about their tables: the directory of KV caches,    *)
(* the keys, chats and sessions of clients, test batches and pipelines,    *)
(* proved for any number of masters, agents, requests, chats, sessions,    *)
(* jobs and segments, and any limits.  With PeerSyncProofs, the tables of  *)
(* a whole master.                                                         *)
(***************************************************************************)
EXTENDS MCMasterTables, PeerSyncProofs, FiniteSetTheorems, TLAPS

-----------------------------------------------------------------------------
(* The checkpoints of pipelines: a result is an unbroken chain because     *)
(* every place hidden states rest in (the running attempt, the checkpoint, *)
(* the store) holds a proper beginning of the chain.                       *)

\* The segments 1, 2, ..., Len(s), and not all of them.
Begun == {s \in Seq(Nat) : Len(s) < Segments /\ \A i \in 1..Len(s) : s[i] = i}

Stored == [there : BOOLEAN, ckpt : Begun, tried : 0..MaxAttempts, degraded : 0..MaxDegradations]

Attempt == [busy : BOOLEAN, nodes : {0, 1, Segments}, hidden : Begun]

PipeInv ==
    /\ pstatus \in {"pending", "running", "completed", "failed", "cancelled", "gone"}
    /\ chain \in Attempt /\ (chain.busy => chain.nodes # 0)
    /\ ckpt \in Begun
    /\ kept \in Stored
    /\ attempts \in 0..MaxAttempts
    /\ lowered \in 0..MaxDegradations
    /\ ResultIsUnbroken

-----------------------------------------------------------------------------

\* The empty sequence is a beginning.
LEMMA NothingBegun == <<>> \in Begun
BY PipelineAssumption DEF Begun

\* A beginning is the chain up to its length, and a segment that answers extends
\* it by one.
LEMMA ForwardedBegins ==
  ASSUME chain \in Attempt
  PROVE  /\ Len(chain.hidden) \in Nat /\ Len(chain.hidden) < Segments
         /\ chain.hidden = [i \in 1..Len(chain.hidden) |-> i]
         /\ Forwarded = [i \in 1..Len(chain.hidden) + 1 |-> i]
         /\ Len(chain.hidden) + 1 < Segments => Forwarded \in Begun
<1> DEFINE h == chain.hidden
<1>1. h \in Seq(Nat) /\ Len(h) \in Nat /\ Len(h) < Segments /\ \A i \in 1..Len(h) : h[i] = i
  BY DEF Begun, Attempt
<1>2. /\ Forwarded \in Seq(Nat) /\ Len(Forwarded) = Len(h) + 1
      /\ \A i \in 1..Len(h) + 1 : Forwarded[i] = i
  BY <1>1 DEF Forwarded
<1>3. Len(h) + 1 < Segments => Forwarded \in Begun
  BY <1>2 DEF Begun
<1>4. h = [i \in 1..Len(h) |-> i]
  BY <1>1
<1>5. Forwarded = [i \in 1..Len(h) + 1 |-> i]
  BY <1>1, <1>2
<1> QED  BY <1>1, <1>3, <1>4, <1>5

\* What is written to the store is well formed if the task is.
LEMMA SnapshotStored ==
  ASSUME NEW s, NEW c \in Begun, NEW a \in 0..MaxAttempts, NEW d \in 0..MaxDegradations
  PROVE  TaskSnapshot(s, c, a, d) \in Stored
BY NothingBegun, PipelineAssumption DEF TaskSnapshot, Stored

\* Steps of the running attempt.
LEMMA ChainSteps ==
  ASSUME PipeInv, SegmentEnds \/ ChainEnds \/ SegmentIsTransient \/ SegmentFails
  PROVE  PipeInv'
<1> USE PipelineAssumption DEF PipeInv
<1>q. Quiet \in Attempt /\ ~Quiet.busy
  BY NothingBegun DEF Quiet, Attempt
<1>h. /\ Len(chain.hidden) \in Nat /\ Len(chain.hidden) < Segments
      /\ chain.hidden = [i \in 1..Len(chain.hidden) |-> i]
      /\ Forwarded = [i \in 1..Len(chain.hidden) + 1 |-> i]
      /\ Len(chain.hidden) + 1 < Segments => Forwarded \in Begun
  BY ForwardedBegins
<1>1. CASE SegmentEnds
  <2>1. Len(chain.hidden) + 1 < Segments
    BY <1>1, <1>h DEF SegmentEnds, HasNext, Attempt
  <2>2. chain' \in Attempt /\ (chain'.busy => chain'.nodes # 0) /\ ckpt' \in Begun
    BY <1>1, <1>h, <2>1 DEF SegmentEnds, Attempt
  <2> QED  BY <1>1, <2>2 DEF SegmentEnds, ResultIsUnbroken
<1>2. CASE ChainEnds
  <2>1. chain' \in Attempt /\ ~chain'.busy /\ ckpt' \in Begun
    BY <1>2, <1>q, NothingBegun DEF ChainEnds, Cleared
  <2>2. kept' \in Stored
    BY <1>2, SnapshotStored, NothingBegun DEF ChainEnds, Persisted
  <2>3. ResultIsUnbroken'
    <3> SUFFICES ASSUME pstatus' = "completed"
                 PROVE  \E n \in output'.node_count..Segments : output'.hidden = [i \in 1..n |-> i]
      BY DEF ResultIsUnbroken
    <3>1. CASE pstatus = "running"
      <4> DEFINE n == IF HasNext THEN Len(chain.hidden) + 1 ELSE Len(chain.hidden)
      <4>1. /\ output'.node_count = chain.nodes /\ chain.nodes \in Nat
            /\ output'.hidden = IF HasNext THEN Forwarded ELSE chain.hidden
        BY <1>2, <3>1 DEF ChainEnds, Attempt
      <4>2. n \in chain.nodes..Segments
        BY <1>2, <1>h, <4>1 DEF ChainEnds, HasNext
      <4>3. output'.hidden = [i \in 1..n |-> i]
        BY <1>h, <4>1
      <4> HIDE DEF n
      <4> QED  BY <4>1, <4>2, <4>3
    <3>2. CASE pstatus # "running"
      BY <1>2, <3>2 DEF ChainEnds, ResultIsUnbroken
    <3> QED  BY <3>1, <3>2
  <2> QED  BY <1>2, <2>1, <2>2, <2>3 DEF ChainEnds
<1>3. CASE SegmentIsTransient
  <2>1. attempts' \in 0..MaxAttempts
    BY <1>3 DEF SegmentIsTransient, Retried
  <2>2. kept' \in Stored
    BY <1>3, <2>1, SnapshotStored DEF SegmentIsTransient, Retried, Persisted
  <2> QED  BY <1>3, <1>q, <2>1, <2>2 DEF SegmentIsTransient, Retried, ResultIsUnbroken
<1>4. CASE SegmentFails
  <2>1. kept' \in Stored
    BY <1>4, SnapshotStored DEF SegmentFails, Persisted
  <2> QED  BY <1>4, <1>q, <2>1 DEF SegmentFails, ResultIsUnbroken
<1> QED  BY <1>1, <1>2, <1>3, <1>4

\* Steps of the scheduler, and restarts.
LEMMA MasterSteps ==
  ASSUME PipeInv,
         \/ AssignPipeline \/ ForceLocal \/ PipelineTimesOut \/ DegradePipeline
         \/ CancelPipeline \/ PersistPipeline \/ RestartPipeline
  PROVE  PipeInv'
<1> USE PipelineAssumption DEF PipeInv
<1>d. ASSUME NEW n \in {1, Segments}, Dispatched(n)
      PROVE  chain' \in Attempt /\ (chain'.busy => chain'.nodes # 0)
  BY <1>d, NothingBegun DEF Dispatched, Resumed, Attempt
<1>1. CASE AssignPipeline
  <2>1. chain' \in Attempt /\ (chain'.busy => chain'.nodes # 0)
    BY <1>1, <1>d DEF AssignPipeline
  <2>2. kept' \in Stored
    BY <1>1, SnapshotStored DEF AssignPipeline, Persisted
  <2> QED  BY <1>1, <2>1, <2>2 DEF AssignPipeline, ResultIsUnbroken
<1>7. CASE ForceLocal
  <2>1. chain' \in Attempt /\ (chain'.busy => chain'.nodes # 0)
    BY <1>7, <1>d DEF ForceLocal
  <2> QED  BY <1>7, <2>1 DEF ForceLocal, ResultIsUnbroken
<1>2. CASE PipelineTimesOut
  BY <1>2 DEF PipelineTimesOut, ResultIsUnbroken
<1>3. CASE DegradePipeline
  BY <1>3 DEF DegradePipeline, ResultIsUnbroken
<1>4. CASE CancelPipeline
  <2>1. kept' \in Stored
    BY <1>4, SnapshotStored DEF CancelPipeline, Persisted
  <2> QED  BY <1>4, <2>1 DEF CancelPipeline, ResultIsUnbroken
<1>5. CASE PersistPipeline
  BY <1>5, SnapshotStored DEF PersistPipeline, ResultIsUnbroken
<1>6. CASE RestartPipeline
  <2>1. chain' \in Attempt /\ ~chain'.busy
    BY <1>6, NothingBegun DEF RestartPipeline, Quiet, Attempt
  <2> QED  BY <1>6, <2>1 DEF RestartPipeline, Stored, ResultIsUnbroken
<1> QED  BY <1>1, <1>2, <1>3, <1>4, <1>5, <1>6, <1>7

-----------------------------------------------------------------------------

\* The strengthened invariant holds of every pipeline task.
THEOREM PipelineInvariant == PipeSpec => []PipeInv
<1>1. PipeInit => PipeInv
  BY NothingBegun, PipelineAssumption DEF PipeInit, PipeInv, Attempt, Quiet, Stored, ResultIsUnbroken
<1>2. PipeInv /\ [PipeNext]_pipeVars => PipeInv'
  <2> SUFFICES ASSUME PipeInv, [PipeNext]_pipeVars PROVE PipeInv'
    OBVIOUS
  <2>1. CASE PipeNext
    BY <2>1, ChainSteps, MasterSteps DEF PipeNext
  <2>2. CASE UNCHANGED pipeVars
    BY <2>2 DEF pipeVars, PipeInv, ResultIsUnbroken
  <2> QED  BY <2>1, <2>2
<1> QED  BY <1>1, <1>2, PTL DEF PipeSpec

\* No attempt and no checkpoint ever holds all segments: model_shards and
\* assigned_nodes have an entry to go on with (_dispatch_pipeline).
THEOREM PipelineTypes == PipeSpec => []PipeTypeOK
<1>1. PipeInv => PipeTypeOK
  BY DEF PipeInv, PipeTypeOK, Attempt, Stored, Begun
<1> QED  BY <1>1, PipelineInvariant, PTL

\* A completed pipeline went through the segments from the first one on, each
\* once and in order, through as many at least as it was given nodes, whatever
\* was retried, resumed, forced onto one node, degraded or restored on the way.
THEOREM UnbrokenChain == PipeSpec => []ResultIsUnbroken
<1>1. PipeInv => ResultIsUnbroken
  BY DEF PipeInv
<1> QED  BY <1>1, PipelineInvariant, PTL

-----------------------------------------------------------------------------
(* The directory of KV caches                                              *)

Call == [pc : {"none", "export", "import", "record"}, chief : Chiefs \cup {NoNode},
         cache : Caches \cup {NoNode}, to : Hosts \cup {NoNode}]

\* A table with one entry for a name, whose copies were imported.
Sound(d) ==
    /\ IsFiniteSet(d)
    /\ \A x, y \in d : x.id = y.id => x = y
    /\ \A e \in d : e.id[2] # NoNode => e.node = e.id[2] /\ e.id \in imported

Bounded(d) == Cardinality(d) <= MaxKvCache

\* The inductive invariant: what is pushed is as sound as what it was taken
\* from, and a transfer that has come to its last step has imported its copy.
DirectoryInv ==
    /\ kvTime \in 0..MaxKvTime
    /\ DOMAIN directory = Chiefs
    /\ transfer \in [Transfers -> Call]
    /\ \A m \in Chiefs : Sound(directory[m]) /\ Bounded(directory[m])
    /\ \A p \in pushed : p.to \in Chiefs /\ Sound(p.kv)
    /\ \A j \in Transfers :
          /\ transfer[j].pc # "none" =>
                transfer[j].chief \in Chiefs /\ transfer[j].cache \in Caches /\ transfer[j].to \in Hosts
          /\ transfer[j].pc = "record" => <<transfer[j].cache, transfer[j].to>> \in imported

-----------------------------------------------------------------------------

\* Whatever is trimmed is within the limit and as sound as before.
LEMMA TrimmedSound ==
    ASSUME NEW d, Sound(d), NEW r \in Trimmed(d)
    PROVE  Sound(r) /\ Bounded(r)
<1>1. r \subseteq d /\ IsFiniteSet(r)
    BY FS_Subset DEF Trimmed, Sound
<1>2. Cardinality(d) \in Nat
    BY FS_CardinalityType DEF Sound
<1> QED
    BY <1>1, <1>2, DirectoryAssumption DEF Trimmed, Sound, Bounded

\* So is what remains when entries are dropped.
LEMMA RestSound ==
    ASSUME NEW d, Sound(d), Bounded(d), NEW old
    PROVE  Sound(d \ old) /\ Bounded(d \ old)
<1>1. IsFiniteSet(d \ old) /\ Cardinality(d \ old) <= Cardinality(d)
    BY FS_Subset, d \ old \in SUBSET d DEF Sound
<1>2. Cardinality(d) \in Nat /\ Cardinality(d \ old) \in Nat
    BY <1>1, FS_CardinalityType DEF Sound
<1> QED
    BY <1>1, <1>2, DirectoryAssumption DEF Sound, Bounded

\* One entry replaces the one of its name.
LEMMA PutSound ==
    ASSUME NEW d, Sound(d), NEW e, e.id[2] # NoNode => e.node = e.id[2] /\ e.id \in imported
    PROVE  Sound(Put(d, e))
<1>1. {x \in d : x.id # e.id} \in SUBSET d
    OBVIOUS
<1>2. IsFiniteSet({x \in d : x.id # e.id})
    BY <1>1, FS_Subset DEF Sound
<1>3. IsFiniteSet(Put(d, e))
    BY <1>2, FS_AddElement DEF Put
<1> QED
    BY <1>3 DEF Put, Sound

\* Entries of another master replace those of the same names.
LEMMA MergedSound ==
    ASSUME NEW d, NEW e, Sound(d), Sound(e)
    PROVE  Sound(Merged(d, e))
<1>1. {x \in d : \A y \in e : y.id # x.id} \in SUBSET d
    OBVIOUS
<1>2. IsFiniteSet({x \in d : \A y \in e : y.id # x.id})
    BY <1>1, FS_Subset DEF Sound
<1>3. IsFiniteSet(Merged(d, e))
    BY <1>2, FS_Union DEF Merged, Sound
<1> QED
    BY <1>3 DEF Merged, Sound

\* What was imported once stays so.
LEMMA SoundLater ==
    ASSUME NEW d, Sound(d), imported \subseteq imported'
    PROVE  Sound(d)'
BY DEF Sound

\* A step that replaces the table of one master, at most, by a sound one and
\* leaves transfers and pushed states alone.
LEMMA OneTableChanges ==
    ASSUME DirectoryInv, NEW m \in Chiefs, NEW r, Sound(r), Bounded(r),
           directory' = [directory EXCEPT ![m] = r], imported' = imported,
           kvTime' \in 0..MaxKvTime, UNCHANGED transfer,
           \A p \in pushed' : p \in pushed
    PROVE  DirectoryInv'
BY DEF DirectoryInv, Sound, Bounded

\* The steps of the routes and of the synchronisation.
LEMMA TableSteps ==
    ASSUME DirectoryInv, NEW m \in Chiefs,
           \/ FindKv(m) \/ RestartChief(m) \/ ReceiveSyncedState \/ LosePush
           \/ \E n \in Hosts, c \in Caches : RegisterKv(m, c, n)
           \/ \E k \in Chiefs : PushState(m, k)
    PROVE  DirectoryInv'
<1> USE DirectoryAssumption
<1>1. CASE FindKv(m)
  <2>1. PICK old \in SUBSET directory[m] : directory' = [directory EXCEPT ![m] = @ \ old]
      BY <1>1 DEF FindKv
  <2>2. Sound(directory[m] \ old) /\ Bounded(directory[m] \ old)
      BY RestSound DEF DirectoryInv
  <2> QED
      BY <1>1, <2>1, <2>2, OneTableChanges DEF FindKv, DirectoryInv
<1>2. CASE RestartChief(m)
  <2>1. Sound({}) /\ Bounded({})
      BY FS_EmptySet DEF Sound, Bounded
  <2>2. transfer' \in [Transfers -> Call]
      BY <1>2 DEF RestartChief, DirectoryInv, NoTransfer, Call
  <2>3. \A j \in Transfers : transfer'[j] = transfer[j] \/ transfer'[j].pc = "none"
      BY <1>2 DEF RestartChief, NoTransfer
  <2> QED
      BY <1>2, <2>1, <2>2, <2>3 DEF RestartChief, DirectoryInv, Sound, Bounded
<1>3. CASE ReceiveSyncedState
  <2>0. PICK p \in pushed : \E r \in Trimmed(Merged(directory[p.to], p.kv)) :
            directory' = [directory EXCEPT ![p.to] = r]
      BY <1>3 DEF ReceiveSyncedState
  <2>1. PICK r \in Trimmed(Merged(directory[p.to], p.kv)) :
            directory' = [directory EXCEPT ![p.to] = r]
      BY <2>0
  <2>2. p.to \in Chiefs /\ Sound(r) /\ Bounded(r)
      BY MergedSound, TrimmedSound DEF DirectoryInv
  <2> QED
      BY ZenonT(30), <1>3, <2>1, <2>2, OneTableChanges DEF ReceiveSyncedState, DirectoryInv
<1>4. CASE LosePush
    BY <1>4 DEF LosePush, DirectoryInv, Sound, Bounded
<1>5. ASSUME NEW n \in Hosts, NEW c \in Caches, RegisterKv(m, c, n) PROVE DirectoryInv'
  <2> DEFINE e == [id |-> <<c, NoNode>>, node |-> n, at |-> kvTime']
  <2>1. PICK r \in Trimmed(Put(directory[m], e)) : directory' = [directory EXCEPT ![m] = r]
      BY <1>5 DEF RegisterKv
  <2>2. Sound(Put(directory[m], e))
      BY PutSound DEF DirectoryInv
  <2>3. Sound(r) /\ Bounded(r)
      BY <2>2, TrimmedSound
  <2>4. kvTime' \in 0..MaxKvTime
      BY <1>5 DEF RegisterKv, DirectoryInv
  <2> QED
      BY <1>5, <2>1, <2>3, <2>4, OneTableChanges DEF RegisterKv
<1>6. ASSUME NEW k \in Chiefs, PushState(m, k) PROVE DirectoryInv'
    BY <1>6 DEF PushState, DirectoryInv, Sound, Bounded
<1> QED
    BY <1>1, <1>2, <1>3, <1>4, <1>5, <1>6

\* The steps of a transfer: only an import that was stored and confirmed leads
\* to the last one.
LEMMA TransferSteps ==
    ASSUME DirectoryInv, NEW j \in Transfers,
           \/ \E m \in Chiefs, c \in Caches, to \in Hosts : SyncLooks(j, m, c, to)
           \/ SyncExports(j) \/ SyncImports(j) \/ SyncRecords(j)
    PROVE  DirectoryInv'
<1> USE DirectoryAssumption
<1>1. ASSUME NEW m \in Chiefs, NEW c \in Caches, NEW to \in Hosts, SyncLooks(j, m, c, to)
      PROVE  DirectoryInv'
    BY <1>1 DEF SyncLooks, DirectoryInv, Call, Sound, Bounded
<1>2. CASE SyncExports(j)
    BY <1>2 DEF SyncExports, DirectoryInv, Call, NoTransfer, Sound, Bounded
<1>3. CASE SyncImports(j)
  <2>1. PICK stored_, answered \in BOOLEAN :
            /\ imported' = IF stored_ THEN imported \cup {<<transfer[j].cache, transfer[j].to>>} ELSE imported
            /\ transfer' = [transfer EXCEPT ![j] = IF answered /\ stored_
                                                   THEN [@ EXCEPT !.pc = "record"] ELSE NoTransfer]
      BY <1>3 DEF SyncImports, Confirmed
  <2>2. imported \subseteq imported'
      BY <2>1
  <2>3. /\ \A m \in Chiefs : Sound(directory[m])' /\ Bounded(directory[m])'
        /\ \A p \in pushed' : Sound(p.kv)'
      BY <1>3, <2>2 DEF SyncImports, DirectoryInv, Sound, Bounded
  <2>4. transfer' \in [Transfers -> Call]
      BY <2>1 DEF DirectoryInv, Call, NoTransfer
  <2>5. ASSUME NEW i \in Transfers
        PROVE  /\ transfer'[i].pc # "none" =>
                    transfer'[i].chief \in Chiefs /\ transfer'[i].cache \in Caches /\ transfer'[i].to \in Hosts
               /\ transfer'[i].pc = "record" => <<transfer'[i].cache, transfer'[i].to>> \in imported'
    <3>1. CASE i # j
        BY <3>1, <2>1, <2>2 DEF DirectoryInv
    <3>2. CASE i = j /\ answered /\ stored_
      <4>1. transfer[j] \in Call /\ transfer[j].pc = "import"
          BY <1>3 DEF DirectoryInv, SyncImports
      <4>2. transfer'[j] = [transfer[j] EXCEPT !.pc = "record"]
          BY <2>1, <3>2 DEF DirectoryInv
      <4>3. /\ transfer'[j].chief = transfer[j].chief /\ transfer'[j].cache = transfer[j].cache
            /\ transfer'[j].to = transfer[j].to
          BY <4>1, <4>2 DEF Call
      <4>4. <<transfer[j].cache, transfer[j].to>> \in imported'
          BY <2>1, <3>2
      <4> QED
          BY <3>2, <4>1, <4>3, <4>4 DEF DirectoryInv
    <3>3. CASE i = j /\ ~(answered /\ stored_)
        BY <3>3, <2>1 DEF DirectoryInv, NoTransfer
    <3> QED
        BY <3>1, <3>2, <3>3
  <2> QED
      BY <1>3, <2>3, <2>4, <2>5 DEF SyncImports, DirectoryInv, Bounded
<1>4. CASE SyncRecords(j)
  <2> DEFINE t == transfer[j]
  <2>1. /\ t.chief \in Chiefs /\ <<t.cache, t.to>> \in imported
        /\ transfer' = [transfer EXCEPT ![j] = NoTransfer]
        /\ UNCHANGED <<kvTime, imported, pushed>>
      BY <1>4 DEF SyncRecords, DirectoryInv
  <2>2. /\ transfer' \in [Transfers -> Call]
        /\ \A i \in Transfers : transfer'[i] = transfer[i] \/ transfer'[i].pc = "none"
      BY <2>1 DEF DirectoryInv, NoTransfer, Call
  <2>3. CASE UNCHANGED directory
      BY <2>1, <2>2, <2>3 DEF DirectoryInv, Sound, Bounded
  <2>4. ASSUME NEW e \in directory[t.chief],
               NEW r \in Trimmed(Put(directory[t.chief], [id |-> <<t.cache, t.to>>, node |-> t.to, at |-> e.at])),
               directory' = [directory EXCEPT ![t.chief] = r]
        PROVE  DirectoryInv'
    <3>1. Sound(Put(directory[t.chief], [id |-> <<t.cache, t.to>>, node |-> t.to, at |-> e.at]))
        BY <2>1, PutSound DEF DirectoryInv
    <3>2. Sound(r) /\ Bounded(r)
        BY <3>1, TrimmedSound
    <3> QED
        BY <2>1, <2>2, <2>4, <3>2 DEF DirectoryInv, Sound, Bounded
  <2> QED
      BY <1>4, <2>3, <2>4 DEF SyncRecords
<1> QED
    BY <1>1, <1>2, <1>3, <1>4

\* The strengthened invariant holds of every directory.
THEOREM DirectoryInvariant == DirectorySpec => []DirectoryInv
<1>1. DirectoryInit => DirectoryInv
  <2> SUFFICES ASSUME DirectoryInit PROVE DirectoryInv
      OBVIOUS
  <2>1. Sound({}) /\ Bounded({})
      BY FS_EmptySet, DirectoryAssumption DEF Sound, Bounded
  <2> QED
      BY <2>1, DirectoryAssumption DEF DirectoryInit, DirectoryInv, NoTransfer, Call
<1>2. DirectoryInv /\ [DirectoryNext]_directoryVars => DirectoryInv'
  <2> SUFFICES ASSUME DirectoryInv, [DirectoryNext]_directoryVars PROVE DirectoryInv'
      OBVIOUS
  <2>1. CASE UNCHANGED directoryVars
      BY <2>1 DEF directoryVars, DirectoryInv, Sound, Bounded
  <2>2. CASE \E m \in Chiefs :
                \/ FindKv(m) \/ RestartChief(m)
                \/ \E n \in Hosts, c \in Caches : RegisterKv(m, c, n)
                \/ \E k \in Chiefs : PushState(m, k)
      BY <2>2, TableSteps
  <2>3. CASE ReceiveSyncedState \/ LosePush
    <3>1. CASE Chiefs = {}
        BY <2>3, <3>1 DEF ReceiveSyncedState, LosePush, DirectoryInv, Sound, Bounded
    <3> QED
        BY <2>3, <3>1, TableSteps
  <2>4. CASE \E j \in Transfers :
                \/ \E m \in Chiefs, c \in Caches, to \in Hosts : SyncLooks(j, m, c, to)
                \/ SyncExports(j) \/ SyncImports(j) \/ SyncRecords(j)
      BY <2>4, TransferSteps
  <2> QED
      BY <2>1, <2>2, <2>3, <2>4 DEF DirectoryNext
<1> QED
    BY <1>1, <1>2, PTL DEF DirectorySpec

\* Every name is in a directory once, and the limit holds, whatever routes,
\* transfers and pushed states do.
THEOREM DirectoryTypes == DirectorySpec => []DirectoryTypeOK
<1>1. DirectoryInv => DirectoryTypeOK
    BY DEF DirectoryInv, DirectoryTypeOK, Sound, Bounded
<1> QED
    BY <1>1, DirectoryInvariant, PTL

\* Where a directory sends a caller for a copy, the cache was imported.
THEOREM CopiesWereImported == DirectorySpec => []CopyWasImported
<1>1. DirectoryInv => CopyWasImported
    BY DEF DirectoryInv, CopyWasImported, Sound
<1> QED
    BY <1>1, DirectoryInvariant, PTL

-----------------------------------------------------------------------------
(* Test batches                                                            *)

\* The inductive invariant: a row that has ended is how its last run ended, and
\* the store has no ended row.
BatchInv ==
    /\ upto \in 0..JobCount + 1
    /\ row \in [Jobs -> {"none", "pending", "running"} \cup Ends]
    /\ truth \in [Jobs -> {"none"} \cup Ends]
    /\ batchFile.row \in [Jobs -> {"none", "pending", "running"}]
    /\ \A j \in Jobs : row[j] \in Ends => truth[j] = row[j]

\* The strengthened invariant holds of every batch.
THEOREM BatchInvariant == BatchSpec => []BatchInv
<1> USE BatchAssumption
<1>1. BatchInit => BatchInv
    BY DEF BatchInit, BatchInv, NoRows, Ends
<1>2. BatchInv /\ [BatchNext]_batchVars => BatchInv'
  <2> SUFFICES ASSUME BatchInv, [BatchNext]_batchVars PROVE BatchInv'
      OBVIOUS
  <2> USE DEF BatchInv
  <2>1. CASE AssignJob
      BY <2>1 DEF AssignJob, Jobs, Ends
  <2>2. CASE RefuseBatch \/ RegisterBatch
      BY <2>2 DEF RefuseBatch, RegisterBatch
  <2>3. CASE PersistBatch
      BY <2>3 DEF PersistBatch
  <2>4. CASE RestartBatch
      BY <2>4 DEF RestartBatch, Ends
  <2>5. ASSUME NEW j \in Jobs, TaskStarts(j) \/ TaskReturns(j) \/ CleanupJob(j) PROVE BatchInv'
      BY <2>5 DEF TaskStarts, TaskReturns, CleanupJob, Ends
  <2>6. ASSUME NEW j \in Jobs, NEW e \in Ends, TaskEnds(j, e) PROVE BatchInv'
      BY <2>6 DEF TaskEnds
  <2>7. CASE UNCHANGED batchVars
      BY <2>7 DEF batchVars
  <2> QED
      BY <2>1, <2>2, <2>3, <2>4, <2>5, <2>6, <2>7 DEF BatchNext
<1> QED
    BY <1>1, <1>2, PTL DEF BatchSpec

\* A row that ended a certain way did so, hence no more are counted than did.
LEMMA CountedDidEnd ==
    ASSUME BatchInv, NEW e \in Ends
    PROVE  Cardinality({j \in Jobs : row[j] = e}) <= Cardinality({j \in Jobs : truth[j] = e})
<1>1. IsFiniteSet(Jobs)
    BY FS_Interval, BatchAssumption DEF Jobs
<1>2. IsFiniteSet({j \in Jobs : truth[j] = e})
    BY <1>1, FS_Subset, {j \in Jobs : truth[j] = e} \in SUBSET Jobs
<1>3. {j \in Jobs : row[j] = e} \in SUBSET {j \in Jobs : truth[j] = e}
    BY DEF BatchInv
<1> QED
    BY <1>2, <1>3, FS_Subset

\* A batch that is reported finished is finished, with the verdict of its jobs,
\* for any number of jobs, refusals, cleanups and restarts.
THEOREM VerdictsAreTrue == BatchSpec => []VerdictIsTrue
<1>1. BatchInv => VerdictIsTrue
  <2> SUFFICES ASSUME BatchInv PROVE VerdictIsTrue
      OBVIOUS
  <2>1. \A j \in Jobs : (IF row[j] = "none" THEN "pending" ELSE row[j]) \in States
      BY DEF States
  <2>2. Told = "completed" => \A j \in Jobs : truth[j] \in {"passed", "broke"}
    <3>1. Told = "completed" => States \subseteq {"passed", "broke"}
        BY DEF Told, DeriveStatus
    <3> QED
        BY <2>1, <3>1 DEF BatchInv, Ends
  <2>3. Told = "failed" => \A j \in Jobs : truth[j] = "failed"
    <3>1. Told = "failed" => States \subseteq {"failed"}
        BY DEF Told, DeriveStatus
    <3> QED
        BY <2>1, <3>1 DEF BatchInv, Ends
  <2>4. Told = "partial" => \A j \in Jobs : truth[j] \in Ends
    <3>1. Told = "partial" => States \subseteq Ends
        BY DEF Told, DeriveStatus
    <3> QED
        BY <2>1, <3>1 DEF BatchInv, Ends
  <2>5. "passed" \in Ends /\ "failed" \in Ends
      BY DEF Ends
  <2> QED
      BY <2>2, <2>3, <2>4, <2>5, CountedDidEnd DEF VerdictIsTrue, Summary
<1> QED
    BY <1>1, BatchInvariant, PTL

-----------------------------------------------------------------------------
(* Idempotency keys                                                        *)

Entry == [key : IdemKeys, task : Requests]
Submission == [at : {"new", "assigning", "done"}, key : IdemKeys \cup {NoTask}]

\* A sequence of entries in which no key comes twice.
Keyed(ks) ==
    /\ ks \in Seq(Entry)
    /\ \A i, j \in 1..Len(ks) : ks[i].key = ks[j].key => i = j

\* k leads to q.
LeadsTo(ks, k, q) == \E n \in 1..Len(ks) : ks[n] = [key |-> k, task |-> q]

SubmitTyped ==
    /\ req \in [Requests -> Submission]
    /\ tstat \in [Requests -> {"none", "active", "partial", "final", "gone"}]
    /\ Keyed(keys) /\ Len(keys) <= MaxKeys
    /\ excused \subseteq IdemKeys
    /\ \A q \in Requests : /\ req[q].at = "new" => tstat[q] = "none"
                           /\ req[q].at # "new" => req[q].key \in IdemKeys

\* Of the submissions with a key one at most is under way, beside it no task of
\* the key is active, and an active one whose submission has ended is the task
\* the key leads to.
KeysLead ==
    \A k \in IdemKeys \ excused : \A q, r \in Requests :
        req[q].key = k /\ req[r].key = k =>
            /\ req[q].at = "assigning" /\ req[r].at = "assigning" => q = r
            /\ req[q].at = "assigning" /\ tstat[r] = "active" => q = r
            /\ req[q].at = "done" /\ tstat[q] = "active" => LeadsTo(keys, k, q)

\* The inductive invariant of submissions.
SubmitInv == SubmitTyped /\ KeysLead

\* Dropping a key keeps the others in their order and with their tasks.
LEMMA WithoutKeyFits ==
    ASSUME Keyed(keys), NEW k \in IdemKeys
    PROVE  /\ Keyed(WithoutKey(k)) /\ Len(WithoutKey(k)) <= Len(keys)
           /\ \A i \in IdemKeys, q \in Requests :
                 i # k /\ LeadsTo(keys, i, q) => LeadsTo(WithoutKey(k), i, q)
<1>1. CASE k \notin KeysOf(keys)
    BY <1>1 DEF WithoutKey, Keyed
<1>2. CASE k \in KeysOf(keys)
  <2> DEFINE n == CHOOSE n \in DOMAIN keys : keys[n].key = k
             ks == RemoveAt(keys, n)
  <2>1. keys \in Seq(Entry) /\ DOMAIN keys = 1..Len(keys) /\ Len(keys) \in Nat
      BY DEF Keyed
  <2>2. n \in 1..Len(keys) /\ keys[n].key = k
      BY <1>2, <2>1 DEF KeysOf
  <2>3. ks = SubSeq(keys, 1, n - 1) \o SubSeq(keys, n + 1, Len(keys))
      BY DEF RemoveAt
  <2>4. /\ ks \in Seq(Entry) /\ Len(ks) = Len(keys) - 1
        /\ \A i \in 1..Len(ks) : ks[i] = IF i < n THEN keys[i] ELSE keys[i + 1]
    <3> DEFINE a == SubSeq(keys, 1, n - 1)
               b == SubSeq(keys, n + 1, Len(keys))
    <3> HIDE DEF n
    <3>1. a \in Seq(Entry) /\ Len(a) = n - 1 /\ \A i \in 1..n - 1 : a[i] = keys[i]
        BY <2>1, <2>2
    <3>2. b \in Seq(Entry) /\ Len(b) = Len(keys) - n /\ \A i \in 1..Len(keys) - n : b[i] = keys[n + i]
      <4>1. Len(keys) - (n + 1) + 1 = Len(keys) - n /\ n + 1 \in Nat /\ n \in 1..Len(keys)
          BY <2>1, <2>2
      <4>2. b = [i \in 1..Len(keys) - n |-> keys[n + 1 + i - 1]]
          BY <2>1, <4>1
      <4>3. ASSUME NEW i \in 1..Len(keys) - n PROVE n + 1 + i - 1 = n + i /\ keys[n + i] \in Entry
          BY <2>1, <4>1
      <4>4. b = [i \in 1..Len(keys) - n |-> keys[n + i]]
          BY <4>2, <4>3
      <4> HIDE DEF b
      <4> QED
          BY ONLY <2>1, <4>1, <4>3, <4>4
    <3>0. ks = a \o b
        BY <2>3
    <3> HIDE DEF a, b, ks
    <3>3. ks \in Seq(Entry) /\ Len(ks) = Len(keys) - 1
      <4>1. a \in Seq(Entry) /\ b \in Seq(Entry)
          BY <3>1, <3>2
      <4>2. a \o b \in Seq(Entry)
          BY ONLY <4>1
      <4>3. Len(a \o b) = Len(a) + Len(b)
          BY ONLY <4>1
      <4> QED
          BY ONLY <4>2, <4>3, <3>0, <3>1, <3>2, <2>1, <2>2
    <3>4. ASSUME NEW i \in 1..Len(ks) PROVE ks[i] = IF i < n THEN keys[i] ELSE keys[i + 1]
      <4>1. ks[i] = IF i <= Len(a) THEN a[i] ELSE b[i - Len(a)]
          BY <3>0, <3>1, <3>2, <3>3, <3>4
      <4>2. CASE i < n
          BY <2>1, <2>2, <3>1, <3>3, <4>1, <4>2
      <4>3. CASE ~(i < n)
        <5>1. i - (n - 1) \in 1..Len(keys) - n /\ n + (i - (n - 1)) = i + 1
            BY <2>1, <2>2, <3>3, <4>3
        <5> QED
            BY <2>1, <2>2, <3>1, <3>2, <3>3, <4>1, <4>3, <5>1
      <4> QED
          BY <4>2, <4>3
    <3> QED
        BY <3>3, <3>4
  <2>5. WithoutKey(k) = ks
      BY <1>2 DEF WithoutKey
  <2> HIDE DEF n, ks
  <2>6. Keyed(ks)
      BY <2>1, <2>2, <2>4 DEF Keyed
  <2>7. ASSUME NEW i \in IdemKeys, NEW q \in Requests, i # k, LeadsTo(keys, i, q)
        PROVE  LeadsTo(ks, i, q)
    <3>1. PICK p \in 1..Len(keys) : keys[p] = [key |-> i, task |-> q]
        BY <2>7 DEF LeadsTo
    <3>2. p # n
        BY <2>2, <2>7, <3>1
    <3>3. CASE p < n
        BY <2>1, <2>2, <2>4, <3>1, <3>3 DEF LeadsTo
    <3>4. CASE p > n
      <4>1. p - 1 \in 1..Len(ks) /\ ~(p - 1 < n) /\ (p - 1) + 1 = p
          BY <2>1, <2>2, <2>4, <3>4
      <4>2. ks[p - 1] = keys[p]
          BY <2>4, <4>1
      <4> QED
          BY <3>1, <4>1, <4>2 DEF LeadsTo
    <3> QED
        BY <2>1, <2>2, <3>2, <3>3, <3>4
  <2> QED
      BY <2>1, <2>4, <2>5, <2>6, <2>7
<1> QED
    BY <1>1, <1>2

\* Registering a key makes it lead to its task; of the other keys, those that
\* stay in the table lead where they led.
LEMMA RegisteredFits ==
    ASSUME Keyed(keys), Len(keys) <= MaxKeys, NEW k \in IdemKeys, NEW t \in Requests
    PROVE  /\ Keyed(RegisteredKey(k, t)) /\ Len(RegisteredKey(k, t)) <= MaxKeys
           /\ LeadsTo(RegisteredKey(k, t), k, t)
           /\ \A i \in IdemKeys, q \in Requests :
                 i # k /\ i \in KeysOf(RegisteredKey(k, t)) /\ LeadsTo(keys, i, q)
                    => LeadsTo(RegisteredKey(k, t), i, q)
<1> USE GateAssumption
<1> DEFINE ks == RegisteredKey(k, t)
<1>0. keys \in Seq(Entry) /\ DOMAIN keys = 1..Len(keys) /\ Len(keys) \in Nat
    BY DEF Keyed
<1>1. CASE k \in KeysOf(keys)
  <2>1. ks = [n \in DOMAIN keys |-> IF keys[n].key = k THEN [keys[n] EXCEPT !.task = t] ELSE keys[n]]
      BY <1>1 DEF RegisteredKey
  <2>2. \A n \in 1..Len(keys) : keys[n] \in Entry
      BY <1>0
  <2>3. /\ ks \in Seq(Entry) /\ Len(ks) = Len(keys)
        /\ \A n \in 1..Len(keys) :
              ks[n] = IF keys[n].key = k THEN [key |-> k, task |-> t] ELSE keys[n]
    <3>1. \A n \in 1..Len(keys) : keys[n].key = k => [keys[n] EXCEPT !.task = t] = [key |-> k, task |-> t]
        BY <2>2 DEF Entry
    <3>2. [key |-> k, task |-> t] \in Entry
        BY DEF Entry
    <3> HIDE DEF ks
    <3> QED
        BY <1>0, <2>1, <2>2, <3>1, <3>2
  <2>4. PICK p \in 1..Len(keys) : keys[p].key = k
      BY <1>0, <1>1 DEF KeysOf
  <2> HIDE DEF ks
  <2>5. Keyed(ks) /\ Len(ks) <= MaxKeys
      BY <1>0, <2>3 DEF Keyed
  <2>6. LeadsTo(ks, k, t)
      BY <1>0, <2>3, <2>4 DEF LeadsTo
  <2>7. \A i \in IdemKeys, q \in Requests : i # k /\ LeadsTo(keys, i, q) => LeadsTo(ks, i, q)
      BY <1>0, <2>3 DEF LeadsTo
  <2> QED
      BY <2>5, <2>6, <2>7 DEF ks
<1>2. CASE k \notin KeysOf(keys)
  <2> DEFINE rest == IF Len(keys) >= MaxKeys THEN Tail(keys) ELSE keys
             e == [key |-> k, task |-> t]
             d == IF Len(keys) >= MaxKeys THEN 1 ELSE 0
  <2>1. ks = Append(rest, e) /\ e \in Entry
      BY <1>2 DEF RegisteredKey, Entry
  <2>2. /\ rest \in Seq(Entry) /\ Len(rest) = Len(keys) - d
        /\ \A n \in 1..Len(rest) : rest[n] = keys[n + d]
        /\ d \in 0..1 /\ Len(rest) < MaxKeys
      BY <1>0
  <2> HIDE DEF rest, d, e
  <2>3. /\ ks \in Seq(Entry) /\ Len(ks) = Len(rest) + 1
        /\ \A n \in 1..Len(rest) : ks[n] = keys[n + d]
        /\ ks[Len(ks)] = e
      BY <2>1, <2>2
  <2>4. \A n \in 1..Len(keys) : keys[n].key # k
      BY <1>0, <1>2 DEF KeysOf
  <2>5. e.key = k /\ DOMAIN ks = 1..Len(ks) /\ Len(rest) \in Nat
      BY <2>2, <2>3 DEF e
  <2>6. \A i \in 1..Len(ks) : \/ i \in 1..Len(rest) /\ i + d \in 1..Len(keys) /\ ks[i] = keys[i + d]
                              \/ i = Len(ks) /\ ks[i] = e
      BY SMTT(30), <1>0, <2>2, <2>3
  <2> HIDE DEF ks
  <2>7. Keyed(ks) /\ Len(ks) <= MaxKeys
    <3>1. ASSUME NEW i \in 1..Len(ks), NEW j \in 1..Len(ks), ks[i].key = ks[j].key PROVE i = j
      <4>1. CASE i \in 1..Len(rest) /\ j \in 1..Len(rest)
        <5>1. i + d \in 1..Len(keys) /\ j + d \in 1..Len(keys) /\ keys[i + d].key = keys[j + d].key
            BY <2>2, <2>3, <2>5, <2>6, <3>1, <4>1
        <5>2. i + d = j + d
            BY <5>1 DEF Keyed
        <5> QED
            BY <2>2, <5>2
      <4>2. CASE i = Len(ks) /\ j # Len(ks)
          BY <2>3, <2>4, <2>5, <2>6, <3>1, <4>2
      <4>3. CASE j = Len(ks) /\ i # Len(ks)
          BY <2>3, <2>4, <2>5, <2>6, <3>1, <4>3
      <4> QED
          BY <2>3, <2>5, <4>1, <4>2, <4>3
    <3> QED
        BY <2>2, <2>3, <3>1 DEF Keyed
  <2>8. LeadsTo(ks, k, t)
      BY <2>3, <2>5 DEF LeadsTo, e
  <2>9. ASSUME NEW i \in IdemKeys, NEW q \in Requests, i # k, i \in KeysOf(ks), LeadsTo(keys, i, q)
        PROVE  LeadsTo(ks, i, q)
    <3>1. PICK p \in 1..Len(keys) : keys[p] = [key |-> i, task |-> q]
        BY <2>9 DEF LeadsTo
    <3>2. PICK n \in 1..Len(ks) : ks[n].key = i
        BY <2>5, <2>9 DEF KeysOf
    <3>3. n + d \in 1..Len(keys) /\ ks[n] = keys[n + d]
        BY <2>5, <2>6, <2>9, <3>2
    <3>4. n + d = p
        BY <3>1, <3>2, <3>3 DEF Keyed
    <3> QED
        BY <3>1, <3>3, <3>4 DEF LeadsTo
  <2> QED
      BY <2>7, <2>8, <2>9 DEF ks
<1> QED
    BY <1>1, <1>2

\* A key that is in the table leads to its task, and to no other.
LEMMA TaskOfLed ==
    ASSUME Keyed(keys), NEW k \in IdemKeys, NEW q \in Requests, LeadsTo(keys, k, q)
    PROVE  k \in KeysOf(keys) /\ TaskOf(k) = q
<1>1. PICK n \in 1..Len(keys) : keys[n] = [key |-> k, task |-> q]
    BY DEF LeadsTo
<1>2. DOMAIN keys = 1..Len(keys)
    BY DEF Keyed
<1>3. keys[n] \in ToSet(keys) /\ keys[n].key = k /\ keys[n].task = q
    BY <1>1, <1>2 DEF ToSet
<1>4. \A e \in ToSet(keys) : e.key = k => e = keys[n]
    BY <1>1, <1>2, <1>3 DEF ToSet, Keyed
<1>5. (CHOOSE e \in ToSet(keys) : e.key = k) = keys[n]
    BY <1>3, <1>4
<1> QED
    BY <1>2, <1>3, <1>5 DEF KeysOf, TaskOf

\* A look at a key starts a second task only if the first one is not active.
LEMMA LookStep ==
    ASSUME SubmitInv, NEW q \in Requests, NEW k \in IdemKeys, SubmitLooks(q, k)
    PROVE  SubmitInv'
<1> USE GateAssumption DEF SubmitInv
<1>0. /\ req[q].at = "new" /\ tstat[q] = "none" /\ UNCHANGED tstat /\ Keyed(keys)
      /\ req \in [Requests -> Submission]
    BY DEF SubmitLooks, SubmitTyped
<1>1. CASE Reusable(k) /\ tstat[TaskOf(k)] # "gone"
  <2>1. req' = [req EXCEPT ![q] = [at |-> "done", key |-> k]] /\ UNCHANGED <<keys, excused>>
      BY <1>1 DEF SubmitLooks
  <2>2. SubmitTyped'
      BY <1>0, <2>1 DEF SubmitTyped, Submission
  <2>3. KeysLead'
      BY <1>0, <2>1 DEF KeysLead, LeadsTo
  <2> QED
      BY <2>2, <2>3
<1>2. CASE ~(Reusable(k) /\ tstat[TaskOf(k)] # "gone")
  <2>1. /\ req' = [req EXCEPT ![q] = [at |-> "assigning", key |-> k]]
        /\ keys' = IF Reusable(k) THEN keys ELSE WithoutKey(k)
        /\ excused' = IF InFlight(k) = {} THEN excused ELSE excused \cup {k}
      BY <1>2 DEF SubmitLooks
  <2>2. /\ Keyed(keys') /\ Len(keys') <= Len(keys) /\ Len(keys') \in Nat /\ Len(keys) \in Nat
        /\ \A i \in IdemKeys, r \in Requests :
              i # k /\ LeadsTo(keys, i, r) => LeadsTo(keys', i, r)
      BY <1>0, <2>1, WithoutKeyFits DEF Keyed
  <2>3. SubmitTyped'
      BY <1>0, <2>1, <2>2 DEF SubmitTyped, Submission
  <2>4. \A r \in Requests : k \notin excused /\ req[r].at = "done" /\ req[r].key = k => tstat[r] # "active"
    <3> SUFFICES ASSUME NEW r \in Requests, k \notin excused, req[r].at = "done", req[r].key = k,
                        tstat[r] = "active"
                 PROVE  FALSE
        OBVIOUS
    <3>1. LeadsTo(keys, k, r)
        BY DEF KeysLead
    <3> QED
        BY <1>0, <1>2, <3>1, TaskOfLed DEF Reusable
  <2>5. \A r \in Requests : k \notin excused' => ~(req[r].at = "assigning" /\ req[r].key = k)
      BY <2>1 DEF InFlight
  <2>6. ASSUME NEW i \in IdemKeys \ excused', NEW r \in Requests, NEW s \in Requests,
               req'[r].key = i, req'[s].key = i
        PROVE  /\ req'[r].at = "assigning" /\ req'[s].at = "assigning" => r = s
               /\ req'[r].at = "assigning" /\ tstat'[s] = "active" => r = s
               /\ req'[r].at = "done" /\ tstat'[r] = "active" => LeadsTo(keys', i, r)
    <3>1. i \notin excused
        BY <2>1
    <3>2. CASE i # k
      <4>1. r # q /\ s # q /\ req'[r] = req[r] /\ req'[s] = req[s]
          BY <1>0, <2>1, <2>6, <3>2
      <4> QED
          BY <1>0, <2>2, <2>6, <3>1, <3>2, <4>1 DEF KeysLead
    <3>3. CASE i = k
      <4>1. \A p \in Requests \ {q} : req'[p] = req[p]
          BY <1>0, <2>1
      <4>2. \A p \in Requests \ {q} :
                req[p].key = k => req[p].at # "assigning" /\ tstat[p] # "active"
          BY <1>0, <2>4, <2>5, <2>6, <3>1, <3>3 DEF SubmitTyped, Submission
      <4>3. req'[q].at = "assigning"
          BY <1>0, <2>1
      <4> QED
          BY <1>0, <2>6, <3>3, <4>1, <4>2, <4>3
    <3> QED
        BY <3>2, <3>3
  <2>7. KeysLead'
      BY <2>6 DEF KeysLead, LeadsTo
  <2> QED
      BY <2>3, <2>7
<1> QED
    BY <1>1, <1>2

\* A submission that ends leaves the key leading to its task.
LEMMA EndStep ==
    ASSUME SubmitInv, NEW q \in Requests, SubmitEnds(q)
    PROVE  SubmitInv'
<1> USE GateAssumption DEF SubmitInv
<1> DEFINE k == req[q].key
<1>0. /\ req[q].at = "assigning" /\ tstat[q] # "none" /\ UNCHANGED tstat /\ Keyed(keys)
      /\ req \in [Requests -> Submission] /\ req' = [req EXCEPT ![q].at = "done"]
      /\ keys' = RegisteredKey(k, q) /\ excused' = excused \cup (KeysOf(keys) \ KeysOf(keys'))
    BY DEF SubmitEnds, SubmitTyped, RegisterIdempotency
<1>1. k \in IdemKeys
    BY <1>0 DEF SubmitTyped
<1>2. /\ Keyed(keys') /\ Len(keys') <= MaxKeys /\ LeadsTo(keys', k, q)
      /\ \A i \in IdemKeys, r \in Requests :
            i # k /\ i \in KeysOf(keys') /\ LeadsTo(keys, i, r) => LeadsTo(keys', i, r)
    BY <1>0, <1>1, RegisteredFits DEF SubmitTyped
<1>3. /\ \A r \in Requests : req'[r].key = req[r].key
      /\ req'[q].at = "done" /\ \A r \in Requests \ {q} : req'[r] = req[r]
      /\ req' \in [Requests -> Submission]
    BY <1>0 DEF Submission
<1>4. KeysOf(keys') \subseteq IdemKeys /\ KeysOf(keys) \subseteq IdemKeys
  <2>1. ASSUME NEW ks \in Seq(Entry) PROVE KeysOf(ks) \subseteq IdemKeys
    <3>1. DOMAIN ks = 1..Len(ks) /\ \A n \in 1..Len(ks) : ks[n] \in Entry
        OBVIOUS
    <3> QED
        BY <3>1 DEF KeysOf, Entry
  <2> QED
      BY <1>0, <1>2, <2>1 DEF Keyed
<1>5. SubmitTyped'
    BY <1>0, <1>1, <1>2, <1>3, <1>4 DEF SubmitTyped
<1>6. ASSUME NEW i \in IdemKeys \ excused', NEW r \in Requests, NEW s \in Requests,
             req'[r].key = i, req'[s].key = i
      PROVE  /\ req'[r].at = "assigning" /\ req'[s].at = "assigning" => r = s
             /\ req'[r].at = "assigning" /\ tstat'[s] = "active" => r = s
             /\ req'[r].at = "done" /\ tstat'[r] = "active" => LeadsTo(keys', i, r)
  <2>1. i \in IdemKeys \ excused /\ req[r].key = i /\ req[s].key = i
      BY <1>0, <1>3, <1>6
  <2>2. /\ req[r].at = "assigning" /\ req[s].at = "assigning" => r = s
        /\ req[r].at = "assigning" /\ tstat[s] = "active" => r = s
        /\ req[r].at = "done" /\ tstat[r] = "active" => LeadsTo(keys, i, r)
      BY <2>1 DEF KeysLead
  <2>3. ASSUME req'[r].at = "done", tstat'[r] = "active" PROVE LeadsTo(keys', i, r)
    <3>1. CASE r = q
        BY <1>2, <2>1, <3>1
    <3>2. CASE r # q
      <4>1. i # k
          BY <1>0, <2>1, <2>3, <3>2 DEF KeysLead
      <4>2. LeadsTo(keys, i, r)
          BY <1>0, <1>3, <2>2, <2>3, <3>2
      <4>3. i \in KeysOf(keys')
          BY <1>0, <1>6, <2>1, <4>2, TaskOfLed
      <4> QED
          BY <1>2, <4>1, <4>2, <4>3
    <3> QED
        BY <3>1, <3>2
  <2> QED
      BY <1>0, <1>3, <2>2, <2>3
<1>7. KeysLead'
    BY <1>6 DEF KeysLead, LeadsTo
<1> QED
    BY <1>5, <1>7

\* The steps of submissions, and the restart of the master, which forgets all
\* keys.
LEMMA SubmissionSteps ==
    ASSUME SubmitInv, SubmitStep \/ RestartMaster
    PROVE  SubmitInv'
<1> USE GateAssumption DEF SubmitInv
<1>0. req \in [Requests -> Submission] /\ tstat \in [Requests -> {"none", "active", "partial", "final", "gone"}]
    BY DEF SubmitTyped
<1>1. ASSUME NEW q \in Requests, AssignBegins(q) PROVE SubmitInv'
  <2>1. SubmitTyped'
      BY <1>0, <1>1 DEF AssignBegins, SubmitTyped
  <2>2. KeysLead'
      BY <1>0, <1>1 DEF AssignBegins, KeysLead, LeadsTo
  <2> QED
      BY <2>1, <2>2
<1>2. ASSUME NEW q \in Requests, AssignRefuses(q) PROVE SubmitInv'
  <2>1. SubmitTyped'
      BY <1>0, <1>2 DEF AssignRefuses, SubmitTyped, Submission
  <2>2. KeysLead'
      BY <1>0, <1>2 DEF AssignRefuses, KeysLead, LeadsTo, Submission
  <2> QED
      BY <2>1, <2>2
<1>3. ASSUME NEW q \in Requests, TaskMoves(q) PROVE SubmitInv'
  <2>0. /\ \A r \in Requests : tstat'[r] = "active" => tstat[r] = "active"
        /\ UNCHANGED <<req, keys, excused>>
      BY <1>0, <1>3 DEF TaskMoves
  <2>1. SubmitTyped'
      BY <1>0, <1>3, <2>0 DEF TaskMoves, SubmitTyped
  <2>2. KeysLead'
      BY <2>0 DEF KeysLead, LeadsTo
  <2> QED
      BY <2>1, <2>2
<1>4. ASSUME NEW k \in IdemKeys, KeyLapses(k) PROVE SubmitInv'
  <2>1. /\ keys' = WithoutKey(k) /\ excused' = excused \cup {k} /\ UNCHANGED <<req, tstat>>
      BY <1>4 DEF KeyLapses
  <2>2. /\ Keyed(keys') /\ Len(keys') <= Len(keys) /\ Len(keys') \in Nat /\ Len(keys) \in Nat
        /\ \A i \in IdemKeys, r \in Requests :
              i # k /\ LeadsTo(keys, i, r) => LeadsTo(keys', i, r)
      BY <2>1, WithoutKeyFits DEF SubmitTyped, Keyed
  <2>3. SubmitTyped'
      BY <2>1, <2>2 DEF SubmitTyped
  <2>4. KeysLead'
    <3>1. ASSUME NEW i \in IdemKeys \ excused', NEW r \in Requests, req[r].key = i,
                 req[r].at = "done", tstat[r] = "active"
          PROVE  LeadsTo(keys', i, r)
        BY <2>1, <2>2, <3>1 DEF KeysLead
    <3> QED
        BY <2>1, <3>1 DEF KeysLead, LeadsTo
  <2> QED
      BY <2>3, <2>4
<1>5. CASE RestartMaster
  <2>1. Keyed(<<>>) /\ Len(<<>>) = 0
      BY DEF Keyed
  <2>2. req' \in [Requests -> Submission]
      BY <1>0, <1>5 DEF RestartMaster, Submission
  <2>3. \A q \in Requests : /\ req'[q].at = "new" => req[q].at = "new"
                            /\ req'[q].at # "new" => req[q].at # "new"
                            /\ req'[q].key = req[q].key
      BY <1>0, <1>5 DEF RestartMaster, Submission
  <2>4. SubmitTyped'
      BY <1>5, <2>1, <2>2, <2>3 DEF RestartMaster, SubmitTyped
  <2>5. KeysLead'
      BY <1>5 DEF RestartMaster, KeysLead
  <2> QED
      BY <2>4, <2>5
<1> QED
    BY <1>1, <1>2, <1>3, <1>4, <1>5, LookStep, EndStep DEF SubmitStep

-----------------------------------------------------------------------------
(* Chats and sessions                                                      *)

Counted == {c \in Chats : chat[c] = "counted"}

\* The inductive invariant of chats.
ChatInv ==
    /\ chat \in [Chats -> {"idle", "counted", "free"}]
    /\ inflight \in Nat /\ quota \in Quotas /\ steady \in BOOLEAN
    /\ IsFiniteSet(Counted)
    /\ ChatCountIsExact

\* The counter follows the chats, one at a time.
LEMMA ChatSteps ==
    ASSUME ChatInv, ChatStep \/ RestartMaster
    PROVE  ChatInv'
<1> USE GateAssumption DEF ChatInv
<1>0. steady => inflight = Cardinality(Counted)
    BY DEF ChatCountIsExact, Counted
<1>1. ASSUME NEW c \in Chats, ChatBegins(c) PROVE ChatInv'
  <2>1. CASE chat' = [chat EXCEPT ![c] = "free"] /\ UNCHANGED inflight
    <3>1. Counted' = Counted
        BY <1>1, <2>1 DEF ChatBegins, Counted
    <3> QED
        BY <1>1, <2>1, <3>1 DEF ChatBegins, ChatCountIsExact, Counted
  <2>2. CASE chat' = [chat EXCEPT ![c] = "counted"] /\ inflight' = inflight + 1
    <3>1. Counted' = Counted \cup {c} /\ c \notin Counted
        BY <1>1, <2>2 DEF ChatBegins, Counted
    <3>2. IsFiniteSet(Counted') /\ Cardinality(Counted') = Cardinality(Counted) + 1
        BY <3>1, FS_AddElement
    <3>3. ChatCountIsExact'
        BY <1>0, <1>1, <2>2, <3>2 DEF ChatBegins, ChatCountIsExact, Counted
    <3> QED
        BY <1>1, <2>2, <3>2, <3>3 DEF ChatBegins
  <2> QED
      BY <1>1, <2>1, <2>2 DEF ChatBegins
<1>2. ASSUME NEW c \in Chats, ChatEnds(c) PROVE ChatInv'
  <2>1. Counted' = Counted \ {c}
      BY <1>2 DEF ChatEnds, Counted
  <2>2. /\ IsFiniteSet(Counted')
        /\ Cardinality(Counted') = IF c \in Counted THEN Cardinality(Counted) - 1 ELSE Cardinality(Counted)
      BY <2>1, FS_RemoveElement
  <2>3. inflight' \in Nat /\ quota' = quota
      BY <1>2 DEF ChatEnds, ReleaseChatSlot
  <2>4. ChatCountIsExact'
    <3>1. CASE chat[c] = "counted" /\ quota # 0
      <4>1. c \in Counted /\ Cardinality(Counted) # 0
          BY <3>1, FS_EmptySet DEF Counted
      <4>2. inflight = Cardinality(Counted)
          BY <1>0, <1>2 DEF ChatEnds
      <4>3. inflight' = inflight - 1
          BY <1>2, <3>1, <4>1, <4>2 DEF ChatEnds, ReleaseChatSlot
      <4> QED
          BY <2>2, <4>1, <4>2, <4>3 DEF ChatCountIsExact, Counted
    <3>2. CASE chat[c] # "counted" /\ quota = 0
      <4>1. c \notin Counted /\ inflight' = inflight /\ inflight = Cardinality(Counted)
          BY <1>0, <1>2, <3>2 DEF ChatEnds, ReleaseChatSlot, Counted
      <4> QED
          BY <2>2, <4>1 DEF ChatCountIsExact, Counted
    <3>3. CASE (chat[c] = "counted") # (quota # 0)
        BY <1>2, <3>3 DEF ChatEnds, ChatCountIsExact
    <3> QED
        BY <3>1, <3>2, <3>3
  <2> QED
      BY <1>2, <2>2, <2>3, <2>4 DEF ChatEnds
<1>3. ASSUME NEW c \in Chats, StreamNeverBegins(c) PROVE ChatInv'
  <2>1. Counted' = Counted \ {c}
      BY <1>3 DEF StreamNeverBegins, Counted
  <2> QED
      BY <1>3, <2>1, FS_RemoveElement DEF StreamNeverBegins, ChatCountIsExact
<1>4. ASSUME NEW l \in Quotas, QuotaChanges(l) PROVE ChatInv'
    BY <1>4 DEF QuotaChanges, ChatCountIsExact, Counted
<1>5. CASE RestartMaster
  <2>1. Counted' = {}
      BY <1>5 DEF RestartMaster, Counted
  <2> QED
      BY <1>5, <2>1, FS_EmptySet DEF RestartMaster, ChatCountIsExact, Counted
<1> QED
    BY <1>1, <1>2, <1>3, <1>4, <1>5 DEF ChatStep

Session == [state : {"none", "active", "handed_off", "closed"},
            host : Laptops \cup Residents \cup {NoTask}]

\* The inductive invariant of sessions.
SessionInv ==
    /\ session \in [Sessions -> Session] /\ stored \in [Sessions -> Session]
    /\ HandoffIsKept

\* Who names no host keeps the one the session has, and a store that is read
\* again knows it.
LEMMA SessionSteps ==
    ASSUME SessionInv, SessionStep \/ RestartMaster
    PROVE  SessionInv'
<1> USE GateAssumption DEF SessionInv
<1>1. ASSUME NEW s \in Sessions, NEW o \in Laptops, NEW h \in Residents \cup {NoTask},
             RegisterSession(s, o, h)
      PROVE  SessionInv'
  <2>1. /\ HostOf(s, o, h) \in Laptops \cup Residents \cup {NoTask}
        /\ session[s].host \in Residents => HostOf(s, o, h) \in Residents
      BY DEF HostOf, Session
  <2> QED
      BY <1>1, <2>1 DEF RegisterSession, Session, HandoffIsKept
<1>2. ASSUME NEW s \in Sessions, NEW h \in Residents, HandoffSession(s, h) PROVE SessionInv'
    BY <1>2 DEF HandoffSession, Session, HandoffIsKept
<1>3. ASSUME NEW s \in Sessions, CloseSession(s) PROVE SessionInv'
    BY <1>3 DEF CloseSession, Session, HandoffIsKept
<1>4. CASE PersistSessions \/ RestartMaster
    BY <1>4 DEF PersistSessions, RestartMaster, HandoffIsKept
<1> QED
    BY <1>1, <1>2, <1>3, <1>4 DEF SessionStep

-----------------------------------------------------------------------------
(* What the master keeps about its clients                                 *)

GateInv == SubmitInv /\ ChatInv /\ SessionInv

\* The strengthened invariant holds of every master's clients.
THEOREM GateInvariant == GateSpec => []GateInv
<1> USE GateAssumption
<1>1. GateInit => GateInv
  <2> SUFFICES ASSUME GateInit PROVE GateInv
      OBVIOUS
  <2>1. Keyed(<<>>) /\ Len(<<>>) = 0
      BY DEF Keyed
  <2>2. SubmitInv
      BY <2>1 DEF GateInit, SubmitInv, SubmitTyped, KeysLead, Submission
  <2>3. Counted = {}
      BY DEF GateInit, Counted
  <2>4. ChatInv
      BY <2>3, FS_EmptySet DEF GateInit, ChatInv, ChatCountIsExact, Counted
  <2>5. SessionInv
      BY DEF GateInit, SessionInv, Session, NoSession, HandoffIsKept
  <2> QED
      BY <2>2, <2>4, <2>5 DEF GateInv
<1>2. GateInv /\ [GateNext]_gateVars => GateInv'
  <2> SUFFICES ASSUME GateInv, [GateNext]_gateVars PROVE GateInv'
      OBVIOUS
  <2>1. UNCHANGED submitVars => SubmitInv'
      BY DEF submitVars, GateInv, SubmitInv, SubmitTyped, KeysLead, LeadsTo, Keyed
  <2>2. UNCHANGED chatVars => ChatInv'
      BY DEF chatVars, GateInv, ChatInv, ChatCountIsExact, Counted
  <2>3. UNCHANGED sessionVars => SessionInv'
      BY DEF sessionVars, GateInv, SessionInv, HandoffIsKept
  <2>4. SubmitStep => UNCHANGED <<chatVars, sessionVars>>
      BY DEF SubmitStep, SubmitLooks, AssignBegins, AssignRefuses, SubmitEnds, TaskMoves, KeyLapses
  <2>5. ChatStep => UNCHANGED <<submitVars, sessionVars>>
      BY DEF ChatStep, ChatBegins, ChatEnds, StreamNeverBegins, QuotaChanges
  <2>6. SessionStep => UNCHANGED <<submitVars, chatVars>>
      BY DEF SessionStep, RegisterSession, HandoffSession, CloseSession, PersistSessions
  <2>7. CASE SubmitStep
      BY <2>2, <2>3, <2>4, <2>7, SubmissionSteps DEF GateInv
  <2>8. CASE ChatStep
      BY <2>1, <2>3, <2>5, <2>8, ChatSteps DEF GateInv
  <2>9. CASE SessionStep
      BY <2>1, <2>2, <2>6, <2>9, SessionSteps DEF GateInv
  <2>10. CASE RestartMaster
      BY <2>10, SubmissionSteps, ChatSteps, SessionSteps DEF GateInv
  <2>11. CASE UNCHANGED gateVars
      BY <2>1, <2>2, <2>3, <2>11 DEF gateVars, GateInv
  <2> QED
      BY <2>7, <2>8, <2>9, <2>10, <2>11 DEF GateNext
<1> QED
    BY <1>1, <1>2, PTL DEF GateSpec

\* As many entries as there are keys: no key comes twice.
LEMMA KeysCounted ==
    ASSUME Keyed(keys)
    PROVE  Len(keys) = Cardinality(KeysOf(keys))
<1> DEFINE f == [n \in 1..Len(keys) |-> keys[n].key]
<1>1. DOMAIN keys = 1..Len(keys) /\ Len(keys) \in Nat
    BY DEF Keyed
<1>2. f \in Bijection(1..Len(keys), KeysOf(keys))
  <2>1. \A n \in 1..Len(keys) : f[n] \in KeysOf(keys)
      BY <1>1 DEF KeysOf
  <2>2. \A i, j \in 1..Len(keys) : f[i] = f[j] => i = j
      BY <1>1 DEF Keyed
  <2>3. \A k \in KeysOf(keys) : \E n \in 1..Len(keys) : f[n] = k
      BY <1>1 DEF KeysOf
  <2> QED
      BY <2>1, <2>2, <2>3 DEF Bijection, Injection, IsInjective, Surjection
<1>3. ExistsBijection(1..Len(keys), KeysOf(keys))
    BY <1>2 DEF ExistsBijection
<1> QED
    BY <1>1, <1>3, FS_CountingElements

\* The keys, chats and sessions are well formed, each key is in the table once,
\* and the table is within its limit.
THEOREM GateTypes == GateSpec => []GateTypeOK
<1>1. GateInv => GateTypeOK
  <2> SUFFICES ASSUME GateInv PROVE GateTypeOK
      OBVIOUS
  <2>1. Len(keys) = Cardinality(KeysOf(keys)) /\ Len(keys) <= MaxKeys
      BY KeysCounted DEF GateInv, SubmitInv, SubmitTyped
  <2>2. \A e \in ToSet(keys) : e.key \in IdemKeys /\ e.task \in Requests
    <3>1. DOMAIN keys = 1..Len(keys) /\ \A n \in 1..Len(keys) : keys[n] \in Entry
        BY DEF GateInv, SubmitInv, SubmitTyped, Keyed
    <3> QED
        BY <3>1 DEF ToSet, Entry
  <2>3. \A q \in Requests : /\ req[q].at \in {"new", "assigning", "done"}
                            /\ req[q].key \in IdemKeys \cup {NoTask}
      BY DEF GateInv, SubmitInv, SubmitTyped, Submission
  <2>4. \A s \in Sessions : session[s].host \in Laptops \cup Residents \cup {NoTask}
      BY DEF GateInv, SessionInv, Session
  <2> QED
      BY <2>1, <2>2, <2>3, <2>4 DEF GateInv, SubmitInv, SubmitTyped, ChatInv, GateTypeOK
<1> QED
    BY <1>1, GateInvariant, PTL

\* A client that repeats a submission with its key gets no second task while
\* the first one is active, for any number of clients, keys and repetitions.
THEOREM OneTaskForAKey == GateSpec => []OneTaskPerKey
<1>1. GateInv => OneTaskPerKey
  <2> SUFFICES ASSUME GateInv, NEW k \in IdemKeys \ excused
               PROVE  Cardinality({q \in Requests : tstat[q] = "active" /\ req[q].key = k}) <= 1
      BY DEF OneTaskPerKey
  <2> DEFINE S == {q \in Requests : tstat[q] = "active" /\ req[q].key = k}
  <2>1. ASSUME NEW q \in S, NEW r \in S PROVE q = r
    <3>1. req[q].at # "new" /\ req[r].at # "new"
        BY DEF GateInv, SubmitInv, SubmitTyped
    <3>2. req[q].at \in {"assigning", "done"} /\ req[r].at \in {"assigning", "done"}
        BY <3>1 DEF GateInv, SubmitInv, SubmitTyped, Submission
    <3>3. CASE req[q].at = "done" /\ req[r].at = "done"
      <4>1. LeadsTo(keys, k, q) /\ LeadsTo(keys, k, r)
          BY <3>3 DEF GateInv, SubmitInv, KeysLead
      <4> QED
          BY <4>1, TaskOfLed DEF GateInv, SubmitInv, SubmitTyped
    <3> QED
        BY <3>2, <3>3 DEF GateInv, SubmitInv, KeysLead
  <2>2. CASE S = {}
      BY <2>2, FS_EmptySet
  <2>3. ASSUME NEW q \in S PROVE Cardinality(S) = 1
    <3>1. S = {q}
        BY <2>1
    <3> QED
        BY <3>1, FS_Singleton
  <2> QED
      BY <2>2, <2>3
<1> QED
    BY <1>1, GateInvariant, PTL

\* The counter of a tenant is the number of its chats on the way, for any number
\* of chats and changes of the quota, until a slot is released otherwise than it
\* was acquired.
THEOREM ChatsAreCounted == GateSpec => []ChatCountIsExact
<1>1. GateInv => ChatCountIsExact
    BY DEF GateInv, ChatInv
<1> QED
    BY <1>1, GateInvariant, PTL

\* A session that was handed to a resident node never falls back to the laptop
\* it came from.
THEOREM HandoffsAreKept == GateSpec => []HandoffIsKept
<1>1. GateInv => HandoffIsKept
    BY DEF GateInv, SessionInv
<1> QED
    BY <1>1, GateInvariant, PTL

-----------------------------------------------------------------------------
(* All tables of a master                                                  *)

\* A behaviour of the composition is one of each part.
LEMMA TablesAreParts ==
    TablesSpec => Spec /\ DirectorySpec /\ GateSpec /\ PipeSpec /\ BatchSpec
<1>1. TablesInit => Init /\ DirectoryInit /\ GateInit /\ PipeInit /\ BatchInit
    BY DEF TablesInit
<1>2. [TablesNext]_tableVars =>
          /\ [Next]_vars /\ [DirectoryNext]_directoryVars /\ [GateNext]_gateVars
          /\ [PipeNext]_pipeVars /\ [BatchNext]_batchVars
    BY DEF TablesNext, tableVars, ClientStep, GateNext
<1> QED
    BY <1>1, <1>2, PTL DEF TablesSpec, Spec, DirectorySpec, GateSpec, PipeSpec, BatchSpec

\* The tables of a master are well formed and within their limits, queue and
\* table agree, and sessions stay where they were handed.
THEOREM TablesAreKept == TablesSpec => []TablesOK
<1>1. TypeOK /\ QueueIsCurrent /\ DirectoryTypeOK /\ GateTypeOK /\ HandoffIsKept /\ PipeTypeOK
        => TablesOK
    BY DEF TablesOK
<1> QED
    BY <1>1, TablesAreParts, SyncTypes, OwnerQueueCurrent, DirectoryTypes, GateTypes,
       HandoffsAreKept, PipelineTypes, PTL
=============================================================================
