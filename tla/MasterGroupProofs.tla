-------------------------- MODULE MasterGroupProofs --------------------------
(***************************************************************************)
(* Proofs about a group of masters: NodeRegistry, for any nodes, patterns  *)
(* and limits, RuleEpoch, for any masters, agents, confirmations and lost  *)
(* posts, and with MasterElectionProofs what MCMasterGroup checks of all   *)
(* three together.                                                         *)
(***************************************************************************)
EXTENDS MCMasterGroup, MasterElectionProofs, FoldProofs

-----------------------------------------------------------------------------
(* The registry of nodes.  Each of the two invariants is inductive         *)
(* together with the types.                                                *)

RegistryInv ==
    /\ RegistryTypeOK
    /\ OnlyApprovedJoin
    /\ UnbannedStartsAfresh

-----------------------------------------------------------------------------

\* A request to join keeps the types and undoes no approval, also when it
\* drops requests that are too old.
LEMMA JoinKeepsApproved ==
  ASSUME RegistryTypeOK, NEW n \in Members, admission' \in RequestJoin(n)
  PROVE  /\ admission' \in [Members -> {"none", "pending", "approved", "rejected"}]
         /\ \A m \in Members : admission[m] = "approved" => admission'[m] = "approved"
<1> DEFINE joined == [admission EXCEPT ![n] = IF n \in AutoApproved THEN "approved" ELSE "pending"]
           waiting == {m \in Members : joined[m] = "pending"}
<1>1. CASE admission[n] \in {"approved", "rejected"}
  BY <1>1 DEF RequestJoin, RegistryTypeOK
<1>2. CASE admission[n] \notin {"approved", "rejected"}
  <2>1. joined \in [Members -> {"none", "pending", "approved", "rejected"}]
    BY DEF RegistryTypeOK
  <2>2. \A m \in Members : admission[m] = "approved" => joined[m] = "approved"
    BY <1>2 DEF RegistryTypeOK
  <2>3. CASE admission' = joined
    BY <2>1, <2>2, <2>3
  <2>4. ASSUME NEW old \in SUBSET (waiting \ {n}),
               admission' = [m \in Members |-> IF m \in old THEN "none" ELSE joined[m]]
        PROVE  /\ admission' \in [Members -> {"none", "pending", "approved", "rejected"}]
               /\ \A m \in Members : admission[m] = "approved" => admission'[m] = "approved"
    BY <2>1, <2>2, <2>4
  <2>5. \/ admission' = joined
        \/ \E old \in SUBSET (waiting \ {n}) :
              admission' = [m \in Members |-> IF m \in old THEN "none" ELSE joined[m]]
    BY <1>2 DEF RequestJoin
  <2> QED  BY <2>3, <2>4, <2>5
<1> QED  BY <1>1, <1>2

\* A registration of an approved node.
LEMMA RegisterStep ==
  ASSUME RegistryInv, NEW n \in Members, MasterRegister(n), UNCHANGED probes,
         admission' \in [Members -> {"none", "pending", "approved", "rejected"}],
         \A m \in Members : admission[m] = "approved" => admission'[m] = "approved",
         admission'[n] = "approved"
  PROVE  RegistryInv'
<1> USE RegistryAssumption DEF RegistryInv
<1>1. RegistryTypeOK'
  <2>1. CASE ban[n] = "active"
    BY <2>1 DEF MasterRegister, RegistryTypeOK
  <2>2. CASE ban[n] # "active"
    <3>1. Patched(n) \in {"online", "busy", "fault"}
      BY DEF Patched, RegistryTypeOK
    <3>2. nstat' = [nstat EXCEPT ![n] = Patched(n)] /\ late' = [late EXCEPT ![n] = FALSE]
      BY <2>2 DEF MasterRegister
    <3>3. LapsedBan(n)
      BY <2>2 DEF MasterRegister
    <3> QED  BY <3>1, <3>2, <3>3 DEF LapsedBan, RegistryTypeOK
  <2> QED  BY <2>1, <2>2
<1>2. OnlyApprovedJoin'
  BY DEF MasterRegister, RegistryTypeOK, OnlyApprovedJoin
<1>3. UnbannedStartsAfresh'
  BY DEF MasterRegister, LapsedBan, RegistryTypeOK, UnbannedStartsAfresh
<1> QED  BY <1>1, <1>2, <1>3

\* The routes.
LEMMA RouteSteps ==
  ASSUME RegistryInv, NEW n \in Members,
         \/ ReportHardware(n) \/ JoinRoute(n) \/ ApproveRoute(n) \/ RejectRoute(n)
         \/ UnregisterNode(n) \/ UpdateHeartbeat(n) \/ ReportFault(n)
  PROVE  RegistryInv'
<1> USE RegistryAssumption DEF RegistryInv
<1>1. CASE ReportHardware(n)
  <2>1. CASE MayRegister(n)
    BY <1>1, <2>1, JoinKeepsApproved, RegisterStep DEF ReportHardware, RegisterRoute, MayRegister
  <2>2. CASE ~MayRegister(n)
    <3>1. UNCHANGED <<nstat, late, ban, faults, probes>>
      BY <1>1, <2>2 DEF ReportHardware, RegisterRoute
    <3> QED
      BY <1>1, <3>1, JoinKeepsApproved
      DEF ReportHardware, RegisterRoute, RegistryTypeOK, OnlyApprovedJoin, UnbannedStartsAfresh
  <2> QED  BY <2>1, <2>2
<1>2. CASE JoinRoute(n)
  BY <1>2, JoinKeepsApproved
  DEF JoinRoute, RegistryTypeOK, OnlyApprovedJoin, UnbannedStartsAfresh
<1>3. CASE ApproveRoute(n)
  <2>1. /\ admission' \in [Members -> {"none", "pending", "approved", "rejected"}]
        /\ \A m \in Members : admission[m] = "approved" => admission'[m] = "approved"
        /\ admission'[n] = "approved"
    BY <1>3 DEF ApproveRoute, RegistryTypeOK
  <2>2. CASE nstat[n] = "absent"
    BY <1>3, <2>1, <2>2, RegisterStep DEF ApproveRoute
  <2>3. CASE nstat[n] # "absent"
    BY <1>3, <2>1, <2>3
    DEF ApproveRoute, RegistryTypeOK, OnlyApprovedJoin, UnbannedStartsAfresh
  <2> QED  BY <2>2, <2>3
<1>4. CASE RejectRoute(n)
  BY <1>4 DEF RejectRoute, RegistryTypeOK, OnlyApprovedJoin, UnbannedStartsAfresh
<1>5. CASE UnregisterNode(n) \/ UpdateHeartbeat(n)
  BY <1>5 DEF UnregisterNode, UpdateHeartbeat, RegistryTypeOK, OnlyApprovedJoin,
              UnbannedStartsAfresh
<1>6. CASE ReportFault(n)
  <2> PICK k \in 0..Min({faults[n], FaultThreshold - 1}) :
          /\ faults' = [faults EXCEPT ![n] = k + 1]
          /\ ban' = [ban EXCEPT ![n] = IF k + 1 >= FaultThreshold THEN "active" ELSE @]
    BY <1>6 DEF ReportFault
  <2>1. k \in Nat /\ k + 1 <= FaultThreshold
    <3>1. Min({faults[n], FaultThreshold - 1}) \in {faults[n], FaultThreshold - 1}
          /\ Min({faults[n], FaultThreshold - 1}) <= FaultThreshold - 1
      BY DEF Min, RegistryTypeOK
    <3> QED  BY <3>1 DEF RegistryTypeOK
  <2>2. RegistryTypeOK'
    BY <1>6, <2>1 DEF ReportFault, RegistryTypeOK
  <2>3. OnlyApprovedJoin'
    BY <1>6 DEF ReportFault, RegistryTypeOK, OnlyApprovedJoin
  <2>4. UnbannedStartsAfresh'
    BY <2>1 DEF RegistryTypeOK, UnbannedStartsAfresh
  <2> QED  BY <2>2, <2>3, <2>4
<1> QED  BY <1>1, <1>2, <1>3, <1>4, <1>5, <1>6

\* Time and the health loop.
LEMMA HealthSteps ==
  ASSUME RegistryInv,
         \/ \E n \in Members : \/ HeartbeatIsLate(n) \/ BanRunsOut(n) \/ RefreshStatus(n)
                               \/ CleanupOffline(n) \/ SelectLooks(n)
         \/ HealthStep
  PROVE  RegistryInv'
<1> USE RegistryAssumption DEF RegistryInv
<1>1. ASSUME NEW n \in Members,
             HeartbeatIsLate(n) \/ BanRunsOut(n) \/ RefreshStatus(n) \/ CleanupOffline(n)
      PROVE  RegistryInv'
  BY ZenonT(30), <1>1 DEF HeartbeatIsLate, BanRunsOut, RefreshStatus, CleanupOffline, RegistryTypeOK,
              OnlyApprovedJoin, UnbannedStartsAfresh
<1>2. ASSUME NEW n \in Members, SelectLooks(n) PROVE RegistryInv'
  BY <1>2 DEF SelectLooks, LapsedBan, RegistryTypeOK, OnlyApprovedJoin, UnbannedStartsAfresh
<1>3. CASE ProbeStarts
  BY <1>3 DEF ProbeStarts, RegistryTypeOK, OnlyApprovedJoin, UnbannedStartsAfresh
<1>4. ASSUME NEW n \in Members, ProbeAnswers(n) PROVE RegistryInv'
  BY <1>4 DEF ProbeAnswers, Unbanned, RegistryTypeOK, OnlyApprovedJoin, UnbannedStartsAfresh
<1> QED  BY <1>1, <1>2, <1>3, <1>4 DEF HealthStep

-----------------------------------------------------------------------------

\* The types and both invariants hold of every registry.
THEOREM RegistryInvariant == RegistrySpec => []RegistryInv
<1>1. RegistryInit => RegistryInv
  BY RegistryAssumption
  DEF RegistryInit, RegistryInv, RegistryTypeOK, OnlyApprovedJoin, UnbannedStartsAfresh
<1>2. RegistryInv /\ [RegistryNext]_registryVars => RegistryInv'
  <2> SUFFICES ASSUME RegistryInv, [RegistryNext]_registryVars PROVE RegistryInv'
    OBVIOUS
  <2>1. CASE RegistryNext
    BY <2>1, RouteSteps, HealthSteps DEF RegistryNext
  <2>2. CASE UNCHANGED registryVars
    BY <2>2 DEF registryVars, RegistryInv, RegistryTypeOK, OnlyApprovedJoin,
                UnbannedStartsAfresh
  <2> QED  BY <2>1, <2>2
<1> QED  BY <1>1, <1>2, PTL DEF RegistrySpec

\* Nobody is in the node table whom nobody has let in, by whatever route.
THEOREM ApprovedOnly == RegistrySpec => []OnlyApprovedJoin
<1>1. RegistryInv => OnlyApprovedJoin
  BY DEF RegistryInv
<1> QED  BY <1>1, RegistryInvariant, PTL

\* Whoever lifts a ban also forgets the faults that led to it.
THEOREM FreshAfterBan == RegistrySpec => []UnbannedStartsAfresh
<1>1. RegistryInv => UnbannedStartsAfresh
  BY DEF RegistryInv
<1> QED  BY <1>1, RegistryInvariant, PTL

\* No route shakes off a ban that runs: before its time only the answer to a
\* probe that was on its way lifts it.
THEOREM BansStick == RegistrySpec => BansAreNotShakenOff
<1> DEFINE Kept(n) == ban[n] = "active" /\ ban'[n] = "no" => n \in probes \ probes'
<1>1. RegistryInv /\ [RegistryNext]_registryVars => [\A n \in Members : Kept(n)]_registryVars
  <2> SUFFICES ASSUME RegistryInv, RegistryNext, NEW n \in Members PROVE Kept(n)
    OBVIOUS
  <2> USE DEF RegistryInv, RegistryTypeOK
  <2>1. ASSUME NEW m \in Members, MasterRegister(m) PROVE Kept(n)
    BY <2>1 DEF MasterRegister, LapsedBan, Patched
  <2>2. ASSUME UNCHANGED ban PROVE Kept(n)
    BY <2>2
  <2>3. ASSUME NEW m \in Members,
               ReportHardware(m) \/ JoinRoute(m) \/ ApproveRoute(m) \/ RejectRoute(m)
        PROVE  Kept(n)
    <3>1. MasterRegister(m) \/ UNCHANGED ban
      BY <2>3 DEF ReportHardware, RegisterRoute, JoinRoute, ApproveRoute, RejectRoute
    <3> QED  BY <3>1, <2>1, <2>2
  <2>4. ASSUME NEW m \in Members, UnregisterNode(m) \/ UpdateHeartbeat(m) PROVE Kept(n)
    BY <2>4 DEF UnregisterNode, UpdateHeartbeat
  <2>5. ASSUME NEW m \in Members, ReportFault(m) PROVE Kept(n)
    BY <2>5 DEF ReportFault
  <2>6. ASSUME NEW m \in Members,
               \/ HeartbeatIsLate(m) \/ BanRunsOut(m) \/ RefreshStatus(m)
               \/ CleanupOffline(m) \/ SelectLooks(m)
        PROVE  Kept(n)
    BY <2>6 DEF HeartbeatIsLate, BanRunsOut, RefreshStatus, CleanupOffline, SelectLooks,
                LapsedBan
  <2>7. CASE ProbeStarts
    BY <2>7 DEF ProbeStarts
  <2>8. ASSUME NEW m \in Members, ProbeAnswers(m) PROVE Kept(n)
    BY <2>8 DEF ProbeAnswers
  <2> QED  BY <2>3, <2>4, <2>5, <2>6, <2>7, <2>8 DEF RegistryNext, HealthStep
<1> QED  BY <1>1, RegistryInvariant, PTL DEF RegistrySpec, BansAreNotShakenOff

-----------------------------------------------------------------------------
(* The rule epoch and the confirmations.                                   *)

\* Tables of confirmations: each once; lists: no more than a master keeps.
Tables == {s \in Seq(Confirms) : IsInjective(s)}
Lists == {s \in Tables : Len(s) <= MaxConfirms}

\* What a master saves, and what it posts.
EpochFiles == [epoch : 0..MaxEpoch, confirms : Lists]
Posts == [kind : {"epoch", "state"}, to : Heads \cup Guards,
          epoch : 0..MaxEpoch, confirms : Lists]

\* Whatever is in memory, in a file, about to be written or under way is of
\* these kinds, and only masters are sent their states.
EpochMemoryInv ==
    /\ epoch \in [Heads \cup Guards -> 0..MaxEpoch]
    /\ confirms \in [Heads -> Lists]
EpochSavesInv ==
    /\ saves \in [Heads -> SUBSET EpochFiles]
    /\ \A m \in Heads : IsFiniteSet(saves[m]) /\ Cardinality(saves[m]) <= MaxSaves
EpochInv ==
    /\ EpochMemoryInv /\ EpochSavesInv
    /\ epochFile \in [Heads -> EpochFiles]
    /\ posts \in SUBSET Posts /\ IsFiniteSet(posts) /\ Cardinality(posts) <= MaxPosts
    /\ \A p \in posts : p.kind = "state" => p.to \in Heads

\* A confirmation that is stored is in the table once.
LEMMA StoredIsTable ==
  ASSUME NEW s \in Tables, NEW c \in Confirms
  PROVE  Stored(s, c) \in Tables
<1>1. s \in Seq(Confirms) /\ Len(s) \in Nat
  BY DEF Tables
<1>2. CASE c \in ToSet(s)
  BY <1>2 DEF Stored
<1>3. CASE c \notin ToSet(s)
  <2>1. Append(s, c) \in Seq(Confirms) /\ DOMAIN Append(s, c) = 1..Len(s) + 1
    BY <1>1
  <2>2. \A i \in 1..Len(s) + 1 : Append(s, c)[i] = IF i \in 1..Len(s) THEN s[i] ELSE c
    BY <1>1
  <2>3. \A i \in 1..Len(s) : s[i] # c
    BY <1>1, <1>3 DEF ToSet
  <2>4. \A i, j \in 1..Len(s) : s[i] = s[j] => i = j
    BY <1>1 DEF Tables, IsInjective
  <2>5. IsInjective(Append(s, c))
    BY <1>1, <2>1, <2>2, <2>3, <2>4 DEF IsInjective
  <2> QED  BY <1>3, <2>1, <2>5 DEF Stored, Tables
<1> QED  BY <1>2, <1>3

\* A trimmed table is a list.
LEMMA TrimmedIsList ==
  ASSUME NEW s \in Tables
  PROVE  Trimmed(s) \in Lists
<1>1. s \in Seq(Confirms) /\ Len(s) \in Nat /\ MaxConfirms \in Nat \ {0}
  BY EpochAssumption DEF Tables
<1>2. CASE Len(s) <= MaxConfirms
  BY <1>2 DEF Trimmed, Tables, Lists
<1>3. CASE Len(s) > MaxConfirms
  <2> DEFINE k == Len(s) - MaxConfirms
             r == SubSeq(s, k + 1, Len(s))
  <2>1. k \in Nat /\ k + 1 <= Len(s) /\ \A i \in 1..MaxConfirms : k + i \in 1..Len(s)
    BY <1>1, <1>3
  <2>2. r \in Seq(Confirms) /\ Len(r) = MaxConfirms /\ DOMAIN r = 1..MaxConfirms
    BY <1>1, <1>3
  <2>3. \A i \in 1..MaxConfirms : r[i] = s[k + i]
    BY <1>1, <1>3
  <2>4. \A i, j \in 1..Len(s) : s[i] = s[j] => i = j
    BY <1>1 DEF Tables, IsInjective
  <2>5. ASSUME NEW i \in 1..MaxConfirms, NEW j \in 1..MaxConfirms, r[i] = r[j] PROVE i = j
    <3>1. k + i = k + j
      BY <2>1, <2>3, <2>4, <2>5
    <3> QED  BY <2>1, <3>1
  <2>6. IsInjective(r)
    BY <2>2, <2>5 DEF IsInjective
  <2>7. Trimmed(s) = r
    BY <1>1, <1>3 DEF Trimmed
  <2> QED  BY <1>1, <2>2, <2>6, <2>7 DEF Lists, Tables
<1> QED  BY <1>1, <1>2, <1>3

\* Storing the confirmations of a post one after the other.
LEMMA AllStoredIsTable ==
  ASSUME NEW s \in Tables, NEW cs \in Lists
  PROVE  FoldLeft(Stored, s, cs) \in Tables
<1> DEFINE n == Len(cs)
           D == DOMAIN cs
           Filled(it) ==
               it = [q \in SUBSET D |->
                        IF q = {} THEN s ELSE Stored(it[q \ {Max(q)}], cs[Max(q)])]
           iter == CHOOSE it : Filled(it)
<1>1. FoldLeft(Stored, s, cs) = iter[D]
  BY DEF FoldLeft, MapThenFoldSet
<1>2. n \in Nat /\ D = 1..n /\ \A i \in 1..n : cs[i] \in Confirms
  BY DEF Tables, Lists
<1> HIDE DEF n, D
<1>3. \E it : Filled(it)
  <2> DEFINE F == [i \in 1..n |-> [v \in Tables |-> Stored(v, cs[i])]]
  <2>1. F \in [1..n -> [Tables -> Tables]]
    BY <1>2, StoredIsTable
  <2>2. \A i \in 1..n, v \in Tables : F[i][v] = Stored(v, cs[i])
    OBVIOUS
  <2> HIDE DEF F
  <2>3. PICK t : IsFoldTable(t, n, Tables, s, F)
    BY ONLY <1>2, <2>1, s \in Tables, FoldTable
  <2>4. ASSUME NEW q \in SUBSET (1..n), q # {} 
        PROVE t[q] = Stored(t[q \ {Max(q)}], cs[Max(q)])
    <3>1. Max(q) \in q /\ q \ {Max(q)} \in SUBSET (1..n)
      <4>1. n \in Nat /\ q \in SUBSET (0..n) /\ q # {}
        BY <1>2, <2>4
      <4>2. Max(q) \in q
        BY ONLY <4>1, LargestOf
      <4> QED  BY <2>4, <4>2
    <3>2. Max(q) \in 1..n
      BY <2>4, <3>1
    <3> QED  BY <2>2, <2>3, <2>4, <3>1, <3>2 DEF IsFoldTable
  <2> QED  BY <1>2, <2>3, <2>4 DEF IsFoldTable
<1>4. Filled(iter)
  BY <1>3
<1> HIDE DEF iter
<1>5. /\ iter[{}] = s
      /\ \A q \in SUBSET (1..n) :
            q # {} => iter[q] = Stored(iter[q \ {Max(q)}], cs[Max(q)])
  BY <1>4, <1>2
<1> DEFINE T == {k \in 0..n : iter[1..k] \in Tables}
<1>6. 0 \in T
  BY <1>2, <1>5
<1>7. ASSUME NEW k \in 0..n - 1, k \in T PROVE k + 1 \in T
  <2>1. k + 1 \in 1..n /\ 1..(k+1) - 1 = 1..k
    BY <1>2
  <2>2. iter[1..k + 1] = Stored(iter[1..k], cs[k + 1])
    <3>1. /\ 1..k + 1 \in SUBSET (1..n) /\ 1..k + 1 # {}
          /\ Max(1..k + 1) = k + 1 /\ (1..k + 1) \ {k + 1} = 1..k
      BY <1>2, <2>1, LargestOfFirst
    <3> QED  BY <1>5, <3>1
  <2> QED  BY <1>2, <1>7, <2>1, <2>2, StoredIsTable
<1> HIDE DEF T
<1>8. n \in T
  <2>1. 0..n \subseteq T
    BY ONLY <1>2, <1>6, <1>7, CountingUp
  <2> QED  BY <1>2, <2>1
<1> QED  BY <1>1, <1>2, <1>8 DEF T

\* The absent epoch file is a snapshot (_load_epoch of a missing file).
LEMMA NoEpochIsSnapshot == NoEpoch \in EpochFiles
<1>1. <<>> \in Lists
  BY EpochAssumption DEF Lists, Tables, IsInjective
<1> QED  BY <1>1, EpochAssumption DEF NoEpoch, EpochFiles

\* A snapshot is handed to a thread, if there is a file.
LEMMA PersistStep ==
  ASSUME EpochSavesInv, EpochMemoryInv', NEW m \in Heads, PersistEpoch(m)
  PROVE  EpochSavesInv'
<1>1. CASE m \notin Filed
  BY <1>1 DEF PersistEpoch, EpochSavesInv
<1>2. CASE m \in Filed
  <2> DEFINE new == saves[m] \cup {EpochSnapshot(m)}
  <2>1. Cardinality(saves[m]) < MaxSaves /\ saves' = [saves EXCEPT ![m] = new]
    BY <1>2 DEF PersistEpoch
  <2>2. EpochSnapshot(m) \in EpochFiles
    BY DEF EpochSnapshot, EpochMemoryInv, EpochFiles
  <2>3. saves[m] \in SUBSET EpochFiles /\ IsFiniteSet(saves[m])
    BY DEF EpochSavesInv
  <2>4. /\ IsFiniteSet(new) /\ Cardinality(saves[m]) \in Nat
        /\ Cardinality(new) \in {Cardinality(saves[m]), Cardinality(saves[m]) + 1}
    BY <2>3, FS_AddElement, FS_CardinalityType
  <2>5. new \in SUBSET EpochFiles
    BY <2>2, <2>3
  <2> HIDE DEF new
  <2>6. Cardinality(new) <= MaxSaves
    BY <2>1, <2>4, EpochAssumption
  <2> QED  BY <2>1, <2>4, <2>5, <2>6 DEF EpochSavesInv
<1> QED  BY <1>1, <1>2

\* Marking the epochs dirty starts at most one write (_mark_epoch_dirty).
LEMMA MarkStep ==
  ASSUME EpochSavesInv, EpochMemoryInv', NEW m \in Heads, MarkEpochDirty(m)
  PROVE  EpochSavesInv'
<1>1. CASE UNCHANGED saves
  BY <1>1 DEF EpochSavesInv
<1> QED  BY <1>1, PersistStep DEF MarkEpochDirty

\* A post is received, one that was under way or one that was just made.
LEMMA ReceiveStep ==
  ASSUME EpochMemoryInv, EpochSavesInv, NEW p \in Posts,
         p.kind = "state" => p.to \in Heads, ReceivePost(p)
  PROVE  EpochMemoryInv' /\ EpochSavesInv' /\ UNCHANGED epochFile
<1>0. p.epoch \in 0..MaxEpoch /\ p.confirms \in Lists /\ p.to \in Heads \cup Guards
  BY DEF Posts
<1>1. CASE ReceiveEpoch(p)
  <2>1. EpochMemoryInv'
    BY <1>0, <1>1 DEF ReceiveEpoch, EpochMemoryInv
  <2>2. MarkEpochDirty(p.to) \/ UNCHANGED saves
    BY <1>1 DEF ReceiveEpoch
  <2>3. EpochSavesInv'
    <3>1. CASE UNCHANGED saves
      BY <3>1 DEF EpochSavesInv
    <3> QED  BY <1>1, <2>1, <2>2, <3>1, MarkStep DEF ReceiveEpoch
  <2> QED  BY <1>1, <2>1, <2>3 DEF ReceiveEpoch
<1>2. CASE GuardReceives(p)
  BY <1>0, <1>2 DEF GuardReceives, EpochMemoryInv, EpochSavesInv
<1>3. CASE ReceiveState(p)
  <2>1. p.to \in Heads
    BY <1>3 DEF ReceiveState
  <2>2. Trimmed(FoldLeft(Stored, confirms[p.to], p.confirms)) \in Lists
    <3>1. confirms[p.to] \in Tables
      BY <2>1 DEF EpochMemoryInv, Lists
    <3> QED  BY <1>0, <3>1, AllStoredIsTable, TrimmedIsList
  <2>3. /\ epoch' = [epoch EXCEPT ![p.to] = IF p.epoch > @ THEN p.epoch ELSE @]
        /\ confirms' = [confirms EXCEPT ![p.to] =
                           Trimmed(FoldLeft(Stored, confirms[p.to], p.confirms))]
    BY <1>3 DEF ReceiveState, EpochMemoryInv
  <2>4. EpochMemoryInv'
    BY <1>0, <2>1, <2>2, <2>3 DEF EpochMemoryInv
  <2>5. PersistEpoch(p.to) \/ UNCHANGED saves
    BY <1>3 DEF ReceiveState
  <2>6. EpochSavesInv'
    <3>1. CASE UNCHANGED saves
      BY <3>1 DEF EpochSavesInv
    <3> QED  BY <2>1, <2>4, <2>5, <3>1, PersistStep
  <2> QED  BY <1>3, <2>4, <2>6 DEF ReceiveState
<1> QED  BY <1>1, <1>2, <1>3 DEF ReceivePost

\* What a master posts is a post.
LEMMA PostsArePosts ==
  ASSUME EpochInv, NEW m \in Heads, NEW t \in Heads \cup Guards
  PROVE  /\ EpochPost(m, t) \in Posts /\ EpochPost(m, t).kind = "epoch"
         /\ EpochState(m, t) \in Posts /\ EpochState(m, t).to = t
<1>1. epoch[m] \in 0..MaxEpoch /\ confirms[m] \in Lists
  BY DEF EpochInv, EpochMemoryInv
<1>2. <<>> \in Lists
  BY EpochAssumption DEF Lists, Tables, IsInjective
<1> QED  BY <1>1, <1>2 DEF EpochPost, EpochState, Posts

\* A post more under way, or one less.
LEMMA PostedStep ==
  ASSUME EpochInv, NEW p \in Posts, p.kind = "state" => p.to \in Heads, Posted(p),
         UNCHANGED <<epoch, confirms, epochFile, saves>>
  PROVE  EpochInv'
<1>1. IsFiniteSet(posts) /\ Cardinality(posts) < MaxPosts /\ posts' = posts \cup {p}
  BY DEF EpochInv, Posted
<1>2. /\ IsFiniteSet(posts') /\ Cardinality(posts) \in Nat
      /\ Cardinality(posts') \in {Cardinality(posts), Cardinality(posts) + 1}
  BY <1>1, FS_AddElement, FS_CardinalityType
<1>3. Cardinality(posts') <= MaxPosts
  BY <1>1, <1>2, EpochAssumption
<1>4. posts' \in SUBSET Posts /\ \A q \in posts' : q.kind = "state" => q.to \in Heads
  BY <1>1 DEF EpochInv
<1>5. EpochMemoryInv' /\ EpochSavesInv'
  BY DEF EpochInv, EpochMemoryInv, EpochSavesInv
<1> QED  BY <1>2, <1>3, <1>4, <1>5 DEF EpochInv

\* Losing or answering posts keeps the invariant of the epochs.
LEMMA FewerPosts ==
  ASSUME EpochInv, posts' \subseteq posts, EpochMemoryInv', EpochSavesInv',
         epochFile' \in [Heads -> EpochFiles]
  PROVE  EpochInv'
<1>1. IsFiniteSet(posts) /\ Cardinality(posts) <= MaxPosts
  BY DEF EpochInv
<1>2. IsFiniteSet(posts') /\ Cardinality(posts') <= Cardinality(posts)
  BY <1>1, FS_Subset
<1>3. Cardinality(posts) \in Nat /\ Cardinality(posts') \in Nat
  BY <1>1, <1>2, FS_CardinalityType
<1>4. Cardinality(posts') <= MaxPosts
  BY <1>1, <1>2, <1>3, EpochAssumption
<1> QED  BY <1>2, <1>4 DEF EpochInv

\* The invariant of the epochs, the confirmations, the files and the posts.
THEOREM EpochInvariant == EpochSpec => []EpochInv
<1>1. EpochInit => EpochInv
  <2> SUFFICES ASSUME EpochInit PROVE EpochInv
    OBVIOUS
  <2>1. <<>> \in Lists /\ NoEpoch \in EpochFiles
    BY NoEpochIsSnapshot DEF NoEpoch, EpochFiles
  <2>2. IsFiniteSet({}) /\ Cardinality({}) = 0
    BY FS_EmptySet
  <2>3. EpochMemoryInv
    BY <2>1, EpochAssumption DEF EpochInit, EpochMemoryInv
  <2>4. EpochSavesInv
    BY <2>2, EpochAssumption DEF EpochInit, EpochSavesInv
  <2> QED  BY <2>1, <2>2, <2>3, <2>4, EpochAssumption DEF EpochInit, EpochInv
<1>2. EpochInv /\ [EpochNext]_epochVars => EpochInv'
  <2> SUFFICES ASSUME EpochInv, [EpochNext]_epochVars PROVE EpochInv'
    OBVIOUS
  <2>a. EpochMemoryInv /\ EpochSavesInv /\ epochFile \in [Heads -> EpochFiles]
    BY DEF EpochInv
  <2>1. ASSUME NEW m \in Heads, SaveEpochEnds(m) PROVE EpochInv'
    <3>1. PICK s \in saves[m] :
            /\ saves' = [saves EXCEPT ![m] = @ \ {s}]
            /\ epochFile' \in {epochFile, [epochFile EXCEPT ![m] = s]}
            /\ UNCHANGED <<epoch, confirms, deferred, advancing, posts>>
      BY <2>1 DEF SaveEpochEnds
    <3>2. s \in EpochFiles
      BY <2>a DEF EpochSavesInv
    <3>3. epochFile' \in [Heads -> EpochFiles]
      BY <3>1, <3>2, <2>a
    <3>4. EpochMemoryInv'
      BY <2>a, <3>1 DEF EpochMemoryInv
    <3>5. IsFiniteSet(saves[m]) /\ Cardinality(saves[m]) <= MaxSaves
      BY <2>a DEF EpochSavesInv
    <3>6. /\ IsFiniteSet(saves[m] \ {s})
          /\ Cardinality(saves[m] \ {s}) <= MaxSaves
      <4>1. IsFiniteSet(saves[m] \ {s}) /\ Cardinality(saves[m] \ {s}) <= Cardinality(saves[m])
        BY <3>5, FS_Subset
      <4>2. Cardinality(saves[m]) \in Nat /\ Cardinality(saves[m] \ {s}) \in Nat
        BY <3>5, <4>1, FS_CardinalityType
      <4> QED  BY <3>5, <4>1, <4>2, EpochAssumption
    <3>7. EpochSavesInv'
      BY <2>a, <3>1, <3>6 DEF EpochSavesInv
    <3> QED  BY <3>1, <3>3, <3>4, <3>7, FewerPosts
  <2>2. ASSUME NEW m \in Heads, FlushEpoch(m) PROVE EpochInv'
    <3>1. EpochMemoryInv'
      BY <2>a, <2>2 DEF FlushEpoch, EpochMemoryInv
    <3> QED  BY <2>a, <2>2, <3>1, PersistStep, FewerPosts DEF FlushEpoch
  <2>3. ASSUME NEW m \in Heads, AdvanceEpoch(m) PROVE EpochInv'
    <3>1. EpochMemoryInv'
      BY <2>a, <2>3, EpochAssumption DEF AdvanceEpoch, EpochMemoryInv
    <3>2. EpochSavesInv'
      BY <2>a, <2>3 DEF AdvanceEpoch, EpochSavesInv
    <3> QED  BY <2>a, <2>3, <3>1, <3>2, FewerPosts DEF AdvanceEpoch
  <2>4. ASSUME NEW m \in Heads, AdvanceEnds(m) PROVE EpochInv'
    <3>1. EpochMemoryInv'
      BY <2>a, <2>4 DEF AdvanceEnds, EpochMemoryInv
    <3> QED  BY <2>a, <2>4, <3>1, MarkStep, FewerPosts DEF AdvanceEnds
  <2>5. ASSUME NEW m \in Heads, RestartHead(m) PROVE EpochInv'
    <3>1. PICK s \in {epochFile[m], NoEpoch} :
            /\ epoch' = [epoch EXCEPT ![m] = s.epoch]
            /\ confirms' = [confirms EXCEPT ![m] = s.confirms]
            /\ saves' = [saves EXCEPT ![m] = {}]
            /\ UNCHANGED <<epochFile, posts>>
      BY <2>5 DEF RestartHead
    <3>2. s \in EpochFiles
      BY <2>a, <3>1, NoEpochIsSnapshot
    <3>3. EpochMemoryInv'
      BY <2>a, <3>1, <3>2 DEF EpochMemoryInv, EpochFiles
    <3>4. IsFiniteSet({}) /\ Cardinality({}) <= MaxSaves
      BY FS_EmptySet, EpochAssumption
    <3>5. EpochSavesInv'
      BY <2>a, <3>1, <3>4 DEF EpochSavesInv
    <3> QED  BY <2>a, <3>1, <3>3, <3>5, FewerPosts
  <2>6. ASSUME NEW m \in Heads, NEW t \in Heads \cup Guards, PostEpoch(m, t) PROVE EpochInv'
    BY <2>6, PostsArePosts, PostedStep DEF PostEpoch
  <2>7. ASSUME NEW m \in Heads, NEW t \in Heads \cup Guards, PostState(m, t) PROVE EpochInv'
    BY <2>7, PostsArePosts, PostedStep DEF PostState
  <2>8. ASSUME NEW m \in Heads, NEW t \in Heads \cup Guards, EpochReaches(m, t)
        PROVE  EpochInv'
    <3>1. EpochMemoryInv' /\ EpochSavesInv' /\ UNCHANGED epochFile
      BY <2>a, <2>8, PostsArePosts, ReceiveStep DEF EpochReaches
    <3> QED  BY <2>a, <2>8, <3>1, FewerPosts DEF EpochReaches
  <2>9. ASSUME NEW m \in Heads, NEW c \in Confirms, ReceiveConfirm(m, c) PROVE EpochInv'
    <3>1. Trimmed(Stored(confirms[m], c)) \in Lists
      BY <2>a, StoredIsTable, TrimmedIsList DEF EpochMemoryInv, Lists
    <3>2. EpochMemoryInv'
      BY <2>a, <2>9, <3>1 DEF ReceiveConfirm, EpochMemoryInv
    <3> QED  BY <2>a, <2>9, <3>2, MarkStep, FewerPosts DEF ReceiveConfirm
  <2>10. CASE PostArrives
    <3>1. PICK p \in posts : posts' = posts \ {p} /\ ReceivePost(p)
      BY <2>10 DEF PostArrives
    <3>2. p \in Posts /\ (p.kind = "state" => p.to \in Heads)
      BY DEF EpochInv
    <3>3. EpochMemoryInv' /\ EpochSavesInv' /\ UNCHANGED epochFile
      BY <2>a, <3>1, <3>2, ReceiveStep
    <3> QED  BY <2>a, <3>1, <3>3, FewerPosts
  <2>11. CASE LosePost \/ UNCHANGED epochVars
    <3>1. posts' \subseteq posts /\ UNCHANGED <<epoch, confirms, epochFile, saves>>
      BY <2>11 DEF LosePost, epochVars
    <3>2. EpochMemoryInv' /\ EpochSavesInv'
      BY <2>a, <3>1 DEF EpochMemoryInv, EpochSavesInv
    <3> QED  BY <2>a, <3>1, <3>2, FewerPosts
  <2>12. ASSUME NEW a \in Guards, RestartGuard(a) PROVE EpochInv'
    <3>1. EpochMemoryInv' /\ EpochSavesInv'
      BY <2>a, <2>12, EpochAssumption DEF RestartGuard, EpochMemoryInv, EpochSavesInv
    <3> QED  BY <2>a, <2>12, <3>1, FewerPosts DEF RestartGuard
  <2> QED
    BY <2>1, <2>2, <2>3, <2>4, <2>5, <2>6, <2>7, <2>8, <2>9, <2>10, <2>11, <2>12
       DEF EpochNext
<1> QED  BY <1>1, <1>2, PTL DEF EpochSpec

\* No epoch passes the one that was reached, and a master keeps each confirmation
\* once and no more than _max_confirms of them, whichever way they come: from a
\* client, in the state of another master, or from the file (receive_confirm,
\* receive_synced_state, _load_rule_epoch_state).
THEOREM EpochTypes == EpochSpec => []EpochTypeOK
<1>1. EpochInv => EpochTypeOK
  <2> SUFFICES ASSUME EpochInv PROVE EpochTypeOK
    OBVIOUS
  <2>1. ASSUME NEW m \in Heads
        PROVE  /\ Len(confirms[m]) <= MaxConfirms /\ IsInjective(confirms[m])
               /\ ToSet(confirms[m]) \subseteq Confirms
               /\ epochFile[m].epoch \in 0..MaxEpoch
    <3>1. confirms[m] \in Seq(Confirms) /\ confirms[m] \in Lists
      BY DEF EpochInv, EpochMemoryInv, Lists, Tables
    <3>2. epochFile[m] \in EpochFiles
      BY DEF EpochInv
    <3> QED  BY <3>1, <3>2 DEF Lists, Tables, ToSet, EpochFiles
  <2> QED  BY <2>1 DEF EpochInv, EpochMemoryInv, EpochSavesInv, EpochTypeOK
<1> QED  BY <1>1, EpochInvariant, PTL

-----------------------------------------------------------------------------
(* All three.                                                              *)

\* A behaviour of a group is one of each of its parts.
LEMMA GroupIsParts == GroupSpec => Spec /\ RegistrySpec /\ EpochSpec
<1>1. GroupInit => Init /\ RegistryInit /\ EpochInit
  BY DEF GroupInit
<1>2. [GroupNext]_groupVars => [Next]_vars /\ [RegistryNext]_registryVars /\ [EpochNext]_epochVars
  BY DEF GroupNext, groupVars, EpochPart
<1> QED  BY <1>1, <1>2, PTL DEF GroupSpec, Spec, RegistrySpec, EpochSpec

\* Elections, the registry and the epochs of a group are well formed; whoever
\* is in the node table was approved, and whoever is not banned has room for a
\* fault.
THEOREM GroupIsKept == GroupSpec => []GroupOK
<1>1. TypeOK /\ RegistryInv /\ EpochTypeOK => GroupOK
  BY DEF RegistryInv, GroupOK
<1> QED  BY <1>1, GroupIsParts, ElectionTypes, RegistryInvariant, EpochTypes, PTL
=============================================================================
