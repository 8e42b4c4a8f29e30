------------------------------ MODULE RuleEpoch ------------------------------
(***************************************************************************)
(* The rule epoch and the confirmations of masters with an election: advance,*)
(* broadcast, receive, periodic synchronisation, persistence and restart   *)
(* (master/cluster_master.py, the routes of server/master_server.py), and  *)
(* the epoch an agent keeps (server/agent_server.py).                      *)
(*                                                                         *)
(* Every master passes the check `_election and _is_leader': _is_leader    *)
(* starts TRUE and its callbacks are never called (MasterHA).  A post may  *)
(* be lost, or arrive after later ones.  A broadcast and a state push read *)
(* the epoch once and post to one target after another; here every post    *)
(* reads it anew and is then delayed at will, which allows the same and    *)
(* more.  A confirmation is its pair (confirm_id, node_id), its MAC holds. *)
(***************************************************************************)
EXTENDS Naturals, FiniteSets, Sequences, SequencesExt

CONSTANTS
    Heads,       \* masters
    Filed,       \* those with a rule_epoch.json (_rule_epoch_path may be None)
    Guards,      \* agents, online at every master
    Confirms,    \* confirmations
    MaxConfirms, \* _max_confirms
    MaxEpoch,    \* how far the epoch is advanced (a bound)
    MaxPosts,    \* posts under way (a bound)
    MaxSaves     \* saves of one master under way (a bound)

ASSUME EpochAssumption ==
    /\ MaxConfirms \in Nat \ {0} /\ MaxEpoch \in Nat
    /\ MaxPosts \in Nat /\ MaxSaves \in Nat
    /\ Heads \cap Guards = {} /\ Filed \subseteq Heads

VARIABLES
    epoch,      \* _rule_epoch of every master and agent
    confirms,   \* _confirms of a master, oldest first
    epochFile,  \* rule_epoch.json of a master
    saves,      \* snapshots in threads that write them
    deferred,   \* _rule_epoch_dirty
    advancing,  \* an advance_rule_epoch has broadcast and not yet saved
    posts       \* requests under way

epochVars == <<epoch, confirms, epochFile, saves, deferred, advancing, posts>>

NoEpoch == [epoch |-> 0, confirms |-> <<>>]

EpochInit ==
    /\ epoch = [p \in Heads \cup Guards |-> 0]
    /\ confirms = [m \in Heads |-> <<>>]
    /\ epochFile = [m \in Heads |-> NoEpoch]
    /\ saves = [m \in Heads |-> {}]
    /\ deferred = [m \in Heads |-> FALSE]
    /\ advancing = [m \in Heads |-> FALSE]
    /\ posts = {}

-----------------------------------------------------------------------------
(* Persistence.                                                            *)

\* _build_rule_epoch_snapshot, after the assignments of the action.
EpochSnapshot(m) == [epoch |-> epoch'[m], confirms |-> confirms'[m]]

\* _persist_rule_epoch_async: a thread gets the snapshot.
PersistEpoch(m) ==
    IF m \in Filed
    THEN /\ Cardinality(saves[m]) < MaxSaves
         /\ saves' = [saves EXCEPT ![m] = @ \cup {EpochSnapshot(m)}]
    ELSE UNCHANGED saves

\* _mark_rule_epoch_dirty: at once, or left to the loop when the last save is
\* recent (which means nothing without a file).
MarkEpochDirty(m) ==
    \/ PersistEpoch(m) /\ UNCHANGED deferred
    \/ m \in Filed /\ deferred' = [deferred EXCEPT ![m] = TRUE] /\ UNCHANGED saves

\* _save_rule_epoch_snapshot: saves end in any order; one that fails is gone.
SaveEpochEnds(m) == \E s \in saves[m] :
    /\ saves' = [saves EXCEPT ![m] = @ \ {s}]
    /\ epochFile' \in {epochFile, [epochFile EXCEPT ![m] = s]}
    /\ UNCHANGED <<epoch, confirms, deferred, advancing, posts>>

\* _persist_loop, in a round that finds the task table dirty as well (others
\* leave the epoch alone).
FlushEpoch(m) ==
    /\ deferred[m]
    /\ deferred' = [deferred EXCEPT ![m] = FALSE]
    /\ UNCHANGED <<epoch, confirms, epochFile, advancing, posts>>
    /\ PersistEpoch(m)

-----------------------------------------------------------------------------
(* The epoch.                                                              *)

\* advance_rule_epoch up to its broadcast, which awaits.
AdvanceEpoch(m) ==
    /\ epoch[m] < MaxEpoch /\ ~advancing[m]
    /\ epoch' = [epoch EXCEPT ![m] = @ + 1]
    /\ advancing' = [advancing EXCEPT ![m] = TRUE]
    /\ UNCHANGED <<confirms, epochFile, saves, deferred, posts>>

\* ... and after it.
AdvanceEnds(m) ==
    /\ advancing[m]
    /\ advancing' = [advancing EXCEPT ![m] = FALSE]
    /\ UNCHANGED <<epoch, confirms, epochFile, posts>>
    /\ MarkEpochDirty(m)

\* _build_epoch_targets: the workers that are online, and the other masters.
EpochTargetsHeads(m) == Heads \ {m}
EpochTargets(m) == Guards \cup (Heads \ {m})

Posted(p) == Cardinality(posts) < MaxPosts /\ posts' = posts \cup {p}

\* _broadcast_rule_epoch to one of them, on an advance and in every round of
\* _state_sync_loop; the epoch 0 is not broadcast.
EpochPost(m, t) == [kind |-> "epoch", to |-> t, epoch |-> epoch[m], confirms |-> <<>>]

PostEpoch(m, t) ==
    /\ t \in EpochTargets(m) /\ epoch[m] > 0
    /\ Posted(EpochPost(m, t))
    /\ UNCHANGED <<epoch, confirms, epochFile, saves, deferred, advancing>>

\* The epoch part of the payload of _build_state_sync_targets.
EpochState(m, t) == [kind |-> "state", to |-> t, epoch |-> epoch[m], confirms |-> confirms[m]]

\* _push_sync_state_to_standbys to one of the other masters, every round.
PostState(m, t) ==
    /\ t \in Heads \ {m}
    /\ Posted(EpochState(m, t))
    /\ UNCHANGED <<epoch, confirms, epochFile, saves, deferred, advancing>>

LosePost == \E p \in posts :
    /\ posts' = posts \ {p}
    /\ UNCHANGED <<epoch, confirms, epochFile, saves, deferred, advancing>>

\* receive_rule_epoch of a master: only an epoch that is ahead is taken.
AheadByOne(m, e) == e = epoch[m] + 1
Ahead(m, e) == e > epoch[m]

ReceiveEpoch(p) ==
    /\ p.kind = "epoch" /\ p.to \in Heads
    /\ UNCHANGED <<confirms, epochFile, advancing>>
    /\ IF Ahead(p.to, p.epoch)
       THEN epoch' = [epoch EXCEPT ![p.to] = p.epoch] /\ MarkEpochDirty(p.to)
       ELSE UNCHANGED <<epoch, saves, deferred>>

\* receive_rule_epoch of an agent: any epoch is taken.
GuardReceives(p) ==
    /\ p.to \in Guards
    /\ epoch' = [epoch EXCEPT ![p.to] = p.epoch]
    /\ UNCHANGED <<confirms, epochFile, saves, deferred, advancing>>

-----------------------------------------------------------------------------
(* Confirmations.                                                          *)

\* An update keeps its place in the table.
Stored(s, c) == IF c \in ToSet(s) THEN s ELSE Append(s, c)

\* Beyond the limit the oldest go.
Untrimmed(s) == s
Trimmed(s) ==
    IF Len(s) <= MaxConfirms THEN s ELSE SubSeq(s, Len(s) - MaxConfirms + 1, Len(s))

ReceiveConfirm(m, c) ==
    /\ confirms' = [confirms EXCEPT ![m] = Trimmed(Stored(@, c))]
    /\ UNCHANGED <<epoch, epochFile, advancing, posts>>
    /\ MarkEpochDirty(m)

\* receive_synced_state: the later epoch, and all confirmations, trimmed once
\* they are all in; the file is written only if there are any.
ReceiveState(p) ==
    /\ p.kind = "state"
    /\ epoch' = [epoch EXCEPT ![p.to] = IF p.epoch > @ THEN p.epoch ELSE @]
    /\ confirms' = [confirms EXCEPT ![p.to] = Trimmed(FoldLeft(Stored, @, p.confirms))]
    /\ UNCHANGED <<epochFile, deferred, advancing>>
    /\ IF p.confirms = <<>> THEN UNCHANGED saves ELSE PersistEpoch(p.to)

ReceivePost(p) == ReceiveEpoch(p) \/ GuardReceives(p) \/ ReceiveState(p)

PostArrives == \E p \in posts : posts' = posts \ {p} /\ ReceivePost(p)

\* A broadcast that is neither lost nor late.
EpochReaches(m, t) ==
    /\ t \in EpochTargets(m) /\ epoch[m] > 0
    /\ ReceivePost(EpochPost(m, t))
    /\ UNCHANGED posts

-----------------------------------------------------------------------------
(* Restart.                                                                *)

\* start and _load_rule_epoch_state: the file, or nothing when it is unreadable.
RestartHead(m) == \E s \in {epochFile[m], NoEpoch} :
    /\ epoch' = [epoch EXCEPT ![m] = s.epoch]
    /\ confirms' = [confirms EXCEPT ![m] = s.confirms]
    /\ saves' = [saves EXCEPT ![m] = {}]
    /\ deferred' = [deferred EXCEPT ![m] = FALSE]
    /\ advancing' = [advancing EXCEPT ![m] = FALSE]
    /\ UNCHANGED <<epochFile, posts>>

\* An agent keeps its epoch in memory only.
RestartGuard(a) ==
    /\ epoch' = [epoch EXCEPT ![a] = 0]
    /\ UNCHANGED <<confirms, epochFile, saves, deferred, advancing, posts>>

EpochNext ==
    \/ \E m \in Heads :
          \/ SaveEpochEnds(m) \/ FlushEpoch(m) \/ AdvanceEpoch(m) \/ AdvanceEnds(m)
          \/ RestartHead(m)
          \/ \E t \in Heads \cup Guards : PostEpoch(m, t) \/ EpochReaches(m, t) \/ PostState(m, t)
          \/ \E c \in Confirms : ReceiveConfirm(m, c)
    \/ PostArrives \/ LosePost
    \/ \E a \in Guards : RestartGuard(a)

\* _state_sync_loop broadcasts again and again to every target, and not all of
\* these posts are lost or late.
EpochFairness == \A m \in Heads, t \in Heads \cup Guards : WF_epochVars(EpochReaches(m, t))

EpochSpec == EpochInit /\ [][EpochNext]_epochVars /\ EpochFairness

-----------------------------------------------------------------------------
(* What the epochs promise.                                                *)

\* Types; the confirmations of a master are within _max_confirms, each once.
EpochTypeOK ==
    /\ epoch \in [Heads \cup Guards -> 0..MaxEpoch]
    /\ \A m \in Heads :
          /\ Len(confirms[m]) <= MaxConfirms /\ IsInjective(confirms[m])
          /\ ToSet(confirms[m]) \subseteq Confirms
          /\ epochFile[m].epoch \in 0..MaxEpoch
          /\ Cardinality(saves[m]) <= MaxSaves
    /\ Cardinality(posts) <= MaxPosts

\* Whatever is lost or late, and whoever restarts: as long as the latest epoch
\* of all masters is e, the masters come to agree on e.
LatestEpoch(e) == (\E m \in Heads : epoch[m] = e) /\ (\A m \in Heads : epoch[m] <= e)
EpochSpreads ==
    \A e \in 1..MaxEpoch :
        LatestEpoch(e) ~> ((\A m \in Heads : epoch[m] = e) \/ ~LatestEpoch(e))

\* Once the masters agree for good, an agent has their epoch again and again,
\* although it takes every epoch it is sent and forgets it when it restarts.
AgentsCatchUp ==
    \A e \in 1..MaxEpoch :
        <>[](\A m \in Heads : epoch[m] = e) => \A a \in Guards : []<>(epoch[a] = e)
=============================================================================
