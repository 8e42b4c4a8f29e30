--------------------------- MODULE MasterElection ---------------------------
(***************************************************************************)
(* The election of a leader among the masters of a cluster: MasterElection *)
(* (master/election.py) with the HTTP callbacks that ClusterMaster gives   *)
(* it (master/cluster_master.py).                                          *)
(*                                                                         *)
(* Each master is one asyncio event loop.  The sections under _lock never  *)
(* suspend, so a handler is atomic up to its save of the state file, which *)
(* runs in a thread: saves of one master can end in any order, and other   *)
(* handlers run in the meantime.  A master without a state_path saves      *)
(* nothing and does not suspend there.                                     *)
(***************************************************************************)
EXTENDS Integers, FiniteSets

CONSTANTS
    Masters,    \* the masters of the cluster
    None,       \* "no master"
    Rank,       \* [Masters -> Int]: priority
    Known,      \* [Masters -> SUBSET Masters]: _known_nodes
    Durable,    \* the masters have a state_path
    Lossy,      \* requests and answers may be lost or late
    MayCrash,   \* masters that may crash and restart
    MaxTerm     \* no election is started beyond this term (a bound)

ASSUME ElectionAssumption ==
    /\ None \notin Masters
    /\ IsFiniteSet(Masters)
    /\ Rank \in [Masters -> Int]
    /\ Known \in [Masters -> SUBSET Masters]
    /\ \A m \in Masters : Masters \ {m} \subseteq Known[m]
    /\ Durable \in BOOLEAN /\ Lossy \in BOOLEAN
    /\ MayCrash \subseteq Masters
    /\ MaxTerm \in Nat

VARIABLES
    role,       \* state
    term,       \* current_term
    voted,      \* voted_for
    token,      \* fencing_token
    votes,      \* _votes_received
    leader,     \* _leader_id
    disk,       \* what the state file holds
    camp,       \* where the _start_election coroutine is
    round,      \* the term of its VoteRequest
    unasked,    \* the peers it has still to ask
    asked,      \* the peer whose answer it waits for
    saving,     \* the snapshots it has in the save thread
    requests,   \* vote requests on their way
    answers,    \* answers to them, not yet saved or on their way
    tosend,     \* the peers _broadcast_heartbeat has still to reach
    beats,      \* heartbeats on their way
    beatSaves   \* snapshots of receive_heartbeat calls in the save thread

memory == <<role, term, voted, token, votes, leader>>
campaign == <<camp, round, unasked, asked, saving>>
voting == <<requests, answers>>
beating == <<tosend, beats, beatSaves>>
vars == <<memory, disk, campaign, voting, beating>>

Terms == 0..MaxTerm
Snapshots == [term : Terms, voted : Masters \cup {None}, token : Nat]
Blank == [term |-> 0, voted |-> None, token |-> 0]

MajorityOfPeers(m) == (Cardinality(Known[m]) + 1) \div 2
Majority(m) == (Cardinality(Known[m]) + 1) \div 2 + 1
Peers(m) == Known[m] \ {m}

Init ==
    /\ role = [m \in Masters |-> "follower"]
    /\ term = [m \in Masters |-> 0]
    /\ voted = [m \in Masters |-> None]
    /\ token = [m \in Masters |-> 0]
    /\ votes = [m \in Masters |-> {}]
    /\ leader = [m \in Masters |-> None]
    /\ disk = [m \in Masters |-> Blank]
    /\ camp = [m \in Masters |-> "none"]
    /\ round = [m \in Masters |-> 0]
    /\ unasked = [m \in Masters |-> {}]
    /\ asked = [m \in Masters |-> None]
    /\ saving = [m \in Masters |-> Blank]
    /\ requests = {}
    /\ answers = {}
    /\ tosend = [m \in Masters |-> {}]
    /\ beats = {}
    /\ beatSaves = [m \in Masters |-> {}]

-----------------------------------------------------------------------------
(* Pieces of handlers                                                      *)

\* The snapshot that _persist_state_async takes, after the step.
Snapshot(m) == [term |-> term'[m], voted |-> voted'[m], token |-> token'[m]]

\* await _persist_state_async() in the campaign of m, which goes on at the
\* place next; without a state_path it is there already.
SaveThen(m, pc, next) ==
    IF Durable
    THEN /\ saving' = [saving EXCEPT ![m] = Snapshot(m)]
         /\ camp' = [camp EXCEPT ![m] = pc]
    ELSE /\ camp' = [camp EXCEPT ![m] = next]
         /\ UNCHANGED saving

\* _become_follower up to its callback, of which ClusterMaster registers none:
\* it assigns on_demoted, MasterElection calls _on_demoted.
BecomeFollower(m) ==
    /\ role' = [role EXCEPT ![m] = "follower"]
    /\ voted' = [voted EXCEPT ![m] = None]
    /\ votes' = [votes EXCEPT ![m] = {}]

\* _become_leader up to its save; no callback here either.
BecomeLeader(m) ==
    /\ role' = [role EXCEPT ![m] = "leader"]
    /\ leader' = [leader EXCEPT ![m] = m]
    /\ token' = [token EXCEPT ![m] = @ + 1]
    /\ UNCHANGED <<term, voted>>

-----------------------------------------------------------------------------
(* The election loop and its campaign                                      *)

\* _election_loop finds the heartbeat timeout passed, and _start_election
\* makes the master a candidate.
StartElection(m) ==
    /\ role[m] = "follower" /\ camp[m] = "none" /\ tosend[m] = {}
    /\ term[m] < MaxTerm
    /\ term' = [term EXCEPT ![m] = @ + 1]
    /\ role' = [role EXCEPT ![m] = "candidate"]
    /\ voted' = [voted EXCEPT ![m] = m]
    /\ votes' = [votes EXCEPT ![m] = {m}]
    /\ round' = [round EXCEPT ![m] = term[m] + 1]
    /\ unasked' = [unasked EXCEPT ![m] = Peers(m)]
    /\ UNCHANGED token
    /\ SaveThen(m, "opening", "polling")
    /\ UNCHANGED <<leader, disk, asked, voting, beating>>

\* The next peer is asked for its vote.
RequestVote(m) ==
    /\ camp[m] = "polling" /\ asked[m] = None
    /\ \E p \in unasked[m] :
         /\ unasked' = [unasked EXCEPT ![m] = @ \ {p}]
         /\ asked' = [asked EXCEPT ![m] = p]
         /\ requests' = requests \cup {[cand |-> m, voter |-> p, term |-> round[m]]}
    /\ UNCHANGED <<memory, disk, camp, round, saving, answers, beating>>

\* The exchange fails or times out, which counts as a refusal in term 0.  An
\* answer that comes later is thrown away.
RequestFails(m) ==
    /\ Lossy \/ asked[m] \in MayCrash
    /\ camp[m] = "polling" /\ asked[m] # None
    /\ asked' = [asked EXCEPT ![m] = None]
    /\ UNCHANGED <<memory, disk, camp, round, unasked, saving, voting, beating>>

\* Does m still wait for the answer a?
Awaited(a) == asked[a.cand] = a.voter /\ round[a.cand] = a.round

CountsVoteAlways(m, a) == a.granted
\* Only a candidate counts a vote: not a follower again, not a leader already.
CountsVote(m, a) == role[m] = "candidate" /\ a.granted

\* _handle_vote_response.  After a later term the candidate saves first and
\* becomes a follower when the save is done.
HandleVoteResponse(m, a) ==
    /\ a \in answers /\ a.cand = m /\ a.sent
    /\ camp[m] = "polling" /\ Awaited(a)
    /\ answers' = answers \ {a}
    /\ asked' = [asked EXCEPT ![m] = None]
    /\ \/ /\ a.term > term[m]
          /\ term' = [term EXCEPT ![m] = a.term]
          /\ UNCHANGED token
          /\ IF Durable THEN UNCHANGED <<role, voted, votes>> ELSE BecomeFollower(m)
          /\ SaveThen(m, "yielding", "polling")
          /\ UNCHANGED leader
       \/ /\ a.term <= term[m]
          /\ IF CountsVote(m, a)
             THEN /\ votes' = [votes EXCEPT ![m] = @ \cup {a.voter}]
                  /\ IF Cardinality(votes'[m]) >= Majority(m)
                     THEN BecomeLeader(m) /\ SaveThen(m, "crowning", "polling")
                     ELSE UNCHANGED <<role, leader, token, term, voted, camp, saving>>
             ELSE UNCHANGED <<memory, camp, saving>>
    /\ UNCHANGED <<disk, round, unasked, requests, beating>>

\* All peers were asked: with a majority, _become_leader is called, for the
\* second time when the majority was reached on the way.
FinishElection(m) ==
    /\ camp[m] = "polling" /\ asked[m] = None /\ unasked[m] = {}
    /\ IF Cardinality(votes[m]) >= Majority(m)
       THEN /\ BecomeLeader(m)
            /\ UNCHANGED votes
            /\ SaveThen(m, "closing", "none")
       ELSE /\ camp' = [camp EXCEPT ![m] = "none"]
            /\ UNCHANGED <<memory, saving>>
    /\ UNCHANGED <<disk, round, unasked, asked, voting, beating>>

\* A save of the campaign is on disk, and the campaign goes on.
CampaignSaved(m) ==
    /\ camp[m] \in {"opening", "yielding", "crowning", "closing"}
    /\ disk' = [disk EXCEPT ![m] = saving[m]]
    /\ saving' = [saving EXCEPT ![m] = Blank]
    /\ camp' = [camp EXCEPT ![m] = IF @ = "closing" THEN "none" ELSE "polling"]
    /\ IF camp[m] = "yielding" THEN BecomeFollower(m) ELSE UNCHANGED <<role, voted, votes>>
    /\ UNCHANGED <<term, token, leader, round, unasked, asked, voting, beating>>

-----------------------------------------------------------------------------
(* The handlers of a peer's requests                                       *)

GrantsAnyone(v, r, vf) == r.term >= term[v] /\ Rank[r.cand] >= Rank[v]
GrantsAnyRank(v, r, vf) == r.term >= term[v] /\ vf \in {None, r.cand}
\* The vote is given in a current term, once, to a candidate of at least the
\* same priority.  vf is voted_for after a possible _become_follower.
Grants(v, r, vf) ==
    /\ r.term >= term[v]
    /\ vf \in {None, r.cand}
    /\ Rank[r.cand] >= Rank[v]

\* handle_vote_request.  The answer leaves once the state is saved, at once
\* when nothing changed.
HandleVoteRequest(v, r) ==
    LET newer   == r.term > term[v]
        vf      == IF newer THEN None ELSE voted[v]
        granted == Grants(v, r, vf)
    IN  /\ r \in requests /\ r.voter = v
        /\ requests' = requests \ {r}
        /\ term' = [term EXCEPT ![v] = IF newer THEN r.term ELSE @]
        /\ role' = [role EXCEPT ![v] = IF newer THEN "follower" ELSE @]
        /\ votes' = [votes EXCEPT ![v] = IF newer THEN {} ELSE @]
        /\ voted' = [voted EXCEPT ![v] = IF granted THEN r.cand ELSE vf]
        /\ UNCHANGED token
        /\ answers' = answers \cup
              {[cand |-> r.cand, voter |-> v, round |-> r.term, term |-> term'[v],
                granted |-> granted, sent |-> ~(Durable /\ (newer \/ granted)),
                snap |-> Snapshot(v)]}
        /\ UNCHANGED <<leader, disk, campaign, beating>>

\* The save of a handle_vote_request is done, and the answer leaves.
AnswerSaved(a) ==
    /\ a \in answers /\ ~a.sent
    /\ disk' = [disk EXCEPT ![a.voter] = a.snap]
    /\ answers' = (answers \ {a}) \cup {[a EXCEPT !.sent = TRUE]}
    /\ UNCHANGED <<memory, campaign, requests, beating>>

\* A request is lost, or an answer is lost or comes when nobody waits for it.
LoseMessage ==
    /\ \/ /\ Lossy
          /\ \E r \in requests : requests' = requests \ {r}
          /\ UNCHANGED answers
       \/ /\ \E a \in answers : a.sent /\ (Lossy \/ ~Awaited(a)) /\ answers' = answers \ {a}
          /\ UNCHANGED requests
    /\ UNCHANGED <<memory, disk, campaign, beating>>

-----------------------------------------------------------------------------
(* Heartbeats                                                              *)

\* _election_loop of a leader: _broadcast_heartbeat to the peers known now.
\* The first request carries the term the loop has just looked at.
Broadcast(m) ==
    /\ role[m] = "leader" /\ camp[m] = "none" /\ tosend[m] = {}
    /\ \E p \in Peers(m) :
         /\ [from |-> m, to |-> p, term |-> term[m]] \notin beats
         /\ beats' = beats \cup {[from |-> m, to |-> p, term |-> term[m]]}
         /\ tosend' = [tosend EXCEPT ![m] = Peers(m) \ {p}]
    /\ UNCHANGED <<memory, disk, campaign, voting, beatSaves>>

\* The exchange with one peer is over, answered or timed out: the next request
\* carries the term the master has by now, leader or not.
SendHeartbeat(m) ==
    /\ \E p \in tosend[m] :
         /\ beats' = beats \cup {[from |-> m, to |-> p, term |-> term[m]]}
         /\ tosend' = [tosend EXCEPT ![m] = @ \ {p}]
    /\ UNCHANGED <<memory, disk, campaign, voting, beatSaves>>

AcceptsLater(m, b) == b.term > term[m]
\* A heartbeat counts in the receiver's term and in later ones.
Accepts(m, b) == b.term >= term[m]

\* receive_heartbeat.  A candidate or leader becomes a follower, a follower
\* keeps its voted_for in the new term.
ReceiveHeartbeat(m, b) ==
    /\ b \in beats /\ b.to = m
    /\ beats' = beats \ {b}
    /\ UNCHANGED token
    /\ IF Accepts(m, b)
       THEN /\ term' = [term EXCEPT ![m] = b.term]
            /\ leader' = [leader EXCEPT ![m] = b.from]
            /\ IF role[m] = "follower" THEN UNCHANGED <<role, voted, votes>>
               ELSE BecomeFollower(m)
            /\ beatSaves' = IF Durable
                            THEN [beatSaves EXCEPT ![m] = @ \cup {Snapshot(m)}]
                            ELSE beatSaves
       ELSE UNCHANGED <<role, term, voted, votes, leader, beatSaves>>
    /\ UNCHANGED <<disk, campaign, voting, tosend>>

\* The save of a receive_heartbeat is done.
HeartbeatSaved(m) ==
    /\ \E s \in beatSaves[m] :
         /\ disk' = [disk EXCEPT ![m] = s]
         /\ beatSaves' = [beatSaves EXCEPT ![m] = @ \ {s}]
    /\ UNCHANGED <<memory, campaign, voting, tosend, beats>>

LoseHeartbeat(b) ==
    /\ Lossy
    /\ b \in beats
    /\ beats' = beats \ {b}
    /\ UNCHANGED <<memory, disk, campaign, voting, tosend, beatSaves>>

-----------------------------------------------------------------------------
\* The process dies and starts again: _load_state.  Saves under way and
\* answers not yet sent are gone; what was sent is not.
CrashRestart(m) ==
    /\ m \in MayCrash
    /\ role' = [role EXCEPT ![m] = "follower"]
    /\ term' = [term EXCEPT ![m] = disk[m].term]
    /\ voted' = [voted EXCEPT ![m] = disk[m].voted]
    /\ token' = [token EXCEPT ![m] = disk[m].token]
    /\ votes' = [votes EXCEPT ![m] = {}]
    /\ leader' = [leader EXCEPT ![m] = None]
    /\ camp' = [camp EXCEPT ![m] = "none"]
    /\ unasked' = [unasked EXCEPT ![m] = {}]
    /\ asked' = [asked EXCEPT ![m] = None]
    /\ saving' = [saving EXCEPT ![m] = Blank]
    /\ answers' = {a \in answers : a.voter = m => a.sent}
    /\ tosend' = [tosend EXCEPT ![m] = {}]
    /\ beatSaves' = [beatSaves EXCEPT ![m] = {}]
    /\ UNCHANGED <<disk, round, requests, beats>>

-----------------------------------------------------------------------------
CampaignGoesOn(m) ==
    \/ RequestVote(m)
    \/ RequestFails(m)
    \/ \E a \in answers : HandleVoteResponse(m, a)
    \/ FinishElection(m)
    \/ CampaignSaved(m)

CampaignStep(m) == StartElection(m) \/ CampaignGoesOn(m)

PeerStep ==
    \/ \E r \in requests : HandleVoteRequest(r.voter, r)
    \/ \E a \in answers : AnswerSaved(a)
    \/ LoseMessage

HeartbeatStep ==
    \/ \E m \in Masters : Broadcast(m) \/ SendHeartbeat(m) \/ HeartbeatSaved(m)
    \/ \E b \in beats : ReceiveHeartbeat(b.to, b) \/ LoseHeartbeat(b)

Next ==
    \/ \E m \in Masters : CampaignStep(m) \/ CrashRestart(m)
    \/ PeerStep
    \/ HeartbeatStep

Spec == Init /\ [][Next]_vars

(* Fairness.  A campaign that has begun goes on, the loop of a leader runs, *)
(* exchanges end, saves end.  Nobody has to start a campaign.              *)
ElectionFairness ==
    \A m \in Masters :
        /\ WF_vars(CampaignGoesOn(m))
        /\ WF_vars(Broadcast(m))
        /\ WF_vars(SendHeartbeat(m))
        /\ WF_vars(HeartbeatSaved(m))
        /\ WF_vars(\E r \in requests : r.voter = m /\ HandleVoteRequest(m, r))
        /\ WF_vars(\E a \in answers : a.voter = m /\ AnswerSaved(a))
        /\ WF_vars(\E b \in beats : b.to = m /\ ReceiveHeartbeat(m, b))

FairSpec == Spec /\ ElectionFairness

-----------------------------------------------------------------------------
(* Properties                                                              *)

Roles == {"follower", "candidate", "leader"}
Answer == [cand : Masters, voter : Masters, round : Terms, term : Terms,
           granted : BOOLEAN, sent : BOOLEAN, snap : Snapshots]

\* Every variable stays in its type, and a master's fencing token grows at most
\* twice per term: in _handle_vote_response and again at the campaign's end.
TypeOK ==
    /\ \A m \in Masters : token[m] <= 2 * term[m]
    /\ role \in [Masters -> Roles]
    /\ term \in [Masters -> Terms]
    /\ voted \in [Masters -> Masters \cup {None}]
    /\ token \in [Masters -> Nat]
    /\ votes \in [Masters -> SUBSET Masters]
    /\ leader \in [Masters -> Masters \cup {None}]
    /\ disk \in [Masters -> Snapshots]
    /\ camp \in [Masters -> {"none", "opening", "polling", "yielding", "crowning", "closing"}]
    /\ round \in [Masters -> Terms]
    /\ unasked \in [Masters -> SUBSET Masters]
    /\ asked \in [Masters -> Masters \cup {None}]
    /\ saving \in [Masters -> Snapshots]
    /\ requests \subseteq [cand : Masters, voter : Masters, term : Terms]
    /\ answers \subseteq Answer
    /\ tosend \in [Masters -> SUBSET Masters]
    /\ beats \subseteq [from : Masters, to : Masters, term : Terms]
    /\ beatSaves \in [Masters -> SUBSET Snapshots]

\* Two masters never lead the same term at the same time.
OneLeaderPerTerm ==
    \A m, n \in Masters :
        role[m] = "leader" /\ role[n] = "leader" /\ term[m] = term[n] => m = n

\* No master has votes of masters that outrank it, so the highest priority that
\* takes part in an election cannot be outvoted by its own followers.
LeaderOutranksVoters ==
    \A m \in Masters : \A v \in votes[m] : Rank[v] <= Rank[m]

\* As long as a leader stays in its term, every master gets to know it, unless
\* some master moves to a later term.
LeaderGetsKnown ==
    \A m, p \in Masters : \A t \in Terms :
        role[m] = "leader" /\ term[m] = t
            ~> \/ leader[p] = m
               \/ role[m] # "leader"
               \/ \E q \in Masters : term[q] > t
=============================================================================
