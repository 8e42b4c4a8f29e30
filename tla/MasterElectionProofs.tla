------------------------ MODULE MasterElectionProofs ------------------------
(***************************************************************************)
(* What MasterElection promises, proved for any number of masters, any     *)
(* ranks, any loss of messages and any number of terms.                    *)
(***************************************************************************)
EXTENDS MasterElection, FiniteSetTheorems, TLAPS

\* How often the campaign of m can still raise its fencing token: on the way to
\* the majority and at the end, or at the end alone.
Pending(m) ==
    IF camp[m] \in {"none", "closing"} THEN 0
    ELSE IF role[m] = "candidate" THEN 2 ELSE 1

TokenPaced == \A m \in Masters : token[m] + Pending(m) <= 2 * term[m]

TokenWithinTerm == \A m \in Masters : token[m] <= 2 * term[m]

\* Whatever a state file holds or may come to hold is paced as well.
Paced(s) == s.token <= 2 * s.term
SnapshotsPaced ==
    /\ \A m \in Masters : Paced(disk[m]) /\ Paced(saving[m])
    /\ \A a \in answers : Paced(a.snap)
    /\ \A m \in Masters : \A s \in beatSaves[m] : Paced(s)

\* Followers have no votes, leaders have a majority of them.
VotesFitRoles ==
    \A m \in Masters :
        /\ role[m] = "follower" => votes[m] = {}
        /\ role[m] = "leader" => Cardinality(votes[m]) >= Majority(m)

\* A vote goes to a master of at least the rank of the voter.
GrantsRespectRank ==
    \A a \in answers : a.granted => Rank[a.voter] <= Rank[a.cand]

\* The inductive invariant of an election, with or without state files.
ElectionInv ==
    /\ TypeOK /\ TokenPaced /\ SnapshotsPaced
    /\ VotesFitRoles /\ GrantsRespectRank /\ LeaderOutranksVoters

-----------------------------------------------------------------------------
(* Votes are given once                                                    *)

\* v gave its vote to m in term t: the answer is on its way, or m counted it.
Given(v, m, t) ==
    \/ \E a \in answers : a.granted /\ a.voter = v /\ a.cand = m /\ a.round = t
    \/ v # m /\ v \in votes[m] /\ role[m] # "follower" /\ round[m] = t

\* No campaign is told of a later term: a master with a state file raises its
\* term before it steps down, saves in between, and forgets afterwards a vote
\* that it gave in the meantime.
NobodyYields == \A m \in Masters : camp[m] # "yielding"

\* Whoever crashes has its present term and vote in its file.
TidyCrash ==
    \A m \in Masters : CrashRestart(m) => disk[m].term = term[m] /\ disk[m].voted = voted[m]

\* Nobody asks itself.
OthersAreAsked ==
    /\ \A r \in requests : r.cand # r.voter
    /\ \A a \in answers : a.cand # a.voter
    /\ \A m \in Masters : m \notin unasked[m]

\* A master that is no follower is in the term of its campaign and voted for
\* itself.
OwnVote ==
    \A m \in Masters :
        role[m] # "follower" => term[m] = round[m] /\ voted[m] = m

\* A vote was given in a term the voter reached, and it remembers the one of
\* its present term as long as it lasts.
VotesRemembered ==
    \A v, m \in Masters : \A t \in Terms :
        Given(v, m, t) =>
            /\ t <= term[v]
            /\ t = term[v] => role[v] = "follower" /\ voted[v] = m

\* No master gives two votes in one term.
OneVotePerTerm ==
    \A v, m, n \in Masters : \A t \in Terms :
        Given(v, m, t) /\ Given(v, n, t) => m = n

\* The inductive invariant of masters that never yield and crash tidily.
SplitInv ==
    /\ ElectionInv /\ OthersAreAsked /\ OwnVote
    /\ VotesRemembered /\ OneVotePerTerm

-----------------------------------------------------------------------------
(* Lemmas                                                                  *)

\* A majority is a positive number.
LEMMA MajorityPositive ==
    ASSUME NEW m \in Masters
    PROVE  Majority(m) \in Nat /\ Majority(m) >= 1
<1>1. IsFiniteSet(Known[m])
    BY FS_Subset, ElectionAssumption
<1>2. Cardinality(Known[m]) \in Nat
    BY <1>1, FS_CardinalityType
<1> QED
    BY <1>2 DEF Majority

\* Initially every variable has its type, and the files are blank.
LEMMA ElectionInit == Init => ElectionInv
<1> SUFFICES ASSUME Init PROVE ElectionInv
    OBVIOUS
<1>1. Blank \in Snapshots
    BY ElectionAssumption DEF Blank, Snapshots, Terms
<1>2. TypeOK
    BY <1>1, ElectionAssumption DEF Init, TypeOK, Terms, Roles, Answer
<1>3. TokenPaced /\ SnapshotsPaced
    BY DEF Init, TokenPaced, Pending, SnapshotsPaced, Paced, Blank
<1> QED
    BY <1>2, <1>3
    DEF Init, ElectionInv, VotesFitRoles, GrantsRespectRank, LeaderOutranksVoters

\* A campaign that is saved, or needs no save, goes on in its type.
LEMMA SaveThenTyped ==
    ASSUME NEW m \in Masters, NEW pc, NEW next, SaveThen(m, pc, next), TypeOK,
           Snapshot(m) \in Snapshots,
           {pc, next} \subseteq {"none", "opening", "polling", "yielding", "crowning", "closing"}
    PROVE  /\ camp' \in [Masters -> {"none", "opening", "polling", "yielding", "crowning", "closing"}]
           /\ saving' \in [Masters -> Snapshots]
BY DEF SaveThen, TypeOK

\* The types are kept by a campaign.
LEMMA CampaignTyped ==
    ASSUME TypeOK, TokenWithinTerm', NEW m \in Masters, CampaignStep(m)
    PROVE  TypeOK'
<1> USE ElectionAssumption
<1>0. \A n \in Masters : token'[n] <= 2 * term'[n]
    BY DEF TokenWithinTerm
<1>1. CASE StartElection(m)
  <2>1. /\ term' \in [Masters -> Terms] /\ voted' \in [Masters -> Masters \cup {None}]
        /\ token' \in [Masters -> Nat]
      BY <1>1 DEF StartElection, TypeOK, Terms
  <2>2. Snapshot(m) \in Snapshots
      BY <2>1 DEF Snapshot, Snapshots
  <2>3. /\ camp' \in [Masters -> {"none", "opening", "polling", "yielding", "crowning", "closing"}]
        /\ saving' \in [Masters -> Snapshots]
      BY <1>1, <2>2, SaveThenTyped DEF StartElection
  <2> QED
      BY <1>0, <1>1, <2>1, <2>3 DEF StartElection, TypeOK, Roles, Terms, Peers, voting, beating
<1>2. CASE RequestVote(m)
    BY <1>0, <1>2 DEF RequestVote, TypeOK, memory, beating
<1>3. CASE RequestFails(m)
    BY <1>0, <1>3 DEF RequestFails, TypeOK, memory, voting, beating
<1>4. ASSUME NEW a \in answers, HandleVoteResponse(m, a) PROVE TypeOK'
  <2> USE <1>4 DEF HandleVoteResponse
  <2>1. a \in Answer
      BY DEF TypeOK
  <2>2. /\ term' \in [Masters -> Terms] /\ voted' \in [Masters -> Masters \cup {None}]
        /\ token' \in [Masters -> Nat] /\ role' \in [Masters -> Roles]
        /\ votes' \in [Masters -> SUBSET Masters]
        /\ leader' \in [Masters -> Masters \cup {None}]
    <3>1. CASE a.term > term[m] /\ Durable
        BY <3>1, <2>1 DEF TypeOK, Terms, Answer
    <3>2. CASE a.term > term[m] /\ ~Durable
      <4>1. /\ BecomeFollower(m) /\ term' = [term EXCEPT ![m] = a.term]
            /\ UNCHANGED <<token, leader>>
          BY <3>2, <2>1 DEF TypeOK, Terms, Answer
      <4> QED
          BY ONLY <4>1, <2>1, TypeOK, m \in Masters, ElectionAssumption
          DEF TypeOK, Terms, Answer, BecomeFollower, Roles
    <3>3. CASE a.term <= term[m] /\ CountsVote(m, a)
      <4>1. /\ votes' = [votes EXCEPT ![m] = @ \cup {a.voter}]
            /\ \/ BecomeLeader(m)
               \/ UNCHANGED <<role, leader, token, term, voted>>
          BY <3>3, <2>1 DEF TypeOK, Terms, Answer
      <4> QED
          BY ONLY SMTT(30), <4>1, <2>1, TypeOK, m \in Masters, ElectionAssumption
          DEF TypeOK, Terms, Answer, BecomeLeader, Roles
    <3>4. CASE a.term <= term[m] /\ ~CountsVote(m, a)
        BY <3>4, <2>1 DEF TypeOK, Terms, Answer, memory
    <3> QED
        BY <3>1, <3>2, <3>3, <3>4, <2>1 DEF TypeOK, Terms, Answer
  <2>3. Snapshot(m) \in Snapshots
      BY <2>2 DEF Snapshot, Snapshots
  <2>4. /\ camp' \in [Masters -> {"none", "opening", "polling", "yielding", "crowning", "closing"}]
        /\ saving' \in [Masters -> Snapshots]
    <3>1. \/ \E pc \in {"yielding", "crowning"} : SaveThen(m, pc, "polling")
          \/ UNCHANGED <<camp, saving>>
        OBVIOUS
    <3> QED
        BY SMTT(30), <3>1, <2>3, SaveThenTyped DEF TypeOK
  <2>5. /\ answers' \subseteq Answer /\ asked' \in [Masters -> Masters \cup {None}]
      BY DEF TypeOK
  <2> QED
      BY <1>0, <2>2, <2>4, <2>5 DEF TypeOK, beating
<1>5. CASE FinishElection(m)
  <2> USE <1>5 DEF FinishElection
  <2>1. /\ term' \in [Masters -> Terms] /\ voted' \in [Masters -> Masters \cup {None}]
        /\ token' \in [Masters -> Nat] /\ role' \in [Masters -> Roles]
        /\ votes' \in [Masters -> SUBSET Masters]
        /\ leader' \in [Masters -> Masters \cup {None}]
      BY SMTT(30) DEF TypeOK, Terms, BecomeLeader, memory, Roles
  <2>2. Snapshot(m) \in Snapshots
      BY <2>1 DEF Snapshot, Snapshots
  <2>3. /\ camp' \in [Masters -> {"none", "opening", "polling", "yielding", "crowning", "closing"}]
        /\ saving' \in [Masters -> Snapshots]
    <3>1. CASE SaveThen(m, "closing", "none")
        BY <3>1, <2>2, SaveThenTyped
    <3>2. CASE camp' = [camp EXCEPT ![m] = "none"] /\ UNCHANGED saving
        BY <3>2 DEF TypeOK
    <3> QED
        BY <3>1, <3>2
  <2> QED
      BY <1>0, <2>1, <2>3 DEF TypeOK, voting, beating
<1>6. CASE CampaignSaved(m)
  <2> USE <1>6 DEF CampaignSaved
  <2>1. Blank \in Snapshots
      BY DEF Blank, Snapshots, Terms
  <2>2. /\ role' \in [Masters -> Roles] /\ voted' \in [Masters -> Masters \cup {None}]
        /\ votes' \in [Masters -> SUBSET Masters]
      BY SMTT(30) DEF TypeOK, BecomeFollower, Roles
  <2>3. /\ disk' \in [Masters -> Snapshots] /\ saving' \in [Masters -> Snapshots]
      BY <2>1 DEF TypeOK
  <2>4. camp' \in [Masters -> {"none", "opening", "polling", "yielding", "crowning", "closing"}]
      BY DEF TypeOK
  <2> QED
      BY <1>0, <2>2, <2>3, <2>4 DEF TypeOK, voting, beating
<1> QED
    BY <1>1, <1>2, <1>3, <1>4, <1>5, <1>6 DEF CampaignStep, CampaignGoesOn

\* The types are kept by the peers, the heartbeats and a restart.
LEMMA OthersTyped ==
    ASSUME TypeOK, TokenWithinTerm',
           PeerStep \/ HeartbeatStep \/ (\E m \in Masters : CrashRestart(m))
    PROVE  TypeOK'
<1> USE ElectionAssumption
<1>0. \A n \in Masters : token'[n] <= 2 * term'[n]
    BY DEF TokenWithinTerm
<1>1. ASSUME NEW r \in requests, HandleVoteRequest(r.voter, r) PROVE TypeOK'
  <2> DEFINE v == r.voter
  <2>1. r \in [cand : Masters, voter : Masters, term : Terms]
      BY DEF TypeOK
  <2>2. /\ term' \in [Masters -> Terms] /\ voted' \in [Masters -> Masters \cup {None}]
        /\ token' \in [Masters -> Nat] /\ role' \in [Masters -> Roles]
        /\ votes' \in [Masters -> SUBSET Masters]
      BY <1>1, <2>1 DEF HandleVoteRequest, TypeOK, Roles
  <2>3. Snapshot(v) \in Snapshots
      BY <2>1, <2>2 DEF Snapshot, Snapshots
  <2>4. answers' \subseteq Answer
    <3> DEFINE newer == r.term > term[v]
               vf == IF newer THEN None ELSE voted[v]
               granted == Grants(v, r, vf)
               a == [cand |-> r.cand, voter |-> v, round |-> r.term, term |-> term'[v],
                     granted |-> granted, sent |-> ~(Durable /\ (newer \/ granted)),
                     snap |-> Snapshot(v)]
    <3>1. answers' = answers \cup {a}
        BY <1>1 DEF HandleVoteRequest
    <3>2. granted \in BOOLEAN /\ newer \in BOOLEAN
        BY DEF Grants
    <3>3. a \in Answer
        BY <2>1, <2>2, <2>3, <3>2 DEF Answer
    <3> QED
        BY <3>1, <3>3 DEF TypeOK
  <2> QED
      BY <1>0, <1>1, <2>2, <2>4 DEF HandleVoteRequest, TypeOK, campaign, beating
<1>2. ASSUME NEW a \in answers, AnswerSaved(a) PROVE TypeOK'
  <2>1. a \in Answer
      BY DEF TypeOK
  <2>2. [a EXCEPT !.sent = TRUE] \in Answer
      BY <2>1 DEF Answer
  <2> QED
      BY <1>0, <1>2, <2>1, <2>2 DEF AnswerSaved, TypeOK, Answer, memory, campaign, beating
<1>3. CASE LoseMessage
    BY <1>0, <1>3 DEF LoseMessage, TypeOK, memory, campaign, beating
<1>4. ASSUME NEW m \in Masters, Broadcast(m) PROVE TypeOK'
    BY <1>0, <1>4 DEF Broadcast, TypeOK, Peers, memory, campaign, voting
<1>5. ASSUME NEW m \in Masters, SendHeartbeat(m) PROVE TypeOK'
    BY <1>0, <1>5 DEF SendHeartbeat, TypeOK, memory, campaign, voting
<1>6. ASSUME NEW m \in Masters, HeartbeatSaved(m) PROVE TypeOK'
    BY <1>0, <1>6 DEF HeartbeatSaved, TypeOK, memory, campaign, voting
<1>7. ASSUME NEW b \in beats, ReceiveHeartbeat(b.to, b) PROVE TypeOK'
  <2>1. b \in [from : Masters, to : Masters, term : Terms]
      BY DEF TypeOK
  <2>2. /\ term' \in [Masters -> Terms] /\ voted' \in [Masters -> Masters \cup {None}]
        /\ token' \in [Masters -> Nat] /\ role' \in [Masters -> Roles]
        /\ votes' \in [Masters -> SUBSET Masters]
        /\ leader' \in [Masters -> Masters \cup {None}]
      BY SMTT(30), <1>7, <2>1 DEF ReceiveHeartbeat, TypeOK, Roles, BecomeFollower
  <2>3. Snapshot(b.to) \in Snapshots
      BY <2>1, <2>2 DEF Snapshot, Snapshots
  <2>4. beatSaves' \in [Masters -> SUBSET Snapshots]
      BY <1>7, <2>1, <2>3 DEF ReceiveHeartbeat, TypeOK
  <2> QED
      BY <1>0, <1>7, <2>2, <2>4 DEF ReceiveHeartbeat, TypeOK, campaign, voting
<1>8. ASSUME NEW b \in beats, LoseHeartbeat(b) PROVE TypeOK'
    BY <1>0, <1>8 DEF LoseHeartbeat, TypeOK, memory, campaign, voting
<1>9. ASSUME NEW m \in Masters, CrashRestart(m) PROVE TypeOK'
  <2>1. disk[m] \in Snapshots /\ Blank \in Snapshots
      BY DEF TypeOK, Blank, Snapshots, Terms
  <2>2. /\ term' \in [Masters -> Terms] /\ voted' \in [Masters -> Masters \cup {None}]
        /\ token' \in [Masters -> Nat] /\ saving' \in [Masters -> Snapshots]
      BY <1>9, <2>1 DEF CrashRestart, TypeOK, Snapshots
  <2> QED
      BY <1>0, <1>9, <2>2 DEF CrashRestart, TypeOK, Roles
<1> QED
    BY <1>1, <1>2, <1>3, <1>4, <1>5, <1>6, <1>7, <1>8, <1>9 DEF PeerStep, HeartbeatStep

\* The token stays within what the term allows: a new term pays for two more.
LEMMA TokenStep ==
    ASSUME ElectionInv, Next
    PROVE  TokenPaced' /\ TokenWithinTerm'
<1> USE ElectionAssumption DEF ElectionInv
<1> DEFINE P(n) == token'[n] + Pending(n)' <= 2 * term'[n] /\ token'[n] <= 2 * term'[n]
<1> SUFFICES \A n \in Masters : P(n)
    BY DEF TokenPaced, TokenWithinTerm
<1>0. \A n \in Masters : /\ token[n] \in Nat /\ term[n] \in Nat
                         /\ token[n] + Pending(n) <= 2 * term[n] /\ Pending(n) \in 0..2
    BY DEF TypeOK, TokenPaced, Pending, Terms
<1>q. UNCHANGED <<memory, camp>> => \A n \in Masters : P(n)
    BY <1>0 DEF memory, Pending
<1>1. ASSUME NEW m \in Masters, StartElection(m) PROVE \A n \in Masters : P(n)
    BY <1>0, <1>1 DEF StartElection, SaveThen, Pending, TypeOK
<1>2. ASSUME NEW m \in Masters, RequestVote(m) PROVE \A n \in Masters : P(n)
    BY <1>q, <1>2 DEF RequestVote
<1>3. ASSUME NEW m \in Masters, RequestFails(m) PROVE \A n \in Masters : P(n)
    BY <1>q, <1>3 DEF RequestFails
<1>4. ASSUME NEW m \in Masters, NEW a \in answers, HandleVoteResponse(m, a)
      PROVE  \A n \in Masters : P(n)
  <2> USE <1>4 DEF HandleVoteResponse
  <2>1. a.term \in Nat
      BY DEF TypeOK, Answer, Terms
  <2>2. CASE a.term > term[m]
      BY <1>0, <2>1, <2>2 DEF BecomeFollower, SaveThen, Pending, TypeOK
  <2>3. CASE a.term <= term[m] /\ CountsVote(m, a) /\ BecomeLeader(m) /\ SaveThen(m, "crowning", "polling")
      BY <1>0, <2>3 DEF CountsVote, BecomeLeader, SaveThen, Pending, TypeOK
  <2>4. CASE UNCHANGED <<role, leader, token, term, voted, camp>>
      BY <1>0, <2>4 DEF Pending
  <2> QED
      BY <2>1, <2>2, <2>3, <2>4, <1>0 DEF memory
<1>5. ASSUME NEW m \in Masters, FinishElection(m) PROVE \A n \in Masters : P(n)
  <2> USE <1>5 DEF FinishElection
  <2>1. CASE Cardinality(votes[m]) >= Majority(m)
    <3>1. votes[m] # {}
        BY SMTT(30), <2>1, MajorityPositive, FS_EmptySet
    <3>2. role[m] # "follower"
        BY <3>1 DEF VotesFitRoles
    <3> QED
        BY <1>0, <2>1, <3>2 DEF BecomeLeader, SaveThen, Pending, TypeOK
  <2>2. CASE ~(Cardinality(votes[m]) >= Majority(m))
      BY <1>0, <2>2 DEF memory, Pending, TypeOK
  <2> QED
      BY <2>1, <2>2
<1>6. ASSUME NEW m \in Masters, CampaignSaved(m) PROVE \A n \in Masters : P(n)
    BY <1>0, <1>6 DEF CampaignSaved, BecomeFollower, Pending, TypeOK
<1>7. ASSUME NEW m \in Masters, CrashRestart(m) PROVE \A n \in Masters : P(n)
  <2>1. disk[m] \in Snapshots /\ Paced(disk[m])
      BY DEF TypeOK, SnapshotsPaced
  <2> QED
      BY <1>0, <1>7, <2>1 DEF CrashRestart, Pending, TypeOK, Paced, Snapshots
<1>8. ASSUME NEW r \in requests, HandleVoteRequest(r.voter, r) PROVE \A n \in Masters : P(n)
  <2>1. r.voter \in Masters /\ r.term \in Nat
      BY DEF TypeOK, Terms
  <2> QED
      BY <1>0, <1>8, <2>1 DEF HandleVoteRequest, campaign, Pending, TypeOK
<1>9. ASSUME NEW a \in answers, AnswerSaved(a) PROVE \A n \in Masters : P(n)
    BY <1>q, <1>9 DEF AnswerSaved, campaign
<1>10. CASE LoseMessage
    BY <1>q, <1>10 DEF LoseMessage, campaign
<1>11. ASSUME NEW m \in Masters, Broadcast(m) \/ SendHeartbeat(m) \/ HeartbeatSaved(m)
       PROVE  \A n \in Masters : P(n)
    BY <1>q, <1>11 DEF Broadcast, SendHeartbeat, HeartbeatSaved, campaign
<1>12. ASSUME NEW b \in beats, ReceiveHeartbeat(b.to, b) PROVE \A n \in Masters : P(n)
  <2>1. b.to \in Masters /\ b.term \in Nat
      BY DEF TypeOK, Terms
  <2> QED
      BY <1>0, <1>12, <2>1 DEF ReceiveHeartbeat, Accepts, BecomeFollower, campaign, Pending, TypeOK
<1>13. ASSUME NEW b \in beats, LoseHeartbeat(b) PROVE \A n \in Masters : P(n)
    BY <1>q, <1>13 DEF LoseHeartbeat, campaign
<1> QED
    BY <1>1, <1>2, <1>3, <1>4, <1>5, <1>6, <1>7, <1>8, <1>9, <1>10, <1>11, <1>12, <1>13
    DEF Next, CampaignStep, CampaignGoesOn, PeerStep, HeartbeatStep

\* What a step hands to a save is paced, for it is what the master has then.
LEMMA SnapshotIsPaced ==
    ASSUME TokenWithinTerm', NEW m \in Masters
    PROVE  Paced(Snapshot(m))
BY DEF TokenWithinTerm, Paced, Snapshot

\* Snapshots on their way to the disk, and the disks, stay paced.
LEMMA SnapshotStep ==
    ASSUME ElectionInv, TokenWithinTerm', Next
    PROVE  SnapshotsPaced'
<1> USE ElectionAssumption DEF ElectionInv
<1>0. Paced(Blank)
    BY DEF Paced, Blank
<1>q. UNCHANGED <<disk, saving, answers, beatSaves>> => SnapshotsPaced'
    BY DEF SnapshotsPaced, Paced
<1>s. ASSUME NEW m \in Masters, NEW pc, NEW next, SaveThen(m, pc, next),
             UNCHANGED <<disk, beatSaves>>, answers' \subseteq answers
      PROVE  SnapshotsPaced'
    BY <1>s, SnapshotIsPaced DEF SaveThen, SnapshotsPaced, TypeOK, Paced
<1>1. ASSUME NEW m \in Masters, StartElection(m) PROVE SnapshotsPaced'
    BY <1>1, <1>s DEF StartElection, voting, beating
<1>2. ASSUME NEW m \in Masters, RequestVote(m) PROVE SnapshotsPaced'
    BY <1>q, <1>2 DEF RequestVote, beating
<1>3. ASSUME NEW m \in Masters, RequestFails(m) PROVE SnapshotsPaced'
    BY <1>q, <1>3 DEF RequestFails, voting, beating
<1>4. ASSUME NEW m \in Masters, NEW a \in answers, HandleVoteResponse(m, a)
      PROVE  SnapshotsPaced'
  <2> USE <1>4 DEF HandleVoteResponse
  <2>1. UNCHANGED <<disk, beatSaves>> /\ answers' \subseteq answers
      BY DEF beating
  <2>2. CASE UNCHANGED saving
      BY <2>1, <2>2 DEF SnapshotsPaced, Paced
  <2>3. ASSUME NEW pc, SaveThen(m, pc, "polling") PROVE SnapshotsPaced'
      BY <2>1, <2>3, <1>s
  <2> QED
      BY <2>2, <2>3
<1>5. ASSUME NEW m \in Masters, FinishElection(m) PROVE SnapshotsPaced'
    BY <1>q, <1>s, <1>5 DEF FinishElection, voting, beating
<1>6. ASSUME NEW m \in Masters, CampaignSaved(m) PROVE SnapshotsPaced'
    BY <1>0, <1>6 DEF CampaignSaved, SnapshotsPaced, TypeOK, voting, beating, Paced
<1>7. ASSUME NEW m \in Masters, CrashRestart(m) PROVE SnapshotsPaced'
    BY <1>0, <1>7 DEF CrashRestart, SnapshotsPaced, TypeOK, Paced
<1>8. ASSUME NEW r \in requests, HandleVoteRequest(r.voter, r) PROVE SnapshotsPaced'
  <2>1. r.voter \in Masters
      BY DEF TypeOK
  <2>2. \A a \in answers' : a \in answers \/ a.snap = Snapshot(r.voter)
      BY <1>8 DEF HandleVoteRequest
  <2>3. \A a \in answers' : Paced(a.snap)
      BY <2>1, <2>2, SnapshotIsPaced DEF SnapshotsPaced
  <2> QED
      BY <1>8, <2>3 DEF HandleVoteRequest, SnapshotsPaced, campaign, beating, Paced
<1>9. ASSUME NEW a \in answers, AnswerSaved(a) PROVE SnapshotsPaced'
  <2>1. a \in Answer /\ [a EXCEPT !.sent = TRUE].snap = a.snap
      BY DEF TypeOK, Answer
  <2> QED
      BY <1>9, <2>1 DEF AnswerSaved, SnapshotsPaced, TypeOK, Answer, campaign, beating, Paced
<1>10. CASE LoseMessage
    BY <1>10 DEF LoseMessage, SnapshotsPaced, campaign, beating, Paced
<1>11. ASSUME NEW m \in Masters, Broadcast(m) \/ SendHeartbeat(m) PROVE SnapshotsPaced'
    BY <1>q, <1>11 DEF Broadcast, SendHeartbeat, campaign, voting
<1>12. ASSUME NEW m \in Masters, HeartbeatSaved(m) PROVE SnapshotsPaced'
    BY <1>12 DEF HeartbeatSaved, SnapshotsPaced, TypeOK, campaign, voting, Paced
<1>13. ASSUME NEW b \in beats, ReceiveHeartbeat(b.to, b) PROVE SnapshotsPaced'
  <2>1. b.to \in Masters
      BY DEF TypeOK
  <2>2. \A m \in Masters : \A s \in beatSaves'[m] : s \in beatSaves[m] \/ s = Snapshot(b.to)
      BY <1>13, <2>1 DEF ReceiveHeartbeat, TypeOK
  <2>3. \A m \in Masters : \A s \in beatSaves'[m] : Paced(s)
      BY <2>1, <2>2, SnapshotIsPaced DEF SnapshotsPaced
  <2> QED
      BY <1>13, <2>3 DEF ReceiveHeartbeat, SnapshotsPaced, campaign, voting, Paced
<1>14. ASSUME NEW b \in beats, LoseHeartbeat(b) PROVE SnapshotsPaced'
    BY <1>q, <1>14 DEF LoseHeartbeat, campaign, voting
<1> QED
    BY <1>1, <1>2, <1>3, <1>4, <1>5, <1>6, <1>7, <1>8, <1>9, <1>10, <1>11, <1>12, <1>13, <1>14
    DEF Next, CampaignStep, CampaignGoesOn, PeerStep, HeartbeatStep

\* Followers have no votes, leaders have a majority, and no voter outranks the
\* master it votes for.
LEMMA VotesStep ==
    ASSUME ElectionInv, Next
    PROVE  VotesFitRoles' /\ GrantsRespectRank' /\ LeaderOutranksVoters'
<1> USE ElectionAssumption DEF ElectionInv
<1> DEFINE Fine == VotesFitRoles' /\ GrantsRespectRank' /\ LeaderOutranksVoters'
<1>q. ASSUME UNCHANGED <<role, votes>>, answers' \subseteq answers PROVE Fine
    BY <1>q DEF VotesFitRoles, GrantsRespectRank, LeaderOutranksVoters, Majority
<1>1. ASSUME NEW m \in Masters, StartElection(m) PROVE Fine
    BY <1>1 DEF StartElection, VotesFitRoles, GrantsRespectRank, LeaderOutranksVoters,
                Majority, TypeOK, voting
<1>2. ASSUME NEW m \in Masters, RequestVote(m) PROVE Fine
    BY <1>q, <1>2 DEF RequestVote, memory
<1>3. ASSUME NEW m \in Masters, RequestFails(m) PROVE Fine
    BY <1>q, <1>3 DEF RequestFails, memory, voting
<1>4. ASSUME NEW m \in Masters, NEW a \in answers, HandleVoteResponse(m, a) PROVE Fine
  <2> USE <1>4 DEF HandleVoteResponse
  <2>1. GrantsRespectRank' /\ a \in Answer
      BY DEF GrantsRespectRank, TypeOK
  <2>2. CASE UNCHANGED <<role, votes>>
      BY <2>2, <1>q
  <2>3. CASE BecomeFollower(m)
      BY <2>1, <2>3 DEF BecomeFollower, VotesFitRoles, LeaderOutranksVoters, Majority, TypeOK
  <2>4. CASE /\ CountsVote(m, a) /\ votes' = [votes EXCEPT ![m] = @ \cup {a.voter}]
             /\ IF Cardinality(votes'[m]) >= Majority(m)
                THEN BecomeLeader(m)
                ELSE UNCHANGED role
    <3>1. Rank[a.voter] <= Rank[m]
        BY <2>4 DEF CountsVote, GrantsRespectRank
    <3>2. LeaderOutranksVoters'
        BY <2>4, <3>1 DEF LeaderOutranksVoters, TypeOK
    <3>3. VotesFitRoles'
      <4>1. \A n \in Masters \ {m} : role'[n] = role[n] /\ votes'[n] = votes[n]
          BY ONLY <2>4, TypeOK, m \in Masters DEF BecomeLeader, TypeOK
      <4>2. /\ role'[m] # "follower"
            /\ role'[m] = "leader" => Cardinality(votes'[m]) >= Majority(m)
          BY ONLY <2>4, TypeOK, m \in Masters DEF CountsVote, BecomeLeader, TypeOK
      <4> QED
          BY <4>1, <4>2 DEF VotesFitRoles, Majority
    <3> QED
        BY <2>1, <3>2, <3>3
  <2> QED
      BY <2>2, <2>3, <2>4, <2>1 DEF memory, TypeOK, Answer, Terms
<1>5. ASSUME NEW m \in Masters, FinishElection(m) PROVE Fine
    BY <1>5 DEF FinishElection, BecomeLeader, VotesFitRoles, GrantsRespectRank,
                LeaderOutranksVoters, Majority, TypeOK, memory, voting
<1>6. ASSUME NEW m \in Masters, CampaignSaved(m) PROVE Fine
    BY SMTT(30), <1>6 DEF CampaignSaved, BecomeFollower, VotesFitRoles, GrantsRespectRank,
                LeaderOutranksVoters, Majority, TypeOK, voting
<1>7. ASSUME NEW m \in Masters, CrashRestart(m) PROVE Fine
    BY <1>7 DEF CrashRestart, VotesFitRoles, GrantsRespectRank, LeaderOutranksVoters,
                Majority, TypeOK
<1>8. ASSUME NEW r \in requests, HandleVoteRequest(r.voter, r) PROVE Fine
  <2>1. r.voter \in Masters
      BY DEF TypeOK
  <2>2. VotesFitRoles' /\ LeaderOutranksVoters'
      BY <1>8, <2>1 DEF HandleVoteRequest, VotesFitRoles, LeaderOutranksVoters, Majority, TypeOK
  <2>3. GrantsRespectRank'
      BY <1>8 DEF HandleVoteRequest, GrantsRespectRank, Grants
  <2> QED
      BY <2>2, <2>3
<1>9. ASSUME NEW a \in answers, AnswerSaved(a) PROVE Fine
    BY ZenonT(30), <1>9 DEF AnswerSaved, VotesFitRoles, GrantsRespectRank, LeaderOutranksVoters,
                Majority, TypeOK, Answer, memory
<1>10. CASE LoseMessage
    BY <1>q, <1>10 DEF LoseMessage, memory
<1>11. ASSUME NEW m \in Masters, Broadcast(m) \/ SendHeartbeat(m) \/ HeartbeatSaved(m)
       PROVE  Fine
    BY <1>q, <1>11 DEF Broadcast, SendHeartbeat, HeartbeatSaved, memory, voting
<1>12. ASSUME NEW b \in beats, ReceiveHeartbeat(b.to, b) PROVE Fine
  <2>1. b.to \in Masters
      BY DEF TypeOK
  <2>2. CASE BecomeFollower(b.to)
      BY <1>12, <2>1, <2>2 DEF ReceiveHeartbeat, BecomeFollower, VotesFitRoles,
          GrantsRespectRank, LeaderOutranksVoters, Majority, TypeOK, voting
  <2> QED
      BY <1>q, <1>12, <2>2 DEF ReceiveHeartbeat, voting
<1>13. ASSUME NEW b \in beats, LoseHeartbeat(b) PROVE Fine
    BY <1>q, <1>13 DEF LoseHeartbeat, memory, voting
<1> QED
    BY <1>1, <1>2, <1>3, <1>4, <1>5, <1>6, <1>7, <1>8, <1>9, <1>10, <1>11, <1>12, <1>13
    DEF Next, CampaignStep, CampaignGoesOn, PeerStep, HeartbeatStep

-----------------------------------------------------------------------------
(* Every election                                                          *)

\* The strengthened invariant holds in every election.
THEOREM ElectionInvariant == Spec => []ElectionInv
<1>1. ElectionInv /\ [Next]_vars => ElectionInv'
  <2> SUFFICES ASSUME ElectionInv, [Next]_vars PROVE ElectionInv'
      OBVIOUS
  <2>1. CASE Next
    <3>1. TokenPaced' /\ TokenWithinTerm'
        BY <2>1, TokenStep
    <3>2. SnapshotsPaced'
        BY <2>1, <3>1, SnapshotStep
    <3>3. VotesFitRoles' /\ GrantsRespectRank' /\ LeaderOutranksVoters'
        BY <2>1, VotesStep
    <3>4. TypeOK'
        BY <2>1, <3>1, CampaignTyped, OthersTyped DEF ElectionInv, Next
    <3> QED
        BY <3>1, <3>2, <3>3, <3>4 DEF ElectionInv
  <2>2. CASE UNCHANGED vars
      BY <2>2 DEF vars, memory, campaign, voting, beating, ElectionInv, TypeOK, TokenPaced,
                  Pending, SnapshotsPaced, Paced, VotesFitRoles, GrantsRespectRank,
                  LeaderOutranksVoters, Majority
  <2> QED
      BY <2>1, <2>2
<1> QED
    BY <1>1, ElectionInit, PTL DEF Spec

\* Every variable of every master stays in its type, and no master's fencing
\* token passes twice its term, restarts from a state file included.
THEOREM ElectionTypes == Spec => []TypeOK
BY ElectionInvariant, PTL DEF ElectionInv

\* No master ever holds the vote of a master that outranks it.
THEOREM VotersOutranked == Spec => []LeaderOutranksVoters
BY ElectionInvariant, PTL DEF ElectionInv

\* The masters m ranks at least as high as.
Below(m) == {v \in Masters : Rank[v] <= Rank[m]}

\* Whoever leads ranks at least as high as a majority of the masters.
LeadersOutrankMajority ==
    \A m \in Masters : role[m] = "leader" => Cardinality(Below(m)) >= Majority(m)

\* The priorities decide who can lead at all: a leader is not outranked by more
\* masters than a majority can spare.
THEOREM PriorityDecides == Spec => []LeadersOutrankMajority
<1>1. ElectionInv => LeadersOutrankMajority
  <2> SUFFICES ASSUME ElectionInv, NEW m \in Masters, role[m] = "leader"
               PROVE  Cardinality(Below(m)) >= Majority(m)
      BY DEF LeadersOutrankMajority
  <2>1. votes[m] \subseteq Below(m) /\ Below(m) \subseteq Masters
      BY DEF ElectionInv, TypeOK, LeaderOutranksVoters, Below
  <2>2. /\ IsFiniteSet(Below(m)) /\ IsFiniteSet(votes[m])
        /\ Cardinality(votes[m]) <= Cardinality(Below(m))
      BY <2>1, FS_Subset, ElectionAssumption
  <2>3. Cardinality(votes[m]) >= Majority(m)
      BY DEF ElectionInv, VotesFitRoles
  <2> QED
      BY <2>2, <2>3, FS_CardinalityType, MajorityPositive
<1> QED
    BY <1>1, ElectionInvariant, PTL

-----------------------------------------------------------------------------
(* Masters that never yield and crash tidily                               *)

\* No vote is given, and no voter forgets: what was remembered stays so.
LEMMA VotesKept ==
    ASSUME SplitInv, TypeOK',
           \A v, m \in Masters : \A t \in Terms : Given(v, m, t)' => Given(v, m, t),
           \A v \in Masters :
               /\ term[v] <= term'[v]
               /\ term[v] = term'[v] /\ role[v] = "follower" /\ voted[v] # None
                    => role'[v] = "follower" /\ voted'[v] = voted[v]
    PROVE  VotesRemembered' /\ OneVotePerTerm'
<1>1. OneVotePerTerm'
    BY DEF SplitInv, OneVotePerTerm
<1>2. VotesRemembered'
  <2> SUFFICES ASSUME NEW v \in Masters, NEW m \in Masters, NEW t \in Terms, Given(v, m, t)'
               PROVE  /\ t <= term'[v]
                      /\ t = term'[v] => role'[v] = "follower" /\ voted'[v] = m
      BY DEF VotesRemembered
  <2>1. /\ t <= term[v]
        /\ t = term[v] => role[v] = "follower" /\ voted[v] = m
      BY DEF SplitInv, VotesRemembered
  <2>2. t \in Nat /\ term[v] \in Nat /\ term'[v] \in Nat /\ m # None
      BY ElectionAssumption DEF SplitInv, ElectionInv, TypeOK, Terms
  <2> QED
      BY <2>1, <2>2
<1> QED
    BY <1>1, <1>2

\* A request is answered: at most the requester gets the vote, if the voter has
\* not given it in that term.
LEMMA VoteGivenOnce ==
    ASSUME SplitInv, TypeOK', NEW r \in requests, HandleVoteRequest(r.voter, r)
    PROVE  VotesRemembered' /\ OneVotePerTerm'
<1> USE ElectionAssumption
<1> DEFINE w == r.voter
           newer == r.term > term[w]
           vf == IF newer THEN None ELSE voted[w]
           granted == Grants(w, r, vf)
<1>1. /\ w \in Masters /\ r.cand \in Masters /\ r.term \in Terms /\ r.cand # w
      /\ r.term \in Nat /\ term[w] \in Nat
    BY DEF SplitInv, OthersAreAsked, ElectionInv, TypeOK, Terms
<1>2. \A v, m \in Masters : \A t \in Terms :
          Given(v, m, t)' => \/ Given(v, m, t)
                             \/ granted /\ v = w /\ m = r.cand /\ t = r.term
  <2> SUFFICES ASSUME NEW v \in Masters, NEW m \in Masters, NEW t \in Terms, Given(v, m, t)'
               PROVE  \/ Given(v, m, t)
                      \/ granted /\ v = w /\ m = r.cand /\ t = r.term
      OBVIOUS
  <2>1. CASE v # m /\ v \in votes'[m] /\ role'[m] # "follower" /\ round'[m] = t
    <3>1. v \in votes[m] /\ role[m] # "follower" /\ round[m] = t
        BY <2>1, <1>1 DEF HandleVoteRequest, campaign, SplitInv, ElectionInv, TypeOK
    <3> QED
        BY <2>1, <3>1 DEF Given
  <2>2. ASSUME NEW a \in answers', a.granted, a.voter = v, a.cand = m, a.round = t
        PROVE  \/ Given(v, m, t)
               \/ granted /\ v = w /\ m = r.cand /\ t = r.term
    <3>1. CASE a \in answers
        BY <3>1, <2>2 DEF Given
    <3>2. CASE a \notin answers
        BY <3>2, <2>2 DEF HandleVoteRequest
    <3> QED
        BY <3>1, <3>2
  <2> QED
      BY <2>1, <2>2 DEF Given
<1>3. /\ term'[w] = IF newer THEN r.term ELSE term[w]
      /\ role'[w] = IF newer THEN "follower" ELSE role[w]
      /\ voted'[w] = IF granted THEN r.cand ELSE vf
      /\ \A v \in Masters \ {w} : term'[v] = term[v] /\ role'[v] = role[v] /\ voted'[v] = voted[v]
    BY <1>1 DEF HandleVoteRequest, SplitInv, ElectionInv, TypeOK
\* A vote is granted by followers only: the others voted for themselves.
<1>4. granted => /\ r.term = term'[w] /\ role'[w] = "follower" /\ voted'[w] = r.cand
                 /\ \A n \in Masters : Given(w, n, r.term) => n = r.cand
  <2> SUFFICES ASSUME granted
               PROVE  /\ r.term = term'[w] /\ role'[w] = "follower" /\ voted'[w] = r.cand
                      /\ \A n \in Masters : Given(w, n, r.term) => n = r.cand
      OBVIOUS
  <2>1. r.term >= term[w] /\ vf \in {None, r.cand}
      BY DEF Grants
  <2>2. ~newer => role[w] = "follower"
      BY <2>1, <1>1 DEF SplitInv, OwnVote
  <2>3. \A n \in Masters : Given(w, n, r.term) => ~newer /\ voted[w] = n
      BY <2>1, <1>1 DEF SplitInv, VotesRemembered
  <2> QED
      BY <2>1, <2>2, <2>3, <1>1, <1>3
<1>5. OneVotePerTerm'
  <2> SUFFICES ASSUME NEW v \in Masters, NEW m \in Masters, NEW n \in Masters, NEW t \in Terms,
                      Given(v, m, t)', Given(v, n, t)'
               PROVE  m = n
      BY DEF OneVotePerTerm
  <2> QED
      BY <1>2, <1>4 DEF SplitInv, OneVotePerTerm
<1>6. VotesRemembered'
  <2> SUFFICES ASSUME NEW v \in Masters, NEW m \in Masters, NEW t \in Terms, Given(v, m, t)'
               PROVE  /\ t <= term'[v]
                      /\ t = term'[v] => role'[v] = "follower" /\ voted'[v] = m
      BY DEF VotesRemembered
  <2>1. CASE granted /\ v = w /\ m = r.cand /\ t = r.term
      BY <2>1, <1>1, <1>4
  <2>2. CASE Given(v, m, t)
    <3>1. /\ t <= term[v]
          /\ t = term[v] => role[v] = "follower" /\ voted[v] = m
        BY <2>2 DEF SplitInv, VotesRemembered
    <3>2. t \in Nat /\ term[v] \in Nat /\ m # None
        BY DEF SplitInv, ElectionInv, TypeOK, Terms
    <3>3. CASE v # w
        BY <3>1, <3>3, <1>3
    <3>4. CASE v = w /\ newer
        BY <3>1, <3>2, <3>4, <1>1, <1>3
    <3>5. CASE v = w /\ ~newer
      <4>1. granted /\ t = term[w] => r.cand = m
          BY <3>1, <3>2, <3>5 DEF Grants
      <4> QED
          BY <3>1, <3>5, <4>1, <1>1, <1>3
    <3> QED
        BY <3>3, <3>4, <3>5
  <2> QED
      BY <1>2, <2>1, <2>2
<1> QED
    BY <1>5, <1>6

\* What a step does to the votes.
LEMMA SplitStep ==
    ASSUME SplitInv, TypeOK', NobodyYields, NobodyYields', TidyCrash, Next
    PROVE  /\ OthersAreAsked' /\ OwnVote'
           /\ VotesRemembered' /\ OneVotePerTerm'
<1> USE ElectionAssumption DEF SplitInv, ElectionInv
<1> DEFINE Fine == /\ OthersAreAsked' /\ OwnVote'
                   /\ VotesRemembered' /\ OneVotePerTerm'
           NoneGiven == \A v, m \in Masters : \A t \in Terms : Given(v, m, t)' => Given(v, m, t)
           NoneForgotten ==
               \A v \in Masters :
                   /\ term[v] <= term'[v]
                   /\ term[v] = term'[v] /\ role[v] = "follower" /\ voted[v] # None
                        => role'[v] = "follower" /\ voted'[v] = voted[v]
           Quiet == OthersAreAsked' /\ OwnVote'
<1>k. NoneGiven /\ NoneForgotten /\ Quiet => Fine
    BY VotesKept
<1>q. ASSUME UNCHANGED <<memory, round, unasked>>, requests' \subseteq requests,
             answers' \subseteq answers
      PROVE  Fine
  <2>1. NoneGiven
      BY <1>q DEF Given, memory
  <2>2. NoneForgotten
      BY <1>q DEF memory, TypeOK, Terms
  <2>3. Quiet
      BY <1>q DEF memory, OthersAreAsked, OwnVote
  <2> QED
      BY <2>1, <2>2, <2>3, <1>k
<1>1. ASSUME NEW m \in Masters, StartElection(m) PROVE Fine
  <2> USE <1>1 DEF StartElection
  <2>1. NoneGiven
      BY DEF Given, TypeOK, voting
  <2>2. NoneForgotten
      BY DEF TypeOK, Terms
  <2>3. Quiet
      BY DEF TypeOK, Terms, OthersAreAsked, OwnVote, Peers, voting
  <2> QED
      BY <2>1, <2>2, <2>3, <1>k
<1>2. ASSUME NEW m \in Masters, RequestVote(m) PROVE Fine
  <2> USE <1>2 DEF RequestVote
  <2>1. NoneGiven
      BY DEF Given, memory
  <2>2. NoneForgotten
      BY DEF memory, TypeOK, Terms
  <2>3. Quiet
      BY DEF memory, OthersAreAsked, OwnVote, TypeOK
  <2> QED
      BY <2>1, <2>2, <2>3, <1>k
<1>3. ASSUME NEW m \in Masters, RequestFails(m) PROVE Fine
    BY <1>q, <1>3 DEF RequestFails, voting
<1>4. ASSUME NEW m \in Masters, NEW a \in answers, HandleVoteResponse(m, a) PROVE Fine
  <2>1. /\ a \in Answer /\ a.term \in Nat /\ term[m] \in Nat
        /\ answers' \subseteq answers /\ a.cand = m /\ round[m] = a.round
        /\ UNCHANGED <<round, requests, unasked>>
      BY <1>4 DEF TypeOK, Answer, Terms, HandleVoteResponse, Awaited
  <2>2. CASE a.term > term[m]
    <3>0. ~Durable
      <4>1. Durable => camp' = [camp EXCEPT ![m] = "yielding"]
          BY <1>4, <2>1, <2>2 DEF HandleVoteResponse, SaveThen
      <4> QED
          BY <4>1 DEF NobodyYields, TypeOK
    <3>1. BecomeFollower(m) /\ term' = [term EXCEPT ![m] = a.term]
        BY <1>4, <2>1, <2>2, <3>0 DEF HandleVoteResponse
    <3>2. NoneGiven
        BY <2>1, <3>1 DEF BecomeFollower, Given, TypeOK
    <3>3. NoneForgotten
        BY <2>1, <2>2, <3>1 DEF BecomeFollower, TypeOK, Terms
    <3>4. Quiet
        BY <2>1, <3>1 DEF BecomeFollower, TypeOK, OthersAreAsked, OwnVote
    <3> QED
        BY <3>2, <3>3, <3>4, <1>k
  <2>3. CASE a.term <= term[m] /\ CountsVote(m, a)
    <3>1. /\ votes' = [votes EXCEPT ![m] = @ \cup {a.voter}]
          /\ role' = [role EXCEPT ![m] = "leader"] \/ UNCHANGED role
          /\ UNCHANGED <<term, voted>>
        BY <1>4, <2>1, <2>3 DEF HandleVoteResponse, BecomeLeader
    <3>2. NoneGiven
        BY <2>1, <2>3, <3>1 DEF CountsVote, Given, TypeOK
    <3>3. NoneForgotten
        BY <2>3, <3>1 DEF CountsVote, TypeOK, Terms
    <3>4. Quiet
        BY <2>1, <2>3, <3>1 DEF CountsVote, TypeOK, OthersAreAsked, OwnVote
    <3> QED
        BY <3>2, <3>3, <3>4, <1>k
  <2>4. CASE a.term <= term[m] /\ ~CountsVote(m, a)
      BY <1>4, <2>1, <2>4, <1>q DEF HandleVoteResponse
  <2> QED
      BY <2>1, <2>2, <2>3, <2>4
<1>5. ASSUME NEW m \in Masters, FinishElection(m) PROVE Fine
  <2>1. CASE Cardinality(votes[m]) >= Majority(m)
    <3>1. role[m] # "follower"
        BY SMTT(30), <2>1, MajorityPositive, FS_EmptySet DEF VotesFitRoles
    <3>2. /\ role' = [role EXCEPT ![m] = "leader"]
          /\ UNCHANGED <<term, voted, votes, round, requests, answers, unasked>>
        BY <1>5, <2>1 DEF FinishElection, BecomeLeader, voting
    <3>3. NoneGiven
        BY <3>1, <3>2 DEF Given, TypeOK
    <3>4. NoneForgotten
        BY <3>1, <3>2 DEF TypeOK, Terms
    <3>5. Quiet
        BY <3>1, <3>2 DEF TypeOK, OthersAreAsked, OwnVote
    <3> QED
        BY <3>3, <3>4, <3>5, <1>k
  <2>2. CASE ~(Cardinality(votes[m]) >= Majority(m))
    <3>1. UNCHANGED <<memory, round, requests, answers, unasked>>
        BY <1>5, <2>2 DEF FinishElection, voting
    <3>2. NoneGiven /\ NoneForgotten
        BY <3>1 DEF Given, memory, TypeOK, Terms
    <3>3. Quiet
        BY <3>1 DEF memory, TypeOK, OthersAreAsked, OwnVote
    <3> QED
        BY <3>2, <3>3, <1>k
  <2> QED
      BY <2>1, <2>2
<1>6. ASSUME NEW m \in Masters, CampaignSaved(m) PROVE Fine
    BY <1>q, <1>6 DEF CampaignSaved, NobodyYields, memory, voting
<1>7. ASSUME NEW r \in requests, HandleVoteRequest(r.voter, r) PROVE Fine
  <2>1. /\ r.voter \in Masters /\ r.cand # r.voter /\ r.term \in Nat
      BY DEF TypeOK, Terms, OthersAreAsked
  <2>2. VotesRemembered' /\ OneVotePerTerm'
      BY <1>7, VoteGivenOnce
  <2>3. \A a \in answers' : a \in answers \/ (a.cand = r.cand /\ a.voter = r.voter)
      BY <1>7 DEF HandleVoteRequest
  <2>4. OthersAreAsked'
      BY <1>7, <2>1, <2>3 DEF HandleVoteRequest, campaign, OthersAreAsked
  <2>5. OwnVote'
    <3> SUFFICES ASSUME NEW m \in Masters, role'[m] # "follower"
                 PROVE  term'[m] = round'[m] /\ voted'[m] = m
        BY DEF OwnVote
    <3>1. CASE m # r.voter
        BY <1>7, <3>1, <2>1 DEF HandleVoteRequest, campaign, OwnVote, TypeOK
    <3>2. CASE m = r.voter
      <4>1. r.term <= term[m] /\ role[m] # "follower"
          BY <1>7, <3>2, <2>1 DEF HandleVoteRequest, TypeOK, Terms
      <4>2. term[m] = round[m] /\ voted[m] = m
          BY <4>1 DEF OwnVote
      <4>3. ~Grants(m, r, voted[m]) /\ ~(r.term > term[m])
          BY <4>1, <4>2, <3>2, <2>1 DEF Grants, TypeOK, Terms
      <4> QED
          BY <1>7, <3>2, <4>2, <4>3 DEF HandleVoteRequest, campaign, TypeOK
    <3> QED
        BY <3>1, <3>2
  <2> QED
      BY <2>2, <2>4, <2>5
<1>8. ASSUME NEW a \in answers, AnswerSaved(a) PROVE Fine
  <2>1. a \in Answer
      BY DEF TypeOK
  <2>2. \A b \in answers' : \E c \in answers : /\ b.granted = c.granted /\ b.voter = c.voter
                                               /\ b.cand = c.cand /\ b.round = c.round
    <3>1. LET b == [a EXCEPT !.sent = TRUE]
          IN  /\ b.granted = a.granted /\ b.voter = a.voter
              /\ b.cand = a.cand /\ b.round = a.round
        BY <2>1 DEF Answer
    <3> QED
        BY <1>8, <3>1 DEF AnswerSaved
  <2>3. NoneGiven
      BY <1>8, <2>2 DEF AnswerSaved, Given, memory, campaign
  <2>4. NoneForgotten
      BY <1>8 DEF AnswerSaved, memory, TypeOK, Terms
  <2>5. Quiet
      BY <1>8, <2>2 DEF AnswerSaved, memory, campaign, OthersAreAsked, OwnVote
  <2> QED
      BY <2>3, <2>4, <2>5, <1>k
<1>9. CASE LoseMessage
    BY <1>q, <1>9 DEF LoseMessage, campaign
<1>10. ASSUME NEW m \in Masters, Broadcast(m) \/ SendHeartbeat(m) \/ HeartbeatSaved(m)
       PROVE  Fine
    BY <1>q, <1>10 DEF Broadcast, SendHeartbeat, HeartbeatSaved, campaign, voting
<1>11. ASSUME NEW b \in beats, ReceiveHeartbeat(b.to, b) PROVE Fine
  <2>1. b.to \in Masters /\ b.term \in Nat
      BY DEF TypeOK, Terms
  <2>2. UNCHANGED <<camp, round, unasked, requests, answers>>
      BY <1>11 DEF ReceiveHeartbeat, campaign, voting
  <2>3. CASE Accepts(b.to, b) /\ role[b.to] # "follower"
    <3>1. BecomeFollower(b.to) /\ term' = [term EXCEPT ![b.to] = b.term] /\ b.term >= term[b.to]
        BY <1>11, <2>3 DEF ReceiveHeartbeat, Accepts
    <3>2. NoneGiven
        BY <2>1, <2>2, <3>1 DEF BecomeFollower, Given, TypeOK
    <3>3. NoneForgotten
        BY <2>1, <2>3, <3>1 DEF BecomeFollower, TypeOK, Terms
    <3>4. Quiet
        BY <2>1, <2>2, <3>1 DEF BecomeFollower, TypeOK, OthersAreAsked, OwnVote
    <3> QED
        BY <3>2, <3>3, <3>4, <1>k
  <2>4. CASE Accepts(b.to, b) /\ role[b.to] = "follower"
    <3>1. /\ UNCHANGED <<role, voted, votes>>
          /\ term' = [term EXCEPT ![b.to] = b.term] /\ b.term >= term[b.to]
        BY <1>11, <2>4 DEF ReceiveHeartbeat, Accepts
    <3>2. NoneGiven
        BY <2>2, <3>1 DEF Given
    <3>3. NoneForgotten
        BY <2>1, <3>1 DEF TypeOK, Terms
    <3>4. Quiet
        BY <2>1, <2>2, <2>4, <3>1 DEF TypeOK, OthersAreAsked, OwnVote
    <3> QED
        BY <3>2, <3>3, <3>4, <1>k
  <2>5. CASE ~Accepts(b.to, b)
    <3>1. UNCHANGED <<role, term, voted, votes>>
        BY <1>11, <2>5 DEF ReceiveHeartbeat
    <3>2. NoneGiven /\ NoneForgotten
        BY <2>2, <3>1 DEF Given, TypeOK, Terms
    <3>3. Quiet
        BY <2>2, <3>1 DEF OthersAreAsked, OwnVote
    <3> QED
        BY <3>2, <3>3, <1>k
  <2> QED
      BY <2>3, <2>4, <2>5
<1>12. ASSUME NEW b \in beats, LoseHeartbeat(b) PROVE Fine
    BY <1>q, <1>12 DEF LoseHeartbeat, campaign, voting
<1>13. ASSUME NEW m \in Masters, CrashRestart(m) PROVE Fine
  <2>1. disk[m].term = term[m] /\ disk[m].voted = voted[m]
      BY <1>13 DEF TidyCrash
  <2>2. /\ UNCHANGED <<term, voted, round, requests>> /\ answers' \subseteq answers
        /\ role' = [role EXCEPT ![m] = "follower"] /\ votes' = [votes EXCEPT ![m] = {}]
        /\ unasked' = [unasked EXCEPT ![m] = {}]
      BY <1>13, <2>1 DEF CrashRestart, TypeOK
  <2>3. NoneGiven
      BY <2>2 DEF Given, TypeOK
  <2>4. NoneForgotten
      BY <2>2 DEF TypeOK, Terms
  <2>5. Quiet
      BY <2>2 DEF OthersAreAsked, OwnVote, TypeOK
  <2> QED
      BY <2>3, <2>4, <2>5, <1>k
<1> QED
    BY <1>1, <1>2, <1>3, <1>4, <1>5, <1>6, <1>7, <1>8, <1>9, <1>10, <1>11, <1>12, <1>13
    DEF Next, CampaignStep, CampaignGoesOn, PeerStep, HeartbeatStep

\* Before the first election nobody voted.
LEMMA SplitInit == Init => SplitInv
<1> SUFFICES ASSUME Init PROVE SplitInv
    OBVIOUS
<1>1. \A v, m \in Masters : \A t \in Terms : ~Given(v, m, t)
    BY DEF Init, Given
<1> QED
    BY <1>1, ElectionInit DEF Init, SplitInv, OthersAreAsked, OwnVote,
       VotesRemembered, OneVotePerTerm

\* Two majorities of the masters have a master in common.
LEMMA MajoritiesMeet ==
    ASSUME NEW m \in Masters, NEW n \in Masters, NEW S \in SUBSET Masters, NEW T \in SUBSET Masters,
           Cardinality(S) >= Majority(m), Cardinality(T) >= Majority(n)
    PROVE  S \cap T # {}
<1> DEFINE c == Cardinality(Masters)
<1> USE ElectionAssumption
<1>1. c \in Nat /\ IsFiniteSet(S) /\ IsFiniteSet(T) /\ Cardinality(S) \in Nat /\ Cardinality(T) \in Nat
    BY FS_CardinalityType, FS_Subset
<1>2. ASSUME NEW q \in Masters PROVE 2 * Majority(q) > c
  <2>1. IsFiniteSet(Known[q]) /\ Cardinality(Known[q]) \in Nat
      BY FS_Subset, FS_CardinalityType
  <2>2. Cardinality(Masters \ {q}) = c - 1
      BY FS_RemoveElement
  <2>3. Cardinality(Masters \ {q}) <= Cardinality(Known[q])
      BY <2>1, FS_Subset
  <2> QED
      BY <1>1, <2>1, <2>2, <2>3 DEF Majority
<1>3. Majority(m) \in Nat /\ Majority(n) \in Nat
    BY MajorityPositive
<1>4. Cardinality(S) + Cardinality(T) > c
  <2> HIDE DEF c
  <2> QED
      BY <1>1, <1>2, <1>3
<1> QED
    BY <1>4, FS_MajoritiesIntersect

\* The strengthened invariant of masters that never yield and crash tidily.
THEOREM VotesAreSplit ==
    Spec /\ []NobodyYields /\ [][TidyCrash]_vars => []SplitInv
<1>1. /\ SplitInv /\ ElectionInv' /\ NobodyYields /\ NobodyYields'
      /\ [TidyCrash]_vars /\ [Next]_vars
      => SplitInv'
  <2> SUFFICES ASSUME SplitInv, ElectionInv', NobodyYields, NobodyYields', [TidyCrash]_vars,
                      [Next]_vars
               PROVE  SplitInv'
      OBVIOUS
  <2>1. CASE Next /\ TidyCrash
      BY <2>1, SplitStep DEF SplitInv, ElectionInv
  <2>2. CASE UNCHANGED vars
    <3>1. \A v, m, t : Given(v, m, t)' <=> Given(v, m, t)
        BY <2>2 DEF vars, memory, campaign, voting, Given
    <3> QED
        BY <2>2, <3>1 DEF vars, memory, campaign, voting, SplitInv,
           OthersAreAsked, OwnVote, VotesRemembered, OneVotePerTerm
  <2> QED
      BY <2>1, <2>2
<1> QED
    BY <1>1, SplitInit, ElectionInvariant, PTL DEF Spec

\* With state files and without, however messages are lost, delayed or answered
\* late, only two things let two masters lead a term together: a campaign that
\* is told of a later term and saves before it steps down, and a crash with an
\* older term or vote in the file.  Without them no master votes twice in a
\* term, and two majorities have a voter in common.
THEOREM OneLeader ==
    Spec /\ []NobodyYields /\ [][TidyCrash]_vars => []OneLeaderPerTerm
<1>1. SplitInv => OneLeaderPerTerm
  <2> SUFFICES ASSUME SplitInv, NEW m \in Masters, NEW n \in Masters,
                      role[m] = "leader", role[n] = "leader", term[m] = term[n], m # n
               PROVE  FALSE
      BY DEF OneLeaderPerTerm
  <2>1. votes[m] \cap votes[n] # {}
      BY SMTT(30), MajoritiesMeet DEF SplitInv, ElectionInv, TypeOK, VotesFitRoles
  <2>2. PICK v \in Masters : v \in votes[m] /\ v \in votes[n]
      BY <2>1 DEF SplitInv, ElectionInv, TypeOK
  <2>3. term[m] = round[m] /\ term[n] = round[n] /\ round[m] \in Terms
      BY DEF SplitInv, OwnVote, ElectionInv, TypeOK
  <2>4. v # m => Given(v, m, term[m])
      BY <2>2, <2>3 DEF Given
  <2>5. v # n => Given(v, n, term[m])
      BY <2>2, <2>3 DEF Given
  <2>6. v # m /\ v # n
    \* A leader that had voted for another one would be its follower.
    <3>1. ~Given(m, n, term[m]) /\ ~Given(n, m, term[n])
        BY <2>3 DEF SplitInv, VotesRemembered
    <3> QED
        BY <2>4, <2>5, <3>1
  <2> QED
      BY <2>3, <2>4, <2>5, <2>6 DEF SplitInv, OneVotePerTerm
<1> QED
    BY <1>1, VotesAreSplit, PTL

\* Whatever the files hold and whoever crashes, two masters never lead the same
\* term if the priorities leave all but one of them below a majority.
THEOREM OneLeaderByRank ==
    ASSUME NEW top \in Masters,
           \A m \in Masters \ {top} : Cardinality(Below(m)) < Majority(m)
    PROVE  Spec => []OneLeaderPerTerm
<1>1. LeadersOutrankMajority => OneLeaderPerTerm
  <2> SUFFICES ASSUME LeadersOutrankMajority, NEW m \in Masters, role[m] = "leader"
               PROVE  m = top
      BY DEF OneLeaderPerTerm
  <2>1. Cardinality(Below(m)) >= Majority(m)
      BY DEF LeadersOutrankMajority
  <2>2. Cardinality(Below(m)) \in Nat /\ Majority(m) \in Nat
      BY MajorityPositive, FS_Subset, FS_CardinalityType, ElectionAssumption DEF Below
  <2> QED
      BY <2>1, <2>2
<1> QED
    BY <1>1, PriorityDecides, PTL
=============================================================================
