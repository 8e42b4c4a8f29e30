--------------------------- MODULE NodeLifeProofs ---------------------------
(***************************************************************************)
(* What a node promises at work, proved for every number of requests, task *)
(* ids, tokens and every capacity of its agent, and for any number of      *)
(* connections, senders, attempts and conversations of its FMP link.       *)
(*                                                                         *)
(* That the breaker of a live connection is closed is not inductive: a     *)
(* connect that fails while the connection is up would open it.  The       *)
(* strengthening says that nobody is connecting a connection that is up,   *)
(* and that an object that has not been made yet is idle.                  *)
(***************************************************************************)
EXTENDS MCNodeLife, FiniteSetTheorems, TLAPS

-----------------------------------------------------------------------------
(***************************************************************************)
(* The agent of the node (NodeAgent).                                      *)
(***************************************************************************)

\* The pacer sleeps only while it has tries left.
PausedHasTries == \A c \in Calls : pc[c] = "paused" => tries[c] < MaxTries

\* No live run came with a token ahead of the last accepted one.
TokensBehind == \A c \in Live : tok[c] <= lastToken

\* Every registered anonymous id has been given out already.
AnonGivenOut == \A i \in handles : i \in Int => i <= anonSeq

\* The registry never holds more than max_tasks handles.
RegistryBounded == IsFiniteSet(handles) /\ Cardinality(handles) <= MaxTasks

\* The inductive invariant.
AgentInv ==
    /\ TypeOK /\ PausedHasTries
    /\ RunsAreRegistered /\ OneRunPerId /\ TempDirKept
    /\ TokensBehind /\ AnonGivenOut /\ RegistryBounded

-----------------------------------------------------------------------------

\* A new agent process has no runs and no handles.
LEMMA AgentInit == Init => AgentInv
<1> SUFFICES ASSUME Init PROVE AgentInv
    OBVIOUS
<1>1. IsFiniteSet(handles) /\ Cardinality(handles) = 0
    BY FS_EmptySet DEF Init
<1>2. TypeOK
    BY AgentAssumption DEF Init, TypeOK, Results
<1> QED
    BY <1>1, <1>2, AgentAssumption
    DEF Init, AgentInv, PausedHasTries, RunsAreRegistered, OneRunPerId,
        TempDirKept, TokensBehind, AnonGivenOut, RegistryBounded, Live, Started

\* The id an accepted request gets is in TaskIds and not registered: it was
\* checked, or it is the next anonymous one.
LEMMA NamedIsFresh ==
    ASSUME AgentInv, NEW c \in Calls, NEW i \in Ids \cup {NoId}, Fresh(c, i)
    PROVE  /\ Named(i) \in TaskIds \ handles
           /\ NextAnon(i) \in 0..MaxAnon /\ anonSeq <= NextAnon(i)
           /\ Named(i) \in Int => Named(i) <= NextAnon(i)
<1>1. anonSeq \in 0..MaxAnon /\ MaxAnon \in Nat
    BY AgentAssumption DEF AgentInv, TypeOK
<1>2. CASE i = NoId
  <2>1. anonSeq + 1 \in 1..MaxAnon
      BY <1>1, <1>2 DEF Fresh
  <2>2. anonSeq + 1 \notin handles
      BY <1>1 DEF AgentInv, AnonGivenOut
  <2> QED
      BY <1>1, <1>2, <2>1, <2>2 DEF Named, NextAnon, TaskIds
<1>3. CASE i # NoId
  <2>1. i \in Ids /\ i \notin handles /\ i \notin Int
      BY <1>3, AgentAssumption DEF Fresh, AlreadyRunning
  <2> QED
      BY <1>1, <1>3, <2>1 DEF Named, NextAnon, TaskIds
<1> QED
    BY <1>2, <1>3

\* Taking one id out of the registry keeps it bounded.
LEMMA RegistryShrinks ==
    ASSUME RegistryBounded, NEW i, handles' = handles \ {i}
    PROVE  RegistryBounded'
<1>1. IsFiniteSet(handles \ {i}) /\ Cardinality(handles \ {i}) <= Cardinality(handles)
    BY FS_Subset, handles \ {i} \subseteq handles DEF RegistryBounded
<1>2. Cardinality(handles \ {i}) \in Nat /\ Cardinality(handles) \in Nat
    BY <1>1, FS_CardinalityType DEF RegistryBounded
<1> QED
    BY <1>1, <1>2, AgentAssumption DEF RegistryBounded

\* Adding one id to a registry that is not full keeps it bounded.
LEMMA RegistryGrows ==
    ASSUME RegistryBounded, ~Full, NEW i, i \notin handles,
           handles' = handles \cup {i}
    PROVE  RegistryBounded'
<1>1. Cardinality(handles) \in Nat
    BY FS_CardinalityType DEF RegistryBounded
<1>2. IsFiniteSet(handles \cup {i}) /\ Cardinality(handles \cup {i}) = Cardinality(handles) + 1
    BY FS_AddElement DEF RegistryBounded
<1> QED
    BY <1>1, <1>2, AgentAssumption DEF RegistryBounded, Full

\* The end of a run, by its finally block, preserves the invariant: no other
\* run has its id, so no other run loses its handle or its directory.
LEMMA FinishPreserves ==
    ASSUME AgentInv, NEW c \in Live, NEW r \in Results, Finish(c, r)
    PROVE  AgentInv'
<1> USE DEF Finish, Forget
<1>1. c \in Calls /\ Live' = Live \ {c} /\ Started' = Started \ {c}
    BY DEF AgentInv, TypeOK, Live, Started
<1>2. \A d \in Live' : d \in Live /\ d # c /\ id'[d] = id[d] /\ tok'[d] = tok[d]
                       /\ id[d] # id[c]
    BY <1>1 DEF AgentInv, TypeOK, OneRunPerId, Live
<1>3. TypeOK'
    BY <1>1, AgentAssumption DEF AgentInv, TypeOK
<1>4. PausedHasTries'
    BY <1>1 DEF AgentInv, TypeOK, PausedHasTries
<1>5. RunsAreRegistered' /\ OneRunPerId'
    BY <1>2 DEF AgentInv, RunsAreRegistered, OneRunPerId
<1>6. TempDirKept'
    BY <1>1, <1>2 DEF AgentInv, TempDirKept, Started, Live
<1>7. TokensBehind' /\ AnonGivenOut'
    BY <1>2 DEF AgentInv, TokensBehind, AnonGivenOut
<1>8. RegistryBounded'
    BY RegistryShrinks DEF AgentInv
<1> QED
    BY <1>3, <1>4, <1>5, <1>6, <1>7, <1>8 DEF AgentInv

\* The gates that refuse a request touch no run and no handle; the last
\* token and the anonymous counter only grow.
LEMMA RejectPreserves ==
    ASSUME AgentInv, NEW c \in Calls, NEW i \in Ids \cup {NoId},
           NEW t \in 0..MaxToken,
           \/ Duplicate(c, i) \/ RejectStale(c, i, t)
           \/ RejectUnsafe(c, i, t) \/ RejectFull(c, i, t)
    PROVE  AgentInv'
<1>1. UNCHANGED <<runs, handles, tmp>>
    BY DEF Duplicate, RejectStale, RejectUnsafe, RejectFull, agent
<1>2. lastToken' \in 0..MaxToken /\ lastToken <= lastToken'
    BY AgentAssumption
    DEF AgentInv, TypeOK, Duplicate, RejectStale, RejectUnsafe, RejectFull,
        agent, NewToken
<1>3. anonSeq' \in 0..MaxAnon /\ anonSeq <= anonSeq'
  <2>1. CASE Duplicate(c, i)
      BY <2>1, AgentAssumption DEF AgentInv, TypeOK, Duplicate, agent
  <2>2. CASE ~Duplicate(c, i)
      BY <2>2, NamedIsFresh DEF RejectStale, RejectUnsafe, RejectFull
  <2> QED
      BY <2>1, <2>2
<1>4. reply' \in Results
    BY DEF Duplicate, RejectStale, RejectUnsafe, RejectFull, Results
<1>5. TypeOK'
    BY <1>1, <1>2, <1>3, <1>4 DEF AgentInv, TypeOK, runs
<1>6. PausedHasTries' /\ RunsAreRegistered' /\ OneRunPerId' /\ TempDirKept'
    BY <1>1 DEF AgentInv, PausedHasTries, RunsAreRegistered, OneRunPerId,
                TempDirKept, runs, Live, Started
<1>7. TokensBehind'
    BY <1>1, <1>2, AgentAssumption DEF AgentInv, TypeOK, TokensBehind, runs, Live
<1>8. AnonGivenOut'
    BY <1>1, <1>3, AgentAssumption DEF AgentInv, TypeOK, AnonGivenOut
<1>9. RegistryBounded'
    BY <1>1 DEF AgentInv, RegistryBounded
<1> QED
    BY <1>5, <1>6, <1>7, <1>8, <1>9 DEF AgentInv

\* An accepted request adds one run under a fresh id to a registry that has
\* room, and its token becomes the last one.
LEMMA AcceptPreserves ==
    ASSUME AgentInv, NEW c \in Calls, NEW i \in Ids \cup {NoId},
           NEW t \in 0..MaxToken, Accept(c, i, t)
    PROVE  AgentInv'
<1> USE DEF Accept
<1>1. /\ Named(i) \in TaskIds \ handles
      /\ NextAnon(i) \in 0..MaxAnon /\ anonSeq <= NextAnon(i)
      /\ Named(i) \in Int => Named(i) <= NextAnon(i)
    BY NamedIsFresh
<1>2. lastToken' \in 0..MaxToken /\ lastToken <= lastToken' /\ t <= lastToken'
    BY AgentAssumption DEF AgentInv, TypeOK, NewToken
<1>3. c \notin Live /\ Live' = Live \cup {c} /\ Started' = Started
    BY DEF AgentInv, TypeOK, Live, Started, Fresh
<1>4. \A d \in Live : id'[d] = id[d] /\ tok'[d] = tok[d]
    BY <1>3 DEF AgentInv, TypeOK, Live
<1>5. id'[c] = Named(i) /\ tok'[c] = t
    BY DEF AgentInv, TypeOK
<1>6. TypeOK'
    BY <1>1, <1>2 DEF AgentInv, TypeOK, Results
<1>7. PausedHasTries' /\ TempDirKept'
    BY <1>3, <1>4 DEF AgentInv, TypeOK, PausedHasTries, TempDirKept, Started, Live
<1>8. RunsAreRegistered' /\ OneRunPerId'
    BY <1>1, <1>3, <1>4, <1>5 DEF AgentInv, RunsAreRegistered, OneRunPerId
<1>9. TokensBehind'
    BY <1>2, <1>3, <1>4, <1>5, AgentAssumption DEF AgentInv, TypeOK, TokensBehind, Live
<1>10. AnonGivenOut'
    BY <1>1, AgentAssumption DEF AgentInv, TypeOK, AnonGivenOut
<1>11. RegistryBounded'
    BY <1>1, RegistryGrows DEF AgentInv
<1> QED
    BY <1>6, <1>7, <1>8, <1>9, <1>10, <1>11 DEF AgentInv

\* A step of _run.
LEMMA RunPreserves ==
    ASSUME AgentInv, NEW c \in Calls, RunStep(c)
    PROVE  AgentInv'
<1>1. CASE RunBegins(c)
  <2> USE <1>1 DEF RunBegins, agent
  <2>1. c \in Live /\ Live' = Live /\ Started' = Started \cup {c}
      BY DEF AgentInv, TypeOK, Live, Started
  <2>2. TypeOK' /\ PausedHasTries'
      BY AgentAssumption, <2>1
      DEF AgentInv, TypeOK, PausedHasTries, RunsAreRegistered, Results
  <2>3. TempDirKept'
      BY <2>1 DEF AgentInv, TempDirKept
  <2> QED
      BY <2>1, <2>2, <2>3
      DEF AgentInv, RunsAreRegistered, OneRunPerId, TokensBehind, AnonGivenOut,
          RegistryBounded
<1>2. CASE RunNeverBegins(c)
  <2> USE <1>2 DEF RunNeverBegins, Forget, agent
  <2>1. Live' = Live \ {c} /\ Started' = Started
      BY DEF AgentInv, TypeOK, Live, Started
  <2>2. \A d \in Live' : d \in Live /\ id'[d] = id[d] /\ tok'[d] = tok[d]
      BY <2>1 DEF AgentInv, TypeOK, Live
  <2>3. TypeOK' /\ PausedHasTries'
      BY AgentAssumption DEF AgentInv, TypeOK, PausedHasTries, Results
  <2>4. TempDirKept'
      BY <2>1, <2>2 DEF AgentInv, TempDirKept, Started, Live
  <2> QED
      BY <2>2, <2>3, <2>4
      DEF AgentInv, RunsAreRegistered, OneRunPerId, TokensBehind, AnonGivenOut,
          RegistryBounded
<1>3. CASE /\ pc[c] = "running" /\ TriesLeft(c)
           /\ pc' = [pc EXCEPT ![c] = "paused"] /\ reply' = "none"
           /\ UNCHANGED <<id, tok, tries, doomed, agent, tmp>>
  <2>1. Live' = Live /\ Started' = Started
      BY <1>3 DEF AgentInv, TypeOK, Live, Started
  <2>2. TypeOK' /\ PausedHasTries'
      BY <1>3 DEF AgentInv, TypeOK, PausedHasTries, TriesLeft, agent, Results
  <2> QED
      BY <1>3, <2>1, <2>2
      DEF AgentInv, RunsAreRegistered, OneRunPerId, TempDirKept, TokensBehind,
          AnonGivenOut, RegistryBounded, agent
<1>4. CASE PauseEnds(c)
  <2> USE <1>4 DEF PauseEnds, agent
  <2>1. Live' = Live /\ Started' = Started
      BY DEF AgentInv, TypeOK, Live, Started
  <2>2. tries[c] + 1 \in 0..MaxTries
      BY AgentAssumption DEF AgentInv, TypeOK, PausedHasTries
  <2>3. TypeOK' /\ PausedHasTries'
      BY <2>2 DEF AgentInv, TypeOK, PausedHasTries, Results
  <2> QED
      BY <2>1, <2>3
      DEF AgentInv, RunsAreRegistered, OneRunPerId, TempDirKept, TokensBehind,
          AnonGivenOut, RegistryBounded
<1>5. ASSUME NEW r \in Results, c \in Live, Finish(c, r)
      PROVE  AgentInv'
    BY <1>5, FinishPreserves
<1>6. CASE RunRefused(c) \/ BackendReplies(c) \/ CancelThrown(c)
           \/ (pc[c] = "running" /\ Finish(c, "rate_limited"))
  <2>1. c \in Live
      BY <1>6 DEF RunRefused, BackendReplies, CancelThrown, Live
  <2>2. \E r \in Results : Finish(c, r)
      BY <1>6 DEF RunRefused, BackendReplies, CancelThrown, Results
  <2> QED
      BY <1>5, <2>1, <2>2
<1> QED
    BY <1>1, <1>2, <1>3, <1>4, <1>6 DEF RunStep, BackendLimits

\* Cancelling touches only the flag of one run.
LEMMA CancelPreserves ==
    ASSUME AgentInv, NEW i \in TaskIds, CancelTask(i)
    PROVE  AgentInv'
<1> USE DEF CancelTask, agent
<1>1. doomed' \in [Calls -> BOOLEAN]
    BY DEF AgentInv, TypeOK, Live
<1>2. TypeOK'
    BY <1>1 DEF AgentInv, TypeOK, Results
<1> QED
    BY <1>2 DEF AgentInv, PausedHasTries, RunsAreRegistered, OneRunPerId,
                TempDirKept, TokensBehind, AnonGivenOut, RegistryBounded, Live,
                Started

\* A new process has no runs; directories of a crashed one may remain.
LEMMA RestartPreserves == AgentInv /\ Restart => AgentInv'
<1> SUFFICES ASSUME AgentInv, Restart PROVE AgentInv'
    OBVIOUS
<1> USE DEF Restart
<1>1. TypeOK'
    BY AgentAssumption DEF AgentInv, TypeOK, Results
<1>2. IsFiniteSet(handles') /\ Cardinality(handles') = 0
    BY FS_EmptySet
<1> QED
    BY <1>1, <1>2, AgentAssumption
    DEF AgentInv, PausedHasTries, RunsAreRegistered, OneRunPerId, TempDirKept,
        TokensBehind, AnonGivenOut, RegistryBounded, Live, Started

\* AgentInv is an invariant of the agent.
THEOREM AgentInvariant == Spec => []AgentInv
<1>1. AgentInv /\ [Next]_vars => AgentInv'
  <2> SUFFICES ASSUME AgentInv, [Next]_vars PROVE AgentInv'
      OBVIOUS
  <2>1. CASE \E c \in Calls : ExecuteTask(c)
      BY <2>1, RejectPreserves, AcceptPreserves DEF ExecuteTask
  <2>2. CASE \E c \in Calls : RunStep(c)
      BY <2>2, RunPreserves
  <2>3. CASE \E i \in TaskIds : CancelTask(i)
      BY <2>3, CancelPreserves
  <2>4. CASE Restart
      BY <2>4, RestartPreserves
  <2>5. CASE UNCHANGED vars
      BY <2>5 DEF AgentInv, TypeOK, PausedHasTries, RunsAreRegistered,
                  OneRunPerId, TempDirKept, TokensBehind, AnonGivenOut,
                  RegistryBounded, Live, Started, vars, runs, agent
  <2> QED
      BY <2>1, <2>2, <2>3, <2>4, <2>5 DEF Next
<1> QED
    BY <1>1, AgentInit, PTL DEF Spec

-----------------------------------------------------------------------------

\* At most one execution per task id, each of them registered and with its
\* temporary directory (execute_task and its finally block).
THEOREM RunsAreDistinct == Spec => [](TypeOK /\ OneRunPerId /\ RunsAreRegistered /\ TempDirKept)
<1>1. AgentInv => TypeOK /\ OneRunPerId /\ RunsAreRegistered /\ TempDirKept
    BY DEF AgentInv
<1> QED
    BY <1>1, AgentInvariant, PTL

\* Never more than max_tasks executions: the ids of the live runs are
\* distinct members of a registry of at most that size.
THEOREM CapacityHolds == Spec => []CapacityKept
<1>1. AgentInv => CapacityKept
  <2> SUFFICES ASSUME AgentInv PROVE CapacityKept
      OBVIOUS
  <2> DEFINE f == [c \in Live |-> id[c]]
  <2>1. f \in Injection(Live, handles)
      BY DEF AgentInv, RunsAreRegistered, OneRunPerId, Injection, IsInjective
  <2>2. Cardinality(Live) <= Cardinality(handles) /\ IsFiniteSet(Live)
      BY <2>1, FS_Injection DEF AgentInv, RegistryBounded
  <2> QED
      BY <2>2, FS_CardinalityType, AgentAssumption
      DEF AgentInv, RegistryBounded, CapacityKept
<1> QED
    BY <1>1, AgentInvariant, PTL

\* A run comes to life in one way only: its request passed all the gates.
LEMMA OnlyAcceptCreates ==
    ASSUME AgentInv, Next, NEW c \in Calls, pc[c] = "none", pc'[c] = "created"
    PROVE  \E i \in Ids \cup {NoId}, t \in 0..MaxToken : Accept(c, i, t)
<1>1. PICK d \in Calls : ExecuteTask(d)
  <2>1. ASSUME NEW d \in Calls, RunStep(d) PROVE FALSE
      BY <2>1 DEF RunStep, RunBegins, RunRefused, RunNeverBegins, BackendReplies,
                  BackendLimits, PauseEnds, CancelThrown, Finish, Forget,
                  AgentInv, TypeOK
  <2>2. ASSUME NEW i \in TaskIds, CancelTask(i) PROVE FALSE
      BY <2>2 DEF CancelTask
  <2>3. ~Restart
      BY DEF Restart
  <2> QED
      BY <2>1, <2>2, <2>3 DEF Next
<1>2. PICK i \in Ids \cup {NoId}, t \in 0..MaxToken : Accept(d, i, t)
    BY <1>1 DEF ExecuteTask, Duplicate, RejectStale, RejectUnsafe, RejectFull, runs
<1>3. c = d
    BY <1>2 DEF Accept, AgentInv, TypeOK
<1> QED
    BY <1>2, <1>3

\* The agent begins no work of an older master next to work of a newer one:
\* a token that passes the fencing check is not behind the last one, and no
\* live run is ahead of that.
THEOREM FencingHolds == Spec => NewestMasterOnly
<1> DEFINE NewestStep ==
      \A c, d \in Calls :
         /\ pc[c] = "none" /\ pc'[c] = "created" /\ tok'[c] # 0
         /\ pc[d] # "none"
         => tok[d] <= tok'[c]
<1>1. AgentInv /\ [Next]_vars => [NewestStep]_vars
  <2> SUFFICES ASSUME AgentInv, Next,
                      NEW c \in Calls, NEW d \in Calls,
                      pc[c] = "none", pc'[c] = "created", tok'[c] # 0, pc[d] # "none"
               PROVE  tok[d] <= tok'[c]
      OBVIOUS
  <2>1. PICK i \in Ids \cup {NoId}, t \in 0..MaxToken : Accept(c, i, t)
      BY OnlyAcceptCreates
  <2>2. tok'[c] = t /\ lastToken <= t
      BY <2>1, AgentAssumption DEF Accept, Stale, AgentInv, TypeOK
  <2>3. tok[d] <= lastToken
      BY DEF AgentInv, TokensBehind, Live
  <2> QED
      BY <2>2, <2>3, AgentAssumption DEF AgentInv, TypeOK
<1> QED
    BY <1>1, AgentInvariant, PTL DEF Spec, NewestMasterOnly

\* An acknowledged cancellation is the end of the task: its next step throws
\* the cancellation, and nothing else ends it but a restart of the agent.
THEOREM CancellationHolds == Spec => CancelIsHonoured
<1> DEFINE HonouredStep ==
      \A c \in Calls : doomed[c] /\ pc[c] # "none" /\ pc'[c] = "none"
         => reply' \in {"cancelled", "lost"}
<1>1. AgentInv /\ [Next]_vars => [HonouredStep]_vars
  <2> SUFFICES ASSUME AgentInv, Next, NEW c \in Calls,
                      doomed[c], pc[c] # "none", pc'[c] = "none"
               PROVE  reply' \in {"cancelled", "lost"}
      OBVIOUS
  <2>1. CASE \E d \in Calls : ExecuteTask(d)
    <3>1. FALSE
        BY <2>1 DEF ExecuteTask, Duplicate, RejectStale, RejectUnsafe, RejectFull,
                    Accept, runs, AgentInv, TypeOK
    <3> QED
        BY <3>1
  <2>2. ASSUME NEW d \in Calls, RunStep(d)
        PROVE  reply' \in {"cancelled", "lost"}
    <3>1. d = c
        BY <2>2 DEF RunStep, RunBegins, RunRefused, RunNeverBegins, BackendReplies,
                    BackendLimits, PauseEnds, CancelThrown, Finish, Forget,
                    AgentInv, TypeOK
    <3> QED
        BY <2>2, <3>1 DEF RunStep, RunBegins, RunRefused, RunNeverBegins,
                    BackendReplies, BackendLimits, PauseEnds, CancelThrown, Heeds,
                    Finish, AgentInv, TypeOK
  <2>3. CASE \E i \in TaskIds : CancelTask(i)
      BY <2>3 DEF CancelTask
  <2>4. CASE Restart
      BY <2>4 DEF Restart
  <2> QED
      BY <2>1, <2>2, <2>3, <2>4 DEF Next
<1> QED
    BY <1>1, AgentInvariant, PTL DEF Spec, CancelIsHonoured

-----------------------------------------------------------------------------
(* Parts of the invariant that the runs check by themselves.               *)

\* Types, and the tries of a run within those of the pacer (TypeOK).
THEOREM AgentTypes == Spec => []TypeOK
<1>1. AgentInv => TypeOK
    BY DEF AgentInv
<1> QED
    BY <1>1, AgentInvariant, PTL

\* Every executing task can be found and cancelled (RunsAreRegistered), and
\* no restart or ending task takes the registration away.
THEOREM HandlesKept == Spec => []RunsAreRegistered
<1>1. AgentInv => RunsAreRegistered
    BY DEF AgentInv
<1> QED
    BY <1>1, AgentInvariant, PTL

\* The directory of an executing task stays (TempDirKept).
THEOREM DirectoriesKept == Spec => []TempDirKept
<1>1. AgentInv => TempDirKept
    BY DEF AgentInv
<1> QED
    BY <1>1, AgentInvariant, PTL

-----------------------------------------------------------------------------
(* The agent implements TaskSlots.                                         *)

\* Only live runs are doomed: what a call leaves behind for the next one is
\* clean.
OnlyLiveDoomed == \A c \in Calls : pc[c] = "none" => ~doomed[c]

\* A step keeps that: Forget clears the mark, cancel_task sets it on live runs.
LEMMA DoomedStep == AgentInv /\ OnlyLiveDoomed /\ [Next]_vars => OnlyLiveDoomed'
<1> SUFFICES ASSUME AgentInv, OnlyLiveDoomed, [Next]_vars
             PROVE  OnlyLiveDoomed'
    OBVIOUS
<1>1. CASE UNCHANGED vars
    BY <1>1 DEF vars, runs, OnlyLiveDoomed
<1>2. ASSUME NEW c \in Calls, ExecuteTask(c) PROVE OnlyLiveDoomed'
    BY <1>2 DEF ExecuteTask, Duplicate, RejectStale, RejectUnsafe, RejectFull, Accept,
                runs, OnlyLiveDoomed, AgentInv, TypeOK
<1>3. ASSUME NEW c \in Calls, RunStep(c) PROVE OnlyLiveDoomed'
    BY <1>3 DEF RunStep, RunBegins, RunRefused, RunNeverBegins, BackendReplies, BackendLimits,
                PauseEnds, CancelThrown, Finish, Forget, OnlyLiveDoomed, AgentInv, TypeOK
<1>4. ASSUME NEW i \in TaskIds, CancelTask(i) PROVE OnlyLiveDoomed'
    BY <1>4 DEF CancelTask, Live, OnlyLiveDoomed, AgentInv, TypeOK
<1>5. CASE Restart
    BY <1>5 DEF Restart, OnlyLiveDoomed
<1> QED
    BY <1>1, <1>2, <1>3, <1>4, <1>5 DEF Next

\* A new process has no runs.
LEMMA DoomedInvariant == Spec => []OnlyLiveDoomed
<1>1. Init => OnlyLiveDoomed
    BY DEF Init, OnlyLiveDoomed
<1> QED
    BY <1>1, DoomedStep, AgentInvariant, PTL DEF Spec

\* The end of a run is the end of its task: its id leaves the slots, since no
\* other run has it.
LEMMA EndIsEnd ==
    ASSUME AgentInv, NEW c \in Live, Forget(c),
           Answered' = IF doomed[c] THEN "cancelled" ELSE "result"
    PROVE  \E n \in TaskIds : Slot!End(n)
<1> DEFINE B == {id[d] : d \in Live}
           D == {id[d] : d \in {e \in Live : doomed[e]}}
<1>1. c \in Calls /\ Live' = Live \ {c}
    BY DEF Forget, Live, AgentInv, TypeOK
<1>2. \A d \in Live \ {c} : id'[d] = id[d] /\ doomed'[d] = doomed[d] /\ id[d] # id[c]
    BY DEF Forget, Live, AgentInv, TypeOK, OneRunPerId
<1>3. B' = B \ {id[c]}
    BY <1>1, <1>2
<1>4. D' = D \ {id[c]}
    BY <1>1, <1>2
<1>5. id[c] \in D <=> doomed[c]
    BY DEF AgentInv, TypeOK, OneRunPerId, Live
<1>6. id[c] \in B /\ id[c] \in TaskIds
    BY DEF AgentInv, TypeOK, RunsAreRegistered
<1> QED
    BY <1>3, <1>4, <1>5, <1>6 DEF Slot!End

\* A request that passed the gates takes a free slot with a new id.
LEMMA AcceptIsBegin ==
    ASSUME AgentInv, OnlyLiveDoomed, NEW c \in Calls, NEW i \in Ids \cup {NoId},
           NEW t \in 0..MaxToken, Accept(c, i, t)
    PROVE  \E n \in TaskIds : Slot!Begin(n)
<1> DEFINE B == {id[d] : d \in Live}
           D == {id[d] : d \in {e \in Live : doomed[e]}}
           n == Named(i)
<1>1. n \in TaskIds \ handles
    BY NamedIsFresh DEF Accept
<1>2. c \notin Live /\ Live' = Live \cup {c}
    BY DEF Accept, Fresh, Live, AgentInv, TypeOK
<1>3. id'[c] = n /\ ~doomed'[c] /\ \A d \in Live : id'[d] = id[d] /\ doomed'[d] = doomed[d]
    BY <1>2 DEF Accept, Fresh, Live, AgentInv, TypeOK, OnlyLiveDoomed
<1>4. B' = B \cup {n}
    BY <1>2, <1>3
<1>5. D' = D
    BY <1>2, <1>3
<1>6. B \subseteq handles
    BY DEF AgentInv, RunsAreRegistered
<1>7. n \notin B
    BY <1>1, <1>6
<1>8. Cardinality(B) < MaxTasks
  <2>1. IsFiniteSet(handles) /\ Cardinality(handles) \in Nat
      BY FS_CardinalityType DEF AgentInv, RegistryBounded
  <2>2. IsFiniteSet(B) /\ Cardinality(B) <= Cardinality(handles)
      BY <1>6, <2>1, FS_Subset
  <2>3. Cardinality(B) \in Nat
      BY <2>2, FS_CardinalityType
  <2>4. Cardinality(handles) < MaxTasks
      BY <2>1, AgentAssumption DEF Accept, Full
  <2> QED
      BY <2>1, <2>2, <2>3, <2>4, AgentAssumption
<1>9. Answered' = "none"
    BY DEF Accept, Answered
<1>10. Slot!Cardinality(B) = Cardinality(B)
    BY DEF Slot!Cardinality, Cardinality
<1> QED
    BY <1>1, <1>4, <1>5, <1>7, <1>8, <1>9, <1>10 DEF Slot!Begin

\* Steps that change no run are refusals or progress of the slots.
LEMMA QuietStep ==
    ASSUME UNCHANGED <<id, doomed>>, Live' = Live, Answered' \in {"none", "refused"}
    PROVE  Slot!Refuse \/ Slot!Proceed
    BY DEF Slot!Refuse, Slot!Proceed

\* An acknowledged cancellation condemns the task.
LEMMA CancelIsCondemn ==
    ASSUME AgentInv, NEW i \in TaskIds, CancelTask(i)
    PROVE  Slot!Condemn(i)
<1> DEFINE B == {id[d] : d \in Live}
           D == {id[d] : d \in {e \in Live : doomed[e]}}
<1>1. PICK c \in Live : id[c] = i /\ doomed' = [doomed EXCEPT ![c] = TRUE]
    BY DEF CancelTask
<1>2. Live' = Live /\ id' = id
    BY DEF CancelTask, Live
<1>3. c \in Calls /\ doomed \in [Calls -> BOOLEAN] /\ Live \subseteq Calls
    BY DEF Live, AgentInv, TypeOK
<1>4. \A e \in Live : doomed'[e] <=> (doomed[e] \/ e = c)
    BY <1>1, <1>3
<1>5. D' = D \cup {i}
    BY <1>1, <1>2, <1>4
<1>6. Answered' = "none"
    BY DEF CancelTask, Answered
<1>7. i \in B /\ B' = B
    BY <1>1, <1>2
<1> QED
    BY <1>5, <1>6, <1>7 DEF Slot!Condemn

\* Every step of a run is progress or the end of its task.
LEMMA RunStepIsSlotStep ==
    ASSUME AgentInv, NEW c \in Calls, RunStep(c)
    PROVE  Slot!SlotsNext
<1>1. CASE RunBegins(c) \/ PauseEnds(c)
          \/ (pc[c] = "running" /\ pc' = [pc EXCEPT ![c] = "paused"] /\ reply' = "none"
              /\ UNCHANGED <<id, doomed>>)
  <2>1. UNCHANGED <<id, doomed>> /\ reply' = "none"
      BY <1>1 DEF RunBegins, PauseEnds
  <2>2. Live' = Live
      BY <1>1 DEF RunBegins, PauseEnds, Live, AgentInv, TypeOK
  <2> QED
      BY <2>1, <2>2, QuietStep DEF Answered, Slot!SlotsNext
<1>2. CASE c \in Live /\ Forget(c) /\ ~doomed[c] /\ reply' \in {"ok", "error", "rate_limited"}
  <2>1. Answered' = "result"
      BY <1>2 DEF Answered
  <2> QED
      BY <1>2, <2>1, EndIsEnd DEF Slot!SlotsNext
<1>3. CASE c \in Live /\ Forget(c) /\ doomed[c] /\ reply' = "cancelled"
  <2>1. Answered' = "cancelled"
      BY <1>3 DEF Answered
  <2> QED
      BY <1>3, <2>1, EndIsEnd DEF Slot!SlotsNext
<1>4. \/ RunBegins(c) \/ PauseEnds(c)
      \/ (pc[c] = "running" /\ pc' = [pc EXCEPT ![c] = "paused"] /\ reply' = "none"
          /\ UNCHANGED <<id, doomed>>)
      \/ (c \in Live /\ Forget(c) /\ ~doomed[c] /\ reply' \in {"ok", "error", "rate_limited"})
      \/ (c \in Live /\ Forget(c) /\ doomed[c] /\ reply' = "cancelled")
    BY DEF RunStep, RunRefused, RunNeverBegins, BackendReplies, BackendLimits, CancelThrown,
           Finish, Heeds, Live
<1> QED
    BY <1>1, <1>2, <1>3, <1>4

\* Every step of the agent is a step of the slots or changes nothing there.
LEMMA StepIsSlotStep ==
    ASSUME AgentInv, OnlyLiveDoomed, [Next]_vars
    PROVE  [Slot!SlotsNext]_(Slot!slotVars)
<1>1. CASE UNCHANGED vars
    BY <1>1 DEF vars, runs, Live, Answered, Slot!slotVars
<1>2. ASSUME NEW c \in Calls, NEW i \in Ids \cup {NoId}, NEW t \in 0..MaxToken,
             Duplicate(c, i) \/ RejectStale(c, i, t) \/ RejectUnsafe(c, i, t) \/ RejectFull(c, i, t)
      PROVE  Slot!SlotsNext
  <2>1. UNCHANGED <<id, doomed, pc>>
      BY <1>2 DEF Duplicate, RejectStale, RejectUnsafe, RejectFull, runs
  <2>2. Answered' = "refused"
      BY <1>2 DEF Duplicate, RejectStale, RejectUnsafe, RejectFull, Answered
  <2>3. Live' = Live
      BY <2>1 DEF Live
  <2> QED
      BY <2>1, <2>2, <2>3, QuietStep DEF Slot!SlotsNext
<1>3. ASSUME NEW c \in Calls, ExecuteTask(c) PROVE Slot!SlotsNext
    BY <1>2, <1>3, AcceptIsBegin DEF ExecuteTask, Slot!SlotsNext
<1>4. ASSUME NEW i \in TaskIds, CancelTask(i) PROVE Slot!SlotsNext
    BY <1>4, CancelIsCondemn DEF Slot!SlotsNext
<1>5. CASE Restart
  <2>1. Live' = {} /\ Answered' = "lost"
      BY <1>5 DEF Restart, Live, Answered
  <2> QED
      BY <2>1 DEF Slot!SlotsNext, Slot!Reset
<1> QED
    BY <1>1, <1>3, <1>4, <1>5, RunStepIsSlotStep DEF Next

\* The refinement: to the masters, the agent is a set of slots.
THEOREM SlotsImplemented == Spec => ImplementsSlots
<1>1. Init => Slot!SlotsInit
    BY DEF Init, Slot!SlotsInit, Live, Answered
<1>2. AgentInv /\ OnlyLiveDoomed /\ [Next]_vars => [Slot!SlotsNext]_(Slot!slotVars)
    BY StepIsSlotStep
<1> QED
    BY <1>1, <1>2, AgentInvariant, DoomedInvariant, PTL DEF Spec, ImplementsSlots, Slot!SlotsSpec

-----------------------------------------------------------------------------
(***************************************************************************)
(* Its FMP connections (FmpLink).                                          *)
(***************************************************************************)

\* Nobody tries to connect what is connected.
UpIsSettled == \A c \in Conns : alive[c] => attempts[c] = 0 /\ ~reconnect[c]

\* A connection object that does not exist yet does nothing.
UnmadeIsIdle ==
    \A c \in Conns \ made : ~alive[c] /\ attempts[c] = 0 /\ ~reconnect[c] /\ ~running[c]

FmpInv ==
    /\ FmpTypeOK
    /\ UpIsClosed
    /\ RunningIsWatched
    /\ UpIsSettled
    /\ UnmadeIsIdle

-----------------------------------------------------------------------------

\* Steps of one connection: what connect(), the read loop and disconnect do.
LEMMA ConnectionSteps ==
  ASSUME FmpInv, NEW c \in Conns,
         \/ ConnectSucceeds(c) \/ ConnectFails(c) \/ ReadLoopEnds(c)
         \/ DisconnectCloses(c) \/ DisconnectEnds(c)
  PROVE  FmpInv'
<1> USE FmpAssumption DEF FmpInv, poolVars, routeVars
<1>1. CASE ConnectSucceeds(c)
  <2>1. FmpTypeOK'
    BY <1>1 DEF ConnectSucceeds, BreakerResets, FmpTypeOK
  <2>2. UpIsClosed' /\ RunningIsWatched'
    BY <1>1 DEF ConnectSucceeds, BreakerResets, FmpTypeOK, UpIsClosed, RunningIsWatched
  <2>3. UpIsSettled' /\ UnmadeIsIdle'
    BY <1>1 DEF ConnectSucceeds, Connecting, FmpTypeOK, UpIsSettled, UnmadeIsIdle
  <2> QED  BY <2>1, <2>2, <2>3
<1>2. CASE ConnectFails(c)
  <2>1. FmpTypeOK'
    BY <1>2 DEF ConnectFails, BreakerFails, FmpTypeOK
  <2>2. ~alive[c]
    BY <1>2 DEF ConnectFails, Connecting, FmpTypeOK, UpIsSettled
  <2>3. UpIsClosed'
    BY <1>2, <2>2 DEF ConnectFails, BreakerFails, FmpTypeOK, UpIsClosed
  <2>4. RunningIsWatched'
    BY <1>2 DEF ConnectFails, FmpTypeOK, RunningIsWatched
  <2>5. UpIsSettled' /\ UnmadeIsIdle'
    BY <1>2, <2>2 DEF ConnectFails, Connecting, FmpTypeOK, UpIsSettled, UnmadeIsIdle
  <2> QED  BY <2>1, <2>3, <2>4, <2>5
<1>3. CASE ReadLoopEnds(c)
  <2>1. FmpTypeOK'
    BY <1>3 DEF ReadLoopEnds, FmpTypeOK
  <2>2. UpIsClosed' /\ RunningIsWatched'
    BY <1>3 DEF ReadLoopEnds, FmpTypeOK, UpIsClosed, RunningIsWatched
  <2>3. UpIsSettled' /\ UnmadeIsIdle'
    BY <1>3 DEF ReadLoopEnds, FmpTypeOK, UpIsSettled, UnmadeIsIdle
  <2> QED  BY <2>1, <2>2, <2>3
<1>4. CASE DisconnectCloses(c)
  BY <1>4 DEF DisconnectCloses, FmpTypeOK, UpIsClosed, RunningIsWatched, UpIsSettled,
              UnmadeIsIdle
<1>5. CASE DisconnectEnds(c)
  BY <1>5 DEF DisconnectEnds, FmpTypeOK, UpIsClosed, RunningIsWatched, UpIsSettled,
              UnmadeIsIdle
<1> QED  BY <1>1, <1>2, <1>3, <1>4, <1>5

\* Steps of the senders and of the breaker.  A send that fails takes the
\* connection down, whichever stream it was written to.
LEMMA SendSteps ==
  ASSUME FmpInv, NEW c \in Conns,
         SendTo(c) \/ SendSucceeds(c) \/ SendFails(c) \/ BreakerRecovers(c)
  PROVE  FmpInv'
<1> USE FmpAssumption DEF FmpInv, poolVars, routeVars
<1>1. CASE SendTo(c)
  BY <1>1 DEF SendTo, SendBegins, FmpTypeOK, UpIsClosed, RunningIsWatched, UpIsSettled,
              UnmadeIsIdle
<1>2. CASE SendSucceeds(c)
  <2>1. FmpTypeOK'
    BY <1>2 DEF SendSucceeds, BreakerSucceeds, FmpTypeOK
  <2>2. UpIsClosed'
    BY <1>2 DEF SendSucceeds, BreakerSucceeds, FmpTypeOK, UpIsClosed
  <2>3. RunningIsWatched' /\ UpIsSettled' /\ UnmadeIsIdle'
    BY <1>2 DEF SendSucceeds, RunningIsWatched, UpIsSettled, UnmadeIsIdle
  <2> QED  BY <2>1, <2>2, <2>3
<1>3. CASE SendFails(c)
  <2>1. FmpTypeOK'
    BY <1>3 DEF SendFails, BreakerFails, FmpTypeOK
  <2>2. UpIsClosed'
    BY <1>3 DEF SendFails, BreakerFails, FmpTypeOK, UpIsClosed
  <2>3. RunningIsWatched' /\ UpIsSettled' /\ UnmadeIsIdle'
    BY <1>3 DEF SendFails, FmpTypeOK, RunningIsWatched, UpIsSettled, UnmadeIsIdle
  <2> QED  BY <2>1, <2>2, <2>3
<1>4. CASE BreakerRecovers(c)
  BY <1>4 DEF BreakerRecovers, FmpTypeOK, UpIsClosed, RunningIsWatched, UpIsSettled,
              UnmadeIsIdle
<1> QED  BY <1>1, <1>2, <1>3, <1>4

\* What making a connection does to its part of the state.
LEMMA MakeStep ==
  ASSUME FmpInv, NEW c \in Conns, MakeConnection(c), waiting' = NoConn,
         UNCHANGED routeVars
  PROVE  FmpInv'
<1> USE FmpAssumption DEF FmpInv, routeVars
<1>1. FmpTypeOK'
  BY DEF MakeConnection, FmpTypeOK
<1>2. UpIsClosed' /\ RunningIsWatched'
  BY DEF MakeConnection, UpIsClosed, RunningIsWatched
<1>3. UpIsSettled' /\ UnmadeIsIdle'
  BY DEF MakeConnection, FmpTypeOK, UpIsSettled, UnmadeIsIdle
<1> QED  BY <1>1, <1>2, <1>3

\* Steps of the pool.
LEMMA PoolSteps ==
  ASSUME FmpInv,
         \/ \E c \in Conns : AddConnection(c) \/ AddContinues(c)
         \/ AddReplaces \/ RemoveConnection
  PROVE  FmpInv'
<1> USE FmpAssumption DEF FmpInv, routeVars
<1>1. ASSUME NEW c \in Conns, AddConnection(c) PROVE FmpInv'
  BY <1>1, MakeStep DEF AddConnection
<1>2. ASSUME NEW c \in Conns, AddContinues(c) PROVE FmpInv'
  BY <1>2, MakeStep DEF AddContinues
<1>3. CASE AddReplaces \/ RemoveConnection
  <2>1. pool \in Conns /\ DisconnectBegins(pool)
    BY <1>3 DEF AddReplaces, RemoveConnection, FmpTypeOK
  <2>2. made' = made /\ pool' \in made \cup {NoConn} /\ waiting' \in {NoConn, pool'}
    BY <1>3 DEF AddReplaces, RemoveConnection, FmpTypeOK
  <2>3. UNCHANGED <<rounds, blocked>>
    BY <1>3 DEF AddReplaces, RemoveConnection
  <2>4. FmpTypeOK'
    BY <2>1, <2>2, <2>3 DEF DisconnectBegins, FmpTypeOK
  <2>5. UpIsClosed' /\ RunningIsWatched' /\ UpIsSettled' /\ UnmadeIsIdle'
    BY <2>1, <2>2 DEF DisconnectBegins, FmpTypeOK, UpIsClosed, RunningIsWatched,
                      UpIsSettled, UnmadeIsIdle
  <2> QED  BY <2>4, <2>5
<1> QED  BY <1>1, <1>2, <1>3

\* Steps of the router.
LEMMA RouterSteps ==
  ASSUME FmpInv,
         \/ BlockNode
         \/ \E r \in Rounds : RegisterRound(r) \/ CleanupStaleRound(r) \/ RouteRound(r)
  PROVE  FmpInv'
<1> USE FmpAssumption DEF FmpInv, poolVars, linkVars
<1> DEFINE Link == UNCHANGED <<pool, waiting, made, attempts, reconnect, reading, running,
                               alive, writer, closing, breaker, failures>>
<1>1. CASE BlockNode
  BY <1>1 DEF BlockNode, FmpTypeOK, UpIsClosed, RunningIsWatched, UpIsSettled, UnmadeIsIdle
<1>2. ASSUME NEW r \in Rounds, RegisterRound(r) \/ CleanupStaleRound(r) PROVE FmpInv'
  BY <1>2 DEF RegisterRound, CleanupStaleRound, FmpTypeOK, UpIsClosed, RunningIsWatched,
              UpIsSettled, UnmadeIsIdle, Untracked
<1>3. ASSUME NEW r \in Rounds, RouteRound(r) PROVE FmpInv'
  <2>1. Link /\ blocked' = blocked
    BY <1>3 DEF RouteRound, SendBegins
  <2>2. sending' \in [Conns -> 0..MaxSends]
    BY <1>3 DEF RouteRound, SendBegins, FmpTypeOK
  <2>3. rounds' \in [Rounds -> 0..MaxRounds \cup {Untracked}]
    BY <1>3 DEF RouteRound, CanNext, FmpTypeOK, Untracked
  <2> QED
    BY <2>1, <2>2, <2>3 DEF FmpTypeOK, UpIsClosed, RunningIsWatched, UpIsSettled,
                            UnmadeIsIdle
<1> QED  BY <1>1, <1>2, <1>3

-----------------------------------------------------------------------------

\* The strengthened invariant holds of every link.
THEOREM LinkInvariant == FmpSpec => []FmpInv
<1>1. FmpInit => FmpInv
  <2> SUFFICES ASSUME FmpInit PROVE FmpInv
    OBVIOUS
  <2>1. FmpTypeOK
    <3>1. attempts \in [Conns -> 0..ConnTries] /\ sending \in [Conns -> 0..MaxSends]
      BY FmpAssumption DEF FmpInit
    <3>2. failures \in [Conns -> 0..Threshold]
      BY FmpAssumption DEF FmpInit
    <3> QED  BY <3>1, <3>2 DEF FmpInit, FmpTypeOK
  <2>2. UpIsClosed /\ RunningIsWatched /\ UpIsSettled /\ UnmadeIsIdle
    BY DEF FmpInit, UpIsClosed, RunningIsWatched, UpIsSettled, UnmadeIsIdle
  <2> QED  BY <2>1, <2>2 DEF FmpInv
<1>2. FmpInv /\ [FmpNext]_fmpVars => FmpInv'
  <2> SUFFICES ASSUME FmpInv, [FmpNext]_fmpVars PROVE FmpInv'
    OBVIOUS
  <2>1. CASE FmpNext
    BY <2>1, ConnectionSteps, SendSteps, PoolSteps, RouterSteps DEF FmpNext
  <2>2. CASE UNCHANGED fmpVars
    BY <2>2 DEF fmpVars, poolVars, linkVars, routeVars, FmpInv, FmpTypeOK, UpIsClosed,
                RunningIsWatched, UpIsSettled, UnmadeIsIdle
  <2> QED  BY <2>1, <2>2
<1> QED  BY <1>1, <1>2, PTL DEF FmpSpec

\* Types, and the limit of a conversation, for any number of connections and
\* conversations (RoundInfo.can_next).
THEOREM LinkTypes == FmpSpec => []FmpTypeOK
<1>1. FmpInv => FmpTypeOK
  BY DEF FmpInv
<1> QED  BY <1>1, LinkInvariant, PTL

\* The breaker of a connection that is up is closed with no failure counted,
\* whatever connects, sends and disconnects overlap (FMPConnection.send).
THEOREM BreakerClosedWhileUp == FmpSpec => []UpIsClosed
<1>1. FmpInv => UpIsClosed
  BY DEF FmpInv
<1> QED  BY <1>1, LinkInvariant, PTL

\* A running connection always has a read loop or a reconnect task
\* (FMPConnection._read_loop and _auto_reconnect).
THEOREM RunningWatched == FmpSpec => []RunningIsWatched
<1>1. FmpInv => RunningIsWatched
  BY DEF FmpInv
<1> QED  BY <1>1, LinkInvariant, PTL

-----------------------------------------------------------------------------
(***************************************************************************)
(* Both of them (MCNodeLife).                                              *)
(***************************************************************************)

\* A node at work is an agent and a link: each behaves as it does alone.
LEMMA LifeIsParts == LifeSpec => Spec /\ FmpSpec
<1>1. LifeInit => Init /\ FmpInit
  BY DEF LifeInit
<1>2. [LifeNext]_lifeVars => [Next]_vars /\ [FmpNext]_fmpVars
  BY DEF LifeNext, lifeVars
<1> QED  BY <1>1, <1>2, PTL DEF LifeSpec, Spec, FmpSpec

\* What the agent registered agrees with what runs, no two executions share an
\* id, every execution has its directory and max_tasks holds; a connection that
\* runs is watched.
THEOREM LifeIsKept == LifeSpec => []LifeOK
<1>1. (TypeOK /\ OneRunPerId /\ RunsAreRegistered /\ TempDirKept) /\ CapacityKept
        /\ FmpTypeOK /\ RunningIsWatched => LifeOK
  BY DEF LifeOK
<1> QED
  BY <1>1, LifeIsParts, RunsAreDistinct, CapacityHolds, LinkTypes, RunningWatched, PTL
=============================================================================
