------------------------------ MODULE NodeAgent ------------------------------
(***************************************************************************)
(* The execution of tasks on a worker node: NodeAgent.execute_task and     *)
(* cancel_task (agent/node_agent.py), reached through the routes           *)
(* /api/execute and /api/tasks/cancel (server/agent_server.py), with the   *)
(* paced requests to the inference backend (agent/rate_pacer.py).          *)
(*                                                                         *)
(* The agent is one asyncio event loop.  execute_task runs up to           *)
(* "await handle" without suspending, so its gates and the registration of *)
(* the handle are one step.  The wrapped coroutine _run is a task of its   *)
(* own: it has not begun when execute_task suspends, it suspends while the *)
(* backend works and while the pacer sleeps, and a cancellation is thrown  *)
(* into it the next time it is resumed.                                    *)
(*                                                                         *)
(* _current_task is left out: it is read only when no handle is            *)
(* registered, and the step that removes a handle clears it too.           *)
(***************************************************************************)
EXTENDS Integers, FiniteSets

CONSTANTS
    Calls,      \* requests to /api/execute that can be open at once (a bound)
    Ids,        \* task ids that masters give
    NoId,       \* a request without a task id
    MaxTasks,   \* config.max_tasks
    MaxTries,   \* pacer.max_retries + 1
    MaxToken,   \* largest fencing token in the model (a bound)
    MaxAnon     \* anonymous tasks in the life of an agent process (a bound)

ASSUME AgentAssumption ==
    /\ IsFiniteSet(Calls)
    /\ Ids \cap Int = {} /\ NoId \notin Ids \cup Int
    /\ MaxTasks \in Nat \ {0} /\ MaxTries \in Nat \ {0}
    /\ MaxToken \in Nat /\ MaxAnon \in Nat

Results == {"none", "ok", "error", "rate_limited", "cancelled",
            "dedup_blocked", "fencing_rejected", "sandbox_blocked", "overload",
            "lost"}

VARIABLES
    pc,         \* where the _run of a call is: none, created, running, paused
    id,         \* its task id
    tok,        \* the fencing token it came with
    tries,      \* requests it has sent to the backend
    doomed,     \* handle.cancel() was called on it
    reply,      \* what the step answered its request, if it ended one
    handles,    \* the keys of _running_task_handles
    lastToken,  \* _last_fencing_token
    anonSeq,    \* _anon_task_seq
    tmp         \* task ids with a temporary directory

runs == <<pc, id, tok, tries, doomed>>
agent == <<handles, lastToken, anonSeq>>
vars == <<runs, reply, agent, tmp>>

TaskIds == Ids \cup (1..MaxAnon)
Live == {c \in Calls : pc[c] # "none"}
Started == {c \in Calls : pc[c] \in {"running", "paused"}}

Init ==
    /\ pc = [c \in Calls |-> "none"]
    /\ id = [c \in Calls |-> NoId]
    /\ tok = [c \in Calls |-> 0]
    /\ tries = [c \in Calls |-> 0]
    /\ doomed = [c \in Calls |-> FALSE]
    /\ reply = "none"
    /\ handles = {}
    /\ lastToken = 0 /\ anonSeq = 0
    /\ tmp = {}

-----------------------------------------------------------------------------
(* execute_task, up to the await of the handle.                            *)

AlreadyRunningUnchecked(i) == FALSE
AlreadyRunning(i) == i \in handles

StaleNever(t) == FALSE
Stale(t) == t # 0 /\ t < lastToken
NewToken(t) == IF t > lastToken THEN t ELSE lastToken

FullOffByOne == Cardinality(handles) > MaxTasks
Full == Cardinality(handles) >= MaxTasks

\* A request without an id gets the next anonymous one and is not
\* deduplicated.
Named(i) == IF i = NoId THEN anonSeq + 1 ELSE i
NextAnon(i) == IF i = NoId THEN anonSeq + 1 ELSE anonSeq

Duplicate(c, i) ==
    /\ pc[c] = "none" /\ i # NoId /\ AlreadyRunning(i)
    /\ reply' = "dedup_blocked"
    /\ UNCHANGED <<runs, agent, tmp>>

\* What the later gates are about: the request is not a duplicate.
Fresh(c, i) == pc[c] = "none" /\ (i = NoId => anonSeq < MaxAnon)
                              /\ (i # NoId => ~AlreadyRunning(i))

RejectStale(c, i, t) ==
    /\ Fresh(c, i) /\ Stale(t)
    /\ anonSeq' = NextAnon(i)
    /\ reply' = "fencing_rejected"
    /\ UNCHANGED <<runs, handles, lastToken, tmp>>

\* The token is taken over before the sandbox and the capacity are checked.
RejectUnsafe(c, i, t) ==
    /\ Fresh(c, i) /\ ~Stale(t)
    /\ anonSeq' = NextAnon(i) /\ lastToken' = NewToken(t)
    /\ reply' = "sandbox_blocked"
    /\ UNCHANGED <<runs, handles, tmp>>

RejectFull(c, i, t) ==
    /\ Fresh(c, i) /\ ~Stale(t) /\ Full
    /\ anonSeq' = NextAnon(i) /\ lastToken' = NewToken(t)
    /\ reply' = "overload"
    /\ UNCHANGED <<runs, handles, tmp>>

Accept(c, i, t) ==
    /\ Fresh(c, i) /\ ~Stale(t) /\ ~Full
    /\ anonSeq' = NextAnon(i) /\ lastToken' = NewToken(t)
    /\ handles' = handles \cup {Named(i)}
    /\ pc' = [pc EXCEPT ![c] = "created"]
    /\ id' = [id EXCEPT ![c] = Named(i)]
    /\ tok' = [tok EXCEPT ![c] = t]
    /\ reply' = "none"
    /\ UNCHANGED <<tries, doomed, tmp>>

ExecuteTask(c) ==
    \E i \in Ids \cup {NoId}, t \in 0..MaxToken :
        \/ Duplicate(c, i)
        \/ RejectStale(c, i, t)
        \/ RejectUnsafe(c, i, t)
        \/ RejectFull(c, i, t)
        \/ Accept(c, i, t)

-----------------------------------------------------------------------------
(* The coroutine _run.                                                     *)

\* The run of c is over; nothing of it is kept.
Forget(c) ==
    /\ pc' = [pc EXCEPT ![c] = "none"]
    /\ id' = [id EXCEPT ![c] = NoId]
    /\ tok' = [tok EXCEPT ![c] = 0]
    /\ tries' = [tries EXCEPT ![c] = 0]
    /\ doomed' = [doomed EXCEPT ![c] = FALSE]

\* Its finally block, and the answer that the resumed execute_task returns.
FinishSweeping(c, r) ==
    /\ handles' = handles \ {id[c]}
    /\ tmp' = {}
    /\ Forget(c) /\ reply' = r
    /\ UNCHANGED <<lastToken, anonSeq>>
Finish(c, r) ==
    /\ handles' = handles \ {id[c]}
    /\ tmp' = tmp \ {id[c]}
    /\ Forget(c) /\ reply' = r
    /\ UNCHANGED <<lastToken, anonSeq>>

RunBegins(c) ==
    /\ pc[c] = "created" /\ ~doomed[c]
    /\ pc' = [pc EXCEPT ![c] = "running"]
    /\ tries' = [tries EXCEPT ![c] = 1]
    /\ tmp' = tmp \cup {id[c]}
    /\ reply' = "none"
    /\ UNCHANGED <<id, tok, doomed, agent>>

\* An unknown type, a test while test execution is disabled, malformed
\* arguments: _run returns without suspending.
RunRefused(c) ==
    /\ pc[c] = "created" /\ ~doomed[c]
    /\ Finish(c, "error")

\* A coroutine that is cancelled before its first step never enters its try
\* block: the finally block does not run and the handle stays registered.
RunNeverBegins(c) ==
    /\ pc[c] = "created" /\ doomed[c]
    /\ Forget(c) /\ reply' = "cancelled"
    /\ UNCHANGED <<agent, tmp>>

\* A pending cancellation is thrown instead of the reply (asyncio of Python
\* 3.12; the wait_for of 3.11, used by test tasks, may still return it).
HeedsNever(c) == TRUE
Heeds(c) == ~doomed[c]

BackendReplies(c) ==
    /\ pc[c] = "running" /\ Heeds(c)
    /\ Finish(c, "ok") \/ Finish(c, "error")

TriesLeftOffByOne(c) == tries[c] <= MaxTries
TriesLeft(c) == tries[c] < MaxTries

\* The model server answers 429 (other types of tasks never see one): the
\* pacer sleeps, unless its tries or its time budget are used up.
BackendLimits(c) ==
    /\ pc[c] = "running" /\ Heeds(c)
    /\ \/ /\ TriesLeft(c)
          /\ pc' = [pc EXCEPT ![c] = "paused"]
          /\ reply' = "none"
          /\ UNCHANGED <<id, tok, tries, doomed, agent, tmp>>
       \/ Finish(c, "rate_limited")

PauseEndsUncounted(c) ==
    /\ pc[c] = "paused" /\ Heeds(c)
    /\ pc' = [pc EXCEPT ![c] = "running"]
    /\ reply' = "none"
    /\ UNCHANGED <<id, tok, tries, doomed, agent, tmp>>
PauseEnds(c) ==
    /\ pc[c] = "paused" /\ Heeds(c)
    /\ pc' = [pc EXCEPT ![c] = "running"]
    /\ tries' = [tries EXCEPT ![c] = @ + 1]
    /\ reply' = "none"
    /\ UNCHANGED <<id, tok, doomed, agent, tmp>>

CancelThrown(c) ==
    /\ pc[c] \in {"running", "paused"} /\ doomed[c]
    /\ Finish(c, "cancelled")

-----------------------------------------------------------------------------

CancelTaskPops(i) ==
    /\ i \in handles
    /\ \E c \in Live : /\ id[c] = i
                       /\ doomed' = [doomed EXCEPT ![c] = TRUE]
    /\ handles' = handles \ {i}
    /\ reply' = "none"
    /\ UNCHANGED <<pc, id, tok, tries, lastToken, anonSeq, tmp>>

\* cancel_task: only a registered handle that is not done can be cancelled.
CancelTask(i) ==
    /\ i \in handles
    /\ \E c \in Live : /\ id[c] = i
                       /\ doomed' = [doomed EXCEPT ![c] = TRUE]
    /\ reply' = "none"
    /\ UNCHANGED <<pc, id, tok, tries, agent, tmp>>

\* The agent process ends and a new one starts.  stop() cancels the tasks,
\* which remove their directories; a crash leaves the directories behind.
Restart ==
    /\ \/ tmp' = tmp \ {id[c] : c \in Started}
       \/ tmp' = tmp
    /\ pc' = [c \in Calls |-> "none"]
    /\ id' = [c \in Calls |-> NoId]
    /\ tok' = [c \in Calls |-> 0]
    /\ tries' = [c \in Calls |-> 0]
    /\ doomed' = [c \in Calls |-> FALSE]
    /\ reply' = "lost"
    /\ handles' = {}
    /\ lastToken' = 0 /\ anonSeq' = 0

RunStep(c) ==
    \/ RunBegins(c) \/ RunRefused(c) \/ RunNeverBegins(c)
    \/ BackendReplies(c) \/ BackendLimits(c)
    \/ PauseEnds(c) \/ CancelThrown(c)

Next ==
    \/ \E c \in Calls : ExecuteTask(c) \/ RunStep(c)
    \/ \E i \in TaskIds : CancelTask(i)
    \/ Restart

Spec == Init /\ [][Next]_vars

\* The event loop resumes every coroutine that is ready, and the requests to
\* the backend, the plugin host and the sandbox all have a timeout.
AgentFairness == \A c \in Calls : WF_vars(RunStep(c))

FairSpec == Spec /\ AgentFairness

-----------------------------------------------------------------------------
(* What the agent promises.                                                *)

\* The variables have their types; a live run has an id, at most MaxTries
\* requests were sent for it, and the tokens of live runs are not ahead of
\* the last accepted one.
TypeOK ==
    /\ pc \in [Calls -> {"none", "created", "running", "paused"}]
    /\ id \in [Calls -> TaskIds \cup {NoId}]
    /\ tok \in [Calls -> 0..MaxToken]
    /\ tries \in [Calls -> 0..MaxTries]
    /\ doomed \in [Calls -> BOOLEAN]
    /\ reply \in Results
    /\ handles \in SUBSET TaskIds
    /\ lastToken \in 0..MaxToken /\ anonSeq \in 0..MaxAnon
    /\ tmp \in SUBSET TaskIds

\* A task id is executed at most once at a time, however often masters send
\* it, whoever cancels it and with whichever anonymous tasks around it
\* (the P1-14 check of execute_task).
OneRunPerId == \A c, d \in Live : id[c] = id[d] => c = d

\* Never more coroutines execute tasks than max_tasks, also when cancelled
\* tasks have left something behind in the registry (the P1-18 gate).
CapacityKept == Cardinality(Live) <= MaxTasks

\* Every executing task is counted in the heartbeat and can be found by
\* cancel_task.
RunsAreRegistered == \A c \in Live : id[c] \in handles

\* The temporary directory of a task that executes is there: no other task
\* that ends, and no restart, removes it.
TempDirKept == \A c \in Started : id[c] \in tmp

\* The agent begins no work of an older master while it does work for a
\* newer one (the #72 fencing check, tokens other than 0).
NewestMasterOnly ==
    [][\A c, d \in Calls :
         /\ pc[c] = "none" /\ pc'[c] = "created" /\ tok'[c] # 0
         /\ pc[d] # "none"
         => tok[d] <= tok'[c]]_vars

\* A cancellation that was acknowledged to the master is the end of the
\* task: it is never answered with a result of the backend.
CancelIsHonoured ==
    [][\A c \in Calls : doomed[c] /\ pc[c] # "none" /\ pc'[c] = "none"
         => reply' \in {"cancelled", "lost"}]_vars

\* Every accepted request is answered: the pacer gives up on a backend that
\* answers 429 for ever, and a cancelled task ends.
RequestsEnd == \A c \in Calls : pc[c] # "none" ~> pc[c] = "none"

-----------------------------------------------------------------------------
(* What a master sees of the agent, in the terms of TaskSlots.             *)

Answered ==
    CASE reply \in {"none", "lost", "cancelled"} -> reply
      [] reply \in {"ok", "error", "rate_limited"} -> "result"
      [] OTHER -> "refused"

Slot == INSTANCE TaskSlots
    WITH Names <- TaskIds, Slots <- MaxTasks,
         busy <- {id[c] : c \in Live},
         condemned <- {id[c] : c \in {d \in Live : doomed[d]}},
         answer <- Answered

\* The agent implements the slots: all that execute_task and cancel_task do
\* with handles, coroutines and pauses looks to the masters like max_tasks
\* slots, each with one task that gets one answer.
ImplementsSlots == Slot!SlotsSpec
=============================================================================
