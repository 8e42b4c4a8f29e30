---------------------------- MODULE RequestGate ----------------------------
(***************************************************************************)
(* What the master keeps about its clients between requests: the           *)
(* idempotency keys of /api/tasks/submit and /api/v1/tasks/submit, the     *)
(* chat slots of /v1/chat/completions, and the sessions of /api/sessions   *)
(* with their copy in the task store (server/master_server.py and          *)
(* master/cluster_master.py).                                              *)
(*                                                                         *)
(* A submission suspends while assign_task writes the store, between the   *)
(* look at the key and its registration.  A chat suspends while the agent  *)
(* answers, between the acquisition of the slot and its release; each of   *)
(* the two reads the quota of the tenant anew, and a reload of the         *)
(* configuration may change it.  What assign_task does is TaskScheduler.   *)
(*                                                                         *)
(* There is one tenant: slots and quotas of tenants are independent.       *)
(***************************************************************************)
EXTENDS Naturals, Sequences, SequencesExt, FiniteSets

CONSTANTS
    Requests,   \* submissions; each makes at most one task, of the same name
    IdemKeys,   \* idempotency keys
    NoTask,     \* no task, no key, no host
    MaxKeys,    \* _MAX_IDEMPOTENCY_KEYS
    Chats,      \* chats at a time (a bound)
    Quotas,     \* values of _tenant_limit_for; 0: unlimited
    Sessions,   \* session ids
    Laptops,    \* nodes where sessions begin
    Residents   \* nodes sessions are handed to

ASSUME GateAssumption ==
    /\ NoTask \notin Requests \cup IdemKeys \cup Laptops \cup Residents
    /\ Laptops \cap Residents = {}
    /\ MaxKeys \in Nat \ {0} /\ Quotas \subseteq Nat

VARIABLES
    req,        \* where a submission is, and its key
    tstat,      \* its task: "none", "active", "partial", "final" or "gone"
    keys,       \* _idempotency_keys in insertion order: [key, task]
    excused,    \* keys that were forgotten or used twice at a time (history)
    chat,       \* "idle", "counted" or "free" (begun when there was no limit)
    inflight,   \* _inflight_chat
    quota,      \* _tenant_limit_for
    steady,     \* every slot so far was released as it was acquired (history)
    session,    \* _sessions: state and host
    stored      \* the sessions of the task store

submitVars == <<req, tstat, keys, excused>>
chatVars == <<chat, inflight, quota, steady>>
sessionVars == <<session, stored>>
gateVars == <<submitVars, chatVars, sessionVars>>

NoSession == [state |-> "none", host |-> NoTask]

GateInit ==
    /\ req = [q \in Requests |-> [at |-> "new", key |-> NoTask]]
    /\ tstat = [q \in Requests |-> "none"]
    /\ keys = <<>> /\ excused = {}
    /\ chat = [c \in Chats |-> "idle"] /\ inflight = 0 /\ quota \in Quotas /\ steady = TRUE
    /\ session = [s \in Sessions |-> NoSession] /\ stored = session

-----------------------------------------------------------------------------
(* Submission.                                                             *)

KeysOf(ks) == {ks[n].key : n \in DOMAIN ks}
TaskOf(k) == (CHOOSE e \in ToSet(keys) : e.key = k).task
\* A key is in the table once, so one entry goes at most.
WithoutKey(k) ==
    IF k \in KeysOf(keys) THEN RemoveAt(keys, CHOOSE n \in DOMAIN keys : keys[n].key = k)
    ELSE keys
InFlight(k) == {q \in Requests : req[q].at = "assigning" /\ req[q].key = k}

\* try_idempotency: the task is reused unless it has ended.
Reusable(k) == k \in KeysOf(keys) /\ tstat[TaskOf(k)] # "final"

\* A hit answers with the task, if it is still in the table; else a new task
\* is assigned.  A key whose task has ended is dropped.
SubmitLooks(q, k) ==
    /\ req[q].at = "new"
    /\ IF Reusable(k) /\ tstat[TaskOf(k)] # "gone"
       THEN /\ req' = [req EXCEPT ![q] = [at |-> "done", key |-> k]]
            /\ UNCHANGED <<keys, excused>>
       ELSE /\ req' = [req EXCEPT ![q] = [at |-> "assigning", key |-> k]]
            /\ keys' = IF Reusable(k) THEN keys ELSE WithoutKey(k)
            /\ excused' = IF InFlight(k) = {} THEN excused ELSE excused \cup {k}
    /\ UNCHANGED <<tstat, chatVars, sessionVars>>

\* assign_task has put the task into the table, and writes the store.
AssignBegins(q) ==
    /\ req[q].at = "assigning" /\ tstat[q] = "none"
    /\ tstat' = [tstat EXCEPT ![q] = "active"]
    /\ UNCHANGED <<req, keys, excused, chatVars, sessionVars>>

\* It refused the task: 503, and the key is not registered.
AssignRefuses(q) ==
    /\ req[q].at = "assigning" /\ tstat[q] = "none"
    /\ req' = [req EXCEPT ![q].at = "done"]
    /\ UNCHANGED <<tstat, keys, excused, chatVars, sessionVars>>

RegisteredUnbounded(k, t) ==
    IF k \in KeysOf(keys)
    THEN [n \in DOMAIN keys |-> IF keys[n].key = k THEN [keys[n] EXCEPT !.task = t] ELSE keys[n]]
    ELSE Append(keys, [key |-> k, task |-> t])
\* register_idempotency: a full table loses its oldest entry; a key that is
\* there keeps its place.
RegisteredKey(k, t) ==
    IF k \in KeysOf(keys)
    THEN [n \in DOMAIN keys |-> IF keys[n].key = k THEN [keys[n] EXCEPT !.task = t] ELSE keys[n]]
    ELSE Append(IF Len(keys) >= MaxKeys THEN Tail(keys) ELSE keys, [key |-> k, task |-> t])

NeverRegistered(q) == keys
RegisterIdempotency(q) == RegisteredKey(req[q].key, q)

SubmitEnds(q) ==
    /\ req[q].at = "assigning" /\ tstat[q] # "none"
    /\ req' = [req EXCEPT ![q].at = "done"]
    /\ keys' = RegisterIdempotency(q)
    /\ excused' = excused \cup (KeysOf(keys) \ KeysOf(keys'))
    /\ UNCHANGED <<tstat, chatVars, sessionVars>>

\* The scheduler ends a task, in part or as a whole, or drops a finished one.
TaskMoves(q) ==
    /\ \/ tstat[q] = "active" /\ tstat' \in {[tstat EXCEPT ![q] = s] : s \in {"partial", "final"}}
       \/ tstat[q] \in {"partial", "final"} /\ req[q].at = "done"
          /\ tstat' = [tstat EXCEPT ![q] = "gone"]
    /\ UNCHANGED <<req, keys, excused, chatVars, sessionVars>>

\* A key reaches its time to live; it is dropped when it is next looked at.
KeyLapses(k) ==
    /\ k \in KeysOf(keys)
    /\ keys' = WithoutKey(k)
    /\ excused' = excused \cup {k}
    /\ UNCHANGED <<req, tstat, chatVars, sessionVars>>

-----------------------------------------------------------------------------
(* Chat slots.                                                             *)

HasSlot == inflight < quota

\* acquire_chat_slot; a refused chat ends with 429.
ChatBegins(c) ==
    /\ steady /\ chat[c] = "idle"
    /\ \/ quota = 0 /\ chat' = [chat EXCEPT ![c] = "free"] /\ UNCHANGED inflight
       \/ /\ quota # 0 /\ HasSlot
          /\ chat' = [chat EXCEPT ![c] = "counted"]
          /\ inflight' = inflight + 1
    /\ UNCHANGED <<quota, steady, submitVars, sessionVars>>

\* release_chat_slot, in the finally of the handler or of the stream.
ReleaseTwice == IF quota = 0 THEN inflight ELSE IF inflight <= 2 THEN 0 ELSE inflight - 2
ReleaseChatSlot == IF quota = 0 THEN inflight ELSE IF inflight <= 1 THEN 0 ELSE inflight - 1

ChatEnds(c) ==
    /\ steady /\ chat[c] # "idle"
    /\ chat' = [chat EXCEPT ![c] = "idle"]
    /\ inflight' = ReleaseChatSlot
    /\ steady' = ((chat[c] = "counted") = (quota # 0))
    /\ UNCHANGED <<quota, submitVars, sessionVars>>

\* A client leaves before its stream has begun: nothing runs the finally.
StreamNeverBegins(c) ==
    /\ steady /\ chat[c] = "counted"
    /\ chat' = [chat EXCEPT ![c] = "idle"]
    /\ steady' = FALSE
    /\ UNCHANGED <<inflight, quota, submitVars, sessionVars>>

\* /api/v1/config/reload, or the quota the identity service gives the tenant.
QuotaChanges(l) ==
    /\ quota # l /\ quota' = l
    /\ UNCHANGED <<chat, inflight, steady, submitVars, sessionVars>>

-----------------------------------------------------------------------------
(* Sessions.                                                               *)

\* register_session: who names no host keeps the one the session has.
HostOriginFirst(s, origin, host) ==
    IF host # NoTask THEN host
    ELSE IF origin # NoTask THEN origin ELSE session[s].host
HostOf(s, origin, host) ==
    IF host # NoTask THEN host
    ELSE IF session[s].host # NoTask THEN session[s].host ELSE origin

RegisterSession(s, origin, host) ==
    /\ session' = [session EXCEPT ![s] = [state |-> "active", host |-> HostOf(s, origin, host)]]
    /\ UNCHANGED <<stored, submitVars, chatVars>>

\* handoff_session; the target is registered, the session not closed.
HandoffSession(s, target) ==
    /\ session[s].state \in {"active", "handed_off"}
    /\ session' = [session EXCEPT ![s] = [state |-> "handed_off", host |-> target]]
    /\ UNCHANGED <<stored, submitVars, chatVars>>

CloseSession(s) ==
    /\ session[s].state \in {"active", "handed_off"}
    /\ session' = [session EXCEPT ![s].state = "closed"]
    /\ UNCHANGED <<stored, submitVars, chatVars>>

\* The persist loop, or the write of any task change.
PersistSessions ==
    /\ stored # session /\ stored' = session
    /\ UNCHANGED <<session, submitVars, chatVars>>

-----------------------------------------------------------------------------

\* The master crashes and starts again: sessions come from the store; keys,
\* slots and running requests are gone.
RestartMaster ==
    /\ session' = stored
    /\ keys' = <<>> /\ excused' = IdemKeys
    /\ req' = [q \in Requests |-> IF req[q].at = "assigning" THEN [req[q] EXCEPT !.at = "done"]
                                  ELSE req[q]]
    /\ chat' = [c \in Chats |-> "idle"] /\ inflight' = 0 /\ steady' = TRUE
    /\ UNCHANGED <<tstat, quota, stored>>

SubmitStep ==
    \/ \E q \in Requests :
          \/ \E k \in IdemKeys : SubmitLooks(q, k)
          \/ AssignBegins(q) \/ AssignRefuses(q) \/ SubmitEnds(q) \/ TaskMoves(q)
    \/ \E k \in IdemKeys : KeyLapses(k)

ChatStep ==
    \/ \E c \in Chats : ChatBegins(c) \/ ChatEnds(c) \/ StreamNeverBegins(c)
    \/ \E l \in Quotas : QuotaChanges(l)

SessionStep ==
    \/ \E s \in Sessions :
          \/ \E o \in Laptops, h \in Residents \cup {NoTask} : RegisterSession(s, o, h)
          \/ \E h \in Residents : HandoffSession(s, h)
          \/ CloseSession(s)
    \/ PersistSessions

GateNext == SubmitStep \/ ChatStep \/ SessionStep \/ RestartMaster

GateSpec == GateInit /\ [][GateNext]_gateVars

-----------------------------------------------------------------------------
(* What the gate promises.                                                 *)

\* Types; a key has one entry, and the table is within its limit.
GateTypeOK ==
    /\ \A q \in Requests :
          /\ req[q].at \in {"new", "assigning", "done"}
          /\ req[q].key \in IdemKeys \cup {NoTask}
    /\ tstat \in [Requests -> {"none", "active", "partial", "final", "gone"}]
    /\ \A e \in ToSet(keys) : e.key \in IdemKeys /\ e.task \in Requests
    /\ Len(keys) = Cardinality(KeysOf(keys)) /\ Len(keys) <= MaxKeys
    /\ excused \subseteq IdemKeys
    /\ chat \in [Chats -> {"idle", "counted", "free"}]
    /\ inflight \in Nat /\ quota \in Quotas /\ steady \in BOOLEAN
    /\ \A s \in Sessions : session[s].host \in Laptops \cup Residents \cup {NoTask}

\* A client that repeats a submission with its key gets no second task while
\* the first one runs, however often and from wherever it repeats it, as long
\* as its submissions do not overlap and the key has not been forgotten.
OneTaskPerKey ==
    \A k \in IdemKeys \ excused :
        Cardinality({q \in Requests : tstat[q] = "active" /\ req[q].key = k}) <= 1

\* The counter of a tenant is the number of its chats on the way, whichever
\* way they end, until one begins with a limit and ends without, or the
\* reverse, or a stream never begins.
ChatCountIsExact ==
    steady => inflight = Cardinality({c \in Chats : chat[c] = "counted"})

\* Once the store knows that a session lives on a resident node, the laptop
\* it came from does not get it back, neither by registering it again, closed
\* or not, nor by a restart of the master.
HandoffIsKept ==
    \A s \in Sessions : stored[s].host \in Residents => session[s].host \in Residents
=============================================================================
