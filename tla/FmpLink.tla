------------------------------ MODULE FmpLink ------------------------------
(***************************************************************************)
(* The outgoing side of the FMP protocol towards one peer: the pool of     *)
(* FMPConnectionManager, the connections it has made (FMPConnection), the  *)
(* circuit breaker of each (protocol/circuit_breaker.py), and the router   *)
(* on top of it (protocol/fmp_router.py).                                  *)
(*                                                                         *)
(* A connection is driven by several tasks of one event loop: the caller   *)
(* of add_connection, which retries connect(); the read loop; the          *)
(* reconnect task the read loop leaves behind; any number of senders; and  *)
(* disconnect, which suspends between stopping the tasks and forgetting    *)
(* the streams.  Every step below is what runs between two suspensions.    *)
(***************************************************************************)
EXTENDS Naturals, FiniteSets

CONSTANTS
    Conns,      \* connection objects (a bound on how many are ever made)
    NoConn,     \* the pool has no connection to the peer
    ConnTries,  \* max_retries of connect_with_retry
    Threshold,  \* failure_threshold of the breaker
    MaxSends,   \* senders at a time (a bound)
    Rounds,     \* conversations
    MaxRounds   \* max_rounds of a conversation

ASSUME FmpAssumption ==
    /\ NoConn \notin Conns
    /\ ConnTries \in Nat \ {0} /\ Threshold \in Nat \ {0}
    /\ MaxSends \in Nat /\ MaxRounds \in Nat

VARIABLES
    pool,       \* _connections: the connection registered for the peer
    waiting,    \* the connection add_connection disconnects, holding the lock
    made,       \* connections that exist
    attempts,   \* attempts connect_with_retry has left; 0: it does not run
    reconnect,  \* _reconnect_task runs
    reading,    \* _read_task runs
    running,    \* _running
    alive,      \* info.is_alive
    writer,     \* _writer: "none", "open" or "closing"
    closing,    \* where disconnect is: "no", "tasks" or "streams"
    sending,    \* sends that were admitted and have not ended
    breaker,    \* _state of the circuit breaker
    failures,   \* _failure_count, up to the threshold
    rounds,     \* current_round of the conversations the router tracks
    blocked     \* the peer is in _blocked_nodes

linkVars == <<attempts, reconnect, reading, running, alive, writer, closing,
              sending, breaker, failures>>
poolVars == <<pool, waiting, made>>
routeVars == <<rounds, blocked>>
fmpVars == <<poolVars, linkVars, routeVars>>

Untracked == MaxRounds + 2  \* no value of current_round

FmpInit ==
    /\ pool = NoConn /\ waiting = NoConn /\ made = {}
    /\ attempts = [c \in Conns |-> 0]
    /\ reconnect = [c \in Conns |-> FALSE] /\ reading = [c \in Conns |-> FALSE]
    /\ running = [c \in Conns |-> FALSE] /\ alive = [c \in Conns |-> FALSE]
    /\ writer = [c \in Conns |-> "none"] /\ closing = [c \in Conns |-> "no"]
    /\ sending = [c \in Conns |-> 0]
    /\ breaker = [c \in Conns |-> "closed"] /\ failures = [c \in Conns |-> 0]
    /\ rounds = [r \in Rounds |-> Untracked] /\ blocked = FALSE

IsConnected(c) == alive[c] /\ writer[c] = "open"

-----------------------------------------------------------------------------
(* CircuitBreaker.                                                         *)

BreakerFails(c) ==
    /\ failures' = [failures EXCEPT ![c] = IF @ < Threshold THEN @ + 1 ELSE @]
    /\ breaker' = [breaker EXCEPT ![c] =
          IF @ = "half_open" \/ (@ = "closed" /\ failures[c] + 1 >= Threshold)
          THEN "open" ELSE @]

BreakerSucceeds(c) ==
    /\ failures' = [failures EXCEPT ![c] = IF breaker[c] = "open" THEN @ ELSE 0]
    /\ breaker' = [breaker EXCEPT ![c] = IF @ = "half_open" THEN "closed" ELSE @]

BreakerKept(c) == UNCHANGED <<breaker, failures>>
BreakerResets(c) ==
    /\ failures' = [failures EXCEPT ![c] = 0]
    /\ breaker' = [breaker EXCEPT ![c] = "closed"]

\* Reading the state once recovery_timeout has passed, as get_stats does.
BreakerRecovers(c) ==
    /\ breaker[c] = "open"
    /\ breaker' = [breaker EXCEPT ![c] = "half_open"]
    /\ UNCHANGED <<poolVars, attempts, reconnect, reading, running, alive, writer, closing,
                   sending, failures, routeVars>>

-----------------------------------------------------------------------------
(* FMPConnection.                                                          *)

Connecting(c) == attempts[c] > 0 \/ reconnect[c]

\* connect() returns to whoever awaits it with a new pair of streams, and
\* cancels what is left of an earlier read loop or reconnect task.
ConnectSucceeds(c) ==
    /\ Connecting(c)
    /\ alive' = [alive EXCEPT ![c] = TRUE]
    /\ running' = [running EXCEPT ![c] = TRUE]
    /\ writer' = [writer EXCEPT ![c] = "open"]
    /\ BreakerResets(c)
    /\ attempts' = [attempts EXCEPT ![c] = 0]
    /\ reconnect' = [reconnect EXCEPT ![c] = FALSE]
    /\ reading' = [reading EXCEPT ![c] = TRUE]
    /\ UNCHANGED <<poolVars, closing, sending, routeVars>>

\* One attempt less, or _auto_reconnect goes round again.
ConnectFails(c) ==
    /\ Connecting(c)
    /\ BreakerFails(c)
    /\ attempts' = [attempts EXCEPT ![c] = IF @ > 0 THEN @ - 1 ELSE 0]
    /\ reconnect' = [reconnect EXCEPT ![c] = @ /\ running[c]]
    /\ UNCHANGED <<poolVars, reading, running, alive, writer, closing, sending, routeVars>>

\* The peer closed the stream, or sent what cannot be read.
ReadLoopEndsForGood(c) ==
    /\ reading[c]
    /\ reading' = [reading EXCEPT ![c] = FALSE]
    /\ alive' = [alive EXCEPT ![c] = FALSE]
    /\ UNCHANGED <<poolVars, attempts, reconnect, running, writer, closing, sending,
                   breaker, failures, routeVars>>
ReadLoopEnds(c) ==
    /\ reading[c]
    /\ reading' = [reading EXCEPT ![c] = FALSE]
    /\ alive' = [alive EXCEPT ![c] = FALSE]
    /\ reconnect' = [reconnect EXCEPT ![c] = @ \/ running[c]]
    /\ UNCHANGED <<poolVars, attempts, running, writer, closing, sending, breaker, failures,
                   routeVars>>

\* disconnect: the tasks are cancelled and awaited, but not the caller of
\* connect_with_retry; then the stream is closed; then all is forgotten.
DisconnectBegins(c) ==
    /\ running' = [running EXCEPT ![c] = FALSE]
    /\ reading' = [reading EXCEPT ![c] = FALSE]
    /\ reconnect' = [reconnect EXCEPT ![c] = FALSE]
    /\ closing' = [closing EXCEPT ![c] = "tasks"]
    /\ UNCHANGED <<attempts, alive, writer, sending, breaker, failures>>

DisconnectCloses(c) ==
    /\ closing[c] = "tasks"
    /\ closing' = [closing EXCEPT ![c] = "streams"]
    /\ writer' = [writer EXCEPT ![c] = IF @ = "open" THEN "closing" ELSE @]
    /\ UNCHANGED <<poolVars, attempts, reconnect, reading, running, alive, sending, breaker,
                   failures, routeVars>>

DisconnectEnds(c) ==
    /\ closing[c] = "streams"
    /\ closing' = [closing EXCEPT ![c] = "no"]
    /\ alive' = [alive EXCEPT ![c] = FALSE]
    /\ writer' = [writer EXCEPT ![c] = "none"]
    /\ UNCHANGED <<poolVars, attempts, reconnect, reading, running, sending, breaker, failures,
                   routeVars>>

\* send: what the breaker lets through waits for the lock and the socket.
\* (A half-open breaker would admit one probe; UpIsClosed says that none is
\* met here.)
AllowRequest(c) == breaker[c] = "closed"

SendBegins(c) ==
    /\ pool = c /\ waiting = NoConn
    /\ IsConnected(c) /\ sending[c] < MaxSends
    /\ AllowRequest(c)
    /\ sending' = [sending EXCEPT ![c] = @ + 1]
    /\ UNCHANGED <<attempts, reconnect, reading, running, alive, writer, closing, breaker,
                   failures>>

SendSucceeds(c) ==
    /\ sending[c] > 0
    /\ sending' = [sending EXCEPT ![c] = @ - 1]
    /\ BreakerSucceeds(c)
    /\ UNCHANGED <<poolVars, attempts, reconnect, reading, running, alive, writer, closing,
                   routeVars>>

SendFails(c) ==
    /\ sending[c] > 0
    /\ sending' = [sending EXCEPT ![c] = @ - 1]
    /\ BreakerFails(c)
    /\ alive' = [alive EXCEPT ![c] = FALSE]
    /\ UNCHANGED <<poolVars, attempts, reconnect, reading, running, writer, closing, routeVars>>

-----------------------------------------------------------------------------
(* FMPConnectionManager and FMPInterface: connect_to, disconnect_from,     *)
(* close and the sends.                                                    *)

MakeConnection(c) ==
    /\ c \notin made
    /\ made' = made \cup {c} /\ pool' = c
    /\ attempts' = [attempts EXCEPT ![c] = ConnTries]
    /\ UNCHANGED <<reconnect, reading, running, alive, writer, closing, sending, breaker,
                   failures>>

\* add_connection where the peer has no connection.
AddConnection(c) ==
    /\ waiting = NoConn /\ pool = NoConn
    /\ MakeConnection(c)
    /\ UNCHANGED <<waiting, routeVars>>

\* add_connection where it has one that is not connected: that one is
\* disconnected first, with the lock of the pool held.
AddReplaces ==
    /\ waiting = NoConn /\ pool # NoConn /\ ~IsConnected(pool) /\ made # Conns
    /\ waiting' = pool
    /\ DisconnectBegins(pool)
    /\ UNCHANGED <<pool, made, routeVars>>

AddContinues(c) ==
    /\ waiting # NoConn /\ closing[waiting] = "no"
    /\ waiting' = NoConn
    /\ MakeConnection(c)
    /\ UNCHANGED routeVars

\* remove_connection and close_all.
RemoveConnection ==
    /\ waiting = NoConn /\ pool # NoConn
    /\ pool' = NoConn
    /\ DisconnectBegins(pool)
    /\ UNCHANGED <<waiting, made, routeVars>>

\* A message outside of any conversation: send_to, a broadcast or a heartbeat.
SendTo(c) == SendBegins(c) /\ UNCHANGED <<poolVars, routeVars>>

-----------------------------------------------------------------------------
(* FMPRouter.                                                              *)

RegisterRound(r) ==
    /\ rounds' = [rounds EXCEPT ![r] = 0]
    /\ UNCHANGED <<poolVars, linkVars, blocked>>

BlockNode ==
    /\ blocked' = ~blocked
    /\ UNCHANGED <<poolVars, linkVars, rounds>>

\* cleanup_stale_rounds, when a message comes or by hand: the conversation
\* is no longer tracked, and no longer limited.
CleanupStaleRound(r) ==
    /\ rounds[r] # Untracked
    /\ rounds' = [rounds EXCEPT ![r] = Untracked]
    /\ UNCHANGED <<poolVars, linkVars, blocked>>

CanNextOffByOne(r) == rounds[r] <= MaxRounds
CanNext(r) == rounds[r] < MaxRounds

\* route: the turn is counted whether or not the peer can be reached.
RouteRound(r) ==
    /\ ~blocked
    /\ rounds[r] # Untracked => CanNext(r)
    /\ rounds' = [rounds EXCEPT ![r] = IF @ = Untracked THEN @ ELSE @ + 1]
    /\ UNCHANGED <<poolVars, blocked>>
    /\ \/ \E c \in Conns : SendBegins(c)
       \/ UNCHANGED linkVars /\ rounds' # rounds

FmpNext ==
    \/ \E c \in Conns :
          \/ AddConnection(c) \/ AddContinues(c)
          \/ ConnectSucceeds(c) \/ ConnectFails(c) \/ ReadLoopEnds(c)
          \/ DisconnectCloses(c) \/ DisconnectEnds(c)
          \/ SendTo(c) \/ SendSucceeds(c) \/ SendFails(c)
          \/ BreakerRecovers(c)
    \/ AddReplaces \/ RemoveConnection
    \/ BlockNode
    \/ \E r \in Rounds : RegisterRound(r) \/ CleanupStaleRound(r) \/ RouteRound(r)

FmpSpec == FmpInit /\ [][FmpNext]_fmpVars

-----------------------------------------------------------------------------
(* What holds of a link.                                                   *)

\* Types; no tracked conversation goes past its last round, however many of
\* its messages are on their way at a time.
FmpTypeOK ==
    /\ pool \in made \cup {NoConn} /\ waiting \in {NoConn, pool} /\ made \subseteq Conns
    /\ attempts \in [Conns -> 0..ConnTries]
    /\ reconnect \in [Conns -> BOOLEAN] /\ reading \in [Conns -> BOOLEAN]
    /\ running \in [Conns -> BOOLEAN] /\ alive \in [Conns -> BOOLEAN]
    /\ writer \in [Conns -> {"none", "open", "closing"}]
    /\ closing \in [Conns -> {"no", "tasks", "streams"}]
    /\ sending \in [Conns -> 0..MaxSends]
    /\ breaker \in [Conns -> {"closed", "open", "half_open"}]
    /\ failures \in [Conns -> 0..Threshold]
    /\ rounds \in [Rounds -> 0..MaxRounds \cup {Untracked}] /\ blocked \in BOOLEAN

\* The breaker of a connection that is up is closed: it never refuses a send
\* that is_connected admits, whatever failed before, since every failure also
\* takes the connection down and every connect resets the breaker.
UpIsClosed == \A c \in Conns : alive[c] => breaker[c] = "closed" /\ failures[c] = 0

\* A connection that is running has a read loop that will notice the end of
\* its stream, or a reconnect task: it is never left for dead.
RunningIsWatched ==
    \A c \in Conns : running[c] => reading[c] \/ reconnect[c]
=============================================================================
