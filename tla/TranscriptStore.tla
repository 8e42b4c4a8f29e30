-------------------------- MODULE TranscriptStore --------------------------
(***************************************************************************)
(* ClusterSessionStore (storage/session_store.py): the transcripts of      *)
(* sessions, one JSON file each, that any node may fetch from the master,  *)
(* continue and write back through /api/v1/session-store                   *)
(* (server/master_server.py).                                              *)
(*                                                                         *)
(* A request is one step of the event loop, but the master may die in the  *)
(* middle of it: after some of the bytes of the temporary file of a put or *)
(* a fork, between the file and its os.replace, or before the answer.  A   *)
(* transcript is the sequence of its messages; a torn file is one that     *)
(* cannot be parsed.  Nothing keeps a node from writing back a transcript  *)
(* that has been continued elsewhere since it was fetched: the last write  *)
(* wins.                                                                   *)
(***************************************************************************)
EXTENDS Naturals, Sequences

CONSTANTS Transcripts,  \* session ids of the store
          Clients,      \* nodes that continue sessions
          MaxMessages   \* length of a transcript (a bound)

ASSUME TranscriptAssumption == MaxMessages \in Nat

VARIABLES shelf,      \* <session>.json: "absent", "torn", or messages
          scratch,    \* <session>.json.tmp: likewise
          held,       \* what a client has fetched, and may continue
          answered,   \* the last write of a session the master has answered (history)
          attempted   \* puts and deletes since then that were made and never answered (history)

transcriptVars == <<shelf, scratch, held, answered, attempted>>

NoTranscript == [is |-> "absent", messages |-> <<>>]
TornFile == [is |-> "torn", messages |-> <<>>]
Saved(ms) == [is |-> "whole", messages |-> ms]

TranscriptInit ==
    /\ shelf = [s \in Transcripts |-> NoTranscript]
    /\ scratch = [s \in Transcripts |-> NoTranscript]
    /\ held = [c \in Clients |-> <<>>]
    /\ answered = [s \in Transcripts |-> NoTranscript]
    /\ attempted = [s \in Transcripts |-> {}]

\* get_session: a file that cannot be read is answered like one that is not there.
Readable(s) == shelf[s].is = "whole"

FetchTranscript(c, s) ==
    /\ Readable(s)
    /\ held' = [held EXCEPT ![c] = shelf[s].messages]
    /\ UNCHANGED <<shelf, scratch, answered, attempted>>

ContinueTranscript(c) ==
    /\ Len(held[c]) < MaxMessages
    /\ held' = [held EXCEPT ![c] = Append(@, c)]
    /\ UNCHANGED <<shelf, scratch, answered, attempted>>

\* put_session that runs to its end: temporary file, os.replace, answer.
PutTranscript(s, ms) ==
    /\ scratch' = [scratch EXCEPT ![s] = NoTranscript]
    /\ shelf' = [shelf EXCEPT ![s] = Saved(ms)]
    /\ answered' = [answered EXCEPT ![s] = Saved(ms)]
    /\ attempted' = [attempted EXCEPT ![s] = {}]

StorePut(c, s) == PutTranscript(s, held[c]) /\ UNCHANGED held

\* The master dies in put_session: the temporary file is torn, or whole, or in
\* place and there is no answer.  The next master finds the same directory.
LostPutInPlace(s, ms) == \E left \in {TornFile, Saved(ms)} :
    /\ shelf' = [shelf EXCEPT ![s] = left]
    /\ attempted' = [attempted EXCEPT ![s] = @ \cup {Saved(ms)}]
    /\ UNCHANGED <<scratch, answered>>
LostPut(s, ms) ==
    /\ \/ \E left \in {TornFile, Saved(ms)} :
             scratch' = [scratch EXCEPT ![s] = left] /\ UNCHANGED <<shelf, attempted>>
       \/ /\ shelf' = [shelf EXCEPT ![s] = Saved(ms)]
          /\ scratch' = [scratch EXCEPT ![s] = NoTranscript]
          /\ attempted' = [attempted EXCEPT ![s] = @ \cup {Saved(ms)}]
    /\ UNCHANGED answered

DieInPut(c, s) == LostPut(s, held[c]) /\ UNCHANGED held

\* delete_session.
StoreDelete(s) ==
    /\ shelf[s].is # "absent"
    /\ shelf' = [shelf EXCEPT ![s] = NoTranscript]
    /\ answered' = [answered EXCEPT ![s] = NoTranscript]
    /\ attempted' = [attempted EXCEPT ![s] = {}]
    /\ UNCHANGED <<scratch, held>>

\* The master dies after the unlink of delete_session, before its answer.
DieInDelete(s) ==
    /\ shelf[s].is # "absent"
    /\ shelf' = [shelf EXCEPT ![s] = NoTranscript]
    /\ attempted' = [attempted EXCEPT ![s] = @ \cup {NoTranscript}]
    /\ UNCHANGED <<scratch, held, answered>>

\* fork_session: a copy under an id made of the clock, which may be taken; the
\* master may die in its put_session.
StoreFork(s, t) ==
    /\ Readable(s)
    /\ PutTranscript(t, shelf[s].messages)
    /\ UNCHANGED held

DieInFork(s, t) ==
    /\ Readable(s)
    /\ LostPut(t, shelf[s].messages)
    /\ UNCHANGED held

TranscriptNext ==
    \/ \E c \in Clients :
          \/ ContinueTranscript(c)
          \/ \E s \in Transcripts : FetchTranscript(c, s) \/ StorePut(c, s) \/ DieInPut(c, s)
    \/ \E s \in Transcripts :
          \/ StoreDelete(s) \/ DieInDelete(s)
          \/ \E t \in Transcripts : StoreFork(s, t) \/ DieInFork(s, t)

TranscriptSpec == TranscriptInit /\ [][TranscriptNext]_transcriptVars

\* A crash never costs a session what it had: the file holds the transcript of
\* the last put, fork or delete that was answered, or of a later one whose client
\* never got an answer, and in full (session_store.py: "atomic tmp+replace").
AnsweredTranscriptKept ==
    \A s \in Transcripts : shelf[s] \in {answered[s]} \cup attempted[s]
=============================================================================
