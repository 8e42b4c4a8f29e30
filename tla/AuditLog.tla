------------------------------ MODULE AuditLog ------------------------------
(***************************************************************************)
(* AuditLogger (security/audit_log.py): lines appended to a file, each with*)
(* a sequence number and the hash of the record before it.  A write may    *)
(* fail (the event is lost, the caller goes on), the fields of the chain   *)
(* may fail to be made (the line is written without them), and a crash may *)
(* leave half a line, which spoils the line appended to it.  A restart     *)
(* begins a new chain.  The hash of a record is its number; the key of the *)
(* MAC is one for all processes, or missing for the life of one.           *)
(***************************************************************************)
EXTENDS Naturals, Sequences

CONSTANT MaxEvents      \* events (a bound)

ASSUME AuditAssumption == MaxEvents \in Nat

VARIABLES
    events,     \* events so far
    auditKey,   \* the process has a key: "unknown" until the first event
    auditSeq,   \* _seq
    prevHash,   \* _prev_hash: the last chained record, 0 for none
    lines,      \* lines of the file that can be read
    halfLine,   \* the file ends in half a line
    chained     \* events that had chain fields (history)

auditVars == <<events, auditKey, auditSeq, prevHash, lines, halfLine, chained>>

AuditInit ==
    /\ events = 0 /\ auditKey = "unknown" /\ auditSeq = 0 /\ prevHash = 0
    /\ lines = <<>> /\ halfLine = FALSE /\ chained = {}

\* _ensure_chain_key: asked for once in the life of a process.
EnsureChainKey == auditKey' \in IF auditKey = "unknown" THEN {"yes", "no"} ELSE {auditKey}

\* The chain fields of an event, and what the next one refers to: the chain goes
\* on whether or not the line reaches the file.
NextPrevWritten(written) == IF written THEN events' ELSE prevHash
NextPrev(written) == events'

\* The append: it may fail, or follow half a line and be spoilt by it.
Appended(line, written) ==
    /\ lines' = IF written /\ ~halfLine THEN Append(lines, line) ELSE lines
    /\ halfLine' = (halfLine /\ ~written)

\* log, with chain fields or, when they cannot be made, without; the sequence
\* number has been taken in either case once there is a key.
Log(made, written) ==
    /\ events < MaxEvents
    /\ events' = events + 1
    /\ EnsureChainKey
    /\ made => auditKey' = "yes"
    /\ auditSeq' = IF auditKey' = "yes" THEN auditSeq + 1 ELSE auditSeq
    /\ prevHash' = IF made THEN NextPrev(written) ELSE prevHash
    /\ chained' = IF made THEN chained \cup {events'} ELSE chained
    /\ Appended([id |-> events', seq |-> IF made THEN auditSeq' ELSE 0,
                 prev |-> IF made THEN prevHash ELSE 0], written)

\* A crash, in the middle of an append perhaps (the event is lost, as by a write
\* that failed, and half its line is there); the next process starts at 1.
AuditRestart(torn) ==
    /\ auditKey' = "unknown" /\ auditSeq' = 0 /\ prevHash' = 0
    /\ halfLine' = (halfLine \/ torn)
    /\ UNCHANGED <<events, lines, chained>>

AuditNext == \E b \in BOOLEAN : AuditRestart(b) \/ \E w \in BOOLEAN : Log(b, w)

AuditSpec == AuditInit /\ [][AuditNext]_auditVars

\* read: the lines that parse; line j is the next after line i with chain fields.
ReadsNext(i, j) ==
    /\ i < j /\ lines[i].seq > 0 /\ lines[j].seq > 0
    /\ \A k \in i + 1..j - 1 : lines[k].seq = 0

-----------------------------------------------------------------------------
(* What the chain promises.                                                *)

\* Where one line of the file refers to the line before it, no chained event is
\* missing between them: a lost write, a spoilt line or a restart leaves a gap
\* in the references that a reader sees.
LossIsVisible ==
    \A i, j \in DOMAIN lines :
        ReadsNext(i, j) /\ lines[j].prev = lines[i].id =>
            \A n \in chained : ~(lines[i].id < n /\ n < lines[j].id)
=============================================================================
