----------------------------- MODULE AuditChain -----------------------------
(***************************************************************************)
(* The audit trail: table audit_events, each row of which carries the hash *)
(* of its predecessor (api/app/services/audit.py), written by the database *)
(* transactions of the handlers that record what they did.                 *)
(*                                                                         *)
(* A transaction is a script of locks: a row it updates, which PostgreSQL  *)
(* locks until the transaction ends, or the chain, where it appends an     *)
(* event.  Append is three statements: take the advisory lock, read the    *)
(* tail, insert.  Statements of different transactions interleave; at READ *)
(* COMMITTED each sees the committed rows and those of its own             *)
(* transaction.  One chain is modelled: chain_key is always "global".      *)
(***************************************************************************)
EXTENDS Naturals, Sequences, FiniteSets

CONSTANTS
    Txn,           \* transactions that may be open together
    Inspection,    \* inspection rows
    Chain,         \* the key of the advisory lock
    Body,          \* what an event says: the hashed fields but for the links
    Digest(_),     \* Digest(n): the hashes an event number n can have
    Hash(_, _, _), \* canonical_sha256 of sequence, previous_hash and body
    Genesis,       \* GENESIS_HASH
    Unread,        \* no tail has been read
    MaxEvents      \* bound on the length of the chain

\* SHA-256 is taken to be injective on what is hashed.
ASSUME ChainAssumption ==
    /\ MaxEvents \in Nat
    /\ Chain \notin Inspection
    /\ Digest(0) = {Genesis}
    /\ \A n \in 1..MaxEvents : \A p, q \in Digest(n - 1), b, c \in Body :
          /\ Hash(n, p, b) \in Digest(n)
          /\ Hash(n, p, b) = Hash(n, q, c) => p = q /\ b = c
    /\ \A n \in 0..MaxEvents : \A h \in Digest(n) :
          [sequence |-> n, hash |-> h] # Unread

VARIABLES
    rows,     \* the committed rows of audit_events
    script,   \* what each open transaction locks, in order; empty when not open
    at,       \* how far it has come
    holds,    \* the locks it holds
    seen,     \* the tail an append in progress has read
    pending   \* the events it has inserted and not committed

vars == <<rows, script, at, holds, seen, pending>>

-----------------------------------------------------------------------------
Lock == Inspection \cup {Chain}

\* transition: the flush of the new state, then its event.
Transition(i) == <<i, Chain>>

\* The issue of a report: its event comes first, then the inspection moves.
IssueReport(i) == <<Chain, i, Chain>>

\* The first upload: draft to evidence_pending to processing, then its event.
FirstUpload(i) == <<i, Chain, i, Chain, Chain>>

\* A download or a public verification: the event only.
RecordAccess == <<Chain>>

Scripts ==
    {Transition(i) : i \in Inspection} \cup {IssueReport(i) : i \in Inspection}
        \cup {FirstUpload(i) : i \in Inspection} \cup {RecordAccess}

Event(n) == [sequence : {n}, previous : Digest(n - 1), body : Body, hash : Digest(n)]

Events == UNION {Event(n) : n \in 1..MaxEvents}

Position(e) == [sequence |-> e.sequence, hash |-> e.hash]

Start == [sequence |-> 0, hash |-> Genesis]

Positions == UNION {[sequence : {n}, hash : Digest(n)] : n \in 0..MaxEvents}

TypeOK ==
    /\ rows \subseteq Events
    /\ script \in [Txn -> Scripts \cup {<<>>}]
    /\ at \in [Txn -> 1..6]
    /\ holds \in [Txn -> SUBSET Lock]
    /\ seen \in [Txn -> Positions \cup {Unread}]
    /\ pending \in [Txn -> SUBSET Events]

Open(t) == script[t] # <<>>

Finished(t) == Open(t) /\ at[t] > Len(script[t])

\* The lock the next statement of t needs.
Wanted(t) == script[t][at[t]]

Working(t) == Open(t) /\ ~Finished(t)

Available(l, t) == \A u \in Txn \ {t} : l \notin holds[u]

\* The rows a statement of t sees.
Visible(t) == rows \cup pending[t]

Init ==
    /\ rows = {}
    /\ script = [t \in Txn |-> <<>>]
    /\ at = [t \in Txn |-> 1]
    /\ holds = [t \in Txn |-> {}]
    /\ seen = [t \in Txn |-> Unread]
    /\ pending = [t \in Txn |-> {}]

-----------------------------------------------------------------------------
(* Statements                                                              *)

Begin(t, s) ==
    /\ ~Open(t)
    /\ script' = [script EXCEPT ![t] = s]
    /\ UNCHANGED <<rows, at, holds, seen, pending>>

\* An UPDATE takes the lock of its row.
Update(t) ==
    /\ Working(t)
    /\ Wanted(t) # Chain
    /\ Available(Wanted(t), t)
    /\ holds' = [holds EXCEPT ![t] = @ \cup {Wanted(t)}]
    /\ at' = [at EXCEPT ![t] = @ + 1]
    /\ UNCHANGED <<rows, script, seen, pending>>

\* _acquire_chain_lock: pg_advisory_xact_lock, which a transaction may take
\* again and keeps until it ends.
AcquireChainLock(t) ==
    /\ Working(t)
    /\ Wanted(t) = Chain
    /\ Chain \notin holds[t]
    /\ Available(Chain, t)
    /\ holds' = [holds EXCEPT ![t] = @ \cup {Chain}]
    /\ UNCHANGED <<rows, script, at, seen, pending>>

\* The last row by sequence, or where a chain starts.
Tails(R) ==
    IF R = {}
    THEN {Start}
    ELSE {Position(e) : e \in {x \in R : \A d \in R : d.sequence <= x.sequence}}

\* A mutant of ReadTail: the tail is read whether or not the lock is held.
ReadTailUnlocked(t) ==
    /\ Working(t)
    /\ Wanted(t) = Chain
    /\ seen[t] = Unread
    /\ \E s \in Tails(Visible(t)) : seen' = [seen EXCEPT ![t] = s]
    /\ UNCHANGED <<rows, script, at, holds, pending>>

ReadTail(t) ==
    /\ Working(t)
    /\ Wanted(t) = Chain
    /\ Chain \in holds[t]
    /\ seen[t] = Unread
    /\ \E s \in Tails(Visible(t)) : seen' = [seen EXCEPT ![t] = s]
    /\ UNCHANGED <<rows, script, at, holds, pending>>

\* A mutant of Successor: linked to where the chain starts.
SuccessorOfStart(s, b) ==
    [sequence |-> s.sequence + 1,
     previous |-> Genesis,
     body     |-> b,
     hash     |-> Hash(s.sequence + 1, Genesis, b)]

\* The event that follows position s.
Successor(s, b) ==
    [sequence |-> s.sequence + 1,
     previous |-> s.hash,
     body     |-> b,
     hash     |-> Hash(s.sequence + 1, s.hash, b)]

\* The unique index on (chain_key, sequence).  A statement waits for the
\* transaction that holds the number, and fails if it is committed.
NumberIsFree(n, t) ==
    /\ \A e \in Visible(t) : e.sequence # n
    /\ \A u \in Txn \ {t} : \A e \in pending[u] : e.sequence # n

\* A mutant of Insert: each event is committed by itself.
InsertAndCommit(t, b) ==
    /\ Working(t)
    /\ seen[t] # Unread
    /\ Chain \in holds[t]
    /\ seen[t].sequence < MaxEvents
    /\ NumberIsFree(seen[t].sequence + 1, t)
    /\ rows' = rows \cup {Successor(seen[t], b)}
    /\ seen' = [seen EXCEPT ![t] = Unread]
    /\ at' = [at EXCEPT ![t] = @ + 1]
    /\ UNCHANGED <<script, holds, pending>>

\* The flush of the new event.
Insert(t, b) ==
    /\ Working(t)
    /\ seen[t] # Unread
    /\ Chain \in holds[t]
    /\ seen[t].sequence < MaxEvents
    /\ NumberIsFree(seen[t].sequence + 1, t)
    /\ pending' = [pending EXCEPT ![t] = @ \cup {Successor(seen[t], b)}]
    /\ seen' = [seen EXCEPT ![t] = Unread]
    /\ at' = [at EXCEPT ![t] = @ + 1]
    /\ UNCHANGED <<rows, script, holds>>

\* The transaction ends: its locks are released.
Close(t) ==
    /\ script' = [script EXCEPT ![t] = <<>>]
    /\ at' = [at EXCEPT ![t] = 1]
    /\ holds' = [holds EXCEPT ![t] = {}]
    /\ seen' = [seen EXCEPT ![t] = Unread]
    /\ pending' = [pending EXCEPT ![t] = {}]

Commit(t) ==
    /\ Finished(t)
    /\ rows' = Visible(t)
    /\ Close(t)

\* Any statement may fail, the request may be dropped, a stale version or the
\* deadlock detector may end the transaction: get_db rolls it back.
Rollback(t) ==
    /\ Open(t)
    /\ Close(t)
    /\ UNCHANGED rows

Next ==
    \E t \in Txn :
        \/ \E s \in Scripts : Begin(t, s)
        \/ Update(t)
        \/ AcquireChainLock(t)
        \/ ReadTail(t)
        \/ \E b \in Body : Insert(t, b)
        \/ Commit(t)
        \/ Rollback(t)

Spec == Init /\ [][Next]_vars

-----------------------------------------------------------------------------
(* verify_chain                                                            *)

\* A mutant of Intact: the links are not compared.
IntactWithoutLinks(e, R) ==
    /\ e.sequence = 1 \/ \E d \in R : d.sequence = e.sequence - 1
    /\ e.hash = Hash(e.sequence, e.previous, e.body)

\* What the loop over the rows by sequence requires of row e: the number, the
\* link and the hash.
Intact(e, R) ==
    /\ IF e.sequence = 1
       THEN e.previous = Genesis
       ELSE \E d \in R : d.sequence = e.sequence - 1 /\ d.hash = e.previous
    /\ e.hash = Hash(e.sequence, e.previous, e.body)

Verified(R) == \A e \in R : Intact(e, R)

-----------------------------------------------------------------------------
(* Properties                                                              *)

\* verify_chain never reports a chain that only append has written: whichever
\* transactions interleave and roll back, the committed rows have no gap, no
\* fork and no wrong link (audit.py:7-9).
ChainIsVerified == Verified(rows)

\* From the moment append has read the tail until it inserts, the tail stays
\* the tail: no other transaction has an uncommitted event, and none commits
\* one.  So the unique index never has to refuse an event.
SeenTailStaysTheTail ==
    \A t \in Txn : seen[t] # Unread =>
        /\ seen[t] \in Tails(Visible(t))
        /\ \A u \in Txn \ {t} : pending[u] = {} /\ seen[u] = Unread

\* A transaction's events enter the chain together, behind all that are there,
\* one for each append of its script: an action is never recorded without the
\* change it records, nor a change without its record.
TransactionsEnterWhole ==
    [][rows' # rows =>
          \E t \in Txn :
              LET n == Cardinality({k \in 1..Len(script[t]) : script[t][k] = Chain})
              IN  /\ rows \subseteq rows'
                  /\ {e.sequence : e \in rows' \ rows} =
                        (Cardinality(rows) + 1)..(Cardinality(rows) + n)
                  /\ Finished(t) /\ ~Open(t)']_vars

\* What audit.py:5 promises: a historical row, one that has a successor, can be
\* neither removed nor replaced without verify_chain reporting it, even if the
\* hash of the replacement is recomputed.
Historical(e) == \E f \in rows : f.sequence = e.sequence + 1

Replacements(e) == Event(e.sequence) \ {e}

TamperingIsDetected ==
    \A e \in rows : Historical(e) =>
        /\ ~Verified(rows \ {e})
        /\ \A x \in Replacements(e) : ~Verified((rows \ {e}) \cup {x})
=============================================================================
