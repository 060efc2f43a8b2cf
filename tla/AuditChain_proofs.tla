------------------------- MODULE AuditChain_proofs --------------------------
(***************************************************************************)
(* Proofs about AuditChain, for any number of transactions and inspections *)
(* and any length of the chain.  The invariant says who may be appending:  *)
(* only the holder of the chain lock has events of its own or has read a   *)
(* tail, and what it sees is a chain.                                      *)
(***************************************************************************)
EXTENDS AuditChain, FiniteSetTheorems, TLAPS

-----------------------------------------------------------------------------
(* Data                                                                    *)

\* An event is a record of the set of its number.
LEMMA EventFields ==
    ASSUME NEW e \in Events
    PROVE  /\ e.sequence \in 1..MaxEvents
           /\ e \in Event(e.sequence)
           /\ e.previous \in Digest(e.sequence - 1)
           /\ e.hash \in Digest(e.sequence)
           /\ e.body \in Body
           /\ e = [sequence |-> e.sequence, previous |-> e.previous,
                   body |-> e.body, hash |-> e.hash]
<1>1. PICK n \in 1..MaxEvents : e \in Event(n)
  BY DEF Events
<1>2. e.sequence = n
  BY <1>1 DEF Event
<1> QED
  BY <1>1, <1>2 DEF Event

\* A position is where a chain starts or where an event stands.
LEMMA PositionFields ==
    ASSUME NEW s \in Positions
    PROVE  s.sequence \in 0..MaxEvents /\ s.hash \in Digest(s.sequence)
<1>1. PICK n \in 0..MaxEvents : s \in [sequence : {n}, hash : Digest(n)]
  BY DEF Positions
<1> QED
  BY <1>1

LEMMA UnreadIsNoPosition == Unread \notin Positions
<1> SUFFICES ASSUME Unread \in Positions PROVE FALSE
  OBVIOUS
<1>1. PICK n \in 0..MaxEvents : Unread \in [sequence : {n}, hash : Digest(n)]
  BY DEF Positions
<1>2. PICK h \in Digest(n) : Unread = [sequence |-> n, hash |-> h]
  BY <1>1
<1> QED
  BY <1>2, ChainAssumption

\* What reading the tail of a set of events can return is a position.
LEMMA TailsArePositions ==
    ASSUME NEW R, R \subseteq Events
    PROVE  Tails(R) \subseteq Positions
<1> SUFFICES ASSUME NEW s \in Tails(R) PROVE s \in Positions
  OBVIOUS
<1>1. CASE R = {}
  <2>1. s = [sequence |-> 0, hash |-> Genesis]
    BY <1>1 DEF Tails, Start
  <2>2. s \in [sequence : {0}, hash : Digest(0)] /\ 0 \in 0..MaxEvents
    BY <2>1, ChainAssumption
  <2> QED
    BY <2>2 DEF Positions
<1>2. CASE R # {}
  <2>1. PICK e \in R : s = [sequence |-> e.sequence, hash |-> e.hash]
    BY <1>2 DEF Tails, Position
  <2>2. e.sequence \in 1..MaxEvents /\ e.hash \in Digest(e.sequence)
    BY EventFields
  <2>3. e.sequence \in 0..MaxEvents
    BY <2>2, ChainAssumption
  <2>4. s \in [sequence : {e.sequence}, hash : Digest(e.sequence)]
    BY <2>1, <2>2
  <2> QED
    BY <2>3, <2>4 DEF Positions
<1> QED
  BY <1>1, <1>2

\* The event after a position is an event, as long as the bound allows it.
LEMMA SuccessorIsEvent ==
    ASSUME NEW s \in Positions, NEW b \in Body, s.sequence < MaxEvents
    PROVE  /\ Successor(s, b) \in Events
           /\ Successor(s, b).sequence = s.sequence + 1
<1> DEFINE n == s.sequence + 1
<1>1. s.sequence \in 0..MaxEvents /\ s.hash \in Digest(s.sequence)
  BY PositionFields
<1>2. n \in 1..MaxEvents /\ n - 1 = s.sequence
  BY <1>1, ChainAssumption
<1>3. Hash(n, s.hash, b) \in Digest(n)
  BY <1>1, <1>2, ChainAssumption
<1>4. Successor(s, b) \in Event(n)
  BY <1>1, <1>2, <1>3 DEF Successor, Event
<1> QED
  BY <1>2, <1>4 DEF Events, Successor

-----------------------------------------------------------------------------
(* Chains                                                                  *)

\* The unique index on (chain_key, sequence), as it holds of a set of rows.
Numbered(R) == \A d, e \in R : d.sequence = e.sequence => d = e

IsChain(R) == R \subseteq Events /\ Verified(R) /\ Numbered(R)

\* Append, as long as the tail it has read is the tail, extends a chain.
LEMMA AppendExtends ==
    ASSUME NEW R, IsChain(R), NEW s \in Tails(R), NEW b \in Body,
           s.sequence < MaxEvents
    PROVE  /\ IsChain(R \cup {Successor(s, b)})
           /\ \A e \in R : e.sequence <= s.sequence
<1> DEFINE x == Successor(s, b)
           S == R \cup {x}
<1>1. R \subseteq Events /\ Verified(R) /\ Numbered(R)
  BY DEF IsChain
<1>2. s \in Positions
  BY <1>1, TailsArePositions
<1>3. x \in Events /\ x.sequence = s.sequence + 1
  BY <1>2, SuccessorIsEvent
<1>4. s.sequence \in Nat
  BY <1>2, PositionFields, ChainAssumption
<1>5. \A e \in R : e.sequence \in Nat
  BY <1>1, EventFields, ChainAssumption
<1>6. \A e \in R : e.sequence <= s.sequence
  BY DEF Tails, Position
<1>7. Intact(x, S)
  <2>1. x.previous = s.hash /\ x.hash = Hash(x.sequence, x.previous, x.body)
    BY DEF Successor
  <2>2. CASE R = {}
    BY <2>1, <2>2, <1>3 DEF Tails, Start, Intact
  <2>3. CASE R # {}
    <3>1. PICK e \in R : s = [sequence |-> e.sequence, hash |-> e.hash]
      BY <2>3 DEF Tails, Position
    <3>2. e.sequence \in 1..MaxEvents
      BY <1>1, EventFields
    <3>3. x.sequence # 1 /\ e.sequence = x.sequence - 1 /\ e.hash = x.previous
      BY <3>1, <3>2, <1>3, <2>1, ChainAssumption
    <3> QED
      BY <3>3, <2>1 DEF Intact
  <2> QED
    BY <2>2, <2>3
<1>8. ASSUME NEW e \in R PROVE Intact(e, S)
  BY <1>1, <1>8 DEF Verified, Intact
<1>9. Numbered(S)
  BY <1>1, <1>3, <1>4, <1>5, <1>6 DEF Numbered
<1> QED
  BY <1>1, <1>3, <1>6, <1>7, <1>8, <1>9 DEF IsChain, Verified

-----------------------------------------------------------------------------
(* The invariant                                                           *)

OneHolder == \A t, u \in Txn : Chain \in holds[t] /\ Chain \in holds[u] => t = u

OnlyHolderAppends ==
    \A t \in Txn : Chain \notin holds[t] => pending[t] = {} /\ seen[t] = Unread

SeesChain == \A t \in Txn : IsChain(Visible(t))

SeesTail == \A t \in Txn : seen[t] # Unread => seen[t] \in Tails(Visible(t))

IInv ==
    /\ TypeOK
    /\ OneHolder
    /\ OnlyHolderAppends
    /\ IsChain(rows)
    /\ SeesChain
    /\ SeesTail

\* Scripts are short and made of locks.
LEMMA ScriptFields ==
    ASSUME NEW s \in Scripts \cup {<<>>}
    PROVE  /\ s \in Seq(Lock)
           /\ Len(s) \in 0..5
<1>1. CASE s = <<>>
  BY <1>1
<1>2. CASE s = <<Chain>>
  BY <1>2 DEF Lock
<1>3. ASSUME NEW i \in Inspection,
             s = <<i, Chain>> \/ s = <<Chain, i, Chain>>
               \/ s = <<i, Chain, i, Chain, Chain>>
      PROVE  s \in Seq(Lock) /\ Len(s) \in 0..5
  <2>1. i \in Lock /\ Chain \in Lock
    BY DEF Lock
  <2>2. CASE s = <<i, Chain>>
    BY <2>1, <2>2
  <2>3. CASE s = <<Chain, i, Chain>>
    BY <2>1, <2>3
  <2>4. CASE s = <<i, Chain, i, Chain, Chain>>
    BY <2>1, <2>4
  <2> QED
    BY <1>3, <2>2, <2>3, <2>4
<1>4. s = <<>> \/ s = <<Chain>>
        \/ \E i \in Inspection : s \in {Transition(i), IssueReport(i), FirstUpload(i)}
  BY DEF Scripts, RecordAccess
<1>5. CASE \E i \in Inspection : s \in {Transition(i), IssueReport(i), FirstUpload(i)}
  <2>1. PICK i \in Inspection : s \in {Transition(i), IssueReport(i), FirstUpload(i)}
    BY <1>5
  <2>2. s = <<i, Chain>> \/ s = <<Chain, i, Chain>> \/ s = <<i, Chain, i, Chain, Chain>>
    BY <2>1 DEF Transition, IssueReport, FirstUpload
  <2> QED
    BY <2>2, <1>3
<1> QED
  BY <1>1, <1>2, <1>4, <1>5

\* A transaction at work stands within its script.
LEMMA ScriptProgress ==
    ASSUME TypeOK, NEW t \in Txn, Working(t)
    PROVE  Wanted(t) \in Lock /\ at[t] + 1 \in 1..6
<1> DEFINE s == script[t]
           k == at[t]
<1>1. s \in Scripts \cup {<<>>} /\ k \in 1..6
  BY DEF TypeOK
<1>2. s \in Seq(Lock) /\ Len(s) \in 0..5
  BY <1>1, ScriptFields
<1>3. ~(k > Len(s))
  BY DEF Working, Finished
<1> HIDE DEF s, k
<1>4. k \in 1..Len(s)
  BY <1>1, <1>2, <1>3
<1>5. s[k] \in Lock /\ k + 1 \in 1..6
  BY <1>1, <1>2, <1>4
<1> QED
  BY <1>5 DEF s, k, Wanted

LEMMA InitIInv == Init => IInv
<1> SUFFICES ASSUME Init PROVE IInv
  OBVIOUS
<1>1. IsChain({})
  BY DEF IsChain, Verified, Numbered
<1>2. TypeOK
  BY DEF Init, TypeOK
<1> QED
  BY <1>1, <1>2 DEF Init, IInv, OneHolder, OnlyHolderAppends, SeesChain, SeesTail, Visible

\* The type invariant is inductive with what the chain lock gives Insert.
LEMMA NextTypeOK == IInv /\ [Next]_vars => TypeOK'
<1> SUFFICES ASSUME IInv, [Next]_vars PROVE TypeOK'
  OBVIOUS
<1> USE DEF IInv
<1>1. CASE UNCHANGED vars
  BY <1>1 DEF vars, TypeOK
<1>2. ASSUME NEW t \in Txn, NEW s \in Scripts, Begin(t, s) PROVE TypeOK'
  BY <1>2 DEF Begin, TypeOK
<1>3. ASSUME NEW t \in Txn, Update(t) PROVE TypeOK'
  <2>1. Wanted(t) \in Lock /\ at[t] + 1 \in 1..6
    BY <1>3, ScriptProgress DEF Update
  <2> QED
    BY <1>3, <2>1 DEF Update, TypeOK
<1>4. ASSUME NEW t \in Txn, AcquireChainLock(t) PROVE TypeOK'
  BY <1>4 DEF AcquireChainLock, TypeOK, Lock
<1>5. ASSUME NEW t \in Txn, ReadTail(t) PROVE TypeOK'
  <2>1. Tails(Visible(t)) \subseteq Positions
    BY TailsArePositions DEF TypeOK, Visible
  <2> QED
    BY <1>5, <2>1 DEF ReadTail, TypeOK
<1>6. ASSUME NEW t \in Txn, NEW b \in Body, Insert(t, b) PROVE TypeOK'
  <2>1. at[t] + 1 \in 1..6
    BY <1>6, ScriptProgress DEF Insert
  <2>2. seen[t] \in Positions
    BY <1>6 DEF Insert, TypeOK
  <2>3. Successor(seen[t], b) \in Events
    BY <1>6, <2>2, SuccessorIsEvent DEF Insert
  <2> QED
    BY <1>6, <2>1, <2>3 DEF Insert, TypeOK
<1>7. ASSUME NEW t \in Txn, Commit(t) PROVE TypeOK'
  BY <1>7 DEF Commit, Close, Visible, TypeOK
<1>8. ASSUME NEW t \in Txn, Rollback(t) PROVE TypeOK'
  BY <1>8 DEF Rollback, Close, TypeOK
<1> QED
  BY <1>1, <1>2, <1>3, <1>4, <1>5, <1>6, <1>7, <1>8 DEF Next

\* Ending a transaction that holds the chain leaves nobody appending, and one
\* that does not has nothing to add.
LEMMA OthersAreQuiet ==
    ASSUME IInv, NEW t \in Txn, Chain \in holds[t], NEW u \in Txn \ {t}
    PROVE  Chain \notin holds[u] /\ pending[u] = {} /\ seen[u] = Unread
BY DEF IInv, OneHolder, OnlyHolderAppends

\* What steps that insert and end nothing keep: locks are taken one holder at a
\* time, and a tail is read by the holder.
LEMMA NextIInv == IInv /\ [Next]_vars => IInv'
<1> SUFFICES ASSUME IInv, [Next]_vars PROVE IInv'
  OBVIOUS
<1>0. TypeOK /\ TypeOK'
  BY NextTypeOK DEF IInv
<1>1. CASE UNCHANGED vars
  <2>1. /\ rows' = rows /\ holds' = holds /\ seen' = seen /\ pending' = pending
        /\ \A t \in Txn : Visible(t)' = Visible(t)
    BY <1>1 DEF vars, Visible
  <2> QED
    BY <1>0, <2>1 DEF IInv, OneHolder, OnlyHolderAppends, SeesChain, SeesTail
<1>2. ASSUME NEW t \in Txn, NEW s \in Scripts, Begin(t, s) PROVE IInv'
  BY <1>0, <1>2 DEF Begin, IInv, OneHolder, OnlyHolderAppends, SeesChain, SeesTail,
                    Visible
<1>3. ASSUME NEW t \in Txn, Update(t) PROVE IInv'
  <2>1. \A u \in Txn : Chain \in holds'[u] <=> Chain \in holds[u]
    BY <1>0, <1>3 DEF Update, TypeOK
  <2> QED
    BY <1>0, <1>3, <2>1 DEF Update, IInv, OneHolder, OnlyHolderAppends, SeesChain,
                            SeesTail, Visible
<1>4. ASSUME NEW t \in Txn, AcquireChainLock(t) PROVE IInv'
  <2>1. \A u \in Txn : holds'[u] = IF u = t THEN holds[u] \cup {Chain} ELSE holds[u]
    BY <1>0, <1>4 DEF AcquireChainLock, TypeOK
  <2>2. OneHolder'
    BY <1>4, <2>1 DEF AcquireChainLock, Available, IInv, OneHolder
  <2>3. OnlyHolderAppends'
    BY <1>4, <2>1 DEF AcquireChainLock, IInv, OnlyHolderAppends
  <2> QED
    BY <1>0, <1>4, <2>2, <2>3 DEF AcquireChainLock, IInv, SeesChain, SeesTail, Visible
<1>5. ASSUME NEW t \in Txn, ReadTail(t) PROVE IInv'
  <2>1. PICK s \in Tails(Visible(t)) : seen' = [seen EXCEPT ![t] = s]
    BY <1>5 DEF ReadTail
  <2>2. \A u \in Txn : seen'[u] = IF u = t THEN s ELSE seen[u]
    BY <1>0, <2>1 DEF TypeOK
  <2>3. OnlyHolderAppends'
    BY <1>5, <2>2 DEF ReadTail, IInv, OnlyHolderAppends
  <2>4. SeesTail'
    BY <1>5, <2>2 DEF ReadTail, IInv, SeesTail, Visible
  <2> QED
    BY <1>0, <1>5, <2>3, <2>4 DEF ReadTail, IInv, OneHolder, SeesChain, Visible
<1>6. ASSUME NEW t \in Txn, NEW b \in Body, Insert(t, b) PROVE IInv'
  <2> DEFINE x == Successor(seen[t], b)
  <2>1. /\ Chain \in holds[t]
        /\ seen[t] \in Tails(Visible(t))
        /\ seen[t].sequence < MaxEvents
        /\ IsChain(Visible(t))
    BY <1>6 DEF Insert, IInv, SeesTail, SeesChain
  <2>2. \A u \in Txn : /\ seen'[u] = IF u = t THEN Unread ELSE seen[u]
                       /\ pending'[u] = IF u = t THEN pending[u] \cup {x} ELSE pending[u]
    BY <1>0, <1>6 DEF Insert, TypeOK
  <2>3. rows' = rows /\ holds' = holds
    BY <1>6 DEF Insert
  <2>4. IsChain(Visible(t) \cup {x})
    BY <2>1, AppendExtends
  <2>5. Visible(t)' = Visible(t) \cup {x}
    BY <2>2, <2>3 DEF Visible
  <2>6. \A u \in Txn \ {t} : Visible(u)' = Visible(u) /\ seen'[u] = Unread
    BY <2>1, <2>2, <2>3, OthersAreQuiet DEF Visible
  <2>7. SeesChain'
    BY <2>4, <2>5, <2>6 DEF SeesChain, IInv
  <2>8. SeesTail'
    BY <2>2, <2>6 DEF SeesTail
  <2>9. OnlyHolderAppends'
    BY <2>1, <2>2, <2>3 DEF OnlyHolderAppends, IInv
  <2> QED
    BY <1>0, <2>3, <2>7, <2>8, <2>9 DEF IInv, OneHolder
<1>7. ASSUME NEW t \in Txn, Close(t), rows' \in {rows, Visible(t)} PROVE IInv'
  <2>1. \A u \in Txn : /\ holds'[u] = IF u = t THEN {} ELSE holds[u]
                       /\ seen'[u] = IF u = t THEN Unread ELSE seen[u]
                       /\ pending'[u] = IF u = t THEN {} ELSE pending[u]
    BY <1>0, <1>7 DEF Close, TypeOK
  <2>2. IsChain(rows')
    BY <1>7 DEF IInv, SeesChain
  <2>3. \A u \in Txn \ {t} : \/ rows' = rows
                             \/ pending[u] = {} /\ seen[u] = Unread
    <3>1. CASE Chain \in holds[t]
      BY <3>1, OthersAreQuiet
    <3>2. CASE Chain \notin holds[t]
      BY <1>7, <3>2 DEF IInv, OnlyHolderAppends, Visible
    <3> QED
      BY <3>1, <3>2
  <2>4. \A u \in Txn : \/ Visible(u)' = Visible(u) /\ u # t
                       \/ Visible(u)' = rows' /\ seen'[u] = Unread
    BY <2>1, <2>3 DEF Visible
  <2>5. SeesChain'
    BY <2>2, <2>4 DEF SeesChain, IInv
  <2>6. SeesTail'
    BY <2>1, <2>4 DEF SeesTail, IInv
  <2>7. OneHolder' /\ OnlyHolderAppends'
    BY <2>1 DEF OneHolder, OnlyHolderAppends, IInv
  <2> QED
    BY <1>0, <2>2, <2>5, <2>6, <2>7 DEF IInv
<1>8. ASSUME NEW t \in Txn, Commit(t) \/ Rollback(t) PROVE IInv'
  BY <1>7, <1>8 DEF Commit, Rollback
<1> QED
  BY <1>1, <1>2, <1>3, <1>4, <1>5, <1>6, <1>8 DEF Next

LEMMA SpecIInv == Spec => []IInv
BY InitIInv, NextIInv, PTL DEF Spec

-----------------------------------------------------------------------------
(* Theorems                                                                *)

\* The variables of the audit trail keep their types.
THEOREM TypeCorrect == Spec => []TypeOK
<1>1. IInv => TypeOK
  BY DEF IInv
<1> QED
  BY SpecIInv, <1>1, PTL

\* verify_chain accepts whatever append and the commits of any number of
\* overlapping transactions have left in the table.
THEOREM ChainAlwaysVerified == Spec => []ChainIsVerified
<1>1. IInv => ChainIsVerified
  BY DEF IInv, IsChain, ChainIsVerified
<1> QED
  BY SpecIInv, <1>1, PTL

\* The tail that append has read is still the tail when it inserts, and no
\* other transaction is appending.
THEOREM TailIsHeld == Spec => []SeenTailStaysTheTail
<1>1. ASSUME IInv PROVE SeenTailStaysTheTail
  <2> SUFFICES ASSUME NEW t \in Txn, seen[t] # Unread
               PROVE  /\ seen[t] \in Tails(Visible(t))
                      /\ \A u \in Txn \ {t} : pending[u] = {} /\ seen[u] = Unread
    BY DEF SeenTailStaysTheTail
  <2>1. Chain \in holds[t]
    BY <1>1 DEF IInv, OnlyHolderAppends
  <2> QED
    BY <1>1, <2>1, OthersAreQuiet DEF IInv, SeesTail
<1> QED
  BY SpecIInv, <1>1, PTL

\* A chain from which a row with a successor is removed, or in which it is
\* replaced by any other event of its number, is not verified: what is proved
\* of verify_chain rests on the hash being injective.
LEMMA ChainDetectsTampering ==
    ASSUME NEW R, IsChain(R), NEW e \in R, NEW f \in R, f.sequence = e.sequence + 1
    PROVE  /\ ~Verified(R \ {e})
           /\ \A x \in Event(e.sequence) \ {e} : ~Verified((R \ {e}) \cup {x})
<1>1. /\ e \in Events /\ f \in Events
      /\ Numbered(R) /\ Verified(R)
  BY DEF IsChain
<1>2. /\ e.sequence \in 1..MaxEvents
      /\ e.previous \in Digest(e.sequence - 1)
      /\ e.body \in Body
      /\ e.hash = Hash(e.sequence, e.previous, e.body)
      /\ e = [sequence |-> e.sequence, previous |-> e.previous,
              body |-> e.body, hash |-> e.hash]
  BY <1>1, EventFields DEF Verified, Intact
<1>3. f.sequence # 1 /\ f.sequence - 1 = e.sequence /\ f # e
  BY <1>2, ChainAssumption
<1>4. f.previous = e.hash
  <2>1. PICK d \in R : d.sequence = e.sequence /\ d.hash = f.previous
    BY <1>1, <1>3 DEF Verified, Intact
  <2>2. d = e
    BY <1>1, <2>1 DEF Numbered
  <2> QED
    BY <2>1, <2>2
<1>5. ASSUME NEW S, f \in S, Verified(S),
             \A d \in S : d.sequence = e.sequence => d.hash # e.hash
      PROVE  FALSE
  <2>1. \E d \in S : d.sequence = e.sequence /\ d.hash = f.previous
    BY <1>5, <1>3 DEF Verified, Intact
  <2> QED
    BY <2>1, <1>4, <1>5
<1>6. ~Verified(R \ {e})
  <2>1. \A d \in R \ {e} : d.sequence # e.sequence
    BY <1>1 DEF Numbered
  <2> QED
    BY <2>1, <1>3, <1>5
<1>7. ASSUME NEW x \in Event(e.sequence) \ {e}, Verified((R \ {e}) \cup {x})
      PROVE  FALSE
  <2>1. /\ x.sequence = e.sequence
        /\ x.previous \in Digest(e.sequence - 1)
        /\ x.body \in Body
        /\ x = [sequence |-> x.sequence, previous |-> x.previous,
                body |-> x.body, hash |-> x.hash]
    BY <1>7 DEF Event
  <2>2. x.hash = Hash(e.sequence, x.previous, x.body)
    BY <1>7, <2>1 DEF Verified, Intact
  <2>3. x.hash # e.hash
    <3>1. \A p, q \in Digest(e.sequence - 1), b, c \in Body :
             Hash(e.sequence, p, b) = Hash(e.sequence, q, c) => p = q /\ b = c
      BY <1>2, ChainAssumption
    <3>2. /\ e.previous \in Digest(e.sequence - 1) /\ e.body \in Body
          /\ e.hash = Hash(e.sequence, e.previous, e.body)
      BY <1>2
    <3>3. /\ x.previous \in Digest(e.sequence - 1) /\ x.body \in Body
      BY <2>1
    <3>4. x.hash = e.hash => x.previous = e.previous /\ x.body = e.body
      <4> SUFFICES ASSUME x.hash = e.hash
                   PROVE  x.previous = e.previous /\ x.body = e.body
        OBVIOUS
      <4>1. Hash(e.sequence, x.previous, x.body) = Hash(e.sequence, e.previous, e.body)
        BY <2>2, <3>2
      <4> QED
        BY <3>1, <3>2, <3>3, <4>1
    <3> QED
      BY <1>2, <1>7, <2>1, <3>4
  <2>4. \A d \in (R \ {e}) \cup {x} : d.sequence = e.sequence => d.hash # e.hash
    BY <1>1, <2>3 DEF Numbered
  <2>5. f \in (R \ {e}) \cup {x}
    BY <1>3
  <2> QED
    BY <1>5, <1>7, <2>4, <2>5
<1> QED
  BY <1>6, <1>7

\* In every chain the system can write, removing or replacing a historical row
\* is reported by verify_chain.
THEOREM TamperingAlwaysDetected == Spec => []TamperingIsDetected
<1>1. ASSUME IInv PROVE TamperingIsDetected
  <2> SUFFICES ASSUME NEW e \in rows, Historical(e)
               PROVE  /\ ~Verified(rows \ {e})
                      /\ \A x \in Replacements(e) : ~Verified((rows \ {e}) \cup {x})
    BY DEF TamperingIsDetected
  <2>1. PICK f \in rows : f.sequence = e.sequence + 1
    BY DEF Historical
  <2>2. IsChain(rows)
    BY <1>1 DEF IInv
  <2> QED
    BY <2>1, <2>2, ChainDetectsTampering DEF Replacements
<1> QED
  BY SpecIInv, <1>1, PTL

-----------------------------------------------------------------------------
(* Counting: the committed rows are numbered without a gap, and the events  *)
(* a transaction has inserted continue them, one for each append behind it. *)

Numbers(R) == {e.sequence : e \in R}

\* The appends a transaction has behind it.
Appends(t) == {k \in 1..(at[t] - 1) : script[t][k] = Chain}

WithinScript == \A t \in Txn : at[t] <= Len(script[t]) + 1

RowsCounted == Cardinality(rows) \in Nat /\ Numbers(rows) = 1..Cardinality(rows)

PendingCounted ==
    \A t \in Txn : Numbers(pending[t]) =
        (Cardinality(rows) + 1)..(Cardinality(rows) + Cardinality(Appends(t)))

\* Who has read the tail stands at an append of its script.
AppendUnderWay ==
    \A t \in Txn : seen[t] # Unread => Working(t) /\ Wanted(t) = Chain

Counted == WithinScript /\ RowsCounted /\ PendingCounted /\ AppendUnderWay

\* Rows numbered from 1 to n, each number once, are n rows.
LEMMA GaplessIsCounted ==
    ASSUME NEW R, Numbered(R), NEW n \in Nat, Numbers(R) = 1..n
    PROVE  Cardinality(R) = n
<1> DEFINE f == [k \in 1..n |-> CHOOSE e \in R : e.sequence = k]
<1>1. ASSUME NEW k \in 1..n PROVE f[k] \in R /\ f[k].sequence = k
  <2>1. \E e \in R : e.sequence = k
    BY DEF Numbers
  <2> QED
    BY <2>1
<1>2. f \in [1..n -> R]
  BY <1>1
<1>3. \A k, m \in 1..n : f[k] = f[m] => k = m
  BY <1>1
<1>4. \A e \in R : \E k \in 1..n : f[k] = e
  <2> SUFFICES ASSUME NEW e \in R PROVE \E k \in 1..n : f[k] = e
    OBVIOUS
  <2>1. e.sequence \in 1..n
    BY DEF Numbers
  <2>2. f[e.sequence] = e
    BY <1>1, <2>1 DEF Numbered
  <2> QED
    BY <2>1, <2>2
<1>5. ExistsBijection(1..n, R)
  <2> HIDE DEF f
  <2>1. f \in Bijection(1..n, R)
    BY <1>2, <1>3, <1>4 DEF Bijection, Injection, Surjection, IsInjective
  <2> QED
    BY <2>1 DEF ExistsBijection
<1> QED
  BY <1>5, FS_CountingElements

LEMMA AppendsAreFinite ==
    ASSUME TypeOK, NEW t \in Txn
    PROVE  IsFiniteSet(Appends(t)) /\ Cardinality(Appends(t)) \in Nat
<1>1. at[t] \in 1..6
  BY DEF TypeOK
<1>2. IsFiniteSet(1..(at[t] - 1)) /\ Appends(t) \subseteq 1..(at[t] - 1)
  BY <1>1, FS_Interval DEF Appends
<1> QED
  BY <1>2, FS_Subset, FS_CardinalityType

\* What is seen is numbered to the last append, and the tail is the last of it.
LEMMA TailIsTheLast ==
    ASSUME NEW R, R \subseteq Events, NEW n \in Nat, Numbers(R) = 1..n, NEW s \in Tails(R)
    PROVE  s.sequence = n
<1>1. CASE R = {}
  <2>1. 1..n = {}
    BY <1>1 DEF Numbers
  <2>2. n = 0
    BY <2>1
  <2> QED
    BY <1>1, <2>2 DEF Tails, Start
<1>2. CASE R # {}
  <2>1. PICK e \in R : /\ s = [sequence |-> e.sequence, hash |-> e.hash]
                       /\ \A d \in R : d.sequence <= e.sequence
    BY <1>2 DEF Tails, Position
  <2>2. e.sequence \in 1..n
    BY <2>1 DEF Numbers
  <2>3. \E d \in R : d.sequence = n
    BY <2>2 DEF Numbers
  <2>4. n <= e.sequence
    BY <2>1, <2>3
  <2> QED
    BY <2>1, <2>2, <2>4
<1> QED
  BY <1>1, <1>2

LEMMA VisibleNumbers ==
    ASSUME IInv, Counted, NEW t \in Txn
    PROVE  Numbers(Visible(t)) = 1..(Cardinality(rows) + Cardinality(Appends(t)))
<1>1. Cardinality(Appends(t)) \in Nat /\ Cardinality(rows) \in Nat
  BY AppendsAreFinite DEF IInv, Counted, RowsCounted
<1>2. Numbers(Visible(t)) = Numbers(rows) \cup Numbers(pending[t])
  BY DEF Numbers, Visible
<1>3. /\ Numbers(rows) = 1..Cardinality(rows)
      /\ Numbers(pending[t]) =
            (Cardinality(rows) + 1)..(Cardinality(rows) + Cardinality(Appends(t)))
  BY DEF Counted, RowsCounted, PendingCounted
<1> QED
  BY <1>1, <1>2, <1>3

\* Who holds no chain lock has no append behind it that it has not committed.
LEMMA NothingPending ==
    ASSUME IInv, Counted, NEW t \in Txn, pending[t] = {}
    PROVE  Cardinality(Appends(t)) = 0
<1>1. Cardinality(Appends(t)) \in Nat /\ Cardinality(rows) \in Nat
  BY AppendsAreFinite DEF IInv, Counted, RowsCounted
<1>2. (Cardinality(rows) + 1)..(Cardinality(rows) + Cardinality(Appends(t))) = {}
  BY DEF Counted, PendingCounted, Numbers
<1> QED
  BY <1>1, <1>2

LEMMA InitCounted == Init => Counted
<1> SUFFICES ASSUME Init PROVE Counted
  OBVIOUS
<1>1. Numbers({}) = {} /\ Cardinality({}) = 0 /\ 1..0 = {}
  BY FS_EmptySet DEF Numbers
<1>2. RowsCounted
  BY <1>1 DEF Init, RowsCounted
<1>3. WithinScript
  BY DEF Init, WithinScript
<1>4. ASSUME NEW t \in Txn PROVE Cardinality(Appends(t)) = 0
  <2>1. Appends(t) = {}
    BY DEF Init, Appends
  <2> QED
    BY <2>1, <1>1
<1>5. ASSUME NEW t \in Txn
      PROVE  Numbers(pending[t]) =
                (Cardinality(rows) + 1)..(Cardinality(rows) + Cardinality(Appends(t)))
  <2>1. Cardinality(rows) = 0 /\ Numbers(pending[t]) = {}
    BY <1>1 DEF Init
  <2>2. (0 + 1)..(0 + 0) = {}
    OBVIOUS
  <2> QED
    BY <1>4, <2>1, <2>2
<1>6. AppendUnderWay
  BY DEF Init, AppendUnderWay
<1> QED
  BY <1>2, <1>3, <1>5, <1>6 DEF Counted, PendingCounted

\* A statement that appends nothing leaves the appends behind it as they are.
LEMMA PassesNoAppend ==
    ASSUME TypeOK, NEW t \in Txn, script' = script, at' = [at EXCEPT ![t] = @ + 1],
           Wanted(t) # Chain, NEW u \in Txn
    PROVE  Appends(u)' = Appends(u)
<1>1. at[t] \in 1..6 /\ at[u] \in 1..6
  BY DEF TypeOK
<1>2. at'[u] = IF u = t THEN at[u] + 1 ELSE at[u]
  BY DEF TypeOK
<1>3. CASE u # t
  BY <1>2, <1>3 DEF Appends
<1>4. CASE u = t
  <2>1. Appends(u)' = {k \in 1..at[t] : script[t][k] = Chain}
    BY <1>1, <1>2, <1>4 DEF Appends
  <2>2. script[t][at[t]] # Chain
    BY DEF Wanted
  <2> QED
    BY <1>1, <1>4, <2>1, <2>2 DEF Appends
<1> QED
  BY <1>3, <1>4

\* Insert leaves one more behind it.
LEMMA PassesAnAppend ==
    ASSUME TypeOK, NEW t \in Txn, script' = script, at' = [at EXCEPT ![t] = @ + 1],
           Wanted(t) = Chain
    PROVE  /\ Cardinality(Appends(t)') = Cardinality(Appends(t)) + 1
           /\ \A u \in Txn \ {t} : Appends(u)' = Appends(u)
<1>1. at[t] \in 1..6 /\ at'[t] = at[t] + 1
  BY DEF TypeOK
<1>2. Appends(t)' = Appends(t) \cup {at[t]}
  BY <1>1 DEF Appends, Wanted
<1>3. at[t] \notin Appends(t)
  BY <1>1 DEF Appends
<1>4. Cardinality(Appends(t)') = Cardinality(Appends(t)) + 1
  BY <1>2, <1>3, AppendsAreFinite, FS_AddElement
<1>5. \A u \in Txn \ {t} : at'[u] = at[u]
  BY DEF TypeOK
<1> QED
  BY <1>4, <1>5 DEF Appends

\* The new event has the number that follows.
LEMMA InsertCounts ==
    ASSUME IInv, Counted, NEW t \in Txn, NEW b \in Body, Insert(t, b)
    PROVE  Counted'
<1> DEFINE x == Successor(seen[t], b)
           c == Cardinality(rows)
           a == Cardinality(Appends(t))
<1>1. TypeOK /\ a \in Nat /\ c \in Nat
  BY AppendsAreFinite DEF IInv, Counted, RowsCounted
<1>2. /\ rows' = rows /\ script' = script /\ at' = [at EXCEPT ![t] = @ + 1]
      /\ Wanted(t) = Chain /\ Working(t) /\ seen[t] # Unread
  BY DEF Insert, Counted, AppendUnderWay
<1>3. seen[t].sequence = c + a
  <2>1. Visible(t) \subseteq Events /\ seen[t] \in Tails(Visible(t))
    BY <1>2 DEF IInv, SeesTail, SeesChain, IsChain
  <2>2. Numbers(Visible(t)) = 1..(c + a)
    BY VisibleNumbers
  <2> HIDE DEF c, a
  <2> QED
    BY <1>1, <2>1, <2>2, TailIsTheLast
<1>4. Cardinality(Appends(t)') = a + 1 /\ \A u \in Txn \ {t} : Appends(u)' = Appends(u)
  BY <1>1, <1>2, PassesAnAppend
<1>5. \A u \in Txn : pending'[u] = IF u = t THEN pending[u] \cup {x} ELSE pending[u]
  BY <1>1 DEF Insert, TypeOK
<1>6. Numbers(pending'[t]) = (c + 1)..(c + (a + 1))
  <2>1. x.sequence = c + a + 1
    BY <1>3 DEF Successor
  <2>2. Numbers(pending'[t]) = Numbers(pending[t]) \cup {x.sequence}
    BY <1>5 DEF Numbers
  <2>3. Numbers(pending[t]) = (c + 1)..(c + a)
    BY DEF Counted, PendingCounted
  <2> HIDE DEF c, a, x
  <2> QED
    BY <1>1, <2>1, <2>2, <2>3
<1>7. PendingCounted'
  <2> SUFFICES ASSUME NEW u \in Txn
               PROVE  Numbers(pending'[u]) = (c + 1)..(c + Cardinality(Appends(u)'))
    BY <1>2 DEF PendingCounted
  <2>1. CASE u = t
    BY <1>4, <1>6, <2>1
  <2>2. CASE u # t
    BY <1>4, <1>5, <2>2 DEF Counted, PendingCounted
  <2> QED
    BY <2>1, <2>2
<1>8. WithinScript'
  <2>1. at[t] <= Len(script[t]) /\ at[t] \in 1..6
    <3>1. Len(script[t]) \in 0..5
      BY <1>1, ScriptFields DEF TypeOK
    <3> QED
      BY <1>1, <1>2, <3>1 DEF Working, Finished, TypeOK
  <2>2. Len(script[t]) \in 0..5
    BY <1>1, ScriptFields DEF TypeOK
  <2>3. \A u \in Txn : at'[u] = IF u = t THEN at[u] + 1 ELSE at[u]
    BY <1>1, <1>2 DEF TypeOK
  <2> QED
    BY <1>2, <2>1, <2>2, <2>3 DEF Counted, WithinScript
<1>9. AppendUnderWay'
  <2>1. \A u \in Txn : /\ seen'[u] = IF u = t THEN Unread ELSE seen[u]
                       /\ u # t => at'[u] = at[u]
    BY <1>1, <1>2 DEF Insert, TypeOK
  <2> QED
    BY <1>2, <2>1 DEF Counted, AppendUnderWay, Wanted, Working, Finished, Open
<1> QED
  BY <1>2, <1>7, <1>8, <1>9 DEF Counted, RowsCounted

\* What a commit adds to the rows, and how the rows are numbered then.
LEMMA CommitAdds ==
    ASSUME IInv, Counted, NEW t \in Txn, rows' = Visible(t)
    PROVE  /\ Cardinality(rows') = Cardinality(rows) + Cardinality(Appends(t))
           /\ Numbers(rows') = 1..Cardinality(rows')
           /\ rows \subseteq rows'
           /\ Numbers(rows' \ rows) =
                (Cardinality(rows) + 1)..(Cardinality(rows) + Cardinality(Appends(t)))
<1> DEFINE c == Cardinality(rows)
           a == Cardinality(Appends(t))
<1>1. a \in Nat /\ c \in Nat /\ c + a \in Nat
  BY AppendsAreFinite DEF IInv, Counted, RowsCounted
<1>2. Numbers(rows') = 1..(c + a)
  BY VisibleNumbers
<1>3. Cardinality(rows') = c + a
  <2>1. Numbered(rows')
    BY DEF IInv, SeesChain, IsChain
  <2> HIDE DEF c, a
  <2> QED
    BY <1>1, <1>2, <2>1, GaplessIsCounted
<1>4. Numbers(pending[t]) = (c + 1)..(c + a) /\ Numbers(rows) = 1..c
  BY DEF Counted, PendingCounted, RowsCounted
<1>5. rows' \ rows = pending[t]
  <2>1. ASSUME NEW e \in pending[t] PROVE e \notin rows
    <3>1. e.sequence \in (c + 1)..(c + a) /\ (e \in rows => e.sequence \in 1..c)
      BY <1>4 DEF Numbers
    <3> HIDE DEF c, a
    <3> QED
      BY <1>1, <3>1
  <2> QED
    BY <2>1 DEF Visible
<1> QED
  BY <1>2, <1>3, <1>4, <1>5 DEF Visible

\* Where a transaction ends, the others have what they had: if rows were added
\* it held the chain lock, and they have nothing.
LEMMA EndCounts ==
    ASSUME IInv, Counted, NEW t \in Txn, Close(t), rows' \in {rows, Visible(t)}
    PROVE  Counted'
<1> DEFINE c == Cardinality(rows)
<1>1. TypeOK
  BY DEF IInv
<1>2. \A u \in Txn : /\ at'[u] = IF u = t THEN 1 ELSE at[u]
                     /\ script'[u] = IF u = t THEN <<>> ELSE script[u]
                     /\ pending'[u] = IF u = t THEN {} ELSE pending[u]
  BY <1>1 DEF Close, TypeOK
<1>3. \A u \in Txn \ {t} : Appends(u)' = Appends(u)
  BY <1>2 DEF Appends
<1>4. Appends(t)' = {} /\ Cardinality(Appends(t)') = 0
  <2>1. at'[t] = 1 /\ 1..(1 - 1) = {}
    BY <1>2
  <2>2. Appends(t)' = {k \in 1..(at'[t] - 1) : script'[t][k] = Chain}
    BY DEF Appends
  <2>3. Appends(t)' = {}
    BY <2>1, <2>2
  <2> QED
    BY <2>3, FS_EmptySet
<1>5. WithinScript'
  <2> SUFFICES ASSUME NEW u \in Txn PROVE at'[u] <= Len(script'[u]) + 1
    BY DEF WithinScript
  <2> QED
    BY <1>2 DEF Counted, WithinScript
<1>6. RowsCounted'
  <2>1. CASE rows' = rows
    BY <2>1 DEF Counted, RowsCounted
  <2>2. CASE rows' = Visible(t)
    <3>1. Cardinality(rows) \in Nat /\ Cardinality(Appends(t)) \in Nat
      BY <1>1, AppendsAreFinite DEF Counted, RowsCounted
    <3> QED
      BY <2>2, <3>1, CommitAdds DEF RowsCounted
  <2> QED
    BY <2>1, <2>2
<1>7. PendingCounted'
  <2> SUFFICES ASSUME NEW u \in Txn
               PROVE  Numbers(pending'[u]) = (Cardinality(rows') + 1)..
                                 (Cardinality(rows') + Cardinality(Appends(u)'))
    BY DEF PendingCounted
  <2>0. Cardinality(rows') \in Nat
    BY <1>6 DEF RowsCounted
  <2>1. CASE u = t \/ pending[u] = {}
    <3>1. pending'[u] = {}
      BY <1>2, <2>1
    <3>2. Cardinality(Appends(u)') = 0
      <4>1. CASE u = t
        BY <1>4, <4>1
      <4>2. CASE u # t
        BY <1>3, <2>1, <4>2, NothingPending
      <4> QED
        BY <4>1, <4>2
    <3>3. Numbers({}) = {}
      BY DEF Numbers
    <3>4. ASSUME NEW n \in Nat PROVE (n + 1)..(n + 0) = {}
      BY <3>4
    <3> QED
      BY <2>0, <3>1, <3>2, <3>3, <3>4
  <2>2. CASE u # t /\ pending[u] # {}
    <3>1. rows' = rows
      <4>1. Chain \notin holds[t]
        BY <2>2, OthersAreQuiet
      <4> QED
        BY <4>1 DEF IInv, OnlyHolderAppends, Visible
    <3> QED
      BY <1>2, <1>3, <2>2, <3>1 DEF Counted, PendingCounted
  <2> QED
    BY <2>1, <2>2
<1>8. AppendUnderWay'
  <2>1. \A u \in Txn : seen'[u] = IF u = t THEN Unread ELSE seen[u]
    BY <1>1 DEF Close, TypeOK
  <2> QED
    BY <1>2, <2>1 DEF Counted, AppendUnderWay, Wanted, Working, Finished, Open
<1> QED
  BY <1>5, <1>6, <1>7, <1>8 DEF Counted

LEMMA NextCounted == IInv /\ Counted /\ [Next]_vars => Counted'
<1> SUFFICES ASSUME IInv, Counted, [Next]_vars PROVE Counted'
  OBVIOUS
<1>0. TypeOK
  BY DEF IInv
<1>1. ASSUME UNCHANGED <<rows, script, at, pending>>, AppendUnderWay' PROVE Counted'
  BY <1>1 DEF Counted, WithinScript, RowsCounted, PendingCounted, Appends
<1>2. ASSUME NEW t \in Txn, NEW s \in Scripts, Begin(t, s) PROVE Counted'
  <2>1. /\ rows' = rows /\ at' = at /\ pending' = pending /\ script[t] = <<>>
        /\ \A u \in Txn : script'[u] = IF u = t THEN s ELSE script[u]
    BY <1>0, <1>2 DEF Begin, Open, TypeOK
  <2>2. Len(s) \in 0..5
    BY ScriptFields
  <2>3. at[t] = 1
    BY <1>0, <2>1 DEF Counted, WithinScript, TypeOK
  <2>4. \A u \in Txn : Appends(u)' = Appends(u)
    BY <2>1, <2>3 DEF Appends
  <2>5. WithinScript'
    <3> SUFFICES ASSUME NEW u \in Txn PROVE at'[u] <= Len(script'[u]) + 1
      BY DEF WithinScript
    <3> QED
      BY <2>1, <2>2, <2>3 DEF Counted, WithinScript
  <2>6. AppendUnderWay'
    <3>1. seen' = seen /\ ~Working(t)
      BY <1>2 DEF Begin, Working
    <3> QED
      BY <2>1, <3>1 DEF Counted, AppendUnderWay, Wanted, Working, Finished, Open
  <2> QED
    BY <2>1, <2>4, <2>5, <2>6 DEF Counted, RowsCounted, PendingCounted
<1>3. ASSUME NEW t \in Txn, Update(t) PROVE Counted'
  <2>1. /\ rows' = rows /\ script' = script /\ pending' = pending
        /\ at' = [at EXCEPT ![t] = @ + 1] /\ Wanted(t) # Chain /\ Working(t)
    BY <1>3 DEF Update
  <2>2. \A u \in Txn : Appends(u)' = Appends(u)
    BY <1>0, <2>1, PassesNoAppend
  <2>3. WithinScript'
    <3>1. at[t] \in 1..6 /\ Len(script[t]) \in 0..5 /\ at[t] <= Len(script[t])
      <4>1. at[t] \in 1..6 /\ Len(script[t]) \in 0..5
        BY <1>0, ScriptFields DEF TypeOK
      <4> QED
        BY <2>1, <4>1 DEF Working, Finished
    <3>2. \A u \in Txn : at'[u] = IF u = t THEN at[u] + 1 ELSE at[u]
      BY <1>0, <2>1 DEF TypeOK
    <3> QED
      BY <2>1, <3>1, <3>2 DEF Counted, WithinScript
  <2>4. AppendUnderWay'
    <3>1. seen' = seen /\ \A u \in Txn \ {t} : at'[u] = at[u]
      BY <1>0, <1>3 DEF Update, TypeOK
    <3> QED
      BY <2>1, <3>1 DEF Counted, AppendUnderWay, Wanted, Working, Finished, Open
  <2> QED
    BY <2>1, <2>2, <2>3, <2>4 DEF Counted, RowsCounted, PendingCounted
<1>4. ASSUME NEW t \in Txn, AcquireChainLock(t) \/ ReadTail(t) PROVE Counted'
  <2>1. /\ UNCHANGED <<rows, script, at, pending>> /\ Working(t) /\ Wanted(t) = Chain
        /\ \A u \in Txn \ {t} : seen'[u] = seen[u]
    BY <1>0, <1>4 DEF AcquireChainLock, ReadTail, TypeOK
  <2>2. AppendUnderWay'
    BY <2>1 DEF Counted, AppendUnderWay, Wanted, Working, Finished, Open
  <2> QED
    BY <1>1, <2>1, <2>2
<1>5. ASSUME NEW t \in Txn, NEW b \in Body, Insert(t, b) PROVE Counted'
  BY <1>5, InsertCounts
<1>6. ASSUME NEW t \in Txn, Commit(t) \/ Rollback(t) PROVE Counted'
  BY <1>6, EndCounts DEF Commit, Rollback
<1>7. CASE UNCHANGED vars
  <2>1. AppendUnderWay'
    BY <1>7 DEF vars, Counted, AppendUnderWay, Wanted, Working, Finished, Open
  <2> QED
    BY <1>1, <1>7, <2>1 DEF vars
<1> QED
  BY <1>2, <1>3, <1>4, <1>5, <1>6, <1>7 DEF Next

\* The events of a transaction enter the chain in one step, its commit, behind
\* the rows that are there and one for each append of its script, whichever
\* transactions overlap and however many roll back.
THEOREM OnlyWholeTransactionsEnter == Spec => TransactionsEnterWhole
<1>1. ASSUME IInv, Counted, [Next]_vars, rows' # rows
      PROVE  \E t \in Txn :
                LET n == Cardinality({k \in 1..Len(script[t]) : script[t][k] = Chain})
                IN  /\ rows \subseteq rows'
                    /\ {e.sequence : e \in rows' \ rows} =
                          (Cardinality(rows) + 1)..(Cardinality(rows) + n)
                    /\ Finished(t) /\ ~Open(t)'
  <2>1. PICK t \in Txn : Commit(t)
    BY <1>1 DEF Next, vars, Begin, Update, AcquireChainLock, ReadTail, Insert, Rollback
  <2>2. Finished(t) /\ rows' = Visible(t) /\ Close(t) /\ TypeOK
    BY <1>1, <2>1 DEF Commit, IInv
  <2>3. ~Open(t)'
    BY <2>2 DEF Close, Open, TypeOK
  <2>4. at[t] - 1 = Len(script[t])
    <3>1. at[t] \in 1..6 /\ Len(script[t]) \in 0..5
      BY <2>2, ScriptFields DEF TypeOK
    <3> QED
      BY <1>1, <2>2, <3>1 DEF Finished, Counted, WithinScript
  <2>5. Appends(t) = {k \in 1..Len(script[t]) : script[t][k] = Chain}
    BY <2>4 DEF Appends
  <2> QED
    BY <1>1, <2>2, <2>3, <2>5, CommitAdds DEF Numbers
<1>2. IInv /\ Counted /\ [Next]_vars =>
        [rows' # rows =>
          \E t \in Txn :
              LET n == Cardinality({k \in 1..Len(script[t]) : script[t][k] = Chain})
              IN  /\ rows \subseteq rows'
                  /\ {e.sequence : e \in rows' \ rows} =
                        (Cardinality(rows) + 1)..(Cardinality(rows) + n)
                  /\ Finished(t) /\ ~Open(t)']_vars
  BY <1>1
<1> QED
  BY SpecIInv, InitCounted, NextCounted, <1>2, PTL DEF Spec, TransactionsEnterWhole
=============================================================================
