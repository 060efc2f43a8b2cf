---------------------------- MODULE MCAuditChain ----------------------------
(* AuditChain for TLC: a hash is the tuple of what it is computed from.     *)
EXTENDS AuditChain, TLC

TupleHash(n, p, b) == <<n, p, b>>

\* The hash of the events up to n, for every choice of their bodies.
TupleDigest(n) ==
    LET Level[k \in 0..MaxEvents] ==
            IF k = 0 THEN {Genesis}
            ELSE {TupleHash(k, p, b) : p \in Level[k - 1], b \in Body}
    IN  Level[n]

Symmetric == Permutations(Txn) \cup Permutations(Inspection)
=============================================================================
