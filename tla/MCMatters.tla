------------------------------ MODULE MCMatters ------------------------------
(* Matters for TLC: one complaint, two inspections, two cases, two notices, *)
(* three products and two requests of each kind.                            *)
EXTENDS Matters, TLC

CONSTANTS k1, k2, n1, n2, r1, r2, p1, p2, p3

Symmetry == Permutations({k1, k2}) \cup Permutations({n1, n2}) \cup Permutations({r1, r2})
              \cup Permutations({p1, p2, p3})

\* The components write no common variable, so that their interleavings show
\* nothing that each alone does not: one at a time goes on, the products before
\* the complaint and the cases where its conversion left it.
ComplaintRests ==
    /\ handling = [o \in Officer |-> Idle]
    /\ \A c \in Complaint :
          complaint[c] = [state |-> "inspection_created", assigned |-> TRUE]
    /\ {i \in Inspection : opened[i] # Absent} = {CHOOSE i \in Inspection : TRUE}

CasesRest ==
    /\ inspection = "report_issued" /\ reported
    /\ case = [c \in Case |-> None]
    /\ req = [r \in Clerk |-> Idle]

ProductsRest == ProductInit

Apart ==
    \/ CasesRest /\ ProductsRest
    \/ ComplaintRests /\ ProductsRest
    \/ CasesRest /\ ComplaintInit
=============================================================================
