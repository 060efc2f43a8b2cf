------------------------------- MODULE Matters -------------------------------
(***************************************************************************)
(* A matter from the public's complaint to the case: complaints, the       *)
(* inspections opened from them, the products inspected, and the cases on  *)
(* an inspection once its report is issued.  The components share the rows *)
(* of the inspections only, each other columns of them.                    *)
(***************************************************************************)
EXTENDS Complaints, CaseFile, Products

Init == ComplaintInit /\ CaseInit /\ ProductInit

\* Somebody opened the inspection that the cases are about.
Inspected == \E i \in Inspection : opened[i] # Absent

Next ==
    \/ ComplaintNext /\ UNCHANGED <<caseVars, productVars>>
    \/ Inspected /\ CaseNext /\ UNCHANGED <<complaintVars, productVars>>
    \/ ProductNext /\ UNCHANGED <<complaintVars, caseVars>>

Spec == Init /\ [][Next]_<<complaintVars, caseVars, productVars>>
=============================================================================
