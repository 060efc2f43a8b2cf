-------------------------- MODULE InspectionMachine --------------------------
(***************************************************************************)
(* What every component promises about the state of one inspection: it     *)
(* starts as a draft and moves along the edges that domain/states.py       *)
(* declares, whoever moves it.  The modules of the components that write   *)
(* inspections.state are checked to implement this specification.          *)
(***************************************************************************)

\* The 13 states and the 23 pairs of INSPECTION_MACHINE.
InspectionState ==
    {"draft", "evidence_pending", "processing", "officer_review",
     "additional_evidence_required", "reviewer_review",
     "compliant", "violation_found", "unable_to_determine",
     "report_issued", "case_opened", "closed", "archived"}

DecidedState == {"compliant", "violation_found", "unable_to_determine"}

FrozenState == {"report_issued", "case_opened", "closed", "archived"}

Edge ==
    {<<"draft", "evidence_pending">>,
     <<"evidence_pending", "processing">>,
     <<"processing", "officer_review">>,
     <<"processing", "evidence_pending">>,
     <<"officer_review", "evidence_pending">>,
     <<"officer_review", "additional_evidence_required">>,
     <<"officer_review", "reviewer_review">>,
     <<"additional_evidence_required", "evidence_pending">>,
     <<"reviewer_review", "officer_review">>,
     <<"reviewer_review", "additional_evidence_required">>,
     <<"report_issued", "case_opened">>,
     <<"report_issued", "closed">>,
     <<"case_opened", "closed">>,
     <<"closed", "archived">>}
    \cup {<<"reviewer_review", d>> : d \in DecidedState}
    \cup {<<d, "reviewer_review">> : d \in DecidedState}
    \cup {<<d, "report_issued">> : d \in DecidedState}

VARIABLE state  \* inspections.state

Init == state = "draft"

Move == \E target \in InspectionState :
            /\ <<state, target>> \in Edge
            /\ state' = target

\* store_evidence takes two edges in one transaction when the first file
\* reaches a draft.
SubmitDraft == state = "draft" /\ state' = "processing"

Next == Move \/ SubmitDraft

Spec == Init /\ [][Next]_state
=============================================================================
