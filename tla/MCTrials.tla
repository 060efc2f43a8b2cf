------------------------------ MODULE MCTrials ------------------------------
(***************************************************************************)
(* Codes of up to three symbols; after what is printed either nothing or   *)
(* every label of a type; the other trials as in MCRuleTrial.              *)
(***************************************************************************)
EXTENDS Trials, MCRuleTrial

Territories == UNION {[1..n -> {"a", "A", Separator, Blank}] : n \in 0..3}

LabelsInARow ==
    {<< >>} \cup {FoldSet(LAMBDA label, labels : Append(labels, label), << >>, Labels[type]) :
                      type \in Type}
=============================================================================
