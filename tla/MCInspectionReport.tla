------------------------- MODULE MCInspectionReport -------------------------
(* InspectionReport for TLC.                                                *)
EXTENDS InspectionReport, TLC

Symmetric == Permutations(Request) \cup Permutations(Verdict)
=============================================================================
