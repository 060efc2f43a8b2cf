-------------------------- MODULE MCRuleGovernance --------------------------
(* RuleGovernance for TLC.                                                  *)
EXTENDS RuleGovernance, TLC

\* Without an end from the first day, and the second day alone.
Windows == {<<1, None>>, <<2, 2>>}

\* The first version is edited; the second goes its way as it was created.
Edits == <<1, 0>>

Symmetric == Permutations(Request)
=============================================================================
