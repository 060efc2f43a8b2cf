---------------------------- MODULE RuleLifecycle ----------------------------
(***************************************************************************)
(* What rule governance promises about every rule version, whoever edits   *)
(* and moves it: its content changes while it is open only, it takes       *)
(* effect once, from a review, and when its effect has ended it is over.   *)
(***************************************************************************)
CONSTANTS
    Version,  \* the rule versions
    Content   \* what a version may say

VARIABLES
    phase,    \* where each version stands
    content   \* what it says

Phase == {"absent", "open", "review", "effective", "retired"}

Init ==
    /\ phase = [v \in Version |-> "absent"]
    /\ content \in [Version -> Content]

Enter(v, from, to) ==
    /\ phase[v] = from
    /\ phase' = [phase EXCEPT ![v] = to]

Write(v) ==
    /\ content'[v] \in Content
    /\ content' = [content EXCEPT ![v] = content'[v]]

Create(v) == Enter(v, "absent", "open") /\ Write(v)

Revise(v) == phase[v] = "open" /\ UNCHANGED phase /\ Write(v)

Submit(v) == Enter(v, "open", "review") /\ UNCHANGED content

Return(v) == Enter(v, "review", "open") /\ UNCHANGED content

Approve(v) == Enter(v, "review", "effective") /\ UNCHANGED content

\* Several versions at once: one that takes effect may end others.
Retire(ended) ==
    /\ \A v \in ended : phase[v] = "effective"
    /\ phase' = [v \in Version |-> IF v \in ended THEN "retired" ELSE phase[v]]
    /\ UNCHANGED content

Next ==
    \/ \E v \in Version : Create(v) \/ Revise(v) \/ Submit(v) \/ Return(v) \/ Approve(v)
    \/ \E ended \in SUBSET Version : Retire(ended)

Spec == Init /\ [][Next]_<<phase, content>>
=============================================================================
