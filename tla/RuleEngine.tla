----------------------------- MODULE RuleEngine -----------------------------
(***************************************************************************)
(* How reviewed evidence reaches the checks and what is made of their      *)
(* outcomes (api/app/services/rules/engine.py), and the scenarios on which *)
(* a rule version is tried before it is approved (simulator.py).  A rule   *)
(* has, beside the fields selection reads, its test, the parameters of the *)
(* test and the required inputs.  Quantities are multiples of 0.001, the   *)
(* step of the generated scenarios.                                        *)
(***************************************************************************)
EXTENDS RuleChecks

INSTANCE RuleSelection

-----------------------------------------------------------------------------
(* What the engine reads (build_check_input)                               *)

\* A mutant of Supports: a reading the officer refused counts as well.
SupportsUnlessPending(c) == c.review # "pending"

\* A reading under review, refused or set aside supports no conclusion.
Supports(c) == c.review \notin {"pending", "rejected", "not_applicable"}

\* Of the readings of one declaration that have a value, the most confident is
\* used.  The rows come in no order: of equals, the last one.
Best(candidates) ==
    {c \in candidates : \A other \in candidates : other.confidence <= c.confidence}

\* The values a declaration may have for the checks.
PossibleValues(declaration, candidates) ==
    LET read == {c \in candidates :
                    Supports(c) /\ c.declaration = declaration /\ c.value # None}
    IN  IF read = {} THEN {None} ELSE {c.value : c \in Best(read)}

\* A label was seen and nothing read next to it.
LabelSeen(candidates) ==
    {c.declaration : c \in {d \in candidates :
        /\ Supports(d)
        /\ d.value = None
        /\ d.machine \in {"unreadable", "ambiguous", "processing_failed"}}}

\* No required face is to be captured yet.
EvidenceComplete(faces) ==
    \A face \in DOMAIN faces : faces[face] \notin {"required", "additional_image_required"}

-----------------------------------------------------------------------------
(* What the engine makes of a check (evaluate_inspection)                  *)

\* A violation that rests on an input which is missing stands only where the
\* input is known to be absent.
Settled(outcome, required, payload) ==
    LET missing == {d \in required : ~Has(payload, d)} IN
    IF /\ outcome = "non_compliant"
       /\ missing # {}
       /\ ~payload.complete \/ \E d \in missing : LabelOnly(payload, d)
    THEN "unable_to_determine"
    ELSE outcome

FindingOutcome(rule, payload) ==
    Settled(RunCheck(rule.test, rule.parameters, payload), rule.required, payload)

-----------------------------------------------------------------------------
(* The simulator                                                           *)

ScopeExcluded == "not_applicable_by_scope"

\* run_scenario: the status of the version is not looked at, and what the
\* engine makes of missing inputs is not repeated.
ScenarioOutcome(rule, scenario) ==
    IF AppliesWhateverStatus(rule, scenario.context)
    THEN RunCheck(rule.test, rule.parameters, scenario.payload)
    ELSE ScopeExcluded

Passed(rule, scenario) == ScenarioOutcome(rule, scenario) = scenario.expected

\* A quantity inside the band, for the scenarios about dates.
InBandQuantity(rule) ==
    IF rule.min # None THEN rule.min
    ELSE IF rule.max # None THEN rule.max \div 2
    ELSE None

FirstOf(scope) == IF scope = {} THEN None ELSE CHOOSE item \in scope : TRUE

Flag(column) == column # None /\ column

\* What the generated scenarios have in common.
DefaultContext(rule, day) ==
    [day |-> day, commodity |-> FirstOf(rule.commodities), package |-> FirstOf(rule.packages),
     kind |-> rule.kind, quantity |-> InBandQuantity(rule),
     imported |-> Flag(rule.imported), ecommerce |-> Flag(rule.ecommerce),
     multipiece |-> Flag(rule.multipiece), exceptions |-> {}]

\* The days default_scenarios tries: each must be excluded.
DaysOutside(rule) ==
    {rule.from - 1} \cup IF rule.to = None THEN {} ELSE {rule.to + 1}

\* The scenario for the recorded exceptions has the flags unset.
ExceptionContext(rule) ==
    [DefaultContext(rule, rule.from) EXCEPT
        !.imported = FALSE, !.ecommerce = FALSE, !.multipiece = FALSE,
        !.exceptions = {FirstOf(rule.exceptions)}]

At(template, quantity, expected) ==
    [template EXCEPT !.context.quantity = quantity, !.expected = expected]

\* The quantities at and next to the bounds of the band, with a template that
\* passes inside.
BoundaryScenarios(rule, template) ==
    (IF rule.min = None THEN {}
     ELSE {At(template, rule.min, template.expected),
           At(template, rule.min - 1, ScopeExcluded)})
    \cup
    (IF rule.max = None THEN {}
     ELSE {At(template, rule.max - 1, template.expected),
           At(template, rule.max, ScopeExcluded)})
=============================================================================
