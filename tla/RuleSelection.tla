---------------------------- MODULE RuleSelection ----------------------------
(***************************************************************************)
(* Which rule versions apply to an inspection                              *)
(* (api/app/services/rules/selection.py): pure tests of one version, a     *)
(* record, against a context, the facts about the inspected package, and   *)
(* the choice among the versions of one code that apply.  Dates are days   *)
(* and quantities multiples of the smallest step (0.001), both naturals.   *)
(***************************************************************************)
EXTENDS Naturals

CONSTANT None  \* an optional column or fact that is not set

EffectiveStatus == {"approved", "active"}

StatusAllows(rule) == rule.status \in EffectiveStatus

\* Against the inspection date; both ends are inside.
InForce(rule, day) ==
    /\ rule.from <= day
    /\ rule.to # None => day <= rule.to

\* An empty scope takes everything.
InScope(rule, context) ==
    /\ rule.commodities # {} => context.commodity \in rule.commodities
    /\ rule.packages # {} => context.package \in rule.packages

\* A mutant of InBand: both bounds are inside.
InClosedBand(rule, context) ==
    /\ rule.kind # None => context.kind = rule.kind
    /\ rule.min # None \/ rule.max # None => context.quantity # None
    /\ rule.min # None => rule.min <= context.quantity
    /\ rule.max # None => context.quantity <= rule.max

\* The lower bound is inside and the upper bound outside.
InBand(rule, context) ==
    /\ rule.kind # None => context.kind = rule.kind
    /\ rule.min # None \/ rule.max # None => context.quantity # None
    /\ rule.min # None => rule.min <= context.quantity
    /\ rule.max # None => context.quantity < rule.max

MatchesFlags(rule, context) ==
    \A flag \in {"imported", "ecommerce", "multipiece"} :
        rule[flag] # None => rule[flag] = context[flag]

NotExcepted(rule, context) == rule.exceptions \cap context.exceptions = {}

\* evaluate: the simulator leaves the status out.
AppliesWhateverStatus(rule, context) ==
    /\ InForce(rule, context.day)
    /\ InScope(rule, context)
    /\ InBand(rule, context)
    /\ MatchesFlags(rule, context)
    /\ NotExcepted(rule, context)

Applies(rule, context) ==
    StatusAllows(rule) /\ AppliesWhateverStatus(rule, context)

\* The order in which select prefers the versions of one code.
Before(rule, other) ==
    \/ other.from < rule.from
    \/ other.from = rule.from /\ other.version < rule.version

\* The versions that stand out of a set of applicable ones.
Preferred(applicable) ==
    {rule \in applicable :
        \A other \in applicable \ {rule} : other.code = rule.code => Before(rule, other)}

Select(candidates, context) ==
    Preferred({rule \in candidates : Applies(rule, context)})
=============================================================================
