----------------------------- MODULE RuleChecks -----------------------------
(***************************************************************************)
(* The deterministic checks (api/app/services/rules/checks.py): pure       *)
(* functions of the parameters p of a rule version and a payload, what the *)
(* engine gives them (CheckInput):                                         *)
(*   values     what the reviewed readings say, by type of declaration     *)
(*   labelOnly  the declarations whose label was seen without a value      *)
(*   complete   every required face was captured or accounted for          *)
(*   imported   the product record says so                                 *)
(*   heights    measured character heights, by type of declaration         *)
(*   wording    the phrases read around the price, or None                 *)
(* Amounts of money are in paise, quantities and heights in multiples of   *)
(* their smallest step.  A printed amount may be finer than a paisa: a     *)
(* fraction of one, [num, den].  Quotients are exact, where Decimal keeps   *)
(* 28 digits.  Explanations and displays are left out.                     *)
(***************************************************************************)
EXTENDS Integers

CONSTANT None  \* nothing declared, measured or read

LegalOutcome == {"compliant", "non_compliant", "unable_to_determine",
                 "additional_evidence_required", "not_applicable"}

Has(payload, declaration) == payload.values[declaration] # None

LabelOnly(payload, declaration) == declaration \in payload.labelOnly

-----------------------------------------------------------------------------
(* Presence                                                                *)

\* What the checks say of a declaration that was not found.
NotFound(payload, accepted) ==
    IF \E d \in accepted : LabelOnly(payload, d) THEN "unable_to_determine"
    ELSE IF ~payload.complete THEN "additional_evidence_required"
    ELSE "non_compliant"

CheckDeclarationPresent(p, payload) ==
    IF Has(payload, p.declaration) THEN "compliant"
    ELSE NotFound(payload, {p.declaration})

CheckAnyDeclarationPresent(p, payload) ==
    IF \E d \in p.declarations : Has(payload, d) THEN "compliant"
    ELSE NotFound(payload, p.declarations)

CheckConsumerCare(p, payload) ==
    IF \E d \in p.accepted : Has(payload, d) THEN "compliant"
    ELSE NotFound(payload, p.accepted)

\* A label that was seen is not asked for.
CheckCountryOfOrigin(payload) ==
    IF ~payload.imported THEN "not_applicable"
    ELSE IF Has(payload, "country_of_origin") THEN "compliant"
    ELSE IF ~payload.complete THEN "additional_evidence_required"
    ELSE "non_compliant"

-----------------------------------------------------------------------------
(* Prices                                                                  *)

Distance(a, b) == IF a <= b THEN b - a ELSE a - b

\* num / den to the nearest integer, a half upwards (quantise_paise).
HalfUp(num, den) == (2 * num + den) \div (2 * den)

\* A mutant of UnitSalePrice: the price of one base unit is rounded too.
RoundedTwice(price, quantity, per) == HalfUp(price, quantity) * per

\* unit_sale_price: the price of p.per base units, rounded once, to paise.
UnitSalePrice(price, quantity, per) == HalfUp(price * per, quantity)

\* Where no unit price is printed, the faces are not asked for.
CheckUnitSalePrice(p, payload) ==
    LET mrp      == payload.values["mrp"]
        quantity == payload.values["net_quantity"]
        printed  == payload.values["unit_sale_price"]
        Expected == UnitSalePrice(mrp, quantity.base, p.per)
    IN  IF mrp = None \/ quantity = None \/ quantity.base <= 0
        THEN "unable_to_determine"
        ELSE IF quantity.dimension = "count" /\ p.skipForCount THEN "not_applicable"
        ELSE IF printed = None
        THEN IF LabelOnly(payload, "unit_sale_price") THEN "unable_to_determine"
             ELSE "non_compliant"
        ELSE IF Distance(HalfUp(printed.num, printed.den), Expected) <= p.tolerance
        THEN "compliant"
        ELSE "non_compliant"

CheckRetailPriceWording(p, payload) ==
    IF ~Has(payload, "mrp") \/ payload.wording = None THEN "unable_to_determine"
    ELSE IF p.phrases \cap payload.wording # {} THEN "compliant"
    ELSE "non_compliant"

-----------------------------------------------------------------------------
(* Quantities, dates and heights                                           *)

\* p.permitted gives the canonical units of a dimension, None where the rule
\* lists none; both sides were normalised.
CheckNetQuantityUnit(p, payload) ==
    LET quantity == payload.values["net_quantity"] IN
    IF quantity = None THEN "unable_to_determine"
    ELSE IF p.permitted[quantity.dimension] = None THEN "not_applicable"
    ELSE IF quantity.unit \in p.permitted[quantity.dimension] THEN "compliant"
    ELSE "non_compliant"

PrecisionRank == [year |-> 1, month |-> 2, day |-> 3]

\* The first of the accepted declarations, in order, that has a value.
FirstFound(accepted, payload) ==
    CHOOSE i \in DOMAIN accepted :
        /\ Has(payload, accepted[i])
        /\ \A j \in DOMAIN accepted : j < i => ~Has(payload, accepted[j])

CheckDateMarking(p, payload) ==
    LET found == payload.values[p.accepted[FirstFound(p.accepted, payload)]] IN
    IF \A i \in DOMAIN p.accepted : ~Has(payload, p.accepted[i])
    THEN NotFound(payload, {p.accepted[i] : i \in DOMAIN p.accepted})
    ELSE IF found.ambiguous THEN "unable_to_determine"
    ELSE IF PrecisionRank[found.precision] >= PrecisionRank[p.precision] THEN "compliant"
    ELSE "non_compliant"

\* A measured height decides only where its whole band lies on one side.
HeightOutcome(minimum, observed, uncertainty) ==
    IF observed - uncertainty >= minimum THEN "compliant"
    ELSE IF observed + uncertainty < minimum THEN "non_compliant"
    ELSE "unable_to_determine"

CheckCharacterHeight(p, payload) ==
    LET measured == payload.heights[p.declaration] IN
    IF measured = None THEN "additional_evidence_required"
    ELSE HeightOutcome(p.minimum, measured.observed,
             IF measured.uncertainty = None THEN p.uncertainty ELSE measured.uncertainty)

-----------------------------------------------------------------------------
CheckKind == {"declaration_present", "any_declaration_present",
              "unit_sale_price_consistency", "net_quantity_unit_permitted",
              "date_marking_completeness", "country_of_origin_required",
              "consumer_care_completeness", "character_height_minimum",
              "retail_price_wording"}

\* A rule version may name a test this version of the program does not have.
RunCheck(kind, p, payload) ==
    CASE kind = "declaration_present"         -> CheckDeclarationPresent(p, payload)
      [] kind = "any_declaration_present"     -> CheckAnyDeclarationPresent(p, payload)
      [] kind = "unit_sale_price_consistency" -> CheckUnitSalePrice(p, payload)
      [] kind = "net_quantity_unit_permitted" -> CheckNetQuantityUnit(p, payload)
      [] kind = "date_marking_completeness"   -> CheckDateMarking(p, payload)
      [] kind = "country_of_origin_required"  -> CheckCountryOfOrigin(payload)
      [] kind = "consumer_care_completeness"  -> CheckConsumerCare(p, payload)
      [] kind = "character_height_minimum"    -> CheckCharacterHeight(p, payload)
      [] kind = "retail_price_wording"        -> CheckRetailPriceWording(p, payload)
      [] OTHER -> "unable_to_determine"
=============================================================================
