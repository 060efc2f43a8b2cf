---------------------------- MODULE StarterRules ----------------------------
(***************************************************************************)
(* The rule set a new workspace is seeded with, and the scenarios shipped  *)
(* with every rule (api/app/services/rules/seed.py).  A rule is in force   *)
(* from day 1 on, for every commodity and package; titles, citations and   *)
(* notes are left out.  Prices are in paise, heights in tenths of a        *)
(* millimetre.                                                             *)
(***************************************************************************)
EXTENDS RuleEngine

\* The types of declaration the set is about.
Declared == {"manufacturer", "packer", "importer", "common_generic_name", "net_quantity",
             "mrp", "unit_sale_price", "date_of_manufacture", "date_of_packing",
             "date_of_import", "consumer_care_email", "consumer_care_phone",
             "consumer_care_name", "country_of_origin"}

Text == [kind |-> "text"]

Weight(unit, base) == [unit |-> unit, base |-> base, dimension |-> "weight"]

Paise(amount) == [num |-> amount, den |-> 1]

DateWith(precision) == [precision |-> precision, ambiguous |-> FALSE]

\* Canonical units the rule about units allows, by dimension.
PermittedUnits == [weight |-> {"g", "kg"}, volume |-> {"ml", "l"}, length |-> {"cm", "m"},
                   count |-> {"unit", "pcs"}]

\* Phrases one of which must surround the retail sale price.
PriceWording == {"inclusive of all taxes", "incl. of all taxes", "incl of all taxes",
                 "maximum retail price", "mrp"}

\* "None" is none of the values that are set.
ASSUME ShippedAssumption ==
    /\ None # Text /\ None \notin Int
    /\ None \notin [unit : {"g", "kg", "tonne"}, base : Nat, dimension : {"weight"}]
    /\ None \notin [num : Int, den : {1}]
    /\ None \notin [precision : {"year", "month"}, ambiguous : {FALSE}]
    /\ None \notin [observed : Nat, uncertainty : Nat]
    /\ \A dimension \in DOMAIN PermittedUnits : None # PermittedUnits[dimension]
    /\ \A phrases \in SUBSET PriceWording : None # phrases

-----------------------------------------------------------------------------
(* A rule, and its scenarios by what a scenario sets                       *)

StarterRule(test, parameters, required, imported) ==
    [from |-> 1, to |-> None, commodities |-> {}, packages |-> {}, kind |-> None,
     min |-> None, max |-> None, imported |-> imported, ecommerce |-> None,
     multipiece |-> None, exceptions |-> {}, test |-> test, parameters |-> parameters,
     required |-> required]

\* The context of a shipped scenario, which is dated as the rule takes effect.
ShippedContext(imported) ==
    [day |-> 1, commodity |-> None, package |-> None, kind |-> None, quantity |-> None,
     imported |-> imported, ecommerce |-> FALSE, multipiece |-> FALSE, exceptions |-> {}]

Scenario(kind, expected, values, complete) ==
    [kind |-> kind, expected |-> expected, context |-> ShippedContext(FALSE),
     payload |-> [values |-> [d \in Declared |-> IF d \in DOMAIN values THEN values[d] ELSE None],
                  labelOnly |-> {}, complete |-> complete, imported |-> FALSE,
                  heights |-> [d \in Declared |-> None], wording |-> None]]

NoValues == [d \in {} |-> None]

Good(values) == Scenario("compliant", "compliant", values, TRUE)
Bad(values)  == Scenario("non_compliant", "non_compliant", values, TRUE)
NotPhotographed ==
    Scenario("missing_evidence", "additional_evidence_required", NoValues, FALSE)
Unread(values) == Scenario("missing_evidence", "unable_to_determine", values, TRUE)

PresenceScenarios(declaration, present) ==
    {Good([d \in {declaration} |-> present]), Bad(NoValues), NotPhotographed}

Shipped(rule, scenarios) == [rule |-> rule, scenarios |-> scenarios]

-----------------------------------------------------------------------------
(* The rules                                                               *)

Presence(declaration, present) ==
    Shipped(StarterRule("declaration_present", [declaration |-> declaration], {}, None),
            PresenceScenarios(declaration, present))

ResponsibleParty ==
    Shipped(StarterRule("any_declaration_present",
                        [declarations |-> {"manufacturer", "packer", "importer"}], {}, None),
            {Good([manufacturer |-> Text]), Good([packer |-> Text]), Bad(NoValues),
             NotPhotographed})

CommonName == Presence("common_generic_name", Text)

NetQuantity == Presence("net_quantity", Weight("kg", 1000))

NetQuantityUnits ==
    Shipped(StarterRule("net_quantity_unit_permitted",
                        [permitted |-> PermittedUnits],
                        {"net_quantity"}, None),
            {Good([net_quantity |-> Weight("g", 500)]),
             Bad([net_quantity |-> Weight("tonne", 2000000)]),
             Unread(NoValues)})

DateMarking ==
    Shipped(StarterRule("date_marking_completeness",
                        [accepted |-> <<"date_of_manufacture", "date_of_packing",
                                        "date_of_import">>,
                         precision |-> "month"], {}, None),
            {Good([date_of_manufacture |-> DateWith("month")]),
             Bad([date_of_packing |-> DateWith("year")]),
             Bad(NoValues), NotPhotographed})

RetailSalePrice == Presence("mrp", 5800)

\* What is read around the price, or None.
Surrounded(scenario, wording) == [scenario EXCEPT !.payload.wording = wording]

RetailPriceWording ==
    Shipped(StarterRule("retail_price_wording",
                        [phrases |-> PriceWording], {"mrp"}, None),
            {Surrounded(Good([mrp |-> 5800]), {"incl. of all taxes"}),
             Surrounded(Bad([mrp |-> 5800]), {}),
             Unread([mrp |-> 5800])})

ConsumerCare ==
    Shipped(StarterRule("consumer_care_completeness",
                        [accepted |-> {"consumer_care_email", "consumer_care_phone",
                                       "consumer_care_name"}], {}, None),
            {Good([consumer_care_email |-> Text]), Bad(NoValues), NotPhotographed})

Imported(scenario) ==
    [scenario EXCEPT !.context = ShippedContext(TRUE), !.payload.imported = TRUE]

CountryOfOriginImported ==
    Shipped(StarterRule("country_of_origin_required", NoValues, {}, TRUE),
            {Imported(Good([country_of_origin |-> Text])), Imported(Bad(NoValues)),
             Imported(NotPhotographed)})

\* A mutant of PerUnits: the reference quantity is one base unit.
PerUnit == 1

PerUnits == 100

UnitSalePriceConsistency ==
    Shipped(StarterRule("unit_sale_price_consistency",
                        [per |-> PerUnits, tolerance |-> 1, skipForCount |-> TRUE],
                        {"mrp", "net_quantity"}, None),
            {Good([mrp |-> 4500, net_quantity |-> Weight("g", 250),
                   unit_sale_price |-> Paise(1800)]),
             Bad([mrp |-> 4500, net_quantity |-> Weight("g", 250),
                  unit_sale_price |-> Paise(1500)]),
             Unread([mrp |-> 4500])})

Measured(scenario, observed) ==
    [scenario EXCEPT !.payload.heights["net_quantity"] =
        [observed |-> observed, uncertainty |-> 2]]

CharHeightNetQuantity ==
    Shipped(StarterRule("character_height_minimum",
                        [declaration |-> "net_quantity", minimum |-> 10, uncertainty |-> 2],
                        {}, None),
            {Measured(Good(NoValues), 16), Measured(Bad(NoValues), 5),
             Scenario("missing_evidence", "additional_evidence_required", NoValues, TRUE)})

SeedRules ==
    {ResponsibleParty, CommonName, NetQuantity, NetQuantityUnits, DateMarking,
     RetailSalePrice, RetailPriceWording, ConsumerCare, CountryOfOriginImported,
     UnitSalePriceConsistency, CharHeightNetQuantity}

-----------------------------------------------------------------------------
(* What approval asks of the set (required_kinds_for)                      *)

MandatoryKinds == {"compliant", "non_compliant", "missing_evidence", "not_yet_effective"}

StarterKinds(rule) ==
    MandatoryKinds
      \cup (IF rule.min # None \/ rule.max # None
            THEN {"boundary_exact", "boundary_below", "boundary_above"} ELSE {})
      \cup (IF rule.to # None THEN {"expired"} ELSE {})
      \cup (IF rule.exceptions # {} THEN {"exception_applies"} ELSE {})

\* default_scenarios: the day before the rule takes effect.
NotYetEffective(rule) ==
    [kind |-> "not_yet_effective", expected |-> ScopeExcluded,
     context |-> DefaultContext(rule, rule.from - 1), payload |-> NotPhotographed.payload]

ShippedTrials(shipped) == shipped.scenarios \cup {NotYetEffective(shipped.rule)}
=============================================================================
