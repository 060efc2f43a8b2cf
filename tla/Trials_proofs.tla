--------------------------- MODULE Trials_proofs ----------------------------
(***************************************************************************)
(* Proofs about the trials: for each kind of input a lemma about what the  *)
(* calculation makes of it (PriceHolds, BandHolds, EvidenceHolds,          *)
(* UnitHolds, DateHolds, CodeHolds, ScopeHolds, StarterHolds, PageHolds,   *)
(* and DeleteKeeps for rows that are deleted one after the other), and at  *)
(* the end the invariant that what is tried was drawn, from which the      *)
(* theorems follow.                                                        *)
(***************************************************************************)
EXTENDS Trials, FiniteSetTheorems, SequenceTheorems, TLAPS

-----------------------------------------------------------------------------
(* Prices                                                                  *)

LEMMA Division ==
    ASSUME NEW a \in Int, NEW q \in Nat, q > 0
    PROVE  /\ a \div q \in Int /\ (a % q) \in 0..(q - 1)
           /\ a = q * (a \div q) + (a % q)
OBVIOUS

LEMMA Quotient ==
    ASSUME NEW a \in Int, NEW q \in Nat, q > 0, NEW k \in Int, NEW r \in 0..(q - 1), a = q * k + r
    PROVE  a \div q = k
OBVIOUS

\* Rounding gives the quotient or, where it is not exact, one more.
LEMMA HalfUpIsNear ==
    ASSUME NEW a \in Nat, NEW q \in Nat, q > 0
    PROVE  \/ HalfUp(a, q) = a \div q
           \/ HalfUp(a, q) = (a \div q) + 1 /\ a % q # 0
<1> DEFINE k == a \div q
           r == a % q
<1>1. k \in Int /\ r \in 0..(q - 1) /\ a = q * k + r
  BY Division
<1> HIDE DEF k, r
<1>2. 2 * a + q = (2 * q) * k + (2 * r + q)
  BY <1>1
<1>3. CASE 2 * r < q
  <2>1. 2 * r + q \in 0..(2 * q - 1) /\ 2 * q \in Nat /\ 2 * q > 0 /\ 2 * a + q \in Int
    BY <1>1, <1>3
  <2>2. (2 * a + q) \div (2 * q) = k
    BY <1>1, <1>2, <2>1, Quotient
  <2> QED
    BY <2>2 DEF HalfUp, k
<1>4. CASE 2 * r >= q
  <2>1. 2 * r - q \in 0..(2 * q - 1) /\ 2 * q \in Nat /\ 2 * q > 0 /\ 2 * a + q \in Int
    BY <1>1, <1>4
  <2>2. (2 * q) * (k + 1) = (2 * q) * k + 2 * q /\ k + 1 \in Int
    BY <1>1
  <2>3. 2 * a + q = (2 * q) * (k + 1) + (2 * r - q)
    BY <1>1, <1>2, <2>2
  <2>4. (2 * a + q) \div (2 * q) = k + 1
    BY <2>1, <2>2, <2>3, Quotient
  <2>5. r # 0
    BY <1>1, <1>4
  <2> QED
    BY <2>4, <2>5 DEF HalfUp, k, r
<1> QED
  BY <1>1, <1>3, <1>4

LEMMA WholePaise == \A p \in Int : HalfUp(p, 1) = p
<1> SUFFICES ASSUME NEW p \in Int PROVE HalfUp(p, 1) = p
  OBVIOUS
<1>1. (2 * p + 1) \div (2 * 1) = p
  BY 2 * p + 1 \in Int, 2 \in Nat, 1 \in 0..(2 - 1), Quotient
<1> QED
  BY <1>1 DEF HalfUp

LEMMA Ranges ==
    /\ Price \subseteq Nat /\ \A a \in Amount : a \in Nat /\ a > 0
    /\ \A a \in Int : a # None
    /\ \A a \in Nat : [base |-> a, dimension |-> "weight"] # None
    /\ \A a \in Int : [num |-> a, den |-> 1] # None
BY AmountAssumption, NoneAssumption

LEMMA DrawnPrice ==
    ASSUME NEW t \in PriceTrial
    PROVE  /\ t.price \in Nat
           /\ t.quantity \in Nat /\ t.quantity > 0 /\ t.per \in Nat /\ t.per > 0
           /\ t.price * t.per \in Nat
<1>1. t.price \in Price /\ t.quantity \in Amount /\ t.per \in Amount
  BY DEF PriceTrial
<1>2. \A a, b \in Nat : a * b \in Nat
  OBVIOUS
<1> QED
  BY <1>1, <1>2, Ranges

\* What the check says of a price printed in whole paise.
LEMMA PriceVerdict ==
    ASSUME NEW t \in PriceTrial, NEW printed \in Int
    PROVE  CheckUnitSalePrice(UnitPriceRule(t.per), PricePayload(t, printed)) =
             IF Distance(printed, HalfUp(t.price * t.per, t.quantity)) <= 1
             THEN "compliant" ELSE "non_compliant"
<1> DEFINE payload == PricePayload(t, printed)
           rule == UnitPriceRule(t.per)
           quantity == [base |-> t.quantity, dimension |-> "weight"]
           price == [num |-> printed, den |-> 1]
<1>1. /\ t.price # None /\ quantity # None /\ price # None
  BY DrawnPrice, Ranges
<1>2. /\ payload.values["mrp"] = t.price
      /\ payload.values["net_quantity"] = quantity
      /\ payload.values["unit_sale_price"] = price
  BY DEF PricePayload
<1>3. /\ rule.per = t.per /\ rule.tolerance = 1
      /\ quantity.base = t.quantity /\ quantity.dimension = "weight"
      /\ price.num = printed /\ price.den = 1
  BY DEF UnitPriceRule
<1>4. ~(t.quantity <= 0)
  BY DrawnPrice
<1>5. HalfUp(printed, 1) = printed
  BY WholePaise
<1> HIDE DEF payload, rule, quantity, price
<1>6. UnitSalePrice(t.price, quantity.base, rule.per) = HalfUp(t.price * t.per, t.quantity)
  BY <1>3 DEF UnitSalePrice
<1>7. CheckUnitSalePrice(rule, payload) =
        IF Distance(HalfUp(price.num, price.den), UnitSalePrice(t.price, quantity.base, rule.per))
             <= rule.tolerance
        THEN "compliant" ELSE "non_compliant"
  BY <1>1, <1>2, <1>3, <1>4 DEF CheckUnitSalePrice
<1> QED
  BY <1>3, <1>5, <1>6, <1>7 DEF payload, rule

LEMMA PriceHolds ==
    ASSUME NEW t \in PriceTrial, trial = t
    PROVE  PackersRoundingIsAccepted
<1> DEFINE a == t.price * t.per
           q == t.quantity
           down == a \div q
           up == IF a % q = 0 THEN down ELSE down + 1
           exact == HalfUp(a, q)
           Verdict(printed) ==
               CheckUnitSalePrice(UnitPriceRule(t.per), PricePayload(t, printed))
<1>1. a \in Nat /\ q \in Nat /\ q > 0
  BY DrawnPrice
<1>2. down \in Int /\ up \in Int /\ exact \in Int
  <2>1. down \in Int
    BY <1>1, Division
  <2> HIDE DEF down
  <2>2. up \in Int
    BY <2>1
  <2>3. exact = down \/ exact = down + 1
    BY <1>1, HalfUpIsNear DEF down
  <2> QED
    BY <2>1, <2>2, <2>3
<1>3. exact \in down..up /\ up \in down..(down + 1)
  <2>1. exact = down \/ (exact = down + 1 /\ a % q # 0)
    BY <1>1, HalfUpIsNear
  <2> HIDE DEF down, exact, a, q
  <2> QED
    BY <1>2, <2>1
<1>4. ASSUME NEW printed \in Int
      PROVE  Verdict(printed) = IF Distance(printed, exact) <= 1
                                THEN "compliant" ELSE "non_compliant"
  BY PriceVerdict
<1> HIDE DEF a, q, down, up, exact, Verdict
<1>5. /\ Distance(down, exact) <= 1 /\ Distance(up, exact) <= 1
      /\ ~(Distance(down - 2, exact) <= 1) /\ ~(Distance(up + 2, exact) <= 1)
      /\ down - 2 \in Int /\ up + 2 \in Int
  BY <1>2, <1>3 DEF Distance
<1>6. /\ Verdict(down) = "compliant" /\ Verdict(up) = "compliant"
      /\ Verdict(down - 2) = "non_compliant" /\ Verdict(up + 2) = "non_compliant"
  BY <1>2, <1>4, <1>5
<1> QED
  BY <1>6 DEF PackersRoundingIsAccepted, a, q, down, up, Verdict

-----------------------------------------------------------------------------
(* Bands                                                                   *)

LEMMA BandFields ==
    ASSUME NEW min, NEW max
    PROVE  LET rule == BandRule(min, max)
           IN  /\ rule.code = min /\ rule.version = 1 /\ rule.status = "active"
               /\ rule.from = 1 /\ rule.to = 3 /\ rule.commodities = {} /\ rule.packages = {}
               /\ rule.kind = "weight" /\ rule.min = min /\ rule.max = max
               /\ rule["imported"] = None /\ rule["ecommerce"] = None
               /\ rule["multipiece"] = None /\ rule.exceptions = {"exempt"}
               /\ rule.test = "declaration_present"
               /\ rule.parameters.declaration = "mrp"
BY DEF BandRule

\* A rule for a band takes the packages of its kind between its bounds.
LEMMA BandApplies ==
    ASSUME NEW min \in Int, NEW max \in Int, NEW context,
           context.day \in Int, context.quantity \in Int, context.kind = "weight"
    PROVE  AppliesWhateverStatus(BandRule(min, max), context) <=>
               /\ 1 <= context.day /\ context.day <= 3
               /\ min <= context.quantity /\ context.quantity < max
               /\ "exempt" \notin context.exceptions
<1> DEFINE rule == BandRule(min, max)
<1>1. /\ rule.from = 1 /\ rule.to = 3 /\ rule.commodities = {} /\ rule.packages = {}
      /\ rule.kind = "weight" /\ rule.min = min /\ rule.max = max
      /\ rule["imported"] = None /\ rule["ecommerce"] = None
      /\ rule["multipiece"] = None /\ rule.exceptions = {"exempt"}
  BY BandFields
<1>2. 3 # None /\ min # None /\ max # None /\ context.quantity # None
  BY Ranges
<1> HIDE DEF rule
<1>3. InForce(rule, context.day) <=> 1 <= context.day /\ context.day <= 3
  BY <1>1, <1>2 DEF InForce
<1>4. InScope(rule, context)
  BY <1>1 DEF InScope
<1>5. InBand(rule, context) <=> min <= context.quantity /\ context.quantity < max
  BY <1>1, <1>2 DEF InBand
<1>6. MatchesFlags(rule, context)
  BY <1>1 DEF MatchesFlags
<1>7. NotExcepted(rule, context) <=> "exempt" \notin context.exceptions
  BY <1>1 DEF NotExcepted
<1> QED
  BY <1>3, <1>4, <1>5, <1>6, <1>7 DEF AppliesWhateverStatus, rule

LEMMA BandContext ==
    ASSUME NEW min \in Int, NEW max, NEW day
    PROVE  LET context == DefaultContext(BandRule(min, max), day)
           IN  /\ context.day = day /\ context.kind = "weight" /\ context.quantity = min
               /\ context.exceptions = {}
<1>1. min # None
  BY Ranges
<1> QED
  BY <1>1, BandFields DEF DefaultContext, InBandQuantity

LEMMA BandScenarioFields ==
    ASSUME NEW min \in Int, NEW max \in Int, NEW quantity \in Int
    PROVE  LET s == BandScenario(BandRule(min, max), quantity)
           IN  /\ s.context.day = 1 /\ s.context.kind = "weight"
               /\ s.context.quantity = quantity /\ s.context.exceptions = {}
               /\ Has(s.payload, "mrp") /\ s.expected = "compliant"
               /\ DOMAIN s = {"context", "payload", "expected"}
               /\ {"day", "kind", "quantity", "exceptions"} \subseteq DOMAIN s.context
<1> DEFINE rule == BandRule(min, max)
           plain == DefaultContext(rule, rule.from)
           s == BandScenario(rule, quantity)
<1>1. rule.from = 1
  BY BandFields
<1>2. /\ plain.day = 1 /\ plain.kind = "weight" /\ plain.exceptions = {}
      /\ plain = [day |-> plain.day, commodity |-> plain.commodity, package |-> plain.package,
                  kind |-> plain.kind, quantity |-> plain.quantity,
                  imported |-> plain.imported, ecommerce |-> plain.ecommerce,
                  multipiece |-> plain.multipiece, exceptions |-> plain.exceptions]
  BY <1>1, BandFields DEF DefaultContext
<1> HIDE DEF plain
<1>3. [plain EXCEPT !.quantity = quantity] =
        [day |-> plain.day, commodity |-> plain.commodity, package |-> plain.package,
         kind |-> plain.kind, quantity |-> quantity,
         imported |-> plain.imported, ecommerce |-> plain.ecommerce,
         multipiece |-> plain.multipiece, exceptions |-> plain.exceptions]
  BY <1>2
<1>4. /\ s.context = [plain EXCEPT !.quantity = quantity]
      /\ s.payload = EvidencePayload({}, "captured") /\ s.expected = "compliant"
      /\ DOMAIN s = {"context", "payload", "expected"}
  BY DEF BandScenario, plain
<1>5. EvidencePayload({}, "captured").values["mrp"] = 10000 /\ 10000 # None
  BY Ranges DEF EvidencePayload
<1> HIDE DEF s, rule
<1> QED
  BY <1>2, <1>3, <1>4, <1>5 DEF Has, s, rule

\* The check of a band's rule finds the price.
LEMMA BandOutcome ==
    ASSUME NEW min, NEW max, NEW payload, Has(payload, "mrp")
    PROVE  RunCheck(BandRule(min, max).test, BandRule(min, max).parameters, payload) = "compliant"
BY BandFields DEF RunCheck, CheckDeclarationPresent

LEMMA ScenarioAtQuantity ==
    ASSUME NEW min \in Int, NEW max \in Int, NEW quantity \in Int, NEW expected,
           NEW s, s = At(BandScenario(BandRule(min, max), min), quantity, expected)
    PROVE  /\ s.context.day = 1 /\ s.context.kind = "weight"
           /\ s.context.quantity = quantity /\ s.context.exceptions = {}
           /\ Has(s.payload, "mrp") /\ s.expected = expected
<1> DEFINE template == BandScenario(BandRule(min, max), min)
           context == template.context
<1>1. /\ context.day = 1 /\ context.kind = "weight" /\ context.exceptions = {}
      /\ Has(template.payload, "mrp")
      /\ DOMAIN template = {"context", "payload", "expected"}
      /\ {"day", "kind", "quantity", "exceptions"} \subseteq DOMAIN context
  BY BandScenarioFields
<1>2. s = [template EXCEPT !.context = [context EXCEPT !.quantity = quantity],
                           !.expected = expected]
  BY DEF At
<1> HIDE DEF template
<1>3. /\ s.context = [context EXCEPT !.quantity = quantity]
      /\ s.payload = template.payload /\ s.expected = expected
  BY <1>1, <1>2
<1> QED
  BY <1>1, <1>3 DEF template

\* The scenarios the simulator generates at the bounds of a band pass.
LEMMA BoundariesPass ==
    ASSUME NEW min \in Int, NEW max \in Int, min < max,
           NEW s \in BoundaryScenarios(BandRule(min, max), BandScenario(BandRule(min, max), min))
    PROVE  Passed(BandRule(min, max), s)
<1> DEFINE rule == BandRule(min, max)
           template == BandScenario(rule, min)
<1>1. template.expected = "compliant" /\ rule.min = min /\ rule.max = max
  BY BandScenarioFields, BandFields
<1>2. PICK quantity \in Int, expected \in {"compliant", ScopeExcluded} :
         /\ s = At(template, quantity, expected)
         /\ expected = IF min <= quantity /\ quantity < max THEN "compliant" ELSE ScopeExcluded
  <2> HIDE DEF rule, template
  <2>1. \/ s = At(template, min, "compliant") \/ s = At(template, min - 1, ScopeExcluded)
        \/ s = At(template, max - 1, "compliant") \/ s = At(template, max, ScopeExcluded)
    BY <1>1 DEF BoundaryScenarios, rule, template
  <2> QED
    BY <2>1
<1>3. /\ s.context.day = 1 /\ s.context.kind = "weight"
      /\ s.context.quantity = quantity /\ s.context.exceptions = {}
      /\ Has(s.payload, "mrp") /\ s.expected = expected
  <2>1. s = At(template, quantity, expected)
    BY <1>2
  <2> QED
    BY <2>1, ScenarioAtQuantity
<1>4. AppliesWhateverStatus(rule, s.context) <=> min <= quantity /\ quantity < max
  BY <1>3, BandApplies
<1>5. RunCheck(rule.test, rule.parameters, s.payload) = "compliant"
  BY <1>3, BandOutcome
<1> HIDE DEF rule
<1>6. ScenarioOutcome(rule, s) = expected
  BY <1>2, <1>4, <1>5 DEF ScenarioOutcome
<1> QED
  BY <1>3, <1>6 DEF Passed, rule

\* Of two versions with different codes each is chosen wherever it applies.
LEMMA EachOfTwo ==
    ASSUME NEW rule, NEW other, rule.code # other.code, NEW context
    PROVE  rule \in Select({rule, other}, context) <=> Applies(rule, context)
BY DEF Select, Preferred

LEMMA DrawnBand ==
    ASSUME NEW t \in BandTrial
    PROVE  /\ t.low \in Nat /\ t.mid \in Nat /\ t.high \in Nat /\ t.quantity \in Nat
           /\ t.low < t.mid /\ t.mid < t.high
<1>1. t.low \in Amount /\ t.mid \in Amount /\ t.high \in Amount /\ t.quantity \in Amount
  BY DEF BandTrial
<1>2. t.low < t.mid /\ t.mid < t.high
  BY DEF BandTrial
<1> QED
  BY <1>1, <1>2, Ranges

LEMMA BandHolds ==
    ASSUME NEW t \in BandTrial, trial = t
    PROVE  AdjacentBandsMeet
<1> DEFINE lower == BandRule(t.low, t.mid)
           upper == BandRule(t.mid, t.high)
           Takes(rule) == rule \in Select({lower, upper}, BandScenario(rule, t.quantity).context)
<1>0. /\ t.low \in Int /\ t.mid \in Int /\ t.high \in Int /\ t.quantity \in Int
      /\ t.low < t.mid /\ t.mid < t.high
  BY DrawnBand
<1>1. /\ lower.code = t.low /\ upper.code = t.mid
      /\ StatusAllows(lower) /\ StatusAllows(upper)
  BY BandFields DEF StatusAllows, EffectiveStatus
<1>2. Takes(lower) <=> t.low <= t.quantity /\ t.quantity < t.mid
  <2> DEFINE context == BandScenario(lower, t.quantity).context
  <2>1. /\ context.day = 1 /\ context.kind = "weight"
        /\ context.quantity = t.quantity /\ context.exceptions = {}
    BY <1>0, BandScenarioFields
  <2> HIDE DEF context
  <2>2. AppliesWhateverStatus(lower, context) <=> t.low <= t.quantity /\ t.quantity < t.mid
    BY <1>0, <2>1, BandApplies
  <2> HIDE DEF lower, upper
  <2>3. lower \in Select({lower, upper}, context) <=> Applies(lower, context)
    BY <1>0, <1>1, EachOfTwo
  <2> QED
    BY <1>1, <2>2, <2>3 DEF Applies, context
<1>3. Takes(upper) <=> t.mid <= t.quantity /\ t.quantity < t.high
  <2> DEFINE context == BandScenario(upper, t.quantity).context
  <2>1. /\ context.day = 1 /\ context.kind = "weight"
        /\ context.quantity = t.quantity /\ context.exceptions = {}
    BY <1>0, BandScenarioFields
  <2> HIDE DEF context
  <2>2. AppliesWhateverStatus(upper, context) <=> t.mid <= t.quantity /\ t.quantity < t.high
    BY <1>0, <2>1, BandApplies
  <2> HIDE DEF lower, upper
  <2>3. upper \in Select({upper, lower}, context) <=> Applies(upper, context)
    BY <1>0, <1>1, EachOfTwo
  <2>4. {upper, lower} = {lower, upper}
    OBVIOUS
  <2> QED
    BY <1>1, <2>2, <2>3, <2>4 DEF Applies, context
<1>4. /\ t.low <= t.quantity /\ t.quantity < t.high <=> Takes(lower) # Takes(upper)
      /\ ~(Takes(lower) /\ Takes(upper))
  <2> HIDE DEF lower, upper
  <2> QED
    BY <1>0, <1>2, <1>3
<1>5. \A s \in BoundaryScenarios(lower, BandScenario(lower, t.low)) : Passed(lower, s)
  BY <1>0, BoundariesPass
<1>6. \A day \in DaysOutside(lower) : ~AppliesWhateverStatus(lower, DefaultContext(lower, day))
  <2> SUFFICES ASSUME NEW day \in DaysOutside(lower)
               PROVE  ~AppliesWhateverStatus(lower, DefaultContext(lower, day))
    OBVIOUS
  <2>1. day \in Int /\ ~(1 <= day /\ day <= 3)
    <3>1. lower.from = 1 /\ lower.to = 3 /\ 3 # None
      BY BandFields, Ranges
    <3> HIDE DEF lower
    <3> QED
      BY <3>1 DEF DaysOutside
  <2>2. LET context == DefaultContext(lower, day)
        IN  context.day = day /\ context.kind = "weight" /\ context.quantity = t.low
    BY <1>0, BandContext
  <2> QED
    BY <1>0, <2>1, <2>2, BandApplies
<1>7. ~AppliesWhateverStatus(lower, ExceptionContext(lower))
  <2> DEFINE plain == DefaultContext(lower, lower.from)
             context == ExceptionContext(lower)
  <2>1. lower.from = 1 /\ lower.exceptions = {"exempt"} /\ FirstOf({"exempt"}) = "exempt"
    BY BandFields DEF FirstOf
  <2>2. plain.day = 1 /\ plain.kind = "weight" /\ plain.quantity = t.low
    BY <1>0, <2>1, BandContext
  <2>3. DOMAIN plain = {"day", "commodity", "package", "kind", "quantity", "imported",
                        "ecommerce", "multipiece", "exceptions"}
    BY DEF DefaultContext
  <2> HIDE DEF plain
  <2>4. /\ context.day = plain.day /\ context.kind = plain.kind
        /\ context.quantity = plain.quantity /\ context.exceptions = {"exempt"}
    BY <2>1, <2>3 DEF ExceptionContext, plain
  <2> HIDE DEF context
  <2>5. ~AppliesWhateverStatus(lower, context)
    BY <1>0, <2>2, <2>4, BandApplies
  <2> QED
    BY <2>5 DEF context
<1> HIDE DEF lower, upper
<1> QED
  BY <1>4, <1>5, <1>6, <1>7 DEF AdjacentBandsMeet, lower, upper

-----------------------------------------------------------------------------
(* Deleting                                                                *)

\* Tables whose rows nothing takes along, and what only an inspection does.
Enforcement     == {"inspections", "reports", "cases", "complaints", "products", "users",
                    "rule_versions"}
UnderInspection == {"evidence", "declaration_candidates", "findings", "inspection_faces"}

LEMMA KeptReferences ==
    /\ References["inspections"] = Inspections /\ References["reports"] = Reports
    /\ References["cases"] = Cases /\ References["complaints"] = Complaints
    /\ References["products"] = Products /\ References["users"] = Users
    /\ References["rule_versions"] = RuleVersions
BY DEF References

LEMMA HeldReferences ==
    /\ References["evidence"] = Evidence
    /\ References["declaration_candidates"] = DeclarationCandidates
    /\ References["findings"] = Findings
    /\ References["inspection_faces"] = InspectionFaces
BY DEF References

\* Deleting what these refer to does not take them along.
LEMMA NothingTakesAlong ==
    ASSUME NEW r \in Enforcement, NEW column \in DOMAIN References[r]
    PROVE  References[r][column].deleting # "cascade"
<1>1. /\ \A c \in DOMAIN Inspections : Inspections[c] \in
            {ByUser, Restricts("products"), Restricts("users"), SetNull("complaints")}
      /\ \A c \in DOMAIN Reports : Reports[c] \in {ByUser, Restricts("inspections")}
  BY DEF Inspections, Reports
<1>2. /\ \A c \in DOMAIN Cases : Cases[c] \in
            {ByUser, Restricts("inspections"), SetNull("inspections"), SetNull("reports")}
      /\ \A c \in DOMAIN Complaints : Complaints[c] \in {ByUser, SetNull("products")}
  BY DEF Cases, Complaints
<1>3. /\ \A c \in DOMAIN Products : Products[c] = ByUser
      /\ \A c \in DOMAIN RuleVersions : RuleVersions[c] = ByUser
      /\ DOMAIN Users = {}
  BY DEF Products, RuleVersions, Users, NoReferences
<1>4. /\ ByUser.deleting # "cascade"
      /\ \A table : /\ Restricts(table).deleting # "cascade"
                    /\ SetNull(table).deleting # "cascade"
  BY DEF ByUser, Restricts, SetNull
<1> QED
  BY <1>1, <1>2, <1>3, <1>4, KeptReferences DEF Enforcement

\* Only the inspection takes these along.
LEMMA InspectionsTakeAlong ==
    ASSUME NEW r \in UnderInspection, NEW column \in DOMAIN References[r],
           References[r][column].deleting = "cascade"
    PROVE  References[r][column].to = "inspections"
<1>1. /\ \A c \in DOMAIN Evidence : Evidence[c] \in
            {ByUser, Cascade("inspections"), SetNull("complaints")}
      /\ \A c \in DOMAIN DeclarationCandidates : DeclarationCandidates[c] \in
            {ByUser, Cascade("inspections"), SetNull("evidence"), SetNull("ocr_results")}
  BY DEF Evidence, DeclarationCandidates
<1>2. /\ \A c \in DOMAIN Findings : Findings[c] \in
            {ByUser, Cascade("inspections"), Restricts("rule_versions"),
             SetNull("declaration_candidates")}
      /\ \A c \in DOMAIN InspectionFaces : InspectionFaces[c] \in
            {ByUser, Cascade("inspections")}
  BY DEF Findings, InspectionFaces
<1>3. /\ ByUser.deleting # "cascade" /\ Cascade("inspections").to = "inspections"
      /\ \A table : /\ Restricts(table).deleting # "cascade"
                    /\ SetNull(table).deleting # "cascade"
  BY DEF ByUser, Restricts, SetNull, Cascade
<1> QED
  BY <1>1, <1>2, <1>3, HeldReferences DEF UnderInspection

LEMMA Restricting ==
    /\ References["reports"]["inspection_id"] = [to |-> "inspections", deleting |-> "restrict"]
    /\ "inspection_id" \in DOMAIN References["reports"]
    /\ References["cases"]["inspection_id"] = [to |-> "inspections", deleting |-> "restrict"]
    /\ "inspection_id" \in DOMAIN References["cases"]
    /\ References["findings"]["rule_version_id"] =
          [to |-> "rule_versions", deleting |-> "restrict"]
    /\ "rule_version_id" \in DOMAIN References["findings"]
BY KeptReferences, HeldReferences DEF Reports, Cases, Findings, Restricts

LEMMA TakenAlong ==
    ASSUME NEW rows, NEW table, NEW r \in RefersTo(rows, table, "cascade")
    PROVE  r \notin Enforcement /\ (r \in UnderInspection => table = "inspections")
<1>1. PICK column \in DOMAIN References[r] :
          References[r][column] = [to |-> table, deleting |-> "cascade"]
  BY DEF RefersTo
<1>2. References[r][column].deleting = "cascade" /\ References[r][column].to = table
  BY <1>1
<1> QED
  BY <1>2, NothingTakesAlong, InspectionsTakeAlong

LEMMA GoneAlong ==
    ASSUME NEW rows, NEW table, NEW r \in Gone(rows, table)
    PROVE  /\ r \in Enforcement => r = table
           /\ r \in UnderInspection => r = table \/ table = "inspections"
<1>1. ASSUME NEW tables, NEW q \in WithTheirs(rows, tables)
      PROVE  q \in tables \/ \E t \in tables : q \in RefersTo(rows, t, "cascade")
  BY DEF WithTheirs
<1> DEFINE first == WithTheirs(rows, {table})
<1>2. ASSUME NEW q \in first
      PROVE  /\ q \in Enforcement => q = table
             /\ q \in UnderInspection => q = table \/ table = "inspections"
  BY <1>1, TakenAlong
<1>3. "inspections" \in Enforcement
  BY DEF Enforcement
<1> HIDE DEF first
<1>4. r \in first \/ \E t \in first : r \in RefersTo(rows, t, "cascade")
  BY <1>1 DEF Gone, first
<1> QED
  BY <1>2, <1>3, <1>4, TakenAlong

\* RecordsAreNotTakenAlong, of a state of a database.
NotTakenAlong(t) ==
    /\ t.lost \cap Enforcement \subseteq t.deleted
    /\ {"reports", "cases"} \cap t.rows # {} => t.lost \cap UnderInspection \subseteq t.deleted
    /\ "audit_events" \notin t.lost
    /\ "findings" \in t.rows => "rule_versions" \in t.rows

Databases == [about : {"database"}, rows : SUBSET Table, lost : SUBSET Table,
              deleted : SUBSET Table]

LEMMA DeleteKeeps ==
    ASSUME NEW t \in Databases, NotTakenAlong(t), NEW table \in t.rows,
           NEW after, after = [t EXCEPT !.rows = AfterDelete(t.rows, table),
                               !.lost = @ \cup (t.rows \ AfterDelete(t.rows, table)),
                               !.deleted = @ \cup {table}]
    PROVE  after \in Databases /\ NotTakenAlong(after)
<1> DEFINE rest == AfterDelete(t.rows, table)
<1>1. /\ after.about = "database" /\ after.rows = rest
      /\ after.lost = t.lost \cup (t.rows \ rest)
      /\ after.deleted = t.deleted \cup {table}
  BY DEF Databases
<1>2. rest \subseteq t.rows
  BY DEF AfterDelete
<1>3. after \in Databases
  BY <1>2 DEF Databases
<1>4. CASE Refused(t.rows, table)
  <2>1. rest = t.rows /\ t.rows \ rest = {}
    BY <1>4 DEF AfterDelete
  <2> HIDE DEF rest
  <2> QED
    BY <1>1, <1>3, <2>1 DEF NotTakenAlong
<1>5. CASE ~Refused(t.rows, table)
  <2>1. rest = t.rows \ Gone(t.rows, table)
    BY <1>5 DEF AfterDelete
  <2>2. ASSUME NEW r \in t.rows \ rest
        PROVE  /\ r \in Gone(t.rows, table)
               /\ r \in Enforcement => r = table
               /\ r \in UnderInspection => r = table \/ table = "inspections"
    BY <2>1, GoneAlong
  <2>3. table \in Gone(t.rows, table)
    BY DEF Gone, WithTheirs
  <2>4. table = "inspections" => {"reports", "cases"} \cap t.rows = {}
    <3>1. \A r \in {"reports", "cases"} \cap t.rows : r \in RefersTo(t.rows, "inspections", "restrict")
      BY Restricting DEF RefersTo
    <3> QED
      BY <1>5, <2>3, <3>1 DEF Refused
  <2>5. table = "rule_versions" => "findings" \notin t.rows
    <3>1. "findings" \in t.rows => "findings" \in RefersTo(t.rows, "rule_versions", "restrict")
      BY Restricting DEF RefersTo
    <3> QED
      BY <1>5, <2>3, <3>1 DEF Refused
  <2>6. "audit_events" \notin t.rows \ rest
    BY <1>5, <2>2 DEF Refused, AppendOnly
  <2> HIDE DEF rest
  <2>7. after.lost \cap Enforcement \subseteq after.deleted
    BY <1>1, <2>2 DEF NotTakenAlong
  <2>8. {"reports", "cases"} \cap after.rows # {} => after.lost \cap UnderInspection \subseteq after.deleted
    BY <1>1, <1>2, <2>2, <2>4 DEF NotTakenAlong
  <2>9. "findings" \in after.rows => "rule_versions" \in after.rows
    <3>1. "rule_versions" \in Enforcement
      BY DEF Enforcement
    <3> QED
      BY <1>1, <1>2, <2>2, <2>5, <3>1 DEF NotTakenAlong
  <2> QED
    BY <1>1, <1>3, <2>6, <2>7, <2>8, <2>9 DEF NotTakenAlong
<1> QED
  BY <1>4, <1>5

LEMMA PopulatedKeeps ==
    ASSUME NEW without, NEW t, t = [about |-> "database", rows |-> Populated(without),
                                    lost |-> {}, deleted |-> {}]
    PROVE  t \in Databases /\ NotTakenAlong(t)
<1> DEFINE first == Table \ without
           second == Standing(Standing(first))
<1>1. second \subseteq Table /\ Populated(without) = Standing(second)
  BY DEF Standing, Populated
<1> HIDE DEF second
<1>2. Populated(without) \subseteq Table
  BY <1>1 DEF Standing
<1>3. "findings" \in Standing(second) => "rule_versions" \in second
  <2>1. /\ References["findings"]["rule_version_id"].deleting # "set null"
        /\ References["findings"]["rule_version_id"].to = "rule_versions"
    BY Restricting
  <2> QED
    BY <2>1, Restricting DEF Standing
<1>4. "rule_versions" \in second => "rule_versions" \in Standing(second)
  <2>1. \A c \in DOMAIN RuleVersions : RuleVersions[c] = ByUser
    BY DEF RuleVersions
  <2>2. ByUser.deleting = "set null"
    BY DEF ByUser, SetNull
  <2> QED
    BY <2>1, <2>2, KeptReferences DEF Standing
<1> QED
  BY <1>1, <1>2, <1>3, <1>4 DEF Databases, NotTakenAlong

-----------------------------------------------------------------------------
(* Evidence                                                                *)

LEMMA Types ==
    /\ {"country_of_origin", "unit_sale_price"} \subseteq Declaration
    /\ "mrp" \notin Declaration /\ "net_quantity" \notin Declaration
    /\ None \notin Reading
    /\ \A read \in Reading : ~read.ambiguous /\ read.precision \in {"month", "day"}
BY DeclarationAssumption, NoneAssumption, ReadingAssumption

\* Readings that may be used for a declaration.
ReadFor(d, candidates) ==
    {c \in candidates : Supports(c) /\ c.declaration = d /\ c.value # None}

\* A declaration has a value exactly when a reading gives it one.
LEMMA ValueOfReadings ==
    ASSUME NEW candidates \in SUBSET Candidate, NEW face, NEW d \in Declaration
    PROVE  LET payload == EvidencePayload(candidates, face)
           IN  /\ Has(payload, d) <=> ReadFor(d, candidates) # {}
               /\ Has(payload, d) => payload.values[d] \in Reading
<1> DEFINE payload == EvidencePayload(candidates, face)
           read == ReadFor(d, candidates)
<1>1. \A c \in read : c.confidence = 1 /\ c.value \in Reading
  BY DEF ReadFor, Candidate
<1>2. Best(read) = read
  <2> HIDE DEF read
  <2> QED
    BY <1>1 DEF Best
<1>3. PossibleValues(d, candidates) = IF read = {} THEN {None} ELSE {c.value : c \in read}
  BY <1>2 DEF PossibleValues, ReadFor
<1>4. payload.values[d] = CHOOSE value \in PossibleValues(d, candidates) : TRUE
  BY Types DEF EvidencePayload
<1> HIDE DEF read, payload
<1>5. CASE read = {}
  <2>1. payload.values[d] = None
    BY <1>3, <1>4, <1>5
  <2> QED
    BY <1>5, <2>1 DEF Has, read, payload
<1>6. CASE read # {}
  <2>1. \E value \in PossibleValues(d, candidates) : TRUE
    BY <1>3, <1>6
  <2>2. payload.values[d] \in PossibleValues(d, candidates)
    BY <1>4, <2>1
  <2>3. payload.values[d] \in Reading
    BY <1>1, <1>3, <1>6, <2>2
  <2> QED
    BY <1>6, <2>3, Types DEF Has, read, payload
<1> QED
  BY <1>5, <1>6

\* A face that is still to be captured, or a label that was seen.
LEMMA OtherEvidence ==
    ASSUME NEW candidates, NEW face
    PROVE  LET payload == EvidencePayload(candidates, face)
           IN  /\ payload.labelOnly = LabelSeen(candidates)
               /\ payload.complete = EvidenceComplete(<<face>>)
               /\ payload.imported = TRUE
BY DEF EvidencePayload

EvidenceKind ==
    {"declaration_present", "any_declaration_present", "consumer_care_completeness",
     "country_of_origin_required", "date_marking_completeness"}

\* What the checks have in common.
PresenceOf(kind, d, payload) ==
    IF Has(payload, d) THEN "compliant"
    ELSE IF LabelOnly(payload, d) /\ kind # "country_of_origin_required"
    THEN "unable_to_determine"
    ELSE IF ~payload.complete THEN "additional_evidence_required"
    ELSE "non_compliant"

LEMMA PresenceOutcome ==
    ASSUME NEW kind \in EvidenceKind, NEW d \in Declaration,
           kind = "country_of_origin_required" => d = "country_of_origin",
           NEW candidates \in SUBSET Candidate, NEW face
    PROVE  FindingOutcome(EvidenceRule(kind, d), EvidencePayload(candidates, face)) =
             PresenceOf(kind, d, EvidencePayload(candidates, face))
<1> DEFINE payload == EvidencePayload(candidates, face)
           rule == EvidenceRule(kind, d)
           p == rule.parameters
<1>1. /\ rule.test = kind /\ rule.required = {}
      /\ kind = "date_marking_completeness" => p.accepted = <<d>> /\ p.precision = "month"
      /\ kind # "date_marking_completeness" =>
            p.declaration = d /\ p.declarations = {d} /\ p.accepted = {d}
  BY DEF EvidenceRule, EvidenceKind
<1>2. payload.imported
  BY OtherEvidence
<1>3. Has(payload, d) =>
          ~payload.values[d].ambiguous /\ payload.values[d].precision \in {"month", "day"}
  BY ValueOfReadings, Types
<1> HIDE DEF payload, p, rule
<1>4. ASSUME NEW accepted, accepted = {d}
      PROVE  NotFound(payload, accepted) =
               IF LabelOnly(payload, d) THEN "unable_to_determine"
               ELSE IF ~payload.complete THEN "additional_evidence_required"
               ELSE "non_compliant"
  BY <1>4 DEF NotFound
<1>5. RunCheck(kind, p, payload) = PresenceOf(kind, d, payload)
  <2>1. CASE kind = "declaration_present"
    BY <1>1, <1>4, <2>1 DEF RunCheck, CheckDeclarationPresent, PresenceOf
  <2>2. CASE kind = "any_declaration_present"
    <3>1. CheckAnyDeclarationPresent(p, payload) =
            IF Has(payload, d) THEN "compliant" ELSE NotFound(payload, {d})
      BY <1>1, <2>2 DEF CheckAnyDeclarationPresent
    <3> QED
      BY <1>4, <2>2, <3>1 DEF RunCheck, PresenceOf
  <2>3. CASE kind = "consumer_care_completeness"
    <3>1. CheckConsumerCare(p, payload) =
            IF Has(payload, d) THEN "compliant" ELSE NotFound(payload, {d})
      BY <1>1, <2>3 DEF CheckConsumerCare
    <3> QED
      BY <1>4, <2>3, <3>1 DEF RunCheck, PresenceOf
  <2>4. CASE kind = "country_of_origin_required"
    BY <1>2, <2>4 DEF RunCheck, CheckCountryOfOrigin, PresenceOf
  <2>5. CASE kind = "date_marking_completeness"
    <3>1. /\ DOMAIN p.accepted = {1} /\ p.accepted[1] = d
          /\ {p.accepted[i] : i \in DOMAIN p.accepted} = {d}
      BY <1>1, <2>5
    <3>2. FirstFound(p.accepted, payload) = IF Has(payload, d) THEN 1
                                            ELSE FirstFound(p.accepted, payload)
      BY <3>1 DEF FirstFound
    <3>3. Has(payload, d) =>
              PrecisionRank[payload.values[d].precision] >= PrecisionRank[p.precision]
      BY <1>1, <1>3, <2>5 DEF PrecisionRank
    <3>4. CASE Has(payload, d)
      <4>1. FirstFound(p.accepted, payload) = 1
        BY <3>2, <3>4
      <4> QED
        BY <1>3, <2>5, <3>1, <3>3, <3>4, <4>1 DEF RunCheck, CheckDateMarking, PresenceOf
    <3>5. CASE ~Has(payload, d)
      BY <1>4, <2>5, <3>1, <3>5 DEF RunCheck, CheckDateMarking, PresenceOf
    <3> QED
      BY <3>4, <3>5
  <2> QED
    BY <2>1, <2>2, <2>3, <2>4, <2>5 DEF EvidenceKind
<1>6. \A outcome : Settled(outcome, {}, payload) = outcome
  BY DEF Settled
<1> QED
  BY <1>1, <1>5, <1>6 DEF FindingOutcome, payload, p, rule

LEMMA DrawnEvidence ==
    ASSUME NEW t \in EvidenceTrial, t.kind # "unit_sale_price_consistency"
    PROVE  /\ t.kind \in EvidenceKind /\ t.declaration \in Declaration
           /\ t.kind = "country_of_origin_required" => t.declaration = "country_of_origin"
           /\ t.first \in Candidate /\ t.second \in Candidate
           /\ EvidenceComplete(<<t.before>>) => EvidenceComplete(<<t.after>>)
BY DEF EvidenceTrial, EvidenceKind

LEMMA EvidenceHolds ==
    ASSUME NEW t \in EvidenceTrial, trial = t
    PROVE  EvidenceOnlySettles
<1> SUFFICES ASSUME t.kind # "unit_sale_price_consistency"
             PROVE  /\ BeforeMore(t) = "compliant" => AfterMore(t) = "compliant"
                    /\ BeforeMore(t) = "non_compliant" /\ AfterMore(t) # "non_compliant"
                          => Accepted(t.second) /\ t.second.declaration = t.declaration
                    /\ ~Accepted(t.second) /\ t.after = t.before
                          => AfterMore(t) = BeforeMore(t)
                    /\ ~ReadBefore(t) /\ ~EvidenceComplete(<<t.before>>)
                          => BeforeMore(t) # "non_compliant"
  BY DEF EvidenceOnlySettles
<1> DEFINE d == t.declaration
           one == {t.first}
           two == {t.first, t.second}
           before == EvidencePayload(one, t.before)
           after == EvidencePayload(two, t.after)
           Seen(candidate) == /\ Supports(candidate) /\ candidate.value = None
                              /\ candidate.machine \in {"unreadable", "ambiguous", "processing_failed"}
                              /\ candidate.declaration = d
           Read(candidate) == /\ Supports(candidate) /\ candidate.declaration = d
                              /\ candidate.value # None
<1>1. /\ BeforeMore(t) = PresenceOf(t.kind, d, before)
      /\ AfterMore(t) = PresenceOf(t.kind, d, after)
  BY DrawnEvidence, PresenceOutcome DEF BeforeMore, AfterMore
<1>2. /\ Has(before, d) <=> Read(t.first)
      /\ Has(after, d) <=> Read(t.first) \/ Read(t.second)
  <2>1. one \in SUBSET Candidate /\ two \in SUBSET Candidate /\ d \in Declaration
    BY DrawnEvidence
  <2>2. /\ Has(before, d) <=> ReadFor(d, one) # {}
        /\ Has(after, d) <=> ReadFor(d, two) # {}
    <3> HIDE DEF one, two, d
    <3> QED
      BY <2>1, ValueOfReadings
  <2>3. /\ ReadFor(d, one) # {} <=> Read(t.first)
        /\ ReadFor(d, two) # {} <=> Read(t.first) \/ Read(t.second)
    BY DEF ReadFor
  <2> QED
    BY <2>2, <2>3
<1>3. /\ LabelOnly(before, d) <=> Seen(t.first)
      /\ LabelOnly(after, d) <=> Seen(t.first) \/ Seen(t.second)
  <2>1. /\ LabelOnly(before, d) <=> d \in LabelSeen(one)
        /\ LabelOnly(after, d) <=> d \in LabelSeen(two)
    BY OtherEvidence DEF LabelOnly
  <2>2. /\ d \in LabelSeen(one) <=> Seen(t.first)
        /\ d \in LabelSeen(two) <=> Seen(t.first) \/ Seen(t.second)
    BY DEF LabelSeen
  <2> QED
    BY <2>1, <2>2
<1>4. /\ before.complete = EvidenceComplete(<<t.before>>)
      /\ after.complete = EvidenceComplete(<<t.after>>)
  BY OtherEvidence
<1>5. /\ Supports(t.first) <=> Accepted(t.first)
      /\ Supports(t.second) <=> Accepted(t.second)
  BY DrawnEvidence DEF Candidate, Supports, Accepted
<1>6. EvidenceComplete(<<t.before>>) => EvidenceComplete(<<t.after>>)
  BY DrawnEvidence
<1>7. /\ EvidenceComplete(<<t.before>>) \in BOOLEAN
      /\ EvidenceComplete(<<t.after>>) \in BOOLEAN
  BY DEF EvidenceComplete
<1> HIDE DEF before, after
<1>8. Read(t.second) \/ Seen(t.second) =>
          Accepted(t.second) /\ t.second.declaration = d
  BY <1>5
<1>9. ReadBefore(t) <=> Read(t.first)
  BY <1>5 DEF ReadBefore
<1> QED
  BY <1>1, <1>2, <1>3, <1>4, <1>6, <1>7, <1>8, <1>9, <1>5 DEF PresenceOf

-----------------------------------------------------------------------------
(* Dates                                                                   *)

\* A year printed with two digits is expanded to itself.
LEMMA YearIsExpanded ==
    ASSUME NEW year, year \in 2000..2099
    PROVE  ExpandYear(year % 100) = year
<1>1. year = 100 * 20 + (year - 2000) /\ year - 2000 \in 0..99
  OBVIOUS
<1>2. year % 100 = year - 2000
  BY <1>1
<1> QED
  BY <1>1, <1>2 DEF ExpandYear

LEMMA MarkingHasDate ==
    ASSUME NEW first \in Int, NEW second \in Int, NEW year, NEW printed, ExpandYear(printed) = year,
           NEW meant \in {Date(first, second, year), Date(second, first, year)},
           ValidDay(meant.day, meant.month, year)
    PROVE  LET marking == NumericMarking(first, second, printed)
           IN  /\ meant \in marking.alternatives
               /\ marking.ambiguous \/ marking.date = meant
<1> DEFINE marking == NumericMarking(first, second, printed)
           readings == NumericReadings(first, second, year)
<1>1. /\ marking.alternatives = readings
      /\ marking.ambiguous <=> \E d, e \in readings : d # e
      /\ marking.date = IF Date(first, second, year) \in readings
                        THEN Date(first, second, year) ELSE Date(second, first, year)
  BY DEF NumericMarking
<1>2. meant \in readings
  BY DEF NumericReadings
<1> HIDE DEF marking, readings
<1>3. marking.ambiguous \/ marking.date = meant
  BY <1>1, <1>2
<1> QED
  BY <1>1, <1>2, <1>3 DEF marking

\* A printed year of four digits is the year itself.
LEMMA PrintedYears == \A year \in Year : year \in Int /\ 100 <= year
<1>1. ASSUME NEW year \in Year PROVE year \in Int /\ 100 <= year
  <2>1. year \in 100..9999
    BY PrintedAssumption
  <2> QED
    BY <2>1
<1> QED
  BY <1>1

LEMMA DateHolds ==
    ASSUME NEW t \in DateTrial, trial = t
    PROVE  PrintedDateIsNotLost
<1> DEFINE printed == IF t.short THEN t.year % 100 ELSE t.year
           meant == Date(t.day, t.month, t.year)
<1>0. ASSUME NEW year \in Year PROVE ExpandYear(year) = year
  <2>1. year \in Int /\ 100 <= year
    BY PrintedYears
  <2>2. ~(year < 100)
    BY <2>1
  <2> QED
    BY <2>2 DEF ExpandYear
<1>1. t.day \in Int /\ t.month \in Int /\ t.year \in Year
  <2>1. t.day \in 1..31 /\ t.month \in 1..12 /\ t.year \in Year
    BY DEF DateTrial
  <2> QED
    BY <2>1
<1>6. ValidDay(t.day, t.month, t.year)
  BY DEF DateTrial
<1>2. ExpandYear(printed) = t.year
  <2>1. CASE t.short
    <3>1. t.year \in 2000..2099
      BY <2>1 DEF DateTrial
    <3>2. ExpandYear(t.year % 100) = t.year
      BY <3>1, YearIsExpanded
    <3> QED
      BY <2>1, <3>2
  <2>2. CASE ~t.short
    <3>1. ExpandYear(t.year) = t.year
      BY <1>0, <1>1
    <3> QED
      BY <2>2, <3>1
  <2> QED
    BY <2>1, <2>2
<1>3. meant.day = t.day /\ meant.month = t.month
  BY DEF Date
<1> HIDE DEF printed
<1>4. CASE t.dayFirst
  <2>1. LET marking == NumericMarking(t.day, t.month, printed)
        IN  meant \in marking.alternatives /\ (marking.ambiguous \/ marking.date = meant)
    BY <1>1, <1>2, <1>3, <1>6, MarkingHasDate
  <2> QED
    BY <1>4, <2>1 DEF PrintedDateIsNotLost, printed
<1>5. CASE ~t.dayFirst
  <2>1. LET marking == NumericMarking(t.month, t.day, printed)
        IN  meant \in marking.alternatives /\ (marking.ambiguous \/ marking.date = meant)
    BY <1>1, <1>2, <1>3, <1>6, MarkingHasDate
  <2> QED
    BY <1>5, <2>1 DEF PrintedDateIsNotLost, printed
<1> QED
  BY <1>4, <1>5

-----------------------------------------------------------------------------
(* Sums of digits                                                          *)

\* Induction on the naturals, from the fact that < is well founded on them;
\* stated of sets, so that no operator is a parameter.
LEMMA LeastNatural ==
    ASSUME NEW T, T \subseteq Nat, T # {}
    PROVE  \E n \in T : \A m \in T : n <= m
<1>1. PICK n \in T : \A m \in T : ~ (<<m, n>> \in OpToRel(<, Nat))
  BY NatLessThanWellFounded, WFMin
<1>2. \A m \in T : ~ (m < n)
  BY <1>1 DEF OpToRel
<1> QED
  BY <1>2

LEMMA SetInduction ==
    ASSUME NEW S, 0 \in S, \A n \in Nat : n \in S => n + 1 \in S
    PROVE  \A n \in Nat : n \in S
<1> DEFINE T == {n \in Nat : n \notin S}
<1> SUFFICES ASSUME T # {} PROVE FALSE
  OBVIOUS
<1>1. PICK n \in T : \A m \in T : n <= m
  <2>1. T \subseteq Nat
    OBVIOUS
  <2> HIDE DEF T
  <2> QED
    BY <2>1, LeastNatural
<1>2. n # 0 /\ n - 1 \in Nat /\ n - 1 \notin T
  BY <1>1
<1>3. (n - 1) + 1 \in S
  BY <1>2
<1> QED
  BY <1>2, <1>3

\* Digits that are numbers.
IsBody(body) == body \in Seq(Int)

Weighted(body, i) == body[i] * WeightAt(i, Len(body))

Picked(s) == CHOOSE i \in s : TRUE

\* The function that WeightedSum folds with: of every set of positions, their
\* weighted sum, one position picked after the other.
Adds(g, body) ==
    g = [s \in SUBSET DOMAIN body |->
            IF s = {} THEN 0 ELSE Weighted(body, Picked(s)) + g[s \ {Picked(s)}]]

Sums(body) == CHOOSE g : Adds(g, body)

LEMMA WeightedSumIsSum == \A body : WeightedSum(body) = Sums(body)[DOMAIN body]
BY DEF WeightedSum, MapThenFoldSet, Sums, Adds, Weighted, Picked

LEMMA BodyFacts ==
    ASSUME NEW body, IsBody(body)
    PROVE  /\ Len(body) \in Nat /\ DOMAIN body = 1..Len(body)
           /\ \A i \in DOMAIN body : body[i] \in Int /\ Weighted(body, i) \in Int
<1>1. Len(body) \in Nat /\ DOMAIN body = 1..Len(body)
  BY DEF IsBody
<1>2. \A i \in DOMAIN body : body[i] \in Int
  BY DEF IsBody
<1>3. \A i \in DOMAIN body : WeightAt(i, Len(body)) \in {1, 3}
  BY DEF WeightAt
<1> QED
  BY <1>1, <1>2, <1>3 DEF Weighted

LEMMA Positions ==
    ASSUME NEW body, IsBody(body), NEW s \in SUBSET DOMAIN body
    PROVE  /\ IsFiniteSet(s) /\ Cardinality(s) \in Nat
           /\ (Cardinality(s) = 0) <=> (s = {})
           /\ \A x \in s : Cardinality(s \ {x}) = Cardinality(s) - 1
<1>1. IsFiniteSet(DOMAIN body)
  BY BodyFacts, FS_Interval
<1>2. IsFiniteSet(s)
  BY <1>1, FS_Subset
<1> QED
  BY <1>2, FS_CardinalityType, FS_EmptySet, FS_RemoveElement

LEMMA SumsExist ==
    ASSUME NEW body, IsBody(body)
    PROVE  \E g : Adds(g, body)
<1> DEFINE D == DOMAIN body
           Sum(g, s) == IF s = {} THEN 0 ELSE Weighted(body, Picked(s)) + g[s \ {Picked(s)}]
           A == {n \in Nat : \E g \in [SUBSET D -> Int] :
                    \A s \in SUBSET D : Cardinality(s) <= n => g[s] = Sum(g, s)}
<1>0. ASSUME NEW s \in SUBSET D, s # {}
      PROVE  /\ Picked(s) \in s /\ s \ {Picked(s)} \in SUBSET D
             /\ Weighted(body, Picked(s)) \in Int
             /\ Cardinality(s) \in Nat /\ Cardinality(s) > 0
             /\ Cardinality(s \ {Picked(s)}) = Cardinality(s) - 1
  <2>1. Picked(s) \in s
    BY <1>0 DEF Picked
  <2>2. Weighted(body, Picked(s)) \in Int
    BY <2>1, BodyFacts
  <2>3. /\ Cardinality(s) \in Nat /\ Cardinality(s) # 0
        /\ Cardinality(s \ {Picked(s)}) = Cardinality(s) - 1
    BY <1>0, <2>1, Positions
  <2>4. s \ {Picked(s)} \in SUBSET D
    OBVIOUS
  <2>5. Cardinality(s) > 0
    BY <2>3
  <2> QED
    BY <2>1, <2>2, <2>3, <2>4, <2>5
<1>1. 0 \in A
  <2> DEFINE zero == [s \in SUBSET D |-> 0]
  <2>1. zero \in [SUBSET D -> Int]
    OBVIOUS
  <2>2. ASSUME NEW s \in SUBSET D, Cardinality(s) <= 0 PROVE zero[s] = Sum(zero, s)
    <3>1. Cardinality(s) \in Nat /\ (Cardinality(s) = 0 <=> s = {})
      BY Positions
    <3>2. s = {}
      BY <2>2, <3>1
    <3> QED
      BY <3>2
  <2> HIDE DEF Sum, zero
  <2> QED
    BY <2>1, <2>2
<1>2. ASSUME NEW n \in Nat, n \in A PROVE n + 1 \in A
  <2>1. PICK g \in [SUBSET D -> Int] :
            \A s \in SUBSET D : Cardinality(s) <= n => g[s] = Sum(g, s)
    BY <1>2
  <2> DEFINE h == [s \in SUBSET D |-> Sum(g, s)]
  <2>2. h \in [SUBSET D -> Int]
    <3>1. ASSUME NEW s \in SUBSET D PROVE Sum(g, s) \in Int
      <4>1. CASE s = {}
        BY <4>1
      <4>2. CASE s # {}
        <5>1. g[s \ {Picked(s)}] \in Int
          BY <1>0, <2>1, <4>2
        <5> QED
          BY <1>0, <4>2, <5>1
      <4> QED
        BY <4>1, <4>2
    <3> HIDE DEF Sum
    <3> QED
      BY <3>1
  <2>3. ASSUME NEW s \in SUBSET D, Cardinality(s) <= n + 1 PROVE h[s] = Sum(h, s)
    <3>1. CASE s = {}
      BY <3>1
    <3>2. CASE s # {}
      <4> DEFINE r == s \ {Picked(s)}
      <4>1. r \in SUBSET D /\ Cardinality(r) <= n
        BY <1>0, <2>3, <3>2
      <4>2. g[r] = h[r]
        <5>1. g[r] = Sum(g, r) /\ h[r] = Sum(g, r)
          <6> HIDE DEF r, Sum
          <6> QED
            BY <2>1, <4>1
        <5> QED
          BY <5>1
      <4> QED
        BY <3>2, <4>2
    <3> QED
      BY <3>1, <3>2
  <2> HIDE DEF h, Sum
  <2> QED
    BY <2>2, <2>3
<1>3. Cardinality(D) \in Nat /\ \A s \in SUBSET D : Cardinality(s) <= Cardinality(D)
  <2>1. IsFiniteSet(D)
    BY BodyFacts, FS_Interval
  <2> HIDE DEF D
  <2> QED
    BY <2>1, FS_Subset, FS_CardinalityType
<1>4. Cardinality(D) \in A
  <2> HIDE DEF A
  <2> QED
    BY <1>1, <1>2, <1>3, SetInduction
<1>5. PICK g \in [SUBSET D -> Int] : \A s \in SUBSET D : g[s] = Sum(g, s)
  BY <1>3, <1>4
<1>6. g = [s \in SUBSET D |-> Sum(g, s)]
  <2> HIDE DEF Sum
  <2> QED
    BY <1>5
<1> QED
  BY <1>6 DEF Adds

LEMMA SumsUnfold ==
    ASSUME NEW body, IsBody(body), NEW s \in SUBSET DOMAIN body
    PROVE  Sums(body)[s] = IF s = {} THEN 0
                           ELSE Weighted(body, Picked(s)) + Sums(body)[s \ {Picked(s)}]
<1>1. Adds(Sums(body), body)
  BY SumsExist DEF Sums
<1> HIDE DEF Sums
<1> QED
  BY <1>1 DEF Adds

\* Whichever position is taken off, the sum is that of the others and it.
LEMMA SumWithout ==
    ASSUME NEW body, IsBody(body)
    PROVE  \A s \in SUBSET DOMAIN body :
               /\ Sums(body)[s] \in Int
               /\ \A x \in s : Sums(body)[s] = Weighted(body, x) + Sums(body)[s \ {x}]
<1> DEFINE D == DOMAIN body
           sum == Sums(body)
           Splits(s) == /\ sum[s] \in Int
                        /\ \A x \in s : sum[s] = Weighted(body, x) + sum[s \ {x}]
           A == {n \in Nat : \A s \in SUBSET D : Cardinality(s) <= n => Splits(s)}
<1>1. ASSUME NEW s \in SUBSET D
      PROVE  /\ sum[s] = IF s = {} THEN 0 ELSE Weighted(body, Picked(s)) + sum[s \ {Picked(s)}]
             /\ Cardinality(s) \in Nat /\ (Cardinality(s) = 0 <=> s = {})
             /\ \A x \in s : /\ s \ {x} \in SUBSET D /\ Weighted(body, x) \in Int
                             /\ Cardinality(s \ {x}) = Cardinality(s) - 1
  BY SumsUnfold, Positions, BodyFacts
<1>2. ASSUME NEW s \in SUBSET D, s # {} PROVE Picked(s) \in s
  BY <1>2 DEF Picked
<1> HIDE DEF D, sum
<1>3. 0 \in A
  <2> SUFFICES ASSUME NEW s \in SUBSET D, Cardinality(s) <= 0 PROVE Splits(s)
    OBVIOUS
  <2>1. Cardinality(s) \in Nat /\ (Cardinality(s) = 0 <=> s = {})
    BY <1>1
  <2>2. s = {}
    BY <2>1
  <2>3. sum[s] = 0
    BY <1>1, <2>2
  <2> QED
    BY <2>2, <2>3
<1>4. ASSUME NEW n \in Nat, n \in A PROVE n + 1 \in A
  <2> SUFFICES ASSUME NEW s \in SUBSET D, Cardinality(s) <= n + 1 PROVE Splits(s)
    OBVIOUS
  <2>1. ASSUME NEW r \in SUBSET D, Cardinality(r) <= n PROVE Splits(r)
    BY <1>4, <2>1
  <2>2. CASE s = {}
    <3>1. sum[s] = 0
      BY <1>1, <2>2
    <3> QED
      BY <2>2, <3>1
  <2>3. CASE s # {}
    <3> DEFINE y == Picked(s)
               r == s \ {y}
    <3>1. y \in s /\ sum[s] = Weighted(body, y) + sum[r]
      BY <1>1, <1>2, <2>3
    <3>2. /\ r \in SUBSET D /\ Weighted(body, y) \in Int
          /\ Cardinality(s) \in Nat /\ Cardinality(r) = Cardinality(s) - 1
      BY <1>1, <3>1
    <3> HIDE DEF y
    <3>3. Splits(r)
      <4>1. Cardinality(r) <= n
        BY <2>3, <3>2
      <4> HIDE DEF Splits, r
      <4> QED
        BY <2>1, <3>2, <4>1
    <3>4. sum[s] \in Int
      BY <3>1, <3>2, <3>3
    <3>5. ASSUME NEW x \in s, x # y PROVE sum[s] = Weighted(body, x) + sum[s \ {x}]
      <4> DEFINE q == s \ {x}
      <4>1. sum[r] = Weighted(body, x) + sum[r \ {x}]
        BY <3>3, <3>5
      <4>2. /\ q \in SUBSET D /\ Weighted(body, x) \in Int /\ Cardinality(q) = Cardinality(s) - 1
            /\ y \in q
        BY <1>1, <3>1, <3>5
      <4>3. Splits(q)
        <5>1. Cardinality(q) <= n
          BY <3>2, <4>2
        <5> HIDE DEF Splits, q
        <5> QED
          BY <2>1, <4>2, <5>1
      <4>4. sum[q] = Weighted(body, y) + sum[q \ {y}] /\ sum[q] \in Int
        BY <4>2, <4>3
      <4>5. q \ {y} = r \ {x}
        OBVIOUS
      <4>6. sum[q \ {y}] \in Int
        <5>1. q \ {y} \in SUBSET D /\ Cardinality(q \ {y}) <= n
          <6>1. q \ {y} \in SUBSET D /\ Cardinality(q \ {y}) = Cardinality(q) - 1
            BY <1>1, <4>2
          <6> QED
            BY <2>3, <3>2, <4>2, <6>1
        <5>2. Splits(q \ {y})
          <6> HIDE DEF Splits, q
          <6> QED
            BY <2>1, <5>1
        <5> QED
          BY <5>2
      <4> HIDE DEF q, r
      <4>7. sum[r] = Weighted(body, x) + sum[q \ {y}]
        BY <4>1, <4>5
      <4>8. sum[s] = Weighted(body, x) + sum[q]
        BY <3>1, <3>2, <4>2, <4>4, <4>6, <4>7
      <4> QED
        BY <4>8 DEF q
    <3> QED
      BY <3>1, <3>4, <3>5
  <2> QED
    BY <2>2, <2>3
<1>5. ASSUME NEW s \in SUBSET D PROVE Splits(s)
  <2>1. Cardinality(s) \in A
    <3>1. Cardinality(s) \in Nat
      BY <1>1
    <3> HIDE DEF A
    <3> QED
      BY <1>3, <1>4, <3>1, SetInduction
  <2>2. Cardinality(s) <= Cardinality(s)
    <3>1. Cardinality(s) \in Nat
      BY <1>1
    <3> QED
      BY <3>1
  <2> HIDE DEF Splits
  <2> QED
    BY <2>1, <2>2
<1> QED
  BY <1>5 DEF D, sum

Prefix(body, n) == Sums(body)[1..n]

LEMMA PrefixSum ==
    ASSUME NEW body, IsBody(body)
    PROVE  /\ Prefix(body, 0) = 0
           /\ \A n \in 0..Len(body) : Prefix(body, n) \in Int
           /\ \A n \in 1..Len(body) : Prefix(body, n) = Prefix(body, n - 1) + Weighted(body, n)
           /\ WeightedSum(body) = Prefix(body, Len(body))
<1>1. Len(body) \in Nat /\ DOMAIN body = 1..Len(body)
  BY BodyFacts
<1>2. Prefix(body, 0) = 0
  <2>1. 1..0 = {} /\ 1..0 \in SUBSET DOMAIN body
    OBVIOUS
  <2>2. Sums(body)[{}] = 0
    BY SumsUnfold
  <2> QED
    BY <2>1, <2>2 DEF Prefix
<1>3. ASSUME NEW n \in 0..Len(body) PROVE Prefix(body, n) \in Int
  <2>1. 1..n \in SUBSET DOMAIN body
    BY <1>1
  <2> QED
    BY <2>1, SumWithout DEF Prefix
<1>4. ASSUME NEW n \in 1..Len(body)
      PROVE  Prefix(body, n) = Prefix(body, n - 1) + Weighted(body, n)
  <2>1. n \in Nat /\ n - 1 \in 0..Len(body) /\ n \in 1..n
    BY <1>1
  <2>2. 1..n \in SUBSET DOMAIN body /\ (1..n) \ {n} = 1..(n - 1)
    BY <1>1, <2>1
  <2>3. Sums(body)[1..n] = Weighted(body, n) + Sums(body)[(1..n) \ {n}]
    BY <2>1, <2>2, SumWithout
  <2>4. Prefix(body, n) = Weighted(body, n) + Prefix(body, n - 1)
    BY <2>2, <2>3 DEF Prefix
  <2>5. Weighted(body, n) \in Int /\ Prefix(body, n - 1) \in Int
    BY <1>1, <1>3, <2>1, BodyFacts
  <2> QED
    BY <2>4, <2>5
<1>5. WeightedSum(body) = Prefix(body, Len(body))
  BY <1>1, WeightedSumIsSum DEF Prefix
<1> QED
  BY <1>2, <1>3, <1>4, <1>5

\* One digit changes the sum by its weight.
LEMMA ChangedDigit ==
    ASSUME NEW body, IsBody(body), NEW p \in 1..Len(body), NEW digit \in Int,
           NEW other, other = [body EXCEPT ![p] = digit]
    PROVE  WeightedSum(other) =
             WeightedSum(body) + (digit - body[p]) * WeightAt(p, Len(body))
<1> DEFINE len == Len(body)
           change == (digit - body[p]) * WeightAt(p, len)
           A == {n \in Nat : n <= len =>
                    Prefix(other, n) = Prefix(body, n) + IF n >= p THEN change ELSE 0}
<1>1. IsBody(other) /\ Len(other) = len /\ len \in Nat
  BY DEF IsBody
<1>2. /\ body[p] \in Int /\ WeightAt(p, len) \in Int /\ change \in Int
  <2>1. body[p] \in Int
    BY <1>1 DEF IsBody
  <2>2. WeightAt(p, len) \in {1, 3}
    BY DEF WeightAt
  <2> QED
    BY <2>1, <2>2
<1>3. ASSUME NEW n \in 1..len
      PROVE  Weighted(other, n) = Weighted(body, n) + IF n = p THEN change ELSE 0
  <2>1. Weighted(other, n) \in Int /\ Weighted(body, n) \in Int
    BY <1>1, BodyFacts
  <2>2. CASE n = p
    <3>1. other[n] = digit
      BY <1>1, <2>2 DEF IsBody
    <3> HIDE DEF len
    <3>2. /\ Weighted(other, n) = digit * WeightAt(p, len)
          /\ Weighted(body, n) = body[p] * WeightAt(p, len)
      BY <1>1, <2>2, <3>1 DEF Weighted, len
    <3>3. \A a, b, w \in Int : a * w = b * w + (a - b) * w
      OBVIOUS
    <3> QED
      BY <1>2, <2>2, <3>2, <3>3
  <2>3. CASE n # p
    <3>1. other[n] = body[n]
      BY <1>1, <2>3 DEF IsBody
    <3> QED
      BY <1>1, <2>1, <2>3, <3>1 DEF Weighted
  <2> QED
    BY <2>2, <2>3
<1>4. 0 \in A
  BY <1>1, PrefixSum
<1>5. ASSUME NEW n \in Nat, n \in A PROVE n + 1 \in A
  <2> SUFFICES ASSUME n + 1 <= len
               PROVE  Prefix(other, n + 1) =
                        Prefix(body, n + 1) + IF n + 1 >= p THEN change ELSE 0
    OBVIOUS
  <2>1. n + 1 \in 1..len /\ (n + 1) - 1 = n /\ n \in 0..len
    OBVIOUS
  <2>2. Prefix(other, n) = Prefix(body, n) + IF n >= p THEN change ELSE 0
    BY <1>5, <2>1
  <2>3. /\ Prefix(other, n + 1) = Prefix(other, n) + Weighted(other, n + 1)
        /\ Prefix(body, n + 1) = Prefix(body, n) + Weighted(body, n + 1)
        /\ Prefix(body, n) \in Int /\ Weighted(body, n + 1) \in Int
    BY <1>1, <2>1, PrefixSum, BodyFacts
  <2>4. Weighted(other, n + 1) = Weighted(body, n + 1) + IF n + 1 = p THEN change ELSE 0
    BY <1>3, <2>1
  <2> HIDE DEF change
  <2> QED
    BY <1>2, <2>1, <2>2, <2>3, <2>4
<1>6. len \in A
  <2> HIDE DEF A
  <2> QED
    BY <1>1, <1>4, <1>5, SetInduction
<1>7. Prefix(other, len) = Prefix(body, len) + change
  BY <1>1, <1>6
<1> QED
  BY <1>1, <1>7, PrefixSum

\* Zeros on the left weigh nothing and move no weight.
LEMMA PaddedSum ==
    ASSUME NEW body, IsBody(body), NEW z \in Nat, NEW padded, padded = Zeros(z) \o body
    PROVE  IsBody(padded) /\ Len(padded) = z + Len(body) /\ WeightedSum(padded) = WeightedSum(body)
<1> DEFINE len == Len(body)
           A == {n \in Nat : n <= z => Prefix(padded, n) = 0}
           B == {n \in Nat : n <= len => Prefix(padded, z + n) = Prefix(body, n)}
<1>1. Zeros(z) \in Seq(Int) /\ Len(Zeros(z)) = z /\ \A i \in 1..z : Zeros(z)[i] = 0
  BY DEF Zeros
<1>2. IsBody(padded) /\ Len(padded) = z + len /\ len \in Nat
  <2> DEFINE zeros == Zeros(z)
  <2>1. zeros \in Seq(Int) /\ body \in Seq(Int) /\ padded = zeros \o body /\ Len(zeros) = z
    BY <1>1 DEF IsBody
  <2> HIDE DEF zeros
  <2>2. \A s, t \in Seq(Int) : s \o t \in Seq(Int) /\ Len(s \o t) = Len(s) + Len(t)
    OBVIOUS
  <2>3. padded \in Seq(Int) /\ Len(padded) = Len(zeros) + Len(body)
    BY <2>1, <2>2
  <2> QED
    BY <2>1, <2>3 DEF IsBody
<1>3. ASSUME NEW i \in 1..z PROVE Weighted(padded, i) = 0
  <2>1. padded[i] = 0
    BY <1>1 DEF IsBody
  <2>2. WeightAt(i, Len(padded)) \in {1, 3}
    BY DEF WeightAt
  <2> QED
    BY <2>1, <2>2 DEF Weighted
<1>4. ASSUME NEW i \in 1..len PROVE Weighted(padded, z + i) = Weighted(body, i)
  <2>1. padded[z + i] = body[i]
    BY <1>1 DEF IsBody
  <2>2. (z + len) - (z + i) = len - i
    BY <1>2
  <2>3. WeightAt(z + i, Len(padded)) = WeightAt(i, len)
    BY <1>2, <2>2 DEF WeightAt
  <2> QED
    BY <2>1, <2>3 DEF Weighted
<1>5. \A n \in Nat : n \in A
  <2>1. 0 \in A
    BY <1>2, PrefixSum
  <2>2. ASSUME NEW n \in Nat, n \in A PROVE n + 1 \in A
    <3> SUFFICES ASSUME n + 1 <= z PROVE Prefix(padded, n + 1) = 0
      OBVIOUS
    <3>1. n + 1 \in 1..Len(padded) /\ n + 1 \in 1..z /\ (n + 1) - 1 = n
      BY <1>2
    <3>2. Prefix(padded, n + 1) = Prefix(padded, n) + Weighted(padded, n + 1)
      BY <1>2, <3>1, PrefixSum
    <3>3. Prefix(padded, n) = 0 /\ Weighted(padded, n + 1) = 0
      BY <1>3, <2>2, <3>1
    <3> QED
      BY <3>2, <3>3
  <2> HIDE DEF A
  <2> QED
    BY <2>1, <2>2, SetInduction
<1>6. \A n \in Nat : n \in B
  <2>1. 0 \in B
    <3>1. Prefix(padded, z) = 0
      BY <1>5
    <3> QED
      BY <3>1, PrefixSum
  <2>2. ASSUME NEW n \in Nat, n \in B PROVE n + 1 \in B
    <3> SUFFICES ASSUME n + 1 <= len PROVE Prefix(padded, z + (n + 1)) = Prefix(body, n + 1)
      OBVIOUS
    <3>1. /\ n + 1 \in 1..len /\ (n + 1) - 1 = n
          /\ z + (n + 1) \in 1..Len(padded) /\ (z + (n + 1)) - 1 = z + n
      BY <1>2
    <3>2. Prefix(padded, z + (n + 1)) = Prefix(padded, z + n) + Weighted(padded, z + (n + 1))
      BY <1>2, <3>1, PrefixSum
    <3>3. Prefix(body, n + 1) = Prefix(body, n) + Weighted(body, n + 1)
      BY <3>1, PrefixSum
    <3>4. Prefix(padded, z + n) = Prefix(body, n)
      BY <2>2, <3>1
    <3>5. Weighted(padded, z + (n + 1)) = Weighted(body, n + 1)
      BY <1>4, <3>1
    <3> QED
      BY <3>2, <3>3, <3>4, <3>5
  <2> HIDE DEF B
  <2> QED
    BY <2>1, <2>2, SetInduction
<1>7. Prefix(padded, z + len) = Prefix(body, len)
  BY <1>2, <1>6
<1> QED
  BY <1>2, <1>7, PrefixSum

-----------------------------------------------------------------------------
(* Barcodes                                                                *)

\* A digit that is off by less than ten, weighed 1 or 3, shows in the last
\* digit of the sum.
LEMMA LastDigit ==
    ASSUME NEW sum \in Int, NEW d \in -9..9, NEW w \in {1, 3},
           (10 - ((sum + d * w) % 10)) % 10 = (10 - (sum % 10)) % 10
    PROVE  d = 0
<1>1. (sum + d * w) % 10 = sum % 10
  <2> DEFINE a == (sum + d * w) % 10
             b == sum % 10
  <2>1. a \in 0..9 /\ b \in 0..9
    <3>1. sum + d * w \in Int
      OBVIOUS
    <3> QED
      BY <3>1
  <2>2. (10 - a) % 10 = (10 - b) % 10
    OBVIOUS
  <2> HIDE DEF a, b
  <2>3. \A c \in 0..9 : (10 - c) % 10 = IF c = 0 THEN 0 ELSE 10 - c
    OBVIOUS
  <2>4. a = b
    BY <2>1, <2>2, <2>3
  <2> QED
    BY <2>4 DEF a, b
<1>2. (d * w) % 10 = 0
  <2> DEFINE e == d * w
  <2>1. e \in Int
    OBVIOUS
  <2> HIDE DEF e
  <2> QED
    BY <1>1, <2>1 DEF e
<1>3. CASE w = 1
  BY <1>2, <1>3
<1>4. CASE w = 3
  BY <1>2, <1>4
<1> QED
  BY <1>3, <1>4

LEMMA CheckDigitIsDigit == \A body : IsBody(body) => ComputeCheckDigit(body) \in 0..9
<1> SUFFICES ASSUME NEW body, IsBody(body) PROVE ComputeCheckDigit(body) \in 0..9
  OBVIOUS
<1>1. WeightedSum(body) \in Int
  <2>1. Len(body) \in 0..Len(body)
    BY BodyFacts
  <2> QED
    BY <2>1, PrefixSum
<1>2. \A s \in Int : (10 - (s % 10)) % 10 \in 0..9
  OBVIOUS
<1> QED
  BY <1>1, <1>2 DEF ComputeCheckDigit

LEMMA SameNumbers ==
    ASSUME NEW s \in Seq(Int), NEW t \in Seq(Int), Len(s) = Len(t),
           \A i \in 1..Len(s) : s[i] = t[i]
    PROVE  s = t
OBVIOUS

\* r is s, of length a, and then t, of length b.
Joined(r, s, a, t, b) ==
    /\ r \in Seq(Int)
    /\ Len(r) = a + b
    /\ \A i \in 1..a : r[i] = s[i]
    /\ \A i \in 1..b : r[a + i] = t[i]

LEMMA Concatenated ==
    ASSUME NEW s \in Seq(Int), NEW t \in Seq(Int),
           NEW a \in Nat, Len(s) = a, NEW b \in Nat, Len(t) = b, NEW r, r = s \o t
    PROVE  Joined(r, s, a, t, b)
<1>1. s \o t \in Seq(Int) /\ Len(s \o t) = Len(s) + Len(t)
  OBVIOUS
<1>2. \A i \in 1..(Len(s) + Len(t)) :
        (s \o t)[i] = IF i <= Len(s) THEN s[i] ELSE t[i - Len(s)]
  BY ConcatProperties
<1>3. r \in Seq(Int) /\ Len(r) = a + b
  BY <1>1
<1>4. \A i \in 1..(a + b) : r[i] = IF i <= a THEN s[i] ELSE t[i - a]
  BY <1>2
<1>5. ASSUME NEW i \in 1..a PROVE r[i] = s[i]
  <2>1. i \in 1..(a + b) /\ i <= a
    OBVIOUS
  <2> QED
    BY <1>4, <2>1
<1>6. ASSUME NEW i \in 1..b PROVE r[a + i] = t[i]
  <2>1. a + i \in 1..(a + b) /\ ~(a + i <= a) /\ (a + i) - a = i
    OBVIOUS
  <2> QED
    BY <1>4, <2>1
<1> QED
  BY <1>3, <1>5, <1>6 DEF Joined

LEMMA Shortened ==
    ASSUME NEW s \in Seq(Int), NEW n \in Nat, Len(s) = n + 1
    PROVE  /\ SubSeq(s, 1, n) \in Seq(Int) /\ Len(SubSeq(s, 1, n)) = n
           /\ \A i \in 1..n : SubSeq(s, 1, n)[i] = s[i]
OBVIOUS

\* What padding does to a number but for its last digit.
Padding(padded, zeros, z, digits, n) ==
    /\ padded \in Seq(Int) /\ Len(padded) = (z + n) + 1
    /\ padded[(z + n) + 1] = digits[n + 1]
    /\ SubSeq(padded, 1, z + n) = zeros \o SubSeq(digits, 1, n)

LEMMA PaddedBody ==
    ASSUME NEW n \in Nat, NEW digits \in Seq(Int), Len(digits) = n + 1,
           NEW z \in Nat, NEW zeros \in Seq(Int), Len(zeros) = z,
           NEW padded, padded = zeros \o digits
    PROVE  Padding(padded, zeros, z, digits, n)
<1> DEFINE body == SubSeq(digits, 1, n)
           rest == SubSeq(padded, 1, z + n)
           other == zeros \o body
<1>1. /\ padded \in Seq(Int) /\ Len(padded) = (z + n) + 1
      /\ \A i \in 1..z : padded[i] = zeros[i]
      /\ \A i \in 1..(n + 1) : padded[z + i] = digits[i]
  <2>1. PICK b \in Nat : b = n + 1 /\ z + b = (z + n) + 1
    OBVIOUS
  <2>2. Len(digits) = b
    BY <2>1
  <2>3. Joined(padded, zeros, z, digits, b)
    BY <2>2, Concatenated
  <2> QED
    BY <2>1, <2>3 DEF Joined
<1>2. padded[(z + n) + 1] = digits[n + 1]
  <2>1. n + 1 \in 1..(n + 1) /\ z + (n + 1) = (z + n) + 1
    OBVIOUS
  <2> QED
    BY <1>1, <2>1
<1>3. body \in Seq(Int) /\ Len(body) = n /\ \A i \in 1..n : body[i] = digits[i]
  BY Shortened
<1> HIDE DEF body
<1>4. /\ rest \in Seq(Int) /\ Len(rest) = z + n
      /\ \A i \in 1..(z + n) : rest[i] = padded[i]
  BY <1>1, Shortened
<1> HIDE DEF rest
<1>5. /\ other \in Seq(Int) /\ Len(other) = z + n
      /\ \A i \in 1..z : other[i] = zeros[i]
      /\ \A i \in 1..n : other[z + i] = body[i]
  <2>1. other = zeros \o body
    OBVIOUS
  <2> HIDE DEF other
  <2>2. Joined(other, zeros, z, body, n)
    BY <1>3, <2>1, Concatenated
  <2> QED
    BY <2>2 DEF Joined
<1> HIDE DEF other
<1>6. ASSUME NEW i \in 1..(z + n) PROVE rest[i] = other[i]
  <2>1. CASE i <= z
    <3>1. i \in 1..z
      BY <2>1
    <3> QED
      BY <1>1, <1>4, <1>5, <3>1
  <2>2. CASE i > z
    <3>1. i - z \in 1..n /\ i - z \in 1..(n + 1) /\ z + (i - z) = i
      BY <2>2
    <3>2. padded[z + (i - z)] = digits[i - z] /\ other[z + (i - z)] = body[i - z]
      BY <1>1, <1>5, <3>1
    <3> QED
      BY <1>3, <1>4, <3>1, <3>2
  <2> QED
    BY <2>1, <2>2
<1>7. rest = other
  BY <1>4, <1>5, <1>6, SameNumbers
<1> QED
  BY <1>1, <1>2, <1>7 DEF Padding, rest, other, body

\* Padding does not change whether a number is valid.
LEMMA PaddedIsAsValid ==
    ASSUME NEW digits \in Seq(Int), NEW n \in Nat, Len(digits) = n + 1, n \in {7, 11, 12, 13}
    PROVE  ValidateCheckDigit(ToGtin14(digits)) <=> ValidateCheckDigit(digits)
<1>1. Len(digits) = n + 1 /\ Len(digits) \in ValidLength
  BY DEF ValidLength
<1>2. PICK z \in Nat : z = 14 - Len(digits) /\ z + n = 13
  BY <1>1
<1> DEFINE zeros == Zeros(z)
           padded == zeros \o digits
           body == SubSeq(digits, 1, n)
           rest == SubSeq(padded, 1, 13)
<1>3. zeros \in Seq(Int) /\ Len(zeros) = z
  BY DEF Zeros
<1>4. IsBody(body) /\ Len(body) = n
  BY <1>1, Shortened DEF IsBody
<1> HIDE DEF zeros
<1>5. /\ padded \in Seq(Int) /\ Len(padded) = 14 /\ padded[14] = digits[n + 1]
      /\ rest = zeros \o body
  <2>1. (z + n) + 1 = 14 /\ z + n = 13
    BY <1>2
  <2>2. /\ padded \in Seq(Int) /\ Len(padded) = (z + n) + 1
        /\ padded[(z + n) + 1] = digits[n + 1]
        /\ SubSeq(padded, 1, z + n) = zeros \o body
    <3>1. padded = zeros \o digits
      OBVIOUS
    <3> HIDE DEF padded
    <3>2. Padding(padded, zeros, z, digits, n)
      BY <1>1, <1>3, <3>1, PaddedBody
    <3> QED
      BY <3>2 DEF Padding
  <2> HIDE DEF padded, body
  <2> QED
    BY <2>1, <2>2
<1> HIDE DEF padded, rest, body
<1>6. WeightedSum(rest) = WeightedSum(body)
  BY <1>4, <1>5, PaddedSum DEF zeros
<1>7. ToGtin14(digits) = padded
  BY <1>2 DEF ToGtin14, padded, zeros
<1>8. ValidateCheckDigit(padded) <=> ComputeCheckDigit(rest) = padded[14]
  <2>1. Len(padded) - 1 = 13 /\ Len(padded) \in ValidLength
    BY <1>5 DEF ValidLength
  <2> QED
    BY <1>5, <2>1 DEF ValidateCheckDigit, rest
<1>9. ValidateCheckDigit(digits) <=> ComputeCheckDigit(body) = digits[n + 1]
  <2>1. Len(digits) - 1 = n
    BY <1>1
  <2> QED
    BY <1>1, <2>1 DEF ValidateCheckDigit, body
<1> QED
  BY <1>5, <1>6, <1>7, <1>8, <1>9 DEF ComputeCheckDigit

LEMMA CodeHolds ==
    ASSUME NEW t \in CodeTrial, trial = t
    PROVE  MisreadDigitIsNoticed
<1> DEFINE code == t.code
           check == ComputeCheckDigit(code)
           whole == Append(code, check)
           k == Len(code)
           n == k + 1
           p == t.position
           m == t.misread
           wrong == [whole EXCEPT ![p] = m]
           body == SubSeq(wrong, 1, k)
<1>1. code \in Seq(0..9) /\ k \in {7, 11, 12, 13} /\ p \in 1..n /\ m \in 0..9
  <2>1. t.code \in Code /\ t.position \in 1..14 /\ t.misread \in 0..9
    BY DEF CodeTrial, Digit
  <2>2. n \in ValidLength /\ p <= n
    BY DEF CodeTrial
  <2>3. code \in Seq(Digit)
    BY <2>1, PrintedAssumption
  <2>4. k \in Nat
    BY <2>3
  <2>5. k \in {7, 11, 12, 13}
    <3> HIDE DEF k
    <3> QED
      BY <2>2, <2>4 DEF ValidLength
  <2>6. p \in 1..n
    BY <2>1, <2>2, <2>4
  <2> QED
    BY <2>1, <2>3, <2>5, <2>6 DEF Digit
<1>2. IsBody(code) /\ check \in 0..9
  <2>1. \A s \in Seq(0..9) : s \in Seq(Int)
    OBVIOUS
  <2> HIDE DEF code
  <2>2. IsBody(code)
    BY <1>1, <2>1 DEF IsBody
  <2> QED
    BY <2>2, CheckDigitIsDigit
<1>0. k \in Nat /\ n \in Nat /\ n \in ValidLength /\ n \in 1..n /\ n - 1 = k
  <2> HIDE DEF k
  <2> QED
    BY <1>1 DEF ValidLength
<1> HIDE DEF check, p, m
<1>3. /\ whole \in Seq(Int) /\ Len(whole) = n /\ whole[n] = check
      /\ \A i \in 1..k : whole[i] = code[i]
  BY <1>1, <1>2
<1> HIDE DEF whole
<1>4. /\ wrong \in Seq(Int) /\ Len(wrong) = n
      /\ \A i \in 1..n : wrong[i] = IF i = p THEN m ELSE whole[i]
  BY <1>1, <1>3
<1>5. wrong = whole <=> m = whole[p]
  <2> HIDE DEF wrong, n
  <2>1. wrong[p] = m
    BY <1>1, <1>4
  <2>2. ASSUME m = whole[p] PROVE wrong = whole
    <3>1. \A i \in 1..n : wrong[i] = whole[i]
      BY <1>4, <2>2
    <3> QED
      BY <1>3, <1>4, <3>1, SameNumbers
  <2> QED
    BY <2>1, <2>2
<1> HIDE DEF wrong
<1>6. ValidateCheckDigit(wrong) <=> ComputeCheckDigit(body) = wrong[n]
  BY <1>0, <1>4 DEF ValidateCheckDigit
<1>7. body \in Seq(Int) /\ Len(body) = k /\ \A i \in 1..k : body[i] = wrong[i]
  BY <1>0, <1>4, Shortened
<1>8. ValidateCheckDigit(wrong) <=> wrong = whole
  <2>1. CASE p = n
    <3>1. body = code
      <4> HIDE DEF body, code, k
      <4>1. ASSUME NEW i \in 1..k PROVE body[i] = code[i]
        <5>1. i \in 1..n /\ i # n
          BY <1>0
        <5> HIDE DEF n
        <5>2. body[i] = wrong[i] /\ wrong[i] = whole[i] /\ whole[i] = code[i]
          BY <1>3, <1>4, <1>7, <2>1, <5>1
        <5> QED
          BY <5>2
      <4>2. code \in Seq(Int) /\ Len(code) = k
        BY <1>2 DEF IsBody, k
      <4> QED
        BY <1>7, <4>1, <4>2, SameNumbers
    <3>2. wrong[n] = m /\ whole[p] = check
      BY <1>1, <1>3, <1>4, <2>1
    <3> QED
      BY <1>5, <1>6, <3>1, <3>2 DEF check
  <2>2. CASE p # n
    <3>0. p \in 1..Len(code)
      BY <1>1, <2>2
    <3>1. body = [code EXCEPT ![p] = m]
      <4> DEFINE other == [code EXCEPT ![p] = m]
      <4>1. /\ other \in Seq(Int) /\ Len(other) = k
            /\ \A i \in 1..k : other[i] = IF i = p THEN m ELSE code[i]
        <5>1. code \in Seq(Int) /\ m \in Int
          BY <1>1, <1>2 DEF IsBody
        <5> HIDE DEF code
        <5>2. other \in Seq(Int) /\ Len(other) = Len(code)
          BY <3>0, <5>1, ExceptSeq
        <5>3. ASSUME NEW i \in 1..k PROVE other[i] = IF i = p THEN m ELSE code[i]
          BY <5>1
        <5> QED
          BY <5>2, <5>3
      <4> HIDE DEF body, other, code, k
      <4>2. ASSUME NEW i \in 1..k PROVE body[i] = other[i]
        <5>1. i \in 1..n
          BY <1>0
        <5> HIDE DEF n
        <5>2. /\ body[i] = wrong[i] /\ whole[i] = code[i]
              /\ wrong[i] = IF i = p THEN m ELSE whole[i]
              /\ other[i] = IF i = p THEN m ELSE code[i]
          BY <1>3, <1>4, <1>7, <4>1, <5>1
        <5> QED
          BY <5>2
      <4>3. body = other
        BY <1>7, <4>1, <4>2, SameNumbers
      <4> QED
        BY <4>3 DEF other
    <3>2. wrong[n] = check /\ whole[p] = code[p]
      BY <1>0, <1>3, <1>4, <2>2, <3>0
    <3>3. code[p] \in 0..9 /\ m \in Int
      BY <1>1, <3>0
    <3> DEFINE d == m - code[p]
               w == WeightAt(p, Len(code))
    <3>4. WeightedSum(body) = WeightedSum(code) + d * w
      <4> HIDE DEF body
      <4> QED
        BY <1>2, <3>0, <3>1, <3>3, ChangedDigit
    <3>5. d \in -9..9 /\ w \in {1, 3}
      <4>1. w \in {1, 3}
        BY DEF WeightAt
      <4>2. m \in 0..9
        BY <1>1
      <4>3. \A a, b \in 0..9 : a - b \in -9..9
        OBVIOUS
      <4> HIDE DEF w, code
      <4> QED
        BY <3>3, <4>1, <4>2, <4>3
    <3>6. WeightedSum(code) \in Int
      <4>1. Len(code) \in 0..Len(code)
        BY <1>2, BodyFacts
      <4> QED
        BY <1>2, <4>1, PrefixSum
    <3> HIDE DEF body, d, w
    <3>7. ComputeCheckDigit(body) = check <=> d = 0
      <4>1. ASSUME ComputeCheckDigit(body) = check PROVE d = 0
        BY <3>4, <3>5, <3>6, <4>1, LastDigit DEF ComputeCheckDigit, check
      <4>2. ASSUME d = 0 PROVE ComputeCheckDigit(body) = check
        <5>1. WeightedSum(body) = WeightedSum(code)
          BY <3>4, <3>5, <3>6, <4>2
        <5> QED
          BY <5>1 DEF ComputeCheckDigit, check
      <4> QED
        BY <4>1, <4>2
    <3>8. d = 0 <=> m = code[p]
      <4>1. \A a, b \in Int : a - b = 0 <=> a = b
        OBVIOUS
      <4>2. m \in Int /\ code[p] \in Int
        <5> HIDE DEF code
        <5> QED
          BY <3>3
      <4> QED
        BY Zenon, <4>1, <4>2 DEF d
    <3>9. wrong = whole <=> m = code[p]
      BY Zenon, <1>5, <3>2
    <3>10. ValidateCheckDigit(wrong) <=> ComputeCheckDigit(body) = check
      BY Zenon, <1>6, <3>2
    <3> QED
      BY Zenon, <3>7, <3>8, <3>9, <3>10
  <2> QED
    BY <2>1, <2>2
<1>9. ValidateCheckDigit(ToGtin14(wrong)) <=> ValidateCheckDigit(wrong)
  BY <1>0, <1>1, <1>4, PaddedIsAsValid
<1> QED
  BY <1>8, <1>9 DEF MisreadDigitIsNoticed, wrong, whole, check, code, p, m

-----------------------------------------------------------------------------
(* Units                                                                   *)

LEMMA Factors ==
    \A u \in Unit : UnitTable[u].num \in Nat /\ UnitTable[u].den \in Nat
BY SMTT(60) DEF Unit, UnitTable, Factor

LEMMA UnitIsNormal == \A written : IsUnit(written) => NormaliseUnit(written) \in Unit
<1>1. DOMAIN Spellings \subseteq Unit
  BY SMTT(60) DEF Spellings, Unit, UnitTable
<1>2. ASSUME NEW written, IsUnit(written), written \notin Unit
      PROVE  NormaliseUnit(written) \in DOMAIN Spellings
  BY <1>2 DEF IsUnit, NormaliseUnit
<1> QED
  BY <1>1, <1>2 DEF NormaliseUnit

\* The factors agree with what the units consist of.
LEMMA ConsistsFactors ==
    \A u \in DOMAIN Consists :
        /\ Consists[u].many \in Nat /\ Consists[u].of \in Unit
        /\ UnitTable[Consists[u].of].dimension = UnitTable[u].dimension
        /\ UnitTable[u].num * UnitTable[Consists[u].of].den =
              (Consists[u].many * UnitTable[Consists[u].of].num) * UnitTable[u].den
BY SMTT(120) DEF Consists, Unit, UnitTable, Factor

LEMMA UnitHolds ==
    ASSUME NEW t \in UnitTrial, trial = t
    PROVE  SameContentsSameQuantity
<1> DEFINE u == NormaliseUnit(t.unit)
           amount == t.pieces * t.each
           total == Quantity(amount, t.unit)
           part == Consists[u]
<1>1. amount \in Nat /\ u \in Unit
  <2>1. t.pieces \in Amount /\ t.each \in Amount /\ t.unit \in Printed
    BY DEF UnitTrial
  <2>2. t.pieces \in Nat /\ t.each \in Nat
    BY <2>1, AmountAssumption
  <2>3. u \in Unit
    BY <2>1, PrintedAssumption, UnitIsNormal
  <2> QED
    BY <2>2, <2>3
<1>2. SameContents(total, Multipiece(t.pieces, t.each, t.unit))
  BY DEF Multipiece, SameContents, SameAmount
<1>3. ASSUME u \in DOMAIN Consists
      PROVE  /\ SameContents(total, Quantity(amount * part.many, part.of))
             /\ SameContents(total, Multipiece(amount, part.many, part.of))
  <2>1. /\ part.many \in Nat /\ part.of \in Unit
        /\ UnitTable[part.of].dimension = UnitTable[u].dimension
        /\ UnitTable[u].num * UnitTable[part.of].den =
              (part.many * UnitTable[part.of].num) * UnitTable[u].den
    BY <1>3, ConsistsFactors
  <2>2. NormaliseUnit(part.of) = part.of
    BY <2>1 DEF NormaliseUnit
  <2>3. PICK n, d, on, od, many \in Nat :
          /\ n = UnitTable[u].num /\ d = UnitTable[u].den
          /\ on = UnitTable[part.of].num /\ od = UnitTable[part.of].den
          /\ many = part.many
    BY <1>1, <2>1, Factors
  <2> DEFINE parts == Quantity(amount * part.many, part.of)
  <2>4. /\ total.base = [num |-> amount * n, den |-> d]
        /\ total.dimension = UnitTable[u].dimension
    BY <2>3 DEF Quantity
  <2>5. /\ parts.base = [num |-> (amount * many) * on, den |-> od]
        /\ parts.dimension = UnitTable[part.of].dimension
    BY <2>2, <2>3 DEF Quantity
  <2>6. (amount * n) * od = ((amount * many) * on) * d
    <3>1. n * od = (many * on) * d
      BY <2>1, <2>3
    <3>2. ASSUME NEW a \in Nat PROVE (a * n) * od = ((a * many) * on) * d
      <4>1. (a * n) * od = a * (n * od) /\ ((a * many) * on) * d = a * ((many * on) * d)
        OBVIOUS
      <4> QED
        BY <3>1, <4>1
    <3> HIDE DEF amount
    <3> QED
      BY <1>1, <3>2
  <2> HIDE DEF total, parts
  <2>7. SameContents(total, parts)
    BY <2>1, <2>4, <2>5, <2>6 DEF SameContents, SameAmount
  <2> QED
    <3>1. Multipiece(amount, part.many, part.of) = Quantity(amount * part.many, part.of)
      BY DEF Multipiece
    <3> HIDE DEF amount, part
    <3> QED
      BY Zenon, <2>7, <3>1 DEF parts
<1> QED
  BY <1>2, <1>3 DEF SameContentsSameQuantity

-----------------------------------------------------------------------------
(* Codes of jurisdictions                                                  *)

\* f takes the steps one after the other, from start.
Follows(f, v, start, step, n) ==
    /\ f \in [0..n -> v]
    /\ f[0] = start
    /\ \A i \in 1..n : f[i] = step[i][f[i - 1]]

LEMMA StepsCanBeFollowed ==
    ASSUME NEW v, NEW start \in v, NEW n \in Nat, NEW step \in [1..n -> [v -> v]]
    PROVE  \E f : Follows(f, v, start, step, n)
<1> DEFINE A == {k \in Nat : k <= n => \E f : Follows(f, v, start, step, k)}
<1>1. 0 \in A
  <2>1. Follows([i \in 0..0 |-> start], v, start, step, 0)
    BY DEF Follows
  <2> QED
    BY <2>1
<1>2. ASSUME NEW k \in Nat, k \in A PROVE k + 1 \in A
  <2> SUFFICES ASSUME k + 1 <= n PROVE \E f : Follows(f, v, start, step, k + 1)
    OBVIOUS
  <2>1. PICK f : Follows(f, v, start, step, k)
    BY <1>2
  <2> DEFINE g == [i \in 0..(k + 1) |-> IF i = k + 1 THEN step[k + 1][f[k]] ELSE f[i]]
  <2>2. f[k] \in v /\ k + 1 \in 1..n
    BY <2>1 DEF Follows
  <2>3. step[k + 1] \in [v -> v]
    BY <2>2
  <2>4. step[k + 1][f[k]] \in v
    BY <2>2, <2>3
  <2>5. g \in [0..(k + 1) -> v]
    BY <2>1, <2>4 DEF Follows
  <2>6. g[0] = start
    BY <2>1 DEF Follows
  <2>7. ASSUME NEW i \in 1..(k + 1) PROVE g[i] = step[i][g[i - 1]]
    <3>1. CASE i = k + 1
      BY <3>1
    <3>2. CASE i # k + 1
      BY <2>1, <3>2 DEF Follows
    <3> QED
      BY <3>1, <3>2
  <2> HIDE DEF g
  <2> QED
    BY <2>5, <2>6, <2>7 DEF Follows
<1>3. n \in A
  <2> HIDE DEF A
  <2> QED
    BY <1>1, <1>2, SetInduction
<1> QED
  BY <1>3

\* Letters, with those that matter named: the provers know of none that it is a
\* string.
Symbol  == STRING \cup {"A", "B", Separator}
Letters == Seq(Symbol)

\* The segments with one letter more, and what Segments has after each letter.
Read(segments, letter) ==
    IF letter = Separator THEN Append(segments, << >>)
    ELSE [segments EXCEPT ![Len(segments)] = Append(@, letter)]

SplitBy(f, code) ==
    f = [n \in 0..Len(code) |-> IF n = 0 THEN << << >> >> ELSE Read(f[n - 1], code[n])]

Split(code) == CHOOSE f : SplitBy(f, code)

LEMMA SegmentsAreSplit == \A code : Segments(code) = Split(code)[Len(code)]
BY DEF Segments, Split, SplitBy, Read

LEMMA ReadIsSegments ==
    ASSUME NEW segments \in Seq(Letters), NEW letter \in Symbol
    PROVE  Read(segments, letter) \in Seq(Letters)
<1>1. CASE letter = Separator
  <2>1. << >> \in Letters
    BY DEF Letters
  <2> HIDE DEF Letters
  <2> QED
    BY <1>1, <2>1 DEF Read
<1>2. CASE letter # Separator
  <2> DEFINE k == Len(segments)
  <2>1. k \in Nat /\ DOMAIN segments = 1..k
    OBVIOUS
  <2>2. CASE k = 0
    <3>1. [segments EXCEPT ![k] = Append(@, letter)] = segments
      BY <2>1, <2>2
    <3> QED
      BY <1>2, <3>1 DEF Read
  <2>3. CASE k # 0
    <3>1. k \in 1..k /\ segments[k] \in Letters
      BY <2>1, <2>3
    <3>2. Append(segments[k], letter) \in Letters
      BY <3>1, AppendProperties DEF Letters
    <3> DEFINE new == Append(segments[k], letter)
    <3>3. [segments EXCEPT ![k] = new] \in Seq(Letters)
      <4> HIDE DEF new
      <4> QED
        BY <3>1, <3>2, ExceptSeq DEF new
    <3> QED
      BY <1>2, <3>3 DEF Read
  <2> QED
    BY <2>2, <2>3
<1> QED
  BY <1>1, <1>2

LEMMA SplitUnfold ==
    ASSUME NEW code \in Letters
    PROVE  /\ Split(code)[0] = << << >> >>
           /\ \A n \in 0..Len(code) : Split(code)[n] \in Seq(Letters)
           /\ \A n \in 1..Len(code) : Split(code)[n] = Read(Split(code)[n - 1], code[n])
<1> DEFINE len == Len(code)
           V == Seq(Letters)
           start == << << >> >>
           step == [n \in 1..len |-> [v \in V |-> Read(v, code[n])]]
<1>1. len \in Nat /\ \A n \in 1..len : code[n] \in Symbol
  BY DEF Letters
<1>2. start \in V
  BY DEF Letters
<1>3. step \in [1..len -> [V -> V]]
  BY <1>1, ReadIsSegments
<1> HIDE DEF V, start
<1>4. PICK f : Follows(f, V, start, step, len)
  <2> HIDE DEF step, len
  <2> QED
    BY <1>1, <1>2, <1>3, StepsCanBeFollowed
<1>5. ASSUME NEW n \in 1..len PROVE f[n] = Read(f[n - 1], code[n])
  <2>1. n - 1 \in 0..len
    BY <1>1
  <2>2. f[n - 1] \in V
    BY <1>4, <2>1 DEF Follows
  <2>3. f[n] = step[n][f[n - 1]]
    BY <1>4 DEF Follows
  <2> QED
    BY <2>2, <2>3
<1>6. SplitBy(f, code)
  <2>1. f = [n \in 0..len |-> f[n]] /\ f[0] = start
    BY <1>4 DEF Follows
  <2>2. ASSUME NEW n \in 0..len
        PROVE  f[n] = IF n = 0 THEN << << >> >> ELSE Read(f[n - 1], code[n])
    <3>1. CASE n = 0
      BY <2>1, <3>1 DEF start
    <3>2. CASE n # 0
      <4>1. n \in 1..len
        BY <1>1, <3>2
      <4> QED
        BY <1>5, <3>2, <4>1
    <3> QED
      BY <3>1, <3>2
  <2> HIDE DEF len
  <2> QED
    BY <2>1, <2>2 DEF SplitBy, len
<1>7. SplitBy(Split(code), code)
  BY <1>6 DEF Split
<1> HIDE DEF len, step
<1> DEFINE s == Split(code)
<1>8. s[0] = start /\ \A n \in 1..len : s[n] = Read(s[n - 1], code[n])
  <2> HIDE DEF s
  <2>1. SplitBy(s, code)
    BY <1>7 DEF s
  <2>2. s[0] = start
    BY <1>1, <2>1 DEF SplitBy, start, len
  <2>3. ASSUME NEW n \in 1..len PROVE s[n] = Read(s[n - 1], code[n])
    BY <1>1, <2>1 DEF SplitBy, len
  <2> QED
    BY <2>2, <2>3
<1> HIDE DEF s
<1> DEFINE A == {n \in Nat : n <= len => s[n] \in V}
<1>9. 0 \in A
  BY <1>2, <1>8
<1>10. ASSUME NEW n \in Nat, n \in A PROVE n + 1 \in A
  <2> SUFFICES ASSUME n + 1 <= len PROVE s[n + 1] \in V
    OBVIOUS
  <2>1. n + 1 \in 1..len /\ (n + 1) - 1 = n /\ n <= len
    BY <1>1
  <2>2. s[n + 1] = Read(s[n], code[n + 1]) /\ s[n] \in V
    BY <1>8, <1>10, <2>1
  <2> QED
    BY <1>1, <2>1, <2>2, ReadIsSegments DEF V
<1>11. \A n \in Nat : n \in A
  <2> HIDE DEF A
  <2> QED
    BY <1>9, <1>10, SetInduction
<1> QED
  BY <1>1, <1>8, <1>11 DEF s, V, start, len

\* What Join has after each segment.
Add(before, part) ==
    IF part = << >> THEN before
    ELSE IF before = << >> THEN part
    ELSE before \o <<Separator>> \o part

JoinBy(f, segments) ==
    f = [n \in 0..Len(segments) |-> IF n = 0 THEN << >> ELSE Add(f[n - 1], Part(segments[n]))]

Joins(segments) == CHOOSE f : JoinBy(f, segments)

LEMMA JoinIsJoins == \A segments : Join(segments) = Joins(segments)[Len(segments)]
BY DEF Join, Joins, JoinBy, Add

LEMMA AddIsLetters ==
    ASSUME NEW before \in Letters, NEW part \in Letters
    PROVE  Add(before, part) \in Letters
<1>1. <<Separator>> \in Seq(Symbol)
  <2>1. Separator \in Symbol
    BY DEF Symbol
  <2> QED
    BY <2>1
<1> DEFINE sep == <<Separator>>
<1> HIDE DEF sep
<1>2. before \o sep \in Seq(Symbol)
  BY <1>1, ConcatProperties DEF Letters, sep
<1>3. (before \o sep) \o part \in Seq(Symbol)
  BY <1>2, ConcatProperties DEF Letters
<1> QED
  BY <1>3 DEF Add, Letters, sep

LEMMA UpperIsSymbol == \A letter \in Symbol : Upper(letter) \in Symbol
<1>1. DOMAIN UpperOf = {"a", "b"} /\ UpperOf["a"] = "A" /\ UpperOf["b"] = "B"
  BY DEF UpperOf
<1>2. "A" \in Symbol /\ "B" \in Symbol
  BY DEF Symbol
<1>3. \A letter \in DOMAIN UpperOf : UpperOf[letter] \in Symbol
  BY <1>1, <1>2
<1> QED
  BY <1>3 DEF Upper

LEMMA ExtremesExist ==
    ASSUME NEW n \in Nat, NEW s \in SUBSET (1..n), s # {}
    PROVE  /\ Min(s) \in s /\ \A i \in s : Min(s) <= i
           /\ Max(s) \in s /\ \A i \in s : i <= Max(s)
<1>1. \E i \in s : \A j \in s : i <= j
  <2>1. s \subseteq Nat
    OBVIOUS
  <2> QED
    BY <2>1, LeastNatural
<1>2. \E i \in s : \A j \in s : i >= j
  <2> DEFINE mirror == {n - i : i \in s}
  <2>1. mirror \subseteq Nat /\ mirror # {}
    <3>1. \A i \in s : i \in 1..n
      OBVIOUS
    <3>2. \A i \in 1..n : n - i \in Nat
      OBVIOUS
    <3>3. \A i \in s : n - i \in Nat
      BY <3>1, <3>2
    <3> QED
      BY <3>3
  <2>2. PICK m \in mirror : \A k \in mirror : m <= k
    <3> HIDE DEF mirror
    <3> QED
      BY <2>1, LeastNatural
  <2>3. PICK i \in s : m = n - i
    BY <2>2
  <2>4. ASSUME NEW j \in s PROVE i >= j
    <3>1. n - i <= n - j
      BY <2>2, <2>3
    <3> QED
      BY <3>1
  <2> QED
    BY <2>4
<1> QED
  BY <1>1, <1>2 DEF Min, Max

\* A segment after strip.
Stripped(p) == p # << >> => p[1] # Blank /\ p[Len(p)] # Blank

LEMMA StripFacts ==
    ASSUME NEW segment \in Letters
    PROVE  /\ Strip(segment) \in Letters
           /\ Stripped(Strip(segment))
           /\ \A i \in 1..Len(Strip(segment)) :
                 \E j \in 1..Len(segment) : Strip(segment)[i] = segment[j]
<1> DEFINE printed == {i \in DOMAIN segment : segment[i] # Blank}
           n == Len(segment)
<1>1. n \in Nat /\ DOMAIN segment = 1..n /\ printed \in SUBSET (1..n)
  BY DEF Letters
<1>2. CASE printed = {}
  <2>1. Strip(segment) = << >>
    BY <1>2 DEF Strip
  <2>2. << >> \in Letters /\ Len(<< >>) = 0
    BY DEF Letters
  <2>3. 1..Len(Strip(segment)) = {}
    BY <2>1, <2>2
  <2>4. Strip(segment) \in Letters /\ Stripped(Strip(segment))
    BY <2>1, <2>2 DEF Stripped
  <2> QED
    BY <2>3, <2>4
<1>3. CASE printed # {}
  <2> DEFINE a == Min(printed)
             b == Max(printed)
             r == SubSeq(segment, a, b)
  <2>1. a \in printed /\ b \in printed /\ a <= b
    <3> HIDE DEF printed, n
    <3> QED
      BY <1>1, <1>3, ExtremesExist
  <2>2. a \in 1..n /\ b \in 1..n /\ segment[a] # Blank /\ segment[b] # Blank
    BY <1>1, <2>1
  <2>3. Strip(segment) = r
    BY <1>3 DEF Strip
  <2> HIDE DEF a, b, printed, n
  <2>4. r \in Letters /\ Len(r) = (b - a) + 1 /\ \A i \in 1..((b - a) + 1) : r[i] = segment[(a + i) - 1]
    <3>1. segment \in Seq(Symbol) /\ a \in 1..(Len(segment) + 1) /\ b \in (a - 1)..Len(segment)
      BY <1>1, <2>1, <2>2 DEF Letters, n
    <3>2. /\ r \in Seq(Symbol)
          /\ Len(r) = IF a <= b THEN (b - a) + 1 ELSE 0
      BY <3>1, SubSeqProperties
    <3>3. ASSUME NEW i \in 1..((b - a) + 1) PROVE r[i] = segment[(a + i) - 1]
      BY <1>1, <2>1, <2>2, <3>1
    <3> QED
      BY <2>1, <3>2, <3>3 DEF Letters
  <2> HIDE DEF r
  <2>5. r[1] = segment[a] /\ r[Len(r)] = segment[b]
    <3>1. 1 \in 1..((b - a) + 1) /\ (b - a) + 1 \in 1..((b - a) + 1)
      BY <1>1, <2>1, <2>2
    <3>2. (a + 1) - 1 = a /\ (a + ((b - a) + 1)) - 1 = b
      BY <1>1, <2>2
    <3>3. r[1] = segment[(a + 1) - 1] /\ r[(b - a) + 1] = segment[(a + ((b - a) + 1)) - 1]
      BY <2>4, <3>1
    <3> QED
      BY <2>4, <3>2, <3>3
  <2>6. ASSUME NEW i \in 1..Len(r) PROVE \E j \in 1..n : r[i] = segment[j]
    <3>1. i \in 1..((b - a) + 1)
      BY <2>4
    <3>2. (a + i) - 1 \in 1..n
      BY <1>1, <2>1, <2>2, <3>1
    <3>3. r[i] = segment[(a + i) - 1]
      BY <2>4, <3>1
    <3> QED
      BY <3>2, <3>3
  <2> QED
    BY <2>2, <2>3, <2>4, <2>5, <2>6 DEF Stripped, n
<1> QED
  BY <1>2, <1>3

LEMMA StripTwice ==
    ASSUME NEW p \in Letters, Stripped(p)
    PROVE  Strip(p) = p
<1> DEFINE printed == {i \in DOMAIN p : p[i] # Blank}
           n == Len(p)
<1>1. n \in Nat /\ DOMAIN p = 1..n /\ printed \in SUBSET (1..n)
  BY DEF Letters
<1>2. CASE n = 0
  <2>1. p = << >> /\ printed = {}
    BY <1>1, <1>2 DEF Letters
  <2> QED
    BY <2>1 DEF Strip
<1>3. CASE n # 0
  <2>1. p # << >> /\ 1 \in 1..n /\ n \in 1..n
    BY <1>1, <1>3
  <2>2. 1 \in printed /\ n \in printed
    BY <1>1, <2>1 DEF Stripped
  <2>3. Min(printed) = 1 /\ Max(printed) = n
    <3> HIDE DEF printed, n
    <3> DEFINE a == Min(printed)
               b == Max(printed)
    <3>1. a \in printed /\ a <= 1 /\ b \in printed /\ n <= b
      BY <1>1, <2>2, ExtremesExist
    <3> HIDE DEF a, b
    <3>2. a \in 1..n /\ b \in 1..n
      BY <1>1, <3>1
    <3>3. a = 1 /\ b = n
      BY <1>1, <3>1, <3>2
    <3> QED
      BY <3>3 DEF a, b
  <2>4. SubSeq(p, 1, n) = p
    BY SubSeqFull DEF Letters
  <2>5. Strip(p) = SubSeq(p, Min(printed), Max(printed))
    BY <2>2 DEF Strip
  <2> HIDE DEF printed, n
  <2> QED
    BY <2>3, <2>4, <2>5
<1> QED
  BY <1>2, <1>3

LEMMA UpperFacts ==
    ASSUME NEW letter
    PROVE  /\ Upper(Upper(letter)) = Upper(letter)
           /\ Upper(letter) = Blank <=> letter = Blank
           /\ Upper(letter) = Separator <=> letter = Separator
<1>1. DOMAIN UpperOf = {"a", "b"} /\ UpperOf["a"] = "A" /\ UpperOf["b"] = "B"
  BY DEF UpperOf
<1>2. CASE letter \in DOMAIN UpperOf
  <2>1. Upper(letter) \in {"A", "B"} /\ letter \in {"a", "b"}
    BY <1>1, <1>2 DEF Upper
  <2>2. \A x \in {"A", "B"} : x \notin DOMAIN UpperOf
    BY <1>1
  <2>3. Upper(Upper(letter)) = Upper(letter)
    BY <2>1, <2>2 DEF Upper
  <2>4. /\ Upper(letter) # Blank /\ Upper(letter) # Separator
        /\ letter # Blank /\ letter # Separator
    BY <2>1 DEF Blank, Separator
  <2> QED
    BY <2>3, <2>4
<1>3. CASE letter \notin DOMAIN UpperOf
  BY <1>3 DEF Upper
<1> QED
  BY <1>2, <1>3

\* A part: what Join puts between separators.
IsPart(p) ==
    /\ p \in Letters
    /\ Part(p) = p
    /\ \A i \in 1..Len(p) : p[i] # Separator

IsWhole(segment) == \A i \in 1..Len(segment) : segment[i] # Separator

LEMMA PartFacts ==
    ASSUME NEW segment \in Letters, IsWhole(segment)
    PROVE  IsPart(Part(segment))
<1> DEFINE s == Strip(segment)
           p == Part(segment)
           n == Len(s)
<1>1. s \in Letters /\ n \in Nat /\ DOMAIN s = 1..n /\ Stripped(s)
  BY StripFacts DEF Letters
<1>2. \A i \in 1..n : s[i] \in Symbol /\ s[i] # Separator
  <2>1. \A i \in 1..n : s[i] \in Symbol
    BY <1>1 DEF Letters
  <2>2. \A i \in 1..n : s[i] # Separator
    BY StripFacts DEF IsWhole
  <2> QED
    BY <2>1, <2>2
<1>3. p = [i \in 1..n |-> Upper(s[i])]
  BY <1>1 DEF Part
<1> HIDE DEF s, p, n
<1>4. p \in Letters /\ Len(p) = n /\ DOMAIN p = 1..n
  <2>1. \A i \in 1..n : Upper(s[i]) \in Symbol
    BY <1>2, UpperIsSymbol
  <2> QED
    BY <1>1, <1>3, <2>1 DEF Letters
<1>5. \A i \in 1..n : p[i] = Upper(s[i])
  BY <1>3
<1>6. Stripped(p)
  <2>1. CASE n = 0
    <3>1. p = << >>
      BY <1>4, <2>1 DEF Letters
    <3> QED
      BY <3>1 DEF Stripped
  <2>2. CASE n # 0
    <3>1. 1 \in 1..n /\ n \in 1..n /\ s # << >>
      BY <1>1, <2>2 DEF n
    <3>2. s[1] # Blank /\ s[n] # Blank
      BY <1>1, <3>1 DEF Stripped, n
    <3>3. p[1] # Blank /\ p[n] # Blank
      BY <1>5, <3>1, <3>2, UpperFacts
    <3> QED
      BY <1>4, <3>3 DEF Stripped
  <2> QED
    BY <2>1, <2>2
<1>7. Part(p) = p
  <2>1. Strip(p) = p
    BY <1>4, <1>6, StripTwice
  <2>2. Part(p) = [i \in 1..n |-> Upper(p[i])]
    BY <1>4, <2>1 DEF Part
  <2>3. \A i \in 1..n : Upper(p[i]) = p[i]
    BY <1>5, UpperFacts
  <2> QED
    BY <1>3, <1>5, <2>2, <2>3
<1>8. \A i \in 1..Len(p) : p[i] # Separator
  BY <1>2, <1>4, <1>5, UpperFacts
<1> QED
  BY <1>4, <1>7, <1>8 DEF IsPart, p

LEMMA JoinsUnfold ==
    ASSUME NEW segments \in Seq(Letters), \A i \in 1..Len(segments) : Part(segments[i]) \in Letters
    PROVE  /\ Joins(segments)[0] = << >>
           /\ \A n \in 0..Len(segments) : Joins(segments)[n] \in Letters
           /\ \A n \in 1..Len(segments) :
                 Joins(segments)[n] = Add(Joins(segments)[n - 1], Part(segments[n]))
<1> DEFINE len == Len(segments)
           start == << >>
           step == [n \in 1..len |-> [v \in Letters |-> Add(v, Part(segments[n]))]]
<1>1. len \in Nat /\ start \in Letters
  BY DEF Letters
<1>2. step \in [1..len -> [Letters -> Letters]]
  BY AddIsLetters
<1> HIDE DEF start
<1>3. PICK f : Follows(f, Letters, start, step, len)
  <2> HIDE DEF step, len
  <2> QED
    BY <1>1, <1>2, StepsCanBeFollowed
<1>4. ASSUME NEW n \in 1..len PROVE f[n] = Add(f[n - 1], Part(segments[n]))
  <2>1. n - 1 \in 0..len
    BY <1>1
  <2>2. f[n - 1] \in Letters
    BY <1>3, <2>1 DEF Follows
  <2>3. f[n] = step[n][f[n - 1]]
    BY <1>3 DEF Follows
  <2> QED
    BY <2>2, <2>3
<1>5. JoinBy(f, segments)
  <2>1. f = [n \in 0..len |-> f[n]] /\ f[0] = start
    BY <1>3 DEF Follows
  <2>2. ASSUME NEW n \in 0..len
        PROVE  f[n] = IF n = 0 THEN << >> ELSE Add(f[n - 1], Part(segments[n]))
    <3>1. CASE n = 0
      BY <2>1, <3>1 DEF start
    <3>2. CASE n # 0
      <4>1. n \in 1..len
        BY <1>1, <3>2
      <4> QED
        BY <1>4, <3>2, <4>1
    <3> QED
      BY <3>1, <3>2
  <2> HIDE DEF len
  <2> QED
    BY <2>1, <2>2 DEF JoinBy, len
<1>6. JoinBy(Joins(segments), segments)
  BY <1>5 DEF Joins
<1> HIDE DEF len, step
<1> DEFINE s == Joins(segments)
<1>7. s[0] = start /\ \A n \in 1..len : s[n] = Add(s[n - 1], Part(segments[n]))
  <2> HIDE DEF s
  <2>1. JoinBy(s, segments)
    BY <1>6 DEF s
  <2>2. s[0] = start
    BY <1>1, <2>1 DEF JoinBy, start, len
  <2>3. ASSUME NEW n \in 1..len PROVE s[n] = Add(s[n - 1], Part(segments[n]))
    BY <1>1, <2>1 DEF JoinBy, len
  <2> QED
    BY <2>2, <2>3
<1> HIDE DEF s
<1> DEFINE A == {n \in Nat : n <= len => s[n] \in Letters}
<1>8. 0 \in A
  BY <1>1, <1>7
<1>9. ASSUME NEW n \in Nat, n \in A PROVE n + 1 \in A
  <2> SUFFICES ASSUME n + 1 <= len PROVE s[n + 1] \in Letters
    OBVIOUS
  <2>1. n + 1 \in 1..len /\ (n + 1) - 1 = n /\ n <= len
    BY <1>1
  <2>2. s[n + 1] = Add(s[n], Part(segments[n + 1])) /\ s[n] \in Letters
    BY <1>7, <1>9, <2>1
  <2>3. Part(segments[n + 1]) \in Letters
    BY <2>1 DEF len
  <2> QED
    BY <2>2, <2>3, AddIsLetters
<1>10. \A n \in Nat : n \in A
  <2> HIDE DEF A
  <2> QED
    BY <1>8, <1>9, SetInduction
<1> QED
  BY <1>1, <1>7, <1>10 DEF s, start, len

\* No segment has a separator.
LEMMA SegmentsAreWhole ==
    ASSUME NEW code \in Letters, NEW n \in 0..Len(code)
    PROVE  /\ Split(code)[n] \in Seq(Letters) /\ Split(code)[n] # << >>
           /\ \A i \in 1..Len(Split(code)[n]) : IsWhole(Split(code)[n][i])
<1> DEFINE len == Len(code)
           s == Split(code)
           Whole(t) == t # << >> /\ \A i \in 1..Len(t) : IsWhole(t[i])
           A == {k \in Nat : k <= len => Whole(s[k])}
<1>1. len \in Nat /\ \A k \in 1..len : code[k] \in Symbol
  BY DEF Letters
<1>2. /\ s[0] = << << >> >> /\ \A k \in 0..len : s[k] \in Seq(Letters)
      /\ \A k \in 1..len : s[k] = Read(s[k - 1], code[k])
  BY SplitUnfold
<1> HIDE DEF s, len
<1>3. ASSUME NEW t \in Seq(Letters), Whole(t), NEW letter \in Symbol PROVE Whole(Read(t, letter))
  <2> DEFINE k == Len(t)
  <2>1. k \in Nat /\ DOMAIN t = 1..k /\ k # 0
    BY <1>3
  <2>2. CASE letter = Separator
    <3> DEFINE r == Append(t, << >>)
    <3>1. << >> \in Letters /\ IsWhole(<< >>)
      BY DEF Letters, IsWhole
    <3>2. /\ r # << >> /\ Len(r) = k + 1 /\ r[k + 1] = << >>
          /\ \A i \in 1..k : r[i] = t[i]
      BY <3>1, AppendProperties
    <3>3. ASSUME NEW i \in 1..Len(r) PROVE IsWhole(r[i])
      <4> HIDE DEF r, k
      <4>1. CASE i = k + 1
        BY <3>1, <3>2, <4>1
      <4>2. CASE i # k + 1
        <5>1. i \in 1..k
          BY <2>1, <3>2, <4>2
        <5> QED
          BY <1>3, <3>2, <5>1 DEF k
      <4> QED
        BY <4>1, <4>2
    <3> QED
      BY <2>2, <3>2, <3>3 DEF Read
  <2>3. CASE letter # Separator
    <3> DEFINE new == Append(t[k], letter)
               r == [t EXCEPT ![k] = new]
    <3>1. k \in 1..k /\ t[k] \in Letters /\ IsWhole(t[k])
      BY <1>3, <2>1
    <3>2. new \in Letters
      BY <3>1, AppendProperties DEF Letters
    <3>3. IsWhole(new)
      <4> DEFINE u == t[k]
      <4>1. u \in Seq(Symbol) /\ IsWhole(u)
        BY <3>1 DEF Letters
      <4> HIDE DEF u
      <4>2. /\ Len(Append(u, letter)) = Len(u) + 1 /\ Append(u, letter)[Len(u) + 1] = letter
            /\ \A i \in 1..Len(u) : Append(u, letter)[i] = u[i]
        BY <4>1, AppendProperties
      <4>3. Len(u) \in Nat
        BY <4>1
      <4>4. ASSUME NEW i \in 1..(Len(u) + 1) PROVE Append(u, letter)[i] # Separator
        <5>1. CASE i = Len(u) + 1
          BY <2>3, <4>2, <5>1
        <5>2. CASE i # Len(u) + 1
          <6>1. i \in 1..Len(u)
            BY <4>3, <5>2
          <6> QED
            BY <4>1, <4>2, <6>1 DEF IsWhole
        <5> QED
          BY <5>1, <5>2
      <4> QED
        BY <4>2, <4>4 DEF IsWhole, u
    <3> HIDE DEF new
    <3>4. /\ r \in Seq(Letters) /\ Len(r) = k
          /\ \A i \in 1..k : r[i] = IF i = k THEN new ELSE t[i]
      BY <3>1, <3>2, ExceptSeq
    <3>5. r # << >>
      BY <2>1, <3>4
    <3>6. \A i \in 1..Len(r) : IsWhole(r[i])
      BY <1>3, <3>3, <3>4
    <3> QED
      BY <2>3, <3>5, <3>6 DEF Read, new
  <2> QED
    BY <2>2, <2>3
<1>4. 0 \in A
  <2>1. Len(<< << >> >>) = 1 /\ << << >> >>[1] = << >> /\ << << >> >> # << >>
    OBVIOUS
  <2>2. IsWhole(<< >>)
    BY DEF IsWhole
  <2>3. Whole(<< << >> >>)
    BY <2>1, <2>2
  <2> QED
    BY <1>2, <2>3
<1> HIDE DEF Whole
<1>5. ASSUME NEW k \in Nat, k \in A PROVE k + 1 \in A
  <2> SUFFICES ASSUME k + 1 <= len PROVE Whole(s[k + 1])
    OBVIOUS
  <2>1. k + 1 \in 1..len /\ (k + 1) - 1 = k /\ k <= len /\ k \in 0..len
    BY <1>1
  <2>2. s[k + 1] = Read(s[k], code[k + 1]) /\ Whole(s[k]) /\ s[k] \in Seq(Letters)
    BY <1>2, <1>5, <2>1
  <2> QED
    BY <1>1, <1>3, <2>1, <2>2
<1>6. \A k \in Nat : k \in A
  <2> HIDE DEF A
  <2> QED
    BY <1>4, <1>5, SetInduction
<1> QED
  BY <1>1, <1>2, <1>6 DEF Whole, s, len

\* What has been split off stays, whatever follows.
LEMMA SplitPrefix ==
    ASSUME NEW code \in Letters, NEW other \in Letters, Len(code) <= Len(other),
           \A i \in 1..Len(code) : other[i] = code[i]
    PROVE  Split(other)[Len(code)] = Segments(code)
<1> DEFINE len == Len(code)
           s == Split(code)
           t == Split(other)
           A == {n \in Nat : n <= len => t[n] = s[n]}
<1>1. len \in Nat /\ Len(other) \in Nat
  BY DEF Letters
<1>2. /\ s[0] = t[0] /\ \A n \in 1..len : s[n] = Read(s[n - 1], code[n])
      /\ \A n \in 1..Len(other) : t[n] = Read(t[n - 1], other[n])
  BY SplitUnfold
<1> HIDE DEF s, t
<1>3. 0 \in A
  BY <1>2
<1>4. ASSUME NEW n \in Nat, n \in A PROVE n + 1 \in A
  <2> SUFFICES ASSUME n + 1 <= len PROVE t[n + 1] = s[n + 1]
    OBVIOUS
  <2>1. /\ n + 1 \in 1..len /\ n + 1 \in 1..Len(other) /\ (n + 1) - 1 = n /\ n <= len
    BY <1>1
  <2>2. s[n + 1] = Read(s[n], code[n + 1]) /\ t[n + 1] = Read(t[n], other[n + 1])
    BY <1>2, <2>1
  <2>3. t[n] = s[n] /\ other[n + 1] = code[n + 1]
    BY <1>4, <2>1
  <2> QED
    BY <2>2, <2>3
<1>5. \A n \in Nat : n \in A
  <2> HIDE DEF A
  <2> QED
    BY <1>3, <1>4, SetInduction
<1>6. t[len] = s[len]
  BY <1>1, <1>5
<1> QED
  BY <1>6, SegmentsAreSplit DEF s, t

LEMMA ReadOn ==
    ASSUME NEW base \in Seq(Letters), NEW q \in Letters, NEW letter \in Symbol, letter # Separator
    PROVE  Read(Append(base, q), letter) = Append(base, Append(q, letter))
<1> DEFINE k == Len(base)
           new == Append(q, letter)
           r == Append(base, q)
           e == [r EXCEPT ![k + 1] = new]
           t == Append(base, new)
<1>1. new \in Letters
  BY AppendProperties DEF Letters
<1>2. k \in Nat /\ k + 1 \in 1..(k + 1)
  OBVIOUS
<1> HIDE DEF new
<1>3. /\ r \in Seq(Letters) /\ Len(r) = k + 1 /\ r[k + 1] = q
      /\ \A i \in 1..k : r[i] = base[i]
  BY AppendProperties
<1>4. /\ t \in Seq(Letters) /\ Len(t) = k + 1 /\ t[k + 1] = new
      /\ \A i \in 1..k : t[i] = base[i]
  BY <1>1, AppendProperties
<1> HIDE DEF r, t
<1>5. /\ e \in Seq(Letters) /\ Len(e) = k + 1
      /\ \A i \in 1..(k + 1) : e[i] = IF i = k + 1 THEN new ELSE r[i]
  BY <1>1, <1>2, <1>3, ExceptSeq
<1>6. Read(r, letter) = e
  BY <1>3 DEF Read, new
<1> HIDE DEF e, k
<1>7. ASSUME NEW i \in 1..(k + 1) PROVE e[i] = t[i]
  <2>1. CASE i = k + 1
    BY <1>4, <1>5, <2>1
  <2>2. CASE i # k + 1
    <3>1. i \in 1..k
      BY <1>2, <2>2
    <3> QED
      BY <1>3, <1>4, <1>5, <2>2, <3>1
  <2> QED
    BY <2>1, <2>2
<1>8. e = t
  BY <1>4, <1>5, <1>7, SeqEqual
<1> QED
  BY <1>6, <1>8 DEF r, t, new

\* A part that follows a separator, or begins the code, is the last segment.
LEMMA SplitTail ==
    ASSUME NEW other \in Letters, NEW base \in Seq(Letters), NEW p \in Letters, IsWhole(p),
           NEW k \in Nat, NEW len \in Nat, Len(p) = len, Len(other) = k + len,
           Split(other)[k] = Append(base, << >>),
           \A i \in 1..len : other[k + i] = p[i]
    PROVE  Segments(other) = Append(base, p)
<1> DEFINE s == Split(other)
           Begin(n) == [j \in 1..n |-> p[j]]
           A == {n \in Nat : n <= len => s[k + n] = Append(base, Begin(n))}
<1>1. \A i \in 1..len : p[i] \in Symbol /\ p[i] # Separator
  BY DEF Letters, IsWhole
<1>2. \A n \in 1..(k + len) : s[n] = Read(s[n - 1], other[n])
  BY SplitUnfold
<1>3. s[k] = Append(base, << >>)
  OBVIOUS
<1> HIDE DEF s
<1>4. 0 \in A
  <2>1. Begin(0) = << >>
    OBVIOUS
  <2>2. k + 0 = k
    OBVIOUS
  <2> HIDE DEF Begin
  <2> QED
    BY <1>3, <2>1, <2>2
<1>5. ASSUME NEW n \in Nat, n \in A PROVE n + 1 \in A
  <2> SUFFICES ASSUME n + 1 <= len PROVE s[k + (n + 1)] = Append(base, Begin(n + 1))
    OBVIOUS
  <2>1. /\ n + 1 \in 1..len /\ n <= len
        /\ k + (n + 1) \in 1..(k + len) /\ (k + (n + 1)) - 1 = k + n
    OBVIOUS
  <2>2. s[k + (n + 1)] = Read(s[k + n], p[n + 1])
    BY <1>2, <2>1
  <2>3. s[k + n] = Append(base, Begin(n))
    BY <1>5, <2>1
  <2>4. Begin(n) \in Letters
    <3>1. \A j \in 1..n : p[j] \in Symbol
      BY <1>1, <2>1
    <3>2. \A V : \A f \in [1..n -> V] : f \in Seq(V)
      OBVIOUS
    <3> QED
      BY <3>1, <3>2 DEF Letters
  <2>5. Append(Begin(n), p[n + 1]) = Begin(n + 1)
    <3> DEFINE b == Begin(n)
               c == Begin(n + 1)
               d == Append(b, p[n + 1])
    <3>0. p[n + 1] \in Symbol
      BY <1>1, <2>1
    <3>1. b \in Seq(Symbol) /\ Len(b) = n /\ \A j \in 1..n : b[j] = p[j]
      BY <2>4 DEF Letters
    <3>2. c \in Seq(Symbol) /\ Len(c) = n + 1 /\ \A j \in 1..(n + 1) : c[j] = p[j]
      <4>1. \A j \in 1..(n + 1) : p[j] \in Symbol
        BY <1>1, <2>1
      <4> QED
        BY <4>1
    <3> HIDE DEF b, c
    <3>3. /\ d \in Seq(Symbol) /\ Len(d) = n + 1 /\ d[n + 1] = p[n + 1]
          /\ \A j \in 1..n : d[j] = b[j]
      BY <3>0, <3>1, AppendProperties
    <3> HIDE DEF d
    <3>4. ASSUME NEW j \in 1..(n + 1) PROVE d[j] = c[j]
      <4>1. CASE j = n + 1
        BY <3>2, <3>3, <4>1
      <4>2. CASE j # n + 1
        <5>1. j \in 1..n
          BY <4>2
        <5> QED
          BY <3>1, <3>2, <3>3, <5>1
      <4> QED
        BY <4>1, <4>2
    <3>5. d = c
      BY <3>2, <3>3, <3>4, SeqEqual
    <3> QED
      BY <3>5 DEF b, c, d
  <2> HIDE DEF Begin
  <2>6. Read(Append(base, Begin(n)), p[n + 1]) = Append(base, Append(Begin(n), p[n + 1]))
    BY <1>1, <2>1, <2>4, ReadOn
  <2> QED
    BY <2>2, <2>3, <2>5, <2>6
<1>6. \A n \in Nat : n \in A
  <2> HIDE DEF A
  <2> QED
    BY <1>4, <1>5, SetInduction
<1>7. s[k + len] = Append(base, Begin(len))
  BY <1>6
<1>8. Begin(len) = p
  BY DEF Letters
<1> QED
  BY <1>7, <1>8, SegmentsAreSplit DEF s

LEMMA JoinAppended ==
    ASSUME NEW segments \in Seq(Letters), \A i \in 1..Len(segments) : IsWhole(segments[i]),
           NEW p, IsPart(p)
    PROVE  Join(Append(segments, p)) = Add(Join(segments), p)
<1> DEFINE len == Len(segments)
           more == Append(segments, p)
           s == Joins(segments)
           t == Joins(more)
           A == {n \in Nat : n <= len => t[n] = s[n]}
<1>1. p \in Letters /\ IsWhole(p) /\ Part(p) = p
  BY DEF IsPart, IsWhole
<1>2. len \in Nat
  OBVIOUS
<1>3. /\ more \in Seq(Letters) /\ Len(more) = len + 1 /\ more[len + 1] = p
      /\ \A i \in 1..len : more[i] = segments[i]
  BY <1>1, AppendProperties
<1>4. \A i \in 1..len : Part(segments[i]) \in Letters
  <2> SUFFICES ASSUME NEW i \in 1..len PROVE Part(segments[i]) \in Letters
    OBVIOUS
  <2>1. segments[i] \in Letters /\ IsWhole(segments[i])
    OBVIOUS
  <2> QED
    BY <2>1, PartFacts DEF IsPart
<1>5. /\ s[0] = << >> /\ \A n \in 1..len : s[n] = Add(s[n - 1], Part(segments[n]))
  BY <1>4, JoinsUnfold
<1> HIDE DEF more, s, len
<1>6. ASSUME NEW i \in 1..Len(more) PROVE Part(more[i]) \in Letters
  <2>1. CASE i = len + 1
    BY <1>1, <1>3, <2>1
  <2>2. CASE i # len + 1
    <3>1. i \in 1..len
      BY <1>2, <1>3, <2>2
    <3> QED
      BY <1>3, <1>4, <3>1
  <2> QED
    BY <2>1, <2>2
<1>7. /\ t[0] = << >> /\ \A n \in 1..Len(more) : t[n] = Add(t[n - 1], Part(more[n]))
  BY <1>3, <1>6, JoinsUnfold
<1> HIDE DEF t
<1>8. 0 \in A
  BY <1>5, <1>7
<1>9. ASSUME NEW n \in Nat, n \in A PROVE n + 1 \in A
  <2> SUFFICES ASSUME n + 1 <= len PROVE t[n + 1] = s[n + 1]
    OBVIOUS
  <2>1. n + 1 \in 1..len /\ n + 1 \in 1..Len(more) /\ (n + 1) - 1 = n /\ n <= len
    BY <1>2, <1>3
  <2>2. /\ s[n + 1] = Add(s[n], Part(segments[n + 1]))
        /\ t[n + 1] = Add(t[n], Part(more[n + 1]))
    BY <1>5, <1>7, <2>1
  <2>3. t[n] = s[n] /\ more[n + 1] = segments[n + 1]
    BY <1>3, <1>9, <2>1
  <2> QED
    BY <2>2, <2>3
<1>10. \A n \in Nat : n \in A
  <2> HIDE DEF A
  <2> QED
    BY <1>8, <1>9, SetInduction
<1>11. t[len] = s[len]
  BY <1>2, <1>10
<1>12. t[len + 1] = Add(t[len], p)
  <2>1. len + 1 \in 1..Len(more) /\ (len + 1) - 1 = len
    BY <1>2, <1>3
  <2>2. t[len + 1] = Add(t[len], Part(more[len + 1]))
    BY <1>7, <2>1
  <2> QED
    BY <1>1, <1>3, <2>2
<1> QED
  BY <1>3, <1>11, <1>12, JoinIsJoins DEF s, t, more, len

LEMMA SegmentsOf ==
    ASSUME NEW code \in Letters
    PROVE  /\ Segments(code) \in Seq(Letters) /\ Segments(code) # << >>
           /\ \A i \in 1..Len(Segments(code)) : IsWhole(Segments(code)[i])
<1>1. Len(code) \in 0..Len(code)
  BY DEF Letters
<1> QED
  BY <1>1, SegmentsAreWhole, SegmentsAreSplit

\* A part is its own normal form.
LEMMA PartIsNormal == \A p : IsPart(p) => NormaliseJurisdiction(p) = p
<1> SUFFICES ASSUME NEW p, IsPart(p) PROVE NormaliseJurisdiction(p) = p
  OBVIOUS
<1> DEFINE base == << >>
<1>1. p \in Letters /\ IsWhole(p)
  BY DEF IsPart, IsWhole
<1>2. base \in Seq(Letters) /\ Len(base) = 0 /\ Append(base, << >>) = << << >> >>
  OBVIOUS
<1>3. PICK len \in Nat : Len(p) = len
  BY <1>1 DEF Letters
<1>4. Split(p)[0] = Append(base, << >>)
  BY <1>1, <1>2, SplitUnfold
<1> HIDE DEF base
<1>5. Segments(p) = Append(base, p)
  <2>1. /\ 0 \in Nat /\ Len(p) = 0 + len /\ \A i \in 1..len : p[0 + i] = p[i]
    BY <1>3
  <2> QED
    BY <1>1, <1>2, <1>3, <1>4, <2>1, SplitTail
<1>6. Join(base) = << >>
  <2>1. \A i \in 1..Len(base) : Part(base[i]) \in Letters
    BY <1>2
  <2>2. Joins(base)[0] = << >>
    BY <1>2, <2>1, JoinsUnfold
  <2> QED
    BY <1>2, <2>2, JoinIsJoins
<1>7. Join(Append(base, p)) = Add(Join(base), p)
  <2>1. \A i \in 1..Len(base) : IsWhole(base[i])
    BY <1>2
  <2> QED
    BY <1>2, <2>1, JoinAppended
<1>8. Add(<< >>, p) = p
  BY DEF Add
<1> QED
  BY <1>5, <1>6, <1>7, <1>8 DEF NormaliseJurisdiction

\* What follows a separator is normalised by itself.
LEMMA NormalisePart ==
    ASSUME NEW code \in Letters, NEW p, IsPart(p), NEW other, other = code \o <<Separator>> \o p
    PROVE  NormaliseJurisdiction(other) = Add(NormaliseJurisdiction(code), p)
<1> DEFINE sep == <<Separator>>
           begun == code \o sep
<1>1. p \in Letters /\ IsWhole(p)
  BY DEF IsPart, IsWhole
<1>2. PICK m, len \in Nat : Len(code) = m /\ Len(p) = len
  BY <1>1 DEF Letters
<1>3. sep \in Letters /\ Len(sep) = 1 /\ sep[1] = Separator
  <2>1. Separator \in Symbol
    BY DEF Symbol
  <2> QED
    BY <2>1 DEF Letters
<1> HIDE DEF sep
<1>4. /\ begun \in Letters /\ Len(begun) = m + 1 /\ begun[m + 1] = Separator
      /\ \A i \in 1..m : begun[i] = code[i]
  <2>0. /\ begun \in Letters /\ Len(begun) = Len(code) + Len(sep)
        /\ \A i \in 1..(Len(code) + Len(sep)) :
               begun[i] = IF i <= Len(code) THEN code[i] ELSE sep[i - Len(code)]
    BY <1>3, ConcatProperties DEF Letters
  <2> HIDE DEF begun
  <2>1. /\ begun \in Letters /\ Len(begun) = m + 1
        /\ \A i \in 1..(m + 1) : begun[i] = IF i <= m THEN code[i] ELSE sep[i - m]
    BY <1>2, <1>3, <2>0
  <2>2. m + 1 \in 1..(m + 1) /\ ~(m + 1 <= m) /\ (m + 1) - m = 1
    BY <1>2
  <2>3. begun[m + 1] = Separator
    BY <1>3, <2>1, <2>2
  <2>4. ASSUME NEW i \in 1..m PROVE begun[i] = code[i]
    <3>1. i \in 1..(m + 1) /\ i <= m
      BY <1>2
    <3> QED
      BY <2>1, <3>1
  <2> QED
    BY <2>1, <2>3, <2>4
<1>5. other = begun \o p
  BY DEF sep
<1> HIDE DEF begun
<1>6. /\ other \in Letters /\ Len(other) = (m + 1) + len
      /\ \A i \in 1..((m + 1) + len) :
             other[i] = IF i <= m + 1 THEN begun[i] ELSE p[i - (m + 1)]
  <2>1. /\ other \in Letters /\ Len(other) = Len(begun) + Len(p)
        /\ \A i \in 1..(Len(begun) + Len(p)) :
               other[i] = IF i <= Len(begun) THEN begun[i] ELSE p[i - Len(begun)]
    <3> DEFINE whole == begun \o p
    <3>1. /\ whole \in Letters /\ Len(whole) = Len(begun) + Len(p)
          /\ \A i \in 1..(Len(begun) + Len(p)) :
                 whole[i] = IF i <= Len(begun) THEN begun[i] ELSE p[i - Len(begun)]
      BY <1>1, <1>4, ConcatProperties DEF Letters
    <3>2. other = whole
      BY <1>5
    <3> HIDE DEF whole
    <3> QED
      BY <3>1, <3>2
  <2> QED
    BY <1>2, <1>4, <2>1
<1>7. /\ other[m + 1] = Separator
      /\ \A i \in 1..m : other[i] = code[i]
      /\ \A i \in 1..len : other[(m + 1) + i] = p[i]
  <2>1. m + 1 \in 1..((m + 1) + len) /\ m + 1 <= m + 1
    BY <1>2
  <2>2. other[m + 1] = Separator
    BY <1>4, <1>6, <2>1
  <2>3. ASSUME NEW i \in 1..m PROVE other[i] = code[i]
    <3>1. i \in 1..((m + 1) + len) /\ i <= m + 1
      BY <1>2
    <3> QED
      BY <1>4, <1>6, <3>1
  <2>4. ASSUME NEW i \in 1..len PROVE other[(m + 1) + i] = p[i]
    <3>1. /\ (m + 1) + i \in 1..((m + 1) + len) /\ ~((m + 1) + i <= m + 1)
          /\ ((m + 1) + i) - (m + 1) = i
      BY <1>2
    <3> QED
      BY <1>6, <3>1
  <2> QED
    BY <2>2, <2>3, <2>4
<1> DEFINE segments == Segments(code)
<1>8. segments \in Seq(Letters) /\ \A i \in 1..Len(segments) : IsWhole(segments[i])
  BY SegmentsOf
<1>9. Split(other)[m] = segments
  <2>1. Len(code) <= Len(other) /\ \A i \in 1..Len(code) : other[i] = code[i]
    BY <1>2, <1>6, <1>7
  <2>2. Split(other)[Len(code)] = Segments(code)
    BY <1>6, <2>1, SplitPrefix
  <2> QED
    BY <1>2, <2>2
<1> HIDE DEF segments
<1>10. Split(other)[m + 1] = Append(segments, << >>)
  <2>1. m + 1 \in 1..Len(other) /\ (m + 1) - 1 = m
    BY <1>2, <1>6
  <2>2. Split(other)[m + 1] = Read(Split(other)[m], other[m + 1])
    BY <1>6, <2>1, SplitUnfold
  <2> QED
    BY <1>7, <1>9, <2>2 DEF Read
<1>11. Segments(other) = Append(segments, p)
  <2>1. PICK k \in Nat : k = m + 1
    BY <1>2
  <2>2. /\ Len(other) = k + len /\ Split(other)[k] = Append(segments, << >>)
        /\ \A i \in 1..len : other[k + i] = p[i]
    BY <1>6, <1>7, <1>10, <2>1
  <2> QED
    BY <1>1, <1>2, <1>6, <1>8, <2>2, SplitTail
<1> QED
  BY <1>8, <1>11, JoinAppended DEF NormaliseJurisdiction, segments

\* A normal form is its own, and does not begin with a separator.
IsNormal(code) ==
    /\ code \in Letters
    /\ NormaliseJurisdiction(code) = code
    /\ code # << >> => code[1] # Separator

LEMMA NormaliseTwice == \A code \in Letters : IsNormal(NormaliseJurisdiction(code))
<1> SUFFICES ASSUME NEW code \in Letters PROVE IsNormal(NormaliseJurisdiction(code))
  OBVIOUS
<1> DEFINE segments == Segments(code)
           len == Len(segments)
           s == Joins(segments)
           A == {n \in Nat : n <= len => IsNormal(s[n])}
<1>1. /\ segments \in Seq(Letters) /\ len \in Nat
      /\ \A i \in 1..len : segments[i] \in Letters /\ IsWhole(segments[i])
  BY SegmentsOf
<1> HIDE DEF segments, len
<1>2. \A i \in 1..len : IsPart(Part(segments[i]))
  BY <1>1, PartFacts
<1>3. s[0] = << >> /\ \A n \in 1..len : s[n] = Add(s[n - 1], Part(segments[n]))
  <2>1. \A i \in 1..len : Part(segments[i]) \in Letters
    BY <1>2 DEF IsPart
  <2> QED
    BY <1>1, <2>1, JoinsUnfold DEF len
<1> HIDE DEF s
<1>4. ASSUME NEW p, IsPart(p) PROVE IsNormal(p)
  <2>1. p \in Letters /\ NormaliseJurisdiction(p) = p
    BY <1>4, PartIsNormal DEF IsPart
  <2>2. p # << >> => p[1] # Separator
    <3>1. p # << >> => 1 \in 1..Len(p)
      BY <2>1 DEF Letters
    <3> QED
      BY <1>4, <3>1 DEF IsPart
  <2> QED
    BY <2>1, <2>2 DEF IsNormal
<1>5. ASSUME NEW before, IsNormal(before), NEW p, IsPart(p) PROVE IsNormal(Add(before, p))
  <2>1. CASE p = << >>
    BY <1>5, <2>1 DEF Add
  <2>2. CASE p # << >> /\ before = << >>
    BY <1>4, <1>5, <2>2 DEF Add
  <2>3. CASE p # << >> /\ before # << >>
    <3> DEFINE after == Add(before, p)
    <3>1. after = before \o <<Separator>> \o p
      BY <2>3 DEF Add
    <3>2. before \in Letters /\ p \in Letters /\ NormaliseJurisdiction(before) = before
      BY <1>5 DEF IsNormal, IsPart
    <3>3. after \in Letters
      BY <3>2, AddIsLetters
    <3>4. NormaliseJurisdiction(after) = after
      <4> HIDE DEF after
      <4>1. NormaliseJurisdiction(after) = Add(NormaliseJurisdiction(before), p)
        BY <1>5, <3>1, <3>2, NormalisePart
      <4> QED
        BY <3>2, <4>1 DEF after
    <3>5. after[1] = before[1]
      <4> DEFINE sep == <<Separator>>
                 begun == before \o sep
      <4>1. sep \in Letters /\ Len(sep) = 1
        <5>1. Separator \in Symbol
          BY DEF Symbol
        <5> QED
          BY <5>1 DEF Letters
      <4>2. Len(before) \in Nat /\ Len(p) \in Nat /\ Len(before) # 0
        BY <2>3, <3>2 DEF Letters
      <4>3. after = begun \o p
        BY <3>1
      <4> HIDE DEF sep, after
      <4>4. begun \in Letters /\ Len(begun) = Len(before) + 1 /\ begun[1] = before[1]
        <5>1. /\ begun \in Letters /\ Len(begun) = Len(before) + Len(sep)
              /\ \A i \in 1..(Len(before) + Len(sep)) :
                     begun[i] = IF i <= Len(before) THEN before[i] ELSE sep[i - Len(before)]
          BY <3>2, <4>1, ConcatProperties DEF Letters
        <5>2. 1 \in 1..(Len(before) + Len(sep)) /\ 1 <= Len(before)
          BY <4>1, <4>2
        <5> QED
          BY <4>1, <5>1, <5>2
      <4> HIDE DEF begun
      <4>5. \A i \in 1..(Len(begun) + Len(p)) :
               after[i] = IF i <= Len(begun) THEN begun[i] ELSE p[i - Len(begun)]
        BY <3>2, <4>3, <4>4, ConcatProperties DEF Letters
      <4>6. 1 \in 1..(Len(begun) + Len(p)) /\ 1 <= Len(begun)
        BY <4>2, <4>4
      <4> QED
        BY <4>4, <4>5, <4>6
    <3>6. before[1] # Separator
      BY <1>5, <2>3 DEF IsNormal
    <3> HIDE DEF after
    <3> QED
      BY <3>3, <3>4, <3>5, <3>6 DEF IsNormal, after
  <2> QED
    BY <2>1, <2>2, <2>3
<1>6. 0 \in A
  <2>1. IsPart(<< >>)
    <3>1. << >> \in Letters /\ Len(<< >>) = 0 /\ Stripped(<< >>)
      BY DEF Letters, Stripped
    <3>2. Strip(<< >>) = << >>
      BY <3>1, StripTwice
    <3>3. Part(<< >>) = << >>
      BY <3>2 DEF Part
    <3> QED
      BY <3>1, <3>3 DEF IsPart
  <2> QED
    BY <1>3, <1>4, <2>1
<1>7. ASSUME NEW n \in Nat, n \in A PROVE n + 1 \in A
  <2> SUFFICES ASSUME n + 1 <= len PROVE IsNormal(s[n + 1])
    OBVIOUS
  <2>1. n + 1 \in 1..len /\ (n + 1) - 1 = n /\ n <= len
    BY <1>1
  <2>2. s[n + 1] = Add(s[n], Part(segments[n + 1])) /\ IsNormal(s[n])
    BY <1>3, <1>7, <2>1
  <2>3. IsPart(Part(segments[n + 1]))
    BY <1>2, <2>1
  <2> QED
    BY <1>5, <2>2, <2>3
<1>8. IsNormal(s[len])
  <2> HIDE DEF A
  <2>1. len \in A
    BY <1>1, <1>6, <1>7, SetInduction
  <2> QED
    BY <1>1, <2>1 DEF A
<1> QED
  BY <1>8, JoinIsJoins DEF NormaliseJurisdiction, s, segments, len

\* A code with nothing above it is above nothing.
LEMMA NothingIsBeneath ==
    ASSUME NEW code \in Letters, code # << >>, code[1] # Separator
    PROVE  ~IsPrefix(<< >> \o <<Separator>>, code)
<1> DEFINE sep == << >> \o <<Separator>>
<1>1. Len(sep) = 1 /\ sep[1] = Separator /\ SubSeq(sep, 1, 1)[1] = Separator
  OBVIOUS
<1> HIDE DEF sep
<1>2. SubSeq(code, 1, 1)[1] = code[1]
  <2>1. 1 \in 1..Len(code)
    BY DEF Letters
  <2> QED
    BY <2>1 DEF Letters
<1> QED
  BY <1>1, <1>2 DEF IsPrefix, sep

LEMMA ScopeHolds ==
    ASSUME NEW t \in ScopeTrial, trial = t
    PROVE  RegistersShowWhatIsCovered
<1> DEFINE scope == Scope(t.role, t.account)
           own == NormaliseJurisdiction(t.account)
           record == t.record
<1> SUFFICES ASSUME NormaliseJurisdiction(record) = record
             PROVE  Covers(scope, record) <=> Listed(scope, record, TRUE)
  BY DEF RegistersShowWhatIsCovered
<1>1. t.account \in Letters /\ record \in Letters
  <2>1. t.account \in Territory /\ record \in Territory
    BY DEF ScopeTrial
  <2>2. t.account \in Seq(STRING) /\ record \in Seq(STRING)
    BY <2>1, TrialsAssumption
  <2>3. STRING \subseteq Symbol
    BY DEF Symbol
  <2> QED
    BY <2>2, <2>3, SeqMonotonic DEF Letters
<1>2. IsNormal(own) /\ IsNormal(record)
  BY <1>1, NormaliseTwice
<1>3. scope.code = own
  BY DEF Scope
<1> HIDE DEF scope, own, record
<1>4. NormaliseJurisdiction(own) = own
  BY <1>2 DEF IsNormal
<1>5. IsDescendant(record, own) <=>
        record # << >> /\ own # << >> /\ (record = own \/ IsPrefix(own \o <<Separator>>, record))
  BY <1>4 DEF IsDescendant, Beneath
<1>6. own = << >> /\ record # << >> => ~IsPrefix(own \o <<Separator>>, record)
  BY <1>2, NothingIsBeneath DEF IsNormal
<1>7. Covers(scope, record) <=>
        \/ scope.unrestricted
        \/ record = << >>
        \/ IF scope.includeDescendants THEN IsDescendant(record, own) ELSE record = own
  BY <1>3 DEF Covers
<1>8. Listed(scope, record, TRUE) <=>
        \/ scope.unrestricted
        \/ record # << >> /\ record = own
        \/ record # << >> /\ scope.includeDescendants /\ IsPrefix(own \o <<Separator>>, record)
        \/ record = << >>
  BY <1>3 DEF Listed
<1> DEFINE beneath == IsPrefix(own \o <<Separator>>, record)
<1>9. CASE record = << >>
  BY <1>7, <1>8, <1>9
<1>10. CASE record # << >> /\ scope.includeDescendants
  <2> HIDE DEF beneath
  <2>1. IsDescendant(record, own) <=> own # << >> /\ (record = own \/ beneath)
    BY <1>5, <1>10 DEF beneath
  <2>2. own = << >> => record # own /\ ~beneath
    BY <1>6, <1>10 DEF beneath
  <2>3. Covers(scope, record) <=> scope.unrestricted \/ record = own \/ beneath
    BY <1>7, <1>10, <2>1, <2>2
  <2>4. Listed(scope, record, TRUE) <=> scope.unrestricted \/ record = own \/ beneath
    BY <1>8, <1>10 DEF beneath
  <2> QED
    BY <2>3, <2>4
<1>11. CASE record # << >> /\ ~scope.includeDescendants
  BY <1>7, <1>8, <1>11
<1> QED
  BY <1>9, <1>10, <1>11 DEF scope, record

-----------------------------------------------------------------------------
(* Starter rules                                                           *)

\* What StarterRulesAreReady asks of one rule.
IsReady(shipped) ==
    /\ StarterKinds(shipped.rule) \subseteq {s.kind : s \in ShippedTrials(shipped)}
    /\ \A s \in ShippedTrials(shipped) :
          /\ Passed(shipped.rule, s)
          /\ AppliesWhateverStatus(shipped.rule, s.context)
                => FindingOutcome(shipped.rule, s.payload) = s.expected

LEMMA StarterFields ==
    ASSUME NEW test, NEW p, NEW required, NEW imported
    PROVE  LET rule == StarterRule(test, p, required, imported)
           IN  /\ rule.from = 1 /\ rule.to = None /\ rule.commodities = {} /\ rule.packages = {}
               /\ rule.kind = None /\ rule.min = None /\ rule.max = None
               /\ rule["imported"] = imported /\ rule["ecommerce"] = None
               /\ rule["multipiece"] = None /\ rule.exceptions = {}
               /\ rule.test = test /\ rule.parameters = p /\ rule.required = required
BY DEF StarterRule

\* A rule of the set applies to the packages of its scenarios and asks for the
\* four kinds of scenario every rule needs.
LEMMA StarterScope ==
    ASSUME NEW test, NEW p, NEW required, NEW imported, NEW of,
           imported # None => imported = of
    PROVE  LET rule == StarterRule(test, p, required, imported)
           IN  /\ AppliesWhateverStatus(rule, ShippedContext(of))
               /\ StarterKinds(rule) = MandatoryKinds
<1> DEFINE rule == StarterRule(test, p, required, imported)
           context == ShippedContext(of)
<1>1. /\ context.day = 1 /\ context.exceptions = {}
      /\ context["imported"] = of
  BY DEF ShippedContext
<1>2. InForce(rule, context.day)
  BY <1>1, StarterFields DEF InForce
<1>3. InScope(rule, context) /\ InBand(rule, context)
  BY StarterFields DEF InScope, InBand
<1>4. MatchesFlags(rule, context)
  BY <1>1, StarterFields DEF MatchesFlags
<1>5. NotExcepted(rule, context)
  BY <1>1, StarterFields DEF NotExcepted
<1>6. StarterKinds(rule) = MandatoryKinds
  BY StarterFields DEF StarterKinds
<1> QED
  BY <1>2, <1>3, <1>4, <1>5, <1>6 DEF AppliesWhateverStatus

\* The day before the rule takes effect it does not apply.
LEMMA NotYetPasses ==
    ASSUME NEW test, NEW p, NEW required, NEW imported
    PROVE  LET rule == StarterRule(test, p, required, imported)
               s == NotYetEffective(rule)
           IN  /\ s.kind = "not_yet_effective"
               /\ ~AppliesWhateverStatus(rule, s.context)
               /\ Passed(rule, s)
<1> DEFINE rule == StarterRule(test, p, required, imported)
           s == NotYetEffective(rule)
<1>1. s.kind = "not_yet_effective" /\ s.expected = ScopeExcluded
  BY DEF NotYetEffective
<1>2. s.context.day = 0
  BY StarterFields DEF NotYetEffective, DefaultContext
<1>3. ~AppliesWhateverStatus(rule, s.context)
  BY <1>2, StarterFields DEF AppliesWhateverStatus, InForce
<1> QED
  BY <1>1, <1>3 DEF Passed, ScenarioOutcome

\* It is enough that the check, and the engine after it, finds what a scenario
\* promises.
LEMMA RuleIsReady ==
    ASSUME NEW test, NEW p, NEW required, NEW imported, NEW of, NEW scenarios,
           imported # None => imported = of,
           {"compliant", "non_compliant", "missing_evidence"} \subseteq {s.kind : s \in scenarios},
           \A s \in scenarios :
               /\ s.context = ShippedContext(of)
               /\ RunCheck(test, p, s.payload) = s.expected
               /\ Settled(s.expected, required, s.payload) = s.expected
    PROVE  IsReady(Shipped(StarterRule(test, p, required, imported), scenarios))
<1> DEFINE rule == StarterRule(test, p, required, imported)
           shipped == Shipped(rule, scenarios)
           last == NotYetEffective(rule)
<1>1. shipped.rule = rule /\ ShippedTrials(shipped) = scenarios \cup {last}
  BY DEF Shipped, ShippedTrials
<1>2. /\ last.kind = "not_yet_effective" /\ Passed(rule, last)
      /\ ~AppliesWhateverStatus(rule, last.context)
  BY NotYetPasses
<1>3. AppliesWhateverStatus(rule, ShippedContext(of)) /\ StarterKinds(rule) = MandatoryKinds
  BY StarterScope
<1>4. rule.test = test /\ rule.parameters = p /\ rule.required = required
  BY StarterFields
<1> HIDE DEF rule, shipped, last
<1>5. StarterKinds(rule) \subseteq {s.kind : s \in scenarios \cup {last}}
  BY <1>2, <1>3 DEF MandatoryKinds
<1>6. ASSUME NEW s \in scenarios
      PROVE  Passed(rule, s) /\ FindingOutcome(rule, s.payload) = s.expected
  BY <1>3, <1>4, <1>6 DEF Passed, ScenarioOutcome, FindingOutcome
<1>7. IsReady(shipped)
  BY <1>1, <1>2, <1>5, <1>6 DEF IsReady
<1> QED
  BY <1>7 DEF shipped, rule

\* The outcome of a check is settled where no required input is missing, where
\* it is no violation, and where nothing is asked for.
LEMMA SettledAsItIs ==
    ASSUME NEW outcome, NEW required, NEW payload,
           \/ outcome # "non_compliant"
           \/ \A d \in required : Has(payload, d)
    PROVE  Settled(outcome, required, payload) = outcome
BY DEF Settled

LEMMA PresenceReady ==
    ASSUME NEW d \in Declared, NEW present, present # None
    PROVE  IsReady(Presence(d, present))
<1> DEFINE p == [declaration |-> d]
           good == Good([e \in {d} |-> present])
           scenarios == PresenceScenarios(d, present)
<1>0. p.declaration = d
  OBVIOUS
<1>1. scenarios = {good, Bad(NoValues), NotPhotographed}
  BY DEF PresenceScenarios
<1>2. good.payload.values[d] = present
  BY DEF Good, Scenario
<1>3. Bad(NoValues).payload.values[d] = None /\ NotPhotographed.payload.values[d] = None
  BY DEF Bad, NotPhotographed, NoValues, Scenario
<1>4. /\ good.kind = "compliant" /\ good.expected = "compliant"
      /\ good.context = ShippedContext(FALSE)
  BY DEF Good, Scenario
<1>5. /\ Bad(NoValues).kind = "non_compliant" /\ Bad(NoValues).expected = "non_compliant"
      /\ Bad(NoValues).context = ShippedContext(FALSE)
      /\ Bad(NoValues).payload.complete = TRUE /\ Bad(NoValues).payload.labelOnly = {}
  BY DEF Bad, Scenario
<1>6. /\ NotPhotographed.kind = "missing_evidence"
      /\ NotPhotographed.expected = "additional_evidence_required"
      /\ NotPhotographed.context = ShippedContext(FALSE)
      /\ NotPhotographed.payload.complete = FALSE /\ NotPhotographed.payload.labelOnly = {}
  BY DEF NotPhotographed, Scenario
<1> HIDE DEF good, scenarios, p
<1>7. ASSUME NEW s \in scenarios
      PROVE  /\ s.context = ShippedContext(FALSE)
             /\ RunCheck("declaration_present", p, s.payload) = s.expected
             /\ Settled(s.expected, {}, s.payload) = s.expected
  <2>1. s.context = ShippedContext(FALSE)
    BY <1>1, <1>4, <1>5, <1>6
  <2>2. RunCheck("declaration_present", p, s.payload) = CheckDeclarationPresent(p, s.payload)
    BY DEF RunCheck
  <2>3. CheckDeclarationPresent(p, s.payload) = s.expected
    BY <1>0, <1>1, <1>2, <1>3, <1>4, <1>5, <1>6
       DEF CheckDeclarationPresent, Has, NotFound, LabelOnly
  <2> QED
    BY <2>1, <2>2, <2>3, SettledAsItIs
<1>8. {"compliant", "non_compliant", "missing_evidence"} \subseteq {s.kind : s \in scenarios}
  BY <1>1, <1>4, <1>5, <1>6
<1> QED
  BY <1>7, <1>8, RuleIsReady DEF Presence, p, scenarios

LEMMA ResponsiblePartyReady == IsReady(ResponsibleParty)
<1> DEFINE parties == {"manufacturer", "packer", "importer"}
           p == [declarations |-> parties]
           good == Good([manufacturer |-> Text])
           packed == Good([packer |-> Text])
           bad == Bad(NoValues)
           scenarios == {good, packed, bad, NotPhotographed}
<1>1. /\ good.payload.values["manufacturer"] = Text
      /\ packed.payload.values["packer"] = Text
      /\ \A d \in parties : bad.payload.values[d] = None
      /\ \A d \in parties : NotPhotographed.payload.values[d] = None
  BY DEF Good, Bad, NotPhotographed, NoValues, Scenario, Declared
<1>2. /\ good.kind = "compliant" /\ good.expected = "compliant"
      /\ good.context = ShippedContext(FALSE)
      /\ packed.kind = "compliant" /\ packed.expected = "compliant"
      /\ packed.context = ShippedContext(FALSE)
  BY DEF Good, Scenario
<1>3. /\ bad.kind = "non_compliant" /\ bad.expected = "non_compliant"
      /\ bad.context = ShippedContext(FALSE)
      /\ bad.payload.complete = TRUE /\ bad.payload.labelOnly = {}
  BY DEF Bad, Scenario
<1>4. /\ NotPhotographed.kind = "missing_evidence"
      /\ NotPhotographed.expected = "additional_evidence_required"
      /\ NotPhotographed.context = ShippedContext(FALSE)
      /\ NotPhotographed.payload.complete = FALSE /\ NotPhotographed.payload.labelOnly = {}
  BY DEF NotPhotographed, Scenario
<1>5. p.declarations = parties /\ None # Text
  BY ShippedAssumption
<1> HIDE DEF good, packed, bad, p
<1>6. ASSUME NEW s \in scenarios
      PROVE  /\ s.context = ShippedContext(FALSE)
             /\ RunCheck("any_declaration_present", p, s.payload) = s.expected
             /\ Settled(s.expected, {}, s.payload) = s.expected
  <2>1. s.context = ShippedContext(FALSE)
    BY <1>2, <1>3, <1>4
  <2>2. RunCheck("any_declaration_present", p, s.payload) = CheckAnyDeclarationPresent(p, s.payload)
    BY DEF RunCheck
  <2>3. CheckAnyDeclarationPresent(p, s.payload) = s.expected
    BY <1>1, <1>2, <1>3, <1>4, <1>5 DEF CheckAnyDeclarationPresent, Has, NotFound, LabelOnly
  <2> QED
    BY <2>1, <2>2, <2>3, SettledAsItIs
<1>7. {"compliant", "non_compliant", "missing_evidence"} \subseteq {s.kind : s \in scenarios}
  BY <1>2, <1>3, <1>4
<1> QED
  BY <1>6, <1>7, RuleIsReady DEF ResponsibleParty, p, good, packed, bad

LEMMA ConsumerCareReady == IsReady(ConsumerCare)
<1> DEFINE contacts == {"consumer_care_email", "consumer_care_phone", "consumer_care_name"}
           p == [accepted |-> contacts]
           good == Good([consumer_care_email |-> Text])
           bad == Bad(NoValues)
           scenarios == {good, bad, NotPhotographed}
<1>1. /\ good.payload.values["consumer_care_email"] = Text
      /\ \A d \in contacts : bad.payload.values[d] = None
      /\ \A d \in contacts : NotPhotographed.payload.values[d] = None
  BY DEF Good, Bad, NotPhotographed, NoValues, Scenario, Declared
<1>2. /\ good.kind = "compliant" /\ good.expected = "compliant"
      /\ good.context = ShippedContext(FALSE)
  BY DEF Good, Scenario
<1>3. /\ bad.kind = "non_compliant" /\ bad.expected = "non_compliant"
      /\ bad.context = ShippedContext(FALSE)
      /\ bad.payload.complete = TRUE /\ bad.payload.labelOnly = {}
  BY DEF Bad, Scenario
<1>4. /\ NotPhotographed.kind = "missing_evidence"
      /\ NotPhotographed.expected = "additional_evidence_required"
      /\ NotPhotographed.context = ShippedContext(FALSE)
      /\ NotPhotographed.payload.complete = FALSE /\ NotPhotographed.payload.labelOnly = {}
  BY DEF NotPhotographed, Scenario
<1>5. p.accepted = contacts /\ None # Text
  BY ShippedAssumption
<1> HIDE DEF good, bad, p
<1>6. ASSUME NEW s \in scenarios
      PROVE  /\ s.context = ShippedContext(FALSE)
             /\ RunCheck("consumer_care_completeness", p, s.payload) = s.expected
             /\ Settled(s.expected, {}, s.payload) = s.expected
  <2>1. s.context = ShippedContext(FALSE)
    BY <1>2, <1>3, <1>4
  <2>2. RunCheck("consumer_care_completeness", p, s.payload) = CheckConsumerCare(p, s.payload)
    BY DEF RunCheck
  <2>3. CheckConsumerCare(p, s.payload) = s.expected
    BY <1>1, <1>2, <1>3, <1>4, <1>5 DEF CheckConsumerCare, Has, NotFound, LabelOnly
  <2> QED
    BY <2>1, <2>2, <2>3, SettledAsItIs
<1>7. {"compliant", "non_compliant", "missing_evidence"} \subseteq {s.kind : s \in scenarios}
  BY <1>2, <1>3, <1>4
<1> QED
  BY <1>6, <1>7, RuleIsReady DEF ConsumerCare, p, good, bad

LEMMA CountryOfOriginReady == IsReady(CountryOfOriginImported)
<1> DEFINE d == "country_of_origin"
           good == Imported(Good([country_of_origin |-> Text]))
           bad == Imported(Bad(NoValues))
           absent == Imported(NotPhotographed)
           scenarios == {good, bad, absent}
<1>1. /\ good.payload.values[d] = Text /\ bad.payload.values[d] = None
      /\ absent.payload.values[d] = None
  BY DEF Imported, Good, Bad, NotPhotographed, NoValues, Scenario, Declared
<1>2. \A s \in scenarios : s.context = ShippedContext(TRUE) /\ s.payload.imported = TRUE
  <2>1. good.context = ShippedContext(TRUE) /\ good.payload.imported = TRUE
    BY DEF Imported, Good, Scenario
  <2>2. bad.context = ShippedContext(TRUE) /\ bad.payload.imported = TRUE
    BY DEF Imported, Bad, Scenario
  <2>3. absent.context = ShippedContext(TRUE) /\ absent.payload.imported = TRUE
    BY DEF Imported, NotPhotographed, Scenario
  <2> HIDE DEF good, bad, absent
  <2> QED
    BY <2>1, <2>2, <2>3
<1>3. /\ good.kind = "compliant" /\ good.expected = "compliant"
      /\ bad.kind = "non_compliant" /\ bad.expected = "non_compliant"
      /\ absent.kind = "missing_evidence" /\ absent.expected = "additional_evidence_required"
      /\ bad.payload.complete = TRUE /\ absent.payload.complete = FALSE
  BY DEF Imported, Good, Bad, NotPhotographed, Scenario
<1> HIDE DEF good, bad, absent
<1>4. ASSUME NEW s \in scenarios
      PROVE  /\ RunCheck("country_of_origin_required", NoValues, s.payload) = s.expected
             /\ Settled(s.expected, {}, s.payload) = s.expected
  <2>1. RunCheck("country_of_origin_required", NoValues, s.payload) = CheckCountryOfOrigin(s.payload)
    BY DEF RunCheck
  <2>2. CheckCountryOfOrigin(s.payload) = s.expected
    BY <1>1, <1>2, <1>3, ShippedAssumption DEF CheckCountryOfOrigin, Has
  <2> QED
    BY <2>1, <2>2, SettledAsItIs
<1>5. {"compliant", "non_compliant", "missing_evidence"} \subseteq {s.kind : s \in scenarios}
  BY <1>3
<1> QED
  BY <1>2, <1>4, <1>5, RuleIsReady DEF CountryOfOriginImported, good, bad, absent

LEMMA NetQuantityUnitsReady == IsReady(NetQuantityUnits)
<1> DEFINE p == [permitted |-> PermittedUnits]
           good == Good([net_quantity |-> Weight("g", 500)])
           bad == Bad([net_quantity |-> Weight("tonne", 2000000)])
           unread == Unread(NoValues)
           scenarios == {good, bad, unread}
<1>1. /\ good.payload.values["net_quantity"] = Weight("g", 500)
      /\ bad.payload.values["net_quantity"] = Weight("tonne", 2000000)
      /\ unread.payload.values["net_quantity"] = None
  BY DEF Good, Bad, Unread, NoValues, Scenario, Declared
<1>2. /\ good.kind = "compliant" /\ good.expected = "compliant"
      /\ good.context = ShippedContext(FALSE)
  BY DEF Good, Scenario
<1>3. /\ bad.kind = "non_compliant" /\ bad.expected = "non_compliant"
      /\ bad.context = ShippedContext(FALSE)
  BY DEF Bad, Scenario
<1>4. /\ unread.kind = "missing_evidence" /\ unread.expected = "unable_to_determine"
      /\ unread.context = ShippedContext(FALSE)
  BY DEF Unread, Scenario
<1>5. \A unit \in {"g", "tonne"}, base \in Nat :
          /\ Weight(unit, base) # None
          /\ Weight(unit, base).unit = unit /\ Weight(unit, base).dimension = "weight"
  <2>1. \A unit \in {"g", "tonne"}, base \in Nat :
            Weight(unit, base) \in [unit : {"g", "kg", "tonne"}, base : Nat, dimension : {"weight"}]
    BY DEF Weight
  <2>2. \A unit \in {"g", "tonne"}, base \in Nat : Weight(unit, base) # None
    BY <2>1, ShippedAssumption
  <2>3. \A unit, base : Weight(unit, base).unit = unit /\ Weight(unit, base).dimension = "weight"
    BY DEF Weight
  <2> QED
    BY <2>2, <2>3
<1>6. /\ p.permitted["weight"] # None
      /\ "g" \in p.permitted["weight"] /\ "tonne" \notin p.permitted["weight"]
  <2>1. "weight" \in DOMAIN PermittedUnits /\ p.permitted = PermittedUnits
    BY DEF PermittedUnits
  <2>2. "g" \in PermittedUnits["weight"] /\ "tonne" \notin PermittedUnits["weight"]
    BY DEF PermittedUnits
  <2> QED
    BY <2>1, <2>2, ShippedAssumption
<1> HIDE DEF good, bad, unread, p
<1>7. ASSUME NEW s \in scenarios
      PROVE  /\ s.context = ShippedContext(FALSE)
             /\ RunCheck("net_quantity_unit_permitted", p, s.payload) = s.expected
             /\ Settled(s.expected, {"net_quantity"}, s.payload) = s.expected
  <2>1. s.context = ShippedContext(FALSE)
    BY <1>2, <1>3, <1>4
  <2>2. RunCheck("net_quantity_unit_permitted", p, s.payload) = CheckNetQuantityUnit(p, s.payload)
    BY DEF RunCheck
  <2>3. CheckNetQuantityUnit(p, s.payload) = s.expected
    BY <1>1, <1>2, <1>3, <1>4, <1>5, <1>6 DEF CheckNetQuantityUnit
  <2>4. s.expected = "non_compliant" => Has(s.payload, "net_quantity")
    BY <1>1, <1>2, <1>4, <1>5 DEF Has
  <2> QED
    BY <2>1, <2>2, <2>3, <2>4, SettledAsItIs
<1>8. {"compliant", "non_compliant", "missing_evidence"} \subseteq {s.kind : s \in scenarios}
  BY <1>2, <1>3, <1>4
<1>9. None # None => None = FALSE
  OBVIOUS
<1>10. NetQuantityUnits =
           Shipped(StarterRule("net_quantity_unit_permitted", p, {"net_quantity"}, None),
                   scenarios)
  BY DEF NetQuantityUnits, p, good, bad, unread
<1> QED
  BY <1>7, <1>8, <1>9, <1>10, RuleIsReady

LEMMA DateMarkingReady == IsReady(DateMarking)
<1> DEFINE accepted == <<"date_of_manufacture", "date_of_packing", "date_of_import">>
           p == [accepted |-> accepted, precision |-> "month"]
           good == Good([date_of_manufacture |-> DateWith("month")])
           bad == Bad([date_of_packing |-> DateWith("year")])
           none == Bad(NoValues)
           scenarios == {good, bad, none, NotPhotographed}
<1>1. /\ good.payload.values[accepted[1]] = DateWith("month")
      /\ bad.payload.values[accepted[1]] = None
      /\ bad.payload.values[accepted[2]] = DateWith("year")
      /\ \A i \in 1..3 : none.payload.values[accepted[i]] = None
      /\ \A i \in 1..3 : NotPhotographed.payload.values[accepted[i]] = None
  BY DEF Good, Bad, NotPhotographed, NoValues, Scenario, Declared
<1>2. /\ good.kind = "compliant" /\ good.expected = "compliant"
      /\ good.context = ShippedContext(FALSE)
  BY DEF Good, Scenario
<1>3. /\ bad.kind = "non_compliant" /\ bad.expected = "non_compliant"
      /\ bad.context = ShippedContext(FALSE)
      /\ none.kind = "non_compliant" /\ none.expected = "non_compliant"
      /\ none.context = ShippedContext(FALSE)
      /\ none.payload.complete = TRUE /\ none.payload.labelOnly = {}
  BY DEF Bad, Scenario
<1>4. /\ NotPhotographed.kind = "missing_evidence"
      /\ NotPhotographed.expected = "additional_evidence_required"
      /\ NotPhotographed.context = ShippedContext(FALSE)
      /\ NotPhotographed.payload.complete = FALSE /\ NotPhotographed.payload.labelOnly = {}
  BY DEF NotPhotographed, Scenario
<1>5. \A precision \in {"year", "month"} :
          /\ DateWith(precision) # None /\ DateWith(precision).precision = precision
          /\ DateWith(precision).ambiguous = FALSE
  <2>1. \A precision \in {"year", "month"} :
            DateWith(precision) \in [precision : {"year", "month"}, ambiguous : {FALSE}]
    BY DEF DateWith
  <2>2. \A precision \in {"year", "month"} : DateWith(precision) # None
    BY <2>1, ShippedAssumption
  <2> QED
    BY <2>2 DEF DateWith
<1>6. p.accepted = accepted /\ p.precision = "month" /\ DOMAIN accepted = 1..3
  OBVIOUS
<1>7. PrecisionRank["month"] = 2 /\ PrecisionRank["year"] = 1
  BY DEF PrecisionRank
<1> HIDE DEF good, bad, none, accepted, p
<1>8. FirstFound(accepted, good.payload) = 1
  BY <1>1, <1>5, <1>6 DEF FirstFound, Has
<1>9. FirstFound(accepted, bad.payload) = 2
  BY <1>1, <1>5, <1>6 DEF FirstFound, Has
<1>10. ASSUME NEW s \in scenarios
       PROVE  /\ s.context = ShippedContext(FALSE)
              /\ RunCheck("date_marking_completeness", p, s.payload) = s.expected
              /\ Settled(s.expected, {}, s.payload) = s.expected
  <2>1. s.context = ShippedContext(FALSE)
    BY <1>2, <1>3, <1>4
  <2>2. RunCheck("date_marking_completeness", p, s.payload) = CheckDateMarking(p, s.payload)
    BY DEF RunCheck
  <2>3. CheckDateMarking(p, good.payload) = "compliant"
    BY <1>1, <1>5, <1>6, <1>7, <1>8 DEF CheckDateMarking, Has
  <2>4. CheckDateMarking(p, bad.payload) = "non_compliant"
    BY <1>1, <1>5, <1>6, <1>7, <1>9 DEF CheckDateMarking, Has
  <2>5. /\ CheckDateMarking(p, none.payload) = "non_compliant"
        /\ CheckDateMarking(p, NotPhotographed.payload) = "additional_evidence_required"
    BY <1>1, <1>3, <1>4, <1>6 DEF CheckDateMarking, Has, NotFound, LabelOnly
  <2> QED
    BY <1>2, <1>3, <1>4, <2>1, <2>2, <2>3, <2>4, <2>5, SettledAsItIs
<1>11. {"compliant", "non_compliant", "missing_evidence"} \subseteq {s.kind : s \in scenarios}
  BY <1>2, <1>3, <1>4
<1>12. DateMarking = Shipped(StarterRule("date_marking_completeness", p, {}, None), scenarios)
  BY DEF DateMarking, p, accepted, good, bad, none
<1> QED
  BY <1>10, <1>11, <1>12, RuleIsReady

\* The columns of a scenario and of its payload.
IsScenario(s) ==
    /\ DOMAIN s = {"kind", "expected", "context", "payload"}
    /\ DOMAIN s.payload = {"values", "labelOnly", "complete", "imported", "heights", "wording"}

\* A scenario with what is read around the price.
LEMMA SurroundedFields ==
    ASSUME NEW before, IsScenario(before), NEW w
    PROVE  LET s == Surrounded(before, w)
           IN  /\ s.kind = before.kind /\ s.expected = before.expected
               /\ s.context = before.context
               /\ s.payload.values = before.payload.values
               /\ s.payload.wording = w
<1> DEFINE s == Surrounded(before, w)
<1>1. s = [before EXCEPT !.payload = [before.payload EXCEPT !.wording = w]]
  BY DEF Surrounded
<1> HIDE DEF s
<1>2. /\ s.kind = before.kind /\ s.expected = before.expected /\ s.context = before.context
      /\ s.payload = [before.payload EXCEPT !.wording = w]
  BY <1>1 DEF IsScenario
<1>3. s.payload.values = before.payload.values /\ s.payload.wording = w
  BY <1>2 DEF IsScenario
<1> QED
  BY <1>2, <1>3 DEF s

LEMMA RetailPriceWordingReady == IsReady(RetailPriceWording)
<1> DEFINE p == [phrases |-> PriceWording]
           said == {"incl. of all taxes"}
           silence == {}
           good == Surrounded(Good([mrp |-> 5800]), said)
           bad == Surrounded(Bad([mrp |-> 5800]), silence)
           unread == Unread([mrp |-> 5800])
           scenarios == {good, bad, unread}
<1>1. /\ good.payload.values["mrp"] = 5800 /\ good.payload.wording = said
      /\ good.kind = "compliant" /\ good.expected = "compliant"
      /\ good.context = ShippedContext(FALSE)
  <2> DEFINE plain == Good([mrp |-> 5800])
  <2>1. /\ IsScenario(plain) /\ plain.payload.values["mrp"] = 5800
        /\ plain.kind = "compliant" /\ plain.expected = "compliant"
        /\ plain.context = ShippedContext(FALSE)
    BY DEF Good, Scenario, Declared, IsScenario
  <2>2. good = Surrounded(plain, said)
    OBVIOUS
  <2> HIDE DEF plain, good, said
  <2>3. /\ good.kind = plain.kind /\ good.expected = plain.expected /\ good.context = plain.context
        /\ good.payload.values = plain.payload.values /\ good.payload.wording = said
    <3>1. IsScenario(plain)
      BY <2>1
    <3> QED
      BY Zenon, <2>2, <3>1, SurroundedFields
  <2> QED
    BY <2>1, <2>3
<1>2. /\ bad.payload.values["mrp"] = 5800 /\ bad.payload.wording = silence
      /\ bad.kind = "non_compliant" /\ bad.expected = "non_compliant"
      /\ bad.context = ShippedContext(FALSE)
  <2> DEFINE plain == Bad([mrp |-> 5800])
  <2>1. /\ IsScenario(plain) /\ plain.payload.values["mrp"] = 5800
        /\ plain.kind = "non_compliant" /\ plain.expected = "non_compliant"
        /\ plain.context = ShippedContext(FALSE)
    BY DEF Bad, Scenario, Declared, IsScenario
  <2>2. bad = Surrounded(plain, silence)
    OBVIOUS
  <2> HIDE DEF plain, bad, silence
  <2>3. /\ bad.kind = plain.kind /\ bad.expected = plain.expected /\ bad.context = plain.context
        /\ bad.payload.values = plain.payload.values /\ bad.payload.wording = silence
    <3>1. IsScenario(plain)
      BY <2>1
    <3> QED
      BY Zenon, <2>2, <3>1, SurroundedFields
  <2> QED
    BY <2>1, <2>3
<1>3. /\ unread.kind = "missing_evidence" /\ unread.expected = "unable_to_determine"
      /\ unread.context = ShippedContext(FALSE) /\ unread.payload.wording = None
  BY DEF Unread, Scenario
<1>4. /\ p.phrases \cap said # {} /\ said # None
      /\ p.phrases \cap silence = {} /\ silence # None
  <2>1. p.phrases = PriceWording /\ "incl. of all taxes" \in PriceWording
    BY DEF PriceWording
  <2>2. said \in SUBSET PriceWording /\ silence \in SUBSET PriceWording
    BY <2>1
  <2>4. p.phrases \cap silence = {}
    OBVIOUS
  <2>3. "incl. of all taxes" \in p.phrases \cap said
    BY <2>1
  <2> HIDE DEF p, said, silence
  <2> QED
    BY <2>2, <2>3, <2>4, ShippedAssumption
<1>5. 5800 # None
  BY ShippedAssumption
<1> HIDE DEF p, said, silence
<1> HIDE DEF good, bad, unread
<1>6. CheckRetailPriceWording(p, good.payload) = "compliant"
  BY <1>1, <1>4, <1>5 DEF CheckRetailPriceWording, Has
<1>7. /\ CheckRetailPriceWording(p, bad.payload) = "non_compliant"
      /\ Has(bad.payload, "mrp")
  BY <1>2, <1>4, <1>5 DEF CheckRetailPriceWording, Has
<1>8. CheckRetailPriceWording(p, unread.payload) = "unable_to_determine"
  BY <1>3 DEF CheckRetailPriceWording
<1>9. /\ good.kind = "compliant" /\ good.expected = "compliant"
      /\ good.context = ShippedContext(FALSE)
      /\ bad.kind = "non_compliant" /\ bad.expected = "non_compliant"
      /\ bad.context = ShippedContext(FALSE)
  BY <1>1, <1>2
<1>10. ASSUME NEW s \in scenarios
       PROVE  /\ s.context = ShippedContext(FALSE)
              /\ RunCheck("retail_price_wording", p, s.payload) = s.expected
              /\ Settled(s.expected, {"mrp"}, s.payload) = s.expected
  <2>1. s.context = ShippedContext(FALSE)
    BY <1>3, <1>9
  <2>2. RunCheck("retail_price_wording", p, s.payload) = CheckRetailPriceWording(p, s.payload)
    BY DEF RunCheck
  <2>3. CheckRetailPriceWording(p, s.payload) = s.expected
    BY <1>3, <1>6, <1>7, <1>8, <1>9
  <2>4. s.expected = "non_compliant" => Has(s.payload, "mrp")
    BY <1>3, <1>7, <1>9
  <2> QED
    BY <2>1, <2>2, <2>3, <2>4, SettledAsItIs
<1>11. {"compliant", "non_compliant", "missing_evidence"} \subseteq {s.kind : s \in scenarios}
  BY <1>3, <1>9
<1>12. RetailPriceWording =
           Shipped(StarterRule("retail_price_wording", p, {"mrp"}, None), scenarios)
  BY DEF RetailPriceWording, p, said, silence, good, bad, unread
<1> QED
  BY <1>10, <1>11, <1>12, RuleIsReady

LEMMA UnitSalePriceReady == IsReady(UnitSalePriceConsistency)
<1> DEFINE p == [per |-> PerUnits, tolerance |-> 1, skipForCount |-> TRUE]
           half == Weight("g", 250)
           good == Good([mrp |-> 4500, net_quantity |-> half, unit_sale_price |-> Paise(1800)])
           bad == Bad([mrp |-> 4500, net_quantity |-> half, unit_sale_price |-> Paise(1500)])
           unread == Unread([mrp |-> 4500])
           scenarios == {good, bad, unread}
           required == {"mrp", "net_quantity"}
<1>1. /\ good.payload.values["mrp"] = 4500 /\ good.payload.values["net_quantity"] = half
      /\ good.payload.values["unit_sale_price"] = Paise(1800)
      /\ good.kind = "compliant" /\ good.expected = "compliant"
      /\ good.context = ShippedContext(FALSE)
  BY DEF Good, Scenario, Declared
<1>2. /\ bad.payload.values["mrp"] = 4500 /\ bad.payload.values["net_quantity"] = half
      /\ bad.payload.values["unit_sale_price"] = Paise(1500)
      /\ bad.kind = "non_compliant" /\ bad.expected = "non_compliant"
      /\ bad.context = ShippedContext(FALSE)
  BY DEF Bad, Scenario, Declared
<1>3. /\ unread.payload.values["net_quantity"] = None
      /\ unread.kind = "missing_evidence" /\ unread.expected = "unable_to_determine"
      /\ unread.context = ShippedContext(FALSE)
  BY DEF Unread, Scenario, Declared
<1>4. p.per = 100 /\ p.tolerance = 1 /\ p.skipForCount = TRUE
  BY DEF PerUnits
<1>5. half # None /\ half.base = 250 /\ half.dimension = "weight"
  <2>1. half \in [unit : {"g", "kg", "tonne"}, base : Nat, dimension : {"weight"}]
    BY DEF Weight
  <2>2. half.base = 250 /\ half.dimension = "weight"
    BY DEF Weight
  <2> QED
    BY <2>1, <2>2, ShippedAssumption
<1>6. \A amount \in Int : /\ Paise(amount) # None /\ Paise(amount).num = amount
                          /\ Paise(amount).den = 1
  <2>1. \A amount \in Int : Paise(amount) \in [num : Int, den : {1}]
    BY DEF Paise
  <2>2. \A amount : Paise(amount).num = amount /\ Paise(amount).den = 1
    BY DEF Paise
  <2> QED
    BY <2>1, <2>2, ShippedAssumption
<1>7. UnitSalePrice(4500, 250, 100) = 1800
  BY DEF UnitSalePrice, HalfUp
<1>8. HalfUp(1800, 1) = 1800 /\ HalfUp(1500, 1) = 1500
  BY WholePaise
<1>9. Distance(1800, 1800) = 0 /\ Distance(1500, 1800) = 300
  BY DEF Distance
<1>10. 4500 # None /\ ~(250 <= 0) /\ 0 <= 1 /\ ~(300 <= 1)
  BY ShippedAssumption
<1> HIDE DEF p, half, good, bad, unread
<1>11. CheckUnitSalePrice(p, good.payload) = "compliant"
  BY <1>1, <1>4, <1>5, <1>6, <1>7, <1>8, <1>9, <1>10 DEF CheckUnitSalePrice
<1>12. /\ CheckUnitSalePrice(p, bad.payload) = "non_compliant"
       /\ Has(bad.payload, "mrp") /\ Has(bad.payload, "net_quantity")
  BY <1>2, <1>4, <1>5, <1>6, <1>7, <1>8, <1>9, <1>10 DEF CheckUnitSalePrice, Has
<1>13. CheckUnitSalePrice(p, unread.payload) = "unable_to_determine"
  BY <1>3 DEF CheckUnitSalePrice
<1>17. /\ good.context = ShippedContext(FALSE) /\ bad.context = ShippedContext(FALSE)
       /\ unread.context = ShippedContext(FALSE)
  BY <1>1, <1>2, <1>3
<1>14. ASSUME NEW s \in scenarios
       PROVE  /\ s.context = ShippedContext(FALSE)
              /\ RunCheck("unit_sale_price_consistency", p, s.payload) = s.expected
              /\ Settled(s.expected, required, s.payload) = s.expected
  <2>1. s.context = ShippedContext(FALSE)
    BY <1>17
  <2>2. RunCheck("unit_sale_price_consistency", p, s.payload) = CheckUnitSalePrice(p, s.payload)
    BY DEF RunCheck
  <2>3. CheckUnitSalePrice(p, s.payload) = s.expected
    BY <1>1, <1>2, <1>3, <1>11, <1>12, <1>13
  <2>4. s.expected = "non_compliant" => \A d \in required : Has(s.payload, d)
    BY <1>1, <1>3, <1>12
  <2> QED
    BY <2>1, <2>2, <2>3, <2>4, SettledAsItIs
<1>15. {"compliant", "non_compliant", "missing_evidence"} \subseteq {s.kind : s \in scenarios}
  BY <1>1, <1>2, <1>3
<1>16. UnitSalePriceConsistency =
           Shipped(StarterRule("unit_sale_price_consistency", p, required, None), scenarios)
  BY DEF UnitSalePriceConsistency, p, half, good, bad, unread
<1> QED
  BY <1>14, <1>15, <1>16, RuleIsReady

\* A scenario with a measured height of the net quantity.
LEMMA MeasuredFields ==
    ASSUME NEW before, IsScenario(before), "net_quantity" \in DOMAIN before.payload.heights,
           NEW observed
    PROVE  LET s == Measured(before, observed)
           IN  /\ s.kind = before.kind /\ s.expected = before.expected
               /\ s.context = before.context
               /\ s.payload.heights["net_quantity"] = [observed |-> observed, uncertainty |-> 2]
<1> DEFINE s == Measured(before, observed)
           height == [observed |-> observed, uncertainty |-> 2]
<1>1. s = [before EXCEPT !.payload = [before.payload EXCEPT !.heights =
              [before.payload.heights EXCEPT !["net_quantity"] = height]]]
  BY DEF Measured
<1> HIDE DEF s, height
<1>2. /\ s.kind = before.kind /\ s.expected = before.expected /\ s.context = before.context
      /\ s.payload = [before.payload EXCEPT !.heights =
                         [before.payload.heights EXCEPT !["net_quantity"] = height]]
  BY <1>1 DEF IsScenario
<1>3. s.payload.heights["net_quantity"] = height
  BY <1>2 DEF IsScenario
<1> QED
  BY <1>2, <1>3 DEF s, height

LEMMA CharHeightReady == IsReady(CharHeightNetQuantity)
<1> DEFINE p == [declaration |-> "net_quantity", minimum |-> 10, uncertainty |-> 2]
           Height(observed) == [observed |-> observed, uncertainty |-> 2]
           good == Measured(Good(NoValues), 16)
           bad == Measured(Bad(NoValues), 5)
           unmeasured ==
               Scenario("missing_evidence", "additional_evidence_required", NoValues, TRUE)
           scenarios == {good, bad, unmeasured}
<1>1. /\ good.payload.heights["net_quantity"] = Height(16)
      /\ good.kind = "compliant" /\ good.expected = "compliant"
      /\ good.context = ShippedContext(FALSE)
  <2> DEFINE plain == Good(NoValues)
  <2>1. /\ IsScenario(plain) /\ "net_quantity" \in DOMAIN plain.payload.heights
        /\ plain.kind = "compliant" /\ plain.expected = "compliant"
        /\ plain.context = ShippedContext(FALSE)
    BY DEF Good, Scenario, Declared, IsScenario
  <2>2. good = Measured(plain, 16)
    OBVIOUS
  <2> HIDE DEF plain, good
  <2> QED
    BY <2>1, <2>2, MeasuredFields
<1>2. /\ bad.payload.heights["net_quantity"] = Height(5)
      /\ bad.kind = "non_compliant" /\ bad.expected = "non_compliant"
      /\ bad.context = ShippedContext(FALSE)
  <2> DEFINE plain == Bad(NoValues)
  <2>1. /\ IsScenario(plain) /\ "net_quantity" \in DOMAIN plain.payload.heights
        /\ plain.kind = "non_compliant" /\ plain.expected = "non_compliant"
        /\ plain.context = ShippedContext(FALSE)
    BY DEF Bad, Scenario, Declared, IsScenario
  <2>2. bad = Measured(plain, 5)
    OBVIOUS
  <2> HIDE DEF plain, bad
  <2> QED
    BY <2>1, <2>2, MeasuredFields
<1>3. /\ unmeasured.payload.heights["net_quantity"] = None
      /\ unmeasured.kind = "missing_evidence"
      /\ unmeasured.expected = "additional_evidence_required"
      /\ unmeasured.context = ShippedContext(FALSE)
  BY DEF Scenario, Declared
<1>4. \A observed \in Nat : /\ Height(observed) # None /\ Height(observed).observed = observed
                            /\ Height(observed).uncertainty = 2
  <2>1. \A observed \in Nat : Height(observed) \in [observed : Nat, uncertainty : Nat]
    OBVIOUS
  <2>2. \A observed : Height(observed).observed = observed /\ Height(observed).uncertainty = 2
    OBVIOUS
  <2> HIDE DEF Height
  <2> QED
    BY <2>1, <2>2, ShippedAssumption
<1>5. p.declaration = "net_quantity" /\ p.minimum = 10
  OBVIOUS
<1>6. HeightOutcome(10, 16, 2) = "compliant" /\ HeightOutcome(10, 5, 2) = "non_compliant"
  BY DEF HeightOutcome
<1>7. 2 # None
  BY ShippedAssumption
<1> HIDE DEF p, Height, good, bad, unmeasured
<1>8. /\ CheckCharacterHeight(p, good.payload) = "compliant"
      /\ CheckCharacterHeight(p, bad.payload) = "non_compliant"
      /\ CheckCharacterHeight(p, unmeasured.payload) = "additional_evidence_required"
  BY <1>1, <1>2, <1>3, <1>4, <1>5, <1>6, <1>7 DEF CheckCharacterHeight
<1>9. ASSUME NEW s \in scenarios
      PROVE  /\ s.context = ShippedContext(FALSE)
             /\ RunCheck("character_height_minimum", p, s.payload) = s.expected
             /\ Settled(s.expected, {}, s.payload) = s.expected
  <2>1. s.context = ShippedContext(FALSE)
    BY <1>1, <1>2, <1>3
  <2>2. RunCheck("character_height_minimum", p, s.payload) = CheckCharacterHeight(p, s.payload)
    BY DEF RunCheck
  <2>3. CheckCharacterHeight(p, s.payload) = s.expected
    BY <1>1, <1>2, <1>3, <1>8
  <2> QED
    BY <2>1, <2>2, <2>3, SettledAsItIs
<1>10. {"compliant", "non_compliant", "missing_evidence"} \subseteq {s.kind : s \in scenarios}
  BY <1>1, <1>2, <1>3
<1>11. CharHeightNetQuantity =
           Shipped(StarterRule("character_height_minimum", p, {}, None), scenarios)
  BY DEF CharHeightNetQuantity, p, good, bad, unmeasured
<1> QED
  BY <1>9, <1>10, <1>11, RuleIsReady

LEMMA StarterHolds ==
    ASSUME NEW t \in [about : {"starter"}, shipped : SeedRules], trial = t
    PROVE  StarterRulesAreReady
<1>1. t.shipped \in SeedRules
  OBVIOUS
<1>2. IsReady(CommonName) /\ IsReady(NetQuantity) /\ IsReady(RetailSalePrice)
  <2>1. Text # None /\ Weight("kg", 1000) # None /\ 5800 # None
    <3>1. Weight("kg", 1000) \in [unit : {"g", "kg", "tonne"}, base : Nat, dimension : {"weight"}]
      BY DEF Weight
    <3> QED
      BY <3>1, ShippedAssumption
  <2>2. {"common_generic_name", "net_quantity", "mrp"} \subseteq Declared
    BY DEF Declared
  <2> QED
    BY <2>1, <2>2, PresenceReady DEF CommonName, NetQuantity, RetailSalePrice
<1>3. IsReady(t.shipped)
  BY <1>1, <1>2, ResponsiblePartyReady, NetQuantityUnitsReady, DateMarkingReady,
     RetailPriceWordingReady, ConsumerCareReady, CountryOfOriginReady, UnitSalePriceReady,
     CharHeightReady DEF SeedRules
<1> QED
  BY <1>3 DEF IsReady, StarterRulesAreReady

-----------------------------------------------------------------------------
(* Pages                                                                   *)

\* The types of each group of the table.
LEMMA Groups ==
    /\ DOMAIN PriceLabels = {"mrp", "unit_sale_price"}
    /\ DOMAIN QuantityLabels = {"net_quantity"}
    /\ DOMAIN PartyLabels = {"manufacturer", "packer", "importer", "marketer"}
    /\ DOMAIN CareLabels = {"consumer_care_email", "consumer_care_phone", "consumer_care_name"}
    /\ DOMAIN NameLabels = {"country_of_origin", "common_generic_name"}
    /\ DOMAIN DateLabels = {"date_of_manufacture", "date_of_packing", "date_of_import",
                            "best_before"}
    /\ DOMAIN OtherLabels = {"batch_number", "lot_number", "ingredients", "nutrition",
                             "allergen_statement", "veg_nonveg_mark", "fssai_licence"}
<1>1. DOMAIN PriceLabels = {"mrp", "unit_sale_price"}
  BY DEF PriceLabels
<1>2. DOMAIN QuantityLabels = {"net_quantity"}
  BY DEF QuantityLabels
<1>3. DOMAIN PartyLabels = {"manufacturer", "packer", "importer", "marketer"}
  BY DEF PartyLabels
<1>4. DOMAIN CareLabels = {"consumer_care_email", "consumer_care_phone", "consumer_care_name"}
  BY DEF CareLabels
<1>5. DOMAIN NameLabels = {"country_of_origin", "common_generic_name"}
  BY DEF NameLabels
<1>6. DOMAIN DateLabels = {"date_of_manufacture", "date_of_packing", "date_of_import",
                           "best_before"}
  BY DEF DateLabels
<1>7. DOMAIN OtherLabels = {"batch_number", "lot_number", "ingredients", "nutrition",
                            "allergen_statement", "veg_nonveg_mark", "fssai_licence"}
  BY DEF OtherLabels
<1> QED
  BY <1>1, <1>2, <1>3, <1>4, <1>5, <1>6, <1>7

LEMMA LabelsOfGroup ==
    /\ \A d \in DOMAIN PriceLabels : Labels[d] = PriceLabels[d]
    /\ \A d \in DOMAIN QuantityLabels : Labels[d] = QuantityLabels[d]
    /\ \A d \in DOMAIN PartyLabels : Labels[d] = PartyLabels[d]
    /\ \A d \in DOMAIN CareLabels : Labels[d] = CareLabels[d]
    /\ \A d \in DOMAIN NameLabels : Labels[d] = NameLabels[d]
    /\ \A d \in DOMAIN DateLabels : Labels[d] = DateLabels[d]
    /\ \A d \in DOMAIN OtherLabels : Labels[d] = OtherLabels[d]
BY Groups DEF Labels, Type

\* What a word of a label tells of the types that have such a label.
Tells(word, d) ==
    /\ word \in {"max", "maximum", "mrp", "retail"} => d = "mrp"
    /\ word = "unit" => d = "unit_sale_price"
    /\ word \in {"at", "manufacturer"} => d = "manufacturer"
    /\ word = "packer" => d = "packer"
    /\ word = "importer" => d = "importer"
    /\ word \in {"marketed", "marketer"} => d = "marketer"
    /\ word \in {"details", "for", "officer", "relations"} => d = "consumer_care_name"
    /\ word \in {"country", "in", "origin"} => d = "country_of_origin"
    /\ word \in {"common", "generic", "name"} => d = "common_generic_name"
    /\ word = "manufacture" => d = "date_of_manufacture"
    /\ word \in {"packing", "pkd"} => d = "date_of_packing"
    /\ word = "import" => d = "date_of_import"
    /\ word \in {"before", "exp", "expires", "expiry", "use"} => d = "best_before"
    /\ word \in {"batch", "bno"} => d = "batch_number"
    /\ word = "lot" => d = "lot_number"
    /\ word \in {"composition", "ingredient", "ingredients"} => d = "ingredients"
    /\ word \in {"facts", "information"} => d = "nutrition"
    /\ word \in {"allergen", "contain", "contains"} => d = "allergen_statement"
    /\ word \in {"manufactured", "mfd", "mfg"} => d \in {"manufacturer", "date_of_manufacture"}
    /\ word = "packed" => d \in {"packer", "date_of_packing"}
    /\ word = "imported" => d \in {"importer", "date_of_import"}
    /\ word = "product" => d \in {"country_of_origin", "common_generic_name"}
    /\ word = "of" => d \in {"country_of_origin", "date_of_manufacture", "date_of_packing",
                             "date_of_import"}
    /\ word = "by" => d \in {"manufacturer", "packer", "importer", "marketer", "best_before"}

\* Type d may have every one of the words.
Told(words, d) == \A i \in 1..Len(words) : Tells(words[i], d)

\* Words in a row, at least one.
IsLabel(words) == words \in Seq({words[i] : i \in 1..Len(words)}) /\ Len(words) >= 1

WordsTell(words, d) == IsLabel(words) /\ Told(words, d)

LEMMA TuplesAreLabels ==
    \A a, b, c, e :
        IsLabel(<<a>>) /\ IsLabel(<<a, b>>) /\ IsLabel(<<a, b, c>>) /\ IsLabel(<<a, b, c, e>>)
BY DEF IsLabel

LEMMA ShortLabels ==
    ASSUME NEW d
    PROVE  /\ \A a : Tells(a, d) => WordsTell(<<a>>, d)
           /\ \A a, b : Tells(a, d) /\ Tells(b, d) => WordsTell(<<a, b>>, d)
           /\ \A a, b, c : Tells(a, d) /\ Tells(b, d) /\ Tells(c, d) => WordsTell(<<a, b, c>>, d)
           /\ \A a, b, c, e : Tells(a, d) /\ Tells(b, d) /\ Tells(c, d) /\ Tells(e, d)
                => WordsTell(<<a, b, c, e>>, d)
BY DEF WordsTell, IsLabel, Told

LEMMA PriceTells ==
    \A d \in DOMAIN PriceLabels : \A words \in Labels[d] : WordsTell(words, d)
<1>1. \A words \in Labels["mrp"] : WordsTell(words, "mrp")
  <2>1. \A words \in Labels["mrp"] :
            words \in {<<"maximum", "retail", "price">>, <<"max", "retail", "price">>, <<"mrp">>,
                       <<"retail", "sale", "price">>}
    BY LabelsOfGroup, Groups DEF PriceLabels
  <2>2. \A word \in {"maximum", "retail", "price", "max", "mrp", "sale"} : Tells(word, "mrp")
    BY DEF Tells
  <2> QED
    BY <2>1, <2>2, ShortLabels
<1>2. \A words \in Labels["unit_sale_price"] : WordsTell(words, "unit_sale_price")
  <2>1. \A words \in Labels["unit_sale_price"] :
            words \in {<<"unit", "sale", "price">>, <<"unit", "price">>,
                       <<"price", "per", "unit">>, <<"per", "unit", "price">>}
    BY LabelsOfGroup, Groups DEF PriceLabels
  <2>2. \A word \in {"unit", "sale", "price", "per"} : Tells(word, "unit_sale_price")
    BY DEF Tells
  <2> QED
    BY <2>1, <2>2, ShortLabels
<1> QED
  BY <1>1, <1>2, Groups

LEMMA QuantityTells ==
    \A d \in DOMAIN QuantityLabels : \A words \in Labels[d] : WordsTell(words, d)
<1>1. \A words \in Labels["net_quantity"] : WordsTell(words, "net_quantity")
  <2>1. \A words \in Labels["net_quantity"] :
            words \in {<<"net", "quantity">>, <<"net", "qty">>, <<"net", "weight">>,
                       <<"net", "wt">>, <<"net", "content">>, <<"net", "contents">>,
                       <<"net", "vol">>, <<"net", "volume">>, <<"quantity">>}
    BY LabelsOfGroup, Groups DEF QuantityLabels
  <2>2. \A word \in {"net", "quantity", "qty", "weight", "wt", "content", "contents", "vol",
                     "volume"} :
            Tells(word, "net_quantity")
    BY DEF Tells
  <2> QED
    BY <2>1, <2>2, ShortLabels
<1> QED
  BY <1>1, Groups

LEMMA PartyTells ==
    \A d \in DOMAIN PartyLabels : \A words \in Labels[d] : WordsTell(words, d)
<1>1. \A words \in Labels["manufacturer"] : WordsTell(words, "manufacturer")
  <2>1. \A words \in Labels["manufacturer"] :
            words \in {<<"manufactured", "by">>, <<"mfd", "by">>, <<"mfg", "by">>,
                       <<"manufacturer">>, <<"manufactured", "at">>}
    BY LabelsOfGroup, Groups DEF PartyLabels
  <2>2. \A word \in {"manufactured", "by", "mfd", "mfg", "manufacturer", "at"} :
            Tells(word, "manufacturer")
    BY DEF Tells
  <2> QED
    BY <2>1, <2>2, ShortLabels
<1>2. \A words \in Labels["packer"] : WordsTell(words, "packer")
  <2>1. \A words \in Labels["packer"] :
            words \in {<<"packed", "by">>, <<"packer">>}
    BY LabelsOfGroup, Groups DEF PartyLabels
  <2>2. \A word \in {"packed", "by", "packer"} : Tells(word, "packer")
    BY DEF Tells
  <2> QED
    BY <2>1, <2>2, ShortLabels
<1>3. \A words \in Labels["importer"] : WordsTell(words, "importer")
  <2>1. \A words \in Labels["importer"] :
            words \in {<<"imported", "by">>, <<"importer">>}
    BY LabelsOfGroup, Groups DEF PartyLabels
  <2>2. \A word \in {"imported", "by", "importer"} : Tells(word, "importer")
    BY DEF Tells
  <2> QED
    BY <2>1, <2>2, ShortLabels
<1>4. \A words \in Labels["marketer"] : WordsTell(words, "marketer")
  <2>1. \A words \in Labels["marketer"] :
            words \in {<<"marketed", "by">>, <<"marketer">>}
    BY LabelsOfGroup, Groups DEF PartyLabels
  <2>2. \A word \in {"marketed", "by", "marketer"} : Tells(word, "marketer")
    BY DEF Tells
  <2> QED
    BY <2>1, <2>2, ShortLabels
<1> QED
  BY <1>1, <1>2, <1>3, <1>4, Groups

LEMMA CareTells ==
    \A d \in DOMAIN CareLabels : \A words \in Labels[d] : WordsTell(words, d)
<1>1. \A words \in Labels["consumer_care_email"] : WordsTell(words, "consumer_care_email")
  <2>1. \A words \in Labels["consumer_care_email"] :
            words \in {<<"consumer", "care">>, <<"customer", "care">>,
                       <<"consumer", "complaints">>, <<"email">>}
    BY LabelsOfGroup, Groups DEF CareLabels
  <2>2. \A word \in {"consumer", "care", "customer", "complaints", "email"} :
            Tells(word, "consumer_care_email")
    BY DEF Tells
  <2> QED
    BY <2>1, <2>2, ShortLabels
<1>2. \A words \in Labels["consumer_care_phone"] : WordsTell(words, "consumer_care_phone")
  <2>1. \A words \in Labels["consumer_care_phone"] :
            words \in {<<"consumer", "care">>, <<"customer", "care">>, <<"helpline">>,
                       <<"toll", "free">>, <<"phone">>, <<"tel">>, <<"contact">>}
    BY LabelsOfGroup, Groups DEF CareLabels
  <2>2. \A word \in {"consumer", "care", "customer", "helpline", "toll", "free", "phone", "tel",
                     "contact"} :
            Tells(word, "consumer_care_phone")
    BY DEF Tells
  <2> QED
    BY <2>1, <2>2, ShortLabels
<1>3. \A words \in Labels["consumer_care_name"] : WordsTell(words, "consumer_care_name")
  <2>1. \A words \in Labels["consumer_care_name"] :
            words \in {<<"consumer", "care", "details">>, <<"for", "complaints", "contact">>,
                       <<"consumer", "care", "officer">>, <<"customer", "relations">>}
    BY LabelsOfGroup, Groups DEF CareLabels
  <2>2. \A word \in {"consumer", "care", "details", "for", "complaints", "contact", "officer",
                     "customer", "relations"} :
            Tells(word, "consumer_care_name")
    BY DEF Tells
  <2> QED
    BY <2>1, <2>2, ShortLabels
<1> QED
  BY <1>1, <1>2, <1>3, Groups

LEMMA NameTells ==
    \A d \in DOMAIN NameLabels : \A words \in Labels[d] : WordsTell(words, d)
<1>1. \A words \in Labels["country_of_origin"] : WordsTell(words, "country_of_origin")
  <2>1. \A words \in Labels["country_of_origin"] :
            words \in {<<"country", "of", "origin">>, <<"made", "in">>, <<"product", "of">>,
                       <<"origin">>}
    BY LabelsOfGroup, Groups DEF NameLabels
  <2>2. \A word \in {"country", "of", "origin", "made", "in", "product"} :
            Tells(word, "country_of_origin")
    BY DEF Tells
  <2> QED
    BY <2>1, <2>2, ShortLabels
<1>2. \A words \in Labels["common_generic_name"] : WordsTell(words, "common_generic_name")
  <2>1. \A words \in Labels["common_generic_name"] :
            words \in {<<"common", "name">>, <<"generic", "name">>,
                       <<"common", "or", "generic", "name">>, <<"product", "name">>}
    BY LabelsOfGroup, Groups DEF NameLabels
  <2>2. \A word \in {"common", "name", "generic", "or", "product"} :
            Tells(word, "common_generic_name")
    BY DEF Tells
  <2> QED
    BY <2>1, <2>2, ShortLabels
<1> QED
  BY <1>1, <1>2, Groups

LEMMA DateTells ==
    \A d \in DOMAIN DateLabels : \A words \in Labels[d] : WordsTell(words, d)
<1>1. \A words \in Labels["date_of_manufacture"] : WordsTell(words, "date_of_manufacture")
  <2>1. \A words \in Labels["date_of_manufacture"] :
            words \in {<<"date", "of", "manufacture">>, <<"manufactured", "on">>,
                       <<"mfg", "date">>, <<"mfg", "dt">>, <<"mfg">>, <<"mfd">>,
                       <<"date", "of", "mfg">>}
    BY LabelsOfGroup, Groups DEF DateLabels
  <2>2. \A word \in {"date", "of", "manufacture", "manufactured", "on", "mfg", "dt", "mfd"} :
            Tells(word, "date_of_manufacture")
    BY DEF Tells
  <2> QED
    BY <2>1, <2>2, ShortLabels
<1>2. \A words \in Labels["date_of_packing"] : WordsTell(words, "date_of_packing")
  <2>1. \A words \in Labels["date_of_packing"] :
            words \in {<<"date", "of", "packing">>, <<"packed", "on">>, <<"packing", "date">>,
                       <<"pkd", "on">>, <<"pkd">>}
    BY LabelsOfGroup, Groups DEF DateLabels
  <2>2. \A word \in {"date", "of", "packing", "packed", "on", "pkd"} :
            Tells(word, "date_of_packing")
    BY DEF Tells
  <2> QED
    BY <2>1, <2>2, ShortLabels
<1>3. \A words \in Labels["date_of_import"] : WordsTell(words, "date_of_import")
  <2>1. \A words \in Labels["date_of_import"] :
            words \in {<<"date", "of", "import">>, <<"imported", "on">>}
    BY LabelsOfGroup, Groups DEF DateLabels
  <2>2. \A word \in {"date", "of", "import", "imported", "on"} : Tells(word, "date_of_import")
    BY DEF Tells
  <2> QED
    BY <2>1, <2>2, ShortLabels
<1>4. \A words \in Labels["best_before"] : WordsTell(words, "best_before")
  <2>1. \A words \in Labels["best_before"] :
            words \in {<<"best", "before">>, <<"best", "before", "use">>, <<"use", "by">>,
                       <<"expiry", "date">>, <<"exp", "date">>, <<"expires", "on">>}
    BY LabelsOfGroup, Groups DEF DateLabels
  <2>2. \A word \in {"best", "before", "use", "by", "expiry", "date", "exp", "expires", "on"} :
            Tells(word, "best_before")
    BY DEF Tells
  <2> QED
    BY <2>1, <2>2, ShortLabels
<1> QED
  BY <1>1, <1>2, <1>3, <1>4, Groups

LEMMA OtherTells ==
    \A d \in DOMAIN OtherLabels : \A words \in Labels[d] : WordsTell(words, d)
<1>1. \A words \in Labels["batch_number"] : WordsTell(words, "batch_number")
  <2>1. \A words \in Labels["batch_number"] :
            words \in {<<"batch", "no">>, <<"batch", "number">>, <<"batch">>, <<"bno">>}
    BY LabelsOfGroup, Groups DEF OtherLabels
  <2>2. \A word \in {"batch", "no", "number", "bno"} : Tells(word, "batch_number")
    BY DEF Tells
  <2> QED
    BY <2>1, <2>2, ShortLabels
<1>2. \A words \in Labels["lot_number"] : WordsTell(words, "lot_number")
  <2>1. \A words \in Labels["lot_number"] :
            words \in {<<"lot", "no">>, <<"lot", "number">>, <<"lot">>}
    BY LabelsOfGroup, Groups DEF OtherLabels
  <2>2. \A word \in {"lot", "no", "number"} : Tells(word, "lot_number")
    BY DEF Tells
  <2> QED
    BY <2>1, <2>2, ShortLabels
<1>3. \A words \in Labels["ingredients"] : WordsTell(words, "ingredients")
  <2>1. \A words \in Labels["ingredients"] :
            words \in {<<"ingredients">>, <<"ingredient">>, <<"composition">>}
    BY LabelsOfGroup, Groups DEF OtherLabels
  <2>2. \A word \in {"ingredients", "ingredient", "composition"} : Tells(word, "ingredients")
    BY DEF Tells
  <2> QED
    BY <2>1, <2>2, ShortLabels
<1>4. \A words \in Labels["nutrition"] : WordsTell(words, "nutrition")
  <2>1. \A words \in Labels["nutrition"] :
            words \in {<<"nutritional", "information">>, <<"nutritional", "facts">>,
                       <<"nutrition", "information">>, <<"nutrition", "facts">>}
    BY LabelsOfGroup, Groups DEF OtherLabels
  <2>2. \A word \in {"nutritional", "information", "facts", "nutrition"} :
            Tells(word, "nutrition")
    BY DEF Tells
  <2> QED
    BY <2>1, <2>2, ShortLabels
<1>5. \A words \in Labels["allergen_statement"] : WordsTell(words, "allergen_statement")
  <2>1. \A words \in Labels["allergen_statement"] :
            words \in {<<"allergen">>, <<"contains">>, <<"may", "contain">>}
    BY LabelsOfGroup, Groups DEF OtherLabels
  <2>2. \A word \in {"allergen", "contains", "may", "contain"} : Tells(word, "allergen_statement")
    BY DEF Tells
  <2> QED
    BY <2>1, <2>2, ShortLabels
<1>6. \A words \in Labels["veg_nonveg_mark"] : WordsTell(words, "veg_nonveg_mark")
  <2>1. \A words \in Labels["veg_nonveg_mark"] :
            words \in {<<"veg">>, <<"non", "veg">>, <<"non-veg">>, <<"vegetarian">>}
    BY LabelsOfGroup, Groups DEF OtherLabels
  <2>2. \A word \in {"veg", "non", "non-veg", "vegetarian"} : Tells(word, "veg_nonveg_mark")
    BY DEF Tells
  <2> QED
    BY <2>1, <2>2, ShortLabels
<1>7. \A words \in Labels["fssai_licence"] : WordsTell(words, "fssai_licence")
  <2>1. \A words \in Labels["fssai_licence"] :
            words \in {<<"fssai">>, <<"lic", "no">>, <<"licence", "no">>, <<"license", "no">>}
    BY LabelsOfGroup, Groups DEF OtherLabels
  <2>2. \A word \in {"fssai", "lic", "no", "licence", "license"} : Tells(word, "fssai_licence")
    BY DEF Tells
  <2> QED
    BY <2>1, <2>2, ShortLabels
<1> QED
  BY <1>1, <1>2, <1>3, <1>4, <1>5, <1>6, <1>7, Groups

LEMMA LabelsTell == \A d \in Type : \A words \in Labels[d] : WordsTell(words, d)
BY PriceTells, QuantityTells, PartyTells, CareTells, NameTells, DateTells, OtherTells DEF Type
LEMMA KindsOf ==
    /\ \A d \in Type : KindOf(d) = "price" <=> d \in {"mrp", "unit_sale_price"}
    /\ \A d \in Type : KindOf(d) = "quantity" <=> d = "net_quantity"
    /\ \A d \in Type : KindOf(d) = "date" <=>
                           d \in {"date_of_manufacture", "date_of_packing", "date_of_import"}
    /\ \A d \in Type : KindOf(d) = "email" <=> d = "consumer_care_email"
    /\ \A d \in Type : KindOf(d) = "phone" <=> d = "consumer_care_phone"
    /\ \A d \in Type : KindOf(d) = "mark" <=> d = "veg_nonveg_mark"
    /\ \A d \in Type : KindOf(d) = "licence" <=> d = "fssai_licence"
    /\ \A d : KindOf(d) \in {"price", "quantity", "date", "email", "phone", "mark", "licence",
                             "text"}
    /\ KindOf("manufacturer") = "text" /\ KindOf("packer") = "text" /\ KindOf("importer") = "text"
BY Groups DEF KindOf, Type

\* Types whose labels tell them from every other.
Decided(e) ==
    e \notin {"net_quantity", "consumer_care_email", "consumer_care_phone", "veg_nonveg_mark",
              "fssai_licence"}

LEMMA ToldOfWords ==
    ASSUME NEW d
    PROVE  /\ \A a : Told(<<a>>, d) => Tells(a, d)
           /\ \A a, b : Told(<<a, b>>, d) => Tells(a, d) /\ Tells(b, d)
           /\ \A a, b, c : Told(<<a, b, c>>, d) => Tells(a, d) /\ Tells(b, d) /\ Tells(c, d)
           /\ \A a, b, c, e : Told(<<a, b, c, e>>, d)
                => Tells(a, d) /\ Tells(b, d) /\ Tells(c, d) /\ Tells(e, d)
BY DEF Told

LEMMA OnlyPrice ==
    ASSUME NEW e \in DOMAIN PriceLabels, Decided(e), NEW label \in Labels[e], NEW d, Told(label, d)
    PROVE  d = e
<1>1. CASE e = "mrp"
  <2>1. label \in {<<"maximum", "retail", "price">>, <<"max", "retail", "price">>, <<"mrp">>,
                    <<"retail", "sale", "price">>}
    BY <1>1, LabelsOfGroup, Groups DEF PriceLabels
  <2> QED
    BY <1>1, <2>1, ToldOfWords DEF Tells
<1>2. CASE e = "unit_sale_price"
  <2>1. label \in {<<"unit", "sale", "price">>, <<"unit", "price">>, <<"price", "per", "unit">>,
                    <<"per", "unit", "price">>}
    BY <1>2, LabelsOfGroup, Groups DEF PriceLabels
  <2> QED
    BY <1>2, <2>1, ToldOfWords DEF Tells
<1> QED
  BY <1>1, <1>2, Groups DEF Decided

LEMMA OnlyParty ==
    ASSUME NEW e \in DOMAIN PartyLabels, Decided(e), NEW label \in Labels[e], NEW d, Told(label, d)
    PROVE  d = e
<1>1. CASE e = "manufacturer"
  <2>1. label \in {<<"manufactured", "by">>, <<"mfd", "by">>, <<"mfg", "by">>,
                    <<"manufacturer">>, <<"manufactured", "at">>}
    BY <1>1, LabelsOfGroup, Groups DEF PartyLabels
  <2> QED
    BY <1>1, <2>1, ToldOfWords DEF Tells
<1>2. CASE e = "packer"
  <2>1. label \in {<<"packed", "by">>, <<"packer">>}
    BY <1>2, LabelsOfGroup, Groups DEF PartyLabels
  <2> QED
    BY <1>2, <2>1, ToldOfWords DEF Tells
<1>3. CASE e = "importer"
  <2>1. label \in {<<"imported", "by">>, <<"importer">>}
    BY <1>3, LabelsOfGroup, Groups DEF PartyLabels
  <2> QED
    BY <1>3, <2>1, ToldOfWords DEF Tells
<1>4. CASE e = "marketer"
  <2>1. label \in {<<"marketed", "by">>, <<"marketer">>}
    BY <1>4, LabelsOfGroup, Groups DEF PartyLabels
  <2> QED
    BY <1>4, <2>1, ToldOfWords DEF Tells
<1> QED
  BY <1>1, <1>2, <1>3, <1>4, Groups DEF Decided

LEMMA OnlyCare ==
    ASSUME NEW e \in DOMAIN CareLabels, Decided(e), NEW label \in Labels[e], NEW d, Told(label, d)
    PROVE  d = e
<1>1. CASE e = "consumer_care_name"
  <2>1. label \in {<<"consumer", "care", "details">>, <<"for", "complaints", "contact">>,
                    <<"consumer", "care", "officer">>, <<"customer", "relations">>}
    BY <1>1, LabelsOfGroup, Groups DEF CareLabels
  <2> QED
    BY <1>1, <2>1, ToldOfWords DEF Tells
<1> QED
  BY <1>1, Groups DEF Decided

LEMMA OnlyName ==
    ASSUME NEW e \in DOMAIN NameLabels, Decided(e), NEW label \in Labels[e], NEW d, Told(label, d)
    PROVE  d = e
<1>1. CASE e = "country_of_origin"
  <2>1. label \in {<<"country", "of", "origin">>, <<"made", "in">>, <<"product", "of">>,
                    <<"origin">>}
    BY <1>1, LabelsOfGroup, Groups DEF NameLabels
  <2> QED
    BY <1>1, <2>1, ToldOfWords DEF Tells
<1>2. CASE e = "common_generic_name"
  <2>1. label \in {<<"common", "name">>, <<"generic", "name">>,
                    <<"common", "or", "generic", "name">>, <<"product", "name">>}
    BY <1>2, LabelsOfGroup, Groups DEF NameLabels
  <2> QED
    BY <1>2, <2>1, ToldOfWords DEF Tells
<1> QED
  BY <1>1, <1>2, Groups DEF Decided

LEMMA OnlyDate ==
    ASSUME NEW e \in DOMAIN DateLabels, Decided(e), NEW label \in Labels[e], NEW d, Told(label, d),
           KindOf(e) = "date" => KindOf(d) = "date"
    PROVE  d = e
<1>0. ASSUME e # "best_before"
      PROVE  d \notin {"manufacturer", "packer", "importer"}
  <2>1. KindOf(e) = "date"
    BY <1>0, Groups DEF KindOf
  <2> QED
    BY <2>1, KindsOf
<1>1. CASE e = "date_of_manufacture"
  <2>1. label \in {<<"date", "of", "manufacture">>, <<"manufactured", "on">>, <<"mfg", "date">>,
                    <<"mfg", "dt">>, <<"mfg">>, <<"mfd">>, <<"date", "of", "mfg">>}
    BY <1>1, LabelsOfGroup, Groups DEF DateLabels
  <2> QED
    BY <1>0, <1>1, <2>1, ToldOfWords DEF Tells
<1>2. CASE e = "date_of_packing"
  <2>1. label \in {<<"date", "of", "packing">>, <<"packed", "on">>, <<"packing", "date">>,
                    <<"pkd", "on">>, <<"pkd">>}
    BY <1>2, LabelsOfGroup, Groups DEF DateLabels
  <2> QED
    BY <1>0, <1>2, <2>1, ToldOfWords DEF Tells
<1>3. CASE e = "date_of_import"
  <2>1. label \in {<<"date", "of", "import">>, <<"imported", "on">>}
    BY <1>3, LabelsOfGroup, Groups DEF DateLabels
  <2> QED
    BY <1>0, <1>3, <2>1, ToldOfWords DEF Tells
<1>4. CASE e = "best_before"
  <2>1. label \in {<<"best", "before">>, <<"best", "before", "use">>, <<"use", "by">>,
                    <<"expiry", "date">>, <<"exp", "date">>, <<"expires", "on">>}
    BY <1>4, LabelsOfGroup, Groups DEF DateLabels
  <2> QED
    BY <1>4, <2>1, ToldOfWords, KindsOf DEF Tells
<1> QED
  BY <1>1, <1>2, <1>3, <1>4, Groups DEF Decided

LEMMA OnlyOther ==
    ASSUME NEW e \in DOMAIN OtherLabels, Decided(e), NEW label \in Labels[e], NEW d, Told(label, d)
    PROVE  d = e
<1>1. CASE e = "batch_number"
  <2>1. label \in {<<"batch", "no">>, <<"batch", "number">>, <<"batch">>, <<"bno">>}
    BY <1>1, LabelsOfGroup, Groups DEF OtherLabels
  <2> QED
    BY <1>1, <2>1, ToldOfWords DEF Tells
<1>2. CASE e = "lot_number"
  <2>1. label \in {<<"lot", "no">>, <<"lot", "number">>, <<"lot">>}
    BY <1>2, LabelsOfGroup, Groups DEF OtherLabels
  <2> QED
    BY <1>2, <2>1, ToldOfWords DEF Tells
<1>3. CASE e = "ingredients"
  <2>1. label \in {<<"ingredients">>, <<"ingredient">>, <<"composition">>}
    BY <1>3, LabelsOfGroup, Groups DEF OtherLabels
  <2> QED
    BY <1>3, <2>1, ToldOfWords DEF Tells
<1>4. CASE e = "nutrition"
  <2>1. label \in {<<"nutritional", "information">>, <<"nutritional", "facts">>,
                    <<"nutrition", "information">>, <<"nutrition", "facts">>}
    BY <1>4, LabelsOfGroup, Groups DEF OtherLabels
  <2> QED
    BY <1>4, <2>1, ToldOfWords DEF Tells
<1>5. CASE e = "allergen_statement"
  <2>1. label \in {<<"allergen">>, <<"contains">>, <<"may", "contain">>}
    BY <1>5, LabelsOfGroup, Groups DEF OtherLabels
  <2> QED
    BY <1>5, <2>1, ToldOfWords DEF Tells
<1> QED
  BY <1>1, <1>2, <1>3, <1>4, <1>5, Groups DEF Decided
\* A label whose words are all of type d is of type d, if it is free text or of the
\* kind of d.
LEMMA OnlyItsType ==
    ASSUME NEW e \in Type, NEW label \in Labels[e], NEW d \in Type, Told(label, d),
           KindOf(e) = "text" \/ KindOf(e) = KindOf(d)
    PROVE  d = e
<1>1. CASE ~Decided(e)
  BY <1>1, KindsOf DEF Decided
<1>2. CASE Decided(e)
  BY <1>2, OnlyPrice, OnlyParty, OnlyCare, OnlyName, OnlyDate, OnlyOther, Groups, KindsOf
     DEF Type, Decided
<1> QED
  BY <1>1, <1>2
\* A label that lies inside the words of a label of type d has only words of d.
LEMMA EndsTell ==
    ASSUME NEW d, NEW words, NEW label, WordsTell(words, d), IsLabel(label),
           Ends(label, words) # {}
    PROVE  Told(label, d)
<1> DEFINE Word == {words[i] : i \in 1..Len(words)}
<1>1. words \in Seq(Word) /\ Len(words) \in Nat /\ Len(label) \in Nat
  BY DEF WordsTell, IsLabel
<1>2. PICK end \in Len(label)..Len(words) : SubSeq(words, end - Len(label) + 1, end) = label
  BY DEF Ends
<1>3. end \in Nat /\ end - Len(label) + 1 \in 1..end + 1 /\ end <= Len(words)
  BY <1>1, <1>2 DEF IsLabel
<1>4. \A i \in 1..Len(label) : label[i] = words[end - Len(label) + i]
  <2> HIDE DEF Word
  <2> TAKE i \in 1..Len(label)
  <2>1. SubSeq(words, end - Len(label) + 1, end)[i] = words[(end - Len(label) + 1) + i - 1]
    BY <1>1, <1>3, SubSeqProperties
  <2>2. (end - Len(label) + 1) + i - 1 = end - Len(label) + i
    BY <1>1, <1>3
  <2> QED
    BY <2>1, <2>2, <1>2
<1>5. \A i \in 1..Len(label) : end - Len(label) + i \in 1..Len(words)
  BY <1>1, <1>3
<1> QED
  BY <1>4, <1>5 DEF Told, WordsTell

LEMMA NoWordsNoLabel ==
    ASSUME NEW label, IsLabel(label)
    PROVE  Ends(label, << >>) = {}
BY DEF Ends, IsLabel

LEMMA EndsItself ==
    ASSUME NEW words, IsLabel(words)
    PROVE  Len(words) \in Ends(words, words)
<1> DEFINE Word == {words[i] : i \in 1..Len(words)}
<1>1. words \in Seq(Word) /\ Len(words) \in Nat
  BY DEF WordsTell, IsLabel
<1> HIDE DEF Word
<1>2. SubSeq(words, 1, Len(words)) = words
  BY <1>1, SubSeqFull
<1> QED
  BY <1>1, <1>2 DEF Ends

\* A line that is one label is read past its end.
LEMMA WholeLabel ==
    ASSUME NEW labels, \A label \in labels : IsLabel(label), NEW words \in labels
    PROVE  FindLabel(labels, words) = Len(words) /\ Bears(labels, words) # {}
<1> DEFINE borne == Bears(labels, words)
           Longest(label) == \A other \in borne : Len(other) <= Len(label)
           longest == CHOOSE label \in borne : Longest(label)
<1>0. IsLabel(words)
  OBVIOUS
<1>1. Len(words) \in Nat /\ words \in borne
  BY <1>0, EndsItself DEF Bears, IsLabel
<1>2. \A other \in borne : Len(other) \in Nat /\ Len(other) <= Len(words)
  BY <1>1 DEF Bears, Ends, IsLabel
<1>3. longest \in borne /\ Longest(longest)
  <2>1. Longest(words)
    BY <1>2
  <2> HIDE DEF Longest, borne
  <2> QED
    BY <1>1, <2>1
<1>4. Len(longest) = Len(words)
  BY <1>1, <1>2, <1>3
<1>5. Ends(longest, words) = {Len(words)}
  <2>1. Ends(longest, words) # {}
    BY <1>3 DEF Bears
  <2>2. Ends(longest, words) \subseteq {Len(words)}
    <3>1. \A end \in Ends(longest, words) : end \in Len(words)..Len(words)
      BY <1>4 DEF Ends
    <3>2. \A end \in Len(words)..Len(words) : end = Len(words)
      BY <1>1
    <3> QED
      BY <3>1, <3>2
  <2> QED
    BY <2>1, <2>2
<1>6. First({Len(words)}) = Len(words)
  BY <1>1 DEF First
<1>7. FindLabel(labels, words) = First(Ends(longest, words))
  BY DEF FindLabel
<1> QED
  BY <1>1, <1>5, <1>6, <1>7

\* No label of a type bears what that type must not have on the line.
LEMMA NoNegative ==
    ASSUME NEW e \in Type, NEW words \in Labels[e]
    PROVE  Bears(NegativeLabels(e), words) = {}
<1> SUFFICES ASSUME NEW label \in NegativeLabels(e), Ends(label, words) # {}
             PROVE  FALSE
  BY DEF Bears
<1>1. label \in {<<"unit", "sale", "price">>, <<"per", "unit">>, <<"unit", "price">>,
                 <<"packed", "on">>, <<"best", "before">>, <<"use", "by">>, <<"expiry">>}
  BY DEF NegativeLabels
<1>2. WordsTell(words, e)
  BY LabelsTell
<1>3. IsLabel(label)
  BY <1>1, TuplesAreLabels
<1>4. Told(label, e)
  BY <1>2, <1>3, EndsTell
<1> QED
  BY <1>1, <1>4, ToldOfWords DEF NegativeLabels, Tells
\* Line n of the page, or it and the one below, show the amount.
ShownAt(t, n, amount) ==
    /\ n \in DOMAIN Page(t)
    /\ Page(t)[n].words = t.label
    /\ Page(t)[n].confidence \in Nat
    /\ IF t.below
       THEN /\ n + 1 \in DOMAIN Page(t)
            /\ Page(t)[n].value = None
            /\ Page(t)[n + 1].words = << >>
            /\ Page(t)[n + 1].value = Value(t.type, amount)
            /\ Page(t)[n + 1].confidence \in Nat
       ELSE Page(t)[n].value = Value(t.type, amount)

\* Line n is a label with nothing to read.
BareAt(t, n) ==
    /\ KindOf(t.type) # "text"
    /\ Page(t)[n].value = None
    /\ Page(t)[n].words \in Labels[t.type]
    /\ n # Len(Page(t)) => Page(t)[n + 1].value = None

\* What is printed, without the bare labels below.
Heads(t) == Printing(t, 1) \o (IF t.twice THEN Printing(t, 2) ELSE << >>)

\* The line with the label of an amount, and the line below it.
Named(t, n) == Line(t.label, IF t.below THEN None ELSE Value(t.type, n), t.confidence)

LineBelow(t, n) == Line(<< >>, Value(t.type, n), t.confidence)

LEMMA ShortSequences ==
    ASSUME NEW lines
    PROVE  /\ << >> \in Seq(lines)
           /\ \A a \in lines : <<a>> \in Seq(lines)
           /\ \A a, b \in lines : <<a, b>> \in Seq(lines)
OBVIOUS

LEMMA HeadLines ==
    ASSUME NEW t, t.below \in BOOLEAN, t.twice \in BOOLEAN,
           NEW lines, Named(t, 1) \in lines, Named(t, 2) \in lines,
           LineBelow(t, 1) \in lines, LineBelow(t, 2) \in lines
    PROVE  /\ Heads(t) \in Seq(lines)
           /\ t.below /\ t.twice =>
                  /\ Len(Heads(t)) = 4
                  /\ Heads(t)[1] = Named(t, 1) /\ Heads(t)[2] = LineBelow(t, 1)
                  /\ Heads(t)[3] = Named(t, 2) /\ Heads(t)[4] = LineBelow(t, 2)
           /\ t.below /\ ~t.twice =>
                  /\ Len(Heads(t)) = 2
                  /\ Heads(t)[1] = Named(t, 1) /\ Heads(t)[2] = LineBelow(t, 1)
           /\ ~t.below /\ t.twice =>
                  /\ Len(Heads(t)) = 2
                  /\ Heads(t)[1] = Named(t, 1) /\ Heads(t)[2] = Named(t, 2)
           /\ ~t.below /\ ~t.twice =>
                  /\ Len(Heads(t)) = 1
                  /\ Heads(t)[1] = Named(t, 1)
<1> DEFINE p1 == Printing(t, 1)
           p2 == IF t.twice THEN Printing(t, 2) ELSE << >>
<1>1. p1 = IF t.below THEN <<Named(t, 1), LineBelow(t, 1)>> ELSE <<Named(t, 1)>>
  BY DEF Printing, Named, LineBelow
<1>2. t.twice => p2 = IF t.below THEN <<Named(t, 2), LineBelow(t, 2)>> ELSE <<Named(t, 2)>>
  BY DEF Printing, Named, LineBelow
<1>3. ~t.twice => p2 = << >>
  OBVIOUS
<1>4. p1 \in Seq(lines) /\ p2 \in Seq(lines)
  <2>1. CASE t.below
    <3>1. p1 = <<Named(t, 1), LineBelow(t, 1)>>
      BY <1>1, <2>1
    <3>2. p2 = <<Named(t, 2), LineBelow(t, 2)>> \/ p2 = << >>
      BY <1>2, <1>3, <2>1
    <3> HIDE DEF p1, p2
    <3> QED
      BY <3>1, <3>2, ShortSequences
  <2>2. CASE ~t.below
    <3>1. p1 = <<Named(t, 1)>>
      BY <1>1, <2>2
    <3>2. p2 = <<Named(t, 2)>> \/ p2 = << >>
      BY <1>2, <1>3, <2>2
    <3> HIDE DEF p1, p2
    <3> QED
      BY <3>1, <3>2, ShortSequences
  <2> QED
    BY <2>1, <2>2
<1>5. Heads(t) = p1 \o p2
  BY DEF Heads
<1> HIDE DEF p1, p2
<1>6. /\ Heads(t) \in Seq(lines)
      /\ Len(Heads(t)) = Len(p1) + Len(p2)
      /\ \A i \in 1..Len(p1) + Len(p2) :
             Heads(t)[i] = IF i <= Len(p1) THEN p1[i] ELSE p2[i - Len(p1)]
  BY <1>4, <1>5, ConcatProperties
<1>7. CASE t.below /\ t.twice
  <2>1. p1 = <<Named(t, 1), LineBelow(t, 1)>> /\ p2 = <<Named(t, 2), LineBelow(t, 2)>>
    BY <1>1, <1>2, <1>7
  <2>2. /\ Len(p1) = 2 /\ p1[1] = Named(t, 1) /\ p1[2] = LineBelow(t, 1)
        /\ Len(p2) = 2 /\ p2[1] = Named(t, 2) /\ p2[2] = LineBelow(t, 2)
    BY <2>1
  <2>3. \A i \in 1..4 : Heads(t)[i] = IF i <= 2 THEN p1[i] ELSE p2[i - 2]
    BY <1>6, <2>2
  <2>4. 3 - 2 = 1 /\ 4 - 2 = 2
    OBVIOUS
  <2> QED
    BY <1>6, <1>7, <2>2, <2>3, <2>4
<1>8. CASE t.below /\ ~t.twice
  BY <1>1, <1>3, <1>6, <1>8
<1>9. CASE ~t.below /\ t.twice
  <2>1. p1 = <<Named(t, 1)>> /\ p2 = <<Named(t, 2)>>
    BY <1>1, <1>2, <1>9
  <2>2. Len(p1) = 1 /\ p1[1] = Named(t, 1) /\ Len(p2) = 1 /\ p2[1] = Named(t, 2)
    BY <2>1
  <2>3. \A i \in 1..2 : Heads(t)[i] = IF i <= 1 THEN p1[i] ELSE p2[i - 1]
    BY <1>6, <2>2
  <2>4. 2 - 1 = 1
    OBVIOUS
  <2> QED
    BY <1>6, <1>9, <2>2, <2>3, <2>4
<1>10. CASE ~t.below /\ ~t.twice
  BY <1>1, <1>3, <1>6, <1>10
<1> QED
  BY <1>6, <1>7, <1>8, <1>9, <1>10

LEMMA Trialled ==
    ASSUME NEW t \in PageTrial
    PROVE  /\ t.type \in Type /\ t.type # "veg_nonveg_mark"
           /\ t.label \in Labels[t.type]
           /\ t.below \in BOOLEAN /\ t.twice \in BOOLEAN
           /\ t.confidence \in Nat
           /\ Len(t.bare) \in Nat /\ DOMAIN t.bare = 1..Len(t.bare)
           /\ \A n \in DOMAIN t.bare : t.bare[n] \in Labels[t.type] /\ KindOf(t.type) # "text"
<1>1. /\ t.type \in Type /\ t.type # "veg_nonveg_mark"
      /\ t.label \in Labels[t.type]
      /\ t.below \in BOOLEAN /\ t.twice \in BOOLEAN
      /\ t.confidence \in Confidence /\ t.bare \in Unfilled
      /\ \A n \in DOMAIN t.bare : t.bare[n] \in Labels[t.type] /\ KindOf(t.type) # "text"
  BY DEF PageTrial
<1>2. t.confidence \in Nat
  <2>1. t.confidence \in 0..100
    BY <1>1, TrialsAssumption
  <2> QED
    BY <2>1
<1>3. Len(t.bare) \in Nat /\ DOMAIN t.bare = 1..Len(t.bare)
  <2> DEFINE Word == UNION {Labels[d] : d \in Type}
  <2>1. t.bare \in Seq(Word)
    BY <1>1, TrialsAssumption
  <2> HIDE DEF Word
  <2> QED
    BY <2>1, LenProperties
<1> QED
  BY <1>1, <1>2, <1>3
LEMMA HeadsOf ==
    ASSUME NEW t \in PageTrial
    PROVE  /\ t.below /\ t.twice =>
                  /\ Len(Heads(t)) = 4
                  /\ Heads(t)[1] = Named(t, 1) /\ Heads(t)[2] = LineBelow(t, 1)
                  /\ Heads(t)[3] = Named(t, 2) /\ Heads(t)[4] = LineBelow(t, 2)
           /\ t.below /\ ~t.twice =>
                  /\ Len(Heads(t)) = 2
                  /\ Heads(t)[1] = Named(t, 1) /\ Heads(t)[2] = LineBelow(t, 1)
           /\ ~t.below /\ t.twice =>
                  /\ Len(Heads(t)) = 2
                  /\ Heads(t)[1] = Named(t, 1) /\ Heads(t)[2] = Named(t, 2)
           /\ ~t.below /\ ~t.twice =>
                  /\ Len(Heads(t)) = 1
                  /\ Heads(t)[1] = Named(t, 1)
<1> DEFINE lines == {Named(t, 1), Named(t, 2), LineBelow(t, 1), LineBelow(t, 2)}
<1>1. /\ Named(t, 1) \in lines /\ Named(t, 2) \in lines
      /\ LineBelow(t, 1) \in lines /\ LineBelow(t, 2) \in lines
  OBVIOUS
<1> HIDE DEF lines
<1>2. t.below \in BOOLEAN /\ t.twice \in BOOLEAN
  BY Trialled
<1> QED
  BY <1>1, <1>2, HeadLines

\* The bare labels.
Rest(t) == [n \in DOMAIN t.bare |-> Line(t.bare[n], None, 100)]

\* The lines of a page: what is printed, then the labels with nothing to read.
LEMMA PageIs ==
    ASSUME NEW t \in PageTrial
    PROVE  /\ Len(Page(t)) = Len(Heads(t)) + Len(t.bare)
           /\ Len(Page(t)) \in Nat /\ Len(Heads(t)) \in Nat
           /\ DOMAIN Page(t) = 1..Len(Page(t))
           /\ \A n \in 1..Len(Heads(t)) : Page(t)[n] = Heads(t)[n]
           /\ \A n \in Len(Heads(t)) + 1..Len(Page(t)) :
                  /\ n - Len(Heads(t)) \in DOMAIN t.bare
                  /\ Page(t)[n] = Line(t.bare[n - Len(Heads(t))], None, 100)
<1> DEFINE lines == {Named(t, 1), Named(t, 2), LineBelow(t, 1), LineBelow(t, 2)}
                        \cup {Line(t.bare[n], None, 100) : n \in DOMAIN t.bare}
<1>1. Heads(t) \in Seq(lines)
  <2>1. /\ Named(t, 1) \in lines /\ Named(t, 2) \in lines
        /\ LineBelow(t, 1) \in lines /\ LineBelow(t, 2) \in lines
    OBVIOUS
  <2> HIDE DEF lines
  <2> QED
    BY <2>1, Trialled, HeadLines
<1>2. \A n \in DOMAIN t.bare : Line(t.bare[n], None, 100) \in lines
  OBVIOUS
<1> HIDE DEF lines
<1>3. Len(t.bare) \in Nat /\ DOMAIN t.bare = 1..Len(t.bare)
  BY Trialled
<1>4. Rest(t) \in Seq(lines) /\ Len(Rest(t)) = Len(t.bare)
  <2>1. Rest(t) \in [1..Len(t.bare) -> lines]
    BY <1>2, <1>3 DEF Rest
  <2> QED
    BY <1>3, <2>1, SeqDef, LenProperties
<1>5. Page(t) = Heads(t) \o Rest(t)
  BY DEF Page, Heads, Rest
<1>6. /\ Page(t) \in Seq(lines)
      /\ Len(Page(t)) = Len(Heads(t)) + Len(Rest(t))
      /\ \A n \in 1..Len(Heads(t)) + Len(Rest(t)) :
             Page(t)[n] = IF n <= Len(Heads(t)) THEN Heads(t)[n] ELSE Rest(t)[n - Len(Heads(t))]
  <2> DEFINE heads == Heads(t)
             rest == Rest(t)
             joined == heads \o rest
  <2>1. heads \in Seq(lines) /\ rest \in Seq(lines) /\ Page(t) = joined
    BY <1>1, <1>4, <1>5
  <2> HIDE DEF heads, rest
  <2>2. /\ joined \in Seq(lines)
        /\ Len(joined) = Len(heads) + Len(rest)
        /\ \A n \in 1..Len(heads) + Len(rest) :
               joined[n] = IF n <= Len(heads) THEN heads[n] ELSE rest[n - Len(heads)]
    BY <2>1, ConcatProperties
  <2> HIDE DEF joined
  <2>3. /\ Page(t) \in Seq(lines)
        /\ Len(Page(t)) = Len(heads) + Len(rest)
        /\ \A n \in 1..Len(heads) + Len(rest) :
               Page(t)[n] = IF n <= Len(heads) THEN heads[n] ELSE rest[n - Len(heads)]
    BY <2>1, <2>2
  <2> QED
    BY <2>3 DEF heads, rest
<1>7. Len(Heads(t)) \in Nat /\ Len(Page(t)) \in Nat /\ DOMAIN Page(t) = 1..Len(Page(t))
  BY <1>1, <1>6, LenProperties
<1>8. ASSUME NEW n \in Len(Heads(t)) + 1..Len(Page(t))
      PROVE  /\ n - Len(Heads(t)) \in DOMAIN t.bare
             /\ Page(t)[n] = Line(t.bare[n - Len(Heads(t))], None, 100)
  <2>1. n - Len(Heads(t)) \in DOMAIN t.bare
    BY <1>3, <1>4, <1>6, <1>7
  <2>2. Page(t)[n] = Rest(t)[n - Len(Heads(t))]
    BY <1>3, <1>4, <1>6, <1>7
  <2> QED
    BY <2>1, <2>2 DEF Rest
<1> QED
  BY <1>3, <1>4, <1>6, <1>7, <1>8

LEMMA LineFields ==
    \A words, value, confidence :
        /\ Line(words, value, confidence).words = words
        /\ Line(words, value, confidence).value = value
        /\ Line(words, value, confidence).confidence = confidence
BY DEF Line

LEMMA NamedFields ==
    ASSUME NEW t, NEW n
    PROVE  /\ Named(t, n).words = t.label
           /\ Named(t, n).value = IF t.below THEN None ELSE Value(t.type, n)
           /\ Named(t, n).confidence = t.confidence
           /\ LineBelow(t, n).words = << >>
           /\ LineBelow(t, n).value = Value(t.type, n)
           /\ LineBelow(t, n).confidence = t.confidence
BY DEF Named, LineBelow, Line

\* The line where an amount is shown, or begins to be.
Place(t, amount) == IF amount = 1 THEN 1 ELSE IF t.below THEN 3 ELSE 2

LEMMA Shown ==
    ASSUME NEW t \in PageTrial, NEW amount \in Printings(t)
    PROVE  ShownAt(t, Place(t, amount), amount)
<1>1. amount \in {1, 2} /\ (amount = 2 => t.twice)
  BY DEF Printings
<1>2. t.below \in BOOLEAN /\ t.twice \in BOOLEAN /\ t.confidence \in Nat /\ Len(t.bare) \in Nat
  BY Trialled
<1>4. CASE t.below
  <2>1. Place(t, amount) + 1 <= Len(Heads(t)) /\ Place(t, amount) \in Nat \ {0}
    <3>1. CASE amount = 1
      BY <3>1, <1>2, <1>4, HeadsOf DEF Place
    <3>2. CASE amount = 2
      BY <3>2, <1>1, <1>2, <1>4, HeadsOf DEF Place
    <3> QED
      BY <1>1, <3>1, <3>2
  <2>2. /\ Heads(t)[Place(t, amount)] = Named(t, amount)
        /\ Heads(t)[Place(t, amount) + 1] = LineBelow(t, amount)
    <3>1. CASE amount = 1
      BY <3>1, <1>2, <1>4, HeadsOf DEF Place
    <3>2. CASE amount = 2
      <4>1. Place(t, amount) = 3 /\ Place(t, amount) + 1 = 4
        BY <3>2, <1>4 DEF Place
      <4> QED
        BY <4>1, <3>2, <1>1, <1>2, <1>4, HeadsOf
    <3> QED
      BY <1>1, <3>1, <3>2
  <2>3. /\ Place(t, amount) \in DOMAIN Page(t) /\ Place(t, amount) + 1 \in DOMAIN Page(t)
        /\ Page(t)[Place(t, amount)] = Named(t, amount)
        /\ Page(t)[Place(t, amount) + 1] = LineBelow(t, amount)
    BY <1>2, <2>1, <2>2, PageIs
  <2> QED
    BY <1>2, <1>4, <2>3, NamedFields DEF ShownAt
<1>5. CASE ~t.below
  <2>1. Place(t, amount) <= Len(Heads(t)) /\ Place(t, amount) \in Nat \ {0}
    BY <1>1, <1>2, <1>5, HeadsOf DEF Place
  <2>2. Heads(t)[Place(t, amount)] = Named(t, amount)
    BY <1>1, <1>2, <1>5, HeadsOf DEF Place
  <2>3. /\ Place(t, amount) \in DOMAIN Page(t)
        /\ Page(t)[Place(t, amount)] = Named(t, amount)
    BY <1>2, <2>1, <2>2, PageIs
  <2> QED
    BY <1>2, <1>5, <2>3, NamedFields DEF ShownAt
<1> QED
  BY <1>2, <1>4, <1>5

\* A line with words shows an amount or is a label with nothing to read.
LEMMA Lines ==
    ASSUME NEW t \in PageTrial, NEW n \in DOMAIN Page(t)
    PROVE  \/ Page(t)[n].words = << >>
           \/ \E amount \in Printings(t) : n = Place(t, amount)
           \/ BareAt(t, n)
<1>1. t.below \in BOOLEAN /\ t.twice \in BOOLEAN /\ Len(t.bare) \in Nat
  BY Trialled
<1>3. CASE n <= Len(Heads(t))
  <2>1. n \in 1..Len(Heads(t)) /\ Page(t)[n] = Heads(t)[n]
    BY <1>3, PageIs
  <2>2. CASE t.below
    <3>1. n \in 1..4 /\ (n \in {3, 4} => t.twice)
      <4>1. Len(Heads(t)) = IF t.twice THEN 4 ELSE 2
        BY <1>1, <2>2, HeadsOf
      <4> QED
        BY <1>1, <2>1, <4>1
    <3>2. n \in {2, 4} => Page(t)[n] = LineBelow(t, 1) \/ Page(t)[n] = LineBelow(t, 2)
      <4>1. CASE n = 2
        BY <1>1, <2>1, <2>2, <4>1, HeadsOf
      <4>2. CASE n = 4
        BY <1>1, <2>1, <2>2, <3>1, <4>2, HeadsOf
      <4> QED
        BY <4>1, <4>2
    <3>3. n = 1 => 1 \in Printings(t) /\ n = Place(t, 1)
      BY DEF Printings, Place
    <3>4. n = 3 => 2 \in Printings(t) /\ n = Place(t, 2)
      BY <2>2, <3>1 DEF Printings, Place
    <3>5. n \in {1, 2, 3, 4}
      BY <3>1
    <3> QED
      BY <3>2, <3>3, <3>4, <3>5, NamedFields
  <2>3. CASE ~t.below
    <3>1. n \in 1..2 /\ (n = 2 => t.twice)
      BY <1>1, <2>1, <2>3, HeadsOf
    <3>2. n = 1 => 1 \in Printings(t) /\ n = Place(t, 1)
      BY DEF Printings, Place
    <3>3. n = 2 => 2 \in Printings(t) /\ n = Place(t, 2)
      BY <2>3, <3>1 DEF Printings, Place
    <3>4. n \in {1, 2}
      BY <3>1
    <3> QED
      BY <3>2, <3>3, <3>4
  <2> QED
    BY <2>2, <2>3
<1>4. CASE n > Len(Heads(t))
  <2>1. n \in Nat /\ n \in Len(Heads(t)) + 1..Len(Page(t))
    BY <1>4, PageIs
  <2>2. /\ n - Len(Heads(t)) \in DOMAIN t.bare
        /\ Page(t)[n] = Line(t.bare[n - Len(Heads(t))], None, 100)
    BY <2>1, PageIs
  <2>3. KindOf(t.type) # "text" /\ t.bare[n - Len(Heads(t))] \in Labels[t.type]
    BY <2>2, Trialled
  <2>4. n # Len(Page(t)) => Page(t)[n + 1].value = None
    <3>1. SUFFICES ASSUME n # Len(Page(t)) PROVE Page(t)[n + 1].value = None
      OBVIOUS
    <3>2. n + 1 \in Len(Heads(t)) + 1..Len(Page(t))
      BY <2>1, <3>1, PageIs
    <3>3. Page(t)[n + 1] = Line(t.bare[(n + 1) - Len(Heads(t))], None, 100)
      BY <3>2, PageIs
    <3> QED
      BY <3>3, LineFields
  <2> QED
    BY <2>2, <2>3, <2>4, LineFields DEF BareAt
<1> QED
  BY <1>3, <1>4, PageIs
LEMMA NothingAfter ==
    /\ \A words : IsLabel(words) => SubSeq(words, Len(words) + 1, Len(words)) = << >>
    /\ SubSeq(<< >>, 0 + 1, Len(<< >>)) = << >>
<1>1. ASSUME NEW words, IsLabel(words)
      PROVE  SubSeq(words, Len(words) + 1, Len(words)) = << >>
  <2> DEFINE Word == {words[i] : i \in 1..Len(words)}
  <2>1. words \in Seq(Word) /\ Len(words) \in Nat
    BY <1>1 DEF IsLabel
  <2> HIDE DEF Word
  <2> QED
    BY <2>1, SubSeqEmpty
<1>2. SubSeq(<< >>, 0 + 1, Len(<< >>)) = << >>
  OBVIOUS
<1> QED
  BY <1>1, <1>2

LEMMA OwnLabel ==
    ASSUME NEW e \in Type, NEW words \in Labels[e]
    PROVE  /\ FindLabel(Labels[e], words) = Len(words)
           /\ Bears(Labels[e], words) # {}
           /\ Bears(NegativeLabels(e), words) = {}
           /\ SubSeq(words, Len(words) + 1, Len(words)) = << >>
<1>1. \A label \in Labels[e] : IsLabel(label)
  BY LabelsTell DEF WordsTell
<1>2. FindLabel(Labels[e], words) = Len(words) /\ Bears(Labels[e], words) # {}
  <2> DEFINE labels == Labels[e]
  <2>1. (\A label \in labels : IsLabel(label)) /\ words \in labels
    BY <1>1
  <2> HIDE DEF labels
  <2>2. FindLabel(labels, words) = Len(words) /\ Bears(labels, words) # {}
    BY <2>1, WholeLabel
  <2> QED
    BY <2>2 DEF labels
<1>3. Bears(NegativeLabels(e), words) = {}
  BY NoNegative
<1> QED
  BY <1>1, <1>2, <1>3, NothingAfter

\* What is read of an amount.
Seen(e, amount) == [words |-> << >>, value |-> Value(e, amount)]

\* What the parser of a type makes of a text without words.
LEMMA ValueIsRead ==
    ASSUME NEW e \in Type, NEW amount \in {1, 2}, NEW line, NEW from,
           SubSeq(line.words, from + 1, Len(line.words)) = << >>
    PROVE  /\ line.value = None => TryValue(e, line, from) = None
           /\ line.value = Value(e, amount) => TryValue(e, line, from) = Seen(e, amount)
<1>1. None # Value(e, amount) /\ Value(e, amount).kind = KindOf(e)
  BY PageAssumption DEF Value
<1> QED
  BY <1>1 DEF TryValue, Seen

LEMMA ShownIsRead ==
    ASSUME NEW t \in PageTrial, NEW amount \in {1, 2}, NEW n \in DOMAIN Page(t),
           ShownAt(t, n, amount)
    PROVE  \E confidence \in Nat :
               MatchAt(t.type, Page(t), n) = Match(n, Seen(t.type, amount), confidence)
<1> DEFINE e    == t.type
           page == Page(t)
           end  == FindLabel(Labels[e], page[n].words)
           beside == TryValue(e, page[n], end)
           below  == IF n = Len(page) THEN None ELSE TryValue(e, page[n + 1], 0)
<1>1. e \in Type /\ t.label \in Labels[e] /\ t.below \in BOOLEAN
  BY Trialled
<1>2. SubSeq(page[n].words, end + 1, Len(page[n].words)) = << >>
  BY <1>1, OwnLabel DEF ShownAt
<1>3. None # Seen(e, amount)
  BY <1>1, PageAssumption DEF Seen
<1>4. MatchAt(e, page, n) =
          IF beside # None THEN Match(n, beside, 100 * page[n].confidence)
          ELSE IF below # None THEN Match(n, below, 85 * page[n + 1].confidence)
          ELSE Match(n, None, 30 * page[n].confidence)
  BY DEF MatchAt
<1>5. CASE ~t.below
  <2>1. page[n].value = Value(e, amount) /\ page[n].confidence \in Nat
    BY <1>5 DEF ShownAt
  <2>2. beside = Seen(e, amount)
    <3> HIDE DEF e, page, end
    <3> QED
      BY <1>1, <1>2, <2>1, ValueIsRead
  <2>3. 100 * page[n].confidence \in Nat
    BY <2>1
  <2> HIDE DEF beside, below, page, e
  <2> QED
    BY <1>3, <1>4, <2>2, <2>3 DEF e, page
<1>6. CASE t.below
  <2>1. /\ page[n].value = None /\ n + 1 \in DOMAIN page
        /\ page[n + 1].words = << >> /\ page[n + 1].value = Value(e, amount)
        /\ page[n + 1].confidence \in Nat
    BY <1>6 DEF ShownAt
  <2>2. beside = None
    <3> HIDE DEF e, page, end
    <3> QED
      BY <1>1, <1>2, <2>1, ValueIsRead
  <2>3. n # Len(page)
    BY <2>1, PageIs
  <2>4. SubSeq(page[n + 1].words, 0 + 1, Len(page[n + 1].words)) = << >>
    BY <2>1, NothingAfter
  <2>5. TryValue(e, page[n + 1], 0) = Seen(e, amount)
    <3> HIDE DEF e, page
    <3> QED
      BY <1>1, <2>1, <2>4, ValueIsRead
  <2>6. below = Seen(e, amount)
    BY <2>3, <2>5
  <2>7. 85 * page[n + 1].confidence \in Nat
    BY <2>1
  <2> HIDE DEF beside, below, page, e
  <2> QED
    BY <1>3, <1>4, <2>2, <2>6, <2>7 DEF e, page
<1> QED
  BY <1>1, <1>5, <1>6

LEMMA BareIsNotRead ==
    ASSUME NEW t \in PageTrial, NEW n \in DOMAIN Page(t), BareAt(t, n)
    PROVE  MatchAt(t.type, Page(t), n).read = None
<1> DEFINE e    == t.type
           page == Page(t)
           end  == FindLabel(Labels[e], page[n].words)
           beside == TryValue(e, page[n], end)
           below  == IF n = Len(page) THEN None ELSE TryValue(e, page[n + 1], 0)
<1>1. beside = None
  BY DEF BareAt, TryValue
<1>2. below = None
  BY DEF BareAt, TryValue
<1>3. MatchAt(e, page, n) = Match(n, None, 30 * page[n].confidence)
  BY <1>1, <1>2 DEF MatchAt
<1> QED
  BY <1>3 DEF Match
\* Matches that read an amount are told apart by it.
LEMMA ReadMark ==
    ASSUME NEW page, NEW match, NEW e \in Type, NEW amount \in {1, 2},
           match.read = Seen(e, amount)
    PROVE  match.read # None /\ Fingerprint(page, match) = <<<< >>, amount>>
<1>1. None # Value(e, amount) /\ None # Seen(e, amount)
  BY PageAssumption DEF Seen
<1> QED
  BY <1>1 DEF Fingerprint, Seen, Value

LEMMA RanksBehind ==
    /\ \A n \in Nat, confidence \in Nat : \A read :
           ~Ranks(Match(n, read, confidence), Match(n, read, confidence))
    /\ \A match, other : match.read = None /\ other.read # None => ~Ranks(match, other)
BY DEF Ranks, Match

\* What is printed is shown: a match that ranks before it reads the other amount.
LEMMA OwnIsShown ==
    ASSUME NEW t \in PageTrial, NEW amount \in {1, 2}, amount \in Printings(t)
    PROVE  ReadAs(t.type, t, amount)
<1> DEFINE e    == t.type
           page == Page(t)
           n    == Place(t, amount)
           m    == MatchAt(e, page, n)
           all  == Collected(e, page)
           better == {other \in all : Ranks(other, m)}
           prints == {Fingerprint(page, other) : other \in better}
<1>1. e \in Type /\ t.label \in Labels[e]
  BY Trialled
<1>2. amount \in {1, 2}
  OBVIOUS
<1>3. n \in DOMAIN page /\ ShownAt(t, n, amount) /\ page[n].words = t.label
  BY Shown DEF ShownAt
<1>4. PICK confidence \in Nat : m = Match(n, Seen(e, amount), confidence)
  BY <1>2, <1>3, ShownIsRead
<1>5. m \in Labelled(e, page) /\ all = Labelled(e, page)
  <2>1. Bears(Labels[e], page[n].words) # {} /\ Bears(NegativeLabels(e), page[n].words) = {}
    BY <1>1, <1>3, OwnLabel
  <2>2. m \in Labelled(e, page)
    BY <1>3, <2>1 DEF Labelled
  <2> QED
    BY <2>2 DEF Collected
<1>6. m.read = Seen(e, amount) /\ m.read # None /\ Fingerprint(page, m) = <<<< >>, amount>>
  <2>1. m.read = Seen(e, amount)
    BY <1>4 DEF Match
  <2> HIDE DEF e, m, page
  <2> QED
    BY <2>1, <1>1, <1>2, ReadMark
<1>7. ASSUME NEW other \in better
      PROVE  Fingerprint(page, other) = <<<< >>, 3 - amount>>
  <2>1. PICK k \in DOMAIN page : other = MatchAt(e, page, k) /\ Bears(Labels[e], page[k].words) # {}
    BY <1>5 DEF Labelled
  <2>2. page[k].words # << >>
    <3>1. \A label \in Labels[e] : Ends(label, << >>) = {}
      BY <1>1, LabelsTell, NoWordsNoLabel DEF WordsTell
    <3> QED
      BY <2>1, <3>1 DEF Bears
  <2>3. Ranks(other, m)
    OBVIOUS
  <2>4. ~BareAt(t, k)
    <3>1. SUFFICES ASSUME BareAt(t, k) PROVE FALSE
      OBVIOUS
    <3>2. other.read = None
      BY <2>1, <3>1, BareIsNotRead
    <3> QED
      BY <2>3, <3>2, <1>6, RanksBehind
  <2>5. PICK a \in {1, 2} : a \in Printings(t) /\ k = Place(t, a)
    BY <2>2, <2>4, Lines DEF Printings
  <2>6. a \in {1, 2} /\ ShownAt(t, k, a)
    BY <2>5, Shown
  <2>7. PICK c \in Nat : other = Match(k, Seen(e, a), c)
    BY <2>1, <2>6, ShownIsRead
  <2>8. a # amount
    <3>1. SUFFICES ASSUME a = amount PROVE FALSE
      OBVIOUS
    <3>2. other = m
      BY <2>1, <2>5, <3>1
    <3>3. n \in Nat
      BY <1>2 DEF Place
    <3>4. ~Ranks(Match(n, Seen(e, amount), confidence), Match(n, Seen(e, amount), confidence))
      <4> HIDE DEF n, e
      <4> QED
        BY <3>3, RanksBehind
    <3> HIDE DEF m, n
    <3> QED
      BY <1>4, <2>3, <3>2, <3>4
  <2>9. a = 3 - amount
    BY <1>2, <2>6, <2>8
  <2>10. Fingerprint(page, other) = <<<< >>, a>>
    <3>1. other.read = Seen(e, a)
      BY <2>7 DEF Match
    <3> HIDE DEF e, page
    <3> QED
      BY <3>1, <1>1, <2>6, ReadMark
  <2> QED
    BY <2>9, <2>10
<1>8. prints \subseteq {<<<< >>, 3 - amount>>}
  BY <1>7
<1>9. Fingerprint(page, m) \notin prints
  <2>1. <<<< >>, amount>> # <<<< >>, 3 - amount>>
    BY <1>2
  <2> QED
    BY <1>6, <1>8, <2>1
<1>10. Cardinality(prints) < MaxCandidates
  <2> HIDE DEF prints
  <2>1. Cardinality({<<<< >>, 3 - amount>>}) = 1 /\ IsFiniteSet({<<<< >>, 3 - amount>>})
    BY FS_Singleton
  <2>2. Cardinality(prints) \in Nat /\ Cardinality(prints) <= 1
    BY <1>8, <2>1, FS_Subset, FS_CardinalityType
  <2> QED
    BY <2>2 DEF MaxCandidates
<1>11. m \in Kept(e, page)
  BY <1>5, <1>9, <1>10 DEF Kept
<1> QED
  BY <1>6, <1>11 DEF ReadAs, Seen

\* A label of another type inside the line is of a kind that reads no such value.
LEMMA LabelledByAnother ==
    ASSUME NEW t \in PageTrial, NEW e \in Type, e # t.type, NEW m \in Labelled(e, Page(t))
    PROVE  m.read = None \/ m.read.value.kind # KindOf(t.type)
<1> DEFINE page == Page(t)
<1>1. PICK n \in DOMAIN page : m = MatchAt(e, page, n) /\ Bears(Labels[e], page[n].words) # {}
  BY DEF Labelled
<1>2. PICK label \in Labels[e] : Ends(label, page[n].words) # {}
  BY <1>1 DEF Bears
<1>3. WordsTell(label, e) /\ IsLabel(label)
  BY LabelsTell DEF WordsTell
<1>4. page[n].words # << >>
  BY <1>2, <1>3, NoWordsNoLabel
<1>5. t.type \in Type /\ page[n].words \in Labels[t.type]
  <2>1. t.type \in Type /\ t.label \in Labels[t.type]
    BY Trialled
  <2>2. (\E amount \in Printings(t) : n = Place(t, amount)) \/ BareAt(t, n)
    BY <1>4, Lines
  <2> QED
    BY <2>1, <2>2, Shown DEF ShownAt, BareAt
<1>6. Told(label, t.type)
  BY <1>2, <1>3, <1>5, LabelsTell, EndsTell
<1>7. KindOf(e) # "text" /\ KindOf(e) # KindOf(t.type)
  BY <1>5, <1>6, OnlyItsType
<1>8. \A line, from : \/ TryValue(e, line, from) = None
                      \/ TryValue(e, line, from).value.kind = KindOf(e)
  BY <1>7 DEF TryValue
<1>9. m.read = None \/ m.read.value.kind = KindOf(e)
  <2>1. \E k, line, from, confidence :
            m = Match(k, TryValue(e, line, from), confidence) \/ m = Match(k, None, confidence)
    BY <1>1 DEF MatchAt
  <2> QED
    BY <2>1, <1>8 DEF Match
<1> QED
  BY <1>7, <1>9

\* What is printed is shown as no other type.
LEMMA OnlyAsItsType ==
    ASSUME NEW t \in PageTrial, NEW e \in Type, NEW amount \in Printings(t), ReadAs(e, t, amount)
    PROVE  e = t.type
<1>1. PICK m \in Kept(e, Page(t)) : m.read = Seen(t.type, amount)
  BY DEF ReadAs, Seen
<1>2. m \in Labelled(e, Page(t)) \/ m \in ByShape(e, Page(t))
  BY DEF Kept, Collected
<1>3. t.type \in Type /\ t.type # "veg_nonveg_mark" /\ amount \in {1, 2}
  BY Trialled DEF Printings
<1>4. m.read # None /\ m.read.value.kind = KindOf(t.type)
  BY <1>1, <1>3, PageAssumption DEF Seen, Value
<1>5. CASE m \in Labelled(e, Page(t))
  BY <1>4, <1>5, LabelledByAnother
<1>6. CASE m \in ByShape(e, Page(t))
  <2>1. m.read.value.kind = KindOf(e) /\ e \in {"consumer_care_email", "veg_nonveg_mark"}
    BY <1>6 DEF ByShape, Match, Shaped
  <2>2. KindOf(t.type) = KindOf(e)
    BY <1>4, <2>1
  <2>3. (e = "veg_nonveg_mark" => KindOf(e) = "mark")
        /\ (e = "consumer_care_email" => KindOf(e) = "email")
    BY KindsOf
  <2>4. (KindOf(t.type) = "mark" => t.type = "veg_nonveg_mark")
        /\ (KindOf(t.type) = "email" => t.type = "consumer_care_email")
    BY <1>3, KindsOf
  <2> QED
    BY <1>3, <2>1, <2>2, <2>3, <2>4
<1> QED
  BY <1>2, <1>5, <1>6

LEMMA PageHolds ==
    ASSUME NEW t \in PageTrial, trial = t
    PROVE  PrintedValuesAreShown
<1>1. Printings(t) \subseteq {1, 2}
  BY DEF Printings
<1> QED
  BY <1>1, OwnIsShown, OnlyAsItsType DEF PrintedValuesAreShown

-----------------------------------------------------------------------------
(* The trials                                                              *)

\* What is tried is what was drawn, and no deleted row took along what it must
\* not.
TrialIInv ==
    /\ trial.about = "price" => trial \in PriceTrial
    /\ trial.about = "band" => trial \in BandTrial
    /\ trial.about = "evidence" => trial \in EvidenceTrial
    /\ trial.about = "unit" => trial \in UnitTrial
    /\ trial.about = "date" => trial \in DateTrial
    /\ trial.about = "code" => trial \in CodeTrial
    /\ trial.about = "scope" => trial \in ScopeTrial
    /\ trial.about = "starter" => trial \in [about : {"starter"}, shipped : SeedRules]
    /\ trial.about = "page" => trial \in PageTrial
    /\ trial.about = "database" => trial \in Databases /\ NotTakenAlong(trial)

LEMMA Kinds ==
    /\ \A t \in PriceTrial : t.about = "price"
    /\ \A t \in BandTrial : t.about = "band"
    /\ \A t \in EvidenceTrial : t.about = "evidence"
    /\ \A t \in UnitTrial : t.about = "unit"
    /\ \A t \in DateTrial : t.about = "date"
    /\ \A t \in CodeTrial : t.about = "code"
    /\ \A t \in Databases : t.about = "database"
    /\ \A t \in ScopeTrial : t.about = "scope"
    /\ \A t \in PageTrial : t.about = "page"
    /\ \A t \in [about : {"starter"}, shipped : SeedRules] : t.about = "starter"
<1>1. \A t \in PriceTrial : t.about = "price"
  BY DEF PriceTrial
<1>2. \A t \in BandTrial : t.about = "band"
  BY DEF BandTrial
<1>3. \A t \in EvidenceTrial : t.about = "evidence"
  BY DEF EvidenceTrial
<1>4. \A t \in UnitTrial : t.about = "unit"
  BY DEF UnitTrial
<1>5. \A t \in DateTrial : t.about = "date"
  BY DEF DateTrial
<1>6. \A t \in CodeTrial : t.about = "code"
  BY DEF CodeTrial
<1>7. \A t \in Databases : t.about = "database"
  BY DEF Databases
<1>8. \A t \in ScopeTrial : t.about = "scope"
  BY DEF ScopeTrial
<1>9. \A t \in PageTrial : t.about = "page"
  BY DEF PageTrial
<1>10. \A t \in [about : {"starter"}, shipped : SeedRules] : t.about = "starter"
  OBVIOUS
<1> QED
  BY <1>1, <1>2, <1>3, <1>4, <1>5, <1>6, <1>7, <1>8, <1>9, <1>10, Zenon

LEMMA TrialsStep ==
    ASSUME TrialIInv, TrialsNext
    PROVE  TrialIInv'
<1>1. CASE TryPrice
  BY <1>1, Kinds DEF TryPrice, TrialIInv
<1>2. CASE TryBand
  BY <1>2, Kinds DEF TryBand, TrialIInv
<1>3. CASE TryEvidence
  BY <1>3, Kinds DEF TryEvidence, TrialIInv
<1>4. CASE TryUnit
  BY <1>4, Kinds DEF TryUnit, TrialIInv
<1>5. CASE TryDate
  BY <1>5, Kinds DEF TryDate, TrialIInv
<1>6. CASE TryCode
  BY <1>6, Kinds DEF TryCode, TrialIInv
<1>7. CASE Again
  BY <1>7 DEF Again, Nothing, TrialIInv
<1>8. CASE TryScope
  BY <1>8, Kinds DEF TryScope, TrialIInv
<1>9. CASE TryStarter
  BY <1>9, Kinds DEF TryStarter, TrialIInv
<1>10. CASE TryDatabase
  <2>1. trial' \in Databases /\ NotTakenAlong(trial')
    BY <1>10, PopulatedKeeps DEF TryDatabase
  <2>2. trial'.about = "database"
    BY <2>1, Kinds
  <2> QED
    BY <2>1, <2>2 DEF TrialIInv, NotTakenAlong
<1>11. CASE TryDelete
  <2>1. trial \in Databases /\ NotTakenAlong(trial)
    BY <1>11 DEF TryDelete, TrialIInv
  <2>2. trial' \in Databases /\ NotTakenAlong(trial')
    BY <1>11, <2>1, DeleteKeeps DEF TryDelete
  <2>3. trial'.about = "database"
    BY <2>2, Kinds
  <2> QED
    BY <2>2, <2>3 DEF TrialIInv, NotTakenAlong
<1>12. CASE TryPage
  BY <1>12, Kinds DEF TryPage, TrialIInv
<1> QED
  BY <1>1, <1>2, <1>3, <1>4, <1>5, <1>6, <1>7, <1>8, <1>9, <1>10, <1>11, <1>12
     DEF TrialsNext, TrialNext

LEMMA TrialInvariant == TrialsSpec => []TrialIInv
<1>1. TrialInit => TrialIInv
  BY DEF TrialInit, Nothing, TrialIInv
<1>2. TrialIInv /\ [TrialsNext]_trial => TrialIInv'
  <2> SUFFICES ASSUME TrialIInv, [TrialsNext]_trial PROVE TrialIInv'
    OBVIOUS
  <2>1. CASE TrialsNext
    BY <2>1, TrialsStep
  <2>2. CASE UNCHANGED trial
    BY <2>2 DEF TrialIInv, NotTakenAlong
  <2> QED
    BY <2>1, <2>2
<1> QED
  BY <1>1, <1>2, PTL DEF TrialsSpec

\* A packer's rounding of the unit price, up or down, is accepted and two paise
\* off never are, for all prices and quantities
\* (api/app/services/rules/checks.py, units.py).
THEOREM RoundingIsAccepted == TrialsSpec => []PackersRoundingIsAccepted
<1>1. TrialIInv => PackersRoundingIsAccepted
  <2>1. trial.about = "price" /\ trial \in PriceTrial => PackersRoundingIsAccepted
    BY PriceHolds
  <2>2. trial.about # "price" => PackersRoundingIsAccepted
    BY DEF PackersRoundingIsAccepted
  <2> QED
    BY <2>1, <2>2 DEF TrialIInv
<1> QED
  BY <1>1, TrialInvariant, PTL

\* Rules with adjacent bands share no package and leave none out between their
\* ends, and the scenarios generated at a band's bounds pass, wherever the
\* bounds lie (api/app/services/rules/engine.py, simulator.py).
THEOREM BandsMeet == TrialsSpec => []AdjacentBandsMeet
<1>1. TrialIInv => AdjacentBandsMeet
  <2>1. trial.about = "band" /\ trial \in BandTrial => AdjacentBandsMeet
    BY BandHolds
  <2>2. trial.about # "band" => AdjacentBandsMeet
    BY DEF AdjacentBandsMeet
  <2> QED
    BY <2>1, <2>2 DEF TrialIInv
<1> QED
  BY <1>1, TrialInvariant, PTL

\* More evidence only settles a finding, whatever the readings say, as long as
\* none is in doubt (api/app/services/rules/checks.py, engine.py).
THEOREM EvidenceSettles == TrialsSpec => []EvidenceOnlySettles
<1>1. TrialIInv => EvidenceOnlySettles
  <2>1. trial.about = "evidence" /\ trial \in EvidenceTrial => EvidenceOnlySettles
    BY EvidenceHolds
  <2>2. trial.about # "evidence" => EvidenceOnlySettles
    BY DEF EvidenceOnlySettles
  <2> QED
    BY <2>1, <2>2 DEF TrialIInv
<1> QED
  BY <1>1, TrialInvariant, PTL

\* The same contents have the same quantity, printed apart or in total, in any
\* units of one dimension, whatever the amounts
\* (api/app/services/extraction/units.py).
THEOREM ContentsHaveOneQuantity == TrialsSpec => []SameContentsSameQuantity
<1>1. TrialIInv => SameContentsSameQuantity
  <2>1. trial.about = "unit" /\ trial \in UnitTrial => SameContentsSameQuantity
    BY UnitHolds
  <2>2. trial.about # "unit" => SameContentsSameQuantity
    BY DEF SameContentsSameQuantity
  <2> QED
    BY <2>1, <2>2 DEF TrialIInv
<1> QED
  BY <1>1, TrialInvariant, PTL

\* A date printed in numbers is among the readings that are shown, whatever the
\* year and the order, and the only reading is the right one
\* (api/app/services/extraction/dates.py).
THEOREM DatesAreNotLost == TrialsSpec => []PrintedDateIsNotLost
<1>1. TrialIInv => PrintedDateIsNotLost
  <2>1. trial.about = "date" /\ trial \in DateTrial => PrintedDateIsNotLost
    BY DateHolds
  <2>2. trial.about # "date" => PrintedDateIsNotLost
    BY DEF PrintedDateIsNotLost
  <2> QED
    BY <2>1, <2>2 DEF TrialIInv
<1> QED
  BY <1>1, TrialInvariant, PTL

\* One misread digit makes every valid barcode invalid, and padding changes
\* nothing, whatever the number (api/app/services/gtin.py).
THEOREM MisreadDigitsShow == TrialsSpec => []MisreadDigitIsNoticed
<1>1. TrialIInv => MisreadDigitIsNoticed
  <2>1. trial.about = "code" /\ trial \in CodeTrial => MisreadDigitIsNoticed
    BY CodeHolds
  <2>2. trial.about # "code" => MisreadDigitIsNoticed
    BY DEF MisreadDigitIsNoticed
  <2> QED
    BY <2>1, <2>2 DEF TrialIInv
<1> QED
  BY <1>1, TrialInvariant, PTL

\* A register lists the records that can be opened and no others, whichever way
\* the account's code is written, however long the codes are and whatever
\* segments they have (api/app/security/permissions.py).
THEOREM RegistersAgree == TrialsSpec => []RegistersShowWhatIsCovered
<1>1. TrialIInv => RegistersShowWhatIsCovered
  <2>1. trial.about = "scope" /\ trial \in ScopeTrial => RegistersShowWhatIsCovered
    BY ScopeHolds
  <2>2. trial.about # "scope" => RegistersShowWhatIsCovered
    BY DEF RegistersShowWhatIsCovered
  <2> QED
    BY <2>1, <2>2 DEF TrialIInv
<1> QED
  BY <1>1, TrialInvariant, PTL

\* No deletion takes a record of enforcement along with something else, however
\* many rows are deleted and whichever tables were empty
\* (api/migrations/versions, the foreign keys).
THEOREM NoRecordIsTakenAlong == TrialsSpec => []RecordsAreNotTakenAlong
<1>1. TrialIInv => RecordsAreNotTakenAlong
  BY DEF TrialIInv, NotTakenAlong, Enforcement, UnderInspection, RecordsAreNotTakenAlong
<1> QED
  BY <1>1, TrialInvariant, PTL

\* Every rule of the starter set can be approved as it is shipped, with scenarios
\* of every kind approval asks for, and the engine finds what they promise
\* (api/app/services/rules/seed.py, simulator.py, engine.py).
THEOREM StarterSetIsReady == TrialsSpec => []StarterRulesAreReady
<1>1. TrialIInv => StarterRulesAreReady
  <2>1. trial.about = "starter" /\ trial \in [about : {"starter"}, shipped : SeedRules]
            => StarterRulesAreReady
    BY StarterHolds
  <2>2. trial.about # "starter" => StarterRulesAreReady
    BY DEF StarterRulesAreReady
  <2> QED
    BY <2>1, <2>2 DEF TrialIInv
<1> QED
  BY <1>1, TrialInvariant, PTL

\* What is printed with a label of its declaration is shown as that declaration
\* and as no other, both times it is printed, whatever the confidence of the
\* lines and however many bare labels follow, in whatever order
\* (api/app/services/extraction/pipeline.py, fields.py).
THEOREM PrintedIsShown == TrialsSpec => []PrintedValuesAreShown
<1>1. TrialIInv => PrintedValuesAreShown
  <2>1. trial.about = "page" /\ trial \in PageTrial => PrintedValuesAreShown
    BY PageHolds
  <2>2. trial.about # "page" => PrintedValuesAreShown
    BY DEF PrintedValuesAreShown
  <2> QED
    BY <2>1, <2>2 DEF TrialIInv
<1> QED
  BY <1>1, TrialInvariant, PTL

=============================================================================
