----------------------------- MODULE RuleTrial ------------------------------
(***************************************************************************)
(* The calculations behind a finding, tried on inputs: each step draws     *)
(* another input for one of them, and the properties say what must hold of *)
(* the result whatever was drawn.  The inputs are those the parsers, the   *)
(* schemas and the columns let through: prices are not negative, a rule's  *)
(* window begins on a day.                                                 *)
(***************************************************************************)
EXTENDS RuleEngine, Readings

CONSTANTS
    Price,        \* retail sale prices, in paise
    Amount,       \* net quantities, bounds of bands: positive
    Declaration,  \* types of declaration: those the checks name and others
    Reading,      \* what a reading may say: records with all that checks look at,
                  \* dates with their month and in no doubt
    FaceState,    \* states of a required face
    Year,         \* years printed with four digits
    Printed,      \* units that are printed
    Code          \* digits a barcode begins with: sequences of digits

ASSUME AmountAssumption == Price \subseteq Nat /\ Amount \subseteq Nat \ {0}

ASSUME DeclarationAssumption ==
    /\ {"country_of_origin", "unit_sale_price"} \subseteq Declaration
    /\ {"mrp", "net_quantity"} \cap Declaration = {}

ASSUME ReadingAssumption ==
    \A read \in Reading : ~read.ambiguous /\ read.precision \in {"month", "day"}

ASSUME NoneAssumption ==
    /\ None \notin Reading /\ None \notin Int
    /\ None \notin [base : Nat, dimension : {"weight"}]
    /\ None \notin [num : Int, den : {1}]

ASSUME PrintedAssumption ==
    /\ Year \subseteq 100..9999
    /\ \A written \in Printed : IsUnit(written)
    /\ \A code \in Code : code \in Seq(Digit)

VARIABLE trial

-----------------------------------------------------------------------------
(* Inputs                                                                  *)

PriceTrial == [about : {"price"}, price : Price, quantity : Amount, per : Amount]

\* Two rules with adjacent bands, and a package.
BandTrial ==
    {t \in [about : {"band"}, low : Amount, mid : Amount, high : Amount, quantity : Amount] :
        t.low < t.mid /\ t.mid < t.high}

Candidate == [declaration : Declaration, confidence : {1}, value : Reading \cup {None},
              review : {"pending", "rejected", "not_applicable", "confirmed", "corrected"},
              machine : {"located", "unreadable"}]

\* A check for a declaration, with one reading and one required face, and
\* later with a second reading and perhaps the face.
EvidenceTrial ==
    {t \in [about : {"evidence"},
            kind : {"declaration_present", "any_declaration_present",
                    "consumer_care_completeness", "country_of_origin_required",
                    "date_marking_completeness", "unit_sale_price_consistency"},
            declaration : Declaration, first : Candidate, second : Candidate,
            before : FaceState, after : FaceState] :
        /\ EvidenceComplete(<<t.before>>) => EvidenceComplete(<<t.after>>)
        /\ t.kind = "country_of_origin_required" => t.declaration = "country_of_origin"
        /\ t.kind = "unit_sale_price_consistency" => t.declaration = "unit_sale_price"}

\* Pieces of the same amount.
UnitTrial == [about : {"unit"}, pieces : Amount, each : Amount, unit : Printed]

\* A date as the packer meant it, and which number was printed first.
DateTrial ==
    {t \in [about : {"date"}, day : 1..31, month : 1..12, year : Year, short : BOOLEAN,
            dayFirst : BOOLEAN] :
        ValidDay(t.day, t.month, t.year) /\ (t.short => t.year \in 2000..2099)}

\* A valid number, and one digit of it misread.
CodeTrial ==
    {t \in [about : {"code"}, code : Code, position : 1..14, misread : Digit] :
        Len(t.code) + 1 \in ValidLength /\ t.position <= Len(t.code) + 1}

-----------------------------------------------------------------------------
Nothing == [about |-> "nothing"]

TryPrice    == trial = Nothing /\ trial' \in PriceTrial
TryBand     == trial = Nothing /\ trial' \in BandTrial
TryEvidence == trial = Nothing /\ trial' \in EvidenceTrial
TryUnit     == trial = Nothing /\ trial' \in UnitTrial
TryDate     == trial = Nothing /\ trial' \in DateTrial
TryCode     == trial = Nothing /\ trial' \in CodeTrial
Again       == trial # Nothing /\ trial' = Nothing

TrialInit == trial = Nothing

TrialNext ==
    \/ TryPrice \/ TryBand \/ TryEvidence
    \/ TryUnit \/ TryDate \/ TryCode
    \/ Again

TrialSpec == TrialInit /\ [][TrialNext]_trial

-----------------------------------------------------------------------------
(* Payloads and rules of the trials                                        *)

\* The payload of a price trial, with a printed unit price in whole paise.
PricePayload(t, printed) ==
    [values |-> [mrp |-> t.price,
                 net_quantity |-> [base |-> t.quantity, dimension |-> "weight"],
                 unit_sale_price |-> [num |-> printed, den |-> 1]],
     labelOnly |-> {}]

UnitPriceRule(per) == [per |-> per, tolerance |-> 1, skipForCount |-> TRUE]

\* The payload the engine makes of these readings and of one face, for a
\* package whose price and net quantity were read.
EvidencePayload(candidates, face) ==
    [values |-> [d \in Declaration \cup {"mrp", "net_quantity"} |->
        IF d = "mrp" THEN 10000
        ELSE IF d = "net_quantity" THEN [base |-> 100, dimension |-> "weight"]
        ELSE CHOOSE value \in PossibleValues(d, candidates) : TRUE],
     labelOnly |-> LabelSeen(candidates),
     complete |-> EvidenceComplete(<<face>>),
     imported |-> TRUE]

\* The rules with these tests, as seed.py has them.
EvidenceRule(kind, declaration) ==
    [test |-> kind,
     required |-> IF kind = "unit_sale_price_consistency" THEN {"mrp", "net_quantity"} ELSE {},
     parameters |->
        IF kind = "date_marking_completeness"
        THEN [accepted |-> <<declaration>>, precision |-> "month"]
        ELSE IF kind = "unit_sale_price_consistency" THEN UnitPriceRule(100)
        ELSE [declaration |-> declaration, declarations |-> {declaration},
              accepted |-> {declaration}]]

BeforeMore(t) == FindingOutcome(EvidenceRule(t.kind, t.declaration),
                                EvidencePayload({t.first}, t.before))

AfterMore(t) == FindingOutcome(EvidenceRule(t.kind, t.declaration),
                               EvidencePayload({t.first, t.second}, t.after))

Accepted(candidate) == candidate.review \in {"confirmed", "corrected"}

\* An officer accepted a reading of what the check looks for.
ReadBefore(t) ==
    Accepted(t.first) /\ t.first.declaration = t.declaration /\ t.first.value # None

\* A rule for a band, in force on days 1 to 3, with an exception.
BandRule(min, max) ==
    [code |-> min, version |-> 1, status |-> "active", from |-> 1, to |-> 3,
     commodities |-> {}, packages |-> {}, kind |-> "weight", min |-> min, max |-> max,
     imported |-> None, ecommerce |-> None, multipiece |-> None,
     exceptions |-> {"exempt"}, test |-> "declaration_present",
     parameters |-> [declaration |-> "mrp"]]

\* A package of that quantity that bears the price.
BandScenario(rule, quantity) ==
    [context |-> [DefaultContext(rule, rule.from) EXCEPT !.quantity = quantity],
     payload |-> EvidencePayload({}, "captured"),
     expected |-> "compliant"]

-----------------------------------------------------------------------------
(* Properties                                                              *)

\* A packer who rounds the exact unit price to paise, up or down, is never
\* found in violation, and one who prints two paise below or above that always
\* is: the check rounds once, on the exact fraction, and allows one paisa.
PackersRoundingIsAccepted ==
    trial.about = "price" =>
        LET down == (trial.price * trial.per) \div trial.quantity
            up   == IF (trial.price * trial.per) % trial.quantity = 0 THEN down ELSE down + 1
            Verdict(printed) ==
                CheckUnitSalePrice(UnitPriceRule(trial.per), PricePayload(trial, printed))
        IN  /\ Verdict(down) = "compliant" /\ Verdict(up) = "compliant"
            /\ Verdict(down - 2) = "non_compliant" /\ Verdict(up + 2) = "non_compliant"

\* Of two rules with adjacent bands one and only one takes a package between
\* their ends, and every scenario the simulator generates at the bounds of the
\* band, outside the window and for the exception passes: the simulator and
\* the selection mean the same scope.
AdjacentBandsMeet ==
    trial.about = "band" =>
        LET lower == BandRule(trial.low, trial.mid)
            upper == BandRule(trial.mid, trial.high)
            Takes(rule) ==
                rule \in Select({lower, upper}, BandScenario(rule, trial.quantity).context)
        IN  /\ trial.low <= trial.quantity /\ trial.quantity < trial.high
                  <=> Takes(lower) # Takes(upper)
            /\ ~(Takes(lower) /\ Takes(upper))
            /\ \A s \in BoundaryScenarios(lower, BandScenario(lower, trial.low)) :
                   Passed(lower, s)
            /\ \A day \in DaysOutside(lower) :
                   ~AppliesWhateverStatus(lower, DefaultContext(lower, day))
            /\ ~AppliesWhateverStatus(lower, ExceptionContext(lower))

\* More evidence only settles, as far as its readings are in no doubt.  What a
\* check found declared stays declared when another reading and another face
\* come in; a violation is taken back only by a reading or a label of what was
\* missing; a reading an officer has refused, set aside or not seen yet changes
\* nothing; and with a face outstanding an undeclared thing is no violation.
\* The unit sale price, which is checked against the price, is left out.
EvidenceOnlySettles ==
    trial.about = "evidence" /\ trial.kind # "unit_sale_price_consistency" =>
        /\ BeforeMore(trial) = "compliant" => AfterMore(trial) = "compliant"
        /\ BeforeMore(trial) = "non_compliant" /\ AfterMore(trial) # "non_compliant"
              => Accepted(trial.second) /\ trial.second.declaration = trial.declaration
        /\ ~Accepted(trial.second) /\ trial.after = trial.before
              => AfterMore(trial) = BeforeMore(trial)
        /\ ~ReadBefore(trial) /\ ~EvidenceComplete(<<trial.before>>)
              => BeforeMore(trial) # "non_compliant"

\* What checks.py:7-11 says of every check, and docs/TESTING.md:99 of the whole
\* ("Absent evidence never becomes a violation"): while a face is outstanding,
\* a declaration that was not read is no violation.
AbsentEvidenceIsNoViolation ==
    trial.about = "evidence" /\ ~ReadBefore(trial) /\ ~EvidenceComplete(<<trial.before>>)
        => BeforeMore(trial) # "non_compliant"

\* What a unit consists of, by the definitions of the units themselves.
Consists ==
    [tonne |-> [many |-> 10, of |-> "quintal"], quintal |-> [many |-> 100, of |-> "kg"],
     kg |-> [many |-> 1000, of |-> "g"], g |-> [many |-> 1000, of |-> "mg"],
     mg |-> [many |-> 1000, of |-> "mcg"],
     kl |-> [many |-> 1000, of |-> "l"], l |-> [many |-> 10, of |-> "dl"],
     dl |-> [many |-> 10, of |-> "cl"], cl |-> [many |-> 10, of |-> "ml"],
     km |-> [many |-> 1000, of |-> "m"], m |-> [many |-> 100, of |-> "cm"],
     cm |-> [many |-> 10, of |-> "mm"],
     m2 |-> [many |-> 10000, of |-> "cm2"], cm2 |-> [many |-> 100, of |-> "mm2"],
     dozen |-> [many |-> 6, of |-> "pair"], pair |-> [many |-> 2, of |-> "pcs"],
     pcs |-> [many |-> 1, of |-> "unit"]]

SameContents(q, r) == q.dimension = r.dimension /\ SameAmount(q.base, r.base)

\* Packages of the same contents have the same quantity for bands and unit
\* prices, however it is printed: in total or as pieces, in a unit or as so
\* many pieces of what the unit consists of (3 kg as 3000 g or as 3 x 1000 g).
SameContentsSameQuantity ==
    trial.about = "unit" =>
        LET amount == trial.pieces * trial.each
            total  == Quantity(amount, trial.unit)
            u      == NormaliseUnit(trial.unit)
        IN  /\ SameContents(total, Multipiece(trial.pieces, trial.each, trial.unit))
            /\ u \in DOMAIN Consists =>
                  LET part == Consists[u]
                  IN  /\ SameContents(total, Quantity(amount * part.many, part.of))
                      /\ SameContents(total, Multipiece(amount, part.many, part.of))

\* A date that was printed with numbers only, in either order, is among the
\* readings the officer is shown; where it is not marked ambiguous, the one
\* stored is right.
PrintedDateIsNotLost ==
    trial.about = "date" =>
        LET printed == IF trial.short THEN trial.year % 100 ELSE trial.year
            marking == IF trial.dayFirst
                       THEN NumericMarking(trial.day, trial.month, printed)
                       ELSE NumericMarking(trial.month, trial.day, printed)
            meant   == Date(trial.day, trial.month, trial.year)
        IN  /\ meant \in marking.alternatives
            /\ marking.ambiguous \/ marking.date = meant

\* A valid number with one digit misread is not valid, and a number padded for
\* comparison is valid exactly when it was: the weights count from the right.
MisreadDigitIsNoticed ==
    trial.about = "code" =>
        LET whole == Append(trial.code, ComputeCheckDigit(trial.code))
            wrong == [whole EXCEPT ![trial.position] = trial.misread]
        IN  /\ ValidateCheckDigit(wrong) <=> wrong = whole
            /\ ValidateCheckDigit(ToGtin14(wrong)) <=> wrong = whole
=============================================================================
