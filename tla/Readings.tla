------------------------------ MODULE Readings ------------------------------
(***************************************************************************)
(* What the parsers make of a printed value: quantities                    *)
(* (api/app/services/extraction/units.py), date markings (dates.py) and    *)
(* barcode numbers (api/app/services/gtin.py).  The regular expressions    *)
(* are left out: a printed text is the numbers, unit and form they find in *)
(* it.  A quantity is a fraction [num, den]: the product of an amount and  *)
(* a factor, which is exact while it has no more than Decimal's 28 digits. *)
(***************************************************************************)
EXTENDS Integers, Sequences, Folds

-----------------------------------------------------------------------------
(* Units of measurement                                                    *)

Factor(dimension, num, den) == [dimension |-> dimension, num |-> num, den |-> den]

\* By canonical unit: its dimension and its factor to the base unit.
UnitTable ==
    [mcg |-> Factor("weight", 1, 1000000), mg |-> Factor("weight", 1, 1000),
     g |-> Factor("weight", 1, 1), kg |-> Factor("weight", 1000, 1),
     quintal |-> Factor("weight", 100000, 1), tonne |-> Factor("weight", 1000000, 1),
     ml |-> Factor("volume", 1, 1), cl |-> Factor("volume", 10, 1),
     dl |-> Factor("volume", 100, 1), l |-> Factor("volume", 1000, 1),
     kl |-> Factor("volume", 1000000, 1),
     mm |-> Factor("length", 1, 1000), cm |-> Factor("length", 1, 100),
     m |-> Factor("length", 1, 1), km |-> Factor("length", 1000, 1),
     mm2 |-> Factor("area", 1, 1000000), cm2 |-> Factor("area", 1, 10000),
     m2 |-> Factor("area", 1, 1),
     unit |-> Factor("count", 1, 1), pcs |-> Factor("count", 1, 1),
     tablet |-> Factor("count", 1, 1), sachet |-> Factor("count", 1, 1),
     pair |-> Factor("count", 2, 1), dozen |-> Factor("count", 12, 1)]

Unit == DOMAIN UnitTable

\* The other spellings of a canonical unit, in the Latin script.
Spellings ==
    [g |-> {"gm", "gms", "gram", "grams"}, kg |-> {"kgs", "kilogram", "kilograms"},
     tonne |-> {"t"}, ml |-> {"mls", "millilitre", "milliliter"},
     l |-> {"ltr", "ltrs", "litre", "liter", "litres", "liters"},
     m |-> {"metre", "meter", "metres", "meters"},
     unit |-> {"n", "no", "nos", "units"}, pcs |-> {"pc", "piece", "pieces"},
     pair |-> {"pairs"}, dozen |-> {"dozens"},
     tablet |-> {"tablets"}, sachet |-> {"sachets"}]

IsUnit(written) ==
    written \in Unit \/ \E u \in DOMAIN Spellings : written \in Spellings[u]

NormaliseUnit(written) ==
    IF written \in Unit THEN written
    ELSE CHOOSE u \in DOMAIN Spellings : written \in Spellings[u]

\* build_quantity: amount units, in base units of the dimension.
Quantity(amount, written) ==
    LET u == NormaliseUnit(written)
    IN  [unit |-> u, dimension |-> UnitTable[u].dimension,
         base |-> [num |-> amount * UnitTable[u].num, den |-> UnitTable[u].den]]

\* A mutant of Multipiece: the pieces are not counted.
OnePiece(pieces, each, written) == Quantity(each, written)

\* "12 x 50 g": the total is what is declared.
Multipiece(pieces, each, written) == Quantity(pieces * each, written)

SameAmount(q, r) == q.num * r.den = r.num * q.den

-----------------------------------------------------------------------------
(* Date markings                                                           *)

Leap(year) == year % 4 = 0 /\ (year % 100 # 0 \/ year % 400 = 0)

DaysIn(month, year) ==
    IF month = 2 THEN IF Leap(year) THEN 29 ELSE 28
    ELSE IF month \in {4, 6, 9, 11} THEN 30
    ELSE 31

ValidDay(day, month, year) ==
    month \in 1..12 /\ day >= 1 /\ day <= DaysIn(month, year)

\* Two digits of a year are of this century.
ExpandYear(printed) == IF printed < 100 THEN 2000 + printed ELSE printed

Date(day, month, year) == [day |-> day, month |-> month, year |-> year]

\* A mutant of NumericReadings: the month is never taken to come first.
DayFirstReadings(first, second, year) ==
    {date \in {Date(first, second, year)} : ValidDay(date.day, date.month, year)}

\* "05/03/2026": the day may come first or the month.
NumericReadings(first, second, year) ==
    {date \in {Date(first, second, year), Date(second, first, year)} :
        ValidDay(date.day, date.month, year)}

\* Of two readings the one with the day first is stored, marked ambiguous.
NumericMarking(first, second, printed) ==
    LET year     == ExpandYear(printed)
        readings == NumericReadings(first, second, year)
    IN  [precision |-> "day", ambiguous |-> \E d, e \in readings : d # e,
         alternatives |-> readings,
         date |-> IF Date(first, second, year) \in readings
                  THEN Date(first, second, year) ELSE Date(second, first, year)]

-----------------------------------------------------------------------------
(* Barcode numbers (GTIN)                                                  *)

Digit == 0..9

ValidLength == {8, 12, 13, 14}

\* A mutant of WeightAt: the weights alternate from the left.
WeightFromLeft(i, n) == IF i % 2 = 1 THEN 3 ELSE 1

\* Position i of n digits of a body, from the left, weighs 3 or 1: the
\* rightmost weighs 3.
WeightAt(i, n) == IF (n - i) % 2 = 0 THEN 3 ELSE 1

WeightedSum(body) ==
    MapThenFoldSet(+, 0, LAMBDA i : body[i] * WeightAt(i, Len(body)),
                   LAMBDA S : CHOOSE i \in S : TRUE, DOMAIN body)

ComputeCheckDigit(body) == (10 - (WeightedSum(body) % 10)) % 10

ValidateCheckDigit(digits) ==
    /\ Len(digits) \in ValidLength
    /\ ComputeCheckDigit(SubSeq(digits, 1, Len(digits) - 1)) = digits[Len(digits)]

Zeros(n) == [i \in 1..n |-> 0]

\* to_gtin14: valid numbers are compared with zeros on the left.
ToGtin14(digits) == Zeros(14 - Len(digits)) \o digits
=============================================================================
