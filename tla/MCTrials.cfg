SPECIFICATION TrialsSpec
CONSTANTS
    None = None
    Price = {0, 1, 2, 5, 10, 99, 4500}
    Amount = {1, 2, 3, 4, 5, 6, 7, 12}
    Declaration = {"country_of_origin", "unit_sale_price", "manufacturer"}
    Reading <- ReadingsOfAMonth
    FaceState = {"required", "captured", "unable_to_capture"}
    Year = {1900, 2024, 2025, 2100}
    Printed = {"mcg", "mg", "g", "gms", "kg", "quintal", "t", "ml", "cl", "dl", "litre", "kl",
               "mm", "cm", "m", "km", "mm2", "cm2", "m2", "nos", "pc", "pairs", "dozen"}
    Code <- Codes
    Territory <- Territories
    Confidence = {30, 90}
    Unfilled <- LabelsInARow
    Emptied = {"audit_events", "reports", "cases", "findings", "inspections", "products"}
    MaxDeletes = 3
INVARIANTS
    PackersRoundingIsAccepted
    AdjacentBandsMeet
    EvidenceOnlySettles
    SameContentsSameQuantity
    PrintedDateIsNotLost
    MisreadDigitIsNoticed
    PrintedValuesAreShown
    RegistersShowWhatIsCovered
    StarterRulesAreReady
    RecordsAreNotTakenAlong
