SPECIFICATION TrialSpec
CONSTANTS
    None = None
    Price = {1}
    Amount = {1, 2}
    Declaration = {"country_of_origin", "unit_sale_price"}
    Reading <- ReadingsOfAMonth
    FaceState = {"required", "captured"}
    Year = {2024}
    Printed = {"g"}
    Code <- Codes
INVARIANT AbsentEvidenceIsNoViolation
