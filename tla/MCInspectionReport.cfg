CONSTANTS
    Request = {r1, r2}
    Candidate = {c1}
    Verdict = {confirmed, rejected}
    Measure = {m1}
    None = None
    MaxRevision = 2
SPECIFICATION ReportSpec
SYMMETRY Symmetric
INVARIANTS
    OneReportFreezes
    FrozenReportStaysTrue
PROPERTIES
    MovesAlongEdges
    DecisionsRestOnChecks
    ReviewsApplyToWhatWasSeen
CHECK_DEADLOCK FALSE
