CONSTANTS
    Request = {r1, r2}
    Candidate = {c1}
    Verdict = {confirmed, rejected}
    Measure = {m1}
    None = None
    MaxRevision = 1
SPECIFICATION ReportSpec
INVARIANTS
    ChecksFollowReviews
CHECK_DEADLOCK FALSE
