CONSTANTS
    Job = {j1, j2}
    Request = {r1}
    Slot = {w1, w2}
    NoJob = NoJob
    MaxAttempts = 1
    MaxTries = 1
    MaxRestarts = 0
    Evidence = {e1, e2}
    Match = {m1, m2}
    TypeOf <- OneType
    NoEvidence = NoEvidence
SYMMETRY Symmetric
SPECIFICATION ObservedSpec
INVARIANTS
    LastTaskAdvances
PROPERTIES
    OnlyLateCommitsLeaveEvidence
    ReviewedTypesAreLeftAlone
    FollowsTheMachine
CHECK_DEADLOCK FALSE
