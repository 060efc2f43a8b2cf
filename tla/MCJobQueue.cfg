CONSTANTS
    Job = {j1}
    Request = {r1, r2}
    Slot = {w1, w2}
    NoJob = NoJob
    MaxAttempts = 3
    MaxTries = 2
    MaxRestarts = 1
SPECIFICATION FairSpec
INVARIANTS
    NoTaskMissesItsRow
    OneTaskPerJob
    AttemptsBounded
PROPERTIES
    MessagesAreConsumed
    StalledJobsAreRequeued
CHECK_DEADLOCK FALSE
