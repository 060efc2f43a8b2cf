CONSTANTS
    Job = {j1}
    Request = {r1}
    Slot = {w1, w2}
    NoJob = NoJob
    MaxAttempts = 2
    MaxTries = 2
    MaxRestarts = 0
SPECIFICATION FairSpec
PROPERTIES
    QueuedJobsAreTakenUp
CHECK_DEADLOCK FALSE
