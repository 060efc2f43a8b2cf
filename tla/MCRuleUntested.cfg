CONSTANTS
    None = None
    MaxVersions = 2
    MaxEdits <- Edits
    Day = {1, 2}
    Window <- Windows
    Request = {r1, r2}
SPECIFICATION Spec
SYMMETRY Symmetric
INVARIANT ApprovedAsSimulated
CHECK_DEADLOCK FALSE
