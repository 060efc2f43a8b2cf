SPECIFICATION Spec
CONSTANTS
    k1 = k1
    k2 = k2
    n1 = n1
    n2 = n2
    r1 = r1
    r2 = r2
    Complaint = {c1}
    Inspection = {m1, m2}
    Officer = {o1, o2}
    Absent = Absent
    Case = {k1, k2}
    Notice = {n1, n2}
    Clerk = {r1, r2}
    None = None
    p1 = p1
    p2 = p2
    p3 = p3
    Product = {p1, p2, p3}
    Package = {i1}
    Barcode = {b1}
    Desk = {d1, d2}
    Unrecorded = Unrecorded
SYMMETRY Symmetry
CONSTRAINT Apart
INVARIANTS
    OneNoticeIsServed
    ProceedingsRestOnService
    OneCaseOpensTheMatter
    OneInspectionTakesTheComplaint
    InspectionsFollowTheMerges
CHECK_DEADLOCK FALSE
