SPECIFICATION Spec
CONSTANTS
    Listeners = {l1, l2}
    Actors = {a1, a2}
    Ops <- EveryOp
    Absent = Absent
    MaxOps = 4
    MaxCrashes = 1
    l1 = l1
    l2 = l2
    a1 = a1
    a2 = a2
SYMMETRY Symmetry
INVARIANTS
    TypeOK
    NoTornSecret
    WrittenIsCurrent
    RetiredStaysGone
CHECK_DEADLOCK FALSE
