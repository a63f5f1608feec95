\* Two books, two commands, three attempts each and a fault.
SPECIFICATION Spec
CONSTANTS
    Books = {b1, b2}
    Operators = {o1, o2}
    Attempts = 3
    MaxReview = 3
    MaxFaults = 1
    None = None
SYMMETRY Symmetry
INVARIANTS EnforcementHolds WithdrawnNotShown RepairIsServed
CHECK_DEADLOCK FALSE
