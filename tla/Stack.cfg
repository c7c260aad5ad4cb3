SPECIFICATION Spec
CONSTANTS
    p1 = p1
    p2 = p2
    f1 = f1
    f2 = f2
    a1 = a1
    c1 = c1
    c2 = c2
    l1 = l1
    l2 = l2
    r1 = r1
    t1 = t1
    t2 = t2
    Base = {p1, p2, f1, a1}
    Dev = {c1, l1, r1}
    Kind <- KindOf
    Thread = {t1, t2}
    Cleaner = Cleaner
    Nobody = Nobody
    None = None
    Moved = Moved
    NoEntry = NoEntry
    Budgets <- SafetyBudgets
SYMMETRY FoundationSymmetry
INVARIANTS TypeOK SetUpRecorded OneEntryPerDevice
CHECK_DEADLOCK FALSE
