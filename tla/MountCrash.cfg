SPECIFICATION Spec
CONSTANTS
    d1 = d1
    d2 = d2
    d3 = d3
    m1 = m1
    m2 = m2
    t1 = t1
    t2 = t2
    Dev = {d1, d2, d3}
    Mp = {m1, m2}
    Thread = {t1, t2}
    Cleaner = Cleaner
    Nobody = Nobody
    NoDev = NoDev
    NoMp = NoMp
    NoEntry = NoEntry
    FstabMp <- FstabD3
    UserMount = {d3}
    Persistent = {m1}
    Stacked = {d3}
    Budgets <- CrashBudgets
SYMMETRY Alike
INVARIANTS TypeOK LiveMountRecorded NoStrayDirectory OneEntryPerMountPoint
PROPERTIES BusyDeviceUntouched
CHECK_DEADLOCK FALSE
