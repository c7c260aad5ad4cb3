SPECIFICATION FairSpec
CONSTANTS
    d1 = d1
    d2 = d2
    d3 = d3
    m1 = m1
    m2 = m2
    t1 = t1
    t2 = t2
    Dev = {d1}
    Mp = {m1}
    Thread = {t1, t2}
    Cleaner = Cleaner
    Nobody = Nobody
    NoDev = NoDev
    NoMp = NoMp
    NoEntry = NoEntry
    FstabMp <- NoFstab
    UserMount = {}
    Persistent = {}
    Stacked = {}
    Budgets <- LiveBudgets
PROPERTIES CallsReturn GoneDeviceForgotten StaleEntryForgotten
CHECK_DEADLOCK FALSE
