CONSTANTS
    j = j
    q = q
    r = r
    p = p
    o1 = o1
    o2 = o2
    c1 = c1
    c2 = c2
    s1 = s1
    s2 = s2
    Callers = {c1, c2}
    Used = {"stock_history", "financial_data"}
    Threshold = 2
    Probes = 1
SPECIFICATION PlatformSpec
INVARIANTS
    PartsTypeOK
    
    AccountsAreBooked
    MirrorIsFaithful
    HistoryIsWhole
    BreakerRecovers
    BacktestsTrade
    DecisionsAreSound
    VerdictsAreEarned
PROPERTIES
    HistoryStays
    KeepsTheBook
CHECK_DEADLOCK FALSE
