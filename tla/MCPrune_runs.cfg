SPECIFICATION Spec
CONSTANTS
    e1 = e1
    e2 = e2
    e3 = e3
    r1 = r1
    r2 = r2
    NoEntry = NoEntry
    Entries = {e1, e2, e3}
    Roots = {r1, r2}
    RootOf <- InRoots
    Dirs <- TwoRoots
    Excluded = {e2}
    Unreadable = {r2}
    Age = 1
    Samples <- Mixed
    Meddle = {"put", "save"}
    MaxOthers = 1
    MaxClock = 1
INVARIANT TypeOK
INVARIANT KeptNeverLost
INVARIANT Untouched
INVARIANT ReportExact
INVARIANT NothingLeft
PROPERTY DryHonest
PROPERTY TurnSpec
