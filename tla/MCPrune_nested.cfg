SPECIFICATION Spec
CONSTANTS
    e1 = e1
    e2 = e2
    e3 = e3
    r1 = r1
    r2 = r2
    NoEntry = NoEntry
    Entries = {e1, e2, e3}
    Roots = {r1, r2}
    RootOf <- InRoots
    Dirs <- TwoRoots
    Excluded = {}
    Unreadable = {r2}
    Age = 1
    Samples <- Plain
    Meddle = {}
    MaxOthers = 0
    MaxClock = 2
SYMMETRY Symmetry
INVARIANT FreshKept
