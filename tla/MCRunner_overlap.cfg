SPECIFICATION FairSpec
CONSTANTS
    p1 = p1
    p2 = p2
    Procs = {p1, p2}
    Cmds <- AllCmds
    Configs <- AllConfigs
    MinInterval = 2
    MaxClock = 2
    NoStamp = NoStamp
    Overlap = TRUE
    StepBack = TRUE
    Faults <- AllFaults
INVARIANT TypeOK
INVARIANT MarkedBeforeClean
INVARIANT NoBlindClean
INVARIANT MissingOnlyMidWrite
PROPERTY PreviewMarks
