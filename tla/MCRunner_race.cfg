SPECIFICATION Spec
CONSTANTS
    p1 = p1
    p2 = p2
    Procs = {p1, p2}
    Cmds <- AllCmds
    Configs <- AllConfigs
    MinInterval = 2
    MaxClock = 4
    NoStamp = NoStamp
    Overlap = TRUE
    StepBack = FALSE
    Faults <- NoFaults
SYMMETRY Symmetry
INVARIANT UnforcedSpacing
