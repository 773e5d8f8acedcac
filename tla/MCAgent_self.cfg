SPECIFICATION AgentSpec
CONSTANTS
    Job = job
    Cli = cli
    job = job
    cli = cli
    Procs = {job, cli}
    Cmds <- AgentCmds
    Configs <- AllConfigs
    MinInterval = 2
    MaxClock = 3
    NoStamp = NoStamp
    Overlap = TRUE
    StepBack = FALSE
    Faults <- NoFaults
    Sources <- FromBin
INVARIANT BinaryInPlace
