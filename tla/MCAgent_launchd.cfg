SPECIFICATION AgentSpec
CONSTANTS
    Job = job
    Cli = cli
    job = job
    cli = cli
    Procs = {job, cli}
    Cmds <- AgentCmds
    Configs <- AllConfigs
    MinInterval = 3
    MaxClock = 5
    NoStamp = NoStamp
    Overlap = TRUE
    StepBack = FALSE
    Faults <- AllFaults
    Sources <- FromBuild
INVARIANT AgentTypeOK
INVARIANT UnforcedSpacing
INVARIANT InstalledWhole
PROPERTY GateSpec
PROPERTY QuietAfterUninstall
PROPERTY InstallTakesEffect
