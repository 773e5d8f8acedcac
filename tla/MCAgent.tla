------------------------------ MODULE MCAgent -------------------------------
(* A small instance of Agent for TLC. *)
EXTENDS Agent

AgentCmds == {"run", "dry"}
AllConfigs == {"on", "off", "bad"}
AllFaults == {"crash", "open", "write"}
NoFaults == {}
FromBuild == {"build"}
FromBin == {"build", "bin"}
=============================================================================
