------------------------------ MODULE MCRunner ------------------------------
(* Small instances of Runner for TLC. *)
EXTENDS Runner, TLC

AllCmds == {"run", "force", "dry"}
AllConfigs == {"on", "off", "bad"}
AllFaults == {"crash", "open", "write"}
NoFaults == {}

\* Invocation slots are interchangeable in every property that has no fairness.
Symmetry == Permutations(Procs)
=============================================================================
