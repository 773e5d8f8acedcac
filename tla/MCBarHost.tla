----------------------------- MODULE MCBarHost ------------------------------
(***************************************************************************)
(* LoginItem and MemQuit for TLC.  The two share nothing but the life of   *)
(* the bar's process, so each is explored with the other at rest: the      *)
(* memory view in a bar once installed and launched, the Login Item with   *)
(* no memory view opened.                                                  *)
(***************************************************************************)
EXTENDS LoginItem, MemQuit

Program(a, m) == [app |-> a, main |-> m]
Programs == {Program("bar", TRUE), Program("dock", TRUE), Program("player", TRUE),
             Program("editor", TRUE), Program("editor", FALSE)}

hostVars == <<loginVars, memVars>>

LoginRests ==
    /\ bar = "ready" /\ saving /\ app = "whole" /\ stored = "none" /\ registered
    /\ switch = "none" /\ removal = "idle" /\ ~doomed
    /\ choice /\ ~contrary /\ lapses = {} /\ ~spared

MemRests ==
    /\ rows = {} /\ asked = {} /\ moved = {} /\ hit = {} /\ ~raced
    /\ \A p \in Pids \ {Self} : proc[p] = Free

HostInit == LoginInit /\ MemInit /\ MemRests

HostNext ==
    \/ MemRests /\ LoginNext /\ UNCHANGED memVars
    \/ LoginRests /\ MemNext /\ UNCHANGED loginVars

HostSpec == HostInit /\ [][HostNext]_hostVars

\* Types, and what goes with them: a config.toml that is being saved holds
\* nothing yet (BarConfig::save), and only what the memory list offers for it
\* is ticked (mbMem).
HostTypeOK == LoginTypeOK /\ MemTypeOK

\* The fold of aggregate names one of Largest, whatever the order of the list,
\* and each of them in some order; and it adds up the sizes.
ASSUME \A n \in 1..3 : \A main \in [1..n -> BOOLEAN], size \in [1..n -> 0..2] :
    LET acc(order) == Aggregate(order, main, size)
    IN  /\ {Speaker(acc(order)) : order \in SetToSeqs(1..n)} = Largest(1..n, main, size)
        /\ \A order \in SetToSeqs(1..n) :
               acc(order).rss = MapThenSumSet(LAMBDA p : size[p], 1..n)
=============================================================================
