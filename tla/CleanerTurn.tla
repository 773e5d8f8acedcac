----------------------------- MODULE CleanerTurn -----------------------------
(***************************************************************************)
(* What execute (daemon/src/runner.rs) relies on when it gives a cleaner   *)
(* its turn (Cleaner::run, daemon/src/cleaners/mod.rs): in a turn of a     *)
(* real run something may go, in a dry-run nothing; and the one report at  *)
(* its end counts nothing after an error and otherwise, where it can be    *)
(* exact, all that went.  Prune implements it from inside a directory      *)
(* cleaner, CleanRun for one cleaner after the other.                      *)
(***************************************************************************)
EXTENDS Naturals

VARIABLES
    working,       \* a cleaner has its turn
    real,          \* and this is no dry-run
    exact,         \* nobody else has written, and the cleaner measures
    taken,         \* what has gone in this turn
    told           \* the report of the turn before, or NoReport

vars == <<working, real, exact, taken, told>>

NoReport == [outcome |-> "none", bytes |-> 0]

Failure == [outcome |-> "error", bytes |-> 0]

Success(n) == [outcome |-> "ok", bytes |-> n]

Resting == ~working /\ real = FALSE /\ taken = 0

Init == Resting /\ exact \in BOOLEAN /\ told = NoReport

Begin ==
    /\ Resting
    /\ working' = TRUE
    /\ real' \in BOOLEAN
    /\ exact' \in BOOLEAN
    /\ taken' = 0
    /\ told' = NoReport

Take ==
    /\ working /\ real
    /\ taken' \in Nat /\ taken' > taken
    /\ UNCHANGED <<working, real, exact, told>>

\* Somebody else writes.
Disturb ==
    /\ working
    /\ exact' = FALSE
    /\ UNCHANGED <<working, real, taken, told>>

End ==
    /\ working
    /\ Resting'
    /\ exact' \in BOOLEAN
    /\ \/ told' = Failure
       \/ \E n \in {told'.bytes} :
            /\ n \in Nat
            /\ real /\ exact => n = taken
            /\ told' = Success(n)

\* Between two turns a report is kept or dropped, and whoever likes writes.
Rest ==
    /\ Resting /\ Resting'
    /\ exact' \in BOOLEAN
    /\ told' \in {told, NoReport}

Next == Begin \/ Take \/ Disturb \/ End \/ Rest

Spec == Init /\ [][Next]_vars
=============================================================================
