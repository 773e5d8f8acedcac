----------------------------- MODULE CleanGate -----------------------------
(***************************************************************************)
(* What `macleaner run` promises when its invocations do not overlap: a    *)
(* ledger of credited runs that never moves backwards, and deletions that  *)
(* either were forced or start at least MinInterval after the last credit. *)
(* The once-per-day guard of daemon/src/runner.rs is one implementation    *)
(* (module Runner).                                                        *)
(***************************************************************************)
EXTENDS Integers

CONSTANTS
    MinInterval,   \* the guard window
    NoStamp        \* nothing credited yet

VARIABLES
    time,          \* wall clock
    credit,        \* start of the newest credited run, or NoStamp
    cleaning       \* "no", or how the deletion in progress was started

vars == <<time, credit, cleaning>>

Init ==
    /\ time = 0
    /\ credit = NoStamp
    /\ cleaning = "no"

Tick ==
    /\ time' \in Nat
    /\ time' > time
    /\ UNCHANGED <<credit, cleaning>>

BeginForced ==
    /\ cleaning = "no"
    /\ cleaning' = "forced"
    /\ UNCHANGED <<time, credit>>

BeginUnforced ==
    /\ cleaning = "no"
    /\ credit # NoStamp
    /\ time - credit >= MinInterval
    /\ cleaning' = "unforced"
    /\ UNCHANGED <<time, credit>>

End ==
    /\ cleaning # "no"
    /\ cleaning' = "no"
    /\ UNCHANGED <<time, credit>>

\* A preview, or a clean that has ended, is entered in the ledger.
Credit ==
    /\ cleaning = "no"
    /\ credit' \in Nat
    /\ credit' <= time
    /\ credit # NoStamp => credit' >= credit
    /\ UNCHANGED <<time, cleaning>>

Next == Tick \/ BeginForced \/ BeginUnforced \/ End \/ Credit

Spec == Init /\ [][Next]_vars
=============================================================================
