---------------------------- MODULE CleanSession ----------------------------
(***************************************************************************)
(* What the menu bar promises of its Clean now: a page asks, one child     *)
(* process runs at a time, its one answer is animated and handed, as the   *)
(* results, to the page that asked, which nothing takes away before that;  *)
(* and a page is given results in no other way.  The loop of run_tray      *)
(* (bar/src/main.rs, module BarApp) is one implementation.                 *)
(***************************************************************************)

VARIABLES
    stage,         \* "ready", "running", "answered" or "animated"
    page,          \* is there a page?
    told           \* are results the newest script the page has to run?

vars == <<stage, page, told>>

Init == stage = "ready" /\ page = FALSE /\ told = FALSE

OpenPage == ~page /\ page' = TRUE /\ UNCHANGED <<stage, told>>

ClosePage ==
    /\ stage = "ready" /\ page
    /\ page' = FALSE /\ told' = FALSE
    /\ UNCHANGED stage

Ask == stage = "ready" /\ page /\ stage' = "running" /\ UNCHANGED <<page, told>>

Answer == stage = "running" /\ stage' = "answered" /\ UNCHANGED <<page, told>>

Animate == stage = "answered" /\ stage' = "animated" /\ UNCHANGED <<page, told>>

HandOver ==
    /\ stage = "animated" /\ page
    /\ stage' = "ready"
    /\ told' = TRUE
    /\ UNCHANGED page

\* Another script for the page, or the page has run what it had.
Chat == told' = FALSE /\ UNCHANGED <<stage, page>>

Next == OpenPage \/ ClosePage \/ Ask \/ Answer \/ Animate \/ HandOver \/ Chat

Spec == Init /\ [][Next]_vars
=============================================================================
