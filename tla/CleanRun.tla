------------------------------ MODULE CleanRun ------------------------------
(***************************************************************************)
(* The part of execute (daemon/src/runner.rs) between the guard and the    *)
(* stamp: the cleaners of the configuration one after the other, each in   *)
(* its tier, those that start a tool (ToolCleaner::run) and those that     *)
(* prune directories (AgeDirCleaner::run, whose inside is module Prune),   *)
(* on a disk that other programs use as well.                              *)
(***************************************************************************)
EXTENDS Integers, Sequences

CONSTANTS
    Cleaners,      \* the configured cleaners, in order
    Areas,         \* stretches of disk
    MaxSize,       \* bound on the size of an area
    MinFree,       \* min_free_gb
    MaxOthers      \* bound on what other programs do during a run

Cleaner == [name : STRING, kind : {"tool", "dirs"}, tier : {"daily", "sweep"},
            areas : SUBSET Areas, measured : BOOLEAN, guard : STRING]

ASSUME CleanerAssumption ==
    /\ Cleaners \in Seq(Cleaner)
    /\ \A i \in DOMAIN Cleaners :
         \/ Cleaners[i].kind = "tool" /\ \E a \in Areas : Cleaners[i].areas = {a}
         \/ Cleaners[i].kind = "dirs" /\ Cleaners[i].measured
ASSUME NumberAssumption == MaxSize \in Nat /\ MinFree \in Nat /\ MaxOthers \in Nat

Names  == {Cleaners[i].name : i \in DOMAIN Cleaners}
Tools  == {Cleaners[i].name : i \in {j \in DOMAIN Cleaners : Cleaners[j].kind = "tool"}}
Guards == {Cleaners[i].guard : i \in DOMAIN Cleaners} \ {""}

VARIABLES
    store,         \* what lies in each area
    free,          \* what statvfs would say
    absent,        \* tool cleaners whose program is not on $PATH
    running,       \* guard processes that are running
    others,        \* what other programs have done during the run
    pc,            \* "idle", "survey", "next", "tool", "after" or "dirs"
    dry,           \* Ctx.dry_run
    swept,         \* free space was below min_free_gb
    reports,       \* the CleanReports so far; the next cleaner is the one after
    before,        \* dir_size before the tool
    todo,          \* areas the directory cleaner has still to look at
    bytes,         \* its total
    stamped,       \* the run that has ended wrote last-run
    low,           \* history: the disk was below min_free_gb when the tiers were chosen
    took           \* history: what each cleaner of the run has removed

worldVars == <<store, free, absent, running, others>>
runVars   == <<pc, dry, swept, reports, before, todo, bytes, stamped>>
history   == <<low, took>>

vars == <<worldVars, runVars, history>>

Report == [name : Names, outcome : {"freed", "skipped", "error"}, bytes : Nat]

\* The position of the cleaner at work.
Now == Len(reports) + 1

WorldOK ==
    /\ store \in [Areas -> Nat] /\ free \in Nat /\ others \in Nat
    /\ absent \subseteq Tools /\ running \subseteq Guards
    /\ took \in [DOMAIN Cleaners -> Nat]

RunOK ==
    /\ pc \in {"idle", "survey", "next", "tool", "after", "dirs"}
    /\ dry \in BOOLEAN /\ swept \in BOOLEAN /\ stamped \in BOOLEAN /\ low \in BOOLEAN
    /\ reports \in Seq(Report) /\ Len(reports) <= Len(Cleaners)
    /\ before \in Nat /\ todo \subseteq Areas /\ bytes \in Nat
    /\ pc \in {"tool", "after", "dirs"} => Now \in DOMAIN Cleaners

TypeOK == WorldOK /\ RunOK

Init ==
    /\ store \in [Areas -> 0..MaxSize] /\ free \in {0, MinFree}
    /\ absent \in SUBSET Tools /\ running \in SUBSET Guards /\ others = 0
    /\ pc = "idle" /\ dry = FALSE /\ swept = FALSE /\ stamped = FALSE
    /\ reports = <<>> /\ before = 0 /\ todo = {} /\ bytes = 0
    /\ low = FALSE /\ took = [i \in DOMAIN Cleaners |-> 0]

-----------------------------------------------------------------------------
(* One run *)

Begin ==
    /\ pc = "idle"
    /\ pc' = "survey"
    /\ dry' \in BOOLEAN
    /\ reports' = <<>> /\ stamped' = FALSE /\ others' = 0
    /\ took' = [i \in DOMAIN Cleaners |-> 0]
    /\ UNCHANGED <<store, free, absent, running, swept, before, todo, bytes, low>>

\* Variant: a disk that cannot be asked counts as full.
Survey_FullIfUnknown ==
    /\ pc = "survey"
    /\ pc' = "next"
    /\ low' = (free < MinFree)
    /\ swept' \in {low', TRUE}
    /\ UNCHANGED <<worldVars, dry, reports, before, todo, bytes, stamped, took>>

\* free_gb, and the choice of the tiers; statvfs may fail.
Survey ==
    /\ pc = "survey"
    /\ pc' = "next"
    /\ low' = (free < MinFree)
    /\ swept' \in {low', FALSE}
    /\ UNCHANGED <<worldVars, dry, reports, before, todo, bytes, stamped, took>>

\* The cleaner at work returns its report.
Return(outcome, n) ==
    /\ pc' = "next"
    /\ reports' = Append(reports, [name |-> Cleaners[Now].name, outcome |-> outcome,
                                   bytes |-> n])
    /\ before' = 0 /\ todo' = {} /\ bytes' = 0
    /\ UNCHANGED <<dry, swept, stamped, low>>

\* Is the cleaner's turn, and its tier due?
Due(kind) ==
    /\ pc = "next"
    /\ Now \in DOMAIN Cleaners
    /\ Cleaners[Now].kind = kind
    /\ Cleaners[Now].tier = "daily" \/ swept

SkipTier ==
    /\ pc = "next"
    /\ Now \in DOMAIN Cleaners
    /\ Cleaners[Now].tier = "sweep" /\ ~swept
    /\ Return("skipped", 0)
    /\ UNCHANGED <<worldVars, took>>

\* Variant: a dry-run is looked for only where the tool is not measured.
Blocked_MeasuredRuns(c) ==
    c.name \in absent \/ c.guard \in running \/ (dry /\ ~c.measured)

\* Not installed, its guard process running, or a dry-run.
Blocked(c) == c.name \in absent \/ c.guard \in running \/ dry

SkipTool ==
    /\ Due("tool")
    /\ Blocked(Cleaners[Now])
    /\ Return("skipped", 0)
    /\ UNCHANGED <<worldVars, took>>

Area == CHOOSE a \in Areas : Cleaners[Now].areas = {a}

\* Variant: the size is taken after the tool was run, as the other one is.
StartTool_NoBefore ==
    /\ Due("tool")
    /\ ~Blocked(Cleaners[Now])
    /\ pc' = "tool"
    /\ before' = 0
    /\ UNCHANGED <<worldVars, dry, swept, reports, todo, bytes, stamped, history>>

StartTool ==
    /\ Due("tool")
    /\ ~Blocked(Cleaners[Now])
    /\ pc' = "tool"
    /\ before' = IF Cleaners[Now].measured THEN store[Area] ELSE 0
    /\ UNCHANGED <<worldVars, dry, swept, reports, todo, bytes, stamped, history>>

\* n leaves area a by the hand of the cleaner at work.
Take(a, n) ==
    /\ store' = [store EXCEPT ![a] = @ - n]
    /\ free' = free + n
    /\ took' = [took EXCEPT ![Now] = @ + n]
    /\ UNCHANGED <<absent, running, others>>

\* Variant: an error ends the whole run.
RunTool_Aborts ==
    /\ pc = "tool"
    /\ \E n \in 0..store[Area] :
         /\ Take(Area, n)
         /\ \/ /\ pc' = "after"
               /\ UNCHANGED <<dry, swept, reports, before, todo, bytes, stamped, low>>
            \/ /\ pc' = "idle" /\ before' = 0
               /\ reports' = Append(reports, [name |-> Cleaners[Now].name,
                                              outcome |-> "error", bytes |-> 0])
               /\ UNCHANGED <<dry, swept, todo, bytes, stamped, low>>

\* The tool ends, having removed something, and tells success or failure.
RunTool ==
    /\ pc = "tool"
    /\ \E n \in 0..store[Area] :
         /\ Take(Area, n)
         /\ \/ /\ pc' = "after"
               /\ UNCHANGED <<dry, swept, reports, before, todo, bytes, stamped, low>>
            \/ Return("error", 0)

\* The tool cannot be started after all.
NoSpawn ==
    /\ pc = "tool"
    /\ Return("error", 0)
    /\ UNCHANGED <<worldVars, took>>

\* Variant: a plain subtraction.
Shrunk_Plain(a) == before - store[a]

\* before.saturating_sub(after)
Shrunk(a) == IF before > store[a] THEN before - store[a] ELSE 0

MeasureAfter ==
    /\ pc = "after"
    /\ Return("freed", IF Cleaners[Now].measured THEN Shrunk(Area) ELSE 0)
    /\ UNCHANGED <<worldVars, took>>

StartDirs ==
    /\ Due("dirs")
    /\ pc' = "dirs"
    /\ todo' = Cleaners[Now].areas
    /\ UNCHANGED <<worldVars, dry, swept, reports, before, bytes, stamped, history>>

\* Variant: a dry-run removes as well.
Prune_Always(a, n) == Take(a, n)

\* n of area a is old: it goes, unless this is a dry-run.
Prune(a, n) == IF dry THEN UNCHANGED <<worldVars, took>> ELSE Take(a, n)

\* prune_dir_by_age gets through an area.
PruneArea ==
    /\ pc = "dirs"
    /\ \E a \in todo : \E n \in 0..store[a] :
         /\ Prune(a, n)
         /\ todo' = todo \ {a}
         /\ bytes' = bytes + n
    /\ UNCHANGED <<pc, dry, swept, reports, before, stamped, low>>

\* An entry cannot be removed, or a directory not be read, after n has gone.
PruneFails ==
    /\ pc = "dirs"
    /\ \E a \in todo : \E n \in 0..store[a] : Prune(a, n)
    /\ Return("error", 0)

PruneEnds ==
    /\ pc = "dirs"
    /\ todo = {}
    /\ Return("freed", bytes)
    /\ UNCHANGED <<worldVars, took>>

\* All cleaners have had their turn; the stamp asks for a report without error.
End ==
    /\ pc = "next"
    /\ Len(reports) = Len(Cleaners)
    /\ pc' = "idle"
    /\ stamped' = (~dry /\ \E i \in DOMAIN reports : reports[i].outcome # "error")
    /\ UNCHANGED <<worldVars, dry, swept, reports, before, todo, bytes, history>>

Run ==
    \/ Survey \/ SkipTier \/ SkipTool \/ StartTool \/ RunTool \/ NoSpawn
    \/ MeasureAfter \/ StartDirs \/ PruneArea \/ PruneFails \/ PruneEnds \/ End

-----------------------------------------------------------------------------
(* Other programs and the user *)

Meddle ==
    IF pc = "idle" THEN UNCHANGED others ELSE others < MaxOthers /\ others' = others + 1

Fill ==
    /\ Meddle
    /\ \E a \in Areas : store[a] < MaxSize /\ store' = [store EXCEPT ![a] = @ + 1]
    /\ free > 0 /\ free' = free - 1
    /\ UNCHANGED <<absent, running, runVars, history>>

Empty ==
    /\ Meddle
    /\ \E a \in Areas : store[a] > 0 /\ store' = [store EXCEPT ![a] = @ - 1]
    /\ free' = free + 1
    /\ UNCHANGED <<absent, running, runVars, history>>

\* Install or remove a program.
Install ==
    /\ Meddle
    /\ absent' \in SUBSET Tools
    /\ UNCHANGED <<store, free, running, runVars, history>>

\* A guard process starts or ends.
Toggle ==
    /\ Meddle
    /\ running' \in SUBSET Guards
    /\ UNCHANGED <<store, free, absent, runVars, history>>

Next == Begin \/ Run \/ Fill \/ Empty \/ Install \/ Toggle

Spec == Init /\ [][Next]_vars

-----------------------------------------------------------------------------
(***************************************************************************)
(* A run gives every configured cleaner its turn, once and in order,       *)
(* however the ones before it ended: "a cleaner that errors logs and does  *)
(* not abort the others" (daemon/spec.md, safety model 7).                 *)
(***************************************************************************)
EveryoneReports ==
    pc = "idle" /\ reports # <<>> =>
      /\ Len(reports) = Len(Cleaners)
      /\ \A i \in DOMAIN Cleaners : reports[i].name = Cleaners[i].name

(***************************************************************************)
(* What disappears by the hand of a run, on whatever path and whether it   *)
(* is counted or not, goes in a real run and by a cleaner that was not     *)
(* skipped; the sweep tier only acts on a disk that really was below       *)
(* min_free_gb (execute's tiers, the early returns of ToolCleaner::run).   *)
(***************************************************************************)
TakesWhenDue ==
    \A i \in DOMAIN Cleaners :
      took[i] > 0 =>
        /\ ~dry
        /\ Cleaners[i].tier = "sweep" => low
        /\ i \in DOMAIN reports => reports[i].outcome # "skipped"

(***************************************************************************)
(* Where nobody else writes meanwhile, each report of a real run names     *)
(* what its cleaner removed, also where two of them empty the same area;   *)
(* a failed one and a tool that is not measured name nothing.              *)
(***************************************************************************)
CountsTaken ==
    others = 0 /\ ~dry =>
      \A i \in DOMAIN reports :
        reports[i].bytes =
          IF reports[i].outcome = "freed" /\ Cleaners[i].measured THEN took[i] ELSE 0

(***************************************************************************)
(* "Persist the timestamp only for real runs that were not a total         *)
(* failure" (runner.rs): where a cleaner failed, another has succeeded.    *)
(***************************************************************************)
StampedSuccess ==
    stamped /\ (\E i \in DOMAIN reports : reports[i].outcome = "error") =>
      \E i \in DOMAIN reports : reports[i].outcome = "freed"

(***************************************************************************)
(* A run is one cleaner's turn after the other, tools and directory        *)
(* cleaners alike (CleanerTurn, which Prune implements for the latter).    *)
(***************************************************************************)
Working == pc \in {"tool", "after", "dirs"}

Told ==
    LET last == reports[Len(reports)] IN
    IF Working \/ reports = <<>> \/ last.outcome = "skipped"
      THEN [outcome |-> "none", bytes |-> 0]
      ELSE [outcome |-> IF last.outcome = "freed" THEN "ok" ELSE "error", bytes |-> last.bytes]

Turn == INSTANCE CleanerTurn WITH
          working <- Working,
          real    <- Working /\ ~dry,
          exact   <- others = 0 /\ (Working => Cleaners[Now].measured),
          taken   <- IF Working THEN took[Now] ELSE 0,
          told    <- Told

TurnSpec == Turn!Spec

=============================================================================
