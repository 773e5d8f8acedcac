--------------------------- MODULE CleanRunProofs ---------------------------
(***************************************************************************)
(* Proofs about CleanRun, for any list of cleaners on any set of areas.    *)
(***************************************************************************)
EXTENDS CleanRun, TLAPS

\* Where the run is, and what the cleaner at work may do there.
Place ==
    /\ pc \in {"tool", "after"} => Cleaners[Now].kind = "tool" /\ ~dry
    /\ pc = "dirs" => Cleaners[Now].kind = "dirs"
    /\ pc \in {"tool", "after", "dirs"} => (Cleaners[Now].tier = "sweep" => swept)
    /\ swept => low
    /\ pc = "survey" => reports = <<>>
    /\ pc # "dirs" => bytes = 0

\* Who has not had its turn has taken nothing.
Untaken ==
    \A i \in DOMAIN Cleaners :
      i >= Now /\ took[i] # 0 => i = Now /\ pc \in {"after", "dirs"}

Named ==
    /\ \A i \in DOMAIN reports : reports[i].name = Cleaners[i].name
    /\ pc = "idle" /\ reports # <<>> => Len(reports) = Len(Cleaners)

\* What the cleaner at work will report.
Tally ==
    others = 0 /\ ~dry =>
      /\ pc \in {"tool", "after"} /\ Cleaners[Now].measured =>
           before = store[Area] + took[Now]
      /\ pc = "dirs" => bytes = took[Now]

-----------------------------------------------------------------------------

\* A run begins without reports.
LEMMA NoReports == <<>> \in Seq(Report) /\ Len(<<>>) = 0 /\ Len(<<>>) <= Len(Cleaners)
<1>1. Cleaners \in Seq(Cleaner)
  BY CleanerAssumption
<1> QED
  BY <1>1

\* A tool has one area.
LEMMA AreaOfTool ==
    ASSUME Now \in DOMAIN Cleaners, Cleaners[Now].kind = "tool"
    PROVE  Area \in Areas
BY CleanerAssumption DEF Area

\* What a report adds.
LEMMA ReturnAdds ==
    ASSUME RunOK, Now \in DOMAIN Cleaners, NEW n \in Nat,
           NEW outcome \in {"freed", "skipped", "error"}, Return(outcome, n)
    PROVE  /\ reports' \in Seq(Report) /\ Len(reports') = Now /\ Now <= Len(Cleaners)
           /\ DOMAIN reports' = 1..Now /\ DOMAIN reports = 1..(Now - 1)
           /\ Now \in Nat /\ Now' = Now + 1
           /\ \A i \in DOMAIN reports : reports'[i] = reports[i]
           /\ reports'[Now].name = Cleaners[Now].name
           /\ reports'[Now].outcome = outcome /\ reports'[Now].bytes = n
<1>1. [name |-> Cleaners[Now].name, outcome |-> outcome, bytes |-> n] \in Report
  BY DEF Report, Names
<1>2. reports \in Seq(Report) /\ Cleaners \in Seq(Cleaner)
  BY CleanerAssumption DEF RunOK
<1> QED
  BY <1>1, <1>2 DEF Return, Now

\* What a cleaner's removal of n changes.
LEMMA TakeMoves ==
    ASSUME WorldOK, Now \in DOMAIN Cleaners, NEW a \in Areas, NEW n \in 0..store[a],
           Take(a, n)
    PROVE  /\ WorldOK'
           /\ store'[a] = store[a] - n /\ took'[Now] = took[Now] + n
           /\ \A i \in DOMAIN Cleaners : i # Now => took'[i] = took[i]
           /\ UNCHANGED <<absent, running, others>>
<1>1. store[a] \in Nat /\ n \in Nat /\ took[Now] \in Nat
  BY DEF WorldOK
<1>2. store' \in [Areas -> Nat]
  BY <1>1 DEF WorldOK, Take
<1> QED
  BY <1>1, <1>2 DEF WorldOK, Take

\* After a report the run is between two cleaners.
LEMMA ReturnKeeps ==
    ASSUME RunOK, Place, Now \in DOMAIN Cleaners, NEW n \in Nat,
           NEW outcome \in {"freed", "skipped", "error"}, Return(outcome, n)
    PROVE  RunOK' /\ Place'
<1>1. reports' \in Seq(Report) /\ Len(reports') <= Len(Cleaners)
  BY ReturnAdds
<1>2. /\ pc' = "next" /\ before' = 0 /\ todo' = {} /\ bytes' = 0
      /\ UNCHANGED <<dry, swept, stamped, low>>
  BY DEF Return
<1> QED
  BY <1>1, <1>2 DEF RunOK, Place

\* A directory cleaner removes something, or in a dry-run does not.
LEMMA PruneMoves ==
    ASSUME WorldOK, Now \in DOMAIN Cleaners, NEW a \in Areas, NEW n \in 0..store[a],
           Prune(a, n)
    PROVE  /\ WorldOK' /\ others' = others
           /\ \A i \in DOMAIN Cleaners : i # Now => took'[i] = took[i]
           /\ IF dry THEN took' = took ELSE took'[Now] = took[Now] + n
<1>1. CASE dry
  BY <1>1 DEF Prune, worldVars, WorldOK
<1>2. CASE ~dry
  BY <1>2, TakeMoves DEF Prune
<1> QED
  BY <1>1, <1>2

\* Other programs leave the run where it is.
LEMMA WorldMoves ==
    ASSUME WorldOK, Fill \/ Empty \/ Install \/ Toggle
    PROVE  /\ WorldOK'
           /\ UNCHANGED <<pc, dry, swept, reports, before, todo, bytes, stamped, low, took>>
           /\ pc # "idle" => others' # 0
           /\ pc = "idle" => others' = others
<1>1. /\ others' \in Nat /\ (pc # "idle" => others' # 0) /\ (pc = "idle" => others' = others)
      /\ UNCHANGED <<pc, dry, swept, reports, before, todo, bytes, stamped, low, took>>
  BY DEF Fill, Empty, Install, Toggle, Meddle, WorldOK, runVars, history
<1>2. CASE Fill \/ Empty
  <2>1. PICK a \in Areas : \/ store[a] < MaxSize /\ store' = [store EXCEPT ![a] = @ + 1]
                           \/ store[a] > 0 /\ store' = [store EXCEPT ![a] = @ - 1]
    BY <1>2 DEF Fill, Empty
  <2>2. store[a] \in Nat
    BY DEF WorldOK
  <2>3. store' \in [Areas -> Nat]
    BY <2>1, <2>2 DEF WorldOK
  <2>4. free' \in Nat /\ UNCHANGED <<absent, running>>
    BY <1>2 DEF Fill, Empty, WorldOK
  <2> QED
    BY <1>1, <2>3, <2>4 DEF WorldOK
<1>3. CASE Install \/ Toggle
  BY <1>1, <1>3 DEF Install, Toggle, WorldOK
<1> QED
  BY <1>2, <1>3

(***************************************************************************)
(* Every variable keeps its type for any cleaners, areas and bounds: the   *)
(* counts of a run never go below zero, whoever else changes the disk.     *)
(***************************************************************************)
THEOREM TypeCorrect == Spec => [](TypeOK /\ Place)
<1>1. Init => TypeOK /\ Place
  <2> SUFFICES ASSUME Init PROVE TypeOK /\ Place
    OBVIOUS
  <2>1. WorldOK
    BY NumberAssumption DEF Init, WorldOK
  <2>2. RunOK /\ Place
    BY NoReports DEF Init, RunOK, Place
  <2> QED
    BY <2>1, <2>2 DEF TypeOK
<1>2. TypeOK /\ Place /\ [Next]_vars => (TypeOK /\ Place)'
  <2> SUFFICES ASSUME WorldOK, RunOK, Place, [Next]_vars PROVE WorldOK' /\ RunOK' /\ Place'
    BY DEF TypeOK
  <2> DEFINE Kept == WorldOK' /\ RunOK' /\ Place'
  <2>q. ASSUME UNCHANGED <<worldVars, took>> PROVE WorldOK'
    BY <2>q DEF worldVars, WorldOK
  <2>1. ASSUME Begin PROVE Kept
    <3>1. took' \in [DOMAIN Cleaners -> Nat] /\ others' = 0 /\ reports' = <<>>
      BY <2>1 DEF Begin
    <3>2. WorldOK'
      BY <2>1, <3>1 DEF Begin, WorldOK
    <3>3. RunOK' /\ Place'
      BY <2>1, <3>1, NoReports DEF Begin, RunOK, Place
    <3> QED
      BY <3>2, <3>3
  <2>2. ASSUME Survey PROVE Kept
    <3>1. WorldOK'
      BY <2>2, <2>q DEF Survey
    <3>2. low' \in BOOLEAN /\ (swept' = low' \/ swept' = FALSE)
      <4>1. low' = (free < MinFree) /\ swept' \in {low', FALSE}
        BY <2>2 DEF Survey
      <4>2. (free < MinFree) \in BOOLEAN
        OBVIOUS
      <4> QED
        BY <4>1, <4>2, Zenon
    <3>3. low' \in BOOLEAN /\ swept' \in BOOLEAN /\ (swept' => low')
      <4>1. CASE swept' = FALSE
        BY <3>2, <4>1
      <4>2. CASE swept' = low' /\ low' = TRUE
        BY <4>2
      <4>3. CASE swept' = low' /\ low' = FALSE
        BY <4>3
      <4> QED
        BY <3>2, <4>1, <4>2, <4>3
    <3>4. RunOK' /\ Place'
      BY <2>2, <3>3 DEF Survey, RunOK, Place
    <3> QED
      BY <3>1, <3>4
  <2>3. ASSUME SkipTier PROVE Kept
    BY <2>3, <2>q, ReturnKeeps DEF SkipTier
  <2>4. ASSUME SkipTool PROVE Kept
    BY <2>4, <2>q, ReturnKeeps DEF SkipTool, Due
  <2>5. ASSUME StartTool PROVE Kept
    <3>1. Now \in DOMAIN Cleaners /\ Area \in Areas
      BY <2>5, AreaOfTool DEF StartTool, Due
    <3>2. before' \in Nat
      BY <2>5, <3>1 DEF StartTool, WorldOK
    <3>3. WorldOK'
      BY <2>5 DEF StartTool, worldVars, history, WorldOK
    <3>4. RunOK' /\ Place'
      BY <2>5, <3>1, <3>2 DEF StartTool, Due, Blocked, history, RunOK, Place, Now
    <3> QED
      BY <3>3, <3>4
  <2>6. ASSUME RunTool PROVE Kept
    <3>1. pc = "tool" /\ Now \in DOMAIN Cleaners /\ Area \in Areas
      BY <2>6, AreaOfTool DEF RunTool, RunOK, Place
    <3>2. PICK n \in 0..store[Area] : Take(Area, n)
      BY <2>6 DEF RunTool
    <3>3. WorldOK'
      BY <3>1, <3>2, TakeMoves
    <3>4. CASE Return("error", 0)
      BY <3>1, <3>3, <3>4, ReturnKeeps
    <3>5. CASE pc' = "after" /\ UNCHANGED <<dry, swept, reports, before, todo, bytes, stamped, low>>
      BY <3>1, <3>3, <3>5 DEF RunOK, Place, Now
    <3> QED
      BY <2>6, <3>4, <3>5 DEF RunTool
  <2>7. ASSUME NoSpawn PROVE Kept
    BY <2>7, <2>q, ReturnKeeps DEF NoSpawn, RunOK
  <2>8. ASSUME MeasureAfter PROVE Kept
    <3>1. Now \in DOMAIN Cleaners /\ Area \in Areas
      BY <2>8, AreaOfTool DEF MeasureAfter, RunOK, Place
    <3>2. Shrunk(Area) \in Nat
      BY <3>1 DEF Shrunk, WorldOK, RunOK
    <3>3. PICK n \in Nat : Return("freed", n)
      BY <2>8, <3>2 DEF MeasureAfter
    <3> QED
      BY <2>8, <2>q, <3>1, <3>3, ReturnKeeps DEF MeasureAfter
  <2>9. ASSUME StartDirs PROVE Kept
    <3>1. Now \in DOMAIN Cleaners /\ Cleaners[Now] \in Cleaner
      BY <2>9, CleanerAssumption DEF StartDirs, Due
    <3>2. todo' \subseteq Areas
      BY <2>9, <3>1 DEF StartDirs, Cleaner
    <3>3. WorldOK'
      BY <2>9 DEF StartDirs, worldVars, history, WorldOK
    <3>4. RunOK' /\ Place'
      BY <2>9, <3>1, <3>2 DEF StartDirs, Due, history, RunOK, Place, Now
    <3> QED
      BY <3>3, <3>4
  <2>10. ASSUME PruneArea PROVE Kept
    <3>1. pc = "dirs" /\ Now \in DOMAIN Cleaners
      BY <2>10 DEF PruneArea, RunOK
    <3>2. PICK a \in Areas : \E n \in 0..store[a] : Prune(a, n) /\ todo' = todo \ {a}
                                                   /\ bytes' = bytes + n
      BY <2>10 DEF PruneArea, RunOK
    <3>3. PICK n \in 0..store[a] : Prune(a, n) /\ todo' = todo \ {a} /\ bytes' = bytes + n
      BY <3>2
    <3>4. bytes' \in Nat
      BY <3>3 DEF WorldOK, RunOK
    <3>5. RunOK' /\ Place'
      BY <2>10, <3>1, <3>3, <3>4 DEF PruneArea, RunOK, Place, Now
    <3> QED
      BY <3>1, <3>3, <3>5, PruneMoves
  <2>11. ASSUME PruneFails PROVE Kept
    <3>1. Return("error", 0) /\ Now \in DOMAIN Cleaners
      BY <2>11 DEF PruneFails, RunOK
    <3>2. PICK a \in Areas : \E n \in 0..store[a] : Prune(a, n)
      BY <2>11 DEF PruneFails, RunOK
    <3> QED
      BY <3>1, <3>2, PruneMoves, ReturnKeeps
  <2>12. ASSUME PruneEnds PROVE Kept
    BY <2>12, <2>q, ReturnKeeps DEF PruneEnds, RunOK
  <2>13. ASSUME End PROVE Kept
    <3>1. WorldOK'
      BY <2>13 DEF End, worldVars, history, WorldOK
    <3>2. stamped' \in BOOLEAN
      BY <2>13 DEF End
    <3> QED
      BY <2>13, <3>1, <3>2 DEF End, history, RunOK, Place, Now
  <2>14. ASSUME Fill \/ Empty \/ Install \/ Toggle PROVE Kept
    BY <2>14, WorldMoves DEF RunOK, Place, Now
  <2>15. ASSUME UNCHANGED vars PROVE Kept
    BY <2>15 DEF vars, worldVars, runVars, history, WorldOK, RunOK, Place, Now
  <2> QED
    BY <2>1, <2>2, <2>3, <2>4, <2>5, <2>6, <2>7, <2>8, <2>9, <2>10, <2>11, <2>12, <2>13,
       <2>14, <2>15 DEF Next, Run
<1> QED
  BY <1>1, <1>2, PTL DEF Spec

-----------------------------------------------------------------------------

\* A report carries the name of the cleaner whose turn it was.
LEMMA ReturnNames ==
    ASSUME RunOK, Named, Now \in DOMAIN Cleaners, NEW n \in Nat,
           NEW outcome \in {"freed", "skipped", "error"}, Return(outcome, n)
    PROVE  Named'
<1>1. pc' = "next"
  BY DEF Return
<1>b. /\ DOMAIN reports' = 1..Now /\ DOMAIN reports = 1..(Now - 1)
      /\ Now \in Nat /\ Now' = Now + 1
      /\ \A i \in DOMAIN reports : reports'[i] = reports[i]
  BY ReturnAdds
<1>2. ASSUME NEW i \in DOMAIN reports' PROVE reports'[i].name = Cleaners[i].name
  <2>1. CASE i = Now
    BY <2>1, ReturnAdds
  <2>2. CASE i # Now
    <3>1. i \in DOMAIN reports
      BY <1>2, <2>2, <1>b
    <3> QED
      BY <3>1, <1>b DEF Named
  <2> QED
    BY <2>1, <2>2
<1> QED
  BY <1>1, <1>2 DEF Named

\* The reports of a run are those of the cleaners, in order.
LEMMA NamedHolds == Spec => []Named
<1>1. Init => Named
  BY DEF Init, Named
<1>2. TypeOK /\ Place /\ Named /\ [Next]_vars => Named'
  <2> SUFFICES ASSUME WorldOK, RunOK, Place, Named, [Next]_vars PROVE Named'
    BY DEF TypeOK
  <2>1. ASSUME Begin PROVE Named'
    BY <2>1 DEF Begin, Named
  <2>2. ASSUME Survey \/ StartTool \/ StartDirs \/ PruneArea PROVE Named'
    BY <2>2 DEF Survey, StartTool, StartDirs, PruneArea, Named
  <2>3. ASSUME SkipTier \/ SkipTool \/ NoSpawn \/ PruneFails \/ PruneEnds PROVE Named'
    BY <2>3, ReturnNames DEF SkipTier, SkipTool, Due, NoSpawn, PruneFails, PruneEnds, RunOK
  <2>4. ASSUME MeasureAfter PROVE Named'
    <3>1. Now \in DOMAIN Cleaners /\ Area \in Areas
      BY <2>4, AreaOfTool DEF MeasureAfter, RunOK, Place
    <3>2. Shrunk(Area) \in Nat
      BY <3>1 DEF Shrunk, WorldOK, RunOK
    <3>3. PICK n \in Nat : Return("freed", n)
      BY <2>4, <3>2 DEF MeasureAfter
    <3> QED
      BY <3>1, <3>3, ReturnNames
  <2>5. ASSUME RunTool PROVE Named'
    <3>1. CASE Return("error", 0)
      BY <2>5, <3>1, ReturnNames DEF RunTool, RunOK
    <3>2. CASE pc' = "after" /\ UNCHANGED reports
      BY <3>2 DEF Named
    <3> QED
      BY <2>5, <3>1, <3>2 DEF RunTool
  <2>6. ASSUME End PROVE Named'
    BY <2>6 DEF End, Named
  <2>7. ASSUME Fill \/ Empty \/ Install \/ Toggle PROVE Named'
    BY <2>7, WorldMoves DEF Named
  <2>8. ASSUME UNCHANGED vars PROVE Named'
    BY <2>8 DEF vars, runVars, Named
  <2> QED
    BY <2>1, <2>2, <2>3, <2>4, <2>5, <2>6, <2>7, <2>8 DEF Next, Run
<1> QED
  BY <1>1, <1>2, TypeCorrect, PTL DEF Spec

(***************************************************************************)
(* A run gives every cleaner of any configuration its turn, once and in    *)
(* order, whichever of them fail, are missing or are not due.              *)
(***************************************************************************)
THEOREM EveryoneReportsHolds == Spec => []EveryoneReports
<1>1. TypeOK /\ Named => EveryoneReports
  <2> SUFFICES ASSUME RunOK, Named, pc = "idle", reports # <<>>
               PROVE  /\ Len(reports) = Len(Cleaners)
                      /\ \A i \in DOMAIN Cleaners : reports[i].name = Cleaners[i].name
    BY DEF TypeOK, EveryoneReports
  <2>1. reports \in Seq(Report) /\ Cleaners \in Seq(Cleaner)
    BY CleanerAssumption DEF RunOK
  <2>2. Len(reports) = Len(Cleaners)
    BY DEF Named
  <2>3. DOMAIN reports = DOMAIN Cleaners
    BY <2>1, <2>2
  <2> QED
    BY <2>2, <2>3 DEF Named
<1> QED
  BY <1>1, TypeCorrect, NamedHolds, PTL

-----------------------------------------------------------------------------

\* The inductive form of TakesWhenDue.
DueInv == Untaken /\ TakesWhenDue

\* A cleaner that was skipped took nothing, and the next one has not begun.
LEMMA ReturnDue ==
    ASSUME RunOK, WorldOK, DueInv, Now \in DOMAIN Cleaners, NEW n \in Nat,
           NEW outcome \in {"freed", "skipped", "error"}, Return(outcome, n),
           took' \in [DOMAIN Cleaners -> Nat],
           \A i \in DOMAIN Cleaners : i # Now => took'[i] = took[i],
           took'[Now] # 0 =>
             outcome # "skipped" /\ ~dry /\ (Cleaners[Now].tier = "sweep" => low)
    PROVE  DueInv'
<1>1. pc' = "next" /\ dry' = dry /\ low' = low
  BY DEF Return
<1>2. /\ DOMAIN reports' = 1..Now /\ DOMAIN reports = 1..(Now - 1)
      /\ Now \in Nat /\ Now' = Now + 1
      /\ \A i \in DOMAIN reports : reports'[i] = reports[i]
      /\ reports'[Now].outcome = outcome
  BY ReturnAdds
<1>3. DOMAIN Cleaners \subseteq Nat
  <2>1. Cleaners \in Seq(Cleaner)
    BY CleanerAssumption
  <2> QED
    BY <2>1
<1>4. Untaken'
  BY <1>1, <1>2, <1>3 DEF DueInv, Untaken
<1>5. ASSUME NEW i \in DOMAIN Cleaners, took'[i] > 0
      PROVE  /\ ~dry' /\ (Cleaners[i].tier = "sweep" => low')
             /\ i \in DOMAIN reports' => reports'[i].outcome # "skipped"
  <2>1. CASE i = Now
    BY <1>1, <1>2, <1>5, <2>1
  <2>2. CASE i # Now
    <3>1. took[i] > 0 /\ i \in Nat
      BY <1>3, <1>5, <2>2
    <3>2. i \in DOMAIN reports' => i \in DOMAIN reports /\ reports'[i] = reports[i]
      BY <1>2, <2>2
    <3> QED
      BY <1>1, <3>1, <3>2 DEF DueInv, TakesWhenDue
  <2> QED
    BY <2>1, <2>2
<1> QED
  BY <1>4, <1>5 DEF DueInv, TakesWhenDue

\* Positions begin with one.
LEMMA FirstIsOne == \A i \in DOMAIN Cleaners : i \in Nat /\ i >= 1
<1>1. Cleaners \in Seq(Cleaner)
  BY CleanerAssumption
<1> QED
  BY <1>1

\* Before it acts a cleaner has taken nothing.
LEMMA OwnTurn ==
    ASSUME WorldOK, RunOK, DueInv, Now \in DOMAIN Cleaners, pc \in {"next", "tool"}
    PROVE  took[Now] = 0
<1>1. Now \in Nat
  BY FirstIsOne
<1> QED
  BY <1>1 DEF DueInv, Untaken

\* While it acts only its own entry of took changes, and no report is there.
LEMMA DuringTurn ==
    ASSUME RunOK, DueInv, Now \in DOMAIN Cleaners, pc \in {"tool", "dirs"},
           pc' \in {"after", "dirs"}, UNCHANGED <<dry, reports, low>>,
           took' \in [DOMAIN Cleaners -> Nat],
           \A i \in DOMAIN Cleaners : i # Now => took'[i] = took[i],
           dry => took' = took, Cleaners[Now].tier = "sweep" => low
    PROVE  DueInv'
<1>1. Now' = Now
  BY DEF Now
<1>2. Now \notin DOMAIN reports
  BY DEF RunOK, Now
<1>3. Untaken'
  BY <1>1 DEF DueInv, Untaken
<1>4. ASSUME NEW i \in DOMAIN Cleaners, took'[i] > 0
      PROVE  /\ ~dry' /\ (Cleaners[i].tier = "sweep" => low')
             /\ i \in DOMAIN reports' => reports'[i].outcome # "skipped"
  <2>1. CASE i = Now
    BY <1>2, <1>4, <2>1 DEF DueInv, TakesWhenDue
  <2>2. CASE i # Now
    BY <1>4, <2>2 DEF DueInv, TakesWhenDue
  <2> QED
    BY <2>1, <2>2
<1> QED
  BY <1>3, <1>4 DEF DueInv, TakesWhenDue

\* The inductive form is an invariant.
LEMMA DueHolds == Spec => []DueInv
<1>1. Init => DueInv
  BY DEF Init, DueInv, Untaken, TakesWhenDue
<1>2. TypeOK /\ Place /\ DueInv /\ [Next]_vars => DueInv'
  <2> SUFFICES ASSUME WorldOK, RunOK, Place, DueInv, [Next]_vars PROVE DueInv'
    BY DEF TypeOK
  <2>w. took \in [DOMAIN Cleaners -> Nat]
    BY DEF WorldOK
  <2>1. ASSUME Begin PROVE DueInv'
    <3>1. \A i \in DOMAIN Cleaners : took'[i] = 0
      BY <2>1 DEF Begin
    <3> QED
      BY <3>1 DEF DueInv, Untaken, TakesWhenDue
  <2>2. ASSUME Survey PROVE DueInv'
    <3>1. Now = 1 /\ Now' = 1 /\ took' = took /\ pc = "survey"
      BY <2>2, NoReports DEF Survey, Place, Now
    <3>2. \A i \in DOMAIN Cleaners : took[i] = 0 /\ took'[i] = 0
      BY <2>w, <3>1, FirstIsOne DEF DueInv, Untaken
    <3> QED
      BY <3>2 DEF DueInv, Untaken, TakesWhenDue
  <2>3. ASSUME SkipTier \/ SkipTool \/ NoSpawn PROVE DueInv'
    <3>1. /\ Now \in DOMAIN Cleaners /\ took' = took /\ pc \in {"next", "tool"}
          /\ Return("skipped", 0) \/ Return("error", 0)
      BY <2>3 DEF SkipTier, SkipTool, Due, NoSpawn, RunOK
    <3>2. took'[Now] = 0
      BY <2>w, <3>1, OwnTurn
    <3> QED
      BY <2>w, <3>1, <3>2, ReturnDue
  <2>4. ASSUME StartTool \/ StartDirs PROVE DueInv'
    <3>1. UNCHANGED <<reports, dry, low, took>> /\ pc = "next"
      BY <2>4 DEF StartTool, StartDirs, Due, history
    <3> QED
      BY <3>1 DEF DueInv, Untaken, TakesWhenDue, Now
  <2>5. ASSUME RunTool PROVE DueInv'
    <3>1. /\ pc = "tool" /\ Now \in DOMAIN Cleaners /\ Area \in Areas /\ ~dry
          /\ Cleaners[Now].tier = "sweep" => low
      BY <2>5, AreaOfTool DEF RunTool, RunOK, Place
    <3>2. PICK n \in 0..store[Area] : Take(Area, n)
      BY <2>5 DEF RunTool
    <3>3. /\ took' \in [DOMAIN Cleaners -> Nat]
          /\ \A i \in DOMAIN Cleaners : i # Now => took'[i] = took[i]
      BY <3>1, <3>2, TakeMoves DEF WorldOK
    <3>4. CASE Return("error", 0)
      BY <3>1, <3>3, <3>4, ReturnDue
    <3>5. CASE pc' = "after" /\ UNCHANGED <<dry, swept, reports, before, todo, bytes, stamped, low>>
      BY <3>1, <3>3, <3>5, DuringTurn
    <3> QED
      BY <2>5, <3>4, <3>5 DEF RunTool
  <2>6. ASSUME MeasureAfter PROVE DueInv'
    <3>1. /\ Now \in DOMAIN Cleaners /\ Area \in Areas /\ took' = took /\ ~dry
          /\ Cleaners[Now].tier = "sweep" => low
      BY <2>6, AreaOfTool DEF MeasureAfter, RunOK, Place
    <3>2. Shrunk(Area) \in Nat
      BY <3>1 DEF Shrunk, WorldOK, RunOK
    <3>3. PICK n \in Nat : Return("freed", n)
      BY <2>6, <3>2 DEF MeasureAfter
    <3> QED
      BY <2>w, <3>1, <3>3, ReturnDue
  <2>7. ASSUME PruneArea PROVE DueInv'
    <3>1. /\ pc = "dirs" /\ Now \in DOMAIN Cleaners
          /\ Cleaners[Now].tier = "sweep" => low
      BY <2>7 DEF PruneArea, RunOK, Place
    <3>2. PICK a \in Areas : \E n \in 0..store[a] : Prune(a, n)
      BY <2>7 DEF PruneArea, RunOK
    <3>3. /\ took' \in [DOMAIN Cleaners -> Nat]
          /\ \A i \in DOMAIN Cleaners : i # Now => took'[i] = took[i]
          /\ dry => took' = took
      BY <3>1, <3>2, PruneMoves DEF WorldOK
    <3>4. UNCHANGED <<pc, dry, swept, reports, low>>
      BY <2>7 DEF PruneArea
    <3> QED
      BY <3>1, <3>3, <3>4, DuringTurn
  <2>8. ASSUME PruneFails PROVE DueInv'
    <3>1. /\ pc = "dirs" /\ Now \in DOMAIN Cleaners /\ Return("error", 0)
          /\ Cleaners[Now].tier = "sweep" => low
      BY <2>8 DEF PruneFails, RunOK, Place
    <3>2. PICK a \in Areas : \E n \in 0..store[a] : Prune(a, n)
      BY <2>8 DEF PruneFails, RunOK
    <3>3. /\ took' \in [DOMAIN Cleaners -> Nat]
          /\ \A i \in DOMAIN Cleaners : i # Now => took'[i] = took[i]
          /\ dry => took' = took
      BY <3>1, <3>2, PruneMoves DEF WorldOK
    <3>4. took'[Now] # 0 => ~dry
      BY <2>w, <3>1, <3>3 DEF DueInv, TakesWhenDue
    <3> QED
      BY <3>1, <3>3, <3>4, ReturnDue
  <2>9. ASSUME PruneEnds PROVE DueInv'
    <3>1. /\ pc = "dirs" /\ Now \in DOMAIN Cleaners /\ Return("freed", bytes)
          /\ took' = took /\ bytes \in Nat /\ (Cleaners[Now].tier = "sweep" => low)
      BY <2>9 DEF PruneEnds, RunOK, Place
    <3>2. took'[Now] # 0 => ~dry
      BY <2>w, <3>1 DEF DueInv, TakesWhenDue
    <3> QED
      BY <2>w, <3>1, <3>2, ReturnDue
  <2>10. ASSUME End PROVE DueInv'
    <3>1. pc = "next" /\ UNCHANGED <<reports, dry, low, took>>
      BY <2>10 DEF End, history
    <3> QED
      BY <3>1 DEF DueInv, Untaken, TakesWhenDue, Now
  <2>11. ASSUME Fill \/ Empty \/ Install \/ Toggle PROVE DueInv'
    BY <2>11, WorldMoves DEF DueInv, Untaken, TakesWhenDue, Now
  <2>12. ASSUME UNCHANGED vars PROVE DueInv'
    BY <2>12 DEF vars, runVars, history, DueInv, Untaken, TakesWhenDue, Now
  <2> QED
    BY <2>1, <2>2, <2>3, <2>4, <2>5, <2>6, <2>7, <2>8, <2>9, <2>10, <2>11, <2>12
    DEF Next, Run
<1> QED
  BY <1>1, <1>2, TypeCorrect, PTL DEF Spec

(***************************************************************************)
(* For any configuration, failures and interference, what a run removes    *)
(* goes in a real run, by a cleaner that was not skipped, and in the sweep *)
(* tier only from a disk that was below min_free_gb.                       *)
(***************************************************************************)
THEOREM TakesWhenDueHolds == Spec => []TakesWhenDue
<1>1. Spec => []DueInv
  BY DueHolds
<1>2. DueInv => TakesWhenDue
  BY DEF DueInv
<1> QED
  BY <1>1, <1>2, PTL

-----------------------------------------------------------------------------

\* The inductive form of CountsTaken.
CountInv == Tally /\ CountsTaken

\* A report that is right about its cleaner leaves all reports right.
LEMMA ReturnCounts ==
    ASSUME RunOK, CountsTaken, Now \in DOMAIN Cleaners, NEW n \in Nat,
           NEW outcome \in {"freed", "skipped", "error"}, Return(outcome, n),
           others' = others,
           \A i \in DOMAIN Cleaners : i # Now => took'[i] = took[i],
           others = 0 /\ ~dry =>
             n = IF outcome = "freed" /\ Cleaners[Now].measured THEN took'[Now] ELSE 0
    PROVE  CountInv'
<1>1. pc' = "next" /\ dry' = dry
  BY DEF Return
<1>2. /\ DOMAIN reports' = 1..Now /\ DOMAIN reports = 1..(Now - 1)
      /\ Now \in Nat /\ Now <= Len(Cleaners)
      /\ \A i \in DOMAIN reports : reports'[i] = reports[i]
      /\ reports'[Now].outcome = outcome /\ reports'[Now].bytes = n
  BY ReturnAdds
<1>3. \A i \in DOMAIN reports : i \in DOMAIN Cleaners /\ i # Now
  <2>1. Cleaners \in Seq(Cleaner)
    BY CleanerAssumption
  <2> QED
    BY <1>2, <2>1
<1>4. ASSUME others' = 0, ~dry', NEW i \in DOMAIN reports'
      PROVE  reports'[i].bytes =
               IF reports'[i].outcome = "freed" /\ Cleaners[i].measured THEN took'[i] ELSE 0
  <2>1. CASE i = Now
    BY <1>1, <1>2, <1>4, <2>1
  <2>2. CASE i # Now
    <3>1. i \in DOMAIN reports
      BY <1>2, <2>2
    <3> QED
      BY <1>1, <1>2, <1>3, <1>4, <3>1 DEF CountsTaken
  <2> QED
    BY <2>1, <2>2
<1> QED
  BY <1>1, <1>4 DEF CountInv, Tally, CountsTaken

\* While the cleaner acts the reports of the others stay right.
LEMMA DuringCount ==
    ASSUME RunOK, CountsTaken, UNCHANGED <<dry, reports, others>>,
           \A i \in DOMAIN Cleaners : i # Now => took'[i] = took[i]
    PROVE  CountsTaken'
<1>1. \A i \in DOMAIN reports : i \in DOMAIN Cleaners /\ i # Now
  <2>1. Cleaners \in Seq(Cleaner) /\ reports \in Seq(Report) /\ Len(reports) <= Len(Cleaners)
    BY CleanerAssumption DEF RunOK
  <2> QED
    BY <2>1 DEF Now
<1> QED
  BY <1>1 DEF CountsTaken

\* The inductive form is an invariant.
LEMMA CountHolds == Spec => []CountInv
<1>1. Init => CountInv
  BY DEF Init, CountInv, Tally, CountsTaken
<1>2. TypeOK /\ Place /\ DueInv /\ CountInv /\ [Next]_vars => CountInv'
  <2> SUFFICES ASSUME WorldOK, RunOK, Place, DueInv, Tally, CountsTaken, [Next]_vars
               PROVE  CountInv'
    BY DEF TypeOK, CountInv
  <2>1. ASSUME Begin PROVE CountInv'
    BY <2>1, NoReports DEF Begin, CountInv, Tally, CountsTaken
  <2>2. ASSUME Survey PROVE CountInv'
    BY <2>2 DEF Survey, worldVars, CountInv, Tally, CountsTaken
  <2>3. ASSUME SkipTier \/ SkipTool \/ NoSpawn PROVE CountInv'
    <3>1. /\ Now \in DOMAIN Cleaners /\ UNCHANGED <<others, took>>
          /\ Return("skipped", 0) \/ Return("error", 0)
      BY <2>3 DEF SkipTier, SkipTool, Due, NoSpawn, RunOK, worldVars
    <3> QED
      BY <3>1, ReturnCounts
  <2>4. ASSUME StartTool PROVE CountInv'
    <3>1. /\ Now \in DOMAIN Cleaners /\ Area \in Areas /\ pc = "next"
          /\ UNCHANGED <<store, others, dry, reports, took>>
      BY <2>4, AreaOfTool DEF StartTool, Due, worldVars, history
    <3>2. Now' = Now /\ Area' = Area
      BY <3>1 DEF Now, Area
    <3>3. took[Now] = 0 /\ store[Area] \in Nat
      BY <3>1, OwnTurn DEF WorldOK
    <3>4. pc' = "tool" /\ (Cleaners[Now].measured => before' = store[Area])
      BY <2>4 DEF StartTool
    <3>5. Tally'
      BY <3>1, <3>2, <3>3, <3>4 DEF Tally
    <3> QED
      BY <3>1, <3>5 DEF CountInv, CountsTaken
  <2>5. ASSUME RunTool PROVE CountInv'
    <3>1. pc = "tool" /\ Now \in DOMAIN Cleaners /\ Area \in Areas
      BY <2>5, AreaOfTool DEF RunTool, RunOK, Place
    <3>2. PICK n \in 0..store[Area] : Take(Area, n)
      BY <2>5 DEF RunTool
    <3>3. /\ store'[Area] = store[Area] - n /\ took'[Now] = took[Now] + n
          /\ \A i \in DOMAIN Cleaners : i # Now => took'[i] = took[i]
          /\ others' = others /\ n \in Nat /\ store[Area] \in Nat /\ took[Now] \in Nat
      BY <3>1, <3>2, TakeMoves DEF WorldOK
    <3>4. CASE Return("error", 0)
      BY <3>1, <3>3, <3>4, ReturnCounts
    <3>5. CASE pc' = "after" /\ UNCHANGED <<dry, swept, reports, before, todo, bytes, stamped, low>>
      <4>1. Now' = Now /\ Area' = Area
        BY <3>5 DEF Now, Area
      <4>2. Tally'
        BY <3>1, <3>3, <3>5, <4>1 DEF Tally
      <4> QED
        BY <3>3, <3>5, <4>2, DuringCount DEF CountInv
    <3> QED
      BY <2>5, <3>4, <3>5 DEF RunTool
  <2>6. ASSUME MeasureAfter PROVE CountInv'
    <3>1. /\ Now \in DOMAIN Cleaners /\ Area \in Areas /\ UNCHANGED <<took, others>>
          /\ pc = "after"
      BY <2>6, AreaOfTool DEF MeasureAfter, RunOK, Place, worldVars
    <3>2. store[Area] \in Nat /\ before \in Nat /\ took[Now] \in Nat
      BY <3>1 DEF WorldOK, RunOK
    <3>3. CASE Cleaners[Now].measured
      <4>1. Return("freed", Shrunk(Area)) /\ Shrunk(Area) \in Nat
        BY <2>6, <3>2, <3>3 DEF MeasureAfter, Shrunk
      <4>2. others = 0 /\ ~dry => Shrunk(Area) = took[Now]
        BY <3>1, <3>2, <3>3 DEF Shrunk, Tally
      <4> QED
        BY <3>1, <3>3, <4>1, <4>2, ReturnCounts
    <3>4. CASE ~Cleaners[Now].measured
      <4>1. Return("freed", 0)
        BY <2>6, <3>4 DEF MeasureAfter
      <4> QED
        BY <3>1, <3>4, <4>1, ReturnCounts
    <3> QED
      BY <3>3, <3>4
  <2>7. ASSUME StartDirs PROVE CountInv'
    <3>1. /\ Now \in DOMAIN Cleaners /\ pc = "next" /\ pc' = "dirs"
          /\ UNCHANGED <<others, dry, reports, took, bytes>>
      BY <2>7 DEF StartDirs, Due, worldVars, history
    <3>2. Now' = Now /\ bytes = 0 /\ took[Now] = 0
      BY <3>1, OwnTurn DEF Now, Place
    <3>3. Tally'
      BY <3>1, <3>2 DEF Tally
    <3> QED
      BY <3>1, <3>3 DEF CountInv, CountsTaken
  <2>8. ASSUME PruneArea PROVE CountInv'
    <3>1. /\ pc = "dirs" /\ Now \in DOMAIN Cleaners
          /\ UNCHANGED <<pc, dry, reports>> /\ Now' = Now
      BY <2>8 DEF PruneArea, RunOK, Now
    <3>2. PICK a \in Areas : \E n \in 0..store[a] : Prune(a, n) /\ bytes' = bytes + n
      BY <2>8 DEF PruneArea, RunOK
    <3>3. PICK n \in 0..store[a] : Prune(a, n) /\ bytes' = bytes + n
      BY <3>2
    <3>4. /\ others' = others
          /\ \A i \in DOMAIN Cleaners : i # Now => took'[i] = took[i]
          /\ ~dry => took'[Now] = took[Now] + n
      BY <3>1, <3>3, PruneMoves
    <3>5. Tally'
      BY <3>1, <3>3, <3>4 DEF Tally
    <3> QED
      BY <3>1, <3>4, <3>5, DuringCount DEF CountInv
  <2>9. ASSUME PruneFails PROVE CountInv'
    <3>1. pc = "dirs" /\ Now \in DOMAIN Cleaners /\ Return("error", 0)
      BY <2>9 DEF PruneFails, RunOK
    <3>2. PICK a \in Areas : \E n \in 0..store[a] : Prune(a, n)
      BY <2>9 DEF PruneFails, RunOK
    <3>3. /\ others' = others
          /\ \A i \in DOMAIN Cleaners : i # Now => took'[i] = took[i]
      BY <3>1, <3>2, PruneMoves
    <3> QED
      BY <3>1, <3>3, ReturnCounts
  <2>10. ASSUME PruneEnds PROVE CountInv'
    <3>1. /\ pc = "dirs" /\ Now \in DOMAIN Cleaners /\ Return("freed", bytes)
          /\ UNCHANGED <<took, others>> /\ bytes \in Nat
      BY <2>10 DEF PruneEnds, RunOK, worldVars
    <3>2. Cleaners[Now].measured
      BY <3>1, CleanerAssumption DEF Place
    <3>3. others = 0 /\ ~dry => bytes = took'[Now]
      BY <3>1 DEF Tally
    <3> QED
      BY <3>1, <3>2, <3>3, ReturnCounts
  <2>11. ASSUME End PROVE CountInv'
    BY <2>11 DEF End, worldVars, history, CountInv, Tally, CountsTaken
  <2>12. ASSUME Fill \/ Empty \/ Install \/ Toggle PROVE CountInv'
    BY <2>12, WorldMoves DEF CountInv, Tally, CountsTaken
  <2>13. ASSUME UNCHANGED vars PROVE CountInv'
    BY <2>13 DEF vars, worldVars, runVars, history, CountInv, Tally, CountsTaken, Now, Area
  <2> QED
    BY <2>1, <2>2, <2>3, <2>4, <2>5, <2>6, <2>7, <2>8, <2>9, <2>10, <2>11, <2>12, <2>13
    DEF Next, Run
<1> QED
  BY <1>1, <1>2, TypeCorrect, DueHolds, PTL DEF Spec

(***************************************************************************)
(* For any configuration and any failures, each report of a real run names *)
(* what its cleaner removed, as long as nobody else changes the disk.      *)
(***************************************************************************)
THEOREM CountsTakenHolds == Spec => []CountsTaken
<1>1. CountInv => CountsTaken
  BY DEF CountInv
<1> QED
  BY <1>1, CountHolds, PTL

-----------------------------------------------------------------------------

\* What the turn's end is told of a report.
LEMMA ReturnTells ==
    ASSUME RunOK, Now \in DOMAIN Cleaners, NEW n \in Nat,
           NEW outcome \in {"freed", "skipped", "error"}, Return(outcome, n)
    PROVE  /\ ~Working'
           /\ Told' = IF outcome = "skipped" THEN Turn!NoReport
                      ELSE IF outcome = "freed" THEN Turn!Success(n)
                      ELSE [outcome |-> "error", bytes |-> n]
<1>1. ~Working' /\ reports' # <<>>
  BY DEF Return, Working
<1>2. /\ Len(reports') = Now /\ reports'[Now].outcome = outcome /\ reports'[Now].bytes = n
  BY ReturnAdds
<1> QED
  BY <1>1, <1>2 DEF Told, Turn!NoReport, Turn!Success

\* A cleaner that was at work ends its turn, exact where it can be.
LEMMA ReturnEnds ==
    ASSUME RunOK, Working, Now \in DOMAIN Cleaners, NEW n \in Nat,
           NEW outcome \in {"freed", "error"}, Return(outcome, n),
           outcome = "error" => n = 0,
           outcome = "freed" /\ others = 0 /\ ~dry /\ Cleaners[Now].measured => n = took[Now]
    PROVE  Turn!Next
<1>1. /\ ~Working'
      /\ Told' = IF outcome = "freed" THEN Turn!Success(n) ELSE [outcome |-> "error", bytes |-> n]
  BY ReturnTells
<1>2. CASE outcome = "error"
  <2>1. Turn!End
    BY <1>1, <1>2 DEF Turn!End, Turn!Resting, Turn!Failure
  <2> QED
    BY <2>1 DEF Turn!Next
<1>3. CASE outcome = "freed"
  <2>1. Told' = Turn!Success(n) /\ Told'.bytes = n
    BY <1>1, <1>3 DEF Turn!Success
  <2>2. Turn!End
    BY <1>1, <1>3, <2>1 DEF Turn!End, Turn!Resting
  <2> QED
    BY <2>2 DEF Turn!Next
<1> QED
  BY <1>2, <1>3

\* Between two turns the last report is kept or there is none.
LEMMA StillResting ==
    ASSUME ~Working, ~Working', Told' = Told \/ Told' = Turn!NoReport
    PROVE  Turn!Next
<1>1. Turn!Rest
  BY DEF Turn!Rest, Turn!Resting
<1> QED
  BY <1>1 DEF Turn!Next

\* What a cleaner removes during its turn.
LEMMA TurnTakes ==
    ASSUME WorldOK, Now \in DOMAIN Cleaners, Working, Working', ~dry, ~dry',
           reports' = reports, others' = others, NEW n \in Nat,
           took'[Now] = took[Now] + n
    PROVE  [Turn!Next]_(Turn!vars)
<1>1. Now' = Now /\ Told' = Told /\ took[Now] \in Nat
  BY DEF Now, Told, WorldOK
<1>2. CASE n = 0
  BY <1>1, <1>2 DEF Turn!vars
<1>3. CASE n # 0
  <2>1. Turn!Take
    BY <1>1, <1>3 DEF Turn!Take
  <2> QED
    BY <2>1 DEF Turn!Next
<1> QED
  BY <1>2, <1>3

(***************************************************************************)
(* For any list of cleaners and any failures, a run is a sequence of turns *)
(* (CleanerTurn), one report each, true where nobody else writes.          *)
(***************************************************************************)
THEOREM TurnsRefined == Spec => TurnSpec
<1>1. Init => Turn!Init
  BY DEF Init, Working, Told, Turn!Init, Turn!Resting, Turn!NoReport
<1>2. TypeOK /\ Place /\ DueInv /\ CountInv /\ [Next]_vars => [Turn!Next]_(Turn!vars)
  <2> SUFFICES ASSUME WorldOK, RunOK, Place, DueInv, Tally, [Next]_vars
               PROVE  [Turn!Next]_(Turn!vars)
    BY DEF TypeOK, CountInv
  <2> DEFINE Turned == [Turn!Next]_(Turn!vars)
  <2>1. ASSUME Begin PROVE Turned
    <3>1. ~Working /\ ~Working' /\ Told' = Turn!NoReport
      BY <2>1 DEF Begin, Working, Told, Turn!NoReport
    <3> QED
      BY <3>1, StillResting
  <2>2. ASSUME Survey \/ End PROVE Turned
    <3>1. ~Working /\ ~Working' /\ Told' = Told
      BY <2>2 DEF Survey, End, Working, Told
    <3> QED
      BY <3>1, StillResting
  <2>3. ASSUME SkipTier \/ SkipTool PROVE Turned
    <3>1. ~Working /\ Now \in DOMAIN Cleaners /\ Return("skipped", 0)
      BY <2>3 DEF SkipTier, SkipTool, Due, Working
    <3>2. ~Working' /\ Told' = Turn!NoReport
      BY <3>1, ReturnTells
    <3> QED
      BY <3>1, <3>2, StillResting
  <2>4. ASSUME StartTool \/ StartDirs PROVE Turned
    <3>1. /\ pc = "next" /\ Now \in DOMAIN Cleaners /\ ~Working /\ Working'
          /\ UNCHANGED <<reports, took, dry, others>> /\ Now' = Now
      BY <2>4 DEF StartTool, StartDirs, Due, Working, history, worldVars, Now
    <3>2. took'[Now'] = 0 /\ dry' \in BOOLEAN
      BY <3>1, OwnTurn DEF RunOK
    <3>3. Told' = Turn!NoReport
      BY <3>1 DEF Told, Turn!NoReport
    <3>4. Turn!Begin
      BY <3>1, <3>2, <3>3 DEF Turn!Begin, Turn!Resting
    <3> QED
      BY <3>4 DEF Turn!Next
  <2>5. ASSUME RunTool PROVE Turned
    <3>1. pc = "tool" /\ Now \in DOMAIN Cleaners /\ Area \in Areas /\ Working /\ ~dry
      BY <2>5, AreaOfTool DEF RunTool, RunOK, Place, Working
    <3>2. PICK n \in 0..store[Area] : Take(Area, n)
      BY <2>5 DEF RunTool
    <3>3. took'[Now] = took[Now] + n /\ others' = others /\ n \in Nat
      BY <3>1, <3>2, TakeMoves DEF WorldOK
    <3>4. CASE Return("error", 0)
      BY <3>1, <3>4, ReturnEnds
    <3>5. CASE pc' = "after" /\ UNCHANGED <<dry, swept, reports, before, todo, bytes, stamped, low>>
      BY <3>1, <3>3, <3>5, TurnTakes DEF Working
    <3> QED
      BY <2>5, <3>4, <3>5 DEF RunTool
  <2>6. ASSUME NoSpawn \/ PruneFails PROVE Turned
    <3>1. Working /\ Now \in DOMAIN Cleaners /\ Return("error", 0)
      BY <2>6 DEF NoSpawn, PruneFails, RunOK, Working
    <3> QED
      BY <3>1, ReturnEnds
  <2>7. ASSUME MeasureAfter PROVE Turned
    <3>1. pc = "after" /\ Working /\ Now \in DOMAIN Cleaners /\ Area \in Areas
      BY <2>7, AreaOfTool DEF MeasureAfter, RunOK, Place, Working
    <3>2. store[Area] \in Nat /\ before \in Nat /\ took[Now] \in Nat
      BY <3>1 DEF WorldOK, RunOK
    <3>3. PICK n \in Nat : /\ Return("freed", n)
                           /\ n = IF Cleaners[Now].measured THEN Shrunk(Area) ELSE 0
      BY <2>7, <3>2 DEF MeasureAfter, Shrunk
    <3>4. others = 0 /\ ~dry /\ Cleaners[Now].measured => n = took[Now]
      BY <3>1, <3>2, <3>3 DEF Shrunk, Tally
    <3> QED
      BY <3>1, <3>3, <3>4, ReturnEnds
  <2>8. ASSUME PruneArea PROVE Turned
    <3>1. /\ pc = "dirs" /\ Working /\ Working' /\ Now \in DOMAIN Cleaners
          /\ UNCHANGED <<dry, reports>>
      BY <2>8 DEF PruneArea, RunOK, Working
    <3>2. PICK a \in Areas : \E n \in 0..store[a] : Prune(a, n)
      BY <2>8 DEF PruneArea, RunOK
    <3>3. PICK n \in 0..store[a] : Prune(a, n)
      BY <3>2
    <3>4. others' = others /\ n \in Nat /\ IF dry THEN took' = took ELSE took'[Now] = took[Now] + n
      BY <3>1, <3>3, PruneMoves DEF WorldOK
    <3>5. CASE ~dry
      BY <3>1, <3>4, <3>5, TurnTakes
    <3>6. CASE dry
      <4>1. Now' = Now /\ Told' = Told
        BY <3>1 DEF Now, Told
      <4> QED
        BY <3>1, <3>4, <3>6, <4>1 DEF Turn!vars
    <3> QED
      BY <3>5, <3>6
  <2>9. ASSUME PruneEnds PROVE Turned
    <3>1. /\ pc = "dirs" /\ Working /\ Now \in DOMAIN Cleaners /\ Return("freed", bytes)
          /\ bytes \in Nat
      BY <2>9 DEF PruneEnds, RunOK, Working
    <3> QED
      BY <3>1, ReturnEnds DEF Tally
  <2>10. ASSUME Fill \/ Empty \/ Install \/ Toggle PROVE Turned
    <3>1. /\ UNCHANGED <<pc, dry, reports, took>> /\ (pc # "idle" => others' # 0)
          /\ Now' = Now /\ Working' = Working /\ Told' = Told
      BY <2>10, WorldMoves DEF Now, Told, Working
    <3>2. CASE ~Working
      BY <3>1, <3>2, StillResting
    <3>3. CASE Working
      <4>1. others' # 0
        BY <3>1, <3>3 DEF Working
      <4>2. Turn!Disturb
        BY <3>1, <3>3, <4>1 DEF Turn!Disturb
      <4> QED
        BY <4>2 DEF Turn!Next
    <3> QED
      BY <3>2, <3>3
  <2>11. ASSUME UNCHANGED vars PROVE Turned
    BY <2>11 DEF vars, worldVars, runVars, history, Working, Told, Now, Turn!vars
  <2> QED
    BY <2>1, <2>2, <2>3, <2>4, <2>5, <2>6, <2>7, <2>8, <2>9, <2>10, <2>11 DEF Next, Run
<1> QED
  BY <1>1, <1>2, TypeCorrect, DueHolds, CountHolds, PTL DEF Spec, TurnSpec, Turn!Spec
=============================================================================
