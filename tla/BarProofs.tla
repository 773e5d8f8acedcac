------------------------------ MODULE BarProofs ------------------------------
(* What BarApp guarantees for queues of every length, any number of        *)
(* previews and every interleaving of the loop, the threads, the page and  *)
(* the user.                                                               *)
EXTENDS BarApp, TLAPS

-----------------------------------------------------------------------------
(* Types *)

LEMMA EvalType ==
  ASSUME evals \in Seq(Scripts), NEW script \in Scripts, Eval(script)
  PROVE  evals' \in Seq(Scripts)
  BY DEF Eval

LEMMA ShowType ==
  ASSUME TypeOK, Show
  PROVE  PanelOK' /\ PageOK'
<1>1. PanelOK'
  BY DEF TypeOK, PanelOK, Show
<1>2. PageOK'
  BY DEF TypeOK, PageOK, Show, Screens
<1>3. QED
  BY <1>1, <1>2

LEMMA HideType ==
  ASSUME TypeOK, Hide
  PROVE  PanelOK' /\ PageOK'
<1>1. PanelOK'
  BY DEF TypeOK, PanelOK, Hide
<1>2. PageOK'
  BY DEF TypeOK, PageOK, Hide, pageVars
<1>3. QED
  BY <1>1, <1>2

LEMMA KeepType ==
  ASSUME TypeOK
  PROVE  /\ UNCHANGED loopVars => LoopOK'
         /\ UNCHANGED panelVars => PanelOK'
         /\ UNCHANGED cleanVars => CleanOK'
         /\ UNCHANGED workVars => WorkOK'
         /\ UNCHANGED pageVars => PageOK'
<1>1. ASSUME UNCHANGED loopVars PROVE LoopOK'
  BY <1>1 DEF TypeOK, LoopOK, loopVars
<1>2. ASSUME UNCHANGED panelVars PROVE PanelOK'
  BY <1>2 DEF TypeOK, PanelOK, panelVars
<1>3. ASSUME UNCHANGED cleanVars PROVE CleanOK'
  BY <1>3 DEF TypeOK, CleanOK, cleanVars
<1>4. ASSUME UNCHANGED workVars PROVE WorkOK'
  BY <1>4 DEF TypeOK, WorkOK, workVars
<1>5. ASSUME UNCHANGED pageVars PROVE PageOK'
  BY <1>5 DEF TypeOK, PageOK, pageVars
<1>6. QED
  BY <1>1, <1>2, <1>3, <1>4, <1>5

\* A user event only gets a pass while one is waiting.
EventPending == pc = "event" => userEvents > 0

LEMMA LoopType ==
  ASSUME TypeOK, EventPending, Loop
  PROVE  TypeOK'
<1> USE KeepType
<1>1. CASE Wake
  BY <1>1 DEF Wake, TypeOK, Stages
<1>2. CASE UserEvent
  <2>1. PanelOK' /\ PageOK'
    BY <1>2, HideType DEF UserEvent
  <2>2. LoopOK'
    BY <1>2 DEF UserEvent, TypeOK, LoopOK, EventPending
  <2>3. QED
    BY <1>2, <2>1, <2>2 DEF UserEvent, TypeOK, Stages
<1>3. CASE TrayClick
  <2>1. PanelOK' /\ PageOK'
    <3>1. CASE lastHide' = "none" /\ UNCHANGED <<built, visible, armed, pageVars>>
      BY <3>1 DEF TypeOK, PanelOK
    <3>2. QED
      BY <1>3, <3>1, HideType, ShowType DEF TrayClick
  <2>2. LoopOK'
    <3>1. closing' \in BOOLEAN
      BY <1>3 DEF TrayClick
    <3>2. trayClicks' \in Nat
      BY <1>3 DEF TrayClick, TypeOK, LoopOK
    <3>3. QED
      BY <1>3, <3>1, <3>2 DEF TrayClick, TypeOK, LoopOK
  <2>3. QED
    BY <1>3, <2>1, <2>2 DEF TrayClick, TypeOK
<1>4. CASE TrayDrained
  BY <1>4 DEF TrayDrained, TypeOK, Stages
<1>5. CASE HandleAction
  <2>1. rx' \in Seq(Actions)
    BY <1>5 DEF HandleAction, TypeOK, PageOK
  <2>2. evals' \in Seq(Scripts)
    BY <1>5, EvalType DEF HandleAction, StateScript, Preview, CleanNow, Scripts, TypeOK, PageOK
  <2>3. PageOK'
    BY <1>5, <2>1, <2>2 DEF HandleAction, TypeOK, PageOK
  <2>4. CleanOK' /\ cleans' \in Nat /\ previews' \in Nat
    <3>1. CASE CleanNow
      <4>1. ripe' \in BOOLEAN
        BY <3>1 DEF CleanNow, TypeOK, CleanOK
      <4>2. QED
        BY <1>5, <3>1, <4>1 DEF HandleAction, CleanNow, TypeOK, CleanOK, WorkOK
    <3>2. CASE UNCHANGED <<cleanVars, cleans>>
      BY <1>5, <3>2 DEF HandleAction, Preview, CleanNow, TypeOK, CleanOK, WorkOK, cleanVars
    <3>3. QED
      BY <1>5, <3>1, <3>2 DEF HandleAction, Preview
  <2>5. WorkOK'
    BY <1>5, <2>4 DEF HandleAction, TypeOK, WorkOK
  <2>6. QED
    BY <1>5, <2>3, <2>4, <2>5 DEF HandleAction, TypeOK
<1>6. CASE ActionsDrained
  BY <1>6 DEF ActionsDrained, TypeOK, Stages
<1>7. CASE TakeDone
  <2>1. CleanOK'
    <3>1. results' \in BOOLEAN /\ ripe' \in BOOLEAN
      BY <1>7 DEF TakeDone
    <3>2. QED
      BY <1>7, <3>1 DEF TakeDone, CleanOK
  <2>2. WorkOK'
    BY <1>7 DEF TakeDone, TypeOK, WorkOK
  <2>3. QED
    BY <1>7, <2>1, <2>2 DEF TakeDone, TypeOK
<1>8. CASE TakeDryDone
  <2>1. evals' \in Seq(Scripts)
    BY <1>8, EvalType DEF TakeDryDone, Scripts, TypeOK, PageOK
  <2>2. PageOK'
    BY <1>8, <2>1 DEF TakeDryDone, TypeOK, PageOK
  <2>3. WorkOK'
    BY <1>8 DEF TakeDryDone, TypeOK, WorkOK
  <2>4. QED
    BY <1>8, <2>2, <2>3 DEF TakeDryDone, TypeOK
<1>9. CASE ResultsDrained
  BY <1>9 DEF ResultsDrained, TypeOK, Stages
<1>10. CASE TickClean
  <2>1. evals' \in Seq(Scripts)
    BY <1>10, EvalType DEF TickClean, Scripts, TypeOK, PageOK
  <2>2. PageOK'
    BY <1>10, <2>1 DEF TickClean, TypeOK, PageOK
  <2>3. CleanOK'
    <3>1. results' \in BOOLEAN
      BY <1>10 DEF TickClean, TypeOK, CleanOK
    <3>2. QED
      BY <1>10, <3>1 DEF TickClean, TypeOK, CleanOK
  <2>4. QED
    BY <1>10, <2>2, <2>3 DEF TickClean, TypeOK, Stages
<1>11. CASE Release
  <2>1. PanelOK' /\ PageOK'
    <3>1. CASE TearDown
      <4>1. built' \in BOOLEAN
        BY <3>1 DEF TearDown
      <4>2. PanelOK'
        BY <3>1, <4>1 DEF TearDown, TypeOK, PanelOK
      <4>3. PageOK'
        BY <3>1 DEF TearDown, PageOK, Screens
      <4>4. QED
        BY <4>2, <4>3
    <3>2. QED
      BY <1>11, <3>1 DEF Release
  <2>2. QED
    BY <1>11, <2>1 DEF Release, TypeOK, Stages
<1>12. QED
  BY <1>1, <1>2, <1>3, <1>4, <1>5, <1>6, <1>7, <1>8, <1>9, <1>10, <1>11 DEF Loop

LEMMA EnvironmentType ==
  ASSUME TypeOK, Environment
  PROVE  TypeOK'
<1> USE KeepType DEF TypeOK
<1>1. CASE CleanEnds
  <2>1. marked' \in BOOLEAN
    BY <1>1 DEF CleanEnds, WorkOK
  <2>2. WorkOK'
    BY <1>1, <2>1 DEF CleanEnds, WorkOK
  <2>3. QED
    BY <1>1, <2>2 DEF CleanEnds
<1>2. CASE PreviewEnds
  BY <1>2 DEF PreviewEnds, WorkOK
<1>3. CASE Ripen
  BY <1>3 DEF Ripen, CleanOK
<1>4. CASE HideAges
  BY <1>4 DEF HideAges, PanelOK
<1>5. CASE PageLoads
  BY <1>5 DEF PageLoads, PageOK, Screens, Actions
<1>6. CASE RunScript
  <2>1. Head(evals) \in Scripts /\ evals' \in Seq(Scripts)
    BY <1>6 DEF RunScript, PageOK
  <2>2. PageOK'
    BY <1>6, <2>1 DEF RunScript, PageOK, Scripts, Screens
  <2>3. QED
    BY <1>6, <2>2 DEF RunScript
<1>7. ASSUME NEW a \in Actions, PageClick(a) PROVE TypeOK'
  <2>1. PageOK'
    BY <1>7 DEF PageClick, PageOK, Screens
  <2>2. QED
    BY <1>7, <2>1 DEF PageClick
<1>8. CASE Deliver
  BY <1>8 DEF Deliver, PageOK
<1>9. CASE ToastFades
  BY <1>9 DEF ToastFades, PageOK
<1>10. CASE ClickOutside
  BY <1>10 DEF ClickOutside, Resign, LoopOK, PanelOK
<1>11. CASE PressItem
  BY <1>11 DEF PressItem, Resign, LoopOK, PanelOK
<1>12. CASE ReleaseItem
  <2>1. held' \in BOOLEAN
    BY <1>12 DEF ReleaseItem
  <2>2. LoopOK'
    BY <1>12, <2>1 DEF ReleaseItem, LoopOK
  <2>3. QED
    BY <1>12, <2>2 DEF ReleaseItem
<1>13. QED
  BY <1>1, <1>2, <1>3, <1>4, <1>5, <1>6, <1>7, <1>8, <1>9, <1>10, <1>11, <1>12
     DEF Environment

LEMMA EventNext == TypeOK /\ EventPending /\ [Next]_vars => EventPending'
<1> SUFFICES ASSUME TypeOK, EventPending, [Next]_vars PROVE EventPending'
  OBVIOUS
<1> USE DEF TypeOK, EventPending
<1>1. CASE Release
  BY <1>1 DEF Release, LoopOK, loopVars
<1>2. CASE ClickOutside \/ PressItem \/ ReleaseItem
  BY <1>2 DEF ClickOutside, PressItem, ReleaseItem
<1>3. CASE UserEvent \/ Wake \/ TrayDrained \/ ActionsDrained \/ ResultsDrained \/ TickClean
  BY <1>3 DEF UserEvent, Wake, TrayDrained, ActionsDrained, ResultsDrained, TickClean
<1>4. CASE UNCHANGED <<pc, userEvents>>
  BY <1>4
<1>5. QED
  BY <1>1, <1>2, <1>3, <1>4
     DEF Next, Loop, Environment, vars, loopVars, TrayClick, HandleAction, TakeDone,
         TakeDryDone, CleanEnds, PreviewEnds, Ripen, HideAges, PageLoads, RunScript,
         PageClick, Deliver, ToastFades

LEMMA TypeNext == TypeOK /\ EventPending /\ [Next]_vars => TypeOK'
<1> SUFFICES ASSUME TypeOK, EventPending, [Next]_vars PROVE TypeOK'
  OBVIOUS
<1>1. CASE UNCHANGED vars
  BY <1>1, KeepType DEF TypeOK, vars
<1>2. QED
  BY <1>1, LoopType, EnvironmentType DEF Next

LEMMA TypeInit == Init => TypeOK /\ EventPending
<1> SUFFICES ASSUME Init PROVE TypeOK /\ EventPending
  OBVIOUS
<1>1. LoopOK
  BY DEF Init, LoopOK
<1>2. PanelOK
  BY DEF Init, PanelOK
<1>3. CleanOK
  <2>1. Init => phase \in 0..2
    BY DEF Init
  <2>2. Init => results \in BOOLEAN /\ ripe \in BOOLEAN
    BY DEF Init
  <2>3. QED
    BY <2>1, <2>2 DEF CleanOK
<1>4. WorkOK
  BY DEF Init, WorkOK
<1>5. PageOK
  BY DEF Init, PageOK, Screens
<1>6. QED
  BY <1>1, <1>2, <1>3, <1>4, <1>5 DEF Init, TypeOK, Stages, EventPending

(***************************************************************************)
(* Every variable keeps its type; in particular no counter is taken below  *)
(* zero by a drain loop.                                                   *)
(***************************************************************************)
THEOREM TypeCorrect == Spec => []TypeOK
<1>1. QED
  BY TypeInit, TypeNext, EventNext, PTL DEF Spec

-----------------------------------------------------------------------------
(***************************************************************************)
(* A page that is gone takes its messages with it, so every action the     *)
(* loop handles comes from a page that is there.                           *)
(***************************************************************************)
PageLives ==
  ~built => screen = "none" /\ posted = <<>> /\ rx = <<>> /\ evals = <<>>

LEMMA PageNext == TypeOK /\ PageLives /\ [Next]_vars => PageLives'
<1> SUFFICES ASSUME TypeOK, PageLives, [Next]_vars PROVE PageLives'
  OBVIOUS
<1> USE DEF PageLives
<1>1. CASE UserEvent
  BY <1>1 DEF UserEvent, Hide, pageVars, panelVars
<1>2. CASE TrayClick
  BY <1>2 DEF TrayClick, Hide, Show, pageVars
<1>3. CASE HandleAction
  BY <1>3 DEF HandleAction, panelVars
<1>4. CASE TakeDryDone \/ TickClean
  BY <1>4 DEF TakeDryDone, TickClean, Eval, panelVars
<1>5. CASE Release
  BY <1>5 DEF Release, TearDown, pageVars, panelVars
<1>6. CASE PageLoads \/ RunScript \/ Deliver
  BY <1>6 DEF PageLoads, RunScript, Deliver, panelVars
<1>7. ASSUME NEW a \in Actions, PageClick(a) PROVE PageLives'
  BY <1>7 DEF PageClick, Buttons, panelVars
<1>8. CASE UNCHANGED <<built, screen, posted, rx, evals>>
  BY <1>8
<1>9. QED
  BY <1>1, <1>2, <1>3, <1>4, <1>5, <1>6, <1>7, <1>8
     DEF Next, Loop, Environment, vars, panelVars, pageVars, Wake, TrayDrained,
         ActionsDrained, TakeDone, ResultsDrained, CleanEnds, PreviewEnds, Ripen, HideAges,
         ToastFades, ClickOutside, PressItem, ReleaseItem

-----------------------------------------------------------------------------
(***************************************************************************)
(* The clean in progress                                                   *)
(***************************************************************************)
LEMMA OneCleanNext == TypeOK /\ OneClean /\ [Next]_vars => OneClean'
<1> SUFFICES ASSUME TypeOK, OneClean, [Next]_vars PROVE OneClean'
  OBVIOUS
<1> USE DEF OneClean, TypeOK, CleanOK, WorkOK
<1>1. CASE HandleAction
  BY <1>1 DEF HandleAction, CleanNow, Preview, cleanVars
<1>2. CASE TakeDone
  BY <1>2 DEF TakeDone
<1>3. CASE TickClean
  BY <1>3 DEF TickClean, workVars
<1>4. CASE CleanEnds
  BY <1>4 DEF CleanEnds, cleanVars
<1>5. CASE UNCHANGED <<phase, cleans, done>>
  BY <1>5
<1>6. QED
  BY <1>1, <1>2, <1>3, <1>4, <1>5
     DEF Next, Loop, Environment, vars, cleanVars, workVars, Wake, UserEvent, TrayClick,
         TrayDrained, ActionsDrained, TakeDryDone, ResultsDrained, Release, PreviewEnds,
         Ripen, HideAges, PageLoads, RunScript, PageClick, Deliver, ToastFades,
         ClickOutside, PressItem, ReleaseItem

LEMMA PageOfClean ==
  ASSUME TypeOK, PageLives, OneClean, phase # 0 => built, [Next]_vars
  PROVE  (phase # 0 => built)'
<1>1. CASE HandleAction
  <2>1. built
    BY <1>1 DEF HandleAction, PageLives
  <2>2. QED
    BY <1>1, <2>1 DEF HandleAction, panelVars
<1>2. CASE TakeDone
  <2>1. phase = 1
    BY <1>2 DEF TakeDone, OneClean, TypeOK, WorkOK
  <2>2. QED
    BY <1>2, <2>1 DEF TakeDone, panelVars
<1>3. CASE TickClean
  BY <1>3 DEF TickClean, panelVars
<1>4. CASE Release
  BY <1>4 DEF Release, Unneeded, TearDown, cleanVars, panelVars
<1>5. CASE TrayClick
  <2>1. phase' = phase
    BY <1>5 DEF TrayClick, cleanVars
  <2>2. built' = TRUE \/ built' = built
    BY <1>5 DEF TrayClick, Hide, Show
  <2>3. QED
    BY <2>1, <2>2
<1>6. CASE UserEvent
  BY <1>6 DEF UserEvent, Hide, cleanVars, panelVars
<1>7. CASE UNCHANGED <<phase, built>>
  BY <1>7
<1>8. QED
  BY <1>1, <1>2, <1>3, <1>4, <1>5, <1>6, <1>7
     DEF Next, Loop, Environment, vars, cleanVars, panelVars, Wake, TrayDrained,
         ActionsDrained, TakeDryDone, ResultsDrained, CleanEnds, PreviewEnds, Ripen,
         HideAges, PageLoads, RunScript, PageClick, Deliver, ToastFades, ClickOutside,
         PressItem, ReleaseItem

LEMMA ResultsOfClean ==
  ASSUME TypeOK, OneClean, results <=> phase = 2, [Next]_vars
  PROVE  (results <=> phase = 2)'
<1>1. CASE HandleAction
  BY <1>1 DEF HandleAction, CleanNow, Preview, cleanVars
<1>2. CASE TakeDone
  BY <1>2 DEF TakeDone
<1>3. CASE TickClean
  BY <1>3 DEF TickClean, TypeOK, CleanOK
<1>4. CASE UNCHANGED <<phase, results>>
  BY <1>4
<1>5. QED
  BY <1>1, <1>2, <1>3, <1>4
     DEF Next, Loop, Environment, vars, cleanVars, Wake, UserEvent, TrayClick,
         TrayDrained, ActionsDrained, TakeDryDone, ResultsDrained, Release, CleanEnds,
         PreviewEnds, Ripen, HideAges, PageLoads, RunScript, PageClick, Deliver,
         ToastFades, ClickOutside, PressItem, ReleaseItem

(***************************************************************************)
(* However the page, the threads and the user interleave, there is one     *)
(* clean at a time, its page outlives it, and its results wait exactly for *)
(* the animation.                                                          *)
(***************************************************************************)
CleanInv == TypeOK /\ EventPending /\ PageLives /\ OneClean /\ ResultsHavePage

LEMMA CleanInductive == (Init => CleanInv) /\ (CleanInv /\ [Next]_vars => CleanInv')
<1>1. Init => CleanInv
  <2>1. Init => PageLives /\ OneClean
    BY DEF Init, PageLives, OneClean
  <2>2. Init => ResultsHavePage
    BY DEF Init, ResultsHavePage
  <2>3. QED
    BY <2>1, <2>2, TypeInit DEF CleanInv
<1>2. CleanInv /\ [Next]_vars => CleanInv'
  BY TypeNext, EventNext, PageNext, OneCleanNext, PageOfClean, ResultsOfClean
     DEF CleanInv, ResultsHavePage
<1>3. QED
  BY <1>1, <1>2

\* There is one clean at a time, whatever the page posts.
THEOREM OneCleanHolds == Spec => []OneClean
<1>1. CleanInv => OneClean
  BY DEF CleanInv
<1>2. QED
  BY <1>1, CleanInductive, PTL DEF Spec

\* The page a clean was started from lives until its results are handed over.
THEOREM ResultsHavePageHolds == Spec => []ResultsHavePage
<1>1. CleanInv => ResultsHavePage
  BY DEF CleanInv
<1>2. QED
  BY <1>1, CleanInductive, PTL DEF Spec

-----------------------------------------------------------------------------
(***************************************************************************)
(* The panel                                                               *)
(***************************************************************************)
LEMMA ArmedNext == DismissArmed /\ [Next]_vars => DismissArmed'
<1> SUFFICES ASSUME DismissArmed, [Next]_vars PROVE DismissArmed'
  OBVIOUS
<1> USE DEF DismissArmed
<1>1. CASE UserEvent
  BY <1>1 DEF UserEvent, Hide, panelVars
<1>2. CASE TrayClick
  BY <1>2 DEF TrayClick, Hide, Show
<1>3. CASE Release
  BY <1>3 DEF Release, Unneeded, TearDown, panelVars
<1>4. CASE UNCHANGED <<armed, visible>>
  BY <1>4
<1>5. QED
  BY <1>1, <1>2, <1>3, <1>4
     DEF Next, Loop, Environment, vars, panelVars, Wake, TrayDrained, HandleAction,
         ActionsDrained, TakeDone, TakeDryDone, ResultsDrained, TickClean, CleanEnds,
         PreviewEnds, Ripen, HideAges, PageLoads, RunScript, PageClick, Deliver,
         ToastFades, ClickOutside, PressItem, ReleaseItem

\* The dismiss triggers are there once while the panel is open, never otherwise.
THEOREM DismissArmedHolds == Spec => []DismissArmed
<1>1. Init => DismissArmed
  BY DEF Init, DismissArmed
<1>2. QED
  BY <1>1, ArmedNext, PTL DEF Spec

(***************************************************************************)
(* A pass may come to its next user event straight from its release, so    *)
(* the footprint is kept at both ends of a pass.                           *)
(***************************************************************************)
Resting == pc \in {"wait", "event"} /\ built => visible \/ phase # 0

LEMMA RestingNext == TypeOK /\ OneClean /\ Resting /\ [Next]_vars => Resting'
<1> SUFFICES ASSUME TypeOK, OneClean, Resting, [Next]_vars PROVE Resting'
  OBVIOUS
<1> USE DEF Resting
<1>1. CASE Release
  <2>1. CASE Unneeded
    BY <1>1, <2>1 DEF Release, TearDown
  <2>2. CASE ~Unneeded
    BY <1>1, <2>2 DEF Release, Unneeded, panelVars, cleanVars
  <2>3. QED
    BY <2>1, <2>2
<1>2. CASE Wake \/ UserEvent
  BY <1>2 DEF Wake, UserEvent
<1>3. CASE TrayClick \/ HandleAction \/ TakeDone \/ TakeDryDone
  BY <1>3 DEF TrayClick, HandleAction, TakeDone, TakeDryDone
<1>4. CASE TrayDrained \/ ActionsDrained \/ ResultsDrained \/ TickClean
  BY <1>4 DEF TrayDrained, ActionsDrained, ResultsDrained, TickClean
<1>5. CASE UNCHANGED <<pc, built, visible, phase>>
  BY <1>5
<1>6. QED
  BY <1>1, <1>2, <1>3, <1>4, <1>5
     DEF Next, Loop, Environment, vars, panelVars, cleanVars, CleanEnds, PreviewEnds,
         Ripen, HideAges, PageLoads, RunScript, PageClick, Deliver, ToastFades,
         ClickOutside, PressItem, ReleaseItem

\* No WebView stays behind a closed panel that no clean needs.
THEOREM FootprintHolds == Spec => []Footprint
<1>1. Init => Resting
  BY DEF Init, Resting
<1>2. Resting => Footprint
  BY DEF Resting, Footprint
<1>3. CleanInv => TypeOK /\ OneClean
  BY DEF CleanInv
<1>4. QED
  BY <1>1, <1>2, <1>3, RestingNext, CleanInductive, PTL DEF Spec

-----------------------------------------------------------------------------
(***************************************************************************)
(* The debounce.  A press on the item of an open panel leaves a panel that *)
(* is either still open or closed less than 350 ms ago until its click has *)
(* been handled, provided buttons are let go that fast.                    *)
(***************************************************************************)
PressInv ==
    /\ held => trayClicks = 0
    /\ trayClicks <= 1
    /\ closing => held \/ trayClicks = 1
    /\ closing => visible \/ lastHide = "fresh"

LEMMA PressNext ==
  ASSUME QuickClicks, TypeOK, PressInv, [Next]_vars
  PROVE  PressInv'
<1> USE DEF PressInv
<1>1. CASE UserEvent
  BY <1>1 DEF UserEvent, Hide, panelVars
<1>2. CASE TrayClick
  <2>1. trayClicks' = 0 /\ ~closing' /\ held' = held /\ trayClicks = 1
    BY <1>2 DEF TrayClick, TypeOK, LoopOK
  <2>2. QED
    BY <2>1
<1>3. CASE Release
  BY <1>3 DEF Release, TearDown, panelVars, loopVars
<1>4. CASE HideAges
  BY <1>4 DEF HideAges, loopVars, TypeOK, LoopOK
<1>5. CASE PressItem
  BY <1>5 DEF PressItem, panelVars
<1>6. CASE ReleaseItem
  BY <1>6 DEF ReleaseItem, panelVars
<1>7. CASE UNCHANGED <<held, trayClicks, closing, visible, lastHide>>
  BY <1>7
<1>8. QED
  BY <1>1, <1>2, <1>3, <1>4, <1>5, <1>6, <1>7
     DEF Next, Loop, Environment, vars, loopVars, panelVars, Wake, TrayDrained,
         HandleAction, ActionsDrained, TakeDone, TakeDryDone, ResultsDrained, TickClean,
         CleanEnds, PreviewEnds, Ripen, PageLoads, RunScript, PageClick, Deliver,
         ToastFades, ClickOutside

LEMMA ClickCloses ==
  ASSUME PressInv, [Next]_vars, closing, ~closing', trayClicks' < trayClicks, TypeOK
  PROVE  ~visible'
<1>1. CASE TrayClick
  BY <1>1 DEF TrayClick, PressInv, Hide
<1>2. CASE ~TrayClick
  <2>1. trayClicks' = trayClicks \/ trayClicks' = trayClicks + 1
    BY <1>2 DEF Next, Loop, Environment, vars, loopVars, Wake, UserEvent, TrayDrained,
         HandleAction, ActionsDrained, TakeDone, TakeDryDone, ResultsDrained, TickClean,
         Release, CleanEnds, PreviewEnds, Ripen, HideAges, PageLoads, RunScript,
         PageClick, Deliver, ToastFades, ClickOutside, PressItem, ReleaseItem
  <2>2. QED
    BY <2>1 DEF TypeOK, LoopOK
<1>3. QED
  BY <1>1, <1>2

(***************************************************************************)
(* Where buttons are let go within 350 ms, a click on the status item of   *)
(* an open panel leaves it closed.                                         *)
(***************************************************************************)
THEOREM NoReopenHolds == ASSUME QuickClicks PROVE Spec => NoReopen
<1>1. Init => PressInv
  BY DEF Init, PressInv
<1>2. TypeOK /\ PressInv /\ [Next]_vars => PressInv'
  BY PressNext
<1>3. TypeOK /\ PressInv /\ [Next]_vars
        => [closing /\ ~closing' /\ trayClicks' < trayClicks => ~visible']_vars
  BY ClickCloses
<1>4. QED
  BY <1>1, <1>2, <1>3, TypeCorrect, PTL DEF Spec, NoReopen

-----------------------------------------------------------------------------
(***************************************************************************)
(* The cleaning screen.  While no clean is under way, whatever puts that   *)
(* screen up has something behind it that takes it down: a cleanNow the    *)
(* loop has still to take, or a later script that turns the page.          *)
(***************************************************************************)
Replies == {"idle", "onboarding", "results", "memory"}

Overruled(q, i) == \E j \in DOMAIN q : j > i /\ q[j] \in Replies

Asks(q) == \E i \in DOMAIN q : q[i] = "cleanNow"

AllOverruled(q) == \A i \in DOMAIN q : q[i] = "cleaning" => Overruled(q, i)

Leaving ==
  phase = 0 =>
    /\ AllOverruled(evals)
    /\ screen = "cleaning" => Asks(posted) \/ Asks(rx) \/ Overruled(evals, 0)

\* A script behind the others leaves their order as it is; a reply ends it all.
LEMMA AppendScript ==
  ASSUME NEW q \in Seq(Scripts), NEW s \in Scripts \ {"cleaning"}, AllOverruled(q)
  PROVE  /\ AllOverruled(Append(q, s))
         /\ Overruled(q, 0) => Overruled(Append(q, s), 0)
<1> DEFINE r == Append(q, s)
<1>1. /\ Len(r) = Len(q) + 1 /\ DOMAIN r = 1..Len(r) /\ DOMAIN q = 1..Len(q) /\ Len(q) \in Nat
      /\ \A i \in DOMAIN q : r[i] = q[i]
      /\ r[Len(r)] = s
  OBVIOUS
<1> HIDE DEF r
<1>2. \A i \in DOMAIN q : Overruled(q, i) => Overruled(r, i)
  BY <1>1 DEF Overruled
<1>3. AllOverruled(r)
  BY <1>1, <1>2 DEF AllOverruled
<1>4. Overruled(q, 0) => Overruled(r, 0)
  BY <1>1 DEF Overruled
<1> QED
  BY <1>3, <1>4 DEF r

LEMMA AppendReply ==
  ASSUME NEW q \in Seq(Scripts), NEW s \in Replies
  PROVE  AllOverruled(Append(q, s)) /\ Overruled(Append(q, s), 0)
<1> DEFINE r == Append(q, s)
<1>1. /\ Len(r) = Len(q) + 1 /\ DOMAIN r = 1..Len(r) /\ Len(q) \in Nat
      /\ r[Len(r)] = s
  BY DEF Replies, Scripts
<1> HIDE DEF r
<1>2. \A i \in 0..Len(q) : Overruled(r, i)
  BY <1>1 DEF Overruled
<1>3. AllOverruled(r)
  BY <1>1, <1>2 DEF AllOverruled, Replies
<1> QED
  BY <1>1, <1>2, <1>3 DEF r

LEMMA TailScripts ==
  ASSUME NEW q \in Seq(Scripts), q # <<>>, AllOverruled(q)
  PROVE  /\ AllOverruled(Tail(q))
         /\ Head(q) = "cleaning" => Overruled(Tail(q), 0)
         /\ Overruled(q, 0) => Head(q) \in Replies \/ Overruled(Tail(q), 0)
<1> DEFINE r == Tail(q)
<1>1. /\ Len(q) = Len(r) + 1 /\ DOMAIN r = 1..Len(r) /\ DOMAIN q = 1..Len(q) /\ Len(r) \in Nat
      /\ \A i \in DOMAIN r : r[i] = q[i + 1]
      /\ Head(q) = q[1]
  OBVIOUS
<1> HIDE DEF r
<1>2. ASSUME NEW i \in 0..Len(r), Overruled(q, i + 1)
      PROVE  Overruled(r, i)
  <2>1. PICK j \in DOMAIN q : j > i + 1 /\ q[j] \in Replies
    BY <1>2 DEF Overruled
  <2>2. j - 1 \in DOMAIN r /\ j - 1 > i /\ r[j - 1] \in Replies
    BY <1>1, <2>1
  <2> QED
    BY <2>2 DEF Overruled
<1>3. AllOverruled(r)
  BY <1>1, <1>2 DEF AllOverruled
<1>4. Head(q) = "cleaning" => Overruled(r, 0)
  BY <1>1, <1>2 DEF AllOverruled
<1>5. Overruled(q, 0) => Head(q) \in Replies \/ Overruled(r, 0)
  <2> SUFFICES ASSUME Overruled(q, 0), Head(q) \notin Replies
               PROVE  Overruled(q, 1)
    BY <1>1, <1>2
  <2> QED
    BY <1>1 DEF Overruled
<1> QED
  BY <1>3, <1>4, <1>5 DEF r

\* A message moves on in its queue, or from one queue to the next.
LEMMA AsksMove ==
  ASSUME NEW q \in Seq(Actions), q # <<>>
  PROVE  Asks(q) => Head(q) = "cleanNow" \/ Asks(Tail(q))
<1>1. /\ Len(q) = Len(Tail(q)) + 1 /\ DOMAIN Tail(q) = 1..Len(Tail(q)) /\ DOMAIN q = 1..Len(q)
      /\ Len(Tail(q)) \in Nat
      /\ \A i \in DOMAIN Tail(q) : Tail(q)[i] = q[i + 1]
      /\ Head(q) = q[1]
  OBVIOUS
<1> SUFFICES ASSUME NEW i \in DOMAIN q, q[i] = "cleanNow", Head(q) # "cleanNow"
             PROVE  Asks(Tail(q))
  BY DEF Asks
<1>2. i - 1 \in DOMAIN Tail(q) /\ Tail(q)[i - 1] = "cleanNow"
  BY <1>1
<1> QED
  BY <1>2 DEF Asks

LEMMA AsksAppend ==
  ASSUME NEW q \in Seq(Actions), NEW a \in Actions
  PROVE  Asks(q) \/ a = "cleanNow" => Asks(Append(q, a))
<1>1. /\ Len(Append(q, a)) = Len(q) + 1 /\ Len(q) \in Nat /\ DOMAIN q = 1..Len(q)
      /\ DOMAIN Append(q, a) = 1..Len(Append(q, a))
      /\ \A i \in DOMAIN q : Append(q, a)[i] = q[i]
      /\ Append(q, a)[Len(q) + 1] = a
  OBVIOUS
<1> QED
  BY <1>1 DEF Asks

\* A script that is not the cleaning screen does not disturb Leaving.
LEMMA EvalLeaves ==
  ASSUME TypeOK, Leaving, NEW s \in Scripts \ {"cleaning"}, Eval(s), phase' = phase,
         screen' = screen, posted' = posted,
         phase = 0 /\ Asks(rx) => Asks(rx')
  PROVE  Leaving'
<1>1. evals \in Seq(Scripts)
  BY DEF TypeOK, PageOK
<1>2. evals' = evals \/ evals' = Append(evals, s)
  BY DEF Eval
<1> QED
  BY <1>1, <1>2, AppendScript DEF Leaving

LEMMA LeavingNext ==
  ASSUME CleanInv, Leaving, [Next]_vars
  PROVE  Leaving'
<1> USE DEF Leaving
<1>0. /\ TypeOK /\ PageLives /\ ResultsHavePage
      /\ evals \in Seq(Scripts) /\ posted \in Seq(Actions) /\ rx \in Seq(Actions)
  BY DEF CleanInv, TypeOK, PageOK
<1>1. CASE UserEvent
  BY <1>1 DEF UserEvent, Hide, pageVars, panelVars, cleanVars
<1>2. CASE TrayClick
  BY <1>2 DEF TrayClick, Hide, Show, pageVars, cleanVars
<1>3. CASE HandleAction
  <2>1. phase = 0 /\ Asks(rx) => Asks(rx') \/ Head(rx) = "cleanNow"
    BY <1>0, <1>3, AsksMove DEF HandleAction
  <2>2. CASE Head(rx) = "cleanNow"
    BY <1>0, <1>3, <2>2 DEF HandleAction, CleanNow, TypeOK, CleanOK
  <2>3. CASE Head(rx) # "cleanNow"
    <3>1. \E s \in Scripts \ {"cleaning"} : Eval(s) /\ phase' = phase
      BY <1>3, <2>3 DEF HandleAction, StateScript, Preview, Scripts, cleanVars
    <3> QED
      BY <1>0, <1>3, <2>1, <2>3, <3>1, EvalLeaves DEF HandleAction
  <2> QED
    BY <2>2, <2>3
<1>4. CASE TakeDone
  BY <1>4 DEF TakeDone
<1>5. CASE TakeDryDone
  BY <1>0, <1>5, EvalLeaves DEF TakeDryDone, Scripts, cleanVars
<1>6. CASE TickClean
  <2>1. CASE phase = 0
    BY <1>6, <2>1 DEF TickClean
  <2>2. CASE phase # 0 /\ phase' = 0
    <3>1. evals' = Append(evals, "results")
      BY <1>0, <1>6, <2>2 DEF TickClean, ResultsHavePage, Eval
    <3> QED
      BY <1>0, <3>1, AppendReply DEF Replies
  <2> QED
    BY <2>1, <2>2 DEF Leaving
<1>7. CASE Release
  <2>1. CASE Unneeded
    BY <1>7, <2>1 DEF Release, TearDown, AllOverruled
  <2>2. CASE ~Unneeded
    BY <1>7, <2>2 DEF Release, pageVars, cleanVars
  <2> QED
    BY <2>1, <2>2
<1>8. CASE PageLoads
  BY <1>8 DEF PageLoads, cleanVars
<1>9. CASE RunScript
  <2> SUFFICES ASSUME phase = 0
               PROVE  /\ AllOverruled(evals')
                      /\ screen' = "cleaning" =>
                           Asks(posted) \/ Asks(rx) \/ Overruled(evals', 0)
    BY <1>9 DEF RunScript, cleanVars
  <2>1. /\ evals # <<>> /\ evals' = Tail(evals)
        /\ screen' \in {screen, Head(evals)}
        /\ Head(evals) \in Replies => screen' # "cleaning"
        /\ screen' = "cleaning" => screen = "cleaning" \/ Head(evals) = "cleaning"
    BY <1>9 DEF RunScript, Replies
  <2> QED
    BY <1>0, <2>1, TailScripts
<1>10. CASE Deliver
  <2>1. Asks(posted) => Asks(posted') \/ Asks(rx')
    BY <1>0, <1>10, AsksMove, AsksAppend DEF Deliver
  <2>2. Asks(rx) => Asks(rx')
    <3>1. Head(posted) \in Actions
      BY <1>0, <1>10 DEF Deliver
    <3> QED
      BY <1>0, <1>10, <3>1, AsksAppend DEF Deliver
  <2> QED
    BY <1>10, <2>1, <2>2 DEF Deliver, cleanVars
<1>11. ASSUME NEW a \in Actions, PageClick(a)
       PROVE  Leaving'
  <2>1. /\ Asks(posted) \/ a = "cleanNow" => Asks(posted')
        /\ UNCHANGED <<rx, evals, phase>>
    BY <1>0, <1>11, AsksAppend DEF PageClick, cleanVars
  <2>2. screen' = "cleaning" => screen = "cleaning" \/ a = "cleanNow"
    BY <1>11 DEF PageClick
  <2>3. CASE phase = 0
    <3>1. /\ AllOverruled(evals)
          /\ screen = "cleaning" => Asks(posted) \/ Asks(rx) \/ Overruled(evals, 0)
      BY <1>0, <2>3 DEF Leaving
    <3>2. screen' = "cleaning" => Asks(posted') \/ Asks(rx) \/ Overruled(evals, 0)
      BY <2>1, <2>2, <3>1
    <3>3. evals' = evals /\ rx' = rx
      BY <2>1
    <3>4. AllOverruled(evals') /\ Asks(rx') = Asks(rx) /\ Overruled(evals', 0) = Overruled(evals, 0)
      BY <3>1, <3>3 DEF AllOverruled, Asks, Overruled
    <3> QED
      BY <3>2, <3>4 DEF Leaving
  <2> QED
    BY <2>1, <2>3 DEF Leaving
<1>12. CASE UNCHANGED <<phase, screen, posted, rx, evals>>
  BY <1>12
<1> QED
  BY <1>1, <1>2, <1>3, <1>4, <1>5, <1>6, <1>7, <1>8, <1>9, <1>10, <1>11, <1>12
     DEF Next, Loop, Environment, vars, cleanVars, pageVars, Wake, TrayDrained,
         ActionsDrained, ResultsDrained, CleanEnds, PreviewEnds, Ripen, HideAges,
         ToastFades, ClickOutside, PressItem, ReleaseItem

\* Whatever the order of clicks, scripts and answers, and however long the
\* queues, the cleaning screen never stays up without a clean behind it.
THEOREM NotStuckCleaningHolds == Spec => []NotStuckCleaning
<1>1. Init => Leaving
  BY DEF Init, Leaving, AllOverruled
<1>2. CleanInv /\ Leaving /\ [Next]_vars => Leaving'
  BY LeavingNext
<1>3. Leaving /\ TypeOK => NotStuckCleaning
  BY DEF Leaving, NotStuckCleaning, Asks, Overruled
<1>4. CleanInv => TypeOK
  BY DEF CleanInv
<1> QED
  BY <1>1, <1>2, <1>3, <1>4, CleanInductive, PTL DEF Spec

-----------------------------------------------------------------------------
(***************************************************************************)
(* The refinement.  A clean's stage can be read off the phase and the      *)
(* channel because there is only one; scripts come and go at either end of *)
(* the queue, and only the end of the animation adds results.              *)
(***************************************************************************)
ResultsLast == evals # <<>> /\ evals[Len(evals)] = "results"

LEMMA SameSession ==
  ASSUME UNCHANGED <<phase, done, built>>,
         ResultsLast' = ResultsLast \/ ResultsLast' = FALSE
  PROVE  [Session!Next]_(Session!vars)
<1>1. Stage' = Stage
  BY DEF Stage
<1>2. CASE ResultsLast' = ResultsLast
  BY <1>1, <1>2 DEF Session!vars, ResultsLast
<1>3. CASE ResultsLast' = FALSE
  <2>1. Session!Chat
    BY <1>1, <1>3 DEF Session!Chat, ResultsLast
  <2>2. QED
    BY <2>1 DEF Session!Next
<1>4. QED
  BY <1>2, <1>3

LEMMA EvalLast ==
  ASSUME TypeOK, NEW script \in Scripts, Eval(script)
  PROVE  IF script # "results" THEN ResultsLast' = ResultsLast \/ ResultsLast' = FALSE
         ELSE built => ResultsLast' = TRUE
<1>1. evals \in Seq(Scripts)
  BY DEF TypeOK, PageOK
<1>2. CASE evals' = evals
  BY <1>1, <1>2 DEF Eval, ResultsLast
<1>3. CASE evals' = Append(evals, script)
  <2>1. evals' # <<>> /\ evals'[Len(evals')] = script
    BY <1>1, <1>3
  <2>2. QED
    BY <2>1 DEF ResultsLast
<1>4. QED
  BY <1>2, <1>3 DEF Eval

LEMMA TailLast ==
  ASSUME TypeOK, evals # <<>>, evals' = Tail(evals)
  PROVE  ResultsLast' = ResultsLast \/ ResultsLast' = FALSE
<1>1. evals \in Seq(Scripts)
  BY DEF TypeOK, PageOK
<1>2. CASE evals' = <<>>
  BY <1>2 DEF ResultsLast
<1>3. CASE evals' # <<>>
  <2>1. evals'[Len(evals')] = evals[Len(evals)]
    BY <1>1, <1>3
  <2>2. QED
    BY <1>3, <2>1 DEF ResultsLast
<1>4. QED
  BY <1>2, <1>3

LEMMA SessionNext ==
  ASSUME CleanInv, [Next]_vars
  PROVE  [Session!Next]_(Session!vars)
<1>0. /\ TypeOK /\ PageLives /\ OneClean /\ ResultsHavePage
      /\ phase \in 0..2 /\ cleans \in Nat /\ done \in Nat
  BY DEF CleanInv, TypeOK, CleanOK, WorkOK
<1>1. CASE UNCHANGED <<phase, done, built, evals>>
  BY <1>1, SameSession DEF ResultsLast
<1>2. CASE TrayClick
  <2>1. UNCHANGED <<phase, done, evals>> /\ (built' = built \/ built' = TRUE)
    BY <1>2 DEF TrayClick, Show, Hide, cleanVars, workVars, pageVars
  <2>2. CASE built' = built
    BY <1>1, <2>1, <2>2
  <2>3. CASE ~built /\ built' = TRUE
    <3>1. Session!OpenPage
      BY <2>1, <2>3 DEF Session!OpenPage, Stage
    <3>2. QED
      BY <3>1 DEF Session!Next
  <2>4. QED
    BY <1>0, <2>1, <2>2, <2>3 DEF TypeOK, PanelOK
<1>3. CASE HandleAction
  <2>1. built /\ built' = built /\ done' = done
    BY <1>0, <1>3 DEF HandleAction, PageLives, panelVars
  <2>2. ASSUME NEW script \in Scripts, script # "results", Eval(script), UNCHANGED cleanVars
        PROVE  [Session!Next]_(Session!vars)
    BY <1>0, <2>1, <2>2, EvalLast, SameSession DEF cleanVars
  <2>3. CASE CleanNow
    <3>1. CASE phase # 0
      BY <1>1, <2>1, <2>3, <3>1 DEF CleanNow
    <3>2. CASE phase = 0
      <4>1. done = 0 /\ phase' = 1 /\ evals' = evals
        BY <1>0, <2>3, <3>2 DEF CleanNow, OneClean
      <4>2. Session!Ask
        BY <2>1, <3>2, <4>1 DEF Session!Ask, Stage
      <4>3. QED
        BY <4>2 DEF Session!Next
    <3>3. QED
      BY <3>1, <3>2
  <2>4. StateScript \in Scripts \ {"results"} /\ {"memory", "running"} \subseteq Scripts
    BY DEF StateScript, Scripts
  <2>5. QED
    BY <1>3, <2>2, <2>3, <2>4 DEF HandleAction, Preview
<1>4. CASE TakeDone
  <2>1. /\ phase = 1 /\ done = 1 /\ done' = 0 /\ phase' = 2
        /\ UNCHANGED <<built, evals>>
    BY <1>0, <1>4 DEF TakeDone, OneClean, panelVars, pageVars
  <2>2. Session!Animate
    BY <2>1 DEF Session!Animate, Stage
  <2>3. QED
    BY <2>2 DEF Session!Next
<1>5. CASE TakeDryDone
  <2>1. Eval("report") /\ "report" \in Scripts /\ UNCHANGED <<phase, done, built>>
    BY <1>5 DEF TakeDryDone, Scripts, cleanVars, panelVars
  <2>2. QED
    BY <1>0, <2>1, EvalLast, SameSession
<1>6. CASE TickClean
  <2>0. UNCHANGED <<done, built>> /\ {"cleaning", "results"} \subseteq Scripts
    BY <1>6 DEF TickClean, panelVars, workVars, Scripts
  <2>1. CASE phase = 0 /\ UNCHANGED <<evals, phase>>
    BY <1>1, <2>0, <2>1
  <2>2. CASE Eval("cleaning") /\ UNCHANGED phase
    BY <1>0, <2>0, <2>2, EvalLast, SameSession
  <2>3. CASE phase = 2 /\ phase' = 0 /\ IF results THEN Eval("results") ELSE UNCHANGED evals
    <3>1. built /\ results
      BY <1>0, <2>3 DEF ResultsHavePage
    <3>2. ResultsLast' = TRUE
      BY <1>0, <2>0, <2>3, <3>1, EvalLast
    <3>3. Session!HandOver
      BY <2>0, <2>3, <3>1, <3>2 DEF Session!HandOver, Stage, ResultsLast
    <3>4. QED
      BY <3>3 DEF Session!Next
  <2>4. QED
    BY <1>6, <2>1, <2>2, <2>3 DEF TickClean
<1>7. CASE Release
  <2>1. UNCHANGED <<phase, done>>
    BY <1>7 DEF Release, cleanVars, workVars
  <2>2. CASE Unneeded
    <3>1. built /\ phase = 0 /\ ~built' /\ built' = FALSE /\ evals' = <<>>
      BY <1>7, <2>2 DEF Release, Unneeded, TearDown
    <3>2. Session!ClosePage
      BY <2>1, <3>1 DEF Session!ClosePage, Stage
    <3>3. QED
      BY <3>2 DEF Session!Next
  <2>3. CASE ~Unneeded
    BY <1>1, <1>7, <2>1, <2>3 DEF Release, panelVars, pageVars
  <2>4. QED
    BY <2>2, <2>3
<1>8. CASE CleanEnds
  <2>1. phase = 1 /\ done = 0 /\ done' = 1 /\ UNCHANGED <<phase, built, evals>>
    BY <1>0, <1>8 DEF CleanEnds, OneClean, cleanVars, panelVars, pageVars
  <2>2. Session!Answer
    BY <2>1 DEF Session!Answer, Stage
  <2>3. QED
    BY <2>2 DEF Session!Next
<1>9. CASE RunScript
  BY <1>0, <1>9, TailLast, SameSession DEF RunScript, panelVars, cleanVars, workVars
<1>10. CASE UserEvent
  BY <1>1, <1>10 DEF UserEvent, Hide, panelVars, cleanVars, workVars, pageVars
<1>11. QED
  BY <1>1, <1>2, <1>3, <1>4, <1>5, <1>6, <1>7, <1>8, <1>9, <1>10
     DEF Next, Loop, Environment, vars, cleanVars, panelVars, workVars, pageVars, Wake,
         TrayDrained, ActionsDrained, ResultsDrained, PreviewEnds, Ripen, HideAges,
         PageLoads, PageClick, Deliver, ToastFades, ClickOutside, PressItem, ReleaseItem

(***************************************************************************)
(* For queues of any length and every interleaving, the bar implements     *)
(* CleanSession: no answer is lost or handed over twice, and none is given *)
(* to a page other than the one that asked.                                *)
(***************************************************************************)
THEOREM SessionRefined == Spec => SessionSpec
<1>1. Init => Session!Init
  BY DEF Init, Stage, Session!Init
<1>2. CleanInv /\ [Next]_vars => [Session!Next]_(Session!vars)
  BY SessionNext
<1>3. QED
  BY <1>1, <1>2, CleanInductive, PTL DEF Spec, SessionSpec, Session!Spec

-----------------------------------------------------------------------------
(***************************************************************************)
(* Liveness.  The fairness is the specification's own; two kinds of        *)
(* premises stand for what the provers cannot do.  They do not look inside *)
(* ENABLED, so CanRun says that the loop and the actions of the other      *)
(* processes can be taken where their guards say so.  And a set of numbers *)
(* cannot be given by a temporal formula, so each induction over the       *)
(* length of a queue is a premise of the form P(0) /\ (\A n : P(n) =>      *)
(* P(n + 1)) => \A n : P(n), true of every behaviour; P(0) and P(n) =>     *)
(* P(n + 1) are proved.                                                    *)
(***************************************************************************)
CanRun ==
  /\ ENABLED <<Loop>>_vars
  /\ cleans > 0 => ENABLED <<CleanEnds>>_vars
  /\ previews > 0 => ENABLED <<PreviewEnds>>_vars
  /\ ~ripe => ENABLED <<Ripen>>_vars
  /\ evals # <<>> => ENABLED <<RunScript>>_vars
  /\ pc = "wait" /\ posted # <<>> => ENABLED <<Deliver>>_vars

Running == [][Next]_vars /\ [](CleanInv /\ Leaving) /\ Fairness /\ []CanRun

LEMMA FairRunning == FairSpec /\ []CanRun => Running
<1>1. Init => Leaving
  BY DEF Init, Leaving, AllOverruled
<1>2. CleanInv /\ Leaving /\ [Next]_vars => Leaving'
  BY LeavingNext
<1> QED
  BY <1>1, <1>2, CleanInductive, PTL DEF FairSpec, Spec, Running

-----------------------------------------------------------------------------
(***************************************************************************)
(* A pass of the closure ends.  What is left of it can be counted: clicks, *)
(* messages and answers still in its channels, threads that may add one,   *)
(* the stages ahead and a pass for every user event.                       *)
(***************************************************************************)
StagesLeft ==
  IF pc = "tray" THEN 5 ELSE IF pc = "actions" THEN 4 ELSE IF pc = "results" THEN 3
  ELSE IF pc = "tick" THEN 2 ELSE IF pc = "release" THEN 1 ELSE 0

Left ==
  10 * userEvents + StagesLeft + trayClicks + 3 * Len(rx) + 2 * (cleans + previews)
  + done + dryDone

Within(n) == Left <= n

In(stage) == pc = stage

LEMMA LeftType ==
  ASSUME TypeOK
  PROVE  /\ Left \in Nat /\ StagesLeft \in Nat
         /\ userEvents \in Nat /\ trayClicks \in Nat /\ Len(rx) \in Nat
         /\ cleans \in Nat /\ previews \in Nat /\ done \in Nat /\ dryDone \in Nat
<1>1. Len(rx) \in Nat
  BY DEF TypeOK, PageOK
<1> QED
  BY <1>1 DEF TypeOK, LoopOK, WorkOK, Left, StagesLeft

LEMMA LeftNext ==
  ASSUME TypeOK'
  PROVE  Left' \in Nat
<1>1. Len(rx') \in Nat
  BY DEF TypeOK, PageOK
<1>2. StagesLeft' \in Nat
  BY DEF StagesLeft
<1>3. /\ userEvents' \in Nat /\ trayClicks' \in Nat
      /\ cleans' \in Nat /\ previews' \in Nat /\ done' \in Nat /\ dryDone' \in Nat
  BY DEF TypeOK, LoopOK, WorkOK
<1>4. \A a, b, c, d, e, f, g \in Nat : 10 * a + b + c + 3 * d + 2 * (e + f) + g \in Nat
  OBVIOUS
<1> QED
  BY <1>1, <1>2, <1>3, <1>4 DEF Left

LEMMA LoopLeft ==
  ASSUME CleanInv, ~In("wait"), Loop
  PROVE  Left' < Left
<1> USE DEF In
<1>1. TypeOK /\ EventPending
  BY DEF CleanInv
<1>2. /\ userEvents \in Nat /\ trayClicks \in Nat /\ Len(rx) \in Nat
      /\ cleans \in Nat /\ previews \in Nat /\ done \in Nat /\ dryDone \in Nat
  BY <1>1, LeftType
<1> USE DEF Left, StagesLeft
<1>3. CASE UserEvent
  <2>1. UNCHANGED <<rx, trayClicks, cleans, previews, done, dryDone>>
    BY <1>3 DEF UserEvent, Hide, panelVars, pageVars, cleanVars, workVars
  <2> QED
    BY <1>1, <1>2, <1>3, <2>1 DEF UserEvent, EventPending
<1>4. CASE TrayClick
  <2>1. UNCHANGED <<pc, userEvents, rx, cleans, previews, done, dryDone>>
    BY <1>4 DEF TrayClick, Hide, Show, pageVars, cleanVars, workVars
  <2> QED
    BY <1>2, <1>4, <2>1 DEF TrayClick
<1>5. CASE HandleAction
  <2>1. UNCHANGED <<pc, userEvents, trayClicks, done, dryDone>>
    BY <1>5 DEF HandleAction, loopVars
  <2>2. Len(rx') = Len(rx) - 1
    BY <1>1, <1>5 DEF HandleAction, TypeOK, PageOK
  <2>3. \/ UNCHANGED <<cleans, previews>>
        \/ cleans' = cleans + 1 /\ previews' = previews
        \/ cleans' = cleans /\ previews' = previews + 1
    BY <1>2, <1>5 DEF HandleAction, Preview, CleanNow
  <2>4. StagesLeft' = StagesLeft
    BY <2>1
  <2> HIDE DEF StagesLeft
  <2>5. StagesLeft \in Nat
    BY <1>1, LeftType
  <2>6. CASE UNCHANGED <<cleans, previews>>
    BY <1>2, <2>1, <2>2, <2>4, <2>5, <2>6
  <2>7. CASE cleans' = cleans + 1 /\ previews' = previews
    BY <1>2, <2>1, <2>2, <2>4, <2>5, <2>7
  <2>8. CASE cleans' = cleans /\ previews' = previews + 1
    BY <1>2, <2>1, <2>2, <2>4, <2>5, <2>8
  <2> QED
    BY <2>3, <2>6, <2>7, <2>8
<1>6. CASE TakeDone \/ TakeDryDone
  <2>1. UNCHANGED <<pc, userEvents, trayClicks, rx, cleans, previews>>
    BY <1>6 DEF TakeDone, TakeDryDone, loopVars, pageVars
  <2> QED
    BY <1>2, <1>6, <2>1 DEF TakeDone, TakeDryDone
<1>7. CASE TrayDrained \/ ActionsDrained \/ ResultsDrained \/ TickClean
  <2>1. UNCHANGED <<userEvents, trayClicks, rx, cleans, previews, done, dryDone>>
    BY <1>7 DEF TrayDrained, ActionsDrained, ResultsDrained, TickClean, loopVars, workVars,
                pageVars
  <2>2. StagesLeft' < StagesLeft
    BY <1>7 DEF TrayDrained, ActionsDrained, ResultsDrained, TickClean
  <2> HIDE DEF StagesLeft
  <2>3. StagesLeft \in Nat /\ StagesLeft' \in Nat
    BY DEF StagesLeft
  <2> QED
    BY <1>2, <2>1, <2>2, <2>3
<1>8. CASE Release
  <2>1. UNCHANGED <<userEvents, trayClicks, cleans, previews, done, dryDone>>
    BY <1>8 DEF Release, loopVars, workVars
  <2>2. Len(rx') <= Len(rx) /\ Len(rx') \in Nat
    BY <1>2, <1>8 DEF Release, TearDown, pageVars
  <2>3. StagesLeft = 1 /\ StagesLeft' = 0
    BY <1>8 DEF Release
  <2> HIDE DEF StagesLeft
  <2> QED
    BY <1>2, <2>1, <2>2, <2>3
<1> QED
  BY <1>3, <1>4, <1>5, <1>6, <1>7, <1>8 DEF Loop, Wake

LEMMA OutsideLeft ==
  ASSUME CleanInv, ~In("wait"), Environment \/ UNCHANGED vars
  PROVE  Left' <= Left /\ pc' = pc
<1> USE DEF In
<1>1. TypeOK
  BY DEF CleanInv
<1>2. /\ userEvents \in Nat /\ trayClicks \in Nat /\ Len(rx) \in Nat /\ StagesLeft \in Nat
      /\ cleans \in Nat /\ previews \in Nat /\ done \in Nat /\ dryDone \in Nat
  BY <1>1, LeftType
<1> USE DEF Left
<1>3. CASE CleanEnds \/ PreviewEnds
  <2>1. UNCHANGED <<pc, userEvents, trayClicks, rx>>
    BY <1>3 DEF CleanEnds, PreviewEnds, loopVars, pageVars
  <2>2. StagesLeft' = StagesLeft
    BY <2>1 DEF StagesLeft
  <2>3. \/ cleans' = cleans - 1 /\ done' = done + 1 /\ UNCHANGED <<previews, dryDone>>
        \/ previews' = previews - 1 /\ dryDone' = dryDone + 1 /\ UNCHANGED <<cleans, done>>
    BY <1>3 DEF CleanEnds, PreviewEnds
  <2> QED
    BY <1>2, <2>1, <2>2, <2>3
<1>4. CASE UNCHANGED <<pc, userEvents, trayClicks, rx, cleans, previews, done, dryDone>>
  <2>1. StagesLeft' = StagesLeft
    BY <1>4 DEF StagesLeft
  <2> QED
    BY <1>2, <1>4, <2>1
<1>5. CASE UNCHANGED <<pc, loopVars, workVars, rx>>
  BY <1>4, <1>5 DEF loopVars, workVars
<1> QED
  BY <1>3, <1>4, <1>5
     DEF Environment, vars, loopVars, cleanVars, workVars, pageVars, Ripen, HideAges, PageLoads,
         RunScript, PageClick, Deliver, ToastFades, ClickOutside, PressItem, ReleaseItem

PassEnds(n) == Running => (Within(n) ~> In("wait"))

LEMMA PassEndsNow == PassEnds(0)
<1>1. CleanInv /\ Within(0) => In("wait")
  <2> SUFFICES ASSUME CleanInv, ~In("wait") PROVE Left > 0
    BY LeftType DEF Within, CleanInv
  <2>1. userEvents > 0 \/ StagesLeft > 0
    BY DEF CleanInv, TypeOK, Stages, EventPending, StagesLeft, In
  <2> QED
    BY <2>1, LeftType DEF CleanInv, Left
<1> QED
  BY <1>1, PTL DEF PassEnds, Running

LEMMA PassEndsLater ==
  ASSUME NEW n \in Nat
  PROVE  PassEnds(n) => PassEnds(n + 1)
<1>1. CleanInv /\ Within(n + 1) /\ [Next]_vars => Within(n + 1)' \/ In("wait")
  <2> SUFFICES ASSUME CleanInv, Within(n + 1), [Next]_vars, ~In("wait") PROVE Left' <= n + 1
    BY DEF Within
  <2>1. Left \in Nat /\ Left' \in Nat
    BY LeftType, LeftNext, TypeNext DEF CleanInv
  <2>2. Left' <= Left
    BY <2>1, LoopLeft, OutsideLeft DEF Next
  <2> QED
    BY <2>1, <2>2 DEF Within
<1>2. CleanInv /\ Within(n + 1) /\ <<Loop>>_vars => Within(n)' \/ In("wait")
  <2> SUFFICES ASSUME CleanInv, Within(n + 1), Loop, ~In("wait") PROVE Left' <= n
    BY DEF Within, Next
  <2>1. Left \in Nat /\ Left' \in Nat
    BY LeftType, LeftNext, LoopType DEF CleanInv
  <2> QED
    BY <2>1, LoopLeft DEF Within
<1>3. CanRun => ENABLED <<Loop>>_vars
  BY DEF CanRun
<1> QED
  BY <1>1, <1>2, <1>3, PTL DEF PassEnds, Running, Fairness

PassInduction ==
  PassEnds(0) /\ (\A n \in Nat : PassEnds(n) => PassEnds(n + 1))
    => \A n \in Nat : PassEnds(n)

Paced == Running /\ []PassInduction

Rests == <>In("wait")

\* So the main thread is in the run loop again and again.
LEMMA RestsAgain == Paced => []<>In("wait")
<1>1. ASSUME NEW n \in Nat PROVE PassInduction /\ Running /\ Within(n) => Rests
  <2>1. PassInduction => PassEnds(n)
    BY PassEndsNow, PassEndsLater DEF PassInduction
  <2> QED
    BY <2>1, PTL DEF PassEnds, Rests
<1>2. CleanInv => \E n \in Nat : Within(n)
  BY LeftType DEF CleanInv, Within
<1>3. Running => CleanInv
  BY PTL DEF Running
<1>4. PassInduction /\ Running => Rests
  BY <1>1, <1>2, <1>3
<1>5. Fairness => []Fairness
  BY PTL DEF Fairness
<1>6. Running => []Running
  BY <1>5, PTL DEF Running
<1> QED
  BY <1>4, <1>6, PTL DEF Paced, Rests

\* The closure goes through its stages in order.
LEMMA StagesInOrder ==
  ASSUME [Next]_vars
  PROVE  /\ In("wait") => (In("wait") \/ In("tray"))'
         /\ In("tray") => (In("tray") \/ In("actions"))'
         /\ In("actions") => (In("actions") \/ In("results"))'
         /\ In("results") => (In("results") \/ In("tick"))'
         /\ In("tick") => (In("tick") \/ In("release"))'
<1> USE DEF In
<1>1. CASE Loop
  BY <1>1 DEF Loop, Wake, UserEvent, TrayClick, TrayDrained, HandleAction, ActionsDrained,
              TakeDone, TakeDryDone, ResultsDrained, TickClean, Release
<1>2. CASE Environment
  BY <1>2 DEF Environment, CleanEnds, PreviewEnds, Ripen, HideAges, PageLoads, RunScript,
              Deliver, ToastFades, PageClick, ClickOutside, PressItem, ReleaseItem
<1> QED
  BY <1>1, <1>2 DEF Next, vars

\* It leaves the last two by one step each.
LEMMA StageLeft ==
  ASSUME [Next]_vars
  PROVE  /\ In("actions") => In("actions")' \/ ActionsDrained
         /\ In("results") => In("results")' \/ ResultsDrained
         /\ In("tick") => In("tick")' \/ TickClean
<1> USE DEF In
<1>1. CASE Loop
  BY <1>1 DEF Loop, Wake, UserEvent, TrayClick, TrayDrained, HandleAction, TakeDone, TakeDryDone,
              ActionsDrained, ResultsDrained, TickClean, Release
<1>2. CASE Environment
  BY <1>2 DEF Environment, CleanEnds, PreviewEnds, Ripen, HideAges, PageLoads, RunScript,
              Deliver, ToastFades, PageClick, ClickOutside, PressItem, ReleaseItem
<1> QED
  BY <1>1, <1>2 DEF Next, vars

\* And comes to each of them again and again.
LEMMA StagesAgain ==
  Paced => []<>In("actions") /\ []<>In("results") /\ []<>In("tick")
             /\ (In("actions") ~> In("results")) /\ (In("results") ~> In("tick"))
             /\ (In("tick") ~> In("release"))
<1>1. In("wait") /\ [Next]_vars => (In("wait") \/ In("tray"))'
  BY StagesInOrder
<1>2. In("wait") /\ <<Loop>>_vars => In("tray")'
  BY DEF In, Loop, Wake, UserEvent, TrayClick, TrayDrained, HandleAction, ActionsDrained,
         TakeDone, TakeDryDone, ResultsDrained, TickClean, Release
<1>3. In("tray") /\ [Next]_vars => (In("tray") \/ In("actions"))'
  BY StagesInOrder
<1>4. In("actions") /\ [Next]_vars => (In("actions") \/ In("results"))'
  BY StagesInOrder
<1>5. In("results") /\ [Next]_vars => (In("results") \/ In("tick"))'
  BY StagesInOrder
<1>6. In("tick") /\ [Next]_vars => (In("tick") \/ In("release"))'
  BY StagesInOrder
<1>7. /\ In("tray") => ~In("wait")
      /\ In("actions") => ~In("wait")
      /\ In("results") => ~In("wait")
      /\ In("tick") => ~In("wait")
  BY DEF In
<1>8. CanRun => ENABLED <<Loop>>_vars
  BY DEF CanRun
<1>9. Paced => []<>In("tray")
  BY <1>1, <1>2, <1>8, RestsAgain, PTL DEF Paced, Running, Fairness
<1>10. Paced => []<>In("actions")
  BY <1>3, <1>7, <1>9, RestsAgain, PTL DEF Paced, Running
<1>11. Paced => []<>In("results") /\ (In("actions") ~> In("results"))
  BY <1>4, <1>7, <1>10, RestsAgain, PTL DEF Paced, Running
<1>12. Paced => []<>In("tick") /\ (In("results") ~> In("tick"))
  BY <1>5, <1>7, <1>11, RestsAgain, PTL DEF Paced, Running
<1>13. Paced => (In("tick") ~> In("release"))
  BY <1>6, <1>7, RestsAgain, PTL DEF Paced, Running
<1> QED
  BY <1>10, <1>11, <1>12, <1>13, PTL

-----------------------------------------------------------------------------
(***************************************************************************)
(* A clean settles                                                         *)
(***************************************************************************)
Settled == phase = 0

Waits == phase = 1 /\ done = 0

Answered == phase = 1 /\ done > 0

Animated == phase = 2

Over == phase = 2 /\ ripe

\* What a step can do to a clean under way.
LEMMA CleanStep ==
  ASSUME CleanInv, [Next]_vars, phase # 0
  PROVE  \/ TakeDone
         \/ TickClean
         \/ CleanEnds /\ UNCHANGED <<pc, phase, ripe>>
         \/ Ripen
         \/ ~TakeDone /\ ~TickClean /\ UNCHANGED <<phase, done, cleans, ripe>>
<1>1. CASE HandleAction
  BY <1>1 DEF HandleAction, CleanNow, Preview, cleanVars, TakeDone, TickClean
<1>2. CASE CleanEnds
  BY <1>2 DEF CleanEnds, cleanVars
<1>3. CASE ~TakeDone /\ ~TickClean /\ ~HandleAction /\ ~CleanEnds /\ ~Ripen
  BY <1>3
     DEF Next, Loop, Environment, vars, cleanVars, workVars, Wake, UserEvent, TrayClick,
         TrayDrained, ActionsDrained, TakeDryDone, ResultsDrained, Release, PreviewEnds,
         HideAges, PageLoads, RunScript, PageClick, Deliver, ToastFades,
         ClickOutside, PressItem, ReleaseItem
<1> QED
  BY <1>1, <1>2, <1>3

LEMMA CleanMoves ==
  ASSUME CleanInv, [Next]_vars
  PROVE  /\ Waits => (Waits \/ Answered)'
         /\ Waits /\ CleanEnds => Answered'
         /\ Answered => (Answered \/ Animated)'
         /\ Animated => (Animated \/ Settled)'
         /\ Animated /\ Ripen => Over'
         /\ Over => (Over \/ Settled)'
<1> USE DEF Waits, Answered, Animated, Over, Settled
<1>1. /\ done \in Nat /\ cleans \in Nat /\ phase \in 0..2
      /\ phase = 2 => done = 0
  BY DEF CleanInv, TypeOK, WorkOK, CleanOK, OneClean
<1>2. CASE TakeDone
  <2>1. ~CleanEnds
    BY <1>1, <1>2 DEF TakeDone, CleanEnds
  <2>2. ~Ripen
    BY <1>2 DEF TakeDone, Ripen
  <2> QED
    BY <1>1, <1>2, <2>1, <2>2 DEF TakeDone
<1>3. CASE TickClean
  <2>1. pc' # pc
    BY <1>3 DEF TickClean
  <2>2. ~CleanEnds /\ ~Ripen
    BY <2>1 DEF CleanEnds, Ripen
  <2>3. done' = done
    BY <1>3 DEF TickClean, workVars
  <2>4. \/ UNCHANGED <<phase, ripe>>
        \/ Over /\ phase' = 0
    BY <1>3 DEF TickClean
  <2> QED
    BY <1>1, <2>2, <2>3, <2>4
<1>4. CASE CleanEnds /\ UNCHANGED <<pc, phase, ripe>>
  <2>1. done' = done + 1 /\ ripe' = ripe /\ phase' = phase /\ cleans > 0
    BY <1>4 DEF CleanEnds
  <2>2. phase # 2
    BY <1>1, <2>1 DEF CleanInv, OneClean
  <2> QED
    BY <1>1, <2>1, <2>2
<1>5. CASE Ripen
  BY <1>1, <1>5 DEF CleanEnds, Ripen, workVars
<1>6. CASE ~TakeDone /\ ~TickClean /\ UNCHANGED <<phase, done, cleans, ripe>>
  <2>1. ~CleanEnds
    <3>1. CleanEnds => cleans' = cleans - 1
      BY DEF CleanEnds
    <3>2. cleans' = cleans
      BY <1>6
    <3> QED
      BY <1>1, <3>1, <3>2
  <2>2. ~Ripen
    BY <1>6 DEF Ripen
  <2> QED
    BY <1>1, <1>6, <2>1, <2>2
<1> QED
  BY <1>2, <1>3, <1>4, <1>5, <1>6, CleanStep

\* An answer in the channel and an animation that is over get their stage.
LEMMA CleanStays ==
  ASSUME CleanInv, [Next]_vars
  PROVE  /\ Answered /\ In("results") => ((Answered /\ In("results")) \/ Animated)'
         /\ Over /\ In("tick") => ((Over /\ In("tick")) \/ Settled)'
<1>1. Answered => ~ResultsDrained
  BY DEF Answered, ResultsDrained
<1>2. Over /\ TickClean => Settled'
  BY DEF Over, TickClean, Settled
<1> QED
  BY <1>1, <1>2, CleanMoves, StageLeft

LEMMA Settles == Paced => []<>Settled
<1>1. CleanInv /\ Waits /\ [Next]_vars => (Waits \/ Answered)'
  BY CleanMoves
<1>2. CleanInv /\ Waits /\ <<CleanEnds>>_vars => Answered'
  BY CleanMoves DEF Next, Environment
<1>3. CleanInv /\ CanRun /\ Waits => ENABLED <<CleanEnds>>_vars
  BY DEF CleanInv, CanRun, Waits, OneClean, TypeOK, WorkOK
<1>4. Running => (Waits ~> Answered)
  BY <1>1, <1>2, <1>3, PTL DEF Running, Fairness
<1>5. CleanInv /\ Answered /\ [Next]_vars => (Answered \/ Animated)'
  BY CleanMoves
<1>6. CleanInv /\ Answered /\ In("results") /\ [Next]_vars
        => ((Answered /\ In("results")) \/ Animated)'
  BY CleanStays
<1>7. In("results") => ~In("tick")
  BY DEF In
<1>8. Paced => (Answered ~> Animated)
  BY <1>5, <1>6, <1>7, StagesAgain, PTL DEF Paced, Running
<1>9. CleanInv /\ Animated /\ [Next]_vars => (Animated \/ Settled)'
  BY CleanMoves
<1>10. CleanInv /\ Animated /\ <<Ripen>>_vars => Over'
  BY CleanMoves DEF Next, Environment
<1>11. CanRun /\ Animated => Over \/ ENABLED <<Ripen>>_vars
  BY DEF CanRun, Animated, Over
<1>12. CleanInv /\ Over /\ [Next]_vars => (Over \/ Settled)'
  BY CleanMoves
<1>13. Running => (Animated ~> (Over \/ Settled))
  BY <1>9, <1>10, <1>11, PTL DEF Running, Fairness
<1>14. CleanInv /\ Over /\ In("tick") /\ [Next]_vars => ((Over /\ In("tick")) \/ Settled)'
  BY CleanStays
<1>15. In("tick") => ~In("release")
  BY DEF In
<1>16. Paced => (Over ~> Settled)
  BY <1>12, <1>14, <1>15, StagesAgain, PTL DEF Paced, Running
<1>17. CleanInv => Waits \/ Answered \/ Animated \/ Settled
  BY DEF CleanInv, TypeOK, CleanOK, WorkOK, Waits, Answered, Animated, Settled
<1> QED
  BY <1>4, <1>8, <1>13, <1>16, <1>17, PTL DEF Paced, Running

(***************************************************************************)
(* If the child process ends, a clean gets through its animation and the   *)
(* bar accepts the next one, whatever happens to panel and page meanwhile. *)
(***************************************************************************)
THEOREM CleanSettlesHolds == FairSpec /\ []CanRun /\ []PassInduction => CleanSettles
<1>1. Settled => phase = 0
  BY DEF Settled
<1> QED
  BY <1>1, FairRunning, Settles, PTL DEF CleanSettles, Paced

-----------------------------------------------------------------------------
(***************************************************************************)
(* A script reaches the page: it moves up by every script run before it,   *)
(* and the page shows it, unless the page is gone or is still to load.     *)
(***************************************************************************)
Due(T, n) == \E i \in DOMAIN evals : i <= n /\ evals[i] \in T

Pending(T) == \E i \in DOMAIN evals : evals[i] \in T

Shown(T) == screen \in T \/ toast \in T \/ screen \in {"none", "blank"}

LEMMA PendingDue ==
  ASSUME TypeOK, NEW T, Pending(T)
  PROVE  \E n \in Nat : Due(T, n)
<1>1. PICK i \in DOMAIN evals : evals[i] \in T
  BY DEF Pending
<1>2. i \in Nat
  BY DEF TypeOK, PageOK
<1> QED
  BY <1>1, <1>2 DEF Due

\* What any step does to the queue: run its head, add one behind, or drop it
\* with the page.
LEMMA QueueStep ==
  ASSUME [Next]_vars
  PROVE  \/ evals' = evals
         \/ \E s \in Scripts : evals' = Append(evals, s)
         \/ RunScript
         \/ screen' = "none"
<1>1. CASE HandleAction
  BY <1>1 DEF HandleAction, Preview, CleanNow, Eval, StateScript, Scripts
<1>2. CASE TakeDryDone \/ TickClean
  BY <1>2 DEF TakeDryDone, TickClean, Eval, Scripts
<1>3. CASE Release
  BY <1>3 DEF Release, TearDown, pageVars
<1>4. CASE UserEvent \/ TrayClick
  BY <1>4 DEF UserEvent, TrayClick, Hide, Show, pageVars
<1>5. CASE UNCHANGED evals
  BY <1>5
<1> QED
  BY <1>1, <1>2, <1>3, <1>4, <1>5
     DEF Next, Loop, Environment, vars, pageVars, Wake, TrayDrained, ActionsDrained, TakeDone,
         ResultsDrained, CleanEnds, PreviewEnds, Ripen, HideAges, PageLoads, PageClick, Deliver,
         ToastFades, ClickOutside, PressItem, ReleaseItem

LEMMA DueRuns ==
  ASSUME TypeOK, NEW T \in SUBSET Scripts, NEW n \in Nat, Due(T, n + 1), RunScript
  PROVE  Due(T, n)' \/ Shown(T)'
<1>1. PICK i \in DOMAIN evals : i <= n + 1 /\ evals[i] \in T
  BY DEF Due
<1>2. evals \in Seq(Scripts) /\ evals' = Tail(evals) /\ evals # <<>>
  BY DEF RunScript, TypeOK, PageOK
<1>3. i \in Nat /\ i >= 1
  BY <1>2
<1>4. CASE i = 1
  <2>1. Head(evals) \in T
    BY <1>1, <1>2, <1>4
  <2>2. CASE screen = "blank"
    BY <2>2 DEF RunScript, Shown
  <2>3. CASE screen # "blank"
    BY <2>1, <2>3 DEF RunScript, Shown
  <2> QED
    BY <2>2, <2>3
<1>5. CASE i > 1
  <2>1. i - 1 \in DOMAIN Tail(evals) /\ Tail(evals)[i - 1] = evals[i]
    BY <1>2, <1>3, <1>5
  <2>2. i - 1 <= n
    BY <1>1, <1>3
  <2>3. i - 1 \in DOMAIN evals' /\ evals'[i - 1] \in T
    BY <1>1, <1>2, <2>1
  <2> QED
    BY <2>2, <2>3 DEF Due
<1> QED
  BY <1>3, <1>4, <1>5

LEMMA DueStays ==
  ASSUME TypeOK, NEW T \in SUBSET Scripts, NEW n \in Nat, Due(T, n), [Next]_vars, ~RunScript
  PROVE  Due(T, n)' \/ Shown(T)'
<1>1. PICK i \in DOMAIN evals : i <= n /\ evals[i] \in T
  BY DEF Due
<1>2. evals \in Seq(Scripts)
  BY DEF TypeOK, PageOK
<1>3. ASSUME NEW s \in Scripts, evals' = Append(evals, s)
      PROVE  i \in DOMAIN evals' /\ evals'[i] = evals[i]
  BY <1>2, <1>3
<1>4. CASE screen' = "none"
  BY <1>4 DEF Shown
<1>5. CASE evals' = evals
  BY <1>1, <1>5 DEF Due
<1> QED
  BY <1>1, <1>3, <1>4, <1>5, QueueStep DEF Due

ScriptShown(T, n) == Running => (Due(T, n) ~> Shown(T))

LEMMA ScriptShownNow ==
  ASSUME NEW T \in SUBSET Scripts
  PROVE  ScriptShown(T, 0)
<1>1. TypeOK => ~Due(T, 0)
  BY DEF TypeOK, PageOK, Due
<1>2. CleanInv => TypeOK
  BY DEF CleanInv
<1> QED
  BY <1>1, <1>2, PTL DEF ScriptShown, Running

LEMMA ScriptShownLater ==
  ASSUME NEW T \in SUBSET Scripts, NEW n \in Nat
  PROVE  ScriptShown(T, n) => ScriptShown(T, n + 1)
<1>1. CleanInv /\ Due(T, n + 1) /\ [Next]_vars
        => (Due(T, n + 1) \/ Due(T, n) \/ Shown(T))'
  BY DueRuns, DueStays DEF CleanInv
<1>2. CleanInv /\ Due(T, n + 1) /\ <<RunScript>>_vars => (Due(T, n) \/ Shown(T))'
  BY DueRuns DEF CleanInv
<1>3. CanRun /\ Due(T, n + 1) => ENABLED <<RunScript>>_vars
  BY DEF CanRun, Due
<1> QED
  BY <1>1, <1>2, <1>3, PTL DEF ScriptShown, Running, Fairness

ScriptInduction(T) ==
  ScriptShown(T, 0) /\ (\A n \in Nat : ScriptShown(T, n) => ScriptShown(T, n + 1))
    => \A n \in Nat : ScriptShown(T, n)

WillShow(T) == <>Shown(T)

Reaches(T) == []ScriptInduction(T) => (Pending(T) ~> Shown(T))

LEMMA PendingShown ==
  ASSUME NEW T \in SUBSET Scripts
  PROVE  Running => Reaches(T)
<1>1. ASSUME NEW n \in Nat PROVE ScriptInduction(T) /\ Running /\ Due(T, n) => WillShow(T)
  <2>1. ScriptInduction(T) => ScriptShown(T, n)
    BY ScriptShownNow, ScriptShownLater DEF ScriptInduction
  <2> QED
    BY <2>1, PTL DEF ScriptShown, WillShow
<1>2. CleanInv /\ Pending(T) => \E n \in Nat : Due(T, n)
  BY PendingDue DEF CleanInv
<1>3. Running => CleanInv
  BY PTL DEF Running
<1>4. ScriptInduction(T) /\ Running /\ Pending(T) => WillShow(T)
  BY <1>1, <1>2, <1>3
<1>5. Fairness => []Fairness
  BY PTL DEF Fairness
<1>6. Running => []Running
  BY <1>5, PTL DEF Running
<1> QED
  BY <1>4, <1>6, PTL DEF WillShow, Reaches

-----------------------------------------------------------------------------
(***************************************************************************)
(* The cleaning screen is left.  While it is up no button can be pressed,  *)
(* so the messages under way drain; then a clean that is running settles,  *)
(* and Leaving has put a reply in the queue.                               *)
(***************************************************************************)
Cleans == screen = "cleaning"

Unsent(n) == Cleans /\ Len(posted) <= n

Sent == Cleans /\ posted = <<>>

Quiet == Cleans /\ posted = <<>> /\ rx = <<>>

\* What a step does to the messages of a page on its cleaning screen.
LEMMA MessageStep ==
  ASSUME [Next]_vars, Cleans
  PROVE  \/ ~Cleans'
         \/ Deliver
         \/ /\ posted' = posted
            /\ \/ rx' = rx
               \/ rx # <<>> /\ rx' = Tail(rx)
<1> USE DEF Cleans
<1>1. CASE HandleAction
  BY <1>1 DEF HandleAction
<1>2. CASE TakeDryDone \/ TickClean
  BY <1>2 DEF TakeDryDone, TickClean
<1>3. CASE Release
  BY <1>3 DEF Release, TearDown, pageVars
<1>4. CASE UserEvent \/ TrayClick
  BY <1>4 DEF UserEvent, TrayClick, Hide, Show, pageVars
<1>5. CASE PageLoads
  BY <1>5 DEF PageLoads
<1>6. ASSUME NEW a \in Actions, PageClick(a) PROVE FALSE
  <2>1. Buttons("cleaning") = {}
    BY DEF Buttons
  <2> QED
    BY <1>6, <2>1 DEF PageClick
<1>7. CASE UNCHANGED <<posted, rx>>
  BY <1>7
<1> QED
  BY <1>1, <1>2, <1>3, <1>4, <1>5, <1>6, <1>7
     DEF Next, Loop, Environment, vars, pageVars, Wake, TrayDrained, ActionsDrained, TakeDone,
         ResultsDrained, CleanEnds, PreviewEnds, Ripen, HideAges, RunScript, ToastFades,
         ClickOutside, PressItem, ReleaseItem

LEMMA MessagesDrain ==
  ASSUME CleanInv, [Next]_vars
  PROVE  /\ \A n \in Nat : Unsent(n) => (Unsent(n) \/ ~Cleans)'
         /\ \A n \in Nat : Unsent(n + 1) /\ Deliver => (Unsent(n) \/ ~Cleans)'
         /\ Sent => (Sent \/ ~Cleans)'
         /\ Sent /\ In("actions") => ((Sent /\ In("actions")) \/ Quiet \/ ~Cleans)'
         /\ Quiet => (Quiet \/ ~Cleans)'
<1>1. posted \in Seq(Actions) /\ Len(posted) \in Nat
  BY DEF CleanInv, TypeOK, PageOK
<1>2. Deliver => posted # <<>> /\ Len(posted') = Len(posted) - 1
  BY <1>1 DEF Deliver
<1>3. \A n \in Nat : Unsent(n) => (Unsent(n) \/ ~Cleans)'
  BY <1>1, <1>2, MessageStep DEF Unsent
<1>4. \A n \in Nat : Unsent(n + 1) /\ Deliver => (Unsent(n) \/ ~Cleans)'
  BY <1>1, <1>2 DEF Unsent
<1>5. Sent => (Sent \/ ~Cleans)'
  BY <1>2, MessageStep DEF Sent
<1>6. Quiet => (Quiet \/ ~Cleans)'
  BY <1>2, MessageStep DEF Quiet, Cleans
<1>7. Sent /\ ActionsDrained => Quiet'
  BY DEF Sent, Cleans, Quiet, ActionsDrained, pageVars
<1> QED
  BY <1>3, <1>4, <1>5, <1>6, <1>7, StageLeft

Drains(n) == Paced => (Unsent(n) ~> (Sent \/ ~Cleans))

LEMMA DrainsNow == Drains(0)
<1>1. CleanInv /\ Unsent(0) => Sent
  BY DEF CleanInv, TypeOK, PageOK, Unsent, Sent
<1> QED
  BY <1>1, PTL DEF Drains, Paced, Running

LEMMA DrainsLater ==
  ASSUME NEW n \in Nat
  PROVE  Drains(n) => Drains(n + 1)
<1>1. n + 1 \in Nat
  OBVIOUS
<1>2. CleanInv /\ Unsent(n + 1) /\ [Next]_vars => (Unsent(n + 1) \/ ~Cleans)'
  BY <1>1, MessagesDrain
<1>3. CleanInv /\ Unsent(n + 1) /\ <<Deliver>>_vars => (Unsent(n) \/ ~Cleans)'
  BY MessagesDrain DEF Next, Environment
<1>4. CanRun /\ In("wait") /\ Unsent(n + 1) => Sent \/ ENABLED <<Deliver>>_vars
  BY DEF CanRun, In, Unsent, Sent
<1> QED
  BY <1>2, <1>3, <1>4, RestsAgain, PTL DEF Drains, Paced, Running, Fairness

DrainInduction ==
  Drains(0) /\ (\A n \in Nat : Drains(n) => Drains(n + 1)) => \A n \in Nat : Drains(n)

WillDrain == <>(Sent \/ ~Cleans)

LEMMA MessagesSent == Paced /\ []DrainInduction => (Cleans ~> (Sent \/ ~Cleans))
<1>1. ASSUME NEW n \in Nat PROVE DrainInduction /\ Paced /\ Unsent(n) => WillDrain
  <2>1. DrainInduction => Drains(n)
    BY DrainsNow, DrainsLater DEF DrainInduction
  <2> QED
    BY <2>1, PTL DEF Drains, WillDrain
<1>2. CleanInv /\ Cleans => \E n \in Nat : Unsent(n)
  <2>1. CleanInv => Len(posted) \in Nat
    BY DEF CleanInv, TypeOK, PageOK
  <2> QED
    BY <2>1 DEF Unsent
<1>3. Paced => CleanInv
  BY PTL DEF Paced, Running
<1>4. DrainInduction /\ Paced /\ Cleans => WillDrain
  BY <1>1, <1>2, <1>3
<1>5. Fairness => []Fairness
  BY PTL DEF Fairness
<1>6. Paced => []Paced
  BY <1>5, PTL DEF Paced, Running
<1> QED
  BY <1>4, <1>6, PTL DEF WillDrain

(***************************************************************************)
(* The user is never left on the cleaning screen, however long the queues. *)
(***************************************************************************)
THEOREM CleaningLeavesHolds ==
  /\ FairSpec /\ []CanRun
  /\ []PassInduction /\ []DrainInduction /\ []ScriptInduction(Replies)
  => CleaningLeaves
<1>1. CleanInv /\ Sent /\ [Next]_vars => (Sent \/ ~Cleans)'
  BY MessagesDrain
<1>2. CleanInv /\ Sent /\ In("actions") /\ [Next]_vars
        => ((Sent /\ In("actions")) \/ Quiet \/ ~Cleans)'
  BY MessagesDrain
<1>3. In("actions") => ~In("results")
  BY DEF In
<1>4. Paced => (Sent ~> (Quiet \/ ~Cleans))
  BY <1>1, <1>2, <1>3, StagesAgain, PTL DEF Paced, Running
<1>5. CleanInv /\ Quiet /\ [Next]_vars => (Quiet \/ ~Cleans)'
  BY MessagesDrain
<1>6. Paced => (Quiet ~> ((Quiet /\ Settled) \/ ~Cleans))
  BY <1>5, Settles, PTL DEF Paced, Running
<1>7. Leaving /\ Quiet /\ Settled => Pending(Replies)
  BY DEF Leaving, Quiet, Cleans, Settled, Asks, Overruled, Pending
<1>8. Replies \in SUBSET Scripts
  BY DEF Replies, Scripts
<1>9. CleanInv /\ Shown(Replies) => ~Cleans
  BY DEF CleanInv, TypeOK, PageOK, Shown, Replies, Cleans
<1>10. Running => Reaches(Replies)
  BY <1>8, PendingShown
<1>11. Paced /\ []DrainInduction /\ []ScriptInduction(Replies) => (Cleans ~> ~Cleans)
  BY <1>4, <1>6, <1>7, <1>9, <1>10, MessagesSent, PTL DEF Paced, Running, Reaches
<1>12. screen = "cleaning" => Cleans
  BY DEF Cleans
<1>13. ~Cleans => screen # "cleaning"
  BY DEF Cleans
<1> QED
  BY <1>11, <1>12, <1>13, FairRunning, PTL DEF CleaningLeaves, Paced

-----------------------------------------------------------------------------
(***************************************************************************)
(* A dry-run is reported                                                   *)
(***************************************************************************)
Asked == previews > 0

Answers == dryDone > 0

LEMMA PreviewMoves ==
  ASSUME CleanInv, [Next]_vars
  PROVE  /\ Asked => (Asked \/ Answers)'
         /\ Asked /\ PreviewEnds => Answers'
         /\ Answers => (Answers \/ Pending({"report"}) \/ Shown({"report"}))'
<1> USE DEF Asked, Answers
<1>1. previews \in Nat /\ dryDone \in Nat /\ evals \in Seq(Scripts)
  BY DEF CleanInv, TypeOK, WorkOK, PageOK
<1>2. CASE PreviewEnds
  BY <1>1, <1>2 DEF PreviewEnds
<1>3. CASE TakeDryDone
  <2>1. previews' = previews /\ ~PreviewEnds
    BY <1>1, <1>3 DEF TakeDryDone, PreviewEnds
  <2>2. CASE built
    <3>1. evals' = Append(evals, "report")
      BY <1>3, <2>2 DEF TakeDryDone, Eval
    <3>2. Len(evals') \in DOMAIN evals' /\ evals'[Len(evals')] = "report"
      BY <1>1, <3>1 DEF Scripts
    <3> QED
      BY <2>1, <3>2 DEF Pending
  <2>3. CASE ~built
    BY <1>3, <2>1, <2>3 DEF CleanInv, PageLives, TakeDryDone, Shown
  <2> QED
    BY <2>2, <2>3
<1>4. CASE HandleAction
  BY <1>1, <1>4 DEF HandleAction, Preview, CleanNow, PreviewEnds, loopVars
<1>5. CASE ~PreviewEnds /\ ~TakeDryDone /\ ~HandleAction
  BY <1>5
     DEF Next, Loop, Environment, vars, workVars, Wake, UserEvent, TrayClick, TrayDrained,
         ActionsDrained, TakeDone, ResultsDrained, TickClean, Release, CleanEnds, Ripen,
         HideAges, PageLoads, RunScript, PageClick, Deliver, ToastFades, ClickOutside,
         PressItem, ReleaseItem
<1> QED
  BY <1>2, <1>3, <1>4, <1>5

(***************************************************************************)
(* Every dry-run that was asked for is reported in the page, unless that   *)
(* page is gone or rebuilt, however many run at once.                      *)
(***************************************************************************)
THEOREM PreviewReportedHolds ==
  FairSpec /\ []CanRun /\ []PassInduction /\ []ScriptInduction({"report"}) => PreviewReported
<1>1. CleanInv /\ Asked /\ [Next]_vars => (Asked \/ Answers)'
  BY PreviewMoves
<1>2. CleanInv /\ Asked /\ <<PreviewEnds>>_vars => Answers'
  BY PreviewMoves DEF Next, Environment
<1>3. CanRun /\ Asked => ENABLED <<PreviewEnds>>_vars
  BY DEF CanRun, Asked
<1>4. Running => (Asked ~> Answers)
  BY <1>1, <1>2, <1>3, PTL DEF Running, Fairness
<1>5. CleanInv /\ Answers /\ [Next]_vars
        => (Answers \/ Pending({"report"}) \/ Shown({"report"}))'
  BY PreviewMoves
<1>6. CleanInv /\ Answers /\ In("results") /\ [Next]_vars
        => ((Answers /\ In("results")) \/ Pending({"report"}) \/ Shown({"report"}))'
  <2>1. Answers => ~ResultsDrained
    BY DEF Answers, ResultsDrained
  <2> QED
    BY <2>1, PreviewMoves, StageLeft
<1>7. In("results") => ~In("tick")
  BY DEF In
<1>8. Paced => (Answers ~> (Pending({"report"}) \/ Shown({"report"})))
  BY <1>5, <1>6, <1>7, StagesAgain, PTL DEF Paced, Running
<1>9. {"report"} \in SUBSET Scripts
  BY DEF Scripts
<1>10. Running => Reaches({"report"})
  BY <1>9, PendingShown
<1>11. CleanInv /\ Shown({"report"}) => toast = "report" \/ screen \in {"none", "blank"}
  BY DEF CleanInv, TypeOK, PageOK, Screens, Shown
<1>12. previews > 0 => Asked
  BY DEF Asked
<1> QED
  BY <1>4, <1>8, <1>10, <1>11, <1>12, FairRunning,
     PTL DEF Paced, Running, Reaches, PreviewReported
=============================================================================
