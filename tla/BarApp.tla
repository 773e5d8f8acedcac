------------------------------- MODULE BarApp -------------------------------
(***************************************************************************)
(* The menu bar app (bar/src/main.rs run_tray, bar/src/panel.rs, the       *)
(* script of bar/src/panel.html): one event loop on the main thread, whose *)
(* closure runs for every event; a WebView whose page lives in another     *)
(* process and exchanges messages with the loop; background threads that   *)
(* run the macleaner binary and answer over a channel.                     *)
(*                                                                         *)
(* A pass of the closure is cut at its own loops: user event, tray clicks, *)
(* page actions, thread results, animation, release.  Threads and the page *)
(* may act between any two of these steps; what runs on the main thread    *)
(* (input, message delivery) waits for the end of the pass.                *)
(***************************************************************************)
EXTENDS Naturals, Sequences

CONSTANTS
    MaxQueue,      \* bound on messages between the page and the loop
    MaxPreviews,   \* bound on dry-runs under way or unread
    QuickClicks    \* is the mouse button held for less than 350 ms?

ASSUME BoundAssumption == MaxQueue \in Nat /\ MaxPreviews \in Nat /\ QuickClicks \in BOOLEAN

VARIABLES
    pc,            \* where the main thread is; "wait": inside the run loop
    userEvents,    \* dismiss events sent through the EventLoopProxy
    held,          \* the mouse button is down on the status item
    trayClicks,    \* clicks in the tray-icon channel
    built,         \* Panel.inner is Some
    visible,       \* Panel.visible
    armed,         \* dismiss triggers (key monitor and observer) installed
    lastHide,      \* last_hide: "none", "fresh" (under 350 ms ago) or "stale"
    phase,         \* Clean.phase
    results,       \* Clean.results is Some
    ripe,          \* a second has passed since Clean.anim_start
    cleans,        \* threads waiting for `macleaner run --force`
    previews,      \* threads waiting for `macleaner dry-run`
    done,          \* CleanMsg::Done in the channel
    dryDone,       \* CleanMsg::DryDone in the channel
    marked,        \* last-run holds a stamp
    screen,        \* what the page shows; "none": no page, "blank": loading
    toast,         \* text of the page's toast
    posted,        \* page messages under way to the main thread
    rx,            \* page messages delivered to Inner.rx
    evals,         \* scripts under way to the page
    closing        \* history: the press under way found the panel open

loopVars  == <<userEvents, held, trayClicks, closing>>
panelVars == <<built, visible, armed, lastHide>>
cleanVars == <<phase, results, ripe>>
workVars  == <<cleans, previews, done, dryDone, marked>>
pageVars  == <<screen, toast, posted, rx, evals>>

vars == <<pc, loopVars, panelVars, cleanVars, workVars, pageVars>>

Stages == {"wait", "event", "tray", "actions", "results", "tick", "release"}
Screens == {"none", "blank", "idle", "onboarding", "cleaning", "results", "memory"}
Actions == {"ready", "mem", "preview", "cleanNow"}
Scripts == {"idle", "onboarding", "cleaning", "results", "memory", "running", "report"}

LoopOK ==
    /\ userEvents \in Nat /\ trayClicks \in Nat
    /\ held \in BOOLEAN /\ closing \in BOOLEAN

PanelOK ==
    /\ built \in BOOLEAN /\ visible \in BOOLEAN
    /\ armed \in Nat
    /\ lastHide \in {"none", "fresh", "stale"}

CleanOK == phase \in 0..2 /\ results \in BOOLEAN /\ ripe \in BOOLEAN

WorkOK ==
    /\ cleans \in Nat /\ previews \in Nat /\ done \in Nat /\ dryDone \in Nat
    /\ marked \in BOOLEAN

PageOK ==
    /\ screen \in Screens
    /\ toast \in {"hidden", "running", "report"}
    /\ posted \in Seq(Actions) /\ rx \in Seq(Actions) /\ evals \in Seq(Scripts)

TypeOK == pc \in Stages /\ LoopOK /\ PanelOK /\ CleanOK /\ WorkOK /\ PageOK

Init ==
    /\ pc = "wait"
    /\ userEvents = 0 /\ held = FALSE /\ trayClicks = 0 /\ closing = FALSE
    /\ built = FALSE /\ visible = FALSE /\ armed = 0 /\ lastHide = "none"
    /\ phase = 0 /\ results = FALSE /\ ripe = FALSE
    /\ cleans = 0 /\ previews = 0 /\ done = 0 /\ dryDone = 0
    /\ marked \in BOOLEAN
    /\ screen = "none" /\ toast = "hidden"
    /\ posted = <<>> /\ rx = <<>> /\ evals = <<>>

-----------------------------------------------------------------------------
(* Panel *)

\* Panel::eval.  Two progress scripts in a row leave the page as one does.
Eval(script) ==
    evals' = IF ~built \/ (script = "cleaning" /\ evals # <<>> /\ evals[Len(evals)] = script)
               THEN evals
               ELSE Append(evals, script)

\* Panel::show on a hidden panel: the first one builds the page.
Show ==
    /\ built' = TRUE
    /\ visible' = TRUE
    /\ armed' = armed + 1
    /\ screen' = IF built THEN screen ELSE "blank"
    /\ UNCHANGED <<lastHide, toast, posted, rx, evals>>

\* Variant: hide leaves the triggers installed.
Hide_KeepsTriggers ==
    /\ visible' = FALSE
    /\ lastHide' = "fresh"
    /\ UNCHANGED <<built, armed, pageVars>>

\* Panel::hide takes the dismiss triggers away; every caller notes the time.
Hide ==
    /\ armed' = 0
    /\ visible' = FALSE
    /\ lastHide' = "fresh"
    /\ UNCHANGED <<built, pageVars>>

-----------------------------------------------------------------------------
(* One pass of the event-loop closure *)

\* The run loop hands the closure an event that is not a user event: a timer,
\* the end of input handling.  The 120 s timer makes one come eventually.
Wake ==
    /\ pc = "wait"
    /\ pc' = "tray"
    /\ UNCHANGED <<loopVars, panelVars, cleanVars, workVars, pageVars>>

\* Event::UserEvent(())
UserEvent ==
    /\ pc = "event"
    /\ pc' = "tray"
    /\ userEvents' = userEvents - 1
    /\ IF visible THEN Hide ELSE UNCHANGED <<panelVars, pageVars>>
    /\ UNCHANGED <<held, trayClicks, closing, cleanVars, workVars>>

\* Variant: a click on a closed panel always opens it.
TrayClick_NoDebounce ==
    /\ pc = "tray"
    /\ trayClicks > 0
    /\ trayClicks' = trayClicks - 1
    /\ closing' = FALSE
    /\ IF visible THEN Hide ELSE Show
    /\ UNCHANGED <<pc, userEvents, held, cleanVars, workVars>>

\* One click out of the tray channel.
TrayClick ==
    /\ pc = "tray"
    /\ trayClicks > 0
    /\ trayClicks' = trayClicks - 1
    /\ closing' = FALSE
    /\ \/ /\ ~visible
          /\ lastHide = "fresh"
          /\ lastHide' = "none"
          /\ UNCHANGED <<built, visible, armed, pageVars>>
       \/ visible /\ Hide
       \/ ~visible /\ lastHide # "fresh" /\ Show
    /\ UNCHANGED <<pc, userEvents, held, cleanVars, workVars>>

TrayDrained ==
    /\ pc = "tray"
    /\ trayClicks = 0
    /\ pc' = "actions"
    /\ UNCHANGED <<loopVars, panelVars, cleanVars, workVars, pageVars>>

\* send_state: first-run onboarding until last-run holds a stamp.
StateScript == IF marked THEN "idle" ELSE "onboarding"

\* Variant: every cleanNow starts a thread.
CleanNow_Unguarded ==
    /\ phase' = 1
    /\ ripe' = FALSE
    /\ cleans' = cleans + 1
    /\ UNCHANGED <<results, previews, evals>>

\* handle_action, "cleanNow": refused while a clean is under way or animated.
CleanNow ==
    /\ IF phase # 0
         THEN UNCHANGED <<phase, ripe, cleans>>
         ELSE /\ phase' = 1
              /\ ripe' = FALSE
              /\ cleans' = cleans + 1
    /\ UNCHANGED <<results, previews, evals>>

\* handle_action, "preview": a thread for every click.
Preview ==
    /\ Eval("running")
    /\ previews' = previews + 1
    /\ UNCHANGED <<cleanVars, cleans>>

\* handle_action on the oldest delivered message.
HandleAction ==
    /\ pc = "actions"
    /\ rx # <<>>
    /\ rx' = Tail(rx)
    /\ \/ Head(rx) = "ready" /\ Eval(StateScript) /\ UNCHANGED <<cleanVars, cleans, previews>>
       \/ Head(rx) = "mem" /\ Eval("memory") /\ UNCHANGED <<cleanVars, cleans, previews>>
       \/ Head(rx) = "preview" /\ Preview
       \/ Head(rx) = "cleanNow" /\ CleanNow
    /\ UNCHANGED <<pc, loopVars, panelVars, done, dryDone, marked, screen, toast, posted>>

ActionsDrained ==
    /\ pc = "actions"
    /\ rx = <<>>
    /\ pc' = "results"
    /\ UNCHANGED <<loopVars, panelVars, cleanVars, workVars, pageVars>>

\* Variant: an answer that finds the panel closed is thrown away.
TakeDone_OnlyVisible ==
    /\ pc = "results"
    /\ done > 0
    /\ done' = done - 1
    /\ IF visible THEN phase' = 2 /\ results' = TRUE /\ ripe' = FALSE
                  ELSE UNCHANGED cleanVars
    /\ UNCHANGED <<pc, loopVars, panelVars, cleans, previews, dryDone, marked, pageVars>>

\* CleanMsg::Done starts the final animation.
TakeDone ==
    /\ pc = "results"
    /\ done > 0
    /\ done' = done - 1
    /\ phase' = 2
    /\ results' = TRUE
    /\ ripe' = FALSE
    /\ UNCHANGED <<pc, loopVars, panelVars, cleans, previews, dryDone, marked, pageVars>>

\* Variant: a dry-run that ends during a clean is not reported.
TakeDryDone_IdleOnly ==
    /\ pc = "results"
    /\ dryDone > 0
    /\ dryDone' = dryDone - 1
    /\ IF phase = 0 THEN Eval("report") ELSE UNCHANGED evals
    /\ UNCHANGED <<pc, loopVars, panelVars, cleanVars, cleans, previews, done, marked,
                   screen, toast, posted, rx>>

\* CleanMsg::DryDone: the toast is lost where there is no page.
TakeDryDone ==
    /\ pc = "results"
    /\ dryDone > 0
    /\ dryDone' = dryDone - 1
    /\ Eval("report")
    /\ UNCHANGED <<pc, loopVars, panelVars, cleanVars, cleans, previews, done, marked,
                   screen, toast, posted, rx>>

ResultsDrained ==
    /\ pc = "results"
    /\ done = 0 /\ dryDone = 0
    /\ pc' = "tick"
    /\ UNCHANGED <<loopVars, panelVars, cleanVars, workVars, pageVars>>

\* Variant: the animation ends without handing over the results.
TickClean_NoResults ==
    /\ pc = "tick"
    /\ pc' = "release"
    /\ IF phase = 1 \/ (phase = 2 /\ ~ripe) THEN Eval("cleaning") ELSE UNCHANGED evals
    /\ phase' = IF phase = 2 /\ ripe THEN 0 ELSE phase
    /\ results' = (results /\ phase' # 0)
    /\ UNCHANGED <<loopVars, panelVars, ripe, workVars, screen, toast, posted, rx>>

\* Variant: the end of the animation counts the phase on instead of resetting it.
TickClean_NextPhase ==
    /\ pc = "tick"
    /\ pc' = "release"
    /\ IF phase = 1 \/ (phase = 2 /\ ~ripe) THEN Eval("cleaning")
          ELSE IF results THEN Eval("results") ELSE UNCHANGED evals
    /\ phase' = IF phase = 2 /\ ripe THEN phase + 1 ELSE phase
    /\ results' = (results /\ phase' = phase)
    /\ UNCHANGED <<loopVars, panelVars, ripe, workVars, screen, toast, posted, rx>>

\* tick_clean: progress until the animation is over, then the results.
TickClean ==
    /\ pc = "tick"
    /\ pc' = "release"
    /\ \/ phase = 0 /\ UNCHANGED <<evals, phase, results>>
       \/ /\ phase = 1 \/ (phase = 2 /\ ~ripe)
          /\ Eval("cleaning")
          /\ UNCHANGED <<phase, results>>
       \/ /\ phase = 2 /\ ripe
          /\ IF results THEN Eval("results") ELSE UNCHANGED evals
          /\ results' = FALSE
          /\ phase' = 0
    /\ UNCHANGED <<loopVars, panelVars, ripe, workVars, screen, toast, posted, rx>>

\* Panel::release: the page goes, with every message it has not been given.
TearDown ==
    /\ built' = FALSE
    /\ armed' = 0
    /\ screen' = "none"
    /\ toast' = "hidden"
    /\ posted' = <<>> /\ rx' = <<>> /\ evals' = <<>>
    /\ UNCHANGED <<visible, lastHide>>

\* Variant: the page goes as soon as the panel is closed.
Unneeded_WhenClosed == built /\ ~visible

\* Variant: only a panel just closed is looked at.
Unneeded_JustClosed == built /\ ~visible /\ phase = 0 /\ lastHide = "fresh"

Unneeded == built /\ ~visible /\ phase = 0

\* The end of the closure; pending user events get a pass of their own.
Release ==
    /\ pc = "release"
    /\ pc' = IF userEvents > 0 THEN "event" ELSE "wait"
    /\ IF Unneeded THEN TearDown ELSE UNCHANGED <<panelVars, pageVars>>
    /\ UNCHANGED <<loopVars, cleanVars, workVars>>

Loop ==
    \/ Wake \/ UserEvent \/ TrayClick \/ TrayDrained \/ HandleAction \/ ActionsDrained
    \/ TakeDone \/ TakeDryDone \/ ResultsDrained \/ TickClean \/ Release

-----------------------------------------------------------------------------
(* Threads and child processes *)

\* `macleaner run --force` ends; the run may have written last-run.
CleanEnds ==
    /\ cleans > 0
    /\ cleans' = cleans - 1
    /\ done' = done + 1
    /\ marked' \in {marked, TRUE}
    /\ UNCHANGED <<pc, loopVars, panelVars, cleanVars, previews, dryDone, pageVars>>

PreviewEnds ==
    /\ previews > 0
    /\ previews' = previews - 1
    /\ dryDone' = dryDone + 1
    /\ UNCHANGED <<pc, loopVars, panelVars, cleanVars, cleans, done, marked, pageVars>>

\* A second has passed since anim_start.
Ripen ==
    /\ ~ripe
    /\ ripe' = TRUE
    /\ UNCHANGED <<pc, loopVars, panelVars, phase, results, workVars, pageVars>>

\* 350 ms have passed since last_hide.
HideAges ==
    /\ lastHide = "fresh"
    /\ QuickClicks => ~held /\ trayClicks = 0
    /\ lastHide' = "stale"
    /\ UNCHANGED <<pc, loopVars, built, visible, armed, cleanVars, workVars, pageVars>>

-----------------------------------------------------------------------------
(* The page, in its own process *)

Room == Len(posted) + Len(rx) + Len(evals) < MaxQueue

\* DOMContentLoaded: the idle screen is the one not hidden in the file.
PageLoads ==
    /\ screen = "blank"
    /\ screen' = "idle"
    /\ posted' = Append(posted, "ready")
    /\ UNCHANGED <<pc, loopVars, panelVars, cleanVars, workVars, toast, rx, evals>>

\* mbState, mbProgress, mbResults, mbMem, mbToast; undefined while loading.
RunScript ==
    /\ evals # <<>>
    /\ evals' = Tail(evals)
    /\ LET script == Head(evals) IN
         /\ screen' = IF screen = "blank" \/ script \in {"running", "report"}
                        THEN screen ELSE script
         /\ toast' = IF screen # "blank" /\ script \in {"running", "report"} THEN script
                     ELSE IF screen # "blank" /\ script = "onboarding" THEN "hidden"
                     ELSE toast
    /\ UNCHANGED <<pc, loopVars, panelVars, cleanVars, workVars, posted, rx>>

\* What the buttons of each screen post.  "ready" stands for Back and Done and
\* for the login toggle, "mem" also for Quit selected: the reply is the same.
Buttons(s) ==
    CASE s = "idle"       -> {"cleanNow", "preview", "mem", "ready"}
      [] s = "onboarding" -> {"cleanNow", "preview"}
      [] s = "memory"     -> {"ready", "mem"}
      [] s = "results"    -> {"ready"}
      [] OTHER            -> {}

\* act and quitSelected: two of the buttons turn the page at once.
PageClick(a) ==
    /\ visible /\ ~held
    /\ a \in Buttons(screen)
    /\ Room
    /\ a = "preview" => previews + dryDone < MaxPreviews
    /\ posted' = Append(posted, a)
    /\ screen' = CASE a = "cleanNow" -> "cleaning"
                   [] a = "mem"      -> "memory"
                   [] OTHER          -> screen
    /\ UNCHANGED <<pc, loopVars, panelVars, cleanVars, workVars, toast, rx, evals>>

\* Handler::did_receive, on the main thread between two passes of the closure.
Deliver ==
    /\ pc = "wait"
    /\ posted # <<>>
    /\ posted' = Tail(posted)
    /\ rx' = Append(rx, Head(posted))
    /\ UNCHANGED <<pc, loopVars, panelVars, cleanVars, workVars, screen, toast, evals>>

\* The toast's 3 s timer.
ToastFades ==
    /\ toast # "hidden"
    /\ toast' = "hidden"
    /\ UNCHANGED <<pc, loopVars, panelVars, cleanVars, workVars, screen, posted, rx, evals>>

-----------------------------------------------------------------------------
(* The user, between two passes of the closure *)

\* The key panel resigns: every installed observer sends a user event.
Resign == userEvents' = IF userEvents = 0 THEN armed ELSE userEvents

\* A click elsewhere, Cmd-Tab or Escape.
ClickOutside ==
    /\ pc = "wait" /\ visible /\ ~held
    /\ userEvents = 0
    /\ Resign
    /\ UNCHANGED <<pc, held, trayClicks, closing, panelVars, cleanVars, workVars, pageVars>>

PressItem ==
    /\ pc = "wait" /\ ~held /\ trayClicks = 0
    /\ held' = TRUE
    /\ closing' = visible
    /\ Resign
    /\ UNCHANGED <<pc, trayClicks, panelVars, cleanVars, workVars, pageVars>>

ReleaseItem ==
    /\ pc = "wait" /\ held
    /\ held' = FALSE
    /\ trayClicks' = trayClicks + 1
    /\ UNCHANGED <<pc, userEvents, closing, panelVars, cleanVars, workVars, pageVars>>

Environment ==
    \/ CleanEnds \/ PreviewEnds \/ Ripen \/ HideAges
    \/ PageLoads \/ RunScript \/ Deliver \/ ToastFades
    \/ \E a \in Actions : PageClick(a)
    \/ ClickOutside \/ PressItem \/ ReleaseItem

Next == Loop \/ Environment

Spec == Init /\ [][Next]_vars

\* The main thread keeps running the closure, child processes end, time passes,
\* the WebKit process loads pages and runs scripts.  A message is delivered by
\* the run loop between two passes, so it needs its turn at infinitely many.
Fairness ==
    /\ WF_vars(Loop)
    /\ WF_vars(CleanEnds) /\ WF_vars(PreviewEnds) /\ WF_vars(Ripen)
    /\ WF_vars(PageLoads) /\ WF_vars(RunScript) /\ SF_vars(Deliver)

FairSpec == Spec /\ Fairness

-----------------------------------------------------------------------------
(***************************************************************************)
(* A clean is under way exactly in phase 1, and then it is the only one:   *)
(* one thread, or its answer in the channel (handle_action's refusal of a  *)
(* second cleanNow, run_tray's drain of the channel).                      *)
(***************************************************************************)
OneClean == cleans + done = IF phase = 1 THEN 1 ELSE 0

(***************************************************************************)
(* The page a clean was started from is still there when its results are   *)
(* handed over, however often the panel was closed and opened meanwhile,   *)
(* and results wait exactly while they are animated (run_tray's release).  *)
(***************************************************************************)
ResultsHavePage == (phase # 0 => built) /\ (results <=> phase = 2)

(***************************************************************************)
(* Between two passes of the closure there is no WebView behind a closed   *)
(* panel unless a clean needs it: "zero WebKit processes when unopened"    *)
(* (bar/spec.md).                                                          *)
(***************************************************************************)
Footprint == pc = "wait" /\ built => visible \/ phase # 0

(***************************************************************************)
(* The dismiss triggers are installed once while the panel is open and not *)
(* at all while it is closed (Panel::show, hide and release).              *)
(***************************************************************************)
DismissArmed == armed = IF visible THEN 1 ELSE 0

(***************************************************************************)
(* Once the page and the loop have nothing left to tell each other, the    *)
(* cleaning screen, which the page itself put up, has a clean behind it.   *)
(***************************************************************************)
NotStuckCleaning ==
    /\ screen = "cleaning"
    /\ posted = <<>> /\ rx = <<>> /\ evals = <<>>
    => phase # 0

(***************************************************************************)
(* A click on the status item of an open panel leaves it closed, although  *)
(* the press has already dismissed it (the debounce in run_tray).          *)
(***************************************************************************)
NoReopen == [][closing /\ ~closing' /\ trayClicks' < trayClicks => ~visible']_vars

(***************************************************************************)
(* If the child process ends, a clean gets through its animation and the   *)
(* bar accepts the next one.                                               *)
(***************************************************************************)
CleanSettles == phase = 1 ~> phase = 0

(***************************************************************************)
(* The user is never left on the cleaning screen: results or another       *)
(* screen follow, or the page is gone.                                     *)
(***************************************************************************)
CleaningLeaves == screen = "cleaning" ~> screen # "cleaning"

(***************************************************************************)
(* A finished dry-run is reported in the page that asked for it, unless    *)
(* that page has been closed or rebuilt since (CleanMsg::DryDone).         *)
(***************************************************************************)
PreviewReported ==
    previews > 0 ~> toast = "report" \/ screen \in {"none", "blank"}

(***************************************************************************)
(* However panel, page, threads and clicks interleave, the clean keeps the *)
(* order CleanSession promises: one at a time, every answer handed over,   *)
(* once, in the page that asked.                                           *)
(***************************************************************************)
Stage ==
    CASE phase = 0              -> "ready"
      [] phase = 1 /\ done = 0  -> "running"
      [] phase = 1 /\ done # 0  -> "answered"
      [] phase = 2              -> "animated"

Session == INSTANCE CleanSession WITH
             stage <- Stage,
             page  <- built,
             told  <- evals # <<>> /\ evals[Len(evals)] = "results"

SessionSpec == Session!Spec
=============================================================================
