------------------------------- MODULE Runner -------------------------------
(***************************************************************************)
(* Invocations of the macleaner binary that share one home directory: the  *)
(* first-run preview of cmd_run (daemon/src/main.rs), the once-per-day     *)
(* guard, the clean, the last-run stamp and the log of execute             *)
(* (daemon/src/runner.rs).  launchd, the menu bar's Clean now and a        *)
(* terminal may each start one; the code takes no lock, so a step below is *)
(* one file-system access or one stretch of local computation.             *)
(***************************************************************************)
EXTENDS Integers

CONSTANTS
    Procs,         \* slots for invocations alive at the same time
    Cmds,          \* commands that get started: "run", "force" or "dry"
    Configs,       \* contents config.toml may have: "on", "off" or "bad"
    MinInterval,   \* min_interval_hours
    MaxClock,      \* bound on the clock
    NoStamp,       \* last-run absent, empty or not a number
    Overlap,       \* may two invocations that are not dry runs be alive at once?
    StepBack,      \* may the wall clock be set back?
    Faults         \* what may go wrong: "crash", "open", "write"

ASSUME TimeAssumption == MinInterval \in Nat /\ MaxClock \in Nat
ASSUME StampAssumption == NoStamp \notin Nat
ASSUME SwitchAssumption ==
    /\ Cmds \subseteq {"run", "force", "dry"}
    /\ Configs \subseteq {"on", "off", "bad"}
    /\ Overlap \in BOOLEAN
    /\ StepBack \in BOOLEAN

VARIABLES
    clock,     \* SystemTime::now()
    config,    \* what config.toml says
    lastRun,   \* what reading ~/.local/state/macleaner/last-run yields
    proc,      \* the invocation in each slot
    shown,     \* history: a first-run preview was printed, or passed over because
               \* config.toml disables the cleaner, or a clean was forced
    credited,  \* history: the newest stamp ever written
    failed     \* history: some invocation was killed or could not write its stamp

vars == <<clock, config, lastRun, proc, shown, credited, failed>>

Stamp == Nat \union {NoStamp}

Labels == {"idle", "choose", "execute", "guard", "clean", "survey",
           "truncate", "write", "log", "mark"}

\* "run" is undecided until it has read last-run; then it stays "run" (a real,
\* unforced run) or becomes the "preview" of a fresh install.
Kinds == {"run", "force", "dry", "preview"}

Invocation == [pc : Labels, kind : Kinds, on : BOOLEAN, now : Nat]

Idle == [pc |-> "idle", kind |-> "dry", on |-> FALSE, now |-> 0]

TypeOK ==
    /\ clock \in Nat
    /\ config \in {"on", "off", "bad"}
    /\ lastRun \in Stamp
    /\ proc \in [Procs -> Invocation]
    /\ shown \in BOOLEAN
    /\ credited \in Stamp
    /\ failed \in BOOLEAN

Init ==
    /\ clock = 0
    /\ config \in Configs
    /\ lastRun = NoStamp
    /\ proc = [p \in Procs |-> Idle]
    /\ shown = FALSE
    /\ credited = NoStamp
    /\ failed = FALSE

-----------------------------------------------------------------------------
At(p, label) == proc[p].pc = label

Goto(p, label) == proc' = [proc EXCEPT ![p].pc = label]

Exit(p) == proc' = [proc EXCEPT ![p] = Idle]

IsDry(p) == proc[p].kind \in {"dry", "preview"}

\* Variant: the interval is compared off by one.
ShouldRun_OffByOne(last, now, force) ==
    force \/ last = NoStamp \/ now < last \/ now - last + 1 >= MinInterval

\* Variant: the clock itself is compared, not the time since the stamp.
ShouldRun_Absolute(last, now, force) ==
    force \/ last = NoStamp \/ now >= MinInterval

\* should_run: a stamp in the future lets the run through.
ShouldRun(last, now, force) ==
    \/ force
    \/ last = NoStamp
    \/ now < last
    \/ now - last >= MinInterval

Newest(a, b) == IF a = NoStamp \/ a < b THEN b ELSE a

\* main and Config::load.  A malformed config.toml makes the command return an
\* error here, before it has touched anything, so nothing starts.
Start(p, c) ==
    /\ At(p, "idle")
    /\ Overlap \/ c = "dry" \/ \A q \in Procs : proc[q].kind = "dry"
    /\ config # "bad"
    /\ proc' = [proc EXCEPT ![p] =
                  [pc   |-> IF c = "run" THEN "choose" ELSE "execute",
                   kind |-> c, on |-> config = "on", now |-> 0]]
    /\ UNCHANGED <<clock, config, lastRun, shown, credited, failed>>

\* Variant: the first-run check is left to the guard inside execute.
Choose_NoPreview(p) ==
    /\ At(p, "choose")
    /\ Goto(p, "execute")
    /\ UNCHANGED <<clock, config, lastRun, shown, credited, failed>>

\* cmd_run's own read of last-run picks preview or real run.
Choose(p) ==
    /\ At(p, "choose")
    /\ proc' = [proc EXCEPT ![p] =
                  [@ EXCEPT !.pc = "execute",
                            !.kind = IF lastRun = NoStamp THEN "preview" ELSE "run"]]
    /\ UNCHANGED <<clock, config, lastRun, shown, credited, failed>>

\* Variant: the preview branch returns as soon as execute yields None.
Disabled_NoStamp(p) ==
    /\ At(p, "execute")
    /\ ~proc[p].on
    /\ Exit(p)
    /\ UNCHANGED <<clock, config, lastRun, shown, credited, failed>>

\* execute, entered with enabled = false: Ok(None).  cmd_run's preview branch
\* goes on to its stamp; the other callers return.
Disabled(p) ==
    /\ At(p, "execute")
    /\ ~proc[p].on
    /\ IF proc[p].kind = "preview" THEN Goto(p, "mark") ELSE Exit(p)
    /\ shown' = (shown \/ proc[p].kind = "preview")
    /\ UNCHANGED <<clock, config, lastRun, credited, failed>>

\* execute takes `now` before the guard looks at last-run.
Execute(p) ==
    /\ At(p, "execute")
    /\ proc[p].on
    /\ proc' = [proc EXCEPT ![p] =
                  [@ EXCEPT !.pc = IF IsDry(p) THEN "survey" ELSE "guard", !.now = clock]]
    /\ UNCHANGED <<clock, config, lastRun, shown, credited, failed>>

\* The guard reads last-run a second time.
Guard(p) ==
    /\ At(p, "guard")
    /\ IF ShouldRun(lastRun, proc[p].now, proc[p].kind = "force")
         THEN /\ Goto(p, "clean")
              /\ shown' = (shown \/ proc[p].kind = "force")
         ELSE /\ Exit(p)
              /\ UNCHANGED shown
    /\ UNCHANGED <<clock, config, lastRun, credited, failed>>

\* The cleaners have run; someOk: some report carries no error.
EndClean(p, someOk) ==
    /\ At(p, "clean")
    /\ Goto(p, IF someOk THEN "truncate" ELSE "log")
    /\ UNCHANGED <<clock, config, lastRun, shown, credited, failed>>

\* Variant: a preview is stamped before its report is logged and printed.
EndSurvey_StampFirst(p) ==
    /\ At(p, "survey")
    /\ Goto(p, IF proc[p].kind = "preview" THEN "mark" ELSE "log")
    /\ UNCHANGED <<clock, config, lastRun, shown, credited, failed>>

\* The cleaners have measured and deleted nothing.
EndSurvey(p) ==
    /\ At(p, "survey")
    /\ Goto(p, "log")
    /\ UNCHANGED <<clock, config, lastRun, shown, credited, failed>>

\* Variant: the preview branch ends with the print.
Log_NoMark(p) ==
    /\ At(p, "log")
    /\ Exit(p)
    /\ shown' = (shown \/ proc[p].kind = "preview")
    /\ UNCHANGED <<clock, config, lastRun, credited, failed>>

\* append_log, whose failure execute ignores.  A real run and a dry run return;
\* cmd_run prints the preview and goes on to its stamp.
Log(p) ==
    /\ At(p, "log")
    /\ IF proc[p].kind = "preview" THEN Goto(p, "mark") ELSE Exit(p)
    /\ shown' = (shown \/ proc[p].kind = "preview")
    /\ UNCHANGED <<clock, config, lastRun, credited, failed>>

\* cmd_run stamps a preview with a fresh reading of the clock, where execute
\* stamps a clean with the time it started.
Mark(p) ==
    /\ At(p, "mark")
    /\ proc' = [proc EXCEPT ![p] = [@ EXCEPT !.pc = "truncate", !.now = clock]]
    /\ UNCHANGED <<clock, config, lastRun, shown, credited, failed>>

\* write_last_run is fs::write: the file is opened and truncated, then written.
Truncate(p) ==
    /\ At(p, "truncate")
    /\ lastRun' = NoStamp
    /\ Goto(p, "write")
    /\ UNCHANGED <<clock, config, shown, credited, failed>>

\* Variant: the stamp is written in a form read_last_run cannot parse.
Write_Unparsable(p) ==
    /\ At(p, "write")
    /\ credited' = Newest(credited, proc[p].now)
    /\ IF IsDry(p) THEN Exit(p) ELSE Goto(p, "log")
    /\ UNCHANGED <<clock, config, lastRun, shown, failed>>

\* Variant: the stamp is dated back by the interval.
Write_Backdated(p) ==
    /\ At(p, "write")
    /\ lastRun' = proc[p].now - MinInterval
    /\ credited' = Newest(credited, proc[p].now)
    /\ IF IsDry(p) THEN Exit(p) ELSE Goto(p, "log")
    /\ UNCHANGED <<clock, config, shown, failed>>

\* Two writers that both truncated write the same bytes 0..9: the later wins.
Write(p) ==
    /\ At(p, "write")
    /\ lastRun' = proc[p].now
    /\ credited' = Newest(credited, proc[p].now)
    /\ IF IsDry(p) THEN Exit(p) ELSE Goto(p, "log")
    /\ UNCHANGED <<clock, config, shown, failed>>

\* create_dir_all, open or write fails: the `?` leaves the command, past the
\* log, with the file untouched (open) or already empty (write).
StampFails(p) ==
    /\ \/ "open" \in Faults /\ At(p, "truncate")
       \/ "write" \in Faults /\ At(p, "write")
    /\ Exit(p)
    /\ failed' = TRUE
    /\ UNCHANGED <<clock, config, lastRun, shown, credited>>

\* Killed by launchctl bootout, a log-out or a power cut.
Crash(p) ==
    /\ "crash" \in Faults
    /\ ~At(p, "idle")
    /\ Exit(p)
    /\ failed' = TRUE
    /\ UNCHANGED <<clock, config, lastRun, shown, credited>>

Tick ==
    /\ clock < MaxClock
    /\ clock' = clock + 1
    /\ UNCHANGED <<config, lastRun, proc, shown, credited, failed>>

SetClockBack ==
    /\ StepBack
    /\ clock > 0
    /\ clock' = clock - 1
    /\ UNCHANGED <<config, lastRun, proc, shown, credited, failed>>

\* The user saves config.toml; invocations under way keep what they loaded.
EditConfig(c) ==
    /\ config # c
    /\ config' = c
    /\ UNCHANGED <<clock, lastRun, proc, shown, credited, failed>>

\* The steps an invocation takes by itself once started.
Step(p) ==
    \/ Choose(p) \/ Disabled(p) \/ Execute(p) \/ Guard(p)
    \/ \E someOk \in BOOLEAN : EndClean(p, someOk)
    \/ EndSurvey(p) \/ Log(p) \/ Mark(p) \/ Truncate(p) \/ Write(p)
    \/ StampFails(p)

Next ==
    \/ \E p \in Procs : \/ Step(p)
                        \/ Crash(p)
                        \/ \E c \in Cmds : Start(p, c)
    \/ Tick
    \/ SetClockBack
    \/ \E c \in Configs : EditConfig(c)

Spec == Init /\ [][Next]_vars

\* The operating system keeps scheduling an invocation that is alive.
KeepsGoing(p) == WF_vars(Step(p))

Fairness == \A p \in Procs : KeepsGoing(p)

FairSpec == Spec /\ Fairness

-----------------------------------------------------------------------------
UnforcedClean(p) == At(p, "clean") /\ proc[p].kind = "run"

(***************************************************************************)
(* Whatever else is running, crashing or rewriting last-run, an unforced   *)
(* invocation deletes only on a home where some invocation has finished    *)
(* writing a stamp (cmd_run's first-run branch, main.rs).                  *)
(***************************************************************************)
MarkedBeforeClean ==
    \A p \in Procs : UnforcedClean(p) => credited # NoStamp

(***************************************************************************)
(* An unforced invocation deletes only after a first-run preview was       *)
(* printed or the operator forced a clean (the comment above cmd_run's     *)
(* preview branch), or after a first run under a configuration that        *)
(* disables the cleaner: that one marks the home and prints nothing.       *)
(***************************************************************************)
NoBlindClean ==
    \A p \in Procs : UnforcedClean(p) => shown

(***************************************************************************)
(* An unforced clean starts at least min_interval after the newest stamp   *)
(* ever written, also when last-run has been lost to a failed write since  *)
(* (should_run, and the two reads of last-run that lead to it).            *)
(***************************************************************************)
UnforcedSpacing ==
    \A p \in Procs :
        UnforcedClean(p) => /\ credited # NoStamp
                            /\ proc[p].now - credited >= MinInterval

(***************************************************************************)
(* Until an invocation fails, a stamp once written is unreadable only      *)
(* inside somebody's fs::write: that window is all the guard can lose.     *)
(***************************************************************************)
MissingOnlyMidWrite ==
    ~failed /\ credited # NoStamp /\ lastRun = NoStamp => \E p \in Procs : At(p, "write")

(***************************************************************************)
(* Unless an invocation fails, an unforced one leaves the home marked, the *)
(* disabled one too, so the preview of a fresh install happens once.       *)
(***************************************************************************)
PreviewMarks ==
    \A p \in Procs : At(p, "choose") ~> lastRun # NoStamp \/ failed

(***************************************************************************)
(* Invocations that overlap dry runs only, on a clock that is never set    *)
(* back, implement the ledger of CleanGate.                                *)
(***************************************************************************)
Cleaning ==
    IF \E p \in Procs : At(p, "clean")
      THEN IF \E p \in Procs : UnforcedClean(p) THEN "unforced" ELSE "forced"
      ELSE "no"

Gate == INSTANCE CleanGate WITH time <- clock, credit <- credited, cleaning <- Cleaning

GateSpec == Gate!Spec

=============================================================================
