----------------------------- MODULE LoginItem ------------------------------
(***************************************************************************)
(* Start at login: the bar's own configuration (bar/src/barconfig.rs), the *)
(* Login Item (bar/src/loginitem.rs), the switch of the panel and what     *)
(* reconciles them (bar/src/main.rs), and the command line that installs   *)
(* and removes the bundle (cmd_install, cmd_uninstall, bar/src/bundle.rs). *)
(***************************************************************************)
EXTENDS Naturals

CONSTANTS
    Mishaps    \* what may happen: "save", "service", "kill", "settings", "pkill"

VARIABLES
    bar,         \* the menu bar app: "gone", "ready", or at a step of a toggle
    stored,      \* config.toml; "none" when absent, cut off or malformed
    saving,      \* the value the toggle under way is saving
    registered,  \* SMAppService says Enabled
    switch,      \* what the switch of the panel shows; "none" while none does
    app,         \* the bundle in ~/Applications: "absent", "cut" or "whole"
    removal,     \* the step an uninstall has to take next
    doomed,      \* pkill's signal is on its way to the bar
    choice,      \* history: what the user last asked for
    contrary,    \* history: by a click on a switch that differed from the file
    lapses,      \* history: where that cannot have arrived: "file", "service"
    spared       \* history: missed by the pkill, or launched while it removed

loginVars == <<bar, stored, saving, registered, switch, app, removal, doomed,
               choice, contrary, lapses, spared>>

history == <<choice, contrary, lapses, spared>>

\* Types, and: a file that is being saved holds nothing yet.
LoginTypeOK ==
    /\ bar \in {"gone", "ready", "truncate", "fill", "service"}
    /\ stored \in {"on", "off", "none"}
    /\ saving \in BOOLEAN
    /\ registered \in BOOLEAN
    /\ switch \in {"on", "off", "none"}
    /\ app \in {"absent", "cut", "whole"}
    /\ removal \in {"idle", "unregister", "remove", "done"}
    /\ doomed \in BOOLEAN
    /\ choice \in BOOLEAN /\ contrary \in BOOLEAN
    /\ lapses \subseteq {"file", "service"}
    /\ spared \in BOOLEAN
    /\ bar = "fill" => stored = "none"

LoginInit ==
    /\ bar = "gone" /\ stored = "none" /\ saving = TRUE
    /\ registered = FALSE /\ switch = "none"
    /\ app = "absent" /\ removal = "idle" /\ doomed = FALSE
    /\ choice = TRUE /\ contrary = FALSE /\ lapses = {} /\ spared = FALSE

-----------------------------------------------------------------------------
\* Variant: a missing or malformed file means off.
Wanted_StrictDefault == stored = "on"

\* BarConfig::load: what cannot be read is the default, on.
Wanted == stored # "off"

\* register or unregister, whose error is ignored; after a call that worked,
\* left is what still has not arrived.
Service(on, left) ==
    \/ registered' = on /\ lapses' = left
    \/ "service" \in Mishaps /\ lapses' = lapses \union {"service"} /\ UNCHANGED registered

\* What a launch repairs: all but a file that lacks the choice, which it obeys.
Repaired == IF "file" \in lapses THEN {"file", "service"} ELSE {}

\* Variant: a launch registers, but never takes the registration back.
Reconcile_OneWay ==
    IF Wanted /\ ~registered THEN Service(TRUE, Repaired)
                             ELSE lapses' = Repaired /\ UNCHANGED registered

\* reconcile_login: the registration follows the file, in both directions.
Reconcile ==
    IF Wanted # registered THEN Service(Wanted, Repaired)
                           ELSE lapses' = Repaired /\ UNCHANGED registered

\* run_tray, started by the login or by `open`.
LaunchBar ==
    /\ bar = "gone"
    /\ app = "whole"
    /\ bar' = "ready"
    /\ Reconcile
    /\ spared' = (removal \in {"unregister", "remove"})
    /\ UNCHANGED <<stored, saving, switch, app, removal, doomed, choice, contrary>>

Shown(on) == IF on THEN "on" ELSE "off"

\* send_state on Ready and Done: the switch shows the registration.
ShowSwitch ==
    /\ bar = "ready"
    /\ switch' = Shown(registered)
    /\ UNCHANGED <<bar, stored, saving, registered, app, removal, doomed, history>>

HideSwitch ==
    /\ bar = "ready"
    /\ switch' = "none"
    /\ UNCHANGED <<bar, stored, saving, registered, app, removal, doomed, history>>

\* The user clicks the switch and means the other of what it shows;
\* toggle_login_intent flips what config.toml says.
Toggle ==
    /\ bar = "ready"
    /\ switch # "none"
    /\ choice' = (switch = "off")
    /\ contrary' = (Shown(Wanted) # switch)
    /\ lapses' = {}
    /\ saving' = ~Wanted
    /\ bar' = "truncate"
    /\ UNCHANGED <<stored, registered, switch, app, removal, doomed, spared>>

\* Variant: the file keeps its text until the new one is written.
Truncate_InPlace ==
    /\ bar = "truncate"
    /\ bar' = "fill"
    /\ UNCHANGED <<stored, saving, registered, switch, app, removal, doomed, history>>

\* save is fs::write, whose error is ignored; the file is truncated first.
Truncate ==
    /\ bar = "truncate"
    /\ \/ stored' = "none" /\ bar' = "fill" /\ UNCHANGED lapses
       \/ /\ "save" \in Mishaps
          /\ bar' = "service" /\ lapses' = lapses \union {"file"} /\ UNCHANGED stored
    /\ UNCHANGED <<saving, registered, switch, app, removal, doomed, choice, contrary, spared>>

FillConfig ==
    /\ bar = "fill"
    /\ \/ stored' = Shown(saving) /\ UNCHANGED lapses
       \/ "save" \in Mishaps /\ lapses' = lapses \union {"file"} /\ UNCHANGED stored
    /\ bar' = "service"
    /\ UNCHANGED <<saving, registered, switch, app, removal, doomed, choice, contrary, spared>>

\* The service call with the value in memory, then send_state.
EndToggle ==
    /\ bar = "service"
    /\ Service(saving, lapses)
    /\ switch' = Shown(registered')
    /\ bar' = "ready"
    /\ UNCHANGED <<stored, saving, app, removal, doomed, choice, contrary, spared>>

\* Quit between two handlers; a log-out, a kill or pkill's signal anywhere.  A
\* toggle that has saved lacks only its service call.
StopBar ==
    /\ bar # "gone"
    /\ bar = "ready" \/ doomed \/ "kill" \in Mishaps
    /\ bar' = "gone"
    /\ switch' = "none"
    /\ lapses' = CASE bar = "ready"   -> lapses
                   [] bar = "service" -> lapses \union {"service"}
                   [] OTHER           -> {"file", "service"}
    /\ doomed' = FALSE /\ spared' = FALSE
    /\ UNCHANGED <<stored, saving, registered, app, removal, choice, contrary>>

\* The user edits config.toml, which counts from the next launch on.
EditBarConfig(text) ==
    /\ bar \in {"gone", "ready"}
    /\ stored' = text
    /\ choice' = (text # "off")
    /\ contrary' = FALSE
    /\ lapses' = {"service"}
    /\ UNCHANGED <<bar, saving, registered, switch, app, removal, doomed, spared>>

\* System Settings changes the registration behind the bar's back, which a
\* toggle under way then does again.
Settings ==
    /\ "settings" \in Mishaps
    /\ registered' = ~registered
    /\ choice' = registered'
    /\ contrary' = FALSE
    /\ lapses' = (IF bar \in {"gone", "ready"} THEN {"file"} ELSE {"file", "service"})
    /\ UNCHANGED <<bar, stored, saving, switch, app, removal, doomed, spared>>

-----------------------------------------------------------------------------
\* cmd_install: bundle::install, whose copy may be cut off and, run from the
\* bundle itself, truncates its own source; `open` then launches the bar.
InstallBundle ==
    /\ removal \in {"idle", "done"}
    /\ app' \in {"cut", "whole"}
    /\ removal' = "idle"
    /\ spared' = FALSE
    /\ UNCHANGED <<bar, stored, saving, registered, switch, doomed, choice, contrary, lapses>>

\* Variant: the bar is not stopped before its bundle goes.
StopForRemoval_Skipped ==
    /\ removal \in {"idle", "done"}
    /\ removal' = "unregister"
    /\ spared' = FALSE
    /\ UNCHANGED <<bar, stored, saving, registered, switch, app, doomed, choice, contrary, lapses>>

\* cmd_uninstall's pkill, whose result is ignored and which waits for nobody:
\* the bar goes on until the signal ends it, or is not reached at all.
StopForRemoval ==
    /\ removal \in {"idle", "done"}
    /\ removal' = "unregister"
    /\ \/ doomed' = (bar # "gone") /\ spared' = FALSE
       \/ "pkill" \in Mishaps /\ spared' = (bar # "gone") /\ UNCHANGED doomed
    /\ UNCHANGED <<bar, stored, saving, registered, switch, app, choice, contrary, lapses>>

\* unregister does nothing from a binary outside the bundle, and its error is
\* ignored; the one in the bundle takes the registration away.
Unregister ==
    /\ removal = "unregister"
    /\ removal' = "remove"
    /\ \/ UNCHANGED <<registered, lapses>>
       \/ app = "whole" /\ registered' = FALSE /\ lapses' = lapses \union {"service"}
    /\ UNCHANGED <<bar, stored, saving, switch, app, doomed, choice, contrary, spared>>

\* bundle::uninstall; a failure leaves the command.
RemoveBundle ==
    /\ removal = "remove"
    /\ \/ app' = "absent" /\ removal' = "done"
       \/ removal' = "idle" /\ app' \in {app, "cut"} \ {"absent"}
    /\ UNCHANGED <<bar, stored, saving, registered, switch, doomed, history>>

LoginNext ==
    \/ LaunchBar \/ ShowSwitch \/ HideSwitch
    \/ Toggle \/ Truncate \/ FillConfig \/ EndToggle
    \/ StopBar \/ Settings
    \/ \E text \in {"on", "off", "none"} : EditBarConfig(text)
    \/ InstallBundle \/ StopForRemoval \/ Unregister \/ RemoveBundle

LoginSpec == LoginInit /\ [][LoginNext]_loginVars

-----------------------------------------------------------------------------
\* What the last request comes to: a click on a switch that shows other than
\* the file does the opposite of what it means.
Asked == IF contrary THEN ~choice ELSE choice

(***************************************************************************)
(* Start at login, through clicks, edits, quits, kills, launches, removals *)
(* and new installs (toggle_login_intent, reconcile_login).  Between two   *)
(* toggles config.toml says what the last request came to, unless its save *)
(* failed or was cut off, or it was made in System Settings.  And so does  *)
(* the registration of a running bar, unless a launch obeyed such a file   *)
(* or, since the last launch, a service call failed or was cut off, the    *)
(* file was edited or an uninstall unregistered: a save without its        *)
(* service call reaches the registration at the next launch, a service     *)
(* call without its save lasts until then.                                 *)
(***************************************************************************)
ChoiceHonoured ==
    /\ bar \in {"gone", "ready"} /\ "file" \notin lapses => Wanted = Asked
    /\ bar = "ready" /\ "service" \notin lapses => registered = Asked

(***************************************************************************)
(* An uninstall that ran to its end leaves no bundle, and no bar but one   *)
(* whose signal is on its way, that the pkill missed, or that was launched *)
(* while the command ran; and until the next install none starts, however  *)
(* the Login Item is registered (cmd_uninstall).                           *)
(***************************************************************************)
RemovedAndStopped ==
    removal = "done" => app = "absent" /\ (bar = "gone" \/ doomed \/ spared)

=============================================================================
