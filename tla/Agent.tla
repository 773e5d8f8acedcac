------------------------------- MODULE Agent --------------------------------
(***************************************************************************)
(* The LaunchAgent: `macleaner install` and `macleaner uninstall`          *)
(* (cmd_install and cmd_uninstall of daemon/src/main.rs, launchd.rs), the  *)
(* launchd that loads and runs what they put on disk, and the invocations  *)
(* of Runner it starts.  launchd itself is external: one process per       *)
(* label, started at load and by the calendar, killed when unloaded.       *)
(***************************************************************************)
EXTENDS Runner, Sequences

CONSTANTS
    Job,       \* the slot of the invocation launchd starts
    Cli,       \* the slot of the preview at the end of cmd_install
    Sources    \* what install is run from: "build", or "bin" for ~/bin/macleaner

ASSUME SlotAssumption == Job # Cli /\ Procs = {Job, Cli} /\ {"run", "dry"} \subseteq Cmds

VARIABLES
    file,      \* ~/bin/macleaner, the launcher script and the plist
    todo,      \* the steps the install or uninstall under way still has to take
    loaded,    \* launchd's view of the label: "no", "yes" or "leaving"
    due,       \* launchd owes the loaded job a start
    outcome    \* history: what the last install or uninstall ended with

agentVars == <<file, todo, loaded, due, outcome>>
allVars == <<vars, file, todo, loaded, due, outcome>>

Files == {"bin", "launcher", "plist"}

\* install copies the binary and writes launcher and plist, each opened and
\* truncated before it is filled, then reloads the agent.
InstallSteps(src) ==
    << <<"open", "bin">>, <<"copy", src>>,
       <<"open", "launcher">>, <<"fill", "launcher">>,
       <<"open", "plist">>, <<"fill", "plist">>,
       <<"bootout", "install">>, <<"bootstrap", "plist">> >>

\* Variant: uninstall leaves the launcher beside the binary.
UninstallSteps_KeepsLauncher ==
    << <<"bootout", "uninstall">>, <<"remove", "plist">>, <<"end", "uninstall">> >>

UninstallSteps ==
    << <<"bootout", "uninstall">>, <<"remove", "plist">>, <<"remove", "launcher">>,
       <<"end", "uninstall">> >>

\* Types, and: an unloaded label has no process, only a loaded one is owed a start.
AgentTypeOK ==
    /\ file \in [Files -> {"absent", "empty", "whole"}]
    /\ \E script \in {InstallSteps(s) : s \in Sources} \union {UninstallSteps} :
           \E n \in 0..Len(script) : todo = SubSeq(script, n + 1, Len(script))
    /\ loaded \in {"no", "yes", "leaving"}
    /\ due \in BOOLEAN
    /\ outcome \in {"none", "installed", "issue", "uninstalled"}
    /\ loaded = "no" => At(Job, "idle")
    /\ due => loaded = "yes"

AgentInit ==
    /\ Init
    /\ file = [f \in Files |-> "absent"]
    /\ todo = <<>>
    /\ loaded = "no"
    /\ due = FALSE
    /\ outcome = "none"

-----------------------------------------------------------------------------
\* cmd_install loads the configuration, which its preview uses at the end;
\* the binary it is run from must be there.
Install(src) ==
    /\ todo = <<>>
    /\ src = "bin" => file["bin"] = "whole"
    /\ Start(Cli, "dry")
    /\ todo' = InstallSteps(src)
    /\ outcome' = "none"
    /\ UNCHANGED <<file, loaded, due>>

\* cmd_uninstall reads no configuration.
Uninstall ==
    /\ todo = <<>>
    /\ At(Cli, "idle")
    /\ todo' = UninstallSteps
    /\ outcome' = "none"
    /\ UNCHANGED <<vars, file, loaded, due>>

\* The step the command is at, and the rest of the command after it.
Doing(what, arg) ==
    /\ todo # <<>>
    /\ Head(todo) = <<what, arg>>
    /\ todo' = Tail(todo)

Open(f) ==
    /\ Doing("open", f)
    /\ file' = [file EXCEPT ![f] = "empty"]
    /\ UNCHANGED <<vars, loaded, due, outcome>>

\* fs::copy has truncated ~/bin/macleaner before it reads its source: a source
\* that is the same file yields what is left of it.
Copy(src) ==
    /\ Doing("copy", src)
    /\ file' = [file EXCEPT !["bin"] = IF src = "bin" THEN @ ELSE "whole"]
    /\ UNCHANGED <<vars, loaded, due, outcome>>

Fill(f) ==
    /\ Doing("fill", f)
    /\ file' = [file EXCEPT ![f] = "whole"]
    /\ UNCHANGED <<vars, loaded, due, outcome>>

Remove(f) ==
    /\ Doing("remove", f)
    /\ file' = [file EXCEPT ![f] = "absent"]
    /\ UNCHANGED <<vars, loaded, due, outcome>>

\* The process in slot p is gone, if there was one.
Killed(p) == IF At(p, "idle") THEN UNCHANGED vars ELSE Crash(p)

\* Variant: the running job survives the unloading of its label.
Bootout_Survives(who) ==
    /\ Doing("bootout", who)
    /\ loaded' = IF loaded = "yes" THEN "no" ELSE loaded
    /\ due' = FALSE
    /\ UNCHANGED <<vars, file, outcome>>

\* launchctl bootout, whose result both commands ignore: the label is unloaded
\* and its process killed; or the process is still on its way out when bootout
\* returns; or nothing happens.
Bootout(who) ==
    /\ Doing("bootout", who)
    /\ \/ loaded = "yes" /\ loaded' = "no" /\ due' = FALSE /\ Killed(Job)
       \/ /\ loaded = "yes" /\ ~At(Job, "idle")
          /\ loaded' = "leaving" /\ due' = FALSE
          /\ UNCHANGED vars
       \/ UNCHANGED <<vars, loaded, due>>
    /\ UNCHANGED <<file, outcome>>

\* Variant: what launchctl answers is not looked at.
Bootstrap_Blind ==
    /\ Doing("bootstrap", "plist")
    /\ IF loaded = "no" /\ file["plist"] = "whole"
         THEN loaded' = "yes" /\ due' = TRUE
         ELSE UNCHANGED <<loaded, due>>
    /\ outcome' = "installed"
    /\ UNCHANGED <<vars, file>>

\* launchctl bootstrap refuses a label that is still loaded.  Either way the
\* command goes on to its preview and prints "Installed".
Bootstrap ==
    /\ Doing("bootstrap", "plist")
    /\ \/ /\ loaded = "no"
          /\ file["plist"] = "whole"
          /\ loaded' = "yes"
          /\ due' = TRUE
          /\ outcome' = "installed"
       \/ outcome' = "issue" /\ UNCHANGED <<loaded, due>>
    /\ UNCHANGED <<vars, file>>

EndUninstall ==
    /\ Doing("end", "uninstall")
    /\ outcome' = "uninstalled"
    /\ UNCHANGED <<vars, file, loaded, due>>

\* The command is killed, or a step of it fails and its `?` ends the command.
Abort ==
    /\ "crash" \in Faults
    /\ todo # <<>>
    /\ todo' = <<>>
    /\ Killed(Cli)
    /\ UNCHANGED <<file, loaded, due, outcome>>

-----------------------------------------------------------------------------
\* StartCalendarInterval; an interval that fires while the job runs is missed.
Calendar ==
    /\ loaded = "yes"
    /\ At(Job, "idle")
    /\ ~due
    /\ due' = TRUE
    /\ UNCHANGED <<vars, file, todo, loaded, outcome>>

\* /bin/sh runs the launcher, which execs the binary with `run`.  A part that is
\* missing or cut off, or a malformed configuration, starts nothing.
Launch ==
    /\ loaded = "yes"
    /\ due
    /\ At(Job, "idle")
    /\ due' = FALSE
    /\ IF file["launcher"] = "whole" /\ file["bin"] = "whole" /\ config # "bad"
         THEN Start(Job, "run")
         ELSE UNCHANGED vars
    /\ UNCHANGED <<file, todo, loaded, outcome>>

\* The process that outlived its bootout is gone, and the label with it.
Leave ==
    /\ loaded = "leaving"
    /\ loaded' = "no"
    /\ Killed(Job)
    /\ UNCHANGED <<file, todo, due, outcome>>

\* A log-out or restart, and the log-in at which launchd loads the plist it
\* finds.  What was running has been killed by Crash or Abort.
Relogin ==
    /\ todo = <<>>
    /\ \A p \in Procs : At(p, "idle")
    /\ loaded' = IF file["plist"] = "whole" THEN "yes" ELSE "no"
    /\ due' = (file["plist"] = "whole")
    /\ UNCHANGED <<vars, file, todo, outcome>>

\* An invocation goes on; the preview of an install waits for its steps.
Work(p) ==
    /\ p = Cli => todo = <<>>
    /\ Step(p)
    /\ UNCHANGED agentVars

World ==
    /\ \/ Tick
       \/ \E c \in Configs : EditConfig(c)
       \/ Crash(Job)
       \/ todo = <<>> /\ Crash(Cli)
    /\ UNCHANGED agentVars

Command ==
    \/ \E src \in Sources : Install(src) \/ Copy(src)
    \/ Uninstall
    \/ \E f \in Files : Open(f) \/ Fill(f) \/ Remove(f)
    \/ \E who \in {"install", "uninstall"} : Bootout(who)
    \/ Bootstrap \/ EndUninstall \/ Abort

AgentNext ==
    \/ Command
    \/ Calendar \/ Launch \/ Leave \/ Relogin
    \/ \E p \in Procs : Work(p)
    \/ World

\* launchd gives the start it owes, and the system schedules the job.
AgentSpec == AgentInit /\ [][AgentNext]_allVars /\ WF_allVars(Launch) /\ WF_allVars(Work(Job))

-----------------------------------------------------------------------------
(***************************************************************************)
(* An install that printed the bootstrap's check mark has left all three   *)
(* files complete and the label loaded, and so they stay, restarts and     *)
(* unloadings still under way included, until the next command.            *)
(***************************************************************************)
InstalledWhole ==
    outcome = "installed" => loaded = "yes" /\ \A f \in Files : file[f] = "whole"

(***************************************************************************)
(* After an uninstall that ran to its end launchd starts nothing more, not *)
(* even when its bootout failed or was still going on, nor after a restart.*)
(***************************************************************************)
QuietAfterUninstall ==
    [][outcome = "uninstalled" /\ At(Job, "idle") => At(Job, "idle")']_allVars

(***************************************************************************)
(* Once an install has reported success, the start owed to the agent marks *)
(* the home, unless some invocation fails, the configuration is malformed  *)
(* or another install or uninstall is begun.                               *)
(***************************************************************************)
InstallTakesEffect ==
    outcome = "installed" /\ due ~> \/ lastRun # NoStamp
                                    \/ failed
                                    \/ config = "bad"
                                    \/ outcome # "installed"

(***************************************************************************)
(* Step 1 of the deployment guide: past its copy, an install has put a     *)
(* whole binary at ~/bin/macleaner.                                        *)
(***************************************************************************)
BinaryInPlace ==
    todo # <<>> /\ Head(todo) = <<"open", "launcher">> => file["bin"] = "whole"

=============================================================================
