----------------------------- MODULE AgentProofs ----------------------------
(* What Agent guarantees for every interval, every clock and every source. *)
(* The lemmas about one invocation are those of RunnerProofs.              *)
EXTENDS Agent, RunnerProofs

(***************************************************************************)
(* Where a command is in its script, and what it has done by then.         *)
(***************************************************************************)
Installing(src, n) ==
  /\ todo = SubSeq(InstallSteps(src), n + 1, 8)
  /\ n < 8 => outcome = "none"
  /\ src # "bin" /\ n >= 2 => file["bin"] = "whole"
  /\ n >= 4 => file["launcher"] = "whole"
  /\ n >= 6 => file["plist"] = "whole"

Uninstalling(n) ==
  /\ todo = SubSeq(UninstallSteps, n + 1, 4)
  /\ n < 4 => outcome = "none"
  /\ n >= 3 => file["launcher"] = "absent"

Progress ==
  \/ todo = <<>>
  \/ \E src \in Sources, n \in 0..7 : Installing(src, n)
  \/ \E n \in 0..3 : Uninstalling(n)

AgentInv ==
  /\ TypeOK
  /\ Path
  /\ file \in [Files -> {"absent", "empty", "whole"}]
  /\ loaded \in {"no", "yes", "leaving"}
  /\ due \in BOOLEAN
  /\ outcome \in {"none", "installed", "issue", "uninstalled"}
  /\ loaded = "no" => At(Job, "idle")
  /\ due => loaded = "yes"
  /\ proc[Cli].kind = "dry"
  /\ Progress
  /\ outcome = "uninstalled" => file["launcher"] = "absent"
  /\ outcome = "installed" /\ "bin" \notin Sources
     => loaded = "yes" /\ \A f \in Files : file[f] = "whole"

(***************************************************************************)
(* What a step of the agent does to the invocations.                       *)
(***************************************************************************)
LEMMA AgentStep ==
  ASSUME [AgentNext]_allVars
  PROVE  \/ Onward
         \/ Start(Job, "run") /\ Launch
         \/ Start(Cli, "dry")
  BY SlotAssumption
     DEF AgentNext, allVars, Command, Install, Uninstall, Open, Copy, Fill, Remove, Bootout,
         Bootstrap, EndUninstall, Abort, Killed, Calendar, Launch, Leave, Relogin, Work, World,
         Onward, vars

LEMMA AgentNextStep == [AgentNext]_allVars => [Next]_vars
<1> SUFFICES ASSUME [AgentNext]_allVars PROVE [Next]_vars
  OBVIOUS
<1>1. CASE Onward
  BY <1>1 DEF Onward, Next
<1>2. CASE Start(Job, "run") \/ Start(Cli, "dry")
  BY <1>2, SlotAssumption DEF Next
<1>3. QED
  BY <1>1, <1>2, AgentStep

-----------------------------------------------------------------------------
(***************************************************************************)
(* The steps of the scripts.                                               *)
(***************************************************************************)
LEMMA InstallScript ==
  ASSUME NEW src, NEW n \in 0..7
  PROVE  LET rest == SubSeq(InstallSteps(src), n + 1, 8)
         IN  /\ rest # <<>>
             /\ Head(rest) = InstallSteps(src)[n + 1]
             /\ Tail(rest) = SubSeq(InstallSteps(src), n + 2, 8)
  BY DEF InstallSteps

LEMMA UninstallScript ==
  ASSUME NEW n \in 0..3
  PROVE  LET rest == SubSeq(UninstallSteps, n + 1, 4)
         IN  /\ rest # <<>>
             /\ Head(rest) = UninstallSteps[n + 1]
             /\ Tail(rest) = SubSeq(UninstallSteps, n + 2, 4)
  BY DEF UninstallSteps

LEMMA ScriptEnds ==
  ASSUME NEW src
  PROVE  SubSeq(InstallSteps(src), 9, 8) = <<>> /\ SubSeq(UninstallSteps, 5, 4) = <<>>
  BY DEF InstallSteps, UninstallSteps

\* A command that takes a step is at that step of its script.
LEMMA AtStep ==
  ASSUME Progress, NEW what, NEW arg, Doing(what, arg)
  PROVE  \/ \E src \in Sources, n \in 0..7 :
              /\ Installing(src, n)
              /\ InstallSteps(src)[n + 1] = <<what, arg>>
              /\ todo' = SubSeq(InstallSteps(src), n + 2, 8)
         \/ \E n \in 0..3 :
              /\ Uninstalling(n)
              /\ UninstallSteps[n + 1] = <<what, arg>>
              /\ todo' = SubSeq(UninstallSteps, n + 2, 4)
<1>1. ASSUME NEW src \in Sources, NEW n \in 0..7, Installing(src, n)
      PROVE  /\ InstallSteps(src)[n + 1] = <<what, arg>>
             /\ todo' = SubSeq(InstallSteps(src), n + 2, 8)
  BY <1>1, InstallScript DEF Installing, Doing
<1>2. ASSUME NEW n \in 0..3, Uninstalling(n)
      PROVE  /\ UninstallSteps[n + 1] = <<what, arg>>
             /\ todo' = SubSeq(UninstallSteps, n + 2, 4)
  BY <1>2, UninstallScript DEF Uninstalling, Doing
<1>3. QED
  BY <1>1, <1>2 DEF Progress, Doing

LEMMA AtInstall ==
  ASSUME Progress, NEW what \in {"open", "copy", "fill", "bootstrap"}, NEW arg, Doing(what, arg)
  PROVE  \E src \in Sources, n \in 0..7 :
            /\ Installing(src, n)
            /\ InstallSteps(src)[n + 1] = <<what, arg>>
            /\ todo' = SubSeq(InstallSteps(src), n + 2, 8)
<1>1. ASSUME NEW n \in 0..3, UninstallSteps[n + 1] = <<what, arg>> PROVE FALSE
  <2>1. UninstallSteps[n + 1][1] \in {"bootout", "remove", "end"}
    BY DEF UninstallSteps
  <2>2. UninstallSteps[n + 1][1] = what
    BY <1>1
  <2>3. QED
    BY <2>1, <2>2
<1>2. QED
  BY <1>1, AtStep

LEMMA AtUninstall ==
  ASSUME Progress, NEW what \in {"remove", "end"}, NEW arg, Doing(what, arg)
  PROVE  \E n \in 0..3 :
            /\ Uninstalling(n)
            /\ UninstallSteps[n + 1] = <<what, arg>>
            /\ todo' = SubSeq(UninstallSteps, n + 2, 4)
<1>1. ASSUME NEW src, NEW n \in 0..7, InstallSteps(src)[n + 1] = <<what, arg>> PROVE FALSE
  <2>1. InstallSteps(src)[n + 1][1] \in {"open", "copy", "fill", "bootout", "bootstrap"}
    BY DEF InstallSteps
  <2>2. InstallSteps(src)[n + 1][1] = what
    BY <1>1
  <2>3. QED
    BY <2>1, <2>2
<1>2. QED
  BY <1>1, AtStep

-----------------------------------------------------------------------------
(***************************************************************************)
(* The invocations under an agent's step: types, paths and the kind of the *)
(* preview at the end of an install.                                       *)
(***************************************************************************)
LEMMA CliStays ==
  ASSUME TypeOK, Path, proc[Cli].kind = "dry", [AgentNext]_allVars
  PROVE  TypeOK' /\ Path' /\ proc'[Cli].kind = "dry"
<1>1. TypeOK' /\ Path'
  BY AgentNextStep, NextType, NextPath
<1> SUFFICES proc'[Cli].kind = "dry"
  BY <1>1
<1> USE SlotAssumption DEF TypeOK, Invocation
<1>2. ASSUME NEW p \in Procs, Step(p) PROVE proc'[Cli].kind = "dry"
  <2>1. CASE p = Job
    BY <1>2, <2>1, OthersKeep
  <2>2. CASE p = Cli
    BY <1>2, <2>2, DryStep
  <2>3. QED
    BY <2>1, <2>2
<1>3. ASSUME NEW p \in Procs, Crash(p) PROVE proc'[Cli].kind = "dry"
  BY <1>3 DEF Crash, Exit, Idle
<1>4. CASE Onward
  <2>1. CASE proc' = proc
    BY <2>1
  <2>2. QED
    BY <1>2, <1>3, <1>4, <2>1 DEF Onward, vars, Tick, EditConfig
<1>5. ASSUME NEW p \in Procs, NEW c, Start(p, c), p = Job \/ c = "dry"
      PROVE  proc'[Cli].kind = "dry"
  BY <1>5 DEF Start
<1>6. QED
  BY <1>4, <1>5, AgentStep

-----------------------------------------------------------------------------
\* A job that is not running is started by Launch alone.
LEMMA JobStays ==
  ASSUME TypeOK, [AgentNext]_allVars, At(Job, "idle"), ~(Start(Job, "run") /\ Launch)
  PROVE  At(Job, "idle")'
<1> USE SlotAssumption DEF TypeOK, Invocation, At
<1>1. ASSUME NEW p \in Procs, Step(p) \/ Crash(p) PROVE proc'[Job].pc = "idle"
  BY <1>1, OthersKeep
<1>2. CASE Onward
  <2>1. CASE proc' = proc
    BY <2>1
  <2>2. QED
    BY <1>1, <1>2, <2>1 DEF Onward, vars, Tick, EditConfig
<1>3. CASE Start(Cli, "dry")
  BY <1>3 DEF Start
<1>4. QED
  BY <1>2, <1>3, AgentStep

LEMMA KilledIdle ==
  ASSUME TypeOK, NEW p \in Procs, Killed(p)
  PROVE  At(p, "idle")'
  BY DEF TypeOK, Killed, Crash, Exit, Idle, At, vars

(***************************************************************************)
(* The steps of a command.                                                 *)
(***************************************************************************)
LEMMA CommandInv ==
  ASSUME AgentInv, [AgentNext]_allVars, Command
  PROVE  AgentInv'
<1>1. TypeOK' /\ Path' /\ proc'[Cli].kind = "dry"
  BY CliStays DEF AgentInv
<1>2. loaded = "no" /\ At(Job, "idle") => At(Job, "idle")'
  BY JobStays DEF AgentInv, Launch
<1>3. ASSUME NEW src \in Sources, Install(src) PROVE AgentInv'
  <2>1. Installing(src, 0)'
    BY <1>3 DEF Install, Installing, InstallSteps
  <2>2. Progress'
    BY <2>1 DEF Progress
  <2>3. QED
    BY <1>1, <1>2, <1>3, <2>2 DEF AgentInv, Install
<1>4. CASE Uninstall
  <2>1. Uninstalling(0)'
    BY <1>4 DEF Uninstall, Uninstalling, UninstallSteps
  <2>2. Progress'
    BY <2>1 DEF Progress
  <2>3. QED
    BY <1>1, <1>2, <1>4, <2>2 DEF AgentInv, Uninstall
<1>5. ASSUME NEW f \in Files, Open(f) PROVE AgentInv'
  <2>1. PICK src \in Sources, n \in 0..7 :
            /\ Installing(src, n)
            /\ InstallSteps(src)[n + 1] = <<"open", f>>
            /\ todo' = SubSeq(InstallSteps(src), n + 2, 8)
    BY <1>5, AtInstall DEF Open, AgentInv
  <2>2. n \in {0, 2, 4} /\ (n = 0 => f = "bin") /\ (n = 2 => f = "launcher")
        /\ (n = 4 => f = "plist")
    BY <2>1 DEF InstallSteps
  <2>3. Installing(src, n + 1)'
    BY <1>5, <2>1, <2>2 DEF Open, Installing, AgentInv, Files
  <2>4. Progress'
    BY <2>2, <2>3 DEF Progress
  <2>5. outcome' = "none"
    BY <1>5, <2>1, <2>2 DEF Open, Installing
  <2>6. QED
    BY <1>1, <1>2, <1>5, <2>4, <2>5 DEF AgentInv, Open
<1>6. ASSUME NEW src0 \in Sources, Copy(src0) PROVE AgentInv'
  <2>1. PICK src \in Sources, n \in 0..7 :
            /\ Installing(src, n)
            /\ InstallSteps(src)[n + 1] = <<"copy", src0>>
            /\ todo' = SubSeq(InstallSteps(src), n + 2, 8)
    BY <1>6, AtInstall DEF Copy, AgentInv
  <2>2. n = 1 /\ src0 = src
    BY <2>1 DEF InstallSteps
  <2>3. Installing(src, 2)'
    BY <1>6, <2>1, <2>2 DEF Copy, Installing, AgentInv, Files
  <2>4. Progress'
    BY <2>2, <2>3 DEF Progress
  <2>5. outcome' = "none"
    BY <1>6, <2>1, <2>2 DEF Copy, Installing
  <2>6. QED
    BY <1>1, <1>2, <1>6, <2>4, <2>5 DEF AgentInv, Copy
<1>7. ASSUME NEW f \in Files, Fill(f) PROVE AgentInv'
  <2>1. PICK src \in Sources, n \in 0..7 :
            /\ Installing(src, n)
            /\ InstallSteps(src)[n + 1] = <<"fill", f>>
            /\ todo' = SubSeq(InstallSteps(src), n + 2, 8)
    BY <1>7, AtInstall DEF Fill, AgentInv
  <2>2. n \in {3, 5} /\ (n = 3 => f = "launcher") /\ (n = 5 => f = "plist")
    BY <2>1 DEF InstallSteps
  <2>3. Installing(src, n + 1)'
    BY <1>7, <2>1, <2>2 DEF Fill, Installing, AgentInv, Files
  <2>4. Progress'
    BY <2>2, <2>3 DEF Progress
  <2>5. outcome' = "none"
    BY <1>7, <2>1, <2>2 DEF Fill, Installing
  <2>6. QED
    BY <1>1, <1>2, <1>7, <2>4, <2>5 DEF AgentInv, Fill
<1>8. ASSUME NEW f \in Files, Remove(f) PROVE AgentInv'
  <2>1. PICK n \in 0..3 :
            /\ Uninstalling(n)
            /\ UninstallSteps[n + 1] = <<"remove", f>>
            /\ todo' = SubSeq(UninstallSteps, n + 2, 4)
    BY <1>8, AtUninstall DEF Remove, AgentInv
  <2>2. n \in {1, 2} /\ (n = 2 => f = "launcher")
    BY <2>1 DEF UninstallSteps
  <2>3. Uninstalling(n + 1)'
    <3>1. n = 2 => file'["launcher"] = "absent"
      BY <1>8, <2>2 DEF Remove, AgentInv, Files
    <3>2. todo' = SubSeq(UninstallSteps, (n + 1) + 1, 4)
      BY <2>1, <2>2
    <3>3. outcome' = "none"
      BY <1>8, <2>1, <2>2 DEF Remove, Uninstalling
    <3>4. QED
      BY <2>2, <3>1, <3>2, <3>3 DEF Uninstalling
  <2>4. Progress'
    BY <2>2, <2>3 DEF Progress
  <2>5. outcome' = "none"
    BY <1>8, <2>1, <2>2 DEF Remove, Uninstalling
  <2>6. QED
    BY <1>1, <1>2, <1>8, <2>4, <2>5 DEF AgentInv, Remove
<1>9. ASSUME NEW who \in {"install", "uninstall"}, Bootout(who) PROVE AgentInv'
  <2>1. Progress' /\ outcome' = "none"
    <3>1. CASE \E src \in Sources, n \in 0..7 :
                 /\ Installing(src, n)
                 /\ InstallSteps(src)[n + 1] = <<"bootout", who>>
                 /\ todo' = SubSeq(InstallSteps(src), n + 2, 8)
      <4>1. PICK src \in Sources : Installing(src, 6) /\ todo' = SubSeq(InstallSteps(src), 8, 8)
        <5>1. PICK src \in Sources, n \in 0..7 :
                  /\ Installing(src, n)
                  /\ InstallSteps(src)[n + 1] = <<"bootout", who>>
                  /\ todo' = SubSeq(InstallSteps(src), n + 2, 8)
          BY <3>1
        <5>2. n = 6
          BY <5>1 DEF InstallSteps
        <5>3. QED
          BY <5>1, <5>2
      <4>2. Installing(src, 7)'
        BY <1>9, <4>1 DEF Bootout, Installing
      <4>3. QED
        BY <1>9, <4>1, <4>2 DEF Progress, Bootout, Installing
    <3>2. CASE \E n \in 0..3 :
                 /\ Uninstalling(n)
                 /\ UninstallSteps[n + 1] = <<"bootout", who>>
                 /\ todo' = SubSeq(UninstallSteps, n + 2, 4)
      <4>1. Uninstalling(0) /\ todo' = SubSeq(UninstallSteps, 2, 4)
        BY <3>2 DEF UninstallSteps
      <4>2. Uninstalling(1)'
        BY <1>9, <4>1 DEF Bootout, Uninstalling
      <4>3. QED
        BY <1>9, <4>1, <4>2 DEF Progress, Bootout, Uninstalling
    <3>3. QED
      BY <1>9, <3>1, <3>2, AtStep DEF Bootout, AgentInv
  <2>2. loaded' = "no" => At(Job, "idle")'
    BY <1>2, <1>9, KilledIdle, SlotAssumption DEF Bootout, AgentInv
  <2>3. /\ loaded' \in {"no", "yes", "leaving"}
        /\ due' \in BOOLEAN
        /\ due' => loaded' = "yes"
        /\ file' = file
    <3>1. loaded \in {"no", "yes", "leaving"} /\ due \in BOOLEAN /\ (due => loaded = "yes")
      BY DEF AgentInv
    <3>2. /\ file' = file
          /\ \/ loaded' = "no" /\ due' = FALSE
             \/ loaded' = "leaving" /\ due' = FALSE
             \/ loaded' = loaded /\ due' = due
      BY <1>9 DEF Bootout
    <3>3. CASE loaded' = loaded /\ due' = due
      BY <3>1, <3>2, <3>3, Zenon
    <3>4. CASE due' = FALSE /\ loaded' \in {"no", "leaving"}
      BY <3>2, <3>4
    <3>5. QED
      BY <3>2, <3>3, <3>4
  <2>4. QED
    BY <1>1, <2>1, <2>2, <2>3 DEF AgentInv
<1>10. CASE Bootstrap
  <2>1. PICK src \in Sources, n \in 0..7 :
            /\ Installing(src, n)
            /\ InstallSteps(src)[n + 1] = <<"bootstrap", "plist">>
            /\ todo' = SubSeq(InstallSteps(src), n + 2, 8)
    BY <1>10, AtInstall DEF Bootstrap, AgentInv
  <2>2. n = 7
    BY <2>1 DEF InstallSteps
  <2>3. Progress'
    BY <2>1, <2>2, ScriptEnds DEF Progress
  <2>4. "bin" \notin Sources => \A f \in Files : file[f] = "whole"
    BY <2>1, <2>2 DEF Installing, Files
  <2>5. loaded' = "no" => At(Job, "idle")'
    BY <1>2, <1>10 DEF AgentInv, Bootstrap
  <2>6. /\ loaded' \in {"no", "yes", "leaving"}
        /\ due' \in BOOLEAN
        /\ due' => loaded' = "yes"
        /\ outcome' \in {"installed", "issue"}
        /\ outcome' = "installed" => loaded' = "yes"
        /\ file' = file
    <3>1. loaded \in {"no", "yes", "leaving"} /\ due \in BOOLEAN /\ (due => loaded = "yes")
      BY DEF AgentInv
    <3>2. /\ file' = file
          /\ \/ loaded' = "yes" /\ due' = TRUE /\ outcome' = "installed"
             \/ loaded' = loaded /\ due' = due /\ outcome' = "issue"
      BY <1>10 DEF Bootstrap
    <3>3. CASE loaded' = loaded /\ due' = due /\ outcome' = "issue"
      BY <3>1, <3>2, <3>3, Zenon
    <3>4. CASE due' = TRUE /\ loaded' = "yes" /\ outcome' = "installed"
      BY <3>2, <3>4
    <3>5. QED
      BY <3>2, <3>3, <3>4
  <2>7. QED
    BY <1>1, <2>3, <2>4, <2>5, <2>6 DEF AgentInv
<1>11. CASE EndUninstall
  <2>1. PICK n \in 0..3 :
            /\ Uninstalling(n)
            /\ UninstallSteps[n + 1] = <<"end", "uninstall">>
            /\ todo' = SubSeq(UninstallSteps, n + 2, 4)
    BY <1>11, AtUninstall DEF EndUninstall, AgentInv
  <2>2. n = 3
    BY <2>1 DEF UninstallSteps
  <2>3. Progress' /\ file["launcher"] = "absent"
    BY <2>1, <2>2, ScriptEnds DEF Progress, Uninstalling
  <2>4. QED
    BY <1>1, <1>2, <1>11, <2>3 DEF AgentInv, EndUninstall
<1>12. CASE Abort
  <2>1. Progress'
    BY <1>12 DEF Abort, Progress
  <2>2. QED
    BY <1>1, <1>2, <1>12, <2>1 DEF AgentInv, Abort
<1>13. QED
  BY <1>3, <1>4, <1>5, <1>6, <1>7, <1>8, <1>9, <1>10, <1>11, <1>12 DEF Command

\* The steps of launchd, of the invocations and of the world.
LEMMA AgentNextInv == AgentInv /\ [AgentNext]_allVars => AgentInv'
<1> SUFFICES ASSUME AgentInv, [AgentNext]_allVars PROVE AgentInv'
  OBVIOUS
<1>1. TypeOK' /\ Path' /\ proc'[Cli].kind = "dry"
  BY CliStays DEF AgentInv
<1>2. At(Job, "idle") /\ ~(Start(Job, "run") /\ Launch) => At(Job, "idle")'
  BY JobStays DEF AgentInv
<1>3. CASE Command
  BY <1>3, CommandInv
<1>4. CASE Calendar
  <2>1. loaded = "yes" /\ due' = TRUE /\ UNCHANGED <<file, todo, loaded, outcome>>
    BY <1>4 DEF Calendar
  <2>2. Progress'
    BY <2>1 DEF AgentInv, Progress, Installing, Uninstalling
  <2>3. QED
    BY <1>1, <2>1, <2>2 DEF AgentInv
<1>5. CASE Launch
  <2>1. loaded = "yes" /\ due' = FALSE /\ UNCHANGED <<file, todo, loaded, outcome>>
    BY <1>5 DEF Launch
  <2>2. Progress'
    BY <2>1 DEF AgentInv, Progress, Installing, Uninstalling
  <2>3. QED
    BY <1>1, <2>1, <2>2 DEF AgentInv
<1>6. CASE Leave
  <2>1. ~due /\ loaded' = "no" /\ UNCHANGED <<file, todo, due, outcome>>
    BY <1>6 DEF Leave, AgentInv
  <2>2. Progress'
    BY <2>1 DEF AgentInv, Progress, Installing, Uninstalling
  <2>3. At(Job, "idle")'
    BY <1>6, KilledIdle, SlotAssumption DEF Leave, AgentInv
  <2>4. outcome = "installed" => "bin" \in Sources
    BY <1>6 DEF Leave, AgentInv
  <2>5. QED
    BY <1>1, <2>1, <2>2, <2>3, <2>4 DEF AgentInv
<1>7. CASE Relogin
  <2>1. /\ UNCHANGED <<file, todo, outcome>>
        /\ \/ file["plist"] = "whole" /\ loaded' = "yes" /\ due' = TRUE
           \/ file["plist"] # "whole" /\ loaded' = "no" /\ due' = FALSE
    BY <1>7 DEF Relogin
  <2>2. Progress'
    BY <2>1 DEF AgentInv, Progress, Installing, Uninstalling
  <2>3. At(Job, "idle")'
    BY <1>7, SlotAssumption DEF Relogin, At, vars
  <2>4. QED
    BY <1>1, <2>1, <2>2, <2>3 DEF AgentInv, Files
<1>8. CASE UNCHANGED agentVars
  <2>1. UNCHANGED <<file, todo, loaded, due, outcome>>
    BY <1>8 DEF agentVars
  <2>2. Progress'
    BY <2>1 DEF AgentInv, Progress, Installing, Uninstalling
  <2>3. At(Job, "idle") /\ loaded = "no" => At(Job, "idle")'
    BY <1>2 DEF Launch
  <2>4. QED
    BY <1>1, <2>1, <2>2, <2>3 DEF AgentInv
<1>9. QED
  BY <1>3, <1>4, <1>5, <1>6, <1>7, <1>8 DEF AgentNext, Work, World, allVars, agentVars

LEMMA AgentInitInv == AgentInit => AgentInv
<1> SUFFICES ASSUME AgentInit PROVE AgentInv
  OBVIOUS
<1>1. TypeOK /\ Path
  BY InitType, InitPath DEF AgentInit
<1>2. proc[Cli].kind = "dry" /\ At(Job, "idle")
  BY SlotAssumption DEF AgentInit, Init, Idle, At
<1>3. QED
  BY <1>1, <1>2 DEF AgentInit, AgentInv, Progress

LEMMA AgentInvHolds == AgentSpec => []AgentInv
  BY AgentInitInv, AgentNextInv, PTL DEF AgentSpec

(***************************************************************************)
(* A command is always somewhere in its script, an unloaded label has no   *)
(* process and only a loaded one is owed a start.                          *)
(***************************************************************************)
THEOREM AgentTypeCorrect == AgentSpec => []AgentTypeOK
<1>1. ASSUME AgentInv PROVE AgentTypeOK
  <2> DEFINE scripts == {InstallSteps(s) : s \in Sources} \union {UninstallSteps}
  <2>1. Len(UninstallSteps) = 4 /\ \A src \in Sources : Len(InstallSteps(src)) = 8
    BY DEF InstallSteps, UninstallSteps
  <2>2. \E script \in scripts : \E n \in 0..Len(script) :
            todo = SubSeq(script, n + 1, Len(script))
    <3>1. CASE todo = <<>>
      <4>1. todo = SubSeq(UninstallSteps, 4 + 1, 4)
        BY <3>1, ScriptEnds
      <4>2. 4 \in 0..Len(UninstallSteps) /\ todo = SubSeq(UninstallSteps, 4 + 1, Len(UninstallSteps))
        BY <2>1, <4>1
      <4>3. QED
        BY <4>2
    <3>2. ASSUME NEW src \in Sources, NEW n \in 0..7, Installing(src, n)
          PROVE  n \in 0..Len(InstallSteps(src))
                 /\ todo = SubSeq(InstallSteps(src), n + 1, Len(InstallSteps(src)))
      <4>1. Len(InstallSteps(src)) = 8
        BY <2>1
      <4>2. todo = SubSeq(InstallSteps(src), n + 1, 8)
        BY <3>2 DEF Installing
      <4>3. QED
        BY <4>1, <4>2
    <3>3. ASSUME NEW n \in 0..3, Uninstalling(n)
          PROVE  n \in 0..Len(UninstallSteps)
                 /\ todo = SubSeq(UninstallSteps, n + 1, Len(UninstallSteps))
      BY <2>1, <3>3 DEF Uninstalling
    <3>4. QED
      BY <1>1, <3>1, <3>2, <3>3 DEF AgentInv, Progress
  <2>3. QED
    BY <1>1, <2>2 DEF AgentInv, AgentTypeOK
<1>2. QED
  BY <1>1, AgentInvHolds, PTL

-----------------------------------------------------------------------------
(***************************************************************************)
(* An install that reported success has left the three files complete and  *)
(* the label loaded, until the next command: provided it was not run from  *)
(* the very file it copies to.                                             *)
(***************************************************************************)
THEOREM InstalledWholeHolds ==
  ASSUME "bin" \notin Sources
  PROVE  AgentSpec => []InstalledWhole
<1>1. AgentInv => InstalledWhole
  BY DEF AgentInv, InstalledWhole
<1>2. QED
  BY <1>1, AgentInvHolds, PTL

(***************************************************************************)
(* After an uninstall that ran to its end nothing is started, whatever its *)
(* bootout did: the launcher is gone.                                      *)
(***************************************************************************)
THEOREM QuietAfterUninstallHolds == AgentSpec => QuietAfterUninstall
<1>1. AgentInv /\ [AgentNext]_allVars
      => [outcome = "uninstalled" /\ At(Job, "idle") => At(Job, "idle")']_allVars
  <2> SUFFICES ASSUME AgentInv, [AgentNext]_allVars, outcome = "uninstalled", At(Job, "idle")
               PROVE  At(Job, "idle")'
    OBVIOUS
  <2>1. file["launcher"] # "whole"
    BY DEF AgentInv
  <2>2. CASE Launch
    BY <2>1, <2>2 DEF Launch, vars, At
  <2>3. CASE ~Launch
    BY <2>3, JobStays DEF AgentInv
  <2>4. QED
    BY <2>2, <2>3
<1>2. QED
  BY <1>1, AgentInvHolds, PTL DEF AgentSpec, QuietAfterUninstall

-----------------------------------------------------------------------------
(***************************************************************************)
(* Under launchd the runs that may clean or stamp never overlap, so that   *)
(* what RunnerProofs shows of serial invocations holds of the agent.       *)
(***************************************************************************)
LEMMA AgentSerial ==
  ASSUME AgentInv, SerialInv, [AgentNext]_allVars
  PROVE  SerialInv' /\ [Gate!Next]_(Gate!vars)
<1>1. CASE Onward
  BY <1>1, OnwardSerial, OnwardGate DEF AgentInv
<1>2. CASE Start(Job, "run")
  <2>1. \A q \in Procs : proc[q].kind = "dry"
    <3>1. proc[Job].kind = "dry"
      BY <1>2, SlotAssumption DEF Start, At, AgentInv, Path
    <3>2. QED
      BY <3>1, SlotAssumption DEF AgentInv
  <2>2. QED
    BY <1>2, <2>1, StartSerial, StartGate, SlotAssumption DEF AgentInv
<1>3. CASE Start(Cli, "dry")
  BY <1>3, StartSerial, StartGate, SlotAssumption DEF AgentInv
<1>4. QED
  BY <1>1, <1>2, <1>3, AgentStep

LEMMA AgentSerialHolds == AgentSpec => [](AgentInv /\ SerialInv)
<1>1. AgentInit => AgentInv /\ SerialInv
  BY AgentInitInv, InitSerial DEF AgentInit
<1>2. AgentInv /\ SerialInv /\ [AgentNext]_allVars => (AgentInv /\ SerialInv)'
  BY AgentNextInv, AgentSerial
<1>3. QED
  BY <1>1, <1>2, PTL DEF AgentSpec

(***************************************************************************)
(* "A load-time run and the scheduled run never double-clean": the agent's *)
(* cleans lie at least min_interval after every stamp, through installs,   *)
(* uninstalls, restarts, kills and failed writes.                          *)
(***************************************************************************)
THEOREM AgentSpacing == AgentSpec => []UnforcedSpacing
<1>1. SerialInv => UnforcedSpacing
  BY DEF SerialInv, UnforcedSpacing, UnforcedClean, At
<1>2. QED
  BY <1>1, AgentSerialHolds, PTL

\* And so the agent implements the ledger of CleanGate.
THEOREM AgentGate == AgentSpec => GateSpec
<1>1. AgentInit => Gate!Init
  <2>1. Idle.pc = "idle"
    BY DEF Idle
  <2>2. QED
    BY <2>1 DEF AgentInit, Init, Gate!Init, Cleaning, At
<1>2. AgentInv /\ SerialInv /\ [AgentNext]_allVars => [Gate!Next]_(Gate!vars)
  BY AgentSerial
<1>3. QED
  BY <1>1, <1>2, AgentSerialHolds, PTL DEF AgentSpec, GateSpec, Gate!Spec

-----------------------------------------------------------------------------
(***************************************************************************)
(* launchd, install and uninstall only start invocations and end them: the *)
(* agent is a Runner, so that what RunnerProofs shows of invocations which *)
(* overlap at will holds of it, on any clock.                              *)
(***************************************************************************)
THEOREM AgentIsRunner == AgentSpec => Spec
<1>1. AgentInit => Init
  BY DEF AgentInit
<1>2. QED
  BY <1>1, AgentNextStep, PTL DEF AgentSpec, Spec

\* launchd's unforced runs delete on a marked home only.
COROLLARY AgentMarkedFirst == AgentSpec => []MarkedBeforeClean
  BY AgentIsRunner, MarkedBeforeCleanHolds, PTL

\* They delete after a preview, or after a first run of a disabled cleaner.
COROLLARY AgentNeverBlind == AgentSpec => []NoBlindClean
  BY AgentIsRunner, NoBlindCleanHolds, PTL

\* Until an invocation is killed or fails, reinstalling loses no stamp.
COROLLARY AgentKeepsStamp == AgentSpec => []MissingOnlyMidWrite
  BY AgentIsRunner, MissingOnlyMidWriteHolds, PTL

-----------------------------------------------------------------------------
(***************************************************************************)
(* What an install promises comes about.  As for an invocation of Runner,  *)
(* that launchd can give the start it owes and that a living job can step  *)
(* is a premise: the provers do not look inside ENABLED.                   *)
(***************************************************************************)
CanServe ==
  /\ due /\ At(Job, "idle") => ENABLED <<Launch>>_allVars
  /\ ~At(Job, "idle") => ENABLED <<Work(Job)>>_allVars

Owed == outcome = "installed" /\ due

Effect == Settled \/ config = "bad" \/ outcome # "installed"

\* launchd owes no start to a job that runs.
DueIdle == due => At(Job, "idle")

LEMMA NextDueIdle ==
  ASSUME AgentInv, DueIdle, [AgentNext]_allVars
  PROVE  DueIdle'
<1>1. CASE due'
  <2>1. At(Job, "idle")
    <3>1. CASE Command
      BY <1>1, <3>1 DEF DueIdle, AgentInv, Command, Install, Uninstall, Open, Copy, Fill, Remove,
                        Bootout, Bootstrap, EndUninstall, Abort
    <3>2. CASE Calendar \/ Launch \/ Leave \/ Relogin
      BY <1>1, <3>2, SlotAssumption DEF DueIdle, Calendar, Launch, Leave, Relogin
    <3>3. CASE UNCHANGED agentVars
      BY <1>1, <3>3 DEF DueIdle, agentVars
    <3>4. QED
      BY <3>1, <3>2, <3>3 DEF AgentNext, Work, World, allVars, agentVars
  <2>2. ~Launch
    BY <1>1 DEF Launch
  <2>3. QED
    BY <2>1, <2>2, JobStays DEF AgentInv, DueIdle
<1>2. QED
  BY <1>1 DEF DueIdle

LEMMA DueIdleHolds == AgentSpec => [](AgentInv /\ DueIdle)
<1>1. AgentInit => AgentInv /\ DueIdle
  BY AgentInitInv DEF AgentInit, DueIdle
<1>2. AgentInv /\ DueIdle /\ [AgentNext]_allVars => (AgentInv /\ DueIdle)'
  BY AgentNextInv, NextDueIdle
<1>3. QED
  BY <1>1, <1>2, PTL DEF AgentSpec

\* Until launchd gives it, only a new command can cancel an owed start.
LEMMA OwedWaits ==
  ASSUME "bin" \notin Sources, AgentInv, [AgentNext]_allVars, Owed, ~Launch
  PROVE  (Owed \/ Effect)'
<1>1. outcome' # "installed" \/ due'
  <2>1. ASSUME NEW who, Bootout(who) PROVE outcome = "none"
    <3>1. todo # <<>>
      BY <2>1 DEF Bootout, Doing
    <3>2. QED
      BY <3>1 DEF AgentInv, Progress, Installing, Uninstalling
  <2>2. outcome = "installed" /\ due /\ loaded = "yes" /\ file["plist"] = "whole"
    BY DEF Owed, AgentInv, Files
  <2>3. CASE Command
    BY <2>1, <2>2, <2>3
       DEF Command, Install, Uninstall, Open, Copy, Fill, Remove, Bootstrap, EndUninstall, Abort
  <2>4. CASE Calendar \/ Leave \/ Relogin
    BY <2>2, <2>4 DEF Calendar, Leave, Relogin
  <2>5. CASE UNCHANGED agentVars
    BY <2>2, <2>5 DEF agentVars
  <2>6. QED
    BY <2>3, <2>4, <2>5 DEF AgentNext, Work, World, allVars, agentVars
<1>2. QED
  BY <1>1 DEF Owed, Effect

\* The start it gives is a run at its choice: the install left every part whole.
LEMMA OwedLaunch ==
  ASSUME "bin" \notin Sources, AgentInv, Owed, Launch
  PROVE  (At(Job, "choose") \/ Effect)'
<1>1. file["launcher"] = "whole" /\ file["bin"] = "whole"
  BY DEF Owed, AgentInv, Files
<1>2. CASE config = "bad"
  <2>1. config' = config
    BY <1>1, <1>2 DEF Launch, vars
  <2>2. QED
    BY <1>2, <2>1 DEF Effect
<1>3. CASE config # "bad"
  <2>1. Start(Job, "run")
    BY <1>1, <1>3 DEF Launch
  <2>2. QED
    BY <2>1, SlotAssumption DEF Start, At, AgentInv, TypeOK
<1>4. QED
  BY <1>2, <1>3

(***************************************************************************)
(* Once an install has reported success, the start owed to the agent marks *)
(* the home, unless some invocation fails, the configuration is malformed  *)
(* or another install or uninstall is begun; again for an install that was *)
(* not run from the file it copies to.                                     *)
(***************************************************************************)
THEOREM InstallTakesEffectHolds ==
  ASSUME "bin" \notin Sources
  PROVE  AgentSpec /\ []CanServe => InstallTakesEffect
<1>1. AgentInv /\ Owed /\ [AgentNext]_allVars => (Owed \/ At(Job, "choose") \/ Effect)'
  BY OwedWaits, OwedLaunch
<1>2. AgentInv /\ Owed /\ <<Launch>>_allVars => (At(Job, "choose") \/ Effect)'
  BY OwedLaunch
<1>3. DueIdle /\ CanServe /\ Owed => ENABLED <<Launch>>_allVars
  BY DEF DueIdle, CanServe, Owed
<1>4. AgentInv /\ DueIdle /\ []CanServe /\ WF_allVars(Launch) /\ [][AgentNext]_allVars
      /\ []AgentInv /\ []DueIdle => (Owed ~> At(Job, "choose") \/ Effect)
  BY <1>1, <1>2, <1>3, PTL
<1>5. <<Work(Job)>>_allVars => <<Step(Job)>>_vars
  BY DEF Work, allVars, agentVars
<1>6. CanServe => (~At(Job, "idle") => ENABLED <<Work(Job)>>_allVars)
  BY DEF CanServe
<1>7. []CanServe /\ WF_allVars(Work(Job)) => Scheduled(Job)
  BY <1>5, <1>6, PTL DEF Scheduled
<1>8. AgentInv => TypeOK
  BY DEF AgentInv
<1>9. [][Next]_vars /\ []TypeOK /\ Scheduled(Job) => GetsMarked(Job)
  BY PreviewRuns, SlotAssumption
<1>10. Settled => Effect
  BY DEF Effect
<1>11. AgentSpec /\ []CanServe => (Owed ~> Effect)
  BY <1>4, <1>7, <1>8, <1>9, <1>10, AgentNextStep, DueIdleHolds, PTL
     DEF AgentSpec, GetsMarked
<1>12. outcome = "installed" /\ due => Owed
  BY DEF Owed
<1>13. Effect => lastRun # NoStamp \/ failed \/ config = "bad" \/ outcome # "installed"
  BY DEF Effect, Settled
<1>14. QED
  BY <1>11, <1>12, <1>13, PTL DEF InstallTakesEffect
=============================================================================
