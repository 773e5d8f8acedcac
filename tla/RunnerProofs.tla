---------------------------- MODULE RunnerProofs ----------------------------
(* What Runner guarantees for every number of invocations, every interval, *)
(* every clock and every choice of the switches a theorem does not fix.    *)
EXTENDS Runner, TLAPS

(***************************************************************************)
(* The variables keep their types, so every field an invocation reads is   *)
(* one the code could hold.                                                *)
(***************************************************************************)
LEMMA IdleType == Idle \in Invocation
  BY DEF Idle, Invocation, Labels, Kinds

LEMMA GotoType ==
  ASSUME proc \in [Procs -> Invocation], NEW p \in Procs,
         NEW label \in Labels, Goto(p, label)
  PROVE  proc' \in [Procs -> Invocation]
  BY DEF Goto, Invocation

LEMMA ExitType ==
  ASSUME proc \in [Procs -> Invocation], NEW p \in Procs, Exit(p)
  PROVE  proc' \in [Procs -> Invocation]
  BY IdleType DEF Exit

LEMMA InitType == Init => TypeOK
<1> SUFFICES ASSUME Init PROVE TypeOK
  OBVIOUS
<1>1. proc \in [Procs -> Invocation]
  BY IdleType DEF Init
<1>2. config \in {"on", "off", "bad"}
  BY SwitchAssumption DEF Init
<1>3. QED
  BY <1>1, <1>2 DEF Init, TypeOK, Stamp

LEMMA StepType ==
  ASSUME TypeOK, NEW p \in Procs, Step(p)
  PROVE  TypeOK'
<1> USE DEF TypeOK, Stamp
<1>1. CASE Choose(p)
  BY <1>1 DEF Choose, Invocation, Labels, Kinds
<1>2. CASE Disabled(p)
  BY <1>2, GotoType, ExitType DEF Disabled, Labels
<1>3. CASE Execute(p)
  BY <1>3 DEF Execute, Invocation, Labels
<1>4. CASE Guard(p)
  BY <1>4, GotoType, ExitType DEF Guard, Labels
<1>5. CASE \E someOk \in BOOLEAN : EndClean(p, someOk)
  BY <1>5, GotoType DEF EndClean, Labels
<1>6. CASE EndSurvey(p)
  BY <1>6, GotoType DEF EndSurvey, Labels
<1>7. CASE Log(p)
  BY <1>7, GotoType, ExitType DEF Log, Labels
<1>8. CASE Mark(p)
  BY <1>8 DEF Mark, Invocation, Labels
<1>9. CASE Truncate(p)
  BY <1>9, GotoType DEF Truncate, Labels
<1>10. CASE Write(p)
  <2>1. proc[p].now \in Nat
    BY DEF Invocation
  <2>2. proc' \in [Procs -> Invocation]
    BY <1>10, GotoType, ExitType DEF Write, Labels
  <2>3. QED
    BY <1>10, <2>1, <2>2 DEF Write, Newest
<1>11. CASE StampFails(p)
  BY <1>11, ExitType DEF StampFails
<1>12. QED
  BY <1>1, <1>2, <1>3, <1>4, <1>5, <1>6, <1>7, <1>8, <1>9, <1>10, <1>11 DEF Step

LEMMA NextType == TypeOK /\ [Next]_vars => TypeOK'
<1> SUFFICES ASSUME TypeOK, [Next]_vars PROVE TypeOK'
  OBVIOUS
<1> USE DEF TypeOK, Stamp
<1>1. CASE UNCHANGED vars
  BY <1>1 DEF vars
<1>2. ASSUME NEW p \in Procs, Step(p) PROVE TypeOK'
  BY <1>2, StepType
<1>3. ASSUME NEW p \in Procs, Crash(p) PROVE TypeOK'
  BY <1>3, ExitType DEF Crash
<1>4. ASSUME NEW p \in Procs, NEW c \in Cmds, Start(p, c) PROVE TypeOK'
  BY <1>4, SwitchAssumption DEF Start, Invocation, Labels, Kinds
<1>5. CASE Tick
  BY <1>5 DEF Tick
<1>6. CASE SetClockBack
  BY <1>6 DEF SetClockBack
<1>7. ASSUME NEW c \in Configs, EditConfig(c) PROVE TypeOK'
  BY <1>7, SwitchAssumption DEF EditConfig
<1>8. QED
  BY <1>1, <1>2, <1>3, <1>4, <1>5, <1>6, <1>7 DEF Next

\* Every field of every invocation stays in range, whatever interleaves.
THEOREM TypeCorrect == Spec => []TypeOK
  BY InitType, NextType, PTL DEF Spec

-----------------------------------------------------------------------------
\* A step is taken by an invocation, ends or begins one, or is outside them.
LEMMA NextCases ==
  ASSUME [Next]_vars
  PROVE  \/ \E p \in Procs : Step(p)
         \/ \E p \in Procs : Crash(p)
         \/ \E p \in Procs, c \in Cmds : Start(p, c)
         \/ UNCHANGED <<lastRun, proc, shown, credited, failed>>
  BY DEF Next, vars, Tick, SetClockBack, EditConfig

-----------------------------------------------------------------------------
(***************************************************************************)
(* Which kinds of invocation can be at which step.                         *)
(***************************************************************************)
Path ==
  \A p \in Procs :
    /\ proc[p].pc = "idle" => proc[p].kind = "dry"
    /\ proc[p].pc = "choose" => proc[p].kind = "run"
    /\ proc[p].pc = "survey" => proc[p].kind \in {"dry", "preview"}
    /\ proc[p].pc = "mark" => proc[p].kind = "preview"
    /\ proc[p].pc \in {"guard", "clean"} => proc[p].kind \in {"run", "force"}
    /\ proc[p].pc \in {"truncate", "write"} => proc[p].kind # "dry"

LEMMA InitPath == Init => Path
<1> SUFFICES ASSUME Init PROVE Path
  OBVIOUS
<1>1. \A p \in Procs : proc[p] = Idle
  BY DEF Init
<1>2. Idle.pc = "idle" /\ Idle.kind = "dry"
  BY DEF Idle
<1>3. QED
  BY <1>1, <1>2 DEF Path

LEMMA StepPath ==
  ASSUME TypeOK, Path, NEW p \in Procs, Step(p)
  PROVE  Path'
<1> USE DEF TypeOK, Path, Invocation, Kinds, At
<1>1. CASE Choose(p)
  BY <1>1 DEF Choose
<1>2. CASE Disabled(p)
  BY <1>2 DEF Disabled, Goto, Exit, Idle
<1>3. CASE Execute(p)
  BY <1>3 DEF Execute, IsDry
<1>4. CASE Guard(p)
  BY <1>4 DEF Guard, Goto, Exit, Idle
<1>5. CASE \E someOk \in BOOLEAN : EndClean(p, someOk)
  BY <1>5 DEF EndClean, Goto
<1>6. CASE EndSurvey(p)
  BY <1>6 DEF EndSurvey, Goto
<1>7. CASE Log(p)
  BY <1>7 DEF Log, Goto, Exit, Idle
<1>8. CASE Mark(p)
  BY <1>8 DEF Mark
<1>9. CASE Truncate(p)
  BY <1>9 DEF Truncate, Goto
<1>10. CASE Write(p)
  BY <1>10 DEF Write, Goto, Exit, Idle
<1>11. CASE StampFails(p)
  BY <1>11 DEF StampFails, Exit, Idle
<1>12. QED
  BY <1>1, <1>2, <1>3, <1>4, <1>5, <1>6, <1>7, <1>8, <1>9, <1>10, <1>11 DEF Step

LEMMA NextPath == TypeOK /\ Path /\ [Next]_vars => Path'
<1> SUFFICES ASSUME TypeOK, Path, [Next]_vars PROVE Path'
  OBVIOUS
<1> USE DEF TypeOK, Path, Invocation
<1>1. ASSUME NEW p \in Procs, Step(p) PROVE Path'
  BY <1>1, StepPath
<1>2. ASSUME NEW p \in Procs, Crash(p) PROVE Path'
  BY <1>2 DEF Crash, Exit, Idle
<1>3. ASSUME NEW p \in Procs, NEW c \in Cmds, Start(p, c) PROVE Path'
  BY <1>3 DEF Start
<1>4. CASE UNCHANGED <<lastRun, proc, shown, credited, failed>>
  BY <1>4
<1>5. QED
  BY <1>1, <1>2, <1>3, <1>4, NextCases

-----------------------------------------------------------------------------
(***************************************************************************)
(* The guard inside execute lets an unforced run through when it finds no  *)
(* stamp; what keeps a fresh home safe is cmd_run's earlier read.  So the  *)
(* invariant follows an unforced run from that read on.                    *)
(***************************************************************************)
Decided == {"execute", "guard", "clean"}

MarkedInv ==
  /\ lastRun # NoStamp => credited # NoStamp
  /\ \A p \in Procs :
        proc[p].kind = "run" /\ proc[p].pc \in Decided => credited # NoStamp

LEMMA StepMarked ==
  ASSUME TypeOK, Path, MarkedInv, NEW p \in Procs, Step(p)
  PROVE  MarkedInv'
<1> USE DEF TypeOK, Path, MarkedInv, Decided, Invocation, At
<1>1. CASE Choose(p)
  BY <1>1 DEF Choose
<1>2. CASE Disabled(p)
  BY <1>2 DEF Disabled, Goto, Exit, Idle
<1>3. CASE Execute(p)
  BY <1>3 DEF Execute
<1>4. CASE Guard(p)
  BY <1>4 DEF Guard, Goto, Exit, Idle
<1>5. CASE \E someOk \in BOOLEAN : EndClean(p, someOk)
  BY <1>5 DEF EndClean, Goto
<1>6. CASE EndSurvey(p)
  BY <1>6 DEF EndSurvey, Goto
<1>7. CASE Log(p)
  BY <1>7 DEF Log, Goto, Exit, Idle
<1>8. CASE Mark(p)
  BY <1>8 DEF Mark
<1>9. CASE Truncate(p)
  BY <1>9 DEF Truncate, Goto
<1>10. CASE Write(p)
  <2>1. credited' # NoStamp
    BY <1>10, StampAssumption DEF Write, Newest, Stamp
  <2>2. QED
    BY <1>10, <2>1
<1>11. CASE StampFails(p)
  BY <1>11 DEF StampFails, Exit, Idle
<1>12. QED
  BY <1>1, <1>2, <1>3, <1>4, <1>5, <1>6, <1>7, <1>8, <1>9, <1>10, <1>11 DEF Step

LEMMA NextMarked == TypeOK /\ Path /\ MarkedInv /\ [Next]_vars => MarkedInv'
<1> SUFFICES ASSUME TypeOK, Path, MarkedInv, [Next]_vars PROVE MarkedInv'
  OBVIOUS
<1> USE DEF TypeOK, MarkedInv, Decided, Invocation
<1>1. ASSUME NEW p \in Procs, Step(p) PROVE MarkedInv'
  BY <1>1, StepMarked
<1>2. ASSUME NEW p \in Procs, Crash(p) PROVE MarkedInv'
  BY <1>2 DEF Crash, Exit, Idle
<1>3. ASSUME NEW p \in Procs, NEW c \in Cmds, Start(p, c) PROVE MarkedInv'
  BY <1>3 DEF Start
<1>4. CASE UNCHANGED <<lastRun, proc, shown, credited, failed>>
  BY <1>4
<1>5. QED
  BY <1>1, <1>2, <1>3, <1>4, NextCases

(***************************************************************************)
(* However many invocations overlap, crash, fail to write or see the clock *)
(* set back, an unforced one never deletes on a home nobody has marked.    *)
(***************************************************************************)
THEOREM MarkedBeforeCleanHolds == Spec => []MarkedBeforeClean
<1>1. Init => TypeOK /\ Path /\ MarkedInv
  <2>1. Init => MarkedInv
    BY DEF Init, MarkedInv, Decided, Idle
  <2>2. QED
    BY <2>1, InitType, InitPath
<1>2. TypeOK /\ Path /\ MarkedInv /\ [Next]_vars => (TypeOK /\ Path /\ MarkedInv)'
  BY NextType, NextPath, NextMarked
<1>3. MarkedInv => MarkedBeforeClean
  BY DEF MarkedInv, MarkedBeforeClean, UnforcedClean, At, Decided
<1>4. QED
  BY <1>1, <1>2, <1>3, PTL DEF Spec

-----------------------------------------------------------------------------
(***************************************************************************)
(* The preview.  Whoever is about to stamp has printed a preview, was      *)
(* forced, or found the cleaner disabled, so a stamp on disk always has    *)
(* one of the three behind it.                                             *)
(***************************************************************************)
ShownInv ==
  /\ lastRun # NoStamp => shown
  /\ \A p \in Procs :
       /\ proc[p].pc \in {"mark", "truncate", "write"} => shown
       /\ proc[p].pc = "clean" => shown
       /\ proc[p].kind = "run" /\ proc[p].pc \in Decided => shown

LEMMA StepShown ==
  ASSUME TypeOK, Path, ShownInv, NEW p \in Procs, Step(p)
  PROVE  ShownInv'
<1> USE DEF TypeOK, Path, ShownInv, Decided, Invocation, At
<1>1. CASE Choose(p)
  BY <1>1 DEF Choose
<1>2. CASE Disabled(p)
  <2>1. /\ shown => shown'
        /\ proc[p].kind = "preview" => shown'
        /\ UNCHANGED lastRun
    BY <1>2 DEF Disabled
  <2>2. CASE proc[p].kind = "preview"
    <3>1. proc' = [proc EXCEPT ![p].pc = "mark"]
      BY <1>2, <2>2 DEF Disabled, Goto
    <3> QED
      BY <2>1, <2>2, <3>1
  <2>3. CASE proc[p].kind # "preview"
    <3>1. proc' = [proc EXCEPT ![p] = Idle]
      BY <1>2, <2>3 DEF Disabled, Exit
    <3> QED
      BY <2>1, <3>1 DEF Idle
  <2> QED
    BY <2>2, <2>3
<1>3. CASE Execute(p)
  BY <1>3 DEF Execute
<1>4. CASE Guard(p)
  <2>1. At(p, "guard") /\ UNCHANGED lastRun
    BY <1>4 DEF Guard
  <2>2. CASE ShouldRun(lastRun, proc[p].now, proc[p].kind = "force")
    <3>1. /\ proc' = [proc EXCEPT ![p].pc = "clean"]
          /\ shown => shown'
          /\ proc[p].kind = "force" => shown'
      BY <1>4, <2>2 DEF Guard, Goto
    <3>2. shown'
      BY <2>1, <3>1
    <3> QED
      BY <2>1, <3>1, <3>2
  <2>3. CASE ~ShouldRun(lastRun, proc[p].now, proc[p].kind = "force")
    <3>1. proc' = [proc EXCEPT ![p] = Idle] /\ UNCHANGED shown
      BY <1>4, <2>3 DEF Guard, Exit
    <3> QED
      BY <2>1, <3>1 DEF Idle
  <2> QED
    BY <2>2, <2>3
<1>5. CASE \E someOk \in BOOLEAN : EndClean(p, someOk)
  BY <1>5 DEF EndClean, Goto
<1>6. CASE EndSurvey(p)
  BY <1>6 DEF EndSurvey, Goto
<1>7. CASE Log(p)
  <2>1. /\ shown => shown'
        /\ proc[p].kind = "preview" => shown'
        /\ UNCHANGED lastRun
    BY <1>7 DEF Log
  <2>2. CASE proc[p].kind = "preview"
    <3>1. proc' = [proc EXCEPT ![p].pc = "mark"]
      BY <1>7, <2>2 DEF Log, Goto
    <3> QED
      BY <2>1, <2>2, <3>1
  <2>3. CASE proc[p].kind # "preview"
    <3>1. proc' = [proc EXCEPT ![p] = Idle]
      BY <1>7, <2>3 DEF Log, Exit
    <3> QED
      BY <2>1, <3>1 DEF Idle
  <2> QED
    BY <2>2, <2>3
<1>8. CASE Mark(p)
  BY <1>8 DEF Mark
<1>9. CASE Truncate(p)
  BY <1>9 DEF Truncate, Goto
<1>10. CASE Write(p)
  BY <1>10 DEF Write, Goto, Exit, Idle
<1>11. CASE StampFails(p)
  BY <1>11 DEF StampFails, Exit, Idle
<1>12. QED
  BY <1>1, <1>2, <1>3, <1>4, <1>5, <1>6, <1>7, <1>8, <1>9, <1>10, <1>11 DEF Step

LEMMA NextShown ==
  ASSUME TypeOK, Path, ShownInv, [Next]_vars
  PROVE  ShownInv'
<1> USE DEF TypeOK, ShownInv, Decided, Invocation
<1>1. ASSUME NEW p \in Procs, Step(p) PROVE ShownInv'
  BY <1>1, StepShown
<1>2. ASSUME NEW p \in Procs, Crash(p) PROVE ShownInv'
  BY <1>2 DEF Crash, Exit, Idle
<1>3. ASSUME NEW p \in Procs, NEW c \in Cmds, Start(p, c) PROVE ShownInv'
  BY <1>3, SwitchAssumption DEF Start
<1>4. CASE UNCHANGED <<lastRun, proc, shown, credited, failed>>
  BY <1>4
<1>5. QED
  BY <1>1, <1>2, <1>3, <1>4, NextCases

(***************************************************************************)
(* Nothing is ever deleted without force on a home that has not seen a     *)
(* preview, a forced clean or a first run that was told to do nothing.     *)
(***************************************************************************)
THEOREM NoBlindCleanHolds == Spec => []NoBlindClean
<1>1. Init => TypeOK /\ Path /\ ShownInv
  <2>1. Idle.pc = "idle"
    BY DEF Idle
  <2>2. Init => ShownInv
    BY <2>1 DEF Init, ShownInv, Decided
  <2>3. QED
    BY <2>2, InitType, InitPath
<1>2. TypeOK /\ Path /\ ShownInv /\ [Next]_vars => (TypeOK /\ Path /\ ShownInv)'
  BY NextType, NextPath, NextShown
<1>3. ShownInv => NoBlindClean
  BY DEF ShownInv, NoBlindClean, UnforcedClean, At
<1>4. QED
  BY <1>1, <1>2, <1>3, PTL DEF Spec

-----------------------------------------------------------------------------
(***************************************************************************)
(* The missing stamp is its own invariant: whoever empties the file is the *)
(* one that fills it.                                                      *)
(***************************************************************************)
LEMMA StepMissing ==
  ASSUME TypeOK, MissingOnlyMidWrite, NEW p \in Procs, Step(p)
  PROVE  MissingOnlyMidWrite'
<1> USE DEF TypeOK, MissingOnlyMidWrite, Invocation, At
<1>1. CASE Choose(p)
  BY <1>1 DEF Choose
<1>2. CASE Disabled(p)
  BY <1>2 DEF Disabled, Goto, Exit
<1>3. CASE Execute(p)
  BY <1>3 DEF Execute
<1>4. CASE Guard(p)
  BY <1>4 DEF Guard, Goto, Exit
<1>5. CASE \E someOk \in BOOLEAN : EndClean(p, someOk)
  BY <1>5 DEF EndClean, Goto
<1>6. CASE EndSurvey(p)
  BY <1>6 DEF EndSurvey, Goto
<1>7. CASE Log(p)
  BY <1>7 DEF Log, Goto, Exit
<1>8. CASE Mark(p)
  BY <1>8 DEF Mark
<1>9. CASE Truncate(p)
  BY <1>9 DEF Truncate, Goto
<1>10. CASE Write(p)
  BY <1>10, StampAssumption DEF Write
<1>11. CASE StampFails(p)
  BY <1>11 DEF StampFails
<1>12. QED
  BY <1>1, <1>2, <1>3, <1>4, <1>5, <1>6, <1>7, <1>8, <1>9, <1>10, <1>11 DEF Step

LEMMA NextMissing ==
  ASSUME TypeOK, MissingOnlyMidWrite, [Next]_vars
  PROVE  MissingOnlyMidWrite'
<1> USE DEF MissingOnlyMidWrite, At
<1>1. ASSUME NEW p \in Procs, Step(p) PROVE MissingOnlyMidWrite'
  BY <1>1, StepMissing
<1>2. ASSUME NEW p \in Procs, Crash(p) PROVE MissingOnlyMidWrite'
  BY <1>2 DEF Crash
<1>3. ASSUME NEW p \in Procs, NEW c \in Cmds, Start(p, c) PROVE MissingOnlyMidWrite'
  BY <1>3 DEF Start, TypeOK
<1>4. CASE UNCHANGED <<lastRun, proc, shown, credited, failed>>
  BY <1>4
<1>5. QED
  BY <1>1, <1>2, <1>3, <1>4, NextCases

(***************************************************************************)
(* Until an invocation fails, once a home has been marked the stamp is     *)
(* unreadable only while some invocation is between truncating and writing *)
(* it, however many of them overlap.                                       *)
(***************************************************************************)
THEOREM MissingOnlyMidWriteHolds == Spec => []MissingOnlyMidWrite
<1>1. Init => TypeOK /\ MissingOnlyMidWrite
  BY InitType DEF Init, MissingOnlyMidWrite
<1>2. TypeOK /\ MissingOnlyMidWrite /\ [Next]_vars => (TypeOK /\ MissingOnlyMidWrite)'
  BY NextType, NextMissing
<1>3. QED
  BY <1>1, <1>2, PTL DEF Spec

-----------------------------------------------------------------------------
(***************************************************************************)
(* One invocation at a time but for dry runs, which neither clean nor      *)
(* stamp, on a clock that only moves forward.  The                         *)
(* stamp is then the ledger entry or missing, nobody's `now` lies before   *)
(* the ledger entry it will replace, and what cmd_run read at Choose still *)
(* holds when execute reads last-run again.                                *)
(***************************************************************************)
SerialInv ==
  /\ \A p, q \in Procs : proc[p].kind # "dry" /\ proc[q].kind # "dry" => p = q
  /\ lastRun \in {NoStamp, credited}
  /\ credited # NoStamp => credited <= clock
  /\ \A p \in Procs :
       /\ proc[p].now <= clock
       /\ /\ proc[p].pc \in {"guard", "clean", "truncate", "write"}
          /\ credited # NoStamp
          => credited <= proc[p].now
       /\ proc[p].kind = "run" /\ proc[p].pc \in {"execute", "guard"}
          => lastRun # NoStamp
       /\ proc[p].kind = "run" /\ proc[p].pc = "clean"
          => credited # NoStamp /\ proc[p].now - credited >= MinInterval

LEMMA StepSerial ==
  ASSUME TypeOK, Path, SerialInv, NEW p \in Procs, Step(p)
  PROVE  SerialInv'
<1> USE StampAssumption, TimeAssumption
    DEF TypeOK, Stamp, SerialInv, Invocation, At
<1>1. CASE Choose(p)
  BY <1>1 DEF Choose, Path
<1>2. CASE Disabled(p)
  BY <1>2 DEF Disabled, Goto, Exit, Idle
<1>3. CASE Execute(p)
  BY <1>3 DEF Execute
<1>4. CASE Guard(p)
  BY <1>4 DEF Guard, ShouldRun, Goto, Exit, Idle
<1>5. CASE \E someOk \in BOOLEAN : EndClean(p, someOk)
  BY <1>5 DEF EndClean, Goto
<1>6. CASE EndSurvey(p)
  BY <1>6 DEF EndSurvey, Goto
<1>7. CASE Log(p)
  BY <1>7 DEF Log, Goto, Exit, Idle
<1>8. CASE Mark(p)
  BY <1>8 DEF Mark
<1>9. CASE Truncate(p)
  BY <1>9 DEF Truncate, Goto, Path
<1>10. CASE Write(p)
  BY <1>10 DEF Write, Newest, Goto, Exit, Idle, Path
<1>11. CASE StampFails(p)
  BY <1>11 DEF StampFails, Exit, Idle
<1>12. QED
  BY <1>1, <1>2, <1>3, <1>4, <1>5, <1>6, <1>7, <1>8, <1>9, <1>10, <1>11 DEF Step

\* What is not a start; the starts follow.
Onward ==
  \/ UNCHANGED vars
  \/ \E p \in Procs : Step(p) \/ Crash(p)
  \/ Tick
  \/ \E c \in Configs : EditConfig(c)

LEMMA OnwardSerial ==
  ASSUME TypeOK, Path, SerialInv, Onward
  PROVE  SerialInv'
<1> USE DEF TypeOK, Stamp, SerialInv, Invocation
<1>1. CASE UNCHANGED vars
  BY <1>1 DEF vars
<1>2. ASSUME NEW p \in Procs, Step(p) PROVE SerialInv'
  BY <1>2, StepSerial
<1>3. ASSUME NEW p \in Procs, Crash(p) PROVE SerialInv'
  BY <1>3 DEF Crash, Exit, Idle
<1>4. CASE Tick
  BY <1>4, StampAssumption DEF Tick
<1>5. ASSUME NEW c \in Configs, EditConfig(c) PROVE SerialInv'
  BY <1>5 DEF EditConfig
<1>6. QED
  BY <1>1, <1>2, <1>3, <1>4, <1>5 DEF Onward

LEMMA StartSerial ==
  ASSUME TypeOK, SerialInv, NEW p \in Procs, NEW c, Start(p, c),
         c = "dry" \/ \A q \in Procs : proc[q].kind = "dry"
  PROVE  SerialInv'
  BY DEF TypeOK, Stamp, SerialInv, Invocation, Start, At

LEMMA NextSerial ==
  ASSUME Overlap = FALSE, StepBack = FALSE, TypeOK, Path, SerialInv, [Next]_vars
  PROVE  SerialInv'
<1>1. ASSUME NEW p \in Procs, NEW c \in Cmds, Start(p, c) PROVE SerialInv'
  BY <1>1, StartSerial DEF Start
<1>2. CASE Onward
  BY <1>2, OnwardSerial
<1>3. QED
  BY <1>1, <1>2 DEF Next, Onward, SetClockBack

LEMMA InitSerial == Init => SerialInv
<1> SUFFICES ASSUME Init PROVE SerialInv
  OBVIOUS
<1>1. Idle.pc = "idle" /\ Idle.kind = "dry" /\ Idle.now = 0
  BY DEF Idle
<1>2. QED
  BY <1>1 DEF Init, SerialInv

(***************************************************************************)
(* An unforced clean starts at least min_interval after every stamp ever   *)
(* written, whatever crashed or failed to write in between, as long as     *)
(* invocations do not overlap and the clock is not set back.               *)
(***************************************************************************)
THEOREM UnforcedSpacingHolds ==
  ASSUME Overlap = FALSE, StepBack = FALSE
  PROVE  Spec => []UnforcedSpacing
<1>1. Init => TypeOK /\ Path /\ SerialInv
  BY InitType, InitPath, InitSerial
<1>2. TypeOK /\ Path /\ SerialInv /\ [Next]_vars => (TypeOK /\ Path /\ SerialInv)'
  BY NextType, NextPath, NextSerial
<1>3. SerialInv => UnforcedSpacing
  BY DEF SerialInv, UnforcedSpacing, UnforcedClean, At
<1>4. QED
  BY <1>1, <1>2, <1>3, PTL DEF Spec

-----------------------------------------------------------------------------
(***************************************************************************)
(* The refinement.  An invocation that is not a dry run alone decides what *)
(* the ledger sees as the deletion in progress.                            *)
(***************************************************************************)
LEMMA CleaningOf ==
  ASSUME Path, SerialInv, NEW p \in Procs, proc[p].kind # "dry"
  PROVE  Cleaning = IF proc[p].pc # "clean" THEN "no"
                    ELSE IF proc[p].kind = "run" THEN "unforced" ELSE "forced"
<1>1. \A q \in Procs : At(q, "clean") => q = p
  BY DEF Path, SerialInv, At
<1>2. QED
  BY <1>1 DEF Cleaning, UnforcedClean, At

\* The same after a step of p, which leaves everybody else alone.
LEMMA CleaningNext ==
  ASSUME Path, SerialInv, NEW p \in Procs, proc[p].kind # "dry",
         \A q \in Procs : q # p => proc'[q] = proc[q]
  PROVE  Cleaning' = IF proc'[p].pc # "clean" THEN "no"
                     ELSE IF proc'[p].kind = "run" THEN "unforced" ELSE "forced"
<1>1. \A q \in Procs : At(q, "clean")' => q = p
  BY DEF Path, SerialInv, At
<1>2. QED
  BY <1>1 DEF Cleaning, UnforcedClean, At

\* A step of an invocation that deletes neither before nor after it.
LEMMA CleaningKept ==
  ASSUME NEW p \in Procs, proc[p].pc # "clean", proc'[p].pc # "clean",
         \A q \in Procs : q # p => proc'[q] = proc[q]
  PROVE  Cleaning' = Cleaning
<1>1. \A q \in Procs : (At(q, "clean")' <=> At(q, "clean"))
                       /\ (UnforcedClean(q)' <=> UnforcedClean(q))
  BY DEF At, UnforcedClean
<1>2. QED
  BY <1>1 DEF Cleaning

\* A dry run never reaches the clean or the stamp.
LEMMA DryStep ==
  ASSUME TypeOK, Path, NEW p \in Procs, Step(p), proc[p].kind = "dry"
  PROVE  /\ proc[p].pc # "clean" /\ proc'[p].pc # "clean"
         /\ proc'[p].kind = "dry"
         /\ UNCHANGED <<clock, credited>>
<1> USE DEF TypeOK, Path, Invocation, At
<1>1. CASE Disabled(p)
  BY <1>1 DEF Disabled, Goto, Exit, Idle
<1>2. CASE Execute(p)
  BY <1>2 DEF Execute, IsDry
<1>3. CASE EndSurvey(p)
  BY <1>3 DEF EndSurvey, Goto
<1>4. CASE Log(p)
  BY <1>4 DEF Log, Exit, Idle
<1>5. CASE Choose(p) \/ Guard(p) \/ Mark(p) \/ Truncate(p) \/ Write(p) \/ StampFails(p)
           \/ \E someOk \in BOOLEAN : EndClean(p, someOk)
  BY <1>5 DEF Choose, Guard, EndClean, Mark, Truncate, Write, StampFails
<1>6. QED
  BY <1>1, <1>2, <1>3, <1>4, <1>5 DEF Step

LEMMA OthersKeep ==
  ASSUME TypeOK, NEW p \in Procs, Step(p) \/ Crash(p)
  PROVE  /\ proc[p].pc # "idle"
         /\ \A q \in Procs : q # p => proc'[q] = proc[q]
  BY DEF TypeOK, Step, Choose, Disabled, Execute, Guard, EndClean, EndSurvey, Log, Mark,
         Truncate, Write, StampFails, Crash, At, Goto, Exit

LEMMA StepGate ==
  ASSUME TypeOK, Path, SerialInv, NEW p \in Procs, Step(p)
  PROVE  [Gate!Next]_(Gate!vars)
<1> DEFINE before == IF proc[p].pc # "clean" THEN "no"
                     ELSE IF proc[p].kind = "run" THEN "unforced" ELSE "forced"
           after == IF proc'[p].pc # "clean" THEN "no"
                    ELSE IF proc'[p].kind = "run" THEN "unforced" ELSE "forced"
<1>0. CASE proc[p].kind = "dry"
  BY <1>0, DryStep, OthersKeep, CleaningKept DEF Gate!vars
<1> SUFFICES ASSUME proc[p].kind # "dry" PROVE [Gate!Next]_(Gate!vars)
  BY <1>0
<1>1. Cleaning = before /\ Cleaning' = after
  BY OthersKeep, CleaningOf, CleaningNext
<1>2. CASE Choose(p)
  BY <1>1, <1>2 DEF Choose, At, TypeOK, Invocation, Gate!vars
<1>3. CASE Disabled(p)
  BY <1>1, <1>3 DEF Disabled, At, Goto, Exit, Idle, TypeOK, Invocation, Gate!vars
<1>4. CASE Execute(p)
  BY <1>1, <1>4 DEF Execute, At, TypeOK, Invocation, Gate!vars
<1>5. CASE Guard(p)
  <2>1. CASE proc'[p].pc = "clean" /\ proc[p].kind = "run"
    <3>1. Cleaning = "no" /\ Cleaning' = "unforced"
      BY <1>1, <1>5, <2>1 DEF Guard, At, Goto, Exit, Idle, TypeOK, Invocation
    <3>2. credited # NoStamp /\ clock - credited >= MinInterval
      BY <1>5, <2>1, StampAssumption, TimeAssumption
         DEF Guard, ShouldRun, At, Goto, Exit, Idle, TypeOK, Stamp, Invocation, SerialInv
    <3>3. UNCHANGED <<clock, credited>>
      BY <1>5 DEF Guard
    <3>4. QED
      BY <3>1, <3>2, <3>3 DEF Gate!Next, Gate!BeginUnforced
  <2>2. CASE proc'[p].pc = "clean" /\ proc[p].kind # "run"
    <3>1. Cleaning = "no" /\ Cleaning' = "forced"
      BY <1>1, <1>5, <2>2 DEF Guard, At, Goto, Exit, Idle, TypeOK, Invocation
    <3>2. UNCHANGED <<clock, credited>>
      BY <1>5 DEF Guard
    <3>3. QED
      BY <3>1, <3>2 DEF Gate!Next, Gate!BeginForced
  <2>3. CASE proc'[p].pc # "clean"
    BY <1>1, <1>5, <2>3 DEF Guard, At, Gate!vars
  <2>4. QED
    BY <2>1, <2>2, <2>3
<1>6. CASE \E someOk \in BOOLEAN : EndClean(p, someOk)
  <2>1. Cleaning # "no" /\ Cleaning' = "no"
    BY <1>1, <1>6 DEF EndClean, At, Goto, TypeOK, Invocation
  <2>2. UNCHANGED <<clock, credited>>
    BY <1>6 DEF EndClean
  <2>3. QED
    BY <2>1, <2>2 DEF Gate!Next, Gate!End
<1>7. CASE EndSurvey(p)
  BY <1>1, <1>7 DEF EndSurvey, At, Goto, TypeOK, Invocation, Gate!vars
<1>8. CASE Log(p)
  BY <1>1, <1>8 DEF Log, At, Goto, Exit, Idle, TypeOK, Invocation, Gate!vars
<1>9. CASE Mark(p)
  BY <1>1, <1>9 DEF Mark, At, TypeOK, Invocation, Gate!vars
<1>10. CASE Truncate(p)
  BY <1>1, <1>10 DEF Truncate, At, Goto, TypeOK, Invocation, Gate!vars
<1>11. CASE Write(p)
  <2>1. Cleaning = "no" /\ Cleaning' = "no"
    BY <1>1, <1>11 DEF Write, At, Goto, Exit, Idle, TypeOK, Invocation
  <2>2. /\ credited' \in Nat
        /\ credited' <= clock
        /\ credited # NoStamp => credited' >= credited
    BY <1>11, StampAssumption DEF Write, Newest, At, TypeOK, Stamp, Invocation, SerialInv
  <2>3. clock' = clock
    BY <1>11 DEF Write
  <2>4. QED
    BY <2>1, <2>2, <2>3 DEF Gate!Next, Gate!Credit
<1>12. CASE StampFails(p)
  BY <1>1, <1>12 DEF StampFails, At, Exit, Idle, TypeOK, Invocation, Gate!vars
<1>13. QED
  BY <1>2, <1>3, <1>4, <1>5, <1>6, <1>7, <1>8, <1>9, <1>10, <1>11, <1>12 DEF Step

LEMMA OnwardGate ==
  ASSUME TypeOK, Path, SerialInv, Onward
  PROVE  [Gate!Next]_(Gate!vars)
<1>1. CASE UNCHANGED vars
  BY <1>1 DEF vars, Gate!vars, Cleaning, UnforcedClean, At
<1>2. ASSUME NEW p \in Procs, Step(p) PROVE [Gate!Next]_(Gate!vars)
  BY <1>2, StepGate
<1>3. ASSUME NEW p \in Procs, Crash(p) PROVE [Gate!Next]_(Gate!vars)
  <2>1. proc'[p].pc = "idle"
    BY <1>3 DEF Crash, Exit, Idle, TypeOK
  <2>2. UNCHANGED <<clock, credited>>
    BY <1>3 DEF Crash
  <2>3. CASE proc[p].pc # "clean"
    BY <1>3, <2>1, <2>2, <2>3, OthersKeep, CleaningKept DEF Gate!vars
  <2>4. CASE proc[p].pc = "clean"
    <3>1. proc[p].kind # "dry"
      BY <2>4 DEF Path
    <3>2. Cleaning' = "no"
      BY <1>3, <2>1, <3>1, OthersKeep, CleaningNext
    <3>3. QED
      BY <2>2, <3>2 DEF Gate!Next, Gate!End, Gate!vars
  <2>5. QED
    BY <2>3, <2>4
<1>4. CASE Tick
  BY <1>4 DEF Tick, TypeOK, Cleaning, UnforcedClean, At, Gate!Next, Gate!Tick
<1>5. ASSUME NEW c \in Configs, EditConfig(c) PROVE [Gate!Next]_(Gate!vars)
  BY <1>5 DEF EditConfig, Cleaning, UnforcedClean, At, Gate!vars
<1>6. QED
  BY <1>1, <1>2, <1>3, <1>4, <1>5 DEF Onward

LEMMA StartGate ==
  ASSUME TypeOK, NEW p \in Procs, NEW c, Start(p, c)
  PROVE  [Gate!Next]_(Gate!vars)
<1>1. proc[p].pc # "clean" /\ proc'[p].pc # "clean"
  BY DEF Start, At, TypeOK
<1>2. \A q \in Procs : q # p => proc'[q] = proc[q]
  BY DEF Start, TypeOK
<1>3. Cleaning' = Cleaning
  BY <1>1, <1>2, CleaningKept
<1>4. QED
  BY <1>3 DEF Start, Gate!vars

LEMMA NextGate ==
  ASSUME StepBack = FALSE, TypeOK, Path, SerialInv, [Next]_vars
  PROVE  [Gate!Next]_(Gate!vars)
<1>1. ASSUME NEW p \in Procs, NEW c \in Cmds, Start(p, c) PROVE [Gate!Next]_(Gate!vars)
  BY <1>1, StartGate
<1>2. CASE Onward
  BY <1>2, OnwardGate
<1>3. QED
  BY <1>1, <1>2 DEF Next, Onward, SetClockBack

(***************************************************************************)
(* Runner implements the ledger: every step of an invocation is a step of  *)
(* CleanGate or leaves it alone.                                           *)
(***************************************************************************)
THEOREM GateRefined ==
  ASSUME Overlap = FALSE, StepBack = FALSE
  PROVE  Spec => GateSpec
<1>1. Init => Gate!Init
  <2>1. Idle.pc = "idle"
    BY DEF Idle
  <2>2. QED
    BY <2>1 DEF Init, Gate!Init, Cleaning, At
<1>2. Init => TypeOK /\ Path /\ SerialInv
  BY InitType, InitPath, InitSerial
<1>3. TypeOK /\ Path /\ SerialInv /\ [Next]_vars => (TypeOK /\ Path /\ SerialInv)'
  BY NextType, NextPath, NextSerial
<1>4. TypeOK /\ Path /\ SerialInv /\ [Next]_vars => [Gate!Next]_(Gate!vars)
  BY NextGate
<1>5. QED
  BY <1>1, <1>2, <1>3, <1>4, PTL DEF Spec, GateSpec, Gate!Spec

-----------------------------------------------------------------------------
(***************************************************************************)
(* The fresh install gets marked.  The provers do not look inside ENABLED, *)
(* so that a living invocation always has a step to take is a premise of   *)
(* the theorem; with it, weak fairness of Step is Scheduled.               *)
(***************************************************************************)
CanStep == \A p \in Procs : ~At(p, "idle") => ENABLED <<Step(p)>>_vars

Scheduled(p) == []<>At(p, "idle") \/ []<><<Step(p)>>_vars

Settled == lastRun # NoStamp \/ failed

GetsMarked(p) == At(p, "choose") ~> Settled

Preview(p, label) == At(p, label) /\ proc[p].kind = "preview"

\* What can happen to an invocation that is alive.
LEMMA AliveStep ==
  ASSUME TypeOK, [Next]_vars, NEW p \in Procs, ~At(p, "idle")
  PROVE  Step(p) \/ proc'[p] = proc[p] \/ failed'
<1>1. ASSUME NEW q \in Procs, Step(q), q # p PROVE proc'[p] = proc[p]
  BY <1>1 DEF Step, Choose, Disabled, Execute, Guard, EndClean, EndSurvey, Log, Mark,
              Truncate, Write, StampFails, Goto, Exit, TypeOK
<1>2. ASSUME NEW q \in Procs, Crash(q) PROVE failed'
  BY <1>2 DEF Crash
<1>3. ASSUME NEW q \in Procs, NEW c \in Cmds, Start(q, c) PROVE proc'[p] = proc[p]
  BY <1>3 DEF Start, At, TypeOK
<1>4. QED
  BY <1>1, <1>2, <1>3, NextCases

\* What the step of a preview, or of the invocation about to be one, does.
LEMMA ChooseStep ==
  ASSUME TypeOK, NEW p \in Procs, At(p, "choose"), Step(p)
  PROVE  (Preview(p, "execute") \/ Settled)'
<1>1. Choose(p)
  BY DEF Step, At, Disabled, Execute, Guard, EndClean, EndSurvey, Log, Mark, Truncate, Write,
         StampFails
<1>2. QED
  BY <1>1 DEF Choose, Preview, At, Settled, TypeOK, Invocation

LEMMA ExecuteStep ==
  ASSUME TypeOK, NEW p \in Procs, Preview(p, "execute"), Step(p)
  PROVE  (Preview(p, "survey") \/ Preview(p, "mark"))'
<1>1. Disabled(p) \/ Execute(p)
  BY DEF Step, Preview, At, Choose, Guard, EndClean, EndSurvey, Log, Mark, Truncate, Write,
         StampFails
<1>2. CASE Disabled(p)
  BY <1>2 DEF Disabled, Goto, Preview, At, TypeOK, Invocation
<1>3. CASE Execute(p)
  BY <1>3 DEF Execute, IsDry, Preview, At, TypeOK, Invocation
<1>4. QED
  BY <1>1, <1>2, <1>3

LEMMA SurveyStep ==
  ASSUME TypeOK, NEW p \in Procs, Preview(p, "survey"), Step(p)
  PROVE  Preview(p, "log")'
<1>1. EndSurvey(p)
  BY DEF Step, Preview, At, Choose, Disabled, Execute, Guard, EndClean, Log, Mark, Truncate,
         Write, StampFails
<1>2. QED
  BY <1>1 DEF EndSurvey, Goto, Preview, At, TypeOK, Invocation

LEMMA LogStep ==
  ASSUME TypeOK, NEW p \in Procs, Preview(p, "log"), Step(p)
  PROVE  Preview(p, "mark")'
<1>1. Log(p)
  BY DEF Step, Preview, At, Choose, Disabled, Execute, Guard, EndClean, EndSurvey, Mark,
         Truncate, Write, StampFails
<1>2. QED
  BY <1>1 DEF Log, Goto, Preview, At, TypeOK, Invocation

LEMMA MarkStep ==
  ASSUME TypeOK, NEW p \in Procs, Preview(p, "mark"), Step(p)
  PROVE  Preview(p, "truncate")'
<1>1. Mark(p)
  BY DEF Step, Preview, At, Choose, Disabled, Execute, Guard, EndClean, EndSurvey, Log,
         Truncate, Write, StampFails
<1>2. QED
  BY <1>1 DEF Mark, Preview, At, TypeOK, Invocation

LEMMA TruncateStep ==
  ASSUME TypeOK, NEW p \in Procs, Preview(p, "truncate"), Step(p)
  PROVE  (Preview(p, "write") \/ Settled)'
<1>1. Truncate(p) \/ StampFails(p)
  BY DEF Step, Preview, At, Choose, Disabled, Execute, Guard, EndClean, EndSurvey, Log, Mark,
         Write
<1>2. QED
  BY <1>1 DEF Truncate, StampFails, Goto, Preview, At, Settled, TypeOK, Invocation

LEMMA WriteStep ==
  ASSUME TypeOK, NEW p \in Procs, Preview(p, "write"), Step(p)
  PROVE  Settled'
<1>1. Write(p) \/ StampFails(p)
  BY DEF Step, Preview, At, Choose, Disabled, Execute, Guard, EndClean, EndSurvey, Log, Mark,
         Truncate
<1>2. proc[p].now \in Nat
  BY DEF TypeOK, Invocation
<1>3. QED
  BY <1>1, <1>2, StampAssumption DEF Write, StampFails, Settled

\* Until it takes that step, or some invocation fails, it stays where it is.
LEMMA Waits ==
  ASSUME TypeOK, [Next]_vars, NEW p \in Procs, ~At(p, "idle"), ~Step(p)
  PROVE  proc'[p] = proc[p] \/ Settled'
  BY AliveStep DEF Settled

LEMMA PreviewWaits ==
  ASSUME NEW p \in Procs, NEW label \in Labels \ {"idle"}, TypeOK, [Next]_vars,
         Preview(p, label), ~Step(p)
  PROVE  (Preview(p, label) \/ Settled)'
  BY Waits DEF Preview, At

\* An invocation that is scheduled runs through the preview to its stamp.
LEMMA PreviewRuns ==
  ASSUME NEW p \in Procs
  PROVE  [][Next]_vars /\ []TypeOK /\ Scheduled(p) => GetsMarked(p)
<1>1. TypeOK /\ At(p, "choose") /\ [Next]_vars
        => (At(p, "choose") \/ Preview(p, "execute") \/ Settled)'
  BY Waits, ChooseStep DEF At
<1>2. TypeOK /\ At(p, "choose") /\ <<Step(p)>>_vars => (Preview(p, "execute") \/ Settled)'
  BY ChooseStep
<1>3. TypeOK /\ Preview(p, "execute") /\ [Next]_vars
        => (Preview(p, "execute") \/ Preview(p, "survey") \/ Preview(p, "mark") \/ Settled)'
  BY PreviewWaits, ExecuteStep DEF Labels
<1>4. TypeOK /\ Preview(p, "execute") /\ <<Step(p)>>_vars
        => (Preview(p, "survey") \/ Preview(p, "mark"))'
  BY ExecuteStep
<1>5. TypeOK /\ Preview(p, "survey") /\ [Next]_vars
        => (Preview(p, "survey") \/ Preview(p, "log") \/ Settled)'
  BY PreviewWaits, SurveyStep DEF Labels
<1>6. TypeOK /\ Preview(p, "survey") /\ <<Step(p)>>_vars => Preview(p, "log")'
  BY SurveyStep
<1>7. TypeOK /\ Preview(p, "log") /\ [Next]_vars
        => (Preview(p, "log") \/ Preview(p, "mark") \/ Settled)'
  BY PreviewWaits, LogStep DEF Labels
<1>8. TypeOK /\ Preview(p, "log") /\ <<Step(p)>>_vars => Preview(p, "mark")'
  BY LogStep
<1>9. TypeOK /\ Preview(p, "mark") /\ [Next]_vars
        => (Preview(p, "mark") \/ Preview(p, "truncate") \/ Settled)'
  BY PreviewWaits, MarkStep DEF Labels
<1>10. TypeOK /\ Preview(p, "mark") /\ <<Step(p)>>_vars => Preview(p, "truncate")'
  BY MarkStep
<1>11. TypeOK /\ Preview(p, "truncate") /\ [Next]_vars
        => (Preview(p, "truncate") \/ Preview(p, "write") \/ Settled)'
  BY PreviewWaits, TruncateStep DEF Labels
<1>12. TypeOK /\ Preview(p, "truncate") /\ <<Step(p)>>_vars
        => (Preview(p, "write") \/ Settled)'
  BY TruncateStep
<1>13. TypeOK /\ Preview(p, "write") /\ [Next]_vars => (Preview(p, "write") \/ Settled)'
  BY PreviewWaits, WriteStep DEF Labels
<1>14. TypeOK /\ Preview(p, "write") /\ <<Step(p)>>_vars => Settled'
  BY WriteStep
<1>16. /\ At(p, "choose") => ~At(p, "idle")
       /\ Preview(p, "execute") => ~At(p, "idle")
       /\ Preview(p, "survey") => ~At(p, "idle")
       /\ Preview(p, "log") => ~At(p, "idle")
       /\ Preview(p, "mark") => ~At(p, "idle")
       /\ Preview(p, "truncate") => ~At(p, "idle")
       /\ Preview(p, "write") => ~At(p, "idle")
  BY DEF At, Preview
<1>17. QED
  BY <1>1, <1>2, <1>3, <1>4, <1>5, <1>6, <1>7, <1>8, <1>9, <1>10, <1>11, <1>12, <1>13, <1>14,
     <1>16, PTL DEF Scheduled, GetsMarked

\* Weak fairness schedules an invocation that can always step.
LEMMA FairScheduled ==
  ASSUME NEW p \in Procs
  PROVE  KeepsGoing(p) /\ []CanStep => Scheduled(p)
<1>1. CanStep => (~At(p, "idle") => ENABLED <<Step(p)>>_vars)
  BY DEF CanStep
<1>2. QED
  BY <1>1, PTL DEF Scheduled, KeepsGoing

(***************************************************************************)
(* Whatever the other invocations do, an unforced one that chooses on a    *)
(* home with no readable stamp gets it marked, unless one of them fails.   *)
(***************************************************************************)
THEOREM PreviewMarksHolds == FairSpec /\ []CanStep => PreviewMarks
<1> SUFFICES ASSUME NEW p \in Procs
             PROVE  FairSpec /\ []CanStep => (At(p, "choose") ~> lastRun # NoStamp \/ failed)
  BY DEF PreviewMarks
<1>1. Fairness => KeepsGoing(p)
  BY DEF Fairness
<1>2. Settled => lastRun # NoStamp \/ failed
  BY DEF Settled
<1>3. QED
  BY <1>1, <1>2, TypeCorrect, FairScheduled, PreviewRuns, PTL DEF FairSpec, Spec, GetsMarked
=============================================================================
