---------------------------- MODULE PruneProofs ----------------------------
(* What Prune guarantees for every set of entries and roots, every list of *)
(* configured directories, every age and every kind of disturbance that a  *)
(* theorem does not exclude.                                               *)
EXTENDS Prune, FiniteSetTheorems, TLAPS

-----------------------------------------------------------------------------
(***************************************************************************)
(* Types                                                                   *)
(***************************************************************************)
FilesFinite == \A e \in Entries : IsFiniteSet(disk[e].files)

LEMMA AbsentType == Absent \in Entry /\ IsFiniteSet(Absent.files)
<1>1. Absent \in Entry
  BY DEF Absent, Entry, Kinds
<1>2. Absent.files = {}
  BY DEF Absent
<1>3. QED
  BY <1>1, <1>2, FS_EmptySet

\* The steps of a run that leave the disk alone.
Quiet ==
    \/ Begin \/ Fail \/ ReadDir \/ Visit \/ Measure \/ Count \/ NextRoot \/ Relocate \/ Tick
    \/ UNCHANGED vars

LEMMA QuietDisk == Quiet => disk' = disk
  BY DEF Quiet, Begin, Fail, Finish, ReadDir, Visit, Measure, Count, NextRoot, Relocate, Tick,
         vars, worldVars

\* What is put at a path is a well-formed entry with finitely many files.
LEMMA DiskChange ==
  ASSUME DiskOK, FilesFinite, NEW e \in Entries, NEW what \in Entry,
         IsFiniteSet(what.files), disk' = [disk EXCEPT ![e] = what]
  PROVE  disk' \in [Entries -> Entry] /\ FilesFinite'
<1>1. disk' \in [Entries -> Entry]
  BY DEF DiskOK
<1>2. ASSUME NEW x \in Entries PROVE IsFiniteSet(disk'[x].files)
  <2>1. CASE x = e
    <3>1. disk'[x] = what
      BY <2>1 DEF DiskOK
    <3>2. QED
      BY <3>1
  <2>2. CASE x # e
    <3>1. disk'[x] = disk[x]
      BY <2>2 DEF DiskOK
    <3>2. QED
      BY <3>1 DEF FilesFinite
  <2>3. QED
    BY <2>1, <2>2
<1>3. QED
  BY <1>1, <1>2 DEF FilesFinite

LEMMA RemovedDisk ==
  ASSUME TypeOK, FilesFinite, RemoveFile \/ RemoveTree
  PROVE  disk' \in [Entries -> Entry] /\ FilesFinite'
<1>1. cur \in Entries
  BY DEF TypeOK, RunOK, RemoveFile, RemoveTree
<1>2. CASE disk' = disk
  BY <1>2 DEF TypeOK, DiskOK, FilesFinite
<1>3. CASE disk' = [disk EXCEPT ![cur] = Absent]
  BY <1>1, <1>3, AbsentType, DiskChange DEF TypeOK
<1>4. ASSUME NEW f \in disk[cur].files,
             disk' = [disk EXCEPT ![cur] =
                        [disk[cur] EXCEPT !.files = @ \ {f}, !.mtime = clock]]
      PROVE  disk' \in [Entries -> Entry] /\ FilesFinite'
  <2> DEFINE rest == [disk[cur] EXCEPT !.files = @ \ {f}, !.mtime = clock]
  <2>1. disk[cur] \in Entry /\ clock \in Nat
    BY <1>1 DEF TypeOK, DiskOK
  <2>2. rest \in Entry
    BY <2>1 DEF Entry
  <2>3. rest.files = disk[cur].files \ {f}
    BY <2>1 DEF Entry
  <2>4. IsFiniteSet(rest.files)
    BY <1>1, <2>3, FS_RemoveElement DEF FilesFinite
  <2> HIDE DEF rest
  <2>5. disk' = [disk EXCEPT ![cur] = rest]
    BY <1>4 DEF rest
  <2>6. QED
    BY <1>1, <2>2, <2>4, <2>5, DiskChange DEF TypeOK
<1>5. QED
  BY <1>2, <1>3, <1>4 DEF RemoveFile, RemoveTree, Remove, Fail, Finish, worldVars

LEMMA OthersDisk ==
  ASSUME DiskOK, FilesFinite, Put \/ Save
  PROVE  disk' \in [Entries -> Entry] /\ FilesFinite'
<1>1. CASE Put
  <2>1. PICK e \in Entries, s \in Samples \cup {Absent} : disk' = [disk EXCEPT ![e] = s]
    BY <1>1 DEF Put
  <2>2. s \in Entry /\ IsFiniteSet(s.files)
    BY AbsentType, SampleAssumption
  <2>3. QED
    BY <2>1, <2>2, DiskChange
<1>2. CASE Save
  <2> DEFINE file == [mtime |-> clock, locked |-> FALSE]
  <2>1. PICK e \in Entries : disk' = [disk EXCEPT ![e].files = @ \cup {file}]
    BY <1>2 DEF Save
  <2> DEFINE grown == [disk[e] EXCEPT !.files = @ \cup {file}]
  <2>2. disk[e] \in Entry /\ file \in File
    BY DEF DiskOK, File
  <2>3. grown \in Entry /\ grown.files = disk[e].files \cup {file}
    BY <2>2 DEF Entry
  <2>4. IsFiniteSet(grown.files)
    BY <2>3, FS_AddElement DEF FilesFinite
  <2>5. disk' = [disk EXCEPT ![e] = grown]
    BY <2>1
  <2> HIDE DEF grown
  <2>6. QED
    BY <2>3, <2>4, <2>5, DiskChange
<1>3. QED
  BY <1>1, <1>2

LEMMA DiskNext == TypeOK /\ FilesFinite /\ [Next]_vars => DiskOK' /\ FilesFinite'
<1> SUFFICES ASSUME TypeOK, FilesFinite, [Next]_vars PROVE DiskOK' /\ FilesFinite'
  OBVIOUS
<1>1. disk' \in [Entries -> Entry] /\ FilesFinite'
  <2>1. CASE Quiet
    BY <2>1, QuietDisk DEF TypeOK, DiskOK, FilesFinite
  <2>2. CASE RemoveFile \/ RemoveTree
    BY <2>2, RemovedDisk
  <2>3. CASE Put \/ Save
    BY <2>3, OthersDisk DEF TypeOK
  <2>4. QED
    BY <2>1, <2>2, <2>3 DEF Next, Step, World, Quiet
<1>2. before' = before \/ before' = disk \/ before' = disk'
  BY DEF Next, Step, World, Begin, Fail, Finish, ReadDir, Visit, Measure, RemoveFile,
         RemoveTree, Remove, Count, NextRoot, Put, Save, Relocate, Tick, Rebook, vars, history
<1>3. clock' \in {clock, clock + 1} /\ others' \in {0, others, others + 1}
  BY DEF Next, Step, World, Begin, Fail, Finish, ReadDir, Visit, Measure, RemoveFile,
         RemoveTree, Remove, Count, NextRoot, Put, Save, Relocate, Tick, Free, vars, worldVars
<1>4. external' \subseteq Roots
  <2>1. CASE Relocate
    BY <2>1 DEF Relocate, TypeOK, DiskOK
  <2>2. CASE external' = external
    BY <2>2 DEF TypeOK, DiskOK
  <2>3. QED
    BY <2>1, <2>2
       DEF Next, Step, World, Begin, Fail, Finish, ReadDir, Visit, Measure, RemoveFile,
           RemoveTree, Remove, Count, NextRoot, Put, Save, Tick, vars, worldVars
<1>5. QED
  BY <1>1, <1>2, <1>3, <1>4 DEF TypeOK, DiskOK

LEMMA RunNext == RunOK /\ [Next]_vars => RunOK'
<1> SUFFICES ASSUME RunOK, [Next]_vars PROVE RunOK'
  OBVIOUS
<1>0. 1 \in DOMAIN Dirs
  BY RootAssumption
<1>1. CASE Begin
  BY <1>0, <1>1 DEF Begin, RunOK
<1>2. ASSUME Fail PROVE RunOK'
  BY <1>2 DEF Fail, Finish, RunOK
<1>3. CASE ReadDir
  <2>1. CASE Fail
    BY <1>2, <2>1
  <2>2. CASE ~Fail
    BY <1>3, <2>2 DEF ReadDir, RunOK
  <2>3. QED
    BY <2>1, <2>2
<1>4. CASE Visit
  <2>1. CASE Fail
    BY <1>2, <2>1
  <2>2. ASSUME NEW e \in listing, Skip(e),
               UNCHANGED <<pc, cur, isDir, dry, at>>, pc = "visit"
        PROVE  RunOK'
    BY <2>2 DEF Skip, RunOK
  <2>3. ASSUME NEW e \in listing, pc' = "size", cur' = e, isDir' = (disk[e].kind = "dir"),
               UNCHANGED <<listing, dry, at>>
        PROVE  RunOK'
    BY <2>3 DEF RunOK
  <2>4. QED
    BY <1>4, <2>1, <2>2, <2>3 DEF Visit
<1>5. CASE Measure
  <2>1. pc' \in {"count", "tree", "leaf"}
    BY <1>5 DEF Measure
  <2>2. QED
    BY <1>5, <2>1 DEF Measure, RunOK
<1>6. CASE RemoveFile
  BY <1>2, <1>6 DEF RemoveFile, Remove, RunOK
<1>7. CASE RemoveTree
  BY <1>2, <1>7 DEF RemoveTree, Remove, RunOK
<1>8. CASE Count
  BY <1>8 DEF Count, RunOK
<1>9. CASE NextRoot
  <2>1. at' \in DOMAIN Dirs
    BY <1>9, RootAssumption DEF NextRoot, RunOK
  <2>2. pc' \in {"root", "idle"} /\ dry' = dry /\ listing' = {}
    BY <1>9 DEF NextRoot, Finish
  <2>3. isDir' \in BOOLEAN /\ cur' \in {cur, NoEntry}
    BY <1>9 DEF NextRoot, Finish, RunOK
  <2>4. QED
    BY <2>1, <2>2, <2>3 DEF RunOK
<1>10. CASE UNCHANGED runVars
  BY <1>10 DEF runVars, RunOK
<1>11. QED
  BY <1>1, <1>3, <1>4, <1>5, <1>6, <1>7, <1>8, <1>9, <1>10
     DEF Next, Step, World, Put, Save, Relocate, Tick, vars

LEMMA FinishTotals ==
  ASSUME RunOK, TotalsOK, NEW outcome \in {"ok", "error"}, Finish(outcome)
  PROVE  TotalsOK'
<1>1. report' \in [outcome : {"none", "ok", "error"}, dry : BOOLEAN, bytes : Nat, items : Nat]
  <2>1. dry \in BOOLEAN
    BY DEF RunOK
  <2>2. (IF outcome = "ok" THEN bytes ELSE 0) \in Nat
    BY DEF TotalsOK
  <2>3. (IF outcome = "ok" THEN items ELSE 0) \in Nat
    BY DEF TotalsOK
  <2>4. QED
    BY <2>1, <2>2, <2>3 DEF Finish
<1>2. preview' \in [known : BOOLEAN, bytes : Nat]
  BY DEF Finish, Unknown, TotalsOK
<1>3. QED
  BY <1>1, <1>2 DEF Finish, TotalsOK

\* A removal counts a finite set of files.
LEMMA RemoveTotals ==
  ASSUME TotalsOK, NEW S \in SUBSET File, IsFiniteSet(S), NEW what, Remove(S, what)
  PROVE  TotalsOK'
<1>1. Cardinality(S) \in Nat
  BY FS_CardinalityType
<1>2. freed' \in Nat
  BY <1>1 DEF Remove, TotalsOK
<1>3. lost' \subseteq [mtime : Nat, kept : BOOLEAN]
  <2>1. ASSUME NEW f \in S
        PROVE  [mtime |-> f.mtime, kept |-> RootOf[cur] \in external] \in
                 [mtime : Nat, kept : BOOLEAN]
    <3>1. f.mtime \in Nat
      BY DEF File
    <3>2. (RootOf[cur] \in external) \in BOOLEAN
      OBVIOUS
    <3>3. QED
      BY <3>1, <3>2
  <2>2. QED
    BY <2>1 DEF Remove, TotalsOK
<1>4. QED
  BY <1>2, <1>3 DEF Remove, TotalsOK

LEMMA TotalsNext == TypeOK /\ FilesFinite /\ [Next]_vars => TotalsOK'
<1> SUFFICES ASSUME TypeOK, FilesFinite, [Next]_vars PROVE TotalsOK'
  OBVIOUS
<1>0. TotalsOK /\ DiskOK /\ RunOK
  BY DEF TypeOK
<1>1. CASE Begin
  <2>1. report' \in [outcome : {"none", "ok", "error"}, dry : BOOLEAN, bytes : Nat,
                     items : Nat]
    BY <1>1 DEF Begin, NoReport
  <2>2. QED
    BY <1>0, <1>1, <2>1 DEF Begin, TotalsOK, DiskOK
<1>2. ASSUME Fail PROVE TotalsOK'
  BY <1>0, <1>2, FinishTotals DEF Fail
<1>3. CASE ReadDir
  BY <1>0, <1>2, <1>3 DEF ReadDir, history, TotalsOK
<1>4. CASE Visit
  BY <1>0, <1>2, <1>4 DEF Visit, history, TotalsOK
<1>5. CASE Measure
  <2>1. Cardinality(disk[cur].files) \in Nat
    BY <1>0, <1>5, FS_CardinalityType DEF Measure, RunOK, FilesFinite
  <2>2. QED
    BY <1>0, <1>5, <2>1 DEF Measure, history, TotalsOK
<1>6. CASE RemoveFile \/ RemoveTree
  <2>1. cur \in Entries
    BY <1>0, <1>6 DEF RemoveFile, RemoveTree, RunOK
  <2>2. disk[cur].files \in SUBSET File /\ IsFiniteSet(disk[cur].files)
    BY <1>0, <2>1 DEF DiskOK, Entry, FilesFinite
  <2>3. CASE RemoveFile
    BY <1>0, <1>2, <2>2, <2>3, RemoveTotals DEF RemoveFile
  <2>4. CASE RemoveTree
    <3>1. ASSUME NEW f \in disk[cur].files PROVE {f} \in SUBSET File /\ IsFiniteSet({f})
      BY <2>2, FS_Singleton
    <3>2. {} \in SUBSET File /\ IsFiniteSet({})
      BY FS_EmptySet
    <3>3. QED
      BY <1>0, <1>2, <2>4, <3>1, <3>2, RemoveTotals DEF RemoveTree
  <2>5. QED
    BY <1>6, <2>3, <2>4
<1>7. CASE Count
  BY <1>0, <1>7 DEF Count, history, TotalsOK
<1>8. CASE NextRoot
  <2>1. CASE Finish("ok")
    BY <1>0, <2>1, FinishTotals
  <2>2. CASE ~Finish("ok")
    BY <1>0, <1>8, <2>2 DEF NextRoot, history, TotalsOK
  <2>3. QED
    BY <2>1, <2>2
<1>9. CASE Put \/ Save \/ Relocate \/ Tick
  <2>1. Unknown \in [known : BOOLEAN, bytes : Nat]
    BY DEF Unknown
  <2>2. NoReport \in [outcome : {"none", "ok", "error"}, dry : BOOLEAN, bytes : Nat,
                      items : Nat]
    BY DEF NoReport
  <2>3. Rebook /\ UNCHANGED runVars
    BY <1>9 DEF Put, Save, Relocate, Tick
  <2>4. QED
    BY <1>0, <2>1, <2>2, <2>3 DEF Rebook, runVars, TotalsOK
<1>10. CASE UNCHANGED vars
  BY <1>0, <1>10 DEF vars, runVars, history, TotalsOK
<1>11. QED
  BY <1>1, <1>3, <1>4, <1>5, <1>6, <1>7, <1>8, <1>9, <1>10 DEF Next, Step, World

LEMMA TypeInit == Init => TypeOK /\ FilesFinite
<1> SUFFICES ASSUME Init PROVE TypeOK /\ FilesFinite
  OBVIOUS
<1>1. disk \in [Entries -> Entry]
  BY AbsentType, SampleAssumption DEF Init
<1>2. FilesFinite
  <2>1. \A e \in Entries : disk[e] \in Samples \cup {Absent}
    BY DEF Init
  <2>2. QED
    BY <2>1, AbsentType, SampleAssumption DEF FilesFinite
<1>3. DiskOK
  BY <1>1 DEF Init, DiskOK
<1>4. RunOK
  <2>1. at \in DOMAIN Dirs
    BY RootAssumption DEF Init
  <2>2. dry \in BOOLEAN /\ isDir \in BOOLEAN
    BY DEF Init
  <2>3. QED
    BY <2>1, <2>2 DEF Init, RunOK
<1>5. report \in [outcome : {"none", "ok", "error"}, dry : BOOLEAN, bytes : Nat, items : Nat]
  BY DEF Init, NoReport
<1>6. TotalsOK
  BY <1>5 DEF Init, TotalsOK, Unknown
<1>7. QED
  BY <1>2, <1>3, <1>4, <1>6 DEF TypeOK

TypeInv == TypeOK /\ FilesFinite

LEMMA TypeNext == TypeInv /\ [Next]_vars => TypeInv'
  BY DiskNext, RunNext, TotalsNext DEF TypeInv, TypeOK

(***************************************************************************)
(* Every variable keeps its type; in particular the entry being handled is *)
(* one the listing still holds, and the position one of the configured     *)
(* directories.                                                            *)
(***************************************************************************)
THEOREM TypeCorrect == Spec => []TypeOK
<1>1. Init => TypeInv
  BY TypeInit DEF TypeInv
<1>2. TypeInv => TypeOK
  BY DEF TypeInv
<1>3. QED
  BY <1>1, <1>2, TypeNext, PTL DEF Spec

-----------------------------------------------------------------------------
(***************************************************************************)
(* Nothing kept is lost                                                    *)
(***************************************************************************)

\* Between the look at an entry and its removal its root stays where it was.
Local == pc \in {"size", "leaf", "tree", "count"} => RootOf[cur] \notin external

LEMMA KeptNext ==
  ASSUME "relocate" \notin Meddle, Local, KeptNeverLost, [Next]_vars
  PROVE  Local' /\ KeptNeverLost'
<1> USE DEF Local, KeptNeverLost
<1>1. CASE Begin
  BY <1>1 DEF Begin
<1>2. ASSUME Fail PROVE Local' /\ KeptNeverLost'
  BY <1>2 DEF Fail, Finish
<1>3. CASE ReadDir
  BY <1>2, <1>3 DEF ReadDir, history
<1>4. CASE Visit
  BY <1>2, <1>4 DEF Visit, Passes, Skip, worldVars, history
<1>5. CASE Measure
  BY <1>5 DEF Measure, worldVars, history
<1>6. ASSUME NEW S, NEW what, Remove(S, what), pc \in {"leaf", "tree"},
             pc' \in {"tree", "count"}
      PROVE  Local' /\ KeptNeverLost'
  <2>1. lost' = lost \cup {[mtime |-> f.mtime, kept |-> RootOf[cur] \in external] : f \in S}
    BY <1>6 DEF Remove
  <2>2. RootOf[cur] \notin external /\ cur' = cur /\ external' = external
    BY <1>6 DEF Remove
  <2>3. ASSUME NEW l \in lost' PROVE ~l.kept
    <3>1. CASE l \in lost
      BY <3>1
    <3>2. CASE l \notin lost
      <4>1. PICK f \in S : l = [mtime |-> f.mtime, kept |-> RootOf[cur] \in external]
        BY <2>1, <3>2
      <4>2. l.kept = (RootOf[cur] \in external)
        BY <4>1
      <4>3. QED
        BY <2>2, <4>2
    <3>3. QED
      BY <3>1, <3>2
  <2>4. QED
    BY <2>2, <2>3
<1>7. CASE RemoveFile
  BY <1>2, <1>6, <1>7 DEF RemoveFile
<1>8. CASE RemoveTree
  BY <1>2, <1>6, <1>8 DEF RemoveTree
<1>9. CASE Count
  BY <1>9 DEF Count, history
<1>10. CASE NextRoot
  BY <1>10 DEF NextRoot, Finish, history
<1>11. CASE Put \/ Save \/ Tick
  BY <1>11 DEF Put, Save, Tick, Rebook, runVars
<1>12. CASE Relocate
  BY <1>12 DEF Relocate, Free, Rebook, runVars
<1>13. CASE UNCHANGED vars
  BY <1>13 DEF vars, worldVars, runVars, history
<1>14. QED
  BY <1>1, <1>3, <1>4, <1>5, <1>7, <1>8, <1>9, <1>10, <1>11, <1>12, <1>13
     DEF Next, Step, World

(***************************************************************************)
(* As long as no root is moved away under a running cleaner, no file on an *)
(* external volume is removed, however entries are created, replaced by    *)
(* links or deleted between the steps of the run.                          *)
(***************************************************************************)
THEOREM KeptNeverLostHolds ==
  ASSUME "relocate" \notin Meddle
  PROVE  Spec => []KeptNeverLost
<1>1. Init => Local /\ KeptNeverLost
  BY DEF Init, Local, KeptNeverLost
<1>2. Local /\ KeptNeverLost /\ [Next]_vars => Local' /\ KeptNeverLost'
  BY KeptNext
<1>3. QED
  BY <1>1, <1>2, PTL DEF Spec
-----------------------------------------------------------------------------
(***************************************************************************)
(* A run nobody disturbs                                                   *)
(***************************************************************************)

\* Then only the clock moves during a run.
LEMMA AloneWorld ==
  ASSUME TypeOK, others = 0, others' = 0, pc # "idle", World
  PROVE  UNCHANGED <<disk, external, runVars, report, freed, before>>
<1>1. Tick
  BY DEF World, Put, Save, Relocate, Tick, Free
<1>2. QED
  BY <1>1 DEF Tick, Rebook

\* A run that is disturbed stays so until the next one, or until the disk
\* changes between two runs.
LEMMA Undisturbed ==
  ASSUME TypeOK, others # 0, others' = 0, [Next]_vars
  PROVE  Begin \/ (World /\ pc = "idle")
<1>1. CASE Step
  BY <1>1 DEF Step, ReadDir, Visit, Measure, RemoveFile, RemoveTree, Count, NextRoot,
              Fail, Finish, Remove, worldVars
<1>2. CASE World /\ pc # "idle"
  BY <1>2 DEF World, Put, Save, Relocate, Tick, Free, TypeOK, DiskOK
<1>3. CASE UNCHANGED vars
  BY <1>3 DEF vars, worldVars
<1>4. QED
  BY <1>1, <1>2, <1>3 DEF Next

\* Removed so far is what has been counted and what is about to be.
Ledger ==
    /\ pc # "idle" => report.outcome = "none"
    /\ pc \in {"root", "visit", "size"} /\ ~dry => freed = bytes
    /\ pc = "size" => (isDir <=> disk[cur].kind = "dir")
    /\ pc \in {"leaf", "tree"} => ~dry /\ freed + Cardinality(disk[cur].files) = bytes + size
    /\ pc = "tree" => disk[cur].kind = "dir"
    /\ pc = "count" /\ ~dry => freed = bytes + size

LEMMA LedgerRemove ==
  ASSUME TypeOK, FilesFinite, Ledger, ~Fail, RemoveFile \/ RemoveTree
  PROVE  Ledger'
<1>0. pc \in {"leaf", "tree"} /\ cur \in Entries /\ ~dry
  BY DEF RemoveFile, RemoveTree, TypeOK, RunOK, Ledger
<1>1. /\ IsFiniteSet(disk[cur].files) /\ Cardinality(disk[cur].files) \in Nat
      /\ freed \in Nat /\ bytes \in Nat /\ size \in Nat
  BY <1>0, FS_CardinalityType DEF TypeOK, TotalsOK, FilesFinite
<1>2. CASE RemoveFile
  <2>1. pc' = "count" /\ Remove(disk[cur].files, Absent) /\ pc = "leaf"
    BY <1>2 DEF RemoveFile
  <2>2. freed' = bytes' + size'
    BY <1>0, <1>1, <2>1 DEF Remove, Ledger
  <2>3. QED
    BY <1>0, <2>1, <2>2 DEF Remove, Ledger
<1>3. CASE RemoveTree
  <2>0. pc = "tree" /\ disk[cur].kind = "dir"
    BY <1>3 DEF RemoveTree, Ledger
  <2>1. CASE disk[cur].files = {} /\ pc' = "count" /\ Remove({}, Absent)
    <3>1. Cardinality({}) = 0
      BY FS_EmptySet
    <3>2. freed' = bytes' + size'
      BY <1>1, <2>0, <2>1, <3>1 DEF Remove, Ledger
    <3>3. QED
      BY <2>0, <2>1, <3>2 DEF Remove, Ledger
  <2>2. ASSUME NEW f \in disk[cur].files, pc' = pc,
               Remove({f}, [disk[cur] EXCEPT !.files = @ \ {f}, !.mtime = clock])
        PROVE  Ledger'
    <3> DEFINE rest == [disk[cur] EXCEPT !.files = @ \ {f}, !.mtime = clock]
    <3>1. disk'[cur] = rest /\ cur' = cur
      BY <1>0, <2>2 DEF Remove, TypeOK, DiskOK
    <3>2. rest.kind = "dir" /\ rest.files = disk[cur].files \ {f}
      BY <1>0, <2>0 DEF TypeOK, DiskOK, Entry
    <3> HIDE DEF rest
    <3>3. Cardinality(disk[cur].files \ {f}) = Cardinality(disk[cur].files) - 1
      BY <1>1, FS_RemoveElement
    <3>4. Cardinality({f}) = 1
      BY FS_Singleton
    <3>5. freed' = freed + 1
      BY <2>2, <3>4 DEF Remove
    <3>6. freed' + Cardinality(disk'[cur'].files) = bytes' + size'
      <4>1. freed + Cardinality(disk[cur].files) = bytes + size
        BY <2>0 DEF Ledger
      <4>2. Cardinality(disk'[cur'].files) = Cardinality(disk[cur].files) - 1
        BY <3>1, <3>2, <3>3
      <4>3. bytes' = bytes /\ size' = size
        BY <2>2 DEF Remove
      <4>4. QED
        BY <1>1, <3>5, <4>1, <4>2, <4>3
    <3>7. disk'[cur'].kind = "dir" /\ ~dry' /\ pc' = "tree" /\ report' = report
      BY <1>0, <2>0, <2>2, <3>1, <3>2 DEF Remove
    <3>8. QED
      BY <2>0, <3>6, <3>7 DEF Ledger
  <2>3. QED
    BY <1>3, <2>0, <2>1, <2>2 DEF RemoveTree
<1>4. QED
  BY <1>2, <1>3

LEMMA LedgerNext ==
  ASSUME others = 0, others' = 0,
         TypeOK, FilesFinite, Ledger, ReportExact, [Next]_vars
  PROVE  Ledger' /\ ReportExact'
<1>1. CASE Begin
  BY <1>1 DEF Begin, NoReport, Ledger, ReportExact
<1>2. ASSUME NEW outcome \in {"ok", "error"}, Finish(outcome),
             outcome = "ok" /\ ~dry => freed = bytes
      PROVE  Ledger' /\ ReportExact'
  BY <1>2 DEF Finish, Ledger, ReportExact
<1>3. CASE Fail
  BY <1>2, <1>3 DEF Fail
<1>4. CASE ReadDir /\ ~Fail
  BY <1>4 DEF ReadDir, history, Ledger, ReportExact
<1>5. CASE Visit /\ ~Fail
  <2>1. pc = "visit" /\ UNCHANGED <<disk, dry, bytes, freed, report>>
    BY <1>5 DEF Visit, worldVars, history
  <2>2. CASE pc' = "visit"
    BY <2>1, <2>2 DEF Ledger, ReportExact
  <2>3. CASE pc' = "size"
    <3>1. isDir' = (disk[cur'].kind = "dir")
      BY <1>5, <2>1, <2>3 DEF Visit
    <3>2. isDir' <=> disk'[cur'].kind = "dir"
      BY <2>1, <3>1
    <3>3. QED
      BY <2>1, <2>3, <3>2 DEF Ledger, ReportExact
  <2>4. QED
    BY <1>5, <2>1, <2>2, <2>3 DEF Visit
<1>6. CASE Measure
  <2>1. cur \in Entries /\ Cardinality(disk[cur].files) \in Nat
    BY <1>6, FS_CardinalityType DEF Measure, TypeOK, RunOK, FilesFinite
  <2>2. freed \in Nat /\ bytes \in Nat
    BY DEF TypeOK, TotalsOK
  <2>3. /\ pc = "size" /\ report.outcome = "none" /\ report' = report
        /\ UNCHANGED <<disk, cur, bytes, freed, dry>>
        /\ size' = Cardinality(disk[cur].files)
    BY <1>6 DEF Measure, worldVars, history, Ledger
  <2>4. pc' = IF dry THEN "count" ELSE IF isDir THEN "tree" ELSE "leaf"
    BY <1>6 DEF Measure
  <2>5. ~dry => freed' + Cardinality(disk'[cur'].files) = bytes' + size'
    BY <2>1, <2>2, <2>3 DEF Ledger
  <2>6. pc' = "tree" => disk'[cur'].kind = "dir"
    BY <2>3, <2>4 DEF Ledger
  <2>7. QED
    BY <2>3, <2>4, <2>5, <2>6 DEF Ledger, ReportExact
<1>7. CASE (RemoveFile \/ RemoveTree) /\ ~Fail
  <2>1. report.outcome = "none" /\ report' = report
    BY <1>7 DEF RemoveFile, RemoveTree, Remove, Ledger
  <2>2. QED
    BY <1>7, <2>1, LedgerRemove DEF ReportExact
<1>8. CASE Count
  BY <1>8 DEF Count, history, worldVars, Ledger, ReportExact
<1>9. CASE NextRoot
  <2>1. pc = "visit" /\ (~dry => freed = bytes)
    BY <1>9 DEF NextRoot, Ledger
  <2>2. CASE Finish("ok")
    BY <1>2, <2>1, <2>2
  <2>3. CASE ~Finish("ok")
    BY <1>9, <2>1, <2>3 DEF NextRoot, history, worldVars, Ledger, ReportExact
  <2>4. QED
    BY <2>2, <2>3
<1>10. CASE World /\ pc = "idle"
  <2>1. report' = NoReport /\ pc' = "idle"
    BY <1>10 DEF World, Put, Save, Relocate, Tick, Rebook, runVars
  <2>2. QED
    BY <2>1 DEF NoReport, Ledger, ReportExact
<1>11. CASE World /\ pc # "idle"
  BY <1>11, AloneWorld DEF runVars, Ledger, ReportExact
<1>12. CASE UNCHANGED vars
  BY <1>12 DEF vars, worldVars, runVars, history, Ledger, ReportExact
<1>13. QED
  BY <1>1, <1>3, <1>4, <1>5, <1>6, <1>7, <1>8, <1>9, <1>10, <1>11, <1>12 DEF Next, Step

LedgerInv == TypeInv /\ (others = 0 => Ledger) /\ ReportExact

LEMMA LedgerInductive ==
  ASSUME LedgerInv, [Next]_vars
  PROVE  LedgerInv'
<1>1. TypeInv'
  BY TypeNext DEF LedgerInv
<1>2. CASE others' # 0
  BY <1>1, <1>2 DEF LedgerInv, ReportExact
<1>3. CASE others = 0 /\ others' = 0
  BY <1>1, <1>3, LedgerNext DEF LedgerInv, TypeInv
<1>4. CASE others # 0 /\ others' = 0
  <2>1. CASE Begin
    BY <1>1, <2>1 DEF Begin, NoReport, LedgerInv, Ledger, ReportExact
  <2>2. CASE World /\ pc = "idle"
    <3>1. report' = NoReport /\ pc' = "idle"
      BY <2>2 DEF World, Put, Save, Relocate, Tick, Rebook, runVars
    <3>2. QED
      BY <1>1, <3>1 DEF NoReport, LedgerInv, Ledger, ReportExact
  <2>3. QED
    BY <1>4, <2>1, <2>2, Undisturbed DEF LedgerInv, TypeInv
<1>5. QED
  BY <1>2, <1>3, <1>4

(***************************************************************************)
(* Where nobody else changes the directories during a run, the bytes of a  *)
(* report without an error are those removed: every directory was measured *)
(* whole before its files went, and no root is forgotten or counted twice. *)
(***************************************************************************)
THEOREM ReportExactHolds == Spec => []ReportExact
<1>1. Init => LedgerInv
  <2>1. Init => Ledger /\ ReportExact
    BY DEF Init, NoReport, Ledger, ReportExact
  <2>2. QED
    BY <2>1, TypeInit DEF TypeInv, LedgerInv
<1>2. LedgerInv /\ [Next]_vars => LedgerInv'
  BY LedgerInductive
<1>3. LedgerInv => ReportExact
  BY DEF LedgerInv
<1>4. QED
  BY <1>1, <1>2, <1>3, PTL DEF Spec

\* Until a run ends, what it has not removed is as it was, but for the
\* directory it is taking apart; and what it handles was eligible.
Gates ==
    /\ pc # "idle" => \A e \in Entries :
                        disk[e] = before[e] \/ disk[e].kind = "none" \/ (e = cur /\ pc = "tree")
    /\ pc = "visit" => \A e \in listing : RootOf[e] = Dirs[at]
    /\ pc \in {"size", "leaf", "tree", "count"} => Eligible(cur) /\ RootOf[cur] = Dirs[at]
    /\ pc \in {"size", "leaf", "tree", "count"} => \A e \in listing : RootOf[e] = Dirs[at]
    /\ pc \in {"leaf", "tree"} => ~dry

LEMMA GatesRemove ==
  ASSUME others = 0, TypeOK, Gates, Untouched, ~Fail, RemoveFile \/ RemoveTree
  PROVE  Gates' /\ Untouched'
<1>1. /\ pc \in {"leaf", "tree"} /\ cur \in Entries /\ ~dry /\ at \in DOMAIN Dirs
      /\ disk \in [Entries -> Entry]
  BY DEF RemoveFile, RemoveTree, TypeOK, RunOK, DiskOK, Gates
<1>2. /\ UNCHANGED <<external, before, now, dry, cur, at, listing>>
      /\ pc' = "count" \/ (pc' = "tree" /\ pc = "tree")
  BY <1>1 DEF RemoveFile, RemoveTree, Remove
<1>3. \A e \in Entries : e # cur => disk'[e] = disk[e]
  BY <1>1 DEF RemoveFile, RemoveTree, Remove
<1>4. pc' = "count" => disk'[cur].kind = "none"
  <2>1. pc' = "count" => disk' = [disk EXCEPT ![cur] = Absent]
    BY <1>1 DEF RemoveFile, RemoveTree, Remove
  <2>2. Absent.kind = "none"
    BY DEF Absent
  <2>3. QED
    BY <1>1, <2>1, <2>2
<1>5. Eligible(cur) /\ Configured(cur)
  BY <1>1 DEF Gates, Configured
<1>6. \A e \in Entries : Eligible(e)' <=> Eligible(e)
  BY <1>2 DEF Eligible
<1>7. Untouched'
  <2>1. ASSUME NEW e \in Entries, disk'[e] # before'[e]
        PROVE  (~dry /\ Eligible(e) /\ Configured(e))'
    <3>1. CASE e = cur
      BY <1>1, <1>2, <1>5, <1>6, <3>1 DEF Configured
    <3>2. CASE e # cur
      BY <1>2, <1>3, <1>6, <2>1, <3>2 DEF Untouched, Configured
    <3>3. QED
      BY <3>1, <3>2
  <2>2. QED
    BY <2>1 DEF Untouched
<1>8. \A e \in Entries :
        disk'[e] = before'[e] \/ disk'[e].kind = "none" \/ (e = cur' /\ pc' = "tree")
  BY <1>1, <1>2, <1>3, <1>4 DEF Gates
<1>9. QED
  BY <1>1, <1>2, <1>5, <1>6, <1>7, <1>8 DEF Gates

LEMMA GatesNext ==
  ASSUME others = 0, others' = 0, TypeOK, Gates, Untouched, [Next]_vars
  PROVE  Gates' /\ Untouched'
<1>1. CASE Begin
  BY <1>1 DEF Begin, Gates, Untouched
<1>2. ASSUME NEW outcome, Finish(outcome) PROVE Gates' /\ Untouched'
  BY <1>2 DEF Finish, worldVars, Gates, Untouched, Eligible, Configured
<1>3. CASE Fail
  BY <1>2, <1>3 DEF Fail
<1>4. CASE ReadDir /\ ~Fail
  BY <1>4 DEF ReadDir, worldVars, history, Gates, Untouched, Eligible, Configured
<1>5. CASE Visit /\ ~Fail
  <2>1. /\ pc = "visit"
        /\ UNCHANGED <<disk, external, before, now, dry, at>>
    BY <1>5 DEF Visit, worldVars, history
  <2>2. PICK e \in listing :
          /\ disk[e].kind # "none"
          /\ \/ ~Passes(e) /\ pc' = pc /\ Skip(e)
             \/ Passes(e) /\ pc' = "size" /\ cur' = e /\ listing' = listing
    BY <1>5 DEF Visit
  <2>3. listing' \subseteq listing
    BY <2>2 DEF Skip
  <2>4. Untouched'
    BY <2>1 DEF Untouched, Eligible, Configured
  <2>5. e \in Entries /\ RootOf[e] = Dirs[at]
    BY <2>1 DEF Gates, TypeOK, RunOK
  <2>6. pc' = "size" => Eligible(cur)' /\ RootOf[cur'] = Dirs[at']
    <3>1. disk[e] = before[e]
      BY <2>1, <2>2, <2>5 DEF Gates
    <3>2. ASSUME Passes(e) PROVE Eligible(e)
      <4>1. disk[e].kind \in {"file", "dir"} /\ disk[e].mtime \in Nat
        BY <2>2, <2>5, <3>2 DEF Passes, TypeOK, DiskOK, Entry, Kinds
      <4>2. disk[e].mtime + Age <= now
        BY <3>2, <4>1, NumberAssumption DEF Passes, Old, TypeOK, TotalsOK
      <4>3. QED
        BY <3>1, <3>2, <4>1, <4>2 DEF Passes, Eligible
    <3>3. QED
      BY <2>1, <2>2, <2>5, <3>2 DEF Eligible
  <2>7. QED
    BY <2>1, <2>2, <2>3, <2>4, <2>6 DEF Gates
<1>6. CASE Measure
  <2>1. pc = "size" /\ pc' = IF dry THEN "count" ELSE IF isDir THEN "tree" ELSE "leaf"
    BY <1>6 DEF Measure
  <2>2. UNCHANGED <<disk, external, before, now, dry, at, cur, listing>>
    BY <1>6 DEF Measure, worldVars, history
  <2>3. QED
    BY <2>1, <2>2 DEF Gates, Untouched, Eligible, Configured
<1>7. CASE (RemoveFile \/ RemoveTree) /\ ~Fail
  BY <1>7, GatesRemove
<1>8. CASE Count
  BY <1>8 DEF Count, worldVars, history, Gates, Untouched, Eligible, Configured
<1>9. CASE NextRoot
  <2>1. CASE Finish("ok")
    BY <1>2, <2>1
  <2>2. CASE ~Finish("ok")
    BY <1>9, <2>2
       DEF NextRoot, worldVars, history, Gates, Untouched, Eligible, Configured
  <2>3. QED
    BY <2>1, <2>2
<1>10. CASE World /\ pc = "idle"
  <2>1. before' = disk' /\ pc' = "idle"
    BY <1>10 DEF World, Put, Save, Relocate, Tick, Rebook, runVars
  <2>2. QED
    BY <2>1 DEF Gates, Untouched
<1>11. CASE World /\ pc # "idle"
  BY <1>11, AloneWorld DEF runVars, Gates, Untouched, Eligible, Configured
<1>12. CASE UNCHANGED vars
  BY <1>12 DEF vars, worldVars, runVars, history, Gates, Untouched, Eligible, Configured
<1>13. QED
  BY <1>1, <1>3, <1>4, <1>5, <1>6, <1>7, <1>8, <1>9, <1>10, <1>11, <1>12 DEF Next, Step

GatesInv == TypeInv /\ (others = 0 => Gates) /\ Untouched

LEMMA GatesInductive ==
  ASSUME GatesInv, [Next]_vars
  PROVE  GatesInv'
<1>1. TypeInv'
  BY TypeNext DEF GatesInv
<1>2. CASE others' # 0
  BY <1>1, <1>2 DEF GatesInv, Untouched
<1>3. CASE others = 0 /\ others' = 0
  BY <1>1, <1>3, GatesNext DEF GatesInv, TypeInv
<1>4. CASE others # 0 /\ others' = 0
  <2>1. CASE Begin
    BY <1>1, <2>1 DEF Begin, GatesInv, Gates, Untouched
  <2>2. CASE World /\ pc = "idle"
    <3>1. before' = disk' /\ pc' = "idle"
      BY <2>2 DEF World, Put, Save, Relocate, Tick, Rebook, runVars
    <3>2. QED
      BY <1>1, <3>1 DEF GatesInv, Gates, Untouched
  <2>3. QED
    BY <1>4, <2>1, <2>2, Undisturbed DEF GatesInv, TypeInv
<1>5. QED
  BY <1>2, <1>3, <1>4

(***************************************************************************)
(* Where nobody else changes the directories during a run, a run changes   *)
(* only entries of its configured directories that were old when it began, *)
(* not excluded, no symlinks and not on an external volume, and a dry-run  *)
(* changes none.                                                           *)
(***************************************************************************)
THEOREM UntouchedHolds == Spec => []Untouched
<1>1. Init => GatesInv
  <2>1. Init => Gates /\ Untouched
    BY DEF Init, Gates, Untouched
  <2>2. QED
    BY <2>1, TypeInit DEF TypeInv, GatesInv
<1>2. GatesInv /\ [Next]_vars => GatesInv'
  BY GatesInductive
<1>3. GatesInv => Untouched
  BY DEF GatesInv
<1>4. QED
  BY <1>1, <1>2, <1>3, PTL DEF Spec
-----------------------------------------------------------------------------
(***************************************************************************)
(* Nothing is left behind                                                  *)
(***************************************************************************)

\* The loops have been past an entry of the root at position i.
Past(e, i) == i < at \/ (i = at /\ pc # "root" /\ e \notin listing)

\* In a real run an entry is untouched, gone, or the directory being taken
\* apart, and an eligible one that the loops have been past is gone.
Swept ==
    pc # "idle" /\ ~dry =>
      /\ \A e \in Entries : disk[e] = before[e] \/ disk[e] = Absent \/ (e = cur /\ pc = "tree")
      /\ pc = "count" => disk[cur] = Absent
      /\ \A e \in Entries, i \in DOMAIN Dirs :
           Eligible(e) /\ RootOf[e] = Dirs[i] /\ Past(e, i) => disk[e] = Absent

\* An eligible entry that is as it was passes the gates.
LEMMA EligiblePasses ==
  ASSUME TypeOK, NEW e \in Entries, Eligible(e), disk[e] = before[e]
  PROVE  Passes(e)
<1>1. disk[e].kind \in {"file", "dir"} /\ disk[e].mtime \in Nat
  BY DEF Eligible, TypeOK, DiskOK, Entry
<1>2. now \in Nat /\ disk[e].mtime + Age <= now
  BY DEF Eligible, TypeOK, TotalsOK
<1>3. Old(disk[e].mtime)
  BY <1>1, <1>2, NumberAssumption DEF Old
<1>4. QED
  BY <1>1, <1>3 DEF Eligible, Passes

LEMMA SweptRemove ==
  ASSUME TypeOK, Gates, Swept, ~Fail, RemoveFile \/ RemoveTree
  PROVE  Swept'
<1>1. /\ pc \in {"leaf", "tree"} /\ cur \in Entries /\ ~dry
      /\ disk \in [Entries -> Entry]
  BY DEF RemoveFile, RemoveTree, TypeOK, RunOK, DiskOK, Gates
<1>2. /\ UNCHANGED <<external, before, now, dry, cur, at, listing>>
      /\ pc' = "count" \/ (pc' = "tree" /\ pc = "tree")
  BY <1>1 DEF RemoveFile, RemoveTree, Remove
<1>3. \A e \in Entries : e # cur => disk'[e] = disk[e]
  BY <1>1 DEF RemoveFile, RemoveTree, Remove
<1>4. pc' = "count" => disk'[cur] = Absent
  BY <1>1 DEF RemoveFile, RemoveTree, Remove
<1>5. disk[cur] # Absent
  <2>1. Absent.kind = "none"
    BY DEF Absent
  <2>2. disk[cur].kind # "none"
    BY DEF RemoveFile, RemoveTree
  <2>3. QED
    BY <2>1, <2>2
<1>6. ASSUME NEW e \in Entries, NEW i \in DOMAIN Dirs,
             Eligible(e)', RootOf[e] = Dirs[i], Past(e, i)'
      PROVE  disk'[e] = Absent
  <2>1. Eligible(e) /\ Past(e, i)
    BY <1>1, <1>2, <1>6 DEF Eligible, Past
  <2>2. disk[e] = Absent
    BY <1>1, <1>6, <2>1 DEF Swept
  <2>3. QED
    BY <1>3, <1>5, <2>2
<1>7. \A e \in Entries :
        disk'[e] = before'[e] \/ disk'[e] = Absent \/ (e = cur' /\ pc' = "tree")
  BY <1>1, <1>2, <1>3, <1>4 DEF Swept
<1>8. QED
  BY <1>2, <1>4, <1>6, <1>7 DEF Swept

LEMMA SweptNext ==
  ASSUME others = 0, others' = 0, TypeOK, Ledger, Gates, Swept, NothingLeft, [Next]_vars
  PROVE  Swept' /\ NothingLeft'
<1>1. CASE Begin
  <2>1. ASSUME NEW e \in Entries, NEW i \in DOMAIN Dirs PROVE ~Past(e, i)'
    BY <1>1, RootAssumption DEF Begin, Past
  <2>2. QED
    BY <1>1, <2>1 DEF Begin, NoReport, Swept, NothingLeft
<1>2. CASE Fail
  BY <1>2 DEF Fail, Finish, Swept, NothingLeft
<1>3. CASE ReadDir /\ ~Fail
  <2>1. /\ pc = "root" /\ pc' = "visit" /\ UNCHANGED <<worldVars, dry, now, at, cur, report, before>>
        /\ listing' = {e \in Entries : RootOf[e] = Dirs[at] /\ disk[e].kind # "none"}
    BY <1>3 DEF ReadDir, history
  <2>2. ASSUME NEW e \in Entries, NEW i \in DOMAIN Dirs, ~dry,
               Eligible(e), RootOf[e] = Dirs[i], Past(e, i)'
        PROVE  disk[e] = Absent
    <3>1. CASE i < at
      BY <2>1, <2>2, <3>1 DEF Past, Swept
    <3>2. CASE i = at
      <4>0. at \in Nat
        BY RootAssumption DEF TypeOK, RunOK
      <4>1. disk[e].kind = "none"
        BY <2>1, <2>2, <3>2, <4>0 DEF Past
      <4>2. disk[e] # before[e]
        BY <2>2, <4>1 DEF Eligible
      <4>3. QED
        BY <2>1, <2>2, <4>2 DEF Swept
    <3>3. QED
      BY <2>1, <2>2, <3>1, <3>2 DEF Past
  <2>3. \A e \in Entries : Eligible(e)' <=> Eligible(e)
    BY <2>1 DEF Eligible, worldVars
  <2>4. report'.outcome = "none"
    BY <2>1 DEF Ledger
  <2>5. QED
    BY <2>1, <2>2, <2>3, <2>4 DEF Swept, NothingLeft, worldVars
<1>4. CASE Visit /\ ~Fail
  <2>1. /\ pc = "visit"
        /\ UNCHANGED <<disk, external, before, now, dry, at, report>>
    BY <1>4 DEF Visit, worldVars, history
  <2>2. PICK e \in listing :
          /\ disk[e].kind # "none"
          /\ \/ ~Passes(e) /\ pc' = "visit" /\ Skip(e) /\ cur' = cur
             \/ Passes(e) /\ pc' = "size" /\ cur' = e /\ listing' = listing
    BY <1>4 DEF Visit
  <2>3. e \in Entries
    BY DEF TypeOK, RunOK
  <2>4. ~dry /\ ~Passes(e) => ~Eligible(e)
    <3>1. SUFFICES ASSUME ~dry, Eligible(e) PROVE Passes(e)
      OBVIOUS
    <3>2. disk[e] # Absent
      BY <2>2 DEF Absent
    <3>3. disk[e] = before[e]
      BY <2>1, <2>3, <3>1, <3>2 DEF Swept
    <3>4. QED
      BY <2>3, <3>1, <3>3, EligiblePasses
  <2>5. ASSUME NEW x \in Entries, NEW i \in DOMAIN Dirs, ~dry,
               Eligible(x)', RootOf[x] = Dirs[i], Past(x, i)'
        PROVE  disk[x] = Absent
    <3>1. Eligible(x)
      BY <2>1, <2>5 DEF Eligible
    <3>2. x # e \/ Passes(e)
      BY <2>4, <2>5, <3>1
    <3>3. Past(x, i)
      BY <2>1, <2>2, <2>5, <3>2 DEF Past, Skip
    <3>4. QED
      BY <2>1, <2>5, <3>1, <3>3 DEF Swept
  <2>6. pc' \in {"visit", "size"}
    BY <2>2
  <2>7. \A x \in Entries : ~dry => disk[x] = before[x] \/ disk[x] = Absent
    BY <2>1 DEF Swept
  <2>8. report'.outcome = "none"
    BY <2>1 DEF Ledger
  <2>9. QED
    BY <2>1, <2>5, <2>6, <2>7, <2>8 DEF Swept, NothingLeft
<1>5. CASE Measure
  <2>1. /\ pc = "size" /\ pc' = IF dry THEN "count" ELSE IF isDir THEN "tree" ELSE "leaf"
        /\ UNCHANGED <<disk, external, before, now, dry, at, cur, listing, report>>
    BY <1>5 DEF Measure, worldVars, history
  <2>2. \A e \in Entries, i \in DOMAIN Dirs :
          (Eligible(e)' <=> Eligible(e)) /\ (Past(e, i)' <=> Past(e, i))
    BY <2>1 DEF Eligible, Past
  <2>3. report'.outcome = "none"
    BY <2>1 DEF Ledger
  <2>4. QED
    BY <2>1, <2>2, <2>3 DEF Swept, NothingLeft
<1>6. CASE (RemoveFile \/ RemoveTree) /\ ~Fail
  <2>1. report'.outcome = "none"
    BY <1>6 DEF RemoveFile, RemoveTree, Remove, Ledger
  <2>2. QED
    BY <1>6, <2>1, SweptRemove DEF NothingLeft
<1>7. CASE Count
  <2>1. /\ pc = "count" /\ pc' = "visit" /\ listing' = listing \ {cur}
        /\ UNCHANGED <<disk, external, before, now, dry, at, report>>
    BY <1>7 DEF Count, worldVars, history
  <2>2. ASSUME NEW e \in Entries, NEW i \in DOMAIN Dirs, ~dry,
               Eligible(e)', RootOf[e] = Dirs[i], Past(e, i)'
        PROVE  disk[e] = Absent
    <3>1. e = cur \/ Past(e, i)
      BY <2>1, <2>2 DEF Past
    <3>2. Eligible(e)
      BY <2>1, <2>2 DEF Eligible
    <3>3. QED
      BY <2>1, <2>2, <3>1, <3>2 DEF Swept
  <2>3. \A e \in Entries : ~dry => disk[e] = before[e] \/ disk[e] = Absent
    BY <2>1 DEF Swept
  <2>4. report'.outcome = "none"
    BY <2>1 DEF Ledger
  <2>5. QED
    BY <2>1, <2>2, <2>3, <2>4 DEF Swept, NothingLeft
<1>8. CASE NextRoot
  <2>1. pc = "visit" /\ listing = {} /\ UNCHANGED <<disk, external, before, now, dry>>
    BY <1>8 DEF NextRoot, Finish, worldVars, history
  <2>2. at \in Nat /\ DOMAIN Dirs = 1..Len(Dirs) /\ Len(Dirs) \in Nat
    BY RootAssumption DEF TypeOK, RunOK
  <2>3. \A e \in Entries, i \in DOMAIN Dirs : i <= at => Past(e, i)
    BY <2>1, <2>2 DEF Past
  <2>4. \A e \in Entries : Eligible(e)' <=> Eligible(e)
    BY <2>1 DEF Eligible
  <2>5. CASE at = Len(Dirs) /\ Finish("ok")
    <3>1. ASSUME NEW e \in Entries, ~dry, Eligible(e), Configured(e) PROVE disk[e] = Absent
      BY <2>1, <2>2, <2>3, <2>5, <3>1 DEF Configured, Swept
    <3>2. pc' = "idle" /\ report'.dry = dry
      BY <2>5 DEF Finish
    <3>3. QED
      BY <2>1, <2>4, <3>1, <3>2 DEF Configured, Swept, NothingLeft
  <2>6. CASE at < Len(Dirs) /\ at' = at + 1 /\ pc' = "root" /\ UNCHANGED <<listing, report>>
    <3>1. \A e \in Entries, i \in DOMAIN Dirs : Past(e, i)' => Past(e, i)
      BY <2>2, <2>3, <2>6 DEF Past
    <3>2. report'.outcome = "none"
      BY <2>1, <2>6 DEF Ledger
    <3>3. QED
      BY <2>1, <2>4, <2>6, <3>1, <3>2 DEF Swept, NothingLeft
  <2>7. QED
    BY <1>8, <2>5, <2>6 DEF NextRoot
<1>9. CASE World /\ pc = "idle"
  <2>1. report' = NoReport /\ pc' = "idle"
    BY <1>9 DEF World, Put, Save, Relocate, Tick, Rebook, runVars
  <2>2. QED
    BY <2>1 DEF NoReport, Swept, NothingLeft
<1>10. CASE (World /\ pc # "idle") \/ UNCHANGED vars
  <2>1. UNCHANGED <<disk, external, runVars, report, before>>
    BY <1>10, AloneWorld DEF vars, worldVars, history
  <2>2. \A e \in Entries, i \in DOMAIN Dirs :
          (Eligible(e)' <=> Eligible(e)) /\ (Past(e, i)' <=> Past(e, i))
    BY <2>1 DEF Eligible, Past, runVars
  <2>3. QED
    BY <2>1, <2>2 DEF Swept, NothingLeft, Configured, runVars
<1>11. QED
  BY <1>1, <1>2, <1>3, <1>4, <1>5, <1>6, <1>7, <1>8, <1>9, <1>10 DEF Next, Step

SweptInv == LedgerInv /\ GatesInv /\ (others = 0 => Swept) /\ NothingLeft

LEMMA SweptInductive ==
  ASSUME SweptInv, [Next]_vars
  PROVE  SweptInv'
<1>1. LedgerInv' /\ GatesInv'
  BY LedgerInductive, GatesInductive DEF SweptInv
<1>2. TypeOK
  BY DEF SweptInv, GatesInv, TypeInv
<1>3. CASE others' # 0
  BY <1>1, <1>3 DEF SweptInv, NothingLeft
<1>4. CASE others = 0 /\ others' = 0
  BY <1>1, <1>2, <1>4, SweptNext DEF SweptInv, LedgerInv, GatesInv
<1>5. CASE others # 0 /\ others' = 0
  <2>1. CASE Begin
    <3>1. ASSUME NEW e \in Entries, NEW i \in DOMAIN Dirs PROVE ~Past(e, i)'
      BY <2>1, RootAssumption DEF Begin, Past
    <3>2. QED
      BY <1>1, <2>1, <3>1 DEF Begin, NoReport, SweptInv, Swept, NothingLeft
  <2>2. CASE World /\ pc = "idle"
    <3>1. report' = NoReport /\ pc' = "idle"
      BY <2>2 DEF World, Put, Save, Relocate, Tick, Rebook, runVars
    <3>2. QED
      BY <1>1, <3>1 DEF NoReport, SweptInv, Swept, NothingLeft
  <2>3. QED
    BY <1>2, <1>5, <2>1, <2>2, Undisturbed
<1>6. QED
  BY <1>3, <1>4, <1>5

(***************************************************************************)
(* A run nobody disturbs that reports no error has taken every entry of    *)
(* its directories that it could have taken, for any number of directories *)
(* and entries: no early `continue` and no root is skipped by mistake.     *)
(***************************************************************************)
THEOREM NothingLeftHolds == Spec => []NothingLeft
<1>1. Init => SweptInv
  <2>1. Init => Ledger /\ ReportExact /\ Gates /\ Untouched /\ Swept /\ NothingLeft
    BY DEF Init, NoReport, Ledger, ReportExact, Gates, Untouched, Swept, NothingLeft
  <2>2. QED
    BY <2>1, TypeInit DEF TypeInv, LedgerInv, GatesInv, SweptInv
<1>2. SweptInv /\ [Next]_vars => SweptInv'
  BY SweptInductive
<1>3. SweptInv => NothingLeft
  BY DEF SweptInv
<1>4. QED
  BY <1>1, <1>2, <1>3, PTL DEF Spec

-----------------------------------------------------------------------------
(***************************************************************************)
(* A dry-run announces what the next run frees                             *)
(***************************************************************************)

\* No directory is configured twice: a dry-run counts its entries each time.
NotTwice == \A i, j \in DOMAIN Dirs : Dirs[i] = Dirs[j] => i = j

\* The files a run found in the entries of S when it began, told apart.
Found(S) == {x \in Entries \X File : x[1] \in S /\ x[2] \in before[x[1]].files}

\* Eligible entries the loops have been past, and all there are.
Done == {e \in Entries : /\ Eligible(e)
                         /\ \E i \in DOMAIN Dirs : Dirs[i] = RootOf[e] /\ Past(e, i)}
ToDo == {e \in Entries : Eligible(e) /\ Configured(e)}

\* What has been counted is what was found in the entries done, in a dry-run
\* and in a real one.
Books ==
    pc # "idle" =>
      /\ IsFiniteSet(Found(Done)) /\ bytes = Cardinality(Found(Done))
      /\ \A e \in Entries :
           disk[e] # before[e] => e \in Done \/ (e = cur /\ pc \in {"tree", "count"})
      /\ pc \in {"leaf", "tree", "count"} =>
           IsFiniteSet(before[cur].files) /\ size = Cardinality(before[cur].files)

\* A preview that still holds is about the disk as it is.
Promise ==
    preview.known =>
      /\ others = 0 /\ clock = now
      /\ pc = "idle" => disk = before
      /\ preview.bytes = Cardinality(Found(ToDo))

LEMMA FoundOneMore ==
  ASSUME before \in [Entries -> Entry], NEW S, NEW e \in Entries \ S,
         IsFiniteSet(Found(S)), IsFiniteSet(before[e].files)
  PROVE  /\ IsFiniteSet(Found(S \cup {e}))
         /\ Cardinality(Found(S \cup {e})) = Cardinality(Found(S)) + Cardinality(before[e].files)
<1> DEFINE own == {e} \X before[e].files
<1>1. before[e].files \in SUBSET File
  BY DEF Entry
<1>2. Found(S \cup {e}) = Found(S) \cup own
  BY <1>1 DEF Found
<1>3. Found(S) \cap own = {}
  BY DEF Found
<1>4. IsFiniteSet({e}) /\ Cardinality({e}) = 1
  BY FS_Singleton
<1>5. IsFiniteSet(own) /\ Cardinality(own) = Cardinality({e}) * Cardinality(before[e].files)
  BY <1>4, FS_Product
<1> HIDE DEF own
<1>6. /\ IsFiniteSet(Found(S) \cup own)
      /\ Cardinality(Found(S) \cup own) =
           Cardinality(Found(S)) + Cardinality(own) - Cardinality(Found(S) \cap own)
  BY <1>5, FS_Union
<1>7. Cardinality(Found(S) \cap own) = 0
  BY <1>3, FS_EmptySet
<1>8. Cardinality(Found(S)) \in Nat /\ Cardinality(before[e].files) \in Nat
  BY FS_CardinalityType
<1>9. Cardinality(own) = Cardinality(before[e].files)
  BY <1>4, <1>5, <1>8
<1>10. /\ IsFiniteSet(Found(S \cup {e}))
       /\ Cardinality(Found(S \cup {e})) = Cardinality(Found(S) \cup own)
  BY <1>2, <1>6, Zenon
<1>11. Cardinality(Found(S) \cup own) = Cardinality(Found(S)) + Cardinality(before[e].files)
  BY <1>6, <1>7, <1>8, <1>9
<1>12. QED
  BY <1>10, <1>11, Zenon

LEMMA CurNotDone ==
  ASSUME NotTwice, TypeOK, Gates, pc \in {"size", "leaf", "tree", "count"}
  PROVE  cur \in Entries /\ cur \in listing /\ cur \notin Done
<1>1. cur \in listing /\ cur \in Entries /\ RootOf[cur] = Dirs[at] /\ at \in DOMAIN Dirs
  BY DEF TypeOK, RunOK, Gates
<1>2. at \in Nat
  BY RootAssumption DEF TypeOK, RunOK
<1>3. \A i \in DOMAIN Dirs : Dirs[i] = RootOf[cur] => ~Past(cur, i)
  BY <1>1, <1>2 DEF NotTwice, Past
<1>4. QED
  BY <1>1, <1>3 DEF Done

\* A step that leaves the run's beginning and the entries done alone.
LEMMA BooksKept ==
  ASSUME Books, pc # "idle", before' = before, bytes' = bytes, Done' = Done
  PROVE  IsFiniteSet(Found(Done)') /\ bytes' = Cardinality(Found(Done)')
<1>1. Found(Done)' = Found(Done)
  BY DEF Found
<1>2. QED
  BY <1>1 DEF Books

LEMMA BooksStep ==
  ASSUME NotTwice, others = 0, others' = 0, TypeOK, FilesFinite, Gates, Books, Step, pc' # "idle"
  PROVE  Books'
<1>0. ~Fail /\ at \in Nat
  BY RootAssumption DEF Fail, Finish, TypeOK, RunOK
<1>1. CASE ReadDir
  <2>1. /\ pc = "root" /\ pc' = "visit" /\ UNCHANGED <<worldVars, dry, now, at, cur, before, bytes>>
        /\ listing' = {e \in Entries : RootOf[e] = Dirs[at] /\ disk[e].kind # "none"}
    BY <1>0, <1>1 DEF ReadDir, history
  <2>2. \A e \in Entries : Eligible(e)' <=> Eligible(e)
    BY <2>1 DEF Eligible, worldVars
  <2>3. ASSUME NEW e \in Entries, Eligible(e), NEW i \in DOMAIN Dirs,
               Dirs[i] = RootOf[e], Past(e, i)'
        PROVE  e \in Done
    <3>1. CASE i < at
      BY <2>3, <3>1 DEF Past, Done
    <3>2. CASE ~(i < at)
      <4>1. disk[e].kind = "none"
        BY <1>0, <2>1, <2>3, <3>2 DEF Past
      <4>2. disk[e] # before[e]
        BY <2>3, <4>1 DEF Eligible
      <4>3. QED
        BY <2>1, <4>2 DEF Books
    <3>3. QED
      BY <3>1, <3>2
  <2>4. \A e \in Entries, i \in DOMAIN Dirs : Past(e, i) => Past(e, i)'
    BY <2>1 DEF Past
  <2>5. Done' = Done
    BY <2>2, <2>3, <2>4 DEF Done
  <2>6. QED
    BY <2>1, <2>5, BooksKept DEF Books, worldVars
<1>2. CASE Visit
  <2>1. /\ pc = "visit"
        /\ UNCHANGED <<disk, external, before, now, dry, at, bytes>>
    BY <1>0, <1>2 DEF Visit, worldVars, history
  <2>2. PICK e \in listing :
          /\ disk[e].kind # "none"
          /\ \/ ~Passes(e) /\ pc' = "visit" /\ Skip(e) /\ cur' = cur
             \/ Passes(e) /\ pc' = "size" /\ cur' = e /\ listing' = listing
    BY <1>0, <1>2 DEF Visit
  <2>3. e \in Entries
    BY DEF TypeOK, RunOK
  <2>4. \A x \in Entries : Eligible(x)' <=> Eligible(x)
    BY <2>1 DEF Eligible
  <2>5. ~Passes(e) => ~Eligible(e) \/ e \in Done
    BY <2>1, <2>3, EligiblePasses DEF Books
  <2>6. \A x \in Entries, i \in DOMAIN Dirs :
          /\ Past(x, i) => Past(x, i)'
          /\ Past(x, i)' => Past(x, i) \/ (x = e /\ ~Passes(e))
    BY <2>1, <2>2 DEF Past, Skip
  <2>7. Done' = Done
    BY <2>4, <2>5, <2>6 DEF Done
  <2>8. pc' \in {"visit", "size"}
    BY <2>2
  <2>9. \A x \in Entries : disk[x] # before[x] => x \in Done
    BY <2>1 DEF Books
  <2>10. QED
    BY <2>1, <2>7, <2>8, <2>9, BooksKept DEF Books
<1>3. CASE Measure
  <2>1. /\ pc = "size" /\ pc' \in {"count", "tree", "leaf"}
        /\ UNCHANGED <<disk, external, before, now, dry, at, cur, listing, bytes>>
        /\ size' = Cardinality(disk[cur].files)
    BY <1>3 DEF Measure, worldVars, history
  <2>2. \A e \in Entries, i \in DOMAIN Dirs :
          (Eligible(e)' <=> Eligible(e)) /\ (Past(e, i)' <=> Past(e, i))
    BY <2>1 DEF Eligible, Past
  <2>3. Done' = Done
    BY <2>2 DEF Done
  <2>4. cur \in Entries /\ disk[cur] = before[cur]
    BY <2>1, CurNotDone DEF Books
  <2>5. IsFiniteSet(before[cur].files)
    BY <2>4 DEF FilesFinite
  <2>6. \A x \in Entries : disk[x] # before[x] => x \in Done
    BY <2>1 DEF Books
  <2>7. QED
    BY <2>1, <2>3, <2>4, <2>5, <2>6, BooksKept DEF Books
<1>4. CASE RemoveFile \/ RemoveTree
  <2>1. /\ pc \in {"leaf", "tree"} /\ cur \in Entries /\ disk \in [Entries -> Entry]
        /\ UNCHANGED <<external, before, now, dry, cur, at, listing, bytes, size>>
        /\ pc' \in {"tree", "count"}
    BY <1>0, <1>4 DEF RemoveFile, RemoveTree, Remove, TypeOK, RunOK, DiskOK
  <2>2. \A e \in Entries : e # cur => disk'[e] = disk[e]
    BY <1>0, <1>4, <2>1 DEF RemoveFile, RemoveTree, Remove
  <2>3. \A e \in Entries, i \in DOMAIN Dirs :
          (Eligible(e)' <=> Eligible(e)) /\ (Past(e, i)' <=> Past(e, i))
    BY <2>1 DEF Eligible, Past
  <2>4. Done' = Done
    BY <2>3 DEF Done
  <2>5. ASSUME NEW e \in Entries, disk'[e] # before'[e]
        PROVE  e \in Done' \/ (e = cur' /\ pc' \in {"tree", "count"})
    BY <2>1, <2>2, <2>4, <2>5 DEF Books
  <2>6. IsFiniteSet(before'[cur'].files) /\ size' = Cardinality(before'[cur'].files)
    BY <2>1 DEF Books
  <2>7. QED
    BY <2>1, <2>4, <2>5, <2>6, BooksKept DEF Books
<1>5. CASE Count
  <2>1. /\ pc = "count" /\ pc' = "visit" /\ listing' = listing \ {cur}
        /\ bytes' = bytes + size
        /\ UNCHANGED <<disk, external, before, now, dry, at>>
    BY <1>5 DEF Count, worldVars, history
  <2>2. cur \in Entries \ Done /\ cur \in listing
    BY <2>1, CurNotDone
  <2>3. Eligible(cur) /\ RootOf[cur] = Dirs[at] /\ at \in DOMAIN Dirs
    BY <2>1 DEF Gates, TypeOK, RunOK
  <2>4. \A e \in Entries : Eligible(e)' <=> Eligible(e)
    BY <2>1 DEF Eligible
  <2>5. \A e \in Entries, i \in DOMAIN Dirs :
          /\ Past(e, i) => Past(e, i)'
          /\ Past(e, i)' => Past(e, i) \/ e = cur
    BY <2>1 DEF Past
  <2>6. \A e \in Entries, i \in DOMAIN Dirs : e = cur /\ i = at => Past(e, i)'
    BY <2>1 DEF Past
  <2>7. Done' = Done \cup {cur}
    BY <2>2, <2>3, <2>4, <2>5, <2>6 DEF Done
  <2>8. Found(Done)' = Found(Done \cup {cur})
    BY <2>1, <2>7 DEF Found
  <2>9. /\ IsFiniteSet(Found(Done)) /\ bytes = Cardinality(Found(Done))
        /\ IsFiniteSet(before[cur].files) /\ size = Cardinality(before[cur].files)
    BY <2>1 DEF Books
  <2>10. /\ IsFiniteSet(Found(Done \cup {cur}))
         /\ Cardinality(Found(Done \cup {cur})) = bytes + size
    BY <2>2, <2>9, FoundOneMore DEF TypeOK, DiskOK
  <2>11. \A e \in Entries : disk'[e] # before'[e] => e \in Done'
    BY <2>1, <2>7 DEF Books
  <2>12. QED
    BY <2>1, <2>8, <2>10, <2>11 DEF Books
<1>6. CASE NextRoot
  <2>1. /\ pc = "visit" /\ pc' = "root" /\ listing = {} /\ at' = at + 1
        /\ UNCHANGED <<disk, external, before, now, dry, cur, listing, bytes>>
    BY <1>6 DEF NextRoot, Finish, worldVars, history
  <2>2. \A e \in Entries, i \in DOMAIN Dirs :
          (Eligible(e)' <=> Eligible(e)) /\ (Past(e, i)' <=> Past(e, i))
    <3>1. DOMAIN Dirs \subseteq Nat
      BY RootAssumption
    <3>2. QED
      BY <1>0, <2>1, <3>1 DEF Eligible, Past
  <2>3. Done' = Done
    BY <2>2 DEF Done
  <2>4. QED
    BY <2>1, <2>3, BooksKept DEF Books
<1>7. QED
  BY <1>1, <1>2, <1>3, <1>4, <1>5, <1>6 DEF Step

\* A run begins with nothing done.
LEMMA BooksBegin ==
  ASSUME Begin
  PROVE  Books'
<1>1. \A e \in Entries, i \in DOMAIN Dirs : ~Past(e, i)'
  BY RootAssumption DEF Begin, Past
<1>2. Done' = {}
  BY <1>1 DEF Done
<1>3. Found(Done)' = {}
  BY <1>2 DEF Found
<1>4. QED
  BY <1>3, FS_EmptySet DEF Begin, Books

\* Its end has seen them all.
LEMMA AllDone ==
  ASSUME TypeOK, pc = "visit", listing = {}, at = Len(Dirs)
  PROVE  Done = ToDo
<1>1. DOMAIN Dirs = 1..Len(Dirs) /\ Len(Dirs) \in Nat
  BY RootAssumption
<1>2. \A e \in Entries, i \in DOMAIN Dirs : Past(e, i)
  BY <1>1 DEF Past
<1>3. QED
  BY <1>2 DEF Done, ToDo, Configured

\* The preview stands while nothing about the run's beginning changes.
LEMMA PromiseKept ==
  ASSUME Promise, preview' = preview, UNCHANGED <<others, clock, external, now, before>>,
         pc' = "idle" => disk' = before
  PROVE  Promise'
<1>1. \A e \in Entries : (Eligible(e) /\ Configured(e))' <=> (Eligible(e) /\ Configured(e))
  BY DEF Eligible, Configured
<1>2. ToDo' = ToDo
  BY <1>1 DEF ToDo
<1>3. Found(ToDo)' = Found(ToDo)
  BY <1>2 DEF Found
<1>4. QED
  BY <1>3 DEF Promise

LEMMA PromiseNext ==
  ASSUME TypeOK, others = 0 => Books, Promise, [Next]_vars
  PROVE  Promise'
<1>1. CASE Begin
  <2>1. CASE preview.known
    BY <1>1, <2>1, PromiseKept DEF Begin, Promise
  <2>2. CASE ~preview.known
    BY <1>1, <2>2 DEF Begin, Promise
  <2>3. QED
    BY <2>1, <2>2
<1>2. ASSUME NEW outcome, Finish(outcome), outcome = "ok" => NextRoot, pc # "idle"
      PROVE  Promise'
  <2>1. UNCHANGED <<worldVars, now, before>> /\ pc' = "idle"
    BY <1>2 DEF Finish
  <2>2. CASE preview' = Unknown
    BY <2>2 DEF Unknown, Promise
  <2>3. CASE preview' = preview /\ disk = before
    BY <2>1, <2>3, PromiseKept DEF worldVars
  <2>4. CASE /\ preview' = [known |-> TRUE, bytes |-> bytes] /\ outcome = "ok"
             /\ disk = before /\ others = 0 /\ clock = now
    <3>1. pc = "visit" /\ listing = {} /\ at = Len(Dirs)
      BY <1>2, <2>1, <2>4 DEF NextRoot
    <3>2. bytes = Cardinality(Found(ToDo))
      BY <2>4, <3>1, AllDone DEF Books
    <3>3. \A e \in Entries : (Eligible(e) /\ Configured(e))' <=> (Eligible(e) /\ Configured(e))
      BY <2>1 DEF Eligible, Configured, worldVars
    <3>4. ToDo' = ToDo
      BY <3>3 DEF ToDo
    <3>5. Found(ToDo)' = Found(ToDo)
      BY <2>1, <3>4 DEF Found
    <3>6. QED
      BY <2>1, <2>4, <3>2, <3>5 DEF Promise, worldVars
  <2>5. QED
    BY <1>2, <2>2, <2>3, <2>4 DEF Finish
<1>3. CASE Fail /\ pc # "idle"
  BY <1>2, <1>3 DEF Fail
<1>4. CASE Step /\ ~Fail /\ ~(NextRoot /\ Finish("ok"))
  <2>1. /\ pc' # "idle"
        /\ UNCHANGED <<preview, others, clock, external, now, before>>
    BY <1>4 DEF Step, ReadDir, Visit, Measure, RemoveFile, RemoveTree, Remove, Count, NextRoot,
                worldVars, history
  <2>2. QED
    BY <2>1, PromiseKept
<1>5. CASE NextRoot /\ Finish("ok")
  BY <1>2, <1>5 DEF NextRoot
<1>6. CASE World
  <2>1. preview' = Unknown
    BY <1>6 DEF World, Put, Save, Relocate, Tick, Rebook
  <2>2. QED
    BY <2>1 DEF Unknown, Promise
<1>7. CASE UNCHANGED vars
  <2>1. UNCHANGED <<preview, others, clock, external, now, before, pc, disk>>
    BY <1>7 DEF vars, worldVars, runVars, history
  <2>2. CASE preview.known
    BY <2>1, <2>2, PromiseKept DEF Promise
  <2>3. CASE ~preview.known
    BY <2>1, <2>3 DEF Promise
  <2>4. QED
    BY <2>2, <2>3
<1>8. Step => pc # "idle"
  BY DEF Step, ReadDir, Visit, Measure, RemoveFile, RemoveTree, Count, NextRoot
<1>9. QED
  BY <1>1, <1>3, <1>4, <1>5, <1>6, <1>7, <1>8 DEF Next

BooksInv == LedgerInv /\ GatesInv /\ (others = 0 => Books) /\ Promise

LEMMA BooksInductive ==
  ASSUME NotTwice, BooksInv, [Next]_vars
  PROVE  BooksInv'
<1>1. LedgerInv' /\ GatesInv'
  BY LedgerInductive, GatesInductive DEF BooksInv
<1>2. TypeOK /\ FilesFinite
  BY DEF BooksInv, GatesInv, TypeInv
<1>3. Promise'
  BY <1>2, PromiseNext DEF BooksInv
<1>4. ASSUME others' = 0 PROVE Books'
  <2>1. CASE pc' = "idle"
    BY <2>1 DEF Books
  <2>2. CASE Begin
    BY <2>2, BooksBegin
  <2>3. CASE Step /\ pc' # "idle"
    <3>1. others = 0
      BY <1>4, <2>3 DEF Step, ReadDir, Visit, Measure, RemoveFile, RemoveTree, Count, NextRoot,
                        Fail, Finish, Remove, worldVars
    <3>2. QED
      BY <1>2, <1>4, <2>3, <3>1, BooksStep DEF BooksInv, GatesInv
  <2>4. CASE (World \/ UNCHANGED vars) /\ pc' # "idle"
    <3>1. pc # "idle"
      BY <2>4 DEF World, Put, Save, Relocate, Tick, vars, runVars
    <3>2. others = 0
      BY <1>2, <1>4, <2>4, <3>1, Undisturbed DEF Next, Begin, vars, worldVars
    <3>3. UNCHANGED <<disk, external, runVars, before>>
      BY <1>2, <1>4, <2>4, <3>1, <3>2, AloneWorld DEF vars, worldVars, history
    <3>4. \A e \in Entries, i \in DOMAIN Dirs :
            (Eligible(e)' <=> Eligible(e)) /\ (Past(e, i)' <=> Past(e, i))
      BY <3>3 DEF Eligible, Past, runVars
    <3>5. Done' = Done
      BY <3>4 DEF Done
    <3>6. QED
      BY <3>1, <3>2, <3>3, <3>5, BooksKept DEF BooksInv, Books, runVars
  <2>5. QED
    BY <2>1, <2>2, <2>3, <2>4 DEF Next
<1>5. QED
  BY <1>1, <1>3, <1>4 DEF BooksInv

LEMMA PromiseHeld ==
  ASSUME BooksInv, [Next]_vars, pc = "visit", pc' = "idle", report'.outcome = "ok",
         ~dry, preview.known
  PROVE  freed = preview.bytes
<1>1. Finish("ok") /\ listing = {} /\ at = Len(Dirs)
  <2>1. NextRoot
    BY DEF Next, Step, World, Begin, Fail, Finish, ReadDir, Visit, Measure, RemoveFile,
           RemoveTree, Count, Put, Save, Relocate, Tick, vars, runVars
  <2>2. QED
    BY <2>1 DEF NextRoot
<1>2. TypeOK /\ others = 0 /\ Ledger /\ Books
  BY DEF BooksInv, LedgerInv, TypeInv, Promise
<1>3. freed = Cardinality(Found(Done))
  BY <1>2 DEF Ledger, Books
<1>4. QED
  BY <1>1, <1>2, <1>3, AllDone DEF BooksInv, Promise

(***************************************************************************)
(* If no directory is configured twice, a real run that follows a dry-run  *)
(* with nothing changed in between frees what the dry-run counted, where   *)
(* neither meets an error: both see the same entries through the same      *)
(* gates, for any number of directories, entries and files.                *)
(***************************************************************************)
THEOREM DryHonestHolds ==
  ASSUME NotTwice
  PROVE  Spec => DryHonest
<1>1. Init => BooksInv
  <2>1. Init => Ledger /\ ReportExact /\ Gates /\ Untouched /\ Books /\ Promise
    BY DEF Init, NoReport, Unknown, Ledger, ReportExact, Gates, Untouched, Books, Promise
  <2>2. QED
    BY <2>1, TypeInit DEF TypeInv, LedgerInv, GatesInv, BooksInv
<1>2. BooksInv /\ [Next]_vars => BooksInv'
  BY BooksInductive
<1>3. BooksInv /\ [Next]_vars =>
        [pc = "visit" /\ pc' = "idle" /\ report'.outcome = "ok" /\ ~dry /\ preview.known
           => freed = preview.bytes]_vars
  BY PromiseHeld
<1>4. QED
  BY <1>1, <1>2, <1>3, PTL DEF Spec, DryHonest

-----------------------------------------------------------------------------
(***************************************************************************)
(* The refinement.  A run is a cleaner's turn: what goes is what `freed`   *)
(* gains, and the ledger makes the report exact.                           *)
(***************************************************************************)
Removing == pc \in {"leaf", "tree"} => ~dry

LEMMA RemovingNext ==
  ASSUME Removing, [Next]_vars
  PROVE  Removing'
<1>1. CASE Begin \/ ReadDir \/ Visit \/ Count \/ NextRoot
  BY <1>1 DEF Begin, ReadDir, Visit, Count, NextRoot, Fail, Finish, Removing
<1>2. CASE Measure
  BY <1>2 DEF Measure, Removing
<1>3. CASE RemoveFile \/ RemoveTree
  BY <1>3 DEF RemoveFile, RemoveTree, Remove, Fail, Finish, Removing
<1>4. CASE World \/ UNCHANGED vars
  BY <1>4 DEF World, Put, Save, Relocate, Tick, runVars, vars, Removing
<1>5. QED
  BY <1>1, <1>2, <1>3, <1>4 DEF Next, Step

\* A removal takes something, or nothing where there was nothing.
LEMMA RemoveTakes ==
  ASSUME TypeInv, Removing, ~Fail, RemoveFile \/ RemoveTree
  PROVE  [Turn!Take]_(Turn!vars)
<1>1. pc \in {"leaf", "tree"} /\ ~dry /\ cur \in Entries
  BY DEF RemoveFile, RemoveTree, Removing, TypeInv, TypeOK, RunOK
<1>2. ASSUME NEW S, NEW what, Remove(S, what), IsFiniteSet(S), pc' # "idle"
      PROVE  [Turn!Take]_(Turn!vars)
  <2>1. Cardinality(S) \in Nat /\ freed \in Nat
    BY <1>2, FS_CardinalityType DEF TypeInv, TypeOK, TotalsOK
  <2>2. freed' = freed + Cardinality(S) /\ UNCHANGED <<dry, others, report>>
    BY <1>2 DEF Remove
  <2>3. CASE Cardinality(S) = 0
    BY <1>1, <1>2, <2>1, <2>2, <2>3 DEF Turn!vars, Working
  <2>4. CASE Cardinality(S) # 0
    BY <1>1, <1>2, <2>1, <2>2, <2>4 DEF Turn!Take, Working
  <2>5. QED
    BY <2>3, <2>4
<1>3. IsFiniteSet(disk[cur].files) /\ IsFiniteSet({})
  BY <1>1, FS_EmptySet DEF TypeInv, FilesFinite
<1>4. CASE RemoveFile
  BY <1>2, <1>3, <1>4 DEF RemoveFile
<1>5. CASE RemoveTree
  <2>1. \A f \in disk[cur].files : IsFiniteSet({f})
    BY FS_Singleton
  <2>2. QED
    BY <1>1, <1>2, <1>3, <1>5, <2>1 DEF RemoveTree
<1>6. QED
  BY <1>4, <1>5

LEMMA TurnNext ==
  ASSUME LedgerInv, Removing, [Next]_vars
  PROVE  [Turn!Next]_(Turn!vars)
<1>0. bytes \in Nat /\ freed \in Nat /\ others \in Nat
  BY DEF LedgerInv, TypeInv, TypeOK, TotalsOK, DiskOK
<1>1. CASE Begin
  <2>1. /\ ~Working /\ Working' /\ others' = 0 /\ freed' = 0 /\ dry' \in BOOLEAN
        /\ report'.outcome = "none" /\ report'.bytes = 0
    BY <1>1 DEF Begin, Working, NoReport
  <2>2. QED
    BY <2>1 DEF Turn!Next, Turn!Begin, Turn!Resting, Turn!NoReport
<1>2. ASSUME NEW outcome \in {"ok", "error"}, Finish(outcome), Working,
             outcome = "ok" /\ ~dry /\ others = 0 => freed = bytes
      PROVE  [Turn!Next]_(Turn!vars)
  <2>1. /\ ~Working' /\ report'.outcome = outcome
        /\ report'.bytes = IF outcome = "ok" THEN bytes ELSE 0
    BY <1>2 DEF Finish, Working
  <2>2. Turn!End
    BY <1>0, <1>2, <2>1 DEF Turn!End, Turn!Resting, Turn!Failure, Turn!Success
  <2>3. QED
    BY <2>2 DEF Turn!Next
<1>3. CASE Fail /\ Working
  BY <1>2, <1>3 DEF Fail
<1>4. CASE (ReadDir \/ Visit) /\ ~Fail
  BY <1>4 DEF ReadDir, Visit, worldVars, history, Working, Turn!vars
<1>5. CASE Measure \/ Count
  BY <1>5 DEF Measure, Count, worldVars, history, Working, Turn!vars
<1>6. CASE (RemoveFile \/ RemoveTree) /\ ~Fail
  BY <1>6, RemoveTakes DEF LedgerInv, Turn!Next
<1>7. CASE NextRoot
  <2>1. CASE Finish("ok")
    BY <1>2, <1>7, <2>1 DEF NextRoot, LedgerInv, Ledger, Working
  <2>2. CASE ~Finish("ok")
    BY <1>7, <2>2 DEF NextRoot, worldVars, history, Working, Turn!vars
  <2>3. QED
    BY <2>1, <2>2
<1>8. CASE World /\ pc = "idle"
  <2>1. ~Working /\ ~Working' /\ report'.outcome = "none" /\ report'.bytes = 0
    BY <1>8 DEF World, Put, Save, Relocate, Tick, Rebook, runVars, Working, NoReport
  <2>2. QED
    BY <2>1 DEF Turn!Next, Turn!Rest, Turn!Resting, Turn!NoReport
<1>9. CASE World /\ pc # "idle"
  <2>1. Working /\ Working' /\ UNCHANGED <<dry, freed, report>>
    BY <1>9 DEF World, Put, Save, Relocate, Tick, Rebook, runVars, Working
  <2>2. others' = others \/ others' = others + 1
    BY <1>9 DEF World, Put, Save, Relocate, Tick, Free
  <2>3. CASE others' = others
    BY <2>1, <2>3 DEF Turn!vars
  <2>4. CASE others' = others + 1
    BY <1>0, <2>1, <2>4 DEF Turn!Next, Turn!Disturb
  <2>5. QED
    BY <2>2, <2>3, <2>4
<1>10. CASE UNCHANGED vars
  BY <1>10 DEF vars, worldVars, runVars, history, Working, Turn!vars
<1>11. Step => Working
  BY DEF Step, ReadDir, Visit, Measure, RemoveFile, RemoveTree, Count, NextRoot, Working
<1>12. QED
  BY <1>1, <1>3, <1>4, <1>5, <1>6, <1>7, <1>8, <1>9, <1>10, <1>11 DEF Next, Step

(***************************************************************************)
(* For any directories, entries, ages and interference, a run implements   *)
(* the turn that the rest of the program takes it for (CleanerTurn).       *)
(***************************************************************************)
THEOREM TurnRefined == Spec => TurnSpec
<1>1. Init => LedgerInv /\ Removing /\ Turn!Init
  <2>1. Init => Ledger /\ ReportExact /\ Removing
    BY DEF Init, NoReport, Ledger, ReportExact, Removing
  <2>2. Init => Turn!Init
    BY DEF Init, NoReport, Working, Turn!Init, Turn!Resting, Turn!NoReport
  <2>3. QED
    BY <2>1, <2>2, TypeInit DEF TypeInv, LedgerInv
<1>2. LedgerInv /\ Removing /\ [Next]_vars => (LedgerInv /\ Removing)'
  BY LedgerInductive, RemovingNext
<1>3. LedgerInv /\ Removing /\ [Next]_vars => [Turn!Next]_(Turn!vars)
  BY TurnNext
<1>4. QED
  BY <1>1, <1>2, <1>3, PTL DEF Spec, TurnSpec, Turn!Spec
=============================================================================
