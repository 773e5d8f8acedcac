------------------------------- MODULE Prune -------------------------------
(***************************************************************************)
(* The age-gated directory cleaner (AgeDirCleaner::run over                *)
(* prune_dir_by_age, daemon/src/cleaners/mod.rs): run after run it lists   *)
(* each of its roots, looks at every entry, measures the old ones and      *)
(* removes them, while the user and other programs use the same            *)
(* directories.  Time is counted in days.                                  *)
(*                                                                         *)
(* A directory that is removed loses its files one by one: remove_dir_all  *)
(* stops at the first it cannot remove and leaves the rest.                *)
(***************************************************************************)
EXTENDS Naturals, Sequences, FiniteSets

CONSTANTS
    Entries,       \* paths of the top-level entries, present or not
    Roots,         \* directories
    RootOf,        \* the directory an entry is in
    Dirs,          \* AgeDirCleaner.roots
    Excluded,      \* entries whose names start with an exclude prefix
    Unreadable,    \* roots that read_dir may be denied
    Age,           \* AgeDirCleaner.age_days
    Samples,       \* what other programs leave in a directory
    Meddle,        \* what they do to it during a run
    MaxOthers,     \* bound on how often in a run
    MaxClock,      \* bound on time
    NoEntry        \* no entry is being handled

VARIABLES
    clock,         \* days
    others,        \* what other programs have done during the run
    disk,          \* what is at each path
    external,      \* roots that are symlinks into /Volumes
    pc,            \* "idle", "root", "visit", "size", "leaf", "tree" or "count"
    dry,           \* Ctx.dry_run
    now,           \* Ctx.now
    at,            \* position in Dirs
    listing,       \* entries read_dir has still to return
    cur,           \* the entry being handled, or NoEntry
    isDir,         \* meta.is_dir() of cur, as looked at
    size,          \* dir_size of cur
    bytes,         \* totals of the run
    items,
    report,        \* CleanReport of the last run
    freed,         \* history: files the run has removed
    lost,          \* history: their times, and were they on /Volumes
    before,        \* history: the disk when the run began
    preview        \* history: what a dry-run counted, if nothing changed since

worldVars == <<clock, others, disk, external>>
runVars   == <<pc, dry, now, at, listing, cur, isDir, size, bytes, items>>
history   == <<freed, lost, before, preview>>

vars == <<worldVars, runVars, report, history>>

Kinds  == {"none", "file", "dir", "link"}
File   == [mtime : Nat, locked : BOOLEAN]
Entry  == [kind : Kinds, mtime : Nat, files : SUBSET File]
Absent == [kind |-> "none", mtime |-> 0, files |-> {}]

\* A file's entry holds just that file, a link's none.
ASSUME RootAssumption == RootOf \in [Entries -> Roots] /\ Dirs \in Seq(Roots) /\ Dirs # <<>>
ASSUME SetAssumption == Excluded \subseteq Entries /\ Unreadable \subseteq Roots
ASSUME SampleAssumption == Samples \subseteq Entry /\ \A s \in Samples : IsFiniteSet(s.files)
ASSUME NumberAssumption == Age \in Nat /\ MaxClock \in Nat /\ MaxOthers \in Nat
ASSUME EntryAssumption == NoEntry \notin Entries
ASSUME MeddleAssumption == Meddle \subseteq {"put", "save", "relocate"}

Unknown == [known |-> FALSE, bytes |-> 0]
NoReport == [outcome |-> "none", dry |-> FALSE, bytes |-> 0, items |-> 0]

DiskOK ==
    /\ clock \in Nat /\ others \in Nat
    /\ disk \in [Entries -> Entry] /\ before \in [Entries -> Entry]
    /\ external \subseteq Roots

RunOK ==
    /\ pc \in {"idle", "root", "visit", "size", "leaf", "tree", "count"}
    /\ dry \in BOOLEAN /\ isDir \in BOOLEAN
    /\ at \in DOMAIN Dirs
    /\ listing \subseteq Entries /\ cur \in Entries \cup {NoEntry}
    /\ pc \in {"size", "leaf", "tree", "count"} => cur \in listing

TotalsOK ==
    /\ now \in Nat /\ size \in Nat /\ bytes \in Nat /\ items \in Nat /\ freed \in Nat
    /\ lost \subseteq [mtime : Nat, kept : BOOLEAN]
    /\ report \in [outcome : {"none", "ok", "error"}, dry : BOOLEAN, bytes : Nat, items : Nat]
    /\ preview \in [known : BOOLEAN, bytes : Nat]

TypeOK == DiskOK /\ RunOK /\ TotalsOK

Init ==
    /\ clock = 0 /\ others = 0 /\ external = {}
    /\ disk \in [Entries -> Samples \cup {Absent}]
    /\ pc = "idle" /\ dry = FALSE /\ now = 0 /\ at = 1
    /\ listing = {} /\ cur = NoEntry /\ isDir = FALSE
    /\ size = 0 /\ bytes = 0 /\ items = 0
    /\ report = NoReport
    /\ freed = 0 /\ lost = {} /\ before = disk /\ preview = Unknown

-----------------------------------------------------------------------------
(* One run *)

\* Variant: an entry is old only past the whole window.
Old_OffByOne(mtime) == now > mtime /\ now - mtime > Age

\* older_than: a time in the future is not old.
Old(mtime) == now >= mtime /\ now - mtime >= Age

\* Variant: the totals are not set to zero.
Begin_KeepsTotals ==
    /\ pc = "idle"
    /\ pc' = "root"
    /\ dry' \in BOOLEAN
    /\ now' = clock
    /\ at' = 1
    /\ freed' = 0 /\ lost' = {} /\ before' = disk
    /\ report' = NoReport
    /\ others' = 0
    /\ UNCHANGED <<clock, disk, external, listing, cur, isDir, size, bytes, items, preview>>

Begin ==
    /\ pc = "idle"
    /\ pc' = "root"
    /\ dry' \in BOOLEAN
    /\ now' = clock
    /\ at' = 1
    /\ bytes' = 0 /\ items' = 0
    /\ freed' = 0 /\ lost' = {} /\ before' = disk
    /\ report' = NoReport
    /\ others' = 0
    /\ UNCHANGED <<clock, disk, external, listing, cur, isDir, size, preview>>

\* Variant: what was counted before an error is reported with it.
Finish_KeepsTotals(outcome) ==
    /\ pc' = "idle"
    /\ report' = [outcome |-> outcome, dry |-> dry, bytes |-> bytes, items |-> items]
    /\ listing' = {} /\ cur' = NoEntry /\ isDir' = FALSE /\ size' = 0
    /\ preview' = Unknown
    /\ UNCHANGED <<worldVars, dry, now, bytes, items, freed, lost, before>>

\* The run is over: run's match on the result of prune_dir_by_age.
Finish(outcome) ==
    /\ pc' = "idle"
    /\ report' = [outcome |-> outcome, dry |-> dry,
                  bytes |-> IF outcome = "ok" THEN bytes ELSE 0,
                  items |-> IF outcome = "ok" THEN items ELSE 0]
    /\ listing' = {} /\ cur' = NoEntry /\ isDir' = FALSE /\ size' = 0
    /\ preview' = IF disk # before \/ others # 0 \/ clock # now THEN Unknown
                  ELSE IF dry /\ outcome = "ok" THEN [known |-> TRUE, bytes |-> bytes]
                  ELSE preview
    /\ UNCHANGED <<worldVars, dry, now, bytes, items, freed, lost, before>>

\* An I/O error leaves both loops.
Fail ==
    /\ Finish("error")
    /\ UNCHANGED at

\* A root that is not there has no entries.
ReadDir ==
    /\ pc = "root"
    /\ \/ Dirs[at] \in Unreadable /\ Fail
       \/ /\ pc' = "visit"
          /\ listing' = {e \in Entries : RootOf[e] = Dirs[at] /\ disk[e].kind # "none"}
          /\ UNCHANGED <<worldVars, dry, now, at, cur, isDir, size, bytes, items, report,
                         history>>

\* Variant: kept data is not looked for.
Passes_KeptData(e) ==
    /\ disk[e].kind # "link"
    /\ e \notin Excluded
    /\ Old(disk[e].mtime)

\* Symlink, kept data and allowlist, exclude prefixes, age.
Passes(e) ==
    /\ disk[e].kind # "link"
    /\ RootOf[e] \notin external
    /\ e \notin Excluded
    /\ Old(disk[e].mtime)

\* `continue`
Skip(e) == listing' = listing \ {e}

\* One turn of the loop up to the age gate; the entry may be gone since ReadDir.
Visit ==
    /\ pc = "visit"
    /\ \E e \in listing :
         \/ disk[e].kind = "none" /\ Fail
         \/ /\ disk[e].kind # "none"
            /\ ~Passes(e)
            /\ Skip(e)
            /\ UNCHANGED <<pc, cur, isDir, worldVars, dry, now, at, size, bytes, items,
                           report, history>>
         \/ /\ disk[e].kind # "none"
            /\ Passes(e)
            /\ pc' = "size"
            /\ cur' = e
            /\ isDir' = (disk[e].kind = "dir")
            /\ UNCHANGED <<listing, worldVars, dry, now, at, size, bytes, items, report,
                           history>>

\* Variant: what counts is what is left afterwards.
Measure_After ==
    /\ pc = "size"
    /\ size' = IF dry THEN Cardinality(disk[cur].files) ELSE 0
    /\ pc' = IF dry THEN "count" ELSE IF isDir THEN "tree" ELSE "leaf"
    /\ UNCHANGED <<worldVars, dry, now, at, listing, cur, isDir, bytes, items, report,
                   history>>

\* Variant: a directory is removed in a dry-run too.
Measure_AlwaysTree ==
    /\ pc = "size"
    /\ size' = Cardinality(disk[cur].files)
    /\ pc' = IF isDir THEN "tree" ELSE IF dry THEN "count" ELSE "leaf"
    /\ UNCHANGED <<worldVars, dry, now, at, listing, cur, isDir, bytes, items, report,
                   history>>

\* dir_size, then on to the removal unless this is a dry-run.
Measure ==
    /\ pc = "size"
    /\ size' = Cardinality(disk[cur].files)
    /\ pc' = IF dry THEN "count" ELSE IF isDir THEN "tree" ELSE "leaf"
    /\ UNCHANGED <<worldVars, dry, now, at, listing, cur, isDir, bytes, items, report,
                   history>>

\* The files in S go, and the entry becomes what.
Remove(S, what) ==
    /\ disk' = [disk EXCEPT ![cur] = what]
    /\ freed' = freed + Cardinality(S)
    /\ lost' = lost \cup {[mtime |-> f.mtime, kept |-> RootOf[cur] \in external] : f \in S}
    /\ UNCHANGED <<clock, others, external, dry, now, at, listing, cur, isDir, size, bytes, items,
                   report, before, preview>>

Locked(S) == \E f \in S : f.locked

\* remove_file: unlinks a link, refuses a directory.
RemoveFile ==
    /\ pc = "leaf"
    /\ LET entry == disk[cur] IN
         \/ /\ entry.kind \in {"file", "link"}
            /\ ~Locked(entry.files)
            /\ pc' = "count"
            /\ Remove(entry.files, Absent)
         \/ (entry.kind \in {"none", "dir"} \/ Locked(entry.files)) /\ Fail

\* remove_dir_all: unlinks a link, refuses a file, otherwise removes file by
\* file; a file added behind its back keeps the directory from going.
RemoveTree ==
    /\ pc = "tree"
    /\ LET entry == disk[cur] IN
         \/ entry.kind \in {"none", "file"} /\ Fail
         \/ /\ entry.kind = "link" \/ (entry.kind = "dir" /\ entry.files = {})
            /\ pc' = "count"
            /\ Remove({}, Absent)
         \/ /\ entry.kind = "dir"
            /\ \E f \in entry.files :
                 /\ ~f.locked
                 /\ Remove({f}, [entry EXCEPT !.files = @ \ {f}, !.mtime = clock])
            /\ pc' = pc
         \/ /\ entry.kind = "dir"
            /\ Locked(entry.files) \/ ("save" \in Meddle /\ entry.files # {})
            /\ Fail

Count ==
    /\ pc = "count"
    /\ pc' = "visit"
    /\ bytes' = bytes + size
    /\ items' = items + 1
    /\ listing' = listing \ {cur}
    /\ cur' = NoEntry /\ isDir' = FALSE /\ size' = 0
    /\ UNCHANGED <<worldVars, dry, now, at, report, history>>

\* Variant: one root too many.
NextRoot_OffByOne ==
    /\ pc = "visit" /\ listing = {}
    /\ \/ /\ at <= Len(Dirs)
          /\ at' = at + 1
          /\ pc' = "root"
          /\ UNCHANGED <<worldVars, dry, now, listing, cur, isDir, size, bytes, items,
                         report, history>>
       \/ at > Len(Dirs) /\ Finish("ok") /\ UNCHANGED at

\* The listing is exhausted.
NextRoot ==
    /\ pc = "visit" /\ listing = {}
    /\ \/ /\ at < Len(Dirs)
          /\ at' = at + 1
          /\ pc' = "root"
          /\ UNCHANGED <<worldVars, dry, now, listing, cur, isDir, size, bytes, items,
                         report, history>>
       \/ at = Len(Dirs) /\ Finish("ok") /\ UNCHANGED at

Step == ReadDir \/ Visit \/ Measure \/ RemoveFile \/ RemoveTree \/ Count \/ NextRoot

-----------------------------------------------------------------------------
(* The user and other programs *)

Free(what) ==
    \/ pc = "idle" /\ others' = 0
    \/ pc # "idle" /\ what \in Meddle /\ others < MaxOthers /\ others' = others + 1

\* Between runs every change starts the books afresh.
Rebook ==
    /\ before' = IF pc = "idle" THEN disk' ELSE before
    /\ preview' = Unknown
    /\ report' = IF pc = "idle" THEN NoReport ELSE report
    /\ freed' = IF pc = "idle" THEN 0 ELSE freed
    /\ lost' = IF pc = "idle" THEN {} ELSE lost

\* Create, replace, move in or delete an entry.
Put ==
    /\ Free("put")
    /\ \E e \in Entries, s \in Samples \cup {Absent} :
         disk[e] # s /\ disk' = [disk EXCEPT ![e] = s]
    /\ Rebook
    /\ UNCHANGED <<clock, external, runVars>>

\* Write a file below a directory, which does not change the directory's time.
Save ==
    /\ Free("save")
    /\ \E e \in Entries :
         LET file == [mtime |-> clock, locked |-> FALSE] IN
         /\ disk[e].kind = "dir" /\ file \notin disk[e].files
         /\ disk' = [disk EXCEPT ![e].files = @ \cup {file}]
    /\ Rebook
    /\ UNCHANGED <<clock, external, runVars>>

\* Move a root to an external volume and leave a symlink.
Relocate ==
    /\ Free("relocate")
    /\ \E r \in Roots \ external : external' = external \cup {r}
    /\ disk' = disk
    /\ Rebook
    /\ UNCHANGED <<clock, runVars>>

Tick ==
    /\ clock < MaxClock
    /\ clock' = clock + 1
    /\ others' = IF pc = "idle" THEN 0 ELSE others
    /\ disk' = disk
    /\ Rebook
    /\ UNCHANGED <<external, runVars>>

World == Put \/ Save \/ Relocate \/ Tick

Next == Begin \/ Step \/ World

Spec == Init /\ [][Next]_vars

-----------------------------------------------------------------------------
(***************************************************************************)
(* Nothing on an external volume is removed, whatever happens to an entry  *)
(* between the look at it and its removal ("the relocated caches on the    *)
(* external drive can never be deleted", daemon/spec.md, safety model 2).  *)
(***************************************************************************)
KeptNeverLost == \A f \in lost : ~f.kept

Configured(e) == \E i \in DOMAIN Dirs : Dirs[i] = RootOf[e]

\* May the entry be removed by a run that began with it so?
Eligible(e) ==
    /\ before[e].kind \in {"file", "dir"}
    /\ e \notin Excluded /\ RootOf[e] \notin external
    /\ before[e].mtime + Age <= now

(***************************************************************************)
(* A run nobody disturbs removes, in part or whole, only what was old when *)
(* it began, in its own roots, not excluded and no symlink; a dry-run      *)
(* changes nothing (prune_dir_by_age's gates).                             *)
(***************************************************************************)
Untouched ==
    others = 0 =>
      \A e \in Entries :
        disk[e] # before[e] => ~dry /\ Eligible(e) /\ Configured(e)

(***************************************************************************)
(* The bytes of a cleaner's report are those its run removed, as far as it *)
(* came to its end (AgeDirCleaner::run).                                   *)
(***************************************************************************)
ReportExact ==
    others = 0 /\ report.outcome = "ok" /\ ~report.dry => report.bytes = freed

(***************************************************************************)
(* A run that reports no error has left nothing behind that it could have  *)
(* removed.                                                                *)
(***************************************************************************)
NothingLeft ==
    others = 0 /\ report.outcome = "ok" /\ ~report.dry =>
      \A e \in Entries :
        Eligible(e) /\ Configured(e) => disk[e] = Absent

(***************************************************************************)
(* A real run that follows a dry-run, with nothing changed in between,     *)
(* frees what the dry-run counted (daemon/spec.md, safety model 5), if     *)
(* neither meets an error.                                                 *)
(***************************************************************************)
DryHonest ==
    [][pc = "visit" /\ pc' = "idle" /\ report'.outcome = "ok" /\ ~dry /\ preview.known
         => freed = preview.bytes]_vars

(***************************************************************************)
(* "Files modified within the window are never touched" (daemon/spec.md,   *)
(* safety model 4).                                                        *)
(***************************************************************************)
FreshKept == \A f \in lost : f.mtime + Age <= now

(***************************************************************************)
(* A locked entry is left out and the others are removed all the same      *)
(* ("Apple-owned / locked entries excluded", daemon/spec.md, sweep tier).  *)
(***************************************************************************)
LockedExcluded ==
    report.outcome # "none" /\ ~report.dry =>
      \A e \in Entries :
        /\ Eligible(e) /\ ~Locked(before[e].files)
        /\ Configured(e) /\ RootOf[e] \notin Unreadable
        => disk[e] = Absent

(***************************************************************************)
(* Whatever happens to the directories, a run is a cleaner's turn as the   *)
(* run around it sees it (CleanerTurn): a dry-run takes nothing, and the   *)
(* report, given once and at the end, is exact where nobody else wrote.    *)
(***************************************************************************)
Working == pc # "idle"

Turn == INSTANCE CleanerTurn WITH
          working <- Working,
          real    <- Working /\ ~dry,
          exact   <- others = 0,
          taken   <- IF Working THEN freed ELSE 0,
          told    <- [outcome |-> report.outcome, bytes |-> report.bytes]

TurnSpec == Turn!Spec
=============================================================================
