------------------------------ MODULE MCPrune ------------------------------
(* Up to two entries in one root and one in another; an age gate of a day. *)
EXTENDS Prune, TLC

CONSTANTS e1, e2, e3, r1, r2

InRoots == [e \in Entries |-> IF e = e3 THEN r2 ELSE r1]
TwoRoots == <<r1, r2>>

OldLeaf    == [mtime |-> 0, locked |-> FALSE]
NewLeaf    == [mtime |-> 2, locked |-> FALSE]
LockedLeaf == [mtime |-> 0, locked |-> TRUE]

AFile(f) == [kind |-> "file", mtime |-> f.mtime, files |-> {f}]
ADir(m, S) == [kind |-> "dir", mtime |-> m, files |-> S]
ALink == [kind |-> "link", mtime |-> 0, files |-> {}]

\* What is never in the way of a run.
Plain == {AFile(OldLeaf), AFile(NewLeaf), ALink, ADir(0, {OldLeaf, NewLeaf}), ADir(1, {})}
WithLocks == {AFile(OldLeaf), AFile(LockedLeaf), ALink, ADir(0, {OldLeaf, LockedLeaf}),
              ADir(0, {OldLeaf, NewLeaf})}
\* A file that goes, a link, and directories that go in part or hide a fresh file.
Mixed == WithLocks \ {AFile(LockedLeaf)}

\* The entries of the first root are interchangeable unless one is excluded.
Symmetry == Permutations({e1, e2})

-----------------------------------------------------------------------------
(***************************************************************************)
(* What stands behind RootOf[e] \notin external: for every entry below a   *)
(* configured root the two gates of safety.rs ask one thing, whether the   *)
(* root is on an external volume by its text or where its links lead.  And *)
(* a path without links is let through exactly if it lies in its root as   *)
(* the file system sees both, whatever ".." they hold.                     *)
(***************************************************************************)
Paths == INSTANCE SafetyPaths

PathsUpTo(n) == UNION {[1..k -> {"Volumes", "home", "..", "."}] : k \in 0..n}

\* No link, one from the home to a volume, one back, one within the home.
LinkMaps == {<<>>, <<"home">> :> <<"Volumes", "x">>, <<"Volumes", "home">> :> <<>>,
             <<"home", "home">> :> <<"Volumes">>}

OnVolume(p) == Paths!IsPrefix(Paths!VolumesRoot, p)

ASSUME \A root \in PathsUpTo(4), links \in LinkMaps :
    LET entry == Append(root, "entry")
    IN  (Paths!IsKeptData(entry, links, TRUE) \/ ~Paths!IsWithinAllowedRoot(entry, root))
            <=> (OnVolume(Paths!NormalizeLexical(root)) \/ OnVolume(Paths!Canonicalize(root, links)))

ASSUME \A path \in PathsUpTo(4), root \in PathsUpTo(2) :
    Paths!IsWithinAllowedRoot(path, root)
        <=> /\ Paths!IsPrefix(Paths!Canonicalize(root, <<>>), Paths!Canonicalize(path, <<>>))
            /\ ~Paths!IsKeptData(path, <<>>, TRUE)

\* A directory of the configuration stays below home if it is written "~/..."
\* without "..", and wherever it lies its entries are allowed or on a volume.
ASSUME \A rest \in UNION {[1..k -> {"x", "", "Volumes"}] : k \in 0..3} :
    LET home == <<"home">>
        root == Paths!ExpandHome(<<"~">> \o rest, home)
        real == Paths!NormalizeLexical(root)
    IN  /\ Paths!IsPrefix(home, real) <=> (Len(rest) < 2 \/ Head(rest) # "")
        /\ Paths!IsWithinAllowedRoot(Append(root, "entry"), root) <=> ~OnVolume(real)
=============================================================================
