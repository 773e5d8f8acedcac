----------------------------- MODULE SafetyPaths ----------------------------
(***************************************************************************)
(* The gates on a path (daemon/src/safety.rs) over what stands between its *)
(* slashes, and the file system's own resolution of it, which follows      *)
(* symbolic links before it goes up a "..".                                *)
(***************************************************************************)
EXTENDS SequencesExt

\* Where macOS mounts external volumes.
VolumesRoot == <<"Volumes">>

Parent(p) == IF p = <<>> THEN p ELSE Front(p)

\* One more component; the root is its own parent.
Into(p, c) ==
    CASE c = ".." -> Parent(p)
      [] c \in {"", "."} -> p
      [] OTHER -> Append(p, c)

\* normalize_lexical of an absolute path.
NormalizeLexical(p) ==
    LET out[i \in 0..Len(p)] == IF i = 0 THEN <<>> ELSE Into(out[i - 1], p[i])
    IN  out[Len(p)]

\* The same where links says which locations are symbolic links and where each
\* of them leads.
Follow(p, c, links) ==
    IF c \notin {"..", "", "."} /\ Append(p, c) \in DOMAIN links
      THEN links[Append(p, c)]
      ELSE Into(p, c)

\* What canonicalize makes of a path.
Canonicalize(p, links) ==
    LET out[i \in 0..Len(p)] == IF i = 0 THEN <<>> ELSE Follow(out[i - 1], p[i], links)
    IN  out[Len(p)]

IsWithinAllowedRoot(path, root) ==
    /\ IsPrefix(NormalizeLexical(root), NormalizeLexical(path))
    /\ ~IsPrefix(VolumesRoot, NormalizeLexical(path))

\* A path that cannot be canonicalized is judged by its text.
IsKeptData(path, links, readable) ==
    \/ readable /\ IsPrefix(VolumesRoot, Canonicalize(path, links))
    \/ IsPrefix(VolumesRoot, NormalizeLexical(path))

\* A directory of the configuration: "~" and "~/..." under home, and "~//..."
\* is absolute again, because a join with an absolute path replaces.
ExpandHome(spec, home) ==
    IF spec # <<>> /\ Head(spec) = "~"
      THEN IF Len(spec) > 2 /\ spec[2] = "" THEN SubSeq(spec, 3, Len(spec)) ELSE home \o Tail(spec)
      ELSE spec

=============================================================================
