----------------------------- MODULE DataProofs -----------------------------
(***************************************************************************)
(* What the pure functions of the models compute, for inputs of any size.  *)
(* The induction is on a set: the natural numbers a statement fails for    *)
(* have a least one, if there are any.                                     *)
(***************************************************************************)
EXTENDS SafetyPaths, Config, CleanerSet, SequenceTheorems, WellFoundedInduction, TLAPS

\* A set that holds zero and the successor of each of its numbers holds all.
LEMMA Induct ==
  ASSUME NEW S, 0 \in S, \A n \in Nat : n \in S => n + 1 \in S
  PROVE  \A n \in Nat : n \in S
<1> DEFINE T == Nat \ S
           R == OpToRel(<, Nat)
<1>1. IsWellFoundedOn(R, Nat)
  BY NatLessThanWellFounded, Zenon
<1>2. \A x, y \in Nat : x < y => <<x, y>> \in R
  BY Zenon DEF OpToRel
<1> HIDE DEF R
<1> SUFFICES ASSUME T # {} PROVE FALSE
  OBVIOUS
<1>3. PICK x \in T : \A y \in T : ~(<<y, x>> \in R)
  BY <1>1, WFMin
<1>4. x \in Nat /\ x - 1 \in Nat /\ x - 1 < x /\ (x - 1) + 1 = x
  OBVIOUS
<1>5. x - 1 \in S
  BY <1>2, <1>3, <1>4
<1> QED
  BY <1>4, <1>5

\* The same for sequences, which grow at their end.
LEMMA InductSeq ==
  ASSUME NEW C, NEW S, <<>> \in S,
         \A p \in Seq(C), c \in C : p \in S => Append(p, c) \in S
  PROVE  \A p \in Seq(C) : p \in S
<1> DEFINE N == {n \in Nat : \A p \in Seq(C) : Len(p) = n => p \in S}
<1>1. 0 \in N
  <2> SUFFICES ASSUME NEW p \in Seq(C), Len(p) = 0 PROVE p \in S
    OBVIOUS
  <2>1. p = <<>>
    BY EmptySeq
  <2> QED
    BY <2>1
<1>2. ASSUME NEW n \in Nat, n \in N PROVE n + 1 \in N
  <2> SUFFICES ASSUME NEW p \in Seq(C), Len(p) = n + 1 PROVE p \in S
    OBVIOUS
  <2>1. p # <<>>
    BY EmptySeq
  <2>2. PICK q \in Seq(C), c \in C : p = Append(q, c)
    BY <2>1, SequenceEmptyOrAppend
  <2>3. Len(q) = n
    BY <2>2, AppendProperties, LenProperties
  <2>4. q \in S
    BY <1>2, <2>3
  <2> QED
    BY <2>2, <2>4
<1> HIDE DEF N
<1>3. \A n \in Nat : n \in N
  BY <1>1, <1>2, Induct
<1> QED
  BY <1>3, LenProperties DEF N

-----------------------------------------------------------------------------
(***************************************************************************)
(* normalize_lexical and canonicalize go through a path from left to right *)
(***************************************************************************)

\* The two have one shape: Follow without links is Into.
LEMMA FollowNothing ==
  ASSUME NEW p, NEW c
  PROVE  Follow(p, c, <<>>) = Into(p, c)
BY DEF Follow

\* What is left after each component, if there is such a function.
Walks(out, p, n, links) ==
  out = [i \in 0..n |-> IF i = 0 THEN <<>> ELSE Follow(out[i - 1], p[i], links)]

LEMMA WalkExists ==
  ASSUME NEW p, NEW links
  PROVE  \A n \in Nat : \E out : Walks(out, p, n, links)
<1> DEFINE S == {n \in Nat : \E out : Walks(out, p, n, links)}
<1>1. 0 \in S
  <2> DEFINE f == [i \in 0..0 |-> <<>>]
  <2>1. Walks(f, p, 0, links)
    BY DEF Walks
  <2> QED
    BY <2>1
<1>2. ASSUME NEW n \in Nat, n \in S PROVE n + 1 \in S
  <2>1. PICK f : Walks(f, p, n, links)
    BY <1>2
  <2> DEFINE g == [i \in 0..(n + 1) |-> IF i = n + 1 THEN Follow(f[n], p[n + 1], links) ELSE f[i]]
  <2>2. \A i \in 0..n : g[i] = f[i]
    OBVIOUS
  <2>3. \A i \in 0..n : f[i] = IF i = 0 THEN <<>> ELSE Follow(f[i - 1], p[i], links)
    BY <2>1 DEF Walks
  <2>4. ASSUME NEW i \in 0..(n + 1)
        PROVE  g[i] = IF i = 0 THEN <<>> ELSE Follow(g[i - 1], p[i], links)
    <3>1. CASE i = n + 1
      BY <3>1, <2>2
    <3>2. CASE i \in 0..n
      <4>1. i # 0 => i - 1 \in 0..n
        BY <3>2
      <4> HIDE DEF g
      <4>2. i # 0 => g[i - 1] = f[i - 1]
        BY <4>1, <2>2
      <4> QED
        BY <3>2, <2>2, <2>3, <4>2
    <3> QED
      BY <3>1, <3>2
  <2>5. g = [i \in 0..(n + 1) |-> g[i]]
    OBVIOUS
  <2> HIDE DEF g
  <2>6. Walks(g, p, n + 1, links)
    BY <2>4, <2>5 DEF Walks
  <2> QED
    BY <2>6
<1> HIDE DEF S
<1>3. \A n \in Nat : n \in S
  BY <1>1, <1>2, Induct
<1> QED
  BY <1>3 DEF S

Agree(p, q, k) == \A i \in 1..k : p[i] = q[i]

\* Two of them agree as far as the paths do.
LEMMA WalkUnique ==
  ASSUME NEW p, NEW q, NEW links, NEW m \in Nat, NEW n \in Nat, NEW f, NEW g,
         Walks(f, p, m, links), Walks(g, q, n, links),
         NEW k \in Nat, k <= m, k <= n, Agree(p, q, k)
  PROVE  f[k] = g[k]
<1> DEFINE S == {i \in Nat : i <= k => f[i] = g[i]}
<1>1. 0 \in S
  BY DEF Walks
<1>2. ASSUME NEW i \in Nat, i \in S PROVE i + 1 \in S
  <2> SUFFICES ASSUME i + 1 <= k PROVE f[i + 1] = g[i + 1]
    OBVIOUS
  <2>1. i \in 0..m /\ i + 1 \in 0..m /\ i \in 0..n /\ i + 1 \in 0..n /\ i + 1 \in 1..k
    OBVIOUS
  <2>2. f[i] = g[i]
    BY <1>2
  <2>3. f[i + 1] = Follow(f[(i + 1) - 1], p[i + 1], links)
    BY <2>1 DEF Walks
  <2>4. g[i + 1] = Follow(g[(i + 1) - 1], q[i + 1], links)
    BY <2>1 DEF Walks
  <2>5. (i + 1) - 1 = i
    OBVIOUS
  <2> QED
    BY <2>1, <2>2, <2>3, <2>4, <2>5 DEF Agree
<1> HIDE DEF S
<1>3. \A i \in Nat : i \in S
  BY <1>1, <1>2, Induct
<1> QED
  BY <1>3 DEF S

\* A path's canonical form is where any such function ends.
LEMMA CanonicalizeIs ==
  ASSUME NEW p, Len(p) \in Nat, NEW links, NEW f, Walks(f, p, Len(p), links)
  PROVE  Canonicalize(p, links) = f[Len(p)]
<1> DEFINE g == CHOOSE out : Walks(out, p, Len(p), links)
<1>1. Walks(g, p, Len(p), links)
  OBVIOUS
<1>2. Canonicalize(p, links) = g[Len(p)]
  BY DEF Canonicalize, Walks
<1> HIDE DEF g
<1> QED
  BY <1>1, <1>2, WalkUnique DEF Agree

\* Without links the canonical form is the lexical one.
LEMMA NoLinks ==
  ASSUME NEW C, NEW p \in Seq(C)
  PROVE  Canonicalize(p, <<>>) = NormalizeLexical(p)
<1> DEFINE Pushes(out) == out = [i \in 0..Len(p) |-> IF i = 0 THEN <<>> ELSE Into(out[i - 1], p[i])]
           g == CHOOSE out : Pushes(out)
<1>1. Len(p) \in Nat
  OBVIOUS
<1>2. \A out : Pushes(out) <=> Walks(out, p, Len(p), <<>>)
  BY FollowNothing DEF Walks
<1>3. NormalizeLexical(p) = g[Len(p)]
  BY DEF NormalizeLexical
<1> HIDE DEF Pushes
<1>4. \E out : Pushes(out)
  BY <1>1, <1>2, WalkExists
<1>5. Pushes(g)
  BY <1>4
<1> HIDE DEF g
<1> QED
  BY <1>1, <1>2, <1>3, <1>5, CanonicalizeIs

\* The empty path, and a path with one more component.
LEMMA CanonicalizeEmpty ==
  ASSUME NEW links
  PROVE  Canonicalize(<<>>, links) = <<>>
<1>1. Len(<<>>) = 0 /\ 0 \in Nat
  OBVIOUS
<1>2. PICK f : Walks(f, <<>>, 0, links)
  BY WalkExists, 0 \in Nat
<1>3. f[0] = <<>>
  BY <1>2 DEF Walks
<1> QED
  BY <1>1, <1>2, <1>3, CanonicalizeIs

LEMMA CanonicalizeAppend ==
  ASSUME NEW C, NEW p \in Seq(C), NEW c \in C, NEW links
  PROVE  Canonicalize(Append(p, c), links) = Follow(Canonicalize(p, links), c, links)
<1> DEFINE q == Append(p, c)
           n == Len(p)
<1>1. /\ n \in Nat /\ Len(q) = n + 1 /\ q[n + 1] = c
      /\ Agree(p, q, n)
  BY DEF Agree
<1> HIDE DEF q, n
<1>2. PICK f : Walks(f, p, n, links)
  BY <1>1, WalkExists
<1>3. PICK g : Walks(g, q, n + 1, links)
  BY <1>1, WalkExists, n + 1 \in Nat
<1>4. Canonicalize(p, links) = f[n]
  BY <1>1, <1>2, CanonicalizeIs DEF n
<1>5. Canonicalize(q, links) = g[n + 1]
  BY <1>1, <1>3, CanonicalizeIs
<1>6. g[n + 1] = Follow(g[n], q[n + 1], links)
  <2>1. n + 1 \in 0..(n + 1) /\ n + 1 # 0 /\ (n + 1) - 1 = n
    BY <1>1
  <2> QED
    BY <1>3, <2>1 DEF Walks
<1>7. g[n] = f[n]
  <2>1. n <= n /\ n <= n + 1 /\ n + 1 \in Nat
    BY <1>1
  <2> DEFINE m == n + 1
  <2>2. m \in Nat /\ n <= m /\ Walks(g, q, m, links)
    BY <1>3, <2>1
  <2> HIDE DEF m
  <2> QED
    BY <1>1, <1>2, <2>1, <2>2, WalkUnique
<1> QED
  BY <1>1, <1>4, <1>5, <1>6, <1>7 DEF q

\* normalize_lexical, one component at a time.
LEMMA NormalizeEmpty == NormalizeLexical(<<>>) = <<>>
<1>1. <<>> \in Seq({0})
  OBVIOUS
<1>2. NormalizeLexical(<<>>) = Canonicalize(<<>>, <<>>)
  BY <1>1, NoLinks
<1> QED
  BY <1>2, CanonicalizeEmpty

LEMMA NormalizeAppend ==
  ASSUME NEW C, NEW p \in Seq(C), NEW c \in C
  PROVE  NormalizeLexical(Append(p, c)) = Into(NormalizeLexical(p), c)
<1> DEFINE q == Append(p, c)
<1>1. q \in Seq(C)
  OBVIOUS
<1>2. Canonicalize(q, <<>>) = Follow(Canonicalize(p, <<>>), c, <<>>)
  BY CanonicalizeAppend
<1> HIDE DEF q
<1>3. Canonicalize(q, <<>>) = NormalizeLexical(q)
  BY <1>1, NoLinks
<1>4. Canonicalize(p, <<>>) = NormalizeLexical(p)
  BY NoLinks
<1>5. NormalizeLexical(q) = Into(NormalizeLexical(p), c)
  BY <1>2, <1>3, <1>4, FollowNothing
<1> QED
  BY <1>5 DEF q

-----------------------------------------------------------------------------
\* A component that names something.
Plain(c) == c \notin {"..", ".", ""}

(***************************************************************************)
(* A normalized path holds no "..", ".", or empty component, so a prefix   *)
(* of it is a place above it (normalize_lexical).                          *)
(***************************************************************************)
THEOREM NormalForm ==
  ASSUME NEW C
  PROVE  \A p \in Seq(C) : NormalizeLexical(p) \in Seq({c \in C : Plain(c)})
<1> DEFINE D == {c \in C : Plain(c)}
           S == {p \in Seq(C) : NormalizeLexical(p) \in Seq(D)}
<1>1. <<>> \in S
  <2> HIDE DEF D
  <2>1. <<>> \in Seq(C) /\ <<>> \in Seq(D)
    OBVIOUS
  <2> QED
    BY <2>1, NormalizeEmpty
<1>2. ASSUME NEW p \in Seq(C), NEW c \in C, p \in S PROVE Append(p, c) \in S
  <2> DEFINE q == NormalizeLexical(p)
  <2> HIDE DEF D
  <2>1. q \in Seq(D) /\ Append(p, c) \in Seq(C)
    BY <1>2
  <2>2. NormalizeLexical(Append(p, c)) = Into(q, c)
    BY NormalizeAppend
  <2> HIDE DEF q
  <2>3. Parent(q) \in Seq(D)
    BY <2>1 DEF Parent, Front
  <2>4. Plain(c) => Append(q, c) \in Seq(D)
    BY <2>1 DEF D
  <2>5. Into(q, c) \in Seq(D)
    BY <2>1, <2>3, <2>4 DEF Into, Plain
  <2> QED
    BY <2>1, <2>2, <2>5
<1> HIDE DEF S
<1>3. \A p \in Seq(C) : p \in S
  BY <1>1, <1>2, InductSeq
<1> QED
  BY <1>3 DEF S, D

\* Named components are kept as they are.
LEMMA NormalizePlain ==
  ASSUME NEW C, NEW c \in C, Plain(c), NEW p \in Seq(C)
  PROVE  NormalizeLexical(Append(p, c)) = Append(NormalizeLexical(p), c)
BY NormalizeAppend DEF Into, Plain

LEMMA AppendConcat ==
  ASSUME NEW C, NEW p \in Seq(C), NEW q \in Seq(C), NEW c \in C
  PROVE  Append(q \o p, c) = q \o Append(p, c)
<1> DEFINE last == <<c>>
<1>1. last \in Seq(C)
  OBVIOUS
<1>2. q \o p \in Seq(C)
  OBVIOUS
<1>3. Append(p, c) = p \o last /\ Append(q \o p, c) = (q \o p) \o last
  BY <1>2, AppendIsConcat
<1> HIDE DEF last
<1> QED
  BY <1>1, <1>3, ConcatAssociative

\* What a path goes on with below its root, if that holds no "..".
LEMMA NormalizeBelow ==
  ASSUME NEW C, NEW root \in Seq(C)
  PROVE  \A p \in Seq({c \in C : Plain(c)}) :
            NormalizeLexical(root \o p) = NormalizeLexical(root) \o p
<1> DEFINE D == {c \in C : Plain(c)}
           S == {p \in Seq(D) : NormalizeLexical(root \o p) = NormalizeLexical(root) \o p}
<1>1. NormalizeLexical(root) \in Seq(C)
  <2>1. NormalizeLexical(root) \in Seq(D)
    BY NormalForm
  <2>2. \A x \in Seq(D) : x \in Seq(C)
    BY SeqMonotonic, D \subseteq C
  <2> QED
    BY <2>1, <2>2
<1>2. <<>> \in S
  <2> DEFINE q == NormalizeLexical(root)
  <2>1. root \o <<>> = root /\ <<>> \in Seq(D)
    OBVIOUS
  <2>2. q \in Seq(C)
    BY <1>1
  <2> HIDE DEF q
  <2>3. q \o <<>> = q
    BY <2>2
  <2> QED
    BY <2>1, <2>3 DEF q
<1>3. ASSUME NEW p \in Seq(D), NEW c \in D, p \in S PROVE Append(p, c) \in S
  <2> DEFINE q == NormalizeLexical(root)
             r == root \o p
  <2>1. c \in C /\ Plain(c)
    OBVIOUS
  <2> HIDE DEF D
  <2>2. p \in Seq(C)
    BY SeqMonotonic DEF D
  <2>3. r \in Seq(C) /\ root \o Append(p, c) = Append(r, c)
    BY <2>1, <2>2
  <2>4. q \in Seq(C)
    BY <1>1
  <2>5. NormalizeLexical(r) = q \o p
    BY <1>3
  <2> HIDE DEF r, q
  <2>6. NormalizeLexical(Append(r, c)) = Append(q \o p, c)
    BY <2>1, <2>3, <2>5, NormalizePlain
  <2>7. Append(q \o p, c) = q \o Append(p, c)
    BY <2>1, <2>2, <2>4, AppendConcat
  <2>8. Append(p, c) \in Seq(D)
    OBVIOUS
  <2> QED
    BY <2>3, <2>6, <2>7, <2>8 DEF q
<1> HIDE DEF S
<1> QED
  <2> HIDE DEF D
  <2>1. \A p \in Seq(D) : p \in S
    BY <1>2, <1>3, InductSeq
  <2> QED
    BY <2>1 DEF S, D

(***************************************************************************)
(* Normalizing twice is normalizing once, so the gates may be given paths  *)
(* that are normalized or not (normalize_lexical).                         *)
(***************************************************************************)
THEOREM NormalizeTwice ==
  ASSUME NEW C, NEW p \in Seq(C)
  PROVE  NormalizeLexical(NormalizeLexical(p)) = NormalizeLexical(p)
<1> DEFINE q == NormalizeLexical(p)
<1>1. q \in Seq({c \in C : Plain(c)})
  BY NormalForm
<1>2. <<>> \in Seq(C)
  OBVIOUS
<1> HIDE DEF q
<1>3. NormalizeLexical(<<>> \o q) = NormalizeLexical(<<>>) \o q
  BY <1>1, <1>2, NormalizeBelow
<1>4. <<>> \o q = q
  BY <1>1
<1> QED
  BY <1>3, <1>4, NormalizeEmpty DEF q

-----------------------------------------------------------------------------
(***************************************************************************)
(* The two gates, is_within_allowed_root and is_kept_data                  *)
(***************************************************************************)

OnVolume(p) == IsPrefix(VolumesRoot, p)

LEMMA PrefixOfConcat ==
  ASSUME NEW C, NEW p \in Seq(C), NEW q \in Seq(C)
  PROVE  IsPrefix(p, p \o q)
<1>1. Len(p) \in Nat /\ Len(p) <= Len(p \o q) /\ p \o q \in Seq(C)
  OBVIOUS
<1>2. SubSeq(p \o q, 1, Len(p)) = p
  BY SubSeqOfConcat1, <1>1
<1>3. SubSeq(p, 1, Len(p)) = p
  BY SubSeqFull
<1> QED
  BY <1>1, <1>2, <1>3 DEF IsPrefix

LEMMA OnVolumeFirst ==
  ASSUME NEW C, NEW p \in Seq(C)
  PROVE  OnVolume(p) <=> Len(p) > 0 /\ p[1] = "Volumes"
<1> DEFINE v == "Volumes"
<1>1. VolumesRoot = <<v>>
  BY DEF VolumesRoot
<1>2. Len(p) \in Nat
  OBVIOUS
<1> HIDE DEF v
<1>3. Len(<<v>>) = 1 /\ SubSeq(<<v>>, 1, 1) = <<v>> /\ <<v>>[1] = v
  <2>1. <<v>> \in Seq({v}) /\ Len(<<v>>) = 1 /\ <<v>>[1] = v
    OBVIOUS
  <2> QED
    BY <2>1, SubSeqFull
<1>4. CASE Len(p) > 0
  <2> DEFINE s == SubSeq(p, 1, 1)
             t == <<p[1]>>
  <2>1. s \in Seq(C) /\ Len(s) = 1 /\ s[1] = p[1]
    BY <1>4
  <2>2. p[1] \in C
    BY <1>4
  <2>3. t \in Seq(C) /\ Len(t) = 1 /\ t[1] = p[1]
    BY <2>2
  <2>4. t = <<v>> <=> p[1] = v
    OBVIOUS
  <2> HIDE DEF s, t
  <2>5. s = t
    BY <2>1, <2>3, SeqEqual
  <2> QED
    BY <1>1, <1>2, <1>3, <1>4, <2>4, <2>5 DEF OnVolume, IsPrefix, s, v
<1>5. CASE Len(p) = 0
  BY <1>1, <1>2, <1>3, <1>5 DEF OnVolume, IsPrefix
<1> QED
  BY <1>2, <1>4, <1>5

\* A location is on a volume if what it is in is, or if it is the mount point.
LEMMA OnVolumeAppend ==
  ASSUME NEW C, NEW p \in Seq(C), NEW c \in C
  PROVE  OnVolume(Append(p, c)) <=> OnVolume(p) \/ (p = <<>> /\ c = "Volumes")
<1> DEFINE q == Append(p, c)
<1>1. q \in Seq(C) /\ Len(q) > 0
  OBVIOUS
<1>2. q[1] = IF p = <<>> THEN c ELSE p[1]
  OBVIOUS
<1>3. p = <<>> <=> Len(p) = 0
  BY EmptySeq
<1>4. Len(p) \in Nat
  OBVIOUS
<1> HIDE DEF q
<1>5. OnVolume(q) <=> q[1] = "Volumes"
  BY <1>1, OnVolumeFirst
<1>6. OnVolume(p) <=> p # <<>> /\ p[1] = "Volumes"
  BY <1>3, <1>4, OnVolumeFirst
<1> QED
  BY <1>2, <1>5, <1>6 DEF q

\* Where links leads, for every link, is a path.
LinkTargets(links, C) == \A p \in DOMAIN links : links[p] \in Seq(C)

LEMMA CanonicalizeType ==
  ASSUME NEW C, NEW links, LinkTargets(links, C)
  PROVE  \A p \in Seq(C) : Canonicalize(p, links) \in Seq(C)
<1> DEFINE S == {p \in Seq(C) : Canonicalize(p, links) \in Seq(C)}
<1>1. <<>> \in S
  <2>1. Canonicalize(<<>>, links) = <<>>
    BY CanonicalizeEmpty
  <2>2. <<>> \in Seq(C)
    OBVIOUS
  <2> QED
    BY <2>1, <2>2, Zenon
<1>2. ASSUME NEW p \in Seq(C), NEW c \in C, p \in S PROVE Append(p, c) \in S
  <2> DEFINE q == Canonicalize(p, links)
  <2>1. q \in Seq(C) /\ Append(p, c) \in Seq(C)
    BY <1>2
  <2>2. Canonicalize(Append(p, c), links) = Follow(q, c, links)
    BY CanonicalizeAppend
  <2> HIDE DEF q
  <2>3. Parent(q) \in Seq(C) /\ Append(q, c) \in Seq(C)
    BY <2>1 DEF Parent, Front
  <2>4. Into(q, c) \in Seq(C)
    BY <2>1, <2>3 DEF Into
  <2>5. Follow(q, c, links) \in Seq(C)
    BY <2>4 DEF Follow, LinkTargets
  <2> QED
    BY <2>1, <2>2, <2>5
<1> HIDE DEF S
<1>3. \A p \in Seq(C) : p \in S
  BY <1>1, <1>2, InductSeq
<1> QED
  BY <1>3 DEF S

(***************************************************************************)
(* Every path that goes on from its root through named components is let   *)
(* through by the allowlist unless it is written as one on a volume: below *)
(* a configured root the allowlist keeps nothing else out                  *)
(* (is_within_allowed_root, called by prune_dir_by_age).                   *)
(***************************************************************************)
THEOREM BelowIsAllowed ==
  ASSUME NEW C, NEW root \in Seq(C), NEW p \in Seq({c \in C : Plain(c)})
  PROVE  IsWithinAllowedRoot(root \o p, root) <=> ~OnVolume(NormalizeLexical(root \o p))
<1> DEFINE D == {c \in C : Plain(c)}
           q == NormalizeLexical(root)
<1>1. q \in Seq(D)
  BY NormalForm
<1>2. NormalizeLexical(root \o p) = q \o p
  BY NormalizeBelow
<1>3. p \in Seq(D)
  OBVIOUS
<1> HIDE DEF D, q
<1>4. IsPrefix(q, q \o p)
  BY <1>1, <1>3, PrefixOfConcat
<1> QED
  BY <1>2, <1>4 DEF IsWithinAllowedRoot, OnVolume, q

(***************************************************************************)
(* Whatever ".." it holds, a path that the allowlist lets through is, with *)
(* those undone, the root and named components after it.                   *)
(***************************************************************************)
THEOREM AllowedIsBelow ==
  ASSUME NEW C, NEW root \in Seq(C), NEW path \in Seq(C),
         IsWithinAllowedRoot(path, root)
  PROVE  \E p \in Seq({c \in C : Plain(c)}) :
            NormalizeLexical(path) = NormalizeLexical(root) \o p
<1> DEFINE D == {c \in C : Plain(c)}
           q == NormalizeLexical(root)
           r == NormalizeLexical(path)
<1>1. q \in Seq(D) /\ r \in Seq(D)
  BY NormalForm
<1>2. IsPrefix(q, r)
  BY DEF IsWithinAllowedRoot
<1> DEFINE n == Len(q)
           p == SubSeq(r, n + 1, Len(r))
<1> HIDE DEF D, q, r
<1>3. n \in Nat /\ Len(r) \in Nat /\ n <= Len(r)
  BY <1>1, <1>2 DEF IsPrefix
<1>4. p \in Seq(D)
  BY <1>1, <1>3
<1>5. SubSeq(r, 1, n) = q
  BY <1>1, <1>2, SubSeqFull DEF IsPrefix
<1> HIDE DEF n
<1>6. SubSeq(r, 1, n) \o p = SubSeq(r, 1, Len(r))
  <2>1. 1 \in 1..(Len(r) + 1) /\ n \in (1 - 1)..Len(r) /\ Len(r) \in n..Len(r)
    BY <1>3
  <2> QED
    BY <1>1, <2>1, ConcatAdjacentSubSeq
<1>7. SubSeq(r, 1, Len(r)) = r
  BY <1>1, SubSeqFull
<1> HIDE DEF p
<1> QED
  BY <1>4, <1>5, <1>6, <1>7 DEF q, r, D

(***************************************************************************)
(* For every entry that is no link itself, in any root and with any links  *)
(* on the way, the two gates ask one thing: is the root on an external     *)
(* volume, by its text or where its links lead?  This is what stands       *)
(* behind the cleaner's test of an entry (prune_dir_by_age; RootOf[e]      *)
(* \notin external in the module Prune).                                   *)
(***************************************************************************)
THEOREM RootDecides ==
  ASSUME NEW C, NEW root \in Seq(C), NEW e \in C, Plain(e), e # "Volumes",
         NEW links, LinkTargets(links, C),
         Append(Canonicalize(root, links), e) \notin DOMAIN links
  PROVE  (IsKeptData(Append(root, e), links, TRUE) \/ ~IsWithinAllowedRoot(Append(root, e), root))
           <=> OnVolume(NormalizeLexical(root)) \/ OnVolume(Canonicalize(root, links))
<1> DEFINE D == {c \in C : Plain(c)}
           path == Append(root, e)
           q == NormalizeLexical(root)
           r == Canonicalize(root, links)
<1>1. e \in D
  OBVIOUS
<1>2. q \in Seq(D)
  BY NormalForm
<1>3. r \in Seq(C)
  BY CanonicalizeType
<1>4. NormalizeLexical(path) = Append(q, e)
  BY NormalizePlain
<1>5. Canonicalize(path, links) = Append(r, e)
  BY CanonicalizeAppend DEF Follow, Into, Plain
<1>6. path = root \o <<e>>
  BY AppendIsConcat
<1> HIDE DEF D, q, r, path
<1>7. <<e>> \in Seq(D)
  BY <1>1
<1>8. OnVolume(Append(q, e)) <=> OnVolume(q)
  BY <1>1, <1>2, OnVolumeAppend
<1>9. OnVolume(Append(r, e)) <=> OnVolume(r)
  BY <1>3, OnVolumeAppend
<1>10. IsWithinAllowedRoot(path, root) <=> ~OnVolume(Append(q, e))
  BY <1>4, <1>6, <1>7, BelowIsAllowed DEF D
<1>11. IsKeptData(path, links, TRUE) <=> OnVolume(Append(r, e)) \/ OnVolume(Append(q, e))
  BY <1>4, <1>5 DEF IsKeptData, OnVolume
<1> QED
  BY <1>8, <1>9, <1>10, <1>11 DEF q, r, path

\* Components that do not go up lead to a place below.
LEMMA NormalizeOnward ==
  ASSUME NEW C, NEW root \in Seq(C)
  PROVE  \A p \in Seq({c \in C : c # ".."}) :
            \E r \in Seq({c \in C : Plain(c)}) :
               NormalizeLexical(root \o p) = NormalizeLexical(root) \o r
<1> DEFINE D == {c \in C : Plain(c)}
           E == {c \in C : c # ".."}
           q == NormalizeLexical(root)
           Below(p) == \E r \in Seq(D) : NormalizeLexical(root \o p) = q \o r
           S == {p \in Seq(E) : Below(p)}
<1>1. q \in Seq(C)
  <2>1. q \in Seq(D)
    BY NormalForm
  <2>2. \A x \in Seq(D) : x \in Seq(C)
    BY SeqMonotonic, D \subseteq C
  <2> HIDE DEF D, q
  <2> QED
    BY <2>1, <2>2
<1> HIDE DEF q
<1>2. <<>> \in S
  <2>1. root \o <<>> = root /\ q \o <<>> = q /\ <<>> \in Seq(D) /\ <<>> \in Seq(E)
    BY <1>1
  <2>2. Below(<<>>)
    BY <2>1 DEF q
  <2> QED
    BY <2>1, <2>2
<1>3. ASSUME NEW p \in Seq(E), NEW c \in E, p \in S PROVE Append(p, c) \in S
  <2> DEFINE s == root \o p
  <2>1. c \in C /\ c # ".." /\ D \subseteq C /\ E \subseteq C
    OBVIOUS
  <2>2. c \in D <=> c \notin {"", "."}
    BY <2>1 DEF Plain
  <2>3. PICK r \in Seq(D) : NormalizeLexical(s) = q \o r
    BY <1>3
  <2> HIDE DEF D, E
  <2>4. p \in Seq(C) /\ r \in Seq(C)
    BY <2>1, SeqMonotonic
  <2>5. s \in Seq(C) /\ root \o Append(p, c) = Append(s, c)
    BY <2>1, <2>4
  <2> HIDE DEF s
  <2>6. NormalizeLexical(Append(s, c)) = Into(q \o r, c)
    BY <2>1, <2>3, <2>5, NormalizeAppend
  <2>7. ASSUME c \in {"", "."} PROVE Below(Append(p, c))
    <3>1. Into(q \o r, c) = q \o r
      BY <2>1, <2>7 DEF Into
    <3> QED
      BY <2>5, <2>6, <3>1
  <2>8. ASSUME c \notin {"", "."} PROVE Below(Append(p, c))
    <3>1. Into(q \o r, c) = Append(q \o r, c)
      BY <2>1, <2>8 DEF Into
    <3>2. Append(q \o r, c) = q \o Append(r, c)
      BY <1>1, <2>1, <2>4, AppendConcat
    <3>3. c \in D
      BY <2>2, <2>8
    <3>4. Append(r, c) \in Seq(D)
      BY <3>3, AppendProperties
    <3> QED
      BY <2>5, <2>6, <3>1, <3>2, <3>4
  <2>9. Below(Append(p, c))
    <3> HIDE DEF Below
    <3> QED
      BY <2>7, <2>8
  <2>10. Append(p, c) \in Seq(E)
    BY AppendProperties
  <2> HIDE DEF Below
  <2> QED
    BY <2>9, <2>10 DEF S
<1> HIDE DEF S
<1> QED
  <2> HIDE DEF D, E
  <2>1. \A p \in Seq(E) : p \in S
    BY <1>2, <1>3, InductSeq
  <2> QED
    BY <2>1 DEF S, D, E, q

LEMMA OneBefore ==
  ASSUME NEW U, NEW a \in U, NEW rest \in Seq(U)
  PROVE  LET s == <<a>> \o rest IN
         /\ s # <<>> /\ Head(s) = a /\ Tail(s) = rest
         /\ Len(s) = Len(rest) + 1
         /\ Len(rest) > 0 => s[2] = rest[1]
<1> DEFINE s == <<a>> \o rest
<1>1. <<a>> \in Seq(U) /\ Len(<<a>>) = 1 /\ <<a>>[1] = a
  OBVIOUS
<1>2. /\ s \in Seq(U) /\ Len(s) = Len(rest) + 1 /\ s[1] = a
      /\ \A i \in 1..Len(rest) : s[i + 1] = rest[i]
  BY <1>1
<1>3. Len(rest) \in Nat
  OBVIOUS
<1> HIDE DEF s
<1>4. s # <<>> /\ Head(s) = a
  BY <1>2, <1>3
<1>5. Tail(s) = rest
  <2>1. /\ Len(Tail(s)) = Len(rest) /\ Tail(s) \in Seq(U)
        /\ \A i \in 1..Len(Tail(s)) : Tail(s)[i] = s[i + 1]
    BY <1>2, <1>3, <1>4
  <2>2. \A i \in 1..Len(rest) : Tail(s)[i] = rest[i]
    BY <1>2, <2>1
  <2> QED
    BY <2>1, <2>2, SeqEqual
<1>6. Len(rest) > 0 => s[2] = rest[1]
  <2>1. Len(rest) > 0 => 1 \in 1..Len(rest) /\ 1 + 1 = 2
    BY <1>3
  <2> QED
    BY <1>2, <2>1
<1> QED
  BY <1>2, <1>4, <1>5, <1>6 DEF s

LEMMA SecondOf ==
  ASSUME NEW U, NEW rest \in Seq(U), NEW x, Len(rest) < 2 \/ rest[1] # x,
         NEW s, Len(s) = Len(rest) + 1, Len(rest) > 0 => s[2] = rest[1]
  PROVE  ~(Len(s) > 2 /\ s[2] = x)
<1>1. Len(rest) \in Nat
  OBVIOUS
<1> QED
  BY <1>1

(***************************************************************************)
(* A directory that the configuration writes as "~" or as "~/...", without *)
(* ".." and with no second slash after the first, is the home or lies      *)
(* below it (expand_home; with a second slash it is absolute).             *)
(***************************************************************************)
THEOREM StaysBelowHome ==
  ASSUME NEW C, NEW home \in Seq(C), NEW rest \in Seq({c \in C : c # ".."}),
         Len(rest) < 2 \/ rest[1] # ""
  PROVE  \E p \in Seq({c \in C : Plain(c)}) :
            NormalizeLexical(ExpandHome(<<"~">> \o rest, home)) = NormalizeLexical(home) \o p
<1> DEFINE E == {c \in C : c # ".."}
           tilde == "~"
           U == E \cup {tilde}
           spec == <<tilde>> \o rest
<1>1. rest \in Seq(U) /\ Len(rest) \in Nat
  <2>1. rest \in Seq(E) /\ E \subseteq U
    OBVIOUS
  <2> HIDE DEF E, U
  <2> QED
    BY <2>1, SeqMonotonic, LenProperties
<1>2. tilde \in U
  OBVIOUS
<1> HIDE DEF E, U, tilde
<1>3. /\ spec # <<>> /\ Head(spec) = tilde /\ Tail(spec) = rest
      /\ Len(spec) = Len(rest) + 1
      /\ Len(rest) > 0 => spec[2] = rest[1]
  BY <1>1, <1>2, OneBefore
<1> HIDE DEF spec, tilde
<1>4. ~(Len(spec) > 2 /\ spec[2] = "")
  BY <1>1, <1>3, SecondOf, Zenon
<1>5. ExpandHome(spec, home) = home \o rest
  BY <1>3, <1>4 DEF ExpandHome, tilde
<1>6. \E p \in Seq({c \in C : Plain(c)}) :
         NormalizeLexical(home \o rest) = NormalizeLexical(home) \o p
  BY NormalizeOnward
<1> QED
  BY <1>5, <1>6 DEF spec, tilde

-----------------------------------------------------------------------------
(***************************************************************************)
(* What config.toml may leave out                                          *)
(***************************************************************************)

\* Where a table's own default differs from the shipped one.
LEMMA DefaultsDiffer ==
  ASSUME NEW t \in Tables, NEW f \in Fields(t)
  PROVE  OfType(t)[f] = Shipped[t][f] <=> ~(t \in {"old_logs", "trash"} /\ f = "age_days")
<1>1. \A age : Setting(t, age)[f] = IF f = "enabled" THEN TRUE ELSE age
  BY DEF Setting
<1>2. Fields(t) \subseteq {"enabled", "age_days"}
  BY DEF Fields
<1>3. t \in {"old_logs", "trash"} => "age_days" \in Fields(t)
  BY DEF Fields, Switches
<1>4. PICK age : Shipped[t] = Setting(t, age) /\ age = CASE t = "stale_tmp" -> 7
                                   [] t \in {"old_logs", "trash"} -> 30
                                   [] OTHER -> 14
  BY DEF Shipped
<1>5. CASE f = "enabled"
  BY <1>1, <1>4, <1>5 DEF OfType
<1>6. CASE f = "age_days"
  BY <1>1, <1>4, <1>6 DEF OfType
<1> QED
  BY <1>2, <1>5, <1>6

(***************************************************************************)
(* A file that leaves out what it pleases of the shipped one - tables, and *)
(* fields of the tables it has - loads as the shipped one, unless it has   *)
(* the logs' or the trash's table without its age (Config::load, where     *)
(* each type's serde default fills in).                                    *)
(***************************************************************************)
THEOREM Omissions ==
  ASSUME NEW file, DOMAIN file \subseteq Tables,
         \A t \in DOMAIN file : \A f \in DOMAIN file[t] : file[t][f] = Shipped[t][f]
  PROVE  Load(file) = Shipped
           <=> \A t \in DOMAIN file \cap {"old_logs", "trash"} : "age_days" \in DOMAIN file[t]
<1> DEFINE Same(t) == Load(file)[t] = Shipped[t]
<1>1. Shipped = [t \in Tables |-> Shipped[t]]
  BY DEF Shipped
<1>2. \A t \in Tables : Shipped[t] = [f \in Fields(t) |-> Shipped[t][f]]
  BY DEF Shipped, Setting
<1>3. Load(file) = [t \in Tables |-> Load(file)[t]]
  BY DEF Load
<1>4. Load(file) = Shipped <=> \A t \in Tables : Same(t)
  BY <1>1, <1>3
<1>5. ASSUME NEW t \in Tables, t \notin DOMAIN file PROVE Same(t)
  BY <1>5 DEF Load
<1>6. ASSUME NEW t \in DOMAIN file
      PROVE  Same(t) <=> (t \in {"old_logs", "trash"} => "age_days" \in DOMAIN file[t])
  <2>1. t \in Tables
    OBVIOUS
  <2>2. Load(file)[t] = [f \in Fields(t) |-> IF f \in DOMAIN file[t] THEN file[t][f] ELSE OfType(t)[f]]
    BY <2>1 DEF Load
  <2>3. Same(t) <=> \A f \in Fields(t) : Load(file)[t][f] = Shipped[t][f]
    BY <1>2, <2>1, <2>2
  <2>4. \A f \in Fields(t) : Load(file)[t][f] = Shipped[t][f]
                               <=> (f \in DOMAIN file[t] \/ OfType(t)[f] = Shipped[t][f])
    BY <2>2
  <2>5. t \in {"old_logs", "trash"} => "age_days" \in Fields(t)
    BY DEF Fields, Switches
  <2> HIDE DEF Same
  <2> QED
    BY <2>1, <2>3, <2>4, <2>5, DefaultsDiffer
<1> HIDE DEF Same
<1> QED
  BY <1>4, <1>5, <1>6

-----------------------------------------------------------------------------
(* build_cleaners *)

\* The list as it grows with the switches that have been looked at.
Builds(built, on, n) ==
  built = [k \in 0..n |-> IF k = 0 THEN <<>>
                          ELSE IF AllCleaners[k].name \in on THEN Append(built[k - 1], AllCleaners[k])
                          ELSE built[k - 1]]

LEMMA BuildsExist ==
  ASSUME NEW on
  PROVE  \A n \in Nat : \E built : Builds(built, on, n)
<1> DEFINE One(list, k) == IF AllCleaners[k].name \in on THEN Append(list, AllCleaners[k]) ELSE list
           S == {n \in Nat : \E built : Builds(built, on, n)}
<1>1. 0 \in S
  <2> DEFINE f == [k \in 0..0 |-> <<>>]
  <2>1. Builds(f, on, 0)
    BY DEF Builds
  <2> QED
    BY <2>1
<1>2. ASSUME NEW n \in Nat, n \in S PROVE n + 1 \in S
  <2>1. PICK f : Builds(f, on, n)
    BY <1>2
  <2> DEFINE g == [k \in 0..(n + 1) |-> IF k = n + 1 THEN One(f[n], n + 1) ELSE f[k]]
  <2>2. \A k \in 0..n : f[k] = IF k = 0 THEN <<>> ELSE One(f[k - 1], k)
    BY <2>1 DEF Builds
  <2> HIDE DEF One
  <2>3. \A k \in 0..n : g[k] = f[k]
    OBVIOUS
  <2>4. ASSUME NEW k \in 0..(n + 1)
        PROVE  g[k] = IF k = 0 THEN <<>> ELSE One(g[k - 1], k)
    <3>1. CASE k = n + 1
      BY <3>1, <2>3
    <3>2. CASE k \in 0..n
      <4>1. k # 0 => k - 1 \in 0..n
        BY <3>2
      <4> HIDE DEF g
      <4>2. k # 0 => g[k - 1] = f[k - 1]
        BY <4>1, <2>3
      <4> QED
        BY <3>2, <2>2, <2>3, <4>2
    <3> QED
      BY <3>1, <3>2
  <2>5. g = [k \in 0..(n + 1) |-> g[k]]
    OBVIOUS
  <2> HIDE DEF g
  <2>6. Builds(g, on, n + 1)
    BY <2>4, <2>5 DEF Builds, One
  <2> QED
    BY <2>6
<1> HIDE DEF S
<1>3. \A n \in Nat : n \in S
  BY <1>1, <1>2, Induct
<1> QED
  BY <1>3 DEF S

LEMMA ElevenCleaners ==
  /\ Len(AllCleaners) = 11
  /\ \A m, n \in 1..11 : AllCleaners[m].name = AllCleaners[n].name => m = n
<1>1. Len(AllCleaners) = 11
  BY DEF AllCleaners
<1>2. /\ AllCleaners[1].name = "uv_cache" /\ AllCleaners[2].name = "npm_cache"
      /\ AllCleaners[3].name = "pnpm_store" /\ AllCleaners[4].name = "simulators"
      /\ AllCleaners[5].name = "brew" /\ AllCleaners[6].name = "stale_tmp"
      /\ AllCleaners[7].name = "old_logs" /\ AllCleaners[8].name = "library_caches"
      /\ AllCleaners[9].name = "pip_cache" /\ AllCleaners[10].name = "cargo_cache"
      /\ AllCleaners[11].name = "trash"
  BY DEF AllCleaners, Tool, Pruned
<1>3. \A n \in 1..11 : n \in {1, 2, 3, 4, 5, 6, 7, 8, 9, 10, 11}
  OBVIOUS
<1> QED
  BY <1>1, <1>2, <1>3

\* What the list is after the first n switches.
Chosen(list, on, n) ==
  /\ list \in Seq({AllCleaners[m] : m \in 1..n})
  /\ \A m \in 1..n : AllCleaners[m].name \in on <=> \E i \in DOMAIN list : list[i] = AllCleaners[m]
  /\ \A i, j \in DOMAIN list, k, m \in 1..n :
         i < j /\ list[i] = AllCleaners[k] /\ list[j] = AllCleaners[m] => k < m

LEMMA ChosenNext ==
  ASSUME NEW on, NEW n \in 0..10, NEW list, Chosen(list, on, n), NEW c, c = AllCleaners[n + 1],
         NEW next, next = IF c.name \in on THEN Append(list, c) ELSE list
  PROVE  Chosen(next, on, n + 1)
<1> DEFINE Q == {AllCleaners[m] : m \in 1..n}
           R == {AllCleaners[m] : m \in 1..(n + 1)}
<1>1. list \in Seq(Q)
  BY DEF Chosen
<1>2. /\ n \in Nat /\ n + 1 \in 1..11
      /\ \A m \in 1..(n + 1) : m \in 1..11 /\ (m = n + 1 \/ m \in 1..n)
      /\ \A m \in 1..n : m \in 1..(n + 1) /\ m < n + 1 /\ m # n + 1
  OBVIOUS
<1>3. \A m \in 1..n : AllCleaners[m] # c
  BY <1>2, ElevenCleaners
<1>4. Q \subseteq R /\ c \in R /\ c \notin Q
  BY <1>2, <1>3
<1>5. \A i \in DOMAIN list : list[i] \in Q
  BY <1>1
<1>6. /\ Len(list) \in Nat /\ DOMAIN list = 1..Len(list)
      /\ Len(Append(list, c)) = Len(list) + 1
      /\ DOMAIN Append(list, c) = 1..(Len(list) + 1)
      /\ \A i \in 1..Len(list) : Append(list, c)[i] = list[i]
      /\ Append(list, c)[Len(list) + 1] = c
  BY <1>1
<1>7. next \in Seq(R)
  BY <1>1, <1>4
<1>8. ASSUME NEW m \in 1..(n + 1)
      PROVE  AllCleaners[m].name \in on <=> \E i \in DOMAIN next : next[i] = AllCleaners[m]
  <2>1. CASE m = n + 1
    <3>1. CASE c.name \in on
      <4>1. Len(list) + 1 \in DOMAIN next /\ next[Len(list) + 1] = c
        BY <1>6, <3>1
      <4> QED
        BY <2>1, <3>1, <4>1
    <3>2. CASE c.name \notin on
      <4>1. \A i \in DOMAIN next : next[i] # c
        BY <1>4, <1>5, <3>2
      <4> QED
        BY <2>1, <3>2, <4>1
    <3> QED
      BY <3>1, <3>2
  <2>2. CASE m \in 1..n
    <3>1. AllCleaners[m].name \in on <=> \E i \in DOMAIN list : list[i] = AllCleaners[m]
      BY <2>2 DEF Chosen
    <3>2. (\E i \in DOMAIN list : list[i] = AllCleaners[m])
            <=> \E i \in DOMAIN Append(list, c) : Append(list, c)[i] = AllCleaners[m]
      <4>1. \A i \in 1..(Len(list) + 1) : i \in 1..Len(list) \/ i = Len(list) + 1
        BY <1>6
      <4>2. \A i \in 1..Len(list) : i \in 1..(Len(list) + 1)
        BY <1>6
      <4> QED
        BY <1>3, <1>6, <2>2, <4>1, <4>2
    <3> QED
      BY <3>1, <3>2
  <2> QED
    BY <1>2, <2>1, <2>2
<1>9. ASSUME NEW i \in DOMAIN next, NEW j \in DOMAIN next, NEW k \in 1..(n + 1), NEW m \in 1..(n + 1),
             i < j, next[i] = AllCleaners[k], next[j] = AllCleaners[m]
      PROVE  k < m
  <2>1. ASSUME NEW h \in DOMAIN list, NEW l \in 1..(n + 1), list[h] = AllCleaners[l]
        PROVE  l \in 1..n
    BY <1>2, <1>4, <1>5, <2>1
  <2>2. CASE i \in DOMAIN list /\ j \in DOMAIN list
    <3>1. list[i] = AllCleaners[k] /\ list[j] = AllCleaners[m]
      BY <1>6, <1>9, <2>2
    <3>2. k \in 1..n /\ m \in 1..n
      BY <2>1, <2>2, <3>1
    <3> QED
      BY <1>9, <2>2, <3>1, <3>2 DEF Chosen
  <2>3. CASE ~(i \in DOMAIN list /\ j \in DOMAIN list)
    <3>1. next = Append(list, c) /\ j = Len(list) + 1 /\ i \in DOMAIN list
      BY <1>6, <1>9, <2>3
    <3>2. list[i] = AllCleaners[k] /\ AllCleaners[m] = c
      BY <1>6, <1>9, <3>1
    <3>3. k \in 1..n /\ m = n + 1
      BY <1>2, <1>3, <2>1, <3>1, <3>2
    <3> QED
      BY <3>3
  <2> QED
    BY <2>2, <2>3
<1>10. \A m \in 1..(n + 1) :
          AllCleaners[m].name \in on <=> \E i \in DOMAIN next : next[i] = AllCleaners[m]
  BY <1>8, Zenon
<1>11. \A i, j \in DOMAIN next, k, m \in 1..(n + 1) :
          i < j /\ next[i] = AllCleaners[k] /\ next[j] = AllCleaners[m] => k < m
  BY <1>9, Zenon
<1> QED
  BY <1>7, <1>10, <1>11, Zenon DEF Chosen

(***************************************************************************)
(* Whatever is switched on, build_cleaners pushes those cleaners, each     *)
(* once and no others, in the one order it goes through them.              *)
(***************************************************************************)
THEOREM BuildsInOrder ==
  ASSUME NEW on
  PROVE  Chosen(BuildCleaners(on), on, 11)
<1> DEFINE f == CHOOSE built : Builds(built, on, 11)
           S == {n \in Nat : n <= 11 => Chosen(f[n], on, n)}
<1>1. Builds(f, on, 11)
  <2>1. 11 \in Nat
    OBVIOUS
  <2> QED
    BY <2>1, BuildsExist
<1>2. BuildCleaners(on) = f[11]
  BY ElevenCleaners DEF BuildCleaners, Builds
<1> HIDE DEF f
<1>3. 0 \in S
  <2>1. f[0] = <<>>
    BY <1>1 DEF Builds
  <2>2. 1..0 = {} /\ DOMAIN <<>> = {}
    OBVIOUS
  <2>3. <<>> \in Seq({AllCleaners[m] : m \in 1..0})
    OBVIOUS
  <2>4. Chosen(<<>>, on, 0)
    BY <2>2, <2>3, Zenon DEF Chosen
  <2> QED
    BY <2>1, <2>4
<1>4. ASSUME NEW n \in Nat, n \in S PROVE n + 1 \in S
  <2> SUFFICES ASSUME n + 1 <= 11 PROVE Chosen(f[n + 1], on, n + 1)
    OBVIOUS
  <2>1. n \in 0..10 /\ n + 1 \in 0..11 /\ n + 1 # 0 /\ (n + 1) - 1 = n
    OBVIOUS
  <2>2. Chosen(f[n], on, n)
    BY <1>4, <2>1
  <2>3. f[n + 1] = IF AllCleaners[n + 1].name \in on THEN Append(f[n], AllCleaners[n + 1]) ELSE f[n]
    BY <1>1, <2>1 DEF Builds
  <2> QED
    BY <2>1, <2>2, <2>3, ChosenNext
<1> HIDE DEF S
<1>5. \A n \in Nat : n \in S
  BY <1>3, <1>4, Induct
<1>6. 11 \in Nat /\ 11 <= 11
  OBVIOUS
<1> QED
  BY <1>2, <1>5, <1>6 DEF S
=============================================================================
