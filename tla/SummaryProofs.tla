---------------------------- MODULE SummaryProofs ----------------------------
(***************************************************************************)
(* How far a size can be off once it has been printed and read back, and   *)
(* what the results page therefore says of a run, for any list of cleaners *)
(* and any sizes.                                                          *)
(***************************************************************************)
EXTENDS RunResults, CleanerSet, CleanRunProofs, DataProofs

\* Division with a remainder, as one fact for the steps below.
LEMMA Division ==
  ASSUME NEW a \in Nat, NEW d \in Nat \ {0}
  PROVE  /\ a \div d \in Nat
         /\ d * (a \div d) <= a
         /\ a < d * (a \div d) + d
  BY Z3

\* One decimal place is off by half a tenth of the unit at most.
LEMMA Rounds ==
  ASSUME NEW n \in Nat, NEW unit \in Nat \ {0}
  PROVE  /\ Tenths(n, unit) \in Nat /\ Tenths(n, unit) * unit \in Nat
         /\ 2 * (Tenths(n, unit) * unit) <= 20 * n + unit
         /\ 20 * n <= 2 * (Tenths(n, unit) * unit) + unit
<1> DEFINE t == Tenths(n, unit)
           q == (10 * n) \div unit
<1>1. /\ q \in Nat
      /\ unit * q <= 10 * n
      /\ 10 * n < unit * q + unit
  BY 10 * n \in Nat, Division
<1> HIDE DEF q
<1>2. unit * q \in Nat /\ unit * (q + 1) = unit * q + unit
  BY <1>1
<1>3. \/ t = q /\ 2 * (10 * n - unit * q) <= unit
      \/ t = q + 1 /\ 2 * (10 * n - unit * q) >= unit
  BY <1>1, <1>2 DEF Tenths, q
<1>4. t \in Nat /\ t * unit = unit * t
  BY <1>1, <1>3
<1> HIDE DEF t
<1>5. /\ unit * t \in Nat /\ 2 * (unit * t) <= 20 * n + unit
      /\ 20 * n <= 2 * (unit * t) + unit
  BY <1>1, <1>2, <1>3
<1> QED
  BY <1>4, <1>5 DEF t

(***************************************************************************)
(* A size of any number of bytes that format_bytes has printed in any unit *)
(* and parse_size_field has read back is off by at most a twentieth of the *)
(* unit, and by one byte more where the parser cuts off a fraction.        *)
(***************************************************************************)
THEOREM RoundTrip ==
  ASSUME NEW n \in Nat, NEW unit \in Nat \ {0}
  PROVE  /\ Tenths(n, unit) \in Nat
         /\ Bytes(Tenths(n, unit), unit) \in Nat
         /\ 20 * Bytes(Tenths(n, unit), unit) <= 20 * n + unit
         /\ 20 * n < 20 * Bytes(Tenths(n, unit), unit) + 20 + unit
<1> DEFINE t == Tenths(n, unit)
           m == t * unit
           p == Bytes(t, unit)
<1>1. t \in Nat /\ m \in Nat /\ 2 * m <= 20 * n + unit /\ 20 * n <= 2 * m + unit
  BY Rounds
<1>2. /\ p \in Nat
      /\ 10 * p <= m
      /\ m < 10 * p + 10
  BY <1>1, Division DEF Bytes
<1> HIDE DEF t, m, p
<1>3. 20 * p <= 20 * n + unit /\ 20 * n < 20 * p + 20 + unit
  BY <1>1, <1>2
<1> QED
  BY <1>1, <1>2, <1>3 DEF t, p

-----------------------------------------------------------------------------
(* The units *)

LEMMA UnitMultIs ==
  /\ UnitMult[0] = 1
  /\ \A i \in 1..4 : UnitMult[i] = Base * UnitMult[i - 1]
<1> DEFINE Step(f) == f = [i \in 0..4 |-> IF i = 0 THEN 1 ELSE Base * f[i - 1]]
           two == Base * Base
           three == Base * two
           four == Base * three
           g == [i \in 0..4 |-> IF i = 0 THEN 1 ELSE IF i = 1 THEN Base ELSE
                                IF i = 2 THEN two ELSE IF i = 3 THEN three ELSE four]
<1>1. Base * 1 = Base
  BY BaseAssumption
<1>2. \A i \in 0..4 : g[i] = IF i = 0 THEN 1 ELSE Base * g[i - 1]
  <2> HIDE DEF four, three, two
  <2>1. g[0] = 1 /\ g[1] = Base /\ g[2] = two /\ g[3] = three /\ g[4] = four
    OBVIOUS
  <2> HIDE DEF g
  <2>2. g[1] = Base * g[0] /\ g[2] = Base * g[1] /\ g[3] = Base * g[2] /\ g[4] = Base * g[3]
    BY <1>1, <2>1 DEF two, three, four
  <2> QED
    BY <2>1, <2>2
<1>3. g = [i \in 0..4 |-> g[i]]
  OBVIOUS
<1> HIDE DEF g
<1>4. Step(g)
  BY <1>2, <1>3
<1> HIDE DEF Step
<1>5. UnitMult = CHOOSE f : Step(f)
  BY DEF UnitMult, Step
<1>6. Step(UnitMult)
  BY <1>4, <1>5
<1> QED
  BY <1>6 DEF Step

\* One unit is one byte, and every other is at least Base bytes.
LEMMA UnitMultType ==
  /\ UnitMult[0] = 1
  /\ \A i \in 0..4 : UnitMult[i] \in Nat \ {0}
  /\ \A i \in 1..4 : UnitMult[i] >= Base
<1>1. \A m \in Nat \ {0} : Base * m \in Nat \ {0} /\ Base * m >= Base
  BY BaseAssumption, Z3
<1>2. UnitMult[1] = Base * UnitMult[0] /\ UnitMult[2] = Base * UnitMult[1]
      /\ UnitMult[3] = Base * UnitMult[2] /\ UnitMult[4] = Base * UnitMult[3]
  BY UnitMultIs
<1>3. UnitMult[0] \in Nat \ {0}
  BY UnitMultIs
<1>4. UnitMult[1] \in Nat \ {0} /\ UnitMult[1] >= Base
  BY <1>1, <1>2, <1>3
<1>5. UnitMult[2] \in Nat \ {0} /\ UnitMult[2] >= Base
  BY <1>1, <1>2, <1>4
<1>6. UnitMult[3] \in Nat \ {0} /\ UnitMult[3] >= Base
  BY <1>1, <1>2, <1>5
<1>7. UnitMult[4] \in Nat \ {0} /\ UnitMult[4] >= Base
  BY <1>1, <1>2, <1>6
<1> QED
  BY UnitMultIs, <1>3, <1>4, <1>5, <1>6, <1>7

\* A size is given in a unit of which it has one.
LEMMA UnitFits ==
  ASSUME NEW n \in Nat
  PROVE  Unit(n) \in 0..4 /\ (Unit(n) = 0 \/ n >= UnitMult[Unit(n)])
<1> DEFINE U == {i \in 0..4 : i = 0 \/ n >= UnitMult[i]}
<1>1. 0 \in U /\ U \subseteq 0..4
  OBVIOUS
<1>2. \E x \in U : \A y \in U : x >= y
  <2> HIDE DEF U
  <2>1. CASE 4 \in U
    BY <1>1, <2>1
  <2>2. CASE 4 \notin U /\ 3 \in U
    BY <1>1, <2>2
  <2>3. CASE 4 \notin U /\ 3 \notin U /\ 2 \in U
    BY <1>1, <2>3
  <2>4. CASE 4 \notin U /\ 3 \notin U /\ 2 \notin U
    BY <1>1, <2>4
  <2> QED
    BY <2>1, <2>2, <2>3, <2>4
<1>3. Unit(n) \in U
  BY <1>2 DEF Unit, Max
<1> QED
  BY <1>3

\* A size that is printed and read is off by six in a hundred at most.
Close(shown, true) == 20 * shown <= 21 * true /\ 47 * true <= 50 * shown

LEMMA ReadBack ==
  ASSUME Base >= 100, NEW n \in Nat
  PROVE  Parsed(Printed(n)) \in Nat /\ Close(Parsed(Printed(n)), n)
<1> DEFINE unit == UnitMult[Unit(n)]
           p == Bytes(Tenths(n, unit), unit)
<1>1. unit \in Nat \ {0}
  BY UnitFits, UnitMultType
<1>2. Parsed(Printed(n)) = p
  BY DEF Parsed, Printed
<1>3. unit = 1 \/ (n >= unit /\ unit >= Base)
  BY UnitFits, UnitMultType
<1> HIDE DEF unit
<1>4. p \in Nat /\ 20 * p <= 20 * n + unit /\ 20 * n < 20 * p + 20 + unit
  BY <1>1, RoundTrip
<1>5. CASE unit = 1
  <2>1. (10 * n) \div 1 = 10 * n /\ (10 * n) \div 10 = n
    OBVIOUS
  <2>2. Tenths(n, 1) = 10 * n
    BY <2>1 DEF Tenths
  <2>3. p = n
    BY <1>5, <2>1, <2>2 DEF Bytes
  <2> HIDE DEF p
  <2> QED
    BY <1>2, <2>3 DEF Close
<1>6. CASE n >= unit /\ unit >= Base
  <2> HIDE DEF p
  <2> QED
    BY <1>1, <1>2, <1>4, <1>6, BaseAssumption DEF Close
<1> QED
  BY <1>3, <1>5, <1>6

-----------------------------------------------------------------------------
(* Sums *)

\* The partial sums, if there is such a function.
Sums(sum, f, n) == sum = [i \in 0..n |-> IF i = 0 THEN 0 ELSE sum[i - 1] + f[i]]

LEMMA SumsExist ==
  ASSUME NEW f
  PROVE  \A n \in Nat : \E sum : Sums(sum, f, n)
<1> DEFINE S == {n \in Nat : \E sum : Sums(sum, f, n)}
<1>1. 0 \in S
  <2> DEFINE s == [i \in 0..0 |-> 0]
  <2>1. Sums(s, f, 0)
    BY DEF Sums
  <2> QED
    BY <2>1
<1>2. ASSUME NEW n \in Nat, n \in S PROVE n + 1 \in S
  <2>1. PICK s : Sums(s, f, n)
    BY <1>2
  <2> DEFINE t == [i \in 0..(n + 1) |-> IF i = n + 1 THEN s[n] + f[n + 1] ELSE s[i]]
  <2>2. \A i \in 0..n : t[i] = s[i]
    OBVIOUS
  <2>3. \A i \in 0..n : s[i] = IF i = 0 THEN 0 ELSE s[i - 1] + f[i]
    BY <2>1 DEF Sums
  <2>4. ASSUME NEW i \in 0..(n + 1)
        PROVE  t[i] = IF i = 0 THEN 0 ELSE t[i - 1] + f[i]
    <3>1. CASE i = n + 1
      BY <3>1, <2>2
    <3>2. CASE i \in 0..n
      <4>1. i # 0 => i - 1 \in 0..n
        BY <3>2
      <4> HIDE DEF t
      <4>2. i # 0 => t[i - 1] = s[i - 1]
        BY <4>1, <2>2
      <4> QED
        BY <3>2, <2>2, <2>3, <4>2
    <3> QED
      BY <3>1, <3>2
  <2>5. t = [i \in 0..(n + 1) |-> t[i]]
    OBVIOUS
  <2> HIDE DEF t
  <2>6. Sums(t, f, n + 1)
    BY <2>4, <2>5 DEF Sums
  <2> QED
    BY <2>6
<1> HIDE DEF S
<1>3. \A n \in Nat : n \in S
  BY <1>1, <1>2, Induct
<1> QED
  BY <1>3 DEF S

LEMMA SumsUnique ==
  ASSUME NEW f, NEW m \in Nat, NEW n \in Nat, NEW s, NEW t,
         Sums(s, f, m), Sums(t, f, n), NEW k \in Nat, k <= m, k <= n
  PROVE  s[k] = t[k]
<1> DEFINE S == {i \in Nat : i <= k => s[i] = t[i]}
<1>1. 0 \in S
  BY DEF Sums
<1>2. ASSUME NEW i \in Nat, i \in S PROVE i + 1 \in S
  <2> SUFFICES ASSUME i + 1 <= k PROVE s[i + 1] = t[i + 1]
    OBVIOUS
  <2>1. i + 1 \in 0..m /\ i + 1 \in 0..n /\ (i + 1) - 1 = i /\ i + 1 # 0
    OBVIOUS
  <2>2. s[i] = t[i]
    BY <1>2
  <2>3. s[i + 1] = s[i] + f[i + 1]
    BY <2>1 DEF Sums
  <2>4. t[i + 1] = t[i] + f[i + 1]
    BY <2>1 DEF Sums
  <2> QED
    BY <2>2, <2>3, <2>4
<1> HIDE DEF S
<1>3. \A i \in Nat : i \in S
  BY <1>1, <1>2, Induct
<1> QED
  BY <1>3 DEF S

\* A sum is where any such function ends.
LEMMA SumToIs ==
  ASSUME NEW f, NEW n \in Nat, NEW s, Sums(s, f, n)
  PROVE  SumTo(f, n) = s[n]
<1> DEFINE t == CHOOSE sum : Sums(sum, f, n)
<1>1. Sums(t, f, n)
  OBVIOUS
<1>2. SumTo(f, n) = t[n]
  BY DEF SumTo, Sums
<1> HIDE DEF t
<1> QED
  BY <1>1, <1>2, SumsUnique

LEMMA SumToZero ==
  ASSUME NEW f
  PROVE  SumTo(f, 0) = 0
<1>1. PICK s : Sums(s, f, 0)
  BY SumsExist, 0 \in Nat
<1>2. s[0] = 0
  BY <1>1 DEF Sums
<1> QED
  BY <1>1, <1>2, SumToIs

LEMMA SumToNext ==
  ASSUME NEW f, NEW n \in Nat
  PROVE  SumTo(f, n + 1) = SumTo(f, n) + f[n + 1]
<1> DEFINE m == n + 1
<1>1. m \in Nat /\ n <= m /\ n <= n /\ m \in 0..m /\ m # 0 /\ m - 1 = n
  OBVIOUS
<1> HIDE DEF m
<1>2. PICK s : Sums(s, f, n)
  BY SumsExist
<1>3. PICK t : Sums(t, f, m)
  BY <1>1, SumsExist
<1>4. s[n] = t[n]
  BY <1>1, <1>2, <1>3, SumsUnique
<1>5. t[m] = t[n] + f[m]
  BY <1>1, <1>3 DEF Sums
<1>6. SumTo(f, n) = s[n] /\ SumTo(f, m) = t[m]
  BY <1>1, <1>2, <1>3, SumToIs
<1> QED
  BY <1>4, <1>5, <1>6 DEF m

\* If each number is close to its counterpart, so are the sums.
AllClose(f, g, n) ==
    \A i \in 1..n : f[i] \in Nat /\ g[i] \in Nat /\ Close(f[i], g[i])

LEMMA SumsClose ==
  ASSUME NEW f, NEW g, NEW n \in Nat, AllClose(f, g, n)
  PROVE  SumTo(f, n) \in Nat /\ SumTo(g, n) \in Nat /\ Close(SumTo(f, n), SumTo(g, n))
<1> DEFINE Good(i) == SumTo(f, i) \in Nat /\ SumTo(g, i) \in Nat /\ Close(SumTo(f, i), SumTo(g, i))
           S == {i \in Nat : i <= n => Good(i)}
<1>1. 0 \in S
  <2>1. Good(0)
    BY SumToZero DEF Close
  <2> HIDE DEF Good
  <2> QED
    BY <2>1
<1>2. ASSUME NEW i \in Nat, i \in S PROVE i + 1 \in S
  <2> SUFFICES ASSUME i + 1 <= n PROVE Good(i + 1)
    OBVIOUS
  <2>1. Good(i)
    BY <1>2
  <2>2. i + 1 \in 1..n
    OBVIOUS
  <2> DEFINE j == i + 1
  <2>3. f[j] \in Nat /\ g[j] \in Nat /\ Close(f[j], g[j])
    BY <2>2 DEF AllClose
  <2>4. SumTo(f, j) = SumTo(f, i) + f[j] /\ SumTo(g, j) = SumTo(g, i) + g[j]
    BY SumToNext
  <2> HIDE DEF j
  <2> DEFINE a == SumTo(f, i)
             b == SumTo(g, i)
             x == f[j]
             y == g[j]
  <2>5. a \in Nat /\ b \in Nat /\ x \in Nat /\ y \in Nat /\ Close(a, b) /\ Close(x, y)
    BY <2>1, <2>3
  <2> HIDE DEF a, b, x, y
  <2>6. a + x \in Nat /\ b + y \in Nat /\ Close(a + x, b + y)
    BY <2>5 DEF Close
  <2>7. Good(j)
    BY <2>4, <2>6 DEF a, b, x, y
  <2> QED
    BY <2>7 DEF j
<1> HIDE DEF S
<1>3. \A i \in Nat : i \in S
  BY <1>1, <1>2, Induct
<1> QED
  BY <1>3 DEF S

\* Two sums of the same numbers are the same.
LEMMA SumsSame ==
  ASSUME NEW f, NEW g, NEW n \in Nat, Agree(f, g, n)
  PROVE  SumTo(f, n) = SumTo(g, n)
<1> DEFINE S == {i \in Nat : i <= n => SumTo(f, i) = SumTo(g, i)}
<1>1. 0 \in S
  BY SumToZero
<1>2. ASSUME NEW i \in Nat, i \in S PROVE i + 1 \in S
  <2> SUFFICES ASSUME i + 1 <= n PROVE SumTo(f, i + 1) = SumTo(g, i + 1)
    OBVIOUS
  <2>1. f[i + 1] = g[i + 1]
    BY DEF Agree
  <2>2. SumTo(f, i) = SumTo(g, i)
    BY <1>2
  <2> QED
    BY <2>1, <2>2, SumToNext
<1> HIDE DEF S
<1>3. \A i \in Nat : i \in S
  BY <1>1, <1>2, Induct
<1> QED
  BY <1>3 DEF S

-----------------------------------------------------------------------------
(* The page *)

\* Every configured cleaner is one of the eleven that build_cleaners knows.
AsShipped == \A i \in DOMAIN Cleaners : \E j \in 1..11 : Cleaners[i] = AllCleaners[j]

LEMMA AreasOf ==
  ASSUME NEW i \in DOMAIN Cleaners
  PROVE  Cleaners[i].areas \subseteq Areas
<1>1. Cleaners[i] \in Cleaner
  BY CleanerAssumption
<1> QED
  BY <1>1 DEF Cleaner

\* Where each of them does its work.
Does(c, name, areas) == c.name = name /\ c.areas = areas

LEMMA ToolDoes ==
  ASSUME NEW name, NEW tier, NEW area, NEW measured, NEW guard
  PROVE  Does(Tool(name, tier, area, measured, guard), name, {area})
BY DEF Does, Tool

LEMMA PrunedDoes ==
  ASSUME NEW name, NEW tier, NEW areas
  PROVE  Does(Pruned(name, tier, areas), name, areas)
BY DEF Does, Pruned

LEMMA AreaOfName ==
  ASSUME NEW j \in 1..11, NEW c, c = AllCleaners[j]
  PROVE  \/ Does(c, "uv_cache", {"uv"}) \/ Does(c, "npm_cache", {"npm"})
         \/ Does(c, "pnpm_store", {"pnpm"}) \/ Does(c, "simulators", {"sim"})
         \/ Does(c, "brew", {"brew"}) \/ Does(c, "stale_tmp", {"tmp"})
         \/ Does(c, "old_logs", {"logs"}) \/ Does(c, "library_caches", {"caches", "pip"})
         \/ Does(c, "pip_cache", {"pip"})
         \/ Does(c, "cargo_cache", {"registry cache", "registry src"})
         \/ Does(c, "trash", {"trash"})
<1>1. CASE j = 1
  <2>1. c = Tool("uv_cache", "daily", "uv", TRUE, "uv")
    BY <1>1 DEF AllCleaners
  <2>2. Does(c, "uv_cache", {"uv"})
    BY <2>1, ToolDoes
  <2> QED
    BY <2>2
<1>2. CASE j = 2
  <2>1. c = Tool("npm_cache", "daily", "npm", TRUE, "")
    BY <1>2 DEF AllCleaners
  <2>2. Does(c, "npm_cache", {"npm"})
    BY <2>1, ToolDoes
  <2> QED
    BY <2>2
<1>3. CASE j = 3
  <2>1. c = Tool("pnpm_store", "daily", "pnpm", FALSE, "")
    BY <1>3 DEF AllCleaners
  <2>2. Does(c, "pnpm_store", {"pnpm"})
    BY <2>1, ToolDoes
  <2> QED
    BY <2>2
<1>4. CASE j = 4
  <2>1. c = Tool("simulators", "daily", "sim", FALSE, "")
    BY <1>4 DEF AllCleaners
  <2>2. Does(c, "simulators", {"sim"})
    BY <2>1, ToolDoes
  <2> QED
    BY <2>2
<1>5. CASE j = 5
  <2>1. c = Tool("brew", "daily", "brew", FALSE, "")
    BY <1>5 DEF AllCleaners
  <2>2. Does(c, "brew", {"brew"})
    BY <2>1, ToolDoes
  <2> QED
    BY <2>2
<1>6. CASE j = 6
  <2>1. c = Pruned("stale_tmp", "daily", {"tmp"})
    BY <1>6 DEF AllCleaners
  <2>2. Does(c, "stale_tmp", {"tmp"})
    BY <2>1, PrunedDoes
  <2> QED
    BY <2>2
<1>7. CASE j = 7
  <2>1. c = Pruned("old_logs", "daily", {"logs"})
    BY <1>7 DEF AllCleaners
  <2>2. Does(c, "old_logs", {"logs"})
    BY <2>1, PrunedDoes
  <2> QED
    BY <2>2
<1>8. CASE j = 8
  <2>1. c = Pruned("library_caches", "sweep", {"caches", "pip"})
    BY <1>8 DEF AllCleaners
  <2>2. Does(c, "library_caches", {"caches", "pip"})
    BY <2>1, PrunedDoes
  <2> QED
    BY <2>2
<1>9. CASE j = 9
  <2>1. c = Tool("pip_cache", "sweep", "pip", TRUE, "")
    BY <1>9 DEF AllCleaners
  <2>2. Does(c, "pip_cache", {"pip"})
    BY <2>1, ToolDoes
  <2> QED
    BY <2>2
<1>10. CASE j = 10
  <2>1. c = Pruned("cargo_cache", "sweep", {"registry cache", "registry src"})
    BY <1>10 DEF AllCleaners
  <2>2. Does(c, "cargo_cache", {"registry cache", "registry src"})
    BY <2>1, PrunedDoes
  <2> QED
    BY <2>2
<1>11. CASE j = 11
  <2>1. c = Pruned("trash", "sweep", {"trash"})
    BY <1>11 DEF AllCleaners
  <2>2. Does(c, "trash", {"trash"})
    BY <2>1, PrunedDoes
  <2> QED
    BY <2>2
<1>12. \/ j = 1 \/ j = 2 \/ j = 3 \/ j = 4 \/ j = 5 \/ j = 6
       \/ j = 7 \/ j = 8 \/ j = 9 \/ j = 10 \/ j = 11
  OBVIOUS
<1> QED
  BY <1>1, <1>2, <1>3, <1>4, <1>5, <1>6, <1>7, <1>8, <1>9, <1>10, <1>11, <1>12, Zenon

\* The words in a cleaner's row put it where the areas it empties belong.
LEMMA BucketHolds ==
  ASSUME AsShipped, NEW i \in DOMAIN Cleaners, NEW b \in Buckets
  PROVE  BucketOf(Cleaners[i].name) = b <=> Cleaners[i].areas \subseteq Holds(b)
<1> DEFINE c == Cleaners[i]
<1>1. c.areas \subseteq Areas
  BY AreasOf
<1>2. PICK j \in 1..11 : c = AllCleaners[j]
  BY DEF AsShipped
<1>3. /\ Holds("Trash") = {"trash"} /\ Holds("Logs & temp") = {"tmp", "logs", "sim"}
      /\ Holds("Caches") = Areas \ {"trash", "tmp", "logs", "sim"}
  BY DEF Holds
<1>4. b \in {"Caches", "Trash", "Logs & temp"}
  BY DEF Buckets
<1> HIDE DEF c
<1>5. CASE Does(c, "simulators", {"sim"}) \/ Does(c, "stale_tmp", {"tmp"}) \/ Does(c, "old_logs", {"logs"})
  <2>1. BucketOf(c.name) = "Logs & temp"
    BY <1>5 DEF BucketOf, Does
  <2>2. c.areas \in {{"sim"}, {"tmp"}, {"logs"}}
    BY <1>5 DEF Does
  <2> QED
    BY <1>3, <1>4, <2>1, <2>2 DEF c
<1>6. CASE Does(c, "trash", {"trash"})
  <2>1. BucketOf(c.name) = "Trash"
    BY <1>6 DEF BucketOf, Does
  <2> QED
    BY <1>3, <1>4, <1>6, <2>1 DEF c, Does
<1>7. CASE \/ Does(c, "uv_cache", {"uv"}) \/ Does(c, "npm_cache", {"npm"})
           \/ Does(c, "pnpm_store", {"pnpm"}) \/ Does(c, "brew", {"brew"})
           \/ Does(c, "pip_cache", {"pip"}) \/ Does(c, "library_caches", {"caches", "pip"})
           \/ Does(c, "cargo_cache", {"registry cache", "registry src"})
  <2>1. BucketOf(c.name) = "Caches"
    BY <1>7 DEF BucketOf, Does
  <2>2. /\ c.areas # {}
        /\ c.areas \cap {"trash", "tmp", "logs", "sim"} = {}
    BY <1>7 DEF Does
  <2> QED
    BY <1>1, <1>3, <1>4, <2>1, <2>2 DEF c
<1> QED
  BY <1>2, <1>5, <1>6, <1>7, AreaOfName

\* What a row says, and how near it is.
LEMMA RowTells ==
  ASSUME Base >= 100, RunOK, WorldOK, CountsTaken, Named, others = 0, ~dry,
         NEW i \in DOMAIN reports
  PROVE  LET row == Row(Weigh(reports[i]))
             true == IF Tells(i) THEN Chunk * took[i] ELSE 0
         IN  /\ row.name = Cleaners[i].name
             /\ Weigh(reports[i]).bytes = true /\ true \in Nat
             /\ LET shown == IF row.check THEN Parsed(row.size) ELSE 0
                IN  shown \in Nat /\ Close(shown, true)
<1> DEFINE r == reports[i]
           true == IF Tells(i) THEN Chunk * took[i] ELSE 0
           p == Parsed(Printed(true))
<1>1. i \in DOMAIN Cleaners
  BY CleanerAssumption DEF RunOK
<1>2. r \in Report
  BY DEF RunOK
<1>3. took[i] \in Nat
  BY <1>1 DEF WorldOK
<1>4. true \in Nat
  BY <1>3, ChunkAssumption, Z3
<1>5. r.bytes = IF Tells(i) THEN took[i] ELSE 0
  BY DEF CountsTaken, Tells
<1>6. took[i] * Chunk = Chunk * took[i] /\ 0 * Chunk = 0
  BY <1>3, ChunkAssumption, Z3
<1>7. /\ Weigh(r).bytes = true
      /\ Weigh(r).name = r.name /\ Weigh(r).outcome = r.outcome
  BY <1>2, <1>5, <1>6 DEF Weigh, Report
<1>8. r.name = Cleaners[i].name
  BY DEF Named
<1>9. p \in Nat /\ Close(p, true)
  BY <1>4, ReadBack
<1>10. r.outcome # "freed" => true = 0
  BY DEF Tells
<1>11. Close(0, 0)
  BY DEF Close
<1>12. /\ Row(Weigh(r)).name = r.name /\ Row(Weigh(r)).check = (r.outcome = "freed")
       /\ Row(Weigh(r)).size = Printed(true)
  BY <1>7 DEF Row
<1> HIDE DEF r, true, p
<1>13. IF r.outcome = "freed" THEN p \in Nat /\ Close(p, true) ELSE 0 \in Nat /\ Close(0, true)
  BY <1>9, <1>10, <1>11
<1> QED
  BY <1>4, <1>7, <1>8, <1>12, <1>13 DEF r, true, p

\* The total, and each bucket, for a run that has ended.
LEMMA PageTells ==
  ASSUME Base >= 100, AsShipped, RunOK, WorldOK, CountsTaken, Named, others = 0, ~dry
  PROVE  LET page == Page(Render([i \in DOMAIN reports |-> Weigh(reports[i])]))
         IN  /\ NearTenth(page.reclaimed, Removed(Areas))
             /\ \A b \in Buckets : Near(Parsed(page.buckets[b]), Removed(Holds(b)))
<1> DEFINE n == Len(reports)
           weighed == [i \in DOMAIN reports |-> Weigh(reports[i])]
           rows == [i \in DOMAIN reports |-> Row(Weigh(reports[i]))]
           sizes == [i \in DOMAIN reports |-> weighed[i].bytes]
           part(areas) == [i \in DOMAIN reports |->
                             IF Tells(i) /\ Cleaners[i].areas \subseteq areas
                               THEN Chunk * took[i] ELSE 0]
           shares(b) == [i \in DOMAIN reports |-> Share(rows[i], b)]
<1>1. n \in Nat /\ DOMAIN reports = 1..n /\ DOMAIN reports \subseteq DOMAIN Cleaners
  BY CleanerAssumption DEF RunOK
<1>2. DOMAIN weighed = 1..n /\ Len(weighed) = n /\ DOMAIN rows = 1..n /\ Len(rows) = n
  BY <1>1
<1>3. Render(weighed) = [rows |-> rows, total |-> Printed(SumTo(sizes, n))]
  BY <1>2 DEF Render, Total
<1>4. \A i \in DOMAIN reports : Cleaners[i].areas \subseteq Areas
  BY <1>1, AreasOf
<1>5. NearTenth(Tenths(Parsed(Printed(SumTo(sizes, n))), UnitMult[3]), Removed(Areas))
  <2> DEFINE total == SumTo(sizes, n)
             g == part(Areas)
  <2>1. \A i \in 1..n : sizes[i] = g[i] /\ g[i] \in Nat
    BY <1>1, <1>4, RowTells
  <2>2. total = Removed(Areas)
    <3>1. Agree(sizes, g, n)
      BY <2>1 DEF Agree
    <3> HIDE DEF n, sizes, g
    <3>2. total = SumTo(g, n)
      BY <1>1, <3>1, SumsSame
    <3> QED
      BY <3>2 DEF Removed, g, n
  <2>3. total \in Nat
    <3>1. \A i \in 1..n : sizes[i] \in Nat
      BY <2>1
    <3>2. \A x \in Nat : Close(x, x)
      BY DEF Close
    <3>3. AllClose(sizes, sizes, n)
      <4> HIDE DEF n, sizes
      <4> QED
        BY <3>1, <3>2 DEF AllClose
    <3> HIDE DEF n, sizes
    <3> QED
      BY <1>1, <3>3, SumsClose
  <2> HIDE DEF total
  <2>4. Parsed(Printed(total)) \in Nat /\ Close(Parsed(Printed(total)), total)
    BY <2>3, ReadBack
  <2> DEFINE p == Parsed(Printed(total))
             gb == UnitMult[3]
             m == Tenths(p, gb) * gb
  <2>5. gb \in Nat \ {0}
    BY UnitMultType
  <2>6. m \in Nat /\ 2 * m <= 20 * p + gb /\ 20 * p <= 2 * m + gb
    <3> HIDE DEF p, gb
    <3> QED
      BY <2>4, <2>5, Rounds DEF p
  <2>7. NearTenth(Tenths(p, gb), total)
    <3>1. 8 * m <= 90 * total + 80 + 4 * gb /\ 70 * total <= 8 * m + 80 + 4 * gb
      <4> HIDE DEF m, gb, p
      <4>1. p \in Nat /\ 20 * p <= 21 * total /\ 47 * total <= 50 * p
        BY <2>4 DEF Close, p
      <4> QED
        BY <2>3, <2>5, <2>6, <4>1
    <3> QED
      BY <3>1 DEF NearTenth
  <2> QED
    BY <2>2, <2>7 DEF total
<1>6. ASSUME NEW b \in Buckets
      PROVE  Near(Parsed(Printed(SumTo(shares(b), n))), Removed(Holds(b)))
  <2> DEFINE shown == SumTo(shares(b), n)
             true == Removed(Holds(b))
             f == shares(b)
             g == part(Holds(b))
  <2>1. ASSUME NEW i \in 1..n PROVE f[i] \in Nat /\ g[i] \in Nat /\ Close(f[i], g[i])
    <3> DEFINE row == Row(Weigh(reports[i]))
    <3>1. i \in DOMAIN reports /\ i \in DOMAIN Cleaners
      BY <1>1
    <3>2. f[i] = IF row.check /\ BucketOf(row.name) = b THEN Parsed(row.size) ELSE 0
      BY <3>1 DEF Share
    <3>3. g[i] = IF Tells(i) /\ Cleaners[i].areas \subseteq Holds(b) THEN Chunk * took[i] ELSE 0
      BY <3>1
    <3>4. BucketOf(row.name) = b <=> Cleaners[i].areas \subseteq Holds(b)
      BY <3>1, RowTells, BucketHolds
    <3>5. Close(0, 0)
      BY DEF Close
    <3> HIDE DEF f, g
    <3> QED
      BY <3>1, <3>2, <3>3, <3>4, <3>5, RowTells
  <2>2. shown = SumTo(f, n) /\ true = SumTo(g, n)
    BY DEF Removed
  <2>3. AllClose(f, g, n)
    BY <2>1 DEF AllClose
  <2> HIDE DEF f, g, shown, true, n
  <2>4. shown \in Nat /\ true \in Nat /\ Close(shown, true)
    BY <1>1, <2>2, <2>3, SumsClose
  <2>5. Parsed(Printed(shown)) \in Nat /\ Close(Parsed(Printed(shown)), shown)
    BY <2>4, ReadBack
  <2>6. Near(Parsed(Printed(shown)), true)
    BY <2>4, <2>5 DEF Close, Near
  <2> QED
    BY <2>6 DEF shown, true, f, n
<1>7. Page(Render(weighed)).reclaimed
        = Tenths(Parsed(Printed(SumTo(sizes, n))), UnitMult[3])
  BY <1>3 DEF Page
<1>8. \A b \in Buckets : Page(Render(weighed)).buckets[b] = Printed(SumTo(shares(b), n))
  <2> SUFFICES ASSUME NEW b \in Buckets
               PROVE  Page(Render(weighed)).buckets[b] = Printed(SumTo(shares(b), n))
    OBVIOUS
  <2> HIDE DEF weighed
  <2>1. Page(Render(weighed)).buckets[b] = Printed(ParseBreakdown(Render(weighed))[b])
    BY DEF Page
  <2>2. Render(weighed).rows = rows
    BY <1>3
  <2> HIDE DEF rows
  <2>3. ParseBreakdown(Render(weighed))[b] = SumTo([i \in DOMAIN rows |-> Share(rows[i], b)], Len(rows))
    BY <2>2 DEF ParseBreakdown
  <2>4. DOMAIN rows = DOMAIN reports /\ Len(rows) = n
    BY <1>1, <1>2
  <2> QED
    BY <2>1, <2>3, <2>4
<1> QED
  BY <1>5, <1>6, <1>7, <1>8

\* A list that build_cleaners has made holds shipped cleaners only.
LEMMA BuiltAsShipped ==
  ASSUME NEW on, Cleaners = BuildCleaners(on)
  PROVE  AsShipped
<1>1. Cleaners \in Seq({AllCleaners[n] : n \in 1..11})
  BY BuildsInOrder DEF Chosen
<1>2. \A i \in DOMAIN Cleaners : Cleaners[i] \in {AllCleaners[n] : n \in 1..11}
  BY <1>1
<1> QED
  BY <1>2 DEF AsShipped

\* What CleanRun asks of a cleaner whose areas are among those there are and
\* whose names are strings, which the provers cannot tell of a literal.
Asked(c) ==
  /\ c \in Cleaner
  /\ \/ c.kind = "tool" /\ \E a \in Areas : c.areas = {a}
     \/ c.kind = "dirs" /\ c.measured

Placed(c) == c.areas \subseteq Areas /\ c.name \in STRING /\ c.guard \in STRING

Fits(c) == Placed(c) => Asked(c)

LEMMA ToolFits ==
  ASSUME NEW name, NEW tier \in {"daily", "sweep"}, NEW area,
         NEW measured \in BOOLEAN, NEW guard
  PROVE  Fits(Tool(name, tier, area, measured, guard))
BY DEF Fits, Placed, Asked, Tool, Cleaner

LEMMA PrunedFits ==
  ASSUME NEW name, NEW tier \in {"daily", "sweep"}, NEW areas
  PROVE  Fits(Pruned(name, tier, areas))
<1> DEFINE c == Pruned(name, tier, areas)
<1>1. SUFFICES ASSUME Placed(c) PROVE Asked(c)
  BY DEF Fits
<1>2. areas \in SUBSET Areas /\ name \in STRING /\ c.guard \in STRING
  BY <1>1 DEF Placed, Pruned
<1>3. ASSUME NEW guard \in STRING
      PROVE  [name |-> name, kind |-> "dirs", tier |-> tier, areas |-> areas,
              measured |-> TRUE, guard |-> guard] \in Cleaner
  BY <1>2 DEF Cleaner
<1>4. c \in Cleaner
  BY <1>2, <1>3 DEF Pruned
<1> QED
  BY <1>4 DEF Asked, Pruned

LEMMA ShippedFits ==
  ASSUME NEW n \in 1..11, NEW c, c = AllCleaners[n]
  PROVE  Fits(c)
<1>1. CASE n = 1
  <2>1. c = Tool("uv_cache", "daily", "uv", TRUE, "uv")
    BY <1>1 DEF AllCleaners
  <2>2. Fits(c)
    BY <2>1, ToolFits
  <2> QED
    BY <2>2
<1>2. CASE n = 2
  <2>1. c = Tool("npm_cache", "daily", "npm", TRUE, "")
    BY <1>2 DEF AllCleaners
  <2>2. Fits(c)
    BY <2>1, ToolFits
  <2> QED
    BY <2>2
<1>3. CASE n = 3
  <2>1. c = Tool("pnpm_store", "daily", "pnpm", FALSE, "")
    BY <1>3 DEF AllCleaners
  <2>2. Fits(c)
    BY <2>1, ToolFits
  <2> QED
    BY <2>2
<1>4. CASE n = 4
  <2>1. c = Tool("simulators", "daily", "sim", FALSE, "")
    BY <1>4 DEF AllCleaners
  <2>2. Fits(c)
    BY <2>1, ToolFits
  <2> QED
    BY <2>2
<1>5. CASE n = 5
  <2>1. c = Tool("brew", "daily", "brew", FALSE, "")
    BY <1>5 DEF AllCleaners
  <2>2. Fits(c)
    BY <2>1, ToolFits
  <2> QED
    BY <2>2
<1>6. CASE n = 6
  <2>1. c = Pruned("stale_tmp", "daily", {"tmp"})
    BY <1>6 DEF AllCleaners
  <2>2. Fits(c)
    BY <2>1, PrunedFits
  <2> QED
    BY <2>2
<1>7. CASE n = 7
  <2>1. c = Pruned("old_logs", "daily", {"logs"})
    BY <1>7 DEF AllCleaners
  <2>2. Fits(c)
    BY <2>1, PrunedFits
  <2> QED
    BY <2>2
<1>8. CASE n = 8
  <2>1. c = Pruned("library_caches", "sweep", {"caches", "pip"})
    BY <1>8 DEF AllCleaners
  <2>2. Fits(c)
    BY <2>1, PrunedFits
  <2> QED
    BY <2>2
<1>9. CASE n = 9
  <2>1. c = Tool("pip_cache", "sweep", "pip", TRUE, "")
    BY <1>9 DEF AllCleaners
  <2>2. Fits(c)
    BY <2>1, ToolFits
  <2> QED
    BY <2>2
<1>10. CASE n = 10
  <2>1. c = Pruned("cargo_cache", "sweep", {"registry cache", "registry src"})
    BY <1>10 DEF AllCleaners
  <2>2. Fits(c)
    BY <2>1, PrunedFits
  <2> QED
    BY <2>2
<1>11. CASE n = 11
  <2>1. c = Pruned("trash", "sweep", {"trash"})
    BY <1>11 DEF AllCleaners
  <2>2. Fits(c)
    BY <2>1, PrunedFits
  <2> QED
    BY <2>2
<1>12. \/ n = 1 \/ n = 2 \/ n = 3 \/ n = 4 \/ n = 5 \/ n = 6
       \/ n = 7 \/ n = 8 \/ n = 9 \/ n = 10 \/ n = 11
  OBVIOUS
<1> QED
  BY <1>1, <1>2, <1>3, <1>4, <1>5, <1>6, <1>7, <1>8, <1>9, <1>10, <1>11, <1>12, Zenon

(***************************************************************************)
(* Whatever is switched on, the list of build_cleaners is one that         *)
(* CleanRun is about: CleanerAssumption asks nothing of the code that it   *)
(* does not do.                                                            *)
(***************************************************************************)
THEOREM BuiltAsAssumed ==
  ASSUME NEW on, \A n \in 1..11 : Placed(AllCleaners[n])
  PROVE  LET built == BuildCleaners(on) IN
         /\ built \in Seq(Cleaner)
         /\ \A i \in DOMAIN built :
              \/ built[i].kind = "tool" /\ \E a \in Areas : built[i].areas = {a}
              \/ built[i].kind = "dirs" /\ built[i].measured
<1> DEFINE All == {AllCleaners[n] : n \in 1..11}
           built == BuildCleaners(on)
<1>1. built \in Seq(All)
  BY BuildsInOrder DEF Chosen
<1>2. \A c \in All : Asked(c)
  BY ShippedFits DEF Fits
<1> HIDE DEF All, built
<1>3. built \in Seq(Cleaner) /\ \A i \in DOMAIN built : built[i] \in All
  BY <1>1, <1>2 DEF Asked
<1>4. \A i \in DOMAIN built :
        \/ built[i].kind = "tool" /\ \E a \in Areas : built[i].areas = {a}
        \/ built[i].kind = "dirs" /\ built[i].measured
  BY <1>2, <1>3 DEF Asked
<1> QED
  BY <1>3, <1>4 DEF built

(***************************************************************************)
(* For any choice of switches, areas of any size and units that are at     *)
(* least a hundred of the next smaller one (the code's are 1024), the page *)
(* that follows a real run which nobody disturbs shows what the run        *)
(* removed, by bucket within an eighth and a byte and in total within that *)
(* and half a tenth of a GB (build_cleaners, execute, render,              *)
(* parse_reclaimed_bytes, parse_breakdown and the page's `{:.1}`).         *)
(***************************************************************************)
THEOREM ResultsTellRunHolds ==
  ASSUME Base >= 100, NEW on, Cleaners = BuildCleaners(on)
  PROVE  Spec => []ResultsTellRun
<1>1. TypeOK /\ CountsTaken /\ Named => ResultsTellRun
  BY BuiltAsShipped, PageTells DEF TypeOK, ResultsTellRun
<1> QED
  BY <1>1, TypeCorrect, CountsTakenHolds, NamedHolds, PTL
=============================================================================
