------------------------------ MODULE Summary -------------------------------
(***************************************************************************)
(* What a run tells the menu bar: the report that the daemon prints        *)
(* (RunReport::render and CleanReport::line, daemon/src/report.rs), the    *)
(* bar's reading of that text (bar/src/bridge.rs, run_capture of           *)
(* bar/src/actions.rs) and the results page made of it.  A size passes     *)
(* through two formatters and a parser; the text around it is abstracted.  *)
(***************************************************************************)
EXTENDS Integers, SequencesExt

CONSTANT
    Base    \* 1024: how many of a unit make the next one

ASSUME BaseAssumption == Base \in Nat /\ Base > 1

Buckets == {"Caches", "Trash", "Logs & temp"}

\* f[1] + ... + f[n]
SumTo(f, n) ==
    LET sum[i \in 0..n] == IF i = 0 THEN 0 ELSE sum[i - 1] + f[i]
    IN  sum[n]

\* How many bytes the units B, KB, MB, GB and TB stand for.
UnitMult[i \in 0..4] == IF i = 0 THEN 1 ELSE Base * UnitMult[i - 1]

\* The largest unit of which a size has one.
Unit(n) == Max({i \in 0..4 : i = 0 \/ n >= UnitMult[i]})

\* One decimal place, rounded to the nearest and from the middle to the even one.
Tenths(n, unit) ==
    LET t == (10 * n) \div unit
        over == 2 * (10 * n - unit * t)
    IN  IF over > unit \/ (over = unit /\ t % 2 = 1) THEN t + 1 ELSE t

\* A number of units, the fraction of a byte cut off.
Bytes(tenths, unit) == (tenths * unit) \div 10

\* format_bytes, in both programs.
Printed(n) == [tenths |-> Tenths(n, UnitMult[Unit(n)]), unit |-> Unit(n)]

\* parse_size_field
Parsed(size) == Bytes(size.tenths, UnitMult[size.unit])

\* What a report's line carries: only a cleaner that has done its work is
\* printed with a check mark and a size.
Row(r) == [name |-> r.name, check |-> r.outcome = "freed", size |-> Printed(r.bytes)]

Total(reports) == SumTo([i \in DOMAIN reports |-> reports[i].bytes], Len(reports))

Render(reports) ==
    [rows |-> [i \in DOMAIN reports |-> Row(reports[i])], total |-> Printed(Total(reports))]

\* Variant: "tmp" is not among the words.
BucketOf_NoTmp(name) ==
    CASE name = "trash" -> "Trash"
      [] name \in {"old_logs", "simulators"} -> "Logs & temp"
      [] OTHER -> "Caches"

\* parse_breakdown goes by the words in a row: "trash", "log", "tmp", "simctl".
BucketOf(name) ==
    CASE name = "trash" -> "Trash"
      [] name \in {"old_logs", "stale_tmp", "simulators"} -> "Logs & temp"
      [] OTHER -> "Caches"

\* What a row adds to bucket b.
Share(row, b) == IF row.check /\ BucketOf(row.name) = b THEN Parsed(row.size) ELSE 0

ParseBreakdown(output) ==
    LET rows == output.rows
    IN  [b \in Buckets |-> SumTo([i \in DOMAIN rows |-> Share(rows[i], b)], Len(rows))]

\* The page shows the total in GB with one decimal place, in whatever unit it
\* came, and each bucket as format_bytes prints it.
Page(output) ==
    LET buckets == ParseBreakdown(output)
    IN  [ reclaimed |-> Tenths(Parsed(output.total), UnitMult[3]),
          buckets |-> [b \in Buckets |-> Printed(buckets[b])] ]

\* Where no output comes, the page shows zeros: the binary is missing, cannot
\* be started, or left before it printed.
EmptyPage == [reclaimed |-> 0, buckets |-> [b \in Buckets |-> Printed(0)]]

\* A size that has been printed and read n times is as good as this.
Near(shown, true) == 8 * shown <= 9 * true + 8 /\ 7 * true <= 8 * shown + 8

\* And a total in tenths of a GB by half of one less, here in tenths of a byte.
NearTenth(tenths, true) ==
    LET gb == UnitMult[3]
        shown == tenths * gb
    IN  8 * shown <= 90 * true + 80 + 4 * gb /\ 70 * true <= 8 * shown + 80 + 4 * gb

=============================================================================
