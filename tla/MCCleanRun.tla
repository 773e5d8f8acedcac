---------------------------- MODULE MCCleanRun ----------------------------
(* Cleaners of both kinds and both tiers, two of which share an area. *)
EXTENDS RunResults, CleanerSet, Config

SomeCleaners == BuildCleaners({"uv_cache", "stale_tmp", "library_caches", "pip_cache"})
SomeAreas == UNION {SomeCleaners[i].areas : i \in DOMAIN SomeCleaners}

\* The page of a run in which all were skipped or failed, and of one that freed
\* nothing, cannot be told from that of a clean which printed no report.
ASSUME \A outcome \in [DOMAIN SomeCleaners -> {"skipped", "error", "freed"}] :
    Page(Render([i \in DOMAIN outcome |->
        [name |-> SomeCleaners[i].name, outcome |-> outcome[i], bytes |-> 0]])) = EmptyPage

\* The cleaners of the file that is shipped are all there are; leaving a table
\* out of it changes nothing, and neither does leaving out a field, but for the
\* age of the logs and of the trash, which is then less than half as long.
ASSUME
    /\ Load(Shipped) = Shipped
    /\ BuildCleaners(Enabled(Load(Shipped))) = AllCleaners
    /\ \A t \in Tables : \A fields \in SUBSET Fields(t) :
           LET file == [s \in Tables \ {t} |-> Shipped[s]]
               less == [s \in {t} |-> [f \in fields |-> Shipped[t][f]]]
           IN  /\ Load(file) = Shipped
               /\ Load(less) = Shipped <=> (t \in {"old_logs", "trash"} => "age_days" \in fields)

\* Every size comes through the daemon's formatter, the bar's parser and, in a
\* bucket, the bar's formatter and the reader as good as itself, and in the
\* total but for half a tenth of a GB, of which what is less than that shows
\* nothing.
ASSUME \A n \in 0..3000 :
    LET once == Parsed(Printed(n))
        total == Tenths(once, UnitMult[3])
    IN  /\ Near(once, n) /\ Near(Parsed(Printed(once)), n)
        /\ NearTenth(total, n)
        /\ total = 0 <=> 20 * once <= UnitMult[3]
=============================================================================
