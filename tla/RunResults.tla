----------------------------- MODULE RunResults -----------------------------
(***************************************************************************)
(* A run and the page that shows what it did: CleanRun's reports as        *)
(* Summary prints and reads them.  An area's unit weighs Chunk bytes.      *)
(***************************************************************************)
EXTENDS CleanRun, Summary

CONSTANT
    Chunk    \* bytes of one unit of an area

ASSUME ChunkAssumption == Chunk \in Nat \ {0}

\* What there is of a bucket on the disk.
Holds(b) ==
    CASE b = "Trash" -> {"trash"}
      [] b = "Logs & temp" -> {"tmp", "logs", "sim"}
      [] OTHER -> Areas \ {"trash", "tmp", "logs", "sim"}

Weigh(r) == [r EXCEPT !.bytes = @ * Chunk]

\* Does the report say what the cleaner has done?
Tells(i) == reports[i].outcome = "freed" /\ Cleaners[i].measured

\* What the cleaners that tell what they did have removed from the areas.
Removed(areas) ==
    SumTo([i \in DOMAIN reports |->
              IF Tells(i) /\ Cleaners[i].areas \subseteq areas THEN Chunk * took[i] ELSE 0],
          Len(reports))

(***************************************************************************)
(* After a real run that nobody disturbs the page's total, to the nearest  *)
(* tenth of a GB, and each of its buckets are, as far as the formatters    *)
(* and the parser go, what the run removed there; cleaners that failed or  *)
(* are not measured tell nothing ("breakdown", bar/spec.md, and            *)
(* parse_breakdown).                                                       *)
(***************************************************************************)
ResultsTellRun ==
    pc = "idle" /\ reports # <<>> /\ ~dry /\ others = 0 =>
      LET page == Page(Render([i \in DOMAIN reports |-> Weigh(reports[i])]))
      IN  /\ NearTenth(page.reclaimed, Removed(Areas))
          /\ \A b \in Buckets : Near(Parsed(page.buckets[b]), Removed(Holds(b)))

=============================================================================
