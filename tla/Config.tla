------------------------------- MODULE Config -------------------------------
(***************************************************************************)
(* What the daemon makes of config.toml (daemon/src/config.rs): each       *)
(* cleaner's switch and, for one that goes by age, its age in days.  A     *)
(* file holds some of the tables, each with some of its fields; a switch   *)
(* that stands alone is a table of one field here.                         *)
(***************************************************************************)
EXTENDS Naturals

Switches == {"uv_cache", "npm_cache", "pnpm_store", "simulators", "brew", "pip_cache"}
AgeDirs  == {"old_logs", "library_caches", "cargo_cache", "trash"}
Tables   == Switches \union AgeDirs \union {"stale_tmp"}

\* What may be written in a table.
Fields(t) == IF t \in Switches THEN {"enabled"} ELSE {"enabled", "age_days"}

Setting(t, age) == [f \in Fields(t) |-> IF f = "enabled" THEN TRUE ELSE age]

\* Config::default, the file that init-config and install write.
Shipped ==
    [t \in Tables |-> Setting(t, CASE t = "stale_tmp" -> 7
                                   [] t \in {"old_logs", "trash"} -> 30
                                   [] OTHER -> 14)]

\* The default of a table's own type, which knows nothing of where it stands.
OfType(t) == Setting(t, IF t = "stale_tmp" THEN 7 ELSE 14)

\* Config::load: a table that is not there is the shipped one, and a field
\* that is missing from a table which is there comes from the table's type.
Load(file) ==
    [t \in Tables |->
        IF t \in DOMAIN file
          THEN [f \in Fields(t) |-> IF f \in DOMAIN file[t] THEN file[t][f] ELSE OfType(t)[f]]
          ELSE Shipped[t]]

Enabled(config) == {t \in Tables : config[t].enabled}
=============================================================================
