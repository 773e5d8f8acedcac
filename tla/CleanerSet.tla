----------------------------- MODULE CleanerSet -----------------------------
(***************************************************************************)
(* The cleaners a configuration switches on, in the order in which a run   *)
(* goes through them (build_cleaners, daemon/src/cleaners/mod.rs).  A      *)
(* cleaner is known by its switch in config.toml; an area is a stretch of  *)
(* disk that one cleaner or more may empty.                                *)
(***************************************************************************)
EXTENDS Naturals, Sequences

\* measured: the tool's directory is sized before and after; guard: a process
\* whose presence keeps the tool from being started, or "".
Tool(switch, tier, area, measured, guard) ==
    [name |-> switch, kind |-> "tool", tier |-> tier, areas |-> {area},
     measured |-> measured, guard |-> guard]

Pruned(switch, tier, areas) ==
    [name |-> switch, kind |-> "dirs", tier |-> tier, areas |-> areas,
     measured |-> TRUE, guard |-> ""]

\* pip's cache is one of the entries of ~/Library/Caches.
AllCleaners ==
    << Tool("uv_cache",   "daily", "uv",   TRUE,  "uv"),
       Tool("npm_cache",  "daily", "npm",  TRUE,  ""),
       Tool("pnpm_store", "daily", "pnpm", FALSE, ""),
       Tool("simulators", "daily", "sim",  FALSE, ""),
       Tool("brew",       "daily", "brew", FALSE, ""),
       Pruned("stale_tmp",      "daily", {"tmp"}),
       Pruned("old_logs",       "daily", {"logs"}),
       Pruned("library_caches", "sweep", {"caches", "pip"}),
       Tool("pip_cache",  "sweep", "pip",  TRUE,  ""),
       Pruned("cargo_cache",    "sweep", {"registry cache", "registry src"}),
       Pruned("trash",          "sweep", {"trash"}) >>

BuildCleaners(switches) ==
    LET built[n \in 0..Len(AllCleaners)] ==
          IF n = 0 THEN <<>>
          ELSE IF AllCleaners[n].name \in switches THEN Append(built[n - 1], AllCleaners[n])
          ELSE built[n - 1]
    IN  built[Len(AllCleaners)]
=============================================================================
