-------------------------- MODULE MC_MigrateImport --------------------------
(***************************************************************************)
(* The export instance of MC_MigrateExport, imported on a machine that    *)
(* already has its own AGENTS.md and the managed SKILL.md.  The store has *)
(* two session keys and --max-sessions is 1, so the summary is still cut  *)
(* and two entries can share an updatedAt.                                 *)
(***************************************************************************)
EXTENDS MigrateImport, MC_MigrateExport

MCTargetExisting ==
    { f \in MCFiles : f.path \in {<<"AGENTS.md">>, <<"SKILL.md">>} }

MCRoundTripSessionKeys == <<"main", "cron">>

=============================================================================
