-------------------------- MODULE MC_MigrateExport --------------------------
(***************************************************************************)
(* One agent workspace with a core file, a note below memory/, a helper    *)
(* script below skills/ and a symlink; one managed and one personal skill  *)
(* file.  Every file holds a known-format secret, so each way a secret can *)
(* survive the export is reachable.  Three session keys whose entries may  *)
(* lack a sessionId, be absent, or share an updatedAt, with                *)
(* --max-sessions 2 so that the summary is cut.                            *)
(***************************************************************************)
EXTENDS MigrateExport

File(area, path, ext, upperOrDot, regular) ==
    [area |-> area, path |-> path, ext |-> ext, upperOrDot |-> upperOrDot,
     regular |-> regular, secret |-> "known"]

MCFiles ==
    { File("workspace", <<"AGENTS.md">>, ".md", TRUE, TRUE),
      File("workspace", <<"memory", "notes.md">>, ".md", FALSE, TRUE),
      File("workspace", <<"memory", "link.md">>, ".md", FALSE, FALSE),
      File("workspace", <<"skills", "tool.py">>, ".py", FALSE, TRUE),
      File("managed", <<"SKILL.md">>, ".md", TRUE, TRUE),
      File("personal", <<"config">>, None, FALSE, TRUE) }

MCSessionKeys == <<"main", "cron", "thread">>

MCEntries == [sessionId : BOOLEAN, updatedAt : 0 .. 1]

=============================================================================
