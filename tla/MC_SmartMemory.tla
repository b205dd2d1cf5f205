--------------------------- MODULE MC_SmartMemory ---------------------------
(* Two sessions, and two lines: a long user line with the remember        *)
(* keyword and a short user line with the "next step" phrase (which        *)
(* includes "step" too).  Two conversations that open with the same long   *)
(* line share its slug, as two questions that begin alike do.  Lines the  *)
(* parser drops (slash commands, other roles) would only multiply the      *)
(* transcripts without reaching another branch of the hook.                *)
EXTENDS SmartMemory

CONSTANTS s1, s2

MCSessions == {s1, s2}

MCIncludes ==
    [p \in {"remember this", "next step"} |->
        IF p = "remember this" THEN {"remember"} ELSE {"next step", "step"}]

Line(type, role, text, slash, slug) ==
    [type |-> type, role |-> role, text |-> text, slash |-> slash, slug |-> slug]

MCEntries ==
    { Line("message", "user", {"remember this"}, FALSE, "remember-this"),
      Line("message", "user", {"next step"}, FALSE, None) }

MCSymmetry == Permutations(MCSessions)
=============================================================================
