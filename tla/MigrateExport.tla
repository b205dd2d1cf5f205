--------------------------- MODULE MigrateExport ----------------------------
(***************************************************************************)
(* `qverisbot migrate export`: migrateExport in                            *)
(* src/src/commands/migrate/sessions-summary.ts with redact-files.ts and   *)
(* manifest.ts.  One agent's workspace (core files, the memory, skills and *)
(* .agents subdirectories, the state marker), the managed and personal     *)
(* skills are copied to a staging directory and redacted in place; the     *)
(* newest sessions are summarised; a manifest with the merged redaction    *)
(* statistics is written; the staging directory is packed to the output   *)
(* tarball and removed in the finally block.  Every fs call may reject:   *)
(* some rejections are swallowed where the code catches them, the others  *)
(* end the export.                                                        *)
(*                                                                         *)
(* A file is a record: its area and path, its extension (None when it has  *)
(* none), whether its base name is upper case or starts with ".", whether  *)
(* it is a regular file, and the secret it holds: "none", or "known" when *)
(* one of the default redaction patterns matches it.                       *)
(***************************************************************************)
EXTENDS Naturals, Sequences, FiniteSets, SequencesExt

CONSTANTS
    Files,        \* the files under the agent workspace and skills roots
    SessionKeys,  \* the keys of the agent's sessions.json, in store order
    Entries,      \* the session entries a store can hold
    MaxSessions,  \* --max-sessions, or 200
    NoSkills,     \* --no-skills
    NoSessions,   \* --no-sessions
    None

Areas == {"workspace", "managed", "personal"}
Staged == [src : Files, secret : {"none", "known"}]
Stats == [filesScanned : Nat, filesChanged : Nat, replacements : Nat]
Output == [files : SUBSET Staged, complete : BOOLEAN]
Summary == [sessionKey : ToSet(SessionKeys), updatedAt : Nat]
(* manifest.ts lines 21-34: the MigrateBundle fields a property reads.    *)
Manifest == [version : {1}, agents : Seq({"agent"}), hasManagedSkills : BOOLEAN,
             hasPersonalSkills : BOOLEAN, hasSessions : BOOLEAN, redaction : Stats]

VARIABLES
    pc,          \* the next await of migrateExport
    store,       \* the session store loadSessionStore returned, or None
    staged,      \* the files in the staging directory
    unwalked,    \* staged files under a directory whose readdir rejected
    unread,      \* staged text files whose readFile rejected
    stats,       \* allRedactStats, in push order
    has,         \* skills area -> dirHasContent of its staged directory
    summaries,   \* the sessions-summary.json written, or None
    manifest,    \* manifest.json as written, or None
    output,      \* the file at outputPath, or None
    failed       \* an error escaped into the finally block

vars == <<pc, store, staged, unwalked, unread, stats, has, summaries, manifest,
          output, failed>>

-----------------------------------------------------------------------------
(* redact-files.ts lines 11-24.                                            *)
TEXT_EXTENSIONS == {".md", ".txt", ".json", ".yaml", ".yml", ".toml", ".env",
                    ".sh", ".ts", ".js", ".mjs", ".cjs"}

(* redact-files.ts lines 26-38: a text extension, or none and a base name  *)
(* that is upper case or starts with ".".                                  *)
isTextFile(f) == f.ext \in TEXT_EXTENSIONS \/ (f.ext = None /\ f.upperOrDot)

(* redact-files.ts lines 44-57: the default patterns replace a known       *)
(* secret; anything else is left as it is.                                 *)
forceRedactText(secret) == IF secret = "known" THEN "none" ELSE secret

(* redact-files.ts lines 63-81: a text file whose readFile succeeds is     *)
(* rewritten redacted; the result says whether it changed.                 *)
redactFileInPlace(g, unreadable) ==
    IF isTextFile(g.src) /\ g \notin unreadable
    THEN [g EXCEPT !.secret = forceRedactText(@)] ELSE g

(* The directories the walk of an area lists: the area root and every     *)
(* directory above a staged file.                                         *)
Dirs(files) == UNION { Prefixes(g.src.path) \ {g.src.path} : g \in files }

(* The staged files below one of the given directories.                   *)
Below(files, dirs) == { g \in files : \E d \in dirs : IsPrefix(d, g.src.path) }

(* Mutant: the walk does not descend into subdirectories.                 *)
redactDirectoryInPlace_topOnly(files, badDirs, unreadable) ==
    LET walked == { g \in files \ Below(files, badDirs) : Len(g.src.path) = 1 }
        changed == { g \in walked : redactFileInPlace(g, unreadable) # g }
    IN  [files |-> { IF g \in walked THEN redactFileInPlace(g, unreadable) ELSE g :
                       g \in files },
         stats |-> [filesScanned |-> Cardinality(walked),
                    filesChanged |-> Cardinality(changed),
                    replacements |-> Cardinality(changed)]]

(* Mutant: only text files are counted as scanned.                        *)
redactDirectoryInPlace_textOnly(files, badDirs, unreadable) ==
    LET walked == files \ Below(files, badDirs)
        changed == { g \in walked : redactFileInPlace(g, unreadable) # g }
    IN  [files |-> { IF g \in walked THEN redactFileInPlace(g, unreadable) ELSE g :
                       g \in files },
         stats |-> [filesScanned |-> Cardinality({ g \in walked : isTextFile(g.src) }),
                    filesChanged |-> Cardinality(changed),
                    replacements |-> Cardinality(changed)]]

(* redact-files.ts lines 87-113: the recursive walk of an area.  A        *)
(* directory whose readdir rejects is passed with everything below it;    *)
(* every file reached is scanned, and counted changed with one            *)
(* replacement when its rewrite differs.                                  *)
redactDirectoryInPlace(files, badDirs, unreadable) ==
    LET walked == files \ Below(files, badDirs)
        changed == { g \in walked : redactFileInPlace(g, unreadable) # g }
    IN  [files |-> { IF g \in walked THEN redactFileInPlace(g, unreadable) ELSE g :
                       g \in files },
         stats |-> [filesScanned |-> Cardinality(walked),
                    filesChanged |-> Cardinality(changed),
                    replacements |-> Cardinality(changed)]]

(* redact-files.ts lines 118-127.                                          *)
mergeRedactStats(seq) ==
    [filesScanned |-> FoldLeft(LAMBDA a, s : a + s.filesScanned, 0, seq),
     filesChanged |-> FoldLeft(LAMBDA a, s : a + s.filesChanged, 0, seq),
     replacements |-> FoldLeft(LAMBDA a, s : a + s.replacements, 0, seq)]

(* Mutant: the comparator is swapped and the oldest sessions come first.  *)
buildSessionSummaries_ascending(st) ==
    LET valid == SelectSeq(SessionKeys, LAMBDA k : st[k] # None /\ st[k].sessionId)
        before(i, j) == \/ st[valid[i]].updatedAt < st[valid[j]].updatedAt
                        \/ st[valid[i]].updatedAt = st[valid[j]].updatedAt /\ i < j
        rank(i) == Cardinality({ j \in DOMAIN valid : before(j, i) }) + 1
        sorted == [r \in DOMAIN valid |-> valid[CHOOSE i \in DOMAIN valid : rank(i) = r]]
        n == IF MaxSessions > 1 THEN MaxSessions ELSE 1
    IN  [r \in 1 .. IF Len(sorted) < n THEN Len(sorted) ELSE n |->
           [sessionKey |-> sorted[r], updatedAt |-> st[sorted[r]].updatedAt]]

(* sessions-summary.ts lines 20-56: the entries with a sessionId, in      *)
(* store order, stably sorted by updatedAt descending, the first           *)
(* max(1, maxSessions) of them.                                            *)
buildSessionSummaries(st) ==
    LET valid == SelectSeq(SessionKeys, LAMBDA k : st[k] # None /\ st[k].sessionId)
        before(i, j) == \/ st[valid[i]].updatedAt > st[valid[j]].updatedAt
                        \/ st[valid[i]].updatedAt = st[valid[j]].updatedAt /\ i < j
        rank(i) == Cardinality({ j \in DOMAIN valid : before(j, i) }) + 1
        sorted == [r \in DOMAIN valid |-> valid[CHOOSE i \in DOMAIN valid : rank(i) = r]]
        n == IF MaxSessions > 1 THEN MaxSessions ELSE 1
    IN  [r \in 1 .. IF Len(sorted) < n THEN Len(sorted) ELSE n |->
           [sessionKey |-> sorted[r], updatedAt |-> st[sorted[r]].updatedAt]]

(* sessions-summary.ts lines 112-128 and 164-176: the workspace files     *)
(* stageAgentWorkspace copies: the core files, the regular files below     *)
(* the three subdirectories, and the state marker.                         *)
WORKSPACE_CORE_FILES == {"AGENTS.md", "SOUL.md", "TOOLS.md", "IDENTITY.md",
                         "USER.md", "HEARTBEAT.md", "BOOTSTRAP.md", "MEMORY.md",
                         "memory.md"}
WORKSPACE_SUBDIRS == {"memory", "skills", ".agents"}
WORKSPACE_STATE_SUBPATH == <<".openclaw", "workspace-state.json">>
IsCoreFile(f) == \/ Len(f.path) = 1 /\ f.path[1] \in WORKSPACE_CORE_FILES
                 \/ f.path = WORKSPACE_STATE_SUBPATH
InSubdir(f) == Len(f.path) > 1 /\ f.path[1] \in WORKSPACE_SUBDIRS /\ f.regular

Fresh(files) == { [src |-> f, secret |-> f.secret] : f \in files }

(* manifest.ts line 4.                                                     *)
MIGRATE_BUNDLE_VERSION == 1

(* Mutant: the manifest is written without its version field.            *)
buildManifest_noVersion(params) == params

(* manifest.ts lines 39-56: the version and the given fields (the bundle  *)
(* id, creation time and source platform are data no property reads).     *)
buildManifest(params) == [version |-> MIGRATE_BUNDLE_VERSION] @@ params

-----------------------------------------------------------------------------
Init ==
    /\ pc = "workspace"
    /\ store = None
    /\ staged = {}
    /\ unwalked = {}
    /\ unread = {}
    /\ stats = <<>>
    /\ has = [a \in {"managed", "personal"} |-> FALSE]
    /\ summaries = None
    /\ manifest = None
    /\ output = None
    /\ failed = FALSE

(* A rejection escapes into the finally block.                            *)
Abort ==
    /\ pc' = "cleanup"
    /\ failed' = TRUE

(* Lines 229-236: the staged directory of a skills root has content when  *)
(* its readdir lists an entry; a rejected readdir is caught as false.      *)
dirHasContent(files) == {files # {}, FALSE}

(* Redact a staged area in place and push its statistics; next is the     *)
(* step after it.  A rejected writeFile of a redacted text escapes with    *)
(* the area copied.                                                       *)
RedactArea(area, copied, next) ==
    \E badDirs \in SUBSET Dirs(copied),
       unreadable \in SUBSET { g \in copied : isTextFile(g.src) } :
        LET r == redactDirectoryInPlace(copied, badDirs, unreadable)
        IN  \/ /\ staged' = staged \cup r.files
               /\ unwalked' = unwalked \cup Below(copied, badDirs)
               /\ unread' = unread \cup (unreadable \ Below(copied, badDirs))
               /\ stats' = Append(stats, r.stats)
               /\ \E listed \in dirHasContent(r.files) :
                     has' = IF area = "workspace" THEN has
                            ELSE [has EXCEPT ![area] = listed]
               /\ pc' = next
               /\ UNCHANGED failed
            \/ /\ r.stats.filesChanged > 0
               /\ staged' = staged \cup copied
               /\ Abort
               /\ UNCHANGED <<unwalked, unread, stats, has>>

(* sessions-summary.ts lines 178-207 (one agent, lines 263-277):          *)
(* copyFileIfExists swallows a rejected copy of a core file (143-151);     *)
(* the staging mkdir or a rejected copy below a subdirectory escapes.      *)
StageAgentWorkspace ==
    LET wanted == { f \in Files : f.area = "workspace" /\ (IsCoreFile(f) \/ InSubdir(f)) }
    IN  /\ pc = "workspace"
        /\ \/ \E lost \in SUBSET { f \in wanted : IsCoreFile(f) } :
                RedactArea("workspace", Fresh(wanted \ lost),
                           IF NoSkills THEN "sessions" ELSE "managed")
           \/ Abort /\ UNCHANGED <<staged, unwalked, unread, stats, has>>
        /\ UNCHANGED <<store, summaries, manifest, output>>

(* Lines 209-227 and 282-290: a skills root is copied whole when it       *)
(* exists and redacted, and dirHasContent of the copy is read.            *)
StageSkills(area, next) ==
    LET copied == Fresh({ f \in Files : f.area = area /\ f.regular })
    IN  /\ pc = area
        /\ \/ RedactArea(area, copied, next)
           \/ /\ copied # {}
              /\ Abort
              /\ UNCHANGED <<staged, unwalked, unread, stats, has>>
        /\ UNCHANGED <<store, summaries, manifest, output>>

(* Lines 292-318: unless --no-sessions, the agent's store is loaded (a    *)
(* rejected load yields no summaries) and a non-empty summary is written  *)
(* with its markdown; a rejected write escapes.                           *)
WriteSessions ==
    /\ pc = "sessions"
    /\ \E st \in [ToSet(SessionKeys) -> Entries \cup {None}] \cup {None} :
         LET s == IF NoSessions \/ st = None THEN <<>> ELSE buildSessionSummaries(st)
         IN  /\ store' = IF NoSessions THEN None ELSE st
             /\ \/ /\ summaries' = IF s = <<>> THEN None ELSE s
                   /\ pc' = "manifest"
                   /\ UNCHANGED failed
                \/ /\ s # <<>>
                   /\ Abort
                   /\ UNCHANGED summaries
    /\ UNCHANGED <<staged, unwalked, unread, stats, has, manifest, output>>

(* Lines 320-346: the manifest with the merged statistics, the README,    *)
(* agent.json and the output directory; any of the writes may reject.     *)
WriteManifest ==
    /\ pc = "manifest"
    /\ manifest' = buildManifest([agents |-> <<"agent">>,
                                  hasManagedSkills |-> has["managed"],
                                  hasPersonalSkills |-> has["personal"],
                                  hasSessions |-> summaries # None,
                                  redaction |-> mergeRedactStats(stats)])
    /\ \/ pc' = "pack" /\ UNCHANGED failed
       \/ Abort
    /\ UNCHANGED <<store, staged, unwalked, unread, stats, has, summaries, output>>

(* Lines 348-360: tar writes the staging directory to outputPath; a       *)
(* rejection leaves the file it had begun, and a rejected stat of the      *)
(* finished file escapes too.                                             *)
Pack ==
    /\ pc = "pack"
    /\ \/ /\ output' = [files |-> staged, complete |-> TRUE]
          /\ \/ pc' = "cleanup" /\ UNCHANGED failed
             \/ Abort
       \/ /\ output' = [files |-> {}, complete |-> FALSE]
          /\ Abort
    /\ UNCHANGED <<store, staged, unwalked, unread, stats, has, summaries, manifest>>

(* Lines 374-376: the finally block removes the staging directory.        *)
Cleanup ==
    /\ pc = "cleanup"
    /\ pc' = "done"
    /\ staged' = {}
    /\ UNCHANGED <<store, unwalked, unread, stats, has, summaries, manifest, output, failed>>

Next ==
    \/ StageAgentWorkspace
    \/ StageSkills("managed", "personal")
    \/ StageSkills("personal", "sessions")
    \/ WriteSessions
    \/ WriteManifest
    \/ Pack
    \/ Cleanup

Spec == Init /\ [][Next]_vars

-----------------------------------------------------------------------------
TypeOK ==
    /\ pc \in {"workspace", "managed", "personal", "sessions", "manifest", "pack",
              "cleanup", "done"}
    /\ store \in [ToSet(SessionKeys) -> Entries \cup {None}] \cup {None}
    /\ staged \subseteq Staged
    /\ unwalked \cup unread \subseteq Staged
    /\ stats \in Seq(Stats)
    /\ summaries \in Seq(Summary) \cup {None}
    /\ manifest \in Manifest \cup {None}
    /\ output \in Output \cup {None}
    /\ failed \in BOOLEAN

Complete == output # None /\ output.complete

(* The redaction of lines 205-206 and 216/226: in a finished bundle a     *)
(* known-format secret survives only in a file isTextFile rejects, below a *)
(* directory whose readdir rejected, or in a text file whose readFile      *)
(* rejected; every other staged file of every area was rewritten.          *)
BundleRedactedUnlessSkipped ==
    Complete =>
        \A g \in output.files :
            g.secret = "known" => ~isTextFile(g.src) \/ g \in unwalked \/ g \in unread

(* The manifest (lines 321-331) describes the bundle it is packed with:   *)
(* it counts as scanned every bundled file the walks reached, and as      *)
(* changed exactly the bundled files whose content redaction rewrote.     *)
ManifestMatchesBundle ==
    Complete =>
        LET rewritten == { g \in output.files : g.secret # g.src.secret }
        IN  /\ manifest.redaction.filesScanned = Cardinality(output.files \ unwalked)
            /\ manifest.redaction.filesChanged = Cardinality(rewritten)
            /\ manifest.redaction.replacements = Cardinality(rewritten)

(* What buildSessionSummaries promises (lines 15-19): the summaries are   *)
(* the max(1, maxSessions) most recently updated sessions of the store     *)
(* that have a sessionId, newest first, equal times in store order.        *)
SummariesAreNewest ==
    summaries # None =>
        LET V == { i \in DOMAIN SessionKeys :
                     store[SessionKeys[i]] # None /\ store[SessionKeys[i]].sessionId }
            at(i) == store[SessionKeys[i]].updatedAt
            newer(i, j) == at(i) > at(j) \/ (at(i) = at(j) /\ i < j)
            n == IF MaxSessions > 1 THEN MaxSessions ELSE 1
            pos(r) == CHOOSE i \in DOMAIN SessionKeys : SessionKeys[i] = summaries[r].sessionKey
            chosen == { pos(r) : r \in DOMAIN summaries }
        IN  /\ Len(summaries) = IF Cardinality(V) < n THEN Cardinality(V) ELSE n
            /\ chosen \subseteq V
            /\ Cardinality(chosen) = Len(summaries)
            /\ \A r \in DOMAIN summaries : summaries[r].updatedAt = at(pos(r))
            /\ \A r, q \in DOMAIN summaries : r < q => newer(pos(r), pos(q))
            /\ \A i \in chosen, j \in V \ chosen : newer(i, j)

(* The bundle README (manifest.ts lines 108-115) says API keys, tokens    *)
(* and credentials are not included: no file of a finished bundle holds a *)
(* known-format secret.                                                   *)
NoSecretInBundle ==
    Complete => \A g \in output.files : g.secret # "known"

=============================================================================
