--------------------------- MODULE MigrateImport ----------------------------
(***************************************************************************)
(* `qverisbot migrate import <bundle>`: migrateImport in                   *)
(* src/unnamed/part_004 (commands/migrate/import.ts), run on the bundle    *)
(* the export of MigrateExport left at its output path.  The steps run in  *)
(* the order of the code: extract the archive, read and validate           *)
(* manifest.json, place the agent workspace, the managed and the personal  *)
(* skills (copyDirRecursive, merging or overwriting), write the config     *)
(* with the workspace path, then the optional session reset and gateway    *)
(* sync.  A bundle given as an http(s) URL is first downloaded to a       *)
(* temporary file.  A rejection before the try block (a mkdtemp, the       *)
(* download) ends the import at once; any later one ends it in the finally *)
(* block, which removes the extraction directory and the download          *)
(* directory it still holds.  rm with force on a directory this process    *)
(* made is taken to succeed (its rejection would only be swallowed).      *)
(*                                                                         *)
(* The target machine's files are those of the source's areas at the same  *)
(* relative paths (workspace dir, ~/.openclaw/skills, ~/.agents/skills);  *)
(* a file holds "absent", its own "old" content, or the bundle's content   *)
(* (the secret marker of the bundled copy).                                *)
(***************************************************************************)
EXTENDS MigrateExport

CONSTANTS
    TargetExisting,  \* the files already present on the target machine
    BundleArgs       \* the kinds of <bundle> argument: TRUE for a URL

VARIABLES
    ipc,         \* the next step of migrateImport
    overwrite,   \* --overwrite
    target,      \* file -> "absent", "old" or the bundled content
    configured,  \* writeConfigFile has stored the new workspace path
    reset,       \* resetAgentSessions has run
    synced,      \* syncGatewayToken has run
    ierror,      \* the step whose rejection ended the import, or None
    viaUrl,      \* the bundle argument is an http(s) URL
    tmp,         \* the temporary directories the import created that exist
    tempDownloadDir  \* the download directory the finally block removes, or None

importVars == <<ipc, overwrite, target, configured, reset, synced, ierror,
                viaUrl, tmp, tempDownloadDir>>
allVars == <<vars, importVars>>

-----------------------------------------------------------------------------
(* Mutant: the config is written before the files are placed.            *)
ImportSteps_configFirst ==
    <<"resolve", "extract", "manifest", "config", "workspace", "managed", "personal",
      "reset", "sync">>

(* The order of the awaited steps of migrateImport (lines 214-336).       *)
ImportSteps ==
    <<"resolve", "extract", "manifest", "workspace", "managed", "personal", "config",
      "reset", "sync">>

StepAfter(s) ==
    LET i == CHOOSE j \in DOMAIN ImportSteps : ImportSteps[j] = s
    IN  IF i = Len(ImportSteps) THEN "finally" ELSE ImportSteps[i + 1]

(* manifest.ts lines 58-75: a version from 1 up to the supported one and  *)
(* an agents array.                                                       *)
validateManifest(m) ==
    /\ m.version >= 1
    /\ m.version <= MIGRATE_BUNDLE_VERSION
    /\ "agents" \in DOMAIN m

(* Mutant: existing files are replaced whatever --overwrite says.         *)
copyDirRecursive_alwaysOverwrite(tgt, files, ow) ==
    [f \in DOMAIN tgt |->
        IF \E g \in files : g.src = f
        THEN (CHOOSE g \in files : g.src = f).secret ELSE tgt[f]]

(* part_004 lines 79-99: every file of the bundled directory is copied,   *)
(* except one that exists at the destination when not overwriting.        *)
copyDirRecursive(tgt, files, ow) ==
    [f \in DOMAIN tgt |->
        IF \E g \in files : g.src = f /\ (ow \/ tgt[f] = "absent")
        THEN (CHOOSE g \in files : g.src = f).secret ELSE tgt[f]]

(* The bundled files of one area.                                         *)
Bundled(area) == { g \in output.files : g.src.area = area }

-----------------------------------------------------------------------------
(* A rejection at step s escapes into the finally block.                  *)
Fail(s) == ipc' = "finally" /\ ierror' = s

Advance == ipc' = StepAfter(ipc) /\ UNCHANGED ierror

(* The user runs the import, with or without --overwrite, once the export *)
(* has finished with a file at its output path (whether or not the export *)
(* reported an error), passing that path or a URL it is served at.        *)
StartImport ==
    /\ pc = "done" /\ output # None /\ ipc = "idle"
    /\ ipc' = ImportSteps[1]
    /\ overwrite' \in BOOLEAN
    /\ viaUrl' \in BundleArgs
    /\ UNCHANGED <<target, configured, reset, synced, ierror, tmp, tempDownloadDir>>

(* Lines 214-223 with downloadBundleToTemp (lines 41-66): for a URL, a     *)
(* download directory is made and remembered, and downloadBundleToTemp     *)
(* makes a second one of its own for the file it returns; then the        *)
(* extraction directory is made.  Each mkdtemp, and the fetch or the       *)
(* stream into the file, may reject: the import then ends at once, before  *)
(* the try block, leaving the directories already made.                   *)
ResolveDirs == IF viaUrl THEN <<"download", "downloadFile", "extract">>
                         ELSE <<"extract">>

Resolve ==
    /\ ipc = "resolve"
    /\ \/ /\ tmp' = ToSet(ResolveDirs)
          /\ tempDownloadDir' = IF viaUrl THEN "download" ELSE None
          /\ Advance
       \/ \E k \in 0 .. Len(ResolveDirs) - 1 :
             /\ tmp' = ToSet(SubSeq(ResolveDirs, 1, k))
             /\ ipc' = "done" /\ ierror' = "resolve"
             /\ UNCHANGED tempDownloadDir
    /\ UNCHANGED <<overwrite, target, configured, reset, synced, viaUrl>>

(* Lines 225-237: extractArchive rejects a truncated archive, or on an fs *)
(* error; once it resolves, the remembered download directory is removed  *)
(* and forgotten.                                                         *)
Extract ==
    /\ ipc = "extract"
    /\ \/ /\ output.complete /\ Advance
          /\ tmp' = tmp \ {tempDownloadDir}
          /\ tempDownloadDir' = None
       \/ Fail("extract") /\ UNCHANGED <<tmp, tempDownloadDir>>
    /\ UNCHANGED <<overwrite, target, configured, reset, synced, viaUrl>>

(* Lines 68-77 and 240: manifest.json is read, a rejected readFile is    *)
(* rethrown as "Invalid bundle", and the parsed manifest is validated.     *)
ReadManifest ==
    /\ ipc = "manifest"
    /\ \/ IF validateManifest(manifest) THEN Advance ELSE Fail("manifest")
       \/ Fail("manifest")
    /\ UNCHANGED <<overwrite, target, configured, reset, synced, viaUrl, tmp,
                   tempDownloadDir>>

(* Lines 101-140 and 245-297: the workspace, and each skills root the     *)
(* manifest flags, is copied; a rejected copy after some files ends the   *)
(* import with those files placed.                                        *)
Place(area, wanted) ==
    /\ ipc = area
    /\ \/ /\ target' = IF wanted THEN copyDirRecursive(target, Bundled(area), overwrite)
                                 ELSE target
          /\ Advance
       \/ /\ wanted
          /\ \E copied \in SUBSET Bundled(area) :
                target' = copyDirRecursive(target, copied, overwrite)
          /\ Fail(area)
    /\ UNCHANGED <<overwrite, configured, reset, synced, viaUrl, tmp,
                   tempDownloadDir>>

(* Lines 299-300: writeConfigFile with the workspace paths.               *)
WriteConfig ==
    /\ ipc = "config"
    /\ \/ configured' = TRUE /\ Advance
       \/ Fail("config") /\ UNCHANGED configured
    /\ UNCHANGED <<overwrite, target, reset, synced, viaUrl, tmp,
                   tempDownloadDir>>

(* Lines 158-174: resetAgentSessions rejects only when listing the        *)
(* session directories does; a rejected rm of one directory is logged.     *)
resetAgentSessions == {[done |-> TRUE, rejected |-> FALSE],
                       [done |-> FALSE, rejected |-> TRUE]}

(* Lines 176-190: syncGatewayToken reinstalls the service; in Nix mode, or *)
(* when the install fails (logged as non-fatal), nothing is reinstalled;   *)
(* only the dynamic import of the paths module can reject.                *)
syncGatewayToken == {[done |-> TRUE, rejected |-> FALSE],
                     [done |-> FALSE, rejected |-> FALSE],
                     [done |-> FALSE, rejected |-> TRUE]}

(* Lines 302-328: unless skipped, and once confirmed (--yes or the        *)
(* answer, lines 192-203), the step calls resetAgentSessions or           *)
(* syncGatewayToken.                                                      *)
Optional(step, done, done2, call) ==
    /\ ipc = step
    /\ \/ UNCHANGED done /\ Advance
       \/ \E r \in call :
             IF r.rejected THEN Fail(step) /\ UNCHANGED done
             ELSE done' = r.done /\ Advance
    /\ UNCHANGED <<overwrite, target, configured, done2, viaUrl, tmp,
                   tempDownloadDir>>

(* Lines 338-343: the finally block removes the extraction directory and  *)
(* the download directory still remembered.                               *)
ImportFinally ==
    /\ ipc = "finally"
    /\ tmp' = tmp \ {"extract", tempDownloadDir}
    /\ ipc' = "done"
    /\ UNCHANGED <<overwrite, target, configured, reset, synced, ierror, viaUrl,
                   tempDownloadDir>>

ImportNext ==
    \/ StartImport
    \/ Resolve
    \/ Extract
    \/ ReadManifest
    \/ Place("workspace", TRUE)
    \/ Place("managed", manifest.hasManagedSkills)
    \/ Place("personal", manifest.hasPersonalSkills)
    \/ WriteConfig
    \/ Optional("reset", reset, synced, resetAgentSessions)
    \/ Optional("sync", synced, reset, syncGatewayToken)
    \/ ImportFinally

(* The target machine before the import: its own files, the config and  *)
(* sessions untouched.                                                     *)
RoundTripSpec ==
    /\ ipc = "idle"
    /\ overwrite = FALSE
    /\ target = [f \in Files |-> IF f \in TargetExisting THEN "old" ELSE "absent"]
    /\ configured = FALSE
    /\ reset = FALSE
    /\ synced = FALSE
    /\ ierror = None
    /\ viaUrl = FALSE
    /\ tmp = {}
    /\ tempDownloadDir = None
    /\ Init
    /\ [][\/ Next /\ UNCHANGED importVars
          \/ ImportNext /\ UNCHANGED vars]_allVars

-----------------------------------------------------------------------------
(* The areas the import places (lines 245-297): the workspace, and each    *)
(* skills root the manifest flags.                                        *)
PlacedAreas == {"workspace"}
               \cup (IF manifest.hasManagedSkills THEN {"managed"} ELSE {})
               \cup (IF manifest.hasPersonalSkills THEN {"personal"} ELSE {})

(* The target after a full import: a bundled file of a placed area holds  *)
(* the bundle's content, unless it existed and --overwrite was not given; *)
(* every file of an area not placed is as it was.                         *)
Merged ==
    /\ \A g \in output.files :
          g.src.area \in PlacedAreas =>
          target[g.src] = IF overwrite \/ g.src \notin TargetExisting
                          THEN g.secret ELSE "old"
    /\ \A f \in Files :
          f.area \notin PlacedAreas =>
          target[f] = IF f \in TargetExisting THEN "old" ELSE "absent"

(* The --overwrite help text ("default: merge, skip existing"): an import *)
(* that completes leaves every bundled file of the workspace and of each   *)
(* skills root its manifest flags on the target, with the bundle's content *)
(* exactly where the file was new or overwriting was asked for, and does  *)
(* not touch a skills root the manifest leaves out.                        *)
ImportMergesBundle == ipc = "done" /\ ierror = None => Merged

(* The config points the agent at its workspace only once every bundled   *)
(* file of the placed areas is in place, and sessions are reset or the gateway resynced   *)
(* only after the config was written: an import cut short by a rejection  *)
(* never leaves the config naming a half-placed workspace.                *)
ConfigAfterPlacement ==
    /\ configured => Merged
    /\ reset \/ synced => configured

=============================================================================
