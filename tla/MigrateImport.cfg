\* The export of one agent with every fs rejection the code can meet,
\* followed by an import of whatever file it left at its output path.
CONSTANTS
    Files <- MCFiles
    SessionKeys <- MCRoundTripSessionKeys
    Entries <- MCEntries
    TargetExisting <- MCTargetExisting
    BundleArgs = {TRUE}
    MaxSessions = 1
    NoSkills = FALSE
    NoSessions = FALSE
    None = None
SPECIFICATION RoundTripSpec
INVARIANTS
    TypeOK
    BundleRedactedUnlessSkipped
    ManifestMatchesBundle
    SummariesAreNewest
    ImportMergesBundle
    ConfigAfterPlacement
\* Both commands end once their finally blocks have run.
CHECK_DEADLOCK FALSE
