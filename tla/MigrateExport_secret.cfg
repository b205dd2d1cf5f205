\* The bundle README says no credentials are included.
CONSTANTS
    Files <- MCFiles
    SessionKeys <- MCSessionKeys
    Entries <- MCEntries
    MaxSessions = 2
    NoSkills = FALSE
    NoSessions = FALSE
    None = None
SPECIFICATION Spec
INVARIANTS
    NoSecretInBundle
\* The command ends once the finally block has run.
CHECK_DEADLOCK FALSE
