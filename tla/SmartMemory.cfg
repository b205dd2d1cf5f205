CONSTANTS
    s1 = s1
    s2 = s2
    None = None
    Sessions <- MCSessions
    Entries <- MCEntries
    Includes <- MCIncludes
    RememberKw = {"remember"}
    ResearchKw = {}
    PaperKw = {}
    ProjectKw = {"step", "next step"}
    DecisionKw = {}
    MessageCount = 30
    MaxDay = 2
    MaxConvs = 4
    MaxEntries = 2
    FaultyFs = TRUE
SPECIFICATION Spec
SYMMETRY MCSymmetry
INVARIANTS TypeOK MemoryFromEndedConversation
PROPERTIES ImplementsImportantMemory
CHECK_DEADLOCK FALSE
