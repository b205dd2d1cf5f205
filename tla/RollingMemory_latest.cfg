CONSTANTS
    s1 = s1
    s2 = s2
    h1 = h1
    h2 = h2
    Sessions <- MCSessions
    SessionOrder <- MCSessionOrder
    Handlers <- MCHandlers
    MaxDay = 2
    RetentionDays = 1
    MaxTranscript = 1
    MaxShown = 1
    MaxLines = 2
    MaxChats = 3
    FaultyFs = FALSE
    None = None
SPECIFICATION Spec
INVARIANTS LatestSummaryWins

