CONSTANTS
    MaxDay = 3
    MaxMsgs = 3
    ConfigRetention = 1
    ConfigMaxTurns = 1
    ChannelLimit = None
    None = None
SPECIFICATION Spec
INVARIANTS TypeOK ContextMatchesOwnTimestamps
