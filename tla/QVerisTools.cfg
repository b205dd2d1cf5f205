SPECIFICATION Spec
CONSTANTS
    Calls <- MCCalls
    Queries = {q1}
    Limits <- MCLimits
    Overrides <- MCOverrides
    SearchLimit = 100
    TTL = 3
    SearchTimeout = 1
    ExecTimeout = 2
    None = None
INVARIANTS
    TypeOK
    AbortReportedAsTimeout
    CacheHoldsReturnedPayloads
PROPERTIES
    EveryCallReturns
