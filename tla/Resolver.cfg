SPECIFICATION FairSpec
CONSTANTS
    None = None
    Callers = {p1, p2}
    Names = {n1, n2}
    MaxEntries = 1
    MaxConcurrent = 1
    MaxEpoch = 1
INVARIANTS TypeOK SingleFlight QueriesBounded CacheBounded CancellationNotCached
PROPERTY LookupReturns
