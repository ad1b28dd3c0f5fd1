SPECIFICATION Spec
CONSTANTS
    None = None
    Callers = {p1}
    Names = {n1}
    MaxEntries = 1
    MaxConcurrent = 1
    MaxEpoch = 1
INVARIANT CacheFromThisTunnel
