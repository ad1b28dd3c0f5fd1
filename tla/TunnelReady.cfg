SPECIFICATION FairSpec
CONSTANTS
    None = None
    Dialers = {p1}
    Devices = {d1, d2}
    Chans = {h1, h2, h3}
    Attempts = 3
    MaxReloads = 1
    MaxKicks = 1
INVARIANTS TypeOK NoOrphanWaiter ReadyMeansHandshake NotFoundConfirmed
PROPERTIES WokenByHandshake Converges
CHECK_DEADLOCK FALSE
