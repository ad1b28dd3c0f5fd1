SPECIFICATION FairSpec
CONSTANTS
    None = None
    addrA = addrA
    addrB = addrB
    s1 = s1
    s2 = s2
    Servers = {s1, s2}
    Conns = {k1, k2}
    Apps <- MCApps
    MaxErrors = 2
    Candidates = 2
    Reloaders = {r1}
    First = s1
    FirstApp <- AppA
INVARIANTS TypeOK SessionLimit StoppedMeansDrained RemoteReleased AlwaysListening ReloadHonest StopClosesItsServer
PROPERTY StopWaitsOnlyForPeers
CHECK_DEADLOCK FALSE
