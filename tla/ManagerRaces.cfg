SPECIFICATION Spec
CONSTANTS
    None = None
    main = main
    watch = watch
    Main = main
    Watch = watch
    c1 = c1
    c2 = c2
    c3 = c3
    c4 = c4
    stackA = stackA
    stackB = stackB
    addrA = addrA
    addrB = addrB
    Requests = {r1}
    Retries = {g1, g2}
    Threads = {main, watch, r1, g1, g2}
    Configs = {c1}
    Hostnames = {}
    StackOf <- MCStackOf
    AddrOf <- MCAddrOf
    Devices = {d1, d2}
    Commands = {"start", "stop", "reconnect", "power"}
    AutoStart = TRUE
    ReadFailures = 0
    Faults = {"config", "listen", "pipe", "watcher"}
SYMMETRY Symmetry
INVARIANTS TypeOK PausedMeansDown OneDevice RetryRecorded StoppedMeansClean NoLeakedDevice
