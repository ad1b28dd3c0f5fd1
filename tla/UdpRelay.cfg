SPECIFICATION FairSpec
CONSTANTS
    None = None
    Senders = {p1, p2}
    Sockets = {k1, k2, k3, k4}
    Lengths = {0, 3, 4, 5, 6, 7, 8, 9, 10, 11, 21, 22, 23}
    Names = {0, 1, 2, 3}
INVARIANTS TypeOK NoLeakedSocket HeaderSplit
PROPERTIES KeepsPromise AssociationEnds
CHECK_DEADLOCK FALSE
