SPECIFICATION FairSpec
CONSTANTS
    a = a
    b = b
    f1 = f1
    f2 = f2
    c1 = c1
    c2 = c2
    r1 = r1
    r2 = r2
    Ids = {a, b}
    Files = {f1, f2}
    Clients = {c1, c2}
    Readers = {r1, r2}
    Nobody = Nobody
    MayAsk <- OwnIds
    Faults = {"io", "metadata", "crash"}
INVARIANTS
    TypeOk
    RegisteredIsMarked
    ServedIsAnswered
    NoOrphanMark
PROPERTIES
    AllowedIsFilled
    BlockedEnds
