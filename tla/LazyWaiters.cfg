SPECIFICATION FairSpec
CONSTANTS
    NBlocks = 2
    Units = {1}
    B1 = B1
    i1 = i1
    t1 = t1
    t2 = t2
    t3 = t3
    Blobs = {B1}
    Hole = Hole
    Insts = {i1}
    Tasks = {t1, t2, t3}
    NoInst = NoInst
    Faults = {"io", "crash"}
    Requests = {{0}, {0, 1}}
INVARIANTS
    DurableBeforeReady
    AnsweredNotRefetched
PROPERTIES
    WaitersEnd
