SPECIFICATION Spec
CONSTANTS
    NBlocks = 2
    Units = {1, 2}
    B1 = B1
    i1 = i1
    i2 = i2
    t1 = t1
    Blobs = {B1}
    Hole = Hole
    Insts = {i1, i2}
    Tasks = {t1}
    NoInst = NoInst
    Faults = {"read", "power"}
    Requests = {{0},{0,1}}
INVARIANTS
    ReadyIsWritten
PROPERTIES
    ImplementsCache
