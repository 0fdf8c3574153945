SPECIFICATION Spec
CONSTANTS
    NBlocks = 1
    Units = {1}
    B1 = B1
    B2 = B2
    i1 = i1
    t1 = t1
    Blobs = {B1, B2}
    Hole = Hole
    Insts = {i1}
    Tasks = {t1}
    NoInst = NoInst
    Faults = {"crash"}
    Requests = {{0}}
INVARIANTS
    AnsweredIsWritten
