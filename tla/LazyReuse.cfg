SPECIFICATION Spec
CONSTANTS
    NBlocks = 3
    Units = {1, 2}
    B1 = B1
    B2 = B2
    i1 = i1
    t1 = t1
    t2 = t2
    Blobs = {B1, B2}
    Hole = Hole
    Insts = {i1}
    Tasks = {t1, t2}
    NoInst = NoInst
    Faults = {"read"}
    Requests = {{0}, {1, 2}}
SYMMETRY ActorSymmetry
INVARIANTS
    AnsweredIsWritten
    ReadyIsWritten
