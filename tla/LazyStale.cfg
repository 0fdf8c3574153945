SPECIFICATION Spec
CONSTANTS
    NBlocks = 1
    Units = {1}
    B1 = B1
    B2 = B2
    i1 = i1
    i2 = i2
    t1 = t1
    t2 = t2
    Blobs = {B1, B2}
    Hole = Hole
    Insts = {i1, i2}
    Tasks = {t1, t2}
    NoInst = NoInst
    Faults = {}
    Requests = {{0}}
SYMMETRY ActorSymmetry
PROPERTIES
    AnsweredStaysWritten
