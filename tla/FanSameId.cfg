SPECIFICATION Spec
CONSTANTS
    a = a
    b = b
    f1 = f1
    f2 = f2
    c1 = c1
    c2 = c2
    r1 = r1
    Ids = {a}
    Files = {f1}
    Clients = {c1, c2}
    Readers = {r1}
    Nobody = Nobody
    MayAsk <- SameId
    Faults = {}
INVARIANTS
    RegisteredIsMarked
