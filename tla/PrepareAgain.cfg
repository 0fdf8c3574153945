SPECIFICATION Spec
CONSTANTS
    y1 = y1
    y2 = y2
    bad = bad
    s1 = s1
    s2 = s2
    c1 = c1
    c2 = c2
    Layers = {y1, y2, bad}
    BadLayers = {bad}
    Clients = {c1, c2}
    Requests <- OneUnit
    NoRequest = NoRequest
INVARIANTS
    TypeOk
    AnsweredIsRegistered
    FileCoversPmem
    LiveBitmapIsOwn
PROPERTIES
    KeepsReadiness
