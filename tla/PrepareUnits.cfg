SPECIFICATION Spec
CONSTANTS
    y1 = y1
    y2 = y2
    bad = bad
    s1 = s1
    s2 = s2
    c1 = c1
    Layers = {y1, y2, bad}
    BadLayers = {bad}
    Clients = {c1}
    Requests <- TwoUnits
    NoRequest = NoRequest
INVARIANTS
    LiveBitmapIsOwn
