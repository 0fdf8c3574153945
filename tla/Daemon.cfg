SPECIFICATION FairSpec
CONSTANTS
    c1 = c1
    c2 = c2
    k1 = k1
    Loop = Loop
    r1 = r1
    r2 = r2
    x1 = x1
    Conns = {c1, c2}
    Ctrls = {k1}
    Tasks = {c1, c2, k1, Loop}
    Workers = 1
    Ranges = {r1, r2}
    Packets = {r1, "malformed", "verbose", "ending"}
    MaxQueued = 1
    Calls <- MCCalls
    NoCall = NoCall
    MaxHead = 1
    Loads <- MCLoads
    NoEvent = NoEvent
    Challenges = {x1}
    NoChallenge = NoChallenge
    MaxTokens = 1
INVARIANTS
    TypeOk
    RetriesWithNewToken
    AnswersMatch
    CutAnywhere
PROPERTIES
    AllServed
    LeavingFrees
\* A process that accepts no more connections and that nobody calls does nothing.
CHECK_DEADLOCK FALSE
