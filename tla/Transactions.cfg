SPECIFICATION FairSpec
CONSTANTS
    Acceptors = {a1, a2}
    Rivals = {r1}
    Proposals = {p1, p2}
    NoOne = NoOne
INVARIANTS
    TypeOK
    StoredIsAnnounced
PROPERTIES
    AllOrNothing
    NoneWaitsForever
CHECK_DEADLOCK FALSE
