SPECIFICATION Spec
CONSTANTS
    c1 = c1
    c2 = c2
    c3 = c3
    c4 = c4
    Characters = {c1, c2, c3}
    Couples <- OneCouple
    InviteeLists <- FewGuests
    Workers = {w1, w2}
    Sweepers = {s1}
    NoOne = NoOne
    NoRow = NoRow
    MaxInvitees = 2
    DisconnectionTimeout = 0
    MaxTime = 1
    MaxMarriages = 1
    MaxCeremonies = 1
    MaxFaults = 0
SYMMETRY WorkerSymmetry
INVARIANTS
    IInv
PROPERTIES
    LoadableForGood
