SPECIFICATION Spec
CONSTANTS
    c1 = c1
    c2 = c2
    c3 = c3
    c4 = c4
    Characters = {c1, c2, c3, c4}
    Couples <- OneCouple
    InviteeLists <- SomeGuests
    Workers = {w1}
    Sweepers = {}
    NoOne = NoOne
    NoRow = NoRow
    MaxInvitees = 2
    DisconnectionTimeout = 1
    MaxTime = 1
    MaxMarriages = 1
    MaxCeremonies = 2
    MaxFaults = 1
INVARIANTS
    TypeOK
    SerialInv
    AnnouncedIsCurrent
    AnnouncedIsLoadable
    WeddingsOfCouples
PROPERTIES
    CeremonyTransitions
