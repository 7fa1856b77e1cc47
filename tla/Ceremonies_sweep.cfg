SPECIFICATION FairSpec
CONSTANTS
    c1 = c1
    c2 = c2
    c3 = c3
    c4 = c4
    Characters = {c1, c2, c3}
    Couples <- OneCouple
    InviteeLists <- GoodGuests
    Workers = {w1}
    Sweepers = {s1}
    NoOne = NoOne
    NoRow = NoRow
    MaxInvitees = 2
    DisconnectionTimeout = 1
    MaxTime = 4
    MaxMarriages = 1
    MaxCeremonies = 1
    MaxFaults = 1
PROPERTIES
    TimedOutIsPostponed
