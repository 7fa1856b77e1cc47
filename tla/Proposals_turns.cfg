SPECIFICATION TurnsSpec
CONSTANTS
    c1 = c1
    c2 = c2
    c3 = c3
    Characters = {c1, c2}
    Requests <- OnePair
    Workers = {w1}
    Sweepers = {s1, s2}
    AnyoneSends = FALSE
    NoOne = NoOne
    NoRow = NoRow
    ProposalExpiry = 0
    GlobalCooldown = 0
    InitialPerTargetCooldown = 1
    MaxTime = 3
    MaxProposals = 2
    MaxMarriages = 2
    MaxFaults = 1
SYMMETRY SweeperSymmetry
INVARIANTS
    TypeOK
    OneMarriagePerAcceptance
    EventsMatchRows
    LapseCooldownKept
    AnnouncedOnce
PROPERTIES
    KeepsBook
