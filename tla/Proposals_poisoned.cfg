SPECIFICATION FairSpec
CONSTANTS
    c1 = c1
    c2 = c2
    c3 = c3
    Characters = {c1, c2}
    Requests <- AllRequests
    Workers = {w1}
    Sweepers = {s1}
    AnyoneSends = FALSE
    NoOne = NoOne
    NoRow = NoRow
    ProposalExpiry = 1
    GlobalCooldown = 1
    InitialPerTargetCooldown = 1
    MaxTime = 2
    MaxProposals = 2
    MaxMarriages = 1
    MaxFaults = 0
PROPERTIES
    OverdueIsSettled
