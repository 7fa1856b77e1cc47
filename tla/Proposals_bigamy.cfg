SPECIFICATION Spec
CONSTANTS
    c1 = c1
    c2 = c2
    c3 = c3
    Characters = {c1, c2, c3}
    Requests <- Suitors
    Workers = {w1}
    Sweepers = {}
    AnyoneSends = FALSE
    NoOne = NoOne
    NoRow = NoRow
    ProposalExpiry = 2
    GlobalCooldown = 1
    InitialPerTargetCooldown = 2
    MaxTime = 1
    MaxProposals = 2
    MaxMarriages = 2
    MaxFaults = 0
INVARIANTS
    OneRelationship
