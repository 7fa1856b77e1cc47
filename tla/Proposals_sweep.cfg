SPECIFICATION FairSpec
CONSTANTS
    c1 = c1
    c2 = c2
    c3 = c3
    Characters = {c1, c2}
    Requests <- OnePair
    Workers = {w1}
    Sweepers = {s1}
    AnyoneSends = FALSE
    NoOne = NoOne
    NoRow = NoRow
    ProposalExpiry = 1
    GlobalCooldown = 0
    InitialPerTargetCooldown = 1
    MaxTime = 3
    MaxProposals = 3
    MaxMarriages = 1
    MaxFaults = 1
INVARIANTS
    IInv
    HandlerInv
    RepeatedOnlyAfterLapse
    RejectionCooldownKept
PROPERTIES
    ProposedWhileFree
    OverdueIsSettled
