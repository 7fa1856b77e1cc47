SPECIFICATION Spec
CONSTANTS
    c1 = c1
    c2 = c2
    c3 = c3
    Characters = {c1, c2}
    Requests <- AllRequests
    Workers = {w1, w2}
    Sweepers = {s1}
    AnyoneSends = FALSE
    NoOne = NoOne
    NoRow = NoRow
    ProposalExpiry = 0
    GlobalCooldown = 0
    InitialPerTargetCooldown = 0
    MaxTime = 1
    MaxProposals = 2
    MaxMarriages = 2
    MaxFaults = 0
SYMMETRY CharacterAndWorkerSymmetry
INVARIANTS
    GlobalCooldownKept
    OutcomesRespectExpiry
    MarriagesComeFromProposals
    EventsBacked
PROPERTIES
    NeverReopened
    KeepsRegister
