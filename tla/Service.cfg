SPECIFICATION ServiceSpec
CONSTANTS
    c1 = c1
    c2 = c2
    Characters = {c1, c2}
    Requests <- OnePair
    InviteeLists <- NoGuests
    AnyoneSends = FALSE
    Workers = {w1, w2}
    Sweepers = {}
    CeremonyWorkers = {w3}
    CeremonySweepers = {}
    NoOne = NoOne
    NoRow = NoRow
    ProposalExpiry = 1
    GlobalCooldown = 1
    InitialPerTargetCooldown = 1
    MaxInvitees = 1
    DisconnectionTimeout = 1
    MaxTime = 1
    MaxProposals = 1
    MaxMarriages = 1
    MaxCeremonies = 1
    MaxFaults = 0
    MaxCeremonyFaults = 0
SYMMETRY WorkerSymmetry
INVARIANTS
    ServiceInv
    CeremoniesComeFromProposals
PROPERTIES
    CeremoniesAreServed
