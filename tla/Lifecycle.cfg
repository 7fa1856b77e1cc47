SPECIFICATION FairSpec
CONSTANTS
    expiry = expiry
    ceremony = ceremony
    Schedulers = {expiry, ceremony}
    StopOrder <- ExpiryThenCeremony
    Tenants = {t1, t2}
    Broken = {t1}
    NoTenant = NoTenant
    ListRetry <- GetTenants
    SweepRetry <- ProcessTenant
INVARIANTS
    TypeOK
    BackoffSchedule
    CountedTeardownsFinish
PROPERTIES
    ShutdownCompletes
    FoundTenantsAreSwept
    SweepsGoOn
CHECK_DEADLOCK FALSE
