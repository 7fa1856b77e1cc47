----------------------------- MODULE MCLifecycle -----------------------------
(* Instances of Lifecycle for TLC.                                          *)
EXTENDS LifecycleProperties

CONSTANTS expiry, ceremony

ExpiryThenCeremony == <<expiry, ceremony>>

(* One retry each, where the schedulers ask for two for the list and three  *)
(* for a tenant: one delay doubles, the other reaches the longest.          *)
GetTenants == [maxRetries |-> 1, initialDelay |-> 1, maxDelay |-> 10]
ProcessTenant == [maxRetries |-> 1, initialDelay |-> 4, maxDelay |-> 6]
=============================================================================
