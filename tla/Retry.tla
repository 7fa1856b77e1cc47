-------------------------------- MODULE Retry --------------------------------
(****************************************************************************)
(* ExecuteWithRetry as its callers see it: a call is the number of the      *)
(* attempt it is at and the delay that would follow a failure of it.        *)
(* Delays count units of 500 milliseconds, the shortest one configured.     *)
(****************************************************************************)
EXTENDS Integers

RetryConfig == [maxRetries : Nat, initialDelay : Nat, maxDelay : Nat]

BackoffFactor == 2

Calls(config) ==
    [attempt : 0..config.maxRetries, delay : config.initialDelay..config.maxDelay]

FirstCall(config) == [attempt |-> 0, delay |-> config.initialDelay]

(* Mutant: the delay is capped but never grows. *)
NextCall_Mutant(config, call) ==
    LET longer == call.delay * BackoffFactor IN
    [ attempt |-> call.attempt + 1,
      delay   |-> IF longer > config.maxDelay THEN config.maxDelay ELSE call.delay ]

NextCall(config, call) ==
    LET longer == call.delay * BackoffFactor IN
    [ attempt |-> call.attempt + 1,
      delay   |-> IF longer > config.maxDelay THEN config.maxDelay ELSE longer ]

(* Mutant: the last attempt is followed by one more. *)
MayRetry_Mutant(config, call, transient) == transient /\ call.attempt <= config.maxRetries

(* No retry follows the last attempt, nor an error that is not transient.   *)
MayRetry(config, call, transient) == transient /\ call.attempt < config.maxRetries
=============================================================================
