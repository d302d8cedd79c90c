-------------------------------- MODULE Retry --------------------------------
(***************************************************************************)
(* The retry loop the routers share (core/retry.rs).  The loop's body is   *)
(* the router's attempt; here is what decides whether another one follows. *)
(***************************************************************************)
EXTENDS Naturals

CONSTANT MaxRetries   \* max_retries of RetryConfig

ASSUME RetryAssumption == MaxRetries \in Nat

\* n is the index of the last attempt; the code compares with max(max_retries, 1).
IsLast(n) == n + 1 >= MaxRetries

\* Where the loop goes with the response of attempt n.
AfterAttempt(n, retryable, returned) == IF retryable /\ ~IsLast(n) THEN "backoff" ELSE returned
=============================================================================
