------------------------------- MODULE Worker -------------------------------
(***************************************************************************)
(* A worker as the routers see it (core/worker.rs): its health flag, which *)
(* the health checker moves after runs of equal probe results, its load    *)
(* counter and its circuit breaker.  The breaker's operations are taken in *)
(* one piece here (BreakerOps); CircuitBreaker models their interleavings  *)
(* and BreakerRefinement relates the two.  Counters that are only compared *)
(* with a threshold stop at the threshold.                                 *)
(***************************************************************************)
EXTENDS BreakerOps, FiniteSets

CONSTANTS
    Workers,
    HealthFailures, HealthSuccesses      \* failure_threshold and success_threshold of HealthConfig

ASSUME WorkerAssumption ==
    /\ IsFiniteSet(Workers)
    /\ FailureThreshold \in Nat \ {0} /\ SuccessThreshold \in Nat \ {0}
    /\ HealthFailures \in Nat \ {0} /\ HealthSuccesses \in Nat \ {0}

VARIABLES
    healthy,  \* workers whose healthy flag is set
    checks,   \* per worker: consecutive failed and passed health checks
    breaker,  \* per worker: state, consecutive outcomes, whether the open timeout is over
    load      \* per worker: load_counter

worker == <<healthy, checks, breaker, load>>

Checks == [failed : 0..HealthFailures, passed : 0..HealthSuccesses]

WorkerType ==
    /\ healthy \subseteq Workers
    /\ checks \in [Workers -> Checks]
    /\ breaker \in [Workers -> Breaker]
    /\ load \in [Workers -> Nat]

WorkerInit ==
    /\ healthy = Workers
    /\ checks = [w \in Workers |-> [failed |-> 0, passed |-> 0]]
    /\ breaker = [w \in Workers |-> NewBreaker]
    /\ load = [w \in Workers |-> 0]

-----------------------------------------------------------------------------
\* is_available asks the breaker of a healthy worker only, and the question itself may
\* move the breaker to HalfOpen, also that of a worker the request will not use.
Polled(b, candidates) == [w \in Workers |-> IF w \in candidates \cap healthy THEN Checked(b[w]) ELSE b[w]]
Available(candidates) == {w \in candidates \cap healthy : Checked(breaker[w]).state # "Open"}

\* Time passes: the open timeout of a worker's breaker runs out.
CoolDown(w) ==
    /\ breaker[w].state = "Open" /\ ~breaker[w].cooled
    /\ breaker' = [breaker EXCEPT ![w] = Cooled(@)]
    /\ UNCHANGED <<healthy, checks, load>>

-----------------------------------------------------------------------------
(* check_health_async, run by the registry's health checker *)

CheckPasses(w) ==
    LET n == UpTo(checks[w].passed + 1, HealthSuccesses)
        flip == w \notin healthy /\ n >= HealthSuccesses IN
    /\ healthy' = IF flip THEN healthy \cup {w} ELSE healthy
    /\ checks' = [checks EXCEPT ![w] = [failed |-> 0, passed |-> IF flip THEN 0 ELSE n]]
    /\ UNCHANGED <<breaker, load>>

CheckFails(w) ==
    LET n == UpTo(checks[w].failed + 1, HealthFailures)
        flip == w \in healthy /\ n >= HealthFailures IN
    /\ healthy' = IF flip THEN healthy \ {w} ELSE healthy
    /\ checks' = [checks EXCEPT ![w] = [failed |-> IF flip THEN 0 ELSE n, passed |-> 0]]
    /\ UNCHANGED <<breaker, load>>
=============================================================================
