----------------------------- MODULE BreakerOps -----------------------------
(***************************************************************************)
(* The operations of a circuit breaker (core/circuit_breaker.rs), each in  *)
(* one piece, on a record of the breaker's state, its two counters and     *)
(* whether the timeout of an open circuit is over.  Counters stop at the   *)
(* threshold they are compared with.                                       *)
(***************************************************************************)
EXTENDS Naturals

CONSTANTS FailureThreshold, SuccessThreshold

UpTo(n, cap) == IF n > cap THEN cap ELSE n

Breaker == [state : {"Closed", "Open", "HalfOpen"}, failures : 0..FailureThreshold,
            successes : 0..SuccessThreshold, cooled : BOOLEAN]

Circuit(state, failures, successes, cooled) ==
    [state |-> state, failures |-> failures, successes |-> successes, cooled |-> cooled]

NewBreaker == Circuit("Closed", 0, 0, FALSE)

\* transition_to
Closed(b) == Circuit("Closed", 0, 0, FALSE)
Opened(b) == Circuit("Open", b.failures, 0, FALSE)

\* state(): an open circuit whose timeout is over goes to HalfOpen.
Checked(b) == IF b.state = "Open" /\ b.cooled THEN Circuit("HalfOpen", 0, 0, FALSE) ELSE b

\* record_success
Passed(b) ==
    LET c == Circuit(b.state, 0, UpTo(b.successes + 1, SuccessThreshold), b.cooled) IN
    IF b.state = "HalfOpen" /\ c.successes >= SuccessThreshold THEN Closed(c) ELSE c

\* record_failure
Failed(b) ==
    LET c == Circuit(b.state, UpTo(b.failures + 1, FailureThreshold), 0, b.cooled) IN
    IF b.state = "HalfOpen" \/ (b.state = "Closed" /\ c.failures >= FailureThreshold)
    THEN Opened(c) ELSE c

\* force_open
Forced(b) == IF b.state = "Open" THEN b ELSE Opened(b)

\* The timeout of an open circuit runs out.
Cooled(b) == IF b.state = "Open" THEN Circuit("Open", b.failures, b.successes, TRUE) ELSE b

Outcome(b, ok) == IF ok THEN Passed(b) ELSE Failed(b)
=============================================================================
