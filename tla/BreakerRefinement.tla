------------------------- MODULE BreakerRefinement --------------------------
(***************************************************************************)
(* CircuitBreaker implements AtomicBreaker: while no two operations have   *)
(* overlapped, the breaker whose operations take many atomic accesses      *)
(* cannot be told from one whose operations take effect in one piece.      *)
(* This is what Worker relies on.                                          *)
(***************************************************************************)
EXTENDS CircuitBreaker, FiniteSets

VARIABLE overlapped   \* history: two operations have been under way at once

Busy == {t \in Threads : pc[t] # "idle" \/ todo[t] # {}}

OverlapInit == Init /\ overlapped = FALSE
OverlapNext == Next /\ overlapped' = (overlapped \/ Cardinality(Busy') > 1)
OverlapSpec == OverlapInit /\ [][OverlapNext]_<<vars, overlapped>> /\ Fairness

-----------------------------------------------------------------------------
(* The refinement mapping.  An outcome, force_open and reset take effect   *)
(* with their first access, so the breaker is seen as it will be when the  *)
(* operation that is under way has ended; a check takes effect with its    *)
(* CAS.                                                                    *)

Whole == INSTANCE BreakerOps

Pending(store) == \E t \in Threads : store \in todo[t]
Doing(step) == \E t \in Threads : pc[t] = step
Judged(threshold) == \E t \in Busy : seen[t] >= threshold

\* The breaker once the stores that are due have been made.
Settled ==
    Whole!Circuit(state,
                  IF Pending("failures") \/ Doing("reset") THEN 0 ELSE consecutive_failures,
                  IF Pending("successes") \/ Doing("reset") THEN 0 ELSE consecutive_successes,
                  state = "Open" /\ ~Pending("time") /\ changeAge >= Timeout)

\* The breaker once the operation under way has ended.
Finished ==
    CASE Doing("add_success") -> Whole!Passed(Settled)
      [] Doing("judge_success") /\ state = "HalfOpen" /\ Judged(SuccessThreshold) -> Whole!Closed(Settled)
      [] Doing("add_failure") -> Whole!Failed(Settled)
      [] Doing("judge_failure") /\ (state = "HalfOpen" \/ (state = "Closed" /\ Judged(FailureThreshold)))
            -> Whole!Opened(Settled)
      [] Doing("close") -> Whole!Closed(Settled)
      [] Doing("open") -> Whole!Opened(Settled)
      [] OTHER -> Settled

Atomic == INSTANCE AtomicBreaker WITH b <- IF overlapped THEN Whole!NewBreaker ELSE Finished

(* While operations do not overlap, check, record_success, record_failure, *)
(* record_test_success, record_test_failure, reset and force_open act as   *)
(* AtomicBreaker says: the threshold of failures opens the circuit, the    *)
(* timeout is waited for in full, counters of one phase never leak into    *)
(* the next one, and a probe phase closes on its own successes only.       *)
ImplementsAtomic == Atomic!Spec
=============================================================================
