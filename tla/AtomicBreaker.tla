--------------------------- MODULE AtomicBreaker ----------------------------
(***************************************************************************)
(* What a circuit breaker promises to those who use it: every operation    *)
(* takes effect in one piece.  The promise holds until two operations      *)
(* overlap for the first time; from then on it is off.                     *)
(***************************************************************************)
EXTENDS BreakerOps

VARIABLES
    b,          \* the breaker
    overlapped  \* two operations have overlapped

Init == b = NewBreaker /\ overlapped = FALSE

Operate == b' \in {Checked(b), Passed(b), Failed(b), Forced(b), Closed(b), Cooled(b)}

Next ==
    \/ ~overlapped' /\ Operate
    \/ overlapped' /\ b' \in Breaker

Spec == Init /\ [][Next]_<<b, overlapped>>
=============================================================================
