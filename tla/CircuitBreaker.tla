--------------------------- MODULE CircuitBreaker ---------------------------
(***************************************************************************)
(* The lock-free circuit breaker a worker owns                             *)
(* (gateway/src/core/circuit_breaker.rs).  Several request tasks use one   *)
(* breaker at once; every load, store, fetch_add, swap and CAS on an       *)
(* atomic is a step of its own, so operations interleave where the code    *)
(* lets them.  The stores that follow a change of state are kept in todo   *)
(* and made in the code's order: time, failures, successes.                *)
(*                                                                         *)
(* Time is kept as ages: the code compares now_ms() - last_state_change_ms *)
(* with timeout_duration and nothing else, so an age that stops growing at *)
(* Timeout tells apart what the code tells apart.  The two u32 counters    *)
(* are only compared with >= against their thresholds and stop there.      *)
(***************************************************************************)
EXTENDS Naturals

CONSTANTS
    Threads,           \* tasks that use the breaker
    FailureThreshold,  \* config.failure_threshold
    SuccessThreshold,  \* config.success_threshold
    Timeout,           \* config.timeout_duration, in ticks
    Ops                \* the operations callers may start

AllOps == {"check", "success", "failure", "test_success", "test_failure",
           "reset", "force_open"}

ASSUME BreakerAssumption ==
    /\ Threads # {}
    /\ FailureThreshold \in Nat \ {0}
    /\ SuccessThreshold \in Nat \ {0}
    /\ Timeout \in Nat
    /\ Ops \subseteq AllOps

VARIABLES
    state,                  \* AtomicU8: Closed, Open or HalfOpen
    consecutive_failures,   \* AtomicU32
    consecutive_successes,  \* AtomicU32
    changeAge,              \* now_ms() - last_state_change_ms, at most Timeout
    pc,                     \* per thread: its next step once todo is empty
    todo,                   \* per thread: the stores of a transition still to make
    seen,                   \* per thread: the count or age its last access returned
    then,                   \* per thread: where to go if its check says HalfOpen
    openAge,                \* history: ticks since the state became Open, at most Timeout
    probes                  \* history: successes counted since the state became HalfOpen

counters == <<consecutive_failures, consecutive_successes>>
shared == <<state, counters, changeAge>>
history == <<openAge, probes>>
vars == <<shared, pc, todo, seen, then, history>>

States == {"Closed", "Open", "HalfOpen"}
Steps == {"idle", "load_age", "cas", "reload", "success", "add_success",
          "judge_success", "failure", "add_failure", "judge_failure", "close", "open", "reset"}

AtMost(n, cap) == IF n > cap THEN cap ELSE n
Goto(t, step) == pc' = [pc EXCEPT ![t] = step]
At(t, step) == pc[t] = step /\ todo[t] = {}

Init ==
    /\ state = "Closed"
    /\ consecutive_failures = 0
    /\ consecutive_successes = 0
    /\ changeAge = 0
    /\ pc = [t \in Threads |-> "idle"]
    /\ todo = [t \in Threads |-> {}]
    /\ seen = [t \in Threads |-> 0]
    /\ then = [t \in Threads |-> "idle"]
    /\ openAge = 0
    /\ probes = 0

-----------------------------------------------------------------------------
(* A write of the state and the stores it entails.                         *)

\* Variant: entering HalfOpen keeps the successes counted before.
StoresKeepSuccesses(s) ==
    CASE s = state -> {}
      [] s # state /\ s = "Open" -> {"time", "successes"}
      [] s # state /\ s = "HalfOpen" -> {"time", "failures"}
      [] OTHER -> {"time", "failures", "successes"}

\* What is stored once s has replaced the state.
StoresOf(s) ==
    CASE s = state -> {}
      [] s # state /\ s = "Open" -> {"time", "successes"}
      [] OTHER -> {"time", "failures", "successes"}

\* The swap of transition_to (or the CAS, when s is HalfOpen).
Enter(t, s, step) ==
    /\ state' = s
    /\ todo' = [todo EXCEPT ![t] = StoresOf(s)]
    /\ openAge' = IF s = "Open" /\ state # s THEN 0 ELSE openAge
    /\ probes' = IF s = "HalfOpen" THEN 0 ELSE probes
    /\ Goto(t, step)
    /\ UNCHANGED <<counters, changeAge, seen, then>>

StoreTime(t) ==
    /\ "time" \in todo[t]
    /\ changeAge' = 0
    /\ todo' = [todo EXCEPT ![t] = @ \ {"time"}]
    /\ UNCHANGED <<state, counters, pc, seen, then, history>>

StoreFailures(t) ==
    /\ "failures" \in todo[t] /\ "time" \notin todo[t]
    /\ consecutive_failures' = 0
    /\ todo' = [todo EXCEPT ![t] = @ \ {"failures"}]
    /\ UNCHANGED <<state, consecutive_successes, changeAge, pc, seen, then, history>>

StoreSuccesses(t) ==
    /\ todo[t] = {"successes"}
    /\ consecutive_successes' = 0
    /\ todo' = [todo EXCEPT ![t] = {}]
    /\ UNCHANGED <<state, consecutive_failures, changeAge, pc, seen, then, history>>

-----------------------------------------------------------------------------
(* can_execute, state and is_half_open: check_and_update_state_returning.  *)
(* step is where the caller goes on when the answer is HalfOpen.           *)

Check(t, op, step) ==
    /\ op \in Ops
    /\ At(t, "idle")
    /\ Goto(t, CASE state = "Open" -> "load_age"
                 [] state = "HalfOpen" -> step
                 [] OTHER -> "idle")
    /\ then' = [then EXCEPT ![t] = step]
    /\ UNCHANGED <<shared, todo, seen, history>>

\* Variant: the age is that of the check, not of the opening.
LoadAgeOfCheck(t) ==
    /\ At(t, "load_age")
    /\ seen' = [seen EXCEPT ![t] = 0]
    /\ Goto(t, "cas")
    /\ UNCHANGED <<shared, todo, then, history>>

LoadAge(t) ==
    /\ At(t, "load_age")
    /\ seen' = [seen EXCEPT ![t] = changeAge]
    /\ Goto(t, "cas")
    /\ UNCHANGED <<shared, todo, then, history>>

\* Variant: the transition to HalfOpen is a plain store.
WinStore(t) ==
    /\ At(t, "cas") /\ seen[t] >= Timeout
    /\ Enter(t, "HalfOpen", then[t])

\* The timeout has passed: the transition to HalfOpen is tried.
WinCas(t) ==
    /\ At(t, "cas") /\ seen[t] >= Timeout
    /\ state = "Open"
    /\ Enter(t, "HalfOpen", then[t])

\* Too early: the answer is Open.  Or the CAS is lost.
LeaveCheck(t) ==
    /\ At(t, "cas")
    /\ \/ seen[t] < Timeout /\ Goto(t, "idle")
       \/ seen[t] >= Timeout /\ state # "Open" /\ Goto(t, "reload")
    /\ UNCHANGED <<shared, todo, seen, then, history>>

\* "Another thread already transitioned, re-read the state"
Reload(t) ==
    /\ At(t, "reload")
    /\ Goto(t, IF state = "HalfOpen" THEN then[t] ELSE "idle")
    /\ UNCHANGED <<shared, todo, seen, then, history>>

-----------------------------------------------------------------------------
(* record_success and record_failure.                                      *)

Success(t) ==
    /\ At(t, "success") \/ ("success" \in Ops /\ At(t, "idle"))
    /\ consecutive_failures' = 0
    /\ Goto(t, "add_success")
    /\ UNCHANGED <<state, consecutive_successes, changeAge, todo, seen, then, history>>

AddSuccess(t) ==
    /\ At(t, "add_success")
    /\ consecutive_successes' = AtMost(consecutive_successes + 1, SuccessThreshold)
    /\ seen' = [seen EXCEPT ![t] = consecutive_successes']
    /\ probes' = IF state = "HalfOpen"
                 THEN AtMost(probes + 1, SuccessThreshold) ELSE probes
    /\ Goto(t, "judge_success")
    /\ UNCHANGED <<state, consecutive_failures, changeAge, todo, then, openAge>>

\* The state is loaded after the count: another thread may change it between.
JudgeSuccess(t) ==
    /\ At(t, "judge_success")
    /\ Goto(t, IF state = "HalfOpen" /\ seen[t] >= SuccessThreshold
               THEN "close" ELSE "idle")
    /\ UNCHANGED <<shared, todo, seen, then, history>>

Failure(t) ==
    /\ At(t, "failure") \/ ("failure" \in Ops /\ At(t, "idle"))
    /\ consecutive_successes' = 0
    /\ Goto(t, "add_failure")
    /\ UNCHANGED <<state, consecutive_failures, changeAge, todo, seen, then, history>>

AddFailure(t) ==
    /\ At(t, "add_failure")
    /\ consecutive_failures' = AtMost(consecutive_failures + 1, FailureThreshold)
    /\ seen' = [seen EXCEPT ![t] = consecutive_failures']
    /\ Goto(t, "judge_failure")
    /\ UNCHANGED <<state, consecutive_successes, changeAge, todo, then, history>>

JudgeFailure(t) ==
    /\ At(t, "judge_failure")
    /\ Goto(t, IF \/ state = "HalfOpen"
                  \/ state = "Closed" /\ seen[t] >= FailureThreshold
               THEN "open" ELSE "idle")
    /\ UNCHANGED <<shared, todo, seen, then, history>>

\* transition_to as the outcome decided, whatever the state is by now.
Close(t) == At(t, "close") /\ Enter(t, "Closed", "idle")
Open(t) == At(t, "open") /\ Enter(t, "Open", "idle")

ForceOpen(t) == "force_open" \in Ops /\ At(t, "idle") /\ Enter(t, "Open", "idle")
Reset(t) == "reset" \in Ops /\ At(t, "idle") /\ Enter(t, "Closed", "reset")

\* reset clears both counters once more after the transition.
ResetCounters(t) ==
    /\ At(t, "reset")
    /\ todo' = [todo EXCEPT ![t] = {"failures", "successes"}]
    /\ Goto(t, "idle")
    /\ UNCHANGED <<shared, seen, then, history>>

-----------------------------------------------------------------------------
\* now_ms() advances; an age a check has loaded grows until it is compared.
Tick ==
    /\ changeAge' = AtMost(changeAge + 1, Timeout)
    /\ openAge' = AtMost(openAge + 1, Timeout)
    /\ seen' = [t \in Threads |->
                  IF pc[t] = "cas" THEN AtMost(seen[t] + 1, Timeout) ELSE seen[t]]
    /\ UNCHANGED <<state, counters, pc, todo, then, probes>>

Begin(t) ==
    \/ Check(t, "check", "idle")
    \/ Check(t, "test_success", "success") \/ Check(t, "test_failure", "failure")
    \/ ForceOpen(t) \/ Reset(t)

Continue(t) ==
    \/ StoreTime(t) \/ StoreFailures(t) \/ StoreSuccesses(t)
    \/ LoadAge(t) \/ WinCas(t) \/ LeaveCheck(t) \/ Reload(t)
    \/ AddSuccess(t) \/ JudgeSuccess(t) \/ AddFailure(t) \/ JudgeFailure(t)
    \/ Close(t) \/ Open(t) \/ ResetCounters(t)

Next == Tick \/ \E t \in Threads : Begin(t) \/ Success(t) \/ Failure(t) \/ Continue(t)

Spec == Init /\ [][Next]_vars

(* An operation that has begun runs to its end (nothing in it blocks), the *)
(* clock advances, and requests keep asking whether the worker may be used:*)
(* every routing decision calls can_execute on every worker of the model.  *)
Fairness ==
    /\ WF_vars(Tick)
    /\ \A t \in Threads : /\ WF_vars(Continue(t))
                          /\ SF_vars(Check(t, "check", "idle"))

FairSpec == Spec /\ Fairness

-----------------------------------------------------------------------------
\* Every variable holds a value the code can produce.
TypeOK ==
    /\ state \in States
    /\ consecutive_failures \in 0..FailureThreshold
    /\ consecutive_successes \in 0..SuccessThreshold
    /\ changeAge \in 0..Timeout
    /\ pc \in [Threads -> Steps]
    /\ todo \in [Threads -> SUBSET {"time", "failures", "successes"}]
    /\ seen \in [Threads -> Nat]
    /\ then \in [Threads -> {"idle", "success", "failure"}]
    /\ openAge \in 0..Timeout
    /\ probes \in 0..SuccessThreshold

(* However operations interleave, a probe phase begins only from Open: the *)
(* CAS at line 176 never overwrites a Closed that another thread stored    *)
(* after this thread loaded Open.                                          *)
HalfOpenOnlyFromOpen == [][state' = "HalfOpen" => state \in {"Open", "HalfOpen"}]_vars

(* "Duration to wait before attempting half-open" (line 17): no probe      *)
(* phase begins before timeout_duration has passed since the circuit       *)
(* opened.  Holds for operations that do not overlap.                      *)
TimeoutRespected ==
    [][state = "Open" /\ state' = "HalfOpen" => openAge >= Timeout]_vars

(* "Success threshold to close circuit from half-open" (line 15): a circuit*)
(* closes only after that many successes counted in this probe phase.      *)
CloseNeedsProbes ==
    [][state = "HalfOpen" /\ state' = "Closed" => probes >= SuccessThreshold]_vars

(* Without reset, an open circuit never closes without a probe phase.      *)
NoCloseFromOpen == [][state = "Open" => state' # "Closed"]_vars

(* An open circuit is eventually probed, whatever outcomes late requests   *)
(* record meanwhile: nothing they do postpones the end of the timeout for  *)
(* ever.                                                                   *)
OpenIsProbed == state = "Open" ~> state # "Open"
=============================================================================
