------------------------ MODULE CircuitBreakerProofs ------------------------
(***************************************************************************)
(* Proofs about CircuitBreaker, for every number of tasks and every value  *)
(* of the thresholds and of the timeout.                                   *)
(***************************************************************************)
EXTENDS BreakerRefinement, FiniteSetTheorems, TLAPS

-----------------------------------------------------------------------------
\* What a write of the state does to the typed variables.
LEMMA EnterType ==
    ASSUME TypeOK, NEW t \in Threads, NEW s \in States, NEW step \in Steps,
           Enter(t, s, step)
    PROVE  TypeOK'
BY BreakerAssumption DEF TypeOK, Enter, Goto, StoresOf, States, counters

\* Every step keeps the types.
LEMMA TypeStep == TypeOK /\ [Next]_vars => TypeOK'
<1> SUFFICES ASSUME TypeOK, [Next]_vars PROVE TypeOK'
  OBVIOUS
<1>1. CASE UNCHANGED vars
  BY <1>1 DEF vars, shared, counters, history, TypeOK
<1>2. CASE Tick
  BY <1>2, BreakerAssumption DEF Tick, AtMost, counters, TypeOK
<1>3. ASSUME NEW t \in Threads,
             WinCas(t) \/ Close(t) \/ Open(t) \/ ForceOpen(t) \/ Reset(t)
      PROVE  TypeOK'
  <2>1. then[t] \in Steps /\ "idle" \in Steps /\ "reset" \in Steps
    BY DEF TypeOK, Steps
  <2>2. {"Closed", "Open", "HalfOpen"} \subseteq States
    BY DEF States
  <2> QED
    BY <1>3, <2>1, <2>2, EnterType DEF WinCas, Close, Open, ForceOpen, Reset
<1>4. ASSUME NEW t \in Threads, Begin(t), ~ForceOpen(t), ~Reset(t) PROVE TypeOK'
  <2>1. ASSUME NEW op, NEW step \in {"idle", "success", "failure"}, Check(t, op, step)
        PROVE  TypeOK'
    BY <2>1 DEF Check, Goto, Steps, shared, counters, history, TypeOK
  <2> QED
    BY <1>4, <2>1 DEF Begin
<1>5. ASSUME NEW t \in Threads, Success(t) \/ Failure(t) PROVE TypeOK'
  BY <1>5, BreakerAssumption
     DEF Success, Failure, Goto, Steps, history, TypeOK
<1>6. ASSUME NEW t \in Threads, Continue(t), ~WinCas(t), ~Close(t), ~Open(t)
      PROVE  TypeOK'
  <2> USE BreakerAssumption DEF Goto, Steps, shared, counters, history, TypeOK
  <2>1. CASE StoreTime(t)
    BY <2>1 DEF StoreTime
  <2>2. CASE StoreFailures(t)
    BY <2>2 DEF StoreFailures
  <2>3. CASE StoreSuccesses(t)
    BY <2>3 DEF StoreSuccesses
  <2>4. CASE LoadAge(t) \/ LeaveCheck(t) \/ Reload(t)
    BY <2>4 DEF LoadAge, LeaveCheck, Reload
  <2>5. CASE AddSuccess(t)
    BY <2>5 DEF AddSuccess, AtMost
  <2>6. CASE AddFailure(t)
    BY <2>6 DEF AddFailure, AtMost
  <2>7. CASE JudgeSuccess(t) \/ JudgeFailure(t)
    BY <2>7 DEF JudgeSuccess, JudgeFailure
  <2>8. CASE ResetCounters(t)
    BY <2>8 DEF ResetCounters
  <2> QED
    BY <1>6, <2>1, <2>2, <2>3, <2>4, <2>5, <2>6, <2>7, <2>8 DEF Continue
<1> QED
  BY <1>1, <1>2, <1>3, <1>4, <1>5, <1>6 DEF Next, Begin

(* The type invariant of CircuitBreaker holds in every reachable state,    *)
(* whatever operations the tasks start and however they interleave.        *)
THEOREM TypeCorrect == Spec => []TypeOK
<1>1. Init => TypeOK
  BY BreakerAssumption DEF Init, TypeOK, States, Steps
<1> QED
  BY <1>1, TypeStep, PTL DEF Spec

-----------------------------------------------------------------------------
\* Only the steps named here write the state.
LEMMA StateWrites ==
    ASSUME NEW t \in Threads,
           Begin(t) \/ Success(t) \/ Failure(t) \/ Continue(t)
    PROVE  \/ UNCHANGED state
           \/ WinCas(t)
           \/ Close(t) \/ Reset(t)
           \/ (Open(t) \/ ForceOpen(t)) /\ state' = "Open"
BY DEF Begin, Continue, Check, Success, Failure, StoreTime, StoreFailures,
   StoreSuccesses, LoadAge, LeaveCheck, Reload, AddSuccess, JudgeSuccess,
   AddFailure, JudgeFailure, Open, ForceOpen, ResetCounters, Enter, shared

(* For any number of tasks running any operations: a probe phase begins    *)
(* only from Open, because the CAS at line 176 is the only write of        *)
(* HalfOpen.                                                               *)
THEOREM ProbePhaseFromOpen == Spec => HalfOpenOnlyFromOpen
<1>1. [Next]_vars => [state' = "HalfOpen" => state \in {"Open", "HalfOpen"}]_vars
  BY StateWrites DEF Next, Tick, WinCas, Close, Reset, Enter
<1> QED
  BY <1>1, PTL DEF Spec, HalfOpenOnlyFromOpen

-----------------------------------------------------------------------------
(* What the configuration documents holds when operations do not overlap   *)
(* and reset and force_open are not used.  With two tasks it may not: one  *)
(* decides to close the circuit, the other opens it, and then the first    *)
(* one closes it.                                                          *)
Sequential ==
    /\ \A t, u \in Threads : t = u
    /\ Ops \subseteq {"check", "success", "failure"}

\* Where the task is tells what the shared state holds: only while stores are
\* pending do the time and the success counter belong to the previous state.
TaskInv(t) ==
    /\ then[t] = "idle"
    /\ pc[t] # "reset"
    /\ todo[t] # {} => pc[t] = "idle"
    /\ pc[t] = "close" => state = "HalfOpen" /\ probes >= SuccessThreshold
    /\ state = "Open" /\ "time" \notin todo[t] => changeAge <= openAge
    /\ pc[t] = "cas" => state = "Open" /\ seen[t] <= openAge
    /\ pc[t] = "load_age" => state = "Open"
    /\ state = "HalfOpen" /\ "successes" \notin todo[t]
          => consecutive_successes <= probes
    /\ state = "HalfOpen" /\ pc[t] = "judge_success" => seen[t] <= probes

SeqInv == TypeOK /\ \A t \in Threads : TaskInv(t)

\* A step of the only task, or of the clock, preserves TaskInv.
LEMMA TaskInvStep ==
    ASSUME Sequential, TypeOK, NEW t \in Threads, TaskInv(t), [Next]_vars
    PROVE  TaskInv(t)'
<1> USE BreakerAssumption DEF TypeOK, TaskInv
<1>1. CASE UNCHANGED vars
  BY <1>1 DEF vars, shared, counters, history
<1>2. CASE Tick
  BY <1>2 DEF Tick, AtMost, counters
<1>3. CASE Begin(t)
  BY <1>3 DEF Begin, Check, ForceOpen, Reset, At, Goto, Sequential, shared,
     counters, history
<1>4. CASE Success(t) \/ Failure(t)
  BY <1>4 DEF Success, Failure, At, Goto, history
<1>5. CASE Continue(t)
  <2> USE DEF At, Goto, shared, counters, history
  <2>1. CASE StoreTime(t)
    BY <2>1 DEF StoreTime
  <2>2. CASE StoreFailures(t)
    BY <2>2 DEF StoreFailures
  <2>3. CASE StoreSuccesses(t)
    BY <2>3 DEF StoreSuccesses
  <2>4. CASE LoadAge(t) \/ LeaveCheck(t) \/ Reload(t)
    BY <2>4 DEF LoadAge, LeaveCheck, Reload
  <2>5. CASE WinCas(t)
    BY <2>5 DEF WinCas, Enter, StoresOf
  <2>6. CASE AddSuccess(t)
    BY <2>6 DEF AddSuccess, AtMost
  <2>7. CASE AddFailure(t)
    BY <2>7 DEF AddFailure
  <2>8. CASE JudgeSuccess(t) \/ JudgeFailure(t)
    BY <2>8 DEF JudgeSuccess, JudgeFailure
  <2>9. CASE Close(t) \/ Open(t)
    BY <2>9 DEF Close, Open, Enter, StoresOf
  <2>10. CASE ResetCounters(t)
    BY <2>10 DEF ResetCounters
  <2> QED
    BY <1>5, <2>1, <2>2, <2>3, <2>4, <2>5, <2>6, <2>7, <2>8, <2>9, <2>10 DEF Continue
<1> QED
  BY <1>1, <1>2, <1>3, <1>4, <1>5 DEF Next, Sequential

LEMMA SeqInvInductive ==
    ASSUME Sequential
    PROVE  Spec => []SeqInv
<1>1. Init => \A t \in Threads : TaskInv(t)
  BY DEF Init, TaskInv
<1>2. TypeOK /\ (\A t \in Threads : TaskInv(t)) /\ [Next]_vars
        => (\A t \in Threads : TaskInv(t))'
  BY TaskInvStep
<1> QED
  BY <1>1, <1>2, TypeCorrect, PTL DEF Spec, SeqInv

(* Operations that do not overlap: the probe phase waits for the timeout,  *)
(* closes only on SuccessThreshold successes of that phase, and an open    *)
(* circuit does not close without one.                                     *)
THEOREM SequentialBreaker ==
    ASSUME Sequential
    PROVE  Spec => TimeoutRespected /\ CloseNeedsProbes /\ NoCloseFromOpen
<1> DEFINE Step == /\ state = "Open" /\ state' = "HalfOpen" => openAge >= Timeout
                   /\ state = "HalfOpen" /\ state' = "Closed" => probes >= SuccessThreshold
                   /\ state = "Open" => state' # "Closed"
<1>1. SeqInv /\ [Next]_vars => [Step]_vars
  <2> SUFFICES ASSUME SeqInv, Next PROVE Step
    OBVIOUS
  <2>1. CASE Tick
    BY <2>1 DEF Tick
  <2>2. ASSUME NEW t \in Threads, WinCas(t) \/ Close(t) \/ Reset(t) PROVE Step
    BY <2>2, BreakerAssumption
       DEF WinCas, Close, Reset, Enter, At, Sequential, SeqInv,
           TaskInv, TypeOK
  <2>3. ASSUME NEW t \in Threads,
               Begin(t) \/ Success(t) \/ Failure(t) \/ Continue(t)
        PROVE  Step
    <3>1. CASE WinCas(t) \/ Close(t) \/ Reset(t)
      BY <3>1, <2>2
    <3>2. CASE state' \in {state, "Open"}
      BY <3>2
    <3> QED
      BY <2>3, <3>1, <3>2, StateWrites
  <2> QED
    BY <2>1, <2>3 DEF Next
<1>2. Spec => []SeqInv
  BY SeqInvInductive
<1> QED
  BY <1>1, <1>2, PTL DEF Spec, TimeoutRespected, CloseNeedsProbes, NoCloseFromOpen
-----------------------------------------------------------------------------
(* The refinement.  While no two operations overlap there is one task at   *)
(* most that is not idle, and the mapping is a function of where it is.    *)

Solo(t) == \A u \in Threads \ {t} : pc[u] = "idle" /\ todo[u] = {}

\* Settled and Finished for a task that is alone.
Ripe(t) == state = "Open" /\ "time" \notin todo[t] /\ changeAge >= Timeout
FailuresBy(t) == IF "failures" \in todo[t] \/ pc[t] = "reset" THEN 0 ELSE consecutive_failures
SuccessesBy(t) == IF "successes" \in todo[t] \/ pc[t] = "reset" THEN 0 ELSE consecutive_successes
SettledBy(t) == Whole!Circuit(state, FailuresBy(t), SuccessesBy(t), Ripe(t))

FinishedBy(t) ==
    IF pc[t] = "add_success" THEN Whole!Passed(SettledBy(t))
    ELSE IF pc[t] = "add_failure" THEN Whole!Failed(SettledBy(t))
    ELSE IF \/ pc[t] = "close"
            \/ pc[t] = "judge_success" /\ state = "HalfOpen" /\ seen[t] >= SuccessThreshold
    THEN Whole!Closed(SettledBy(t))
    ELSE IF \/ pc[t] = "open"
            \/ pc[t] = "judge_failure" /\ (state = "HalfOpen" \/ (state = "Closed" /\ seen[t] >= FailureThreshold))
    THEN Whole!Opened(SettledBy(t))
    ELSE SettledBy(t)

LEMMA AloneFinished ==
    \A t \in Threads : Solo(t) => Finished = FinishedBy(t)
<1> SUFFICES ASSUME NEW t \in Threads, Solo(t) PROVE Finished = FinishedBy(t)
  OBVIOUS
<1>1. ASSUME NEW store PROVE Pending(store) <=> store \in todo[t]
  BY DEF Solo, Pending
<1>2. ASSUME NEW at, at # "idle" PROVE Doing(at) <=> pc[t] = at
  BY <1>2 DEF Solo, Doing
<1>3. ASSUME NEW n, pc[t] # "idle" PROVE Judged(n) <=> seen[t] >= n
  BY <1>3 DEF Solo, Judged, Busy
<1>4. Settled = SettledBy(t)
  BY <1>1, <1>2 DEF Settled, SettledBy, FailuresBy, SuccessesBy, Ripe
<1> QED
  BY <1>2, <1>3, <1>4 DEF Finished, FinishedBy

TaskStep(t) == Begin(t) \/ Success(t) \/ Failure(t) \/ Continue(t)

\* A task's step leaves the other tasks where they are.
LEMMA OneTask ==
    ASSUME TypeOK, NEW t \in Threads, TaskStep(t)
    PROVE  \A u \in Threads \ {t} : pc'[u] = pc[u] /\ todo'[u] = todo[u] /\ seen'[u] = seen[u]
BY DEF TypeOK, TaskStep, Begin, Continue, Check, ForceOpen, Reset, Success, Failure, StoreTime,
   StoreFailures, StoreSuccesses, LoadAge, WinCas, LeaveCheck, Reload, AddSuccess, JudgeSuccess,
   AddFailure, JudgeFailure, Close, Open, ResetCounters, Enter, Goto

\* A task that is idle before and after its step has only looked.
LEMMA OnlyLooked ==
    ASSUME TypeOK, NEW t \in Threads, TaskStep(t), t \notin Busy, t \notin Busy'
    PROVE  UNCHANGED <<shared, pc, todo, seen>>
<1> USE DEF TypeOK, Busy, Goto, At, shared, counters, Steps, States
<1>1. CASE \/ Check(t, "check", "idle") \/ Check(t, "test_success", "success")
           \/ Check(t, "test_failure", "failure")
  BY <1>1 DEF Check
<1>2. CASE ForceOpen(t)
  BY <1>2 DEF ForceOpen, Enter, StoresOf
<1>3. CASE Reset(t) \/ Success(t) \/ Failure(t)
  BY <1>3 DEF Reset, Enter, Success, Failure
<1>4. ~Continue(t)
  BY DEF Continue, StoreTime, StoreFailures, StoreSuccesses, LoadAge, WinCas, LeaveCheck, Reload,
     AddSuccess, JudgeSuccess, AddFailure, JudgeFailure, Close, Open, ResetCounters
<1> QED
  BY <1>1, <1>2, <1>3, <1>4 DEF TaskStep, Begin

\* Where a task that is alone is tells what it has done.
OpInv(t) ==
    /\ todo[t] # {} => pc[t] \in {"idle", "reset", "success", "failure"}
    /\ pc[t] = "load_age" => state = "Open"
    /\ pc[t] = "cas" => state = "Open" /\ seen[t] <= changeAge
    /\ pc[t] = "add_success" => consecutive_failures = 0
    /\ pc[t] = "add_failure" => consecutive_successes = 0
    /\ pc[t] = "close" => state = "HalfOpen"
    /\ pc[t] = "open" => state # "Open"

\* What an operation may do to a breaker in one piece.
Outcomes(b) == {Whole!Checked(b), Whole!Passed(b), Whole!Failed(b), Whole!Forced(b),
                Whole!Closed(b), Whole!Cooled(b)}

\* A step of a task that is alone keeps OpInv ...
LEMMA AloneInv ==
    ASSUME TypeOK, NEW t \in Threads, OpInv(t), TaskStep(t)
    PROVE  OpInv(t)'
<1> USE BreakerAssumption DEF TypeOK, OpInv, At, Goto, shared, counters, States
<1>1. CASE StoreTime(t) \/ StoreFailures(t) \/ StoreSuccesses(t)
  BY <1>1 DEF StoreTime, StoreFailures, StoreSuccesses
<1>2. CASE LoadAge(t) \/ LeaveCheck(t) \/ Reload(t)
  BY <1>2 DEF LoadAge, LeaveCheck, Reload
<1>3. CASE Success(t) \/ AddSuccess(t)
  BY <1>3 DEF Success, AddSuccess, AtMost
<1>4. CASE Failure(t) \/ AddFailure(t)
  BY <1>4 DEF Failure, AddFailure, AtMost
<1>5. CASE JudgeSuccess(t) \/ JudgeFailure(t)
  BY <1>5 DEF JudgeSuccess, JudgeFailure
<1>6. CASE WinCas(t) \/ Close(t) \/ Open(t) \/ ForceOpen(t) \/ Reset(t)
  BY <1>6 DEF WinCas, Close, Open, ForceOpen, Reset, Enter, StoresOf
<1>7. CASE ResetCounters(t)
  BY <1>7 DEF ResetCounters
<1>8. CASE \/ Check(t, "check", "idle") \/ Check(t, "test_success", "success")
           \/ Check(t, "test_failure", "failure")
  BY <1>8 DEF Check
<1> QED
  BY <1>1, <1>2, <1>3, <1>4, <1>5, <1>6, <1>7, <1>8 DEF TaskStep, Begin, Continue

\* ... and is one operation in one piece, or nothing.
LEMMA AloneStep ==
    ASSUME TypeOK, NEW t \in Threads, OpInv(t), TaskStep(t)
    PROVE  FinishedBy(t)' \in Outcomes(FinishedBy(t)) \cup {FinishedBy(t)}
<1> USE BreakerAssumption DEF TypeOK, OpInv, At, Goto, shared, counters, States
<1> DEFINE f == FailuresBy(t)
           n == SuccessesBy(t)
           r == Ripe(t)
           b == Whole!Circuit(state, f, n, r)
<1>1. CASE StoreTime(t)
  <2>1. /\ "time" \in todo[t] /\ pc[t] \in {"idle", "reset", "success", "failure"}
        /\ UNCHANGED <<state, pc>> /\ f' = f /\ n' = n /\ ~r
    BY <1>1 DEF StoreTime, FailuresBy, SuccessesBy, Ripe
  <2>2. r' => state = "Open"
    BY <2>1 DEF Ripe
  <2>3. FinishedBy(t) = b /\ FinishedBy(t)' = Whole!Circuit(state, f, n, r')
    BY <2>1 DEF FinishedBy, SettledBy
  <2>4. Whole!Cooled(b) = IF state = "Open" THEN Whole!Circuit("Open", f, n, TRUE) ELSE b
    BY DEF Whole!Cooled, Whole!Circuit
  <2>5. CASE r'
    BY <2>2, <2>3, <2>4, <2>5 DEF Outcomes
  <2>6. CASE ~r'
    <3>1. r' = r
      BY <2>1, <2>6 DEF Ripe
    <3> QED
      BY <2>3, <3>1
  <2> QED
    BY <2>5, <2>6

<1>2. CASE StoreFailures(t) \/ StoreSuccesses(t)
  <2>1. /\ todo[t] # {} /\ pc[t] \in {"idle", "reset", "success", "failure"}
        /\ UNCHANGED <<state, pc>> /\ f' = f /\ n' = n /\ r' = r
    <3>1. CASE StoreFailures(t)
      BY <3>1 DEF StoreFailures, FailuresBy, SuccessesBy, Ripe
    <3>2. CASE StoreSuccesses(t)
      BY <3>2 DEF StoreSuccesses, FailuresBy, SuccessesBy, Ripe
    <3> QED BY <1>2, <3>1, <3>2
  <2> QED
    BY <2>1 DEF FinishedBy, SettledBy
<1>3. CASE \/ LoadAge(t) \/ LeaveCheck(t) \/ Reload(t)
           \/ Check(t, "check", "idle") \/ Check(t, "test_success", "success")
           \/ Check(t, "test_failure", "failure")
  <2>1. /\ todo[t] = {} /\ todo'[t] = {} /\ pc[t] \in {"idle", "load_age", "cas", "reload"}
        /\ pc'[t] \in {"idle", "load_age", "cas", "reload", "success", "failure"}
        /\ UNCHANGED <<state, counters, changeAge>>
    BY <1>3 DEF LoadAge, LeaveCheck, Reload, Check
  <2>2. f' = f /\ n' = n /\ r' = r
    BY <2>1 DEF FailuresBy, SuccessesBy, Ripe
  <2> QED
    BY <2>1, <2>2 DEF FinishedBy, SettledBy
<1>4. CASE WinCas(t)
  <2>1. /\ state = "Open" /\ changeAge >= Timeout /\ todo[t] = {} /\ pc[t] = "cas"
        /\ state' = "HalfOpen" /\ todo'[t] = {"time", "failures", "successes"}
        /\ pc'[t] \in {"idle", "success", "failure"}
    BY <1>4 DEF WinCas, Enter, StoresOf
  <2>2. f' = 0 /\ n' = 0 /\ r' = FALSE /\ r = TRUE
    BY <2>1 DEF FailuresBy, SuccessesBy, Ripe
  <2>3. FinishedBy(t) = b /\ FinishedBy(t)' = Whole!Circuit("HalfOpen", 0, 0, FALSE)
    BY <2>1, <2>2 DEF FinishedBy, SettledBy
  <2>4. Whole!Checked(b) = Whole!Circuit("HalfOpen", 0, 0, FALSE)
    BY <2>1, <2>2 DEF Whole!Checked, Whole!Circuit
  <2> QED
    BY <2>3, <2>4 DEF Outcomes
<1>5. CASE Success(t)
  <2>1. /\ todo[t] = {} /\ pc[t] \in {"idle", "success"} /\ pc'[t] = "add_success" /\ todo'[t] = {}
        /\ consecutive_failures' = 0 /\ UNCHANGED <<state, consecutive_successes, changeAge>>
    BY <1>5 DEF Success
  <2>2. n' = n /\ r' = r
    BY <2>1 DEF SuccessesBy, Ripe
  <2>3. FinishedBy(t) = b /\ FinishedBy(t)' = Whole!Passed(Whole!Circuit(state, f', n, r))
    BY <2>1, <2>2 DEF FinishedBy, SettledBy
  <2> HIDE DEF f, n, r
  <2>4. Whole!Passed(Whole!Circuit(state, f', n, r)) = Whole!Passed(b)
    BY DEF Whole!Passed, Whole!Closed, Whole!Circuit
  <2> QED
    BY <2>3, <2>4 DEF Outcomes
<1>6. CASE AddSuccess(t)
  <2> DEFINE more == Whole!UpTo(n + 1, SuccessThreshold)
  <2>1. /\ todo[t] = {} /\ pc[t] = "add_success" /\ pc'[t] = "judge_success" /\ todo'[t] = {}
        /\ consecutive_failures = 0 /\ UNCHANGED <<state, consecutive_failures, changeAge>>
        /\ consecutive_successes' = AtMost(consecutive_successes + 1, SuccessThreshold)
        /\ seen'[t] = consecutive_successes'
    BY <1>6 DEF AddSuccess
  <2>2. f = 0 /\ f' = 0 /\ n' = more /\ r' = r /\ seen'[t] = more
    BY <2>1 DEF FailuresBy, SuccessesBy, Ripe, Whole!UpTo, AtMost
  <2> HIDE DEF f, n, r, more
  <2>3. /\ FinishedBy(t) = Whole!Passed(b)
        /\ FinishedBy(t)' = IF state = "HalfOpen" /\ more >= SuccessThreshold
                            THEN Whole!Closed(Whole!Circuit(state, 0, more, r))
                            ELSE Whole!Circuit(state, 0, more, r)
    BY <2>1, <2>2 DEF FinishedBy, SettledBy, f, n, r
  <2>4. /\ Whole!Passed(b) = IF state = "HalfOpen" /\ more >= SuccessThreshold
                             THEN Whole!Circuit("Closed", 0, 0, FALSE)
                             ELSE Whole!Circuit(state, 0, more, r)
        /\ Whole!Closed(Whole!Circuit(state, 0, more, r)) = Whole!Circuit("Closed", 0, 0, FALSE)
    BY DEF more, Whole!Passed, Whole!Closed, Whole!Circuit
  <2> QED
    BY <2>3, <2>4
<1>7. CASE Failure(t)
  <2>1. /\ todo[t] = {} /\ pc[t] \in {"idle", "failure"} /\ pc'[t] = "add_failure" /\ todo'[t] = {}
        /\ consecutive_successes' = 0 /\ UNCHANGED <<state, consecutive_failures, changeAge>>
    BY <1>7 DEF Failure
  <2>2. f' = f /\ r' = r
    BY <2>1 DEF FailuresBy, Ripe
  <2>3. FinishedBy(t) = b /\ FinishedBy(t)' = Whole!Failed(Whole!Circuit(state, f, n', r))
    BY <2>1, <2>2 DEF FinishedBy, SettledBy
  <2> HIDE DEF f, n, r
  <2>4. Whole!Failed(Whole!Circuit(state, f, n', r)) = Whole!Failed(b)
    BY DEF Whole!Failed, Whole!Opened, Whole!Circuit
  <2> QED
    BY <2>3, <2>4 DEF Outcomes
<1>8. CASE AddFailure(t)
  <2> DEFINE worse == Whole!UpTo(f + 1, FailureThreshold)
  <2>1. /\ todo[t] = {} /\ pc[t] = "add_failure" /\ pc'[t] = "judge_failure" /\ todo'[t] = {}
        /\ consecutive_successes = 0 /\ UNCHANGED <<state, consecutive_successes, changeAge>>
        /\ consecutive_failures' = AtMost(consecutive_failures + 1, FailureThreshold)
        /\ seen'[t] = consecutive_failures'
    BY <1>8 DEF AddFailure
  <2>2. n = 0 /\ n' = 0 /\ f' = worse /\ r' = r /\ seen'[t] = worse
    BY <2>1 DEF FailuresBy, SuccessesBy, Ripe, Whole!UpTo, AtMost
  <2> HIDE DEF f, n, r, worse
  <2>3. /\ FinishedBy(t) = Whole!Failed(b)
        /\ FinishedBy(t)' = IF state = "HalfOpen" \/ (state = "Closed" /\ worse >= FailureThreshold)
                            THEN Whole!Opened(Whole!Circuit(state, worse, 0, r))
                            ELSE Whole!Circuit(state, worse, 0, r)
    BY <2>1, <2>2 DEF FinishedBy, SettledBy, f, n, r
  <2>4. /\ Whole!Failed(b) = IF state = "HalfOpen" \/ (state = "Closed" /\ worse >= FailureThreshold)
                             THEN Whole!Circuit("Open", worse, 0, FALSE)
                             ELSE Whole!Circuit(state, worse, 0, r)
        /\ Whole!Opened(Whole!Circuit(state, worse, 0, r)) = Whole!Circuit("Open", worse, 0, FALSE)
    BY DEF worse, Whole!Failed, Whole!Opened, Whole!Circuit
  <2> QED
    BY <2>3, <2>4
<1>9. CASE JudgeSuccess(t) \/ JudgeFailure(t)
  <2>1. /\ todo[t] = {} /\ todo'[t] = {} /\ UNCHANGED <<state, counters, changeAge, seen>>
        /\ \/ /\ pc[t] = "judge_success"
              /\ pc'[t] = IF state = "HalfOpen" /\ seen[t] >= SuccessThreshold THEN "close" ELSE "idle"
           \/ /\ pc[t] = "judge_failure"
              /\ pc'[t] = IF \/ state = "HalfOpen"
                             \/ state = "Closed" /\ seen[t] >= FailureThreshold THEN "open" ELSE "idle"
    BY <1>9 DEF JudgeSuccess, JudgeFailure
  <2>2. f' = f /\ n' = n /\ r' = r
    BY <2>1 DEF FailuresBy, SuccessesBy, Ripe
  <2>3. SettledBy(t)' = SettledBy(t)
    BY <2>1, <2>2 DEF SettledBy
  <2> QED
    BY <2>1, <2>3 DEF FinishedBy
<1>10. CASE Close(t)
  <2>1. /\ pc[t] = "close" /\ pc'[t] = "idle" /\ state' = "Closed"
        /\ todo'[t] = {"time", "failures", "successes"}
    BY <1>10 DEF Close, Enter, StoresOf
  <2>2. f' = 0 /\ n' = 0 /\ r' = FALSE
    BY <2>1 DEF FailuresBy, SuccessesBy, Ripe
  <2>3. FinishedBy(t) = Whole!Closed(b) /\ FinishedBy(t)' = Whole!Circuit("Closed", 0, 0, FALSE)
    BY <2>1, <2>2 DEF FinishedBy, SettledBy
  <2> QED
    BY <2>3 DEF Whole!Closed
<1>11. CASE Open(t)
  <2>1. /\ pc[t] = "open" /\ todo[t] = {} /\ pc'[t] = "idle" /\ state' = "Open"
        /\ todo'[t] = {"time", "successes"} /\ UNCHANGED counters
    BY <1>11 DEF Open, Enter, StoresOf
  <2>2. f' = f /\ n' = 0 /\ r' = FALSE
    BY <2>1 DEF FailuresBy, SuccessesBy, Ripe
  <2>3. FinishedBy(t) = Whole!Opened(b) /\ FinishedBy(t)' = Whole!Circuit("Open", f, 0, FALSE)
    BY <2>1, <2>2 DEF FinishedBy, SettledBy
  <2> QED
    BY <2>3 DEF Whole!Opened, Whole!Circuit
<1>12. CASE ForceOpen(t)
  <2>1. /\ pc[t] = "idle" /\ todo[t] = {} /\ pc'[t] = "idle" /\ state' = "Open"
        /\ UNCHANGED <<counters, changeAge>>
        /\ todo'[t] = IF state = "Open" THEN {} ELSE {"time", "successes"}
    BY <1>12 DEF ForceOpen, Enter, StoresOf
  <2>2. FinishedBy(t) = b /\ FinishedBy(t)' = Whole!Circuit("Open", f', n', r')
    BY <2>1 DEF FinishedBy, SettledBy
  <2>3. CASE state = "Open"
    <3>1. f' = f /\ n' = n /\ r' = r
      BY <2>1, <2>3 DEF FailuresBy, SuccessesBy, Ripe
    <3> QED
      BY <2>2, <2>3, <3>1
  <2>4. CASE state # "Open"
    <3>1. f' = f /\ n' = 0 /\ r' = FALSE
      BY <2>1, <2>4 DEF FailuresBy, SuccessesBy, Ripe
    <3>2. Whole!Forced(b) = Whole!Circuit("Open", f, 0, FALSE)
      BY <2>4 DEF Whole!Forced, Whole!Opened, Whole!Circuit
    <3> QED
      BY <2>2, <3>1, <3>2 DEF Outcomes
  <2> QED
    BY <2>3, <2>4
<1>13. CASE Reset(t)
  <2>1. pc[t] = "idle" /\ pc'[t] = "reset" /\ state' = "Closed"
    BY <1>13 DEF Reset, Enter
  <2>2. f' = 0 /\ n' = 0 /\ r' = FALSE
    BY <2>1 DEF FailuresBy, SuccessesBy, Ripe
  <2>3. FinishedBy(t) = b /\ FinishedBy(t)' = Whole!Circuit("Closed", 0, 0, FALSE)
    BY <2>1, <2>2 DEF FinishedBy, SettledBy
  <2> QED
    BY <2>3 DEF Outcomes, Whole!Closed
<1>14. CASE ResetCounters(t)
  <2>1. /\ pc[t] = "reset" /\ todo[t] = {} /\ pc'[t] = "idle" /\ todo'[t] = {"failures", "successes"}
        /\ UNCHANGED <<state, counters, changeAge>>
    BY <1>14 DEF ResetCounters
  <2>2. f' = f /\ n' = n /\ r' = r
    BY <2>1 DEF FailuresBy, SuccessesBy, Ripe
  <2> QED
    BY <2>1, <2>2 DEF FinishedBy, SettledBy
<1> QED
  BY <1>1, <1>2, <1>3, <1>4, <1>5, <1>6, <1>7, <1>8, <1>9, <1>10, <1>11, <1>12, <1>13, <1>14
     DEF TaskStep, Begin, Continue

\* The clock may end the timeout of an open circuit, and does nothing else.
LEMMA ClockStep ==
    ASSUME TypeOK, NEW t \in Threads, OpInv(t), Tick
    PROVE  OpInv(t)' /\ FinishedBy(t)' \in Outcomes(FinishedBy(t)) \cup {FinishedBy(t)}
<1> USE BreakerAssumption DEF TypeOK, States
<1> DEFINE f == FailuresBy(t)
           n == SuccessesBy(t)
           r == Ripe(t)
<1>1. OpInv(t)'
  BY DEF OpInv, Tick, AtMost, counters
<1>2. /\ UNCHANGED <<state, pc, todo>> /\ (pc[t] # "cas" => seen'[t] = seen[t])
      /\ f' = f /\ n' = n /\ (r => r')
  BY DEF Tick, AtMost, counters, FailuresBy, SuccessesBy, Ripe
<1>3. CASE r' = r
  <2>1. SettledBy(t)' = SettledBy(t)
    BY <1>2, <1>3 DEF SettledBy
  <2> QED
    BY <1>1, <1>2, <2>1 DEF FinishedBy
<1>4. CASE r' # r
  <2>1. r = FALSE /\ r' = TRUE /\ state = "Open"
    BY <1>2, <1>4 DEF Ripe
  <2>2. /\ SettledBy(t) = Whole!Circuit("Open", f, n, FALSE)
        /\ SettledBy(t)' = Whole!Circuit("Open", f, n, TRUE)
    BY <1>2, <2>1 DEF SettledBy
  <2>3. /\ Whole!Cooled(Whole!Circuit("Open", f, n, FALSE)) = Whole!Circuit("Open", f, n, TRUE)
        /\ Whole!Passed(Whole!Circuit("Open", f, n, TRUE)) = Whole!Cooled(Whole!Passed(Whole!Circuit("Open", f, n, FALSE)))
        /\ Whole!Failed(Whole!Circuit("Open", f, n, TRUE)) = Whole!Cooled(Whole!Failed(Whole!Circuit("Open", f, n, FALSE)))
    BY DEF Whole!Circuit, Whole!Passed, Whole!Failed, Whole!Cooled
  <2>4. pc[t] \notin {"close", "open"} \/ FinishedBy(t)' = FinishedBy(t)
    BY <1>2 DEF FinishedBy, Whole!Closed, Whole!Opened, SettledBy, Whole!Circuit
  <2>5. pc[t] \notin {"close", "open"} => FinishedBy(t)' = Whole!Cooled(FinishedBy(t))
    BY <1>2, <2>1, <2>2, <2>3 DEF FinishedBy
  <2> QED
    BY <1>1, <2>4, <2>5 DEF Outcomes
<1> QED
  BY <1>3, <1>4

\* A set of at most one element.
LEMMA AtMostOne ==
    ASSUME NEW S, IsFiniteSet(S), ~(Cardinality(S) > 1), NEW x \in S, NEW y \in S
    PROVE  x = y
<1>1. Cardinality(S) \in Nat /\ IsFiniteSet(S \ {x}) /\ Cardinality(S \ {x}) = Cardinality(S) - 1
  BY FS_CardinalityType, FS_RemoveElement
<1>2. Cardinality(S \ {x}) \in Nat
  BY <1>1, FS_CardinalityType
<1>3. Cardinality(S \ {x}) = 0
  BY <1>1, <1>2
<1> QED
  BY <1>1, <1>3, FS_EmptySet

OverInv ==
    /\ TypeOK /\ IsFiniteSet(Busy) /\ overlapped \in BOOLEAN
    /\ ~overlapped => (\A t, u \in Busy : t = u) /\ \A t \in Threads : OpInv(t)

\* A step with which no two operations overlap is one operation in one piece, or nothing.
LEMMA StepInOnePiece ==
    ASSUME OverInv, Next, ~overlapped, TypeOK', \A t, u \in Busy' : t = u
    PROVE  /\ \A t \in Threads : OpInv(t)'
           /\ Finished' \in Outcomes(Finished) \cup {Finished}
<1>0. (\A t \in Threads : Solo(t) => Finished = FinishedBy(t))'
  BY AloneFinished, PTL
<1>1. CASE Tick
  <2>1. \A t \in Threads : OpInv(t)'
    BY <1>1, ClockStep DEF OverInv
  <2>2. PICK t \in Threads : Solo(t)
    BY BreakerAssumption DEF OverInv, Busy, Solo
  <2>3. Solo(t)'
    BY <1>1, <2>2 DEF Tick, Solo
  <2> QED
    BY <1>0, <1>1, <2>1, <2>2, <2>3, ClockStep, AloneFinished DEF OverInv
<1>2. ASSUME NEW t \in Threads, TaskStep(t), t \notin Busy, t \notin Busy'
      PROVE  (\A u \in Threads : OpInv(u)') /\ Finished' = Finished
  <2>1. UNCHANGED <<state, consecutive_failures, consecutive_successes, changeAge, pc, todo, seen>>
    BY <1>2, OnlyLooked DEF OverInv, shared, counters
  <2>2. \A u \in Threads : OpInv(u)'
    BY <2>1 DEF OverInv, OpInv
  <2>3. Settled' = Settled /\ Busy' = Busy
    BY <2>1 DEF Settled, Pending, Doing, Busy
  <2>4. Finished' = Finished
    BY <2>1, <2>3 DEF Finished, Doing, Judged
  <2> QED
    BY <2>2, <2>4
<1>3. ASSUME NEW t \in Threads, TaskStep(t), t \in Busy \/ t \in Busy'
      PROVE  (\A u \in Threads : OpInv(u)') /\ Finished' \in Outcomes(Finished) \cup {Finished}
  <2>1. \A u \in Threads \ {t} : pc'[u] = pc[u] /\ todo'[u] = todo[u]
    BY <1>3, OneTask DEF OverInv
  <2>2. Solo(t) /\ Solo(t)'
    BY <1>3, <2>1 DEF OverInv, Busy, Solo
  <2>3. \A u \in Threads \ {t} : OpInv(u)'
    BY <2>2 DEF Solo, OpInv
  <2>4. OpInv(t)'
    BY <1>3, AloneInv DEF OverInv
  <2>5. FinishedBy(t)' \in Outcomes(FinishedBy(t)) \cup {FinishedBy(t)}
    BY <1>3, AloneStep DEF OverInv
  <2>6. Finished = FinishedBy(t) /\ Finished' = FinishedBy(t)'
    BY <1>0, <2>2, AloneFinished
  <2> QED
    BY <2>3, <2>4, <2>5, <2>6
<1> QED
  BY <1>1, <1>2, <1>3 DEF Next, TaskStep

\* Every step keeps the invariant, and is a step of AtomicBreaker.
LEMMA OverlapStep ==
    ASSUME OverInv, [OverlapNext]_<<vars, overlapped>>
    PROVE  /\ OverInv'
           /\ [Atomic!Next]_<<IF overlapped THEN Whole!NewBreaker ELSE Finished, overlapped>>
<1>1. CASE UNCHANGED <<vars, overlapped>>
  <2>1. /\ overlapped' = overlapped
        /\ UNCHANGED <<state, consecutive_failures, consecutive_successes, changeAge, pc, todo, seen, then,
                       openAge, probes>>
    BY <1>1 DEF vars, shared, counters, history
  <2>2. OverInv'
    BY <2>1 DEF OverInv, TypeOK, Busy, OpInv
  <2>3. Settled' = Settled /\ Busy' = Busy
    BY <2>1 DEF Settled, Pending, Doing, Busy
  <2>4. Finished' = Finished
    BY <2>1, <2>3 DEF Finished, Doing, Judged
  <2> QED
    BY <2>1, <2>2, <2>4
<1>2. CASE OverlapNext
  <2>1. Next /\ overlapped' = (overlapped \/ Cardinality(Busy') > 1) /\ overlapped' \in BOOLEAN
    BY <1>2 DEF OverlapNext, OverInv
  <2>2. TypeOK'
    BY <2>1, TypeStep DEF OverInv
  <2>3. IsFiniteSet(Busy')
    <3>1. CASE Tick
      BY <3>1 DEF Tick, Busy, OverInv
    <3>2. ASSUME NEW t \in Threads, TaskStep(t) PROVE IsFiniteSet(Busy')
      <4>1. Busy' \subseteq Busy \cup {t}
        BY <3>2, OneTask DEF OverInv, Busy
      <4> QED
        BY <4>1, FS_AddElement, FS_Subset DEF OverInv
    <3> QED
      BY <2>1, <3>1, <3>2 DEF Next, TaskStep
  <2>4. CASE overlapped'
    <3>1. Whole!NewBreaker \in Atomic!Breaker
      BY BreakerAssumption DEF Whole!NewBreaker, Whole!Circuit, Atomic!Breaker
    <3> QED
      BY <2>1, <2>2, <2>3, <2>4, <3>1 DEF OverInv, Atomic!Next
  <2>5. CASE ~overlapped'
    <3>1. ~overlapped /\ \A t, u \in Busy' : t = u
      BY <2>1, <2>3, <2>5, AtMostOne
    <3>2. (\A t \in Threads : OpInv(t)') /\ Finished' \in Outcomes(Finished) \cup {Finished}
      BY <2>1, <2>2, <3>1, StepInOnePiece
    <3>3. Outcomes(Finished) = {Atomic!Checked(Finished), Atomic!Passed(Finished), Atomic!Failed(Finished),
                                Atomic!Forced(Finished), Atomic!Closed(Finished), Atomic!Cooled(Finished)}
      BY DEF Outcomes, Whole!Checked, Whole!Passed, Whole!Failed, Whole!Forced, Whole!Closed, Whole!Cooled,
         Whole!Opened, Whole!Circuit, Whole!UpTo, Atomic!Checked, Atomic!Passed, Atomic!Failed,
         Atomic!Forced, Atomic!Closed, Atomic!Cooled, Atomic!Opened, Atomic!Circuit, Atomic!UpTo
    <3> QED
      BY <2>1, <2>2, <2>3, <2>5, <3>1, <3>2, <3>3 DEF OverInv, Atomic!Next, Atomic!Operate
  <2> QED
    BY <2>4, <2>5
<1> QED
  BY <1>1, <1>2

LEMMA OverlapStart ==
    ASSUME OverlapInit
    PROVE  OverInv /\ Atomic!Init
<1>1. TypeOK
  BY BreakerAssumption DEF OverlapInit, Init, TypeOK, States, Steps
<1>2. Busy = {} /\ \A t \in Threads : OpInv(t)
  BY DEF OverlapInit, Init, Busy, OpInv
<1>3. PICK t \in Threads : Solo(t)
  BY BreakerAssumption DEF OverlapInit, Init, Solo
<1>4. Finished = FinishedBy(t)
  BY <1>3, AloneFinished
<1>5. FinishedBy(t) = Atomic!NewBreaker
  BY DEF OverlapInit, Init, FinishedBy, SettledBy, FailuresBy, SuccessesBy, Ripe, Whole!Circuit,
     Atomic!NewBreaker, Atomic!Circuit
<1> QED
  BY <1>1, <1>2, <1>4, <1>5, FS_EmptySet DEF OverInv, OverlapInit, Atomic!Init

(* For every number of tasks, every threshold and every timeout: until two *)
(* operations overlap for the first time, the breaker made of atomic       *)
(* accesses does what AtomicBreaker does in one piece, also when the clock *)
(* runs between any two accesses of an operation.                          *)
THEOREM BreakerRefines == OverlapSpec => ImplementsAtomic
<1>1. OverlapInit => OverInv /\ Atomic!Init
  BY OverlapStart
<1>2. OverInv /\ [OverlapNext]_<<vars, overlapped>>
        => /\ OverInv'
           /\ [Atomic!Next]_<<IF overlapped THEN Whole!NewBreaker ELSE Finished, overlapped>>
  BY OverlapStep
<1> QED
  BY <1>1, <1>2, PTL DEF OverlapSpec, ImplementsAtomic, Atomic!Spec

=============================================================================
