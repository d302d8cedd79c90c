------------------------- MODULE RequestPathProofs -------------------------
(***************************************************************************)
(* Proofs about what a request passes before it reaches a worker: the      *)
(* admission of ConcurrencyLimiter, for any set of requests, any capacity, *)
(* refill rate, queue size and time-out and for clients that disconnect,   *)
(* and the choice of a worker in Routing, for any set of workers, keys and *)
(* requests and any placement of the workers on the hash ring.             *)
(***************************************************************************)
EXTENDS ConcurrencyLimiter, Routing, FiniteSetTheorems,
        WellFoundedInduction, TLAPS

-----------------------------------------------------------------------------
\* The bucket's arithmetic.
LEMMA FullType == Full \in Nat
BY LimiterAssumption DEF Full

LEMMA CeilDivType ==
    ASSUME NEW a \in Nat, NEW b \in Nat, b > 0 PROVE CeilDiv(a, b) \in Nat
BY DEF CeilDiv

LEMMA BucketArithmetic ==
    /\ \A c \in Nat : Unit * c \in Nat /\ Unit * (c + 1) = Unit * c + Unit
    /\ \A c, d \in Nat : c <= d => Unit * c <= Unit * d
BY LimiterAssumption

LEMMA TryAcquireType ==
    ASSUME TypeOK, TryAcquire PROVE tokens' \in 0..Full
BY LimiterAssumption, FullType DEF TypeOK, TryAcquire

(* The type invariant of ConcurrencyLimiter.                               *)
THEOREM LimiterTypeCorrect == Spec => []TypeOK
<1>1. Init => TypeOK
  BY LimiterAssumption, FullType
     DEF Init, TypeOK, HandlerStates, WaiterStates
<1>2. TypeOK /\ [Next]_vars => TypeOK'
  <2> SUFFICES ASSUME TypeOK, [Next]_vars PROVE TypeOK'
    OBVIOUS
  <2> USE LimiterAssumption DEF TypeOK, tasks
  <2>1. CASE UNCHANGED vars
    BY <2>1 DEF vars, tasks
  <2>2. CASE Tick
    BY <2>2, FullType DEF Tick, Refill, AtMost, Max0
  <2>3. CASE Dequeue
    <3> DEFINE r == Head(queue)
    <3>1. r \in Requests /\ queue' \in Seq(Requests)
      BY <2>3 DEF Dequeue
    <3> QED
      BY <2>3, <3>1, TryAcquireType DEF Dequeue, Send, WaiterAt, WaiterStates
  <2>4. ASSUME NEW r \in Requests,
               Admit(r) \/ Enqueue(r) \/ Reject(r) \/ ReceivePermit(r)
                 \/ Respond(r) \/ EndStream(r) \/ Cancel(r)
        PROVE  TypeOK'
    <3>1. CASE Admit(r)
      BY <3>1, TryAcquireType DEF Admit, HandlerStates
    <3>2. CASE Enqueue(r)
      BY <3>2 DEF Enqueue, HandlerStates, WaiterStates
    <3>3. CASE Reject(r) \/ Respond(r) \/ Cancel(r)
      BY <3>3 DEF Reject, Respond, Cancel, HandlerStates
    <3>4. CASE ReceivePermit(r)
      BY <3>4 DEF ReceivePermit, HandlerStates
    <3>5. CASE EndStream(r)
      <4>1. tokens' \in 0..Full
        BY <3>5, FullType DEF EndStream, ReturnToken, AtMost
      <4>2. waiter' \in [Requests -> WaiterStates]
        BY <3>5 DEF EndStream, ReturnToken, WaiterStates
      <4>3. spilled' \in Nat
        BY <3>5, FullType DEF EndStream, ReturnToken, AtMost
      <4> QED
        BY <3>5, <4>1, <4>2, <4>3 DEF EndStream, HandlerStates
    <3> QED
      BY <2>4, <3>1, <3>2, <3>3, <3>4, <3>5
  <2>5. ASSUME NEW r \in Requests, Serve(r) PROVE TypeOK'
    <3> USE DEF WaiterAt, Send, WaiterStates
    <3>1. CASE Grant(r)
      BY <3>1, TryAcquireType DEF Grant
    <3>2. CASE FailTry(r) \/ Register(r) \/ GiveUp(r)
      BY <3>2 DEF FailTry, Register, GiveUp
    <3>3. CASE PlanWait(r)
      <4>1. Max0(Unit, tokens) \in Nat /\ rate \in Nat /\ rate > 0
        BY <3>3, FullType DEF PlanWait, Max0
      <4>2. CeilDiv(Max0(Unit, tokens), rate) \in Nat
        BY <4>1, CeilDivType
      <4> QED
        BY <3>3, <4>2 DEF PlanWait
    <3> QED
      BY <2>5, <3>1, <3>2, <3>3 DEF Serve
  <2> QED
    BY <2>1, <2>2, <2>3, <2>4, <2>5 DEF Next
<1> QED
  BY <1>1, <1>2, PTL DEF Spec

-----------------------------------------------------------------------------
\* Counting the requests a token is held for.
LEMMA HeldFinite ==
    /\ IsFiniteSet(Held) /\ Cardinality(Held) \in Nat
    /\ IsFiniteSet(Held') /\ Cardinality(Held') \in Nat
<1>1. Held \in SUBSET Requests /\ Held' \in SUBSET Requests
  BY DEF Held, InUse
<1> QED
  BY <1>1, LimiterAssumption, FS_Subset, FS_CardinalityType

LEMMA OneMoreHeld ==
    ASSUME NEW r, r \notin Held, Held' = Held \union {r}
    PROVE  Unit * Cardinality(Held') = Unit * Cardinality(Held) + Unit
<1>1. Cardinality(Held') = Cardinality(Held) + 1
  BY HeldFinite, FS_AddElement
<1> QED
  BY <1>1, HeldFinite, BucketArithmetic

LEMMA OneHeldLess ==
    ASSUME NEW r \in Held, Held' = Held \ {r}
    PROVE  Unit * Cardinality(Held) = Unit * Cardinality(Held') + Unit
<1>1. Cardinality(Held') = Cardinality(Held) - 1
  BY HeldFinite, FS_RemoveElement
<1>2. Cardinality(Held) = Cardinality(Held') + 1
  BY <1>1, HeldFinite
<1> QED
  BY <1>2, HeldFinite, BucketArithmetic

-----------------------------------------------------------------------------
\* The strengthening.  The two views of a request agree: one that was never
\* queued is unknown to the processor, and as long as the processor is not done
\* with a request no permit has been sent and no token taken for it.
Working(r) == waiter[r] \notin {"none", "over"}

ViewsAgree(r) ==
    /\ handler[r] = "new" => waiter[r] = "none"
    /\ waiter[r] = "none" => permit[r] = "none"
    /\ Working(r) => permit[r] = "none" /\ handler[r] \in {"awaiting", "gone"}

\* The queue holds distinct requests, each of them not yet looked at.
QueueInv ==
    /\ \A i \in 1..Len(queue) : waiter[queue[i]] = "queued"
    /\ \A i, j \in 1..Len(queue) : queue[i] = queue[j] => i = j

Agreement == QueueInv /\ \A r \in Requests : ViewsAgree(r)

LEMMA TailFacts ==
    ASSUME TypeOK, queue # <<>>
    PROVE  /\ Len(queue) \in Nat /\ Len(queue) > 0
           /\ Head(queue) = queue[1] /\ Head(queue) \in Requests
           /\ Len(Tail(queue)) = Len(queue) - 1
           /\ \A i \in 1..Len(Tail(queue)) : /\ i + 1 \in 1..Len(queue)
                                            /\ Tail(queue)[i] = queue[i + 1]
BY DEF TypeOK

LEMMA QueueInvStep ==
    ASSUME TypeOK, Agreement, [Next]_vars
    PROVE  QueueInv'
<1>1. CASE Dequeue
  <2> DEFINE h == Head(queue)
  <2>1. queue # <<>> /\ queue' = Tail(queue)
    BY <1>1 DEF Dequeue
  <2>2. \A i \in 1..Len(queue') : queue'[i] # h /\ waiter[queue'[i]] = "queued"
    BY <2>1, TailFacts DEF Agreement, QueueInv
  <2>3. \A i \in 1..Len(queue') : queue'[i] \in Requests
    BY <2>1, TailFacts DEF TypeOK
  <2>4. \A r \in Requests : r # h => waiter'[r] = waiter[r]
    BY <1>1 DEF Dequeue, WaiterAt, TypeOK
  <2>5. \A i, j \in 1..Len(queue') : queue'[i] = queue'[j] => i = j
    BY <2>1, TailFacts DEF Agreement, QueueInv
  <2> QED
    BY <2>2, <2>3, <2>4, <2>5 DEF QueueInv
<1>2. ASSUME NEW r \in Requests, Enqueue(r) PROVE QueueInv'
  <2>1. /\ Len(queue) \in Nat /\ Len(queue') = Len(queue) + 1
        /\ \A i \in 1..Len(queue') :
              queue'[i] = IF i = Len(queue) + 1 THEN r ELSE queue[i]
    BY <1>2 DEF Enqueue, TypeOK
  <2>2. \A i \in 1..Len(queue) : queue[i] # r /\ queue[i] \in Requests
    BY <1>2 DEF Enqueue, Agreement, QueueInv, ViewsAgree, TypeOK
  <2>3. \A q \in Requests : waiter'[q] = IF q = r THEN "queued" ELSE waiter[q]
    BY <1>2 DEF Enqueue, TypeOK
  <2> QED
    BY <2>1, <2>2, <2>3 DEF QueueInv, Agreement
<1>3. CASE queue' = queue /\ \A q \in Requests : waiter[q] = "queued" => waiter'[q] = "queued"
  <2>1. \A i \in 1..Len(queue) : queue[i] \in Requests
    BY DEF TypeOK
  <2>2. QueueInv
    BY DEF Agreement
  <2> QED
    BY <1>3, <2>1, <2>2 DEF QueueInv
<1>4. ASSUME NEW r \in Requests, Serve(r) PROVE QueueInv'
  <2>1. waiter[r] # "queued" /\ queue' = queue
    BY <1>4 DEF Serve, Grant, FailTry, Register, PlanWait, GiveUp, Expired
  <2>2. \A q \in Requests : q # r => waiter'[q] = waiter[q]
    BY <1>4 DEF Serve, Grant, FailTry, Register, PlanWait, GiveUp, WaiterAt, TypeOK
  <2> QED
    BY <2>1, <2>2, <1>3
<1>5. ASSUME NEW r \in Requests, EndStream(r) PROVE QueueInv'
  BY <1>5, <1>3 DEF EndStream, ReturnToken, TypeOK
<1>6. ASSUME NEW r \in Requests,
             Admit(r) \/ Reject(r) \/ ReceivePermit(r) \/ Respond(r) \/ Cancel(r)
      PROVE  QueueInv'
  BY <1>6, <1>3 DEF Admit, Reject, ReceivePermit, Respond, Cancel, tasks
<1>7. CASE Tick \/ UNCHANGED vars
  BY <1>7, <1>3 DEF Tick, vars, tasks
<1> QED
  BY <1>1, <1>2, <1>4, <1>5, <1>6, <1>7 DEF Next

LEMMA ViewsAgreeStep ==
    ASSUME TypeOK, Agreement, [Next]_vars, NEW q \in Requests
    PROVE  ViewsAgree(q)'
<1> USE DEF ViewsAgree, Working
<1>0. ViewsAgree(q)
  BY DEF Agreement
<1>1. CASE Dequeue
  <2>1. Head(queue) \in Requests /\ waiter[Head(queue)] = "queued"
    BY <1>1, TailFacts DEF Dequeue, Agreement, QueueInv
  <2>2. ViewsAgree(Head(queue))
    BY <2>1 DEF Agreement
  <2> QED
    BY <1>0, <1>1, <2>1, <2>2 DEF Dequeue, Send, WaiterAt, TypeOK
<1>2. ASSUME NEW r \in Requests, Enqueue(r) \/ Admit(r) \/ Reject(r)
      PROVE  ViewsAgree(q)'
  BY <1>0, <1>2 DEF Enqueue, Admit, Reject, TypeOK, tasks
<1>3. ASSUME NEW r \in Requests, ReceivePermit(r) PROVE ViewsAgree(q)'
  <2>1. ViewsAgree(r)
    BY DEF Agreement
  <2> QED
    BY <1>0, <1>3, <2>1 DEF ReceivePermit, TypeOK, tasks, WaiterStates
<1>4. ASSUME NEW r \in Requests, Respond(r) \/ Cancel(r) PROVE ViewsAgree(q)'
  BY <1>0, <1>4 DEF Respond, Cancel, TypeOK, tasks
<1>5. ASSUME NEW r \in Requests, EndStream(r) PROVE ViewsAgree(q)'
  BY <1>0, <1>5 DEF EndStream, ReturnToken, TypeOK
<1>6. ASSUME NEW r \in Requests, Serve(r) PROVE ViewsAgree(q)'
  <2>1. ViewsAgree(r) /\ Working(r)
    BY <1>6 DEF Agreement, Serve, Grant, FailTry, Register, PlanWait, GiveUp, Expired
  <2> QED
    BY <1>0, <1>6, <2>1 DEF Serve, Grant, FailTry, Register, PlanWait, GiveUp,
       Send, WaiterAt, TypeOK
<1>7. CASE Tick \/ UNCHANGED vars
  BY <1>0, <1>7 DEF Tick, vars, tasks
<1> QED
  BY <1>1, <1>2, <1>3, <1>4, <1>5, <1>6, <1>7 DEF Next

LEMMA AgreementInductive == Spec => []Agreement
<1>1. Init => Agreement
  BY DEF Init, Agreement, QueueInv, ViewsAgree, Working
<1>2. TypeOK /\ Agreement /\ [Next]_vars => Agreement'
  BY QueueInvStep, ViewsAgreeStep DEF Agreement
<1> QED
  BY <1>1, <1>2, LimiterTypeCorrect, PTL DEF Spec

-----------------------------------------------------------------------------
\* The three ways a step can move tokens, over numbers: nothing moves, a token
\* is taken for one more request, one goes back and may spill.
LEMMA TokenMoves ==
    ASSUME NEW t \in Nat, NEW h \in Nat, NEW s \in Nat, NEW b \in Nat,
           NEW t2 \in Nat, NEW h2 \in Nat, NEW s2 \in Nat, NEW u \in Nat,
           t + h + s = b,
           \/ t2 = t /\ h2 = h /\ s2 = s
           \/ t >= u /\ t2 = t - u /\ h2 = h + u /\ s2 = s
           \/ h = h2 + u /\ s2 = s + (t + u - t2)
    PROVE  t2 + h2 + s2 = b
OBVIOUS

(* Whatever the constants and the schedule, and however clients disconnect,*)
(* every token taken is accounted for.  A step takes a token exactly when  *)
(* it adds a request to Held; that the request is not there already is what*)
(* Agreement gives.                                                        *)
THEOREM EveryTokenAccounted == Spec => []TokensAccounted
<1>1. Init => TokensAccounted
  <2> SUFFICES ASSUME Init PROVE TokensAccounted
    OBVIOUS
  <2>1. Cardinality(Held) = 0
    <3>1. Held = {}
      BY DEF Init, Held, InUse
    <3> QED
      BY <3>1, FS_EmptySet
  <2>2. Unit * 0 = 0
    BY LimiterAssumption
  <2> QED
    BY <2>1, <2>2, FullType DEF Init, TokensAccounted
<1>2. TypeOK /\ Agreement /\ TokensAccounted /\ [Next]_vars => TokensAccounted'
  <2> SUFFICES ASSUME TypeOK, Agreement, TokensAccounted, [Next]_vars
               PROVE  TokensAccounted'
    OBVIOUS
  <2> DEFINE held == Unit * Cardinality(Held)
             held2 == Unit * Cardinality(Held')
  <2>0. /\ held \in Nat /\ held2 \in Nat /\ tokens \in Nat /\ refilled \in Nat
        /\ spilled \in Nat /\ Unit \in Nat /\ Full \in Nat
    BY HeldFinite, BucketArithmetic, FullType, LimiterAssumption DEF TypeOK
  <2>a. ASSUME Held' = Held, UNCHANGED <<tokens, refilled, spilled>>
        PROVE  TokensAccounted'
    BY <2>a DEF TokensAccounted, Full
  <2>b. ASSUME NEW r, r \notin Held, Held' = Held \union {r}, TryAcquire,
               UNCHANGED <<refilled, spilled>>
        PROVE  TokensAccounted'
    <3>1. held2 = held + Unit
      BY <2>b, OneMoreHeld
    <3> HIDE DEF held, held2
    <3>2. tokens + held + spilled = Full + refilled
      BY DEF TokensAccounted, held
    <3>3. tokens' + held2 + spilled' = Full + refilled'
      BY <2>0, <2>b, <3>1, <3>2 DEF TryAcquire
    <3> QED
      BY <3>3 DEF TokensAccounted, held2, Full
  <2>1. CASE UNCHANGED vars
    BY <2>1, <2>a DEF vars, tasks, Held, InUse
  <2>2. CASE Tick
    <3>1. held2 = held
      BY <2>2 DEF Tick, Held, InUse
    <3>2. Refill(tokens) \in Nat
      BY FullType, LimiterAssumption DEF TypeOK, Refill, AtMost
    <3> HIDE DEF held, held2
    <3>3. tokens + held + spilled = Full + refilled
      BY DEF TokensAccounted, held
    <3>4. tokens' + held2 + spilled' = Full + refilled'
      BY <2>0, <2>2, <3>1, <3>2, <3>3 DEF Tick
    <3> QED
      BY <3>4 DEF TokensAccounted, held2, Full
  <2>3. CASE Dequeue
    <3> DEFINE h == Head(queue)
    <3>1. h \in Requests /\ permit[h] = "none" /\ handler[h] \in {"awaiting", "gone"}
      BY <2>3, TailFacts DEF Dequeue, Agreement, QueueInv, ViewsAgree, Working
    <3>2. CASE TryAcquire /\ Send(h, "ok")
      <4>1. h \notin Held /\ Held' = Held \union {h}
        BY <2>3, <3>1, <3>2 DEF Dequeue, Send, Held, InUse, TypeOK
      <4> QED
        BY <2>3, <3>2, <4>1, <2>b DEF Dequeue
    <3>3. CASE UNCHANGED tokens /\ (Send(h, "timeout") \/ UNCHANGED permit)
      <4>1. Held' = Held
        BY <2>3, <3>1, <3>3 DEF Dequeue, Send, Held, InUse, TypeOK
      <4> QED
        BY <2>3, <3>3, <4>1, <2>a DEF Dequeue
    <3> QED
      BY <2>3, <3>2, <3>3 DEF Dequeue
  <2>4. ASSUME NEW r \in Requests, Admit(r) PROVE TokensAccounted'
    <3>1. handler[r] = "new" /\ permit[r] = "none"
      BY <2>4 DEF Admit, Agreement, ViewsAgree
    <3>2. r \notin Held /\ Held' = Held \union {r}
      BY <2>4, <3>1 DEF Admit, Held, InUse, TypeOK
    <3> QED
      BY <2>4, <3>2, <2>b DEF Admit
  <2>5. ASSUME NEW r \in Requests, Grant(r) PROVE TokensAccounted'
    <3>1. permit[r] = "none" /\ handler[r] \in {"awaiting", "gone"}
      BY <2>5 DEF Grant, Agreement, ViewsAgree, Working
    <3>2. r \notin Held /\ Held' = Held \union {r}
      BY <2>5, <3>1 DEF Grant, Send, Held, InUse, TypeOK
    <3> QED
      BY <2>5, <3>2, <2>b DEF Grant
  <2>6. ASSUME NEW r \in Requests, Enqueue(r) \/ Reject(r) PROVE TokensAccounted'
    <3>1. handler[r] = "new" /\ permit[r] = "none"
      BY <2>6 DEF Enqueue, Reject, Agreement, ViewsAgree
    <3>2. Held' = Held
      BY <2>6, <3>1 DEF Enqueue, Reject, Held, InUse, TypeOK
    <3> QED
      BY <2>6, <3>2, <2>a DEF Enqueue, Reject
  <2>7. ASSUME NEW r \in Requests, ReceivePermit(r) \/ Respond(r) \/ Cancel(r)
        PROVE  TokensAccounted'
    <3>1. CASE ReceivePermit(r)
      BY <3>1, <2>a DEF ReceivePermit, Held, InUse, TypeOK
    <3>2. CASE Respond(r)
      BY <3>2, <2>a DEF Respond, Held, InUse, TypeOK
    <3>3. CASE Cancel(r)
      BY <3>3, <2>a DEF Cancel, Held, InUse, TypeOK
    <3> QED
      BY <2>7, <3>1, <3>2, <3>3
  <2>8. ASSUME NEW r \in Requests, EndStream(r) PROVE TokensAccounted'
    <3>1. r \in Held /\ Held' = Held \ {r}
      BY <2>8 DEF EndStream, Held, InUse, TypeOK
    <3>2. held = held2 + Unit
      BY <3>1, OneHeldLess
    <3> HIDE DEF held, held2
    <3>3. tokens + held + spilled = Full + refilled
      BY DEF TokensAccounted, held
    <3>4. /\ tokens' \in Nat /\ spilled' \in Nat /\ refilled' = refilled
          /\ spilled' = spilled + (tokens + Unit - tokens')
      BY <2>0, <2>8 DEF EndStream, ReturnToken, AtMost
    <3>5. Full + refilled \in Nat
      BY <2>0
    <3>6. tokens' + held2 + spilled' = Full + refilled
      <4> DEFINE b == Full + refilled
                 t2 == tokens'
                 s2 == spilled'
      <4>1. b \in Nat /\ t2 \in Nat /\ s2 \in Nat
        BY <3>4, <3>5
      <4>2. tokens + held + spilled = b /\ s2 = spilled + (tokens + Unit - t2)
        BY <3>3, <3>4
      <4> HIDE DEF b, t2, s2
      <4>3. t2 + held2 + s2 = b
        BY <2>0, <3>2, <4>1, <4>2, TokenMoves
      <4> QED
        BY <4>3 DEF b, t2, s2
    <3> QED
      BY <3>4, <3>6 DEF TokensAccounted, held2, Full
  <2>9. ASSUME NEW r \in Requests, FailTry(r) \/ Register(r) \/ PlanWait(r)
        PROVE  TokensAccounted'
    BY <2>9, <2>a DEF FailTry, Register, PlanWait, Held, InUse
  <2>10. ASSUME NEW r \in Requests, GiveUp(r) PROVE TokensAccounted'
    <3>1. permit[r] = "none"
      BY <2>10 DEF GiveUp, Expired, Agreement, ViewsAgree, Working
    <3>2. Held' = Held
      BY <2>10, <3>1 DEF GiveUp, Send, Held, InUse, TypeOK
    <3> QED
      BY <2>10, <3>2, <2>a DEF GiveUp
  <2> QED
    BY <2>1, <2>2, <2>3, <2>4, <2>5, <2>6, <2>7, <2>8, <2>9, <2>10 DEF Next, Serve
<1> QED
  BY <1>1, <1>2, LimiterTypeCorrect, AgreementInductive, PTL DEF Spec

(* Without refill the bucket is a semaphore: at most Capacity requests are *)
(* handled or streamed at once ("0 for pure concurrency limiting",         *)
(* token_bucket.rs:37), disconnections included.                           *)
THEOREM SemaphoreBound == Spec => []MaxConcurrent
<1> DEFINE NoRefill == rate = 0 => refilled = 0
<1>1. Init => NoRefill
  BY DEF Init
<1>2. TypeOK /\ NoRefill /\ [Next]_vars => NoRefill'
  <2> SUFFICES ASSUME TypeOK, NoRefill, [Next]_vars PROVE NoRefill'
    OBVIOUS
  <2>1. CASE Tick
    BY <2>1, FullType DEF Tick, Refill, AtMost, TypeOK
  <2>2. CASE UNCHANGED <<rate, refilled>>
    BY <2>2
  <2> QED
    BY <2>1, <2>2 DEF Next, Serve, Dequeue, Admit, Enqueue, Reject, ReceivePermit,
       Respond, EndStream, Cancel, Grant, FailTry, Register, PlanWait, GiveUp, vars
<1>3. TypeOK /\ NoRefill /\ TokensAccounted => MaxConcurrent
  <2> SUFFICES ASSUME TypeOK, rate = 0, refilled = 0, TokensAccounted,
                      ~(Cardinality(InUse) <= Capacity)
               PROVE  FALSE
    BY DEF MaxConcurrent
  <2> DEFINE c == Cardinality(Held)
  <2>1. c \in Nat /\ Cardinality(InUse) \in Nat /\ Cardinality(InUse) <= c
    BY HeldFinite, FS_Subset, FS_CardinalityType DEF Held
  <2>2. Capacity \in Nat /\ Capacity + 1 <= c
    BY <2>1, LimiterAssumption
  <2> HIDE DEF c
  <2>3. /\ Unit * (Capacity + 1) <= Unit * c
        /\ Unit * (Capacity + 1) = Unit * Capacity + Unit
    BY <2>1, <2>2, BucketArithmetic
  <2>4. Full = Unit * Capacity
    BY LimiterAssumption DEF Full
  <2>5. tokens + Unit * c + spilled = Full + 0
    BY DEF TokensAccounted, c
  <2>6. Unit * c \in Nat /\ tokens \in Nat /\ spilled \in Nat /\ Unit \in Nat \ {0}
    BY <2>1, BucketArithmetic, LimiterAssumption, FullType DEF TypeOK
  <2> QED
    BY <2>3, <2>4, <2>5, <2>6, FullType
<1> QED
  BY <1>1, <1>2, <1>3, LimiterTypeCorrect, EveryTokenAccounted, PTL DEF Spec

-----------------------------------------------------------------------------
(* Least elements                                                          *)

\* Every set of natural numbers has a least one.
LEMMA LeastNat ==
    ASSUME NEW T \in SUBSET Nat, T # {}
    PROVE  \E x \in T : \A y \in T : x <= y
<1> DEFINE R == {p \in Nat \X Nat : p[1] < p[2]}
<1>1. OpToRel(<, Nat) = R
  BY DEF OpToRel
<1>2. IsWellFoundedOn(R, Nat)
  BY <1>1, NatLessThanWellFounded
<1>3. PICK x \in T : \A y \in T : ~ (<<y, x>> \in R)
  BY <1>2, WFMin
<1>4. \A y \in T : x \in Nat /\ y \in Nat /\ ~ (y < x)
  BY <1>3
<1>5. \A y \in T : x <= y
  BY <1>4
<1> QED BY <1>5

LEMMA MinIsLeast ==
    ASSUME NEW T \in SUBSET Nat, T # {}
    PROVE  Min(T) \in T /\ \A y \in T : Min(T) <= y
<1>1. \E x \in T : \A y \in T : x <= y
  BY LeastNat
<1> QED BY <1>1 DEF Min

-----------------------------------------------------------------------------
(* The hash ring.  The facts are stated for a hash function pl and a set S of eligible     *)
(* workers, to be used before and after a step.                                            *)

Apart(pl, k, w) == Min({IF p >= k THEN p - k ELSE p - k + RingSize : p \in pl[w]})
FirstOf(pl, S, k) ==
    IF S = {} THEN None
    ELSE CHOOSE w \in S : \A v \in S : Apart(pl, k, w) <= Apart(pl, k, v)

LEMMA TargetIsFirst ==
    ASSUME NEW k, ringed, ringed'
    PROVE  Target(k) = FirstOf(place, ring \cap up, k) /\ Target(k)' = FirstOf(place', (ring \cap up)', k)
<1>1. ring \cap (ring \cap up) = ring \cap up /\ (ring \cap (ring \cap up))' = (ring \cap up)'
  OBVIOUS
<1>2. Target(k) = FirstOf(place, ring \cap up, k)
  <2>1. CASE ring = {}
    BY <2>1 DEF Target, FindByConsistentHash, HasRing, FirstOf
  <2>2. CASE ring # {}
    <3>1. Target(k) = FindHealthyUrl(ring, k, ring \cap up)
      BY <2>2 DEF Target, FindByConsistentHash, HasRing
    <3>2. FindHealthyUrl(ring, k, ring \cap up) = FirstOf(place, ring \cap (ring \cap up), k)
      BY DEF FindHealthyUrl, Distance, FirstOf, Apart
    <3> QED BY <1>1, <3>1, <3>2
  <2> QED BY <2>1, <2>2
<1>3. Target(k)' = FirstOf(place', (ring \cap up)', k)
  <2>1. CASE ring' = {}
    BY <2>1 DEF Target, FindByConsistentHash, HasRing, FirstOf
  <2>2. CASE ring' # {}
    <3>1. Target(k)' = FindHealthyUrl(ring, k, ring \cap up)'
      BY <2>2 DEF Target, FindByConsistentHash, HasRing
    <3>2. FindHealthyUrl(ring, k, ring \cap up)' = FirstOf(place', (ring \cap (ring \cap up))', k)
      BY DEF FindHealthyUrl, Distance, FirstOf, Apart
    <3> QED BY <1>1, <3>1, <3>2
  <2> QED BY <2>1, <2>2
<1> QED BY <1>2, <1>3

\* Clockwise distances are numbers, and no two workers are equally far from a key, since
\* they have no virtual node in common.
LEMMA DistancesDiffer ==
    ASSUME NEW pl \in Places, NEW k \in Keys, NEW v \in Servers
    PROVE  /\ Apart(pl, k, v) \in Nat
           /\ \A w \in Servers : Apart(pl, k, v) = Apart(pl, k, w) => v = w
<1> DEFINE far(p) == IF p >= k THEN p - k ELSE p - k + RingSize
           D(w) == {far(p) : p \in pl[w]}
<1>1. /\ RingSize \in Nat \ {0} /\ Keys = 0..(RingSize - 1)
      /\ pl \in [Servers -> (SUBSET Keys) \ {{}}]
      /\ \A x, y \in Servers : x # y => pl[x] \cap pl[y] = {}
  BY PoliciesAssumption
<1>2. k \in 0..(RingSize - 1)
  BY <1>1
<1>3. \A p \in 0..(RingSize - 1) : far(p) \in Nat
  BY <1>1, <1>2
<1>4. \A p, q \in 0..(RingSize - 1) : far(p) = far(q) => p = q
  BY <1>1, <1>2
<1>5. ASSUME NEW w \in Servers
      PROVE  /\ Apart(pl, k, w) \in Nat
             /\ \E p \in pl[w] : p \in 0..(RingSize - 1) /\ Apart(pl, k, w) = far(p)
  <2>1. pl[w] \in SUBSET (0..(RingSize - 1)) /\ pl[w] # {}
    <3>1. pl[w] \in (SUBSET Keys) \ {{}}
      BY <1>1
    <3> QED BY <1>1, <3>1
  <2>2. D(w) \in SUBSET Nat /\ D(w) # {}
    BY <1>3, <2>1
  <2>3. Apart(pl, k, w) = Min(D(w))
    BY DEF Apart
  <2>4. Min(D(w)) \in D(w)
    BY <2>2, MinIsLeast
  <2> QED BY <1>3, <2>1, <2>3, <2>4
<1>6. ASSUME NEW w \in Servers, Apart(pl, k, v) = Apart(pl, k, w) PROVE v = w
  <2>1. PICK p \in pl[v] : p \in 0..(RingSize - 1) /\ Apart(pl, k, v) = far(p)
    BY <1>5
  <2>2. PICK q \in pl[w] : q \in 0..(RingSize - 1) /\ Apart(pl, k, w) = far(q)
    BY <1>5
  <2>3. p = q
    BY <1>4, <1>6, <2>1, <2>2
  <2> QED BY <1>1, <2>1, <2>2, <2>3
<1> QED BY <1>5, <1>6

\* The worker of a key is the nearest of the eligible ones.
LEMMA Nearest ==
    ASSUME NEW pl \in Places, NEW k \in Keys, NEW S \in SUBSET Servers, S # {}
    PROVE  FirstOf(pl, S, k) \in S /\ \A v \in S : Apart(pl, k, FirstOf(pl, S, k)) <= Apart(pl, k, v)
<1> DEFINE T == {Apart(pl, k, v) : v \in S}
<1>1. T \in SUBSET Nat /\ T # {}
  BY DistancesDiffer
<1>2. \E x \in T : \A y \in T : x <= y
  BY <1>1, LeastNat
<1>3. \E w \in S : \A v \in S : Apart(pl, k, w) <= Apart(pl, k, v)
  BY <1>2
<1>4. FirstOf(pl, S, k) = CHOOSE w \in S : \A v \in S : Apart(pl, k, w) <= Apart(pl, k, v)
  BY DEF FirstOf
<1> QED BY <1>3, <1>4

\* Two sets that both have both their first workers have the same first worker.
LEMMA SameFirst ==
    ASSUME NEW pl \in Places, NEW k \in Keys, NEW S \in SUBSET Servers, NEW T \in SUBSET Servers,
           FirstOf(pl, S, k) \in T, FirstOf(pl, T, k) \in S
    PROVE  FirstOf(pl, S, k) = FirstOf(pl, T, k)
<1>1. S # {} /\ T # {}
  OBVIOUS
<1>2. PICK a : a = FirstOf(pl, S, k)
  OBVIOUS
<1>3. PICK b : b = FirstOf(pl, T, k)
  OBVIOUS
<1>4. a \in S /\ a \in T /\ \A v \in S : Apart(pl, k, a) <= Apart(pl, k, v)
  BY <1>1, <1>2, Nearest
<1>5. b \in S /\ b \in T /\ \A v \in T : Apart(pl, k, b) <= Apart(pl, k, v)
  BY <1>1, <1>3, Nearest
<1>6. Apart(pl, k, a) <= Apart(pl, k, b) /\ Apart(pl, k, b) <= Apart(pl, k, a)
  BY <1>4, <1>5
<1>7. a \in Servers /\ b \in Servers
  BY <1>4, <1>5
<1>8. Apart(pl, k, a) \in Nat /\ Apart(pl, k, b) \in Nat
  BY <1>7, DistancesDiffer
<1>9. Apart(pl, k, a) = Apart(pl, k, b)
  BY <1>6, <1>8
<1>10. a = b
  BY <1>7, <1>9, DistancesDiffer
<1> QED BY <1>2, <1>3, <1>10

\* The eligible workers are workers, and the hash function is one of the possible ones.
RingType == up \subseteq Servers /\ ring \subseteq Servers /\ place \in Places

\* What a step may do to workers and ring.
LEMMA RingSteps ==
    ASSUME [RoutingNext]_routingVars
    PROVE  /\ place' = place /\ ringed' = ringed
           /\ \/ UNCHANGED <<up, ring>>
              \/ \E w \in Servers : up' = (IF w \in up THEN up \ {w} ELSE up \cup {w}) /\ ring' = ring
              \/ \E w \in Servers : ring' = (IF w \in ring THEN ring \ {w} ELSE ring \cup {w}) /\ up' = up
<1>1. CASE UNCHANGED routingVars
  BY <1>1 DEF routingVars, common
<1>2. CASE UNCHANGED common
  BY <1>2 DEF common
<1>3. CASE AroundNext
  BY <1>3 DEF AroundNext, Look, Done, Turn
<1>4. CASE SimpleNext
  BY <1>4 DEF SimpleNext, SelectRandom, SelectRoundRobin, SelectPowerOfTwo, SelectAnonymous,
     PrefixHashNoTokens, SelectTargetWorker, SelectByConsistentHash, FindWorkerWithLoadBalance,
     RebuildRing, MonitorLoads, common
<1>5. CASE ManualNext
  BY <1>2, <1>5 DEF ManualNext, OccupiedHit, OccupiedMiss, Vacant, Assigned, Rest, EvictIdle,
     CollectEntries, WriteTmp, RenameTmp, Restart
<1>6. CASE BucketNext
  BY <1>2, <1>6 DEF BucketNext, InitPrefillWorkerUrls, PostProcessRequest, ChoosePrefill, PassPeriod,
     AdjustBoundary
<1> QED BY <1>1, <1>2, <1>3, <1>4, <1>5, <1>6 DEF RoutingNext

LEMMA RingTypeInit == RoutingInit => RingType
BY DEF RoutingInit, PoliciesInit, RingType

LEMMA RingTypeStep == RingType /\ [RoutingNext]_routingVars => RingType'
BY RingSteps DEF RingType

\* A key moves only away from a worker that went, or to one that came: no worker's coming or
\* going disturbs the keys of two others (HashRing::find_healthy_url, rebuild_hash_ring),
\* where requests are given the ring that the workers are in.
THEOREM RingMovesFewKeys == RoutingSpec => KeysStay
<1>1. ASSUME RingType, RingType', [RoutingNext]_routingVars, NEW k \in Keys, ringed,
             Target(k) \in (ring \cap up)', Target(k)' \in ring \cap up
      PROVE  Target(k)' = Target(k)
  <2>1. PICK S \in SUBSET Servers : S = ring \cap up
    BY <1>1 DEF RingType
  <2>2. PICK T \in SUBSET Servers : T = (ring \cap up)'
    BY <1>1 DEF RingType
  <2>3. PICK pl \in Places : pl = place /\ pl = place'
    BY <1>1, RingSteps DEF RingType
  <2>4. Target(k) = FirstOf(pl, S, k) /\ Target(k)' = FirstOf(pl, T, k)
    BY <1>1, <2>1, <2>2, <2>3, RingSteps, TargetIsFirst
  <2> QED BY <1>1, <2>1, <2>2, <2>4, SameFirst
<1>2. RingType /\ RingType' /\ [RoutingNext]_routingVars =>
         [ringed => \A k \in Keys : Target(k)' # Target(k) =>
             Target(k) \notin (ring \cap up)' \/ Target(k)' \notin ring \cap up]_<<ring, up>>
  BY <1>1
<1> QED BY <1>2, RingTypeInit, RingTypeStep, PTL DEF RoutingSpec, KeysStay

-----------------------------------------------------------------------------
(* Sticky routing *)

\* Lists of candidates: no worker twice.
CandidateLists == {s \in Seq(Servers) : \A i, j \in DOMAIN s : s[i] = s[j] => i = j}
TableEntries == [urls : CandidateLists, idle : Nat]
Snapshots == [pc : {"sleep", "collect", "write", "rename"}, entries : [Sessions -> CandidateLists],
              fresh : SUBSET Sessions]

ManualType ==
    /\ table \in [Sessions -> TableEntries \cup {None}]
    /\ keeper \in [Keepers -> Snapshots]
    /\ mapFile \in [Sessions -> CandidateLists]
    /\ last \in [Sessions -> Servers \cup {None}]
    /\ saved \in SUBSET Sessions

\* The keys a thread believes unchanged are unchanged.
FreshIsCurrent ==
    \A e \in Keepers : \A k \in keeper[e].fresh : table[k] # None /\ keeper[e].entries[k] = table[k].urls

\* Every thread that is about to write, or is writing, has the saved keys as they are now.
SavedIsFresh == \A e \in Keepers : keeper[e].pc \in {"write", "rename"} => saved \subseteq keeper[e].fresh

\* Only the holder of the lock writes.
OneWriter == \A e \in Keepers : keeper[e].pc = "rename" => writing = e

\* The worker of a key's last request is one of its candidates.
LastIsCandidate ==
    \A k \in Sessions : last[k] # None => table[k] # None /\ last[k] \in Range(table[k].urls)

ManualInv ==
    RingType /\ ManualType /\ FreshIsCurrent /\ SavedIsFresh /\ OneWriter /\ LastIsCandidate /\ RestoredSession

LEMMA NoneIsApart == None \notin TableEntries /\ None \notin Servers /\ None \notin Keepers
<1>1. TableEntries \subseteq [urls : Seq(Servers), idle : Nat]
  BY DEF TableEntries, CandidateLists
<1> QED BY <1>1, ManualAssumption, PoliciesAssumption

LEMMA EmptyLists ==
    /\ <<>> \in CandidateLists /\ NoEntries \in [Sessions -> CandidateLists] /\ Resting \in Snapshots
    /\ Resting.fresh = {} /\ Resting.pc = "sleep"
BY DEF CandidateLists, NoEntries, Resting, Snapshots

LEMMA ManualInitInv == RoutingInit => ManualInv
<1> SUFFICES ASSUME RoutingInit PROVE ManualInv
  OBVIOUS
<1>1. RingType
  BY RingTypeInit
<1>2. ManualInit
  BY DEF RoutingInit
<1>3. ManualType
  BY <1>2, EmptyLists DEF ManualInit, ManualType
<1>4. \A e \in Keepers : keeper[e].fresh = {} /\ keeper[e].pc = "sleep"
  BY <1>2, EmptyLists DEF ManualInit
<1> QED BY <1>1, <1>2, <1>3, <1>4
        DEF ManualInv, ManualInit, FreshIsCurrent, SavedIsFresh, OneWriter, LastIsCandidate, RestoredSession

\* The candidates of a key are a list without repetition, which are those of its entry.
LEMMA CandidatesType ==
    ASSUME ManualType, NEW k \in Sessions
    PROVE  /\ Candidates(k) \in CandidateLists
           /\ table[k] # None => Candidates(k) = table[k].urls
           /\ table[k] = None => Candidates(k) = <<>>
BY EmptyLists DEF ManualType, Candidates, TableEntries

\* The worker that is found is the first candidate that is eligible, if there is one.
LEMMA FindsFirst ==
    ASSUME NEW s \in CandidateLists, NEW ws \in SUBSET Servers
    PROVE  \/ /\ FindHealthyWorker(s, ws) = None
              /\ \A i \in DOMAIN s : s[i] \notin ws
           \/ \E i \in DOMAIN s : /\ s[i] = FindHealthyWorker(s, ws) /\ s[i] \in ws /\ s[i] # None
                                  /\ \A j \in DOMAIN s : s[j] \in ws => i <= j
<1> DEFINE good == {i \in DOMAIN s : s[i] \in ws}
<1>1. s \in Seq(Servers) /\ DOMAIN s = 1..Len(s) /\ Len(s) \in Nat
  BY DEF CandidateLists
<1>2. good \in SUBSET Nat
  BY <1>1
<1>3. CASE good = {}
  BY <1>3 DEF FindHealthyWorker
<1>4. CASE good # {}
  <2>1. Min(good) \in good /\ \A j \in good : Min(good) <= j
    BY <1>2, <1>4, MinIsLeast
  <2>2. FindHealthyWorker(s, ws) = s[Min(good)]
    BY <1>4 DEF FindHealthyWorker
  <2>3. s[Min(good)] \in ws /\ s[Min(good)] # None
    BY <2>1, NoneIsApart
  <2> QED BY <2>1, <2>2, <2>3
<1> QED BY <1>3, <1>4

\* A new candidate that is not among them is put last; the oldest one may leave.
LEMMA PushedLast ==
    ASSUME NEW s \in CandidateLists, NEW w \in Servers, \A i \in DOMAIN s : s[i] # w
    PROVE  PushBounded(s, w) \in CandidateLists /\ w \in Range(PushBounded(s, w))
<1> DEFINE r == IF Len(s) < MaxCandidateWorkers THEN s ELSE Tail(s)
<1>1. s \in Seq(Servers) /\ \A i, j \in 1..Len(s) : s[i] = s[j] => i = j
  BY DEF CandidateLists
<1>2. r \in Seq(Servers) /\ (\A i, j \in 1..Len(r) : r[i] = r[j] => i = j) /\ \A i \in 1..Len(r) : r[i] # w
  BY <1>1 DEF MaxCandidateWorkers
<1> HIDE DEF r
<1>3. /\ Append(r, w) \in Seq(Servers) /\ Len(Append(r, w)) = Len(r) + 1
      /\ Append(r, w)[Len(r) + 1] = w /\ \A i \in 1..Len(r) : Append(r, w)[i] = r[i]
  BY <1>2
<1>4. PushBounded(s, w) = Append(r, w)
  BY DEF PushBounded, r
<1>5. \A i, j \in 1..(Len(r) + 1) : Append(r, w)[i] = Append(r, w)[j] => i = j
  BY <1>2, <1>3
<1>6. w \in Range(Append(r, w))
  BY <1>2, <1>3 DEF Range
<1>7. DOMAIN Append(r, w) = 1..(Len(r) + 1)
  BY <1>3
<1>8. Append(r, w) \in CandidateLists
  BY <1>3, <1>5, <1>7 DEF CandidateLists
<1> QED BY <1>4, <1>6, <1>8

\* The entry of a key is made, renewed or extended, and snapshots that do not have it as it
\* is now no longer count as fresh.
LEMMA AssignedKeeps ==
    ASSUME ManualInv, RingType', NEW k \in Sessions, NEW w \in Servers, NEW s \in CandidateLists,
           w \in Range(s), Assigned(k, w, s),
           \/ UNCHANGED <<saved, keeper>> /\ table[k] # None /\ s = table[k].urls
           \/ Changed({k})
    PROVE  ManualInv'
<1>1. PICK entry \in TableEntries : entry = [urls |-> s, idle |-> 0]
  BY DEF TableEntries
<1>2. /\ table' = [table EXCEPT ![k] = entry] /\ last' = [last EXCEPT ![k] = w]
      /\ UNCHANGED <<writing, mapFile>>
  BY <1>1 DEF Assigned
<1>3. entry # None /\ entry.urls = s
  BY <1>1, NoneIsApart
<1>4. /\ ManualType /\ FreshIsCurrent /\ SavedIsFresh /\ OneWriter /\ LastIsCandidate /\ RestoredSession
      /\ table \in [Sessions -> TableEntries \cup {None}] /\ keeper \in [Keepers -> Snapshots]
      /\ saved \in SUBSET Sessions
  BY DEF ManualInv, ManualType
<1>5. \A x \in Sessions : table'[x] = IF x = k THEN entry ELSE table[x]
  BY <1>2, <1>4
<1>6. CASE UNCHANGED <<saved, keeper>> /\ table[k] # None /\ s = table[k].urls
  <2>1. \A x \in Sessions : table[x] # None => table'[x] # None /\ table'[x].urls = table[x].urls
    BY <1>3, <1>5, <1>6
  <2>2. ManualType'
    BY <1>2, <1>4, <1>6 DEF ManualType
  <2>3. FreshIsCurrent'
    BY <1>4, <1>6, <2>1 DEF FreshIsCurrent, Snapshots
  <2>4. SavedIsFresh' /\ OneWriter'
    BY <1>2, <1>4, <1>6 DEF SavedIsFresh, OneWriter
  <2>5. LastIsCandidate'
    BY <1>2, <1>3, <1>4, <1>5 DEF LastIsCandidate, ManualType
  <2>6. RestoredSession'
    BY <1>2, <1>4, <1>6, <2>1 DEF RestoredSession
  <2> QED BY <2>2, <2>3, <2>4, <2>5, <2>6 DEF ManualInv
<1>7. CASE Changed({k})
  <2>1. /\ saved' = saved \ {k} /\ keeper' \in [Keepers -> Snapshots]
        /\ \A e \in Keepers : /\ keeper'[e].pc = keeper[e].pc /\ keeper'[e].entries = keeper[e].entries
                              /\ keeper'[e].fresh = keeper[e].fresh \ {k}
    BY <1>4, <1>7 DEF Changed, Snapshots
  <2>2. ManualType'
    BY <1>2, <1>4, <2>1 DEF ManualType
  <2>3. FreshIsCurrent'
    BY <1>4, <1>5, <2>1 DEF FreshIsCurrent, Snapshots
  <2>4. SavedIsFresh' /\ OneWriter'
    BY <1>2, <1>4, <2>1 DEF SavedIsFresh, OneWriter
  <2>5. LastIsCandidate'
    BY <1>2, <1>3, <1>4, <1>5 DEF LastIsCandidate, ManualType
  <2>6. RestoredSession'
    BY <1>2, <1>4, <1>5, <2>1 DEF RestoredSession
  <2> QED BY <2>2, <2>3, <2>4, <2>5, <2>6 DEF ManualInv
<1> QED BY <1>6, <1>7

\* What a request finds and where it goes.
LEMMA RequestSteps ==
    ASSUME ManualInv, NEW k \in Sessions
    PROVE  /\ OccupiedHit(k) => \E i \in DOMAIN Candidates(k) :
                 /\ table[k] # None /\ Candidates(k)[i] \in up
                 /\ Assigned(k, Candidates(k)[i], Candidates(k)) /\ UNCHANGED <<saved, keeper>>
                 /\ \A j \in DOMAIN Candidates(k) : Candidates(k)[j] \in up => i <= j
           /\ OccupiedMiss(k) => \E w \in Servers :
                 /\ table[k] # None /\ w \in up /\ \A i \in DOMAIN Candidates(k) : Candidates(k)[i] \notin up
                 /\ Assigned(k, w, PushBounded(Candidates(k), w)) /\ Changed({k})
           /\ Vacant(k) => \E w \in Servers : table[k] = None /\ Assigned(k, w, <<w>>) /\ Changed({k})
<1>1. PICK s \in CandidateLists : s = Candidates(k)
  BY CandidatesType DEF ManualInv
<1>2. up \in SUBSET Servers
  BY DEF ManualInv, RingType
<1>3. SelectNewWorker(up) \subseteq up
  BY DEF SelectNewWorker
<1>4. table[k] = None => s = <<>>
  BY <1>1, CandidatesType DEF ManualInv
<1>5. ASSUME OccupiedHit(k)
      PROVE  \E i \in DOMAIN s : /\ table[k] # None /\ s[i] \in up
                 /\ Assigned(k, s[i], s) /\ UNCHANGED <<saved, keeper>>
                 /\ \A j \in DOMAIN s : s[j] \in up => i <= j
  <2>1. /\ FindHealthyWorker(s, up) # None /\ Assigned(k, FindHealthyWorker(s, up), s)
        /\ UNCHANGED <<saved, keeper>>
    BY <1>1, <1>5 DEF OccupiedHit
  <2>2. PICK i \in DOMAIN s : /\ s[i] = FindHealthyWorker(s, up) /\ s[i] \in up /\ s[i] # None
                              /\ \A j \in DOMAIN s : s[j] \in up => i <= j
    BY <1>2, <2>1, FindsFirst
  <2>3. table[k] # None
    BY <1>4, <2>2
  <2> QED BY <2>1, <2>2, <2>3
<1>6. ASSUME OccupiedMiss(k)
      PROVE  \E w \in Servers : /\ table[k] # None /\ w \in up /\ \A i \in DOMAIN s : s[i] \notin up
                                /\ Assigned(k, w, PushBounded(s, w)) /\ Changed({k})
  <2>1. PICK w \in up : Assigned(k, w, PushBounded(s, w))
    BY <1>1, <1>3, <1>6 DEF OccupiedMiss
  <2>2. FindHealthyWorker(s, up) = None /\ table[k] # None /\ Changed({k})
    BY <1>1, <1>6 DEF OccupiedMiss
  <2>3. \A i \in DOMAIN s : s[i] \notin up
    BY <1>2, <2>2, FindsFirst
  <2> QED BY <1>2, <2>1, <2>2, <2>3
<1>7. ASSUME Vacant(k) PROVE \E w \in Servers : table[k] = None /\ Assigned(k, w, <<w>>) /\ Changed({k})
  BY <1>2, <1>3, <1>7 DEF Vacant
<1> QED BY <1>1, <1>5, <1>6, <1>7

LEMMA RequestKeeps ==
    ASSUME ManualInv, RingType', NEW k \in Sessions, OccupiedHit(k) \/ OccupiedMiss(k) \/ Vacant(k)
    PROVE  ManualInv'
<1>1. PICK s \in CandidateLists : s = Candidates(k)
  BY CandidatesType DEF ManualInv
<1>2. s \in Seq(Servers)
  BY DEF CandidateLists
<1>3. CASE OccupiedHit(k)
  <2>1. PICK i \in DOMAIN s : table[k] # None /\ Assigned(k, s[i], s) /\ UNCHANGED <<saved, keeper>>
    BY <1>1, <1>3, RequestSteps
  <2>2. s[i] \in Servers /\ s[i] \in Range(s)
    BY <1>2 DEF Range
  <2>3. s = table[k].urls
    BY <1>1, <2>1, CandidatesType DEF ManualInv
  <2> QED BY <2>1, <2>2, <2>3, AssignedKeeps
<1>4. CASE OccupiedMiss(k)
  <2>1. PICK w \in Servers : /\ w \in up /\ \A i \in DOMAIN s : s[i] \notin up
                             /\ Assigned(k, w, PushBounded(s, w)) /\ Changed({k})
    BY <1>1, <1>4, RequestSteps
  <2>2. PushBounded(s, w) \in CandidateLists /\ w \in Range(PushBounded(s, w))
    BY <2>1, PushedLast
  <2> QED BY <2>1, <2>2, AssignedKeeps
<1>5. CASE Vacant(k)
  <2>1. PICK w \in Servers : Assigned(k, w, <<w>>) /\ Changed({k})
    BY <1>5, RequestSteps
  <2>2. <<w>> \in CandidateLists /\ w \in Range(<<w>>)
    BY DEF CandidateLists, Range
  <2> QED BY <2>1, <2>2, AssignedKeeps
<1> QED BY <1>3, <1>4, <1>5

LEMMA RestKeeps ==
    ASSUME ManualInv, RingType', NEW ks \in SUBSET Sessions, Rest(ks)
    PROVE  ManualInv'
<1>1. /\ ManualType /\ FreshIsCurrent /\ SavedIsFresh /\ OneWriter /\ LastIsCandidate /\ RestoredSession
  BY DEF ManualInv
<1>2. UNCHANGED <<keeper, writing, mapFile, last, saved>>
  BY DEF Rest
<1>3. ASSUME NEW k \in Sessions
      PROVE  /\ table'[k] \in TableEntries \cup {None}
             /\ table[k] # None => table'[k] # None /\ table'[k].urls = table[k].urls
  <2>1. PICK old \in TableEntries \cup {None} : old = table[k]
    BY <1>1 DEF ManualType
  <2>2. CASE k \notin ks
    BY <2>1, <2>2 DEF Rest
  <2>3. CASE k \in ks
    <3>1. old \in TableEntries /\ table'[k] = [old EXCEPT !.idle = @ + 1]
      BY <2>1, <2>3 DEF Rest
    <3>2. [old EXCEPT !.idle = @ + 1] \in TableEntries /\ [old EXCEPT !.idle = @ + 1].urls = old.urls
      BY <3>1 DEF TableEntries
    <3> QED BY <2>1, <3>1, <3>2, NoneIsApart
  <2> QED BY <2>2, <2>3
<1>4. table' \in [Sessions -> TableEntries \cup {None}]
  BY <1>3 DEF Rest
<1>5. ManualType'
  BY <1>1, <1>2, <1>4 DEF ManualType
<1>6. FreshIsCurrent' /\ SavedIsFresh' /\ OneWriter'
  BY <1>1, <1>2, <1>3 DEF FreshIsCurrent, SavedIsFresh, OneWriter, ManualType, Snapshots
<1>7. LastIsCandidate' /\ RestoredSession'
  BY <1>1, <1>2, <1>3 DEF LastIsCandidate, RestoredSession, ManualType
<1> QED BY <1>5, <1>6, <1>7 DEF ManualInv

LEMMA EvictKeeps ==
    ASSUME ManualInv, RingType', NEW e \in Keepers, EvictIdle(e)
    PROVE  ManualInv'
<1>1. PICK gone \in SUBSET Sessions :
        /\ table' = [k \in Sessions |-> IF k \in gone THEN None ELSE table[k]]
        /\ last' = [k \in Sessions |-> IF k \in gone THEN None ELSE last[k]]
        /\ saved' = saved \ gone
        /\ keeper' = [x \in Keepers |-> [keeper[x] EXCEPT !.fresh = @ \ gone,
                                                          !.pc = IF x = e THEN "collect" ELSE @]]
  BY DEF EvictIdle
<1>2. UNCHANGED <<writing, mapFile>> /\ keeper[e].pc = "sleep"
  BY DEF EvictIdle
<1>3. /\ ManualType /\ FreshIsCurrent /\ SavedIsFresh /\ OneWriter /\ LastIsCandidate /\ RestoredSession
  BY DEF ManualInv
<1>4. ASSUME NEW x \in Keepers
      PROVE  /\ keeper'[x] \in Snapshots /\ keeper'[x].entries = keeper[x].entries
             /\ keeper'[x].fresh = keeper[x].fresh \ gone
             /\ keeper'[x].pc = IF x = e THEN "collect" ELSE keeper[x].pc
  <2>1. PICK old \in Snapshots : old = keeper[x]
    BY <1>3 DEF ManualType
  <2>2. PICK step \in {"sleep", "collect", "write", "rename"} : step = IF x = e THEN "collect" ELSE old.pc
    BY DEF Snapshots
  <2>3. keeper'[x] = [old EXCEPT !.fresh = old.fresh \ gone, !.pc = step]
    BY <1>1, <2>1, <2>2
  <2>4. old.fresh \ gone \in SUBSET Sessions
    BY DEF Snapshots
  <2>5. [old EXCEPT !.fresh = old.fresh \ gone, !.pc = step] \in Snapshots
    BY <2>4 DEF Snapshots
  <2>6. /\ keeper'[x].entries = old.entries /\ keeper'[x].fresh = old.fresh \ gone /\ keeper'[x].pc = step
    BY <2>3 DEF Snapshots
  <2> QED BY <2>1, <2>2, <2>3, <2>5, <2>6
<1>5. ManualType'
  <2>1. table' \in [Sessions -> TableEntries \cup {None}] /\ last' \in [Sessions -> Servers \cup {None}]
    BY <1>1, <1>3 DEF ManualType
  <2>2. keeper' \in [Keepers -> Snapshots]
    BY <1>1, <1>4
  <2> QED BY <1>1, <1>2, <1>3, <2>1, <2>2 DEF ManualType
<1>6. FreshIsCurrent' /\ SavedIsFresh' /\ OneWriter'
  <2>1. ASSUME NEW x \in Keepers, NEW k \in keeper'[x].fresh
        PROVE  table'[k] # None /\ keeper'[x].entries[k] = table'[k].urls
    <3>1. k \in keeper[x].fresh /\ k \notin gone /\ keeper'[x].entries = keeper[x].entries
      BY <1>4
    <3>2. k \in Sessions /\ table[k] # None /\ keeper[x].entries[k] = table[k].urls
      BY <1>3, <3>1 DEF FreshIsCurrent, ManualType, Snapshots
    <3>3. table'[k] = table[k]
      BY <1>1, <3>1, <3>2
    <3> QED BY <3>1, <3>2, <3>3
  <2>2. ASSUME NEW x \in Keepers, keeper'[x].pc \in {"write", "rename"}
        PROVE  saved' \subseteq keeper'[x].fresh /\ (keeper'[x].pc = "rename" => writing' = x)
    <3>1. keeper'[x].pc = keeper[x].pc /\ keeper'[x].fresh = keeper[x].fresh \ gone
      BY <1>4, <2>2
    <3>2. saved \subseteq keeper[x].fresh /\ (keeper[x].pc = "rename" => writing = x)
      BY <1>3, <2>2, <3>1 DEF SavedIsFresh, OneWriter
    <3> QED BY <1>1, <1>2, <3>1, <3>2
  <2> QED BY <2>1, <2>2 DEF FreshIsCurrent, SavedIsFresh, OneWriter
<1>7. LastIsCandidate' /\ RestoredSession'
  BY <1>1, <1>2, <1>3 DEF LastIsCandidate, RestoredSession, ManualType
<1> QED BY <1>5, <1>6, <1>7 DEF ManualInv

LEMMA CollectKeeps ==
    ASSUME ManualInv, RingType', NEW e \in Keepers, CollectEntries(e)
    PROVE  ManualInv'
<1>1. /\ ManualType /\ FreshIsCurrent /\ SavedIsFresh /\ OneWriter /\ LastIsCandidate /\ RestoredSession
  BY DEF ManualInv
<1>2. UNCHANGED <<table, writing, mapFile, last, saved>>
  BY DEF CollectEntries
<1>3. PICK es \in [Sessions -> CandidateLists] : es = [k \in Sessions |-> Candidates(k)]
  BY <1>1, CandidatesType
<1>4. PICK ks \in SUBSET Sessions : ks = {k \in Sessions : table[k] # None}
  OBVIOUS
<1>5. PICK new \in Snapshots : new = [pc |-> "write", entries |-> es, fresh |-> ks]
  BY DEF Snapshots
<1>6. keeper' = [keeper EXCEPT ![e] = new]
  BY <1>3, <1>4, <1>5 DEF CollectEntries
<1>7. new.pc = "write" /\ new.entries = es /\ new.fresh = ks
  BY <1>5
<1>8. \A k \in ks : table[k] # None /\ es[k] = table[k].urls
  BY <1>1, <1>3, <1>4, CandidatesType
<1>9. saved \subseteq ks
  BY <1>1, <1>4 DEF RestoredSession, ManualType
<1>10. keeper' \in [Keepers -> Snapshots] /\ \A x \in Keepers : keeper'[x] = IF x = e THEN new ELSE keeper[x]
  BY <1>1, <1>6 DEF ManualType
<1>11. ManualType' /\ LastIsCandidate' /\ RestoredSession'
  BY <1>1, <1>2, <1>10 DEF ManualType, LastIsCandidate, RestoredSession
<1>12. FreshIsCurrent'
  BY <1>1, <1>2, <1>7, <1>8, <1>10 DEF FreshIsCurrent
<1>13. SavedIsFresh' /\ OneWriter'
  BY <1>1, <1>2, <1>7, <1>9, <1>10 DEF SavedIsFresh, OneWriter
<1> QED BY <1>11, <1>12, <1>13 DEF ManualInv

LEMMA WriteKeeps ==
    ASSUME ManualInv, RingType', NEW e \in Keepers, WriteTmp(e)
    PROVE  ManualInv'
<1>1. /\ ManualType /\ FreshIsCurrent /\ SavedIsFresh /\ OneWriter /\ LastIsCandidate /\ RestoredSession
      /\ keeper \in [Keepers -> Snapshots]
  BY DEF ManualInv, ManualType
<1>2. UNCHANGED <<table, mapFile, last, saved>> /\ keeper[e].pc = "write" /\ writing = None
  BY DEF WriteTmp
<1>3. \A x \in Keepers : keeper[x].pc # "rename"
  BY <1>1, <1>2, NoneIsApart DEF OneWriter
<1>4. CASE writing' = e /\ keeper' = [keeper EXCEPT ![e].pc = "rename"]
  <2>1. /\ keeper' \in [Keepers -> Snapshots]
        /\ \A x \in Keepers : /\ keeper'[x].entries = keeper[x].entries /\ keeper'[x].fresh = keeper[x].fresh
                              /\ keeper'[x].pc = IF x = e THEN "rename" ELSE keeper[x].pc
    BY <1>1, <1>4 DEF Snapshots
  <2>2. ManualType' /\ LastIsCandidate' /\ RestoredSession'
    BY <1>1, <1>2, <2>1 DEF ManualType, LastIsCandidate, RestoredSession
  <2>3. FreshIsCurrent' /\ SavedIsFresh' /\ OneWriter'
    BY <1>1, <1>2, <1>3, <1>4, <2>1 DEF FreshIsCurrent, SavedIsFresh, OneWriter
  <2> QED BY <2>2, <2>3 DEF ManualInv
<1>5. CASE keeper' = [keeper EXCEPT ![e] = Resting] /\ UNCHANGED writing
  <2>1. /\ keeper' \in [Keepers -> Snapshots]
        /\ \A x \in Keepers : keeper'[x] = IF x = e THEN Resting ELSE keeper[x]
    BY <1>1, <1>5, EmptyLists
  <2>2. ManualType' /\ LastIsCandidate' /\ RestoredSession'
    BY <1>1, <1>2, <2>1 DEF ManualType, LastIsCandidate, RestoredSession
  <2>3. FreshIsCurrent' /\ SavedIsFresh' /\ OneWriter'
    BY <1>1, <1>2, <1>5, <2>1, EmptyLists DEF FreshIsCurrent, SavedIsFresh, OneWriter
  <2> QED BY <2>2, <2>3 DEF ManualInv
<1> QED BY <1>4, <1>5 DEF WriteTmp

LEMMA RenameKeeps ==
    ASSUME ManualInv, RingType', NEW e \in Keepers, RenameTmp(e)
    PROVE  ManualInv'
<1>1. /\ ManualType /\ FreshIsCurrent /\ SavedIsFresh /\ OneWriter /\ LastIsCandidate /\ RestoredSession
      /\ keeper \in [Keepers -> Snapshots]
  BY DEF ManualInv, ManualType
<1>2. UNCHANGED <<table, last>> /\ keeper[e].pc = "rename" /\ keeper' = [keeper EXCEPT ![e] = Resting]
  BY DEF RenameTmp
<1>3. /\ keeper' \in [Keepers -> Snapshots]
      /\ \A x \in Keepers : keeper'[x] = IF x = e THEN Resting ELSE keeper[x]
  BY <1>1, <1>2, EmptyLists
<1>4. \A x \in Keepers : x # e => keeper[x].pc # "rename"
  BY <1>1, <1>2 DEF OneWriter
<1>5. saved \subseteq keeper[e].fresh /\ keeper[e].fresh \in SUBSET Sessions
      /\ keeper[e].entries \in [Sessions -> CandidateLists]
  BY <1>1, <1>2 DEF SavedIsFresh, Snapshots
<1>6. FreshIsCurrent' /\ OneWriter'
  BY <1>1, <1>2, <1>3, <1>4, EmptyLists DEF FreshIsCurrent, OneWriter
<1>7. LastIsCandidate'
  BY <1>1, <1>2 DEF LastIsCandidate
<1>8. CASE UNCHANGED <<mapFile, saved>>
  <2>1. ManualType' /\ RestoredSession'
    BY <1>1, <1>2, <1>3, <1>8 DEF ManualType, RestoredSession
  <2>2. SavedIsFresh'
    BY <1>1, <1>3, <1>8, EmptyLists DEF SavedIsFresh
  <2> QED BY <1>6, <1>7, <2>1, <2>2 DEF ManualInv
<1>9. CASE /\ mapFile' = keeper[e].entries
           /\ saved' = saved \cup {k \in keeper[e].fresh :
                 \A x \in {x \in Keepers \ {e} : keeper[x].pc = "write"} : k \in keeper[x].fresh}
  <2>1. saved' \subseteq keeper[e].fresh
    BY <1>5, <1>9
  <2>2. ManualType'
    BY <1>1, <1>2, <1>3, <1>5, <1>9, <2>1 DEF ManualType
  <2>3. RestoredSession'
    BY <1>1, <1>2, <1>9, <2>1 DEF RestoredSession, FreshIsCurrent
  <2>4. ASSUME NEW x \in Keepers, keeper'[x].pc \in {"write", "rename"} PROVE saved' \subseteq keeper'[x].fresh
    <3>1. x # e /\ keeper'[x] = keeper[x] /\ keeper[x].pc = "write"
      BY <1>3, <1>4, <2>4, EmptyLists
    <3>2. saved \subseteq keeper[x].fresh
      BY <1>1, <3>1 DEF SavedIsFresh
    <3> QED BY <1>9, <3>1, <3>2
  <2>5. SavedIsFresh'
    BY <2>4 DEF SavedIsFresh
  <2> QED BY <1>6, <1>7, <2>2, <2>3, <2>5 DEF ManualInv
<1> QED BY <1>8, <1>9 DEF RenameTmp

LEMMA RestartKeeps ==
    ASSUME ManualInv, RingType', NEW damaged \in BOOLEAN, Restart(damaged)
    PROVE  ManualInv'
<1>1. /\ ManualType /\ LastIsCandidate /\ RestoredSession
      /\ mapFile \in [Sessions -> CandidateLists] /\ saved \in SUBSET Sessions
  BY DEF ManualInv, ManualType
<1>2. keeper' \in [Keepers -> Snapshots] /\ \A x \in Keepers : keeper'[x].fresh = {} /\ keeper'[x].pc = "sleep"
  BY EmptyLists DEF Restart
<1>3. FreshIsCurrent' /\ SavedIsFresh' /\ OneWriter'
  BY <1>2 DEF FreshIsCurrent, SavedIsFresh, OneWriter
<1>4. ASSUME NEW k \in Sessions
      PROVE  /\ damaged \/ mapFile[k] = <<>> => table'[k] = None
             /\ ~damaged /\ mapFile[k] # <<>> =>
                    table'[k] \in TableEntries /\ table'[k] # None /\ table'[k].urls = mapFile[k]
  <2>1. PICK s \in CandidateLists : s = mapFile[k]
    BY <1>1
  <2>2. PICK entry \in TableEntries : entry = [urls |-> s, idle |-> 0]
    BY DEF TableEntries
  <2>3. table'[k] = IF damaged \/ s = <<>> THEN None ELSE entry
    BY <2>1, <2>2 DEF Restart, LoadRoutingMap
  <2>4. entry # None /\ entry.urls = s
    BY <2>2, NoneIsApart
  <2> QED BY <2>1, <2>3, <2>4
<1>5. table' \in [Sessions -> TableEntries \cup {None}]
  BY <1>4 DEF Restart, LoadRoutingMap
<1>6. last' \in [Sessions -> Servers \cup {None}]
      /\ \A k \in Sessions : last'[k] # None => ~damaged /\ k \in saved /\ last'[k] = last[k]
  BY <1>1 DEF Restart, ManualType
<1>7. ManualType'
  BY <1>1, <1>2, <1>5, <1>6, EmptyLists DEF ManualType, Restart
<1>8. ASSUME NEW k \in Sessions, last'[k] # None
      PROVE  table'[k] # None /\ last'[k] \in Range(table'[k].urls)
  <2>1. ~damaged /\ k \in saved /\ last'[k] = last[k]
    BY <1>6, <1>8
  <2>2. mapFile[k] = table[k].urls /\ last[k] \in Range(table[k].urls)
    BY <1>1, <1>8, <2>1 DEF LastIsCandidate, RestoredSession
  <2>3. mapFile[k] # <<>>
    BY <2>2 DEF Range
  <2> QED BY <1>4, <2>1, <2>2, <2>3
<1>9. LastIsCandidate'
  BY <1>8 DEF LastIsCandidate
<1>10. RestoredSession'
  <2>1. CASE damaged
    BY <2>1 DEF RestoredSession, Restart
  <2>2. CASE ~damaged
    <3>1. saved' = {k \in Sessions : mapFile[k] # <<>>} /\ mapFile' = mapFile
      BY <2>2 DEF Restart
    <3> QED BY <1>4, <2>2, <3>1 DEF RestoredSession
  <2> QED BY <2>1, <2>2
<1> QED BY <1>3, <1>7, <1>9, <1>10 DEF ManualInv

LEMMA ManualInvStep == ManualInv /\ [RoutingNext]_routingVars => ManualInv'
<1> SUFFICES ASSUME ManualInv, [RoutingNext]_routingVars PROVE ManualInv'
  OBVIOUS
<1>1. RingType'
  BY RingTypeStep DEF ManualInv
<1>2. CASE UNCHANGED manual
  BY <1>1, <1>2 DEF ManualInv, ManualType, FreshIsCurrent, SavedIsFresh, OneWriter, LastIsCandidate,
     RestoredSession, manual
<1>3. CASE ManualNext
  BY <1>1, <1>3, RequestKeeps, RestKeeps, EvictKeeps, CollectKeeps, WriteKeeps, RenameKeeps, RestartKeeps
     DEF ManualNext
<1> QED BY <1>2, <1>3 DEF RoutingNext, routingVars

LEMMA ManualInvAlways == RoutingSpec => []ManualInv
BY ManualInitInv, ManualInvStep, PTL DEF RoutingSpec

\* A snapshot that is on the disk stays good: while threads evict, collect, write, fail to write
\* and restart in any order, the file has the candidates of every saved session until these
\* change (ManualPolicy::snapshot_routing_map, load_routing_map).
THEOREM SnapshotsRestore == RoutingSpec => []RestoredSession
<1>1. ManualInv => RestoredSession
  BY DEF ManualInv
<1> QED BY <1>1, ManualInvAlways, PTL

\* A session stays with its worker, for any number of keys, candidates, threads and restarts
\* (ManualPolicy::select_by_routing_id).
THEOREM SessionsStick == RoutingSpec => Sticky
<1>1. ASSUME ManualInv, [RoutingNext]_routingVars, NEW k \in Sessions,
             last[k] # None, last'[k] \notin {None, last[k]}, last[k] \in up
      PROVE  /\ last[k] \in Range(Candidates(k)) /\ last'[k] \in Range(Candidates(k))
             /\ Rank(k, last'[k]) < Rank(k, last[k])
  <2>0. PICK s \in CandidateLists : s = Candidates(k)
    BY <1>1, CandidatesType DEF ManualInv
  <2>1. table[k] # None /\ last[k] \in Range(s)
    BY <1>1, <2>0, CandidatesType DEF ManualInv, LastIsCandidate
  <2>2. /\ s \in Seq(Servers) /\ DOMAIN s \subseteq Nat /\ \A i, j \in DOMAIN s : s[i] = s[j] => i = j
    BY DEF CandidateLists
  <2>3. PICK j \in DOMAIN s : s[j] = last[k]
    BY <2>1 DEF Range
  <2>4. ManualNext
    <3>1. ~ UNCHANGED manual
      BY <1>1 DEF manual
    <3> QED BY <1>1, <3>1 DEF RoutingNext, routingVars
  <2>5. ASSUME NEW x \in Sessions, x # k PROVE ~OccupiedHit(x) /\ ~OccupiedMiss(x) /\ ~Vacant(x)
    <3>1. \A w, t : Assigned(x, w, t) => last'[k] = last[k]
      BY <1>1, <2>5 DEF Assigned, ManualInv, ManualType
    <3> QED BY <1>1, <2>5, <3>1 DEF OccupiedHit, OccupiedMiss, Vacant
  <2>6. \A e \in Keepers : ~EvictIdle(e) /\ ~CollectEntries(e) /\ ~WriteTmp(e) /\ ~RenameTmp(e)
    BY <1>1 DEF EvictIdle, CollectEntries, WriteTmp, RenameTmp
  <2>7. \A ks \in SUBSET Sessions : ~Rest(ks)
    BY <1>1 DEF Rest
  <2>8. \A damaged \in BOOLEAN : ~Restart(damaged)
    BY <1>1 DEF Restart
  <2>9. ~Vacant(k)
    BY <2>1 DEF Vacant
  <2>10. ~OccupiedMiss(k)
    BY <1>1, <2>0, <2>3, RequestSteps
  <2>11. OccupiedHit(k)
    BY <2>4, <2>5, <2>6, <2>7, <2>8, <2>9, <2>10 DEF ManualNext
  <2>12. PICK i \in DOMAIN s : /\ Assigned(k, s[i], s)
                               /\ \A m \in DOMAIN s : s[m] \in up => i <= m
    BY <1>1, <2>0, <2>11, RequestSteps
  <2>13. last'[k] = s[i]
    BY <1>1, <2>12 DEF Assigned, ManualInv, ManualType
  <2>14. i < j
    BY <1>1, <2>2, <2>3, <2>12, <2>13
  <2>15. Rank(k, last'[k]) = i /\ Rank(k, last[k]) = j
    BY <2>0, <2>2, <2>3, <2>13 DEF Rank
  <2> QED BY <2>0, <2>1, <2>13, <2>14, <2>15 DEF Range
<1>2. ManualInv /\ [RoutingNext]_routingVars =>
        [\A k \in Sessions :
          (last[k] # None /\ last'[k] \notin {None, last[k]}) =>
              \/ last[k] \notin up
              \/ (last[k] \in Range(Candidates(k)) /\ last'[k] \in Range(Candidates(k))
                  /\ Rank(k, last'[k]) < Rank(k, last[k]))]_last
  BY <1>1
<1> QED BY <1>2, ManualInvAlways, PTL DEF RoutingSpec, Sticky

=============================================================================
