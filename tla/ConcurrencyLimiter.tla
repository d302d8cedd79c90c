------------------------- MODULE ConcurrencyLimiter -------------------------
(***************************************************************************)
(* Admission of HTTP requests: the token bucket (core/token_bucket.rs),    *)
(* the bounded queue with its processor task, the concurrency middleware,  *)
(* the body that returns the token and the active-connection counter       *)
(* (middleware.rs).                                                        *)
(*                                                                         *)
(* A request is seen twice: handler is the middleware's future, which the  *)
(* server drops when the client goes away; waiter is what the queue        *)
(* processor does for it, which nothing cancels.  A token is Unit units    *)
(* and rate units are refilled per tick, so that fractions of a token      *)
(* exist as they do in the f64 of the code.  The code refills lazily at    *)
(* the next access; adding the same amount tick by tick gives the same     *)
(* value at every access, since only additions happen in between.          *)
(***************************************************************************)
EXTENDS Naturals, Sequences, FiniteSets

CONSTANTS
    Requests,      \* HTTP requests, each sent once
    Capacity,      \* max_concurrent_requests, the bucket's capacity
    Unit,          \* units that make a token
    Rates,         \* the refill rates (units per tick) an operator may configure
    QueueSize,     \* queue_size; 0 disables the queue
    QueueTimeout   \* queue_timeout_secs, in ticks

ASSUME LimiterAssumption ==
    /\ IsFiniteSet(Requests)
    /\ Capacity \in Nat \ {0} /\ Unit \in Nat \ {0}
    /\ Rates \subseteq Nat /\ QueueSize \in Nat /\ QueueTimeout \in Nat

VARIABLES
    rate,     \* refill_rate, chosen once by the configuration
    tokens,   \* units in the bucket
    queue,    \* the mpsc channel of QueuedRequest
    handler,  \* per request: where the middleware's future is
    waiter,   \* per request: where the queue processor is with it
    permit,   \* per request: what the oneshot permit channel carries
    left,     \* per request: ticks until its queue timeout
    wait,     \* per request: ticks until the deadline acquire set itself
    active,   \* ACTIVE_HTTP_CONNECTIONS
    refilled, \* history: units that ticks have added to the bucket
    spilled   \* history: units returned to a bucket that was already full

tasks == <<waiter, left, wait>>
vars == <<rate, tokens, queue, handler, tasks, permit, active, refilled, spilled>>

HandlerStates == {"new", "awaiting", "running", "streaming", "done", "rejected",
                  "gone", "lost"}
WaiterStates == {"none", "queued", "try", "register", "parked", "plan", "polling", "retry",
                 "over"}

\* The bucket's capacity, in units.
Full == Capacity * Unit

Max0(a, b) == IF a > b THEN a - b ELSE 0
AtMost(n, cap) == IF n > cap THEN cap ELSE n
CeilDiv(a, b) == (a + b - 1) \div b

Init ==
    /\ rate \in Rates
    /\ tokens = Full
    /\ queue = <<>>
    /\ handler = [r \in Requests |-> "new"]
    /\ waiter = [r \in Requests |-> "none"]
    /\ permit = [r \in Requests |-> "none"]
    /\ left = [r \in Requests |-> QueueTimeout]
    /\ wait = [r \in Requests |-> 0]
    /\ active = 0
    /\ refilled = 0
    /\ spilled = 0

-----------------------------------------------------------------------------
(* The bucket.                                                             *)

TryAcquire == tokens >= Unit /\ tokens' = tokens - Unit

\* return_tokens_sync: add, at most to capacity, then notify_waiters wakes every
\* waiter that is registered; it leaves nothing behind for one that is not.
ReturnToken ==
    /\ tokens' = AtMost(tokens + Unit, Full)
    /\ spilled' = spilled + (tokens + Unit - tokens')
    /\ waiter' = [r \in Requests |-> CASE waiter[r] = "parked" -> "try"
                                       [] waiter[r] = "polling" -> "retry"
                                       [] OTHER -> waiter[r]]

-----------------------------------------------------------------------------
(* concurrency_limit_middleware, inside the metrics middleware.            *)

\* A token is there: the request runs at once.
Admit(r) ==
    /\ handler[r] = "new"
    /\ TryAcquire
    /\ handler' = [handler EXCEPT ![r] = "running"]
    /\ active' = active + 1
    /\ UNCHANGED <<rate, queue, tasks, permit, refilled, spilled>>

\* No token: try_send into the queue and await the permit.
Enqueue(r) ==
    /\ handler[r] = "new"
    /\ tokens < Unit
    /\ Len(queue) < QueueSize
    /\ queue' = Append(queue, r)
    /\ handler' = [handler EXCEPT ![r] = "awaiting"]
    /\ waiter' = [waiter EXCEPT ![r] = "queued"]
    /\ active' = active + 1
    /\ UNCHANGED <<rate, tokens, permit, left, wait, refilled, spilled>>

\* The queue is full or disabled: 429.
Reject(r) ==
    /\ handler[r] = "new"
    /\ tokens < Unit
    /\ Len(queue) >= QueueSize
    /\ handler' = [handler EXCEPT ![r] = "rejected"]
    /\ UNCHANGED <<rate, tokens, queue, tasks, permit, active, refilled, spilled>>

\* The permit arrives: run the request, or answer with the error status.
ReceivePermit(r) ==
    /\ handler[r] = "awaiting"
    /\ permit[r] # "none"
    /\ permit' = [permit EXCEPT ![r] = "taken"]
    /\ \/ permit[r] = "ok" /\ handler' = [handler EXCEPT ![r] = "running"]
                           /\ UNCHANGED active
       \/ permit[r] = "timeout" /\ handler' = [handler EXCEPT ![r] = "rejected"]
                                /\ active' = active - 1
    /\ UNCHANGED <<rate, tokens, queue, tasks, refilled, spilled>>

\* Variant: the body is not wrapped, so nothing returns the token.
RespondUnguarded(r) ==
    /\ handler[r] = "running"
    /\ handler' = [handler EXCEPT ![r] = "done"]
    /\ active' = active - 1
    /\ UNCHANGED <<rate, tokens, queue, tasks, permit, refilled, spilled>>

\* next.run has answered: the body is wrapped in a TokenGuardBody.
Respond(r) ==
    /\ handler[r] = "running"
    /\ handler' = [handler EXCEPT ![r] = "streaming"]
    /\ active' = active - 1
    /\ UNCHANGED <<rate, tokens, queue, tasks, permit, refilled, spilled>>

\* The body is consumed or dropped: TokenGuardBody::drop returns the token.
EndStream(r) ==
    /\ handler[r] = "streaming"
    /\ handler' = [handler EXCEPT ![r] = "done"]
    /\ ReturnToken
    /\ UNCHANGED <<rate, queue, permit, left, wait, active, refilled>>

\* The client disconnects while the future awaits: the future is dropped and
\* nothing after the await runs, neither the guard nor the decrement.
Cancel(r) ==
    /\ \/ handler[r] = "awaiting" /\ handler' = [handler EXCEPT ![r] = "gone"]
       \/ handler[r] = "running" /\ handler' = [handler EXCEPT ![r] = "lost"]
    /\ UNCHANGED <<rate, tokens, queue, tasks, permit, active, refilled, spilled>>

-----------------------------------------------------------------------------
(* QueueProcessor::run and the task it spawns for a request that waits.    *)

Send(r, answer) == permit' = [permit EXCEPT ![r] = answer]
WaiterAt(r, step) == waiter' = [waiter EXCEPT ![r] = step]

\* Variant: the processor gives the permit out without taking a token.
DequeueWithoutToken ==
    /\ queue # <<>>
    /\ LET r == Head(queue) IN
         \/ left[r] = 0 /\ Send(r, "timeout") /\ WaiterAt(r, "over")
         \/ left[r] > 0 /\ Send(r, "ok") /\ WaiterAt(r, "over")
    /\ queue' = Tail(queue)
    /\ UNCHANGED <<rate, tokens, handler, left, wait, active, refilled, spilled>>

Dequeue ==
    /\ queue # <<>>
    /\ LET r == Head(queue) IN
         \/ left[r] = 0 /\ Send(r, "timeout") /\ WaiterAt(r, "over") /\ UNCHANGED tokens
         \/ left[r] > 0 /\ TryAcquire /\ Send(r, "ok") /\ WaiterAt(r, "over")
         \/ left[r] > 0 /\ tokens < Unit /\ WaiterAt(r, "try") /\ UNCHANGED <<tokens, permit>>
    /\ queue' = Tail(queue)
    /\ UNCHANGED <<rate, handler, left, wait, active, refilled, spilled>>

\* acquire: a try that succeeds, at the start, after a wake-up or at a poll.
Grant(r) ==
    /\ waiter[r] \in {"try", "polling", "retry"}
    /\ TryAcquire
    /\ Send(r, "ok")
    /\ WaiterAt(r, "over")
    /\ UNCHANGED <<rate, queue, handler, left, wait, active, refilled, spilled>>

\* The try fails; without refill the task will wait for a notification only.
FailTry(r) ==
    /\ waiter[r] \in {"try", "retry"}
    /\ tokens < Unit
    /\ WaiterAt(r, CASE rate = 0 -> "register"
                     [] rate # 0 /\ waiter[r] = "retry" -> "polling"
                     [] OTHER -> "plan")
    /\ UNCHANGED <<rate, tokens, queue, handler, permit, left, wait, active, refilled, spilled>>

\* notified() is created only now: a notification sent before it is lost.
Register(r) ==
    /\ waiter[r] = "register"
    /\ WaiterAt(r, "parked")
    /\ UNCHANGED <<rate, tokens, queue, handler, permit, left, wait, active, refilled, spilled>>

\* With refill, acquire gives itself the time in which a token would refill.
PlanWait(r) ==
    /\ waiter[r] = "plan" /\ rate > 0
    /\ wait' = [wait EXCEPT ![r] = CeilDiv(Max0(Unit, tokens), rate)]
    /\ WaiterAt(r, "polling")
    /\ UNCHANGED <<rate, tokens, queue, handler, permit, left, active, refilled, spilled>>

\* A timeout polls the waiting future before it looks at the clock, so a task
\* gives up only while it is suspended.
Expired(r) ==
    \/ waiter[r] \in {"parked", "polling"} /\ left[r] = 0
    \/ waiter[r] = "polling" /\ wait[r] = 0

\* Variant: a task that times out sends no answer.
GiveUpSilently(r) ==
    /\ Expired(r)
    /\ WaiterAt(r, "over")
    /\ UNCHANGED <<rate, tokens, queue, handler, permit, left, wait, active, refilled, spilled>>

\* acquire_timeout: the queue timeout, or acquire's own deadline, has passed.
GiveUp(r) ==
    /\ Expired(r)
    /\ Send(r, "timeout")
    /\ WaiterAt(r, "over")
    /\ UNCHANGED <<rate, tokens, queue, handler, left, wait, active, refilled, spilled>>

-----------------------------------------------------------------------------
Refill(n) == AtMost(n + rate, Full)

Tick ==
    /\ tokens' = Refill(tokens)
    /\ refilled' = refilled + Refill(tokens) - tokens
    /\ left' = [r \in Requests |-> IF waiter[r] \in {"none", "over"} THEN left[r]
                                   ELSE Max0(left[r], 1)]
    /\ wait' = [r \in Requests |-> Max0(wait[r], 1)]
    /\ UNCHANGED <<rate, queue, handler, waiter, permit, active, spilled>>

Serve(r) == Grant(r) \/ FailTry(r) \/ Register(r) \/ PlanWait(r) \/ GiveUp(r)

Next ==
    \/ Tick
    \/ Dequeue
    \/ \E r \in Requests :
         \/ Admit(r) \/ Enqueue(r) \/ Reject(r) \/ ReceivePermit(r)
         \/ Respond(r) \/ EndStream(r) \/ Cancel(r)
         \/ Serve(r)

Spec == Init /\ [][Next]_vars

(* The processor and the spawned tasks are scheduled by the runtime and the*)
(* clock advances.  Handlers and streams need not end.                     *)
Fairness ==
    /\ WF_vars(Tick) /\ WF_vars(Dequeue)
    /\ \A r \in Requests : WF_vars(Serve(r)) /\ WF_vars(ReceivePermit(r))

FairSpec == Spec /\ Fairness

-----------------------------------------------------------------------------
\* Requests whose future runs, or whose body still streams.
InUse == {r \in Requests : handler[r] \in {"running", "streaming"}}

\* Requests a token was taken for and not returned: those in use, those whose
\* permit is under way, and those dropped with their token.
Held == InUse
        \union {r \in Requests : handler[r] = "lost"}
        \union {r \in Requests : permit[r] = "ok" /\ handler[r] \in {"awaiting", "gone"}}

\* Every variable holds a value the code can produce.
TypeOK ==
    /\ rate \in Rates
    /\ tokens \in 0..Full
    /\ queue \in Seq(Requests)
    /\ handler \in [Requests -> HandlerStates]
    /\ waiter \in [Requests -> WaiterStates]
    /\ permit \in [Requests -> {"none", "ok", "timeout", "taken"}]
    /\ left \in [Requests -> Nat]
    /\ wait \in [Requests -> Nat]
    /\ refilled \in Nat
    /\ spilled \in Nat

(* No token is made, taken twice or lost unseen: across the three ways in, *)
(* time-outs, wake-ups and disconnections, what was taken and not returned *)
(* is with a request, or was with one whose future was dropped.            *)
TokensAccounted == tokens + Unit * Cardinality(Held) + spilled = Full + refilled

(* "0 for pure concurrency limiting" (token_bucket.rs:37): without refill  *)
(* no more than Capacity requests are handled or streamed at once.         *)
MaxConcurrent == rate = 0 => Cardinality(InUse) <= Capacity

(* A queued request is always answered: with a permit or with a time-out,  *)
(* even if no token ever comes back.                                       *)
QueuedIsAnswered == \A r \in Requests : handler[r] = "awaiting" ~> handler[r] # "awaiting"
=============================================================================
