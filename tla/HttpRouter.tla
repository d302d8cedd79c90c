----------------------------- MODULE HttpRouter -----------------------------
(***************************************************************************)
(* A typed request in the regular HTTP router (routers/http/router.rs):    *)
(* selection of a worker, one attempt, retries with backoff                *)
(* (core/retry.rs), the load guard, and the tracked stream that reports    *)
(* the worker's outcome to its breaker when it is dropped                  *)
(* (routers/streaming_utils.rs).                                           *)
(*                                                                         *)
(* A response is known by what the code tells apart: "ok" is 2xx, "retry"  *)
(* a status is_retryable_status accepts, "final" any other.  The policy's  *)
(* choice is any of the workers it may choose from.  A client may go away  *)
(* at every await.  The policy is one that takes a load guard.             *)
(***************************************************************************)
EXTENDS Worker, Retry, Sequences

CONSTANTS
    Requests,
    DpAware,      \* dp_aware: a request names the data-parallel rank of its worker
    None

ASSUME RouterAssumption ==
    /\ IsFiniteSet(Requests) /\ DpAware \in BOOLEAN
    /\ None \notin Workers \cup {"ok", "bad", "unsent", "dropped", "Active", "Completed", "Errored"}

VARIABLES
    pc,        \* per request: where its handler is
    stream,    \* requests that asked for a stream
    attempt,   \* per request: index of the attempt
    seen,      \* per request: workers found available, for the policy to choose from
    chosen,    \* per request: worker of the attempt
    status,    \* per request: status of the attempt's response
    terminal,  \* per request: terminal state of its tracked stream, None if it has none
    told,      \* history, per request: outcomes the attempt reported to the breaker
    fate,      \* history, per request: what the worker did with the attempt
    streak     \* history, per worker: attempts in a row that it failed

handler == <<pc, stream, attempt, seen, chosen, status, terminal>>
history == <<told, fate, streak>>
vars == <<worker, handler, history>>

Statuses == {"ok", "retry", "final"}
Terminals == {"Active", "Completed", "Errored"}
Places == {"new", "select", "prepare", "sent", "body", "streaming", "ended", "backoff",
           "done", "gone"}

Init ==
    /\ WorkerInit
    /\ pc = [r \in Requests |-> "new"]
    /\ stream \in SUBSET Requests
    /\ attempt = [r \in Requests |-> 0]
    /\ seen = [r \in Requests |-> {}]
    /\ chosen = [r \in Requests |-> None]
    /\ status = [r \in Requests |-> None]
    /\ terminal = [r \in Requests |-> None]
    /\ told = [r \in Requests |-> <<>>]
    /\ fate = [r \in Requests |-> None]
    /\ streak = [w \in Workers |-> 0]

-----------------------------------------------------------------------------
(* What an attempt reports and how it is judged *)

Set(f, r, v) == [f EXCEPT ![r] = v]

\* The worker's breaker hears the outcome, if there is one to report.
Report(r, outcome) ==
    /\ breaker' = IF outcome = None THEN breaker
                  ELSE [breaker EXCEPT ![chosen[r]] = Outcome(@, outcome = "ok")]
    /\ told' = IF outcome = None THEN told ELSE [told EXCEPT ![r] = Append(@, outcome)]

\* History: the attempt is over, and this is what the worker did with it.
Judge(r, deed) ==
    streak' = IF deed = None THEN streak
              ELSE [streak EXCEPT ![chosen[r]] = IF deed = "ok" THEN 0
                                                 ELSE UpTo(@ + 1, FailureThreshold)]

Unload(r) == load' = [load EXCEPT ![chosen[r]] = IF @ > 0 THEN @ - 1 ELSE 0]

\* execute_response_with_retry gets the response of an attempt that left no body to hold.
Conclude(r, s) ==
    /\ status' = Set(status, r, s)
    /\ pc' = Set(pc, r, AfterAttempt(attempt[r], s = "retry", "done"))

\* The tracked stream and the guard behind it are dropped.
DropReports(r) == CASE terminal[r] = "Completed" -> "ok"
                    [] terminal[r] = "Errored" -> "bad"
                    [] OTHER -> None

-----------------------------------------------------------------------------
(* Selection *)

\* select_worker_for_model asks every worker whether it is available.
Filter(r) ==
    /\ pc[r] = "new"
    /\ breaker' = Polled(breaker, Workers)
    /\ IF Available(Workers) = {}
       THEN Conclude(r, "retry") /\ UNCHANGED seen
       ELSE /\ pc' = Set(pc, r, "select")
            /\ seen' = Set(seen, r, Available(Workers))
            /\ UNCHANGED status
    /\ UNCHANGED <<healthy, checks, load, stream, attempt, chosen, terminal, history>>

\* The policy looks at the workers it was given once more, later; some of them may have
\* become unavailable.  The guard counts the request as load of the chosen worker.
Pick(r) ==
    /\ pc[r] = "select"
    /\ breaker' = Polled(breaker, seen[r])
    /\ IF Available(seen[r]) = {}
       THEN Conclude(r, "retry") /\ UNCHANGED <<load, chosen, told, fate>>
       ELSE \E w \in Available(seen[r]) :
            /\ chosen' = Set(chosen, r, w)
            /\ load' = [load EXCEPT ![w] = @ + 1]
            /\ pc' = Set(pc, r, "prepare")
            /\ told' = Set(told, r, <<>>) /\ fate' = Set(fate, r, None)
            /\ UNCHANGED status
    /\ seen' = Set(seen, r, {})
    /\ UNCHANGED <<healthy, checks, stream, attempt, terminal, streak>>

-----------------------------------------------------------------------------
(* One attempt: send_typed_request and its caller *)

\* The rank cannot be read from the url (500) or put into the body (400).  The caller
\* reports a failure unless the client asked for a stream, though nothing was sent.
PrepareFails(r) ==
    /\ DpAware /\ pc[r] = "prepare"
    /\ Report(r, IF r \in stream THEN None ELSE "bad")
    /\ Unload(r)
    /\ fate' = Set(fate, r, "unsent")
    /\ \E s \in {"retry", "final"} : Conclude(r, s)
    /\ UNCHANGED <<healthy, checks, stream, attempt, seen, chosen, terminal, streak>>

Send(r) ==
    /\ pc[r] = "prepare"
    /\ pc' = Set(pc, r, "sent")
    /\ UNCHANGED <<worker, stream, attempt, seen, chosen, status, terminal, history>>

\* Variant: only the caller reports a failed send, so that a stream's is never reported.
SendFailsInCaller(r) ==
    /\ pc[r] = "sent"
    /\ Report(r, IF r \in stream THEN None ELSE "bad")
    /\ fate' = Set(fate, r, "bad") /\ Judge(r, "bad")
    /\ Unload(r)
    /\ Conclude(r, "retry")
    /\ UNCHANGED <<healthy, checks, stream, attempt, seen, chosen, terminal>>

\* send() fails or the client's timeout ends it; convert_reqwest_error answers 500 or 504.
SendFails(r) ==
    /\ pc[r] = "sent"
    /\ Report(r, "bad")
    /\ fate' = Set(fate, r, "bad") /\ Judge(r, "bad")
    /\ Unload(r)
    /\ Conclude(r, "retry")
    /\ UNCHANGED <<healthy, checks, stream, attempt, seen, chosen, terminal>>

\* The response headers arrive.  A stream's body is wrapped, pre-marked when the status is
\* not 2xx; it goes to the client, or stays with the retry loop during the backoff.
Headers(r, s) ==
    /\ pc[r] = "sent"
    /\ status' = Set(status, r, s)
    /\ IF r \in stream
       THEN /\ terminal' = Set(terminal, r, IF s = "ok" THEN "Active" ELSE "Errored")
            /\ fate' = IF s = "ok" THEN fate ELSE Set(fate, r, "bad")
            /\ pc' = Set(pc, r, AfterAttempt(attempt[r], s = "retry", "streaming"))
       ELSE pc' = Set(pc, r, "body") /\ UNCHANGED <<terminal, fate>>
    /\ UNCHANGED <<worker, stream, attempt, seen, chosen, told, streak>>

\* The body of an answer that is not streamed: read in full, or a 500 in its place.
Body(r, readable) ==
    LET s == IF readable THEN status[r] ELSE "retry"
        deed == IF s = "ok" THEN "ok" ELSE "bad" IN
    /\ pc[r] = "body"
    /\ Report(r, deed)
    /\ fate' = Set(fate, r, deed) /\ Judge(r, deed)
    /\ Unload(r)
    /\ Conclude(r, s)
    /\ UNCHANGED <<healthy, checks, stream, attempt, seen, chosen, terminal>>

\* The tracked stream yields None or an error; Errored absorbs a clean end.
EndStream(r, clean) ==
    /\ pc[r] = "streaming"
    /\ terminal' = IF clean /\ terminal[r] = "Active" THEN Set(terminal, r, "Completed")
                   ELSE IF clean THEN terminal ELSE Set(terminal, r, "Errored")
    /\ fate' = IF clean /\ fate[r] # "bad" THEN Set(fate, r, "ok") ELSE Set(fate, r, "bad")
    /\ pc' = Set(pc, r, "ended")
    /\ UNCHANGED <<worker, stream, attempt, seen, chosen, status, told, streak>>

\* The server drops the body it has written.
Close(r) ==
    /\ pc[r] = "ended"
    /\ Report(r, DropReports(r)) /\ Judge(r, fate[r])
    /\ Unload(r)
    /\ terminal' = Set(terminal, r, None)
    /\ pc' = Set(pc, r, "done")
    /\ UNCHANGED <<healthy, checks, stream, attempt, seen, chosen, status, fate>>

-----------------------------------------------------------------------------
(* Retry and disconnection *)

\* A load guard is alive: in the handler's future, or in a body that is held.
Holds(r) == pc[r] \in {"prepare", "sent", "body", "streaming", "ended"}
            \/ (pc[r] = "backoff" /\ terminal[r] # None)

\* What the drop of a future or of a body does.
Release(r) ==
    /\ Report(r, DropReports(r))
    /\ IF terminal[r] = None THEN UNCHANGED streak ELSE Judge(r, fate[r])
    /\ IF Holds(r) THEN Unload(r) ELSE UNCHANGED load

\* Variant: the attempt is not counted.
WakeUncounted(r) ==
    /\ pc[r] = "backoff"
    /\ Release(r)
    /\ pc' = Set(pc, r, "new")
    /\ terminal' = Set(terminal, r, None)
    /\ UNCHANGED <<healthy, checks, stream, attempt, seen, chosen, status, fate>>

\* The sleep is over.  The response lives until the end of the loop's body, so a stream
\* that is retried reports and gives back its load only now.
Wake(r) ==
    /\ pc[r] = "backoff"
    /\ Release(r)
    /\ pc' = Set(pc, r, "new")
    /\ attempt' = [attempt EXCEPT ![r] = @ + 1]
    /\ terminal' = Set(terminal, r, None)
    /\ UNCHANGED <<healthy, checks, stream, seen, chosen, status, fate>>

\* The client goes away: the server drops the handler's future or the body.
Disconnect(r) ==
    /\ pc[r] \notin {"done", "gone"}
    /\ Release(r)
    /\ pc' = Set(pc, r, "gone")
    /\ seen' = Set(seen, r, {})
    /\ terminal' = Set(terminal, r, None)
    /\ UNCHANGED <<healthy, checks, stream, attempt, chosen, status, fate>>

-----------------------------------------------------------------------------
(* The whole router *)

\* The health checker probes w.
Probe(w, result) ==
    /\ IF result = "pass" THEN CheckPasses(w) ELSE CheckFails(w)
    /\ UNCHANGED <<handler, history>>

TimeOut(w) == CoolDown(w) /\ UNCHANGED <<handler, history>>

Selecting(r) == Filter(r) \/ Pick(r)
Sending(r) == PrepareFails(r) \/ Send(r)
Receiving(r) == SendFails(r) \/ (\E s \in Statuses : Headers(r, s))
Reading(r) == (\E readable \in BOOLEAN : Body(r, readable))
              \/ (\E clean \in BOOLEAN : EndStream(r, clean))
Finishing(r) == Close(r) \/ Wake(r)
Handle(r) == Selecting(r) \/ Sending(r) \/ Receiving(r) \/ Reading(r) \/ Finishing(r)

Next ==
    \/ \E r \in Requests : Handle(r) \/ Disconnect(r)
    \/ \E w \in Workers : TimeOut(w) \/ \E result \in {"pass", "fail"} : Probe(w, result)

\* The runtime polls every future that can move, and the HTTP client's own timeout ends
\* a send or a body that hangs.  Nothing is assumed of clients, probes or the clock.
Spec == Init /\ [][Next]_vars /\ \A r \in Requests : WF_vars(Handle(r))

-----------------------------------------------------------------------------
(* Properties *)

\* A worker's load counter is the number of requests it holds: through retries, broken
\* streams, and clients that go away at any point, every guard counts once and is given
\* back once (WorkerLoadGuard, AttachedBody).
LoadExact ==
    \A w \in Workers : load[w] = Cardinality({r \in Requests : chosen[r] = w /\ Holds(r)})

\* The attempt is over: nothing of it is alive any more.
Settled(r) == pc[r] \in {"new", "done", "gone"} \/ (pc[r] = "backoff" /\ terminal[r] = None)

\* "Exactly once": when an attempt is over, the worker's breaker has heard once what the
\* worker did with it, whether the send, the status, the body or the stream failed, and
\* has heard nothing if the client left before that was known.
OutcomeOnce ==
    \A r \in Requests : Settled(r) =>
        CASE fate[r] = None -> told[r] = <<>>
          [] fate[r] = "unsent" -> Len(told[r]) <= 1
          [] OTHER -> told[r] = <<fate[r]>>

\* A worker that failed FailureThreshold attempts in a row, among them streams that broke
\* after a 200, does not have a closed circuit.
BrokenWorkersOpen ==
    \A w \in Workers : streak[w] >= FailureThreshold => breaker[w].state # "Closed"

\* What a worker's breaker hears is what the worker did: every attempt once, so that a run
\* of failures opens it.
BreakerHears == OutcomeOnce /\ BrokenWorkersOpen
=============================================================================
