------------------------------ MODULE PdRouter ------------------------------
(***************************************************************************)
(* A request in the prefill/decode router (routers/http/pd_router.rs): a   *)
(* pair of workers is chosen, both get the request at once, and what each  *)
(* of them did is reported to its own breaker, partly by the dispatcher,   *)
(* partly by the retry closure, partly by the task that forwards a decode  *)
(* stream.  That task is detached: it can outlive the attempt and the      *)
(* request.                                                                *)
(*                                                                         *)
(* Statuses are classes of HTTP statuses that the code treats alike:       *)
(* bad_request 400 and 404, too_many 408 and 429, unprocessable any other  *)
(* 4xx, unavailable 500, 502, 503 and 504, not_implemented any other.      *)
(***************************************************************************)
EXTENDS Worker, Retry, Sequences

CONSTANTS
    Requests,
    Prefills, Decodes,   \* the workers by type
    None

VARIABLES
    pc,       \* per request: where its handler is
    stream,   \* requests that asked for a stream
    attempt,  \* per request: index of the attempt
    pair,     \* per request: the workers of the attempt
    early,    \* per request: decode's reply, if it came before prefill's
    answer,   \* per request: status of decode's reply, then of the response
    task,     \* per call: the task that forwards decode's stream
    told,     \* history, per call: outcomes reported to either worker's breaker
    deed      \* history, per call: what either worker did

handler == <<pc, stream, attempt, pair, early, answer>>
history == <<told, deed>>
vars == <<worker, handler, task, history>>

ClientFault == {"bad_request", "unprocessable", "too_many"}
Statuses == ClientFault \cup {"ok", "unavailable", "not_implemented"}
Replies == Statuses \cup {"transport"}
Retryable == {"too_many", "unavailable"}
\* handle_decode_error_response and process_prefill_response keep five statuses and turn
\* every other into a 500.
Shaped(s) == IF s \in {"bad_request", "unavailable"} THEN s ELSE "unavailable"
\* not_error: a 4xx is no fault of the worker.
Verdict(reply) == IF reply \in ClientFault \cup {"ok"} THEN "ok" ELSE "bad"

\* A call is an attempt of a request; the bound leaves room for one too many.
Calls == Requests \X (0..MaxRetries)
Call(r) == <<r, attempt[r]>>
Places == {"new", "pick_decode", "picked", "sent", "prefill_error", "decode", "decode_error",
           "prefill_body", "body", "streaming", "backoff", "done", "gone"}
Both(p, d) == [prefill |-> p, decode |-> d]
Task(d, state, synthetic, terminal) ==
    [decode |-> d, state |-> state, synthetic |-> synthetic, terminal |-> terminal]

Init ==
    /\ WorkerInit
    /\ pc = [r \in Requests |-> "new"]
    /\ stream \in SUBSET Requests
    /\ attempt = [r \in Requests |-> 0]
    /\ pair = [r \in Requests |-> Both(None, None)]
    /\ early = [r \in Requests |-> None]
    /\ answer = [r \in Requests |-> None]
    /\ task = [c \in Calls |-> None]
    /\ told = [c \in Calls |-> Both(<<>>, <<>>)]
    /\ deed = [c \in Calls |-> Both(None, None)]

-----------------------------------------------------------------------------
(* Breakers and loads of a pair *)

Set(f, r, v) == [f EXCEPT ![r] = v]
Hear(b, outcome) == IF outcome = None THEN b ELSE Outcome(b, outcome = "ok")
Note(seq, outcome) == IF outcome = None THEN seq ELSE Append(seq, outcome)

\* The workers of the call hear p and d; None is no report.
Tell(c, ws, p, d) ==
    /\ breaker' = [w \in Workers |-> Hear(breaker[w], CASE w = ws.prefill -> p
                                                        [] w = ws.decode -> d
                                                        [] OTHER -> None)]
    /\ told' = [told EXCEPT ![c] = Both(Note(@.prefill, p), Note(@.decode, d))]

Did(r, p, d) == deed' = Set(deed, Call(r), Both(p, d))

Load(r) == load' = [w \in Workers |-> IF w \in {pair[r].prefill, pair[r].decode}
                                      THEN load[w] + 1 ELSE load[w]]
Unload(r) == load' = [w \in Workers |-> IF w \in {pair[r].prefill, pair[r].decode} /\ load[w] > 0
                                        THEN load[w] - 1 ELSE load[w]]

\* Load guards are alive: those of the handler's future for an answer in one piece, those
\* attached to the body for a stream.
Holds(r) ==
    IF r \in stream THEN pc[r] \in {"streaming", "backoff"} /\ task[Call(r)] # None
    ELSE pc[r] \in {"sent", "prefill_error", "decode", "decode_error", "prefill_body", "body"}

\* The guards of the handler's future go with its return.
Return(r, s) ==
    /\ answer' = Set(answer, r, s)
    /\ pc' = Set(pc, r, AfterAttempt(attempt[r], s \in Retryable, "done"))
    /\ IF Holds(r) THEN Unload(r) ELSE UNCHANGED load

-----------------------------------------------------------------------------
(* select_pd_pair, one worker after the other.  The filter and the policy's own look at  *)
(* the workers are one step: what a second look finds is what a later single one finds. *)

PickPrefill(r) ==
    /\ pc[r] = "new"
    /\ breaker' = Polled(breaker, Prefills)
    /\ IF Available(Prefills) = {} THEN Return(r, "unavailable") /\ UNCHANGED pair
       ELSE /\ \E w \in Available(Prefills) : pair' = Set(pair, r, Both(w, None))
            /\ pc' = Set(pc, r, "pick_decode")
            /\ UNCHANGED <<answer, load>>
    /\ UNCHANGED <<healthy, checks, stream, attempt, early, task, history>>

PickDecode(r) ==
    /\ pc[r] = "pick_decode"
    /\ breaker' = Polled(breaker, Decodes)
    /\ IF Available(Decodes) = {} THEN Return(r, "unavailable") /\ UNCHANGED pair
       ELSE /\ \E w \in Available(Decodes) : pair' = [pair EXCEPT ![r].decode = w]
            /\ pc' = Set(pc, r, "picked")
            /\ UNCHANGED <<answer, load>>
    /\ UNCHANGED <<healthy, checks, stream, attempt, early, task, history>>

-----------------------------------------------------------------------------
(* execute_dual_dispatch_internal and the closure around it *)

\* The request cannot be serialized or given a bootstrap room: 500, nobody is blamed.
Unserializable(r) ==
    /\ pc[r] = "picked"
    /\ Return(r, "unavailable")
    /\ UNCHANGED <<healthy, checks, breaker, stream, attempt, pair, early, task, history>>

\* prepare_pd_worker_requests fails: 500, and the closure blames the workers for a request
\* that neither has seen.
PrepareFails(r) ==
    /\ pc[r] = "picked"
    /\ Tell(Call(r), pair[r], "bad", IF r \in stream THEN None ELSE "bad")
    /\ Did(r, "unsent", "unsent")
    /\ Return(r, "unavailable")
    /\ UNCHANGED <<healthy, checks, stream, attempt, pair, early, task>>

Dispatch(r) ==
    /\ pc[r] = "picked"
    /\ pc' = Set(pc, r, "sent")
    /\ IF r \in stream THEN UNCHANGED load ELSE Load(r)
    /\ UNCHANGED <<healthy, checks, breaker, stream, attempt, pair, early, answer, task, history>>

\* select!: decode's reply comes first and is kept.
DecodeEarly(r, reply) ==
    /\ pc[r] = "sent" /\ early[r] = None
    /\ early' = Set(early, r, reply)
    /\ UNCHANGED <<worker, pc, stream, attempt, pair, answer, task, history>>

PrefillPasses(r) ==
    /\ pc[r] = "sent"
    /\ Did(r, "ok", None)
    /\ pc' = Set(pc, r, "decode")
    /\ UNCHANGED <<worker, stream, attempt, pair, early, answer, task, told>>

\* A failure of decode's that came before prefill's goes with it.
Overlooked(reply) == IF reply # None /\ Verdict(reply) = "bad" THEN "dropped" ELSE None

\* Prefill is reported by its own status; the decode request is dropped, or its reply is,
\* and decode is not reported.  The body of prefill's error is read next.
PrefillFails(r, reply) ==
    /\ pc[r] = "sent"
    /\ Did(r, Verdict(reply), Overlooked(early[r]))
    /\ Tell(Call(r), pair[r], Verdict(reply), None)
    /\ answer' = Set(answer, r, reply)
    /\ early' = Set(early, r, None)
    /\ pc' = Set(pc, r, "prefill_error")
    /\ UNCHANGED <<healthy, checks, load, stream, attempt, pair, task>>

\* Variant: the response is not marked with BreakerOutcomesRecorded.
PrefillErrorReadUnmarked(r) ==
    LET s == Shaped(answer[r]) IN
    /\ pc[r] = "prefill_error"
    /\ Tell(Call(r), pair[r], Verdict(s), IF r \in stream THEN None ELSE Verdict(s))
    /\ Return(r, s)
    /\ UNCHANGED <<healthy, checks, stream, attempt, pair, early, task, deed>>

PrefillErrorRead(r) ==
    /\ pc[r] = "prefill_error"
    /\ Return(r, Shaped(answer[r]))
    /\ UNCHANGED <<healthy, checks, breaker, stream, attempt, pair, early, task, history>>

\* Prefill passed and decode's reply is there, from before or just now.
DecodeReplies(r, reply) ==
    /\ pc[r] = "decode" /\ early[r] \in {None, reply}
    /\ IF reply = "ok"
       THEN /\ pc' = Set(pc, r, "prefill_body")
            /\ answer' = Set(answer, r, "ok")
            /\ UNCHANGED <<breaker, load, history>>
       ELSE /\ Did(r, "ok", Verdict(reply))
            /\ Tell(Call(r), pair[r], "ok",
                    IF r \in stream /\ reply # "transport" THEN None ELSE Verdict(reply))
            /\ IF reply = "transport" THEN Return(r, "unavailable")
               ELSE /\ pc' = Set(pc, r, "decode_error")
                    /\ answer' = Set(answer, r, reply)
                    /\ UNCHANGED load
    /\ early' = Set(early, r, None)
    /\ UNCHANGED <<healthy, checks, stream, attempt, pair, task>>

-----------------------------------------------------------------------------
(* create_streaming_response and its task *)

\* The task starts, the guards are attached to the body and the retry loop gets the
\* response.  A synthetic stream is one chunk that tells the client of decode's error.
Forward(r, s, synthetic) ==
    /\ task' = Set(task, Call(r), Task(pair[r].decode, "running", synthetic,
                                       IF Verdict(s) = "bad" THEN "Errored" ELSE "Active"))
    /\ Load(r)
    /\ pc' = Set(pc, r, AfterAttempt(attempt[r], s \in Retryable, "streaming"))

\* Decode's error body was read.
DecodeErrorRead(r) ==
    /\ pc[r] = "decode_error"
    /\ IF r \in stream THEN Forward(r, answer[r], TRUE) /\ UNCHANGED answer
       ELSE Return(r, Shaped(answer[r])) /\ UNCHANGED task
    /\ UNCHANGED <<healthy, checks, breaker, stream, attempt, pair, early, history>>

\* Prefill's body was read, or not: that is not looked at.  A stream is forwarded and the
\* closure reports prefill; decode is reported by the task.
PrefillBodyRead(r) ==
    /\ pc[r] = "prefill_body"
    /\ IF r \in stream
       THEN Forward(r, "ok", FALSE) /\ Tell(Call(r), pair[r], "ok", None)
       ELSE pc' = Set(pc, r, "body") /\ UNCHANGED <<task, load, breaker, told>>
    /\ UNCHANGED <<healthy, checks, stream, attempt, pair, early, answer, deed>>

\* Decode's body was read in full, or a 500 takes its place; the closure reports both
\* workers by the status of the response.
Body(r, readable) ==
    LET s == IF readable THEN "ok" ELSE "unavailable" IN
    /\ pc[r] = "body"
    /\ Did(r, "ok", Verdict(s))
    /\ Tell(Call(r), pair[r], Verdict(s), Verdict(s))
    /\ Return(r, s)
    /\ UNCHANGED <<healthy, checks, stream, attempt, pair, early, task>>

\* What the drop of the tracked stream reports.
DropReports(terminal) == CASE terminal = "Completed" -> "ok"
                           [] terminal = "Errored" -> "bad"
                           [] OTHER -> None

\* The task's loop ends and drops the tracked stream.
EndTask(c, terminal) ==
    /\ task' = Set(task, c, Task(task[c].decode, "over", task[c].synthetic, terminal))
    /\ Tell(c, Both(None, task[c].decode), None, DropReports(terminal))

Running(c) == task[c] # None /\ task[c].state = "running"

\* The stream ends, with [DONE] or without, or yields an error.
StreamEnds(c, clean) ==
    /\ Running(c)
    /\ clean \/ ~task[c].synthetic
    /\ EndTask(c, IF clean /\ task[c].terminal = "Active" THEN "Completed" ELSE "Errored")
    /\ deed' = IF clean /\ ~task[c].synthetic THEN [deed EXCEPT ![c].decode = "ok"]
               ELSE IF clean THEN deed ELSE [deed EXCEPT ![c].decode = "bad"]
    /\ UNCHANGED <<healthy, checks, load, handler>>

\* The body that holds the receiver is gone.
ReceiverDropped(c) == attempt[c[1]] > c[2] \/ pc[c[1]] \in {"done", "gone"}

\* Variant: only a failed send of the next chunk tells the task.
CancelTaskOnSend(c) ==
    /\ Running(c) /\ ReceiverDropped(c) /\ task[c].synthetic
    /\ EndTask(c, task[c].terminal)
    /\ UNCHANGED <<healthy, checks, load, handler, deed>>

\* tx.closed(), or the send of a chunk fails.
CancelTask(c) ==
    /\ Running(c) /\ ReceiverDropped(c)
    /\ EndTask(c, task[c].terminal)
    /\ UNCHANGED <<healthy, checks, load, handler, deed>>

-----------------------------------------------------------------------------
(* The end of a response *)

\* Variant: the guards are not attached to the body.
FinishLeaking(r) ==
    /\ pc[r] = "streaming" /\ ~Running(Call(r))
    /\ pc' = Set(pc, r, "done")
    /\ UNCHANGED <<worker, stream, attempt, pair, early, answer, task, history>>

\* The sender is gone, so the body ends and is dropped.
Finish(r) ==
    /\ pc[r] = "streaming" /\ ~Running(Call(r))
    /\ Unload(r)
    /\ pc' = Set(pc, r, "done")
    /\ UNCHANGED <<healthy, checks, breaker, stream, attempt, pair, early, answer, task, history>>

\* The backoff is over; the response lived until now.
Wake(r) ==
    /\ pc[r] = "backoff"
    /\ IF Holds(r) THEN Unload(r) ELSE UNCHANGED load
    /\ pc' = Set(pc, r, "new")
    /\ attempt' = [attempt EXCEPT ![r] = @ + 1]
    /\ UNCHANGED <<healthy, checks, breaker, stream, pair, early, answer, task, history>>

Disconnect(r) ==
    /\ pc[r] \notin {"done", "gone"}
    /\ IF Holds(r) THEN Unload(r) ELSE UNCHANGED load
    /\ pc' = Set(pc, r, "gone")
    /\ early' = Set(early, r, None)
    /\ UNCHANGED <<healthy, checks, breaker, stream, attempt, pair, answer, task, history>>

-----------------------------------------------------------------------------
Selecting(r) == PickPrefill(r) \/ PickDecode(r)
Preparing(r) == Unserializable(r) \/ PrepareFails(r) \/ Dispatch(r)
Prefilling(r) ==
    \/ PrefillPasses(r)
    \/ \E reply \in Replies \ {"ok"} : PrefillFails(r, reply)
Decoding(r) == \E reply \in Replies : DecodeEarly(r, reply) \/ DecodeReplies(r, reply)
Reading(r) == PrefillErrorRead(r) \/ DecodeErrorRead(r) \/ PrefillBodyRead(r)
              \/ (\E readable \in BOOLEAN : Body(r, readable))
Streaming(c) == CancelTask(c) \/ (\E clean \in BOOLEAN : StreamEnds(c, clean))
TimeOut(w) == CoolDown(w) /\ UNCHANGED <<handler, task, history>>
Probe(w) == (CheckPasses(w) \/ CheckFails(w)) /\ UNCHANGED <<handler, task, history>>

Next ==
    \/ \E r \in Requests : \/ Selecting(r) \/ Preparing(r) \/ Prefilling(r) \/ Decoding(r)
                           \/ Reading(r) \/ Finish(r) \/ Wake(r) \/ Disconnect(r)
    \/ \E c \in Calls : Streaming(c)
    \/ \E w \in Workers : TimeOut(w) \/ Probe(w)

\* The runtime polls a task whose receiver is gone.  Nothing is assumed of the workers.
Spec == Init /\ [][Next]_vars /\ \A c \in Calls : WF_vars(CancelTask(c))

-----------------------------------------------------------------------------
(* Properties *)

\* Both workers of a pair count a request exactly as long as it is held: an answer in one
\* piece from the dispatch to the answer, a stream from decode's headers until the body is
\* dropped, also through a backoff and after the task is over.
LoadExact ==
    \A w \in Workers :
        load[w] = Cardinality({r \in Requests :
                      Holds(r) /\ w \in {pair[r].prefill, pair[r].decode}})

\* The handler is done with the call, and the client did not leave during it.
Answered(c) == attempt[c[1]] > c[2]
               \/ (attempt[c[1]] = c[2] /\ pc[c[1]] \in {"streaming", "backoff", "done"})

\* Of three places that report, no two report the same worker for the same call, and no
\* failure is lost between them: what failed is heard once the call and its task are over.
\* A failure of decode's is dropped only where the call is charged to prefill, and to no
\* other.
HeardOnce ==
    \A c \in Calls :
        /\ Len(told[c].prefill) <= 1 /\ Len(told[c].decode) <= 1
        /\ Answered(c) /\ deed[c].prefill = "bad" => told[c].prefill = <<"bad">>
        /\ Answered(c) /\ deed[c].decode = "bad" /\ ~Running(c) => told[c].decode = <<"bad">>
        /\ deed[c].decode = "dropped" => Len(told[c].prefill) = 1 /\ told[c].decode = <<>>

\* Decode's breaker hears of a failure only if decode failed (or nothing could be sent):
\* "a prefill error storm can't trip healthy decode breakers".
DecodeInnocent ==
    \A c \in Calls : told[c].decode = <<"bad">> => deed[c].decode \in {"bad", "unsent"}

\* Who is blamed for a call: each worker once, for what it failed, and decode for nothing else.
BlameExact == HeardOnce /\ DecodeInnocent

\* The same for prefill: it is reported by what it did, "not on the decode-driven failure".
PrefillInnocent ==
    \A c \in Calls : told[c].prefill = <<"bad">> => deed[c].prefill \in {"bad", "unsent"}
=============================================================================
