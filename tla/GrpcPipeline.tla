---------------------------- MODULE GrpcPipeline ----------------------------
(***************************************************************************)
(* A request in the gRPC routers (routers/grpc): the stages of its         *)
(* pipeline up to the streams its workers answer with, the retry loop      *)
(* around them, and the collection of an answer that is not streamed.      *)
(* GrpcStreaming continues with streamed answers.                          *)
(*                                                                         *)
(* A stage either passes the request on or answers it: "retry" is a status *)
(* that is_retryable_status accepts (500, 503), "final" another error.     *)
(* Texts, tokens and templates are left out: a step over them succeeds or  *)
(* fails in the ways its code can fail.  A generate stream (external crate *)
(* smg_grpc_client) that is dropped before it was marked completed sends   *)
(* an abort for its request id to its worker, at some later time.          *)
(***************************************************************************)
EXTENDS Worker, Retry, HarmonyParser

CONSTANTS
    Requests,
    Prefills,     \* in PD mode these workers are prefill workers, the others decode
    Scenarios     \* router, backends, and what the requests ask for

Kinds == {"chat", "harmony", "generate", "embed", "classify"}

\* What a request may ask for; rid: a generate request that names its own id, n: choices,
\* reasoning, tools: how a chat stream is parsed; kind None: there is no such request.
Asks == [kind : Kinds \cup {None}, stream : BOOLEAN, logprobs : BOOLEAN, rid : BOOLEAN, n : {1, 2},
         reasoning : BOOLEAN, tools : {"none", "auto", "specific"}]

ASSUME PipelineAssumption ==
    /\ IsFiniteSet(Requests)
    /\ Prefills \subseteq Workers
    /\ None \notin Workers \cup Kinds
    /\ Scenarios \subseteq [pd : BOOLEAN, vllm : SUBSET Workers, input : [Requests -> Asks]]
    /\ \A x \in Scenarios : x.pd => \A r \in Requests : x.input[r].kind \in {"chat", "generate", None}
    /\ \A x \in Scenarios : \A r \in Requests :   \* is_streaming
           x.input[r].stream => x.input[r].kind \in {"chat", "harmony", "generate"}

VARIABLES
    pd,        \* the router is the PD router
    vllm,      \* workers that run vLLM
    input,     \* per request: kind, stream, logprobs, rid, n, reasoning, tools
    pc,        \* per request: where its handler, or the task of its stream, is
    attempt,   \* per request: index of the attempt
    picked,    \* per request: workers of the attempt; prefill first
    guards,    \* per request: what owns the attempt's load guards
    rpc,       \* per request: the attempt's backend streams
    status,    \* per request: status of the response
    aborts,    \* aborts on their way: worker and request id
    struck     \* history: an abort ended the stream of a later attempt with a gateway-made id

router == <<pd, vllm, input>>
handler == <<pc, attempt, picked, guards, rpc, status>>
wire == <<aborts, struck>>

Ends == {"prefill", "out"}   \* "out": the only stream, or the decode stream

\* ProtoStream: opened or not, how far it was read, and how it was settled.
NoStream == [fate |-> "none", read |-> "no"]
OpenStream == [fate |-> "open", read |-> "no"]

\* RequestContext: a context is made for every attempt.
PipelineInit ==
    /\ WorkerInit
    /\ \E x \in Scenarios : pd = x.pd /\ vllm = x.vllm /\ input = x.input
    /\ pc = [r \in Requests |-> IF input[r].kind = None THEN "done" ELSE "new"]
    /\ attempt = [r \in Requests |-> 0]
    /\ picked = [r \in Requests |-> <<>>]
    /\ guards = [r \in Requests |-> "none"]
    /\ rpc = [r \in Requests |-> [e \in Ends |-> NoStream]]
    /\ status = [r \in Requests |-> None]
    /\ aborts = {} /\ struck = FALSE

-----------------------------------------------------------------------------
(* What the end of an attempt drops *)

Put(f, r, v) == [f EXCEPT ![r] = v]

\* The id a worker knows the attempt by: a generate request's rid is the client's, and
\* every attempt uses it; any other id is made anew by the request building stage.
RequestId(r) == IF input[r].rid THEN <<r, 0>> ELSE <<r, attempt[r]>>

WorkerOf(r, e) == IF e = "prefill" THEN Head(picked[r]) ELSE Last(picked[r])

\* ProtoStream is dropped: what is open is aborted.
Dropped(streams) == [e \in Ends |-> IF streams[e].fate = "open"
                                    THEN [streams[e] EXCEPT !.fate = "aborted"] ELSE streams[e]]
AbortsOf(r, streams) == {<<WorkerOf(r, e), RequestId(r)>> : e \in {x \in Ends : streams[x].fate = "open"}}

DropStreams(r) ==
    /\ rpc' = Put(rpc, r, Dropped(rpc[r]))
    /\ aborts' = aborts \cup AbortsOf(r, rpc[r])
    /\ UNCHANGED struck

\* WorkerLoadGuard, one per worker of the attempt.
Loaded(l, ws) == [w \in Workers |-> l[w] + Cardinality({i \in DOMAIN ws : ws[i] = w})]
Unloaded(l, ws) == [w \in Workers |-> l[w] - Cardinality({i \in DOMAIN ws : ws[i] = w})]

DropGuards(r) ==
    /\ load' = IF guards[r] = "none" THEN load ELSE Unloaded(load, picked[r])
    /\ guards' = Put(guards, r, "none")

-----------------------------------------------------------------------------
(* The routes: what becomes of the response s of a pipeline *)

\* Chat: the pipeline of the Harmony model or the regular one is run anew for every attempt.
RouteChat(r, s) == AfterAttempt(attempt[r], s = "retry", "done")
RouteGenerate(r, s) == AfterAttempt(attempt[r], s = "retry", "done")
RouteChatPd(r, s) == AfterAttempt(attempt[r], s = "retry", "done")
RouteGeneratePd(r, s) == AfterAttempt(attempt[r], s = "retry", "done")

\* Embeddings and classifications are not retried.
RouteEmbeddings(r, s) == "done"
RouteClassify(r, s) == "done"

\* The loop over the stages returns s; the context is dropped, and the guards with it.
Returns(r, s, next) ==
    /\ status' = Put(status, r, s)
    /\ pc' = Put(pc, r, next)
    /\ DropGuards(r)
    /\ UNCHANGED <<attempt, picked>>

ExecuteChat(r, s) ==
    input[r].kind \in {"chat", "harmony"} /\ Returns(r, s, IF pd THEN RouteChatPd(r, s) ELSE RouteChat(r, s))
ExecuteGenerate(r, s) ==
    input[r].kind = "generate" /\ Returns(r, s, IF pd THEN RouteGeneratePd(r, s) ELSE RouteGenerate(r, s))
ExecuteEmbeddings(r, s) == input[r].kind = "embed" /\ Returns(r, s, RouteEmbeddings(r, s))
ExecuteClassify(r, s) == input[r].kind = "classify" /\ Returns(r, s, RouteClassify(r, s))

Answer(r, s) == ExecuteChat(r, s) \/ ExecuteGenerate(r, s) \/ ExecuteEmbeddings(r, s) \/ ExecuteClassify(r, s)

\* Answer, while the streams of the attempt are gone or not yet opened.
AnswerBare(r, s) == Answer(r, s) /\ UNCHANGED <<rpc, wire>>

\* A stage answers, for one of the reasons it has.
Refuses(r, at, failures) ==
    /\ pc[r] = at
    /\ \E s \in failures : AnswerBare(r, s)
    /\ UNCHANGED <<healthy, checks, breaker, router>>

-----------------------------------------------------------------------------
(* Preparation, per kind of request: the ways it fails.  If it does not, it leaves nothing  *)
(* but the prepared request, and worker selection follows.                                  *)

\* What the helpers fail with: no tokenizer for the model, messages the template cannot
\* render, tools that cannot be turned into a constraint.
ResolveTokenizer == {"retry"}
ProcessChatMessages == {"final"}
GenerateToolConstraints == {"final"}
HarmonyToolConstraint == {"retry", "final"}

\* A text that cannot be tokenized is a 500 here, and a 400 for the other kinds.
PrepareChat(r) ==
    /\ input[r].kind = "chat"
    /\ Refuses(r, "new", ResolveTokenizer \cup ProcessChatMessages \cup {"retry"} \cup GenerateToolConstraints)

\* A 400 unless there is one text, or one list of input_ids, to send.
PrepareGenerate(r) == input[r].kind = "generate" /\ Refuses(r, "new", ResolveTokenizer \cup {"final"})

\* Empty text is a 400.
PrepareEmbedding(r) ==
    input[r].kind \in {"embed", "classify"} /\ Refuses(r, "new", {"final"} \cup ResolveTokenizer)

\* Logprobs are refused before anything else; messages the builder cannot encode are a 400.
PrepareHarmony(r) ==
    /\ input[r].kind = "harmony"
    /\ Refuses(r, "new", IF input[r].logprobs THEN {"final"} ELSE HarmonyToolConstraint \cup {"final"})

CanBePrepared(r) == input[r].kind = "harmony" => ~input[r].logprobs

-----------------------------------------------------------------------------
(* Worker selection and clients *)

\* select_single_worker.  (HttpRouter splits the filter from the policy's own look.)
SelectSingle(r) ==
    /\ pc[r] = "new" /\ ~pd /\ CanBePrepared(r)
    /\ breaker' = Polled(breaker, Workers)
    /\ IF Available(Workers) = {}
       THEN AnswerBare(r, "retry")
       ELSE /\ \E w \in Available(Workers) : picked' = Put(picked, r, <<w>>)
            /\ pc' = Put(pc, r, "acquire")
            /\ UNCHANGED <<load, attempt, guards, rpc, status, wire>>
    /\ UNCHANGED <<healthy, checks, router>>

\* select_pd_pair: one of each, or none.
SelectPair(r) ==
    /\ pc[r] = "new" /\ pd
    /\ breaker' = Polled(breaker, Workers)
    /\ LET ps == Available(Prefills)
           ds == Available(Workers \ Prefills) IN
       IF ps = {} \/ ds = {}
       THEN AnswerBare(r, "retry")
       ELSE /\ \E p \in ps, d \in ds : picked' = Put(picked, r, <<p, d>>)
            /\ pc' = Put(pc, r, "acquire")
            /\ UNCHANGED <<load, attempt, guards, rpc, status, wire>>
    /\ UNCHANGED <<healthy, checks, router>>

OnVllm(r) == \E i \in DOMAIN picked[r] : picked[r][i] \in vllm

\* A client cannot be had: 500, of which the breaker hears nothing.  vLLM cannot do PD.
AcquireClients(r) ==
    \/ /\ pc[r] = "acquire" /\ ~(pd /\ OnVllm(r))
       /\ pc' = Put(pc, r, "build")
       /\ UNCHANGED <<worker, router, attempt, picked, guards, rpc, status, wire>>
    \/ Refuses(r, "acquire", IF pd /\ OnVllm(r) THEN {"retry", "final"} ELSE {"retry"})

-----------------------------------------------------------------------------
(* Request building, per kind, and dispatch *)

\* The request is built and execution begins: the load guards are made, then the calls.
Dispatch(r) ==
    /\ pc[r] = "build"
    /\ load' = Loaded(load, picked[r])
    /\ guards' = Put(guards, r, "context")
    /\ pc' = Put(pc, r, "calling")
    /\ UNCHANGED <<healthy, checks, breaker, router, attempt, picked, rpc, status, wire>>

BuildChat(r) == input[r].kind = "chat" /\ (Dispatch(r) \/ Refuses(r, "build", {"final"}))
BuildGenerate(r) == input[r].kind = "generate" /\ (Dispatch(r) \/ Refuses(r, "build", {"final"}))

\* A vLLM client is taken for an SGLang one: the handler panics and its connection ends.
BuildEmbedding(r) ==
    /\ input[r].kind \in {"embed", "classify"}
    /\ IF OnVllm(r)
       THEN /\ pc[r] = "build" /\ pc' = Put(pc, r, "gone")
            /\ UNCHANGED <<worker, router, attempt, picked, guards, rpc, status, wire>>
       ELSE Dispatch(r)

\* Harmony is not available on vLLM: 501.
BuildHarmony(r) ==
    /\ input[r].kind = "harmony"
    /\ (Dispatch(r) /\ ~OnVllm(r)) \/ Refuses(r, "build", {"final"})

-----------------------------------------------------------------------------
(* Execution *)

Heard(b, w, ok) == [b EXCEPT ![w] = Outcome(@, ok)]

Embeds(r) == input[r].kind \in {"embed", "classify"}

\* Variant: the guards stay in the context, which is dropped with the response's future.
HandOverKeeping(r) ==
    /\ IF input[r].stream
       THEN pc' = Put(pc, r, "start") /\ guards' = Put(guards, r, "none")
       ELSE pc' = Put(pc, r, "collect") /\ UNCHANGED guards
    /\ UNCHANGED <<load, attempt, picked, status>>

\* Response processing: collection, or the task of a stream, and the guards in its body.
HandOver(r) ==
    /\ IF input[r].stream
       THEN pc' = Put(pc, r, "start") /\ guards' = Put(guards, r, "body")
       ELSE pc' = Put(pc, r, "collect") /\ UNCHANGED guards
    /\ UNCHANGED <<load, attempt, picked, status>>

ChatProceeds(r) == input[r].kind = "chat" /\ HandOver(r)
GenerateProceeds(r) == input[r].kind = "generate" /\ HandOver(r)
HarmonyProceeds(r) == input[r].kind = "harmony" /\ HandOver(r)
Proceed(r) == ChatProceeds(r) \/ GenerateProceeds(r) \/ HarmonyProceeds(r)

\* execute_single: the breaker hears whether the stream could be opened, and no more.
ExecuteSingle(r, ok) ==
    /\ pc[r] = "calling" /\ ~pd /\ ~Embeds(r)
    /\ breaker' = Heard(breaker, Last(picked[r]), ok)
    /\ IF ok THEN Proceed(r) /\ rpc' = [rpc EXCEPT ![r]["out"] = OpenStream] /\ UNCHANGED wire
             ELSE AnswerBare(r, "retry")
    /\ UNCHANGED <<healthy, checks, router>>

\* execute_dual_dispatch: both answers are awaited and heard; a stream whose partner
\* could not be opened is dropped.
ExecuteDual(r, p, d) ==
    LET opened == [e \in Ends |-> IF (IF e = "prefill" THEN p ELSE d) THEN OpenStream ELSE NoStream] IN
    /\ pc[r] = "calling" /\ pd
    /\ breaker' = Heard(Heard(breaker, picked[r][1], p), picked[r][2], d)
    /\ IF p /\ d THEN Proceed(r) /\ rpc' = Put(rpc, r, opened) /\ UNCHANGED wire
       ELSE /\ Answer(r, "retry")
            /\ rpc' = Put(rpc, r, Dropped(opened))
            /\ aborts' = aborts \cup AbortsOf(r, opened) /\ UNCHANGED struck
    /\ UNCHANGED <<healthy, checks, router>>

\* execute_single_embed: an answer, or a 500.  The breaker hears nothing.
ExecuteEmbed(r, ok) ==
    /\ pc[r] = "calling" /\ Embeds(r)
    /\ IF ok THEN pc' = Put(pc, r, "process") /\ UNCHANGED <<load, attempt, picked, guards, rpc, status, wire>>
             ELSE AnswerBare(r, "retry")
    /\ UNCHANGED <<healthy, checks, breaker, router>>

-----------------------------------------------------------------------------
(* An answer that is not streamed *)

\* Variant: a stream is marked completed when it has been collected.
CollectMarking(r, e, how) ==
    /\ pc[r] = (IF pd /\ e = "out" THEN "collectout" ELSE "collect") /\ (e = "prefill" => pd)
    /\ (~pd => e = "out") /\ (rpc[r][e].read = "broken" => how = "error")
    /\ LET read == [rpc[r] EXCEPT ![e] = [fate |-> "completed", read |-> "end"]] IN
       CASE how = "error" -> Answer(r, "retry") /\ DropStreams(r)
         [] how # "error" /\ e = "prefill" ->
                /\ pc' = Put(pc, r, "collectout") /\ rpc' = Put(rpc, r, read)
                /\ UNCHANGED <<load, attempt, picked, guards, status, wire>>
         [] how = "empty" /\ e = "out" ->
                Answer(r, "retry") /\ rpc' = Put(rpc, r, read) /\ UNCHANGED wire
         [] OTHER ->
                /\ pc' = Put(pc, r, "process") /\ rpc' = Put(rpc, r, read)
                /\ UNCHANGED <<load, attempt, picked, guards, status, wire>>
    /\ UNCHANGED <<healthy, checks, breaker, router>>

\* collect_stream_responses reads a stream to its end, or to an error, which drops both.
\* Prefill comes first; both are marked completed when both are read, and then an answer
\* without a single completion is a 500.
Collect(r, e, how) ==
    /\ pc[r] = (IF pd /\ e = "out" THEN "collectout" ELSE "collect") /\ (e = "prefill" => pd)
    /\ (~pd => e = "out") /\ (rpc[r][e].read = "broken" => how = "error")
    /\ LET read == [rpc[r] EXCEPT ![e].read = "end"]
           both == [x \in Ends |-> IF read[x].fate = "open" THEN [read[x] EXCEPT !.fate = "completed"]
                                   ELSE read[x]] IN
       CASE how = "error" -> Answer(r, "retry") /\ DropStreams(r)
         [] how # "error" /\ e = "prefill" ->
                /\ pc' = Put(pc, r, "collectout") /\ rpc' = Put(rpc, r, read)
                /\ UNCHANGED <<load, attempt, picked, guards, status, wire>>
         [] how = "empty" /\ e = "out" ->
                Answer(r, "retry") /\ rpc' = Put(rpc, r, both) /\ UNCHANGED wire
         [] OTHER ->
                /\ pc' = Put(pc, r, "process") /\ rpc' = Put(rpc, r, both)
                /\ UNCHANGED <<load, attempt, picked, guards, status, wire>>
    /\ UNCHANGED <<healthy, checks, breaker, router>>

\* A choice fails if its tokens cannot be decoded or its reasoning cannot be parsed, and
\* its answer with it; a tool parser's error only leaves the text as it is.
ProcessChat(r, s) ==
    /\ pc[r] = "process" /\ input[r].kind = "chat"
    /\ AnswerBare(r, s)
    /\ UNCHANGED <<healthy, checks, breaker, router>>

ProcessGenerate(r, s) ==
    /\ pc[r] = "process" /\ input[r].kind = "generate"
    /\ AnswerBare(r, s)
    /\ UNCHANGED <<healthy, checks, breaker, router>>

ProcessHarmony(r, s) ==
    /\ pc[r] = "process" /\ input[r].kind = "harmony"
    /\ AnswerBare(r, s)
    /\ UNCHANGED <<healthy, checks, breaker, router>>

ProcessEmbedding(r) ==
    /\ pc[r] = "process" /\ input[r].kind = "embed"
    /\ AnswerBare(r, "ok")
    /\ UNCHANGED <<healthy, checks, breaker, router>>

\* An answer without logits is a 500.
ProcessClassify(r, s) ==
    /\ pc[r] = "process" /\ input[r].kind = "classify"
    /\ AnswerBare(r, s)
    /\ UNCHANGED <<healthy, checks, breaker, router>>

-----------------------------------------------------------------------------
(* Retry, and what happens around a handler *)

\* Variant: the attempt is not counted.
AgainUncounted(r) ==
    /\ pc[r] = "backoff"
    /\ pc' = Put(pc, r, "new")
    /\ picked' = Put(picked, r, <<>>)
    /\ rpc' = Put(rpc, r, [e \in Ends |-> NoStream])
    /\ status' = Put(status, r, None)
    /\ UNCHANGED <<worker, router, attempt, guards, wire>>

\* The backoff is over; the next attempt starts with a fresh context.
Again(r) ==
    /\ pc[r] = "backoff"
    /\ pc' = Put(pc, r, "new")
    /\ attempt' = [attempt EXCEPT ![r] = @ + 1]
    /\ picked' = Put(picked, r, <<>>)
    /\ rpc' = Put(rpc, r, [e \in Ends |-> NoStream])
    /\ status' = Put(status, r, None)
    /\ UNCHANGED <<worker, router, guards, wire>>

InHandler == {"new", "acquire", "build", "calling", "collect", "collectout",
              "process", "backoff"}

\* The client leaves before it has a response: the handler's future is dropped.
Leave(r) ==
    /\ pc[r] \in InHandler
    /\ pc' = Put(pc, r, "gone")
    /\ DropGuards(r) /\ DropStreams(r)
    /\ UNCHANGED <<healthy, checks, breaker, router, attempt, picked, status>>

\* An abort arrives.  A stream that goes by the same id at that worker breaks; the router
\* reads an error from it.
AbortArrives(a) ==
    LET hit == {x \in Requests \X Ends : /\ rpc[x[1]][x[2]].fate = "open" /\ rpc[x[1]][x[2]].read = "no"
                                         /\ WorkerOf(x[1], x[2]) = a[1] /\ RequestId(x[1]) = a[2]} IN
    /\ a \in aborts
    /\ aborts' = aborts \ {a}
    /\ rpc' = [r \in Requests |-> [e \in Ends |-> IF <<r, e>> \in hit
                                                  THEN [rpc[r][e] EXCEPT !.read = "broken"]
                                                  ELSE rpc[r][e]]]
    /\ struck' = (struck \/ \E x \in hit : ~input[x[1]].rid)
    /\ UNCHANGED <<worker, router, pc, attempt, picked, guards, status>>
=============================================================================
