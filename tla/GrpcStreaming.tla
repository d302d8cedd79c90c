---------------------------- MODULE GrpcStreaming ----------------------------
(***************************************************************************)
(* Streamed answers of the gRPC routers (routers/grpc/regular/streaming.rs *)
(* and harmony/streaming.rs).  A task reads the backend stream, or first   *)
(* the prefill and then the decode stream, and sends events through an     *)
(* unbounded channel to the response body, which owns the load guards.     *)
(* When the client leaves, the body and the guards go at once; the task    *)
(* finds out at its next send.                                             *)
(*                                                                         *)
(* An event of a choice is known by its kind: the opening chunk, which has *)
(* the role and nothing else, content, reasoning, a call's name or         *)
(* arguments, a finish reason.  (The regular router's content chunks all   *)
(* repeat the role, Harmony's do not.)  What the decoder and the parsers   *)
(* make of a piece of text is any of the things they can make.             *)
(***************************************************************************)
EXTENDS GrpcPipeline, FiniteSetsExt

CONSTANTS MaxTokens, MaxHarmonyTokens   \* tokens of a choice, bounds of the model

Finishes == {"stop", "length", "tool_calls"}

ASSUME StreamingAssumption == MaxTokens \in Nat /\ MaxHarmonyTokens \in Nat /\ None \notin Finishes

VARIABLES
    client,   \* per streamed request: "here" or "left"
    choice,   \* per request and choice: the task's state and what the backend made
    view,     \* history, per request and choice: what the client has been sent
    tail,     \* history, per request: error, usage and [DONE] events
    talk      \* per harmony request: the parser's state, and what was streamed of it

stream == <<client, choice, view, tail, talk>>
vars == <<worker, router, handler, wire, stream>>

ChoicesOf(r) == 0..(input[r].n - 1)

FreshChoice == [first |-> TRUE, held |-> FALSE, called |-> FALSE, count |-> 0, finish |-> None,
                made |-> 0, over |-> FALSE]
FreshView == [openings |-> 0, early |-> FALSE, late |-> FALSE, called |-> FALSE, finishes |-> 0,
              finish |-> None]
FreshTail == [errors |-> 0, dones |-> 0, usage |-> None]
FreshTalk == [st |-> NothingStreamed, calls |-> <<>>, analysis |-> 0, final |-> 0, single |-> TRUE]

Init ==
    /\ PipelineInit
    /\ client = [r \in Requests |-> "here"]
    /\ choice = [r \in Requests |-> [c \in ChoicesOf(r) |-> FreshChoice]]
    /\ view = [r \in Requests |-> [c \in ChoicesOf(r) |-> FreshView]]
    /\ tail = [r \in Requests |-> FreshTail]
    /\ talk = [r \in Requests |-> FreshTalk]

-----------------------------------------------------------------------------
(* The task's sends, and its end *)

\* The client's view of a choice after events.
Seen(v, events) ==
    LET places(kinds) == {i \in DOMAIN events : events[i] \in kinds}
        after(i, kinds) == \E j \in 1..(i - 1) : events[j] \in kinds IN
    [openings |-> v.openings + Cardinality(places({"opening"})),
     early |-> v.early \/ \E i \in DOMAIN events : /\ events[i] \notin Finishes \cup {"opening"}
                                                   /\ v.openings = 0 /\ ~after(i, {"opening"}),
     late |-> v.late \/ \E i \in DOMAIN events : v.finishes > 0 \/ after(i, Finishes),
     called |-> v.called \/ \E i \in DOMAIN events : events[i] = "name",
     finishes |-> v.finishes + Cardinality(places(Finishes)),
     finish |-> IF places(Finishes) = {} THEN v.finish ELSE events[Max(places(Finishes))]]

\* The parsers go with the task.
EndOfTask(r) == pc' = Put(pc, r, IF client[r] = "left" THEN "gone" ELSE "ended")

\* The task has an error: both streams are dropped, the error and [DONE] are sent.
TaskFails(r) ==
    /\ EndOfTask(r)
    /\ DropStreams(r)
    /\ tail' = IF client[r] = "left" THEN tail
               ELSE [tail EXCEPT ![r].errors = @ + 1, ![r].dones = @ + 1]
    /\ talk' = Put(talk, r, FreshTalk)
    /\ UNCHANGED <<worker, router, attempt, picked, guards, status, client, choice, view>>

\* The task stores ch as the state of choice c and sends events, if the client is there.
Sends(r, c, ch, events) ==
    IF client[r] = "left" /\ events # <<>> THEN TaskFails(r)
    ELSE /\ choice' = [choice EXCEPT ![r][c] = ch]
         /\ view' = IF client[r] = "left" THEN view
                    ELSE [view EXCEPT ![r][c] = Seen(@, events)]
         /\ UNCHANGED <<worker, router, handler, wire, client, tail, talk>>

Readable(r, e) == rpc[r][e].fate = "open" /\ rpc[r][e].read = "no"

-----------------------------------------------------------------------------
(* The start of the task *)

\* A response with a streamed body: 200.  In PD mode the prefill stream is read first, if
\* log probabilities were asked for; else it is never read.
StartChat(r) ==
    /\ pc[r] = "start" /\ input[r].kind \in {"chat", "harmony"}
    /\ pc' = Put(pc, r, IF pd /\ input[r].logprobs THEN "prefill" ELSE "stream")
    /\ status' = Put(status, r, "ok")
    /\ UNCHANGED <<worker, router, attempt, picked, guards, rpc, wire, stream>>

StartGenerate(r) ==
    /\ pc[r] = "start" /\ input[r].kind = "generate"
    /\ pc' = Put(pc, r, IF pd /\ input[r].logprobs THEN "prefill" ELSE "stream")
    /\ status' = Put(status, r, "ok")
    /\ UNCHANGED <<worker, router, attempt, picked, guards, rpc, wire, stream>>

\* The prefill stream is read up to its Complete message, or it ends.
ReadPrefill(r) ==
    /\ pc[r] = "prefill" /\ Readable(r, "prefill")
    /\ rpc' = [rpc EXCEPT ![r]["prefill"].read = "end"]
    /\ pc' = Put(pc, r, "stream")
    /\ UNCHANGED <<worker, router, attempt, picked, guards, status, wire, stream>>

\* A stream yields an error; Harmony: or tokens that cannot be parsed.
StreamBreaks(r) ==
    /\ pc[r] \in {"prefill", "stream"}
    /\ TaskFails(r)

-----------------------------------------------------------------------------
(* Chunks and completions of a chat stream *)

\* The reasoning parser's share of a text: none, or reasoning.
ReasoningEvents(ask) == IF ask.reasoning THEN {<<>>, <<"reasoning">>} ELSE {<<>>}

\* With one required function all text is its arguments, the first preceded by its name.
SpecificFunctionEvents(ch) == IF ch.called THEN {<<"args">>} ELSE {<<"name", "args">>}

\* The tool parser may keep the text, pass it on, or find a call; it loses it when it fails.
ToolCallEvents(ch) == {<<>>, <<"content">>, <<"name">>} \cup (IF ch.called THEN {<<"args">>} ELSE {})

\* The events that the parsers make of a text.  While the reasoning lasts what is left is
\* plain content, and the tool parser is not asked.
Parsed(ask, ch) ==
    LET tooled == CASE ask.tools = "none" -> {<<"content">>}
                    [] ask.tools = "specific" -> SpecificFunctionEvents(ch)
                    [] OTHER -> ToolCallEvents(ch)
        inReasoning == IF ask.reasoning THEN {<<>>, <<"content">>} ELSE {} IN
    {x \o y : x \in ReasoningEvents(ask), y \in tooled \cup inReasoning}

\* The first text of a choice is preceded by a chunk with the role alone.
WithOpening(ch, events) == IF ch.first THEN <<"opening">> \o events ELSE events

\* Variant: tokens are counted only if they made text.
ChatChunkCountingText(r, c, k, text, held) ==
    LET ch == choice[r][c]
        made == [ch EXCEPT !.made = @ + k, !.held = held] IN
    /\ pc[r] = "stream" /\ input[r].kind = "chat" /\ Readable(r, "out")
    /\ ~ch.over /\ ch.made + k <= MaxTokens
    /\ IF ~text THEN held /\ Sends(r, c, made, <<>>)
       ELSE \E events \in Parsed(input[r], ch) :
            Sends(r, c, [made EXCEPT !.first = FALSE, !.count = IF OnVllm(r) THEN @ + k ELSE @,
                         !.called = @ \/ \E i \in DOMAIN events : events[i] = "name"],
                  WithOpening(ch, events))

\* A chunk of k tokens.  vLLM's are counted as they come.  A text that may be the start
\* of a stop sequence is held back.
ChatChunk(r, c, k, text, held) ==
    LET ch == choice[r][c]
        made == [ch EXCEPT !.made = @ + k, !.count = IF OnVllm(r) THEN @ + k ELSE @, !.held = held] IN
    /\ pc[r] = "stream" /\ input[r].kind = "chat" /\ Readable(r, "out")
    /\ ~ch.over /\ ch.made + k <= MaxTokens
    /\ IF ~text THEN held /\ Sends(r, c, made, <<>>)
       ELSE \E events \in Parsed(input[r], ch) :
            Sends(r, c, [made EXCEPT !.first = FALSE,
                         !.called = @ \/ \E i \in DOMAIN events : events[i] = "name"],
                  WithOpening(ch, events))

\* A choice is complete.  Text that is still held goes out as content, past the parsers.
ChatComplete(r, c, reason) ==
    LET ch == choice[r][c] IN
    /\ pc[r] = "stream" /\ input[r].kind = "chat" /\ Readable(r, "out") /\ ~ch.over
    /\ Sends(r, c, [ch EXCEPT !.over = TRUE, !.held = FALSE, !.finish = reason,
                    !.count = IF OnVllm(r) THEN @ ELSE ch.made],
             IF ch.held THEN <<"content">> ELSE <<>>)

-----------------------------------------------------------------------------
(* A generate stream *)

\* Every chunk goes out with the text so far; its tokens are counted for both backends.
GenerateChunk(r, c) ==
    LET ch == choice[r][c] IN
    /\ pc[r] = "stream" /\ input[r].kind = "generate" /\ ~pd /\ Readable(r, "out")
    /\ ~ch.over /\ ch.made < MaxTokens
    /\ Sends(r, c, [ch EXCEPT !.made = @ + 1, !.count = @ + 1], <<"content">>)

GenerateComplete(r, c, reason) ==
    LET ch == choice[r][c] IN
    /\ pc[r] = "stream" /\ input[r].kind = "generate" /\ ~pd /\ Readable(r, "out") /\ ~ch.over
    /\ Sends(r, c, [ch EXCEPT !.over = TRUE, !.finish = reason], <<reason>>)

\* The same with the prefill's input log probabilities.
GenerateChunkPd(r, c) ==
    LET ch == choice[r][c] IN
    /\ pc[r] = "stream" /\ input[r].kind = "generate" /\ pd /\ Readable(r, "out")
    /\ ~ch.over /\ ch.made < MaxTokens
    /\ Sends(r, c, [ch EXCEPT !.made = @ + 1, !.count = @ + 1], <<"content">>)

GenerateCompletePd(r, c, reason) ==
    LET ch == choice[r][c] IN
    /\ pc[r] = "stream" /\ input[r].kind = "generate" /\ pd /\ Readable(r, "out") /\ ~ch.over
    /\ Sends(r, c, [ch EXCEPT !.over = TRUE, !.finish = reason], <<reason>>)

-----------------------------------------------------------------------------
(* A Harmony stream *)

StreamedCall(calls, d) ==
    LET old == IF d.index \in DOMAIN calls THEN calls[d.index] ELSE [name |-> None, args |-> 0] IN
    (d.index :> [name |-> IF d.name = None THEN old.name ELSE d.name, args |-> old.args + d.args]) @@ calls

\* What one chunk's delta is to the client.
DeltaEvent(d) == IF d.call # None /\ d.call.name # None THEN "name" ELSE "content"

\* emit_chunk_delta, if the parser has a delta.
HarmonyChunk(r, toks) ==
    LET ch == choice[r][0]
        parsed == ParseChunk(talk[r].st, toks)
        d == parsed.delta
        t == talk[r] IN
    /\ pc[r] = "stream" /\ input[r].kind = "harmony" /\ Readable(r, "out")
    /\ ~ch.over /\ ch.made + Len(toks) <= MaxHarmonyTokens
    /\ IF client[r] = "left" /\ d.any THEN TaskFails(r)
       ELSE /\ choice' = [choice EXCEPT ![r][0] = [ch EXCEPT !.made = @ + Len(toks), !.count = @ + 1,
                                                            !.first = @ /\ ~d.any]]
            /\ view' = IF ~d.any THEN view
                       ELSE [view EXCEPT ![r][0] = Seen(@, WithOpening(ch, <<DeltaEvent(d)>>))]
            /\ talk' = [talk EXCEPT ![r] =
                   [st |-> parsed.st,
                    calls |-> IF d.call = None THEN t.calls ELSE StreamedCall(t.calls, d.call),
                    analysis |-> t.analysis + d.analysis, final |-> t.final + d.final,
                    single |-> t.single /\ Len(toks) = 1]]
            /\ UNCHANGED <<worker, router, handler, wire, client, tail>>

\* emit_final_chunk, with the reason the parser makes of the backend's, if there was any
\* chunk.
FinalChunk(r, reason) ==
    IF choice[r][0].made = 0 THEN <<>> ELSE <<ParseComplete(talk[r].st.p, reason).finish>>

\* The backend's count replaces that of the chunks.
HarmonyComplete(r, reason) ==
    LET ch == choice[r][0] IN
    /\ pc[r] = "stream" /\ input[r].kind = "harmony" /\ Readable(r, "out") /\ ~ch.over
    /\ Sends(r, 0, [ch EXCEPT !.over = TRUE, !.count = ch.made, !.finish = reason],
             FinalChunk(r, reason))

\* Chunks of one or two tokens.
TokenChunks(p) ==
    {<<a>> : a \in Expected(p)} \cup
        UNION {{<<a, b>> : b \in Expected(Process(p, a))} : a \in Expected(p)}

-----------------------------------------------------------------------------
(* The end of a stream *)

\* mark_completed for the stream that was read, then for the prefill stream.
Marked(r) ==
    [rpc EXCEPT ![r]["out"] = [fate |-> "completed", read |-> "end"],
                ![r]["prefill"].fate = IF pd THEN "completed" ELSE @]

Added(counts) == MapThenSumSet(LAMBDA c : counts[c], DOMAIN counts)

Total(r) == Added([c \in ChoicesOf(r) |-> choice[r][c].count])

TaskEnds(r, views, usage) ==
    /\ EndOfTask(r)
    /\ rpc' = Marked(r)
    /\ view' = [view EXCEPT ![r] = views]
    /\ tail' = IF client[r] = "left" THEN tail
               ELSE [tail EXCEPT ![r].dones = @ + 1, ![r].usage = IF usage THEN Total(r) ELSE @]
    /\ talk' = Put(talk, r, FreshTalk)
    /\ UNCHANGED <<worker, router, attempt, picked, guards, status, wire, client, choice>>

\* The finish chunk of a choice: calls override "stop", and only that.
FinishReason(ch) == IF ch.called /\ ch.finish = "stop" THEN "tool_calls" ELSE ch.finish

\* get_unstreamed_tool_args: the choices whose tool parser may have arguments left.
Unstreamed(r) ==
    {c \in ChoicesOf(r) : choice[r][c].called /\ input[r].tools \notin {"none", "specific"}}

\* The backend stream is over, with or without a completion for every choice.  The
\* arguments that the tool parsers of the choices in rest still have go out, then a finish
\* chunk per completed choice, and the usage.
ChatEnds(r, usage, rest) ==
    LET finished == {c \in ChoicesOf(r) : choice[r][c].finish # None}
        flushed(c) == IF c \in rest THEN Seen(view[r][c], <<"args">>) ELSE view[r][c]
        ended(c) == IF c \in finished THEN Seen(flushed(c), <<FinishReason(choice[r][c])>>)
                    ELSE flushed(c) IN
    /\ pc[r] = "stream" /\ input[r].kind = "chat" /\ Readable(r, "out")
    /\ rest \subseteq Unstreamed(r)
    /\ IF client[r] = "left" /\ (finished # {} \/ rest # {} \/ usage) THEN TaskFails(r)
       ELSE TaskEnds(r, [c \in ChoicesOf(r) |-> IF client[r] = "here" THEN ended(c) ELSE view[r][c]], usage)

GenerateEnds(r) ==
    /\ pc[r] = "stream" /\ input[r].kind = "generate" /\ Readable(r, "out")
    /\ TaskEnds(r, view[r], FALSE)

HarmonyEnds(r, usage) ==
    /\ pc[r] = "stream" /\ input[r].kind = "harmony" /\ Readable(r, "out")
    /\ IF client[r] = "left" /\ usage THEN TaskFails(r) ELSE TaskEnds(r, view[r], usage)

-----------------------------------------------------------------------------
(* The body *)

\* The client has been sent everything: AttachedBody is dropped.
CloseBody(r) ==
    /\ pc[r] = "ended"
    /\ pc' = Put(pc, r, "done")
    /\ DropGuards(r)
    /\ UNCHANGED <<healthy, checks, breaker, router, attempt, picked, rpc, status, wire, stream>>

\* The client leaves a stream.  The task does not notice yet.
LeaveStream(r) ==
    /\ pc[r] \in {"prefill", "stream", "ended"} /\ client[r] = "here"
    /\ client' = Put(client, r, "left")
    /\ pc' = IF pc[r] = "ended" THEN Put(pc, r, "gone") ELSE pc
    /\ DropGuards(r)
    /\ UNCHANGED <<healthy, checks, breaker, router, attempt, picked, rpc, status, wire,
                   choice, view, tail, talk>>

-----------------------------------------------------------------------------
(* The routers *)

Preparing(r) == PrepareChat(r) \/ PrepareGenerate(r) \/ PrepareEmbedding(r) \/ PrepareHarmony(r)
Selecting(r) == SelectSingle(r) \/ SelectPair(r) \/ AcquireClients(r)
Building(r) == BuildChat(r) \/ BuildGenerate(r) \/ BuildEmbedding(r) \/ BuildHarmony(r)
Executing(r) ==
    \/ \E ok \in BOOLEAN : ExecuteSingle(r, ok)
    \/ \E p, d \in BOOLEAN : ExecuteDual(r, p, d)
    \/ \E ok \in BOOLEAN : ExecuteEmbed(r, ok)
Answering(r) ==
    \/ \E e \in Ends, how \in {"complete", "empty", "error"} : Collect(r, e, how)
    \/ \E s \in {"ok", "retry"} : ProcessChat(r, s) \/ ProcessGenerate(r, s) \/ ProcessHarmony(r, s)
                                     \/ ProcessClassify(r, s)
    \/ ProcessEmbedding(r)
    \/ Again(r)

Pipeline(r) ==
    (Preparing(r) \/ Selecting(r) \/ Building(r) \/ Executing(r) \/ Answering(r)) /\ UNCHANGED stream

Starting(r) == StartChat(r) \/ StartGenerate(r) \/ ReadPrefill(r) \/ StreamBreaks(r)
Chatting(r) ==
    \E c \in ChoicesOf(r) :
        \/ \E k \in {1, 2}, text, held \in BOOLEAN : ChatChunk(r, c, k, text, held)
        \/ \E reason \in {"stop", "length"} : ChatComplete(r, c, reason)
Generating(r) ==
    \E c \in ChoicesOf(r) :
        \/ GenerateChunk(r, c) \/ GenerateChunkPd(r, c)
        \/ \E reason \in {"stop", "length"} : GenerateComplete(r, c, reason) \/ GenerateCompletePd(r, c, reason)
Harmonizing(r) ==
    \/ \E toks \in TokenChunks(talk[r].st.p) : HarmonyChunk(r, toks)
    \/ \E reason \in {"stop", "length"} : HarmonyComplete(r, reason)
Ending(r) ==
    \/ \E usage \in BOOLEAN : HarmonyEnds(r, usage) \/ \E rest \in SUBSET ChoicesOf(r) : ChatEnds(r, usage, rest)
    \/ GenerateEnds(r)
Task(r) == Starting(r) \/ Chatting(r) \/ Generating(r) \/ Harmonizing(r) \/ Ending(r)

TimeOut(w) == CoolDown(w) /\ UNCHANGED <<router, handler, wire, stream>>

Next ==
    \/ \E r \in Requests : Pipeline(r) \/ Task(r) \/ CloseBody(r) \/ LeaveStream(r)
                             \/ (Leave(r) /\ UNCHANGED stream)
    \/ \E a \in aborts : AbortArrives(a) /\ UNCHANGED stream
    \/ \E w \in Workers : TimeOut(w)

\* Handlers and tasks are polled, calls and streams of the backend yield something, and a
\* client that stays reads its body to the end.  Aborts may never arrive.
Spec == Init /\ [][Next]_vars
             /\ \A r \in Requests : WF_vars(Pipeline(r)) /\ WF_vars(Task(r)) /\ WF_vars(CloseBody(r))

-----------------------------------------------------------------------------
(* Properties *)

\* A worker's load is the number of attempts whose guards are alive, in the context of a
\* handler or in the body of a stream: through stages that fail, pairs of which one fails,
\* retries, and clients that leave before or during a stream (LoadGuards, AttachedBody).
GuardsExact ==
    \A w \in Workers :
        load[w] = Cardinality({r \in Requests : guards[r] # "none" /\ \E i \in DOMAIN picked[r] : picked[r][i] = w})

\* A backend stream is marked completed only when the output was read to its end, and the
\* prefill stream of a pair is completed if and only if the decode stream is: an attempt
\* that breaks off or whose client leaves aborts both ("BOTH streams send abort").
SettledAlike ==
    \A r \in Requests :
        (\E e \in Ends : rpc[r][e].fate = "completed") =>
            /\ rpc[r]["out"].read = "end" /\ tail[r].errors = 0
            /\ \A e \in Ends : rpc[r][e].fate \in {"completed", "none"}

\* What a client is sent of a choice: the opening chunk at most once and before everything
\* else (or never, if all text was held back until the completion), at most one finish chunk,
\* after which nothing comes, and "tool_calls" in it if and only if calls were streamed and
\* the model stopped by itself.  [DONE] comes once; without an error before it every
\* completed choice has its finish chunk, and the usage is the number of tokens made.
StreamGrammar ==
    \A r \in Requests : input[r].stream =>
        /\ tail[r].dones <= 1 /\ tail[r].errors <= 1
        /\ pc[r] = "done" /\ status[r] = "ok" => tail[r].dones = 1
        /\ \A c \in ChoicesOf(r) :
            LET v == view[r][c]
                ch == choice[r][c] IN
            /\ v.openings <= 1 /\ v.finishes <= 1 /\ ~v.late
            /\ input[r].kind # "generate" => (v.early => v.openings = 0)
            /\ input[r].kind = "chat" /\ v.finishes = 1 =>
                   (v.finish = "tool_calls") = (v.called /\ ch.finish = "stop")
            /\ tail[r].dones = 1 /\ tail[r].errors = 0 =>
                   v.finishes = (IF ch.over /\ (input[r].kind = "harmony" => ch.made > 0) THEN 1 ELSE 0)
        /\ tail[r].usage # None /\ (\A c \in ChoicesOf(r) : choice[r][c].over) =>
               tail[r].usage = Added([c \in ChoicesOf(r) |-> choice[r][c].made])

\* The messages a Harmony request's stream has been fed, the one being read included.
Fed(r) == LET p == talk[r].st.p IN IF p.cur = None THEN p.msgs ELSE Append(p.msgs, p.cur)

\* The Harmony deltas add up to what parse_messages makes of the whole answer: every call
\* with its name, index and arguments, and the final text, provided that chunks hold one
\* token each, calls use the commentary channel and no function is called twice in a row.
HarmonyStreamed ==
    \A r \in Requests :
        LET called == SelectSeq(Fed(r), IsCall)
            ref == ParseMessages(Fed(r)) IN
        /\ talk[r].single
        /\ \A i \in DOMAIN called : called[i].ch = "commentary"
        /\ \A i \in DOMAIN called : i > 1 => called[i].to # called[i - 1].to
        => /\ talk[r].final = ref.final
           /\ DOMAIN talk[r].calls = 0..(Len(called) - 1)
           /\ \A i \in DOMAIN called : talk[r].calls[i - 1] = ref.calls[i]

\* An abort that a dropped stream sends, however late, never ends the stream of a later
\* attempt, unless the client chose the id of its generate request itself.
AbortsHitOwn == ~struck

\* Streams are settled by what happened to them, whenever the news of it arrives.
StreamsSettleRight == SettledAlike /\ AbortsHitOwn

\* Every request ends, and its streams are all completed or aborted and its load given
\* back, also when the client leaves: the task notices at its next send.
AllSettle ==
    \A r \in Requests :
        <>(/\ pc[r] \in {"done", "gone"} /\ guards[r] = "none"
           /\ \A e \in Ends : rpc[r][e].fate # "open")
=============================================================================
