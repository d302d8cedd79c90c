----------------------------- MODULE Responses -----------------------------
(***************************************************************************)
(* The Responses API of the gRPC routers: POST /v1/responses, regular and  *)
(* Harmony, streaming and not, with the MCP tool loops, the history a      *)
(* request is given and what of a response is stored.  Each request is one *)
(* task; a step is what it does between two awaits.  Stores, MCP servers   *)
(* and the pipeline are outside and may fail at every call.                *)
(***************************************************************************)
EXTENDS ResponseEmitter, FiniteSets, FiniteSetsExt, TLC

CONSTANTS Workloads,      \* which requests come, and what each asks for
          Outputs,        \* what the model may answer: sequences of chunks
          MaxIterations,  \* DEFAULT_MAX_ITERATIONS
          HistoryLimit,   \* MAX_CONVERSATION_HISTORY_ITEMS
          NoReq, NoLimit

VARIABLES q,            \* each request's task
          requested,    \* requested_servers of the regular router's one context
          connected,    \* servers the MCP manager holds a client of
          responses,    \* stored responses
          conversation  \* the conversation: whether it exists, its linked items

vars == <<q, requested, connected, responses, conversation>>

\* A half is a call of which the model ran out before its arguments ended.
Halves == {"half_mcp", "half_fn"}
Chunks == {"reasoning", "text", "mcp", "fn", "done"} \cup Halves

\* An answer ends with its finish reason, and a half with the answer.
ASSUME ResponsesAssumption ==
  /\ MaxIterations \in Nat \ {0}
  /\ \A a \in Outputs :
       /\ a \in Seq(Chunks) /\ a # <<>>
       /\ \A i \in DOMAIN a : (a[i] = "done" <=> i = Len(a)) /\ (a[i] \in Halves => i = Len(a) - 1)
  /\ \A w \in Workloads : \A r \in DOMAIN w :
       /\ {w[r].harmony, w[r].stream, w[r].conv, w[r].store} \subseteq BOOLEAN
       /\ w[r].max \in Nat \cup {NoLimit}

Fresh(b) ==
  [body |-> b, at |-> "new", input |-> <<>>, servers |-> {}, tools |-> {}, iter |-> 0,
   executed |-> 0, todo |-> <<>>, said |-> <<>>, pending |-> 0, results |-> <<>>,
   em |-> NewEmitter, tracked |-> <<>>, unfinished |-> {}, out |-> <<>>, cut |-> FALSE, gone |-> FALSE, answer |-> "none"]

Init ==
  /\ \E w \in Workloads : q = [r \in DOMAIN w |-> Fresh(w[r])]
  /\ requested = {} /\ connected = {}
  /\ responses = <<>>
  /\ conversation = [exists |-> TRUE, items |-> <<>>]

Reqs == DOMAIN q

Step(r, task) == q' = [q EXCEPT ![r] = task]

B(r) == q[r].body
Harmony(r) == B(r).harmony
Streams(r) == B(r).stream
InLoop(r) == B(r).servers # {}
RegSync(r) == ~Harmony(r) /\ ~Streams(r)
RegStream(r) == ~Harmony(r) /\ Streams(r)
HarSync(r) == Harmony(r) /\ ~Streams(r)
HarStream(r) == Harmony(r) /\ Streams(r)
Shared == <<requested, connected, responses, conversation>>

\* What ends a request: an HTTP error before the stream, an event in it.
Fail(r) ==
  Step(r, [q[r] EXCEPT !.at = "end", !.answer = "error",
           !.em = IF "created" \in @.sent THEN EmitError(@) ELSE @])

\* A stream's client has left: events that must be delivered abort the task.
Abort(r) == Step(r, [q[r] EXCEPT !.at = "end", !.answer = "dropped"])
-----------------------------------------------------------------------------
(* Entry: validation, history, MCP connections. *)

Refuse(r) ==
  /\ q[r].at = "new"
  /\ Fail(r)
  /\ UNCHANGED Shared

RouteResponses(r) ==
  /\ q[r].at = "new"
  /\ Step(r, [q[r] EXCEPT !.at = "load"])
  /\ UNCHANGED Shared

\* Stored items that parse as input again: MCP items do not.
Readable(items) == Keep(items, {i \in DOMAIN items : items[i] \notin {"mcp_list_tools", "mcp_call"}})

Chain(id) ==
  IF id \in DOMAIN responses
    THEN responses[id].input \o Readable(responses[id].output) ELSE <<>>

\* previous_response_id.  A chain that cannot be loaded is an error for Harmony,
\* a warning for the regular router.
HarmonyLoadChain(r) ==
  /\ q[r].at = "load" /\ Harmony(r)
  /\ \/ Step(r, [q[r] EXCEPT !.at = "connect", !.input = Chain(B(r).prev) \o <<"own">>])
     \/ B(r).prev # NoReq /\ Fail(r)
  /\ UNCHANGED Shared

RegularLoadChain(r) ==
  /\ q[r].at = "load" /\ ~Harmony(r)
  /\ \E past \in {Chain(B(r).prev), <<>>} :
       Step(r, [q[r] EXCEPT !.at = IF B(r).conv THEN "conversation" ELSE "connect", !.input = past \o <<"own">>])
  /\ UNCHANGED Shared

\* The oldest items of the conversation, messages only.
Past == Keep(conversation.items, {i \in DOMAIN conversation.items :
                                    i <= HistoryLimit /\ conversation.items[i] = "message"})

\* A conversation that is not there, or cannot be asked for, refuses the request; one
\* whose items cannot be loaded is taken to be empty.
LoadConversation(r) ==
  /\ q[r].at = "conversation"
  /\ \/ /\ conversation.exists
        /\ \E past \in {Past, <<>>} :
             Step(r, [q[r] EXCEPT !.at = "connect", !.input = Front(@) \o past \o <<"own">>])
     \/ Fail(r)
  /\ UNCHANGED Shared

\* Some of the request's servers answer.
Connections(r) == {up \in SUBSET B(r).servers : up # {} \/ ~InLoop(r)}

\* The keys of those replace what the context holds, the empty list of a request
\* without MCP tools included.
EnsureConnection(r) ==
  /\ q[r].at = "connect"
  /\ \E up \in Connections(r) :
       /\ Step(r, [q[r] EXCEPT !.at = IF InLoop(r) THEN "tools" ELSE "run", !.servers = up])
       /\ requested' = IF Harmony(r) THEN requested ELSE up
       /\ connected' = connected \cup up
  /\ UNCHANGED <<responses, conversation>>

EnsureConnectionFails(r) ==
  /\ q[r].at = "connect" /\ InLoop(r)
  /\ Fail(r)
  /\ UNCHANGED Shared

\* The regular router's one context holds what the last request put there; its
\* streaming loop lists every tool the manager knows.
RegularTools(r) == IF Streams(r) THEN connected ELSE requested

\* Harmony's context belongs to the request.
HarmonyTools(r) == q[r].servers

SyncTools(r) ==
  /\ q[r].at = "tools" /\ ~Streams(r)
  /\ Step(r, [q[r] EXCEPT !.at = "run", !.tools = IF Harmony(r) THEN HarmonyTools(r) ELSE RegularTools(r)])
  /\ UNCHANGED Shared

Listed(r) == WholeItem(Created(q[r].em), "mcp_list_tools")

RegularListTools(r) ==
  /\ q[r].at = "tools" /\ RegStream(r) /\ ~q[r].gone
  /\ Step(r, [q[r] EXCEPT !.at = "run", !.tools = RegularTools(r), !.em = Listed(r)])
  /\ UNCHANGED Shared

HarmonyListTools(r) ==
  /\ q[r].at = "tools" /\ HarStream(r) /\ ~q[r].gone
  /\ Step(r, [q[r] EXCEPT !.at = "run", !.tools = HarmonyTools(r), !.em = Listed(r)])
  /\ UNCHANGED Shared
-----------------------------------------------------------------------------
(* One run of the pipeline. *)

\* Only the regular non-streaming loop has no bound on iterations of its own.
TooManyIterations(r) ==
  InLoop(r) /\ (Harmony(r) \/ Streams(r)) /\ q[r].iter >= MaxIterations

ExceedIterations(r) ==
  /\ q[r].at = "run" /\ TooManyIterations(r)
  /\ Fail(r)
  /\ UNCHANGED Shared

\* The task of a streaming request announces itself: Harmony before the pipeline
\* runs, the regular router without MCP after it.
Announced(r) == IF Streams(r) /\ ~InLoop(r) THEN Created(q[r].em) ELSE q[r].em

\* The regular parsers make a call of whatever arguments there are.
MayAnswer(r, a) ==
  /\ {"mcp", "half_mcp"} \cap ToSet(a) # {} => q[r].tools # {}
  /\ Halves \cap ToSet(a) # {} => Harmony(r)

Runs(r) == q[r].at = "run" /\ ~TooManyIterations(r)

Streaming(r, a) ==
  [q[r] EXCEPT !.at = "stream", !.iter = @ + 1, !.todo = a, !.said = <<>>, !.results = <<>>,
             !.tracked = <<>>, !.em = Announced(r)]

RunRegularStream(r) ==
  /\ Runs(r) /\ RegStream(r)
  /\ \E a \in Outputs : MayAnswer(r, a) /\ Step(r, Streaming(r, a))
  /\ UNCHANGED Shared

\* Each iteration of Harmony starts with no message of its own.
RunHarmonyStream(r) ==
  /\ Runs(r) /\ HarStream(r)
  /\ \E a \in Outputs :
       MayAnswer(r, a) /\ Step(r, [Streaming(r, a) EXCEPT !.em.message = NoItem])
  /\ UNCHANGED Shared

Answered(r, a) == [q[r] EXCEPT !.at = "judge", !.iter = @ + 1, !.said = Front(a), !.results = <<>>]

RunRegularSync(r) ==
  /\ Runs(r) /\ RegSync(r)
  /\ \E a \in Outputs : MayAnswer(r, a) /\ Step(r, Answered(r, a))
  /\ UNCHANGED Shared

RunHarmonySync(r) ==
  /\ Runs(r) /\ HarSync(r)
  /\ \E a \in Outputs : MayAnswer(r, a) /\ Step(r, Answered(r, a))
  /\ UNCHANGED Shared

\* The error of a regular streaming run is a body without chunks, which reads
\* like an empty answer.
PipelineFails(r) ==
  /\ Runs(r)
  /\ IF RegStream(r)
       THEN Step(r, [Streaming(r, <<>>) EXCEPT !.cut = TRUE])
       ELSE Fail(r)
  /\ UNCHANGED Shared

Count(x, s) == Cardinality({i \in DOMAIN s : s[i] = x})
OfServers(s) == Count("mcp", s)
OfCaller(s) == Count("fn", s)
Calls(s) == OfServers(s) + OfCaller(s)

\* The accumulators keep all that was said; tool calls are only accumulated.
Accumulate(r, c) == [q[r] EXCEPT !.todo = Tail(@), !.said = IF c = "done" THEN @ ELSE Append(@, c)]

\* process_chunk of the regular streams: finish_reason is stop or length, or tool_calls
\* where there were calls and the model stopped.
RegularChunk(r, c) ==
  LET e == q[r].em
  IN \/ c = "text" /\ Step(r, [Accumulate(r, c) EXCEPT !.em = TextChunk(@)])
     \/ c \in {"reasoning", "mcp", "fn"} /\ Step(r, Accumulate(r, c))
     \/ /\ c = "done"
        /\ IF FinishPanics(e) THEN Step(r, [q[r] EXCEPT !.at = "end", !.answer = "panic", !.todo = <<>>])
           ELSE Step(r, [q[r] EXCEPT !.todo = <<>>, !.em = FinishChunk(e)])
     \/ c = "done" /\ Calls(q[r].said) > 0 /\ Step(r, [q[r] EXCEPT !.todo = <<>>])

CallType(c) == IF c \in {"mcp", "half_mcp"} THEN "mcp_call" ELSE "function_call"

CloseAll(e, which) ==
  [e EXCEPT !.items = [i \in DOMAIN @ |->
     IF i \in which THEN [@[i] EXCEPT !.wire = "closed", !.data = "done", !.status = "completed"] ELSE @[i]]]

\* The Complete message closes the calls the parser has whole, as far as they are
\* tracked, and then the message.
HarmonyComplete(r) ==
  LET e == q[r].em
  IN CloseAll(e, (ToSet(q[r].tracked) \cup {e.message}) \ {NoItem})

\* The decode loop of Harmony: a reasoning item once, a message item, one item per call.
HarmonyReasoning(r, e) == IF "reasoning" \in ToSet(q[r].said) THEN e ELSE WholeItem(e, "reasoning")

HarmonyText(e) == TextChunk(e)

CallsIn(s) == Keep(s, {i \in DOMAIN s : s[i] \in {"mcp", "fn"}})

\* A call is announced where the recipient is not that of the call before.
MayGoUnannounced(r, c) ==
  LET calls == CallsIn(q[r].said) IN calls # <<>> /\ CallType(Last(calls)) = CallType(c)

\* The tool's name decides whose call it is.  A half is tracked too, but at an index that
\* no finished call has.
HarmonyCall(r, c) ==
  LET new == Newest(q[r].em) + 1
      shown == [Accumulate(r, c) EXCEPT !.em = OpenItem(@, CallType(c))]
  IN \/ c \notin Halves /\ Step(r, [shown EXCEPT !.tracked = Append(@, new)])
     \/ c \in Halves /\ Step(r, [shown EXCEPT !.unfinished = @ \cup {new}])
     \/ /\ MayGoUnannounced(r, c)
        /\ Step(r, [Accumulate(r, c) EXCEPT !.tracked = IF c \in Halves THEN @ ELSE Append(@, NoItem)])

HarmonyChunk(r, c) ==
  \/ c = "reasoning" /\ Step(r, [Accumulate(r, c) EXCEPT !.em = HarmonyReasoning(r, @)])
  \/ c = "text" /\ Step(r, [Accumulate(r, c) EXCEPT !.em = HarmonyText(@)])
  \/ c \in {"mcp", "fn"} \cup Halves /\ HarmonyCall(r, c)
  \/ c = "done" /\ Step(r, [Accumulate(r, c) EXCEPT !.em = HarmonyComplete(r)])

\* Harmony sends all but reasoning items whether or not the client listens.
Chunk(r) ==
  /\ q[r].at = "stream" /\ q[r].todo # <<>>
  /\ LET c == Head(q[r].todo)
     IN IF Harmony(r)
          THEN ~(q[r].gone /\ c = "reasoning") /\ HarmonyChunk(r, c)
          ELSE ~(q[r].gone /\ c \in {"text", "done"}) /\ RegularChunk(r, c)
  /\ UNCHANGED Shared

\* The first send into the channel of a client that left.
SendFails(r) ==
  /\ q[r].gone
  /\ \/ q[r].at = "tools"
     \/ q[r].at = "stream" /\ q[r].todo # <<>>
        /\ Head(q[r].todo) \in (IF Harmony(r) THEN {"reasoning"} ELSE {"text", "done"})
     \/ q[r].at \in {"call", "calling", "functions", "complete"} /\ ~Harmony(r)
  /\ Abort(r)
  /\ UNCHANGED Shared

StreamBreaks(r) ==
  /\ q[r].at = "stream" /\ q[r].todo # <<>>
  /\ Fail(r)
  /\ UNCHANGED Shared

\* Without a Complete message Harmony closes the calls it finds in the parser.
HarmonyCut(r) == CloseAll(q[r].em, ToSet(q[r].tracked) \ {NoItem})

\* The body ended.
StreamEnds(r) ==
  /\ q[r].at = "stream"
  /\ \/ q[r].todo = <<>> /\ Step(r, [q[r] EXCEPT !.at = "judge"])
     \/ /\ q[r].todo # <<>>
        /\ Step(r, [q[r] EXCEPT !.at = "judge", !.todo = <<>>, !.cut = TRUE,
                    !.em = IF Harmony(r) THEN HarmonyCut(r) ELSE @])
  /\ UNCHANGED Shared

\* extract_incomplete_commentary: where no call is whole, and the half has any arguments,
\* it is closed and taken for a call after all.
Whole(c) == IF c = "half_mcp" THEN "mcp" ELSE "fn"

TakeHalf(r) ==
  /\ q[r].at = "stream" /\ HarStream(r)
  /\ q[r].said # <<>> /\ Last(q[r].said) \in Halves /\ Calls(q[r].said) = 0
  /\ LET half == Newest(q[r].em)
     IN Step(r, [q[r] EXCEPT !.at = "judge", !.todo = <<>>, !.cut = @ \/ q[r].todo # <<>>,
                 !.said = Append(Front(@), Whole(Last(@))), !.tracked = <<half>>,
                 !.unfinished = @ \ {half}, !.em = CloseAll(@, {half})])
  /\ UNCHANGED Shared
-----------------------------------------------------------------------------
(* After a run: final answer, caller's functions, limit or tool calls. *)

EffectiveLimit(r) ==
  IF B(r).max = NoLimit THEN MaxIterations ELSE Min({B(r).max, MaxIterations})

OverLimit(r) == q[r].executed + OfServers(q[r].said) > EffectiveLimit(r)

\* chat_to_responses: message, reasoning, and every call as the caller's.
Spoken(s) ==
  (IF "text" \in ToSet(s) THEN <<"message">> ELSE <<>>)
  \o (IF "reasoning" \in ToSet(s) THEN <<"reasoning">> ELSE <<>>)

Converted(s) == Spoken(s) \o Repeat("function_call", Calls(s))

\* The MCP items around an output: the list first, the calls last.
WithMetadata(r, out) == <<"mcp_list_tools">> \o out \o Repeat("mcp_call", q[r].executed)

\* build_tool_response: what was said, the calls made, the caller's calls.
ToolResponse(r) == IF q[r].executed > 0 THEN WithMetadata(r, Converted(q[r].said)) ELSE Converted(q[r].said)

\* One run, for a request that is not in a loop.
RegularSyncSingle(r) ==
  /\ q[r].at = "judge" /\ ~InLoop(r) /\ RegSync(r)
  /\ Step(r, [q[r] EXCEPT !.at = "store", !.out = Converted(q[r].said)])
  /\ UNCHANGED Shared

HarmonySyncSingle(r) ==
  /\ q[r].at = "judge" /\ ~InLoop(r) /\ HarSync(r)
  /\ Step(r, [q[r] EXCEPT !.at = "store", !.out = Converted(q[r].said)])
  /\ UNCHANGED Shared

HarmonyStreamSingle(r) ==
  /\ q[r].at = "judge" /\ ~InLoop(r) /\ HarStream(r)
  /\ Step(r, [q[r] EXCEPT !.at = "store", !.out = Finalize(q[r].em)])
  /\ UNCHANGED Shared

RegularStreamSingle(r) ==
  /\ q[r].at = "judge" /\ ~InLoop(r) /\ RegStream(r)
  /\ Step(r, [q[r] EXCEPT !.at = "complete", !.out = Converted(q[r].said)])
  /\ UNCHANGED Shared

\* The loop's last run has no calls.
Final(r) == q[r].at = "judge" /\ InLoop(r) /\ Calls(q[r].said) = 0

RegularSyncFinal(r) ==
  /\ Final(r) /\ RegSync(r)
  /\ Step(r, [q[r] EXCEPT !.at = "store", !.out = ToolResponse(r)])
  /\ UNCHANGED Shared

HarmonySyncFinal(r) ==
  /\ Final(r) /\ HarSync(r)
  /\ Step(r, [q[r] EXCEPT !.at = "store", !.out = WithMetadata(r, Converted(q[r].said))])
  /\ UNCHANGED Shared

HarmonyStreamFinal(r) ==
  /\ Final(r) /\ HarStream(r)
  /\ Step(r, [q[r] EXCEPT !.at = "store", !.out = Finalize(q[r].em)])
  /\ UNCHANGED Shared

RegularStreamFinal(r) ==
  /\ Final(r) /\ RegStream(r)
  /\ Step(r, [q[r] EXCEPT !.at = "complete",
              !.em = IF "reasoning" \in ToSet(q[r].said) THEN WholeItem(@, "reasoning") ELSE @])
  /\ UNCHANGED Shared

\* Not streaming, a call of the caller's ends the regular loop before any other
\* call of the run is made.
ReturnFunctions(r) == RegSync(r) /\ OfCaller(q[r].said) > 0

HandBack(r) ==
  /\ q[r].at = "judge" /\ InLoop(r) /\ ReturnFunctions(r)
  /\ Step(r, [q[r] EXCEPT !.at = "store", !.out = Converted(q[r].said)])
  /\ UNCHANGED Shared

\* At the limit no call of the run is made.
AtLimit(r) ==
  /\ q[r].at = "judge" /\ InLoop(r) /\ Calls(q[r].said) > 0
  /\ ~ReturnFunctions(r) /\ OverLimit(r)

RegularSyncLimit(r) ==
  /\ AtLimit(r) /\ RegSync(r)
  /\ Step(r, [q[r] EXCEPT !.at = "store", !.out = Converted(q[r].said)])
  /\ UNCHANGED Shared

HarmonySyncLimit(r) ==
  /\ AtLimit(r) /\ HarSync(r)
  /\ Step(r, [q[r] EXCEPT !.at = "store", !.out = ToolResponse(r)])
  /\ UNCHANGED Shared

\* The Harmony stream completes and is not stored; the regular one just stops.
HarmonyStreamLimit(r) ==
  /\ AtLimit(r) /\ HarStream(r)
  /\ Step(r, [q[r] EXCEPT !.at = "end", !.answer = "incomplete", !.em = Completed(@)])
  /\ UNCHANGED Shared

RegularStreamLimit(r) ==
  /\ AtLimit(r) /\ RegStream(r)
  /\ Step(r, [q[r] EXCEPT !.at = "end", !.answer = "incomplete"])
  /\ UNCHANGED Shared

BeginCalls(r) ==
  /\ q[r].at = "judge" /\ InLoop(r) /\ Calls(q[r].said) > 0
  /\ ~ReturnFunctions(r) /\ ~OverLimit(r)
  /\ Step(r, [q[r] EXCEPT !.at = IF OfServers(q[r].said) = 0 THEN "functions" ELSE "call",
              !.pending = OfServers(q[r].said)])
  /\ UNCHANGED Shared

Started(r) == [q[r] EXCEPT !.at = "calling", !.executed = @ + 1, !.pending = @ - 1]

StartCall(r) ==
  /\ q[r].at = "call" /\ ~RegStream(r)
  /\ Step(r, Started(r))
  /\ UNCHANGED Shared

\* The regular stream opens the call's item only now.
ShowCall(r) ==
  /\ q[r].at = "call" /\ RegStream(r) /\ ~q[r].gone
  /\ Step(r, [Started(r) EXCEPT !.em = OpenItem(@, "mcp_call")])
  /\ UNCHANGED Shared

\* Harmony parses the arguments itself and gives up where they are not JSON.
BadArguments(r) ==
  /\ q[r].at = "call" /\ Harmony(r)
  /\ Fail(r)
  /\ UNCHANGED Shared

\* A tool that fails is a result like any other.
Concluded(r, result) ==
  [q[r] EXCEPT !.at = IF q[r].pending = 0 THEN "functions" ELSE "call", !.results = Append(@, result)]

RegularEndCall(r) ==
  /\ q[r].at = "calling" /\ RegSync(r)
  /\ \E result \in {"output", "failed"} : Step(r, Concluded(r, result))
  /\ UNCHANGED Shared

HarmonyEndCall(r) ==
  /\ q[r].at = "calling" /\ Harmony(r)
  /\ \E result \in {"output", "failed"} : Step(r, Concluded(r, result))
  /\ UNCHANGED Shared

ShowResult(r) ==
  /\ q[r].at = "calling" /\ RegStream(r) /\ ~q[r].gone
  /\ \E result \in {"output", "failed"} :
       Step(r, [Concluded(r, result) EXCEPT !.em = CloseItem(@, Newest(@))])
  /\ UNCHANGED Shared

\* The items of the server calls of a run, found by their call_id.
CallItems(r) ==
  Keep(q[r].tracked, {i \in DOMAIN q[r].tracked : CallsIn(q[r].said)[i] = "mcp"})

\* The calls of a run that had functions of the caller's too are done.
ForCaller(r) == q[r].at = "functions" /\ OfCaller(q[r].said) > 0

HarmonySyncFunctions(r) ==
  /\ ForCaller(r) /\ HarSync(r)
  /\ Step(r, [q[r] EXCEPT !.at = "store", !.out = ToolResponse(r)])
  /\ UNCHANGED Shared

HarmonyStreamFunctions(r) ==
  /\ ForCaller(r) /\ HarStream(r)
  /\ Step(r, [q[r] EXCEPT !.at = "end", !.answer = "ok", !.em = Completed(CallOutputs(@, CallItems(r), q[r].results))])
  /\ UNCHANGED Shared

\* The caller's functions, each an item that is complete as it is shown.
WithFunctions(e, n) ==
  [e EXCEPT !.items = @ \o Repeat([type |-> "function_call", status |-> "completed",
                                    data |-> "done", wire |-> "closed"], n)]

\* The regular stream shows the functions and stops without a completed event.
RegularStreamFunctions(r) ==
  /\ ForCaller(r) /\ RegStream(r) /\ ~q[r].gone
  /\ Step(r, [q[r] EXCEPT !.at = "end", !.answer = "ok", !.em = WithFunctions(@, OfCaller(q[r].said))])
  /\ UNCHANGED Shared

\* build_next_request starts again from the request as it came in.
NextInput(r) == <<"own">> \o Repeat("called", q[r].executed)

\* build_next_request_with_tools appends to the request it just ran.
HarmonyNextInput(r) ==
  q[r].input
  \o (IF "reasoning" \in ToSet(q[r].said) THEN <<"reasoning">> ELSE <<>>)
  \o (IF "text" \in ToSet(q[r].said) THEN <<"message">> ELSE <<>>)
  \o Repeat("called", Len(q[r].results))

NextRequest(r) ==
  /\ q[r].at = "functions" /\ OfCaller(q[r].said) = 0
  /\ IF Harmony(r)
       THEN Step(r, [q[r] EXCEPT !.at = "run", !.input = HarmonyNextInput(r),
                     !.em = IF Streams(r) THEN CallOutputs(@, CallItems(r), q[r].results) ELSE @])
       ELSE Step(r, [q[r] EXCEPT !.at = "run", !.input = NextInput(r)])
  /\ UNCHANGED Shared
-----------------------------------------------------------------------------
(* The end of a response: the completed event, the store, the conversation. *)

\* Harmony has stored by now and sends as best it can.
HarmonySendCompleted(r) ==
  /\ q[r].at = "complete" /\ Harmony(r)
  /\ Step(r, [q[r] EXCEPT !.at = "end", !.answer = "ok", !.em = Completed(@)])
  /\ UNCHANGED Shared

\* The regular stream completes towards the client first and stores then; in a
\* loop, never.
RegularSendCompleted(r) ==
  /\ q[r].at = "complete" /\ ~Harmony(r) /\ ~q[r].gone
  /\ Step(r, [q[r] EXCEPT !.at = IF InLoop(r) THEN "end" ELSE "store",
                          !.answer = IF InLoop(r) THEN "ok" ELSE @, !.em = Completed(@)])
  /\ UNCHANGED Shared

AfterStore(r) == IF Streams(r) /\ Harmony(r) THEN "complete" ELSE "end"
Stop(r) == [q[r] EXCEPT !.at = AfterStore(r), !.answer = "ok"]

WithResponse(r, out) ==
  [i \in DOMAIN responses \cup {r} |->
     IF i = r THEN [input |-> <<"message">>, output |-> out] ELSE responses[i]]

\* persist_response_if_needed; a store that fails is only logged.
StoreResponse(r) ==
  /\ q[r].at = "store"
  /\ \/ /\ B(r).store
        /\ responses' = WithResponse(r, q[r].out)
        /\ IF B(r).conv THEN Step(r, [q[r] EXCEPT !.at = "link", !.todo = <<"message">> \o q[r].out]) ELSE Step(r, Stop(r))
     \/ Step(r, Stop(r)) /\ UNCHANGED responses
  /\ UNCHANGED <<requested, connected, conversation>>

\* create_and_link_item for one item after the other; a conversation that is
\* gone, or an item that fails, ends it.
LinkItem(r) ==
  /\ q[r].at = "link"
  /\ \/ /\ conversation.exists /\ q[r].todo # <<>>
        /\ conversation' = [conversation EXCEPT !.items = Append(@, Head(q[r].todo))]
        /\ Step(r, [q[r] EXCEPT !.todo = Tail(@)])
     \/ Step(r, Stop(r)) /\ UNCHANGED conversation
  /\ UNCHANGED <<requested, connected, responses>>

\* The client goes.  A request that is not streaming is dropped where it stands;
\* the task of a stream only notices when it sends.
Leave(r) ==
  /\ q[r].at \notin {"new", "end"} /\ ~q[r].gone
  /\ IF Streams(r) /\ (q[r].at \notin {"load", "conversation", "connect"})
       THEN Step(r, [q[r] EXCEPT !.gone = TRUE]) ELSE Abort(r)
  /\ UNCHANGED Shared

DeleteConversation ==
  /\ conversation.exists /\ \E r \in Reqs : B(r).conv
  /\ conversation' = [conversation EXCEPT !.exists = FALSE]
  /\ UNCHANGED <<q, requested, connected, responses>>

Advance(r) ==
  \/ Refuse(r) \/ RouteResponses(r) \/ HarmonyLoadChain(r) \/ RegularLoadChain(r) \/ LoadConversation(r)
  \/ EnsureConnection(r) \/ EnsureConnectionFails(r)
  \/ SyncTools(r) \/ RegularListTools(r) \/ HarmonyListTools(r)
  \/ ExceedIterations(r) \/ RunRegularStream(r) \/ RunHarmonyStream(r) \/ RunRegularSync(r) \/ RunHarmonySync(r)
  \/ PipelineFails(r) \/ Chunk(r) \/ SendFails(r) \/ StreamBreaks(r) \/ StreamEnds(r) \/ TakeHalf(r)
  \/ RegularSyncSingle(r) \/ HarmonySyncSingle(r) \/ HarmonyStreamSingle(r) \/ RegularStreamSingle(r)
  \/ RegularSyncFinal(r) \/ HarmonySyncFinal(r) \/ HarmonyStreamFinal(r) \/ RegularStreamFinal(r)
  \/ HandBack(r)
  \/ RegularSyncLimit(r) \/ HarmonySyncLimit(r) \/ HarmonyStreamLimit(r) \/ RegularStreamLimit(r)
  \/ BeginCalls(r) \/ StartCall(r) \/ ShowCall(r) \/ BadArguments(r)
  \/ RegularEndCall(r) \/ HarmonyEndCall(r) \/ ShowResult(r)
  \/ HarmonySyncFunctions(r) \/ HarmonyStreamFunctions(r) \/ RegularStreamFunctions(r) \/ NextRequest(r)
  \/ HarmonySendCompleted(r) \/ RegularSendCompleted(r) \/ StoreResponse(r) \/ LinkItem(r)

AllEnded == \A r \in Reqs : q[r].at = "end"

Next ==
  \/ \E r \in Reqs : Advance(r) \/ Leave(r)
  \/ DeleteConversation
  \/ AllEnded /\ UNCHANGED vars

Spec == Init /\ [][Next]_vars /\ \A r \in UNION {DOMAIN w : w \in Workloads} : WF_vars(r \in Reqs /\ Advance(r))
-----------------------------------------------------------------------------
(* Properties. *)

\* No sequence of runs makes more calls of servers than max_tool_calls and the
\* safety limit allow, in any of the four loops.
ToolLimit == \A r \in Reqs : q[r].executed <= EffectiveLimit(r)

\* The model is asked again with its own question and with the result of every
\* call made so far, and Harmony's history is still there.
ResultsReachModel ==
  \A r \in Reqs : q[r].at = "run" =>
    /\ "own" \in ToSet(q[r].input)
    /\ Count("called", q[r].input) = q[r].executed

\* Without MCP servers the regular stream closes its message for the finish reasons stop
\* and length only: text before calls of the caller's functions is left open.
LeftOpen(r) == RegStream(r) /\ ~InLoop(r) /\ Calls(q[r].said) > 0

\* A completed event closes the book: every item the client saw opened has been closed
\* and the final object lists these items and no others, unless a stream of the model's was
\* cut.  Harmony leaves a call open for good when the model ran out in the middle of its
\* arguments after calls that it had finished, or before any argument; nothing else.
CompletedIsWhole ==
  \A r \in Reqs :
    LET items == q[r].em.items
        whole == DOMAIN items \ q[r].unfinished
    IN "completed" \in q[r].em.sent /\ ~q[r].cut /\ ~LeftOpen(r) /\ whole # {} =>
         /\ \A i \in whole : items[i].wire = "closed"
         /\ CompletedOutput(q[r].em) = Types(Keep(items, whole))

\* Every request that was accepted ends: the loops are bounded, with or without
\* an iteration counter, and a client that left stops or outlives nothing.
EveryRequestEnds ==
  \A r \in UNION {DOMAIN w : w \in Workloads} :
    (r \in Reqs /\ q[r].at # "new") ~> (r \in Reqs => q[r].at = "end")
=============================================================================
