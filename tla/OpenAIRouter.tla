---------------------------- MODULE OpenAIRouter ----------------------------
(***************************************************************************)
(* The router of OpenAI-compatible workers: chat completions with retries, *)
(* and the Responses API, streaming and not, passed through or with the    *)
(* MCP tools intercepted.  It shares the stores and the MCP manager with   *)
(* the Responses API of the gRPC routers.  What the worker's breaker hears *)
(* is kept beside what became of the exchanges with the worker.            *)
(***************************************************************************)
EXTENDS Responses

CONSTANTS OWorkloads,  \* which requests come to this router
          MaxAttempts  \* retry_config.max_retries

ASSUME OpenAIAssumption ==
  \A w \in OWorkloads : \A r \in DOMAIN w :
    /\ {w[r].chat, w[r].stream, w[r].conv, w[r].store} \subseteq BOOLEAN
    /\ w[r].max \in Nat \cup {NoLimit}

VARIABLE o             \* each request's handler, and its task when it streams

ovars == <<o, q, requested, connected, responses, conversation>>

OFresh(b) ==
  [body |-> b, at |-> "new", input |-> <<>>, active |-> FALSE, tries |-> 0, todo |-> <<>>,
   said |-> <<>>, begun |-> FALSE, next |-> 0, items |-> <<>>, listed |-> FALSE, pending |-> 0,
   total |-> 0, made |-> 0, out |-> <<>>, cut |-> FALSE, gone |-> FALSE, sent |-> {},
   exchanges |-> <<>>, ticks |-> <<>>, stored |-> "no", answer |-> "none"]

OInit ==
  /\ \/ Init /\ o = <<>>
     \/ /\ \E w \in OWorkloads : o = [r \in DOMAIN w |-> OFresh(w[r])]
        /\ q = <<>> /\ requested = {} /\ connected = {} /\ responses = <<>>
        /\ conversation = [exists |-> TRUE, items |-> <<>>]

OReqs == DOMAIN o
OB(r) == o[r].body
OStep(r, x) == o' = [o EXCEPT ![r] = x]
OShared == <<q, requested, connected, responses, conversation>>

OEnd(x, answer) == [x EXCEPT !.at = "end", !.answer = answer]

\* The exchange with the worker is over, and the breaker is told this much of it.
Exchanged(x, outcome, heard) ==
  [x EXCEPT !.exchanges = Append(@, outcome), !.ticks = @ \o heard]

Good == <<"ok">>
Failed == <<"failed">>
-----------------------------------------------------------------------------
(* Entry: the worker, the history, the MCP connections. *)

Chosen(r) == [o[r] EXCEPT !.at = IF OB(r).chat THEN "send" ELSE "load"]

\* A healthy worker that serves the model, as far as its model list is known (a chat
\* whose payload the provider cannot take is refused at once) ...
SelectWorkerForModel(r) ==
  /\ o[r].at = "new"
  /\ \/ OStep(r, Chosen(r))
     \/ OStep(r, [o[r] EXCEPT !.at = "refresh"])
     \/ OB(r).chat /\ OStep(r, OEnd(o[r], "error"))
  /\ UNCHANGED OShared

\* Variant: the lists are fetched again until a worker serves the model.
RefreshUntilFound(r) ==
  /\ o[r].at = "refresh"
  /\ \/ OStep(r, Chosen(r))
     \/ OStep(r, [o[r] EXCEPT !.at = "new"])
  /\ UNCHANGED OShared

\* ... and once more after the lists of all external workers were fetched: found
\* now, or all that serve it are broken (503), or none does (404).
RefreshExternalModels(r) ==
  /\ o[r].at = "refresh"
  /\ \/ OStep(r, Chosen(r))
     \/ OStep(r, OEnd(o[r], "error"))
  /\ UNCHANGED OShared

\* The worker is sent no reasoning of earlier responses.
OChain(id) == Keep(Chain(id), {i \in DOMAIN Chain(id) : Chain(id)[i] # "reasoning"})

\* A chain that cannot be loaded is only warned about.
OLoadChain(r) ==
  /\ o[r].at = "load"
  /\ \E past \in {OChain(OB(r).prev), <<>>} :
       OStep(r, [o[r] EXCEPT !.at = IF OB(r).conv THEN "conversation" ELSE "connect",
                 !.input = past \o <<"own">>])
  /\ UNCHANGED OShared

OPast == Keep(conversation.items, {i \in DOMAIN conversation.items :
               i <= HistoryLimit /\ conversation.items[i] \in {"message", "function_call"}})

\* A conversation that is not there refuses the request; one that cannot be
\* asked for, or whose items cannot, is ignored.
OLoadConversation(r) ==
  /\ o[r].at = "conversation"
  /\ \/ \E past \in {OPast, <<>>} :
          OStep(r, [o[r] EXCEPT !.at = "connect", !.input = Front(@) \o past \o <<"own">>])
     \/ ~conversation.exists /\ OStep(r, OEnd(o[r], "error"))
  /\ UNCHANGED OShared

\* A payload that cannot be made, or the provider cannot take.
RefusePayload(r) ==
  /\ o[r].at = "connect"
  /\ OStep(r, OEnd(o[r], "error"))
  /\ UNCHANGED OShared

\* Servers that do not answer only mean that there are no tools to intercept.
OConnect(r) ==
  /\ o[r].at = "connect"
  /\ \E up \in SUBSET OB(r).servers :
       /\ OStep(r, [o[r] EXCEPT !.at = "send", !.active = up # {}])
       /\ connected' = connected \cup up
  /\ UNCHANGED <<q, requested, responses, conversation>>
-----------------------------------------------------------------------------
(* Chat completions: one worker for all attempts. *)

TryAgain(r, x) ==
  OStep(r, IF x.tries + 1 < MaxAttempts THEN [x EXCEPT !.tries = @ + 1] ELSE OEnd(x, "error"))

\* No connection, or a body that breaks off: 503 and 500 are tried again.
ChatFails(r) ==
  /\ o[r].at = "send" /\ OB(r).chat
  /\ TryAgain(r, Exchanged(o[r], "failed", Failed))
  /\ UNCHANGED OShared

\* Variant: the wrapper of an error body is not told that it is one.
ChatRefusedUnmarked(r) ==
  /\ o[r].at = "send" /\ OB(r).chat
  /\ \E heard \in {Failed, Failed \o Failed} :
       LET seen == Exchanged(o[r], "failed", IF OB(r).stream THEN Good ELSE heard)
       IN OStep(r, OEnd(seen, "error")) \/ TryAgain(r, seen)
  /\ UNCHANGED OShared

\* An error status.  Not streaming, a body that breaks off is counted again.
ChatRefused(r) ==
  /\ o[r].at = "send" /\ OB(r).chat
  /\ \E heard \in {Failed, Failed \o Failed} :
       LET seen == Exchanged(o[r], "failed", IF OB(r).stream THEN Failed ELSE heard)
       IN OStep(r, OEnd(seen, "error")) \/ TryAgain(r, seen)
  /\ UNCHANGED OShared

ChatAnswered(r) ==
  /\ o[r].at = "send" /\ OB(r).chat
  /\ OStep(r, IF OB(r).stream THEN [o[r] EXCEPT !.at = "pass"] ELSE OEnd(Exchanged(o[r], "ok", Good), "ok"))
  /\ UNCHANGED OShared
-----------------------------------------------------------------------------
(* Responses without tools to intercept. *)

\* What a worker of this router may answer: its calls are whole.
Answers == {a \in Outputs : Halves \cap ToSet(a) = {}}

Single(r) == o[r].at = "send" /\ ~OB(r).chat /\ ~o[r].active

SingleFails(r) ==
  /\ Single(r)
  /\ OStep(r, OEnd(Exchanged(o[r], "failed", Failed), "error"))
  /\ UNCHANGED OShared

SingleAnswered(r) ==
  /\ Single(r)
  /\ \E a \in Answers :
       OStep(r, IF OB(r).stream THEN [o[r] EXCEPT !.at = "pass", !.todo = a]
                ELSE [Exchanged(o[r], "ok", Good) EXCEPT !.at = "store", !.out = Converted(Front(a))])
  /\ UNCHANGED OShared

\* Variant: a client that leaves ends the stream whatever is to be stored.
NeedPersistenceNever(r) == FALSE

\* The passed-through stream is read to its end for the store's sake.
NeedPersistence(r) == ~OB(r).chat /\ (OB(r).store \/ OB(r).conv)

\* begun: response.created or response.completed was among the events so far.
PassChunk(r) ==
  /\ o[r].at = "pass" /\ o[r].todo # <<>> /\ (o[r].gone => NeedPersistence(r))
  /\ \E named \in BOOLEAN :
       OStep(r, [o[r] EXCEPT !.todo = Tail(@), !.said = Append(@, Head(o[r].todo)), !.begun = @ \/ named])
  /\ UNCHANGED OShared

\* The wrapper is dropped before the worker is done: the breaker hears nothing.
PassCancelled(r) ==
  /\ o[r].at = "pass" /\ o[r].gone /\ ~NeedPersistence(r)
  /\ OStep(r, OEnd(Exchanged(o[r], "cancelled", <<>>), "dropped"))
  /\ UNCHANGED OShared

PassBreaks(r) ==
  /\ o[r].at = "pass"
  /\ OStep(r, OEnd(Exchanged(o[r], "failed", Failed), "error"))
  /\ UNCHANGED OShared

\* The worker closed the stream, at its end or before.  What is stored is the
\* completed response, or the items done so far where only response.created was read.
\* An error event among them changes nothing: the accumulator keeps it for a warning.
PassEnds(r) ==
  /\ o[r].at = "pass"
  /\ IF NeedPersistence(r) /\ o[r].begun
       THEN OStep(r, [o[r] EXCEPT !.at = "store", !.todo = <<>>, !.cut = o[r].todo # <<>>,
                      !.out = Converted(o[r].said),
                      !.exchanges = Append(@, "ok")])
       ELSE OStep(r, OEnd(Exchanged(o[r], "ok", Good), "ok"))
  /\ UNCHANGED OShared
-----------------------------------------------------------------------------
(* Responses with the tools of MCP servers, as functions of the payload. *)

Looped(r) == o[r].at = "send" /\ o[r].active

\* The error of the loop, or an error event of the stream without [DONE].
LoopFails(r) ==
  /\ Looped(r)
  /\ OStep(r, OEnd(Exchanged(Sent(o[r], "error"), "failed", Failed), "error"))
  /\ UNCHANGED OShared

\* A client that left is noticed before the next request and while it waits.
LoopAbandoned(r) ==
  /\ Looped(r) /\ OB(r).stream /\ o[r].gone
  /\ OStep(r, OEnd(o[r], "dropped"))
  /\ UNCHANGED OShared

LoopAnswered(r) ==
  /\ Looped(r)
  /\ \E a \in Answers :
       /\ "fn" \notin ToSet(a)
       /\ OStep(r, IF OB(r).stream
                     THEN [o[r] EXCEPT !.at = "stream", !.todo = a, !.said = <<>>, !.begun = FALSE]
                     ELSE [o[r] EXCEPT !.at = "judge", !.said = Front(a), !.exchanges = Append(@, "ok"),
                                       !.pending = IF Calls(a) = 0 THEN 0 ELSE 1])
  /\ UNCHANGED OShared

\* Variant: every iteration counts the indices from zero again.
ShowRestarted(x, type, wire) ==
  [x EXCEPT !.next = Len(x.said) + 1,
            !.items = Append(@, [index |-> Len(x.said), type |-> type, wire |-> wire])]

\* ensure_mapping and allocate_synthetic: the next index for the next item shown.
Show(x, type, wire) ==
  [x EXCEPT !.next = @ + 1, !.items = Append(@, [index |-> x.next, type |-> type, wire |-> wire])]

\* response.in_progress of the first iteration brings the list of tools.
WithList(x) == IF x.listed THEN x ELSE [Show(x, "mcp_list_tools", "closed") EXCEPT !.listed = TRUE]

\* An item is forwarded; a call is shown as one of the server's.
Intercept(r) ==
  /\ o[r].at = "stream" /\ o[r].todo # <<>> /\ Head(o[r].todo) # "args" /\ ~o[r].gone
  /\ LET c == Head(o[r].todo)
         x == WithList([Sent(o[r], "created") EXCEPT !.begun = TRUE])
     IN \/ /\ c \in {"text", "reasoning"}
           /\ OStep(r, [Show(x, c, "closed") EXCEPT !.todo = Tail(@), !.said = Append(@, c)])
        \/ /\ c = "mcp"
           /\ OStep(r, [Show(x, "mcp_call", "open") EXCEPT !.todo = <<"args">> \o Tail(@), !.pending = @ + 1])
        \/ c = "done" /\ OStep(r, [x EXCEPT !.todo = <<>>])
  /\ UNCHANGED OShared

\* The arguments of a call are complete: the rest of the stream is not read.
ExecuteTools(r) ==
  /\ o[r].at = "stream" /\ o[r].todo # <<>> /\ Head(o[r].todo) = "args" /\ ~o[r].gone
  /\ OStep(r, [o[r] EXCEPT !.at = "judge", !.todo = <<>>, !.exchanges = Append(@, "ok")])
  /\ UNCHANGED OShared

\* A closed channel while the stream waits, or at the next event.
InterceptCancelled(r) ==
  /\ o[r].at \in {"stream", "final"} /\ o[r].gone
  /\ OStep(r, OEnd(Exchanged(o[r], "cancelled", <<>>), "dropped"))
  /\ UNCHANGED OShared

InterceptBreaks(r) ==
  /\ o[r].at = "stream"
  /\ OStep(r, OEnd(Exchanged(Sent(o[r], "error"), "failed", Failed), "error"))
  /\ UNCHANGED OShared

InterceptEnds(r) ==
  /\ o[r].at = "stream"
  /\ OStep(r, [o[r] EXCEPT !.at = "final", !.todo = <<>>, !.cut = o[r].todo # <<>>])
  /\ UNCHANGED OShared

OLimit(r) == IF OB(r).max = NoLimit THEN MaxIterations ELSE Min({OB(r).max, MaxIterations})

Total(r) == o[r].total + o[r].pending

\* Variant: one call more than the limit is made.
OverTotalLate(r) == Total(r) > OLimit(r) + 1

OverTotal(r) == Total(r) > OLimit(r)

\* The list first, then the calls made, then the items of the last answer.
OMetadata(r, items) == <<"mcp_list_tools">> \o Repeat("mcp_call", o[r].made) \o items

\* Over the limit: an incomplete response, with the calls not made as MCP calls too; a
\* stream is told so and not stored.
ReachLimit(r) ==
  /\ o[r].at = "judge" /\ o[r].pending > 0 /\ OverTotal(r)
  /\ IF OB(r).stream
       THEN OStep(r, [OEnd(o[r], "incomplete") EXCEPT !.ticks = @ \o Good, !.sent = @ \cup {"error", "DONE"}])
       ELSE OStep(r, [o[r] EXCEPT !.at = "store", !.out = OMetadata(r, Repeat("mcp_call", Calls(o[r].said)) \o Converted(o[r].said))])
  /\ UNCHANGED OShared

BeginTools(r) ==
  /\ o[r].at = "judge" /\ o[r].pending > 0 /\ ~OverTotal(r)
  /\ OStep(r, [o[r] EXCEPT !.at = "calling", !.total = Total(r)])
  /\ UNCHANGED OShared

\* The results of calls go to the open items in their order.
CloseFirst(items, open) ==
  IF open = {} THEN items ELSE [items EXCEPT ![Min(open)].wire = "closed"]

\* call_tool; what fails is a result too.  A stream shows it, if someone looks.
CallTool(r) ==
  /\ o[r].at = "calling"
  /\ LET open == {i \in DOMAIN o[r].items : o[r].items[i].wire = "open"}
         left == o[r].pending - 1
     IN IF o[r].gone
          THEN OStep(r, [OEnd(o[r], "dropped") EXCEPT !.made = @ + 1])
          ELSE OStep(r, [o[r] EXCEPT !.made = @ + 1, !.pending = left,
                         !.items = CloseFirst(@, open),
                         !.at = IF left = 0 THEN "send" ELSE "calling",
                         !.input = <<"own">> \o Repeat("called", o[r].made + 1)])
  /\ UNCHANGED OShared

\* No call in the answer.
LoopFinal(r) ==
  /\ o[r].at = "judge" /\ o[r].pending = 0
  /\ OStep(r, [o[r] EXCEPT !.at = "store", !.out = IF o[r].total > 0 THEN OMetadata(r, Converted(o[r].said))
                                       ELSE Converted(o[r].said)])
  /\ UNCHANGED OShared

\* The completed event goes out before anything is stored.
InterceptFinal(r) ==
  /\ o[r].at = "final" /\ ~o[r].gone
  /\ LET shown == IF o[r].begun THEN {"completed"} ELSE {}
         ended == Append(o[r].exchanges, "ok")
     IN IF NeedPersistence(r) /\ o[r].begun
          THEN OStep(r, [o[r] EXCEPT !.at = "store", !.out = OMetadata(r, Converted(o[r].said)),
                         !.exchanges = ended, !.sent = @ \cup shown])
          ELSE OStep(r, [OEnd(Exchanged(o[r], "ok", Good), "ok") EXCEPT !.sent = @ \cup shown \cup {"DONE"}])
  /\ UNCHANGED OShared
-----------------------------------------------------------------------------
(* The store, clients that leave. *)

\* A stream's breaker hears of it only after the store.
OStop(r, stored) ==
  LET x == [OEnd(o[r], "ok") EXCEPT !.stored = stored]
  IN IF OB(r).stream THEN [Sent(x, "DONE") EXCEPT !.ticks = @ \o Good] ELSE x

\* A response that does not stream is stored whatever "store" says.
OStoreResponse(r) ==
  /\ o[r].at = "store"
  /\ \/ /\ responses' = WithResponse(r, o[r].out)
        /\ IF OB(r).conv THEN OStep(r, [o[r] EXCEPT !.at = "link", !.stored = "yes", !.todo = <<"message">> \o o[r].out])
           ELSE OStep(r, OStop(r, "yes"))
     \/ OStep(r, OStop(r, "failed")) /\ UNCHANGED responses
  /\ UNCHANGED <<q, requested, connected, conversation>>

OLinkItem(r) ==
  /\ o[r].at = "link"
  /\ \/ /\ conversation.exists /\ o[r].todo # <<>>
        /\ conversation' = [conversation EXCEPT !.items = Append(@, Head(o[r].todo))]
        /\ OStep(r, [o[r] EXCEPT !.todo = Tail(@)])
     \/ OStep(r, OStop(r, "yes")) /\ UNCHANGED conversation
  /\ UNCHANGED <<q, requested, connected, responses>>

\* What runs in a task of its own notices later; a handler is dropped.
OLeave(r) ==
  /\ o[r].at \notin {"new", "end"} /\ ~o[r].gone
  /\ IF OB(r).stream /\ (o[r].active \/ o[r].at \in {"pass", "store", "link"})
       THEN OStep(r, [o[r] EXCEPT !.gone = TRUE]) ELSE OStep(r, OEnd(o[r], "dropped"))
  /\ UNCHANGED OShared

OAdvance(r) ==
  \/ SelectWorkerForModel(r) \/ RefreshExternalModels(r)
  \/ OLoadChain(r) \/ OLoadConversation(r) \/ RefusePayload(r) \/ OConnect(r)
  \/ ChatFails(r) \/ ChatRefused(r) \/ ChatAnswered(r)
  \/ SingleFails(r) \/ SingleAnswered(r)
  \/ PassChunk(r) \/ PassCancelled(r) \/ PassBreaks(r) \/ PassEnds(r)
  \/ LoopFails(r) \/ LoopAbandoned(r) \/ LoopAnswered(r)
  \/ Intercept(r) \/ ExecuteTools(r) \/ InterceptCancelled(r) \/ InterceptBreaks(r) \/ InterceptEnds(r)
  \/ ReachLimit(r) \/ BeginTools(r) \/ CallTool(r) \/ LoopFinal(r) \/ InterceptFinal(r)
  \/ OStoreResponse(r) \/ OLinkItem(r)

OEnded == AllEnded /\ \A r \in OReqs : o[r].at = "end"

ODeleteConversation ==
  /\ conversation.exists /\ \E r \in OReqs : OB(r).conv
  /\ conversation' = [conversation EXCEPT !.exists = FALSE]
  /\ UNCHANGED <<o, q, requested, connected, responses>>

ONext ==
  \/ \E r \in Reqs : (Advance(r) \/ Leave(r)) /\ UNCHANGED o
  \/ DeleteConversation /\ UNCHANGED o
  \/ \E r \in OReqs : OAdvance(r) \/ OLeave(r)
  \/ ODeleteConversation
  \/ OEnded /\ UNCHANGED ovars

OSpec ==
  /\ OInit /\ [][ONext]_ovars
  /\ \A r \in UNION {DOMAIN w : w \in Workloads} : WF_ovars(r \in Reqs /\ Advance(r) /\ UNCHANGED o)
  /\ \A r \in UNION {DOMAIN w : w \in OWorkloads} : WF_ovars(r \in OReqs /\ OAdvance(r))
-----------------------------------------------------------------------------
(* Properties. *)

\* Six loops, one bound: no chain of runs makes more calls of MCP servers than
\* max_tool_calls and the safety limit allow, calls whose result nobody took included.
CallsWithinLimit == ToolLimit /\ \A r \in OReqs : o[r].made <= OLimit(r)

\* When a model is asked again it is given its own question and the result of
\* every call made so far.
EveryResultFed ==
  /\ ResultsReachModel
  /\ \A r \in OReqs : Looped(r) => "own" \in ToSet(o[r].input) /\ Count("called", o[r].input) = o[r].made

\* A tool loop keeps to its limit, and its model hears of every call.
ToolLoopsSound == CallsWithinLimit /\ EveryResultFed

\* A completed event closes the book: no two items shown share an output index,
\* none is left open, and every call the stream showed is in the final object.
CompletedClosesAll ==
  /\ CompletedIsWhole
  /\ \A r \in OReqs : "completed" \in o[r].sent /\ ~o[r].cut =>
       /\ \A i, j \in DOMAIN o[r].items : o[r].items[i].index = o[r].items[j].index => i = j
       /\ \A i \in DOMAIN o[r].items : o[r].items[i].wire = "closed"
       /\ Cardinality({i \in DOMAIN o[r].items : o[r].items[i].type = "mcp_call"}) = o[r].made

\* When a request is over the breaker has heard of every exchange that failed,
\* and of no success that was none.
FailuresHeard ==
  \A r \in OReqs : o[r].at = "end" =>
    /\ Count("failed", o[r].ticks) >= Count("failed", o[r].exchanges)
    /\ Count("ok", o[r].ticks) <= Count("ok", o[r].exchanges)

\* A passed-through response that is to be stored is read to its end whether or
\* not the client stays, and what broke off with an error is never stored.
StoredUnlessBroken ==
  \A r \in OReqs : o[r].at = "end" /\ ~OB(r).chat /\ OB(r).stream /\ (OB(r).store \/ OB(r).conv) =>
    /\ (o[r].begun /\ ~o[r].active) => (o[r].stored # "no" \/ Count("failed", o[r].exchanges) > 0)
    /\ o[r].stored = "yes" => Count("failed", o[r].exchanges) = 0 /\ r \in DOMAIN responses

\* Every request that was accepted ends.
AllRequestsEnd ==
  /\ EveryRequestEnds
  /\ \A r \in UNION {DOMAIN w : w \in OWorkloads} :
       (r \in OReqs /\ o[r].at # "new") ~> (r \in OReqs => o[r].at = "end")
=============================================================================
