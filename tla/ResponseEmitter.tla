-------------------------- MODULE ResponseEmitter --------------------------
(***************************************************************************)
(* The emitter of Responses API events: which output items a streaming     *)
(* response has, what the emitter keeps of each for the final object, and  *)
(* what of each has been handed to the client's channel.  An emitter is a  *)
(* record; every operator returns the emitter after the calls it stands    *)
(* for.  Texts, ids and sequence numbers are left out.                     *)
(***************************************************************************)
EXTENDS Integers, Sequences, SequencesExt, FiniteSets

\* The elements of s at the positions in K, in their order.
Keep(s, K) ==
  [n \in 1..Cardinality(K) |-> s[CHOOSE i \in K : Cardinality({j \in K : j <= i}) = n]]

Repeat(x, n) == [i \in 1..n |-> x]

ItemTypes == {"message", "reasoning", "mcp_list_tools", "mcp_call", "function_call"}

NoItem == 0

\* status and data are what emit_completed and finalize read; wire is what the
\* client has seen of the item.
NewEmitter == [items |-> <<>>, message |-> NoItem, part |-> FALSE, sent |-> {}]

Sent(e, event) == [e EXCEPT !.sent = @ \cup {event}]

Created(e) == Sent(Sent(e, "created"), "in_progress")

Allocate(e, t) ==
  [e EXCEPT !.items = Append(@, [type |-> t, status |-> "in_progress", data |-> "none", wire |-> "unseen"])]

Newest(e) == Len(e.items)

Added(e, i) == [e EXCEPT !.items[i].wire = "open"]

\* output_item.done stores the data that the final object is made of.
Done(e, i) == [e EXCEPT !.items[i].wire = "closed", !.items[i].data = "done"]

CompleteItem(e, i) == [e EXCEPT !.items[i].status = "completed"]

OpenItem(e, t) == LET f == Allocate(e, t) IN Added(f, Newest(f))

CloseItem(e, i) == CompleteItem(Done(e, i), i)

\* An item with nothing to stream is opened and closed at once.
WholeItem(e, t) == LET f == OpenItem(e, t) IN CloseItem(f, Newest(f))

\* A content delta: the message item is allocated for the first one.
TextChunk(e) ==
  LET f == IF e.message = NoItem
             THEN LET g == OpenItem(e, "message") IN [g EXCEPT !.message = Newest(g)]
             ELSE e
  IN [f EXCEPT !.part = TRUE]

\* finish_reason stop or length without any content before it unwraps None.
FinishPanics(e) == e.message = NoItem

FinishChunk(e) == CloseItem(e, e.message)

\* update_mcp_call_outputs: calls are the items of the calls made, in the order of their
\* results.  A call that was never shown has none; an item without data is not looked at.
CallOutputs(e, calls, results) ==
  LET mine(k) == {n \in DOMAIN results : n \in DOMAIN calls /\ calls[n] = k}
      told == {k \in DOMAIN e.items :
                 e.items[k].type = "mcp_call" /\ e.items[k].data # "none" /\ mine(k) # {}}
  IN [e EXCEPT !.items = [k \in DOMAIN @ |->
        IF k \in told THEN [@[k] EXCEPT !.data = results[CHOOSE n \in mine(k) : TRUE]] ELSE @[k]]]

Types(items) == [k \in DOMAIN items |-> items[k].type]

\* What response.completed lists: completed items, or else a generic message.
CompletedOutput(e) ==
  LET listed == {i \in DOMAIN e.items : e.items[i].status = "completed" /\ e.items[i].data # "none"}
  IN IF listed = {} THEN <<"message">> ELSE Types(Keep(e.items, listed))

\* What is stored: every item with data.
Finalize(e) == Types(Keep(e.items, {i \in DOMAIN e.items : e.items[i].data # "none"}))

Completed(e) == Sent(e, "completed")

EmitError(e) == Sent(e, "error")
=============================================================================
