---------------------------- MODULE HarmonyParser ----------------------------
(***************************************************************************)
(* The Harmony output parser (routers/grpc/harmony/parser.rs): what a      *)
(* complete answer is parsed into, and the deltas a stream is parsed into. *)
(*                                                                         *)
(* The tokens of the model are those that StreamableParser of the harmony  *)
(* crate tells apart: the end of a header, which names channel and         *)
(* recipient, a piece of text, and the end of a message.  Text is counted  *)
(* in pieces.  All messages are the assistant's.                           *)
(***************************************************************************)
EXTENDS Naturals, Sequences, SequencesExt

CONSTANTS
    ToolNames,   \* recipients "functions.<name>"
    Builtin,      \* a recipient that is a built-in tool ("python", "browser", "container")
    None

Channels == {"analysis", "commentary", "final"}

HeaderTokens ==
    [is : {"open"}, ch : {"analysis", "commentary"}, to : ToolNames \cup {None}]
        \cup [is : {"open"}, ch : {"commentary"}, to : {Builtin}]
        \cup [is : {"open"}, ch : {"final"}, to : {None}]
Text == [is |-> "text"]
End == [is |-> "end"]

-----------------------------------------------------------------------------
(* StreamableParser *)

\* msgs: finished messages; cur: the message whose content is being read, or None.
NoTokens == [msgs |-> <<>>, cur |-> None]

\* The tokens a well-formed output may go on with.
Expected(p) == IF p.cur = None THEN HeaderTokens ELSE {Text, End}

Process(p, tok) ==
    CASE tok.is = "open" -> [p EXCEPT !.cur = [ch |-> tok.ch, to |-> tok.to, n |-> 0]]
      [] tok.is = "text" -> [p EXCEPT !.cur.n = @ + 1]
      [] OTHER -> [msgs |-> Append(p.msgs, p.cur), cur |-> None]

CurrentChannel(p) == IF p.cur = None THEN None ELSE p.cur.ch

-----------------------------------------------------------------------------
(* A complete answer *)

IsCall(msg) == msg.to \in ToolNames

NothingParsed == [analysis |-> 0, calls |-> <<>>, final |-> 0]

\* A message after the others: the recipient decides first, then the channel.  Analysis
\* replaces what was there; built-in tools and stray commentary are added on a new line.
AddMessage(out, msg) ==
    CASE IsCall(msg) -> [out EXCEPT !.calls = Append(@, [name |-> msg.to, args |-> msg.n])]
      [] ~IsCall(msg) /\ msg.n = 0 -> out
      [] ~IsCall(msg) /\ msg.n > 0 /\ (msg.to = Builtin \/ msg.ch = "commentary") ->
             [out EXCEPT !.analysis = IF @ = 0 THEN msg.n ELSE @ + 1 + msg.n]
      [] ~IsCall(msg) /\ msg.n > 0 /\ msg.to # Builtin /\ msg.ch = "analysis" ->
             [out EXCEPT !.analysis = msg.n]
      [] OTHER -> [out EXCEPT !.final = @ + msg.n]

ParseMessages(msgs) == FoldLeft(AddMessage, NothingParsed, msgs)

\* What a message that is cut off adds: text of the analysis or final channel only.
HandleIncomplete(p, out) ==
    CASE p.cur # None /\ CurrentChannel(p) = "analysis" /\ p.cur.n > 0 ->
             [out EXCEPT !.analysis = p.cur.n]
      [] CurrentChannel(p) = "final" -> [out EXCEPT !.final = @ + p.cur.n]
      [] OTHER -> out

\* parse_complete and finalize.  A call overrides the backend's reason.
ParseComplete(p, reason) ==
    LET out == HandleIncomplete(p, ParseMessages(p.msgs)) IN
    [out |-> out, finish |-> IF out.calls # <<>> THEN "tool_calls" ELSE reason]

-----------------------------------------------------------------------------
(* A stream *)

\* p: the tokens so far; prev: prev_recipient.
NothingStreamed == [p |-> NoTokens, prev |-> None]
NoDelta == [any |-> FALSE, analysis |-> 0, final |-> 0, args |-> 0, call |-> None]

\* One token of a chunk: each delta of the analysis and final channels takes the place of
\* the one before; those of the commentary channel are collected.
Feed(acc, tok) ==
    LET q == Process(acc.p, tok)
        d == acc.delta IN
    [p |-> q,
     delta |-> CASE tok.is # "text" -> d
                 [] tok.is = "text" /\ CurrentChannel(q) = "analysis" -> [d EXCEPT !.any = TRUE, !.analysis = 1]
                 [] tok.is = "text" /\ CurrentChannel(q) = "final" -> [d EXCEPT !.any = TRUE, !.final = 1]
                 [] OTHER -> [d EXCEPT !.any = TRUE, !.args = @ + 1]]

\* Variant: the index counts every finished message.
BaseIndexAll(p) == Len(p.msgs)

\* Calls that are over; the one being read has this index.
BaseIndex(p) == Len(SelectSeq(p.msgs, LAMBDA msg : msg.ch = "commentary" /\ IsCall(msg)))

\* parse_chunk: the delta of the chunk and the state after it.  A call is announced when
\* the recipient is not the previous one; the arguments of that chunk are left out.
ParseChunk(st, toks) ==
    LET fed == FoldLeft(Feed, [p |-> st.p, delta |-> NoDelta], toks)
        q == fed.p
        calling == CurrentChannel(q) = "commentary" /\ q.cur.to \in ToolNames
        new == calling /\ q.cur.to # st.prev
        call == CASE new -> [index |-> BaseIndex(q), name |-> q.cur.to, args |-> 0]
                  [] calling /\ ~new /\ fed.delta.args > 0 ->
                         [index |-> BaseIndex(q), name |-> None, args |-> fed.delta.args]
                  [] OTHER -> None IN
    [st |-> [p |-> q, prev |-> IF new THEN q.cur.to ELSE st.prev],
     delta |-> [fed.delta EXCEPT !.any = @ \/ calling, !.call = call]]
=============================================================================
