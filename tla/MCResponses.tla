---------------------------- MODULE MCResponses ----------------------------
EXTENDS Conversations
CONSTANTS r1, r2, s1, s2, k1, k2, k3, i1, i2
MCOutputs == {<<"done">>, <<"text", "done">>, <<"reasoning", "text", "mcp", "done">>,
              <<"mcp", "mcp", "done">>, <<"mcp", "fn", "done">>, <<"fn", "done">>, <<"text", "fn", "done">>,
              <<"mcp", "half_mcp", "done">>, <<"half_mcp", "done">>, <<"text", "half_fn", "done">>}
Body(h, s, srv, m) == [harmony |-> h, stream |-> s, servers |-> srv, max |-> m,
                       prev |-> NoReq, conv |-> FALSE, store |-> TRUE]
\* Each path alone; then pairs that meet: in the context and the manager, and in
\* the store, where one response continues the other in the same conversation.
MCWorkloads ==
  {r1 :> Body(h, s, srv, m) : h \in BOOLEAN, s \in BOOLEAN, srv \in {{}, {s1}}, m \in {1, NoLimit}}
  \cup {(r1 :> Body(h, FALSE, {s1}, 1)) @@ (r2 :> Body(h, FALSE, {s2}, 1)) : h \in BOOLEAN}
  \cup {(r1 :> [Body(h, s, {}, NoLimit) EXCEPT !.conv = TRUE])
          @@ (r2 :> [Body(h, s, {}, NoLimit) EXCEPT !.prev = r1, !.conv = TRUE])
        : h \in BOOLEAN, s \in {FALSE}}
OBody(c, s, srv, m, st) == [chat |-> c, stream |-> s, servers |-> srv, max |-> m,
                            prev |-> NoReq, conv |-> FALSE, store |-> st]
MCOWorkloads ==
  {r1 :> OBody(FALSE, s, srv, m, st) : s \in BOOLEAN, srv \in {{}, {s1}}, m \in {1, NoLimit}, st \in BOOLEAN}
  \cup {r1 :> OBody(TRUE, s, {}, NoLimit, FALSE) : s \in BOOLEAN}
  \cup {(r1 :> [OBody(FALSE, s, {}, NoLimit, TRUE) EXCEPT !.conv = TRUE])
          @@ (r2 :> [OBody(FALSE, s, {}, NoLimit, FALSE) EXCEPT !.prev = r1, !.conv = TRUE])
        : s \in {FALSE}}
\* One handler of each kind, and two updates and two creations that meet.
Add(kind, i, v) == [kind |-> kind, id |-> i, valid |-> v]
MCCWorkloads ==
  {(1 :> [op |-> "create", keys |-> ks]) @@ (2 :> [op |-> "update", set |-> {k2}, null |-> {}])
     @@ (3 :> [op |-> "update", set |-> {k3}, null |-> n]) @@ (4 :> [op |-> "delete"])
   : ks \in {{k1}, {k1, k2, k3}}, n \in {{}, {k1}}}
  \cup {(1 :> [op |-> "create", keys |-> {}])
         @@ (2 :> [op |-> "items", items |-> <<Add("given", i1, TRUE), Add("new", i2, v)>>])
         @@ (3 :> [op |-> "items", items |-> <<Add("reference", i1, v), Add("given", i1, v)>>])
         @@ (4 :> x)
       : v \in BOOLEAN, x \in {[op |-> "unlink", id |-> i1], [op |-> "get", id |-> i1],
                               [op |-> "list"], [op |-> "items", items |-> <<1, 2, 3>>]}}
=============================================================================
