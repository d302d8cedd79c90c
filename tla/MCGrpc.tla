------------------------------- MODULE MCGrpc -------------------------------
(* An instance of GrpcStreaming for TLC: what the requests may ask for. *)
EXTENDS GrpcStreaming

CONSTANTS r1, r2, w2

Ask(kind, str, logprobs, rid, n, reasoning, tools) ==
    [kind |-> kind, stream |-> str, logprobs |-> logprobs, rid |-> rid, n |-> n,
     reasoning |-> reasoning, tools |-> tools]
Plain(kind, str) == Ask(kind, str, FALSE, FALSE, 1, FALSE, "none")

Both(a, b) == [r \in {r1, r2} |-> IF r = r1 THEN a ELSE b]
Alone(a) == Both(a, Plain(None, FALSE))

On(pdRouter, vllmWorkers, asks) == {[pd |-> pdRouter, vllm |-> vllmWorkers, input |-> x] : x \in asks}

\* Two at a time on the same workers; one at a time where the stream is what matters.
MCScenarios ==
    On(TRUE, {}, {Alone(Plain("chat", FALSE)), Alone(Plain("generate", FALSE)),
                  Alone(Ask("chat", TRUE, TRUE, FALSE, 1, FALSE, "none")),
                  Alone(Ask("chat", TRUE, FALSE, FALSE, 1, FALSE, "none")),
                  Alone(Ask("generate", TRUE, TRUE, TRUE, 1, FALSE, "none"))})
    \cup On(TRUE, {w2}, {Alone(Plain("chat", FALSE))})
    \cup On(FALSE, {}, {Both(Plain("embed", FALSE), Ask("generate", TRUE, FALSE, TRUE, 1, FALSE, "none")),
                        Both(Plain("embed", FALSE), Plain("chat", FALSE)),
                        Alone(Plain("classify", FALSE)), Alone(Plain("harmony", FALSE)),
                        Alone(Plain("harmony", TRUE)),
                        Alone(Ask("harmony", TRUE, TRUE, FALSE, 1, FALSE, "none")),
                        Alone(Ask("chat", TRUE, FALSE, FALSE, 1, TRUE, "auto")),
                        Alone(Ask("chat", TRUE, FALSE, FALSE, 1, TRUE, "specific"))})
    \cup On(FALSE, {w2}, {Alone(Plain("embed", FALSE)), Alone(Plain("harmony", FALSE)),
                          Alone(Ask("chat", TRUE, FALSE, FALSE, 2, FALSE, "none"))})
=============================================================================
