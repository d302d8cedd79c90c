-------------------------- MODULE MCWorkerRegistry --------------------------
EXTENDS WorkerRegistry

\* Two workers of one model, one of which may come back with another model.
Offer(u, m, t) == [url |-> u, model |-> m, type |-> t, mode |-> "http"]
TwoUrls == {Offer("u1", "m1", "regular"), Offer("u2", "m1", "decode"), Offer("u2", "m2", "decode")}
=============================================================================
