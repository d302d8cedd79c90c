----------------------------- MODULE GrpcProofs -----------------------------
(***************************************************************************)
(* Proofs about the gRPC routers (GrpcPipeline, GrpcStreaming), for any    *)
(* requests, workers, scenarios and numbers of retries and tokens: load    *)
(* counters equal the guards that are alive, backend streams are settled   *)
(* by what happened to them, however late an abort arrives, and what the   *)
(* client of a stream is sent is well-formed.                              *)
(*                                                                         *)
(* The first two rest on GrpcInv.  Each request by itself: where its       *)
(* handler or task is decides what has become of its two backend streams   *)
(* and of its guards.  Between requests and the wire: an abort under way   *)
(* carries an id that no stream that is open goes by, unless the client    *)
(* chose it.  The third rests on GrammarInv, which relates the task's      *)
(* state of each choice to what the client has been sent of it.            *)
(***************************************************************************)
EXTENDS GrpcStreaming, Integers, FiniteSetTheorems, TLAPS

Bare == {"new", "acquire", "build", "calling"}                   \* no stream yet
Open == {"collect", "collectout", "start", "prefill", "stream"}  \* streams to be read
Over == {"process", "backoff", "ended", "done", "gone"}          \* streams settled
Places == Bare \cup Open \cup Over

Streams == [Ends -> [fate : {"none", "open", "completed", "aborted"}, read : {"no", "broken", "end"}]]

\* What worker selection picks.
Picks == {<<>>} \cup {<<w>> : w \in Workers} \cup {<<p, d>> : p \in Prefills, d \in Workers \ Prefills}

HandlerType ==
    /\ load \in [Workers -> Int]
    /\ pd \in BOOLEAN /\ input \in [Requests -> Asks]
    /\ pc \in [Requests -> Places]
    /\ attempt \in [Requests -> Nat]
    /\ picked \in [Requests -> Picks]
    /\ guards \in [Requests -> {"none", "context", "body"}]
    /\ rpc \in [Requests -> Streams]
    /\ DOMAIN tail = Requests

TailType(t) == t.errors \in Nat /\ t = [errors |-> t.errors, dones |-> t.dones, usage |-> t.usage]

\* The guards of an attempt are made by its dispatch and go with it.
GuardsKept(r) ==
    /\ pc[r] \in {"new", "acquire", "build", "backoff"} => guards[r] = "none"
    /\ pc[r] = "calling" => guards[r] = "context"
    /\ pc[r] \in {"acquire", "build", "calling"} => picked[r] # <<>>

\* How the streams of an attempt stand.
StreamsKept(r) ==
    /\ pc[r] \in Bare => \A e \in Ends : rpc[r][e].fate = "none"
    /\ pc[r] \in Open => /\ rpc[r]["out"].fate = "open"
                         /\ rpc[r]["prefill"].fate = IF pd THEN "open" ELSE "none"
    /\ pc[r] \in Over => \A e \in Ends : rpc[r][e].fate # "open"
    /\ pc[r] \notin {"ended", "done", "gone"} => tail[r].errors = 0

Settled(r) ==
    (\E e \in Ends : rpc[r][e].fate = "completed") =>
        /\ rpc[r]["out"].read = "end" /\ tail[r].errors = 0
        /\ \A e \in Ends : rpc[r][e].fate \in {"completed", "none"}

Own(r) == TailType(tail[r]) /\ GuardsKept(r) /\ StreamsKept(r) /\ Settled(r)

\* Request r has a guard of worker w.
Holds(r, w) == guards[r] # "none" /\ \E i \in DOMAIN picked[r] : picked[r][i] = w

\* Aborts name attempts that were made; and one of an attempt that can still have an open
\* stream names another attempt, if the id is the gateway's.
AbortInv ==
    /\ \A a \in aborts : a[2] \in Requests \X Nat /\ a[2][2] <= attempt[a[2][1]]
    /\ \A r \in Requests : ~input[r].rid /\ pc[r] \in Bare \cup Open =>
           \A a \in aborts : a[2] # <<r, attempt[r]>>
    /\ ~struck

GrpcInv ==
    /\ HandlerType
    /\ \A r \in Requests : Own(r)
    /\ GuardsExact
    /\ AbortInv

core == <<load, pd, input, pc, attempt, picked, guards, rpc, tail, aborts, struck>>

\* A step of request r leaves the others as they are.
Frame(r) ==
    /\ UNCHANGED <<pd, input>>
    /\ \A q \in Requests \ {r} : /\ pc'[q] = pc[q] /\ attempt'[q] = attempt[q] /\ picked'[q] = picked[q]
                                 /\ guards'[q] = guards[q] /\ rpc'[q] = rpc[q] /\ tail'[q] = tail[q]

\* What a step of request r does to the guards and the loads.
LoadStep(r) ==
    \/ load' = load /\ \A w \in Workers : Holds(r, w)' <=> Holds(r, w)
    \/ DropGuards(r) /\ picked' = picked
    \/ /\ load' = Loaded(load, picked[r]) /\ picked' = picked
       /\ guards[r] = "none" /\ guards'[r] # "none"

\* And to its aborts and attempts.
WireStep(r) ==
    /\ struck' = struck
    /\ \/ aborts' = aborts /\ attempt'[r] = attempt[r] /\ (pc'[r] \in Bare \cup Open => pc[r] \in Bare \cup Open)
       \/ aborts' = aborts /\ attempt'[r] = attempt[r] + 1
       \/ /\ attempt'[r] = attempt[r] /\ pc'[r] \in Over
          /\ \E streams : aborts' = aborts \cup AbortsOf(r, streams)

-----------------------------------------------------------------------------
(* Guards and loads *)

\* An attempt has at most one guard of a worker: a pair is of two workers.
LEMMA PickedOnce ==
    ASSUME NEW ws \in Picks, NEW w \in Workers
    PROVE  Cardinality({i \in DOMAIN ws : ws[i] = w}) = IF \E i \in DOMAIN ws : ws[i] = w THEN 1 ELSE 0
<1> DEFINE At == {i \in DOMAIN ws : ws[i] = w}
<1>1. CASE ~ \E i \in DOMAIN ws : ws[i] = w
  <2>1. At = {}
    BY <1>1
  <2> QED
    BY <1>1, <2>1, FS_EmptySet
<1>2. ASSUME NEW i \in DOMAIN ws, ws[i] = w
      PROVE  Cardinality(At) = 1
  <2>1. \A j \in DOMAIN ws : ws[j] = w => j = i
    BY <1>2, PipelineAssumption DEF Picks
  <2>2. At = {i}
    BY <1>2, <2>1
  <2> QED
    BY <2>2, FS_Singleton
<1> QED
  BY <1>1, <1>2

\* The loads that are left when guards go.
LEMMA DropGuardsType ==
    ASSUME NEW r \in Requests, HandlerType, DropGuards(r)
    PROVE  load' \in [Workers -> Int]
<1>1. CASE guards[r] = "none"
  BY <1>1 DEF HandlerType, DropGuards
<1>2. CASE guards[r] # "none"
  <2>1. PICK ws \in Picks : ws = picked[r]
    BY DEF HandlerType
  <2>2. \A w \in Workers : Cardinality({i \in DOMAIN ws : ws[i] = w}) \in Int
    BY PickedOnce
  <2>3. load' = [w \in Workers |-> load[w] - Cardinality({i \in DOMAIN ws : ws[i] = w})]
    BY <1>2, <2>1 DEF DropGuards, Unloaded
  <2> QED
    BY <2>2, <2>3 DEF HandlerType
<1> QED
  BY <1>1, <1>2

\* The requests that hold a worker change by r at most.
LEMMA HoldersOf ==
    ASSUME NEW r \in Requests, NEW w \in Workers, Frame(r), NEW H,
           H = {q \in Requests : Holds(q, w)}
    PROVE  /\ IsFiniteSet(H) /\ Cardinality(H) \in Nat
           /\ {q \in Requests : Holds(q, w)}' = IF Holds(r, w)' THEN H \cup {r} ELSE H \ {r}
<1>1. IsFiniteSet(H)
  BY FS_Subset, PipelineAssumption
<1>2. \A q \in Requests \ {r} : Holds(q, w)' <=> Holds(q, w)
  BY DEF Frame, Holds
<1>3. {q \in Requests : Holds(q, w)}' = {q \in Requests : Holds(q, w)'}
  OBVIOUS
<1> QED
  BY <1>1, <1>2, <1>3, FS_CardinalityType

\* Loads stay exact.
LEMMA LoadsKept ==
    ASSUME NEW r \in Requests, HandlerType, GuardsExact, Frame(r), LoadStep(r)
    PROVE  GuardsExact'
<1> SUFFICES ASSUME NEW w \in Workers
             PROVE  load'[w] = Cardinality({q \in Requests : Holds(q, w)}')
  BY DEF GuardsExact, Holds
<1>h. PICK H : H = {q \in Requests : Holds(q, w)}
  OBVIOUS
<1>n. PICK N : N = {q \in Requests : Holds(q, w)}'
  OBVIOUS
<1>d. PICK A, D : A = H \cup {r} /\ D = H \ {r}
  OBVIOUS
<1> SUFFICES load'[w] = Cardinality(N)
  BY <1>n
<1>1. load[w] = Cardinality(H)
  BY <1>h DEF GuardsExact, Holds
<1>2. /\ IsFiniteSet(H) /\ Cardinality(H) \in Nat
      /\ N = IF Holds(r, w)' THEN A ELSE D
  BY <1>h, <1>n, <1>d, HoldersOf
<1>3. r \in H <=> Holds(r, w)
  BY <1>h
<1>4. Cardinality(A) = IF r \in H THEN Cardinality(H) ELSE Cardinality(H) + 1
  BY <1>2, <1>d, FS_AddElement
<1>5. Cardinality(D) = IF r \in H THEN Cardinality(H) - 1 ELSE Cardinality(H)
  BY <1>2, <1>d, FS_RemoveElement
<1>6. PICK ws : ws = picked[r]
  OBVIOUS
<1>7. PICK held \in {0, 1} : /\ held = Cardinality({i \in DOMAIN ws : ws[i] = w})
                             /\ held = 1 <=> \E i \in DOMAIN ws : ws[i] = w
  BY <1>6, PickedOnce DEF HandlerType
<1>8. CASE load' = load /\ \A v \in Workers : Holds(r, v)' <=> Holds(r, v)
  BY <1>1, <1>2, <1>3, <1>4, <1>5, <1>8
<1>9. CASE DropGuards(r) /\ picked' = picked
  <2>1. ~Holds(r, w)'
    BY <1>9 DEF DropGuards, Put, Holds, HandlerType
  <2>2. CASE guards[r] = "none"
    BY <1>1, <1>2, <1>3, <1>5, <1>9, <2>1, <2>2 DEF DropGuards, Holds
  <2>3. CASE guards[r] # "none"
    <3>1. load'[w] = load[w] - held
      BY <1>6, <1>7, <1>9, <2>3 DEF DropGuards, Unloaded
    <3>2. Holds(r, w) <=> held = 1
      BY <1>6, <1>7, <2>3 DEF Holds
    <3>3. N = D
      BY <1>2, <2>1
    <3>4. held = IF r \in H THEN 1 ELSE 0
      BY <1>3, <1>7, <3>2
    <3> QED
      BY <1>1, <1>2, <1>5, <3>1, <3>3, <3>4
  <2> QED
    BY <2>2, <2>3
<1>10. CASE /\ load' = Loaded(load, picked[r]) /\ picked' = picked
            /\ guards[r] = "none" /\ guards'[r] # "none"
  <2>1. load'[w] = load[w] + held
    BY <1>6, <1>7, <1>10 DEF Loaded
  <2>2. Holds(r, w)' <=> held = 1
    BY <1>6, <1>7, <1>10 DEF Holds
  <2>3. ~Holds(r, w)
    BY <1>10 DEF Holds
  <2>4. r \notin H
    BY <1>3, <2>3
  <2>5. CASE held = 1
    BY <1>1, <1>2, <1>4, <2>1, <2>2, <2>4, <2>5
  <2>6. CASE held = 0
    BY <1>1, <1>2, <1>5, <2>1, <2>2, <2>4, <2>6
  <2> QED
    BY <1>7, <2>5, <2>6
<1> QED
  BY <1>8, <1>9, <1>10 DEF LoadStep

-----------------------------------------------------------------------------
(* Steps of one request *)

LEMMA AbortsKept ==
    ASSUME NEW r \in Requests, HandlerType, AbortInv, Frame(r), WireStep(r)
    PROVE  AbortInv'
<1>1. /\ attempt[r] \in Nat /\ attempt'[r] \in {attempt[r], attempt[r] + 1}
      /\ \A q \in Requests \ {r} : attempt'[q] = attempt[q]
  BY DEF HandlerType, Frame, WireStep
<1>2. \A a \in aborts' : a \in aborts \/ (a[2] = RequestId(r) /\ attempt'[r] = attempt[r] /\ pc'[r] \in Over)
  BY DEF WireStep, AbortsOf
<1>3. /\ RequestId(r) \in Requests \X Nat /\ RequestId(r)[1] = r
      /\ RequestId(r)[2] <= attempt[r]
  BY <1>1 DEF RequestId
<1>4. ASSUME NEW a \in aborts'
      PROVE  a[2] \in Requests \X Nat /\ a[2][2] <= attempt'[a[2][1]]
  <2>1. CASE a \in aborts
    <3>1. a[2] \in Requests \X Nat /\ a[2][2] <= attempt[a[2][1]]
      BY <2>1 DEF AbortInv
    <3>2. a[2][1] \in Requests /\ a[2][2] \in Nat
      BY <3>1
    <3>3. attempt[a[2][1]] \in Nat /\ attempt[a[2][1]] <= attempt'[a[2][1]] /\ attempt'[a[2][1]] \in Nat
      BY <1>1, <3>2 DEF HandlerType
    <3> QED
      BY <3>1, <3>2, <3>3
  <2>2. CASE a[2] = RequestId(r) /\ attempt'[r] = attempt[r]
    BY <1>3, <2>2
  <2> QED
    BY <1>2, <2>1, <2>2
<1>5. ASSUME NEW q \in Requests, ~input'[q].rid, pc'[q] \in Bare \cup Open, NEW a \in aborts'
      PROVE  a[2] # <<q, attempt'[q]>>
  <2>0. ~input[q].rid
    BY <1>5 DEF Frame
  <2>1. CASE q # r
    <3>1. attempt'[q] = attempt[q] /\ pc[q] \in Bare \cup Open
      BY <1>5, <2>1 DEF Frame
    <3>2. CASE a \in aborts
      BY <2>0, <3>1, <3>2 DEF AbortInv
    <3>3. CASE a[2] = RequestId(r)
      BY <1>3, <2>1, <3>3
    <3> QED
      BY <1>2, <3>2, <3>3
  <2>2. CASE q = r /\ attempt'[r] = attempt[r]
    <3>1. a \in aborts /\ pc[r] \in Bare \cup Open
      BY <1>1, <1>2, <1>5, <2>2 DEF WireStep, Bare, Open, Over
    <3> QED
      BY <2>0, <2>2, <3>1 DEF AbortInv
  <2>3. CASE q = r /\ attempt'[r] = attempt[r] + 1
    <3>1. a \in aborts
      BY <1>1, <1>2, <2>3
    <3>2. a[2] \in Requests \X Nat /\ a[2][2] <= attempt[a[2][1]]
      BY <3>1 DEF AbortInv
    <3> QED
      BY <1>1, <2>3, <3>2
  <2> QED
    BY <1>1, <2>1, <2>2, <2>3
<1>6. ~struck'
  BY DEF AbortInv, WireStep
<1> QED
  BY <1>4, <1>5, <1>6 DEF AbortInv

\* The requirements on a step of one request.
LEMMA StepKept ==
    ASSUME NEW r \in Requests, GrpcInv, HandlerType', Frame(r), LoadStep(r), WireStep(r), Own(r)'
    PROVE  GrpcInv'
<1>1. \A q \in Requests \ {r} : Own(q)'
  BY DEF GrpcInv, Frame, Own, GuardsKept, StreamsKept, Settled, TailType
<1>2. GuardsExact' /\ AbortInv'
  BY LoadsKept, AbortsKept DEF GrpcInv
<1> QED
  BY <1>1, <1>2 DEF GrpcInv

LEMMA QuietKept ==
    ASSUME GrpcInv, UNCHANGED core
    PROVE  GrpcInv'
<1>1. \A r \in Requests : Own(r)'
  BY DEF GrpcInv, core, Own, GuardsKept, StreamsKept, Settled, TailType
<1>2. HandlerType' /\ GuardsExact' /\ AbortInv'
  BY DEF GrpcInv, core, HandlerType, GuardsExact, AbortInv
<1> QED
  BY <1>1, <1>2 DEF GrpcInv

\* s is a settled pair of streams of request r.
SettledPair(r, s) ==
    /\ s \in Streams /\ \A e \in Ends : s[e].fate # "open"
    /\ (\E e \in Ends : s[e].fate = "completed") =>
           /\ s["out"].read = "end" /\ tail[r].errors = 0
           /\ \A e \in Ends : s[e].fate \in {"completed", "none"}

\* The step that ends an attempt: the guards go, the streams are settled.
LEMMA DepartureKept ==
    ASSUME GrpcInv, NEW r \in Requests, NEW p \in {"backoff", "done", "gone"}, NEW s,
           pc' = Put(pc, r, p), DropGuards(r), UNCHANGED <<pd, input, attempt, picked, tail>>,
           rpc' = Put(rpc, r, s), SettledPair(r, s),
           p = "backoff" => tail[r].errors = 0,
           struck' = struck, aborts' = aborts \/ \E x : aborts' = aborts \cup AbortsOf(r, x)
    PROVE  GrpcInv'
<1> USE DEF Put
<1>1. HandlerType
  BY DEF GrpcInv
<1>2. p \in Over /\ p \notin Bare /\ p \notin Open
  BY DEF Over, Bare, Open
<1>3. pc'[r] = p /\ rpc'[r] = s /\ guards'[r] = "none" /\ tail'[r] = tail[r]
  BY <1>1 DEF HandlerType, DropGuards
<1>4. Frame(r)
  BY <1>1 DEF HandlerType, DropGuards, Frame
<1>5. HandlerType'
  <2>1. load' \in [Workers -> Int]
    BY <1>1, DropGuardsType
  <2> QED
    BY <1>1, <1>2, <2>1 DEF HandlerType, DropGuards, SettledPair, Places
<1>6. WireStep(r)
  BY <1>2, <1>3 DEF WireStep
<1>7. LoadStep(r)
  BY DEF LoadStep
<1>8. Own(r)'
  <2>1. Own(r)
    BY DEF GrpcInv
  <2> QED
    BY <1>2, <1>3, <2>1 DEF Own, GuardsKept, StreamsKept, Settled, TailType, SettledPair
<1> QED
  BY <1>4, <1>5, <1>6, <1>7, <1>8, StepKept

\* A step that ends no attempt and sends no abort.
LEMMA ProgressKept ==
    ASSUME GrpcInv, NEW r \in Requests, NEW p \in Places, NEW g \in {"none", "context", "body"},
           NEW s \in Streams,
           pc' = Put(pc, r, p), guards' = Put(guards, r, g), rpc' = Put(rpc, r, s),
           UNCHANGED <<pd, input, attempt, tail, aborts, struck>>,
           HandlerType', LoadStep(r), \A q \in Requests \ {r} : picked'[q] = picked[q],
           p \in Bare \cup Open => pc[r] \in Bare \cup Open,
           Own(r)'
    PROVE  GrpcInv'
<1> USE DEF Put
<1>1. HandlerType
  BY DEF GrpcInv
<1>2. Frame(r)
  BY <1>1 DEF HandlerType, Frame
<1>3. WireStep(r)
  BY <1>1 DEF WireStep, HandlerType
<1> QED
  BY <1>2, <1>3, StepKept

\* What the four routes make of a response.
LEMMA AnswerDeparts ==
    ASSUME NEW r \in Requests, NEW s, Answer(r, s)
    PROVE  /\ \E p \in {"backoff", "done"} : pc' = Put(pc, r, p)
           /\ DropGuards(r) /\ UNCHANGED <<attempt, picked>>
BY DEF Answer, ExecuteChat, ExecuteGenerate, ExecuteEmbeddings, ExecuteClassify, Returns,
       RouteChat, RouteChatPd, RouteGenerate, RouteGeneratePd, RouteEmbeddings, RouteClassify, AfterAttempt

\* A pair of streams that is dropped, if none was completed, or none was open.
LEMMA DroppedIsSettled ==
    ASSUME NEW r \in Requests, NEW s \in Streams,
           \/ \A e \in Ends : s[e].fate \in {"none", "open"}
           \/ SettledPair(r, s)
    PROVE  SettledPair(r, Dropped(s))
<1>1. /\ Dropped(s) \in Streams
      /\ \A e \in Ends : /\ s[e].fate = "open" => Dropped(s)[e].fate = "aborted"
                         /\ s[e].fate # "open" => Dropped(s)[e] = s[e]
  BY DEF Dropped, Streams, Ends
<1>2. CASE \A e \in Ends : s[e].fate \in {"none", "open"}
  BY <1>1, <1>2 DEF SettledPair
<1>3. CASE SettledPair(r, s)
  BY <1>1, <1>3 DEF SettledPair, Ends
<1> QED
  BY <1>2, <1>3

\* A request whose streams are settled, or not yet there, is answered.
LEMMA AnswerBareKept ==
    ASSUME GrpcInv, NEW r \in Requests, NEW s, AnswerBare(r, s),
           pc[r] \in Bare \cup {"process"}, UNCHANGED <<pd, input, tail>>
    PROVE  GrpcInv'
<1>1. PICK p \in {"backoff", "done"} : pc' = Put(pc, r, p)
  BY AnswerDeparts DEF AnswerBare
<1>2. DropGuards(r) /\ UNCHANGED <<attempt, picked>>
  BY AnswerDeparts DEF AnswerBare
<1>3. rpc[r] \in Streams /\ rpc' = Put(rpc, r, rpc[r]) /\ aborts' = aborts /\ struck' = struck
  BY DEF AnswerBare, wire, Put, GrpcInv, HandlerType
<1>4. SettledPair(r, rpc[r]) /\ tail[r].errors = 0
  BY <1>3 DEF GrpcInv, Own, StreamsKept, Settled, SettledPair, Bare, Over
<1> QED
  BY <1>1, <1>2, <1>3, <1>4, DepartureKept

-----------------------------------------------------------------------------
(* The pipeline *)

LEMMA RefusesKept ==
    ASSUME GrpcInv, NEW r \in Requests, NEW at \in Bare, NEW failures, Refuses(r, at, failures),
           UNCHANGED tail
    PROVE  GrpcInv'
BY AnswerBareKept DEF Refuses, router

LEMMA PreparingKept ==
    ASSUME GrpcInv, NEW r \in Requests, Preparing(r), UNCHANGED tail
    PROVE  GrpcInv'
<1>1. "new" \in Bare
  BY DEF Bare
<1>2. PICK failures : Refuses(r, "new", failures)
  BY DEF Preparing, PrepareChat, PrepareGenerate, PrepareEmbedding, PrepareHarmony
<1> QED
  BY <1>1, <1>2, RefusesKept

\* The part of the invariant about request r, spelled out.
LEMMA OwnFacts ==
    ASSUME GrpcInv, NEW r \in Requests
    PROVE  /\ HandlerType /\ Own(r) /\ pc[r] \in Places /\ attempt[r] \in Nat /\ picked[r] \in Picks
           /\ guards[r] \in {"none", "context", "body"} /\ rpc[r] \in Streams
           /\ pc = Put(pc, r, pc[r]) /\ picked = Put(picked, r, picked[r])
           /\ guards = Put(guards, r, guards[r]) /\ rpc = Put(rpc, r, rpc[r])
BY DEF GrpcInv, HandlerType, Put

\* A worker, or a pair, is picked for a request that has no guards.
LEMMA PickKept ==
    ASSUME GrpcInv, NEW r \in Requests, pc[r] = "new", NEW ws \in Picks, ws # <<>>,
           picked' = Put(picked, r, ws), pc' = Put(pc, r, "acquire"),
           UNCHANGED <<load, pd, input, attempt, guards, rpc, tail, aborts, struck>>
    PROVE  GrpcInv'
<1> USE DEF Put
<1>1. /\ HandlerType /\ Own(r) /\ guards[r] \in {"none", "context", "body"} /\ rpc[r] \in Streams
      /\ guards' = Put(guards, r, guards[r]) /\ rpc' = Put(rpc, r, rpc[r])
  BY OwnFacts
<1>2. "acquire" \in Bare /\ "new" \in Bare /\ "acquire" \in Places
  BY DEF Bare, Places
<1>3. HandlerType'
  BY <1>1, <1>2 DEF HandlerType
<1>4. guards[r] = "none" /\ guards'[r] = "none"
  BY <1>1 DEF Own, GuardsKept
<1>5. LoadStep(r)
  BY <1>4 DEF LoadStep, Holds
<1>6. Own(r)'
  <2>1. pc'[r] = "acquire" /\ picked'[r] = ws
    BY <1>1 DEF HandlerType
  <2>2. "acquire" \notin Open /\ "acquire" \notin Over
    BY DEF Open, Over
  <2> QED
    BY <1>1, <1>2, <1>4, <2>1, <2>2 DEF Own, GuardsKept, StreamsKept, Settled, TailType
<1>7. \A q \in Requests \ {r} : picked'[q] = picked[q]
  BY <1>1 DEF HandlerType
<1> QED
  BY <1>1, <1>2, <1>3, <1>5, <1>6, <1>7, ProgressKept

LEMMA SelectingKept ==
    ASSUME GrpcInv, NEW r \in Requests, Selecting(r), UNCHANGED tail
    PROVE  GrpcInv'
<1>0. "new" \in Bare /\ "acquire" \in Bare
  BY DEF Bare
<1>1. CASE SelectSingle(r)
  <2>1. CASE Available(Workers) = {}
    BY <1>0, <1>1, <2>1, AnswerBareKept DEF SelectSingle, router
  <2>2. CASE Available(Workers) # {}
    <3>1. PICK w \in Workers : picked' = Put(picked, r, <<w>>)
      BY <1>1, <2>2 DEF SelectSingle, Available
    <3>2. <<w>> \in Picks /\ <<w>> # <<>>
      BY DEF Picks
    <3> QED
      BY <1>1, <2>2, <3>1, <3>2, PickKept DEF SelectSingle, router, wire
  <2> QED
    BY <2>1, <2>2
<1>2. CASE SelectPair(r)
  <2> DEFINE ps == Available(Prefills)
             ds == Available(Workers \ Prefills)
  <2>1. CASE ps = {} \/ ds = {}
    BY <1>0, <1>2, <2>1, AnswerBareKept DEF SelectPair, router
  <2>2. CASE ~(ps = {} \/ ds = {})
    <3>1. PICK p \in Prefills, d \in Workers \ Prefills : picked' = Put(picked, r, <<p, d>>)
      BY <1>2, <2>2 DEF SelectPair, Available
    <3>2. <<p, d>> \in Picks /\ <<p, d>> # <<>>
      BY DEF Picks
    <3> QED
      BY <1>2, <2>2, <3>1, <3>2, PickKept DEF SelectPair, router, wire
  <2> QED
    BY <2>1, <2>2
<1>3. CASE AcquireClients(r)
  <2>1. CASE /\ pc[r] = "acquire" /\ pc' = Put(pc, r, "build")
             /\ UNCHANGED <<worker, router, attempt, picked, guards, rpc, status, wire>>
    <3>1. /\ HandlerType /\ Own(r) /\ guards[r] \in {"none", "context", "body"} /\ rpc[r] \in Streams
          /\ guards' = Put(guards, r, guards[r]) /\ rpc' = Put(rpc, r, rpc[r])
      BY <2>1, OwnFacts
    <3>2. "build" \in Bare /\ "build" \in Places /\ "build" \notin Open /\ "build" \notin Over
      BY DEF Bare, Places, Open, Over
    <3>3. HandlerType'
      BY <2>1, <3>1, <3>2 DEF HandlerType, worker, router, Put
    <3>4. LoadStep(r)
      BY <2>1 DEF LoadStep, Holds, worker
    <3>5. Own(r)'
      <4>1. pc'[r] = "build"
        BY <2>1, <3>1 DEF HandlerType, Put
      <4> QED
        BY <1>0, <2>1, <3>1, <3>2, <4>1
           DEF Own, GuardsKept, StreamsKept, Settled, TailType, router
    <3> QED
      BY <1>0, <2>1, <3>1, <3>2, <3>3, <3>4, <3>5, ProgressKept DEF router, wire
  <2>2. ASSUME NEW failures, Refuses(r, "acquire", failures)
        PROVE  GrpcInv'
    BY <1>0, <2>2, RefusesKept
  <2> QED
    BY <1>3, <2>1, <2>2 DEF AcquireClients
<1> QED
  BY <1>1, <1>2, <1>3 DEF Selecting

LEMMA DispatchKept ==
    ASSUME GrpcInv, NEW r \in Requests, Dispatch(r), UNCHANGED tail
    PROVE  GrpcInv'
<1>1. /\ HandlerType /\ Own(r) /\ rpc[r] \in Streams /\ rpc' = Put(rpc, r, rpc[r])
  BY OwnFacts DEF Dispatch
<1>2. /\ pc[r] = "build" /\ guards' = Put(guards, r, "context") /\ pc' = Put(pc, r, "calling")
      /\ load' = Loaded(load, picked[r])
      /\ UNCHANGED <<pd, input, attempt, picked, rpc, tail, aborts, struck>>
  BY DEF Dispatch, router, wire
<1>3. /\ "build" \in Bare /\ "calling" \in Bare /\ "calling" \in Places
      /\ "calling" \notin Open /\ "calling" \notin Over
  BY DEF Bare, Places, Open, Over
<1>4. guards[r] = "none" /\ guards'[r] = "context" /\ pc'[r] = "calling"
  BY <1>1, <1>2 DEF HandlerType, Own, GuardsKept, Put
<1>5. load' \in [Workers -> Int]
  <2>1. PICK ws \in Picks : ws = picked[r]
    BY <1>1 DEF HandlerType
  <2>2. \A w \in Workers : Cardinality({i \in DOMAIN ws : ws[i] = w}) \in Int
    BY PickedOnce
  <2>3. load' = [w \in Workers |-> load[w] + Cardinality({i \in DOMAIN ws : ws[i] = w})]
    BY <1>2, <2>1 DEF Loaded
  <2> QED
    BY <1>1, <2>2, <2>3 DEF HandlerType
<1>6. HandlerType'
  BY <1>1, <1>2, <1>3, <1>5 DEF HandlerType, Put
<1>7. LoadStep(r)
  BY <1>2, <1>4 DEF LoadStep
<1>8. Own(r)'
  BY <1>1, <1>2, <1>3, <1>4 DEF Own, GuardsKept, StreamsKept, Settled, TailType
<1> QED
  BY <1>1, <1>2, <1>3, <1>6, <1>7, <1>8, ProgressKept

LEMMA BuildingKept ==
    ASSUME GrpcInv, NEW r \in Requests, Building(r), UNCHANGED tail
    PROVE  GrpcInv'
<1>0. "build" \in Bare
  BY DEF Bare
<1>1. CASE Dispatch(r)
  BY <1>1, DispatchKept
<1>2. CASE Refuses(r, "build", {"final"})
  BY <1>0, <1>2, RefusesKept
<1>3. CASE /\ pc[r] = "build" /\ pc' = Put(pc, r, "gone")
           /\ UNCHANGED <<worker, router, attempt, picked, guards, rpc, status, wire>>
  <2>1. HandlerType /\ Own(r) /\ rpc[r] \in Streams /\ rpc' = Put(rpc, r, rpc[r])
    BY <1>3, OwnFacts
  <2>2. guards[r] = "none"
    BY <1>3, <2>1 DEF Own, GuardsKept
  <2>3. DropGuards(r)
    BY <1>3, <2>1, <2>2 DEF DropGuards, Put, HandlerType, worker
  <2>4. SettledPair(r, rpc[r])
    BY <1>0, <1>3, <2>1 DEF Own, StreamsKept, SettledPair
  <2> QED
    BY <1>3, <2>1, <2>3, <2>4, DepartureKept DEF router, wire
<1> QED
  BY <1>1, <1>2, <1>3 DEF Building, BuildChat, BuildGenerate, BuildEmbedding, BuildHarmony

\* The streams are open; the guards stay in the context or move to the body.
LEMMA ProceedKept ==
    ASSUME GrpcInv, NEW r \in Requests, pc[r] = "calling", Proceed(r),
           NEW s \in Streams, rpc' = Put(rpc, r, s), s["out"].fate = "open",
           s["prefill"].fate = IF pd THEN "open" ELSE "none",
           UNCHANGED <<pd, input, tail, aborts, struck>>
    PROVE  GrpcInv'
<1>1. HandlerType /\ Own(r)
  BY OwnFacts
<1>2. /\ \E p \in {"start", "collect"} : pc' = Put(pc, r, p)
      /\ guards' = Put(guards, r, "body") \/ guards' = guards
      /\ UNCHANGED <<load, attempt, picked>>
  BY DEF Proceed, ChatProceeds, GenerateProceeds, HarmonyProceeds, HandOver
<1>3. PICK p \in {"start", "collect"} : pc' = Put(pc, r, p)
  BY <1>2
<1>4. /\ "calling" \in Bare /\ p \in Open /\ p \in Places /\ p \notin Bare /\ p \notin Over
      /\ p \notin {"new", "acquire", "build", "backoff", "calling", "ended", "done", "gone"}
  BY DEF Bare, Places, Open, Over
<1>5. guards[r] = "context"
  BY <1>1 DEF Own, GuardsKept
<1>6. PICK g \in {"context", "body"} : guards' = Put(guards, r, g)
  BY <1>1, <1>2, <1>5 DEF HandlerType, Put
<1>7. pc'[r] = p /\ guards'[r] = g /\ rpc'[r] = s
  BY <1>1, <1>3, <1>6 DEF HandlerType, Put
<1>8. HandlerType'
  BY <1>1, <1>2, <1>3, <1>4, <1>6 DEF HandlerType, Put
<1>9. LoadStep(r)
  BY <1>2, <1>5, <1>7 DEF LoadStep, Holds
<1>10. Own(r)'
  <2>1. \A e \in Ends : s[e].fate # "completed"
    BY DEF Ends
  <2>2. tail[r].errors = 0 /\ TailType(tail[r])
    BY <1>1 DEF Own, StreamsKept
  <2> QED
    BY <1>4, <1>7, <2>1, <2>2 DEF Own, GuardsKept, StreamsKept, Settled, TailType
<1> QED
  BY <1>2, <1>3, <1>4, <1>6, <1>8, <1>9, <1>10, ProgressKept

LEMMA ExecutingKept ==
    ASSUME GrpcInv, NEW r \in Requests, Executing(r), UNCHANGED tail
    PROVE  GrpcInv'
<1>0. HandlerType /\ Own(r) /\ rpc[r] \in Streams /\ "calling" \in Bare
  BY OwnFacts DEF Bare
<1>1. ASSUME NEW ok \in BOOLEAN, ExecuteSingle(r, ok)
      PROVE  GrpcInv'
  <2>1. CASE ok
    <3>1. PICK s : s = [rpc[r] EXCEPT !["out"] = OpenStream]
      OBVIOUS
    <3>2. rpc' = Put(rpc, r, s)
      BY <1>1, <2>1, <3>1 DEF ExecuteSingle, Put
    <3>3. s \in Streams /\ s["out"].fate = "open" /\ s["prefill"] = rpc[r]["prefill"]
      BY <1>0, <3>1 DEF Streams, Ends, OpenStream
    <3>4. s["prefill"].fate = "none" /\ ~pd
      BY <1>0, <1>1, <3>3 DEF Own, StreamsKept, ExecuteSingle, Ends
    <3> QED
      BY <1>1, <2>1, <3>2, <3>3, <3>4, ProceedKept DEF ExecuteSingle, router, wire
  <2>2. CASE ~ok
    BY <1>0, <1>1, <2>2, AnswerBareKept DEF ExecuteSingle, router
  <2> QED
    BY <2>1, <2>2
<1>2. ASSUME NEW p \in BOOLEAN, NEW d \in BOOLEAN, ExecuteDual(r, p, d)
      PROVE  GrpcInv'
  <2>1. PICK s : s = [e \in Ends |-> IF (IF e = "prefill" THEN p ELSE d) THEN OpenStream ELSE NoStream]
    OBVIOUS
  <2>2. s \in Streams /\ \A e \in Ends : s[e].fate \in {"none", "open"}
    BY <2>1 DEF Streams, OpenStream, NoStream
  <2>3. CASE p /\ d
    <3>1. Proceed(r) /\ rpc' = Put(rpc, r, s) /\ UNCHANGED wire
      BY <1>2, <2>1, <2>3 DEF ExecuteDual
    <3>2. s["out"].fate = "open" /\ s["prefill"].fate = "open"
      BY <2>1, <2>3 DEF OpenStream, Ends
    <3> QED
      BY <1>2, <2>2, <3>1, <3>2, ProceedKept DEF ExecuteDual, router, wire
  <2>4. CASE ~(p /\ d)
    <3>1. /\ Answer(r, "retry") /\ rpc' = Put(rpc, r, Dropped(s))
          /\ aborts' = aborts \cup AbortsOf(r, s) /\ struck' = struck
      BY <1>2, <2>1, <2>4 DEF ExecuteDual
    <3>2. SettledPair(r, Dropped(s))
      BY <2>2, DroppedIsSettled
    <3>3. tail[r].errors = 0
      BY <1>0, <1>2 DEF Own, StreamsKept, ExecuteDual
    <3>4. PICK x \in {"backoff", "done"} : pc' = Put(pc, r, x)
      BY <3>1, AnswerDeparts
    <3>5. DropGuards(r) /\ UNCHANGED <<attempt, picked>>
      BY <3>1, AnswerDeparts
    <3> QED
      BY <1>2, <3>1, <3>2, <3>3, <3>4, <3>5, DepartureKept DEF ExecuteDual, router
  <2> QED
    BY <2>3, <2>4
<1>3. ASSUME NEW ok \in BOOLEAN, ExecuteEmbed(r, ok)
      PROVE  GrpcInv'
  <2>1. CASE ok
    <3>1. /\ pc[r] = "calling" /\ pc' = Put(pc, r, "process")
          /\ UNCHANGED <<load, pd, input, attempt, picked, guards, rpc, aborts, struck, tail>>
      BY <1>3, <2>1 DEF ExecuteEmbed, router, wire
    <3>2. /\ guards[r] \in {"none", "context", "body"}
          /\ guards' = Put(guards, r, guards[r]) /\ rpc' = Put(rpc, r, rpc[r])
      BY <3>1, OwnFacts
    <3>3. "process" \in Places /\ "process" \notin Bare /\ "process" \notin Open
      BY DEF Bare, Places, Open, Over
    <3>4. HandlerType'
      BY <1>0, <3>1, <3>3 DEF HandlerType, Put
    <3>5. LoadStep(r)
      BY <3>1 DEF LoadStep, Holds
    <3>6. Own(r)'
      <4>1. pc'[r] = "process"
        BY <1>0, <3>1 DEF HandlerType, Put
      <4> QED
        BY <1>0, <3>1, <3>3, <4>1 DEF Own, GuardsKept, StreamsKept, Settled, TailType
    <3> QED
      BY <1>0, <3>1, <3>2, <3>3, <3>4, <3>5, <3>6, ProgressKept
  <2>2. CASE ~ok
    BY <1>0, <1>3, <2>2, AnswerBareKept DEF ExecuteEmbed, router
  <2> QED
    BY <2>1, <2>2
<1> QED
  BY <1>1, <1>2, <1>3 DEF Executing

-----------------------------------------------------------------------------
(* Collected answers and retries *)

\* Open streams are not completed; settled ones are not open.
LEMMA StreamsOf ==
    ASSUME GrpcInv, NEW r \in Requests
    PROVE  /\ rpc[r] \in Streams
           /\ pc[r] \in Bare \cup Open => \A e \in Ends : rpc[r][e].fate \in {"none", "open"}
           /\ pc[r] \in Over => SettledPair(r, rpc[r])
           /\ \A e \in Ends : rpc[r][e].fate = "open" => pc[r] \in Open
           /\ pc[r] \notin {"ended", "done", "gone"} => tail[r].errors = 0
           /\ TailType(tail[r])
<1>1. HandlerType /\ Own(r) /\ rpc[r] \in Streams
  BY OwnFacts
<1>2. pc[r] \in Bare \cup Open => \A e \in Ends : rpc[r][e].fate \in {"none", "open"}
  BY <1>1 DEF Own, StreamsKept, Ends
<1>3. pc[r] \in Over => SettledPair(r, rpc[r])
  BY <1>1 DEF Own, StreamsKept, Settled, SettledPair
<1> QED
  BY <1>1, <1>2, <1>3 DEF HandlerType, Own, StreamsKept, Ends, Places

\* An attempt ends and drops its streams.
LEMMA DropKept ==
    ASSUME GrpcInv, NEW r \in Requests, NEW p \in {"backoff", "done", "gone"},
           pc' = Put(pc, r, p), DropGuards(r), DropStreams(r),
           UNCHANGED <<pd, input, attempt, picked, tail>>, p = "backoff" => tail[r].errors = 0
    PROVE  GrpcInv'
<1>1. SettledPair(r, Dropped(rpc[r]))
  BY StreamsOf, OwnFacts, DroppedIsSettled DEF Places
<1>2. /\ rpc' = Put(rpc, r, Dropped(rpc[r])) /\ struck' = struck
      /\ aborts' = aborts \cup AbortsOf(r, rpc[r])
  BY DEF DropStreams
<1> QED
  BY <1>1, <1>2, DepartureKept

LEMMA CollectKept ==
    ASSUME GrpcInv, NEW r \in Requests, NEW e \in Ends, NEW how \in {"complete", "empty", "error"},
           Collect(r, e, how), UNCHANGED tail
    PROVE  GrpcInv'
<1>0. HandlerType /\ Own(r) /\ rpc[r] \in Streams
  BY OwnFacts
<1>1. /\ pc[r] \in {"collect", "collectout"} /\ (e = "prefill" => pd) /\ (pc[r] = "collect" /\ pd => e = "prefill")
      /\ UNCHANGED <<pd, input>>
  BY DEF Collect, Ends, router
<1>2. pc[r] \in Open /\ tail[r].errors = 0
  BY <1>0, <1>1 DEF Open, Own, StreamsKept
<1>3. /\ rpc[r]["out"].fate = "open" /\ rpc[r]["prefill"].fate = IF pd THEN "open" ELSE "none"
  BY <1>0, <1>2 DEF Own, StreamsKept
<1>4. PICK read : read = [rpc[r] EXCEPT ![e].read = "end"]
  OBVIOUS
<1>5. PICK both : both = [x \in Ends |-> IF read[x].fate = "open" THEN [read[x] EXCEPT !.fate = "completed"]
                                         ELSE read[x]]
  OBVIOUS
<1>6. /\ read \in Streams /\ read[e].read = "end"
      /\ \A x \in Ends : read[x].fate = rpc[r][x].fate
  BY <1>0, <1>4 DEF Streams, Ends
<1>7. /\ both \in Streams
      /\ \A x \in Ends : both[x].fate = (IF rpc[r][x].fate = "open" THEN "completed" ELSE rpc[r][x].fate)
      /\ both[e].read = "end"
  BY <1>5, <1>6 DEF Streams, Ends
<1>8. e = "out" => SettledPair(r, both)
  BY <1>2, <1>3, <1>7 DEF SettledPair, Ends
<1>9. CASE how = "error"
  <2>1. Answer(r, "retry") /\ DropStreams(r)
    BY <1>9 DEF Collect
  <2> QED
    BY <1>1, <1>2, <2>1, AnswerDeparts, DropKept
<1>10. CASE how # "error" /\ e = "prefill"
  <2>1. /\ pc' = Put(pc, r, "collectout") /\ rpc' = Put(rpc, r, read)
        /\ UNCHANGED <<load, attempt, picked, guards, aborts, struck>>
    BY <1>4, <1>10 DEF Collect, wire
  <2>2. /\ guards[r] \in {"none", "context", "body"} /\ guards' = Put(guards, r, guards[r])
    BY <2>1, OwnFacts
  <2>3. "collectout" \in Places /\ "collectout" \in Open /\ "collectout" \notin Bare /\ "collectout" \notin Over
    BY DEF Bare, Places, Open, Over
  <2>4. HandlerType'
    BY <1>0, <1>1, <1>6, <2>1, <2>3 DEF HandlerType, Put
  <2>5. LoadStep(r)
    BY <2>1 DEF LoadStep, Holds
  <2>6. Own(r)'
    <3>1. pc'[r] = "collectout" /\ rpc'[r] = read
      BY <1>0, <2>1 DEF HandlerType, Put
    <3>2. \A x \in Ends : read[x].fate # "completed"
      BY <1>3, <1>6 DEF Ends
    <3>3. read["out"].fate = "open" /\ read["prefill"].fate = IF pd THEN "open" ELSE "none"
      BY <1>3, <1>6 DEF Ends
    <3> QED
      BY <1>0, <1>1, <1>2, <2>3, <3>1, <3>2, <3>3 DEF Own, GuardsKept, StreamsKept, Settled, TailType
  <2> QED
    BY <1>1, <1>2, <1>6, <2>1, <2>2, <2>3, <2>4, <2>5, <2>6, ProgressKept
<1>11. CASE how = "empty" /\ e = "out"
  <2>1. Answer(r, "retry") /\ rpc' = Put(rpc, r, both) /\ UNCHANGED <<aborts, struck>>
    BY <1>4, <1>5, <1>11 DEF Collect, wire
  <2>2. PICK x \in {"backoff", "done"} : pc' = Put(pc, r, x)
    BY <2>1, AnswerDeparts
  <2>3. DropGuards(r) /\ UNCHANGED <<attempt, picked>>
    BY <2>1, AnswerDeparts
  <2> QED
    BY <1>1, <1>2, <1>8, <1>11, <2>1, <2>2, <2>3, DepartureKept
<1>12. CASE how = "complete" /\ e = "out"
  <2>1. /\ pc' = Put(pc, r, "process") /\ rpc' = Put(rpc, r, both)
        /\ UNCHANGED <<load, attempt, picked, guards, aborts, struck>>
    BY <1>4, <1>5, <1>12 DEF Collect, wire
  <2>2. /\ guards[r] \in {"none", "context", "body"} /\ guards' = Put(guards, r, guards[r])
    BY <2>1, OwnFacts
  <2>3. "process" \in Places /\ "process" \in Over /\ "process" \notin Bare /\ "process" \notin Open
    BY DEF Bare, Places, Open, Over
  <2>4. HandlerType'
    BY <1>0, <1>1, <1>7, <2>1, <2>3 DEF HandlerType, Put
  <2>5. LoadStep(r)
    BY <2>1 DEF LoadStep, Holds
  <2>6. Own(r)'
    <3>1. pc'[r] = "process" /\ rpc'[r] = both
      BY <1>0, <2>1 DEF HandlerType, Put
    <3> QED
      BY <1>0, <1>2, <1>8, <1>12, <2>3, <3>1
         DEF Own, GuardsKept, StreamsKept, Settled, TailType, SettledPair
  <2> QED
    BY <1>1, <1>7, <2>1, <2>2, <2>3, <2>4, <2>5, <2>6, ProgressKept
<1> QED
  BY <1>9, <1>10, <1>11, <1>12 DEF Ends

LEMMA AgainKept ==
    ASSUME GrpcInv, NEW r \in Requests, Again(r), UNCHANGED tail
    PROVE  GrpcInv'
<1>1. /\ HandlerType /\ Own(r) /\ guards[r] \in {"none", "context", "body"}
      /\ guards = Put(guards, r, guards[r])
  BY OwnFacts
<1>2. PICK s : s = [e \in Ends |-> NoStream]
  OBVIOUS
<1>3. s \in Streams /\ \A e \in Ends : s[e].fate = "none"
  BY <1>2 DEF Streams, NoStream
<1>4. /\ pc[r] = "backoff" /\ pc' = Put(pc, r, "new") /\ attempt' = [attempt EXCEPT ![r] = @ + 1]
      /\ picked' = Put(picked, r, <<>>) /\ rpc' = Put(rpc, r, s)
      /\ UNCHANGED <<load, pd, input, guards, aborts, struck, tail>>
  BY <1>2 DEF Again, worker, router, wire
<1>5. /\ pc'[r] = "new" /\ attempt'[r] = attempt[r] + 1 /\ rpc'[r] = s
      /\ guards[r] = "none" /\ guards'[r] = "none" /\ tail[r].errors = 0
  BY <1>1, <1>4 DEF HandlerType, Put, Own, GuardsKept, StreamsKept
<1>6. "new" \in Places /\ "new" \notin Open /\ "new" \notin Over /\ <<>> \in Picks
  BY DEF Bare, Places, Open, Over, Picks
<1>7. HandlerType'
  BY <1>1, <1>3, <1>4, <1>6 DEF HandlerType, Put
<1>8. Frame(r)
  BY <1>1, <1>4 DEF HandlerType, Put, Frame
<1>9. LoadStep(r) /\ WireStep(r)
  BY <1>4, <1>5 DEF LoadStep, WireStep, Holds
<1>10. Own(r)'
  BY <1>1, <1>3, <1>4, <1>5, <1>6 DEF Own, GuardsKept, StreamsKept, Settled, TailType
<1> QED
  BY <1>7, <1>8, <1>9, <1>10, StepKept

LEMMA AnsweringKept ==
    ASSUME GrpcInv, NEW r \in Requests, Answering(r), UNCHANGED tail
    PROVE  GrpcInv'
<1>1. ASSUME NEW e \in Ends, NEW how \in {"complete", "empty", "error"}, Collect(r, e, how)
      PROVE  GrpcInv'
  BY <1>1, CollectKept
<1>2. ASSUME NEW s, pc[r] = "process", AnswerBare(r, s), UNCHANGED <<healthy, checks, breaker, router>>
      PROVE  GrpcInv'
  BY <1>2, AnswerBareKept DEF router
<1>3. CASE Again(r)
  BY <1>3, AgainKept
<1>4. ASSUME NEW s, ProcessChat(r, s) \/ ProcessGenerate(r, s) \/ ProcessHarmony(r, s) \/ ProcessClassify(r, s)
      PROVE  GrpcInv'
  BY <1>2, <1>4 DEF ProcessChat, ProcessGenerate, ProcessHarmony, ProcessClassify
<1>5. CASE ProcessEmbedding(r)
  BY <1>2, <1>5 DEF ProcessEmbedding
<1> QED
  BY <1>1, <1>3, <1>4, <1>5 DEF Answering

\* The client leaves before it has a response.
LEMMA LeaveKept ==
    ASSUME GrpcInv, NEW r \in Requests, Leave(r), UNCHANGED tail
    PROVE  GrpcInv'
<1>1. pc' = Put(pc, r, "gone") /\ DropGuards(r) /\ DropStreams(r)
  BY DEF Leave
<1>2. UNCHANGED <<pd, input, attempt, picked, tail>>
  BY DEF Leave, router
<1> QED
  BY <1>1, <1>2, DropKept

\* An abort arrives: it can only break a stream whose id the client chose.
LEMMA AbortArrivesKept ==
    ASSUME GrpcInv, NEW a \in aborts, AbortArrives(a), UNCHANGED tail
    PROVE  GrpcInv'
<1>1. PICK hit : hit = {x \in Requests \X Ends : /\ rpc[x[1]][x[2]].fate = "open" /\ rpc[x[1]][x[2]].read = "no"
                                               /\ WorkerOf(x[1], x[2]) = a[1] /\ RequestId(x[1]) = a[2]}
  OBVIOUS
<1>2. /\ aborts' = aborts \ {a}
      /\ rpc' = [r \in Requests |-> [e \in Ends |-> IF <<r, e>> \in hit
                                                    THEN [rpc[r][e] EXCEPT !.read = "broken"]
                                                    ELSE rpc[r][e]]]
      /\ struck' = (struck \/ \E x \in hit : ~input[x[1]].rid)
      /\ UNCHANGED <<load, pd, input, pc, attempt, picked, guards, tail>>
  BY <1>1 DEF AbortArrives, worker, router
<1>3. HandlerType /\ AbortInv /\ GuardsExact /\ \A r \in Requests : Own(r)
  BY DEF GrpcInv
<1>4. ASSUME NEW r \in Requests
      PROVE  /\ rpc'[r] \in Streams
             /\ \A e \in Ends : /\ rpc'[r][e].fate = rpc[r][e].fate
                                /\ rpc[r][e].fate # "open" => rpc'[r][e] = rpc[r][e]
  <2>1. rpc[r] \in Streams
    BY <1>3 DEF HandlerType
  <2>2. \A e \in Ends : <<r, e>> \in hit => rpc[r][e].fate = "open"
    BY <1>1
  <2>3. rpc'[r] = [e \in Ends |-> IF <<r, e>> \in hit THEN [rpc[r][e] EXCEPT !.read = "broken"]
                                  ELSE rpc[r][e]]
    BY <1>2
  <2>4. \A e \in Ends : rpc'[r][e] = IF <<r, e>> \in hit THEN [rpc[r][e] EXCEPT !.read = "broken"]
                                     ELSE rpc[r][e]
    BY <2>3
  <2> QED
    BY <2>1, <2>2, <2>3, <2>4 DEF Streams
<1>5. HandlerType'
  <2>1. rpc' \in [Requests -> Streams]
    BY <1>2, <1>4
  <2> QED
    BY <1>2, <1>3, <2>1 DEF HandlerType
<1>6. ASSUME NEW r \in Requests
      PROVE  Own(r)'
  <2>1. TailType(tail[r])' /\ GuardsKept(r)'
    BY <1>2, <1>3 DEF Own, TailType, GuardsKept
  <2>2. StreamsKept(r)'
    BY <1>2, <1>3, <1>4 DEF Own, StreamsKept, Ends
  <2>3. Settled(r)'
    <3> SUFFICES ASSUME NEW e \in Ends, rpc'[r][e].fate = "completed"
                 PROVE  /\ rpc'[r]["out"].read = "end" /\ tail[r].errors = 0
                        /\ \A x \in Ends : rpc'[r][x].fate \in {"completed", "none"}
      BY <1>2 DEF Settled
    <3>1. /\ rpc[r]["out"].read = "end" /\ tail[r].errors = 0
          /\ \A x \in Ends : rpc[r][x].fate \in {"completed", "none"}
      BY <1>3, <1>4 DEF Own, Settled
    <3>2. rpc'[r]["out"] = rpc[r]["out"]
      BY <1>4, <3>1 DEF Ends
    <3> QED
      BY <1>4, <3>1, <3>2
  <2> QED
    BY <2>1, <2>2, <2>3 DEF Own
<1>7. \A x \in hit : input[x[1]].rid
  <2> SUFFICES ASSUME NEW x \in hit, ~input[x[1]].rid
               PROVE  FALSE
    OBVIOUS
  <2>1. PICK r \in Requests, e \in Ends : x = <<r, e>>
    BY <1>1
  <2>2. rpc[r][e].fate = "open" /\ RequestId(r) = a[2] /\ ~input[r].rid
    BY <1>1, <2>1
  <2>3. pc[r] \in Open
    BY <2>2, StreamsOf
  <2>4. a[2] = <<r, attempt[r]>>
    BY <2>2 DEF RequestId
  <2> QED
    BY <1>3, <2>2, <2>3, <2>4 DEF AbortInv
<1>8. AbortInv'
  BY <1>2, <1>3, <1>7 DEF AbortInv
<1>9. GuardsExact'
  BY <1>2, <1>3 DEF GuardsExact
<1> QED
  BY <1>5, <1>6, <1>8, <1>9 DEF GrpcInv

LEMMA PipelineKept ==
    ASSUME GrpcInv, NEW r \in Requests, Pipeline(r)
    PROVE  GrpcInv'
BY PreparingKept, SelectingKept, BuildingKept, ExecutingKept, AnsweringKept DEF Pipeline, stream

-----------------------------------------------------------------------------
(* Streamed answers *)

\* The task fails: an error is sent, and both streams are aborted.
LEMMA TaskFailsKept ==
    ASSUME GrpcInv, NEW r \in Requests, pc[r] \in {"prefill", "stream"}, TaskFails(r)
    PROVE  GrpcInv'
<1>1. HandlerType /\ Own(r) /\ rpc[r] \in Streams
  BY OwnFacts
<1>2. PICK s : s = Dropped(rpc[r])
  OBVIOUS
<1>3. /\ UNCHANGED <<load, pd, input, attempt, picked, guards, struck>>
      /\ rpc' = Put(rpc, r, s) /\ aborts' = aborts \cup AbortsOf(r, rpc[r])
  BY <1>2 DEF TaskFails, DropStreams, worker, router
<1>4. PICK p \in {"gone", "ended"} : pc' = Put(pc, r, p)
  BY DEF TaskFails, EndOfTask
<1>5. /\ p \in Over /\ p \in Places /\ p \notin Bare /\ p \notin Open
      /\ p \notin {"new", "acquire", "build", "backoff", "calling"}
  BY DEF Bare, Open, Over, Places
<1>6. s \in Streams /\ \A e \in Ends : s[e].fate \in {"none", "aborted"}
  <2>1. \A e \in Ends : rpc[r][e].fate \in {"none", "open"}
    BY StreamsOf DEF Open
  <2> QED
    BY <1>1, <1>2, <2>1 DEF Dropped, Streams
<1>7. /\ DOMAIN tail' = Requests /\ TailType(tail'[r])
      /\ \A q \in Requests \ {r} : tail'[q] = tail[q]
  <2>1. TailType(tail[r]) /\ DOMAIN tail = Requests
    BY <1>1 DEF Own, HandlerType
  <2>2. tail' = tail \/ tail' = [tail EXCEPT ![r].errors = @ + 1, ![r].dones = @ + 1]
    BY DEF TaskFails
  <2> QED
    BY <2>1, <2>2 DEF TailType
<1>8. pc'[r] = p /\ rpc'[r] = s
  BY <1>1, <1>3, <1>4 DEF HandlerType, Put
<1>9. HandlerType'
  BY <1>1, <1>3, <1>4, <1>5, <1>6, <1>7 DEF HandlerType, Put
<1>10. Frame(r)
  BY <1>1, <1>3, <1>4, <1>7 DEF HandlerType, Put, Frame
<1>11. LoadStep(r) /\ WireStep(r)
  BY <1>3, <1>5, <1>8 DEF LoadStep, WireStep, Holds
<1>12. Own(r)'
  BY <1>4, <1>5, <1>6, <1>7, <1>8 DEF Own, GuardsKept, StreamsKept, Settled, TailType
<1> QED
  BY <1>9, <1>10, <1>11, <1>12, StepKept

\* The task has read its stream to the end.
LEMMA TaskEndsKept ==
    ASSUME GrpcInv, NEW r \in Requests, pc[r] = "stream", NEW views, NEW usage, TaskEnds(r, views, usage)
    PROVE  GrpcInv'
<1>1. HandlerType /\ Own(r) /\ rpc[r] \in Streams
  BY OwnFacts
<1>2. PICK s : s = [rpc[r] EXCEPT !["out"] = [fate |-> "completed", read |-> "end"],
                                 !["prefill"].fate = IF pd THEN "completed" ELSE @]
  OBVIOUS
<1>3. /\ UNCHANGED <<load, pd, input, attempt, picked, guards, aborts, struck>>
      /\ rpc' = Put(rpc, r, s)
  BY <1>1, <1>2 DEF TaskEnds, Marked, worker, router, wire, Put, HandlerType
<1>4. PICK p \in {"gone", "ended"} : pc' = Put(pc, r, p)
  BY DEF TaskEnds, EndOfTask
<1>5. /\ p \in Over /\ p \in Places /\ p \notin Bare /\ p \notin Open
      /\ p \notin {"new", "acquire", "build", "backoff", "calling"}
  BY DEF Bare, Open, Over, Places
<1>6. /\ s \in Streams /\ s["out"] = [fate |-> "completed", read |-> "end"]
      /\ s["prefill"].fate \in {"none", "completed"}
  <2>1. rpc[r]["prefill"].fate = IF pd THEN "open" ELSE "none"
    BY <1>1 DEF Own, StreamsKept, Open
  <2> QED
    BY <1>1, <1>2, <2>1 DEF Streams, Ends
<1>7. /\ DOMAIN tail' = Requests /\ TailType(tail'[r]) /\ tail'[r].errors = 0
      /\ \A q \in Requests \ {r} : tail'[q] = tail[q]
  <2>1. TailType(tail[r]) /\ DOMAIN tail = Requests /\ tail[r].errors = 0
    BY <1>1 DEF Own, HandlerType, StreamsKept
  <2>2. PICK u : tail' = tail \/ tail' = [tail EXCEPT ![r].dones = @ + 1, ![r].usage = u]
    BY DEF TaskEnds
  <2> QED
    BY <2>1, <2>2 DEF TailType
<1>8. pc'[r] = p /\ rpc'[r] = s
  BY <1>1, <1>3, <1>4 DEF HandlerType, Put
<1>9. HandlerType'
  BY <1>1, <1>3, <1>4, <1>5, <1>6, <1>7 DEF HandlerType, Put
<1>10. Frame(r)
  BY <1>1, <1>3, <1>4, <1>7 DEF HandlerType, Put, Frame
<1>11. LoadStep(r) /\ WireStep(r)
  BY <1>3, <1>5, <1>8 DEF LoadStep, WireStep, Holds
<1>12. Own(r)'
  BY <1>4, <1>5, <1>6, <1>7, <1>8 DEF Own, GuardsKept, StreamsKept, Settled, TailType, Ends
<1> QED
  BY <1>9, <1>10, <1>11, <1>12, StepKept

\* The task makes progress without touching the backend's streams, the guards or the tail.
LEMMA SendsKept ==
    ASSUME GrpcInv, NEW r \in Requests, pc[r] = "stream", NEW c, NEW ch, NEW events,
           Sends(r, c, ch, events)
    PROVE  GrpcInv'
<1>1. CASE TaskFails(r)
  BY <1>1, TaskFailsKept
<1>2. CASE UNCHANGED <<worker, router, handler, wire, client, tail, talk>>
  BY <1>2, QuietKept DEF core, worker, router, handler, wire
<1> QED
  BY <1>1, <1>2 DEF Sends

\* The start of a task, and the prefill stream read before the other: places change, and
\* how far the prefill stream was read.
LEMMA OnwardKept ==
    ASSUME GrpcInv, NEW r \in Requests, pc[r] \in Open, NEW p \in {"prefill", "stream"},
           NEW s \in Streams, pc' = Put(pc, r, p), rpc' = Put(rpc, r, s),
           \A e \in Ends : s[e].fate = rpc[r][e].fate,
           UNCHANGED <<load, pd, input, attempt, picked, guards, tail, aborts, struck>>
    PROVE  GrpcInv'
<1>1. /\ HandlerType /\ Own(r) /\ guards[r] \in {"none", "context", "body"}
      /\ guards' = Put(guards, r, guards[r])
  BY OwnFacts
<1>2. /\ p \in Places /\ p \in Open /\ p \notin Bare /\ p \notin Over
      /\ pc[r] \notin {"ended", "done", "gone"}
  BY DEF Bare, Open, Over, Places
<1>3. pc'[r] = p /\ rpc'[r] = s
  BY <1>1 DEF HandlerType, Put
<1>4. /\ s["out"].fate = "open" /\ s["prefill"].fate = (IF pd THEN "open" ELSE "none")
      /\ tail[r].errors = 0
  BY <1>1, <1>2 DEF Own, StreamsKept, Ends
<1>5. HandlerType'
  BY <1>1, <1>2 DEF HandlerType, Put
<1>6. LoadStep(r)
  BY DEF LoadStep, Holds
<1>7. Own(r)'
  BY <1>1, <1>2, <1>3, <1>4 DEF Own, GuardsKept, StreamsKept, Settled, TailType, Ends
<1> QED
  BY <1>1, <1>2, <1>5, <1>6, <1>7, ProgressKept

LEMMA StartingKept ==
    ASSUME GrpcInv, NEW r \in Requests, Starting(r)
    PROVE  GrpcInv'
<1>0. rpc[r] \in Streams /\ rpc = Put(rpc, r, rpc[r]) /\ "start" \in Open /\ "prefill" \in Open
  BY OwnFacts DEF Open
<1>1. CASE StartChat(r) \/ StartGenerate(r)
  <2>1. /\ pc[r] = "start" /\ \E p \in {"prefill", "stream"} : pc' = Put(pc, r, p)
        /\ UNCHANGED <<load, pd, input, attempt, picked, guards, rpc, tail, aborts, struck>>
    BY <1>1 DEF StartChat, StartGenerate, worker, router, wire, stream
  <2> QED
    BY <1>0, <2>1, OnwardKept
<1>2. CASE ReadPrefill(r)
  <2>1. PICK s : s = [rpc[r] EXCEPT !["prefill"].read = "end"]
    OBVIOUS
  <2>2. /\ pc[r] = "prefill" /\ pc' = Put(pc, r, "stream") /\ rpc' = Put(rpc, r, s)
        /\ UNCHANGED <<load, pd, input, attempt, picked, guards, tail, aborts, struck>>
    BY <1>2, <2>1 DEF ReadPrefill, Put, worker, router, wire, stream
  <2>3. s \in Streams /\ \A e \in Ends : s[e].fate = rpc[r][e].fate
    BY <1>0, <2>1 DEF Streams, Ends
  <2> QED
    BY <1>0, <2>2, <2>3, OnwardKept
<1>3. CASE StreamBreaks(r)
  BY <1>3, TaskFailsKept DEF StreamBreaks
<1> QED
  BY <1>1, <1>2, <1>3 DEF Starting

LEMMA ChattingKept ==
    ASSUME GrpcInv, NEW r \in Requests, Chatting(r)
    PROVE  GrpcInv'
<1>1. ASSUME NEW c, NEW k, NEW text \in BOOLEAN, NEW held \in BOOLEAN, ChatChunk(r, c, k, text, held)
      PROVE  GrpcInv'
  <2>1. pc[r] = "stream" /\ \E ch, events : Sends(r, c, ch, events)
    BY <1>1 DEF ChatChunk
  <2> QED
    BY <2>1, SendsKept
<1>2. ASSUME NEW c, NEW reason, ChatComplete(r, c, reason)
      PROVE  GrpcInv'
  <2>1. pc[r] = "stream" /\ \E ch, events : Sends(r, c, ch, events)
    BY <1>2 DEF ChatComplete
  <2> QED
    BY <2>1, SendsKept
<1> QED
  BY <1>1, <1>2 DEF Chatting

LEMMA GeneratingKept ==
    ASSUME GrpcInv, NEW r \in Requests, Generating(r)
    PROVE  GrpcInv'
<1>1. pc[r] = "stream" /\ \E c, ch, events : Sends(r, c, ch, events)
  BY DEF Generating, GenerateChunk, GenerateChunkPd, GenerateComplete, GenerateCompletePd
<1> QED
  BY <1>1, SendsKept

LEMMA HarmonizingKept ==
    ASSUME GrpcInv, NEW r \in Requests, Harmonizing(r)
    PROVE  GrpcInv'
<1>1. ASSUME NEW toks, HarmonyChunk(r, toks)
      PROVE  GrpcInv'
  <2>1. pc[r] = "stream"
    BY <1>1 DEF HarmonyChunk
  <2>2. CASE TaskFails(r)
    BY <2>1, <2>2, TaskFailsKept
  <2>3. CASE UNCHANGED <<worker, router, handler, wire, client, tail>>
    BY <2>3, QuietKept DEF core, worker, router, handler, wire
  <2> QED
    BY <1>1, <2>2, <2>3 DEF HarmonyChunk
<1>2. ASSUME NEW reason, HarmonyComplete(r, reason)
      PROVE  GrpcInv'
  <2>1. pc[r] = "stream" /\ \E ch, events : Sends(r, 0, ch, events)
    BY <1>2 DEF HarmonyComplete
  <2> QED
    BY <2>1, SendsKept
<1> QED
  BY <1>1, <1>2 DEF Harmonizing

LEMMA EndingKept ==
    ASSUME GrpcInv, NEW r \in Requests, Ending(r)
    PROVE  GrpcInv'
<1>1. /\ pc[r] = "stream"
      /\ TaskFails(r) \/ \E views, usage : TaskEnds(r, views, usage)
  BY DEF Ending, ChatEnds, HarmonyEnds, GenerateEnds
<1> QED
  BY <1>1, TaskFailsKept, TaskEndsKept

LEMMA TaskKept ==
    ASSUME GrpcInv, NEW r \in Requests, Task(r)
    PROVE  GrpcInv'
BY StartingKept, ChattingKept, GeneratingKept, HarmonizingKept, EndingKept DEF Task

\* The body goes: when it was sent, or when the client leaves.
LEMMA BodyKept ==
    ASSUME GrpcInv, NEW r \in Requests, CloseBody(r) \/ LeaveStream(r)
    PROVE  GrpcInv'
<1>1. HandlerType /\ Own(r) /\ rpc[r] \in Streams /\ rpc = Put(rpc, r, rpc[r]) /\ pc = Put(pc, r, pc[r])
  BY OwnFacts
<1>2. DropGuards(r) /\ UNCHANGED <<pd, input, attempt, picked, rpc, tail, aborts, struck>>
  BY DEF CloseBody, LeaveStream, router, wire, stream
<1>3. CASE pc[r] = "ended"
  <2>1. \E p \in {"done", "gone"} : pc' = Put(pc, r, p)
    BY <1>3 DEF CloseBody, LeaveStream
  <2>2. SettledPair(r, rpc[r])
    BY <1>3, StreamsOf DEF Over
  <2> QED
    BY <1>1, <1>2, <2>1, <2>2, DepartureKept
<1>4. CASE pc[r] # "ended"
  <2>1. pc' = pc /\ pc[r] \in {"prefill", "stream"}
    BY <1>4 DEF CloseBody, LeaveStream
  <2>2. Frame(r)
    BY <1>1, <1>2, <2>1 DEF HandlerType, Frame, DropGuards, Put
  <2>3. load' \in [Workers -> Int]
    BY <1>1, <1>2, DropGuardsType
  <2>4. HandlerType'
    BY <1>1, <1>2, <2>1, <2>3 DEF HandlerType, DropGuards, Put
  <2>5. LoadStep(r) /\ WireStep(r)
    BY <1>1, <1>2, <2>1 DEF LoadStep, WireStep
  <2>6. Own(r)'
    <3>1. guards'[r] = "none" /\ pc'[r] \notin {"acquire", "build", "calling"}
      BY <1>1, <1>2, <2>1 DEF HandlerType, DropGuards, Put
    <3> QED
      BY <1>1, <1>2, <2>1, <3>1 DEF Own, GuardsKept, StreamsKept, Settled, TailType
  <2> QED
    BY <2>2, <2>4, <2>5, <2>6, StepKept
<1> QED
  BY <1>3, <1>4

-----------------------------------------------------------------------------
(* What the client of a stream is sent *)

Ended == {"ended", "done", "gone"}

ChoiceStates == [first : BOOLEAN, held : BOOLEAN, called : BOOLEAN, count : Nat,
                 finish : {"stop", "length", None}, made : Nat, over : BOOLEAN]
ClientViews == [openings : Nat, early : BOOLEAN, late : BOOLEAN, called : BOOLEAN, finishes : Nat,
                finish : Finishes \cup {None}]

\* Chat: the opening goes with the first text, and finish chunks are left to the end.
ChatChoice(onVllm, ch, v) ==
    /\ ch.first <=> v.openings = 0
    /\ v.openings <= 1
    /\ v.early => ch.over /\ ch.first
    /\ (v.called <=> ch.called) /\ (ch.called => ~ch.first)
    /\ ch.over \/ onVllm => ch.count = ch.made

ChatFinish(ch, v) ==
    /\ v.finishes <= 1
    /\ v.finishes = 1 => (v.finish = "tool_calls" <=> v.called /\ ch.finish = "stop")

\* Generate: the completion is the finish chunk.
GenerateChoice(ch, v) == v.openings = 0 /\ v.finishes = IF ch.over THEN 1 ELSE 0

\* Harmony: the same, if there was any chunk.
HarmonyChoice(ch, v) ==
    /\ ch.first <=> v.openings = 0
    /\ v.openings <= 1 /\ ~v.early
    /\ v.finishes = IF ch.over /\ ch.made > 0 THEN 1 ELSE 0
    /\ ch.over => ch.count = ch.made

ChoiceOf(kind, onVllm, ch, v) ==
    /\ ch \in ChoiceStates /\ v \in ClientViews /\ ~v.late
    /\ ch.over <=> ch.finish # None
    /\ kind = "chat" => ChatChoice(onVllm, ch, v) /\ ChatFinish(ch, v)
    /\ kind = "generate" => GenerateChoice(ch, v)
    /\ kind = "harmony" => HarmonyChoice(ch, v)

\* A choice of request r, at the place where the request is.
ChoiceAt(r, c) ==
    LET ch == choice[r][c]
        v == view[r][c] IN
    /\ ChoiceOf(input[r].kind, OnVllm(r), ch, v)
    /\ pc[r] \notin Ended \cup {"stream"} => ch.count = ch.made
    /\ input[r].kind = "chat" /\ pc[r] \notin Ended => v.finishes = 0
    /\ input[r].kind = "chat" /\ tail[r].dones = 1 /\ tail[r].errors = 0 =>
           v.finishes = IF ch.over THEN 1 ELSE 0

TailAt(r) ==
    LET t == tail[r] IN
    /\ t.errors \in {0, 1} /\ t.dones \in {0, 1}
    /\ pc[r] \notin Ended => t = FreshTail
    /\ pc[r] = "ended" => t.dones = 1
    /\ pc[r] = "done" /\ status[r] = "ok" => t.dones = 1
    /\ t.usage # None /\ (\A c \in ChoicesOf(r) : choice[r][c].over) =>
           t.usage = Added([c \in ChoicesOf(r) |-> choice[r][c].made])

\* A streamed request: where it can be, its choices and its tail.
StreamedAt(r) ==
    /\ input[r].kind \in {"chat", "harmony", "generate"}
    /\ pc[r] \notin {"collect", "collectout", "process"}
    /\ client[r] = "left" => pc[r] \in {"prefill", "stream", "gone"}
    /\ DOMAIN choice[r] = ChoicesOf(r) /\ DOMAIN view[r] = ChoicesOf(r)
    /\ \A c \in ChoicesOf(r) : ChoiceAt(r, c)
    /\ TailAt(r)

GrammarInv ==
    /\ DOMAIN choice = Requests /\ DOMAIN view = Requests
    /\ client \in [Requests -> {"here", "left"}]
    /\ status = [r \in Requests |-> status[r]]
    /\ \A r \in Requests : input[r].stream => StreamedAt(r)

\* Events that are neither the opening nor a finish chunk.
Texts == {"content", "reasoning", "name", "args"}

\* The view w comes from v by events; if there are none, it may have been left as it was.
Follows(v, w, events) == w = Seen(v, events) \/ (events = <<>> /\ w = v)

LEMMA SeenText ==
    ASSUME NEW v \in ClientViews, NEW events \in Seq(Texts), NEW w, Follows(v, w, events),
           v.finishes = 0
    PROVE  /\ w \in ClientViews /\ w.openings = v.openings /\ w.finishes = 0 /\ w.finish = v.finish
           /\ w.late <=> v.late
           /\ w.called <=> v.called \/ \E i \in DOMAIN events : events[i] = "name"
           /\ w.early => v.early \/ (v.openings = 0 /\ events # <<>>)
<1>1. CASE events = <<>> /\ w = v
  BY <1>1
<1>2. CASE w = Seen(v, events)
  <2> DEFINE E == v.early \/ \E i \in DOMAIN events : /\ events[i] \notin Finishes \cup {"opening"}
                                                      /\ v.openings = 0
                                                      /\ ~ \E j \in 1..(i - 1) : events[j] \in {"opening"}
             L == v.late \/ \E i \in DOMAIN events : v.finishes > 0 \/ \E j \in 1..(i - 1) : events[j] \in Finishes
             C == v.called \/ \E i \in DOMAIN events : events[i] = "name"
  <2>1. /\ v.openings \in Nat /\ v.finish \in Finishes \cup {None} /\ ~(v.finishes > 0)
        /\ v.early \in BOOLEAN /\ v.late \in BOOLEAN /\ v.called \in BOOLEAN
    BY DEF ClientViews
  <2>2. \A i \in DOMAIN events : events[i] \in Texts
    OBVIOUS
  <2>3. {i \in DOMAIN events : events[i] \in {"opening"}} = {} /\ {i \in DOMAIN events : events[i] \in Finishes} = {}
    BY <2>2 DEF Texts, Finishes
  <2>4. \A i \in DOMAIN events : ~ \E j \in 1..(i - 1) : events[j] \in Finishes
    BY <2>2 DEF Texts, Finishes
  <2>5. Cardinality({}) = 0
    BY FS_EmptySet
  <2>6. w = [openings |-> v.openings + 0, early |-> E, late |-> L, called |-> C, finishes |-> v.finishes + 0,
             finish |-> v.finish]
    BY <1>2, <2>3, <2>5 DEF Seen
  <2>7. /\ E \in BOOLEAN /\ L \in BOOLEAN /\ C \in BOOLEAN
        /\ L <=> v.late
        /\ E => v.early \/ (v.openings = 0 /\ events # <<>>)
    BY <2>1, <2>4
  <2>8. C <=> v.called \/ \E i \in DOMAIN events : events[i] = "name"
    OBVIOUS
  <2> HIDE DEF E, L, C
  <2>9. /\ w \in ClientViews /\ w.openings = v.openings /\ w.finishes = 0 /\ w.finish = v.finish
        /\ w.late = L /\ w.early = E /\ w.called = C
    BY <2>1, <2>6, <2>7 DEF ClientViews
  <2> QED
    BY <2>7, <2>8, <2>9
<1> QED
  BY <1>1, <1>2 DEF Follows

LEMMA SeenOpening ==
    ASSUME NEW v \in ClientViews, NEW texts \in Seq(Texts), NEW w, w = Seen(v, <<"opening">> \o texts),
           v.finishes = 0
    PROVE  /\ w \in ClientViews /\ w.openings = v.openings + 1 /\ w.finishes = 0 /\ w.finish = v.finish
           /\ w.late <=> v.late
           /\ w.called <=> v.called \/ \E i \in DOMAIN texts : texts[i] = "name"
           /\ w.early <=> v.early
<1>1. PICK events : events = <<"opening">> \o texts
  OBVIOUS
<1> DEFINE E == v.early \/ \E i \in DOMAIN events : /\ events[i] \notin Finishes \cup {"opening"}
                                                    /\ v.openings = 0
                                                    /\ ~ \E j \in 1..(i - 1) : events[j] \in {"opening"}
           L == v.late \/ \E i \in DOMAIN events : v.finishes > 0 \/ \E j \in 1..(i - 1) : events[j] \in Finishes
           C == v.called \/ \E i \in DOMAIN events : events[i] = "name"
<1>2. /\ DOMAIN events = 1..(Len(texts) + 1) /\ events[1] = "opening"
      /\ \A i \in DOMAIN events : i # 1 => i - 1 \in DOMAIN texts /\ events[i] = texts[i - 1]
      /\ \A i \in DOMAIN texts : i + 1 \in DOMAIN events /\ events[i + 1] = texts[i]
      /\ \A i \in DOMAIN texts : texts[i] \in Texts
      /\ Len(texts) \in Nat
  BY <1>1
<1>3. /\ v.openings \in Nat /\ v.finish \in Finishes \cup {None} /\ ~(v.finishes > 0)
      /\ v.early \in BOOLEAN /\ v.late \in BOOLEAN /\ v.called \in BOOLEAN
  BY DEF ClientViews
<1>4. {i \in DOMAIN events : events[i] \in {"opening"}} = {1} /\ {i \in DOMAIN events : events[i] \in Finishes} = {}
  <2>1. 1 \in DOMAIN events
    BY <1>2
  <2>2. \A i \in DOMAIN events : (events[i] = "opening" <=> i = 1) /\ events[i] \notin Finishes
    BY <1>2 DEF Texts, Finishes
  <2> QED
    BY <2>1, <2>2
<1>5. \A i \in DOMAIN events : /\ ~ \E j \in 1..(i - 1) : events[j] \in Finishes
                               /\ events[i] = "opening" \/ \E j \in 1..(i - 1) : events[j] \in {"opening"}
  <2> SUFFICES ASSUME NEW i \in DOMAIN events
               PROVE  /\ ~ \E j \in 1..(i - 1) : events[j] \in Finishes
                      /\ events[i] = "opening" \/ \E j \in 1..(i - 1) : events[j] \in {"opening"}
    OBVIOUS
  <2>1. \A j \in 1..(i - 1) : j \in DOMAIN events
    BY <1>2
  <2>2. i = 1 \/ 1 \in 1..(i - 1)
    BY <1>2
  <2> QED
    BY <1>2, <1>4, <2>1, <2>2
<1>6. Cardinality({}) = 0 /\ Cardinality({1}) = 1
  BY FS_EmptySet, FS_Singleton
<1>7. w = [openings |-> v.openings + 1, early |-> E, late |-> L, called |-> C, finishes |-> v.finishes + 0,
           finish |-> v.finish]
  BY <1>1, <1>4, <1>6 DEF Seen
<1>8. /\ E \in BOOLEAN /\ L \in BOOLEAN /\ C \in BOOLEAN
      /\ L <=> v.late
      /\ E <=> v.early
  BY <1>3, <1>5
<1>9. C <=> v.called \/ \E i \in DOMAIN texts : texts[i] = "name"
  <2>1. (\E i \in DOMAIN events : events[i] = "name") <=> \E i \in DOMAIN texts : texts[i] = "name"
    BY <1>2
  <2> QED
    BY <2>1
<1> HIDE DEF E, L, C
<1>10. /\ w \in ClientViews /\ w.openings = v.openings + 1 /\ w.finishes = 0 /\ w.finish = v.finish
       /\ w.late = L /\ w.early = E /\ w.called = C
  BY <1>3, <1>7, <1>8 DEF ClientViews
<1> QED
  BY <1>8, <1>9, <1>10

LEMMA SeenFinish ==
    ASSUME NEW v \in ClientViews, NEW f \in Finishes, NEW w, w = Seen(v, <<f>>), v.finishes = 0
    PROVE  /\ w \in ClientViews /\ w.openings = v.openings /\ w.finishes = 1 /\ w.finish = f
           /\ w.late <=> v.late
           /\ w.called <=> v.called
           /\ w.early <=> v.early
<1>1. PICK events : events = <<f>>
  OBVIOUS
<1>2. DOMAIN events = {1} /\ events[1] = f /\ f \notin {"opening", "name"}
  BY <1>1 DEF Finishes
<1>3. {i \in DOMAIN events : events[i] \in {"opening"}} = {} /\ {i \in DOMAIN events : events[i] \in Finishes} = {1}
  BY <1>2
<1>4. Max({1}) = 1 /\ {1} # {}
  BY DEF Max
<1>5. Cardinality({}) = 0 /\ Cardinality({1}) = 1
  BY FS_EmptySet, FS_Singleton
<1>6. w = [openings |-> v.openings + 0,
           early |-> v.early \/ \E i \in DOMAIN events : /\ events[i] \notin Finishes \cup {"opening"}
                                                         /\ v.openings = 0
                                                         /\ ~ \E j \in 1..(i - 1) : events[j] \in {"opening"},
           late |-> v.late \/ \E i \in DOMAIN events : v.finishes > 0 \/ \E j \in 1..(i - 1) : events[j] \in Finishes,
           called |-> v.called \/ \E i \in DOMAIN events : events[i] = "name",
           finishes |-> v.finishes + 1,
           finish |-> events[1]]
  BY <1>1, <1>3, <1>4, <1>5 DEF Seen
<1> QED
  BY <1>2, <1>6 DEF ClientViews

LEMMA ChoiceRecord ==
    ASSUME NEW ch \in ChoiceStates
    PROVE  /\ ch = [first |-> ch.first, held |-> ch.held, called |-> ch.called, count |-> ch.count,
                    finish |-> ch.finish, made |-> ch.made, over |-> ch.over]
           /\ ch.first \in BOOLEAN /\ ch.held \in BOOLEAN /\ ch.called \in BOOLEAN /\ ch.over \in BOOLEAN
           /\ ch.count \in Nat /\ ch.made \in Nat /\ ch.finish \in {"stop", "length", None}
BY DEF ChoiceStates

\* A choice with k more tokens; vLLM's are counted at once.
Grown(ch, onVllm, k, held) == [ch EXCEPT !.made = @ + k, !.count = IF onVllm THEN @ + k ELSE @, !.held = held]

\* And with texts sent of them.
Texted(made, texts) ==
    [made EXCEPT !.first = FALSE, !.called = @ \/ \E i \in DOMAIN texts : texts[i] = "name"]

\* A choice of a chat after a chunk.
LEMMA ChatChunkChoice ==
    ASSUME NEW onVllm \in BOOLEAN, NEW ch, NEW v, ChoiceOf("chat", onVllm, ch, v), v.finishes = 0, ~ch.over,
           NEW k \in Nat, NEW held \in BOOLEAN, NEW made,
           made = Grown(ch, onVllm, k, held), NEW w
    PROVE  /\ Follows(v, w, <<>>) => ChoiceOf("chat", onVllm, made, w) /\ w.finishes = 0
           /\ \A texts \in Seq(Texts) : Follows(v, w, WithOpening(ch, texts)) =>
                  /\ w.finishes = 0
                  /\ ChoiceOf("chat", onVllm, Texted(made, texts), w)
<1>1. ch \in ChoiceStates /\ v \in ClientViews /\ ~v.late /\ ch.finish = None /\ ChatChoice(onVllm, ch, v)
  BY DEF ChoiceOf
<1>2. /\ made \in ChoiceStates /\ made.first = ch.first /\ made.called = ch.called /\ made.finish = None
      /\ made.over = ch.over /\ (onVllm => made.count = ch.count + k) /\ made.made = ch.made + k
      /\ ch.count \in Nat /\ ch.made \in Nat
  <2>1. /\ ch = [first |-> ch.first, held |-> ch.held, called |-> ch.called, count |-> ch.count,
                 finish |-> ch.finish, made |-> ch.made, over |-> ch.over]
        /\ ch.first \in BOOLEAN /\ ch.called \in BOOLEAN /\ ch.over \in BOOLEAN
        /\ ch.count \in Nat /\ ch.made \in Nat
    BY <1>1 DEF ChoiceStates
  <2>2. PICK n \in Nat : n = (IF onVllm THEN ch.count + k ELSE ch.count) /\ (onVllm => n = ch.count + k)
    BY <2>1
  <2>3. made = [first |-> ch.first, held |-> held, called |-> ch.called, count |-> n,
                finish |-> ch.finish, made |-> ch.made + k, over |-> ch.over]
    BY <2>1, <2>2 DEF Grown
  <2>4. made \in ChoiceStates
    BY <1>1, <2>1, <2>2, <2>3 DEF ChoiceStates
  <2> QED
    BY <1>1, <2>1, <2>2, <2>3, <2>4
<1>3. ~v.early
  BY <1>1 DEF ChatChoice
<1>4. ASSUME Follows(v, w, <<>>)
      PROVE  ChoiceOf("chat", onVllm, made, w) /\ w.finishes = 0
  <2>1. <<>> \in Seq(Texts) /\ DOMAIN <<>> = {}
    OBVIOUS
  <2>2. /\ w \in ClientViews /\ w.openings = v.openings /\ w.finishes = 0 /\ w.finish = v.finish
        /\ w.late <=> v.late
        /\ w.called <=> v.called \/ \E i \in DOMAIN <<>> : <<>>[i] = "name"
        /\ w.early => v.early \/ (v.openings = 0 /\ <<>> # <<>>)
    BY <1>1, <1>4, <2>1, SeenText
  <2>3. (w.called <=> v.called) /\ ~w.early
    BY <1>3, <2>1, <2>2
  <2> QED
    BY <1>1, <1>2, <2>2, <2>3 DEF ChoiceOf, ChatChoice, ChatFinish
<1>5. ASSUME NEW texts \in Seq(Texts), Follows(v, w, WithOpening(ch, texts))
      PROVE  /\ w.finishes = 0
             /\ ChoiceOf("chat", onVllm, Texted(made, texts), w)
  <2>1. PICK named \in BOOLEAN : named <=> \E i \in DOMAIN texts : texts[i] = "name"
    OBVIOUS
  <2>2. PICK new : new = Texted(made, texts)
    OBVIOUS
  <2>3. new = [made EXCEPT !.first = FALSE, !.called = @ \/ named]
    BY <2>1, <2>2 DEF Texted
  <2>4. /\ new \in ChoiceStates /\ ~new.first /\ (new.called <=> ch.called \/ named) /\ new.finish = None
        /\ new.over = ch.over /\ new.count = made.count /\ new.made = made.made
    <3>1. /\ made = [first |-> made.first, held |-> made.held, called |-> made.called, count |-> made.count,
                     finish |-> made.finish, made |-> made.made, over |-> made.over]
          /\ made.first \in BOOLEAN /\ made.held \in BOOLEAN /\ made.called \in BOOLEAN
          /\ made.over \in BOOLEAN /\ made.count \in Nat /\ made.made \in Nat
      BY <1>2 DEF ChoiceStates
    <3>2. PICK called \in BOOLEAN : called = (made.called \/ named)
      BY <3>1
    <3>3. new = [first |-> FALSE, held |-> made.held, called |-> called, count |-> made.count,
                 finish |-> made.finish, made |-> made.made, over |-> made.over]
      BY <2>3, <3>1, <3>2
    <3> QED
      BY <1>2, <3>1, <3>2, <3>3 DEF ChoiceStates
  <2>5. /\ w \in ClientViews /\ w.openings = 1 /\ w.finishes = 0 /\ ~w.late /\ ~w.early
        /\ w.called <=> v.called \/ named
    <3>1. CASE ch.first
      <4>1. w = Seen(v, <<"opening">> \o texts)
        BY <1>5, <3>1 DEF WithOpening, Follows
      <4>2. v.openings = 0
        BY <1>1, <3>1 DEF ChatChoice
      <4> QED
        BY <1>1, <1>3, <2>1, <4>1, <4>2, SeenOpening
    <3>2. CASE ~ch.first
      <4>1. Follows(v, w, texts)
        BY <1>5, <3>2 DEF WithOpening
      <4>2. v.openings = 1
        BY <1>1, <3>2 DEF ChatChoice, ClientViews
      <4> QED
        BY <1>1, <1>3, <2>1, <4>1, <4>2, SeenText
    <3> QED
      BY <3>1, <3>2
  <2>6. ChoiceOf("chat", onVllm, new, w)
    BY <1>1, <1>2, <2>4, <2>5 DEF ChoiceOf, ChatChoice, ChatFinish
  <2> QED
    BY <2>2, <2>5, <2>6
<1> QED
  BY <1>4, <1>5

\* And when it is complete: held text goes out past the opening chunk.
LEMMA ChatCompleteChoice ==
    ASSUME NEW onVllm \in BOOLEAN, NEW ch, NEW v, ChoiceOf("chat", onVllm, ch, v), v.finishes = 0, ~ch.over,
           NEW reason \in {"stop", "length"}, NEW new,
           new = [ch EXCEPT !.over = TRUE, !.held = FALSE, !.finish = reason,
                            !.count = IF onVllm THEN @ ELSE ch.made],
           NEW w, Follows(v, w, IF ch.held THEN <<"content">> ELSE <<>>)
    PROVE  ChoiceOf("chat", onVllm, new, w) /\ w.finishes = 0
<1>1. ch \in ChoiceStates /\ v \in ClientViews /\ ~v.late /\ ChatChoice(onVllm, ch, v)
  BY DEF ChoiceOf
<1>2. /\ new \in ChoiceStates /\ new.first = ch.first /\ new.called = ch.called /\ new.finish = reason
      /\ new.over /\ new.count = new.made
  BY <1>1 DEF ChoiceStates, ChatChoice
<1>3. PICK texts : texts = IF ch.held THEN <<"content">> ELSE <<>>
  OBVIOUS
<1>4. texts \in Seq(Texts) /\ ~ \E i \in DOMAIN texts : texts[i] = "name"
  <2>1. CASE ch.held
    <3>1. texts = <<"content">> /\ "content" \in Texts
      BY <1>3, <2>1 DEF Texts
    <3> QED
      BY <3>1
  <2>2. CASE ~ch.held
    BY <1>3, <2>2
  <2> QED
    BY <2>1, <2>2
<1>5. /\ w \in ClientViews /\ w.openings = v.openings /\ w.finishes = 0 /\ ~w.late
      /\ w.called <=> v.called
      /\ w.early => v.early \/ v.openings = 0
  <2>1. Follows(v, w, texts)
    BY <1>3
  <2>2. /\ w \in ClientViews /\ w.openings = v.openings /\ w.finishes = 0 /\ (w.late <=> v.late)
        /\ w.called <=> v.called \/ \E i \in DOMAIN texts : texts[i] = "name"
        /\ w.early => v.early \/ (v.openings = 0 /\ texts # <<>>)
    BY <1>1, <1>4, <2>1, SeenText
  <2> QED
    BY <1>1, <1>4, <2>2
<1>6. reason # None
  BY StreamingAssumption DEF Finishes
<1> QED
  BY <1>1, <1>2, <1>5, <1>6 DEF ChoiceOf, ChatChoice, ChatFinish

\* The finish chunk of a chat's choice, after its stream.
LEMMA ChatEndChoice ==
    ASSUME NEW onVllm \in BOOLEAN, NEW ch, NEW v, ChoiceOf("chat", onVllm, ch, v), v.finishes = 0,
           ch.finish # None, NEW w, w = Seen(v, <<FinishReason(ch)>>)
    PROVE  ChoiceOf("chat", onVllm, ch, w) /\ w.finishes = 1
<1>1. ch \in ChoiceStates /\ v \in ClientViews /\ ~v.late /\ ch.over /\ ChatChoice(onVllm, ch, v)
  BY DEF ChoiceOf
<1>2. ch.finish \in {"stop", "length"} /\ ch.called \in BOOLEAN
  BY <1>1 DEF ChoiceStates
<1>3. FinishReason(ch) \in Finishes /\ (FinishReason(ch) = "tool_calls" <=> ch.called /\ ch.finish = "stop")
  BY <1>2 DEF FinishReason, Finishes
<1>4. /\ w \in ClientViews /\ w.openings = v.openings /\ w.finishes = 1 /\ w.finish = FinishReason(ch) /\ ~w.late
      /\ (w.called <=> v.called) /\ (w.early <=> v.early)
  BY <1>1, <1>3, SeenFinish
<1> QED
  BY <1>1, <1>3, <1>4 DEF ChoiceOf, ChatChoice, ChatFinish

\* And when arguments of a call are left to send at the end.
LEMMA ChatFlushChoice ==
    ASSUME NEW onVllm \in BOOLEAN, NEW ch, NEW v, ChoiceOf("chat", onVllm, ch, v), v.finishes = 0,
           ch.called, NEW w, w = Seen(v, <<"args">>)
    PROVE  ChoiceOf("chat", onVllm, ch, w) /\ w.finishes = 0
<1>1. ch \in ChoiceStates /\ v \in ClientViews /\ ~v.late /\ ChatChoice(onVllm, ch, v)
  BY DEF ChoiceOf
<1>2. v.openings # 0 /\ ~v.early
  BY <1>1 DEF ChatChoice
<1>3. PICK texts \in Seq(Texts) : texts = <<"args">>
  <2>1. "args" \in Texts
    BY DEF Texts
  <2>2. <<"args">> \in Seq(Texts)
    BY <2>1
  <2> QED
    BY <2>2
<1>4. ~ \E i \in DOMAIN texts : texts[i] = "name"
  BY <1>3
<1>5. Follows(v, w, texts)
  BY <1>3 DEF Follows
<1>6. /\ w \in ClientViews /\ w.openings = v.openings /\ w.finishes = 0 /\ ~w.late /\ ~w.early
      /\ w.called <=> v.called
  BY <1>1, <1>2, <1>4, <1>5, SeenText
<1> QED
  BY <1>1, <1>6 DEF ChoiceOf, ChatChoice, ChatFinish

LEMMA GenerateChunkChoice ==
    ASSUME NEW onVllm, NEW ch, NEW v, ChoiceOf("generate", onVllm, ch, v), ~ch.over, NEW new, NEW w,
           new = [ch EXCEPT !.made = @ + 1, !.count = @ + 1], w = Seen(v, <<"content">>)
    PROVE  ChoiceOf("generate", onVllm, new, w)
<1>1. ch \in ChoiceStates /\ v \in ClientViews /\ ~v.late /\ v.openings = 0 /\ v.finishes = 0
  BY DEF ChoiceOf, GenerateChoice
<1>2. new \in ChoiceStates /\ new.finish = ch.finish /\ new.over = ch.over
  <2>0. /\ ch = [first |-> ch.first, held |-> ch.held, called |-> ch.called, count |-> ch.count,
                 finish |-> ch.finish, made |-> ch.made, over |-> ch.over]
        /\ ch.first \in BOOLEAN /\ ch.held \in BOOLEAN /\ ch.called \in BOOLEAN /\ ch.over \in BOOLEAN
        /\ ch.count \in Nat /\ ch.made \in Nat /\ ch.finish \in {"stop", "length", None}
    BY <1>1, ChoiceRecord
  <2>1. new = [first |-> ch.first, held |-> ch.held, called |-> ch.called, count |-> ch.count + 1,
               finish |-> ch.finish, made |-> ch.made + 1, over |-> ch.over]
    BY <2>0
  <2> QED
    BY <2>0, <2>1 DEF ChoiceStates
<1>3. PICK texts \in Seq(Texts) : Follows(v, w, texts)
  <2>1. "content" \in Texts
    BY DEF Texts
  <2>2. <<"content">> \in Seq(Texts)
    BY <2>1
  <2> QED
    BY <2>2 DEF Follows
<1>4. w \in ClientViews /\ w.openings = 0 /\ w.finishes = 0 /\ ~w.late
  BY <1>1, <1>3, SeenText
<1> QED
  BY <1>1, <1>2, <1>4 DEF ChoiceOf, GenerateChoice

LEMMA GenerateCompleteChoice ==
    ASSUME NEW onVllm, NEW ch, NEW v, ChoiceOf("generate", onVllm, ch, v), ~ch.over, NEW new, NEW w,
           NEW reason \in {"stop", "length"},
           new = [ch EXCEPT !.over = TRUE, !.finish = reason], w = Seen(v, <<reason>>)
    PROVE  ChoiceOf("generate", onVllm, new, w)
<1>1. ch \in ChoiceStates /\ v \in ClientViews /\ ~v.late /\ v.openings = 0 /\ v.finishes = 0
  BY DEF ChoiceOf, GenerateChoice
<1>2. new \in ChoiceStates /\ new.finish = reason /\ new.over
  BY <1>1 DEF ChoiceStates
<1>3. reason \in Finishes /\ reason # None
  BY StreamingAssumption DEF Finishes
<1>4. w \in ClientViews /\ w.openings = 0 /\ w.finishes = 1 /\ ~w.late
  BY <1>1, <1>3, SeenFinish
<1> QED
  BY <1>1, <1>2, <1>3, <1>4 DEF ChoiceOf, GenerateChoice

\* A choice of a Harmony request with n more tokens, that made a delta or not.
Chunked(ch, n, any) == [ch EXCEPT !.made = @ + n, !.count = @ + 1, !.first = @ /\ ~any]

\* A Harmony choice that is not over and of which the client has seen the opening chunk.
LEMMA SpokenChoice ==
    ASSUME NEW onVllm, NEW new \in ChoiceStates, NEW w \in ClientViews, new.finish = None,
           ~new.over, ~new.first, w.openings = 1, w.finishes = 0, ~w.late, ~w.early
    PROVE  ChoiceOf("harmony", onVllm, new, w)
BY DEF ChoiceOf, HarmonyChoice

LEMMA HarmonyChunkChoice ==
    ASSUME NEW onVllm, NEW ch, NEW v, ChoiceOf("harmony", onVllm, ch, v), ~ch.over,
           NEW n \in Nat, NEW any \in BOOLEAN, NEW text \in Texts, NEW new, NEW w,
           new = Chunked(ch, n, any),
           w = IF ~any THEN v ELSE Seen(v, WithOpening(ch, <<text>>))
    PROVE  ChoiceOf("harmony", onVllm, new, w)
<1>1. /\ ch \in ChoiceStates /\ v \in ClientViews /\ ~v.late /\ v.finishes = 0
      /\ ch.finish = None /\ HarmonyChoice(ch, v)
  BY DEF ChoiceOf, HarmonyChoice
<1>2. new \in ChoiceStates /\ new.finish = ch.finish /\ new.over = ch.over /\ (new.first <=> ch.first /\ ~any)
  <2>0. /\ ch = [first |-> ch.first, held |-> ch.held, called |-> ch.called, count |-> ch.count,
                 finish |-> ch.finish, made |-> ch.made, over |-> ch.over]
        /\ ch.first \in BOOLEAN /\ ch.held \in BOOLEAN /\ ch.called \in BOOLEAN /\ ch.over \in BOOLEAN
        /\ ch.count \in Nat /\ ch.made \in Nat /\ ch.finish \in {"stop", "length", None}
    BY <1>1, ChoiceRecord
  <2>1. PICK first \in BOOLEAN : first = (ch.first /\ ~any)
    OBVIOUS
  <2>2. new = [first |-> first, held |-> ch.held, called |-> ch.called, count |-> ch.count + 1,
               finish |-> ch.finish, made |-> ch.made + n, over |-> ch.over]
    BY <2>0, <2>1 DEF Chunked
  <2> QED
    BY <2>0, <2>1, <2>2 DEF ChoiceStates
<1>3. <<text>> \in Seq(Texts)
  OBVIOUS
<1>4. CASE ~any
  BY <1>1, <1>2, <1>4 DEF ChoiceOf, HarmonyChoice
<1>5. CASE any /\ ch.first
  <2>1. v.openings = 0 /\ ~v.early
    BY <1>1, <1>5 DEF HarmonyChoice
  <2>2. PICK texts \in Seq(Texts) : w = Seen(v, <<"opening">> \o texts)
    BY <1>3, <1>5 DEF WithOpening
  <2>3. w \in ClientViews /\ w.openings = 1 /\ w.finishes = 0 /\ ~w.late /\ ~w.early
    BY <1>1, <2>1, <2>2, SeenOpening
  <2>4. new \in ChoiceStates /\ new.finish = None /\ ~new.over /\ ~new.first
    BY <1>1, <1>2, <1>5
  <2> QED
    BY <2>3, <2>4, SpokenChoice
<1>6. CASE any /\ ~ch.first
  <2>1. v.openings = 1 /\ ~v.early
    BY <1>1, <1>6 DEF HarmonyChoice, ClientViews
  <2>2. PICK texts \in Seq(Texts) : w = Seen(v, texts)
    BY <1>3, <1>6 DEF WithOpening
  <2>3. Follows(v, w, texts)
    BY <2>2 DEF Follows
  <2>4. w \in ClientViews /\ w.openings = 1 /\ w.finishes = 0 /\ ~w.late /\ ~w.early
    BY <1>1, <2>1, <2>3, SeenText
  <2>5. new \in ChoiceStates /\ new.finish = None /\ ~new.over /\ ~new.first
    BY <1>1, <1>2, <1>6
  <2> QED
    BY <2>4, <2>5, SpokenChoice
<1> QED
  BY <1>4, <1>5, <1>6

\* No text: the client's view stays.
LEMMA SeenNothing ==
    ASSUME NEW v \in ClientViews, v.finishes = 0, NEW w, NEW events \in Seq(Texts), events = <<>>,
           Follows(v, w, events)
    PROVE  w \in ClientViews /\ w.openings = v.openings /\ w.finishes = 0 /\ (w.late <=> v.late) /\ (w.early => v.early)
BY SeenText

LEMMA HarmonyCompleteChoice ==
    ASSUME NEW onVllm, NEW ch, NEW v, ChoiceOf("harmony", onVllm, ch, v), ~ch.over,
           NEW reason \in {"stop", "length"}, NEW final \in Finishes, NEW new, NEW w,
           new = [ch EXCEPT !.over = TRUE, !.count = ch.made, !.finish = reason],
           Follows(v, w, IF ch.made = 0 THEN <<>> ELSE <<final>>)
    PROVE  ChoiceOf("harmony", onVllm, new, w)
<1>1. /\ ch \in ChoiceStates /\ v \in ClientViews /\ ~v.late /\ v.finishes = 0
      /\ ch.made \in Nat /\ HarmonyChoice(ch, v)
  BY DEF ChoiceOf, HarmonyChoice, ChoiceStates
<1>2. /\ new \in ChoiceStates /\ new.finish = reason /\ new.over /\ new.first = ch.first
      /\ new.count = ch.made /\ new.made = ch.made
  BY <1>1 DEF ChoiceStates
<1>3. reason # None
  BY StreamingAssumption DEF Finishes
<1>4. CASE ch.made = 0
  <2>0. <<>> \in Seq(Texts)
    OBVIOUS
  <2>1. PICK texts \in Seq(Texts) : Follows(v, w, texts) /\ texts = <<>>
    BY <1>4, <2>0
  <2>2. w \in ClientViews /\ w.openings = v.openings /\ w.finishes = 0 /\ (w.late <=> v.late) /\ (w.early => v.early)
    BY <1>1, <2>1, SeenNothing
  <2> QED
    BY <1>1, <1>2, <1>3, <1>4, <2>1, <2>2 DEF ChoiceOf, HarmonyChoice
<1>5. CASE ch.made # 0
  <2>1. w = Seen(v, <<final>>)
    BY <1>5 DEF Follows
  <2>2. w \in ClientViews /\ w.openings = v.openings /\ w.finishes = 1 /\ ~w.late /\ (w.early <=> v.early)
    BY <1>1, <2>1, SeenFinish
  <2> QED
    BY <1>1, <1>2, <1>3, <1>5, <2>2 DEF ChoiceOf, HarmonyChoice
<1> QED
  BY <1>4, <1>5

-----------------------------------------------------------------------------
(* Steps and what clients are sent *)

\* Nothing of the stream of request r changes.
SameStream(r) ==
    /\ UNCHANGED <<input, vllm>>
    /\ choice'[r] = choice[r] /\ view'[r] = view[r] /\ tail'[r] = tail[r] /\ client'[r] = client[r]

LEMMA SameConstants ==
    ASSUME NEW r \in Requests, UNCHANGED <<input, vllm>>
    PROVE  /\ ChoicesOf(r)' = ChoicesOf(r)
           /\ picked'[r] = picked[r] => (OnVllm(r)' <=> OnVllm(r))
           /\ choice'[r] = choice[r] =>
                  Added([c \in ChoicesOf(r) |-> choice[r][c].made])' = Added([c \in ChoicesOf(r) |-> choice[r][c].made])
<1>1. ChoicesOf(r)' = ChoicesOf(r)
  BY DEF ChoicesOf
<1>2. picked'[r] = picked[r] => (OnVllm(r)' <=> OnVllm(r))
  BY DEF OnVllm
<1>3. choice'[r] = choice[r] => [c \in ChoicesOf(r) |-> choice[r][c].made]' = [c \in ChoicesOf(r) |-> choice[r][c].made]
  BY <1>1
<1> QED
  BY <1>1, <1>2, <1>3

\* A request that nothing happens to, or whose pipeline moves on before its stream begins.
LEMMA SameStreamKept ==
    ASSUME NEW r \in Requests, StreamedAt(r), SameStream(r),
           \/ pc'[r] = pc[r] /\ picked'[r] = picked[r] /\ status'[r] = status[r]
           \/ /\ pc[r] \notin Ended \cup {"stream"}
              /\ pc'[r] \notin {"collect", "collectout", "process", "stream", "ended"}
              /\ pc'[r] = "done" => status'[r] # "ok"
              /\ client[r] = "here" \/ pc'[r] \in {"prefill", "gone"}
           \/ /\ pc[r] \notin Ended \cup {"stream"} /\ pc'[r] = "stream" /\ picked'[r] = picked[r]
           \/ /\ pc[r] = "ended" /\ pc'[r] \in {"done", "gone"} /\ picked'[r] = picked[r]
    PROVE  StreamedAt(r)'
<1>1. /\ ChoicesOf(r)' = ChoicesOf(r)
      /\ picked'[r] = picked[r] => (OnVllm(r)' <=> OnVllm(r))
      /\ Added([c \in ChoicesOf(r) |-> choice[r][c].made])' = Added([c \in ChoicesOf(r) |-> choice[r][c].made])
  BY SameConstants DEF SameStream
<1>2. input'[r] = input[r] /\ choice'[r] = choice[r] /\ view'[r] = view[r] /\ tail'[r] = tail[r] /\ client'[r] = client[r]
  BY DEF SameStream
<1>3. TailAt(r)'
  <2>1. TailAt(r)
    BY DEF StreamedAt
  <2> QED
    BY <1>1, <1>2, <2>1 DEF TailAt, Ended, FreshTail
<1>4. ASSUME NEW c \in ChoicesOf(r)
      PROVE  ChoiceAt(r, c)'
  <2>1. ChoiceAt(r, c)
    BY DEF StreamedAt
  <2>2. ChoiceOf(input[r].kind, OnVllm(r)', choice[r][c], view[r][c])
    <3>1. CASE picked'[r] = picked[r]
      BY <1>1, <2>1, <3>1 DEF ChoiceAt, ChoiceOf, ChatChoice
    <3>2. CASE picked'[r] # picked[r]
      <4>1. choice[r][c].count = choice[r][c].made
        BY <2>1, <3>2 DEF ChoiceAt
      <4> QED
        BY <2>1, <4>1 DEF ChoiceAt, ChoiceOf, ChatChoice
    <3> QED
      BY <3>1, <3>2
  <2>3. TailAt(r)
    BY DEF StreamedAt
  <2>4. pc[r] \notin Ended => tail[r].dones = 0
    BY <2>3 DEF TailAt, FreshTail
  <2> QED
    BY <1>2, <2>1, <2>2, <2>4 DEF ChoiceAt, Ended
<1> QED
  BY <1>1, <1>2, <1>3, <1>4 DEF StreamedAt, Ended

\* The others are left as they are.
Apart(r) ==
    /\ UNCHANGED <<input, vllm>>
    /\ DOMAIN choice' = Requests /\ DOMAIN view' = Requests /\ status' = [q \in Requests |-> status'[q]]
    /\ client' \in [Requests -> {"here", "left"}]
    /\ \A q \in Requests \ {r} : /\ pc'[q] = pc[q] /\ picked'[q] = picked[q] /\ status'[q] = status[q]
                                 /\ SameStream(q)

LEMMA GrammarStep ==
    ASSUME NEW r \in Requests, GrammarInv, Apart(r), input[r].stream => StreamedAt(r)'
    PROVE  GrammarInv'
<1>1. \A q \in Requests \ {r} : StreamedAt(q) => StreamedAt(q)'
  BY SameStreamKept DEF Apart
<1> QED
  BY <1>1 DEF GrammarInv, Apart

\* A step of the pipeline: to p, with workers ws and status st.
Moves(r, p, ws, st) ==
    /\ pc' = Put(pc, r, p) /\ picked' = Put(picked, r, ws) /\ status' = Put(status, r, st)
    /\ pc[r] \in InHandler /\ p \notin {"prefill", "stream", "ended"}
    /\ p = "done" => st # "ok" \/ pc[r] = "process"
    /\ p \in {"collect", "collectout", "process"} =>
           ~input[r].stream \/ Embeds(r) \/ pc[r] \in {"collect", "collectout"}

LEMMA AnswerMoves ==
    ASSUME HandlerType, NEW r \in Requests, NEW s, Answer(r, s), s # "ok" \/ pc[r] = "process", pc[r] \in InHandler
    PROVE  \E p, ws, st : Moves(r, p, ws, st)
<1>1. status' = Put(status, r, s)
  BY DEF Answer, ExecuteChat, ExecuteGenerate, ExecuteEmbeddings, ExecuteClassify, Returns
<1>2. PICK p \in {"backoff", "done"} : pc' = Put(pc, r, p)
  BY AnswerDeparts
<1>3. picked' = Put(picked, r, picked[r])
  BY AnswerDeparts DEF HandlerType, Put
<1>4. Moves(r, p, picked[r], s)
  BY <1>1, <1>2, <1>3 DEF Moves
<1> QED
  BY <1>4

LEMMA RefusesMoves ==
    ASSUME HandlerType, NEW r \in Requests, NEW at \in InHandler, NEW failures, "ok" \notin failures,
           Refuses(r, at, failures)
    PROVE  \E p, ws, st : Moves(r, p, ws, st)
BY AnswerMoves DEF Refuses, AnswerBare

LEMMA PipelineMoves ==
    ASSUME HandlerType, status = [q \in Requests |-> status[q]], NEW r \in Requests,
           Preparing(r) \/ Selecting(r) \/ Building(r) \/ Executing(r) \/ Answering(r) \/ Leave(r)
    PROVE  \E p, ws, st : Moves(r, p, ws, st)
<1>0. /\ picked = Put(picked, r, picked[r]) /\ status = Put(status, r, status[r])
      /\ pc[r] \in InHandler <=> pc[r] \in {"new", "acquire", "build", "calling", "collect", "collectout",
                                            "process", "backoff"}
  BY DEF HandlerType, Put, InHandler
<1>1. CASE Preparing(r)
  <2>1. PICK failures : "ok" \notin failures /\ Refuses(r, "new", failures)
    BY <1>1 DEF Preparing, PrepareChat, PrepareGenerate, PrepareEmbedding, PrepareHarmony, ResolveTokenizer,
                ProcessChatMessages, GenerateToolConstraints, HarmonyToolConstraint
  <2> QED
    BY <2>1, RefusesMoves DEF InHandler
<1>2. CASE Selecting(r)
  <2>1. CASE Refuses(r, "acquire", {"retry", "final"}) \/ Refuses(r, "acquire", {"retry"})
    BY <2>1, RefusesMoves DEF InHandler
  <2>2. CASE pc[r] = "new" /\ AnswerBare(r, "retry")
    BY <2>2, AnswerMoves DEF AnswerBare, InHandler
  <2>3. ASSUME NEW ws, pc[r] = "new", picked' = Put(picked, r, ws), pc' = Put(pc, r, "acquire"), status' = status
        PROVE  Moves(r, "acquire", ws, status[r])
    BY <1>0, <2>3 DEF Moves
  <2>4. CASE pc[r] = "acquire" /\ pc' = Put(pc, r, "build") /\ UNCHANGED <<picked, status>>
    <3>1. Moves(r, "build", picked[r], status[r])
      BY <1>0, <2>4 DEF Moves
    <3> QED
      BY <3>1
  <2>5. CASE AcquireClients(r)
    BY <2>1, <2>4, <2>5 DEF AcquireClients
  <2>6. CASE SelectSingle(r)
    BY <2>2, <2>3, <2>6 DEF SelectSingle
  <2>7. CASE SelectPair(r)
    BY <2>2, <2>3, <2>7 DEF SelectPair
  <2> QED
    BY <1>2, <2>5, <2>6, <2>7 DEF Selecting
<1>3. CASE Building(r)
  <2>1. CASE Refuses(r, "build", {"final"})
    BY <2>1, RefusesMoves DEF InHandler
  <2>2. CASE Dispatch(r)
    <3>1. Moves(r, "calling", picked[r], status[r])
      BY <1>0, <2>2 DEF Moves, Dispatch
    <3> QED
      BY <3>1
  <2>3. CASE pc[r] = "build" /\ pc' = Put(pc, r, "gone") /\ UNCHANGED <<picked, status>>
    <3>1. Moves(r, "gone", picked[r], status[r])
      BY <1>0, <2>3 DEF Moves
    <3> QED
      BY <3>1
  <2> QED
    BY <1>3, <2>1, <2>2, <2>3 DEF Building, BuildChat, BuildGenerate, BuildEmbedding, BuildHarmony
<1>4. CASE Executing(r)
  <2>1. CASE pc[r] = "calling" /\ Answer(r, "retry")
    BY <2>1, AnswerMoves DEF InHandler
  <2>2. CASE pc[r] = "calling" /\ Proceed(r)
    <3>1. \E p : /\ pc' = Put(pc, r, p) /\ UNCHANGED <<picked, status>>
                 /\ p = "start" \/ (p = "collect" /\ ~input[r].stream)
      BY <2>2 DEF Proceed, ChatProceeds, GenerateProceeds, HarmonyProceeds, HandOver
    <3>2. PICK p : /\ pc' = Put(pc, r, p) /\ UNCHANGED <<picked, status>>
                   /\ p = "start" \/ (p = "collect" /\ ~input[r].stream)
      BY <3>1
    <3>3. Moves(r, p, picked[r], status[r])
      BY <1>0, <2>2, <3>2 DEF Moves
    <3> QED
      BY <3>3
  <2>3. CASE pc[r] = "calling" /\ Embeds(r) /\ pc' = Put(pc, r, "process") /\ UNCHANGED <<picked, status>>
    <3>1. Moves(r, "process", picked[r], status[r])
      BY <1>0, <2>3 DEF Moves
    <3> QED
      BY <3>1
  <2>4. ASSUME NEW ok \in BOOLEAN, ExecuteSingle(r, ok)
        PROVE  \E p, ws, st : Moves(r, p, ws, st)
    BY <2>1, <2>2, <2>4 DEF ExecuteSingle, AnswerBare
  <2>5. ASSUME NEW x \in BOOLEAN, NEW d \in BOOLEAN, ExecuteDual(r, x, d)
        PROVE  \E p, ws, st : Moves(r, p, ws, st)
    BY <2>1, <2>2, <2>5 DEF ExecuteDual
  <2>6. ASSUME NEW ok \in BOOLEAN, ExecuteEmbed(r, ok)
        PROVE  \E p, ws, st : Moves(r, p, ws, st)
    BY <2>1, <2>3, <2>6 DEF ExecuteEmbed, AnswerBare
  <2> QED
    BY <1>4, <2>4, <2>5, <2>6 DEF Executing
<1>5. CASE Answering(r)
  <2>1. ASSUME NEW e \in Ends, NEW how \in {"complete", "empty", "error"}, Collect(r, e, how)
        PROVE  \E p, ws, st : Moves(r, p, ws, st)
    <3>1. pc[r] \in {"collect", "collectout"}
      BY <2>1 DEF Collect
    <3>2. \/ Answer(r, "retry")
          \/ \E p \in {"collectout", "process"} : pc' = Put(pc, r, p) /\ UNCHANGED <<picked, status>>
      <4>1. CASE how = "error"
        BY <2>1, <4>1 DEF Collect
      <4>2. CASE how # "error" /\ e = "prefill"
        BY <2>1, <4>2 DEF Collect
      <4>3. CASE how = "empty" /\ e = "out"
        BY <2>1, <4>3 DEF Collect
      <4>4. CASE how = "complete" /\ e = "out"
        BY <2>1, <4>4 DEF Collect
      <4> QED
        BY <4>1, <4>2, <4>3, <4>4 DEF Ends
    <3>3. CASE Answer(r, "retry")
      BY <3>1, <3>3, AnswerMoves DEF InHandler
    <3>4. ASSUME NEW p \in {"collectout", "process"}, pc' = Put(pc, r, p), UNCHANGED <<picked, status>>
          PROVE  Moves(r, p, picked[r], status[r])
      BY <1>0, <3>1, <3>4 DEF Moves
    <3> QED
      BY <3>2, <3>3, <3>4
  <2>2. ASSUME NEW s, pc[r] = "process", AnswerBare(r, s)
        PROVE  \E p, ws, st : Moves(r, p, ws, st)
    BY <2>2, AnswerMoves DEF AnswerBare, InHandler
  <2>3. CASE Again(r)
    <3>1. Moves(r, "new", <<>>, None)
      BY <1>0, <2>3 DEF Again, Moves
    <3> QED
      BY <3>1
  <2>4. ASSUME NEW s, ProcessChat(r, s) \/ ProcessGenerate(r, s) \/ ProcessHarmony(r, s) \/ ProcessClassify(r, s)
        PROVE  \E p, ws, st : Moves(r, p, ws, st)
    BY <2>2, <2>4 DEF ProcessChat, ProcessGenerate, ProcessHarmony, ProcessClassify
  <2>5. CASE ProcessEmbedding(r)
    BY <2>2, <2>5 DEF ProcessEmbedding
  <2> QED
    BY <1>5, <2>1, <2>3, <2>4, <2>5 DEF Answering
<1>6. CASE Leave(r)
  <2>1. Moves(r, "gone", picked[r], status[r])
    BY <1>0, <1>6 DEF Leave, Moves
  <2> QED
    BY <2>1
<1> QED
  BY <1>1, <1>2, <1>3, <1>4, <1>5, <1>6

LEMMA MovesGrammar ==
    ASSUME HandlerType, GrammarInv, NEW r \in Requests, UNCHANGED <<input, vllm, stream>>,
           NEW p, NEW ws, NEW st, Moves(r, p, ws, st)
    PROVE  GrammarInv'
<1>1. /\ pc' = Put(pc, r, p) /\ picked' = Put(picked, r, ws) /\ status' = Put(status, r, st)
      /\ UNCHANGED <<input, vllm, client, choice, view, tail>>
  BY DEF Moves, stream
<1>2. Apart(r)
  BY <1>1 DEF Apart, GrammarInv, HandlerType, Put, SameStream
<1>3. ASSUME input[r].stream
      PROVE  StreamedAt(r)'
  <2>1. StreamedAt(r) /\ client[r] \in {"here", "left"}
    BY <1>3 DEF GrammarInv
  <2>2. /\ input[r].kind \in {"chat", "harmony", "generate"} /\ ~Embeds(r)
        /\ pc[r] \notin {"collect", "collectout", "process"}
        /\ client[r] = "left" => pc[r] \in {"prefill", "stream", "gone"}
    BY <2>1 DEF StreamedAt, Embeds
  <2>3. pc'[r] = p /\ status'[r] = st
    BY <1>1 DEF HandlerType, GrammarInv, Put
  <2>4. /\ pc[r] \notin Ended \cup {"stream"} /\ client[r] = "here"
        /\ p \notin {"collect", "collectout", "process", "stream", "ended"}
        /\ p = "done" => st # "ok"
    BY <1>3, <2>1, <2>2 DEF Moves, InHandler, Ended
  <2>5. SameStream(r)
    BY <1>1 DEF SameStream
  <2> QED
    BY <2>1, <2>3, <2>4, <2>5, SameStreamKept
<1> QED
  BY <1>2, <1>3, GrammarStep

LEMMA PipelineGrammar ==
    ASSUME GrpcInv, GrammarInv, NEW r \in Requests, Pipeline(r) \/ (Leave(r) /\ UNCHANGED stream)
    PROVE  GrammarInv'
<1>1. HandlerType /\ status = [q \in Requests |-> status[q]]
  BY DEF GrpcInv, GrammarInv
<1>2. UNCHANGED <<input, vllm, stream>>
  <2>1. CASE Leave(r) /\ UNCHANGED stream
    BY <2>1 DEF Leave, router
  <2>2. CASE Pipeline(r)
    <3>1. UNCHANGED stream
      BY <2>2 DEF Pipeline
    <3>2. CASE Preparing(r)
      BY <3>1, <3>2 DEF Preparing, PrepareChat, PrepareGenerate, PrepareEmbedding, PrepareHarmony, Refuses, router
    <3>3. CASE Selecting(r)
      BY <3>1, <3>3 DEF Selecting, SelectSingle, SelectPair, AcquireClients, Refuses, router
    <3>4. CASE Building(r)
      BY <3>1, <3>4 DEF Building, BuildChat, BuildGenerate, BuildEmbedding, BuildHarmony, Dispatch, Refuses, router
    <3>5. CASE Executing(r)
      BY <3>1, <3>5 DEF Executing, ExecuteSingle, ExecuteDual, ExecuteEmbed, router
    <3>6. CASE Answering(r)
      BY <3>1, <3>6 DEF Answering, Collect, ProcessChat, ProcessGenerate, ProcessHarmony, ProcessClassify,
                  ProcessEmbedding, Again, router
    <3> QED
      BY <2>2, <3>1, <3>2, <3>3, <3>4, <3>5, <3>6 DEF Pipeline
  <2> QED
    BY <2>1, <2>2
<1>3. PICK p, ws, st : Moves(r, p, ws, st)
  BY <1>1, PipelineMoves DEF Pipeline
<1> QED
  BY <1>1, <1>2, <1>3, MovesGrammar

\* The task is about to read a stream, or the body goes.
LEMMA OnwardGrammar ==
    ASSUME HandlerType, GrammarInv, NEW r \in Requests,
           StartChat(r) \/ StartGenerate(r) \/ ReadPrefill(r) \/ CloseBody(r)
    PROVE  GrammarInv'
<1>1. /\ pc[r] \in {"start", "prefill", "ended"}
      /\ \E p : /\ pc' = Put(pc, r, p)
                /\ pc[r] = "ended" => p = "done"
                /\ pc[r] # "ended" => p \in {"prefill", "stream"}
      /\ \E st : status' = Put(status, r, st)
      /\ UNCHANGED <<picked, input, vllm, client, choice, view, tail>>
  <2>1. status = Put(status, r, status[r])
    BY DEF GrammarInv, Put
  <2> QED
    BY <2>1 DEF StartChat, StartGenerate, ReadPrefill, CloseBody, router, stream
<1>2. PICK p : /\ pc' = Put(pc, r, p)
               /\ pc[r] = "ended" => p = "done"
               /\ pc[r] # "ended" => p \in {"prefill", "stream"}
  BY <1>1
<1>3. PICK st : status' = Put(status, r, st)
  BY <1>1
<1>4. Apart(r)
  BY <1>1, <1>2, <1>3 DEF Apart, GrammarInv, HandlerType, Put, SameStream
<1>5. ASSUME input[r].stream
      PROVE  StreamedAt(r)'
  <2>1. StreamedAt(r) /\ client[r] \in {"here", "left"}
    BY <1>5 DEF GrammarInv
  <2>2. pc'[r] = p /\ SameStream(r) /\ picked'[r] = picked[r]
    BY <1>1, <1>2 DEF HandlerType, Put, SameStream
  <2>3. CASE pc[r] = "ended"
    BY <1>2, <2>1, <2>2, <2>3, SameStreamKept
  <2>4. CASE pc[r] # "ended" /\ p = "stream"
    BY <1>1, <2>1, <2>2, <2>4, SameStreamKept DEF Ended
  <2>5. CASE pc[r] # "ended" /\ p = "prefill"
    BY <1>1, <2>1, <2>2, <2>5, SameStreamKept DEF Ended
  <2> QED
    BY <1>2, <2>3, <2>4, <2>5
<1> QED
  BY <1>4, <1>5, GrammarStep

\* The client leaves; its view stays as it is.
LEMMA LeaveStreamGrammar ==
    ASSUME HandlerType, GrammarInv, NEW r \in Requests, LeaveStream(r)
    PROVE  GrammarInv'
<1>1. /\ client' = Put(client, r, "left") /\ UNCHANGED <<picked, status, input, vllm, choice, view, tail>>
      /\ pc[r] \in {"prefill", "stream", "ended"}
      /\ pc' = IF pc[r] = "ended" THEN Put(pc, r, "gone") ELSE pc
  BY DEF LeaveStream, router
<1>2. Apart(r)
  BY <1>1 DEF Apart, GrammarInv, HandlerType, Put, SameStream
<1>3. ASSUME input[r].stream
      PROVE  StreamedAt(r)'
  <2>1. StreamedAt(r)
    BY <1>3 DEF GrammarInv
  <2>2. /\ ChoicesOf(r)' = ChoicesOf(r) /\ (OnVllm(r)' <=> OnVllm(r))
        /\ Added([c \in ChoicesOf(r) |-> choice[r][c].made])' = Added([c \in ChoicesOf(r) |-> choice[r][c].made])
    BY <1>1, SameConstants
  <2>3. pc'[r] = (IF pc[r] = "ended" THEN "gone" ELSE pc[r]) /\ input'[r] = input[r]
    BY <1>1 DEF HandlerType, Put
  <2>4. \A c \in ChoicesOf(r) : ChoiceAt(r, c)'
    BY <1>1, <2>1, <2>2, <2>3 DEF StreamedAt, ChoiceAt, ChoiceOf, ChatChoice, Ended
  <2>5. TailAt(r)'
    BY <1>1, <2>1, <2>2, <2>3 DEF StreamedAt, TailAt, Ended
  <2> QED
    BY <1>1, <2>1, <2>2, <2>3, <2>4, <2>5 DEF StreamedAt
<1> QED
  BY <1>2, <1>3, GrammarStep

\* The task fails: an error and [DONE], if the client is there.
LEMMA TaskFailsGrammar ==
    ASSUME HandlerType, GrammarInv, NEW r \in Requests, pc[r] \in {"prefill", "stream"}, TaskFails(r),
           Own(r)
    PROVE  GrammarInv'
<1>1. /\ pc' = Put(pc, r, IF client[r] = "left" THEN "gone" ELSE "ended")
      /\ tail' = IF client[r] = "left" THEN tail ELSE [tail EXCEPT ![r].errors = @ + 1, ![r].dones = @ + 1]
      /\ UNCHANGED <<picked, status, input, vllm, client, choice, view>>
  BY DEF TaskFails, EndOfTask, router
<1>2. Apart(r)
  BY <1>1 DEF Apart, GrammarInv, HandlerType, Put, SameStream
<1>3. ASSUME input[r].stream
      PROVE  StreamedAt(r)'
  <2>1. StreamedAt(r) /\ client[r] \in {"here", "left"}
    BY <1>3 DEF GrammarInv
  <2>2. /\ ChoicesOf(r)' = ChoicesOf(r) /\ (OnVllm(r)' <=> OnVllm(r)) /\ input'[r] = input[r]
        /\ Added([c \in ChoicesOf(r) |-> choice[r][c].made])' = Added([c \in ChoicesOf(r) |-> choice[r][c].made])
    BY <1>1, SameConstants
  <2>3. tail[r] = FreshTail
    BY <2>1 DEF StreamedAt, TailAt, Ended
  <2>4. /\ client[r] = "left" => pc'[r] = "gone" /\ tail'[r] = tail[r]
        /\ client[r] = "here" => /\ pc'[r] = "ended"
                                 /\ tail'[r].errors = 1 /\ tail'[r].dones = 1 /\ tail'[r].usage = None
    BY <1>1, <2>3 DEF HandlerType, Put, FreshTail
  <2>5. tail'[r].errors = 1 \/ tail'[r].dones = 0
    BY <2>1, <2>3, <2>4 DEF FreshTail
  <2>6. \A c \in ChoicesOf(r) : ChoiceAt(r, c)'
    BY <1>1, <2>1, <2>2, <2>4, <2>5 DEF StreamedAt, ChoiceAt, ChoiceOf, ChatChoice, Ended
  <2>7. TailAt(r)'
    BY <1>1, <2>1, <2>3, <2>4 DEF TailAt, Ended, FreshTail
  <2> QED
    BY <1>1, <2>1, <2>2, <2>4, <2>6, <2>7 DEF StreamedAt
<1> QED
  BY <1>2, <1>3, GrammarStep

\* One choice of request r moves.
LEMMA ChoiceGrammar ==
    ASSUME HandlerType, GrammarInv, NEW r \in Requests, pc[r] = "stream", NEW c \in ChoicesOf(r), NEW ch, NEW w,
           choice' = [choice EXCEPT ![r][c] = ch],
           view' = [view EXCEPT ![r][c] = w] \/ (view' = view /\ view[r][c] = w),
           UNCHANGED <<pc, picked, status, input, vllm, client, tail>>,
           input[r].stream => /\ ChoiceOf(input[r].kind, OnVllm(r), ch, w)
                              /\ input[r].kind = "chat" => w.finishes = 0
    PROVE  GrammarInv'
<1>1. Apart(r)
  BY DEF Apart, GrammarInv, HandlerType, SameStream
<1>2. ASSUME input[r].stream
      PROVE  StreamedAt(r)'
  <2>1. StreamedAt(r)
    BY <1>2 DEF GrammarInv
  <2>2. ChoicesOf(r)' = ChoicesOf(r) /\ (OnVllm(r)' <=> OnVllm(r)) /\ input'[r] = input[r]
    BY SameConstants
  <2>3. /\ DOMAIN choice'[r] = ChoicesOf(r) /\ DOMAIN view'[r] = ChoicesOf(r)
        /\ choice'[r][c] = ch /\ view'[r][c] = w
        /\ \A d \in ChoicesOf(r) \ {c} : choice'[r][d] = choice[r][d] /\ view'[r][d] = view[r][d]
    BY <2>1 DEF StreamedAt, GrammarInv
  <2>4. tail'[r] = FreshTail /\ tail[r] = FreshTail
    BY <2>1 DEF StreamedAt, TailAt, Ended
  <2>5. ASSUME NEW d \in ChoicesOf(r) \ {c}
        PROVE  ChoiceAt(r, d)'
    <3>1. ChoiceAt(r, d)
      BY <2>1 DEF StreamedAt
    <3> QED
      BY <2>2, <2>3, <2>4, <3>1 DEF ChoiceAt, ChoiceOf, ChatChoice
  <2>6. ChoiceAt(r, c)'
    BY <1>2, <2>2, <2>3, <2>4 DEF ChoiceAt, ChoiceOf, ChatChoice, FreshTail
  <2>7. TailAt(r)'
    BY <2>1, <2>4 DEF TailAt, FreshTail, Ended
  <2> QED
    BY <2>1, <2>2, <2>3, <2>5, <2>6, <2>7 DEF StreamedAt
<1> QED
  BY <1>1, <1>2, GrammarStep

LEMMA SendsGrammar ==
    ASSUME HandlerType, GrammarInv, NEW r \in Requests, Own(r), pc[r] = "stream", NEW c \in ChoicesOf(r), NEW ch,
           NEW events, Sends(r, c, ch, events),
           input[r].stream => \A w : Follows(view[r][c], w, events) =>
                                  /\ ChoiceOf(input[r].kind, OnVllm(r), ch, w)
                                  /\ input[r].kind = "chat" => w.finishes = 0
    PROVE  GrammarInv'
<1>1. CASE client[r] = "left" /\ events # <<>>
  BY <1>1, TaskFailsGrammar DEF Sends
<1>2. CASE ~(client[r] = "left" /\ events # <<>>)
  <2>1. PICK w : w = IF client[r] = "left" THEN view[r][c] ELSE Seen(view[r][c], events)
    OBVIOUS
  <2>2. Follows(view[r][c], w, events)
    BY <1>2, <2>1 DEF Follows
  <2>3. /\ choice' = [choice EXCEPT ![r][c] = ch]
        /\ view' = [view EXCEPT ![r][c] = w] \/ (view' = view /\ view[r][c] = w)
        /\ UNCHANGED <<pc, picked, status, input, vllm, client, tail>>
    BY <1>2, <2>1 DEF Sends, router, handler
  <2> QED
    BY <2>2, <2>3, ChoiceGrammar
<1> QED
  BY <1>1, <1>2

\* The parsers make text of text.
LEMMA ParsedTexts ==
    ASSUME NEW ask, NEW ch, NEW events \in Parsed(ask, ch)
    PROVE  events \in Seq(Texts)
<1>1. /\ <<>> \in Seq(Texts) /\ <<"reasoning">> \in Seq(Texts) /\ <<"content">> \in Seq(Texts)
      /\ <<"name">> \in Seq(Texts) /\ <<"args">> \in Seq(Texts) /\ <<"name", "args">> \in Seq(Texts)
  <2>1. "content" \in Texts /\ "reasoning" \in Texts /\ "name" \in Texts /\ "args" \in Texts
    BY DEF Texts
  <2> QED
    BY <2>1
<1>2. ReasoningEvents(ask) \subseteq Seq(Texts)
  BY <1>1 DEF ReasoningEvents
<1>3. SpecificFunctionEvents(ch) \subseteq Seq(Texts) /\ ToolCallEvents(ch) \subseteq Seq(Texts)
  BY <1>1 DEF SpecificFunctionEvents, ToolCallEvents
<1>4. PICK x, y : x \in Seq(Texts) /\ y \in Seq(Texts) /\ events = x \o y
  <2>1. PICK x \in ReasoningEvents(ask),
             y \in (CASE ask.tools = "none" -> {<<"content">>}
                      [] ask.tools = "specific" -> SpecificFunctionEvents(ch)
                      [] OTHER -> ToolCallEvents(ch))
                   \cup (IF ask.reasoning THEN {<<>>, <<"content">>} ELSE {}) : events = x \o y
    BY DEF Parsed
  <2>2. CASE y \in (IF ask.reasoning THEN {<<>>, <<"content">>} ELSE {})
    BY <1>1, <1>2, <2>1, <2>2
  <2>3. CASE ask.tools = "none" /\ y \in {<<"content">>}
    BY <1>1, <1>2, <2>1, <2>3
  <2>4. CASE y \in SpecificFunctionEvents(ch) \/ y \in ToolCallEvents(ch)
    BY <1>2, <1>3, <2>1, <2>4
  <2> QED
    BY <2>1, <2>2, <2>3, <2>4
<1> QED
  BY <1>4

\* The choices of a request whose task reads its stream.
LEMMA ChoiceFacts ==
    ASSUME GrammarInv, NEW r \in Requests, input[r].stream, pc[r] = "stream", NEW c \in ChoicesOf(r)
    PROVE  /\ ChoiceOf(input[r].kind, OnVllm(r), choice[r][c], view[r][c])
           /\ input[r].kind = "chat" => view[r][c].finishes = 0
BY DEF GrammarInv, StreamedAt, ChoiceAt, Ended

LEMMA ChattingGrammar ==
    ASSUME HandlerType, GrammarInv, NEW r \in Requests, Own(r), Chatting(r)
    PROVE  GrammarInv'
<1>1. ASSUME NEW c \in ChoicesOf(r), NEW k \in {1, 2}, NEW text \in BOOLEAN, NEW held \in BOOLEAN,
             ChatChunk(r, c, k, text, held)
      PROVE  GrammarInv'
  <2>1. PICK onVllm \in BOOLEAN : onVllm <=> OnVllm(r)
    OBVIOUS
  <2>2. PICK ch, v, made : ch = choice[r][c] /\ v = view[r][c] /\ made = Grown(ch, onVllm, k, held)
    OBVIOUS
  <2>3. pc[r] = "stream" /\ input[r].kind = "chat" /\ ~ch.over
    BY <1>1, <2>2 DEF ChatChunk
  <2>4. made = [ch EXCEPT !.made = @ + k, !.count = IF OnVllm(r) THEN @ + k ELSE @, !.held = held]
    BY <2>1, <2>2 DEF Grown
  <2>5. input[r].stream => ChoiceOf("chat", onVllm, ch, v) /\ v.finishes = 0
    <3>1. input[r].stream => ChoiceOf("chat", OnVllm(r), ch, v) /\ v.finishes = 0
      BY <2>2, <2>3, ChoiceFacts
    <3> QED
      BY <2>1, <3>1 DEF ChoiceOf, ChatChoice
  <2>6. ASSUME NEW new, NEW w, ChoiceOf("chat", onVllm, new, w)
        PROVE  ChoiceOf(input[r].kind, OnVllm(r), new, w)
    BY <2>1, <2>3, <2>6 DEF ChoiceOf, ChatChoice
  <2>7. ASSUME input[r].stream, NEW w
        PROVE  /\ Follows(v, w, <<>>) => ChoiceOf("chat", onVllm, made, w) /\ w.finishes = 0
               /\ \A texts \in Seq(Texts) : Follows(v, w, WithOpening(ch, texts)) =>
                      /\ w.finishes = 0
                      /\ ChoiceOf("chat", onVllm, Texted(made, texts), w)
    <3>1. k \in Nat /\ made = Grown(ch, onVllm, k, held)
      BY <2>2
    <3> QED
      BY <2>3, <2>5, <2>7, <3>1, ChatChunkChoice
  <2>8. CASE ~text
    <3>1. Sends(r, c, made, <<>>)
      BY <1>1, <2>2, <2>4, <2>8 DEF ChatChunk
    <3>2. ASSUME input[r].stream, NEW w, Follows(v, w, <<>>)
          PROVE  ChoiceOf(input[r].kind, OnVllm(r), made, w) /\ w.finishes = 0
      BY <2>6, <2>7, <3>2
    <3> QED
      BY <2>2, <2>3, <3>1, <3>2, SendsGrammar
  <2>9. CASE text
    <3>1. PICK events \in Parsed(input[r], ch) : Sends(r, c, Texted(made, events), WithOpening(ch, events))
      BY <1>1, <2>2, <2>4, <2>9 DEF ChatChunk, Texted
    <3>2. events \in Seq(Texts)
      BY ParsedTexts
    <3>3. PICK new : new = Texted(made, events)
      OBVIOUS
    <3>4. ASSUME input[r].stream, NEW w, Follows(v, w, WithOpening(ch, events))
          PROVE  ChoiceOf(input[r].kind, OnVllm(r), new, w) /\ w.finishes = 0
      <4>1. ChoiceOf("chat", onVllm, new, w) /\ w.finishes = 0
        BY <2>7, <3>2, <3>3, <3>4
      <4> QED
        BY <2>6, <4>1
    <3> QED
      BY <2>2, <2>3, <3>1, <3>3, <3>4, SendsGrammar
  <2> QED
    BY <2>8, <2>9
<1>2. ASSUME NEW c \in ChoicesOf(r), NEW reason \in {"stop", "length"}, ChatComplete(r, c, reason)
      PROVE  GrammarInv'
  <2>1. PICK onVllm \in BOOLEAN : onVllm <=> OnVllm(r)
    OBVIOUS
  <2>2. PICK ch, v : ch = choice[r][c] /\ v = view[r][c]
    OBVIOUS
  <2>3. pc[r] = "stream" /\ input[r].kind = "chat" /\ ~ch.over
    BY <1>2, <2>2 DEF ChatComplete
  <2>4. PICK new : new = [ch EXCEPT !.over = TRUE, !.held = FALSE, !.finish = reason,
                                    !.count = IF onVllm THEN @ ELSE ch.made]
    OBVIOUS
  <2>5. Sends(r, c, new, IF ch.held THEN <<"content">> ELSE <<>>)
    BY <1>2, <2>1, <2>2, <2>4 DEF ChatComplete
  <2>6. ASSUME input[r].stream, NEW w, Follows(v, w, IF ch.held THEN <<"content">> ELSE <<>>)
        PROVE  ChoiceOf(input[r].kind, OnVllm(r), new, w) /\ w.finishes = 0
    <3>1. ChoiceOf("chat", OnVllm(r), ch, v) /\ v.finishes = 0
      BY <2>2, <2>3, <2>6, ChoiceFacts
    <3>2. ChoiceOf("chat", onVllm, ch, v)
      BY <2>1, <3>1 DEF ChoiceOf, ChatChoice
    <3>3. ChoiceOf("chat", onVllm, new, w) /\ w.finishes = 0
      BY <2>3, <2>4, <2>6, <3>1, <3>2, ChatCompleteChoice
    <3> QED
      BY <2>1, <2>3, <3>3 DEF ChoiceOf, ChatChoice
  <2> QED
    BY <2>2, <2>3, <2>5, <2>6, SendsGrammar
<1> QED
  BY <1>1, <1>2 DEF Chatting

LEMMA GeneratingGrammar ==
    ASSUME HandlerType, GrammarInv, NEW r \in Requests, Own(r), Generating(r)
    PROVE  GrammarInv'
<1>1. PICK c \in ChoicesOf(r) : \/ GenerateChunk(r, c) \/ GenerateChunkPd(r, c)
                                \/ \E reason \in {"stop", "length"} :
                                       GenerateComplete(r, c, reason) \/ GenerateCompletePd(r, c, reason)
  BY DEF Generating
<1>2. PICK ch, v : ch = choice[r][c] /\ v = view[r][c]
  OBVIOUS
<1>3. pc[r] = "stream" /\ input[r].kind = "generate" /\ ~ch.over
  BY <1>1, <1>2 DEF GenerateChunk, GenerateChunkPd, GenerateComplete, GenerateCompletePd
<1>4. input[r].stream => ChoiceOf("generate", OnVllm(r), ch, v)
  BY <1>2, <1>3, ChoiceFacts
<1>5. CASE GenerateChunk(r, c) \/ GenerateChunkPd(r, c)
  <2>1. PICK new : new = [ch EXCEPT !.made = @ + 1, !.count = @ + 1]
    OBVIOUS
  <2>2. Sends(r, c, new, <<"content">>)
    BY <1>2, <1>5, <2>1 DEF GenerateChunk, GenerateChunkPd
  <2>3. ASSUME input[r].stream, NEW w, Follows(v, w, <<"content">>)
        PROVE  ChoiceOf("generate", OnVllm(r), new, w)
    <3>1. w = Seen(v, <<"content">>)
      BY <2>3 DEF Follows
    <3> QED
      BY <1>3, <1>4, <2>1, <2>3, <3>1, GenerateChunkChoice
  <2> QED
    BY <1>2, <1>3, <2>2, <2>3, SendsGrammar
<1>6. ASSUME NEW reason \in {"stop", "length"}, GenerateComplete(r, c, reason) \/ GenerateCompletePd(r, c, reason)
      PROVE  GrammarInv'
  <2>1. PICK new : new = [ch EXCEPT !.over = TRUE, !.finish = reason]
    OBVIOUS
  <2>2. Sends(r, c, new, <<reason>>)
    BY <1>2, <1>6, <2>1 DEF GenerateComplete, GenerateCompletePd
  <2>3. ASSUME input[r].stream, NEW w, Follows(v, w, <<reason>>)
        PROVE  ChoiceOf("generate", OnVllm(r), new, w)
    <3>1. w = Seen(v, <<reason>>)
      BY <2>3 DEF Follows
    <3> QED
      BY <1>3, <1>4, <2>1, <2>3, <3>1, GenerateCompleteChoice
  <2> QED
    BY <1>2, <1>3, <2>2, <2>3, SendsGrammar
<1> QED
  BY <1>1, <1>5, <1>6

LEMMA HarmonizingGrammar ==
    ASSUME HandlerType, GrammarInv, NEW r \in Requests, Own(r), Harmonizing(r)
    PROVE  GrammarInv'
<1>0. 0 \in ChoicesOf(r)
  BY DEF HandlerType, Asks, ChoicesOf
<1>1. PICK ch, v : ch = choice[r][0] /\ v = view[r][0]
  OBVIOUS
<1>2. ASSUME NEW toks \in TokenChunks(talk[r].st.p), HarmonyChunk(r, toks)
      PROVE  GrammarInv'
  <2>1. PICK d : d = ParseChunk(talk[r].st, toks).delta
    OBVIOUS
  <2>2. pc[r] = "stream" /\ input[r].kind = "harmony" /\ ~ch.over
    BY <1>1, <1>2 DEF HarmonyChunk
  <2>3. CASE TaskFails(r)
    BY <2>2, <2>3, TaskFailsGrammar
  <2>4. CASE ~TaskFails(r)
    <3>1. PICK any \in BOOLEAN : any <=> d.any
      OBVIOUS
    <3>2. PICK new : new = Chunked(ch, Len(toks), any)
      OBVIOUS
    <3>3. PICK w : w = IF ~any THEN v ELSE Seen(v, WithOpening(ch, <<DeltaEvent(d)>>))
      OBVIOUS
    <3>4. /\ choice' = [choice EXCEPT ![r][0] = [ch EXCEPT !.made = @ + Len(toks), !.count = @ + 1,
                                                          !.first = @ /\ ~d.any]]
          /\ view' = IF ~d.any THEN view ELSE [view EXCEPT ![r][0] = Seen(@, WithOpening(ch, <<DeltaEvent(d)>>))]
          /\ UNCHANGED <<worker, router, handler, wire, client, tail>>
      BY <1>1, <1>2, <2>1, <2>4 DEF HarmonyChunk
    <3>5. /\ choice' = [choice EXCEPT ![r][0] = new]
          /\ view' = [view EXCEPT ![r][0] = w] \/ (view' = view /\ view[r][0] = w)
          /\ UNCHANGED <<pc, picked, status, input, vllm, client, tail>>
      BY <1>1, <3>1, <3>2, <3>3, <3>4 DEF router, handler, Chunked
    <3>6. Len(toks) \in Nat /\ DeltaEvent(d) \in Texts
      BY DEF TokenChunks, DeltaEvent, Texts
    <3>7. ASSUME input[r].stream
          PROVE  ChoiceOf("harmony", OnVllm(r), new, w)
      <4>1. ChoiceOf("harmony", OnVllm(r), ch, v)
        BY <1>0, <1>1, <2>2, <3>7, ChoiceFacts
      <4> QED
        BY <2>2, <3>2, <3>3, <3>6, <4>1, HarmonyChunkChoice
    <3> QED
      BY <1>0, <2>2, <3>5, <3>7, ChoiceGrammar
  <2> QED
    BY <2>3, <2>4
<1>3. ASSUME NEW reason \in {"stop", "length"}, HarmonyComplete(r, reason)
      PROVE  GrammarInv'
  <2>1. pc[r] = "stream" /\ input[r].kind = "harmony" /\ ~ch.over
    BY <1>1, <1>3 DEF HarmonyComplete
  <2>2. PICK new : new = [ch EXCEPT !.over = TRUE, !.count = ch.made, !.finish = reason]
    OBVIOUS
  <2>3. PICK final : final = ParseComplete(talk[r].st.p, reason).finish
    OBVIOUS
  <2>4. final \in Finishes
    BY <2>3 DEF ParseComplete, Finishes
  <2>5. Sends(r, 0, new, IF ch.made = 0 THEN <<>> ELSE <<final>>)
    BY <1>1, <1>3, <2>2, <2>3 DEF HarmonyComplete, FinalChunk
  <2>6. ASSUME input[r].stream, NEW w, Follows(v, w, IF ch.made = 0 THEN <<>> ELSE <<final>>)
        PROVE  ChoiceOf("harmony", OnVllm(r), new, w)
    <3>1. ChoiceOf("harmony", OnVllm(r), ch, v)
      BY <1>0, <1>1, <2>1, <2>6, ChoiceFacts
    <3> QED
      BY <2>1, <2>2, <2>4, <2>6, <3>1, HarmonyCompleteChoice
  <2> QED
    BY <1>0, <1>1, <2>1, <2>5, <2>6, SendsGrammar
<1> QED
  BY <1>2, <1>3 DEF Harmonizing

\* The task has read its stream: [DONE], and the usage of the counts that are now the
\* numbers of tokens made.
LEMMA TaskEndsGrammar ==
    ASSUME HandlerType, GrammarInv, NEW r \in Requests, Own(r), pc[r] = "stream", NEW views,
           NEW usage \in BOOLEAN, TaskEnds(r, views, usage),
           usage => input[r].kind \in {"chat", "harmony"},
           input[r].stream =>
               /\ DOMAIN views = ChoicesOf(r)
               /\ \A c \in ChoicesOf(r) :
                      /\ ChoiceOf(input[r].kind, OnVllm(r), choice[r][c], views[c])
                      /\ input[r].kind = "chat" /\ client[r] = "here" =>
                             views[c].finishes = IF choice[r][c].over THEN 1 ELSE 0
    PROVE  GrammarInv'
<1>1. PICK total : total = Total(r)
  OBVIOUS
<1>2. /\ pc' = Put(pc, r, IF client[r] = "left" THEN "gone" ELSE "ended")
      /\ view' = [view EXCEPT ![r] = views]
      /\ tail' = IF client[r] = "left" THEN tail
                 ELSE [tail EXCEPT ![r].dones = @ + 1, ![r].usage = IF usage THEN total ELSE @]
      /\ UNCHANGED <<picked, status, input, vllm, client, choice>>
  BY <1>1 DEF TaskEnds, EndOfTask, router
<1>3. Apart(r)
  BY <1>2 DEF Apart, GrammarInv, HandlerType, Put, SameStream
<1>4. ASSUME input[r].stream
      PROVE  StreamedAt(r)'
  <2>1. StreamedAt(r) /\ client[r] \in {"here", "left"}
    BY <1>4 DEF GrammarInv
  <2>2. /\ ChoicesOf(r)' = ChoicesOf(r) /\ (OnVllm(r)' <=> OnVllm(r)) /\ input'[r] = input[r]
        /\ Added([c \in ChoicesOf(r) |-> choice[r][c].made])' = Added([c \in ChoicesOf(r) |-> choice[r][c].made])
    BY <1>2, SameConstants
  <2>3. tail[r] = FreshTail
    BY <2>1 DEF StreamedAt, TailAt, Ended
  <2>4. /\ client[r] = "left" => pc'[r] = "gone" /\ tail'[r] = tail[r]
        /\ client[r] = "here" => /\ pc'[r] = "ended"
                                 /\ tail'[r].errors = 0 /\ tail'[r].dones = 1
                                 /\ tail'[r].usage = IF usage THEN total ELSE None
    BY <1>2, <2>3 DEF HandlerType, Put, FreshTail
  <2>5. view'[r] = views /\ choice'[r] = choice[r] /\ client'[r] = client[r]
    BY <1>2 DEF GrammarInv
  <2>6. ASSUME NEW c \in ChoicesOf(r)
        PROVE  ChoiceAt(r, c)'
    <3>1. ChoiceOf(input[r].kind, OnVllm(r)', choice[r][c], views[c])
      BY <1>4, <2>2 DEF ChoiceOf, ChatChoice
    <3>2. client[r] = "left" => tail'[r].dones = 0
      BY <2>3, <2>4 DEF FreshTail
    <3> QED
      BY <1>4, <2>1, <2>2, <2>4, <2>5, <3>1, <3>2 DEF ChoiceAt, Ended
  <2>7. TailAt(r)'
    <3>1. ASSUME usage, \A c \in ChoicesOf(r) : choice[r][c].over
          PROVE  total = Added([c \in ChoicesOf(r) |-> choice[r][c].made])
      <4>1. \A c \in ChoicesOf(r) : choice[r][c].count = choice[r][c].made
        BY <1>4, <3>1 DEF ChoiceOf, ChatChoice, HarmonyChoice
      <4>2. [c \in ChoicesOf(r) |-> choice[r][c].count] = [c \in ChoicesOf(r) |-> choice[r][c].made]
        BY <4>1
      <4> QED
        BY <1>1, <4>2 DEF Total
    <3>2. CASE client[r] = "left"
      BY <2>1, <2>2, <2>3, <2>4, <3>2 DEF TailAt, Ended, FreshTail
    <3>3. CASE client[r] = "here"
      BY <2>2, <2>4, <2>5, <3>1, <3>3 DEF TailAt, Ended
    <3> QED
      BY <2>1, <3>2, <3>3
  <2> QED
    BY <1>4, <2>1, <2>2, <2>4, <2>5, <2>6, <2>7 DEF StreamedAt
<1> QED
  BY <1>3, <1>4, GrammarStep

LEMMA EndingGrammar ==
    ASSUME HandlerType, GrammarInv, NEW r \in Requests, Own(r), Ending(r)
    PROVE  GrammarInv'
<1>1. ASSUME pc[r] = "stream", TaskFails(r)
      PROVE  GrammarInv'
  BY <1>1, TaskFailsGrammar
<1>2. ASSUME pc[r] = "stream", input[r].kind \in {"generate", "harmony"}, NEW usage \in BOOLEAN,
             TaskEnds(r, view[r], usage), usage => input[r].kind = "harmony"
      PROVE  GrammarInv'
  <2>1. ASSUME input[r].stream
        PROVE  /\ DOMAIN view[r] = ChoicesOf(r)
               /\ \A c \in ChoicesOf(r) : ChoiceOf(input[r].kind, OnVllm(r), choice[r][c], view[r][c])
    BY <1>2, <2>1, ChoiceFacts DEF GrammarInv, StreamedAt
  <2> QED
    BY <1>2, <2>1, TaskEndsGrammar
<1>3. ASSUME NEW usage \in BOOLEAN, NEW rest, ChatEnds(r, usage, rest)
      PROVE  GrammarInv'
  <2>1. PICK finished : finished = {c \in ChoicesOf(r) : choice[r][c].finish # None}
    OBVIOUS
  <2> DEFINE flushed(c) == IF c \in rest THEN Seen(view[r][c], <<"args">>) ELSE view[r][c]
             ended(c) == IF c \in finished THEN Seen(flushed(c), <<FinishReason(choice[r][c])>>)
                         ELSE flushed(c)
  <2>2. PICK views : views = [c \in ChoicesOf(r) |-> IF client[r] = "here" THEN ended(c) ELSE view[r][c]]
    OBVIOUS
  <2>3. /\ pc[r] = "stream" /\ input[r].kind = "chat" /\ rest \subseteq Unstreamed(r)
        /\ TaskFails(r) \/ TaskEnds(r, views, usage)
    BY <1>3, <2>1, <2>2 DEF ChatEnds
  <2>4. ASSUME input[r].stream, NEW c \in ChoicesOf(r)
        PROVE  /\ ChoiceOf("chat", OnVllm(r), choice[r][c], views[c])
               /\ client[r] = "here" => views[c].finishes = IF choice[r][c].over THEN 1 ELSE 0
    <3>1. PICK onVllm \in BOOLEAN : onVllm <=> OnVllm(r)
      OBVIOUS
    <3>2. PICK ch, v, x : ch = choice[r][c] /\ v = view[r][c] /\ x = flushed(c)
      OBVIOUS
    <3>3. ChoiceOf("chat", OnVllm(r), ch, v) /\ v.finishes = 0
      BY <2>3, <2>4, <3>2, ChoiceFacts
    <3>4. ch.over <=> ch.finish # None
      BY <3>3 DEF ChoiceOf
    <3>5. ChoiceOf("chat", onVllm, ch, v)
      BY <3>1, <3>3 DEF ChoiceOf, ChatChoice
    <3>6. ChoiceOf("chat", onVllm, ch, x) /\ x.finishes = 0
      <4>1. CASE c \in rest
        <5>1. x = Seen(v, <<"args">>) /\ ch.called
          BY <2>3, <3>2, <4>1 DEF Unstreamed
        <5> QED
          BY <3>3, <3>5, <5>1, ChatFlushChoice
      <4>2. CASE c \notin rest
        BY <3>2, <3>3, <3>5, <4>2
      <4> QED
        BY <4>1, <4>2
    <3>7. CASE c \in finished /\ client[r] = "here"
      <4>1. views[c] = Seen(x, <<FinishReason(ch)>>) /\ ch.finish # None
        BY <2>1, <2>2, <3>2, <3>7
      <4>2. ChoiceOf("chat", onVllm, ch, views[c]) /\ views[c].finishes = 1
        BY <3>6, <4>1, ChatEndChoice
      <4> QED
        BY <3>1, <3>2, <3>4, <4>1, <4>2 DEF ChoiceOf, ChatChoice
    <3>8. CASE c \notin finished /\ client[r] = "here"
      <4>1. views[c] = x /\ ch.finish = None
        BY <2>1, <2>2, <3>2, <3>8
      <4> QED
        BY <3>1, <3>2, <3>4, <3>6, <4>1 DEF ChoiceOf, ChatChoice
    <3>9. CASE client[r] # "here"
      <4>1. views[c] = v
        BY <2>2, <3>2, <3>9
      <4> QED
        BY <3>2, <3>3, <3>9, <4>1
    <3> QED
      BY <3>7, <3>8, <3>9
  <2>5. DOMAIN views = ChoicesOf(r)
    BY <2>2
  <2>6. CASE TaskEnds(r, views, usage)
    BY <2>3, <2>4, <2>5, <2>6, TaskEndsGrammar
  <2> QED
    BY <1>1, <2>3, <2>6
<1>4. ASSUME NEW usage \in BOOLEAN, HarmonyEnds(r, usage)
      PROVE  GrammarInv'
  BY <1>1, <1>2, <1>4 DEF HarmonyEnds
<1>5. CASE GenerateEnds(r)
  BY <1>2, <1>5 DEF GenerateEnds
<1> QED
  BY <1>3, <1>4, <1>5 DEF Ending

\* Steps of workers and aborts.
LEMMA QuietGrammar ==
    ASSUME GrammarInv, UNCHANGED <<pc, picked, status, input, vllm, client, choice, view, tail>>
    PROVE  GrammarInv'
<1>1. ASSUME NEW r \in Requests, input[r].stream
      PROVE  StreamedAt(r)'
  BY <1>1, SameStreamKept DEF GrammarInv, SameStream
<1> QED
  BY <1>1 DEF GrammarInv

LEMMA InitGrammar == Init => GrammarInv
<1> SUFFICES ASSUME Init
             PROVE  GrammarInv
  OBVIOUS
<1>1. /\ client = [r \in Requests |-> "here"]
      /\ choice = [r \in Requests |-> [c \in ChoicesOf(r) |-> FreshChoice]]
      /\ view = [r \in Requests |-> [c \in ChoicesOf(r) |-> FreshView]]
      /\ tail = [r \in Requests |-> FreshTail]
      /\ pc = [r \in Requests |-> IF input[r].kind = None THEN "done" ELSE "new"]
      /\ status = [r \in Requests |-> None]
  BY DEF Init, PipelineInit
<1>2. PICK x \in Scenarios : input = x.input
  BY DEF Init, PipelineInit
<1>3. /\ FreshChoice \in ChoiceStates /\ FreshView \in ClientViews /\ ~FreshView.late
      /\ FreshChoice.first /\ FreshChoice.finish = None /\ FreshChoice.count = 0 /\ FreshChoice.made = 0
      /\ ~FreshChoice.over /\ ~FreshChoice.called
      /\ FreshView.openings = 0 /\ ~FreshView.early /\ ~FreshView.called /\ FreshView.finishes = 0
  BY DEF FreshChoice, FreshView, ChoiceStates, ClientViews
<1>4. ASSUME NEW kind, NEW onVllm
      PROVE  ChoiceOf(kind, onVllm, FreshChoice, FreshView)
  BY <1>3 DEF ChoiceOf, ChatChoice, ChatFinish, GenerateChoice, HarmonyChoice
<1>5. ASSUME NEW r \in Requests, input[r].stream
      PROVE  StreamedAt(r)
  <2>1. input[r].kind \in {"chat", "harmony", "generate"}
    BY <1>2, <1>5, PipelineAssumption
  <2>2. pc[r] = "new" /\ client[r] = "here" /\ tail[r] = FreshTail
    BY <1>1, <2>1, PipelineAssumption DEF Kinds
  <2>3. tail[r].errors = 0 /\ tail[r].dones = 0 /\ tail[r].usage = None
    BY <2>2 DEF FreshTail
  <2>4. ASSUME NEW c \in ChoicesOf(r)
        PROVE  ChoiceAt(r, c)
    <3>1. choice[r][c] = FreshChoice /\ view[r][c] = FreshView
      BY <1>1
    <3> QED
      BY <1>3, <1>4, <2>2, <2>3, <3>1 DEF ChoiceAt
  <2>5. TailAt(r)
    BY <2>2, <2>3 DEF TailAt
  <2>6. DOMAIN choice[r] = ChoicesOf(r) /\ DOMAIN view[r] = ChoicesOf(r)
    BY <1>1
  <2> QED
    BY <2>1, <2>2, <2>4, <2>5, <2>6 DEF StreamedAt
<1> QED
  BY <1>1, <1>5 DEF GrammarInv

LEMMA NextGrammar == GrpcInv /\ GrammarInv /\ [Next]_vars => GrammarInv'
<1> SUFFICES ASSUME GrpcInv, GrammarInv, [Next]_vars
             PROVE  GrammarInv'
  OBVIOUS
<1>0. HandlerType /\ \A r \in Requests : Own(r)
  BY DEF GrpcInv
<1>1. ASSUME NEW r \in Requests, Pipeline(r) \/ (Leave(r) /\ UNCHANGED stream)
      PROVE  GrammarInv'
  BY <1>1, PipelineGrammar
<1>2. ASSUME NEW r \in Requests, Task(r)
      PROVE  GrammarInv'
  <2>1. CASE Starting(r)
    <3>1. CASE StreamBreaks(r)
      BY <1>0, <3>1, TaskFailsGrammar DEF StreamBreaks
    <3> QED
      BY <1>0, <2>1, <3>1, OnwardGrammar DEF Starting
  <2>2. CASE Chatting(r)
    BY <1>0, <2>2, ChattingGrammar
  <2>3. CASE Generating(r)
    BY <1>0, <2>3, GeneratingGrammar
  <2>4. CASE Harmonizing(r)
    BY <1>0, <2>4, HarmonizingGrammar
  <2>5. CASE Ending(r)
    BY <1>0, <2>5, EndingGrammar
  <2> QED
    BY <1>2, <2>1, <2>2, <2>3, <2>4, <2>5 DEF Task
<1>3. ASSUME NEW r \in Requests, CloseBody(r)
      PROVE  GrammarInv'
  BY <1>0, <1>3, OnwardGrammar
<1>4. ASSUME NEW r \in Requests, LeaveStream(r)
      PROVE  GrammarInv'
  BY <1>0, <1>4, LeaveStreamGrammar
<1>5. ASSUME NEW a \in aborts, AbortArrives(a), UNCHANGED stream
      PROVE  GrammarInv'
  BY <1>5, QuietGrammar DEF AbortArrives, router, handler, stream
<1>6. ASSUME NEW w \in Workers, TimeOut(w)
      PROVE  GrammarInv'
  BY <1>6, QuietGrammar DEF TimeOut, router, handler, stream
<1>7. CASE UNCHANGED vars
  BY <1>7, QuietGrammar DEF vars, router, handler, stream
<1> QED
  BY <1>1, <1>2, <1>3, <1>4, <1>5, <1>6, <1>7 DEF Next

LEMMA GrammarImplied == GrammarInv => StreamGrammar
<1> SUFFICES ASSUME GrammarInv, NEW r \in Requests, input[r].stream
             PROVE  /\ tail[r].dones <= 1 /\ tail[r].errors <= 1
                    /\ pc[r] = "done" /\ status[r] = "ok" => tail[r].dones = 1
                    /\ \A c \in ChoicesOf(r) :
                           LET v == view[r][c]
                               ch == choice[r][c] IN
                           /\ v.openings <= 1 /\ v.finishes <= 1 /\ ~v.late
                           /\ input[r].kind # "generate" => (v.early => v.openings = 0)
                           /\ input[r].kind = "chat" /\ v.finishes = 1 =>
                                  (v.finish = "tool_calls") = (v.called /\ ch.finish = "stop")
                           /\ tail[r].dones = 1 /\ tail[r].errors = 0 =>
                                  v.finishes = (IF ch.over /\ (input[r].kind = "harmony" => ch.made > 0)
                                                THEN 1 ELSE 0)
                    /\ tail[r].usage # None /\ (\A c \in ChoicesOf(r) : choice[r][c].over) =>
                           tail[r].usage = Added([c \in ChoicesOf(r) |-> choice[r][c].made])
  BY DEF StreamGrammar
<1>1. StreamedAt(r)
  BY DEF GrammarInv
<1>2. TailAt(r) /\ input[r].kind \in {"chat", "harmony", "generate"}
  BY <1>1 DEF StreamedAt
<1>3. ASSUME NEW c \in ChoicesOf(r), NEW v, NEW ch, v = view[r][c], ch = choice[r][c]
      PROVE  /\ v.openings <= 1 /\ v.finishes <= 1 /\ ~v.late
             /\ input[r].kind # "generate" => (v.early => v.openings = 0)
             /\ input[r].kind = "chat" /\ v.finishes = 1 =>
                    (v.finish = "tool_calls") = (v.called /\ ch.finish = "stop")
             /\ tail[r].dones = 1 /\ tail[r].errors = 0 =>
                    v.finishes = (IF ch.over /\ (input[r].kind = "harmony" => ch.made > 0) THEN 1 ELSE 0)
  <2>1. /\ ChoiceOf(input[r].kind, OnVllm(r), ch, v)
        /\ input[r].kind = "chat" /\ tail[r].dones = 1 /\ tail[r].errors = 0 =>
               v.finishes = IF ch.over THEN 1 ELSE 0
    BY <1>1, <1>3 DEF StreamedAt, ChoiceAt
  <2>2. ~v.late /\ v.called \in BOOLEAN
    BY <2>1 DEF ChoiceOf, ClientViews
  <2>3. CASE input[r].kind = "chat"
    <3>1. ChatChoice(OnVllm(r), ch, v) /\ ChatFinish(ch, v)
      BY <2>1, <2>3 DEF ChoiceOf
    <3>2. /\ v.openings <= 1 /\ v.finishes <= 1 /\ (v.early => v.openings = 0)
          /\ v.finishes = 1 => (v.finish = "tool_calls" <=> v.called /\ ch.finish = "stop")
      BY <3>1 DEF ChatChoice, ChatFinish
    <3> QED
      BY <2>1, <2>2, <2>3, <3>2
  <2>4. CASE input[r].kind = "generate"
    BY <2>1, <2>2, <2>4 DEF ChoiceOf, GenerateChoice
  <2>5. CASE input[r].kind = "harmony"
    BY <2>1, <2>2, <2>5 DEF ChoiceOf, HarmonyChoice
  <2> QED
    BY <1>2, <2>3, <2>4, <2>5
<1>4. /\ tail[r].dones <= 1 /\ tail[r].errors <= 1
      /\ pc[r] = "done" /\ status[r] = "ok" => tail[r].dones = 1
      /\ tail[r].usage # None /\ (\A c \in ChoicesOf(r) : choice[r][c].over) =>
             tail[r].usage = Added([c \in ChoicesOf(r) |-> choice[r][c].made])
  BY <1>2 DEF TailAt
<1> QED
  BY <1>3, <1>4

-----------------------------------------------------------------------------
(* The theorems *)

LEMMA InitInv == Init => GrpcInv
<1> SUFFICES ASSUME Init
             PROVE  GrpcInv
  OBVIOUS
<1>1. PICK x \in Scenarios : pd = x.pd /\ input = x.input
  BY DEF Init, PipelineInit
<1>2. pd \in BOOLEAN /\ input \in [Requests -> Asks]
  BY <1>1, PipelineAssumption
<1>3. HandlerType
  <2>1. rpc \in [Requests -> Streams]
    BY DEF Init, PipelineInit, Streams, NoStream
  <2>2. pc \in [Requests -> Places]
    BY DEF Init, PipelineInit, Places, Bare, Over
  <2>3. picked \in [Requests -> Picks] /\ guards \in [Requests -> {"none", "context", "body"}]
    BY DEF Init, PipelineInit, Picks
  <2>4. load \in [Workers -> Int] /\ attempt \in [Requests -> Nat] /\ DOMAIN tail = Requests
    BY DEF Init, PipelineInit, WorkerInit
  <2> QED
    BY <1>2, <2>1, <2>2, <2>3, <2>4 DEF HandlerType
<1>4. ASSUME NEW r \in Requests
      PROVE  Own(r)
  <2>1. /\ pc[r] \in {"new", "done"} /\ guards[r] = "none" /\ tail[r] = FreshTail
        /\ \A e \in Ends : rpc[r][e].fate = "none"
    BY DEF Init, PipelineInit, NoStream
  <2>2. tail[r].errors = 0 /\ TailType(tail[r])
    BY <2>1 DEF FreshTail, TailType
  <2> QED
    BY <2>1, <2>2 DEF Own, GuardsKept, StreamsKept, Settled, Open, Over, Bare
<1>5. GuardsExact
  <2> SUFFICES ASSUME NEW w \in Workers
               PROVE  load[w] = Cardinality({r \in Requests : Holds(r, w)})
    BY DEF GuardsExact, Holds
  <2>1. {r \in Requests : Holds(r, w)} = {}
    BY DEF Init, PipelineInit, Holds
  <2> QED
    BY <2>1, FS_EmptySet DEF Init, PipelineInit, WorkerInit
<1>6. AbortInv
  BY DEF Init, PipelineInit, AbortInv
<1> QED
  BY <1>3, <1>4, <1>5, <1>6 DEF GrpcInv

LEMMA NextInv == GrpcInv /\ [Next]_vars => GrpcInv'
<1> SUFFICES ASSUME GrpcInv, [Next]_vars
             PROVE  GrpcInv'
  OBVIOUS
<1>1. ASSUME NEW r \in Requests, Pipeline(r)
      PROVE  GrpcInv'
  BY <1>1, PipelineKept
<1>2. ASSUME NEW r \in Requests, Task(r)
      PROVE  GrpcInv'
  BY <1>2, TaskKept
<1>3. ASSUME NEW r \in Requests, CloseBody(r) \/ LeaveStream(r)
      PROVE  GrpcInv'
  BY <1>3, BodyKept
<1>4. ASSUME NEW r \in Requests, Leave(r), UNCHANGED stream
      PROVE  GrpcInv'
  BY <1>4, LeaveKept DEF stream
<1>5. ASSUME NEW a \in aborts, AbortArrives(a), UNCHANGED stream
      PROVE  GrpcInv'
  BY <1>5, AbortArrivesKept DEF stream
<1>6. ASSUME NEW w \in Workers, TimeOut(w)
      PROVE  GrpcInv'
  BY <1>6, QuietKept DEF TimeOut, CoolDown, core, router, handler, wire, stream
<1>7. CASE UNCHANGED vars
  BY <1>7, QuietKept DEF vars, core, worker, router, handler, wire, stream
<1> QED
  BY <1>1, <1>2, <1>3, <1>4, <1>5, <1>6, <1>7 DEF Next

LEMMA InvHolds == Spec => []GrpcInv
BY InitInv, NextInv, PTL DEF Spec

\* The load of a worker is the number of attempts whose guards are alive: every path on
\* which the pipeline, the retry loop, a stream's body or a leaving client gives them up
\* gives them up once (LoadGuards in context.rs, AttachedBody in worker.rs).
THEOREM GuardsAreExact == Spec => []GuardsExact
<1>1. GrpcInv => GuardsExact
  BY DEF GrpcInv
<1> QED
  BY <1>1, InvHolds, PTL

\* Streams are marked completed only when the output was read to its end, both or none,
\* and an abort, however late, never ends the stream of a later attempt under an id that
\* the gateway made (mark_completed, and Drop of the client's abort-on-drop stream).
THEOREM StreamsAreSettledRight == Spec => []StreamsSettleRight
<1>1. GrpcInv => StreamsSettleRight
  BY DEF GrpcInv, Own, Settled, AbortInv, StreamsSettleRight, SettledAlike, AbortsHitOwn
<1> QED
  BY <1>1, InvHolds, PTL

\* What the client of a streamed chat, generate or Harmony request is sent of each choice:
\* the opening chunk first and once, one finish chunk and nothing after it, "tool_calls" exactly
\* when calls were streamed and the model stopped by itself, one [DONE], and a usage that
\* is the number of tokens made, however the chunks of the choices interleave, the stream
\* breaks or the client leaves (process_streaming_chunks, process_generate_streaming and
\* the Harmony process_single_stream).
THEOREM StreamsKeepGrammar == Spec => []StreamGrammar
<1>1. Init => GrpcInv /\ GrammarInv
  BY InitInv, InitGrammar
<1>2. GrpcInv /\ GrammarInv /\ [Next]_vars => GrpcInv' /\ GrammarInv'
  BY NextInv, NextGrammar
<1> QED
  BY <1>1, <1>2, GrammarImplied, PTL DEF Spec
=============================================================================
