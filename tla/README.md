# TLA+ verification of the Qwen3.8-27B serving stack

This directory holds TLA+ models of the repository's own core, the TLC runs that
check them on small instances, and TLAPS proofs that hold for every value of the
constants. `PROJECT.json` lists components, runs, hazards, mutants and theorems, and
maps every definition to the lines it models.

## 1. The system

The repository deploys one model on four cards behind a gateway:

    client -> new-api :3001 -> SMG gateway :30010 -> SGLang workers :5800-5803
                               (src/gateway, Rust)    (src/sglang, patched Python)

* **Gateway, data plane.** A request passes the concurrency middleware (token
  bucket, bounded queue), then a router. The HTTP routers send it to one worker or to a
  prefill/decode pair; the gRPC routers run a pipeline of stages that ends in backend
  streams and build the client's events from them; the OpenAI router proxies to
  external workers. On top of the latter two sit the Responses API with its MCP tool
  loops, and the Conversations API. A policy chooses the worker. Each attempt goes
  through the retry executor. Every worker has a circuit breaker, a health flag and a
  load counter, which the routers read to select and write to report.
* **Gateway, control plane.** The admin API, the startup code and service discovery
  submit jobs to one job queue. A job runs a workflow that changes the worker and
  policy registries, or the WASM modules, tokenizers and MCP servers. A health checker
  probes all workers.
* **Workers.** SGLang with local patches. One of them is the evictor that bounds the
  disk tier (L3) of the hierarchical KV cache.

The components share state without a common lock: the registry is six concurrent
maps, the radix tree has a lock per node, the breaker is a handful of atomics,
responses carry guards whose `Drop` changes counters, and tool loops keep state over
many awaits. This is where the code is hard to test, and what the models are about.

### Inventory: what is modelled

| Component (source) | State it keeps | Operations | Talks to | What is hard | What makes it correct |
|---|---|---|---|---|---|
| Circuit breaker (`core/circuit_breaker.rs`) | state, two counters, time of the last change, all separate atomics | `can_execute`, `record_success/failure`, `reset`, `force_open`, state check | every router, the policies | accesses of several tasks interleave between load, swap and stores | operations that do not overlap act in one piece; probes only from Open; an open circuit is probed |
| Token bucket, request queue (`core/token_bucket.rs`, `middleware.rs`) | tokens, channel, oneshot permits | admit, enqueue, reject, dequeue, wait, time out, respond, end of body | every HTTP request | three paths compete for a token; clients leave at any await; nested timeouts | no token made or lost unseen; bound on concurrency; every queued request answered |
| Registries and worker workflows (`core/worker_registry.rs`, `policies/registry.rs`, `core/steps/worker`) | six maps, mesh ids, health flags, per-model counts and policies | register, remove, update, activate, assign policy | job queue, routers | no lock over the maps, many jobs at once | list and ring agree; a registered worker is served, a removed one is gone |
| Worker, health checker (`core/worker.rs`), retry executor (`core/retry.rs`) | health flag and counters, load, breaker; attempt | probe, load guards, outcome; decide, back off | routers | guards dropped anywhere; off by one | load exact; the loop ends |
| HTTP routers, tracked streams (`routers/http`, `routers/streaming_utils.rs`, `routers/factory.rs`) | place of each request, guards, terminal state of a stream, detached tasks, markers | select, send, headers, body, stream, drop; dual dispatch, forward, cancel | worker, retry | failure at each point; 200 and then a broken stream; one of two calls fails; disconnect | load exact, each worker judged once and by what it did, upstream released |
| Policies (`policies/*.rs`, load monitor in `core/worker_manager.rs`) | hash ring, counter, cached loads, session table and file, ranges and window, radix tree | select, register, evict, snapshot, restore, adjust, match, insert | registry, routers | concurrent tree; several snapshot threads, crashes, I/O errors; ranges cut by sums | keys move only with their worker; sessions stick and are restored; ranges tile; counts exact; hits earned |
| gRPC routers (`routers/grpc`) | stages of each request, backend streams and their fates, per-choice view, Harmony parser | every stage, dual dispatch, collection, streaming, abort | worker, retry, policies | prefill and decode streams settled apart; late aborts; text held back by parsers | streams settled by what happened; guards exact; event grammar; deltas add up |
| Responses API, OpenAI router, Conversations (`routers/grpc/*/responses`, `routers/openai`, `routers/conversations`) | loop state, emitter items, shared server set, stores, breaker reports | model runs, tool calls, emit, persist, history, handlers | pipeline, MCP servers, stores (external) | six separately written loops; any call fails; clients leave; handlers interleave | limits kept, results fed back, completed closes all, failures heard, stores whole |
| Job queue (`core/job_queue.rs`), service discovery (`service_discovery.rs`) | channel, permits, status map; tracked pods, watch | submit, dispatch, run, submit children, clean up, shutdown; watch, pod event, deletion | registry workflows, admin API, Kubernetes | a startup job waits for room in the queue it runs from; events lost while the watch is down | statuses not stale, jobs end, tracking and registry agree, healthy pods tracked |
| WASM modules, tokenizers, MCP servers (`wasm/route.rs`, `routers/tokenize/handlers.rs`, `core/steps/{wasm,tokenizer,mcp}_*.rs`) | workflows, module table, tokenizer and server registries, statuses | add, remove, status, the steps of each workflow | job queue, external engine and registries | a file changes while it is read three times; a status cleaned, shared or replaced while it is waited for | what runs was validated, what is reported is so, workflows end |
| L3 file evictor (`sglang/patches/0008-v6-scaled-evictor/lru_file_evictor.py`) | LRU index with sizes, heat, in-flight set, total; the files | scan, reserve, commit, abort, touch, clear, eviction loop | storage backend (external) | disk and index change apart; bounded loops with the lock held | accounting exact, writes in flight kept, coldest first, lock released |

### Not modelled, and why

| Component | Reason |
|---|---|
| Discovery steps of a registration | network probes and construction; their result is the offer a registration starts from |
| Worker manager apart from the load monitor, metrics aggregation | fan-out of GET and POST, merging of text: no state |
| Router manager (IGW mode with several routers) | chooses a router per request from the registry, no state of its own; only the factory's choice is modelled |
| Mesh synchronisation | an external crate; `WorkerRegistry` keeps the set of ids handed to it |
| Configuration, command line, Python bindings | sequential validation and argument passing; the models take what it admits as constants |
| Server, context and shutdown | wiring; what matters is in `ConcurrencyLimiter` and `JobQueue` |
| Observability | counters that no decision reads |
| SGLang TTL, pin and radix-cache patches, overlay, reasoning parser; new-api overlay | patched copies of third-party files; the repository's own rules act on objects whose other methods are not in the repository, so a model of them would be guesswork |
| Monitoring, operations scripts | polling and shell I/O |

In the modelled components, texts, ids, payload conversions between providers, chat
templates, token values, log probabilities and wording are left out: no property is
about them. What each component leaves out is said in its note in `PROJECT.json`.

## 2. Modules

| Module | Models | Extends |
|---|---|---|
| `BreakerOps` | a breaker's operations, each in one piece | |
| `CircuitBreaker` | the breaker, one atomic access per action | |
| `AtomicBreaker` | abstract specification: what a breaker promises | `BreakerOps` |
| `BreakerRefinement` | the mapping under which the first implements the second | `CircuitBreaker`, instances of the two others |
| `ConcurrencyLimiter` | token bucket, queue, middleware, token guard | |
| `WorkerRegistry` | registries and workflows, one map access per action | |
| `Worker`, `Retry` | a worker as routers see it; the retry decision | `BreakerOps` |
| `HttpRouter`, `PdRouter` | the two HTTP routers, composed with workers and retries | `Worker`, `Retry` |
| `HttpRouters` | the gateway in single-router mode: the factory and the router it makes | `HttpRouter`, instance of `PdRouter` |
| `JobQueue`, `ServiceDiscovery` | control-plane queue; pod watcher on top of it | |
| `Policies`, `ManualPolicy`, `BucketPolicy`, `CacheAware` | simple and hashing policies, ring and monitor; sessions; ranges; radix tree | |
| `Routing` | the configured policy with requests and workers around it | the four above |
| `GrpcPipeline`, `HarmonyParser`, `GrpcStreaming` | stages, retries and collection; Harmony parsing; streamed answers | `Worker`, `Retry` |
| `ResponseEmitter`, `Responses`, `OpenAIRouter`, `Conversations` | event emitter; tool loops of the gRPC routers; the OpenAI router; conversation handlers | each the one before |
| `ExtensionJobs`, `WasmModules`, `Tokenizers`, `McpServers`, `Extensions` | what the extension jobs share; the three kinds; all of them together | |
| `FileEvictor` | disk cache evictor | |
| `MC*` | values for TLC (workloads, offers, keys, sizes) | the module named |
| `RequestPathProofs`, `ApiProofs` | theorems on limiter and routing; on extension jobs and the Responses and Conversations APIs | `ConcurrencyLimiter`, `Routing`; `Extensions`, `Conversations` |
| other `*Proofs` | theorems | the module named (`GrpcProofs`: `GrpcStreaming`) |

Operators named as a *Variant* stand just before the definition they vary: each
is a plausible bug of the code, and `PROJECT.json` ("mutants") says which property
it breaks. They take no part in the specifications.

### How state and actions correspond to the code

**CircuitBreaker.** `state`, `consecutive_failures`, `consecutive_successes` are the
atomics; `changeAge` is `now_ms() - last_state_change_ms`. A thread's `pc` is its
next access. `Check`, `LoadAge`, `WinCas`, `Reload` are the state check; `Success`,
`AddSuccess`, `JudgeSuccess` and the corresponding failure steps are `record_success`
and `record_failure`; `Enter` is the swap of `transition_to`, and the stores after it
(`StoreTime`, `StoreFailures`, `StoreSuccesses`) are separate steps, in the code's
order. Counters stop at the threshold they are compared with, ages at the timeout.

**BreakerRefinement.** `AtomicBreaker` has one record; a step applies one operation of
`BreakerOps` to it. `Worker`, and with it every router model, uses the same operators,
so the refinement says when that abstraction is sound. Under the mapping an outcome,
`force_open` and `reset` take effect with their first access (the breaker is seen as it
will be once the operation under way has ended), a check with its CAS. `overlapped`
remembers that two operations were under way at once: the abstract breaker is then
unconstrained, since the code promises nothing there (see the observations). The
timeout is positive: a circuit with timeout 0 would be cooled before its time is stored.

**ConcurrencyLimiter.** A request has two views: `handler`, the middleware's future,
which the server drops when the client leaves, and `waiter`, the processor's work on
its queue entry, which nothing cancels. `Admit`, `Enqueue`, `Reject` are the branches of
`concurrency_limit_middleware`; `Dequeue` the processor's loop; `Grant`, `FailTry`,
`Register`, `PlanWait`, `GiveUp` the task that runs `acquire_timeout`; `Respond`,
`EndStream`, `Cancel` the ways a token guard is dropped. A token is `Unit` units, so
that fractions exist as they do in the `f64`.

**WorkerRegistry.** The six maps and the policy registry's two are variables of the
same names. A job carries a set `todo` of steps it may take next: the steps of
`register` and `remove` follow one another, while `UpdatePolicies` and
`ActivateWorkers` run in parallel as the workflow's graph says. `clash` and `overlap`
remember which urls and jobs ran at the same time.

**Worker, Retry, HttpRouter, PdRouter, HttpRouters.** `Filter` and `Pick` are the
selection (availability is polled, which may move a breaker to HalfOpen, then the policy
chooses and may find nothing); `PrepareFails`, `Send`, `SendFails`, `Headers`, `Body` are
`send_typed_request`; `EndStream` and `Close` the tracked stream and its drop; `Wake`
the end of a backoff, up to which the retried response lives; `Disconnect` drops the
future or the body; `Probe` is `check_health_async`, `TimeOut` the end of a breaker's
timeout. In `PdRouter` a call is a request and an attempt. `DecodeEarly`,
`PrefillPasses`, `PrefillFails`, `DecodeReplies` are the two concurrent sends in either
order; a reply of decode's that fails before prefill does is dropped with it
(`Overlooked`). The task of `Forward` is detached and ends by `StreamEnds` or
`CancelTask`; `Finish` is the end of the body, which gives the loads back. `Return` ends an
attempt, and the action that returns a response without the marker makes the retry
closure's report (`Tell`).
`HttpRouters` starts in either mode and keeps what both routers have in the same
variables.

**JobQueue, ServiceDiscovery.** `Submit` records pending, `Enqueue` waits for room,
`Take` and `Spawn` are the dispatcher, `Begin`, `Run`, `SubmitChild`, `Complete` and
`Fail` are `process_job`, `CleanUp` the removal of old statuses, `Shutdown` the end of
the application context. Discovery's `Connect`, `HandlePodEvent`, `HandlePodDeletion`
and `IgnoreEvent` are the watch loop and its handlers; each submits a job of the queue
and waits until it is accepted (`HandlerDone`). The cluster is external: `Change` gives
a pod a new version, which reaches discovery only while the watch is up; after an error
`Connect` starts from a list. Every job that ends changes the one registry, whoever
submitted it (`JobEnds`): a DELETE of the admin API removes the worker of a tracked pod.
`standing` remembers, per url, whether discovery's last word still holds ("ours"), a job
of somebody else's has changed the registry since ("overridden"), or jobs of the url
overlapped or failed half way ("astray"). `submit` also has an error path for a closed
channel (`job_queue.rs:229`), which is left out here and in `ExtensionJobs`: the receiver
belongs to the dispatcher, which runs as long as there is a sender.

**Policies.** A request looks which workers are available and then picks among those;
in between anything may happen. `RebuildRing` is a registration or removal. Ring
positions are small numbers, a worker has several. `ringed` says whether requests ask for
the ring their workers are in; where they do not (`HasRing`), `FindByConsistentHash`
counts through the healthy workers, as the code's fallback does. `MonitorLoads` hands the power-of-two
policy what `get_all_worker_loads` returns. **ManualPolicy**: `OccupiedHit`,
`OccupiedMiss`, `Vacant` are the branches of the entry; `EvictIdle`, `CollectEntries`,
`WriteTmp`, `RenameTmp` the steps of a background thread, of which there are several;
`Restart` ends the process at any point and loads the file. **BucketPolicy**:
`ChoosePrefill` reads under the read lock, `PostProcessRequest` enters under the write
lock, `AdjustBoundary` cuts new ranges from the window, `InitPrefillWorkerUrls` is a
registration. **CacheAware**: one tree; an insertion step is one turn of its loop, which
holds the children entry; a match fetches a child and reads its text in two steps;
eviction and removal check, take, unlink and go on in separate steps. The tree is there
from the start: the fallback for a model without one (`cache_aware.rs:514`) picks any
healthy worker and changes nothing.

**GrpcPipeline, GrpcStreaming, HarmonyParser.** A stage passes the request on or answers
it; `OpenStream` and its relatives open one or two backend streams; `HandOver` moves the
load guards from the context to the body; `Collect` reads an answer that is not
streamed. A stream dropped before it is marked completed sends an abort, which may
arrive late. In `GrpcStreaming` a task reads chunks (`ChatChunk`, Harmony and generate
likewise) and sends events through an unbounded channel; the body and its guards go
when the client leaves, the task notices at its next send. The first text of a choice is
preceded by an opening chunk, which has the role and nothing else; the regular content
chunks repeat the role, which is therefore no event of its own. The Harmony parser has two
readings, `ParseMessages` of a whole answer and the deltas of a stream.

**Responses, OpenAIRouter, Conversations.** A request is one task, a step what it does
between two awaits; stores, MCP servers and the pipeline may fail at every call. The
emitter is a record of items with what the client was shown of each. An output of the
model may end in a *half*, a call in whose arguments it ran out. Harmony announces such a
call and tracks it under an index that no finished call has, so the end of the answer
closes the finished calls that were announced (`tracked`, `HarmonyComplete`,
`HarmonyCut`) and leaves the half open (`unfinished`), unless it is the only call and has
arguments, when it is taken for one after all (`TakeHalf`). A call of the function that
was called just before may go unannounced (`MayGoUnannounced`). The OpenAI router
keeps what the breaker heard beside what became of the exchanges. Handlers of
conversations work on the stores call by call.

**ExtensionJobs and above.** A job writes its status, starts a workflow and waits for
it; the engine (external) runs the steps with retries and goes on when the job has
stopped waiting. In `WasmModules` the file has a content that may change between the
three steps that look at it; a link is followed by the first of them only.

**FileEvictor.** `call` is what the holder of the lock is doing, so that `Evict` is one
turn of `_evict_while`. `Reserve`, `CapDecided`, `FreeDecided`, `ProbeFails` are
`reserve`; `Touch`, `TouchUntracked`, `Stat`, `TouchLate`, `Adopt` are `touch` with its
unlocked read of the size. `Land`, `WriteFails`, `Vanish` are what happens to files
outside the lock; the backend follows the lifecycle the evictor documents.

## 3. Runs

All bounds are constants in the `.cfg` files and `MC` modules.

| Run | Instance | What it shows |
|---|---|---|
| `cb` | 2 tasks, every public operation, thresholds 1 and 2, timeout 1 | `ImplementsAtomic`: until two operations overlap the breaker acts as `AtomicBreaker`; `HalfOpenOnlyFromOpen` and `OpenIsProbed` under every interleaving |
| `cl` | 3 requests, capacity 1, token of 2 units, rates 0 and 1, queue 1, timeout 2 | `TokensAccounted`, `MaxConcurrent`, `QueuedIsAnswered` |
| `wr` | 2 urls, 2 models, 3 jobs, 2 at a time | `RingFollowsIndex` always; `SettledIsConsistent` (registered is served, removed is gone, models in use have a policy) for urls whose jobs did not overlap |
| `http` | regular: 1 worker, 2 requests; prefill/decode: 1 and 2 workers, 1 request; 2 attempts | `LoadsExact`, `RegularBreakersHear` (one report per attempt, as it ended; a run of failures opens), `PdBlameExact` (each side heard once, decode never for prefill's failure), `RegularRequestsEnd`, `PdUpstreamReleased` |
| `sd` | a startup job with 2 children beside a removal by the API on 2 urls, queue 1, 2 permits; or one pod, 4 changes, one break of the watch, 3 discovery jobs beside the same removal | `StatusNotStale`, `EveryJobEnds`, `RegistryFollowsTracking`, `HealthyIsTracked` |
| `routing` | each of 8 policies: 3 workers, 2 clients, 4 ring positions in 2 layouts; 1 session, 2 snapshot threads, I/O errors; 3 fleets, lengths 2 and 5; a tree with 2 texts, 2 workers, 2 request tasks, an evictor, 3 operations | `KeysStay`, `Sticky`, `RestoredSession`, `BucketsSound`, `TreeSound`, `HitIsEarned`, `EvictionBounds` |
| `grpc` | 17 scenarios of request kinds, streamed or not, single or pair, both backends; 2 workers, 2 attempts, 2 tokens (4 for Harmony) | `GuardsExact`, `StreamsSettleRight`, `StreamGrammar`, `HarmonyStreamed`, `AllSettle` |
| `resp` | each path of the six loops alone, pairs that share server set, store or conversation; 10 model outputs, limit 1 or the safety limit 2; 4 conversation handlers at once | `ToolLoopsSound`, `CompletedClosesAll`, `FailuresHeard`, `StoresSound`, `AllRequestsEnd` |
| `ext` | six groups of jobs that meet: same name twice, added while removed, a refused path, removed twice, tokenizer from a client and a worker, a required server beside another; one change of a file | `ModulesSound`, `ReportsTrue`, `WorkflowsEnd` |
| `fe` | 3 keys of sizes 1, 1, 2; 2 writers, 1 reader; cap 2, target 1, watermark 1, filesystem 3, window 2 | `IndexSound` (total exact, writes in flight kept, no untracked file but orphans), `EvictionPolicy` (enough room, coldest first), `LockIsReleased` |
| `pd_prefill_blamed` | 1 prefill, 1 decode | violation: `PrefillInnocent` fails (finding 1) |
| `p2_monitor` | power of two, 3 workers, 2 clients | violation: `MonitorFailureDegrades` fails (finding 2) |

Why the bounds are enough for the cases that matter:

* `cb`: two tasks suffice for every pairwise race; success threshold 2 makes the
  counter matter (one left over from an earlier phase is seen).
* `cl`: with capacity 1 and three requests one runs, one waits and one arrives, so
  rejection, queueing and direct admission compete; rates 0 and 1 out of 2 units cover
  "no refill" and "half a token per tick".
* `wr`: three jobs allow register, re-register and remove of one url beside a job on
  the other; two permits make jobs overlap, also on one url.
* `http`: one worker makes both requests, the health checker and the breaker meet;
  two attempts make a retry and its backoff; two decode workers let the retry use
  another pair while the first attempt's task is still forwarding.
* `sd`: a queue of one and two children make the startup job block on its own queue,
  and two permits are the fewest with which it does not starve itself; a pod comes,
  goes and comes back, with a break of the watch anywhere, and the API's removal before,
  between or during discovery's jobs. Beside discovery the jobs in `Beside` are submitted
  and no startup job.
* `routing`: the texts part after one character and the rest of one reads like the
  other, so that splits, partial matches and eviction of shared nodes happen; three
  operations let two insertions meet an eviction or a removal. Three workers and a
  session of two candidates allow a double failover; `w3` does not fail in the manual
  policy, so that a session always finds a worker. Lengths 2 and 5 with a maximum of 4
  put a request inside and one beyond the first ranges; fleets of 1, 2 and 3 workers
  give shares of zero and equal lengths.
* `grpc`: the scenarios pair what meets on a worker and run alone what is about the
  stream; two tokens let an opening chunk, text, a call and the completion come in any chunking.
* `resp`: outputs contain no call, one, two at once, a call beside a user's function;
  limit 1 is exceeded within one run and the safety limit over two; a half comes alone,
  after text and after a finished call.
* `ext`: every group is the smallest in which the two jobs can overlap.
* `fe`: the cap holds two small files or the large one, so both loops evict; a window
  of 2 leaves an entry outside; one key is larger than `SmallWrite`, so its budget is
  scaled.

### Fairness, and why the code justifies it

* `CircuitBreaker`: an operation that has begun ends (nothing in it blocks), the clock
  advances, and routing decisions keep checking the breaker: each one calls
  `can_execute` for every worker of the model. Outcomes need not arrive.
* `ConcurrencyLimiter`: the runtime schedules the processor and the spawned tasks, the
  clock advances, a future whose permit arrived is polled. Handlers and streams need
  not end.
* `HttpRouter`: a handler that can move does, since the HTTP client's own timeout ends
  a hung send or body. Nothing is assumed of clients, probes or the clock.
* `PdRouter`: only the task whose receiver is gone is polled. Workers may hang.
* `GrpcStreaming`: handlers, streaming tasks and bodies are polled, and a backend stream
  yields or ends. `Responses`, `OpenAIRouter`: tasks run and external calls answer or
  fail; handlers of conversations have no fairness.
* `JobQueue`, `ServiceDiscovery`: dispatcher, submitters, jobs and the watch loop move;
  workflows have timeouts; the API server accepts a connection in the end. The cluster
  has no fairness.
* `Extensions`: the engine runs the steps of every workflow, each bounded by its timeout.
* `FileEvictor`: the thread that holds the lock runs.

`WorkerRegistry` and `Routing` state safety only. `CHECK_DEADLOCK FALSE` is set where the
system really stops: requests, jobs, operations and clock ticks are finite in number.

## 4. Proofs

TLAPS checks these for any number of tasks, requests, workers, urls, models, jobs, pods,
keys and files, and any thresholds, capacities and timeouts that satisfy the named
`ASSUME`s. These ask for what the code or its configuration has (positive thresholds,
capacities and windows, finite sets, a cap that leaves the watermark free on the
filesystem, request kinds that can stream, kinds of jobs that do not overlap, a hash ring
on which no two workers share a position, an answer of the model that ends with its
completion chunk; a stream that breaks off is an action) and for `None` and `Nil` to be
no value in use.

* **`TypeCorrect`, `ProbePhaseFromOpen`** (`CircuitBreakerProofs`). `StateWrites` says
  which steps write the state at all; of those only the CAS writes HalfOpen, and it
  succeeds only from Open.
* **`SequentialBreaker`**. Under `Sequential` (one task, no `reset` or `force_open`)
  the timeout is waited for (`TimeoutRespected`), a probe phase closes on its own
  successes (`CloseNeedsProbes`) and an open circuit never closes directly
  (`NoCloseFromOpen`), for every threshold and timeout. They are not inductive:
  `TaskInv` adds what the shared state holds at each place of the task. While stores are
  pending the time and the success counter still belong to the previous state; once
  made, the age never exceeds `openAge` and the count never exceeds the probes seen.
* **`BreakerRefines`**: the breaker implements `AtomicBreaker` until two operations
  overlap, for a positive timeout. The mapping sees the breaker as it will be once the
  operation under way has ended, so `StepInOnePiece` has to show that every access of a
  task that is alone changes that by one operation or not at all. `OverInv` says that
  without overlap at most one task is busy, and `OpInv` what the shared state is at each
  of its accesses: what it loaded is still so.
* **`LimiterTypeCorrect`, `EveryTokenAccounted`, `SemaphoreBound`**
  (`RequestPathProofs`). `TokensAccounted` needs `Agreement`: the two views of
  a request agree (`ViewsAgree`: no permit was sent and no token taken while the
  processor is not done with it) and the queue holds distinct, untouched requests
  (`QueueInv`). Each action then moves one token between bucket, requests and spill
  (`TokenMoves`). Without refill the bound on concurrency follows from the sum.
* **`RingMovesFewKeys`** (`KeysStay`, `RequestPathProofs`), for requests that ask for the
  ring of their workers. A key's target is the worker
  of the first position at or behind it that is on the ring and healthy; the lemmas on
  that minimum show that it changes only if its own worker goes or the new target comes.
* **`SnapshotsRestore`, `SessionsStick`**. `RestoredSession` says what the file has, and
  several threads write it, so `ManualInv` follows each snapshot from the table to the
  file: what a thread collected of a session that has not changed since is its current
  candidates (`FreshIsCurrent`), a saved session is fresh in every snapshot that may
  still replace the file (`SavedIsFresh`), and one thread at a time holds the temporary
  file (`OneWriter`). `Sticky` compares a session's worker before and after a step;
  `LastIsCandidate` makes the former one of the session's candidates, and the order of
  these decides the rest.
* **`RegistryTypeCorrect`, `RingsFollowLists`** (`WorkerRegistryProofs`). The inductive
  invariant is `RegistryInv`: types, `Serial` (a job has one step outstanding, apart
  from the parallel ones), `Equipped` (a job knows the id and object its next step
  uses) and `RingFollowsIndex` itself. `StepFrame` carries the parts no list change
  touches; `ListChangeKeeps` shows that whoever changes a list owes its ring a rebuild;
  the rebuild reads the list when it writes the ring, so a slow rebuild cannot restore
  an old ring.
* **`SettledUrlsConsistent`**: what a url looks like between jobs follows only from what
  it looks like during them. `SettledInv` adds `OwnInv` (entries of the maps belong to
  jobs on their url), `UrlsInv` (a url on which jobs never overlapped has one active job,
  and `Underway` says for each step of that job which maps it has already changed) and
  `PolicyInv` (without overlapping jobs the counts are those of the registered workers,
  up to the one the running job has yet to count). Jobs on other urls share the lists, so
  each lemma shows that they leave this url's entries alone.
* **`LoadsAreExact`, `BreakersHear`, `BlameIsExact`** (`HttpRoutersProofs`). `RoutersInv`
  is `RegularInv` or `PdInv`, by mode. `At` and `PdAt` say for every place of a handler
  whether it holds its worker, what the attempt came to and what was reported of it;
  `Counted` ties the breaker's counter to the run of failures; `CallSound` says of each
  call of a pair, also of earlier attempts whose detached task still runs, what each
  side has done and heard, a dropped failure of decode's included. Loads are cardinalities, and every step adds or removes at
  most one request of a worker's set.
* **`StatusesTrue`, `DiscoveryStatusesTrue`, `RegistryFollows`, `DiscoveryUsesQueue`**
  (`ServiceDiscoveryProofs`). `QueueInv` adds to `StatusNotStale` that a job is in one
  place (`Placed`) and that a status belongs to a job of its key (`Owned`). Every step
  of discovery is a step of the queue, so the composition inherits it. `DInv` adds what
  discovery tracks (`Attached`), and `Follows`: a job that did not overlap with another of
  its url is the only one under way (`OneJob`); if it is discovery's, it is the one that
  the tracked set calls for (`Called`); and with none of discovery's under way the registry
  agrees with the tracked set where discovery had the last word (`Settled`). A job of the
  API's takes that word away, and the next job of discovery that is alone restores it.
* **`ModulesAreSound`, `ReportsAreTrue`** (`ApiProofs`). `ExtensionsInv` has a part
  per kind of job: `JobsInv` (the status of a job that nobody disturbed says how far it
  is), `WasmInv` (what a registration read, found and validated at each of its steps),
  `TokensInv`, `McpInv` (a client that the first step left is in the manager when the
  last one looks).
* **`LoopsSound`, `CompletedClosed`, `ProxyFailuresHeard`, `StoresWhole`** (`ApiProofs`),
  for any number of requests and handlers on the shared stores, any outputs of the model
  and any limits. `ConversationsInv` is a statement about each record: a step changes one
  of them and perhaps a store, so that each action is a lemma on one record. `TaskInv`
  has `CallsFit` (the calls made, those of the run under way and the limit, at each place
  of the loop), `CallsFed` (the input holds the request's own question and one result
  per call) and `ItemsShown` (what the client saw of each item against what is pending:
  without it nothing says which items are still open when the completed event is
  sent; while Harmony reads, `Tied` says that an open item is tracked, the message or
  unfinished, and no two of these). `ProxyInv` has the same for the OpenAI router, with `Heard` (what the breaker
  was told against how the exchanges ended) and `StoredRight`. `HandlerInv` says that
  what a handler is about to write was bounded when it was patched, and that the item it
  is about to link exists; `StoresType` and `Bounded` are about the stores themselves.
  `Count`, a cardinality of positions, has a lemma for each way a sequence grows.
* **`IndexIsSound`, `EvictionIsFair`** (`FileEvictorProofs`). `EvictorInv` is `IndexInv`
  (no key twice, byte count exact, and `OrderInv`: nothing behind the window is colder
  than what stands before it, but for keys renewed with a time read too early), the
  lock's holder, writers and readers agreeing with it, and `SoloInv` (a write admitted
  alone is the only one not on disk, and its room is still there). Bytes are counted as
  the cardinality of the pairs of a key and one of its units, so that the theorems on
  finite sets apply; the lemmas on `Without` and `Append` carry the order.
* **`GuardsAreExact`, `StreamsAreSettledRight`, `StreamsKeepGrammar`** (`GrpcProofs`).
  `GrpcInv`: where a handler or task is decides what its guards and its two backend
  streams are (`Own`); loads are the guards alive; and an abort under way names no
  attempt that can have an open stream, unless the client chose the id (`AbortInv`).
  `GrammarInv` is about streamed requests: for each kind of request it relates the
  task's state of a choice to what the client was sent of it (`ChatChoice`,
  `HarmonyChoice`, `GenerateChoice`: the flag for the opening chunk to that chunk, tokens counted to
  tokens made, the completion to the finish chunk), and the tail to where the task is.
  `SeenText`, `SeenOpening` and `SeenFinish` say what events do to a client's view.

Only model-checked:

* all liveness properties: fairness and `ENABLED` are outside the prover's reach;
* `HarmonyStreamed`: it compares sums over deltas with a fold over the messages, for
  which the installed provers would need induction over sequences;
* `BucketsSound`: loads are folds over the window, and the new ranges come from sorting
  it and cutting running sums, which again takes induction over sequences; it also needs
  lengths far below `UsizeMax`, as in every real configuration: for arbitrary constants
  a range could start beyond it;
* `TreeSound`, `HitIsEarned`, `EvictionBounds`: sizes are sums over a tree of any depth
  and a text is the chain of its nodes, so they take induction over paths.

## 5. Findings

1. `pd_router.rs:890`: if decode's body cannot be read the response is not marked as
   reported, and prefill, which answered, is ticked as failed.
2. `worker_manager.rs:222`: the load monitor hands the policy the load -1 for a worker
   that gives no answer, and power of two takes it as data and prefers that worker,
   although `power_of_two.rs:74` says both are degraded to request counts.

Observations met while modelling, which no run claims. The models contain the behaviour,
and the properties exempt it and say so.

* **Breaker.** `transition_to` swaps unconditionally although line 261 says it uses
  CAS: a success that loaded HalfOpen closes a circuit a failure has just reopened. A
  check between swap and store of the time acts on the previous time (264, 268); counts
  of an earlier phase may close a new one if an outcome falls between 176 and 188.
  `window_duration` is never read.
* **Limiter.** `acquire` bounds its wait by the time the missing tokens take to refill
  (`token_bucket.rs:130`), so a queued request gets 408 long before `queue_timeout`
  (`router.py:212`). The effective refill rate is positive in every production
  configuration, so the bucket limits a rate rather than concurrency; waiting tasks
  race, so the queue is not first in, first out; the queue gauge leaks when a client
  leaves while queued (`middleware.rs:689`).
* **Registry.** Re-registering a url keeps the old object in the model's list
  (`worker_registry.rs:264`), although `update_worker_properties.rs:130` says it is
  replaced. Two concurrent registrations of a new url make two ids; an update raises the
  model's count each time; a url that changes its model stays in the old list; an id may
  occur twice in the type and mode lists.
* **HTTP routers.** A failure of decode's that comes before prefill's is dropped with it and
  heard by nobody (`pd_router.rs:728`); `PdBlameExact` allows it only where prefill is
  charged. A 4xx counts as the worker's failure in the regular router only; a
  request that could not be prepared is charged to its worker, or to both of a pair;
  statuses such as 422 and 429 are shaped to 500 by the prefill/decode router and become
  retryable.
* **Job queue and discovery.** A full queue makes `submit` wait rather than fail; a
  cancelled submit leaves its pending status until it expires; `job_queue.rs:790`
  subtracts unsigned wall-clock times, which wraps if the clock is set back. The watcher
  drops deletions, so a pod that disappears while the watch is down is never removed;
  tracked pods are compared with all their fields; the retry delay is never reset; jobs
  that add and remove one url are not ordered. A worker that the API removes stays removed
  while its pod stays tracked: discovery mends it only when the pod goes and comes back.
* **Policies.** In single-model mode the HTTP routers ask for the ring of
  `UNKNOWN_MODEL_ID` (`http/router.rs:167`, `pd_router.rs:978`), in which workers of a known
  model are not: consistent hashing then takes the hash modulo the number of healthy
  workers (`consistent_hashing.rs:93`, which "shouldn't happen in normal operation"), and
  keys move wholesale whenever a worker comes, goes or fails, against the minimal
  redistribution of line 12. `KeysStay` and its theorem are about requests that have their
  ring. `prefix_hash` refuses every HTTP request (it is given no tokens); an
  explicit target index refers to the list of available workers; the hashing policies
  look at health but not at the breaker. The bucket policy ignores health and may pick a
  url that was removed; every registration re-initialises it, which clears loads while
  the window stays, and the second one makes the gap between the last ranges
  `usize::MAX / n`; `add/remove_prefill_url` are never called. Instances of the manual
  policy made by name share the table and evict with their own default idle time; a
  recovered worker gets its sessions back; `manual.rs:182` says the file never holds
  dropped entries, which two snapshot threads refute. In the radix tree, eviction racing
  an insertion may lose a subtree and leave a count too high; a match's stamp may
  resurrect a removed tenant; a match that overlaps a split may report too long a match;
  a request that chose before a worker's removal enters it again. Insertions alone are
  exact.
* **gRPC routers.** The breaker hears only whether a stream opens: later errors,
  embedding calls and failed connections are not reported. A backend stream that ends
  without a completion is marked completed and the client gets `[DONE]` without a finish
  chunk. What is flushed at completion bypasses the parsers and may precede the opening chunk. A
  parse error of tools loses text when streaming and not otherwise; one of reasoning is a
  500 that is retried otherwise and plain text when streaming. A client's own request id
  is reused over retries, so a late abort may end the next attempt. Harmony: chunks of
  several tokens lose text (`harmony/parser.rs:342`), an opening chunk drops arguments, a
  function called twice in a row is announced once, calls in the analysis channel are not
  streamed. Embedding on vLLM panics; `new_harmony_pd` is never called.
* **Responses and OpenAI.** The regular stream without MCP servers closes its message for
  the finish reasons `stop` and `length` only (`common/responses/streaming.rs:722`): text
  followed by calls of the caller's functions is still open in the completed event, which
  `CompletedClosesAll` exempts (`LeftOpen`). A Harmony call in whose arguments the model ran
  out, after finished calls or before any argument, is announced and still open in the
  completed event (`harmony/streaming.rs:947`): `CompletedClosesAll` sets these items apart
  (`unfinished`) and no others. A finish chunk without any text makes regular streaming
  panic (an unwrap), so the client gets no end; pipeline errors are swallowed there and
  an empty response is stored; its MCP loop never stores; the end of a loop at the limit
  has no completed event. Concurrent requests share the set of requested servers
  (`context.rs:36`). Harmony ignores `conversation`. The OpenAI router counts some failed
  chats twice, never reports success of a tool loop that is not streamed, stores such
  responses although `store` is false, and stores a stream that closed early, or that had
  an error event in it (`accumulator.rs:141`), as completed. Conversations: concurrent metadata updates lose one; a failing item leaves
  earlier ones linked; a deletion between check and link leaves dangling links.
* **Extensions.** A missing status is taken for success (`wasm/route.rs:63`), so a
  cleanup or another client's job of the same name can turn a failure into one; two
  registrations of the same content may both pass the duplicate check; hash and bytes
  come from separate reads. The status of a tokenizer is cleaned after 300 s while its
  job may run for 600 s; it may be reported as unknown just after it was loaded. A
  required MCP server that cannot be reached fails a background job, not the startup, as
  `mcp_registration.rs:247` says; `server.rs:831` likewise expects tokenizers before
  workers, but they load in the background. `Job::RemoveTokenizer` is never submitted.
* **Evictor.** The eviction budget divides by the average size of the index, so a few
  large entries make it small; heat orders victims only within the window; bytes reserved
  by other writers are not in the free-space probe; a wipe during a write, or a failed
  partial write, leaves a file without an entry until it is read.

## 6. Plan

The components of the first table are modelled as far as their notes in `PROJECT.json`
say: where the status there is "partly", the note names the operations left out. Left:

1. *Proofs*: what is listed as only model-checked in section 4. Given a prover that can
   instantiate an induction theorem, `LoadsInWindow` comes first: each step adds or
   removes one entry at an end of the window.
2. *Larger instances*: two pods on one address in `sd`, a third text in the radix tree,
   both routing modes of `http` with a second worker each.
