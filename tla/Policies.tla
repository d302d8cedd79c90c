------------------------------ MODULE Policies ------------------------------
(***************************************************************************)
(* The load-balancing policies that keep little or no state of their own   *)
(* (policies/random.rs, round_robin.rs, power_of_two.rs,                   *)
(* consistent_hashing.rs, prefix_hash.rs), the hash ring they use          *)
(* (HashRing in core/worker_registry.rs) and the load monitor              *)
(* (core/worker_manager.rs).  ManualPolicy and BucketPolicy extend this    *)
(* module; their requests look and choose in one step.                     *)
(*                                                                         *)
(* A request first looks which workers are available and then picks one    *)
(* of those it saw; in between anything may happen.  A worker's load is    *)
(* the number of requests it is serving.                                   *)
(***************************************************************************)
EXTENDS Integers, Sequences, FiniteSets, FiniteSetsExt

CONSTANTS
    ServerList,      \* the workers, in the order of the registry's list
    Clients,         \* requests at a time
    Keys,            \* routing keys; for the ring: positions, 0..RingSize - 1
    RingSize,
    Places,          \* what the hash function may be: worker -> positions of its virtual nodes
    FactorNum, FactorDen,   \* load_factor of prefix_hash
    Steady,          \* bound: workers whose health does not change under sticky routing
    Policy,          \* policies that may be configured
    None

Servers == {ServerList[i] : i \in DOMAIN ServerList}

ASSUME PoliciesAssumption ==
    /\ \A i, j \in DOMAIN ServerList : ServerList[i] = ServerList[j] => i = j
    /\ ServerList \in Seq(Servers) /\ RingSize \in Nat \ {0} /\ Keys = 0..(RingSize - 1)
    /\ Places \subseteq [Servers -> (SUBSET Keys) \ {{}}]
    /\ \A p \in Places : \A v, w \in Servers : v # w => p[v] \cap p[w] = {}
    /\ FactorDen \in Nat \ {0} /\ FactorNum >= FactorDen
    /\ None \notin Servers \cup Keys

VARIABLES
    policy,     \* the configured policy
    up,         \* workers that are healthy and whose breaker lets requests through
    ring,       \* the registered workers, which are those in the hash ring of their model
    ringed,     \* requests ask for that ring (else for the one of UNKNOWN_MODEL_ID)
    place,      \* the hash function
    job,        \* per client: what it saw, and the worker that serves it
    counter,    \* round robin's counter
    cachedLoads, \* power of two: token loads from the monitor
    misled      \* history: see MonitorFailureDegrades

common == <<policy, up, ring, ringed, place, job>>
simple == <<counter, cachedLoads, misled>>

Free == [pc |-> "idle", seen |-> {}, at |-> None]

HashPolicies == {"consistent_hashing", "prefix_hash"}

\* PolicyFactory::create_from_config: one of the policies is configured.
PoliciesInit ==
    /\ policy \in Policy
    /\ up = Servers /\ ring = Servers
    /\ ringed \in BOOLEAN /\ (policy \in HashPolicies \/ ringed)
    /\ place \in Places /\ (policy \in HashPolicies \/ place = CHOOSE p \in Places : TRUE)
    /\ job = [c \in Clients |-> Free]
    /\ counter = 0
    /\ cachedLoads = [w \in Servers |-> None]
    /\ misled = FALSE

-----------------------------------------------------------------------------
(* Requests and workers *)

Load(w) == Cardinality({c \in Clients : job[c].at = w})

\* get_healthy_worker_indices; without a healthy worker a request is refused at once.
Look(c) ==
    /\ job[c].pc = "idle" /\ up \cap ring # {}
    /\ job' = [job EXCEPT ![c] = [Free EXCEPT !.pc = "looked", !.seen = up \cap ring]]
    /\ UNCHANGED <<policy, up, ring, ringed, place, simple>>

\* The request of c goes to w, or it is refused.
GoesTo(c, w) ==
    job' = [job EXCEPT ![c] = IF w = None THEN Free
                              ELSE [pc |-> "busy", seen |-> {}, at |-> w]]

Done(c) ==
    /\ job[c].pc = "busy"
    /\ job' = [job EXCEPT ![c] = Free]
    /\ UNCHANGED <<policy, up, ring, ringed, place, simple>>

\* A worker's health or breaker changes.
Turn(w) ==
    /\ up' = IF w \in up THEN up \ {w} ELSE up \cup {w}
    /\ UNCHANGED <<policy, ring, ringed, place, job, simple>>

\* A worker is registered or removed, and the ring is built anew.
RebuildRing(w) ==
    /\ policy \in HashPolicies
    /\ ring' = IF w \in ring THEN ring \ {w} ELSE ring \cup {w}
    /\ UNCHANGED <<policy, up, ringed, place, job, simple>>

Looked(c, p) == job[c].pc = "looked" /\ policy = p

-----------------------------------------------------------------------------
(* Random, round robin, power of two *)

SelectRandom(c) ==
    /\ Looked(c, "random")
    /\ \E w \in job[c].seen : GoesTo(c, w)
    /\ UNCHANGED <<policy, up, ring, ringed, place, simple>>

\* The n-th of the workers ws (from 0), in list order.
Nth(ws, n) == SelectSeq(ServerList, LAMBDA w : w \in ws)[n + 1]

\* fetch_add.  The counter is only used modulo numbers of workers: it is kept modulo a
\* multiple of them all.
Cycle == 12
SelectRoundRobin(c) ==
    /\ Looked(c, "round_robin")
    /\ counter' = (counter + 1) % Cycle
    /\ GoesTo(c, Nth(job[c].seen, counter % Cardinality(job[c].seen)))
    /\ UNCHANGED <<policy, up, ring, ringed, place, cachedLoads, misled>>

\* parse_load_response: no answer in time, or one that cannot be parsed.
NoLoad == -1

\* Token loads if there are some for both, else request counts for both.
LoadsOf(v, w) ==
    IF cachedLoads[v] # None /\ cachedLoads[w] # None
    THEN <<cachedLoads[v], cachedLoads[w]>> ELSE <<Load(v), Load(w)>>

SelectPowerOfTwo(c) ==
    /\ Looked(c, "power_of_two")
    /\ \E v, w \in job[c].seen :
        LET loads == LoadsOf(v, w)
            chosen == IF loads[1] <= loads[2] THEN v ELSE w
            other == IF chosen = v THEN w ELSE v IN
        /\ Cardinality(job[c].seen) > 1 => v # w
        /\ GoesTo(c, chosen)
        /\ misled' = (misled \/ (NoLoad \in {cachedLoads[v], cachedLoads[w]} /\ Load(chosen) > Load(other)))
    /\ UNCHANGED <<policy, up, ring, ringed, place, counter, cachedLoads>>

\* get_all_worker_loads: all workers are asked, and every one gets an entry.
FetchedLoads == [Servers -> {NoLoad, 1}]

\* LoadMonitor::monitor_loop: what was fetched replaces the policy's loads.
MonitorLoads ==
    /\ policy = "power_of_two"
    /\ cachedLoads' \in FetchedLoads
    /\ UNCHANGED <<common, counter, misled>>

-----------------------------------------------------------------------------
(* The hash ring *)

\* How far clockwise a worker's nearest virtual node is from position k.
Distance(k, w) == Min({IF p >= k THEN p - k ELSE p - k + RingSize : p \in place[w]})

\* Variant: the ring of the eligible workers is indexed by the key.
FindHealthyUrlModulo(rg, k, ok) ==
    IF rg \cap ok = {} THEN None ELSE Nth(rg \cap ok, k % Cardinality(rg \cap ok))

\* The first eligible worker at or after the key's position.
FindHealthyUrl(rg, k, ok) ==
    IF rg \cap ok = {} THEN None
    ELSE CHOOSE w \in rg \cap ok : \A v \in rg \cap ok : Distance(k, w) <= Distance(k, v)

\* The hashing policies are given the workers that were available and look at their health
\* again.
StillUp(c) == job[c].seen \cap up

\* An explicit target is an index into the list of the workers; else the routing key,
\* explicit or from a header that identifies the client, decides; else chance does.
SelectTargetWorker(c, i) ==
    /\ Looked(c, "consistent_hashing")
    /\ GoesTo(c, IF i < Cardinality(job[c].seen) /\ Nth(job[c].seen, i) \in up
                THEN Nth(job[c].seen, i) ELSE None)
    /\ UNCHANGED <<policy, up, ring, ringed, place, simple>>

\* get_hash_ring: in single-model mode the HTTP routers ask for the ring of
\* UNKNOWN_MODEL_ID, which workers of a known model are not in, and a model without workers
\* has no ring.
HasRing == ringed /\ ring # {}

\* find_by_consistent_hash: without a ring the hash counts through the eligible workers.
FindByConsistentHash(k, ok) ==
    IF HasRing THEN FindHealthyUrl(ring, k, ok)
    ELSE IF ok = {} THEN None ELSE Nth(ok, k % Cardinality(ok))

SelectByConsistentHash(c, k) ==
    /\ Looked(c, "consistent_hashing")
    /\ GoesTo(c, FindByConsistentHash(k, StillUp(c)))
    /\ UNCHANGED <<policy, up, ring, ringed, place, simple>>

SelectAnonymous(c) ==
    /\ Looked(c, "consistent_hashing")
    /\ \E w \in IF StillUp(c) = {} THEN {None} ELSE StillUp(c) : GoesTo(c, w)
    /\ UNCHANGED <<policy, up, ring, ringed, place, simple>>

\* load_ok: at most load_factor times the average, with the new request counted.
LoadOk(w, total, n) == total = 0 \/ Load(w) * n * FactorDen <= (total + 1) * FactorNum

LeastLoaded(ws) == {w \in ws : \A v \in ws : Load(w) <= Load(v)}

\* k: the hash of the prefix tokens.  The worker on the ring, unless it is overloaded and
\* another is not; off the ring, the least loaded.
FindWorkerWithLoadBalance(c, k) ==
    LET ws == StillUp(c)
        total == MapThenSumSet(Load, ws)
        ok == {w \in ws : LoadOk(w, total, Cardinality(ws))}
        first == IF HasRing THEN FindHealthyUrl(ring, k, ws) ELSE None IN
    /\ Looked(c, "prefix_hash")
    /\ \/ ws = {} /\ GoesTo(c, None)
       \/ first # None /\ (first \in ok \/ ok = {}) /\ GoesTo(c, first)
       \/ first # None /\ first \notin ok /\ \E w \in LeastLoaded(ok) : GoesTo(c, w)
       \/ first = None /\ \E w \in LeastLoaded(ws) : GoesTo(c, w)
    /\ UNCHANGED <<policy, up, ring, ringed, place, simple>>

\* A request without tokens is refused.
PrefixHashNoTokens(c) ==
    /\ Looked(c, "prefix_hash")
    /\ GoesTo(c, None)
    /\ UNCHANGED <<policy, up, ring, ringed, place, simple>>

SimpleNext ==
    \/ \E c \in Clients :
        \/ SelectRandom(c) \/ SelectRoundRobin(c) \/ SelectPowerOfTwo(c)
        \/ SelectAnonymous(c) \/ PrefixHashNoTokens(c)
        \/ \E i \in 0..Cardinality(Servers) : SelectTargetWorker(c, i)
        \/ \E k \in Keys : SelectByConsistentHash(c, k) \/ FindWorkerWithLoadBalance(c, k)
    \/ \E w \in Servers : RebuildRing(w)
    \/ MonitorLoads

\* What happens around the policies; the bucket policy does not look at health.
AroundNext ==
    \/ policy \notin {"manual", "bucket"} /\ \E c \in Clients : Look(c) \/ Done(c)
    \/ policy # "bucket" /\ \E w \in Servers : (policy = "manual" => w \notin Steady) /\ Turn(w)

-----------------------------------------------------------------------------
(* Properties *)

Target(k) == FindByConsistentHash(k, ring \cap up)

\* When workers come and go, by registration or by health, a key moves only away from a
\* worker that went, or to one that came ("only keys in the affected range redistribute"),
\* provided that requests ask for the ring the workers are in: without a ring keys move
\* between workers that stay.
KeysStay ==
    [][ringed => \A k \in Keys : Target(k)' # Target(k) =>
           Target(k) \notin (ring \cap up)' \/ Target(k)' \notin ring \cap up]_<<ring, up>>

\* power_of_two.rs: "If either worker is missing token data (e.g. monitor failure), we must
\* degrade BOTH to request counts to ensure fairness."  So the worker with more requests is
\* never preferred when the monitor has failed for one of the two.
MonitorFailureDegrades == ~misled
=============================================================================
