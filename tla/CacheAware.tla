----------------------------- MODULE CacheAware -----------------------------
(***************************************************************************)
(* The cache-aware policy (policies/cache_aware.rs) on its radix tree      *)
(* (policies/tree.rs): request tasks match a text and enter it for the     *)
(* worker they chose, the control plane adds and removes workers, and a    *)
(* background thread evicts leaves of workers whose text exceeds a limit.  *)
(* The tree of one (pool, model) key is modelled.                          *)
(*                                                                         *)
(* Nodes have their own locks and no lock covers the tree.  An insertion   *)
(* holds the children entry it works on, so a turn of its loop is a step;  *)
(* a match fetches a child and reads its text in two steps; eviction and   *)
(* removal check, take, unlink and go on in separate steps.  Collecting    *)
(* the leaves is one step: every leaf collected for eviction is looked at  *)
(* again before it is used.                                                *)
(*                                                                         *)
(* Loads and health are read when they are needed and may be anything.     *)
(***************************************************************************)
EXTENDS Naturals, Sequences, FiniteSets, FiniteSetsExt

CONSTANTS
    Urls,            \* workers, the tenants of the tree
    Chars, Texts,    \* characters, and the texts of requests
    Threads,         \* request tasks and control-plane jobs
    Evictor,         \* the background thread
    MaxSize,         \* max_tree_size
    HitNum, HitDen,  \* cache_threshold = HitNum / HitDen
    Empty,           \* the tenant "empty" that a match makes up
    MaxNodes,        \* bound on the nodes ever made
    MaxOps,          \* bound on the operations ever started
    Nil              \* no node, no tenant, no time

Nodes == 1..MaxNodes
Root == 1
Tenants == Urls \cup {Empty}
Actors == Threads \cup {Evictor}

ASSUME CacheAwareAssumption ==
    /\ IsFiniteSet(Urls) /\ IsFiniteSet(Threads) /\ Evictor \notin Threads
    /\ Texts \subseteq Seq(Chars) /\ <<>> \notin Texts
    /\ MaxSize \in Nat /\ HitNum \in Nat /\ HitDen \in Nat \ {0}
    /\ MaxNodes \in Nat \ {0} /\ MaxOps \in Nat
    /\ Empty \notin Urls /\ Nil \notin Tenants \cup Nodes

VARIABLES
    text,      \* per node: its text
    children,  \* per node: character -> node
    access,    \* per node: tenant -> tenant_last_access_time, Nil if it is not there
    parent,    \* per node: its parent
    cached,    \* per node: last_tenant
    made,      \* nodes made so far
    counts,    \* tenant_char_count, Nil for a tenant without an entry
    epoch,     \* EPOCH_COUNTER
    listed,    \* workers the control plane has added and not removed
    op,        \* per actor: its operation
    started,   \* operations started so far
    sent,      \* history: texts entered, per worker
    calm       \* history: no eviction or removal ever ran beside another operation

tree == <<text, children, access, parent, cached, made, counts, epoch>>
cacheAware == <<tree, listed, op, started, sent, calm>>

Idle == [pc |-> "idle", kind |-> Nil, url |-> Nil, rest |-> <<>>, whole |-> <<>>,
         at |-> Root, node |-> Nil, matched |-> 0, torn |-> FALSE, todo |-> {}, seen |-> {}]
Active == {x \in Actors : op[x].pc # "idle"}

\* How many leading characters two texts share.
SharedPrefixCount(s, u) ==
    Max({n \in 0..Len(s) : n <= Len(u) /\ SubSeq(s, 1, n) = SubSeq(u, 1, n)})
Advance(s, n) == SubSeq(s, n + 1, Len(s))

Kids(n) == {children[n][c] : c \in Chars} \ {Nil}
Has(n, t) == access[n][t] # Nil
Owners(n) == {t \in Tenants : Has(n, t)}
\* A node is a leaf for its tenants that no child has.
LeafOf(n) == {t \in Owners(n) : \A k \in Kids(n) : ~Has(k, t)}

\* The nodes that can be reached from the root, level by level.
Level[d \in 0..MaxNodes] == IF d = 0 THEN {Root} ELSE UNION {Kids(n) : n \in Level[d - 1]}
Reachable == UNION {Level[d] : d \in 0..MaxNodes}
Size(t) == MapThenSumSet(LAMBDA n : Len(text[n]), {n \in Reachable : Has(n, t)})

\* init_workers enters the empty text for the workers there are at start.
CacheInit ==
    /\ listed \in SUBSET Urls
    /\ text = [n \in Nodes |-> <<>>]
    /\ children = [n \in Nodes |-> [c \in Chars |-> Nil]]
    /\ access = [n \in Nodes |-> [t \in Tenants |-> IF n = Root /\ t \in listed THEN 0 ELSE Nil]]
    /\ parent = [n \in Nodes |-> Nil]
    /\ cached = [n \in Nodes |-> Nil]
    /\ made = 1
    /\ counts = [t \in Tenants |-> IF t \in listed THEN 0 ELSE Nil]
    /\ epoch = 0
    /\ op = [x \in Actors |-> Idle]
    /\ started = 0
    /\ sent = {} /\ calm = TRUE

-----------------------------------------------------------------------------
At(x, step) == op[x].pc = step
Goto(x, step) == op' = [op EXCEPT ![x].pc = step]
End(x) == op' = [op EXCEPT ![x] = Idle]

\* An operation starts.  Evictions and removals are destructive.
Destructive(o) == o.kind \in {"evict", "remove"}
Start(x, o) ==
    /\ At(x, "idle") /\ started < MaxOps
    /\ op' = [op EXCEPT ![x] = o]
    /\ started' = started + 1
    /\ calm' = (calm /\ ~\E y \in Active : Destructive(o) \/ Destructive(op[y]))

\* The operation turns into another one, of the same actor.
Become(x, o) ==
    /\ op' = [op EXCEPT ![x] = o]
    /\ calm' = (calm /\ ~(Destructive(o) /\ Active # {x}))

Inserting(s, u) == [Idle EXCEPT !.pc = "enter", !.kind = "insert", !.url = u, !.rest = s, !.whole = s]
Removing(u) == [Idle EXCEPT !.pc = "scan", !.kind = "remove", !.url = u]

-----------------------------------------------------------------------------
(* insert *)

Enter(x) ==
    LET u == op[x].url IN
    /\ At(x, "enter")
    /\ access' = [access EXCEPT ![Root][u] = IF @ = Nil THEN 0 ELSE @]
    /\ counts' = [counts EXCEPT ![u] = IF @ = Nil THEN 0 ELSE @]
    /\ sent' = sent \cup {<<u, op[x].whole>>}
    /\ Goto(x, "insert")
    /\ UNCHANGED <<text, children, parent, cached, made, epoch, listed, started, calm>>

Charge(u, n) == counts' = [counts EXCEPT ![u] = IF @ = Nil THEN n ELSE @ + n]

\* There is no child: the rest of the text becomes a leaf.
InsertLeaf(x) ==
    LET o == op[x]
        c == Head(o.rest)
        new == made + 1 IN
    /\ At(x, "insert") /\ o.rest # <<>> /\ children[o.at][c] = Nil /\ made < MaxNodes
    /\ made' = new
    /\ text' = [text EXCEPT ![new] = o.rest]
    /\ parent' = [parent EXCEPT ![new] = o.at]
    /\ cached' = [cached EXCEPT ![new] = o.url]
    /\ access' = [access EXCEPT ![new][o.url] = epoch]
    /\ children' = [children EXCEPT ![o.at][c] = new]
    /\ Charge(o.url, Len(o.rest))
    /\ epoch' = epoch + 1
    /\ End(x)
    /\ UNCHANGED <<listed, started, sent, calm>>

\* Variant: the new upper half gets the tenant without its text being counted.
InsertSplitUncounted(x) ==
    LET o == op[x]
        c == Head(o.rest)
        m == children[o.at][c]
        k == SharedPrefixCount(o.rest, text[m])
        new == made + 1 IN
    /\ At(x, "insert") /\ o.rest # <<>> /\ m # Nil /\ k < Len(text[m]) /\ made < MaxNodes
    /\ made' = new
    /\ text' = [text EXCEPT ![new] = SubSeq(text[m], 1, k), ![m] = Advance(text[m], k)]
    /\ parent' = [parent EXCEPT ![new] = o.at, ![m] = new]
    /\ children' = [children EXCEPT ![o.at][c] = new, ![new][text[m][k + 1]] = m]
    /\ cached' = [cached EXCEPT ![new] = cached[m]]
    /\ access' = [access EXCEPT ![new] = [access[m] EXCEPT ![o.url] = IF @ = Nil THEN 0 ELSE @]]
    /\ op' = [y \in Actors |-> IF y = x THEN [o EXCEPT !.at = new, !.rest = Advance(@, k)]
                               ELSE [op[y] EXCEPT !.torn = @ \/ (At(y, "compare") /\ op[y].node = m)]]
    /\ UNCHANGED <<counts, epoch, listed, started, sent, calm>>

\* The child's text is shared in part: the child is split, and the new upper half takes
\* over its tenants.
InsertSplit(x) ==
    LET o == op[x]
        c == Head(o.rest)
        m == children[o.at][c]
        k == SharedPrefixCount(o.rest, text[m])
        new == made + 1 IN
    /\ At(x, "insert") /\ o.rest # <<>> /\ m # Nil /\ k < Len(text[m]) /\ made < MaxNodes
    /\ made' = new
    /\ text' = [text EXCEPT ![new] = SubSeq(text[m], 1, k), ![m] = Advance(text[m], k)]
    /\ parent' = [parent EXCEPT ![new] = o.at, ![m] = new]
    /\ children' = [children EXCEPT ![o.at][c] = new, ![new][text[m][k + 1]] = m]
    /\ cached' = [cached EXCEPT ![new] = cached[m]]
    /\ access' = [access EXCEPT ![new] = [access[m] EXCEPT ![o.url] = IF @ = Nil THEN 0 ELSE @]]
    /\ IF Has(m, o.url) THEN UNCHANGED counts ELSE Charge(o.url, k)
    /\ op' = [y \in Actors |-> IF y = x THEN [o EXCEPT !.at = new, !.rest = Advance(@, k)]
                               ELSE [op[y] EXCEPT !.torn = @ \/ (At(y, "compare") /\ op[y].node = m)]]
    /\ UNCHANGED <<epoch, listed, started, sent, calm>>

\* The child's text is shared in full.
InsertDown(x) ==
    LET o == op[x]
        m == children[o.at][Head(o.rest)] IN
    /\ At(x, "insert") /\ o.rest # <<>> /\ m # Nil
    /\ SharedPrefixCount(o.rest, text[m]) = Len(text[m])
    /\ access' = [access EXCEPT ![m][o.url] = IF @ = Nil THEN 0 ELSE @]
    /\ IF Has(m, o.url) THEN UNCHANGED counts ELSE Charge(o.url, Len(text[m]))
    /\ op' = [op EXCEPT ![x].at = m, ![x].rest = Advance(o.rest, Len(text[m]))]
    /\ UNCHANGED <<text, children, parent, cached, made, epoch, listed, started, sent, calm>>

\* The text ends at a node, which is stamped.
InsertEnd(x) ==
    /\ At(x, "insert") /\ op[x].rest = <<>>
    /\ access' = [access EXCEPT ![op[x].at][op[x].url] = epoch]
    /\ epoch' = epoch + 1
    /\ End(x)
    /\ UNCHANGED <<text, children, parent, cached, made, counts, listed, started, sent, calm>>

-----------------------------------------------------------------------------
(* select_worker: the load decides, or prefix_match_with_counts does *)

\* The load is imbalanced: any of the workers may be the one with the least load.
SelectMinLoad(x, s, u) ==
    /\ u \in listed
    /\ Start(x, Inserting(s, u))
    /\ UNCHANGED <<tree, listed, sent>>

Select(x, s) ==
    /\ listed # {}
    /\ Start(x, [Idle EXCEPT !.pc = "match", !.kind = "match", !.rest = s, !.whole = s, !.seen = listed])
    /\ UNCHANGED <<tree, listed, sent>>

\* Fetch the child, if there is one.
Fetch(x) ==
    LET o == op[x]
        m == IF o.rest = <<>> THEN Nil ELSE children[o.at][Head(o.rest)] IN
    /\ At(x, "match")
    /\ op' = [op EXCEPT ![x].pc = IF m = Nil THEN "tenant" ELSE "compare", ![x].node = m]
    /\ UNCHANGED <<tree, listed, started, sent, calm>>

\* Variant: the whole text of a node that is shared in part is counted.
CompareWhole(x) ==
    LET o == op[x]
        k == SharedPrefixCount(o.rest, text[o.node]) IN
    /\ At(x, "compare")
    /\ op' = [op EXCEPT ![x].pc = IF k = Len(text[o.node]) THEN "match" ELSE "tenant",
                        ![x].at = o.node, ![x].node = Nil,
                        ![x].matched = @ + Len(text[o.node]), ![x].rest = Advance(@, k)]
    /\ UNCHANGED <<tree, listed, started, sent, calm>>

\* Compare with the child's text, which may have been split since it was fetched.
Compare(x) ==
    LET o == op[x]
        k == SharedPrefixCount(o.rest, text[o.node]) IN
    /\ At(x, "compare")
    /\ op' = [op EXCEPT ![x].pc = IF k = Len(text[o.node]) THEN "match" ELSE "tenant",
                        ![x].at = o.node, ![x].node = Nil,
                        ![x].matched = @ + k, ![x].rest = Advance(@, k)]
    /\ UNCHANGED <<tree, listed, started, sent, calm>>

\* The tenant of the node: the cached one if it is still there, else any.
PickTenant(x) ==
    LET o == op[x]
        n == o.at
        fresh == cached[n] # Nil /\ Has(n, cached[n]) IN
    /\ At(x, "tenant")
    /\ \E t \in Tenants :
         /\ t \in IF fresh THEN {cached[n]} ELSE IF Owners(n) = {} THEN {Empty} ELSE Owners(n)
         /\ cached' = [cached EXCEPT ![n] = t]
         /\ op' = [op EXCEPT ![x].pc = "stamp", ![x].url = t]
    /\ UNCHANGED <<text, children, access, parent, made, counts, epoch, listed, started, sent, calm>>

\* One match in eight stamps the node, with a tenant that may be gone by now.
Stamp(x) ==
    /\ At(x, "stamp")
    /\ epoch' = epoch + 1
    /\ access' \in {access, [access EXCEPT ![op[x].at][op[x].url] = epoch]}
    /\ Goto(x, "decide")
    /\ UNCHANGED <<text, children, parent, cached, made, counts, listed, started, sent, calm>>

IsHit(o) == o.matched * HitDen > HitNum * Len(o.whole)

\* A hit on a worker of the slice that is healthy, or the worker with the least load.
Choose(x, u) ==
    LET o == op[x] IN
    /\ At(x, "decide")
    /\ u \in o.seen /\ (IsHit(o) => u = o.url)
    /\ Become(x, Inserting(o.whole, u))
    /\ UNCHANGED <<tree, listed, started, sent>>

\* A hit on a worker that is gone or not healthy: its texts are removed, and the request
\* goes to the first healthy worker, which is not entered.
Purge(x) ==
    /\ At(x, "decide") /\ IsHit(op[x])
    /\ Become(x, Removing(op[x].url))
    /\ UNCHANGED <<tree, listed, started, sent>>

-----------------------------------------------------------------------------
(* The control plane *)

AddWorker(x, u) ==
    /\ u \notin listed
    /\ Start(x, Inserting(<<>>, u))
    /\ listed' = listed \cup {u}
    /\ UNCHANGED <<tree, sent>>

RemoveWorker(x, u) ==
    /\ u \in listed
    /\ Start(x, Removing(u))
    /\ listed' = listed \ {u}
    /\ UNCHANGED <<tree, sent>>

Evict ==
    /\ Start(Evictor, [Idle EXCEPT !.pc = "scan", !.kind = "evict"])
    /\ UNCHANGED <<tree, listed, sent>>

-----------------------------------------------------------------------------
(* evict_tenant_by_size and remove_tenant.  todo holds nodes to visit, with the tenant    *)
(* and the time that was read for it.                                                     *)

Entry(n, t) == [node |-> n, tenant |-> t, time |-> access[n][t]]

Scan(x) ==
    LET mine(n) == IF op[x].kind = "evict" THEN LeafOf(n) ELSE LeafOf(n) \cap {op[x].url} IN
    /\ At(x, "scan")
    /\ op' = [op EXCEPT ![x].pc = "pop",
                        ![x].todo = {Entry(p[1], p[2]) : p \in {q \in Reachable \X Tenants : q[2] \in mine(q[1])}}]
    /\ UNCHANGED <<tree, listed, started, sent, calm>>

Work(x, e) == [op[x] EXCEPT !.todo = @ \ {e}, !.node = e.node, !.url = e.tenant]

\* Variant: the limit may be exceeded by one.
EvictableLoose(e) == counts[e.tenant] = Nil \/ counts[e.tenant] > MaxSize + 1

\* The tenant exceeds the limit, or has no count.
Evictable(e) == counts[e.tenant] = Nil \/ counts[e.tenant] > MaxSize

\* The oldest entry is looked at again: it must still be a leaf of a tenant over the limit.
EvictPop(x) ==
    /\ At(x, "pop") /\ op[x].kind = "evict"
    /\ \E e \in op[x].todo :
         /\ \A f \in op[x].todo : e.time <= f.time
         /\ op' = [op EXCEPT ![x] =
                IF Evictable(e) /\ e.tenant \in LeafOf(e.node)
                THEN [Work(x, e) EXCEPT !.pc = "take"]
                ELSE [op[x] EXCEPT !.todo = @ \ {e}]]
    /\ UNCHANGED <<tree, listed, started, sent, calm>>

\* The tenant leaves the node, its count falls, the parent is read.
EvictTake(x) ==
    LET n == op[x].node
        t == op[x].url IN
    /\ At(x, "take") /\ op[x].kind = "evict"
    /\ counts' = [counts EXCEPT ![t] = IF @ = Nil THEN Nil
                                       ELSE IF @ > Len(text[n]) THEN @ - Len(text[n]) ELSE 0]
    /\ access' = [access EXCEPT ![n][t] = Nil]
    /\ op' = [op EXCEPT ![x].pc = "unlink", ![x].at = IF parent[n] = Nil THEN Root ELSE parent[n]]
    /\ UNCHANGED <<text, children, parent, cached, made, epoch, listed, started, sent, calm>>

RemoveTake(x) ==
    /\ At(x, "pop") /\ op[x].kind = "remove"
    /\ \E e \in op[x].todo :
         /\ access' = [access EXCEPT ![e.node][e.tenant] = Nil]
         /\ op' = [op EXCEPT ![x] = [Work(x, e) EXCEPT !.pc = "unlink",
                     !.at = IF parent[e.node] = Nil THEN Root ELSE parent[e.node]]]
    /\ UNCHANGED <<text, children, parent, cached, made, counts, epoch, listed, started, sent, calm>>

\* Is the node empty?
Unlink(x) ==
    LET n == op[x].node IN
    /\ At(x, "unlink")
    /\ Goto(x, IF n # Root /\ Kids(n) = {} /\ Owners(n) = {} THEN "drop" ELSE "up")
    /\ UNCHANGED <<tree, listed, started, sent, calm>>

\* Whatever the parent has under the node's first character is dropped.
Drop(x) ==
    /\ At(x, "drop")
    /\ children' = [children EXCEPT ![op[x].at][Head(text[op[x].node])] = Nil]
    /\ Goto(x, "up")
    /\ UNCHANGED <<text, access, parent, cached, made, counts, epoch, listed, started, sent, calm>>

\* The parent may have become a leaf of the tenant.
Up(x) ==
    LET p == op[x].at
        t == op[x].url IN
    /\ At(x, "up")
    /\ op' = [op EXCEPT ![x].pc = "pop", ![x].node = Nil, ![x].at = Root,
                        ![x].todo = IF op[x].node # Root /\ t \in LeafOf(p) THEN @ \cup {Entry(p, t)} ELSE @]
    /\ UNCHANGED <<tree, listed, started, sent, calm>>

\* Nothing is left to visit; a removal forgets the tenant's count.
Finish(x) ==
    /\ At(x, "pop") /\ op[x].todo = {}
    /\ counts' = IF op[x].kind = "remove" THEN [counts EXCEPT ![op[x].url] = Nil] ELSE counts
    /\ End(x)
    /\ UNCHANGED <<text, children, access, parent, cached, made, epoch, listed, started, sent, calm>>

-----------------------------------------------------------------------------
Insert(x) == Enter(x) \/ InsertLeaf(x) \/ InsertSplit(x) \/ InsertDown(x) \/ InsertEnd(x)
Match(x) == Fetch(x) \/ Compare(x) \/ PickTenant(x) \/ Stamp(x) \/ Purge(x) \/ \E u \in Urls : Choose(x, u)
Clean(x) == Scan(x) \/ EvictPop(x) \/ EvictTake(x) \/ RemoveTake(x) \/ Unlink(x) \/ Drop(x) \/ Up(x)
            \/ Finish(x)

CacheNext ==
    \/ Evict
    \/ \E x \in Threads :
         \/ \E s \in Texts : Select(x, s) \/ \E u \in Urls : SelectMinLoad(x, s, u)
         \/ \E u \in Urls : AddWorker(x, u) \/ RemoveWorker(x, u)
    \/ \E x \in Actors : Insert(x) \/ Match(x) \/ Clean(x)

-----------------------------------------------------------------------------
(* Properties *)

BeingRemoved(t) == \E x \in Actors : op[x].kind = "remove" /\ op[x].url = t

\* tenant_char_count is the length of the texts a worker has in the tree, however
\* insertions and matches interleave; eviction and removal keep it exact if they run alone.
CountsExact ==
    calm => \A u \in Urls : ~BeingRemoved(u) =>
        (IF counts[u] = Nil THEN 0 ELSE counts[u]) = Size(u)

\* A hit is earned: the worker it names was sent a text that begins like this one.  A match
\* that fetched a node before it was split and compares with what was left of it is "torn",
\* and may count characters of another text.
HitIsEarned ==
    calm => \A x \in Actors : At(x, "decide") /\ IsHit(op[x]) /\ op[x].url \in Urls /\ ~op[x].torn =>
        \E p \in sent : p[1] = op[x].url
                        /\ SharedPrefixCount(p[2], op[x].whole) >= op[x].matched

\* A worker that was removed leaves nothing behind.
RemovedIsForgotten ==
    calm /\ Active = {} => \A u \in Urls \ listed : \A n \in Reachable : ~Has(n, u)

\* What the tree keeps of a worker: as much as its count says, and nothing once it is removed.
TreeSound == CountsExact /\ RemovedIsForgotten

\* An eviction that ran alone leaves no worker above the limit.
EvictionBounds ==
    [][calm /\ op[Evictor].kind = "evict" /\ op'[Evictor].pc = "idle" =>
         \A u \in Urls : counts[u] # Nil => counts[u] <= MaxSize]_cacheAware
=============================================================================
