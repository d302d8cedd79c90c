--------------------------- MODULE WorkerRegistry ---------------------------
(***************************************************************************)
(* The worker registry (core/worker_registry.rs), the model-to-policy      *)
(* bookkeeping (policies/registry.rs) and the workflows that change them:  *)
(* registration, removal and update of a worker (core/steps/worker).       *)
(*                                                                         *)
(* The registry is six concurrent maps without a common lock, and the job  *)
(* queue runs many workflows at once, so an action is one access to one    *)
(* map.  todo holds the steps a job may take next: the steps of register   *)
(* and remove follow one another, while a registration updates the         *)
(* policies and activates the worker in parallel.                          *)
(*                                                                         *)
(* A job creates at most one worker object and at most one id; both carry  *)
(* the job's number.  The lists of the indices are sets: an object is      *)
(* pushed once, and a removal drops every copy of an id.                   *)
(***************************************************************************)
EXTENDS Naturals, FiniteSets

CONSTANTS
    Urls, Models,
    Types,        \* WorkerType
    Modes,        \* ConnectionMode
    Offers,       \* what a registration may create: [url, model, type, mode]
    MaxJobs,      \* bound: jobs ever submitted
    Permits,      \* max_concurrent_jobs
    None

Jobs == 1..MaxJobs
Object == [n : Jobs, url : Urls, model : Models, type : Types, mode : Modes]
Kinds == {"add", "remove", "update"}
Request == [kind : Kinds, url : Urls]

ASSUME RegistryAssumption ==
    /\ MaxJobs \in Nat /\ Permits \in Nat
    /\ Offers \subseteq [url : Urls, model : Models, type : Types, mode : Modes]
    /\ None \notin Nat \cup Object \cup Request

VARIABLES
    workers,      \* id -> worker object
    url_to_id,    \* url -> id
    model_index,  \* model -> worker objects, what get_by_model returns
    hash_rings,   \* model -> urls on its ring (virtual nodes left out)
    type_workers, connection_workers,  \* type, mode -> ids
    mesh,         \* ids whose state was synced to the mesh and not removed
    healthy,      \* numbers of the objects whose healthy flag is set
    model_worker_counts, \* model -> count kept by the policy registry
    model_policies,      \* models that have a policy of their own
    next,         \* number of the next job
    job,          \* per job: what it was asked to do
    todo,         \* per job: the steps it may take next
    id, obj,      \* per job: the id and the object it works with
    clash,        \* history: urls on which two jobs have overlapped
    overlap       \* history: jobs that started beside another

registry == <<workers, url_to_id, model_index, hash_rings, type_workers, connection_workers,
              mesh, healthy>>
policies == <<model_worker_counts, model_policies>>
local == <<next, job, clash, overlap>>
vars == <<registry, policies, local, todo, id, obj>>

Steps == {"find", "lookup", "store", "map", "index", "ring", "type", "mode", "sync",
          "count", "policy", "activate",
          "uncount", "dropcount", "droppolicy", "unmap", "take", "forget", "unindex",
          "untype", "unmode", "retire", "unsync"}

Init ==
    /\ workers = [i \in Jobs |-> None]
    /\ url_to_id = [u \in Urls |-> None]
    /\ model_index = [m \in Models |-> {}]
    /\ hash_rings = [m \in Models |-> {}]
    /\ type_workers = [t \in Types |-> {}]
    /\ connection_workers = [c \in Modes |-> {}]
    /\ mesh = {} /\ healthy = {}
    /\ model_worker_counts = [m \in Models |-> None]
    /\ model_policies = {}
    /\ next = 1
    /\ job = [j \in Jobs |-> None]
    /\ todo = [j \in Jobs |-> {}]
    /\ id = [j \in Jobs |-> None]
    /\ obj = [j \in Jobs |-> None]
    /\ clash = {} /\ overlap = {}

-----------------------------------------------------------------------------
(* Jobs *)

Active(j) == todo[j] # {}
Busy(u) == \E j \in Jobs : Active(j) /\ job[j].url = u

\* A task takes up the next job; the histories note what it overlaps with.
Start(kind, u, step) ==
    /\ next \in Jobs
    /\ Cardinality({j \in Jobs : Active(j)}) < Permits
    /\ next' = next + 1
    /\ job' = [job EXCEPT ![next] = [kind |-> kind, url |-> u]]
    /\ todo' = [todo EXCEPT ![next] = {step}]
    /\ clash' = IF Busy(u) THEN clash \cup {u} ELSE clash
    /\ overlap' = IF \E j \in Jobs : Active(j) THEN overlap \cup {next} ELSE overlap
    /\ UNCHANGED id

\* POST /workers reserves the id; start-up and service discovery submit the job
\* without.  The new worker counts as healthy at once only if health checks are off.
AddWorker(o, reserve, unchecked) ==
    /\ Start("add", o.url, "lookup")
    /\ obj' = [obj EXCEPT ![next] = [n |-> next, url |-> o.url, model |-> o.model,
                                     type |-> o.type, mode |-> o.mode]]
    /\ url_to_id' = IF reserve /\ url_to_id[o.url] = None
                    THEN [url_to_id EXCEPT ![o.url] = next] ELSE url_to_id
    /\ healthy' = IF unchecked THEN healthy \cup {next} ELSE healthy
    /\ UNCHANGED <<workers, model_index, hash_rings, type_workers, connection_workers, mesh,
                   policies>>

RemoveWorker(u) == Start("remove", u, "find") /\ UNCHANGED <<registry, policies, obj>>
UpdateWorker(u) == Start("update", u, "find") /\ UNCHANGED <<registry, policies, obj>>

At(j, step) == step \in todo[j]
Goto(j, step, then) == todo' = [todo EXCEPT ![j] = (@ \ {step}) \cup then]

\* get_by_url.
Found(u) == IF url_to_id[u] = None THEN None ELSE workers[url_to_id[u]]

\* find_workers_by_url; without a worker the workflow fails.  An update builds a new
\* object, healthy from the start, with the old one's model, type and mode.
Find(j) ==
    /\ At(j, "find")
    /\ LET w == Found(job[j].url) IN
       \/ /\ w = None
          /\ Goto(j, "find", {})
          /\ UNCHANGED <<obj, healthy>>
       \/ /\ w # None /\ job[j].kind = "remove"
          /\ obj' = [obj EXCEPT ![j] = w]
          /\ Goto(j, "find", {"uncount"})
          /\ UNCHANGED healthy
       \/ /\ w # None /\ job[j].kind = "update"
          /\ obj' = [obj EXCEPT ![j] = [w EXCEPT !.n = j]]
          /\ healthy' = healthy \cup {j}
          /\ Goto(j, "find", {"lookup"})
    /\ UNCHANGED <<workers, url_to_id, model_index, hash_rings, type_workers,
                   connection_workers, mesh, policies, local, id>>

-----------------------------------------------------------------------------
(* WorkerRegistry::register *)

Lookup(j) ==
    /\ At(j, "lookup")
    /\ LET u == obj[j].url IN
       id' = [id EXCEPT ![j] = IF url_to_id[u] = None THEN j ELSE url_to_id[u]]
    /\ Goto(j, "lookup", {"store"})
    /\ UNCHANGED <<registry, policies, local, obj>>

Store(j) ==
    /\ At(j, "store")
    /\ workers' = [workers EXCEPT ![id[j]] = obj[j]]
    /\ Goto(j, "store", {"map"})
    /\ UNCHANGED <<url_to_id, model_index, hash_rings, type_workers, connection_workers,
                   mesh, healthy, policies, local, id, obj>>

MapUrl(j) ==
    /\ At(j, "map")
    /\ url_to_id' = [url_to_id EXCEPT ![obj[j].url] = id[j]]
    /\ Goto(j, "map", {"index"})
    /\ UNCHANGED <<workers, model_index, hash_rings, type_workers, connection_workers,
                   mesh, healthy, policies, local, id, obj>>

\* The snapshot is extended; nothing is taken out of it.
Index(j) ==
    /\ At(j, "index")
    /\ model_index' = [model_index EXCEPT ![obj[j].model] = @ \cup {obj[j]}]
    /\ Goto(j, "index", {"ring"})
    /\ UNCHANGED <<workers, url_to_id, hash_rings, type_workers, connection_workers,
                   mesh, healthy, policies, local, id, obj>>

RingOf(objects) == {o.url : o \in objects}
AfterRing(j) == IF job[j].kind = "remove" THEN {"untype"} ELSE {"type"}

\* Variant: the ring is patched with the job's own url instead of being rebuilt.
PatchHashRing(j) ==
    /\ At(j, "ring")
    /\ hash_rings' = [hash_rings EXCEPT ![obj[j].model] =
                        IF job[j].kind = "remove" THEN @ \ {obj[j].url} ELSE @ \cup {obj[j].url}]
    /\ Goto(j, "ring", AfterRing(j))
    /\ UNCHANGED <<workers, url_to_id, model_index, type_workers, connection_workers,
                   mesh, healthy, policies, local, id, obj>>

\* The reference into model_index is held until the ring is inserted, so no writer
\* of the index comes between the two.
RebuildHashRing(j) ==
    /\ At(j, "ring")
    /\ LET m == obj[j].model IN
       hash_rings' = [hash_rings EXCEPT ![m] = RingOf(model_index[m])]
    /\ Goto(j, "ring", AfterRing(j))
    /\ UNCHANGED <<workers, url_to_id, model_index, type_workers, connection_workers,
                   mesh, healthy, policies, local, id, obj>>

PushType(j) ==
    /\ At(j, "type")
    /\ type_workers' = [type_workers EXCEPT ![obj[j].type] = @ \cup {id[j]}]
    /\ Goto(j, "type", {"mode"})
    /\ UNCHANGED <<workers, url_to_id, model_index, hash_rings, connection_workers,
                   mesh, healthy, policies, local, id, obj>>

PushMode(j) ==
    /\ At(j, "mode")
    /\ connection_workers' = [connection_workers EXCEPT ![obj[j].mode] = @ \cup {id[j]}]
    /\ Goto(j, "mode", {"sync"})
    /\ UNCHANGED <<workers, url_to_id, model_index, hash_rings, type_workers,
                   mesh, healthy, policies, local, id, obj>>

\* After register an update goes on to the policies, a registration to the policies
\* and to the activation, in any order.
Sync(j) ==
    /\ At(j, "sync")
    /\ mesh' = mesh \cup {id[j]}
    /\ Goto(j, "sync", IF job[j].kind = "add" THEN {"count", "activate"} ELSE {"count"})
    /\ UNCHANGED <<workers, url_to_id, model_index, hash_rings, type_workers,
                   connection_workers, healthy, policies, local, id, obj>>

Activate(j) ==
    /\ At(j, "activate")
    /\ healthy' = healthy \cup {obj[j].n}
    /\ Goto(j, "activate", {})
    /\ UNCHANGED <<workers, url_to_id, model_index, hash_rings, type_workers,
                   connection_workers, mesh, policies, local, id, obj>>

-----------------------------------------------------------------------------
(* PolicyRegistry::on_worker_added and on_worker_removed *)

Count(j) ==
    /\ At(j, "count")
    /\ model_worker_counts' = [model_worker_counts EXCEPT ![obj[j].model] =
                                 IF @ = None THEN 1 ELSE @ + 1]
    /\ Goto(j, "count", {"policy"})
    /\ UNCHANGED <<registry, model_policies, local, id, obj>>

\* A policy that is there stays; the test and the insertion may be apart, but whether
\* the model has a policy afterwards is the same.
AssignPolicy(j) ==
    /\ At(j, "policy")
    /\ model_policies' = model_policies \cup {obj[j].model}
    /\ Goto(j, "policy", {})
    /\ UNCHANGED <<registry, model_worker_counts, local, id, obj>>

\* The guard on the count is dropped before the entry is removed.
Uncount(j) ==
    /\ At(j, "uncount")
    /\ LET m == obj[j].model
           c == model_worker_counts[m] IN
       \/ /\ c = None
          /\ Goto(j, "uncount", {"unmap"})
          /\ UNCHANGED model_worker_counts
       \/ /\ c # None
          /\ LET left == IF c = 0 THEN 0 ELSE c - 1 IN
             /\ model_worker_counts' = [model_worker_counts EXCEPT ![m] = left]
             /\ Goto(j, "uncount", IF left = 0 THEN {"dropcount"} ELSE {"unmap"})
    /\ UNCHANGED <<registry, model_policies, local, id, obj>>

DropCount(j) ==
    /\ At(j, "dropcount")
    /\ model_worker_counts' = [model_worker_counts EXCEPT ![obj[j].model] = None]
    /\ Goto(j, "dropcount", {"droppolicy"})
    /\ UNCHANGED <<registry, model_policies, local, id, obj>>

DropPolicy(j) ==
    /\ At(j, "droppolicy")
    /\ model_policies' = model_policies \ {obj[j].model}
    /\ Goto(j, "droppolicy", {"unmap"})
    /\ UNCHANGED <<registry, model_worker_counts, local, id, obj>>

-----------------------------------------------------------------------------
(* WorkerRegistry::remove_by_url and remove *)

Unmap(j) ==
    /\ At(j, "unmap")
    /\ LET u == job[j].url IN
       /\ id' = [id EXCEPT ![j] = url_to_id[u]]
       /\ url_to_id' = [url_to_id EXCEPT ![u] = None]
       /\ Goto(j, "unmap", IF url_to_id[u] = None THEN {} ELSE {"take"})
    /\ UNCHANGED <<workers, model_index, hash_rings, type_workers, connection_workers,
                   mesh, healthy, policies, local, obj>>

\* Whoever takes the entry goes on; a second remover finds nothing.
Take(j) ==
    /\ At(j, "take")
    /\ LET w == workers[id[j]] IN
       \/ /\ w = None
          /\ Goto(j, "take", {})
          /\ UNCHANGED <<workers, obj>>
       \/ /\ w # None
          /\ workers' = [workers EXCEPT ![id[j]] = None]
          /\ obj' = [obj EXCEPT ![j] = w]
          /\ Goto(j, "take", {"forget"})
    /\ UNCHANGED <<url_to_id, model_index, hash_rings, type_workers, connection_workers,
                   mesh, healthy, policies, local, id>>

\* remove drops the url mapping too, whatever it maps to by now.
Forget(j) ==
    /\ At(j, "forget")
    /\ url_to_id' = [url_to_id EXCEPT ![obj[j].url] = None]
    /\ Goto(j, "forget", {"unindex"})
    /\ UNCHANGED <<workers, model_index, hash_rings, type_workers, connection_workers,
                   mesh, healthy, policies, local, id, obj>>

\* Variant: only the object that was taken goes.
UnindexObject(j) ==
    /\ At(j, "unindex")
    /\ model_index' = [model_index EXCEPT ![obj[j].model] = @ \ {obj[j]}]
    /\ Goto(j, "unindex", {"ring"})
    /\ UNCHANGED <<workers, url_to_id, hash_rings, type_workers, connection_workers,
                   mesh, healthy, policies, local, id, obj>>

\* Every object of the url goes, from the list of this object's model.
Unindex(j) ==
    /\ At(j, "unindex")
    /\ model_index' = [model_index EXCEPT ![obj[j].model] = {o \in @ : o.url # obj[j].url}]
    /\ Goto(j, "unindex", {"ring"})
    /\ UNCHANGED <<workers, url_to_id, hash_rings, type_workers, connection_workers,
                   mesh, healthy, policies, local, id, obj>>

DropType(j) ==
    /\ At(j, "untype")
    /\ type_workers' = [type_workers EXCEPT ![obj[j].type] = @ \ {id[j]}]
    /\ Goto(j, "untype", {"unmode"})
    /\ UNCHANGED <<workers, url_to_id, model_index, hash_rings, connection_workers,
                   mesh, healthy, policies, local, id, obj>>

DropMode(j) ==
    /\ At(j, "unmode")
    /\ connection_workers' = [connection_workers EXCEPT ![obj[j].mode] = @ \ {id[j]}]
    /\ Goto(j, "unmode", {"retire"})
    /\ UNCHANGED <<workers, url_to_id, model_index, hash_rings, type_workers,
                   mesh, healthy, policies, local, id, obj>>

Retire(j) ==
    /\ At(j, "retire")
    /\ healthy' = healthy \ {obj[j].n}
    /\ Goto(j, "retire", {"unsync"})
    /\ UNCHANGED <<workers, url_to_id, model_index, hash_rings, type_workers,
                   connection_workers, mesh, policies, local, id, obj>>

\* update_remaining_policies, which follows, only re-initialises a cache-aware policy.
Unsync(j) ==
    /\ At(j, "unsync")
    /\ mesh' = mesh \ {id[j]}
    /\ Goto(j, "unsync", {})
    /\ UNCHANGED <<workers, url_to_id, model_index, hash_rings, type_workers,
                   connection_workers, healthy, policies, local, id, obj>>

-----------------------------------------------------------------------------
Register(j) == Lookup(j) \/ Store(j) \/ MapUrl(j) \/ Index(j) \/ RebuildHashRing(j)
               \/ PushType(j) \/ PushMode(j) \/ Sync(j)
Remove(j) == Unmap(j) \/ Take(j) \/ Forget(j) \/ Unindex(j) \/ DropType(j) \/ DropMode(j)
             \/ Retire(j) \/ Unsync(j)
Policies(j) == Count(j) \/ AssignPolicy(j) \/ Uncount(j) \/ DropCount(j) \/ DropPolicy(j)

Submit ==
    \/ \E o \in Offers, reserve, unchecked \in BOOLEAN : AddWorker(o, reserve, unchecked)
    \/ \E u \in Urls : RemoveWorker(u) \/ UpdateWorker(u)

Next == Submit \/ \E j \in Jobs : Find(j) \/ Register(j) \/ Activate(j) \/ Remove(j) \/ Policies(j)

Spec == Init /\ [][Next]_vars

-----------------------------------------------------------------------------
(* Properties *)

\* The type invariant: in particular a worker count is never negative, also when two
\* removals of one worker both decrement it.
TypeOK ==
    /\ workers \in [Jobs -> Object \cup {None}]
    /\ url_to_id \in [Urls -> Jobs \cup {None}]
    /\ model_index \in [Models -> SUBSET Object]
    /\ hash_rings \in [Models -> SUBSET Urls]
    /\ type_workers \in [Types -> SUBSET Jobs]
    /\ connection_workers \in [Modes -> SUBSET Jobs]
    /\ mesh \subseteq Jobs /\ healthy \subseteq Jobs
    /\ model_worker_counts \in [Models -> Nat \cup {None}]
    /\ model_policies \subseteq Models
    /\ next \in 1..(MaxJobs + 1)
    /\ job \in [Jobs -> Request \cup {None}]
    /\ todo \in [Jobs -> SUBSET Steps]
    /\ id \in [Jobs -> Jobs \cup {None}]
    /\ obj \in [Jobs -> Object \cup {None}]
    /\ clash \subseteq Urls /\ overlap \subseteq Jobs

Rebuilding(m) == \E j \in Jobs : At(j, "ring") /\ obj[j].model = m

\* However registrations and removals interleave, on one url or on several, a model's
\* hash ring holds exactly the urls of its worker list once every job that changed the
\* list has rebuilt the ring (rebuild_hash_ring).
RingFollowsIndex ==
    \A m \in Models : ~Rebuilding(m) => hash_rings[m] = RingOf(model_index[m])

\* A url on which jobs never overlapped and none is running.
Settled(u) == u \notin clash /\ ~Busy(u)

\* After any sequence of jobs on a url that do not overlap, beside any jobs on other
\* urls, the worker that get_by_url returns is healthy, in its model's list and ring, and
\* its id is in both id indices and in the mesh (register, ActivateWorkersStep).
RegisteredIsServed ==
    \A u \in Urls : Settled(u) /\ Found(u) # None =>
        LET w == Found(u)
            i == url_to_id[u] IN
        /\ w.url = u /\ w.n \in healthy
        /\ w \in model_index[w.model] /\ u \in hash_rings[w.model]
        /\ i \in type_workers[w.type] /\ i \in connection_workers[w.mode] /\ i \in mesh

\* The url was only ever registered under one model.
OneModel(u) == \A j, k \in Jobs : obj[j] # None /\ obj[k] # None /\ obj[j].url = u /\ obj[k].url = u
                                   => obj[j].model = obj[k].model

\* Under the same conditions, once a url has no worker nothing of it is left to route
\* to: no object in workers, in a model's list or on a ring, however often it was
\* registered again before the removal (remove filters by url).  A url that changed its
\* model is exempt: remove cleans the last model's list only.
RemovedIsGone ==
    \A u \in Urls : Settled(u) /\ OneModel(u) /\ Found(u) = None =>
        /\ \A i \in Jobs : workers[i] # None => workers[i].url # u
        /\ \A m \in Models : u \notin RingOf(model_index[m]) /\ u \notin hash_rings[m]

\* As long as jobs do not overlap, a model that has a registered worker keeps the policy
\* assigned to it (on_worker_added, on_worker_removed).
PolicyWhileWorkers ==
    overlap = {} /\ (\A j \in Jobs : ~Active(j)) =>
        \A i \in Jobs : workers[i] # None => workers[i].model \in model_policies

\* What the jobs leave behind where they did not overlap: workers that are served, nothing
\* of those that were removed, and policies for the models in use.
SettledIsConsistent == RegisteredIsServed /\ RemovedIsGone /\ PolicyWhileWorkers
=============================================================================
