------------------------ MODULE WorkerRegistryProofs ------------------------
(***************************************************************************)
(* Three facts about the registry for any urls, models, offers and number  *)
(* of jobs, whatever the interleaving of their map accesses: the types are *)
(* kept, a model's hash ring follows its worker list, and where jobs did   *)
(* not overlap what they leave behind is consistent.                       *)
(***************************************************************************)
EXTENDS WorkerRegistry, FiniteSetTheorems, TLAPS

Parallel == {"count", "policy", "activate"}
\* Steps that work with the id the job looked up or took.
WithId == {"store", "map", "index", "ring", "type", "mode", "sync",
           "take", "forget", "unindex", "untype", "unmode", "retire", "unsync"}

\* A job does one thing at a time, except that a registration updates the policies and
\* activates its worker in parallel.
Serial == \A j \in Jobs : \A s \in todo[j] \ Parallel : todo[j] = {s}

\* A job that has work to do knows what was asked of it, and has found or made the
\* object and the id its next step uses.
Equipped ==
    \A j \in Jobs :
        /\ todo[j] # {} => job[j] # None /\ j < next
        /\ todo[j] \ {"find"} # {} => obj[j] # None
        /\ todo[j] \cap WithId # {} => id[j] # None

RegistryInv == TypeOK /\ Serial /\ Equipped /\ RingFollowsIndex

LEMMA InitRegistry == Init => RegistryInv
<1> SUFFICES ASSUME Init PROVE RegistryInv OBVIOUS
<1> USE RegistryAssumption DEF Init
<1>1. TypeOK
    BY DEF TypeOK, Jobs
<1>2. Serial /\ Equipped
    BY DEF Serial, Equipped
<1>3. RingFollowsIndex
    BY DEF RingFollowsIndex, RingOf
<1> QED BY <1>1, <1>2, <1>3 DEF RegistryInv

\* What a job's next steps become.
LEMMA GotoKeeps ==
    ASSUME TypeOK, Serial, NEW j \in Jobs, NEW s \in Steps, NEW then \in SUBSET Steps,
           At(j, s), Goto(j, s, then),
           \/ s \in Parallel /\ then \subseteq Parallel
           \/ s \notin Parallel /\ (then \subseteq Parallel \/ \E t \in then : then = {t})
    PROVE  /\ todo' \in [Jobs -> SUBSET Steps]
           /\ Serial'
           /\ \A k \in Jobs \ {j} : todo'[k] = todo[k]
           /\ s \notin Parallel => todo'[j] = then
           /\ s \in Parallel => todo'[j] \subseteq Parallel
<1>1. /\ todo \in [Jobs -> SUBSET Steps]
      /\ todo' = [todo EXCEPT ![j] = (todo[j] \ {s}) \cup then]
    BY DEF TypeOK, Goto
<1>2. /\ todo'[j] = (todo[j] \ {s}) \cup then
      /\ \A k \in Jobs \ {j} : todo'[k] = todo[k]
      /\ todo' \in [Jobs -> SUBSET Steps]
    BY <1>1
<1>3. s \notin Parallel => todo'[j] = then
    BY <1>2 DEF Serial, At
<1>4. s \in Parallel => todo'[j] \subseteq Parallel
  <2>1. ASSUME s \in Parallel PROVE todo[j] \subseteq Parallel
      BY <2>1 DEF Serial, At
  <2> QED BY <2>1, <1>2
<1>5. Serial'
    BY <1>2, <1>3, <1>4 DEF Serial
<1> QED BY <1>2, <1>3, <1>4, <1>5

\* What every step of a job keeps, whatever map it accesses.
LEMMA StepFrame ==
    ASSUME RegistryInv, NEW j \in Jobs, NEW s \in Steps, NEW then \in SUBSET Steps,
           At(j, s), Goto(j, s, then),
           \/ s \in Parallel /\ then \subseteq Parallel
           \/ s \notin Parallel /\ (then \subseteq Parallel \/ \E t \in then : then = {t}),
           UNCHANGED <<next, job>>,
           \A k \in Jobs \ {j} : obj'[k] = obj[k] /\ id'[k] = id[k],
           then # {} \/ s \in Parallel => obj'[j] # None,
           then \cap WithId # {} => id'[j] # None
    PROVE  /\ todo' \in [Jobs -> SUBSET Steps]
           /\ Serial' /\ Equipped'
           /\ UNCHANGED <<hash_rings, model_index>> /\ s # "ring" /\ "ring" \notin then
              => RingFollowsIndex'
<1>1. /\ todo' \in [Jobs -> SUBSET Steps]
      /\ Serial'
      /\ \A k \in Jobs \ {j} : todo'[k] = todo[k]
      /\ s \notin Parallel => todo'[j] = then
      /\ s \in Parallel => todo'[j] \subseteq Parallel
    BY GotoKeeps DEF RegistryInv
<1>2. job[j] # None /\ j < next
    BY DEF RegistryInv, Equipped, At
<1>3. ASSUME NEW k \in Jobs
      PROVE  /\ todo'[k] # {} => job'[k] # None /\ k < next'
             /\ todo'[k] \ {"find"} # {} => obj'[k] # None
             /\ todo'[k] \cap WithId # {} => id'[k] # None
  <2>1. CASE k # j
      BY <2>1, <1>1 DEF RegistryInv, Equipped
  <2>2. CASE k = j /\ s \notin Parallel
      BY <2>2, <1>1, <1>2
  <2>3. CASE k = j /\ s \in Parallel
      BY <2>3, <1>1, <1>2 DEF Parallel, WithId
  <2> QED BY <2>1, <2>2, <2>3
<1>4. Equipped'
    BY <1>3 DEF Equipped
<1>5. ASSUME UNCHANGED <<hash_rings, model_index>>, s # "ring", "ring" \notin then,
             NEW m \in Models, ~Rebuilding(m)'
      PROVE  hash_rings'[m] = RingOf(model_index'[m])
  <2>1. "ring" \notin todo[j]
      BY <1>5 DEF RegistryInv, Serial, At, Parallel
  <2>2. ~Rebuilding(m)
      BY <2>1, <1>1, <1>5 DEF Rebuilding, At
  <2> QED BY <2>2, <1>5 DEF RegistryInv, RingFollowsIndex
<1>6. UNCHANGED <<hash_rings, model_index>> /\ s # "ring" /\ "ring" \notin then => RingFollowsIndex'
    BY <1>5 DEF RingFollowsIndex, RingOf
<1> QED BY <1>1, <1>4, <1>6

LEMMA StoreKeeps == ASSUME RegistryInv, NEW j \in Jobs, Store(j) PROVE RegistryInv'
<1>1. /\ obj[j] \in Object /\ obj[j] # None
      /\ "store" \in WithId => id[j] \in Jobs /\ id[j] # None
    BY RegistryAssumption DEF Store, RegistryInv, Equipped, TypeOK, At, WithId
<1>2. TypeOK'
    BY <1>1, RegistryAssumption DEF Store, RegistryInv, TypeOK, registry, policies, local, Object, Goto, Steps, WithId
<1>3. Serial' /\ Equipped' /\ RingFollowsIndex'
    BY <1>1, StepFrame DEF Store, registry, policies, local, Steps, Parallel, WithId
<1> QED BY <1>2, <1>3 DEF RegistryInv

LEMMA MapUrlKeeps == ASSUME RegistryInv, NEW j \in Jobs, MapUrl(j) PROVE RegistryInv'
<1>1. /\ obj[j] \in Object /\ obj[j] # None
      /\ "map" \in WithId => id[j] \in Jobs /\ id[j] # None
    BY RegistryAssumption DEF MapUrl, RegistryInv, Equipped, TypeOK, At, WithId
<1>2. TypeOK'
    BY <1>1, RegistryAssumption DEF MapUrl, RegistryInv, TypeOK, registry, policies, local, Object, Goto, Steps, WithId
<1>3. Serial' /\ Equipped' /\ RingFollowsIndex'
    BY <1>1, StepFrame DEF MapUrl, registry, policies, local, Steps, Parallel, WithId
<1> QED BY <1>2, <1>3 DEF RegistryInv

LEMMA PushTypeKeeps == ASSUME RegistryInv, NEW j \in Jobs, PushType(j) PROVE RegistryInv'
<1>1. /\ obj[j] \in Object /\ obj[j] # None
      /\ "type" \in WithId => id[j] \in Jobs /\ id[j] # None
    BY RegistryAssumption DEF PushType, RegistryInv, Equipped, TypeOK, At, WithId
<1>2. TypeOK'
    BY <1>1, RegistryAssumption DEF PushType, RegistryInv, TypeOK, registry, policies, local, Object, Goto, Steps, WithId
<1>3. Serial' /\ Equipped' /\ RingFollowsIndex'
    BY <1>1, StepFrame DEF PushType, registry, policies, local, Steps, Parallel, WithId
<1> QED BY <1>2, <1>3 DEF RegistryInv

LEMMA PushModeKeeps == ASSUME RegistryInv, NEW j \in Jobs, PushMode(j) PROVE RegistryInv'
<1>1. /\ obj[j] \in Object /\ obj[j] # None
      /\ "mode" \in WithId => id[j] \in Jobs /\ id[j] # None
    BY RegistryAssumption DEF PushMode, RegistryInv, Equipped, TypeOK, At, WithId
<1>2. TypeOK'
    BY <1>1, RegistryAssumption DEF PushMode, RegistryInv, TypeOK, registry, policies, local, Object, Goto, Steps, WithId
<1>3. Serial' /\ Equipped' /\ RingFollowsIndex'
    BY <1>1, StepFrame DEF PushMode, registry, policies, local, Steps, Parallel, WithId
<1> QED BY <1>2, <1>3 DEF RegistryInv

LEMMA ActivateKeeps == ASSUME RegistryInv, NEW j \in Jobs, Activate(j) PROVE RegistryInv'
<1>1. /\ obj[j] \in Object /\ obj[j] # None
      /\ "activate" \in WithId => id[j] \in Jobs /\ id[j] # None
    BY RegistryAssumption DEF Activate, RegistryInv, Equipped, TypeOK, At, WithId
<1>2. TypeOK'
    BY <1>1, RegistryAssumption DEF Activate, RegistryInv, TypeOK, registry, policies, local, Object, Goto, Steps, WithId
<1>3. Serial' /\ Equipped' /\ RingFollowsIndex'
    BY <1>1, StepFrame DEF Activate, registry, policies, local, Steps, Parallel, WithId
<1> QED BY <1>2, <1>3 DEF RegistryInv

LEMMA CountKeeps == ASSUME RegistryInv, NEW j \in Jobs, Count(j) PROVE RegistryInv'
<1>1. /\ obj[j] \in Object /\ obj[j] # None
      /\ "count" \in WithId => id[j] \in Jobs /\ id[j] # None
    BY RegistryAssumption DEF Count, RegistryInv, Equipped, TypeOK, At, WithId
<1>2. TypeOK'
    BY <1>1, RegistryAssumption DEF Count, RegistryInv, TypeOK, registry, policies, local, Object, Goto, Steps, WithId
<1>3. Serial' /\ Equipped' /\ RingFollowsIndex'
    BY <1>1, StepFrame DEF Count, registry, policies, local, Steps, Parallel, WithId
<1> QED BY <1>2, <1>3 DEF RegistryInv

LEMMA AssignPolicyKeeps == ASSUME RegistryInv, NEW j \in Jobs, AssignPolicy(j) PROVE RegistryInv'
<1>1. /\ obj[j] \in Object /\ obj[j] # None
      /\ "policy" \in WithId => id[j] \in Jobs /\ id[j] # None
    BY RegistryAssumption DEF AssignPolicy, RegistryInv, Equipped, TypeOK, At, WithId
<1>2. TypeOK'
    BY <1>1, RegistryAssumption DEF AssignPolicy, RegistryInv, TypeOK, registry, policies, local, Object, Goto, Steps, WithId
<1>3. Serial' /\ Equipped' /\ RingFollowsIndex'
    BY <1>1, StepFrame DEF AssignPolicy, registry, policies, local, Steps, Parallel, WithId
<1> QED BY <1>2, <1>3 DEF RegistryInv

LEMMA DropCountKeeps == ASSUME RegistryInv, NEW j \in Jobs, DropCount(j) PROVE RegistryInv'
<1>1. /\ obj[j] \in Object /\ obj[j] # None
      /\ "dropcount" \in WithId => id[j] \in Jobs /\ id[j] # None
    BY RegistryAssumption DEF DropCount, RegistryInv, Equipped, TypeOK, At, WithId
<1>2. TypeOK'
    BY <1>1, RegistryAssumption DEF DropCount, RegistryInv, TypeOK, registry, policies, local, Object, Goto, Steps, WithId
<1>3. Serial' /\ Equipped' /\ RingFollowsIndex'
    BY <1>1, StepFrame DEF DropCount, registry, policies, local, Steps, Parallel, WithId
<1> QED BY <1>2, <1>3 DEF RegistryInv

LEMMA DropPolicyKeeps == ASSUME RegistryInv, NEW j \in Jobs, DropPolicy(j) PROVE RegistryInv'
<1>1. /\ obj[j] \in Object /\ obj[j] # None
      /\ "droppolicy" \in WithId => id[j] \in Jobs /\ id[j] # None
    BY RegistryAssumption DEF DropPolicy, RegistryInv, Equipped, TypeOK, At, WithId
<1>2. TypeOK'
    BY <1>1, RegistryAssumption DEF DropPolicy, RegistryInv, TypeOK, registry, policies, local, Object, Goto, Steps, WithId
<1>3. Serial' /\ Equipped' /\ RingFollowsIndex'
    BY <1>1, StepFrame DEF DropPolicy, registry, policies, local, Steps, Parallel, WithId
<1> QED BY <1>2, <1>3 DEF RegistryInv

LEMMA ForgetKeeps == ASSUME RegistryInv, NEW j \in Jobs, Forget(j) PROVE RegistryInv'
<1>1. /\ obj[j] \in Object /\ obj[j] # None
      /\ "forget" \in WithId => id[j] \in Jobs /\ id[j] # None
    BY RegistryAssumption DEF Forget, RegistryInv, Equipped, TypeOK, At, WithId
<1>2. TypeOK'
    BY <1>1, RegistryAssumption DEF Forget, RegistryInv, TypeOK, registry, policies, local, Object, Goto, Steps, WithId
<1>3. Serial' /\ Equipped' /\ RingFollowsIndex'
    BY <1>1, StepFrame DEF Forget, registry, policies, local, Steps, Parallel, WithId
<1> QED BY <1>2, <1>3 DEF RegistryInv

LEMMA DropTypeKeeps == ASSUME RegistryInv, NEW j \in Jobs, DropType(j) PROVE RegistryInv'
<1>1. /\ obj[j] \in Object /\ obj[j] # None
      /\ "untype" \in WithId => id[j] \in Jobs /\ id[j] # None
    BY RegistryAssumption DEF DropType, RegistryInv, Equipped, TypeOK, At, WithId
<1>2. TypeOK'
    BY <1>1, RegistryAssumption DEF DropType, RegistryInv, TypeOK, registry, policies, local, Object, Goto, Steps, WithId
<1>3. Serial' /\ Equipped' /\ RingFollowsIndex'
    BY <1>1, StepFrame DEF DropType, registry, policies, local, Steps, Parallel, WithId
<1> QED BY <1>2, <1>3 DEF RegistryInv

LEMMA DropModeKeeps == ASSUME RegistryInv, NEW j \in Jobs, DropMode(j) PROVE RegistryInv'
<1>1. /\ obj[j] \in Object /\ obj[j] # None
      /\ "unmode" \in WithId => id[j] \in Jobs /\ id[j] # None
    BY RegistryAssumption DEF DropMode, RegistryInv, Equipped, TypeOK, At, WithId
<1>2. TypeOK'
    BY <1>1, RegistryAssumption DEF DropMode, RegistryInv, TypeOK, registry, policies, local, Object, Goto, Steps, WithId
<1>3. Serial' /\ Equipped' /\ RingFollowsIndex'
    BY <1>1, StepFrame DEF DropMode, registry, policies, local, Steps, Parallel, WithId
<1> QED BY <1>2, <1>3 DEF RegistryInv

LEMMA RetireKeeps == ASSUME RegistryInv, NEW j \in Jobs, Retire(j) PROVE RegistryInv'
<1>1. /\ obj[j] \in Object /\ obj[j] # None
      /\ "retire" \in WithId => id[j] \in Jobs /\ id[j] # None
    BY RegistryAssumption DEF Retire, RegistryInv, Equipped, TypeOK, At, WithId
<1>2. TypeOK'
    BY <1>1, RegistryAssumption DEF Retire, RegistryInv, TypeOK, registry, policies, local, Object, Goto, Steps, WithId
<1>3. Serial' /\ Equipped' /\ RingFollowsIndex'
    BY <1>1, StepFrame DEF Retire, registry, policies, local, Steps, Parallel, WithId
<1> QED BY <1>2, <1>3 DEF RegistryInv

LEMMA UnsyncKeeps == ASSUME RegistryInv, NEW j \in Jobs, Unsync(j) PROVE RegistryInv'
<1>1. /\ obj[j] \in Object /\ obj[j] # None
      /\ "unsync" \in WithId => id[j] \in Jobs /\ id[j] # None
    BY RegistryAssumption DEF Unsync, RegistryInv, Equipped, TypeOK, At, WithId
<1>2. TypeOK'
    BY <1>1, RegistryAssumption DEF Unsync, RegistryInv, TypeOK, registry, policies, local, Object, Goto, Steps, WithId
<1>3. Serial' /\ Equipped' /\ RingFollowsIndex'
    BY <1>1, StepFrame DEF Unsync, registry, policies, local, Steps, Parallel, WithId
<1> QED BY <1>2, <1>3 DEF RegistryInv

LEMMA LookupKeeps == ASSUME RegistryInv, NEW j \in Jobs, Lookup(j) PROVE RegistryInv'
<1>1. obj[j] \in Object /\ obj[j] # None
    BY RegistryAssumption DEF Lookup, RegistryInv, Equipped, TypeOK, At
<1>a. j # None
    BY RegistryAssumption DEF Jobs
<1>2. TypeOK' /\ id'[j] # None /\ \A k \in Jobs \ {j} : id'[k] = id[k]
    BY <1>1, <1>a
    DEF Lookup, RegistryInv, TypeOK, registry, policies, local, Object, Goto, Steps
<1>3. Serial' /\ Equipped' /\ RingFollowsIndex'
    BY <1>1, <1>2, StepFrame DEF Lookup, registry, policies, local, Steps, Parallel, WithId
<1> QED BY <1>2, <1>3 DEF RegistryInv

LEMMA SyncKeeps == ASSUME RegistryInv, NEW j \in Jobs, Sync(j) PROVE RegistryInv'
<1> DEFINE then == IF job[j].kind = "add" THEN {"count", "activate"} ELSE {"count"}
<1>1. obj[j] # None /\ id[j] \in Jobs
    BY DEF Sync, RegistryInv, Equipped, TypeOK, At, WithId
<1>2. TypeOK'
    BY <1>1 DEF Sync, RegistryInv, TypeOK, registry, policies, local, Goto, Steps
<1>3. /\ then \in SUBSET Steps /\ then \subseteq Parallel
      /\ At(j, "sync") /\ Goto(j, "sync", then)
    BY DEF Sync, Steps, Parallel
<1> HIDE DEF then
<1>4. Serial' /\ Equipped' /\ RingFollowsIndex'
    BY <1>1, <1>3, StepFrame DEF Sync, local, Steps, Parallel, WithId
<1> QED BY <1>2, <1>4 DEF RegistryInv

LEMMA UncountKeeps == ASSUME RegistryInv, NEW j \in Jobs, Uncount(j) PROVE RegistryInv'
<1> DEFINE m == obj[j].model
           c == model_worker_counts[m]
           left == IF c = 0 THEN 0 ELSE c - 1
<1>1. obj[j] \in Object /\ obj[j] # None
    BY RegistryAssumption DEF Uncount, RegistryInv, Equipped, TypeOK, At
<1>2. PICK then \in {{"unmap"}, {"dropcount"}} : At(j, "uncount") /\ Goto(j, "uncount", then)
    BY DEF Uncount
<1>3. model_worker_counts' \in [Models -> Nat \cup {None}]
  <2>1. /\ model_worker_counts \in [Models -> Nat \cup {None}]
        /\ c # None => left \in Nat
      BY <1>1 DEF RegistryInv, TypeOK, Object
  <2>2. \/ UNCHANGED model_worker_counts
        \/ c # None /\ model_worker_counts' = [model_worker_counts EXCEPT ![m] = left]
      BY DEF Uncount
  <2> HIDE DEF left, c, m
  <2> QED BY <2>1, <2>2
<1>4. Serial' /\ Equipped' /\ RingFollowsIndex' /\ todo' \in [Jobs -> SUBSET Steps]
  <2>1. UNCHANGED <<registry, local, id, obj>>
      BY DEF Uncount
  <2> QED BY <2>1, <1>1, <1>2, StepFrame DEF registry, local, Steps, Parallel, WithId
<1>5. TypeOK'
    BY <1>3, <1>4 DEF Uncount, RegistryInv, TypeOK, registry, local
<1> QED BY <1>4, <1>5 DEF RegistryInv

LEMMA UnmapKeeps == ASSUME RegistryInv, NEW j \in Jobs, Unmap(j) PROVE RegistryInv'
<1> DEFINE u == job[j].url
           then == IF url_to_id[u] = None THEN {} ELSE {"take"}
<1>1. obj[j] # None /\ u \in Urls
    BY DEF Unmap, RegistryInv, Equipped, TypeOK, At, Request
<1>2. /\ At(j, "unmap") /\ Goto(j, "unmap", then) /\ then \in {{}, {"take"}}
      /\ id' = [id EXCEPT ![j] = url_to_id[u]]
      /\ url_to_id' = [url_to_id EXCEPT ![u] = None]
      /\ then \cap WithId # {} => url_to_id[u] # None
    BY DEF Unmap
<1>3. url_to_id' \in [Urls -> Jobs \cup {None}] /\ id' \in [Jobs -> Jobs \cup {None}]
    BY <1>1, <1>2 DEF RegistryInv, TypeOK
<1>4. id'[j] = url_to_id[u] /\ \A k \in Jobs \ {j} : id'[k] = id[k]
    BY <1>2 DEF RegistryInv, TypeOK
<1> HIDE DEF then, u
<1>5. Serial' /\ Equipped' /\ RingFollowsIndex' /\ todo' \in [Jobs -> SUBSET Steps]
    BY <1>1, <1>2, <1>4, StepFrame DEF Unmap, local, Steps, Parallel, WithId
<1>6. TypeOK'
    BY <1>3, <1>5 DEF Unmap, RegistryInv, TypeOK, policies, local
<1> QED BY <1>5, <1>6 DEF RegistryInv

LEMMA TakeKeeps == ASSUME RegistryInv, NEW j \in Jobs, Take(j) PROVE RegistryInv'
<1>1. obj[j] # None /\ id[j] \in Jobs /\ id[j] # None
    BY DEF Take, RegistryInv, Equipped, TypeOK, At, WithId
<1>2. PICK then \in {{}, {"forget"}} :
         /\ At(j, "take") /\ Goto(j, "take", then)
         /\ workers' \in [Jobs -> Object \cup {None}]
         /\ obj' \in [Jobs -> Object \cup {None}]
         /\ obj'[j] # None
         /\ \A k \in Jobs \ {j} : obj'[k] = obj[k]
    BY <1>1 DEF Take, RegistryInv, TypeOK
<1>3. Serial' /\ Equipped' /\ RingFollowsIndex' /\ todo' \in [Jobs -> SUBSET Steps]
    BY <1>1, <1>2, StepFrame DEF Take, local, Steps, Parallel, WithId
<1>4. TypeOK'
    BY <1>2, <1>3 DEF Take, RegistryInv, TypeOK, policies, local
<1> QED BY <1>3, <1>4 DEF RegistryInv

LEMMA FindKeeps == ASSUME RegistryInv, NEW j \in Jobs, Find(j) PROVE RegistryInv'
<1> DEFINE w == Found(job[j].url)
<1>1. w \in Object \cup {None}
    BY RegistryAssumption DEF Find, Found, RegistryInv, Equipped, TypeOK, At, Request
<1>2. w \in Object => [w EXCEPT !.n = j] \in Object
    BY DEF Object
<1> HIDE DEF w
<1>3. /\ At(j, "find")
      /\ \/ w = None /\ Goto(j, "find", {}) /\ UNCHANGED <<obj, healthy>>
         \/ /\ w # None
            /\ obj' = [obj EXCEPT ![j] = w]
            /\ Goto(j, "find", {"uncount"})
            /\ UNCHANGED healthy
         \/ /\ w # None
            /\ obj' = [obj EXCEPT ![j] = [w EXCEPT !.n = j]]
            /\ healthy' = healthy \cup {j}
            /\ Goto(j, "find", {"lookup"})
    BY DEF Find, w
<1>4. PICK then \in {{}, {"uncount"}, {"lookup"}} :
         /\ Goto(j, "find", then)
         /\ obj' \in [Jobs -> Object \cup {None}]
         /\ healthy' \subseteq Jobs
         /\ then # {} => obj'[j] # None
         /\ \A k \in Jobs \ {j} : obj'[k] = obj[k]
    BY <1>1, <1>2, <1>3, RegistryAssumption DEF RegistryInv, TypeOK
<1>5. Serial' /\ Equipped' /\ RingFollowsIndex' /\ todo' \in [Jobs -> SUBSET Steps]
    BY <1>3, <1>4, StepFrame DEF Find, local, Steps, Parallel, WithId
<1>6. TypeOK'
    BY <1>4, <1>5 DEF Find, RegistryInv, TypeOK, policies, local
<1> QED BY <1>5, <1>6 DEF RegistryInv

\* A job that changed a list has the rebuilding of its ring before it; the rings of the
\* other models and the jobs that rebuild them are left alone.
LEMMA ListChangeKeeps ==
    ASSUME RegistryInv, NEW j \in Jobs, NEW s \in {"index", "unindex"},
           At(j, s), Goto(j, s, {"ring"}), UNCHANGED <<next, job, obj, id, hash_rings>>,
           \A m \in Models \ {obj[j].model} : model_index'[m] = model_index[m]
    PROVE  todo' \in [Jobs -> SUBSET Steps] /\ Serial' /\ Equipped' /\ RingFollowsIndex'
<1>1. obj[j] # None /\ id[j] # None
    BY DEF RegistryInv, Equipped, At, WithId
<1>2. todo' \in [Jobs -> SUBSET Steps] /\ Serial' /\ Equipped'
    BY <1>1, StepFrame DEF Steps, Parallel, WithId
<1>3. /\ \A k \in Jobs \ {j} : todo'[k] = todo[k]
      /\ "ring" \in todo'[j]
    BY DEF RegistryInv, TypeOK, Goto
<1>4. ASSUME NEW m \in Models, ~Rebuilding(m)' PROVE hash_rings'[m] = RingOf(model_index'[m])
  <2>1. m # obj[j].model
      BY <1>3, <1>4 DEF Rebuilding, At
  <2>2. "ring" \notin todo[j]
      BY DEF RegistryInv, Serial, At, Parallel
  <2>3. ~Rebuilding(m)
      BY <1>3, <1>4, <2>2 DEF Rebuilding, At
  <2> QED BY <2>1, <2>3 DEF RegistryInv, RingFollowsIndex
<1>5. RingFollowsIndex'
    BY <1>4 DEF RingFollowsIndex, RingOf
<1> QED BY <1>2, <1>5

LEMMA IndexKeeps == ASSUME RegistryInv, NEW j \in Jobs, Index(j) PROVE RegistryInv'
<1>1. obj[j] \in Object
    BY DEF Index, RegistryInv, Equipped, TypeOK, At
<1>2. /\ model_index' \in [Models -> SUBSET Object]
      /\ \A m \in Models \ {obj[j].model} : model_index'[m] = model_index[m]
    BY <1>1 DEF Index, RegistryInv, TypeOK, Object
<1>3. todo' \in [Jobs -> SUBSET Steps] /\ Serial' /\ Equipped' /\ RingFollowsIndex'
    BY <1>2, ListChangeKeeps DEF Index, local
<1>4. TypeOK'
    BY <1>2, <1>3 DEF Index, RegistryInv, TypeOK, policies, local
<1> QED BY <1>3, <1>4 DEF RegistryInv

LEMMA UnindexKeeps == ASSUME RegistryInv, NEW j \in Jobs, Unindex(j) PROVE RegistryInv'
<1>1. obj[j] \in Object
    BY DEF Unindex, RegistryInv, Equipped, TypeOK, At
<1>2. /\ model_index' \in [Models -> SUBSET Object]
      /\ \A m \in Models \ {obj[j].model} : model_index'[m] = model_index[m]
    BY <1>1 DEF Unindex, RegistryInv, TypeOK, Object
<1>3. todo' \in [Jobs -> SUBSET Steps] /\ Serial' /\ Equipped' /\ RingFollowsIndex'
    BY <1>2, ListChangeKeeps DEF Unindex, local
<1>4. TypeOK'
    BY <1>2, <1>3 DEF Unindex, RegistryInv, TypeOK, policies, local
<1> QED BY <1>3, <1>4 DEF RegistryInv

\* The job's model gets its ring from the list as it is; for the others nothing changes.
LEMMA RebuildKeeps == ASSUME RegistryInv, NEW j \in Jobs, RebuildHashRing(j) PROVE RegistryInv'
<1> DEFINE n == obj[j].model
<1>1. obj[j] \in Object /\ obj[j] # None /\ id[j] # None
    BY RegistryAssumption DEF RebuildHashRing, RegistryInv, Equipped, TypeOK, At, WithId
<1>2. /\ AfterRing(j) \in {{"untype"}, {"type"}}
      /\ At(j, "ring") /\ Goto(j, "ring", AfterRing(j))
    BY DEF RebuildHashRing, AfterRing
<1>3. todo' \in [Jobs -> SUBSET Steps] /\ Serial' /\ Equipped'
    BY <1>1, <1>2, StepFrame DEF RebuildHashRing, local, Steps, Parallel, WithId
<1>4. /\ hash_rings' = [hash_rings EXCEPT ![n] = RingOf(model_index[n])]
      /\ n \in Models
    BY <1>1 DEF RebuildHashRing, Object
<1>5. RingOf(model_index[n]) \subseteq Urls
    BY <1>4 DEF RegistryInv, TypeOK, RingOf, Object
<1>6. TypeOK'
    BY <1>3, <1>4, <1>5 DEF RebuildHashRing, RegistryInv, TypeOK, policies, local
<1>7. \A k \in Jobs \ {j} : todo'[k] = todo[k]
    BY <1>2 DEF RegistryInv, TypeOK, Goto
<1>8. ASSUME NEW m \in Models, ~Rebuilding(m)' PROVE hash_rings'[m] = RingOf(model_index[m])
  <2>1. CASE m = n
      BY <2>1, <1>4 DEF RegistryInv, TypeOK
  <2>2. CASE m # n
    <3>1. ~Rebuilding(m)
        BY <2>2, <1>7, <1>8 DEF Rebuilding, At, RebuildHashRing
    <3> QED BY <3>1, <2>2, <1>4 DEF RegistryInv, TypeOK, RingFollowsIndex
  <2> QED BY <2>1, <2>2
<1>9. RingFollowsIndex'
    BY <1>8 DEF RingFollowsIndex, RingOf, RebuildHashRing
<1> QED BY <1>3, <1>6, <1>9 DEF RegistryInv

\* A new job starts with nothing to rebuild.
LEMMA StartKeeps ==
    ASSUME RegistryInv, NEW kind \in Kinds, NEW u \in Urls, NEW step \in {"find", "lookup"},
           Start(kind, u, step), UNCHANGED <<hash_rings, model_index>>,
           \A k \in Jobs \ {next} : obj'[k] = obj[k],
           step = "lookup" => obj'[next] # None
    PROVE  /\ Serial' /\ Equipped' /\ RingFollowsIndex'
           /\ next \in Jobs /\ next' \in 1..(MaxJobs + 1)
           /\ job' \in [Jobs -> Request \cup {None}]
           /\ todo' \in [Jobs -> SUBSET Steps]
           /\ id' \in [Jobs -> Jobs \cup {None}]
           /\ clash' \subseteq Urls /\ overlap' \subseteq Jobs
<1>1. /\ next \in Jobs /\ next' = next + 1
      /\ job' = [job EXCEPT ![next] = [kind |-> kind, url |-> u]]
      /\ todo' = [todo EXCEPT ![next] = {step}]
      /\ UNCHANGED id
    BY DEF Start
<1>2. /\ next' \in 1..(MaxJobs + 1)
      /\ \A k \in Jobs : k < next => k < next'
      /\ next < next'
    BY <1>1, RegistryAssumption DEF Jobs
<1>3. /\ job' \in [Jobs -> Request \cup {None}]
      /\ todo' \in [Jobs -> SUBSET Steps]
      /\ id' \in [Jobs -> Jobs \cup {None}]
      /\ todo'[next] = {step} /\ job'[next] # None
      /\ \A k \in Jobs \ {next} : todo'[k] = todo[k] /\ job'[k] = job[k]
  <2>1. [kind |-> kind, url |-> u] \in Request
      BY DEF Request
  <2>2. [kind |-> kind, url |-> u] # None
      BY <2>1, RegistryAssumption
  <2> QED BY <1>1, <2>1, <2>2 DEF RegistryInv, TypeOK, Steps
<1>4. clash' \subseteq Urls /\ overlap' \subseteq Jobs
    BY <1>1 DEF Start, RegistryInv, TypeOK
<1>5. Serial'
    BY <1>3 DEF RegistryInv, Serial
<1>6. Equipped'
    BY <1>1, <1>2, <1>3 DEF RegistryInv, Equipped, WithId
<1>7. todo[next] = {}
    BY <1>1 DEF RegistryInv, Equipped, Jobs
<1>8. ASSUME NEW m \in Models, ~Rebuilding(m)' PROVE ~Rebuilding(m)
    BY <1>3, <1>7, <1>8 DEF Rebuilding, At
<1>9. RingFollowsIndex'
    BY <1>8 DEF RegistryInv, RingFollowsIndex, RingOf
<1> QED BY <1>1, <1>2, <1>3, <1>4, <1>5, <1>6, <1>9

LEMMA SubmitKeeps == ASSUME RegistryInv, Submit PROVE RegistryInv'
<1>1. ASSUME NEW o \in Offers, NEW reserve \in BOOLEAN, NEW unchecked \in BOOLEAN,
             AddWorker(o, reserve, unchecked)
      PROVE  RegistryInv'
  <2> DEFINE new == [n |-> next, url |-> o.url, model |-> o.model, type |-> o.type, mode |-> o.mode]
  <2>1. /\ o.url \in Urls /\ o.model \in Models /\ o.type \in Types /\ o.mode \in Modes
        /\ next \in Jobs
      BY <1>1, RegistryAssumption DEF AddWorker, Start
  <2>2. new \in Object /\ new # None
      BY <2>1, RegistryAssumption DEF Object
  <2>3. /\ obj' \in [Jobs -> Object \cup {None}]
        /\ obj'[next] # None /\ \A k \in Jobs \ {next} : obj'[k] = obj[k]
      BY <1>1, <2>1, <2>2 DEF AddWorker, RegistryInv, TypeOK
  <2>4. url_to_id' \in [Urls -> Jobs \cup {None}] /\ healthy' \subseteq Jobs
      BY <1>1, <2>1 DEF AddWorker, RegistryInv, TypeOK
  <2>5. Start("add", o.url, "lookup") /\ "add" \in Kinds /\ UNCHANGED <<hash_rings, model_index>>
      BY <1>1 DEF AddWorker, Kinds
  <2>6. /\ Serial' /\ Equipped' /\ RingFollowsIndex'
        /\ next' \in 1..(MaxJobs + 1)
        /\ job' \in [Jobs -> Request \cup {None}]
        /\ todo' \in [Jobs -> SUBSET Steps]
        /\ id' \in [Jobs -> Jobs \cup {None}]
        /\ clash' \subseteq Urls /\ overlap' \subseteq Jobs
      BY <2>1, <2>3, <2>5, StartKeeps
  <2>7. TypeOK'
      BY <1>1, <2>3, <2>4, <2>6 DEF AddWorker, RegistryInv, TypeOK, policies
  <2> QED BY <2>6, <2>7 DEF RegistryInv
<1>2. ASSUME NEW u \in Urls, NEW kind \in {"remove", "update"}, Start(kind, u, "find"),
             UNCHANGED <<registry, policies, obj>>
      PROVE  RegistryInv'
  <2>1. /\ Serial' /\ Equipped' /\ RingFollowsIndex'
        /\ next' \in 1..(MaxJobs + 1)
        /\ job' \in [Jobs -> Request \cup {None}]
        /\ todo' \in [Jobs -> SUBSET Steps]
        /\ id' \in [Jobs -> Jobs \cup {None}]
        /\ clash' \subseteq Urls /\ overlap' \subseteq Jobs
      BY <1>2, StartKeeps DEF registry, Kinds
  <2>2. TypeOK'
      BY <1>2, <2>1 DEF RegistryInv, TypeOK, registry, policies
  <2> QED BY <2>1, <2>2 DEF RegistryInv
<1> QED BY <1>1, <1>2 DEF Submit, RemoveWorker, UpdateWorker

LEMMA NextKeeps == RegistryInv /\ [Next]_vars => RegistryInv'
<1> SUFFICES ASSUME RegistryInv, [Next]_vars PROVE RegistryInv' OBVIOUS
<1>1. CASE Submit
    BY <1>1, SubmitKeeps
<1>2. ASSUME NEW j \in Jobs, Find(j) \/ Register(j) \/ Activate(j) \/ Remove(j) \/ Policies(j)
      PROVE  RegistryInv'
    BY <1>2, FindKeeps, LookupKeeps, StoreKeeps, MapUrlKeeps, IndexKeeps, RebuildKeeps,
       PushTypeKeeps, PushModeKeeps, SyncKeeps, ActivateKeeps, CountKeeps, AssignPolicyKeeps,
       UncountKeeps, DropCountKeeps, DropPolicyKeeps, UnmapKeeps, TakeKeeps, ForgetKeeps,
       UnindexKeeps, DropTypeKeeps, DropModeKeeps, RetireKeeps, UnsyncKeeps
    DEF Register, Remove, Policies
<1>3. CASE UNCHANGED vars
    BY <1>3 DEF vars, registry, policies, local, RegistryInv, TypeOK, Serial, Equipped,
                RingFollowsIndex, Rebuilding, At, RingOf
<1> QED BY <1>1, <1>2, <1>3 DEF Next

LEMMA RegistryInvariant == Spec => []RegistryInv
<1> QED BY InitRegistry, NextKeeps, PTL DEF Spec

(***************************************************************************)
(* The type invariant, for any urls, models, offers and number of jobs;    *)
(* in particular on_worker_removed never makes a count negative.           *)
(***************************************************************************)
THEOREM RegistryTypeCorrect == Spec => []TypeOK
<1>1. RegistryInv => TypeOK
    BY DEF RegistryInv
<1> QED BY <1>1, RegistryInvariant, PTL

(***************************************************************************)
(* rebuild_hash_ring: a ring is the image of its model's list whenever no  *)
(* job still has to rebuild it, for any number of jobs running at once.    *)
(* The argument is that a change of the list and the pending rebuild       *)
(* appear together (Index, Unindex), that the rebuild reads the list at    *)
(* the moment it stores the ring, and that a job's object does not change  *)
(* while its rebuild is pending (Serial).                                  *)
(***************************************************************************)
THEOREM RingsFollowLists == Spec => []RingFollowsIndex
<1>1. RegistryInv => RingFollowsIndex
    BY DEF RegistryInv
<1> QED BY <1>1, RegistryInvariant, PTL

-----------------------------------------------------------------------------
(* What the jobs leave behind *)

Mine(j, u) == job[j] # None /\ job[j].url = u
\* An object that a registration or an update of its url made.
Made(o) == obj[o.n] = o /\ Mine(o.n, o.url) /\ job[o.n].kind # "remove"

RegisterSteps == {"lookup", "store", "map", "index", "type", "mode", "sync",
                  "count", "policy", "activate"}
RemoveSteps == {"uncount", "dropcount", "droppolicy", "unmap", "take", "forget", "unindex",
                "untype", "unmode", "retire", "unsync"}

\* The steps are those of the job's workflow.
Fits(j, steps) ==
    /\ steps \cap RegisterSteps # {} => job[j].kind # "remove"
    /\ steps \cap RemoveSteps # {} => job[j].kind = "remove"
    /\ "find" \in steps => job[j].kind # "add"
    /\ "activate" \in steps => job[j].kind = "add"

\* Ids and objects stay with the url of the job that made them, also where jobs overlap.
JobsOwn ==
    \A j \in Jobs :
        /\ job[j] # None <=> j < next
        /\ Fits(j, todo[j])
        /\ "find" \in todo[j] => obj[j] = None
        /\ obj[j] # None => /\ Mine(j, obj[j].url) /\ Made(obj[j])
                            /\ job[j].kind # "remove" => obj[j].n = j
        /\ id[j] # None => job[j] # None /\ Mine(id[j], job[j].url)
        /\ workers[j] # None => Mine(j, workers[j].url) /\ Made(workers[j])
MapsOwn ==
    /\ \A u \in Urls : url_to_id[u] # None => Mine(url_to_id[u], u)
    /\ \A m \in Models : \A o \in model_index[m] : Made(o) /\ o.model = m
    /\ \A m \in Models : \A u \in hash_rings[m] :
          \E j \in Jobs : obj[j] # None /\ obj[j].url = u /\ obj[j].model = m
OwnInv == JobsOwn /\ MapsOwn

In(j, steps) == \E s \in steps : s \in todo[j]

\* No worker of the url is registered under another id.
Only(u, i) == \A k \in Jobs : workers[k] # None /\ workers[k].url = u => k = i
Unlisted(u) == OneModel(u) => \A m \in Models : u \notin RingOf(model_index[m])
Unringed(u) == OneModel(u) => \A m \in Models : u \notin hash_rings[m]

\* What a url on which no job runs looks like.
Served(u) ==
    LET i == url_to_id[u]
        w == workers[i] IN
    /\ i # None /\ w # None /\ Only(u, i)
    /\ w.n \in healthy /\ w \in model_index[w.model] /\ u \in hash_rings[w.model]
    /\ i \in type_workers[w.type] /\ i \in connection_workers[w.mode] /\ i \in mesh
Gone(u) == url_to_id[u] = None /\ Only(u, None) /\ Unlisted(u) /\ Unringed(u)
Stable(u) == Served(u) \/ Gone(u)

AfterSync == {"count", "policy", "activate"}
AfterMode == AfterSync \cup {"sync"}
AfterType == AfterMode \cup {"mode"}
RingDone == AfterType \cup {"type"}
AfterIndex == RingDone \cup {"ring"}
AfterMap == AfterIndex \cup {"index"}
AfterStore == AfterMap \cup {"map"}

\* How far a registration or an update has come.
Registering(j) ==
    LET u == job[j].url
        o == obj[j]
        i == id[j] IN
    /\ At(j, "lookup") => Only(u, url_to_id[u])
    /\ At(j, "store") => Only(u, i)
    /\ In(j, AfterStore) => i # None /\ workers[i] = o /\ Only(u, i)
    /\ In(j, AfterMap) => url_to_id[u] = i
    /\ In(j, AfterIndex) => o \in model_index[o.model]
    /\ In(j, RingDone) => u \in hash_rings[o.model]
    /\ In(j, AfterType) => i \in type_workers[o.type]
    /\ In(j, AfterMode) => i \in connection_workers[o.mode]
    /\ In(j, AfterSync) => i \in mesh
    /\ job[j].kind = "update" \/ (In(j, AfterSync) /\ ~At(j, "activate")) => o.n \in healthy

BeforeUnmap == {"uncount", "dropcount", "droppolicy", "unmap"}
AfterRebuild == {"untype", "unmode", "retire", "unsync"}
AfterUnindex == AfterRebuild \cup {"ring"}
AfterTake == AfterUnindex \cup {"forget", "unindex"}

\* How far a removal has come.
Removing(j) ==
    LET u == job[j].url IN
    /\ In(j, BeforeUnmap) =>
          url_to_id[u] # None /\ workers[url_to_id[u]] = obj[j] /\ Only(u, url_to_id[u])
    /\ At(j, "take") => url_to_id[u] = None /\ workers[id[j]] = obj[j] /\ Only(u, id[j])
    /\ In(j, AfterTake) => url_to_id[u] = None /\ Only(u, None)
    /\ In(j, AfterUnindex) => Unlisted(u)
    /\ In(j, AfterRebuild) => Unringed(u)

Underway(j) ==
    IF At(j, "find") THEN Stable(job[j].url)
    ELSE IF job[j].kind = "remove" THEN Removing(j) ELSE Registering(j)

\* A url on which no two jobs have overlapped.
UrlInv(u) ==
    /\ \A j, k \in Jobs : Active(j) /\ Active(k) /\ Mine(j, u) /\ Mine(k, u) => j = k
    /\ ~Busy(u) => Stable(u)
    /\ \A j \in Jobs : Mine(j, u) /\ Active(j) => Underway(j)
UrlsInv == \A u \in Urls \ clash : UrlInv(u)

Registered(m) == {i \in Jobs : workers[i] # None /\ workers[i].model = m}
CountOf(m) == IF model_worker_counts[m] = None THEN 0 ELSE model_worker_counts[m]
\* The job has registered a worker and not counted it yet, or counted it out and not taken
\* it out yet.
Uncounted(j) ==
    IF job[j].kind = "remove"
    THEN In(j, {"dropcount", "droppolicy", "unmap", "take"})
    ELSE In(j, {"map", "index", "ring", "type", "mode", "sync", "count"})
Pending(m) == \E j \in Jobs : Active(j) /\ Uncounted(j) /\ obj[j].model = m

\* As long as no job has started beside another, no worker goes uncounted, but for the one
\* of the job that is running, and what is counted has a policy.
CountInv ==
    /\ \A j, k \in Jobs : Active(j) /\ Active(k) => j = k
    /\ clash = {}
    /\ \A m \in Models : Cardinality(Registered(m)) <= CountOf(m) + (IF Pending(m) THEN 1 ELSE 0)
    /\ \A m \in Models : CountOf(m) > 0 =>
          m \in model_policies \/ \E j \in Jobs : At(j, "policy") /\ obj[j].model = m
    /\ \A j \in Jobs : At(j, "dropcount") \/ At(j, "droppolicy") => CountOf(obj[j].model) = 0
PolicyInv == overlap = {} => CountInv

\* What a step of a job finds, and what becomes of the jobs' next steps.
LEMMA StepFacts ==
    ASSUME RegistryInv, NEW j \in Jobs, NEW s \in Steps, NEW then \in SUBSET Steps,
           At(j, s), Goto(j, s, then)
    PROVE  /\ \A k \in Jobs \ {j} : todo'[k] = todo[k]
           /\ todo'[j] = (todo[j] \ {s}) \cup then
           /\ s \notin Parallel => todo[j] = {s} /\ todo'[j] = then
           /\ s \in Parallel => todo[j] \subseteq Parallel
           /\ Active(j) /\ job[j] \in Request /\ job[j] # None
           /\ s # "find" => obj[j] \in Object /\ obj[j] # None
           /\ s \in WithId => id[j] \in Jobs /\ id[j] # None
<1>1. /\ \A k \in Jobs \ {j} : todo'[k] = todo[k]
      /\ todo'[j] = (todo[j] \ {s}) \cup then
    BY DEF RegistryInv, TypeOK, Goto
<1>2. s \notin Parallel => todo[j] = {s} /\ todo'[j] = then
    BY <1>1 DEF RegistryInv, Serial, At
<1>3. s \in Parallel => todo[j] \subseteq Parallel
    BY DEF RegistryInv, Serial, At
<1>4. /\ Active(j) /\ job[j] \in Request /\ job[j] # None
      /\ s # "find" => obj[j] \in Object /\ obj[j] # None
      /\ s \in WithId => id[j] \in Jobs /\ id[j] # None
    BY DEF RegistryInv, Equipped, TypeOK, At, Active
<1> QED BY <1>1, <1>2, <1>3, <1>4

LEMMA InitOwn == Init => OwnInv
<1> SUFFICES ASSUME Init PROVE OwnInv OBVIOUS
<1>1. ASSUME NEW j \in Jobs PROVE ~(j < 1)
    BY DEF Jobs
<1>2. JobsOwn
    BY <1>1 DEF Init, JobsOwn, Fits
<1>3. MapsOwn
    BY DEF Init, MapsOwn
<1> QED BY <1>2, <1>3 DEF OwnInv

\* A step that leaves ids and objects where they are.
LEMMA OwnFrame ==
    ASSUME RegistryInv, OwnInv, NEW j \in Jobs, NEW s \in Steps, NEW then \in SUBSET Steps,
           At(j, s), Goto(j, s, then), Fits(j, then), "find" \notin then, UNCHANGED <<next, job>>
    PROVE  /\ \A k \in Jobs : Fits(k, todo[k])'
           /\ \A k \in Jobs : "find" \in todo'[k] => k # j /\ obj[k] = None
           /\ UNCHANGED <<workers, id, obj>> => JobsOwn'
           /\ UNCHANGED <<url_to_id, model_index, hash_rings, obj>> => MapsOwn'
<1>1. /\ \A k \in Jobs \ {j} : todo'[k] = todo[k]
      /\ todo'[j] = (todo[j] \ {s}) \cup then
    BY StepFacts
<1>2. ASSUME NEW k \in Jobs PROVE Fits(k, todo[k])'
    BY <1>1 DEF OwnInv, JobsOwn, Fits
<1>5. ASSUME NEW k \in Jobs, "find" \in todo'[k] PROVE k # j /\ obj[k] = None
  <2>1. "find" \notin todo[j] \ {s}
      BY DEF RegistryInv, Serial, At, Parallel
  <2> QED BY <1>1, <1>5, <2>1 DEF OwnInv, JobsOwn
<1>3. ASSUME UNCHANGED <<workers, id, obj>> PROVE JobsOwn'
    BY <1>2, <1>3, <1>5 DEF OwnInv, JobsOwn, Made, Mine
<1>4. ASSUME UNCHANGED <<url_to_id, model_index, hash_rings, obj>> PROVE MapsOwn'
    BY <1>4 DEF OwnInv, MapsOwn, Made, Mine
<1> QED BY <1>2, <1>3, <1>4, <1>5

\* A job that gets an object leaves the objects that were made, and their traces, alone.
LEMMA ObjectsStay ==
    ASSUME RegistryInv, OwnInv, NEW j \in Jobs, NEW w \in Object,
           obj' = [obj EXCEPT ![j] = w],
           \A k \in Jobs : job[k] # None => job'[k] = job[k],
           Mine(j, w.url)',
           \/ job'[j].kind = "remove" /\ job[j] # None /\ Made(w)
           \/ job'[j].kind # "remove" /\ w.n = j /\ obj[j] = None
    PROVE  /\ \A k \in Jobs : \A u : Mine(k, u) => Mine(k, u)'
           /\ \A o \in Object : Made(o) => Made(o)'
           /\ Made(w)' /\ obj'[j] = w /\ \A k \in Jobs \ {j} : obj'[k] = obj[k]
           /\ \A m \in Models : \A u \in hash_rings[m] :
                 \E k \in Jobs : obj'[k] # None /\ obj'[k].url = u /\ obj'[k].model = m
<1>1. obj'[j] = w /\ \A k \in Jobs \ {j} : obj'[k] = obj[k]
    BY DEF RegistryInv, TypeOK
<1>2. \A k \in Jobs : \A u : Mine(k, u) => Mine(k, u)'
    BY DEF Mine
<1>3. ASSUME NEW o \in Object, Made(o) PROVE Made(o)'
  <2>1. o.n \in Jobs /\ obj[o.n] = o /\ o # None
      BY <1>3, RegistryAssumption DEF Made, Object
  <2>2. Mine(o.n, o.url)' /\ job'[o.n] = job[o.n] /\ job[o.n].kind # "remove"
      BY <1>2, <1>3, <2>1 DEF Made, Mine
  <2>3. o.n # j
      BY <2>1, <2>2
  <2> QED BY <1>1, <2>1, <2>2, <2>3 DEF Made
<1>4. Made(w)'
  <2>1. CASE job'[j].kind = "remove" /\ Made(w)
      BY <2>1, <1>3
  <2>2. CASE job'[j].kind # "remove" /\ w.n = j
      BY <2>2, <1>1 DEF Made
  <2> QED BY <2>1, <2>2
<1>5. ASSUME NEW m \in Models, NEW u \in hash_rings[m]
      PROVE  \E k \in Jobs : obj'[k] # None /\ obj'[k].url = u /\ obj'[k].model = m
  <2>1. PICK k \in Jobs : obj[k] # None /\ obj[k].url = u /\ obj[k].model = m
      BY DEF OwnInv, MapsOwn
  <2>2. PICK o \in Object : o = obj[k] /\ Made(o)
      BY <2>1 DEF OwnInv, JobsOwn, RegistryInv, TypeOK
  <2>3. o.n \in Jobs /\ Made(o)'
      BY <2>2, <1>3 DEF Object
  <2>4. obj'[o.n] = o
      BY <2>3 DEF Made
  <2> QED BY <2>1, <2>2, <2>3, <2>4
<1> QED BY <1>1, <1>2, <1>3, <1>4, <1>5

LEMMA LookupOwns == ASSUME RegistryInv, OwnInv, NEW j \in Jobs, Lookup(j) PROVE OwnInv'
<1>1. /\ At(j, "lookup") /\ Goto(j, "lookup", {"store"}) /\ "lookup" \in Steps
      /\ UNCHANGED <<workers, url_to_id, model_index, hash_rings, next, job, obj>>
      /\ id' = [id EXCEPT ![j] = IF url_to_id[obj[j].url] = None THEN j ELSE url_to_id[obj[j].url]]
    BY DEF Lookup, registry, local, Steps
<1>2. obj[j] \in Object /\ obj[j] # None /\ job[j] # None
    BY <1>1, StepFacts DEF Steps
<1>3. Fits(j, {"store"})
    BY <1>1 DEF OwnInv, JobsOwn, Fits, At, RegisterSteps, RemoveSteps
<1>4. MapsOwn' /\ \A k \in Jobs : Fits(k, todo[k])' /\ ("find" \in todo'[k] => obj[k] = None)
    BY <1>1, <1>3, OwnFrame DEF Steps
<1>5. Mine(id'[j], job[j].url) /\ \A k \in Jobs \ {j} : id'[k] = id[k]
    BY <1>1, <1>2 DEF OwnInv, JobsOwn, MapsOwn, Mine, RegistryInv, TypeOK, Object
<1>6. JobsOwn'
    BY <1>1, <1>2, <1>4, <1>5 DEF OwnInv, JobsOwn, Made, Mine
<1> QED BY <1>4, <1>6 DEF OwnInv

LEMMA StoreOwns == ASSUME RegistryInv, OwnInv, NEW j \in Jobs, Store(j) PROVE OwnInv'
<1>1. /\ At(j, "store") /\ Goto(j, "store", {"map"}) /\ "store" \in Steps
      /\ UNCHANGED <<url_to_id, model_index, hash_rings, next, job, id, obj>>
      /\ workers' = [workers EXCEPT ![id[j]] = obj[j]]
    BY DEF Store, local, Steps
<1>2. obj[j] \in Object /\ obj[j] # None /\ job[j] # None /\ id[j] \in Jobs /\ id[j] # None
    BY <1>1, StepFacts DEF Steps, WithId
<1>3. Fits(j, {"map"})
    BY <1>1 DEF OwnInv, JobsOwn, Fits, At, RegisterSteps, RemoveSteps
<1>4. MapsOwn' /\ \A k \in Jobs : Fits(k, todo[k])' /\ ("find" \in todo'[k] => obj[k] = None)
    BY <1>1, <1>3, OwnFrame DEF Steps
<1>5. /\ Mine(id[j], obj[j].url) /\ Made(obj[j]) /\ workers'[id[j]] = obj[j]
      /\ \A k \in Jobs \ {id[j]} : workers'[k] = workers[k]
    BY <1>1, <1>2 DEF OwnInv, JobsOwn, Mine, RegistryInv, TypeOK
<1>6. JobsOwn'
    BY <1>1, <1>2, <1>4, <1>5 DEF OwnInv, JobsOwn, Made, Mine
<1> QED BY <1>4, <1>6 DEF OwnInv

LEMMA MapUrlOwns == ASSUME RegistryInv, OwnInv, NEW j \in Jobs, MapUrl(j) PROVE OwnInv'
<1>1. /\ At(j, "map") /\ Goto(j, "map", {"index"}) /\ "map" \in Steps
      /\ UNCHANGED <<workers, model_index, hash_rings, next, job, id, obj>>
      /\ url_to_id' = [url_to_id EXCEPT ![obj[j].url] = id[j]]
    BY DEF MapUrl, local, Steps
<1>2. obj[j] \in Object /\ obj[j] # None /\ job[j] # None /\ id[j] \in Jobs /\ id[j] # None
    BY <1>1, StepFacts DEF Steps, WithId
<1>3. Fits(j, {"index"})
    BY <1>1 DEF OwnInv, JobsOwn, Fits, At, RegisterSteps, RemoveSteps
<1>4. JobsOwn'
    BY <1>1, <1>3, OwnFrame DEF Steps
<1>5. /\ Mine(id[j], obj[j].url) /\ url_to_id'[obj[j].url] = id[j]
      /\ \A u \in Urls \ {obj[j].url} : url_to_id'[u] = url_to_id[u]
    BY <1>1, <1>2 DEF OwnInv, JobsOwn, Mine, RegistryInv, TypeOK, Object
<1>6. MapsOwn'
    BY <1>1, <1>5 DEF OwnInv, MapsOwn, Made, Mine
<1> QED BY <1>4, <1>6 DEF OwnInv

LEMMA IndexOwns == ASSUME RegistryInv, OwnInv, NEW j \in Jobs, Index(j) PROVE OwnInv'
<1>1. /\ At(j, "index") /\ Goto(j, "index", {"ring"}) /\ "index" \in Steps
      /\ UNCHANGED <<workers, url_to_id, hash_rings, next, job, id, obj>>
      /\ model_index' = [model_index EXCEPT ![obj[j].model] = @ \cup {obj[j]}]
    BY DEF Index, local, Steps
<1>2. obj[j] \in Object /\ obj[j] # None
    BY <1>1, StepFacts DEF Steps
<1>3. Fits(j, {"ring"})
    BY DEF Fits, RegisterSteps, RemoveSteps
<1>4. JobsOwn'
    BY <1>1, <1>3, OwnFrame DEF Steps
<1>5. Made(obj[j])
    BY <1>2 DEF OwnInv, JobsOwn
<1>6. ASSUME NEW m \in Models, NEW o \in model_index'[m] PROVE Made(o) /\ o.model = m
    BY <1>1, <1>2, <1>5 DEF OwnInv, MapsOwn, RegistryInv, TypeOK, Object
<1>7. MapsOwn'
    BY <1>1, <1>6 DEF OwnInv, MapsOwn, Made, Mine
<1> QED BY <1>4, <1>7 DEF OwnInv

LEMMA RebuildOwns == ASSUME RegistryInv, OwnInv, NEW j \in Jobs, RebuildHashRing(j) PROVE OwnInv'
<1> DEFINE n == obj[j].model
<1>1. /\ At(j, "ring") /\ Goto(j, "ring", AfterRing(j)) /\ "ring" \in Steps
      /\ AfterRing(j) \in SUBSET Steps /\ "find" \notin AfterRing(j)
      /\ UNCHANGED <<workers, url_to_id, model_index, next, job, id, obj>>
      /\ hash_rings' = [hash_rings EXCEPT ![n] = RingOf(model_index[n])]
    BY DEF RebuildHashRing, local, Steps, AfterRing
<1>2. obj[j] \in Object /\ n \in Models
    BY <1>1, StepFacts DEF Steps, Object
<1>3. Fits(j, AfterRing(j))
    BY DEF Fits, RegisterSteps, RemoveSteps, AfterRing
<1>4. JobsOwn'
    BY <1>1, <1>3, OwnFrame
<1>5. ASSUME NEW u \in RingOf(model_index[n])
      PROVE  \E k \in Jobs : obj[k] # None /\ obj[k].url = u /\ obj[k].model = n
  <2>1. PICK o \in model_index[n] : o.url = u
      BY DEF RingOf
  <2>2. o \in Object /\ Made(o) /\ o.model = n
      BY <1>2 DEF OwnInv, MapsOwn, RegistryInv, TypeOK
  <2>3. o.n \in Jobs /\ obj[o.n] = o /\ o # None
      BY <2>2, RegistryAssumption DEF Made, Object
  <2> QED BY <2>1, <2>2, <2>3
<1>6. ASSUME NEW m \in Models, NEW u \in hash_rings'[m]
      PROVE  \E k \in Jobs : obj[k] # None /\ obj[k].url = u /\ obj[k].model = m
  <2>1. CASE m = n
    <3>1. hash_rings'[m] = RingOf(model_index[n])
        BY <1>1, <1>2, <2>1 DEF RegistryInv, TypeOK
    <3> QED BY <1>5, <1>6, <2>1, <3>1
  <2>2. CASE m # n
    <3>1. hash_rings'[m] = hash_rings[m]
        BY <1>1, <2>2 DEF RegistryInv, TypeOK
    <3> QED BY <1>6, <3>1 DEF OwnInv, MapsOwn
  <2> QED BY <2>1, <2>2
<1>7. MapsOwn'
    BY <1>1, <1>6 DEF OwnInv, MapsOwn, Made, Mine
<1> QED BY <1>4, <1>7 DEF OwnInv

LEMMA UnmapOwns == ASSUME RegistryInv, OwnInv, NEW j \in Jobs, Unmap(j) PROVE OwnInv'
<1> DEFINE u == job[j].url
           then == IF url_to_id[u] = None THEN {} ELSE {"take"}
<1>1. /\ At(j, "unmap") /\ Goto(j, "unmap", then) /\ "unmap" \in Steps
      /\ then \in SUBSET Steps /\ "find" \notin then
      /\ UNCHANGED <<workers, model_index, hash_rings, next, job, obj>>
      /\ id' = [id EXCEPT ![j] = url_to_id[u]]
      /\ url_to_id' = [url_to_id EXCEPT ![u] = None]
    BY DEF Unmap, local, Steps
<1>2. job[j] # None /\ u \in Urls
    BY <1>1, StepFacts DEF Request
<1>3. Fits(j, then)
    BY <1>1 DEF OwnInv, JobsOwn, Fits, At, RegisterSteps, RemoveSteps
<1> HIDE DEF then
<1>4. \A k \in Jobs : Fits(k, todo[k])' /\ ("find" \in todo'[k] => obj[k] = None)
    BY <1>1, <1>3, OwnFrame
<1>5. /\ url_to_id'[u] = None /\ id'[j] = url_to_id[u]
      /\ \A v \in Urls \ {u} : url_to_id'[v] = url_to_id[v]
      /\ \A k \in Jobs \ {j} : id'[k] = id[k]
    BY <1>1, <1>2 DEF RegistryInv, TypeOK
<1>6. id'[j] # None => Mine(id'[j], u)
    BY <1>2, <1>5 DEF OwnInv, MapsOwn
<1>7. MapsOwn'
    BY <1>1, <1>5 DEF OwnInv, MapsOwn, Made, Mine
<1>8. JobsOwn'
    BY <1>1, <1>2, <1>4, <1>5, <1>6 DEF OwnInv, JobsOwn, Made, Mine
<1> QED BY <1>7, <1>8 DEF OwnInv

LEMMA ForgetOwns == ASSUME RegistryInv, OwnInv, NEW j \in Jobs, Forget(j) PROVE OwnInv'
<1>1. /\ At(j, "forget") /\ Goto(j, "forget", {"unindex"}) /\ "forget" \in Steps
      /\ UNCHANGED <<workers, model_index, hash_rings, next, job, id, obj>>
      /\ url_to_id' = [url_to_id EXCEPT ![obj[j].url] = None]
    BY DEF Forget, local, Steps
<1>2. Fits(j, {"unindex"})
    BY <1>1 DEF OwnInv, JobsOwn, Fits, At, RegisterSteps, RemoveSteps
<1>3. JobsOwn'
    BY <1>1, <1>2, OwnFrame DEF Steps
<1>4. \A u \in Urls : url_to_id'[u] # None => url_to_id'[u] = url_to_id[u]
    BY <1>1 DEF RegistryInv, TypeOK
<1>5. MapsOwn'
    BY <1>1, <1>4 DEF OwnInv, MapsOwn, Made, Mine
<1> QED BY <1>3, <1>5 DEF OwnInv

LEMMA UnindexOwns == ASSUME RegistryInv, OwnInv, NEW j \in Jobs, Unindex(j) PROVE OwnInv'
<1>1. /\ At(j, "unindex") /\ Goto(j, "unindex", {"ring"}) /\ "unindex" \in Steps
      /\ UNCHANGED <<workers, url_to_id, hash_rings, next, job, id, obj>>
      /\ model_index' = [model_index EXCEPT ![obj[j].model] = {o \in @ : o.url # obj[j].url}]
    BY DEF Unindex, local, Steps
<1>2. Fits(j, {"ring"})
    BY DEF Fits, RegisterSteps, RemoveSteps
<1>3. JobsOwn'
    BY <1>1, <1>2, OwnFrame DEF Steps
<1>4. \A m \in Models : model_index'[m] \subseteq model_index[m]
    BY <1>1 DEF RegistryInv, TypeOK
<1>5. MapsOwn'
    BY <1>1, <1>4 DEF OwnInv, MapsOwn, Made, Mine
<1> QED BY <1>3, <1>5 DEF OwnInv

\* Such a job keeps what JobsOwn and MapsOwn say of objects.
LEMMA ObjectsOwned ==
    ASSUME RegistryInv, OwnInv, NEW j \in Jobs, NEW w \in Object,
           obj' = [obj EXCEPT ![j] = w],
           \A k \in Jobs : job[k] # None => job'[k] = job[k],
           Mine(j, w.url)',
           \/ job'[j].kind = "remove" /\ job[j] # None /\ Made(w)
           \/ job'[j].kind # "remove" /\ w.n = j /\ obj[j] = None,
           \A k \in Jobs : workers'[k] # None => workers'[k] = workers[k],
           UNCHANGED <<model_index, hash_rings>>
    PROVE  /\ \A k \in Jobs : \A u : Mine(k, u) => Mine(k, u)'
           /\ \A k \in Jobs :
                 /\ obj'[k] # None => /\ Mine(k, obj[k].url)' /\ Made(obj[k])'
                                      /\ job'[k].kind # "remove" => obj'[k].n = k
                 /\ workers'[k] # None => Mine(k, workers[k].url)' /\ Made(workers[k])'
           /\ \A m \in Models : \A o \in model_index'[m] : Made(o)' /\ o.model = m
           /\ \A m \in Models : \A u \in hash_rings'[m] :
                 \E k \in Jobs : obj'[k] # None /\ obj'[k].url = u /\ obj'[k].model = m
<1>1. /\ \A k \in Jobs : \A u : Mine(k, u) => Mine(k, u)'
      /\ \A p \in Object : Made(p) => Made(p)'
      /\ Made(w)' /\ obj'[j] = w /\ \A k \in Jobs \ {j} : obj'[k] = obj[k]
      /\ \A m \in Models : \A u \in hash_rings[m] :
            \E k \in Jobs : obj'[k] # None /\ obj'[k].url = u /\ obj'[k].model = m
    BY ObjectsStay
<1>2. ASSUME NEW k \in Jobs, workers'[k] # None
      PROVE  Mine(k, workers[k].url)' /\ Made(workers[k])'
  <2>1. ASSUME NEW v \in Object, v = workers'[k], Made(v), Mine(k, v.url)
        PROVE  Mine(k, workers[k].url)' /\ Made(workers[k])'
      BY <1>1, <2>1
  <2> QED BY <1>2, <2>1 DEF OwnInv, JobsOwn, RegistryInv, TypeOK
<1>3. ASSUME NEW k \in Jobs, obj'[k] # None
      PROVE  /\ Mine(k, obj[k].url)' /\ Made(obj[k])'
             /\ job'[k].kind # "remove" => obj'[k].n = k
  <2>1. CASE k = j
      BY <1>1, <2>1
  <2>2. CASE k # j
    <3>1. ASSUME NEW v \in Object, v = obj'[k], Made(v), Mine(k, v.url),
                 job[k].kind # "remove" => v.n = k
          PROVE  /\ Mine(k, obj[k].url)' /\ Made(obj[k])'
                 /\ job'[k].kind # "remove" => obj'[k].n = k
      <4>1. job'[k] = job[k]
          BY <3>1 DEF Mine
      <4> QED BY <1>1, <3>1, <4>1
    <3>2. obj'[k] = obj[k]
        BY <1>1, <2>2
    <3> QED BY <1>3, <3>1, <3>2 DEF OwnInv, JobsOwn, RegistryInv, TypeOK
  <2> QED BY <2>1, <2>2
<1>4. ASSUME NEW m \in Models, NEW p \in model_index'[m] PROVE Made(p)' /\ p.model = m
    BY <1>1, <1>4 DEF OwnInv, MapsOwn, RegistryInv, TypeOK
<1> QED BY <1>1, <1>2, <1>3, <1>4

LEMMA FindOwns == ASSUME RegistryInv, OwnInv, NEW j \in Jobs, Find(j) PROVE OwnInv'
<1> DEFINE w == Found(job[j].url)
<1>1. /\ At(j, "find") /\ "find" \in Steps
      /\ UNCHANGED <<workers, url_to_id, model_index, hash_rings, next, job, id>>
      /\ \/ w = None /\ Goto(j, "find", {}) /\ UNCHANGED obj
         \/ /\ w # None /\ job[j].kind = "remove"
            /\ obj' = [obj EXCEPT ![j] = w]
            /\ Goto(j, "find", {"uncount"})
         \/ /\ w # None /\ job[j].kind = "update"
            /\ obj' = [obj EXCEPT ![j] = [w EXCEPT !.n = j]]
            /\ Goto(j, "find", {"lookup"})
    BY DEF Find, local, Steps
<1>2. job[j] # None /\ job[j].url \in Urls
  <2>1. job[j] # None /\ job[j] \in Request
      BY <1>1 DEF RegistryInv, Equipped, TypeOK, At
  <2> QED BY <2>1 DEF Request
<1>3. w # None => w \in Object /\ Made(w) /\ w.url = job[j].url
    BY <1>2 DEF Found, OwnInv, JobsOwn, MapsOwn, Mine, RegistryInv, TypeOK
<1> HIDE DEF w
<1>4. CASE Goto(j, "find", {}) /\ UNCHANGED obj
  <2>1. Fits(j, {})
      BY DEF Fits
  <2> QED BY <1>1, <1>4, <2>1, OwnFrame DEF OwnInv
<1>5. ASSUME NEW o \in Object, NEW then \in SUBSET Steps, Goto(j, "find", then),
             obj' = [obj EXCEPT ![j] = o], o.url = job[j].url,
             Fits(j, then), "find" \notin then,
             \/ job[j].kind = "remove" /\ Made(o)
             \/ job[j].kind = "update" /\ o.n = j
      PROVE  OwnInv'
  <2>1. \A k \in Jobs : Fits(k, todo[k])' /\ ("find" \in todo'[k] => k # j /\ obj[k] = None)
      BY <1>1, <1>5, OwnFrame
  <2>2. obj[j] = None
      BY <1>1 DEF At, OwnInv, JobsOwn
  <2>3. Mine(j, o.url)'
      BY <1>1, <1>2, <1>5 DEF Mine
  <2>4. /\ \A k \in Jobs :
              /\ obj'[k] # None => /\ Mine(k, obj[k].url)' /\ Made(obj[k])'
                                   /\ job'[k].kind # "remove" => obj'[k].n = k
              /\ workers'[k] # None => Mine(k, workers[k].url)' /\ Made(workers[k])'
        /\ \A m \in Models : \A p \in model_index'[m] : Made(p)' /\ p.model = m
        /\ \A m \in Models : \A u \in hash_rings'[m] :
              \E k \in Jobs : obj'[k] # None /\ obj'[k].url = u /\ obj'[k].model = m
      BY <1>1, <1>2, <1>5, <2>2, <2>3, ObjectsOwned
  <2>5. \A k \in Jobs : "find" \in todo'[k] => obj'[k] = None
      BY <1>5, <2>1 DEF RegistryInv, TypeOK
  <2>6. JobsOwn'
      BY <1>1, <2>1, <2>4, <2>5 DEF OwnInv, JobsOwn, Mine
  <2>7. MapsOwn'
      BY <1>1, <2>4 DEF OwnInv, MapsOwn, Mine
  <2> QED BY <2>6, <2>7 DEF OwnInv
<1>6. CASE /\ w # None /\ job[j].kind = "remove"
           /\ obj' = [obj EXCEPT ![j] = w]
           /\ Goto(j, "find", {"uncount"})
  <2>1. Fits(j, {"uncount"})
      BY <1>6 DEF Fits, RegisterSteps, RemoveSteps
  <2> QED BY <1>3, <1>5, <1>6, <2>1 DEF Steps
<1>7. CASE /\ w # None /\ job[j].kind = "update"
           /\ obj' = [obj EXCEPT ![j] = [w EXCEPT !.n = j]]
           /\ Goto(j, "find", {"lookup"})
  <2>1. Fits(j, {"lookup"})
      BY <1>7 DEF Fits, RegisterSteps, RemoveSteps
  <2>2. /\ [w EXCEPT !.n = j] \in Object /\ [w EXCEPT !.n = j].n = j
        /\ [w EXCEPT !.n = j].url = job[j].url
      BY <1>3, <1>7 DEF Object
  <2> QED BY <1>5, <1>7, <2>1, <2>2 DEF Steps
<1> QED BY <1>1, <1>4, <1>6, <1>7

LEMMA TakeOwns == ASSUME RegistryInv, OwnInv, NEW j \in Jobs, Take(j) PROVE OwnInv'
<1>1. /\ At(j, "take") /\ "take" \in Steps
      /\ UNCHANGED <<url_to_id, model_index, hash_rings, next, job, id>>
      /\ \/ Goto(j, "take", {}) /\ UNCHANGED <<workers, obj>>
         \/ /\ workers[id[j]] # None
            /\ workers' = [workers EXCEPT ![id[j]] = None]
            /\ obj' = [obj EXCEPT ![j] = workers[id[j]]]
            /\ Goto(j, "take", {"forget"})
    BY DEF Take, local, Steps
<1>2. job[j] # None /\ id[j] \in Jobs /\ id[j] # None /\ job[j].kind = "remove"
  <2>1. job[j] # None /\ id[j] \in Jobs /\ id[j] # None
      BY <1>1 DEF RegistryInv, Equipped, TypeOK, At, WithId
  <2> QED BY <1>1, <2>1 DEF OwnInv, JobsOwn, Fits, At, RemoveSteps
<1>3. Fits(j, {}) /\ Fits(j, {"forget"})
    BY <1>2 DEF Fits, RegisterSteps, RemoveSteps
<1>4. CASE Goto(j, "take", {}) /\ UNCHANGED <<workers, obj>>
    BY <1>1, <1>3, <1>4, OwnFrame DEF OwnInv
<1>5. ASSUME NEW w \in Object, w = workers[id[j]],
             workers' = [workers EXCEPT ![id[j]] = None],
             obj' = [obj EXCEPT ![j] = w], Goto(j, "take", {"forget"})
      PROVE  OwnInv'
  <2>1. \A k \in Jobs : Fits(k, todo[k])' /\ ("find" \in todo'[k] => k # j /\ obj[k] = None)
      BY <1>1, <1>3, <1>5, OwnFrame DEF Steps
  <2>2. Made(w) /\ Mine(j, w.url)'
      BY <1>1, <1>2, <1>5, RegistryAssumption DEF OwnInv, JobsOwn, Mine
  <2>3. \A k \in Jobs : workers'[k] # None => workers'[k] = workers[k]
      BY <1>5 DEF RegistryInv, TypeOK
  <2>4. /\ \A k \in Jobs :
              /\ obj'[k] # None => /\ Mine(k, obj[k].url)' /\ Made(obj[k])'
                                   /\ job'[k].kind # "remove" => obj'[k].n = k
              /\ workers'[k] # None => Mine(k, workers[k].url)' /\ Made(workers[k])'
        /\ \A m \in Models : \A p \in model_index'[m] : Made(p)' /\ p.model = m
        /\ \A m \in Models : \A u \in hash_rings'[m] :
              \E k \in Jobs : obj'[k] # None /\ obj'[k].url = u /\ obj'[k].model = m
      BY <1>1, <1>2, <1>5, <2>2, <2>3, ObjectsOwned
  <2>5. \A k \in Jobs : "find" \in todo'[k] => obj'[k] = None
      BY <1>5, <2>1 DEF RegistryInv, TypeOK
  <2>6. JobsOwn'
      BY <1>1, <2>1, <2>4, <2>5 DEF OwnInv, JobsOwn, Mine
  <2>7. MapsOwn'
      BY <1>1, <2>4 DEF OwnInv, MapsOwn, Mine
  <2> QED BY <2>6, <2>7 DEF OwnInv
<1>6. workers[id[j]] \in Object \cup {None}
    BY <1>2 DEF RegistryInv, TypeOK
<1> QED BY <1>1, <1>4, <1>5, <1>6

\* A job that starts has no trace yet.
LEMMA StartOwns ==
    ASSUME RegistryInv, OwnInv, NEW kind \in Kinds, NEW u \in Urls, NEW step \in {"find", "lookup"},
           Start(kind, u, step), step = "find" <=> kind # "add"
    PROVE  /\ next \in Jobs /\ job[next] = None /\ obj[next] = None /\ todo[next] = {}
           /\ workers[next] = None
           /\ job'[next] # None /\ job'[next].kind = kind /\ job'[next].url = u
           /\ todo'[next] = {step}
           /\ \A k \in Jobs \ {next} : job'[k] = job[k] /\ todo'[k] = todo[k]
           /\ \A k \in Jobs : job[k] # None => job'[k] = job[k]
           /\ \A k \in Jobs : job'[k] # None <=> k < next'
           /\ \A k \in Jobs : Fits(k, todo[k])'
           /\ \A k \in Jobs : \A v : Mine(k, v) => Mine(k, v)'
<1>1. /\ next \in Jobs /\ next' = next + 1
      /\ job' = [job EXCEPT ![next] = [kind |-> kind, url |-> u]]
      /\ todo' = [todo EXCEPT ![next] = {step}]
    BY DEF Start
<1>2. [kind |-> kind, url |-> u] # None
    BY RegistryAssumption DEF Request
<1>3. job[next] = None
    BY <1>1 DEF OwnInv, JobsOwn, Jobs
<1>4. obj[next] = None /\ todo[next] = {} /\ workers[next] = None
    BY <1>1, <1>3 DEF OwnInv, JobsOwn, Mine, RegistryInv, Equipped
<1>5. /\ job'[next] # None /\ job'[next].kind = kind /\ job'[next].url = u
      /\ todo'[next] = {step}
      /\ \A k \in Jobs \ {next} : job'[k] = job[k] /\ todo'[k] = todo[k]
    BY <1>1, <1>2 DEF RegistryInv, TypeOK
<1>6. \A k \in Jobs : job[k] # None => job'[k] = job[k]
    BY <1>3, <1>5
<1>7. \A k \in Jobs : job'[k] # None <=> k < next'
    BY <1>1, <1>5 DEF OwnInv, JobsOwn, Jobs
<1>8. ASSUME NEW k \in Jobs PROVE Fits(k, todo[k])'
  <2>1. CASE k = next
      BY <2>1, <1>5 DEF Fits, RegisterSteps, RemoveSteps, Kinds
  <2>2. CASE k # next
      BY <2>2, <1>5 DEF Fits, OwnInv, JobsOwn
  <2> QED BY <2>1, <2>2
<1>9. \A k \in Jobs : \A v : Mine(k, v) => Mine(k, v)'
    BY <1>6 DEF Mine
<1> QED BY <1>1, <1>3, <1>4, <1>5, <1>6, <1>7, <1>8, <1>9

\* The steps that only touch the id indices, the mesh, the flags and the policies.
LEMMA OthersOwn ==
    ASSUME RegistryInv, OwnInv, NEW j \in Jobs,
           \/ PushType(j) \/ PushMode(j) \/ Sync(j) \/ Activate(j) \/ Policies(j)
           \/ DropType(j) \/ DropMode(j) \/ Retire(j) \/ Unsync(j)
    PROVE  OwnInv'
<1> DEFINE Leap(s, then) == At(j, s) /\ Goto(j, s, then)
<1>1. UNCHANGED <<workers, url_to_id, model_index, hash_rings, next, job, id, obj>>
    BY DEF PushType, PushMode, Sync, Activate, Policies, Count, AssignPolicy, Uncount, DropCount,
           DropPolicy, DropType, DropMode, Retire, Unsync, registry, local
<1>2. \E s \in Steps, then \in SUBSET Steps : Leap(s, then) /\ Fits(j, then) /\ "find" \notin then
  <2>1. CASE PushType(j)
    <3>1. Leap("type", {"mode"}) /\ Fits(j, {"mode"})
        BY <2>1 DEF PushType, OwnInv, JobsOwn, Fits, At, RegisterSteps, RemoveSteps
    <3> QED BY <3>1 DEF Steps
  <2>2. CASE PushMode(j)
    <3>1. Leap("mode", {"sync"}) /\ Fits(j, {"sync"})
        BY <2>2 DEF PushMode, OwnInv, JobsOwn, Fits, At, RegisterSteps, RemoveSteps
    <3> QED BY <3>1 DEF Steps
  <2>3. CASE Activate(j)
    <3>1. Leap("activate", {}) /\ Fits(j, {})
        BY <2>3 DEF Activate, OwnInv, JobsOwn, Fits, At, RegisterSteps, RemoveSteps
    <3> QED BY <3>1 DEF Steps
  <2>4. CASE Count(j)
    <3>1. Leap("count", {"policy"}) /\ Fits(j, {"policy"})
        BY <2>4 DEF Count, OwnInv, JobsOwn, Fits, At, RegisterSteps, RemoveSteps
    <3> QED BY <3>1 DEF Steps
  <2>5. CASE AssignPolicy(j)
    <3>1. Leap("policy", {}) /\ Fits(j, {})
        BY <2>5 DEF AssignPolicy, OwnInv, JobsOwn, Fits, At, RegisterSteps, RemoveSteps
    <3> QED BY <3>1 DEF Steps
  <2>6. CASE DropCount(j)
    <3>1. Leap("dropcount", {"droppolicy"}) /\ Fits(j, {"droppolicy"})
        BY <2>6 DEF DropCount, OwnInv, JobsOwn, Fits, At, RegisterSteps, RemoveSteps
    <3> QED BY <3>1 DEF Steps
  <2>7. CASE DropPolicy(j)
    <3>1. Leap("droppolicy", {"unmap"}) /\ Fits(j, {"unmap"})
        BY <2>7 DEF DropPolicy, OwnInv, JobsOwn, Fits, At, RegisterSteps, RemoveSteps
    <3> QED BY <3>1 DEF Steps
  <2>8. CASE DropType(j)
    <3>1. Leap("untype", {"unmode"}) /\ Fits(j, {"unmode"})
        BY <2>8 DEF DropType, OwnInv, JobsOwn, Fits, At, RegisterSteps, RemoveSteps
    <3> QED BY <3>1 DEF Steps
  <2>9. CASE DropMode(j)
    <3>1. Leap("unmode", {"retire"}) /\ Fits(j, {"retire"})
        BY <2>9 DEF DropMode, OwnInv, JobsOwn, Fits, At, RegisterSteps, RemoveSteps
    <3> QED BY <3>1 DEF Steps
  <2>10. CASE Retire(j)
    <3>1. Leap("retire", {"unsync"}) /\ Fits(j, {"unsync"})
        BY <2>10 DEF Retire, OwnInv, JobsOwn, Fits, At, RegisterSteps, RemoveSteps
    <3> QED BY <3>1 DEF Steps
  <2>11. CASE Unsync(j)
    <3>1. Leap("unsync", {}) /\ Fits(j, {})
        BY <2>11 DEF Unsync, OwnInv, JobsOwn, Fits, At, RegisterSteps, RemoveSteps
    <3> QED BY <3>1 DEF Steps
  <2>12. CASE Sync(j)
    <3> DEFINE then == IF job[j].kind = "add" THEN {"count", "activate"} ELSE {"count"}
    <3>1. Leap("sync", then) /\ Fits(j, then) /\ then \in SUBSET Steps /\ "find" \notin then
        BY <2>12 DEF Sync, OwnInv, JobsOwn, Fits, At, RegisterSteps, RemoveSteps, Steps
    <3> QED BY <3>1 DEF Steps
  <2>13. CASE Uncount(j)
    <3>1. PICK then \in {{"unmap"}, {"dropcount"}} : Leap("uncount", then)
        BY <2>13 DEF Uncount
    <3>2. Fits(j, then)
        BY <3>1 DEF OwnInv, JobsOwn, Fits, At, RegisterSteps, RemoveSteps
    <3> QED BY <3>1, <3>2 DEF Steps
  <2> QED BY <2>1, <2>2, <2>3, <2>4, <2>5, <2>6, <2>7, <2>8, <2>9, <2>10, <2>11, <2>12, <2>13 DEF Policies
<1> QED BY <1>1, <1>2, OwnFrame DEF OwnInv

LEMMA SubmitOwns == ASSUME RegistryInv, OwnInv, Submit PROVE OwnInv'
<1>1. ASSUME NEW o \in Offers, NEW reserve \in BOOLEAN, NEW unchecked \in BOOLEAN,
             AddWorker(o, reserve, unchecked)
      PROVE  OwnInv'
  <2> DEFINE new == [n |-> next, url |-> o.url, model |-> o.model, type |-> o.type, mode |-> o.mode]
  <2>1. /\ o.url \in Urls /\ o.model \in Models /\ o.type \in Types /\ o.mode \in Modes
        /\ Start("add", o.url, "lookup") /\ "add" \in Kinds
        /\ UNCHANGED <<workers, model_index, hash_rings, id>>
        /\ obj' = [obj EXCEPT ![next] = new]
      BY <1>1, RegistryAssumption DEF AddWorker, Start, Kinds
  <2>2. /\ next \in Jobs /\ job[next] = None /\ obj[next] = None
        /\ job'[next] # None /\ job'[next].kind = "add" /\ job'[next].url = o.url
        /\ todo'[next] = {"lookup"}
        /\ \A k \in Jobs \ {next} : job'[k] = job[k] /\ todo'[k] = todo[k]
        /\ \A k \in Jobs : job[k] # None => job'[k] = job[k]
        /\ \A k \in Jobs : job'[k] # None <=> k < next'
        /\ \A k \in Jobs : Fits(k, todo[k])'
        /\ \A k \in Jobs : \A v : Mine(k, v) => Mine(k, v)'
      BY <2>1, StartOwns
  <2>3. new \in Object /\ new.n = next /\ new.url = o.url
      BY <2>1, <2>2 DEF Object
  <2> HIDE DEF new
  <2>4. ASSUME NEW i \in Jobs, NEW w \in Object, i = next, w = new
        PROVE  /\ \A k \in Jobs :
                     /\ obj'[k] # None => /\ Mine(k, obj[k].url)' /\ Made(obj[k])'
                                          /\ job'[k].kind # "remove" => obj'[k].n = k
                     /\ workers'[k] # None => Mine(k, workers[k].url)' /\ Made(workers[k])'
               /\ \A m \in Models : \A p \in model_index'[m] : Made(p)' /\ p.model = m
               /\ \A m \in Models : \A u \in hash_rings'[m] :
                     \E k \in Jobs : obj'[k] # None /\ obj'[k].url = u /\ obj'[k].model = m
    <3>1. Mine(i, w.url)'
        BY <2>2, <2>3, <2>4 DEF Mine
    <3> QED BY <2>1, <2>2, <2>3, <2>4, <3>1, ObjectsOwned
  <2>5. \A k \in Jobs : "find" \in todo'[k] => obj'[k] = None
      BY <2>1, <2>2 DEF OwnInv, JobsOwn, RegistryInv, TypeOK
  <2>6. \A k \in Jobs : id[k] # None => job[k] # None /\ id[k] \in Jobs
      BY DEF OwnInv, JobsOwn, RegistryInv, TypeOK
  <2>7. \A k \in Jobs : id[k] # None => Mine(id[k], job[k].url)
      BY DEF OwnInv, JobsOwn
  <2>8. \A k \in Jobs : id'[k] # None => job'[k] # None /\ Mine(id[k], job[k].url)'
      BY <2>1, <2>2, <2>6, <2>7
  <2>9. JobsOwn'
      BY <2>2, <2>3, <2>4, <2>5, <2>8 DEF JobsOwn
  <2>10. \A u \in Urls : url_to_id'[u] # None => Mine(url_to_id[u], u)'
    <3>1. \A u \in Urls : url_to_id'[u] # None =>
              \/ url_to_id'[u] = url_to_id[u]
              \/ u = o.url /\ url_to_id'[u] = next
        BY <1>1, <2>1 DEF AddWorker, RegistryInv, TypeOK
    <3>2. \A u \in Urls : url_to_id[u] # None => url_to_id[u] \in Jobs /\ Mine(url_to_id[u], u)
        BY DEF OwnInv, MapsOwn, RegistryInv, TypeOK
    <3> QED BY <2>2, <3>1, <3>2 DEF Mine
  <2>11. MapsOwn'
      BY <2>2, <2>3, <2>4, <2>10 DEF MapsOwn
  <2> QED BY <2>9, <2>11 DEF OwnInv
<1>2. ASSUME NEW u \in Urls, NEW kind \in {"remove", "update"}, Start(kind, u, "find"),
             UNCHANGED <<registry, policies, obj>>
      PROVE  OwnInv'
  <2>1. /\ next \in Jobs /\ job[next] = None /\ obj[next] = None
        /\ \A k \in Jobs \ {next} : job'[k] = job[k] /\ todo'[k] = todo[k]
        /\ \A k \in Jobs : job[k] # None => job'[k] = job[k]
        /\ \A k \in Jobs : job'[k] # None <=> k < next'
        /\ \A k \in Jobs : Fits(k, todo[k])'
      BY <1>2, StartOwns DEF Kinds
  <2>2. UNCHANGED <<workers, url_to_id, model_index, hash_rings, obj, id>>
      BY <1>2 DEF registry, Start
  <2>3. \A k \in Jobs : "find" \in todo'[k] => obj'[k] = None
      BY <2>1, <2>2 DEF OwnInv, JobsOwn
  <2>4. JobsOwn'
      BY <2>1, <2>2, <2>3 DEF OwnInv, JobsOwn, Made, Mine, RegistryInv, TypeOK, Object
  <2>5. MapsOwn'
      BY <2>1, <2>2 DEF OwnInv, MapsOwn, Made, Mine, RegistryInv, TypeOK, Object
  <2> QED BY <2>4, <2>5 DEF OwnInv
<1> QED BY <1>1, <1>2 DEF Submit, RemoveWorker, UpdateWorker

LEMMA NextOwns == ASSUME RegistryInv, OwnInv, [Next]_vars PROVE OwnInv'
<1>1. CASE Submit
    BY <1>1, SubmitOwns
<1>2. ASSUME NEW j \in Jobs, Find(j) \/ Register(j) \/ Activate(j) \/ Remove(j) \/ Policies(j)
      PROVE  OwnInv'
    BY <1>2, FindOwns, LookupOwns, StoreOwns, MapUrlOwns, IndexOwns, RebuildOwns, UnmapOwns,
       TakeOwns, ForgetOwns, UnindexOwns, OthersOwn
    DEF Register, Remove
<1>3. CASE UNCHANGED vars
    BY <1>3 DEF vars, registry, policies, local, OwnInv, JobsOwn, MapsOwn, Fits, Made, Mine
<1> QED BY <1>1, <1>2, <1>3 DEF Next

\* A step that changes nothing of what belongs to the url, but that a ring may be rebuilt.
Untouched(u) ==
    /\ url_to_id'[u] = url_to_id[u]
    /\ \A i \in Jobs : Mine(i, u) =>
          /\ job'[i] = job[i] /\ todo'[i] = todo[i] /\ id'[i] = id[i] /\ obj'[i] = obj[i]
          /\ workers'[i] = workers[i]
          /\ i \in mesh' <=> i \in mesh
          /\ i \in healthy' <=> i \in healthy
          /\ \A t \in Types : i \in type_workers'[t] <=> i \in type_workers[t]
          /\ \A c \in Modes : i \in connection_workers'[c] <=> i \in connection_workers[c]
    /\ \A i \in Jobs : Mine(i, u)' => Mine(i, u)
    /\ \A m \in Models : \A o \in Object :
          o.url = u => (o \in model_index'[m] <=> o \in model_index[m])
    /\ \A m \in Models : \/ hash_rings'[m] = hash_rings[m]
                         \/ hash_rings'[m] = RingOf(model_index[m]) /\ UNCHANGED model_index

\* The steps of the jobs on other urls.
LEMMA OthersLeave ==
    ASSUME RegistryInv, OwnInv, NEW j \in Jobs, NEW u \in Urls, job[j] # None, job[j].url # u,
           Find(j) \/ Register(j) \/ Activate(j) \/ Remove(j) \/ Policies(j)
    PROVE  Untouched(u)
<1>1. ASSUME NEW i \in Jobs, Mine(i, u)
      PROVE  /\ i # j
             /\ id[j] # None => i # id[j]
             /\ obj[j] # None => i # obj[j].n
    BY <1>1 DEF OwnInv, JobsOwn, Made, Mine
<1>2. obj[j] # None => obj[j] \in Object /\ obj[j].url = job[j].url
    BY DEF OwnInv, JobsOwn, Mine, RegistryInv, TypeOK
<1>3. ASSUME NEW s \in Steps, At(j, s)
      PROVE  /\ s # "find" => obj[j] \in Object /\ obj[j] # None
             /\ s \in WithId => id[j] \in Jobs /\ id[j] # None
    BY <1>3 DEF RegistryInv, Equipped, TypeOK, At
<1>4. ASSUME NEW s \in Steps, NEW then, Goto(j, s, then), NEW i \in Jobs, Mine(i, u)
      PROVE  todo'[i] = todo[i]
    BY <1>1, <1>4 DEF Goto, RegistryInv, TypeOK
<1> DEFINE Pos(s) == s \in Steps /\ At(j, s) /\ \E then : Goto(j, s, then)
<1> USE DEF Steps
<1>5. CASE Find(j)
  <2>1. Pos("find")
      BY <1>5 DEF Find
  <2> QED BY <1>5, <2>1, <1>1, <1>2, <1>4
         DEF Find, Untouched, Mine, RegistryInv, TypeOK, registry, policies, local, Object
<1>6. CASE Lookup(j)
  <2>1. Pos("lookup")
      BY <1>6 DEF Lookup
  <2>2. obj[j] \in Object /\ obj[j] # None
      BY <2>1, <1>3
  <2> QED BY <1>6, <2>1, <2>2, <1>1, <1>2, <1>4
         DEF Lookup, Untouched, Mine, RegistryInv, TypeOK, registry, policies, local, Object
<1>7. CASE Store(j)
  <2>1. Pos("store")
      BY <1>7 DEF Store
  <2>2. obj[j] \in Object /\ obj[j] # None /\ id[j] \in Jobs /\ id[j] # None
      BY <2>1, <1>3 DEF WithId
  <2> QED BY <1>7, <2>1, <2>2, <1>1, <1>2, <1>4
         DEF Store, Untouched, Mine, RegistryInv, TypeOK, registry, policies, local, Object
<1>8. CASE MapUrl(j)
  <2>1. Pos("map")
      BY <1>8 DEF MapUrl
  <2>2. obj[j] \in Object /\ obj[j] # None /\ id[j] \in Jobs /\ id[j] # None
      BY <2>1, <1>3 DEF WithId
  <2> QED BY <1>8, <2>1, <2>2, <1>1, <1>2, <1>4
         DEF MapUrl, Untouched, Mine, RegistryInv, TypeOK, registry, policies, local, Object
<1>9. CASE Index(j)
  <2>1. Pos("index")
      BY <1>9 DEF Index
  <2>2. obj[j] \in Object /\ obj[j] # None /\ id[j] \in Jobs /\ id[j] # None
      BY <2>1, <1>3 DEF WithId
  <2> QED BY <1>9, <2>1, <2>2, <1>1, <1>2, <1>4
         DEF Index, Untouched, Mine, RegistryInv, TypeOK, registry, policies, local, Object
<1>10. CASE RebuildHashRing(j)
  <2>1. Pos("ring")
      BY <1>10 DEF RebuildHashRing
  <2>2. obj[j] \in Object /\ obj[j] # None /\ id[j] \in Jobs /\ id[j] # None
      BY <2>1, <1>3 DEF WithId
  <2> QED BY <1>10, <2>1, <2>2, <1>1, <1>2, <1>4
         DEF RebuildHashRing, Untouched, Mine, RegistryInv, TypeOK, registry, policies, local, Object, RingOf
<1>11. CASE PushType(j)
  <2>1. Pos("type")
      BY <1>11 DEF PushType
  <2>2. obj[j] \in Object /\ obj[j] # None /\ id[j] \in Jobs /\ id[j] # None
      BY <2>1, <1>3 DEF WithId
  <2> QED BY <1>11, <2>1, <2>2, <1>1, <1>2, <1>4
         DEF PushType, Untouched, Mine, RegistryInv, TypeOK, registry, policies, local, Object
<1>12. CASE PushMode(j)
  <2>1. Pos("mode")
      BY <1>12 DEF PushMode
  <2>2. obj[j] \in Object /\ obj[j] # None /\ id[j] \in Jobs /\ id[j] # None
      BY <2>1, <1>3 DEF WithId
  <2> QED BY <1>12, <2>1, <2>2, <1>1, <1>2, <1>4
         DEF PushMode, Untouched, Mine, RegistryInv, TypeOK, registry, policies, local, Object
<1>13. CASE Sync(j)
  <2>1. Pos("sync")
      BY <1>13 DEF Sync
  <2>2. obj[j] \in Object /\ obj[j] # None /\ id[j] \in Jobs /\ id[j] # None
      BY <2>1, <1>3 DEF WithId
  <2> QED BY <1>13, <2>1, <2>2, <1>1, <1>2, <1>4
         DEF Sync, Untouched, Mine, RegistryInv, TypeOK, registry, policies, local, Object
<1>14. CASE Activate(j)
  <2>1. Pos("activate")
      BY <1>14 DEF Activate
  <2>2. obj[j] \in Object /\ obj[j] # None
      BY <2>1, <1>3
  <2> QED BY <1>14, <2>1, <2>2, <1>1, <1>2, <1>4
         DEF Activate, Untouched, Mine, RegistryInv, TypeOK, registry, policies, local, Object
<1>15. CASE Count(j)
  <2>1. Pos("count")
      BY <1>15 DEF Count
  <2>2. obj[j] \in Object /\ obj[j] # None
      BY <2>1, <1>3
  <2> QED BY <1>15, <2>1, <2>2, <1>1, <1>2, <1>4
         DEF Count, Untouched, Mine, RegistryInv, TypeOK, registry, policies, local, Object
<1>16. CASE AssignPolicy(j)
  <2>1. Pos("policy")
      BY <1>16 DEF AssignPolicy
  <2>2. obj[j] \in Object /\ obj[j] # None
      BY <2>1, <1>3
  <2> QED BY <1>16, <2>1, <2>2, <1>1, <1>2, <1>4
         DEF AssignPolicy, Untouched, Mine, RegistryInv, TypeOK, registry, policies, local, Object
<1>17. CASE Uncount(j)
  <2>1. Pos("uncount")
      BY <1>17 DEF Uncount
  <2>2. obj[j] \in Object /\ obj[j] # None
      BY <2>1, <1>3
  <2> QED BY <1>17, <2>1, <2>2, <1>1, <1>2, <1>4
         DEF Uncount, Untouched, Mine, RegistryInv, TypeOK, registry, policies, local, Object
<1>18. CASE DropCount(j)
  <2>1. Pos("dropcount")
      BY <1>18 DEF DropCount
  <2>2. obj[j] \in Object /\ obj[j] # None
      BY <2>1, <1>3
  <2> QED BY <1>18, <2>1, <2>2, <1>1, <1>2, <1>4
         DEF DropCount, Untouched, Mine, RegistryInv, TypeOK, registry, policies, local, Object
<1>19. CASE DropPolicy(j)
  <2>1. Pos("droppolicy")
      BY <1>19 DEF DropPolicy
  <2>2. obj[j] \in Object /\ obj[j] # None
      BY <2>1, <1>3
  <2> QED BY <1>19, <2>1, <2>2, <1>1, <1>2, <1>4
         DEF DropPolicy, Untouched, Mine, RegistryInv, TypeOK, registry, policies, local, Object
<1>20. CASE Forget(j)
  <2>1. Pos("forget")
      BY <1>20 DEF Forget
  <2>2. obj[j] \in Object /\ obj[j] # None /\ id[j] \in Jobs /\ id[j] # None
      BY <2>1, <1>3 DEF WithId
  <2> QED BY <1>20, <2>1, <2>2, <1>1, <1>2, <1>4
         DEF Forget, Untouched, Mine, RegistryInv, TypeOK, registry, policies, local, Object
<1>21. CASE Unindex(j)
  <2>1. Pos("unindex")
      BY <1>21 DEF Unindex
  <2>2. obj[j] \in Object /\ obj[j] # None /\ id[j] \in Jobs /\ id[j] # None
      BY <2>1, <1>3 DEF WithId
  <2> QED BY <1>21, <2>1, <2>2, <1>1, <1>2, <1>4
         DEF Unindex, Untouched, Mine, RegistryInv, TypeOK, registry, policies, local, Object
<1>22. CASE DropType(j)
  <2>1. Pos("untype")
      BY <1>22 DEF DropType
  <2>2. obj[j] \in Object /\ obj[j] # None /\ id[j] \in Jobs /\ id[j] # None
      BY <2>1, <1>3 DEF WithId
  <2> QED BY <1>22, <2>1, <2>2, <1>1, <1>2, <1>4
         DEF DropType, Untouched, Mine, RegistryInv, TypeOK, registry, policies, local, Object
<1>23. CASE DropMode(j)
  <2>1. Pos("unmode")
      BY <1>23 DEF DropMode
  <2>2. obj[j] \in Object /\ obj[j] # None /\ id[j] \in Jobs /\ id[j] # None
      BY <2>1, <1>3 DEF WithId
  <2> QED BY <1>23, <2>1, <2>2, <1>1, <1>2, <1>4
         DEF DropMode, Untouched, Mine, RegistryInv, TypeOK, registry, policies, local, Object
<1>24. CASE Retire(j)
  <2>1. Pos("retire")
      BY <1>24 DEF Retire
  <2>2. obj[j] \in Object /\ obj[j] # None /\ id[j] \in Jobs /\ id[j] # None
      BY <2>1, <1>3 DEF WithId
  <2> QED BY <1>24, <2>1, <2>2, <1>1, <1>2, <1>4
         DEF Retire, Untouched, Mine, RegistryInv, TypeOK, registry, policies, local, Object
<1>25. CASE Unsync(j)
  <2>1. Pos("unsync")
      BY <1>25 DEF Unsync
  <2>2. obj[j] \in Object /\ obj[j] # None /\ id[j] \in Jobs /\ id[j] # None
      BY <2>1, <1>3 DEF WithId
  <2> QED BY <1>25, <2>1, <2>2, <1>1, <1>2, <1>4
         DEF Unsync, Untouched, Mine, RegistryInv, TypeOK, registry, policies, local, Object
<1>26. CASE Unmap(j)
  <2>1. Pos("unmap")
      BY <1>26 DEF Unmap
  <2>2. obj[j] \in Object /\ obj[j] # None
      BY <2>1, <1>3
  <2> QED BY <1>26, <2>1, <2>2, <1>1, <1>2, <1>4
         DEF Unmap, Untouched, Mine, RegistryInv, TypeOK, registry, policies, local, Object
<1>27. CASE Take(j)
  <2>1. Pos("take")
      BY <1>27 DEF Take
  <2>2. obj[j] \in Object /\ obj[j] # None /\ id[j] \in Jobs /\ id[j] # None
      BY <2>1, <1>3 DEF WithId
  <2> QED BY <1>27, <2>1, <2>2, <1>1, <1>2, <1>4
         DEF Take, Untouched, Mine, RegistryInv, TypeOK, registry, policies, local, Object
<1> QED BY <1>5, <1>6, <1>7, <1>8, <1>9, <1>10, <1>11, <1>12, <1>13, <1>14, <1>15, <1>16, <1>17, <1>18, <1>19, <1>20, <1>21, <1>22, <1>23, <1>24, <1>25, <1>26, <1>27 DEF Register, Remove, Policies

\* What is known of a url survives such a step.
LEMMA UntouchedKeeps ==
    ASSUME RegistryInv, OwnInv, OwnInv', RegistryInv', NEW u \in Urls, UrlInv(u), Untouched(u)
    PROVE  UrlInv(u)'
<1>1. /\ \A i \in Jobs : Mine(i, u)' <=> Mine(i, u)
      /\ \A i \in Jobs : Mine(i, u) =>
            job'[i] = job[i] /\ todo'[i] = todo[i] /\ id'[i] = id[i] /\ obj'[i] = obj[i]
      /\ url_to_id'[u] = url_to_id[u]
    BY DEF Untouched, Mine
<1>2. ASSUME NEW i \in Jobs, Mine(i, u) PROVE Active(i)' <=> Active(i)
    BY <1>1, <1>2 DEF Active
<1>3. Busy(u)' <=> Busy(u)
  <2>1. \A i \in Jobs : Active(i) => job[i] # None
      BY DEF RegistryInv, Equipped, Active
  <2>2. \A i \in Jobs : Active(i)' => job'[i] # None
      BY DEF RegistryInv, Equipped, Active
  <2> QED BY <1>1, <1>2, <2>1, <2>2 DEF Busy, Mine
<1>4. ASSUME NEW i, Only(u, i) PROVE Only(u, i)'
  <2>1. ASSUME NEW k \in Jobs, workers'[k] # None, workers'[k].url = u PROVE k = i
    <3>1. Mine(k, u)'
        BY <2>1 DEF OwnInv, JobsOwn
    <3>2. workers'[k] = workers[k]
        BY <1>1, <3>1 DEF Untouched
    <3> QED BY <1>4, <2>1, <3>2 DEF Only
  <2> QED BY <2>1 DEF Only
<1>5. OneModel(u)' => OneModel(u)
  <2>1. ASSUME NEW k \in Jobs, obj[k] # None, obj[k].url = u PROVE obj'[k] = obj[k]
      BY <2>1, <1>1 DEF OwnInv, JobsOwn
  <2> QED BY <2>1 DEF OneModel
<1>6. ASSUME NEW m \in Models PROVE u \in RingOf(model_index[m])' <=> u \in RingOf(model_index[m])
    BY DEF Untouched, RingOf, RegistryInv, TypeOK
<1>7. Unlisted(u) => Unlisted(u)'
    BY <1>5, <1>6 DEF Unlisted
<1>8. Unlisted(u) /\ Unringed(u) => Unringed(u)'
    BY <1>5 DEF Unlisted, Unringed, Untouched
<1>9. ASSUME NEW m \in Models, NEW o \in model_index[m], o.url = u
      PROVE  o \in model_index'[m] /\ (u \in hash_rings[m] => u \in hash_rings'[m])
  <2>1. o \in Object
      BY DEF RegistryInv, TypeOK
  <2>2. o \in model_index'[m]
      BY <1>9, <2>1 DEF Untouched
  <2>3. u \in RingOf(model_index[m])
      BY <1>9 DEF RingOf
  <2> QED BY <2>2, <2>3 DEF Untouched
<1>10. ASSUME NEW o \in Object, Made(o), o.url = u
       PROVE  o.n \in Jobs /\ (o.n \in healthy => o.n \in healthy')
    BY <1>10 DEF Made, Object, Untouched
<1>11. Gone(u) => Gone(u)'
    BY <1>1, <1>4, <1>7, <1>8 DEF Gone
<1>12. Served(u) => Served(u)'
  <2>1. SUFFICES ASSUME Served(u) PROVE Served(u)'
      OBVIOUS
  <2>2. PICK i \in Jobs, w \in Object : i = url_to_id[u] /\ w = workers[i]
      BY <2>1 DEF Served, RegistryInv, TypeOK
  <2>3. /\ i # None /\ w # None /\ Only(u, i) /\ Mine(i, u) /\ w.url = u /\ Made(w)
        /\ w.n \in healthy /\ w \in model_index[w.model] /\ u \in hash_rings[w.model]
        /\ i \in type_workers[w.type] /\ i \in connection_workers[w.mode] /\ i \in mesh
      BY <2>1, <2>2 DEF Served, OwnInv, JobsOwn, MapsOwn, Mine
  <2>4. /\ w.model \in Models /\ w.type \in Types /\ w.mode \in Modes
        /\ url_to_id'[u] = i /\ workers'[i] = w /\ Only(u, i)'
      BY <1>1, <1>4, <2>2, <2>3 DEF Object, Untouched
  <2>5. w.n \in healthy' /\ w \in model_index'[w.model] /\ u \in hash_rings'[w.model]
      BY <1>9, <1>10, <2>3, <2>4
  <2>6. i \in type_workers'[w.type] /\ i \in connection_workers'[w.mode] /\ i \in mesh'
      BY <2>3, <2>4 DEF Untouched
  <2> QED BY <2>3, <2>4, <2>5, <2>6 DEF Served
<1>13. Stable(u) => Stable(u)'
    BY <1>11, <1>12 DEF Stable
<1>14. ASSUME NEW j \in Jobs, Mine(j, u)
       PROVE  \A steps : In(j, steps)' <=> In(j, steps)
    BY <1>1, <1>14 DEF In
<1>15. ASSUME NEW j \in Jobs, Mine(j, u), Active(j), Registering(j), job[j].kind # "remove", ~At(j, "find")
       PROVE  Registering(j)'
  <2>1. /\ job'[j] = job[j] /\ todo'[j] = todo[j] /\ id'[j] = id[j] /\ obj'[j] = obj[j]
        /\ job[j].url = u
      BY <1>1, <1>15 DEF Mine
  <2>2. PICK o \in Object : o = obj[j] /\ o # None
      BY <1>15 DEF RegistryInv, Equipped, TypeOK, At, Active
  <2>3. /\ o.url = u /\ Made(o)
        /\ o.model \in Models /\ o.type \in Types /\ o.mode \in Modes
      BY <2>1, <2>2 DEF OwnInv, JobsOwn, Mine, Object
  <2>4. id[j] # None => id[j] \in Jobs /\ Mine(id[j], u)
      BY <2>1 DEF OwnInv, JobsOwn, RegistryInv, TypeOK
  <2>5. In(j, AfterStore) => workers'[id[j]] = workers[id[j]]
      BY <1>15, <2>4 DEF Registering, Untouched
  <2>6. In(j, AfterType) => In(j, AfterStore)
      BY DEF In, AfterStore, AfterMap, AfterIndex, RingDone, AfterType
  <2>7. /\ In(j, RingDone) => In(j, AfterIndex)
        /\ In(j, AfterMode) => In(j, AfterType)
        /\ In(j, AfterSync) => In(j, AfterMode)
      BY DEF In, AfterIndex, RingDone, AfterType, AfterMode
  <2>8. /\ At(j, "lookup") => Only(u, url_to_id[u])'
        /\ At(j, "store") => Only(u, id[j])'
        /\ In(j, AfterStore) => id'[j] # None /\ workers'[id'[j]] = o /\ Only(u, id[j])'
        /\ In(j, AfterMap) => url_to_id'[u] = id'[j]
      BY <1>1, <1>4, <1>15, <2>1, <2>2, <2>5 DEF Registering
  <2>9. /\ In(j, AfterIndex) => o \in model_index'[o.model]
        /\ In(j, RingDone) => u \in hash_rings'[o.model]
      BY <1>9, <1>15, <2>1, <2>2, <2>3, <2>7 DEF Registering
  <2>10. /\ In(j, AfterType) => id[j] \in type_workers'[o.type]
         /\ In(j, AfterMode) => id[j] \in connection_workers'[o.mode]
         /\ In(j, AfterSync) => id[j] \in mesh'
      BY <1>15, <2>1, <2>2, <2>3, <2>4, <2>6, <2>7 DEF Registering, Untouched
  <2>11. job[j].kind = "update" \/ (In(j, AfterSync) /\ ~At(j, "activate")) => o.n \in healthy'
      BY <1>10, <1>15, <2>2, <2>3 DEF Registering
  <2> QED BY <1>14, <1>15, <2>1, <2>2, <2>8, <2>9, <2>10, <2>11 DEF Registering, At
<1>16. ASSUME NEW j \in Jobs, Mine(j, u), Active(j), Removing(j), job[j].kind = "remove", ~At(j, "find")
       PROVE  Removing(j)'
  <2>1. /\ job'[j] = job[j] /\ todo'[j] = todo[j] /\ id'[j] = id[j] /\ obj'[j] = obj[j]
        /\ job[j].url = u
      BY <1>1, <1>16 DEF Mine
  <2>2. id[j] # None => id[j] \in Jobs /\ Mine(id[j], u)
      BY <2>1 DEF OwnInv, JobsOwn, RegistryInv, TypeOK
  <2>3. url_to_id[u] # None => url_to_id[u] \in Jobs /\ Mine(url_to_id[u], u)
      BY DEF OwnInv, MapsOwn, RegistryInv, TypeOK
  <2>4. At(j, "take") => id[j] # None
      BY DEF RegistryInv, Equipped, At, WithId
  <2>5. In(j, BeforeUnmap) =>
            url_to_id'[u] # None /\ workers'[url_to_id'[u]] = obj'[j] /\ Only(u, url_to_id[u])'
      BY <1>1, <1>4, <1>16, <2>1, <2>3 DEF Removing, Untouched
  <2>6. At(j, "take") => url_to_id'[u] = None /\ workers'[id'[j]] = obj'[j] /\ Only(u, id[j])'
      BY <1>1, <1>4, <1>16, <2>1, <2>2, <2>4 DEF Removing, Untouched
  <2>7. In(j, AfterRebuild) => In(j, AfterUnindex)
      BY DEF In, AfterUnindex
  <2>8. /\ In(j, AfterTake) => url_to_id'[u] = None /\ Only(u, None)'
        /\ In(j, AfterUnindex) => Unlisted(u)'
        /\ In(j, AfterRebuild) => Unringed(u)'
      BY <1>1, <1>4, <1>7, <1>8, <1>16, <2>1, <2>7 DEF Removing
  <2> QED BY <1>14, <1>16, <2>1, <2>5, <2>6, <2>8 DEF Removing, At
<1>17. ASSUME NEW j \in Jobs, Mine(j, u)', Active(j)' PROVE Underway(j)'
    BY <1>1, <1>2, <1>13, <1>15, <1>16, <1>17 DEF UrlInv, Underway, At, Mine
<1> QED BY <1>1, <1>2, <1>3, <1>13, <1>17 DEF UrlInv

\* A step of the only job that runs on the url.
LEMMA OwnStepKeeps ==
    ASSUME RegistryInv, NEW j \in Jobs, NEW u \in Urls, Mine(j, u), Active(j), UrlInv(u),
           UNCHANGED job, \A k \in Jobs \ {j} : todo'[k] = todo[k],
           Active(j)' => Underway(j)', ~Active(j)' => Stable(u)'
    PROVE  UrlInv(u)'
<1>1. ASSUME NEW k \in Jobs, k # j, Mine(k, u) PROVE ~Active(k) /\ ~Active(k)'
    BY <1>1 DEF UrlInv, Active
<1>2. \A k \in Jobs : Mine(k, u)' <=> Mine(k, u)
    BY DEF Mine
<1>3. Active(j)' => Busy(u)'
    BY DEF Busy, Mine
<1> QED BY <1>1, <1>2, <1>3 DEF UrlInv

\* What a step of a registration or an update starts from.
LEMMA RegisterFacts ==
    ASSUME RegistryInv, OwnInv, NEW j \in Jobs, NEW u \in Urls, Mine(j, u), UrlInv(u),
           NEW s \in RegisterSteps \cup {"ring"}, At(j, s), job[j].kind # "remove"
    PROVE  /\ Active(j) /\ Registering(j) /\ job[j].url = u
           /\ obj[j] \in Object /\ obj[j] # None /\ obj[j].url = u /\ obj[j].n = j
           /\ s \notin Parallel => todo[j] = {s}
           /\ s \in Parallel => todo[j] \subseteq Parallel
           /\ s \in WithId => id[j] \in Jobs /\ id[j] # None
<1>1. Active(j) /\ s \in Steps /\ s # "find"
    BY DEF Active, At, Steps, RegisterSteps
<1>2. /\ obj[j] \in Object /\ obj[j] # None
      /\ s \in WithId => id[j] \in Jobs /\ id[j] # None
      /\ s \notin Parallel => todo[j] = {s}
      /\ s \in Parallel => todo[j] \subseteq Parallel
    BY <1>1 DEF RegistryInv, Equipped, TypeOK, Serial, At
<1>3. ~At(j, "find")
    BY <1>1, <1>2 DEF At, Parallel
<1>4. Registering(j)
    BY <1>1, <1>3 DEF UrlInv, Underway
<1>5. obj[j].url = u /\ obj[j].n = j /\ job[j].url = u
    BY <1>2 DEF OwnInv, JobsOwn, Mine
<1> QED BY <1>1, <1>2, <1>4, <1>5

\* A job whose only next step is t.
LEMMA NoneIsNoJob == None \notin Jobs
    BY RegistryAssumption DEF Jobs

LEMMA AtOne ==
    ASSUME NEW j \in Jobs, NEW t, todo'[j] = {t}
    PROVE  /\ Active(j)'
           /\ \A s : At(j, s)' <=> t = s
           /\ \A steps : In(j, steps)' <=> t \in steps
    BY DEF Active, At, In

LEMMA LookupMoves ==
    ASSUME RegistryInv, OwnInv, NEW j \in Jobs, NEW u \in Urls, Mine(j, u), UrlInv(u), Lookup(j)
    PROVE  UrlInv(u)'
<1>1. /\ At(j, "lookup") /\ Goto(j, "lookup", {"store"}) /\ UNCHANGED job
      /\ "lookup" \in Steps /\ {"store"} \in SUBSET Steps
    BY DEF Lookup, local, Steps
<1>2. todo'[j] = {"store"} /\ \A k \in Jobs \ {j} : todo'[k] = todo[k]
    BY <1>1, StepFacts DEF Parallel
<1>3. job[j].kind # "remove"
    BY <1>1 DEF OwnInv, JobsOwn, Fits, At, RegisterSteps
<1>4. /\ Active(j) /\ Registering(j) /\ job[j].url = u
      /\ obj[j] \in Object /\ obj[j] # None /\ obj[j].url = u /\ todo[j] = {"lookup"}
      /\ "lookup" \in WithId => id[j] \in Jobs /\ id[j] # None
    BY <1>1, <1>3, RegisterFacts DEF RegisterSteps, Parallel
<1>5. Active(j)' /\ \A st : At(j, st)' <=> "store" = st
    BY <1>2, AtOne
<1>6. \A steps : In(j, steps)' <=> "store" \in steps
    BY <1>2, AtOne
<1>7. \A steps : In(j, steps) <=> "lookup" \in steps
    BY <1>4 DEF In
<1>8. Registering(j)'
  <2>1. /\ UNCHANGED <<job, obj, workers, healthy>>
        /\ id'[j] = IF url_to_id[u] = None THEN j ELSE url_to_id[u]
    BY <1>4 DEF Lookup, RegistryInv, TypeOK, registry, local
  <2>2. Only(u, url_to_id[u]) /\ (job[j].kind = "update" => obj[j].n \in healthy)
    BY <1>1, <1>4 DEF Registering
  <2>3. \A k \in Jobs : workers'[k] # None /\ workers'[k].url = u => k = id'[j]
    BY <2>1, <2>2, NoneIsNoJob DEF Only
  <2>4. /\ ~In(j, AfterStore)' /\ ~In(j, AfterMap)' /\ ~In(j, AfterIndex)' /\ ~In(j, RingDone)'
        /\ ~In(j, AfterType)' /\ ~In(j, AfterMode)' /\ ~In(j, AfterSync)' /\ ~At(j, "lookup")'
    BY <1>5, <1>6 DEF AfterStore, AfterMap, AfterIndex, RingDone, AfterType, AfterMode, AfterSync
  <2>5. job'[j].url = u
    BY <1>4, <2>1
  <2> QED BY <2>1, <2>2, <2>3, <2>4, <2>5 DEF Registering, Only
<1> QED BY <1>1, <1>2, <1>3, <1>4, <1>5, <1>8, OwnStepKeeps DEF Underway

LEMMA StoreMoves ==
    ASSUME RegistryInv, OwnInv, NEW j \in Jobs, NEW u \in Urls, Mine(j, u), UrlInv(u), Store(j)
    PROVE  UrlInv(u)'
<1>1. /\ At(j, "store") /\ Goto(j, "store", {"map"}) /\ UNCHANGED job
      /\ "store" \in Steps /\ {"map"} \in SUBSET Steps
    BY DEF Store, local, Steps
<1>2. todo'[j] = {"map"} /\ \A k \in Jobs \ {j} : todo'[k] = todo[k]
    BY <1>1, StepFacts DEF Parallel
<1>3. job[j].kind # "remove"
    BY <1>1 DEF OwnInv, JobsOwn, Fits, At, RegisterSteps
<1>4. /\ Active(j) /\ Registering(j) /\ job[j].url = u
      /\ obj[j] \in Object /\ obj[j] # None /\ obj[j].url = u /\ todo[j] = {"store"}
      /\ "store" \in WithId => id[j] \in Jobs /\ id[j] # None
    BY <1>1, <1>3, RegisterFacts DEF RegisterSteps, Parallel
<1>5. Active(j)' /\ \A st : At(j, st)' <=> "map" = st
    BY <1>2, AtOne
<1>6. \A steps : In(j, steps)' <=> "map" \in steps
    BY <1>2, AtOne
<1>7. \A steps : In(j, steps) <=> "store" \in steps
    BY <1>4 DEF In
<1>8. Registering(j)'
    BY <1>1, <1>4, <1>5, <1>6, <1>7
    DEF Store, Registering, Only, AfterStore, AfterMap, AfterIndex, RingDone, AfterType, AfterMode, AfterSync, WithId, RegistryInv, TypeOK, registry, local, Object
<1> QED BY <1>1, <1>2, <1>3, <1>4, <1>5, <1>8, OwnStepKeeps DEF Underway

LEMMA MapUrlMoves ==
    ASSUME RegistryInv, OwnInv, NEW j \in Jobs, NEW u \in Urls, Mine(j, u), UrlInv(u), MapUrl(j)
    PROVE  UrlInv(u)'
<1>1. /\ At(j, "map") /\ Goto(j, "map", {"index"}) /\ UNCHANGED job
      /\ "map" \in Steps /\ {"index"} \in SUBSET Steps
    BY DEF MapUrl, local, Steps
<1>2. todo'[j] = {"index"} /\ \A k \in Jobs \ {j} : todo'[k] = todo[k]
    BY <1>1, StepFacts DEF Parallel
<1>3. job[j].kind # "remove"
    BY <1>1 DEF OwnInv, JobsOwn, Fits, At, RegisterSteps
<1>4. /\ Active(j) /\ Registering(j) /\ job[j].url = u
      /\ obj[j] \in Object /\ obj[j] # None /\ obj[j].url = u /\ todo[j] = {"map"}
      /\ "map" \in WithId => id[j] \in Jobs /\ id[j] # None
    BY <1>1, <1>3, RegisterFacts DEF RegisterSteps, Parallel
<1>5. Active(j)' /\ \A st : At(j, st)' <=> "index" = st
    BY <1>2, AtOne
<1>6. \A steps : In(j, steps)' <=> "index" \in steps
    BY <1>2, AtOne
<1>7. \A steps : In(j, steps) <=> "map" \in steps
    BY <1>4 DEF In
<1>8. Registering(j)'
    BY <1>1, <1>4, <1>5, <1>6, <1>7
    DEF MapUrl, Registering, Only, AfterStore, AfterMap, AfterIndex, RingDone, AfterType, AfterMode, AfterSync, WithId, RegistryInv, TypeOK, registry, local, Object
<1> QED BY <1>1, <1>2, <1>3, <1>4, <1>5, <1>8, OwnStepKeeps DEF Underway

LEMMA IndexMoves ==
    ASSUME RegistryInv, OwnInv, NEW j \in Jobs, NEW u \in Urls, Mine(j, u), UrlInv(u), Index(j)
    PROVE  UrlInv(u)'
<1>1. /\ At(j, "index") /\ Goto(j, "index", {"ring"}) /\ UNCHANGED job
      /\ "index" \in Steps /\ {"ring"} \in SUBSET Steps
    BY DEF Index, local, Steps
<1>2. todo'[j] = {"ring"} /\ \A k \in Jobs \ {j} : todo'[k] = todo[k]
    BY <1>1, StepFacts DEF Parallel
<1>3. job[j].kind # "remove"
    BY <1>1 DEF OwnInv, JobsOwn, Fits, At, RegisterSteps
<1>4. /\ Active(j) /\ Registering(j) /\ job[j].url = u
      /\ obj[j] \in Object /\ obj[j] # None /\ obj[j].url = u /\ todo[j] = {"index"}
      /\ "index" \in WithId => id[j] \in Jobs /\ id[j] # None
    BY <1>1, <1>3, RegisterFacts DEF RegisterSteps, Parallel
<1>5. Active(j)' /\ \A st : At(j, st)' <=> "ring" = st
    BY <1>2, AtOne
<1>6. \A steps : In(j, steps)' <=> "ring" \in steps
    BY <1>2, AtOne
<1>7. \A steps : In(j, steps) <=> "index" \in steps
    BY <1>4 DEF In
<1>8. Registering(j)'
    BY <1>1, <1>4, <1>5, <1>6, <1>7
    DEF Index, Registering, Only, AfterStore, AfterMap, AfterIndex, RingDone, AfterType, AfterMode, AfterSync, WithId, RegistryInv, TypeOK, registry, local, Object
<1> QED BY <1>1, <1>2, <1>3, <1>4, <1>5, <1>8, OwnStepKeeps DEF Underway

LEMMA PushTypeMoves ==
    ASSUME RegistryInv, OwnInv, NEW j \in Jobs, NEW u \in Urls, Mine(j, u), UrlInv(u), PushType(j)
    PROVE  UrlInv(u)'
<1>1. /\ At(j, "type") /\ Goto(j, "type", {"mode"}) /\ UNCHANGED job
      /\ "type" \in Steps /\ {"mode"} \in SUBSET Steps
    BY DEF PushType, local, Steps
<1>2. todo'[j] = {"mode"} /\ \A k \in Jobs \ {j} : todo'[k] = todo[k]
    BY <1>1, StepFacts DEF Parallel
<1>3. job[j].kind # "remove"
    BY <1>1 DEF OwnInv, JobsOwn, Fits, At, RegisterSteps
<1>4. /\ Active(j) /\ Registering(j) /\ job[j].url = u
      /\ obj[j] \in Object /\ obj[j] # None /\ obj[j].url = u /\ todo[j] = {"type"}
      /\ "type" \in WithId => id[j] \in Jobs /\ id[j] # None
    BY <1>1, <1>3, RegisterFacts DEF RegisterSteps, Parallel
<1>5. Active(j)' /\ \A st : At(j, st)' <=> "mode" = st
    BY <1>2, AtOne
<1>6. \A steps : In(j, steps)' <=> "mode" \in steps
    BY <1>2, AtOne
<1>7. \A steps : In(j, steps) <=> "type" \in steps
    BY <1>4 DEF In
<1>8. Registering(j)'
    BY <1>1, <1>4, <1>5, <1>6, <1>7
    DEF PushType, Registering, Only, AfterStore, AfterMap, AfterIndex, RingDone, AfterType, AfterMode, AfterSync, WithId, RegistryInv, TypeOK, registry, local, Object
<1> QED BY <1>1, <1>2, <1>3, <1>4, <1>5, <1>8, OwnStepKeeps DEF Underway

LEMMA PushModeMoves ==
    ASSUME RegistryInv, OwnInv, NEW j \in Jobs, NEW u \in Urls, Mine(j, u), UrlInv(u), PushMode(j)
    PROVE  UrlInv(u)'
<1>1. /\ At(j, "mode") /\ Goto(j, "mode", {"sync"}) /\ UNCHANGED job
      /\ "mode" \in Steps /\ {"sync"} \in SUBSET Steps
    BY DEF PushMode, local, Steps
<1>2. todo'[j] = {"sync"} /\ \A k \in Jobs \ {j} : todo'[k] = todo[k]
    BY <1>1, StepFacts DEF Parallel
<1>3. job[j].kind # "remove"
    BY <1>1 DEF OwnInv, JobsOwn, Fits, At, RegisterSteps
<1>4. /\ Active(j) /\ Registering(j) /\ job[j].url = u
      /\ obj[j] \in Object /\ obj[j] # None /\ obj[j].url = u /\ todo[j] = {"mode"}
      /\ "mode" \in WithId => id[j] \in Jobs /\ id[j] # None
    BY <1>1, <1>3, RegisterFacts DEF RegisterSteps, Parallel
<1>5. Active(j)' /\ \A st : At(j, st)' <=> "sync" = st
    BY <1>2, AtOne
<1>6. \A steps : In(j, steps)' <=> "sync" \in steps
    BY <1>2, AtOne
<1>7. \A steps : In(j, steps) <=> "mode" \in steps
    BY <1>4 DEF In
<1>8. Registering(j)'
    BY <1>1, <1>4, <1>5, <1>6, <1>7
    DEF PushMode, Registering, Only, AfterStore, AfterMap, AfterIndex, RingDone, AfterType, AfterMode, AfterSync, WithId, RegistryInv, TypeOK, registry, local, Object
<1> QED BY <1>1, <1>2, <1>3, <1>4, <1>5, <1>8, OwnStepKeeps DEF Underway

LEMMA RebuildRegisters ==
    ASSUME RegistryInv, OwnInv, NEW j \in Jobs, NEW u \in Urls, Mine(j, u), UrlInv(u),
           RebuildHashRing(j), job[j].kind # "remove"
    PROVE  UrlInv(u)'
<1>1. /\ At(j, "ring") /\ Goto(j, "ring", {"type"}) /\ UNCHANGED job
      /\ "ring" \in Steps /\ {"type"} \in SUBSET Steps
    BY DEF RebuildHashRing, AfterRing, local, Steps
<1>2. todo'[j] = {"type"} /\ \A k \in Jobs \ {j} : todo'[k] = todo[k]
    BY <1>1, StepFacts DEF Parallel
<1>3. /\ Active(j) /\ Registering(j) /\ job[j].url = u
      /\ obj[j] \in Object /\ obj[j].url = u
      /\ id[j] \in Jobs /\ id[j] # None
    BY <1>1, RegisterFacts DEF RegisterSteps, Parallel, WithId
<1>4. Active(j)' /\ \A st : At(j, st)' <=> "type" = st
    BY <1>2, AtOne
<1>5. \A steps : In(j, steps)' <=> "type" \in steps
    BY <1>2, AtOne
<1>6. \A steps : "ring" \in steps => In(j, steps)
    BY <1>1 DEF In, At
<1>7. u \in hash_rings'[obj[j].model]
  <2>1. hash_rings'[obj[j].model] = RingOf(model_index[obj[j].model])
      BY <1>3 DEF RebuildHashRing, RegistryInv, TypeOK, Object
  <2>2. obj[j] \in model_index[obj[j].model]
      BY <1>3, <1>6 DEF Registering, AfterIndex
  <2> QED BY <1>3, <2>1, <2>2 DEF RingOf
<1>8. Registering(j)'
    BY <1>3, <1>4, <1>5, <1>6, <1>7
    DEF RebuildHashRing, Registering, Only, AfterStore, AfterMap, AfterIndex, RingDone,
        AfterType, AfterMode, AfterSync, local
<1> QED BY <1>1, <1>2, <1>3, <1>4, <1>8, OwnStepKeeps DEF Underway

LEMMA SyncMoves ==
    ASSUME RegistryInv, OwnInv, NEW j \in Jobs, NEW u \in Urls, Mine(j, u), UrlInv(u), Sync(j)
    PROVE  UrlInv(u)'
<1> DEFINE then == IF job[j].kind = "add" THEN {"count", "activate"} ELSE {"count"}
<1>1. /\ At(j, "sync") /\ Goto(j, "sync", then) /\ UNCHANGED job
      /\ "sync" \in Steps /\ then \in SUBSET Steps
    BY DEF Sync, local, Steps
<1>2. job[j].kind # "remove" /\ job[j].kind \in Kinds
  <2>1. job[j] \in Request
      BY <1>1, StepFacts
  <2> QED BY <1>1, <2>1 DEF OwnInv, JobsOwn, Fits, At, RegisterSteps, Request
<1>3. then \subseteq AfterSync /\ "count" \in then /\ (job[j].kind = "add" => "activate" \in then)
    BY DEF AfterSync
<1> HIDE DEF then
<1>4. todo'[j] = then /\ \A k \in Jobs \ {j} : todo'[k] = todo[k]
    BY <1>1, StepFacts DEF Parallel
<1>5. /\ Active(j) /\ Registering(j) /\ job[j].url = u
      /\ id[j] \in Jobs /\ id[j] # None
    BY <1>1, <1>2, RegisterFacts DEF RegisterSteps, Parallel, WithId
<1>6. /\ Active(j)' /\ ~At(j, "find")' /\ ~At(j, "lookup")' /\ ~At(j, "store")'
      /\ job[j].kind = "add" => At(j, "activate")'
    BY <1>3, <1>4 DEF Active, At, AfterSync
<1>7. \A steps : "sync" \in steps => In(j, steps)
    BY <1>1 DEF In, At
<1>8. job[j].kind # "update" => job[j].kind = "add"
    BY <1>2 DEF Kinds
<1>9. Registering(j)'
    BY <1>5, <1>6, <1>7, <1>8
    DEF Sync, Registering, Only, AfterStore, AfterMap, AfterIndex, RingDone,
        AfterType, AfterMode, AfterSync, local
<1> QED BY <1>1, <1>2, <1>4, <1>5, <1>6, <1>9, OwnStepKeeps DEF Underway

\* A registration whose worker stands in every map; it only has policies to update and
\* the worker to activate.
LEMMA ParallelMoves ==
    ASSUME RegistryInv, OwnInv, NEW j \in Jobs, NEW u \in Urls, Mine(j, u), UrlInv(u),
           Activate(j) \/ Count(j) \/ AssignPolicy(j)
    PROVE  UrlInv(u)'
<1> DEFINE o == obj[j]
           i == id[j]
<1>1. PICK s \in {"activate", "count", "policy"}, then \in {{}, {"policy"}} :
         /\ At(j, s) /\ Goto(j, s, then) /\ UNCHANGED <<job, workers, url_to_id, model_index, hash_rings,
              type_workers, connection_workers, mesh, id, obj>>
         /\ healthy' = IF s = "activate" THEN healthy \cup {o.n} ELSE healthy
    BY DEF Activate, Count, AssignPolicy, registry, local
<1>2. job[j].kind # "remove"
    BY <1>1 DEF OwnInv, JobsOwn, Fits, At, RegisterSteps
<1>3. s \in Steps /\ then \in SUBSET Steps /\ s \in Parallel
    BY DEF Steps, Parallel
<1>4. /\ Active(j) /\ Registering(j) /\ job[j].url = u
      /\ o \in Object /\ o # None /\ o.url = u /\ todo[j] \subseteq Parallel
    BY <1>1, <1>2, RegisterFacts DEF RegisterSteps, Parallel
<1>5. /\ todo'[j] = (todo[j] \ {s}) \cup then /\ todo'[j] \subseteq Parallel
      /\ \A k \in Jobs \ {j} : todo'[k] = todo[k]
  <2>1. /\ todo'[j] = (todo[j] \ {s}) \cup then
        /\ \A k \in Jobs \ {j} : todo'[k] = todo[k]
      BY <1>1, <1>3, StepFacts
  <2> QED BY <1>4, <2>1 DEF Parallel
<1>6. \A steps : AfterSync \subseteq steps => In(j, steps)
    BY <1>1 DEF In, At, AfterSync
<1>7. /\ i # None /\ workers[i] = o /\ Only(u, i) /\ url_to_id[u] = i
      /\ o \in model_index[o.model] /\ u \in hash_rings[o.model]
      /\ i \in type_workers[o.type] /\ i \in connection_workers[o.mode] /\ i \in mesh
    BY <1>4, <1>6 DEF Registering, AfterStore, AfterMap, AfterIndex, RingDone, AfterType, AfterMode
<1>8. "activate" \notin todo'[j] => o.n \in healthy'
  <2>1. CASE s = "activate"
      BY <1>1, <2>1
  <2>2. CASE s # "activate"
      BY <1>1, <1>4, <1>5, <1>6, <2>2 DEF Registering, At
  <2> QED BY <2>1, <2>2
<1>9. job[j].kind = "update" => o.n \in healthy'
    BY <1>1, <1>4 DEF Registering
<1>10. Only(u, i)'
    BY <1>1, <1>7 DEF Only
<1>11. ~At(j, "find")' /\ ~At(j, "lookup")' /\ ~At(j, "store")'
    BY <1>5 DEF At, Parallel
<1>12. Registering(j)'
    BY <1>1, <1>4, <1>7, <1>8, <1>9, <1>10, <1>11 DEF Registering, At
<1>13. ASSUME ~Active(j)' PROVE Stable(u)'
    BY <1>1, <1>4, <1>7, <1>8, <1>10, <1>13 DEF Stable, Served, Active
<1> QED BY <1>1, <1>2, <1>4, <1>5, <1>11, <1>12, <1>13, OwnStepKeeps DEF Underway

LEMMA FindMoves ==
    ASSUME RegistryInv, OwnInv, NEW j \in Jobs, NEW u \in Urls, Mine(j, u), UrlInv(u), Find(j)
    PROVE  UrlInv(u)'
<1> DEFINE w == Found(u)
<1>1. job[j].url = u
    BY DEF Mine
<1>2. /\ At(j, "find") /\ "find" \in Steps
      /\ UNCHANGED <<workers, url_to_id, model_index, hash_rings, job>>
      /\ \/ w = None /\ Goto(j, "find", {}) /\ UNCHANGED <<obj, healthy>>
         \/ /\ w # None /\ job[j].kind = "remove"
            /\ obj' = [obj EXCEPT ![j] = w]
            /\ Goto(j, "find", {"uncount"})
         \/ /\ w # None /\ job[j].kind = "update"
            /\ obj' = [obj EXCEPT ![j] = [w EXCEPT !.n = j]]
            /\ healthy' = healthy \cup {j}
            /\ Goto(j, "find", {"lookup"})
    BY <1>1 DEF Find, local, Steps
<1>3. Active(j) /\ Stable(u)
    BY <1>1, <1>2 DEF Active, At, UrlInv, Underway
<1>4. Only(u, url_to_id[u]) /\ (w # None => url_to_id[u] # None /\ workers[url_to_id[u]] = w)
    BY <1>3 DEF Stable, Served, Gone, Found
<1>5. Only(u, url_to_id[u])'
    BY <1>2, <1>4 DEF Only
<1>6. CASE w = None /\ Goto(j, "find", {}) /\ UNCHANGED <<obj, healthy>>
  <2>1. /\ \A k \in Jobs \ {j} : todo'[k] = todo[k]
        /\ todo'[j] = {}
      BY <1>2, <1>6, StepFacts DEF Parallel
  <2>2. Gone(u)
      BY <1>3, <1>6 DEF Stable, Served, Found
  <2>3. Gone(u)'
      BY <1>2, <1>6, <2>2 DEF Gone, Only, Unlisted, Unringed, OneModel, RingOf
  <2> QED BY <1>2, <1>3, <2>1, <2>3, OwnStepKeeps DEF Active, Stable
<1>7. CASE /\ w # None /\ job[j].kind = "remove"
           /\ obj' = [obj EXCEPT ![j] = w]
           /\ Goto(j, "find", {"uncount"})
  <2>1. /\ \A k \in Jobs \ {j} : todo'[k] = todo[k]
        /\ todo'[j] = {"uncount"}
      BY <1>2, <1>7, StepFacts DEF Parallel, Steps
  <2>2. obj'[j] = w
      BY <1>7 DEF RegistryInv, TypeOK
  <2>3. Active(j)' /\ (\A s : At(j, s)' <=> "uncount" = s) /\ \A steps : In(j, steps)' <=> "uncount" \in steps
      BY <2>1, AtOne
  <2>4. Removing(j)'
      BY <1>1, <1>2, <1>4, <1>5, <1>7, <2>2, <2>3
      DEF Removing, AfterRebuild, AfterUnindex, AfterTake
  <2> QED BY <1>2, <1>3, <1>7, <2>1, <2>3, <2>4, OwnStepKeeps DEF Underway
<1>8. CASE /\ w # None /\ job[j].kind = "update"
           /\ obj' = [obj EXCEPT ![j] = [w EXCEPT !.n = j]]
           /\ healthy' = healthy \cup {j}
           /\ Goto(j, "find", {"lookup"})
  <2>1. /\ \A k \in Jobs \ {j} : todo'[k] = todo[k]
        /\ todo'[j] = {"lookup"}
      BY <1>2, <1>8, StepFacts DEF Parallel, Steps
  <2>2. w \in Object
      BY <1>8 DEF Found, RegistryInv, TypeOK
  <2>3. obj'[j].n = j
      BY <1>8, <2>2 DEF RegistryInv, TypeOK, Object
  <2>4. Active(j)' /\ (\A s : At(j, s)' <=> "lookup" = s) /\ \A steps : In(j, steps)' <=> "lookup" \in steps
      BY <2>1, AtOne
  <2>5. Registering(j)'
      BY <1>1, <1>2, <1>5, <1>8, <2>3, <2>4
      DEF Registering, AfterStore, AfterMap, AfterIndex, RingDone, AfterType, AfterMode, AfterSync
  <2> QED BY <1>2, <1>3, <1>8, <2>1, <2>4, <2>5, OwnStepKeeps DEF Underway
<1> QED BY <1>2, <1>6, <1>7, <1>8

\* What a step of a removal starts from.
LEMMA RemoveFacts ==
    ASSUME RegistryInv, OwnInv, NEW j \in Jobs, NEW u \in Urls, Mine(j, u), UrlInv(u),
           NEW s \in RemoveSteps \cup {"ring"}, At(j, s), job[j].kind = "remove",
           NEW then \in SUBSET Steps, Goto(j, s, then)
    PROVE  /\ Active(j) /\ Removing(j) /\ job[j].url = u
           /\ obj[j] \in Object /\ obj[j] # None /\ obj[j].url = u
           /\ todo[j] = {s} /\ todo'[j] = then
           /\ \A k \in Jobs \ {j} : todo'[k] = todo[k]
           /\ \A steps : In(j, steps) <=> s \in steps
           /\ s \in WithId => id[j] \in Jobs /\ id[j] # None
<1>1. s \in Steps /\ s # "find" /\ s \notin Parallel
    BY DEF Steps, RemoveSteps, Parallel
<1>2. /\ Active(j) /\ obj[j] \in Object /\ obj[j] # None
      /\ todo[j] = {s} /\ todo'[j] = then
      /\ \A k \in Jobs \ {j} : todo'[k] = todo[k]
      /\ s \in WithId => id[j] \in Jobs /\ id[j] # None
    BY <1>1, StepFacts
<1>3. \A steps : In(j, steps) <=> s \in steps
    BY <1>2 DEF In
<1>4. Removing(j)
    BY <1>1, <1>2 DEF UrlInv, Underway, At
<1>5. obj[j].url = u /\ job[j].url = u
    BY <1>2 DEF OwnInv, JobsOwn, Mine
<1> QED BY <1>2, <1>3, <1>4, <1>5

\* on_worker_removed leaves the registry alone.
LEMMA UncountMoves ==
    ASSUME RegistryInv, OwnInv, NEW j \in Jobs, NEW u \in Urls, Mine(j, u), UrlInv(u),
           Uncount(j) \/ DropCount(j) \/ DropPolicy(j)
    PROVE  UrlInv(u)'
<1>1. PICK s \in {"uncount", "dropcount", "droppolicy"}, t \in BeforeUnmap :
         /\ At(j, s) /\ Goto(j, s, {t})
         /\ UNCHANGED <<job, workers, url_to_id, obj>>
    BY DEF Uncount, DropCount, DropPolicy, registry, local, BeforeUnmap
<1>2. job[j].kind = "remove" /\ {t} \in SUBSET Steps /\ s \in RemoveSteps
    BY <1>1 DEF OwnInv, JobsOwn, Fits, At, RemoveSteps, BeforeUnmap, Steps
<1>3. /\ Active(j) /\ Removing(j) /\ job[j].url = u /\ todo'[j] = {t}
      /\ \A k \in Jobs \ {j} : todo'[k] = todo[k]
      /\ \A steps : In(j, steps) <=> s \in steps
    BY <1>1, <1>2, RemoveFacts
<1>4. Active(j)' /\ (\A st : At(j, st)' <=> t = st) /\ \A steps : In(j, steps)' <=> t \in steps
    BY <1>3, AtOne
<1>5. Removing(j)'
    BY <1>1, <1>3, <1>4 DEF Removing, Only, BeforeUnmap, AfterRebuild, AfterUnindex, AfterTake
<1>6. ~At(j, "find")'
    BY <1>4 DEF BeforeUnmap
<1> QED BY <1>1, <1>2, <1>3, <1>4, <1>5, <1>6, OwnStepKeeps DEF Underway

LEMMA UnmapMoves ==
    ASSUME RegistryInv, OwnInv, NEW j \in Jobs, NEW u \in Urls, Mine(j, u), UrlInv(u), Unmap(j)
    PROVE  UrlInv(u)'
<1> DEFINE then == IF url_to_id[u] = None THEN {} ELSE {"take"}
<1>1. /\ At(j, "unmap") /\ Goto(j, "unmap", then) /\ UNCHANGED <<job, workers, obj>>
      /\ id' = [id EXCEPT ![j] = url_to_id[u]] /\ url_to_id' = [url_to_id EXCEPT ![u] = None]
      /\ then \in SUBSET Steps
    BY DEF Unmap, Mine, local, Steps
<1>2. job[j].kind = "remove" /\ "unmap" \in RemoveSteps
    BY <1>1 DEF OwnInv, JobsOwn, Fits, At, RemoveSteps
<1>3. /\ Active(j) /\ Removing(j) /\ job[j].url = u /\ todo'[j] = then
      /\ \A k \in Jobs \ {j} : todo'[k] = todo[k]
      /\ \A steps : In(j, steps) <=> "unmap" \in steps
    BY <1>1, <1>2, RemoveFacts
<1>4. url_to_id[u] # None /\ workers[url_to_id[u]] = obj[j] /\ Only(u, url_to_id[u])
    BY <1>3 DEF Removing, BeforeUnmap
<1>5. todo'[j] = {"take"}
    BY <1>3, <1>4
<1>6. /\ Active(j)' /\ (\A st : At(j, st)' <=> "take" = st)
      /\ \A steps : In(j, steps)' <=> "take" \in steps
    BY <1>5, AtOne
<1>7. id'[j] = url_to_id[u] /\ url_to_id'[u] = None
    BY <1>1 DEF RegistryInv, TypeOK
<1>8. Removing(j)'
    BY <1>1, <1>3, <1>4, <1>6, <1>7
    DEF Removing, Only, BeforeUnmap, AfterRebuild, AfterUnindex, AfterTake
<1> QED BY <1>1, <1>2, <1>3, <1>6, <1>8, OwnStepKeeps DEF Underway

\* The worker that is taken is the one the removal found.
LEMMA TakeMoves ==
    ASSUME RegistryInv, OwnInv, NEW j \in Jobs, NEW u \in Urls, Mine(j, u), UrlInv(u), Take(j)
    PROVE  UrlInv(u)' /\ UNCHANGED obj /\ todo'[j] = {"forget"}
<1>1. /\ At(j, "take") /\ UNCHANGED <<job, url_to_id, id>>
      /\ \/ workers[id[j]] = None /\ Goto(j, "take", {})
         \/ /\ workers' = [workers EXCEPT ![id[j]] = None]
            /\ obj' = [obj EXCEPT ![j] = workers[id[j]]]
            /\ Goto(j, "take", {"forget"})
    BY DEF Take, local
<1>2. job[j].kind = "remove" /\ "take" \in RemoveSteps
    BY <1>1 DEF OwnInv, JobsOwn, Fits, At, RemoveSteps
<1>3. PICK then \in {{}, {"forget"}} : Goto(j, "take", then)
    BY <1>1
<1>4. /\ Active(j) /\ Removing(j) /\ job[j].url = u
      /\ obj[j] \in Object /\ obj[j] # None /\ id[j] \in Jobs /\ id[j] # None
    BY <1>1, <1>2, <1>3, RemoveFacts DEF Steps, WithId
<1>5. url_to_id[u] = None /\ workers[id[j]] = obj[j] /\ Only(u, id[j])
    BY <1>1, <1>4 DEF Removing
<1>6. /\ workers' = [workers EXCEPT ![id[j]] = None]
      /\ obj' = [obj EXCEPT ![j] = obj[j]]
      /\ Goto(j, "take", {"forget"}) /\ {"forget"} \in SUBSET Steps
    BY <1>1, <1>4, <1>5 DEF Steps
<1>7. /\ todo'[j] = {"forget"}
      /\ \A k \in Jobs \ {j} : todo'[k] = todo[k]
    BY <1>1, <1>2, <1>6, RemoveFacts
<1>8. UNCHANGED obj
    BY <1>6 DEF RegistryInv, TypeOK
<1>9. /\ Active(j)' /\ (\A st : At(j, st)' <=> "forget" = st)
      /\ \A steps : In(j, steps)' <=> "forget" \in steps
    BY <1>7, AtOne
<1>10. Only(u, None)'
  <2>1. workers'[id[j]] = None /\ \A k \in Jobs \ {id[j]} : workers'[k] = workers[k]
      BY <1>4, <1>6 DEF RegistryInv, TypeOK
  <2> QED BY <1>5, <2>1 DEF Only
<1>11. Removing(j)'
    BY <1>1, <1>4, <1>5, <1>9, <1>10 DEF Removing, BeforeUnmap, AfterRebuild, AfterUnindex, AfterTake
<1> QED BY <1>1, <1>2, <1>4, <1>7, <1>8, <1>9, <1>11, OwnStepKeeps DEF Underway

LEMMA ForgetMoves ==
    ASSUME RegistryInv, OwnInv, NEW j \in Jobs, NEW u \in Urls, Mine(j, u), UrlInv(u), Forget(j)
    PROVE  UrlInv(u)'
<1>1. /\ At(j, "forget") /\ Goto(j, "forget", {"unindex"}) /\ UNCHANGED <<job, workers, obj>>
      /\ url_to_id' = [url_to_id EXCEPT ![obj[j].url] = None]
      /\ {"unindex"} \in SUBSET Steps
    BY DEF Forget, local, Steps
<1>2. job[j].kind = "remove" /\ "forget" \in RemoveSteps
    BY <1>1 DEF OwnInv, JobsOwn, Fits, At, RemoveSteps
<1>3. /\ Active(j) /\ Removing(j) /\ job[j].url = u /\ todo'[j] = {"unindex"}
      /\ \A k \in Jobs \ {j} : todo'[k] = todo[k]
      /\ \A steps : In(j, steps) <=> "forget" \in steps
    BY <1>1, <1>2, RemoveFacts
<1>4. /\ Active(j)' /\ (\A st : At(j, st)' <=> "unindex" = st)
      /\ \A steps : In(j, steps)' <=> "unindex" \in steps
    BY <1>3, AtOne
<1>5. url_to_id'[u] = None /\ Only(u, None)'
    BY <1>1, <1>3 DEF Removing, Only, AfterTake, RegistryInv, TypeOK
<1>6. Removing(j)'
    BY <1>1, <1>3, <1>4, <1>5 DEF Removing, BeforeUnmap, AfterRebuild, AfterUnindex, AfterTake
<1> QED BY <1>1, <1>2, <1>3, <1>4, <1>6, OwnStepKeeps DEF Underway

\* The list of the last model is cleared; with one model there is no other list.
LEMMA UnindexMoves ==
    ASSUME RegistryInv, OwnInv, NEW j \in Jobs, NEW u \in Urls, Mine(j, u), UrlInv(u), Unindex(j)
    PROVE  UrlInv(u)'
<1>1. /\ At(j, "unindex") /\ Goto(j, "unindex", {"ring"}) /\ UNCHANGED <<job, workers, url_to_id, obj>>
      /\ model_index' = [model_index EXCEPT ![obj[j].model] = {o \in @ : o.url # obj[j].url}]
      /\ {"ring"} \in SUBSET Steps
    BY DEF Unindex, local, Steps
<1>2. job[j].kind = "remove" /\ "unindex" \in RemoveSteps
    BY <1>1 DEF OwnInv, JobsOwn, Fits, At, RemoveSteps
<1>3. /\ Active(j) /\ Removing(j) /\ job[j].url = u /\ todo'[j] = {"ring"}
      /\ \A k \in Jobs \ {j} : todo'[k] = todo[k]
      /\ \A steps : In(j, steps) <=> "unindex" \in steps
      /\ obj[j] \in Object /\ obj[j] # None /\ obj[j].url = u
    BY <1>1, <1>2, RemoveFacts
<1>4. /\ Active(j)' /\ (\A st : At(j, st)' <=> "ring" = st)
      /\ \A steps : In(j, steps)' <=> "ring" \in steps
    BY <1>3, AtOne
<1>5. Unlisted(u)'
  <2>1. SUFFICES ASSUME OneModel(u), NEW m \in Models, NEW o \in model_index'[m], o.url = u
                 PROVE  FALSE
      BY <1>1 DEF Unlisted, OneModel, RingOf
  <2>2. o \in model_index[m] /\ (m = obj[j].model => o.url # u)
      BY <1>1, <1>3, <2>1 DEF RegistryInv, TypeOK
  <2>3. o \in Object /\ Made(o) /\ o.model = m
      BY <2>2 DEF OwnInv, MapsOwn, RegistryInv, TypeOK
  <2>4. o.n \in Jobs /\ obj[o.n] = o /\ o # None
      BY <2>3, RegistryAssumption DEF Made, Object
  <2>5. o.model = obj[j].model
      BY <1>3, <2>1, <2>4 DEF OneModel
  <2> QED BY <2>1, <2>2, <2>3, <2>5
<1>6. url_to_id'[u] = None /\ Only(u, None)'
    BY <1>1, <1>3 DEF Removing, Only, AfterTake
<1>7. Removing(j)'
    BY <1>1, <1>3, <1>4, <1>5, <1>6 DEF Removing, BeforeUnmap, AfterRebuild, AfterUnindex, AfterTake
<1> QED BY <1>1, <1>2, <1>3, <1>4, <1>7, OwnStepKeeps DEF Underway

LEMMA RebuildRemoves ==
    ASSUME RegistryInv, OwnInv, NEW j \in Jobs, NEW u \in Urls, Mine(j, u), UrlInv(u),
           RebuildHashRing(j), job[j].kind = "remove"
    PROVE  UrlInv(u)'
<1> DEFINE n == obj[j].model
<1>1. /\ At(j, "ring") /\ Goto(j, "ring", {"untype"})
      /\ UNCHANGED <<job, workers, url_to_id, model_index, obj>>
      /\ hash_rings' = [hash_rings EXCEPT ![n] = RingOf(model_index[n])]
      /\ {"untype"} \in SUBSET Steps
    BY DEF RebuildHashRing, AfterRing, local, Steps
<1>2. /\ Active(j) /\ Removing(j) /\ job[j].url = u /\ todo'[j] = {"untype"}
      /\ \A k \in Jobs \ {j} : todo'[k] = todo[k]
      /\ \A steps : In(j, steps) <=> "ring" \in steps
      /\ obj[j] \in Object /\ obj[j] # None /\ obj[j].url = u
    BY <1>1, RemoveFacts
<1>3. /\ Active(j)' /\ (\A st : At(j, st)' <=> "untype" = st)
      /\ \A steps : In(j, steps)' <=> "untype" \in steps
    BY <1>2, AtOne
<1>4. Unlisted(u) /\ url_to_id[u] = None /\ Only(u, None)
    BY <1>2 DEF Removing, AfterUnindex, AfterTake
<1>5. Unlisted(u)' /\ url_to_id'[u] = None /\ Only(u, None)'
    BY <1>1, <1>4 DEF Unlisted, OneModel, RingOf, Only
<1>6. Unringed(u)'
  <2>1. SUFFICES ASSUME OneModel(u), NEW m \in Models, u \in hash_rings'[m]
                 PROVE  FALSE
      BY <1>1 DEF Unringed, OneModel
  <2>2. CASE m = n
      BY <1>1, <1>4, <2>1, <2>2 DEF Unlisted, RegistryInv, TypeOK
  <2>3. CASE m # n
    <3>1. u \in hash_rings[m]
        BY <1>1, <2>1, <2>3 DEF RegistryInv, TypeOK
    <3>2. PICK k \in Jobs : obj[k] # None /\ obj[k].url = u /\ obj[k].model = m
        BY <3>1 DEF OwnInv, MapsOwn
    <3> QED BY <1>2, <2>1, <2>3, <3>2 DEF OneModel
  <2> QED BY <2>2, <2>3
<1>7. Removing(j)'
    BY <1>1, <1>2, <1>3, <1>5, <1>6 DEF Removing, BeforeUnmap, AfterRebuild, AfterUnindex, AfterTake
<1> QED BY <1>1, <1>2, <1>3, <1>7, OwnStepKeeps DEF Underway

\* The rest of a removal.
LEMMA LastMoves ==
    ASSUME RegistryInv, OwnInv, NEW j \in Jobs, NEW u \in Urls, Mine(j, u), UrlInv(u),
           DropType(j) \/ DropMode(j) \/ Retire(j) \/ Unsync(j)
    PROVE  UrlInv(u)'
<1>1. PICK s \in AfterRebuild, then \in {{"unmode"}, {"retire"}, {"unsync"}, {}} :
         /\ At(j, s) /\ Goto(j, s, then)
         /\ UNCHANGED <<job, workers, url_to_id, model_index, hash_rings, obj>>
    BY DEF DropType, DropMode, Retire, Unsync, local, AfterRebuild
<1>2. job[j].kind = "remove" /\ then \in SUBSET Steps /\ s \in RemoveSteps
    BY <1>1 DEF OwnInv, JobsOwn, Fits, At, RemoveSteps, AfterRebuild, Steps
<1>3. /\ Active(j) /\ Removing(j) /\ job[j].url = u /\ todo'[j] = then
      /\ \A k \in Jobs \ {j} : todo'[k] = todo[k]
      /\ \A steps : In(j, steps) <=> s \in steps
    BY <1>1, <1>2, RemoveFacts
<1>4. Unlisted(u) /\ Unringed(u) /\ url_to_id[u] = None /\ Only(u, None)
    BY <1>3 DEF Removing, AfterRebuild, AfterUnindex, AfterTake
<1>5. Unlisted(u)' /\ Unringed(u)' /\ url_to_id'[u] = None /\ Only(u, None)'
    BY <1>1, <1>4 DEF Unlisted, Unringed, OneModel, RingOf, Only
<1>6. /\ ~In(j, BeforeUnmap)' /\ ~At(j, "take")' /\ ~At(j, "find")'
      /\ ~Active(j)' => Gone(u)'
    BY <1>3, <1>5 DEF In, At, BeforeUnmap, Gone
<1>7. Removing(j)'
    BY <1>1, <1>3, <1>5, <1>6 DEF Removing
<1> QED BY <1>1, <1>2, <1>3, <1>6, <1>7, OwnStepKeeps DEF Underway, Stable

LEMMA InitUrls == Init => UrlsInv
<1> SUFFICES ASSUME Init, NEW u \in Urls PROVE UrlInv(u)
    BY DEF UrlsInv
<1>1. \A j \in Jobs : ~Active(j)
    BY DEF Init, Active
<1>2. Gone(u)
    BY DEF Init, Gone, Only, Unlisted, Unringed, RingOf
<1> QED BY <1>1, <1>2 DEF UrlInv, Stable

\* A job that starts leaves the other urls alone.
LEMMA StartLeaves ==
    ASSUME RegistryInv, OwnInv, NEW kind \in Kinds, NEW u \in Urls, NEW step \in {"find", "lookup"},
           Start(kind, u, step), step = "find" <=> kind # "add",
           UNCHANGED <<workers, model_index, hash_rings, type_workers, connection_workers, mesh, id>>,
           \A v \in Urls \ {u} : url_to_id'[v] = url_to_id[v],
           \A k \in Jobs \ {next} : obj'[k] = obj[k] /\ (k \in healthy' <=> k \in healthy)
    PROVE  \A v \in Urls \ {u} : Untouched(v)
<1>1. /\ next \in Jobs /\ job[next] = None
      /\ job'[next] # None /\ job'[next].url = u
      /\ \A k \in Jobs \ {next} : job'[k] = job[k] /\ todo'[k] = todo[k]
    BY StartOwns
<1>2. ASSUME NEW v \in Urls \ {u}, NEW k \in Jobs
      PROVE  /\ Mine(k, v)' => Mine(k, v)
             /\ Mine(k, v) => k # next
    BY <1>1 DEF Mine
<1> QED BY <1>1, <1>2 DEF Untouched

\* A job that starts on a url on which none is running.
LEMMA StartsAlone ==
    ASSUME RegistryInv, OwnInv, NEW kind \in Kinds, NEW u \in Urls, NEW step \in {"find", "lookup"},
           Start(kind, u, step), step = "find" <=> kind # "add", UrlInv(u), u \notin clash',
           NEW i \in Jobs, i = next
    PROVE  /\ Stable(u)
           /\ Underway(i)' => UrlInv(u)'
<1>1. ~Busy(u)
    BY DEF Start
<1>2. Stable(u)
    BY <1>1 DEF UrlInv
<1>3. /\ next \in Jobs /\ job'[next] # None /\ job'[next].url = u /\ todo'[next] = {step}
      /\ \A k \in Jobs \ {next} : job'[k] = job[k] /\ todo'[k] = todo[k]
    BY StartOwns
<1>4. ASSUME NEW k \in Jobs, Active(k)', Mine(k, u)' PROVE k = next
    BY <1>1, <1>3, <1>4 DEF Busy, Active, Mine
<1>5. Busy(u)'
    BY <1>3 DEF Busy, Active
<1>6. Underway(i)' => UrlInv(u)'
    BY <1>4, <1>5 DEF UrlInv
<1> QED BY <1>2, <1>6

LEMMA SubmitUrls == ASSUME RegistryInv, OwnInv, RegistryInv', OwnInv', UrlsInv, Submit PROVE UrlsInv'
<1>1. ASSUME NEW o \in Offers, NEW reserve \in BOOLEAN, NEW unchecked \in BOOLEAN,
             AddWorker(o, reserve, unchecked), NEW v \in Urls \ clash'
      PROVE  UrlInv(v)'
  <2> DEFINE new == [n |-> next, url |-> o.url, model |-> o.model, type |-> o.type, mode |-> o.mode]
  <2>1. /\ o.url \in Urls /\ Start("add", o.url, "lookup") /\ "add" \in Kinds
        /\ UNCHANGED <<workers, model_index, hash_rings, type_workers, connection_workers, mesh, id>>
        /\ obj' = [obj EXCEPT ![next] = new]
      BY <1>1, RegistryAssumption DEF AddWorker, Start, Kinds
  <2>2. /\ v \notin clash
        /\ \A w \in Urls \ {o.url} : url_to_id'[w] = url_to_id[w]
        /\ \A k \in Jobs \ {next} : obj'[k] = obj[k] /\ (k \in healthy' <=> k \in healthy)
        /\ url_to_id'[o.url] = IF reserve /\ url_to_id[o.url] = None THEN next ELSE url_to_id[o.url]
      BY <1>1, <2>1 DEF AddWorker, Start, RegistryInv, TypeOK
  <2>3. CASE v # o.url
    <3>1. Untouched(v)
        BY <2>1, <2>2, <2>3, StartLeaves
    <3> QED BY <2>2, <3>1, UntouchedKeeps DEF UrlsInv
  <2>4. CASE v = o.url
    <3>1. ASSUME NEW i \in Jobs, i = next PROVE UrlInv(v)'
      <4>1. i \in Jobs /\ todo'[i] = {"lookup"} /\ job'[i].kind = "add" /\ job'[i].url = v
          BY <2>1, <2>4, <3>1, StartOwns
      <4>2. Stable(v)
          BY <2>1, <2>2, <2>4, <3>1, StartsAlone DEF UrlsInv
      <4>3. Only(v, url_to_id[v])
          BY <4>2 DEF Stable, Served, Gone
      <4>4. Only(v, url_to_id[v])'
          BY <2>1, <2>2, <2>4, <4>3, NoneIsNoJob DEF Only
      <4>5. (\A s : At(i, s)' <=> "lookup" = s) /\ \A steps : In(i, steps)' <=> "lookup" \in steps
          BY <4>1, AtOne
      <4>6. Registering(i)'
          BY <4>1, <4>4, <4>5
          DEF Registering, AfterStore, AfterMap, AfterIndex, RingDone, AfterType, AfterMode, AfterSync
      <4>7. Underway(i)'
          BY <4>1, <4>5, <4>6 DEF Underway
      <4> QED BY <2>1, <2>2, <2>4, <3>1, <4>7, StartsAlone DEF UrlsInv
    <3>2. next \in Jobs
        BY <2>1 DEF Start
    <3> QED BY <3>1, <3>2
  <2> QED BY <2>3, <2>4
<1>2. ASSUME NEW u \in Urls, NEW kind \in {"remove", "update"}, Start(kind, u, "find"),
             UNCHANGED <<registry, policies, obj>>, NEW v \in Urls \ clash'
      PROVE  UrlInv(v)'
  <2>1. /\ UNCHANGED <<workers, url_to_id, model_index, hash_rings, type_workers,
                      connection_workers, mesh, healthy, obj, id>>
        /\ v \notin clash /\ kind \in Kinds
      BY <1>2 DEF registry, Start, Kinds
  <2>2. CASE v # u
    <3>1. Untouched(v)
        BY <1>2, <2>1, <2>2, StartLeaves
    <3> QED BY <2>1, <3>1, UntouchedKeeps DEF UrlsInv
  <2>3. CASE v = u
    <3>1. ASSUME NEW i \in Jobs, i = next PROVE UrlInv(v)'
      <4>1. i \in Jobs /\ todo'[i] = {"find"} /\ job'[i].url = u
          BY <1>2, <2>1, <3>1, StartOwns
      <4>2. Stable(u)
          BY <1>2, <2>1, <2>3, <3>1, StartsAlone DEF UrlsInv
      <4>3. Stable(u)'
          BY <2>1, <4>2 DEF Stable, Served, Gone, Only, Unlisted, Unringed, OneModel, RingOf
      <4>4. Underway(i)'
          BY <4>1, <4>3 DEF Underway, At
      <4> QED BY <1>2, <2>1, <2>3, <3>1, <4>4, StartsAlone DEF UrlsInv
    <3>2. next \in Jobs
        BY <1>2 DEF Start
    <3> QED BY <3>1, <3>2
  <2> QED BY <2>2, <2>3
<1> QED BY <1>1, <1>2 DEF Submit, RemoveWorker, UpdateWorker, UrlsInv

LEMMA NextUrls == ASSUME RegistryInv, OwnInv, RegistryInv', OwnInv', UrlsInv, [Next]_vars PROVE UrlsInv'
<1>1. CASE Submit
    BY <1>1, SubmitUrls
<1>2. ASSUME NEW j \in Jobs, Find(j) \/ Register(j) \/ Activate(j) \/ Remove(j) \/ Policies(j)
      PROVE  UrlsInv'
  <2>1. job[j] # None /\ job[j].url \in Urls /\ UNCHANGED clash
    <3>1. todo[j] # {} /\ UNCHANGED clash
        BY <1>2 DEF Find, Register, Activate, Remove, Policies, Lookup, Store, MapUrl, Index,
             RebuildHashRing, PushType, PushMode, Sync, Count, AssignPolicy, Uncount, DropCount,
             DropPolicy, Unmap, Take, Forget, Unindex, DropType, DropMode, Retire, Unsync, At, local
    <3>2. job[j] # None /\ job[j] \in Request
        BY <3>1 DEF RegistryInv, Equipped, TypeOK
    <3> QED BY <3>1, <3>2 DEF Request
  <2>2. ASSUME NEW u \in Urls \ clash, u # job[j].url PROVE UrlInv(u)'
    <3>1. Untouched(u)
        BY <1>2, <2>1, <2>2, OthersLeave
    <3> QED BY <2>2, <3>1, UntouchedKeeps DEF UrlsInv
  <2>3. ASSUME NEW u \in Urls \ clash, u = job[j].url PROVE UrlInv(u)'
    <3>1. Mine(j, u) /\ UrlInv(u)
        BY <2>1, <2>3 DEF Mine, UrlsInv
    <3>2. CASE RebuildHashRing(j)
        BY <3>1, <3>2, RebuildRegisters, RebuildRemoves
    <3> QED BY <1>2, <3>1, <3>2, FindMoves, LookupMoves, StoreMoves, MapUrlMoves, IndexMoves,
               PushTypeMoves, PushModeMoves, SyncMoves, ParallelMoves, UncountMoves, UnmapMoves,
               TakeMoves, ForgetMoves, UnindexMoves, LastMoves
            DEF Register, Remove, Policies
  <2> QED BY <2>1, <2>2, <2>3 DEF UrlsInv
<1>3. CASE UNCHANGED vars
  <2>1. ASSUME NEW u \in Urls PROVE Untouched(u)
      BY <1>3 DEF vars, registry, policies, local, Untouched, Mine
  <2>2. UNCHANGED clash
      BY <1>3 DEF vars, local
  <2> QED BY <2>1, <2>2, UntouchedKeeps DEF UrlsInv
<1> QED BY <1>1, <1>2, <1>3 DEF Next

-----------------------------------------------------------------------------
(* Policies *)

LEMMA InitCounts == Init => PolicyInv
<1> SUFFICES ASSUME Init PROVE CountInv
    BY DEF PolicyInv
<1>1. \A m \in Models : Registered(m) = {} /\ CountOf(m) = 0
    BY DEF Init, Registered, CountOf
<1>2. Cardinality({}) = 0
    BY FS_EmptySet
<1>3. \A j \in Jobs : todo[j] = {}
    BY DEF Init
<1>4. \A m \in Models : Cardinality(Registered(m)) <= CountOf(m) + (IF Pending(m) THEN 1 ELSE 0)
  <2>1. ASSUME NEW m \in Models PROVE Cardinality(Registered(m)) = 0
      BY <1>1, <1>2
  <2> QED BY <1>1, <2>1
<1> QED BY <1>1, <1>3, <1>4 DEF Init, CountInv, Active, At

\* The workers of a model are finitely many.
LEMMA RegisteredFinite ==
    ASSUME RegistryInv, NEW m \in Models
    PROVE  /\ IsFiniteSet(Registered(m)) /\ Cardinality(Registered(m)) \in Nat
           /\ CountOf(m) \in Nat
           /\ \A i \in Registered(m) : Cardinality(Registered(m)) > 0
<1>1. IsFiniteSet(Jobs)
    BY FS_Interval, RegistryAssumption, 1 \in Int /\ MaxJobs \in Int DEF Jobs
<1>2. IsFiniteSet(Registered(m))
    BY <1>1, FS_Subset DEF Registered
<1>3. Cardinality(Registered(m)) \in Nat
    BY <1>2, FS_CardinalityType
<1>4. CountOf(m) \in Nat
    BY DEF CountOf, RegistryInv, TypeOK
<1>5. ASSUME NEW i \in Registered(m) PROVE Cardinality(Registered(m)) > 0
    BY <1>2, <1>3, <1>5, FS_EmptySet
<1> QED BY <1>2, <1>3, <1>4, <1>5

\* A step that changes neither workers nor policies, nor what is pending.
LEMMA CountFrame ==
    ASSUME RegistryInv, CountInv, NEW j \in Jobs, Active(j),
           UNCHANGED <<workers, model_worker_counts, model_policies, job, clash>>,
           \A k \in Jobs \ {j} : todo'[k] = todo[k],
           Active(j)' /\ Uncounted(j)' <=> Uncounted(j),
           Uncounted(j) => UNCHANGED obj,
           At(j, "policy") => At(j, "policy")' /\ UNCHANGED obj,
           ~At(j, "dropcount")' /\ ~At(j, "droppolicy")'
    PROVE  CountInv'
<1>1. \A k \in Jobs : Active(k) => k = j
    BY DEF CountInv
<1>2. \A k \in Jobs : Active(k)' => k = j
    BY <1>1 DEF Active
<1>3. ASSUME NEW m \in Models PROVE Registered(m)' = Registered(m) /\ CountOf(m)' = CountOf(m)
    BY DEF Registered, CountOf
<1>4. ASSUME NEW m \in Models PROVE Pending(m)' <=> Pending(m)
    BY <1>1, <1>2 DEF Pending
<1>5. ASSUME NEW m \in Models, CountOf(m)' > 0
      PROVE  m \in model_policies' \/ \E k \in Jobs : At(k, "policy")' /\ obj'[k].model = m
  <2>1. m \in model_policies \/ \E k \in Jobs : At(k, "policy") /\ obj[k].model = m
      BY <1>3, <1>5 DEF CountInv
  <2>2. \A k \in Jobs : At(k, "policy") => k = j
      BY <1>1 DEF At, Active
  <2> QED BY <2>1, <2>2
<1>6. ASSUME NEW k \in Jobs PROVE ~At(k, "dropcount")' /\ ~At(k, "droppolicy")'
    BY <1>2 DEF At, Active
<1>7. \A m \in Models : (Cardinality(Registered(m)) <= CountOf(m) + (IF Pending(m) THEN 1 ELSE 0))'
    BY <1>3, <1>4 DEF CountInv
<1> QED BY <1>2, <1>5, <1>6, <1>7 DEF CountInv

\* The steps between which what is pending stays as it is.
LEMMA FramedCounts ==
    ASSUME RegistryInv, OwnInv, CountInv, NEW j \in Jobs,
           \/ Find(j) \/ Lookup(j) \/ MapUrl(j) \/ Index(j) \/ RebuildHashRing(j) \/ PushType(j)
           \/ PushMode(j) \/ Sync(j) \/ Forget(j) \/ Unindex(j) \/ DropType(j) \/ DropMode(j)
           \/ Retire(j) \/ Unsync(j)
    PROVE  CountInv'
<1> DEFINE Pend == IF job[j].kind = "remove" THEN {"dropcount", "droppolicy", "unmap", "take"}
                   ELSE {"map", "index", "ring", "type", "mode", "sync", "count"}
<1>1. ASSUME NEW s \in Steps \ Parallel, NEW then \in SUBSET Steps, At(j, s), Goto(j, s, then),
             UNCHANGED <<workers, model_worker_counts, model_policies, job, clash>>,
             s \in Pend <=> then \cap Pend # {}, s \in Pend => UNCHANGED obj,
             "dropcount" \notin then, "droppolicy" \notin then
      PROVE  CountInv'
  <2>1. /\ \A k \in Jobs \ {j} : todo'[k] = todo[k]
        /\ todo[j] = {s} /\ todo'[j] = then /\ Active(j)
      BY <1>1, StepFacts
  <2>2. Uncounted(j) <=> s \in Pend
      BY <2>1 DEF Uncounted, In
  <2>3. Active(j)' /\ Uncounted(j)' <=> then \cap Pend # {}
      BY <1>1, <2>1 DEF Uncounted, In, Active
  <2>4. ~At(j, "policy")
      BY <1>1, <2>1 DEF At, Parallel
  <2>5. ~At(j, "dropcount")' /\ ~At(j, "droppolicy")'
      BY <1>1, <2>1 DEF At
  <2> QED BY <1>1, <2>1, <2>2, <2>3, <2>4, <2>5, CountFrame
<1> USE DEF Steps, Parallel
<1>2. CASE Lookup(j)
  <2>1. job[j].kind # "remove"
      BY <1>2 DEF Lookup, OwnInv, JobsOwn, Fits, At, RegisterSteps, RemoveSteps
  <2> QED BY <1>2, <1>1, <2>1 DEF Lookup, registry, policies, local
<1>3. CASE MapUrl(j)
  <2>1. job[j].kind # "remove"
      BY <1>3 DEF MapUrl, OwnInv, JobsOwn, Fits, At, RegisterSteps, RemoveSteps
  <2> QED BY <1>3, <1>1, <2>1 DEF MapUrl, registry, policies, local
<1>4. CASE Index(j)
  <2>1. job[j].kind # "remove"
      BY <1>4 DEF Index, OwnInv, JobsOwn, Fits, At, RegisterSteps, RemoveSteps
  <2> QED BY <1>4, <1>1, <2>1 DEF Index, registry, policies, local
<1>5. CASE PushType(j)
  <2>1. job[j].kind # "remove"
      BY <1>5 DEF PushType, OwnInv, JobsOwn, Fits, At, RegisterSteps, RemoveSteps
  <2> QED BY <1>5, <1>1, <2>1 DEF PushType, registry, policies, local
<1>6. CASE PushMode(j)
  <2>1. job[j].kind # "remove"
      BY <1>6 DEF PushMode, OwnInv, JobsOwn, Fits, At, RegisterSteps, RemoveSteps
  <2> QED BY <1>6, <1>1, <2>1 DEF PushMode, registry, policies, local
<1>7. CASE Forget(j)
  <2>1. job[j].kind = "remove"
      BY <1>7 DEF Forget, OwnInv, JobsOwn, Fits, At, RegisterSteps, RemoveSteps
  <2> QED BY <1>7, <1>1, <2>1 DEF Forget, registry, policies, local
<1>8. CASE Unindex(j)
  <2>1. job[j].kind = "remove"
      BY <1>8 DEF Unindex, OwnInv, JobsOwn, Fits, At, RegisterSteps, RemoveSteps
  <2> QED BY <1>8, <1>1, <2>1 DEF Unindex, registry, policies, local
<1>9. CASE DropType(j)
  <2>1. job[j].kind = "remove"
      BY <1>9 DEF DropType, OwnInv, JobsOwn, Fits, At, RegisterSteps, RemoveSteps
  <2> QED BY <1>9, <1>1, <2>1 DEF DropType, registry, policies, local
<1>10. CASE DropMode(j)
  <2>1. job[j].kind = "remove"
      BY <1>10 DEF DropMode, OwnInv, JobsOwn, Fits, At, RegisterSteps, RemoveSteps
  <2> QED BY <1>10, <1>1, <2>1 DEF DropMode, registry, policies, local
<1>11. CASE Retire(j)
  <2>1. job[j].kind = "remove"
      BY <1>11 DEF Retire, OwnInv, JobsOwn, Fits, At, RegisterSteps, RemoveSteps
  <2> QED BY <1>11, <1>1, <2>1 DEF Retire, registry, policies, local
<1>12. CASE Sync(j)
  <2>1. job[j].kind # "remove"
      BY <1>12 DEF Sync, OwnInv, JobsOwn, Fits, At, RegisterSteps, RemoveSteps
  <2>2. PICK then \in {{"count", "activate"}, {"count"}} : Goto(j, "sync", then)
      BY <1>12 DEF Sync
  <2> QED BY <1>12, <1>1, <2>1, <2>2 DEF Sync, policies, local
<1>13. CASE Unsync(j)
  <2>1. job[j].kind = "remove"
      BY <1>13 DEF Unsync, OwnInv, JobsOwn, Fits, At, RegisterSteps, RemoveSteps
  <2> QED BY <1>13, <1>1, <2>1 DEF Unsync, policies, local
<1>14. CASE RebuildHashRing(j)
  <2>1. PICK then \in {{"untype"}, {"type"}} :
           Goto(j, "ring", then) /\ (then = {"untype"} <=> job[j].kind = "remove")
      BY <1>14 DEF RebuildHashRing, AfterRing
  <2> QED BY <1>14, <1>1, <2>1 DEF RebuildHashRing, policies, local
<1>15. CASE Find(j)
  <2>1. PICK then \in {{}, {"uncount"}, {"lookup"}} : Goto(j, "find", then)
      BY <1>15 DEF Find
  <2> QED BY <1>15, <1>1, <2>1 DEF Find, policies, local
<1> QED BY <1>2, <1>3, <1>4, <1>5, <1>6, <1>7, <1>8, <1>9, <1>10, <1>11, <1>12, <1>13, <1>14, <1>15

LEMMA ActivateCounts ==
    ASSUME RegistryInv, OwnInv, CountInv, NEW j \in Jobs, Activate(j) PROVE CountInv'
<1>1. /\ At(j, "activate") /\ Goto(j, "activate", {}) /\ "activate" \in Steps /\ "activate" \in Parallel
      /\ UNCHANGED <<workers, model_worker_counts, model_policies, job, clash, obj>>
    BY DEF Activate, policies, local, Steps, Parallel
<1>2. /\ \A k \in Jobs \ {j} : todo'[k] = todo[k]
      /\ todo'[j] = (todo[j] \ {"activate"}) \cup {} /\ todo[j] \subseteq Parallel /\ Active(j)
    BY <1>1, StepFacts
<1>3. \A s : s # "activate" => (At(j, s)' <=> At(j, s))
    BY <1>2 DEF At
<1>4. Active(j)' /\ Uncounted(j)' <=> Uncounted(j)
    BY <1>1, <1>2 DEF Uncounted, In, Active
<1>5. ~At(j, "dropcount")' /\ ~At(j, "droppolicy")'
    BY <1>2 DEF At, Parallel
<1> QED BY <1>1, <1>2, <1>3, <1>4, <1>5, CountFrame

LEMMA UnmapCounts ==
    ASSUME RegistryInv, OwnInv, UrlsInv, CountInv, NEW j \in Jobs, Unmap(j) PROVE CountInv'
<1> DEFINE u == job[j].url
           then == IF url_to_id[u] = None THEN {} ELSE {"take"}
<1>1. /\ At(j, "unmap") /\ Goto(j, "unmap", then) /\ then \in SUBSET Steps
      /\ UNCHANGED <<workers, model_worker_counts, model_policies, job, clash, obj>>
    BY DEF Unmap, policies, local, Steps
<1>2. job[j].kind = "remove" /\ "unmap" \in RemoveSteps
    BY <1>1 DEF OwnInv, JobsOwn, Fits, At, RemoveSteps
<1>3. u \in Urls /\ Mine(j, u) /\ UrlInv(u)
  <2>1. job[j] # None /\ job[j] \in Request
      BY <1>1 DEF RegistryInv, Equipped, TypeOK, At
  <2>2. u \in Urls /\ Mine(j, u)
      BY <2>1 DEF Request, Mine
  <2> QED BY <2>2 DEF UrlsInv, CountInv
<1>4. /\ Active(j) /\ Removing(j) /\ todo[j] = {"unmap"} /\ todo'[j] = then
      /\ \A k \in Jobs \ {j} : todo'[k] = todo[k]
      /\ \A steps : In(j, steps) <=> "unmap" \in steps
    BY <1>1, <1>2, <1>3, RemoveFacts
<1>5. todo'[j] = {"take"}
    BY <1>4 DEF Removing, BeforeUnmap
<1>6. Active(j)' /\ (\A s : At(j, s)' <=> "take" = s) /\ \A steps : In(j, steps)' <=> "take" \in steps
    BY <1>5, AtOne
<1>7. Uncounted(j) /\ Uncounted(j)' /\ ~At(j, "policy")
    BY <1>1, <1>2, <1>4, <1>6 DEF Uncounted, At
<1> QED BY <1>1, <1>4, <1>6, <1>7, CountFrame

\* The worker that was stored is pending.
LEMMA StoreCounts ==
    ASSUME RegistryInv, OwnInv, RegistryInv', CountInv, NEW j \in Jobs, Store(j) PROVE CountInv'
<1> DEFINE n == obj[j].model
<1>1. /\ At(j, "store") /\ Goto(j, "store", {"map"}) /\ "store" \in Steps /\ {"map"} \in SUBSET Steps
      /\ workers' = [workers EXCEPT ![id[j]] = obj[j]]
      /\ UNCHANGED <<model_worker_counts, model_policies, job, clash, obj>>
    BY DEF Store, policies, local, Steps
<1>2. /\ \A k \in Jobs \ {j} : todo'[k] = todo[k]
      /\ todo[j] = {"store"} /\ todo'[j] = {"map"} /\ Active(j)
      /\ id[j] \in Jobs
    BY <1>1, StepFacts DEF Parallel, WithId
<1>3. job[j].kind # "remove"
    BY <1>1 DEF OwnInv, JobsOwn, Fits, At, RegisterSteps
<1>4. Active(j)' /\ (\A s : At(j, s)' <=> "map" = s) /\ Uncounted(j)' /\ ~Uncounted(j)
    BY <1>1, <1>2, <1>3 DEF Active, At, Uncounted, In
<1>5. \A k \in Jobs : (Active(k) => k = j) /\ (Active(k)' => k = j)
    BY <1>2 DEF CountInv, Active
<1>6. ASSUME NEW m \in Models PROVE Cardinality(Registered(m))' <= CountOf(m)' + (IF Pending(m)' THEN 1 ELSE 0)
  <2>1. /\ ~Pending(m) /\ (Pending(m)' <=> n = m) /\ CountOf(m)' = CountOf(m)
      BY <1>1, <1>4, <1>5 DEF Pending, CountOf
  <2>2. /\ IsFiniteSet(Registered(m)) /\ Cardinality(Registered(m)) \in Nat /\ CountOf(m) \in Nat
        /\ Cardinality(Registered(m)) <= CountOf(m)
      BY <2>1, RegisteredFinite DEF CountInv
  <2>3. Registered(m)' \subseteq IF n = m THEN Registered(m) \cup {id[j]} ELSE Registered(m)
      BY <1>1, <1>2 DEF Registered, RegistryInv, TypeOK
  <2>4. CASE n = m
    <3>1. /\ IsFiniteSet(Registered(m) \cup {id[j]})
          /\ Cardinality(Registered(m) \cup {id[j]}) <= Cardinality(Registered(m)) + 1
          /\ Cardinality(Registered(m) \cup {id[j]}) \in Nat
      <4>1. /\ IsFiniteSet(Registered(m) \cup {id[j]})
            /\ Cardinality(Registered(m) \cup {id[j]}) =
                  IF id[j] \in Registered(m) THEN Cardinality(Registered(m))
                  ELSE Cardinality(Registered(m)) + 1
          BY <2>2, FS_AddElement
      <4> QED BY <2>2, <4>1
    <3>2. Cardinality(Registered(m)') <= Cardinality(Registered(m) \cup {id[j]})
          /\ Cardinality(Registered(m)') \in Nat
        BY <2>3, <2>4, <3>1, FS_Subset, FS_CardinalityType
    <3> QED BY <2>1, <2>2, <2>4, <3>1, <3>2
  <2>5. CASE n # m
    <3>1. Cardinality(Registered(m)') <= Cardinality(Registered(m)) /\ Cardinality(Registered(m)') \in Nat
        BY <2>2, <2>3, <2>5, FS_Subset, FS_CardinalityType
    <3> QED BY <2>1, <2>2, <2>5, <3>1
  <2> QED BY <2>4, <2>5
<1>7. ASSUME NEW m \in Models, CountOf(m)' > 0 PROVE m \in model_policies'
    BY <1>1, <1>2, <1>5, <1>7 DEF CountOf, CountInv, At, Active
<1>8. ASSUME NEW k \in Jobs PROVE ~At(k, "dropcount")' /\ ~At(k, "droppolicy")'
    BY <1>4, <1>5 DEF At, Active
<1> QED BY <1>1, <1>5, <1>6, <1>7, <1>8 DEF CountInv

LEMMA CountCounts ==
    ASSUME RegistryInv, OwnInv, CountInv, NEW j \in Jobs, Count(j) PROVE CountInv'
<1> DEFINE n == obj[j].model
<1>1. /\ At(j, "count") /\ Goto(j, "count", {"policy"}) /\ "count" \in Steps /\ {"policy"} \in SUBSET Steps
      /\ UNCHANGED <<workers, model_policies, job, clash, obj>>
      /\ model_worker_counts' = [model_worker_counts EXCEPT ![n] = IF @ = None THEN 1 ELSE @ + 1]
    BY DEF Count, registry, local, Steps
<1>2. /\ \A k \in Jobs \ {j} : todo'[k] = todo[k]
      /\ todo'[j] = (todo[j] \ {"count"}) \cup {"policy"} /\ todo[j] \subseteq Parallel /\ Active(j)
      /\ obj[j] \in Object
    BY <1>1, StepFacts DEF Parallel
<1>3. job[j].kind # "remove" /\ n \in Models
    BY <1>1, <1>2 DEF OwnInv, JobsOwn, Fits, At, RegisterSteps, Object
<1>4. Active(j)' /\ At(j, "policy")' /\ ~Uncounted(j)' /\ Uncounted(j)
    BY <1>1, <1>2, <1>3 DEF Active, At, Uncounted, In, Parallel
<1>5. \A k \in Jobs : (Active(k) => k = j) /\ (Active(k)' => k = j)
    BY <1>2 DEF CountInv, Active
<1>6. \A m \in Models : CountOf(m)' = IF m = n THEN CountOf(m) + 1 ELSE CountOf(m)
    BY <1>1, <1>3, RegistryAssumption DEF CountOf, RegistryInv, TypeOK
<1>7. ASSUME NEW m \in Models PROVE Cardinality(Registered(m))' <= CountOf(m)' + (IF Pending(m)' THEN 1 ELSE 0)
  <2>1. (Pending(m) <=> m = n) /\ ~Pending(m)' /\ Registered(m)' = Registered(m)
      BY <1>1, <1>2, <1>4, <1>5 DEF Pending, Registered
  <2>2. /\ Cardinality(Registered(m)) \in Nat /\ CountOf(m) \in Nat
        /\ Cardinality(Registered(m)) <= CountOf(m) + (IF Pending(m) THEN 1 ELSE 0)
      BY RegisteredFinite DEF CountInv
  <2> QED BY <1>6, <2>1, <2>2
<1>8. ASSUME NEW m \in Models, CountOf(m)' > 0
      PROVE  m \in model_policies' \/ \E k \in Jobs : At(k, "policy")' /\ obj'[k].model = m
  <2>1. CASE m = n
      BY <1>1, <1>4, <2>1
  <2>2. CASE m # n
    <3>1. m \in model_policies \/ \E k \in Jobs : At(k, "policy") /\ obj[k].model = m
        BY <1>6, <1>8, <2>2 DEF CountInv
    <3> QED BY <1>1, <1>2, <1>5, <2>2, <3>1 DEF At, Active
  <2> QED BY <2>1, <2>2
<1>9. ASSUME NEW k \in Jobs PROVE ~At(k, "dropcount")' /\ ~At(k, "droppolicy")'
    BY <1>2, <1>5 DEF At, Active, Parallel
<1> QED BY <1>1, <1>5, <1>7, <1>8, <1>9 DEF CountInv

LEMMA AssignCounts ==
    ASSUME RegistryInv, OwnInv, CountInv, NEW j \in Jobs, AssignPolicy(j) PROVE CountInv'
<1> DEFINE n == obj[j].model
<1>1. /\ At(j, "policy") /\ Goto(j, "policy", {}) /\ "policy" \in Steps
      /\ UNCHANGED <<workers, model_worker_counts, job, clash, obj>>
      /\ model_policies' = model_policies \cup {n}
    BY DEF AssignPolicy, registry, local, Steps
<1>2. /\ \A k \in Jobs \ {j} : todo'[k] = todo[k]
      /\ todo'[j] = (todo[j] \ {"policy"}) \cup {} /\ todo[j] \subseteq Parallel /\ Active(j)
    BY <1>1, StepFacts DEF Parallel
<1>3. Active(j)' /\ Uncounted(j)' <=> Uncounted(j)
    BY <1>1, <1>2 DEF Active, Uncounted, In
<1>4. \A k \in Jobs : (Active(k) => k = j) /\ (Active(k)' => k = j)
    BY <1>2 DEF CountInv, Active
<1>5. ASSUME NEW m \in Models
      PROVE  Registered(m)' = Registered(m) /\ CountOf(m)' = CountOf(m) /\ (Pending(m)' <=> Pending(m))
    BY <1>1, <1>2, <1>3, <1>4 DEF Registered, CountOf, Pending
<1>6. \A m \in Models : (Cardinality(Registered(m)) <= CountOf(m) + (IF Pending(m) THEN 1 ELSE 0))'
    BY <1>5 DEF CountInv
<1>7. ASSUME NEW m \in Models, CountOf(m)' > 0 PROVE m \in model_policies'
    BY <1>1, <1>4, <1>5, <1>7 DEF CountInv, At, Active
<1>8. ASSUME NEW k \in Jobs PROVE ~At(k, "dropcount")' /\ ~At(k, "droppolicy")'
    BY <1>2, <1>4 DEF At, Active, Parallel
<1> QED BY <1>1, <1>4, <1>6, <1>7, <1>8 DEF CountInv

\* A removal first counts its worker out, then drops the policy of a model whose count has
\* come to nothing.
LEMMA UncountCounts ==
    ASSUME RegistryInv, OwnInv, CountInv, NEW j \in Jobs, Uncount(j) PROVE CountInv'
<1> DEFINE n == obj[j].model
<1>1. /\ At(j, "uncount") /\ "uncount" \in Steps
      /\ UNCHANGED <<workers, model_policies, job, clash, obj>>
    BY DEF Uncount, registry, local, Steps
<1>2. PICK t \in {"unmap", "dropcount"} : Goto(j, "uncount", {t})
    BY DEF Uncount
<1>3. /\ \A k \in Jobs \ {j} : todo'[k] = todo[k]
      /\ todo[j] = {"uncount"} /\ todo'[j] = {t} /\ Active(j)
      /\ obj[j] \in Object
    BY <1>1, <1>2, StepFacts DEF Parallel, Steps
<1>4. job[j].kind = "remove" /\ n \in Models
    BY <1>1, <1>3 DEF OwnInv, JobsOwn, Fits, At, RemoveSteps, Object
<1>5. Active(j)' /\ (\A s : At(j, s)' <=> t = s) /\ Uncounted(j)' /\ ~Uncounted(j)
    BY <1>1, <1>3, <1>4 DEF Active, At, Uncounted, In
<1>6. \A k \in Jobs : (Active(k) => k = j) /\ (Active(k)' => k = j)
    BY <1>3 DEF CountInv, Active
<1>7. /\ \A m \in Models : CountOf(m) \in Nat
      /\ \A m \in Models : CountOf(m)' = IF m # n THEN CountOf(m)
                                         ELSE IF CountOf(m) = 0 THEN 0 ELSE CountOf(m) - 1
      /\ t = "dropcount" => CountOf(n)' = 0
  <2>1. \A m \in Models : CountOf(m) \in Nat
      BY RegisteredFinite
  <2>2. CASE model_worker_counts[n] = None
    <3>1. Goto(j, "uncount", {"unmap"}) /\ UNCHANGED model_worker_counts
        BY <2>2 DEF Uncount
    <3>2. t # "dropcount"
        BY <1>3, <3>1 DEF Goto, RegistryInv, TypeOK
    <3> QED BY <2>1, <2>2, <3>1, <3>2 DEF CountOf
  <2>3. CASE model_worker_counts[n] # None
    <3> DEFINE c == model_worker_counts[n]
               left == IF c = 0 THEN 0 ELSE c - 1
    <3>1. /\ c \in Nat /\ left \in Nat
          /\ model_worker_counts' = [model_worker_counts EXCEPT ![n] = left]
          /\ Goto(j, "uncount", IF left = 0 THEN {"dropcount"} ELSE {"unmap"})
        BY <1>4, <2>3 DEF Uncount, RegistryInv, TypeOK
    <3> HIDE DEF left
    <3>2. t = "dropcount" => left = 0
      <4>1. left # 0 => "unmap" \in todo'[j]
          BY <3>1 DEF Goto, RegistryInv, TypeOK
      <4> QED BY <1>3, <4>1
    <3>3. \A m \in Models : model_worker_counts'[m] = IF m = n THEN left ELSE model_worker_counts[m]
        BY <3>1, <1>4 DEF RegistryInv, TypeOK
    <3>4. CountOf(n) = c /\ \A m \in Models : CountOf(m)' = IF m = n THEN left ELSE CountOf(m)
      <4>1. left # None
          BY <3>1, RegistryAssumption
      <4> QED BY <1>4, <2>3, <3>3, <4>1 DEF CountOf
    <3>5. t = "dropcount" => CountOf(n)' = 0
      <4>1. model_worker_counts'[n] = left /\ UNCHANGED obj
          BY <1>1, <1>4, <3>3
      <4> QED BY <3>2, <4>1 DEF CountOf
    <3> QED BY <2>1, <3>4, <3>5 DEF left
  <2> QED BY <2>2, <2>3
<1>8. ASSUME NEW m \in Models PROVE Cardinality(Registered(m))' <= CountOf(m)' + (IF Pending(m)' THEN 1 ELSE 0)
  <2>1. ~Pending(m) /\ (Pending(m)' <=> m = n) /\ Registered(m)' = Registered(m)
      BY <1>1, <1>5, <1>6 DEF Pending, Registered
  <2>2. /\ Cardinality(Registered(m)) \in Nat
        /\ Cardinality(Registered(m)) <= CountOf(m)
      BY <2>1, <1>7, RegisteredFinite DEF CountInv
  <2> QED BY <1>7, <2>1, <2>2
<1>9. ASSUME NEW m \in Models, CountOf(m)' > 0 PROVE m \in model_policies'
  <2>1. CountOf(m) > 0
      BY <1>7, <1>9
  <2> QED BY <1>1, <1>3, <1>6, <2>1 DEF CountInv, At, Active
<1>10. ASSUME NEW k \in Jobs, At(k, "dropcount")' \/ At(k, "droppolicy")' PROVE CountOf(obj[k].model)' = 0
  <2>1. k = j /\ t = "dropcount"
      BY <1>5, <1>6, <1>10 DEF At, Active
  <2> QED BY <1>1, <1>7, <2>1 DEF CountOf
<1> QED BY <1>1, <1>6, <1>8, <1>9, <1>10 DEF CountInv

LEMMA DropCounts ==
    ASSUME RegistryInv, OwnInv, CountInv, NEW j \in Jobs, DropCount(j) \/ DropPolicy(j) PROVE CountInv'
<1> DEFINE n == obj[j].model
<1>1. PICK s \in {"dropcount", "droppolicy"}, t \in {"droppolicy", "unmap"} :
         /\ At(j, s) /\ Goto(j, s, {t})
         /\ UNCHANGED <<workers, job, clash, obj>>
         /\ \/ UNCHANGED model_policies /\ model_worker_counts' = [model_worker_counts EXCEPT ![n] = None]
            \/ UNCHANGED model_worker_counts /\ model_policies' = model_policies \ {n}
    BY DEF DropCount, DropPolicy, registry, local
<1>2. /\ \A k \in Jobs \ {j} : todo'[k] = todo[k]
      /\ todo[j] = {s} /\ todo'[j] = {t} /\ Active(j)
    BY <1>1, StepFacts DEF Parallel, Steps
<1>3. job[j].kind = "remove"
    BY <1>1 DEF OwnInv, JobsOwn, Fits, At, RemoveSteps
<1>4. Active(j)' /\ (\A st : At(j, st)' <=> t = st) /\ Uncounted(j)' /\ Uncounted(j)
    BY <1>1, <1>2, <1>3 DEF Active, At, Uncounted, In
<1>5. \A k \in Jobs : (Active(k) => k = j) /\ (Active(k)' => k = j)
    BY <1>2 DEF CountInv, Active
<1>6. CountOf(n) = 0
    BY <1>1 DEF CountInv
<1>7. \A m \in Models : CountOf(m)' = CountOf(m)
    BY <1>1, <1>6 DEF CountOf, RegistryInv, TypeOK
<1>8. ASSUME NEW m \in Models PROVE (Pending(m)' <=> Pending(m)) /\ Registered(m)' = Registered(m)
    BY <1>1, <1>2, <1>4, <1>5 DEF Pending, Registered
<1>9. \A m \in Models : (Cardinality(Registered(m)) <= CountOf(m) + (IF Pending(m) THEN 1 ELSE 0))'
    BY <1>7, <1>8 DEF CountInv
<1>10. ASSUME NEW m \in Models, CountOf(m)' > 0 PROVE m \in model_policies'
  <2>1. CountOf(m) > 0 /\ m # n
      BY <1>6, <1>7, <1>10
  <2>2. \A k \in Jobs : ~At(k, "policy")
      BY <1>2, <1>5 DEF At, Active
  <2> QED BY <1>1, <2>1, <2>2 DEF CountInv
<1>11. ASSUME NEW k \in Jobs, At(k, "dropcount")' \/ At(k, "droppolicy")' PROVE CountOf(obj[k].model)' = 0
  <2>1. k = j
      BY <1>5, <1>11 DEF At, Active
  <2>2. obj[j] \in Object
      BY <1>1 DEF RegistryInv, Equipped, TypeOK, At
  <2> QED BY <1>1, <1>6, <1>7, <2>1, <2>2 DEF CountOf, Object
<1> QED BY <1>1, <1>5, <1>9, <1>10, <1>11 DEF CountInv

\* The worker that was counted out is taken out.
LEMMA TakeCounts ==
    ASSUME RegistryInv, OwnInv, UrlsInv, CountInv, NEW j \in Jobs, Take(j) PROVE CountInv'
<1> DEFINE u == job[j].url
           n == obj[j].model
<1>1. /\ At(j, "take") /\ UNCHANGED <<model_worker_counts, model_policies, job, clash>>
      /\ \A k \in Jobs \ {id[j]} : workers'[k] = workers[k]
      /\ workers'[id[j]] = None
    BY DEF Take, policies, local, RegistryInv, TypeOK, Equipped, At, WithId
<1>2. u \in Urls /\ Mine(j, u) /\ UrlInv(u) /\ id[j] \in Jobs
  <2>1. job[j] # None /\ job[j] \in Request /\ id[j] \in Jobs
      BY <1>1 DEF RegistryInv, Equipped, TypeOK, At, WithId
  <2>2. u \in Urls /\ Mine(j, u)
      BY <2>1 DEF Request, Mine
  <2> QED BY <2>1, <2>2 DEF UrlsInv, CountInv
<1>3. UNCHANGED obj /\ todo'[j] = {"forget"}
    BY <1>2, TakeMoves
<1>4. job[j].kind = "remove"
    BY <1>1 DEF OwnInv, JobsOwn, Fits, At, RemoveSteps
<1>5. PICK then \in {{}, {"forget"}} : Goto(j, "take", then)
    BY DEF Take
<1>6. /\ Active(j) /\ Removing(j) /\ todo[j] = {"take"}
      /\ \A k \in Jobs \ {j} : todo'[k] = todo[k]
      /\ obj[j] \in Object /\ obj[j] # None
    BY <1>1, <1>2, <1>4, <1>5, RemoveFacts DEF Steps, RemoveSteps
<1>7. workers[id[j]] = obj[j]
    BY <1>1, <1>6 DEF Removing
<1>8. Active(j)' /\ (\A s : At(j, s)' <=> "forget" = s) /\ ~Uncounted(j)' /\ Uncounted(j)
    BY <1>1, <1>3, <1>4, <1>6 DEF Active, At, Uncounted, In
<1>9. \A k \in Jobs : (Active(k) => k = j) /\ (Active(k)' => k = j)
    BY <1>6 DEF CountInv, Active
<1>10. ASSUME NEW m \in Models PROVE Cardinality(Registered(m))' <= CountOf(m)' + (IF Pending(m)' THEN 1 ELSE 0)
  <2>1. (Pending(m) <=> m = n) /\ ~Pending(m)' /\ CountOf(m)' = CountOf(m)
      BY <1>1, <1>6, <1>8, <1>9 DEF Pending, CountOf
  <2>2. /\ IsFiniteSet(Registered(m)) /\ Cardinality(Registered(m)) \in Nat /\ CountOf(m) \in Nat
        /\ Cardinality(Registered(m)) <= CountOf(m) + (IF Pending(m) THEN 1 ELSE 0)
      BY RegisteredFinite DEF CountInv
  <2>3. Registered(m)' = Registered(m) \ {id[j]} /\ (m = n => id[j] \in Registered(m))
        /\ (m # n => id[j] \notin Registered(m))
      BY <1>1, <1>2, <1>6, <1>7 DEF Registered
  <2>4. CASE m = n
    <3>1. Cardinality(Registered(m) \ {id[j]}) = Cardinality(Registered(m)) - 1
        BY <2>2, <2>3, <2>4, FS_RemoveElement
    <3> QED BY <2>1, <2>2, <2>3, <2>4, <3>1
  <2>5. CASE m # n
    <3>1. Registered(m)' = Registered(m)
        BY <2>3, <2>5
    <3> QED BY <2>1, <2>2, <2>5, <3>1
  <2> QED BY <2>4, <2>5
<1>11. ASSUME NEW m \in Models, CountOf(m)' > 0 PROVE m \in model_policies'
    BY <1>1, <1>6, <1>9, <1>11 DEF CountOf, CountInv, At, Active
<1>12. ASSUME NEW k \in Jobs PROVE ~At(k, "dropcount")' /\ ~At(k, "droppolicy")'
    BY <1>8, <1>9 DEF At, Active
<1> QED BY <1>1, <1>9, <1>10, <1>11, <1>12 DEF CountInv

LEMMA SubmitCounts == ASSUME RegistryInv, OwnInv, PolicyInv, Submit PROVE PolicyInv'
<1> SUFFICES ASSUME overlap' = {} PROVE CountInv'
    BY DEF PolicyInv
<1>1. ASSUME NEW kind \in Kinds, NEW u \in Urls, NEW step \in {"find", "lookup"},
             Start(kind, u, step), step = "find" <=> kind # "add",
             UNCHANGED <<workers, model_worker_counts, model_policies>>
      PROVE  CountInv'
  <2>1. overlap = {} /\ \A k \in Jobs : ~Active(k)
      BY <1>1 DEF Start
  <2>2. clash' = {} /\ CountInv
      BY <1>1, <2>1 DEF Start, Busy, PolicyInv, CountInv
  <2>3. /\ next \in Jobs /\ job'[next] # None /\ todo'[next] = {step}
        /\ \A k \in Jobs \ {next} : todo'[k] = todo[k]
      BY <1>1, StartOwns
  <2>4. \A k \in Jobs : Active(k)' => k = next
      BY <2>1, <2>3 DEF Active
  <2>5. ASSUME NEW m \in Models
        PROVE  Registered(m)' = Registered(m) /\ CountOf(m)' = CountOf(m) /\ ~Pending(m) /\ ~Pending(m)'
    <3>1. ~Pending(m)
        BY <2>1 DEF Pending
    <3>2. ASSUME NEW k \in Jobs, Active(k)' PROVE ~Uncounted(k)'
        BY <2>3, <2>4, <3>2 DEF Uncounted, In
    <3> QED BY <1>1, <3>1, <3>2 DEF Registered, CountOf, Pending
  <2>6. \A m \in Models : (Cardinality(Registered(m)) <= CountOf(m) + (IF Pending(m) THEN 1 ELSE 0))'
      BY <2>2, <2>5 DEF CountInv
  <2>7. \A k \in Jobs : /\ ~At(k, "policy")
                        /\ ~At(k, "dropcount")' /\ ~At(k, "droppolicy")'
      BY <2>1, <2>3 DEF At, Active
  <2> QED BY <1>1, <2>2, <2>4, <2>5, <2>6, <2>7 DEF CountInv
<1>2. ASSUME NEW o \in Offers, NEW reserve \in BOOLEAN, NEW unchecked \in BOOLEAN,
             AddWorker(o, reserve, unchecked)
      PROVE  CountInv'
    BY <1>1, <1>2, RegistryAssumption DEF AddWorker, Kinds, policies
<1>3. ASSUME NEW u \in Urls, RemoveWorker(u) \/ UpdateWorker(u) PROVE CountInv'
    BY <1>1, <1>3 DEF RemoveWorker, UpdateWorker, Kinds, policies, registry
<1> QED BY <1>2, <1>3 DEF Submit

LEMMA NextCounts ==
    ASSUME RegistryInv, OwnInv, UrlsInv, RegistryInv', PolicyInv, [Next]_vars PROVE PolicyInv'
<1>1. CASE Submit
    BY <1>1, SubmitCounts
<1>2. ASSUME NEW j \in Jobs, Find(j) \/ Register(j) \/ Activate(j) \/ Remove(j) \/ Policies(j)
      PROVE  PolicyInv'
  <2>1. UNCHANGED overlap
      BY <1>2 DEF Find, Register, Activate, Remove, Policies, Lookup, Store, MapUrl, Index,
           RebuildHashRing, PushType, PushMode, Sync, Count, AssignPolicy, Uncount, DropCount,
           DropPolicy, Unmap, Take, Forget, Unindex, DropType, DropMode, Retire, Unsync, local
  <2>2. CountInv => CountInv'
      BY <1>2, FramedCounts, ActivateCounts, UnmapCounts, StoreCounts, CountCounts, AssignCounts,
         UncountCounts, DropCounts, TakeCounts
      DEF Register, Remove, Policies
  <2> QED BY <2>1, <2>2 DEF PolicyInv
<1>3. CASE UNCHANGED vars
    BY <1>3 DEF vars, registry, policies, local, PolicyInv, CountInv, Registered, CountOf, Pending,
                Uncounted, Active, At, In
<1> QED BY <1>1, <1>2, <1>3 DEF Next

-----------------------------------------------------------------------------
SettledInv == RegistryInv /\ OwnInv /\ UrlsInv /\ PolicyInv

LEMMA SettledInvariant == Spec => []SettledInv
<1>1. Init => SettledInv
    BY InitRegistry, InitOwn, InitUrls, InitCounts DEF SettledInv
<1>2. SettledInv /\ [Next]_vars => SettledInv'
    BY NextKeeps, NextOwns, NextUrls, NextCounts DEF SettledInv
<1> QED BY <1>1, <1>2, PTL DEF Spec

LEMMA SettledEnough == SettledInv => SettledIsConsistent
<1> SUFFICES ASSUME SettledInv PROVE SettledIsConsistent OBVIOUS
<1>1. ASSUME NEW u \in Urls, Settled(u) PROVE Stable(u)
    BY <1>1 DEF Settled, SettledInv, UrlsInv, UrlInv
<1>2. ASSUME NEW u \in Urls, Settled(u), Found(u) # None
      PROVE  LET w == Found(u)
                 i == url_to_id[u] IN
             /\ w.url = u /\ w.n \in healthy
             /\ w \in model_index[w.model] /\ u \in hash_rings[w.model]
             /\ i \in type_workers[w.type] /\ i \in connection_workers[w.mode] /\ i \in mesh
  <2>1. Served(u)
      BY <1>1, <1>2 DEF Stable, Gone, Found
  <2>2. url_to_id[u] \in Jobs /\ workers[url_to_id[u]] # None
      BY <2>1 DEF Served, SettledInv, RegistryInv, TypeOK
  <2>3. workers[url_to_id[u]].url = u
      BY <2>1, <2>2 DEF Served, SettledInv, OwnInv, JobsOwn, MapsOwn, Mine
  <2> QED BY <2>1, <2>3 DEF Served, Found
<1>3. ASSUME NEW u \in Urls, Settled(u), OneModel(u), Found(u) = None
      PROVE  /\ \A i \in Jobs : workers[i] # None => workers[i].url # u
             /\ \A m \in Models : u \notin RingOf(model_index[m]) /\ u \notin hash_rings[m]
  <2>1. Gone(u)
      BY <1>1, <1>3 DEF Stable, Served, Found
  <2> QED BY <1>3, <2>1, NoneIsNoJob DEF Gone, Only, Unlisted, Unringed
<1>4. ASSUME overlap = {}, \A j \in Jobs : ~Active(j), NEW i \in Jobs, workers[i] # None
      PROVE  workers[i].model \in model_policies
  <2> DEFINE m == workers[i].model
  <2>1. CountInv /\ m \in Models /\ i \in Registered(m)
      BY <1>4 DEF SettledInv, PolicyInv, RegistryInv, TypeOK, Object, Registered
  <2>2. ~Pending(m) /\ \A k \in Jobs : ~At(k, "policy")
      BY <1>4 DEF Pending, At, Active
  <2>3. CountOf(m) > 0
    <3>1. /\ Cardinality(Registered(m)) \in Nat /\ CountOf(m) \in Nat
          /\ Cardinality(Registered(m)) > 0
        BY <2>1, RegisteredFinite DEF SettledInv
    <3>2. Cardinality(Registered(m)) <= CountOf(m)
        BY <2>1, <2>2, <3>1 DEF CountInv
    <3> QED BY <3>1, <3>2
  <2> QED BY <2>1, <2>2, <2>3 DEF CountInv
<1> QED BY <1>2, <1>3, <1>4 DEF SettledIsConsistent, RegisteredIsServed, RemovedIsGone, PolicyWhileWorkers

(***************************************************************************)
(* What register, remove and the policy bookkeeping leave behind, for any  *)
(* urls, models, offers, number of jobs and permits: a url on which jobs   *)
(* never overlapped is served completely or gone completely, whatever the  *)
(* jobs on other urls do between its map accesses, and a model with        *)
(* workers keeps its policy as long as jobs run one after another.         *)
(* The invariant says that ids and objects never leave their url (OwnInv), *)
(* so that the steps of other jobs do not touch what a url relies on, and  *)
(* how far the one job on a url has come (UrlsInv); for the policies, that *)
(* a model's count is at least the number of its workers, but for the one  *)
(* the running job is about to count or has counted out (PolicyInv).       *)
(***************************************************************************)
THEOREM SettledUrlsConsistent == Spec => []SettledIsConsistent
<1> QED BY SettledInvariant, SettledEnough, PTL
=============================================================================
