----------------------- MODULE ServiceDiscoveryProofs -----------------------
(***************************************************************************)
(* Proofs about JobQueue and about ServiceDiscovery on top of it, for any  *)
(* jobs, keys, pods, capacities and permits.                               *)
(***************************************************************************)
EXTENDS ServiceDiscovery, FiniteSetTheorems, TLAPS

-----------------------------------------------------------------------------
(* The queue *)

Entries == [job : Jobs, state : {"pending", "processing", "failed"}]

QueueType ==
    /\ queue \in Seq(Jobs)
    /\ held \in Jobs \cup {None}
    /\ phase \in [Jobs -> Phases] /\ submitted \in [Jobs -> Nat]
    /\ status \in [Keys -> Entries \cup {None}]

\* A job is in one place: what is in the channel is queued, and is there once; what the
\* dispatcher holds is held.
Placed ==
    /\ \A i \in 1..Len(queue) : phase[queue[i]] = "queued"
    /\ \A i, j \in 1..Len(queue) : queue[i] = queue[j] => i = j
    /\ held # None => phase[held] = "held"

\* A status is that of a job of its key: a job replaces the status of no other key.
Owned == \A k \in Keys : status[k] # None => Key[status[k].job] = k

\* What the status says of a job and where the job is.
Fits(state, p) ==
    CASE state = "pending" -> p \in {"sending", "queued", "held", "spawned", "cancelled"}
      [] state = "processing" -> p \in {"begun", "running"}
      [] OTHER -> p = "over"

QueueInv == QueueType /\ Placed /\ Owned /\ StatusNotStale

\* The head of a channel that is not empty, and what is left.
LEMMA HeadAndTail ==
    ASSUME QueueType, Placed, queue # <<>>
    PROVE  /\ Head(queue) \in Jobs /\ phase[Head(queue)] = "queued"
           /\ Tail(queue) \in Seq(Jobs) /\ Len(Tail(queue)) = Len(queue) - 1
           /\ Len(queue) > 0
           /\ \A i \in 1..Len(Tail(queue)) : /\ i + 1 \in 1..Len(queue)
                                             /\ Tail(queue)[i] = queue[i + 1]
                                             /\ Tail(queue)[i] # Head(queue)
<1>1. Len(queue) \in Nat /\ Len(queue) > 0 /\ Head(queue) = queue[1]
  BY DEF QueueType
<1>2. Tail(queue) \in Seq(Jobs) /\ Len(Tail(queue)) = Len(queue) - 1
      /\ \A i \in 1..Len(Tail(queue)) : Tail(queue)[i] = queue[i + 1]
  BY <1>1 DEF QueueType
<1>3. ASSUME NEW i \in 1..Len(Tail(queue)) PROVE i + 1 \in 1..Len(queue) /\ i + 1 # 1
  BY <1>1, <1>2
<1>4. 1 \in 1..Len(queue) /\ queue[1] \in Jobs
  BY <1>1 DEF QueueType
<1> QED
  BY <1>1, <1>2, <1>3, <1>4 DEF Placed

\* A step of one job that leaves channel and dispatcher alone and moves a job that is in
\* neither of them to a place outside of both.
LEMMA OtherPlaces ==
    ASSUME QueueType, Placed, NEW j \in Jobs, NEW place \in Phases \ {"queued", "held"},
           phase[j] \notin {"queued", "held"},
           Move(j, place), UNCHANGED <<queue, held>>
    PROVE  Placed' /\ phase' \in [Jobs -> Phases]
BY DEF QueueType, Placed, Move

\* A job that was not in the channel becomes the last one.
LEMMA LastInQueue ==
    ASSUME QueueType, Placed, NEW j \in Jobs, phase[j] = "sending",
           Move(j, "queued"), queue' = Append(queue, j), held' = held
    PROVE  Placed' /\ queue' \in Seq(Jobs)
<1>1. /\ queue' \in Seq(Jobs) /\ Len(queue') = Len(queue) + 1 /\ Len(queue) \in Nat
      /\ queue'[Len(queue) + 1] = j /\ \A i \in 1..Len(queue) : queue'[i] = queue[i]
      /\ \A i \in 1..Len(queue) : queue[i] \in Jobs
  BY DEF QueueType
<1>2. \A i \in Jobs : phase'[i] = IF i = j THEN "queued" ELSE phase[i]
  BY DEF QueueType, Move, Phases
<1>3. ASSUME NEW i \in 1..Len(queue')
      PROVE  (i \in 1..Len(queue) /\ queue'[i] # j) \/ (i = Len(queue) + 1 /\ queue'[i] = j)
  <2>1. i \in 1..Len(queue) \/ i = Len(queue) + 1
    BY <1>1
  <2>2. \A l \in 1..Len(queue) : queue[l] # j
    BY DEF Placed
  <2> QED
    BY <1>1, <2>1, <2>2
<1>4. ASSUME NEW i \in 1..Len(queue') PROVE phase'[queue'[i]] = "queued"
  BY <1>1, <1>2, <1>3 DEF Placed
<1>5. ASSUME NEW i \in 1..Len(queue'), NEW l \in 1..Len(queue'), queue'[i] = queue'[l] PROVE i = l
  <2>1. i \in 1..Len(queue) <=> l \in 1..Len(queue)
    BY <1>3, <1>5
  <2>2. CASE i \in 1..Len(queue)
    BY <1>1, <1>5, <2>1, <2>2 DEF Placed
  <2> QED
    BY <1>3, <2>1, <2>2
<1>6. held' # None => phase'[held'] = "held"
  BY <1>2 DEF QueueType, Placed
<1> QED
  BY <1>1, <1>4, <1>5, <1>6 DEF Placed

\* Every step of the queue keeps the invariant.
LEMMA QueueStep ==
    ASSUME QueueInv, [Next]_vars
    PROVE  QueueInv'
<1> USE QueueAssumption DEF QueueInv, QueueType
<1>1. CASE UNCHANGED vars
  BY <1>1 DEF vars, Placed, Owned, StatusNotStale
<1>2. ASSUME NEW j \in Jobs, NEW place \in Phases \ {"queued", "held"}, NEW state \in {"pending", "processing", "failed"},
             phase[j] \notin {"queued", "held"}, Move(j, place), Write(j, state),
             UNCHANGED <<queue, held>>, submitted' \in [Jobs -> Nat],
             CASE state = "pending" -> place = "sending"
               [] state = "processing" -> place = "begun"
               [] OTHER -> place = "over"
      PROVE  QueueInv'
  <2>1. Placed' /\ phase' \in [Jobs -> Phases]
    BY <1>2, OtherPlaces
  <2>2. status' \in [Keys -> Entries \cup {None}] /\ Owned'
    BY <1>2 DEF Write, Entries, Owned
  <2>3. StatusNotStale'
    BY <1>2 DEF Write, Move, Owned, Entries, StatusNotStale, Phases
  <2> QED
    BY <1>2, <2>1, <2>2, <2>3
<1>3. ASSUME NEW j \in Jobs, Submit(j) PROVE QueueInv'
  BY <1>2, <1>3 DEF Submit, Phases
<1>4. ASSUME NEW j \in Jobs, Begin(j) PROVE QueueInv'
  BY <1>2, <1>4 DEF Begin, Phases
<1>5. ASSUME NEW j \in Jobs, Fail(j) PROVE QueueInv'
  BY <1>2, <1>5 DEF Fail, Phases
<1>6. ASSUME NEW j \in Jobs, SubmitChild(j) PROVE QueueInv'
  <2> DEFINE n == submitted[j] + 1
             c == Children[j][n]
  <2>1. n \in 1..Len(Children[j]) /\ c \in Jobs
    BY <1>6 DEF SubmitChild
  <2>2. phase[c] = "new" /\ Move(c, "sending") /\ Write(c, "pending") /\ UNCHANGED <<queue, held>>
        /\ submitted' \in [Jobs -> Nat]
    BY <1>6, <2>1 DEF SubmitChild
  <2> HIDE DEF c
  <2> QED
    BY <1>2, <2>1, <2>2 DEF Phases
<1>7. ASSUME NEW j \in Jobs, NEW ok \in BOOLEAN, Complete(j, ok) PROVE QueueInv'
  <2>1. CASE ~ok
    BY <1>2, <1>7, <2>1 DEF Complete, Phases
  <2>2. CASE ok
    <3>1. Placed' /\ phase' \in [Jobs -> Phases]
      BY <1>7, OtherPlaces DEF Complete, Phases
    <3>2. status' \in [Keys -> Entries \cup {None}] /\ Owned' /\ UNCHANGED <<queue, held>>
      BY <1>7, <2>2 DEF Complete, Erase, Owned
    <3>3. ASSUME NEW k \in Keys, status'[k] # None
          PROVE  k # Key[j] /\ status'[k] = status[k] /\ phase'[status[k].job] = phase[status[k].job]
      BY <1>7, <2>2, <3>3 DEF Complete, Erase, Move, Owned, Entries
    <3>4. StatusNotStale'
      <4>1. ASSUME NEW k \in Keys, status[k] # None PROVE Fits(status[k].state, phase[status[k].job])
        BY <4>1 DEF StatusNotStale, Fits
      <4>2. ASSUME NEW k \in Keys, status'[k] # None
            PROVE  Fits(status'[k].state, phase'[status'[k].job])
        BY <3>3, <4>1, <4>2
      <4> QED BY <4>2 DEF StatusNotStale, Fits
    <3> QED
      BY <1>7, <3>1, <3>2, <3>4 DEF Complete
  <2> QED
    BY <2>1, <2>2
<1>8. ASSUME NEW j \in Jobs, Refuse(j) \/ Cancel(j) \/ Run(j) PROVE QueueInv'
  <2>1. Placed' /\ phase' \in [Jobs -> Phases]
    BY <1>8, OtherPlaces DEF Refuse, Cancel, Run, Phases
  <2>2. UNCHANGED <<queue, held, submitted, status>>
    BY <1>8 DEF Refuse, Cancel, Run
  <2>3. StatusNotStale'
    BY <1>8, <2>2 DEF Refuse, Cancel, Run, Move, Entries, StatusNotStale
  <2> QED
    BY <2>1, <2>2, <2>3 DEF Owned
<1>9. ASSUME NEW j \in Jobs, Enqueue(j) PROVE QueueInv'
  <2>1. Placed' /\ queue' \in Seq(Jobs)
    BY <1>9, LastInQueue DEF Enqueue
  <2>2. StatusNotStale' /\ Owned'
    BY <1>9 DEF Enqueue, Move, Entries, StatusNotStale, Owned
  <2> QED
    BY <1>9, <2>1, <2>2 DEF Enqueue, Move, Phases
<1>10. CASE Take
  <2>1. queue # <<>>
    BY <1>10 DEF Take
  <2>2. Placed'
    BY <1>10, <2>1, HeadAndTail DEF Take, Move, Placed, Phases
  <2>3. StatusNotStale' /\ Owned'
    BY <1>10, <2>1, HeadAndTail DEF Take, Move, Entries, StatusNotStale, Owned
  <2> QED
    BY <1>10, <2>1, <2>2, <2>3, HeadAndTail DEF Take, Move, Phases
<1>11. CASE Spawn
  <2>1. held \in Jobs /\ phase[held] = "held"
    BY <1>11 DEF Spawn, Placed
  <2>2. Placed' /\ phase' \in [Jobs -> Phases]
    <3>1. /\ held' = None /\ queue' = queue /\ phase' = [phase EXCEPT ![held] = "spawned"]
      BY <1>11 DEF Spawn, Move
    <3>2. phase' \in [Jobs -> Phases]
      BY <2>1, <3>1 DEF Phases
    <3>3. ASSUME NEW i \in 1..Len(queue) PROVE phase'[queue[i]] = "queued"
      <4>1. queue[i] \in Jobs /\ phase[queue[i]] = "queued"
        BY DEF Placed
      <4> QED BY <2>1, <3>1, <4>1
    <3> QED BY <3>1, <3>2, <3>3 DEF Placed
  <2>3. StatusNotStale' /\ Owned'
    BY <1>11, <2>1 DEF Spawn, Move, Entries, StatusNotStale, Owned
  <2> QED
    BY <1>11, <2>2, <2>3 DEF Spawn
<1>12. ASSUME NEW k \in Keys, CleanUp(k) PROVE QueueInv'
  BY <1>12 DEF CleanUp, Erase, Placed, Owned, Entries, StatusNotStale
<1>13. CASE Shutdown
  BY <1>13 DEF Shutdown, Placed, Owned, StatusNotStale
<1> QED
  BY <1>1, <1>3, <1>4, <1>5, <1>6, <1>7, <1>8, <1>9, <1>10, <1>11, <1>12, <1>13 DEF Next, Work

LEMMA QueueStart == Init => QueueInv
BY QueueAssumption DEF Init, QueueInv, QueueType, Placed, Owned, StatusNotStale, Phases

(* Whatever jobs share a key, and however they overwrite, remove and clean *)
(* up each other's status, the admin API never reports work that is over.  *)
THEOREM StatusesTrue == Spec => []StatusNotStale
<1>1. QueueInv /\ [Next]_vars => QueueInv'
  BY QueueStep
<1> QED
  BY <1>1, QueueStart, PTL DEF Spec, QueueInv
-----------------------------------------------------------------------------
(* Discovery *)

Ours == AddJobs \cup RemoveJobs
Underway == {"sending", "queued", "held", "spawned", "begun", "running"}
Healthy(p) == [pod |-> p, healthy |-> TRUE]

DiscoveryType ==
    /\ feed \in Seq(Versions)
    /\ cluster \in [Pods -> Versions \cup {None}]
    /\ tracked \subseteq {Healthy(p) : p \in Pods}
    /\ standing \in [Keys -> {"ours", "overridden", "astray"}] /\ enabled \in BOOLEAN

\* Discovery keeps the context alive, and where it is off nothing of it happens: a job of
\* discovery never finds the context gone.
Attached ==
    /\ enabled => alive
    /\ ~enabled => /\ cluster = [p \in Pods |-> None] /\ feed = <<>> /\ ~watching
                   /\ \A j \in Ours : phase[j] = "new"

\* A job that has not mingled is the only one of its key that is under way.
OneJob ==
    \A i, j \in Jobs :
        Key[i] = Key[j] /\ phase[i] \in Underway /\ phase[j] \in Underway /\ j \notin mingled => i = j

\* A job of discovery that is under way alone is the one that the tracked set calls for; with
\* none under way the registry agrees with the tracked set, where discovery had the last word.
Called(p) ==
    \A j \in Ours : Key[j] = Url[p] /\ phase[j] \in Underway /\ j \notin mingled =>
                         (j \in AddJobs <=> Healthy(p) \in tracked)
Settled(p) ==
    standing[Url[p]] = "ours" /\ (\A j \in Ours : Key[j] = Url[p] => phase[j] \notin Underway) =>
        (Url[p] \in registered <=> Healthy(p) \in tracked)

Alone(p) == \A q \in Pods : Url[q] = Url[p] => q = p

Follows == OneJob /\ \A p \in Pods : Alone(p) => Called(p) /\ Settled(p)

DInv == QueueInv /\ DiscoveryType /\ Attached /\ Follows

\* The job that a handler submits.
LEMMA HandlerSubmits ==
    ASSUME NEW jobs, NEW info, SubmitFor(jobs, info)
    PROVE  \E j \in jobs : /\ Key[j] = Url[info.pod] /\ phase[j] = "new"
                           /\ Submit(j) /\ Mingle(j) /\ UNCHANGED standing
<1> DEFINE fresh == {j \in jobs : Key[j] = Url[info.pod] /\ phase[j] = "new"}
           j == CHOOSE i \in fresh : TRUE
<1>1. fresh # {} /\ Submit(j) /\ Mingle(j) /\ UNCHANGED standing
  BY DEF SubmitFor
<1>2. j \in fresh
  BY <1>1
<1> QED
  BY <1>1, <1>2

\* What discovery does to the queue, the queue may do.
LEMMA QueueSteps ==
    ASSUME [DNext]_allvars
    PROVE  [Next]_vars
<1> USE DiscoveryAssumption DEF Roots
<1>1. CASE UNCHANGED allvars
  BY <1>1 DEF allvars
<1>2. CASE \E p \in Pods : PodAppears(p) \/ PodUpdated(p) \/ PodGone(p)
  BY <1>2 DEF PodAppears, PodUpdated, PodGone, Change
<1>3. CASE Connect \/ Break \/ IgnoreEvent \/ HandlerDone
  BY <1>3 DEF Connect, Break, IgnoreEvent, HandlerDone
<1>4. CASE HandlePodEvent \/ HandlePodDeletion
  <2>1. \E j \in Jobs : Submit(j)
    BY <1>4, HandlerSubmits DEF HandlePodEvent, HandlePodDeletion
  <2> QED
    BY <2>1 DEF Next
<1>5. CASE \E j \in Jobs : Progress(j) \/ (Enqueue(j) /\ UNCHANGED dvars)
  BY <1>5 DEF Progress, JobEnds, Next, Work
<1>6. CASE (Queueing \/ Take \/ Spawn) /\ UNCHANGED dvars
  BY <1>6 DEF Queueing, ApiJobs, Next
<1>7. CASE \E j \in ApiJobs : SubmitApi(j)
  BY <1>7 DEF SubmitApi, ApiJobs, Next
<1> QED
  BY <1>1, <1>2, <1>3, <1>4, <1>5, <1>6, <1>7 DEF DNext

\* A step that starts no job, and ends none of discovery.
Steady ==
    /\ \A j \in Jobs : phase'[j] \in Underway => phase[j] \in Underway
    /\ \A j \in Ours : phase'[j] = phase[j] \/ (phase[j] \in Underway /\ phase'[j] \in Underway)

\* Such a step keeps what the tracked set and the registry have to do with each other.
LEMMA SteadyFollows ==
    ASSUME Follows, Steady, UNCHANGED <<registered, tracked, mingled, standing>>
    PROVE  Follows'
<1>1. \A j \in Ours : phase'[j] \in Underway <=> phase[j] \in Underway
  BY DEF Steady
<1>2. OneJob'
  BY DEF OneJob, Follows, Steady
<1>3. ASSUME NEW p \in Pods, Called(p), Settled(p) PROVE Called(p)' /\ Settled(p)'
  BY <1>1, <1>3 DEF Called, Settled
<1> QED
  BY <1>2, <1>3 DEF Follows, Alone

\* A job that is submitted is alone, or it and the others of its key mingle.
LEMMA NewJob ==
    ASSUME DInv, NEW j \in Jobs, phase[j] = "new", Move(j, "sending"), Mingle(j)
    PROVE  /\ OneJob' /\ mingled \subseteq mingled'
           /\ \A i \in Jobs : phase'[i] \in Underway <=> (i = j \/ phase[i] \in Underway)
           /\ \A i \in Jobs : i # j /\ phase[i] \in Underway /\ Key[i] = Key[j] => i \in mingled'
<1>1. phase' = [phase EXCEPT ![j] = "sending"] /\ phase \in [Jobs -> Phases]
  BY DEF DInv, QueueInv, QueueType, Move
<1>2. \A i \in Jobs : phase'[i] \in Underway <=> (i = j \/ phase[i] \in Underway)
  BY <1>1 DEF Underway
<1>3. Busy(Key[j]) = {i \in Jobs : Key[i] = Key[j] /\ phase[i] \in Underway}
  BY DEF Busy, Underway
<1>4. j \notin Busy(Key[j])
  BY <1>3 DEF Underway
<1>5. CASE Busy(Key[j]) = {}
  <2>1. mingled' = mingled
    BY <1>5 DEF Mingle
  <2>2. \A i \in Jobs : Key[i] = Key[j] => phase[i] \notin Underway
    BY <1>3, <1>5
  <2>3. OneJob'
    BY <1>2, <2>1, <2>2 DEF OneJob, DInv, Follows
  <2> QED
    BY <1>2, <2>1, <2>2, <2>3
<1>6. CASE Busy(Key[j]) # {}
  <2>1. mingled' = mingled \cup Busy(Key[j]) \cup {j}
    BY <1>6 DEF Mingle
  <2>2. OneJob'
    BY <1>2, <1>3, <2>1 DEF OneJob, DInv, Follows
  <2> QED
    BY <1>2, <1>3, <2>1, <2>2
<1> QED
  BY <1>5, <1>6

LEMMA SteadyAttached ==
    ASSUME Attached, Steady, alive' = alive \/ ~enabled, UNCHANGED <<enabled, cluster, feed, watching>>
    PROVE  Attached'
BY DEF Attached, Steady, Underway

\* The queue's own steps start and end no job of discovery.
LEMMA QueueIsSteady ==
    ASSUME DInv,
           \/ \E j \in Jobs : Begin(j) \/ Fail(j) \/ Run(j) \/ Enqueue(j)
           \/ Take \/ Spawn \/ Queueing
    PROVE  Steady /\ (alive' = alive \/ ~enabled)
<1> USE DiscoveryAssumption, QueueAssumption DEF DInv, QueueInv, QueueType
<1>0. Ours \subseteq Jobs
  BY DEF Ours, Roots
<1>1. ASSUME NEW j \in Jobs, Begin(j) \/ Run(j) \/ Enqueue(j) PROVE Steady /\ alive' = alive
  BY <1>0, <1>1 DEF Begin, Run, Enqueue, Move, Steady, Underway
<1>2. ASSUME NEW j \in Jobs, Fail(j) PROVE Steady /\ alive' = alive
  <2>1. j \notin Ours
    BY <1>2 DEF Fail, Attached, DiscoveryType
  <2> QED
    BY <1>2, <2>1 DEF Fail, Move, Steady, Underway
<1>4. CASE Take
  <2>1. Head(queue) \in Jobs /\ phase[Head(queue)] = "queued"
    BY <1>4, HeadAndTail DEF Take
  <2> QED
    BY <1>4, <2>1 DEF Take, Move, Steady, Underway
<1>5. CASE Spawn
  BY <1>5 DEF Spawn, Placed, Move, Steady, Underway
<1>6. CASE Queueing
  <2>1. CASE \E i \in ApiJobs : Refuse(i) \/ Cancel(i)
    BY <1>0, <2>1 DEF ApiJobs, Ours, Refuse, Cancel, Move, Steady, Underway
  <2>2. CASE \E k \in Keys : CleanUp(k)
    BY <2>2 DEF CleanUp, Steady
  <2>3. CASE ~enabled /\ Shutdown
    BY <2>3 DEF Shutdown, Steady
  <2> QED
    BY <1>6, <2>1, <2>2, <2>3 DEF Queueing
<1> QED
  BY <1>1, <1>2, <1>4, <1>5, <1>6

\* The list from which a watch starts holds versions of pods.
LEMMA ListIsFeed ==
    ASSUME DiscoveryType, Connect
    PROVE  feed' \in Seq(Versions)
<1> DEFINE Q == {q \in Pods : cluster[q] # None}
           S == {cluster[p] : p \in Q}
           f == [p \in Q |-> cluster[p]]
<1>1. IsFiniteSet(Q)
  BY DiscoveryAssumption, FS_Subset
<1>2. f \in Surjection(Q, S)
  BY DEF Surjection
<1>3. Cardinality(S) \in Nat
  BY <1>1, <1>2, FS_Surjection, FS_CardinalityType
<1>4. S \subseteq Versions
  BY DEF DiscoveryType
<1>5. feed' \in [1..Cardinality(S) -> S]
  BY DEF Connect, SetToSeqs
<1> HIDE DEF S
<1> QED
  BY <1>3, <1>4, <1>5

\* The event that is handled.
LEMMA HeadOfFeed ==
    ASSUME DiscoveryType, feed # <<>>
    PROVE  /\ Head(feed) \in Versions /\ Tail(feed) \in Seq(Versions)
           /\ Head(feed).pod \in Pods
           /\ IsHealthy(Head(feed)) => Info(Head(feed)) = Healthy(Head(feed).pod)
<1>1. Head(feed) \in Versions /\ Tail(feed) \in Seq(Versions)
  BY DEF DiscoveryType
<1>2. ASSUME NEW v \in Versions
      PROVE  v.pod \in Pods /\ (IsHealthy(v) => v.healthy = TRUE)
  BY DEF Versions, IsHealthy
<1> QED
  BY <1>1, <1>2 DEF Info, Healthy

\* What the pods and the watch do leaves the jobs, the tracked set and the registry alone.
LEMMA WatchStep ==
    ASSUME DInv,
           \/ \E p \in Pods : PodAppears(p) \/ PodUpdated(p) \/ PodGone(p)
           \/ Connect \/ Break \/ IgnoreEvent \/ HandlerDone
    PROVE  DiscoveryType' /\ Attached' /\ Follows'
<1> USE DEF DInv
<1>1. UNCHANGED <<vars, enabled, tracked, registered, mingled, standing>>
  BY DEF PodAppears, PodUpdated, PodGone, Change, Connect, Break, IgnoreEvent, HandlerDone
<1>2. Follows'
  BY <1>1, SteadyFollows DEF Steady, vars
<1>3. ASSUME NEW p \in Pods, NEW v \in Versions, enabled, Change(p, v), Report(v)
      PROVE  DiscoveryType' /\ Attached'
  BY <1>3, <1>1 DEF Change, Report, DiscoveryType, Attached, vars
<1>4. ASSUME NEW p \in Pods, PodAppears(p) \/ PodUpdated(p) \/ PodGone(p)
      PROVE  DiscoveryType' /\ Attached'
  <2>1. CASE PodAppears(p)
    BY <1>3, <2>1 DEF PodAppears, Versions
  <2>2. CASE PodUpdated(p)
    <3>1. enabled
      BY <2>2 DEF PodUpdated, Attached, DiscoveryType
    <3> QED
      BY <1>3, <2>2, <3>1 DEF PodUpdated
  <2>3. CASE PodGone(p)
    <3>1. enabled
      BY <2>3 DEF PodGone, Attached, DiscoveryType
    <3> QED
      BY <1>1, <2>3, <3>1 DEF PodGone, Change, DiscoveryType, Attached, vars
  <2> QED
    BY <1>4, <2>1, <2>2, <2>3
<1>5. ASSUME cluster' = cluster, feed' \in Seq(Versions), enabled \/ UNCHANGED <<feed, watching>>
      PROVE  DiscoveryType' /\ Attached'
  <2>1. DiscoveryType'
    BY <1>1, <1>5 DEF DiscoveryType
  <2>2. Attached'
    BY <1>1, <1>5 DEF Attached, vars
  <2> QED
    BY <2>1, <2>2
<1>6. CASE Connect
  <2>1. UNCHANGED cluster /\ enabled /\ feed' \in Seq(Versions)
    BY <1>6, ListIsFeed DEF Connect
  <2> QED
    BY <1>2, <1>5, <2>1
<1>7. CASE Break
  <2>1. UNCHANGED cluster /\ enabled /\ feed' \in Seq(Versions)
    BY <1>7 DEF Break, Attached
  <2> QED
    BY <1>2, <1>5, <2>1
<1>8. CASE IgnoreEvent
  <2>1. UNCHANGED cluster /\ enabled /\ feed' \in Seq(Versions)
    BY <1>8, HeadOfFeed DEF IgnoreEvent, NextEvent, Attached
  <2> QED
    BY <1>2, <1>5, <2>1
<1>9. CASE HandlerDone
  <2>1. UNCHANGED <<cluster, feed, watching>> /\ feed' \in Seq(Versions)
    BY <1>9 DEF HandlerDone, DiscoveryType
  <2> QED
    BY <1>2, <1>5, <2>1
<1> QED
  BY <1>2, <1>4, <1>6, <1>7, <1>8, <1>9

\* A handler tracks a pod, or stops tracking it, and submits the job that goes with it.
LEMMA HandlerStep ==
    ASSUME DInv, HandlePodEvent \/ HandlePodDeletion
    PROVE  DiscoveryType' /\ Attached' /\ Follows'
<1> USE DiscoveryAssumption DEF DInv
<1> DEFINE q == Head(feed).pod
<1>1. Ours \subseteq Jobs /\ phase \in [Jobs -> Phases]
  BY DEF Ours, Roots, QueueInv, QueueType
<1>2. q \in Pods /\ Tail(feed) \in Seq(Versions) /\ enabled
  BY HeadOfFeed DEF HandlePodEvent, HandlePodDeletion, NextEvent, Attached
<1>3. PICK j \in Ours :
        /\ Key[j] = Url[q] /\ phase[j] = "new" /\ Move(j, "sending") /\ Mingle(j)
        /\ \/ j \in AddJobs /\ tracked' = tracked \cup {Healthy(q)}
           \/ j \notin AddJobs /\ tracked' = tracked \ {Healthy(q)}
        /\ alive' = alive /\ standing' = standing
  <2>1. CASE HandlePodEvent
    <3>1. Info(Head(feed)) = Healthy(q) /\ Healthy(q).pod = q
      BY <2>1, HeadOfFeed DEF HandlePodEvent, NextEvent, Healthy
    <3>2. PICK i \in AddJobs : Key[i] = Url[q] /\ phase[i] = "new" /\ Submit(i) /\ Mingle(i) /\ UNCHANGED standing
      BY <2>1, <3>1, HandlerSubmits DEF HandlePodEvent
    <3> QED
      BY <2>1, <3>1, <3>2 DEF HandlePodEvent, Submit, Ours
  <2>2. CASE HandlePodDeletion
    <3>1. Info(Head(feed)) = Healthy(q) /\ Healthy(q).pod = q
      BY <2>2 DEF HandlePodDeletion, DiscoveryType, Info, Healthy
    <3>2. PICK i \in RemoveJobs : Key[i] = Url[q] /\ phase[i] = "new" /\ Submit(i) /\ Mingle(i) /\ UNCHANGED standing
      BY <2>2, <3>1, HandlerSubmits DEF HandlePodDeletion
    <3> QED
      BY <2>2, <3>1, <3>2 DEF HandlePodDeletion, Submit, Ours
  <2> QED
    BY <2>1, <2>2
<1>4. feed' = Tail(feed) /\ UNCHANGED <<enabled, cluster, watching, registered>>
  BY DEF HandlePodEvent, HandlePodDeletion
<1> HIDE DEF q
<1>5. DiscoveryType'
  BY <1>2, <1>3, <1>4 DEF DiscoveryType
<1>6. Attached'
  BY <1>2, <1>3, <1>4 DEF Attached
<1>7. /\ OneJob' /\ mingled \subseteq mingled'
      /\ \A i \in Ours : phase'[i] \in Underway <=> (i = j \/ phase[i] \in Underway)
      /\ \A i \in Ours : i # j /\ phase[i] \in Underway /\ Key[i] = Key[j] => i \in mingled'
  BY <1>1, <1>3, NewJob
<1>8. ASSUME NEW p \in Pods, Alone(p) PROVE Called(p)' /\ Settled(p)'
  <2>1. CASE p = q
    <3>1. Called(p)'
      <4>1. ASSUME NEW i \in Ours, Key[i] = Url[p], phase'[i] \in Underway, i \notin mingled' PROVE i = j
        BY <1>3, <1>7, <2>1, <4>1
      <4> QED
        BY <1>3, <2>1, <4>1 DEF Called
    <3>2. Settled(p)'
      BY <1>3, <1>7, <2>1 DEF Settled
    <3> QED
      BY <3>1, <3>2
  <2>2. CASE p # q
    <3>1. Url[p] # Url[q] /\ Called(p) /\ Settled(p)
      BY <1>2, <1>8, <2>2 DEF Alone, Follows
    <3>2. \A i \in Ours : Key[i] = Url[p] => (phase'[i] \in Underway <=> phase[i] \in Underway)
      BY <1>3, <1>7, <3>1
    <3>3. Healthy(p) \in tracked' <=> Healthy(p) \in tracked
      BY <1>3, <2>2 DEF Healthy
    <3>4. Called(p)'
      BY <1>7, <3>1, <3>2, <3>3 DEF Called
    <3>5. Settled(p)'
      BY <1>3, <1>4, <3>1, <3>2, <3>3 DEF Settled
    <3> QED
      BY <3>4, <3>5
  <2> QED
    BY <2>1, <2>2
<1> QED
  BY <1>5, <1>6, <1>7, <1>8 DEF Follows, Alone

\* The admin API, startup or a startup job submits a job: one of discovery may mingle with it.
LEMMA OtherSubmits ==
    ASSUME DInv, NEW j \in Jobs \ Ours, phase[j] = "new", Move(j, "sending"), Mingle(j),
           UNCHANGED <<alive, enabled, cluster, feed, watching, tracked, registered, standing>>
    PROVE  DiscoveryType' /\ Attached' /\ Follows'
<1> USE DiscoveryAssumption DEF DInv
<1>1. Ours \subseteq Jobs
  BY DEF Ours, Roots
<1>2. DiscoveryType'
  BY DEF DiscoveryType
<1>3. Attached'
  BY <1>1 DEF Attached, Move
<1>4. /\ OneJob' /\ mingled \subseteq mingled'
      /\ \A i \in Ours : phase'[i] \in Underway <=> phase[i] \in Underway
  BY <1>1, NewJob
<1>5. ASSUME NEW p \in Pods, Alone(p) PROVE Called(p)' /\ Settled(p)'
  <2>1. Called(p) /\ Settled(p)
    BY <1>5 DEF Follows
  <2>2. Called(p)'
    BY <1>4, <2>1 DEF Called
  <2>3. Settled(p)'
    BY <1>4, <2>1 DEF Settled
  <2> QED
    BY <2>2, <2>3
<1> QED
  BY <1>2, <1>3, <1>4, <1>5 DEF Follows, Alone

LEMMA ChildSubmitted ==
    ASSUME DInv, NEW j \in Jobs, SubmitChild(j), Mingle(Children[j][submitted[j] + 1]),
           UNCHANGED <<enabled, cluster, feed, watching, tracked, registered, standing>>
    PROVE  DiscoveryType' /\ Attached' /\ Follows'
<1> USE DiscoveryAssumption, QueueAssumption DEF DInv, QueueInv, QueueType
<1> DEFINE n == submitted[j] + 1
           c == Children[j][n]
<1>1. n \in 1..Len(Children[j])
  BY DEF SubmitChild
<1>2. c \in Jobs \ Ours
  BY <1>1 DEF Ours, Roots
<1>3. phase[c] = "new" /\ Move(c, "sending") /\ Mingle(c) /\ alive' = alive
  BY DEF SubmitChild
<1> HIDE DEF c
<1> QED
  BY <1>2, <1>3, OtherSubmits

\* A job returns.  One of discovery that was alone leaves the registry as the tracked set
\* called for; one of another client that was alone leaves it as it was, or overrides
\* discovery; after any other nothing is said of its url any more.
LEMMA EndStep ==
    ASSUME DInv, NEW j \in Jobs, NEW ok \in BOOLEAN, JobEnds(j, ok)
    PROVE  DiscoveryType' /\ Attached' /\ Follows'
<1> USE DiscoveryAssumption DEF DInv
<1> DEFINE k == Key[j]
<1>1. Ours \subseteq Jobs /\ phase \in [Jobs -> Phases] /\ k \in Keys
  BY QueueAssumption DEF Ours, Roots, QueueInv, QueueType
<1>2. /\ phase[j] = "running" /\ phase' = [phase EXCEPT ![j] = "over"]
      /\ mingled' = mingled \ {j}
      /\ UNCHANGED <<alive, enabled, cluster, feed, watching, tracked>>
  BY DEF JobEnds, Complete, Move
<1>3. \A i \in Jobs : phase'[i] \in Underway <=> (i # j /\ phase[i] \in Underway)
  BY <1>1, <1>2 DEF Underway
<1>4. /\ \A l \in Keys \ {k} : standing'[l] = standing[l]
      /\ \A l \in Keys \ {k} : l \in registered' <=> l \in registered
      /\ standing' \in [Keys -> {"ours", "overridden", "astray"}]
  <2>1. standing' \in [Keys -> {"ours", "overridden", "astray"}]
        /\ \A l \in Keys \ {k} : standing'[l] = standing[l]
    BY <1>1 DEF JobEnds, DiscoveryType
  <2>2. registered' = registered \/ registered' = After(j)
    BY DEF JobEnds
  <2>3. \A l \in Keys \ {k} : l \in registered' <=> l \in registered
    BY <2>2 DEF After
  <2> QED
    BY <2>1, <2>3
<1>5. ASSUME standing'[k] = "ours"
      PROVE  /\ j \notin mingled /\ registered' = After(j)
             /\ j \notin Ours => registered' = registered /\ standing[k] = "ours"
  <2>1. standing'[k] = IF standing[k] = "astray" \/ ~Clean(j, ok) THEN "astray"
                       ELSE IF j \in Ours THEN "ours"
                       ELSE IF After(j) = registered THEN standing[k] ELSE "overridden"
    BY <1>1 DEF JobEnds, DiscoveryType, Ours
  <2>2. Clean(j, ok) /\ standing[k] # "astray"
    <3>1. (standing[k] = "astray" \/ ~Clean(j, ok)) => standing'[k] = "astray"
      BY <2>1
    <3> QED
      BY <1>5, <3>1
  <2>3. registered' = After(j)
    BY <2>2 DEF JobEnds
  <2>4. j \notin Ours => After(j) = registered /\ standing[k] = "ours"
    <3>1. CASE j \notin Ours /\ After(j) # registered
      <4>1. standing'[k] = "overridden"
        BY <2>1, <2>2, <3>1
      <4> QED
        BY <1>5, <4>1
    <3>2. CASE j \notin Ours /\ After(j) = registered
      BY <1>5, <2>1, <2>2, <3>2
    <3> QED
      BY <3>1, <3>2
  <2> QED
    BY <2>2, <2>3, <2>4 DEF Clean
<1>6. DiscoveryType'
  BY <1>2, <1>4 DEF DiscoveryType
<1>7. Attached'
  BY <1>1, <1>2 DEF Attached
<1>8. OneJob'
  BY <1>2, <1>3 DEF OneJob, Follows
<1>9. ASSUME NEW p \in Pods, Alone(p) PROVE Called(p)' /\ Settled(p)'
  <2>1. Called(p) /\ Settled(p) /\ Url[p] \in Keys
    BY <1>9 DEF Follows
  <2>2. Called(p)'
    BY <1>1, <1>2, <1>3, <2>1 DEF Called
  <2>3. CASE Url[p] # k
    <3>1. \A i \in Ours : Key[i] = Url[p] => (phase'[i] \in Underway <=> phase[i] \in Underway)
      BY <1>1, <1>3, <2>3
    <3>2. standing'[Url[p]] = standing[Url[p]] /\ (Url[p] \in registered' <=> Url[p] \in registered)
      BY <1>4, <2>1, <2>3
    <3> QED
      BY <1>2, <2>1, <2>2, <3>1, <3>2 DEF Settled
  <2>4. CASE Url[p] = k /\ j \notin Ours
    <3>1. \A i \in Ours : phase'[i] \in Underway <=> phase[i] \in Underway
      BY <1>1, <1>3, <2>4
    <3>2. standing'[k] = "ours" => standing[k] = "ours" /\ registered' = registered
      BY <1>5, <2>4
    <3> QED
      BY <1>2, <2>1, <2>2, <2>4, <3>1, <3>2 DEF Settled
  <2>5. CASE Url[p] = k /\ j \in Ours
    <3>1. ASSUME standing'[k] = "ours" PROVE k \in registered' <=> Healthy(p) \in tracked
      <4>1. j \in AddJobs <=> Healthy(p) \in tracked
        BY <1>2, <1>5, <2>1, <2>5, <3>1 DEF Called, Underway
      <4>2. j \in AddJobs => After(j) = registered \cup {k}
        BY DEF After
      <4>3. j \notin AddJobs => After(j) = registered \ {k}
        BY <2>5 DEF After, Ours
      <4> QED
        BY <1>5, <3>1, <4>1, <4>2, <4>3
    <3> QED
      BY <1>2, <2>2, <2>5, <3>1 DEF Settled
  <2> QED
    BY <2>3, <2>4, <2>5
<1> QED
  BY <1>6, <1>7, <1>8, <1>9 DEF Follows, Alone

\* Every step of discovery and of the queue keeps the invariant.
LEMMA DiscoveryStep ==
    ASSUME DInv, [DNext]_allvars
    PROVE  DInv'
<1>1. QueueInv'
  BY QueueSteps, QueueStep DEF DInv
<1>2. ASSUME Steady, alive' = alive \/ ~enabled, UNCHANGED dvars
      PROVE  DiscoveryType' /\ Attached' /\ Follows'
  <2>1. DiscoveryType'
    BY <1>2 DEF DInv, DiscoveryType, dvars
  <2> QED
    BY <1>2, <2>1, SteadyFollows, SteadyAttached DEF DInv, dvars
<1>3. CASE UNCHANGED allvars
  BY <1>1, <1>2, <1>3 DEF DInv, allvars, vars, Steady
<1>4. CASE \/ \E p \in Pods : PodAppears(p) \/ PodUpdated(p) \/ PodGone(p)
           \/ Connect \/ Break \/ IgnoreEvent \/ HandlerDone
  BY <1>1, <1>4, WatchStep DEF DInv
<1>5. CASE HandlePodEvent \/ HandlePodDeletion
  BY <1>1, <1>5, HandlerStep DEF DInv
<1>6. ASSUME NEW j \in Jobs, Progress(j) \/ (Enqueue(j) /\ UNCHANGED dvars) PROVE DInv'
  <2>1. CASE (Begin(j) \/ Fail(j) \/ Run(j) \/ Enqueue(j)) /\ UNCHANGED dvars
    BY <1>1, <1>2, <2>1, QueueIsSteady DEF DInv
  <2>2. CASE /\ SubmitChild(j) /\ Mingle(Children[j][submitted[j] + 1])
             /\ UNCHANGED <<enabled, cluster, feed, watching, tracked, registered, standing>>
    BY <1>1, <2>2, ChildSubmitted DEF DInv
  <2>3. CASE \E ok \in BOOLEAN : JobEnds(j, ok)
    BY <1>1, <2>3, EndStep DEF DInv
  <2> QED
    BY <1>6, <2>1, <2>2, <2>3 DEF Progress
<1>7. CASE (Queueing \/ Take \/ Spawn) /\ UNCHANGED dvars
  BY <1>1, <1>2, <1>7, QueueIsSteady DEF DInv
<1>8. ASSUME NEW j \in ApiJobs, SubmitApi(j) PROVE DInv'
  <2>1. j \in Jobs \ Ours /\ phase[j] = "new" /\ Move(j, "sending") /\ Mingle(j)
        /\ UNCHANGED <<alive, enabled, cluster, feed, watching, tracked, registered, standing>>
    BY <1>8 DEF SubmitApi, Submit, ApiJobs, Ours, Roots
  <2> QED
    BY <1>1, <2>1, OtherSubmits DEF DInv
<1> QED
  BY <1>3, <1>4, <1>5, <1>6, <1>7, <1>8 DEF DNext

LEMMA DiscoveryStart == DInit => DInv
<1> SUFFICES ASSUME DInit PROVE DInv
  OBVIOUS
<1>1. QueueInv
  BY QueueStart DEF DInit
<1>2. Ours \subseteq Jobs /\ \A j \in Jobs : phase[j] = "new"
  BY DiscoveryAssumption DEF DInit, Init, Ours, Roots
<1>3. DiscoveryType
  BY DEF DInit, DiscoveryType
<1>4. Attached
  BY <1>2 DEF DInit, Init, Attached
<1>5. Follows
  BY <1>2 DEF DInit, Follows, OneJob, Called, Settled, Underway
<1> QED
  BY <1>1, <1>3, <1>4, <1>5 DEF DInv

\* What the invariant says of the tracked set is what the property says.
LEMMA InvFollows ==
    ASSUME DInv
    PROVE  RegistryFollowsTracking
<1> SUFFICES ASSUME NEW p \in Pods, standing[Url[p]] = "ours", Busy(Url[p]) = {}, Alone(p)
             PROVE  Url[p] \in registered <=> \E i \in tracked : i.pod = p
  BY DEF RegistryFollowsTracking, Alone
<1>1. Settled(p)
  BY DEF DInv, Follows
<1>2. \A j \in Ours : Key[j] = Url[p] => phase[j] \notin Underway
  BY DiscoveryAssumption DEF Busy, Ours, Roots, Underway
<1>3. ASSUME NEW i \in tracked PROVE i.pod = p <=> i = Healthy(p)
  <2>1. PICK q \in Pods : i = Healthy(q)
    BY DEF DInv, DiscoveryType
  <2> QED
    BY <2>1 DEF Healthy
<1> QED
  BY <1>1, <1>2, <1>3 DEF Settled

(* Beside discovery and the admin API too, and with a queue of any size,  *)
(* the status map never reports work that is over.                        *)
THEOREM DiscoveryStatusesTrue == DSpec => []StatusNotStale
<1>1. DInv /\ [DNext]_allvars => DInv'
  BY DiscoveryStep
<1>2. DInv => StatusNotStale
  BY DEF DInv, QueueInv
<1> QED
  BY <1>1, <1>2, DiscoveryStart, PTL DEF DSpec

(* Through errors of the watch, duplicates, a full queue and jobs of the  *)
(* admin API and of startup on the same urls, a url has a worker exactly  *)
(* if its pod is tracked, whenever none of its jobs is under way and      *)
(* discovery's was the last to change it.                                 *)
THEOREM RegistryFollows == DSpec => []RegistryFollowsTracking
<1>1. DInv /\ [DNext]_allvars => DInv'
  BY DiscoveryStep
<1>2. DInv => RegistryFollowsTracking
  BY InvFollows
<1> QED
  BY <1>1, <1>2, DiscoveryStart, PTL DEF DSpec

(* Discovery uses the queue as any client does: what it does to the queue *)
(* beside the admin API is a behaviour of JobQueue.                       *)
THEOREM DiscoveryUsesQueue == DSpec => Init /\ [][Next]_vars
<1>1. [DNext]_allvars => [Next]_vars
  BY QueueSteps
<1> QED
  BY <1>1, PTL DEF DSpec, DInit

=============================================================================
