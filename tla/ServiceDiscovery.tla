-------------------------- MODULE ServiceDiscovery --------------------------
(***************************************************************************)
(* Kubernetes service discovery (service_discovery.rs) on top of the job   *)
(* queue: a task watches pods, tracks the healthy ones and submits a job   *)
(* that adds or removes the worker of a pod.  Events are handled one after *)
(* the other, and a handler waits while the queue is full.                 *)
(*                                                                         *)
(* The cluster is external.  Pods that match the selector are modelled;    *)
(* the watcher reports every version of a pod it sees, not its             *)
(* disappearance, and starts from a list of the pods there are after an    *)
(* error.  What a job does to the registry, be it discovery's, the admin   *)
(* API's or a startup job's, is abstracted to its result.                  *)
(***************************************************************************)
EXTENDS JobQueue, SequencesExt

CONSTANTS
    Pods, Url,               \* pods, and the url (address and port) of each
    Additions, Removals,     \* the jobs that register a worker, and that remove one
    AddJobs, RemoveJobs,     \* those that discovery may submit
    MaxChanges,              \* bound on the changes of pods
    MaxBreaks,               \* bound on the errors of the watch
    Beside                   \* bound: the other jobs that are submitted beside discovery

ASSUME DiscoveryAssumption ==
    /\ IsFiniteSet(Pods) /\ Url \in [Pods -> Keys]
    /\ Additions \cap Removals = {}
    /\ AddJobs \subseteq Roots \cap Additions /\ RemoveJobs \subseteq Roots \cap Removals
    /\ MaxChanges \in Nat /\ MaxBreaks \in Nat /\ Beside \subseteq Jobs

VARIABLES
    enabled,     \* config.enabled
    cluster,     \* per pod: its current version, None if there is no such pod
    feed,        \* versions the watcher will report
    watching,    \* the watch is established
    breaks,      \* errors of the watch so far
    changes,     \* changes of pods so far
    tracked,     \* tracked_pods
    handler,     \* the handler that runs
    registered,  \* keys with a registered worker
    mingled,     \* history: jobs under way that have overlapped with another of their key
    standing     \* history, per key: whose the last change of the registry was

dvars == <<enabled, cluster, feed, watching, breaks, changes, tracked, handler, registered, mingled, standing>>
allvars == <<vars, dvars>>

\* A version of a pod; what PodInfo keeps of it leaves out the deletion timestamp.  Its phase
\* and readiness are one field: running and ready, or not.  Nothing else is asked of a version,
\* and one that is not healthy is never tracked.
Versions == [pod : Pods, healthy : BOOLEAN, going : BOOLEAN]
Info(v) == [pod |-> v.pod, healthy |-> v.healthy]
IsHealthy(v) == v.healthy
ApiJobs == Roots \ (AddJobs \cup RemoveJobs)
NoHandler == [job |-> None, info |-> None]

DInit ==
    /\ Init
    /\ enabled \in BOOLEAN
    /\ cluster = [p \in Pods |-> None]
    /\ feed = <<>> /\ watching = FALSE /\ breaks = 0 /\ changes = 0
    /\ tracked = {} /\ handler = NoHandler /\ registered = {}
    /\ mingled = {} /\ standing = [k \in Keys |-> "ours"]

-----------------------------------------------------------------------------
(* The cluster *)

Report(v) == feed' = IF watching THEN Append(feed, v) ELSE feed
Change(p, v) ==
    /\ changes < MaxChanges /\ changes' = changes + 1
    /\ cluster' = [cluster EXCEPT ![p] = v]
    /\ UNCHANGED <<vars, enabled, watching, breaks, tracked, handler, registered, mingled, standing>>

PodAppears(p) ==
    LET v == [pod |-> p, healthy |-> TRUE, going |-> FALSE] IN
    /\ enabled /\ cluster[p] = None
    /\ Change(p, v) /\ Report(v)

PodUpdated(p) ==
    /\ cluster[p] # None
    /\ \E v \in Versions : /\ v.pod = p /\ v # cluster[p] /\ (cluster[p].going => v.going)
                           /\ Change(p, v) /\ Report(v)

PodGone(p) ==
    /\ cluster[p] # None /\ cluster[p].going
    /\ Change(p, None)
    /\ UNCHANGED feed

-----------------------------------------------------------------------------
(* The task of start_service_discovery *)

\* Variant: only what changes from now on is reported.
ConnectFresh ==
    /\ enabled /\ ~watching
    /\ watching' = TRUE
    /\ UNCHANGED <<vars, enabled, feed, cluster, breaks, changes, tracked, handler, registered, mingled, standing>>

\* The watch is established: every pod there is is reported, in some order.
Connect ==
    /\ enabled /\ ~watching
    /\ watching' = TRUE
    /\ feed' \in SetToSeqs({cluster[p] : p \in {q \in Pods : cluster[q] # None}})
    /\ UNCHANGED <<vars, enabled, cluster, breaks, changes, tracked, handler, registered, mingled, standing>>

\* The stream ends with an error, after the event that was handled.
Break ==
    /\ watching /\ handler = NoHandler /\ breaks < MaxBreaks
    /\ watching' = FALSE /\ feed' = <<>> /\ breaks' = breaks + 1
    /\ UNCHANGED <<vars, enabled, cluster, changes, tracked, handler, registered, mingled, standing>>

\* The jobs for a key that are under way, and what becomes of them when another comes.
Busy(k) == {j \in Jobs : Key[j] = k /\ phase[j] \in {"sending", "queued", "held", "spawned", "begun", "running"}}
Mingle(j) == mingled' = IF Busy(Key[j]) = {} THEN mingled ELSE mingled \cup Busy(Key[j]) \cup {j}

\* JobQueue::submit from a handler, which then waits for room.  Which of the jobs for the
\* key that have not been used it is makes no difference.
SubmitFor(jobs, info) ==
    LET fresh == {j \in jobs : Key[j] = Url[info.pod] /\ phase[j] = "new"}
        j == CHOOSE i \in fresh : TRUE
    IN /\ fresh # {}
       /\ Submit(j) /\ Mingle(j)
       /\ handler' = [job |-> j, info |-> info]
       /\ UNCHANGED standing

NextEvent == watching /\ handler = NoHandler /\ feed # <<>>

\* A healthy pod with this very PodInfo is not tracked yet: it is, and a job is submitted.
HandlePodEvent ==
    LET v == Head(feed) IN
    /\ NextEvent /\ ~v.going /\ IsHealthy(v) /\ Info(v) \notin tracked
    /\ feed' = Tail(feed)
    /\ tracked' = tracked \cup {Info(v)}
    /\ SubmitFor(AddJobs, Info(v))
    /\ UNCHANGED <<enabled, cluster, watching, breaks, changes, registered>>

\* Variant: the worker is removed and the pod stays tracked.
HandlePodDeletionTracked ==
    LET v == Head(feed) IN
    /\ NextEvent /\ v.going /\ Info(v) \in tracked
    /\ feed' = Tail(feed)
    /\ SubmitFor(RemoveJobs, Info(v))
    /\ UNCHANGED <<enabled, cluster, watching, breaks, changes, tracked, registered>>

\* A pod that is being deleted is tracked, with the status it has now.
HandlePodDeletion ==
    LET v == Head(feed) IN
    /\ NextEvent /\ v.going /\ Info(v) \in tracked
    /\ feed' = Tail(feed)
    /\ tracked' = tracked \ {Info(v)}
    /\ SubmitFor(RemoveJobs, Info(v))
    /\ UNCHANGED <<enabled, cluster, watching, breaks, changes, registered>>

\* A duplicate, a pod that is not healthy, a deletion of what is not tracked.
IgnoreEvent ==
    LET v == Head(feed) IN
    /\ NextEvent /\ (IF v.going THEN Info(v) \notin tracked ELSE IsHealthy(v) => Info(v) \in tracked)
    /\ feed' = Tail(feed)
    /\ UNCHANGED <<vars, enabled, cluster, watching, breaks, changes, tracked, handler, registered, mingled, standing>>

\* The job is in the queue: the handler returns.
HandlerDone ==
    /\ handler # NoHandler /\ phase[handler.job] # "sending"
    /\ handler' = NoHandler
    /\ UNCHANGED <<vars, enabled, cluster, feed, watching, breaks, changes, tracked, registered, mingled, standing>>

-----------------------------------------------------------------------------
(* The jobs *)

\* The registry once the job has done what it is for.
After(j) == CASE j \in Additions -> registered \cup {Key[j]}
              [] j \in Removals -> registered \ {Key[j]}
              [] OTHER -> registered

\* Nothing is left of the job: it succeeded, or it had nothing to remove or to register.
\* A workflow that failed otherwise may have been stopped anywhere, or may still be going
\* on after the job stopped waiting for it.
Clean(j, ok) == j \notin mingled /\ (ok \/ (j \notin Additions /\ After(j) = registered))

\* execute_job, whoever submitted it: a removal of what is not registered fails.
JobEnds(j, ok) ==
    /\ Complete(j, ok)
    /\ ok /\ j \in Removals => Key[j] \in registered \/ j \in mingled \/ standing[Key[j]] = "astray"
    /\ registered' \in IF Clean(j, ok) THEN {After(j)} ELSE {registered, After(j)}
    /\ standing' = [standing EXCEPT ![Key[j]] =
                       IF @ = "astray" \/ ~Clean(j, ok) THEN "astray"
                       ELSE IF j \in AddJobs \cup RemoveJobs THEN "ours"
                       ELSE IF After(j) = registered THEN @ ELSE "overridden"]
    /\ mingled' = mingled \ {j}
    /\ UNCHANGED <<enabled, cluster, feed, watching, breaks, changes, tracked, handler>>

Progress(j) ==
    \/ (Begin(j) \/ Fail(j) \/ Run(j)) /\ UNCHANGED dvars
    \/ SubmitChild(j) /\ Mingle(Children[j][submitted[j] + 1])
       /\ UNCHANGED <<enabled, cluster, feed, watching, breaks, changes, tracked, handler, registered, standing>>
    \/ \E ok \in BOOLEAN : JobEnds(j, ok)

\* The admin API and startup submit.
SubmitApi(j) ==
    /\ Submit(j) /\ Mingle(j) /\ (enabled => j \in Beside)
    /\ UNCHANGED <<enabled, cluster, feed, watching, breaks, changes, tracked, handler, registered, standing>>

\* Clients that leave, the clean-up; discovery keeps the context alive.
Queueing ==
    \/ \E j \in ApiJobs : Refuse(j) \/ Cancel(j)
    \/ \E k \in Keys : CleanUp(k)
    \/ ~enabled /\ Shutdown

DNext ==
    \/ \E p \in Pods : PodAppears(p) \/ PodUpdated(p) \/ PodGone(p)
    \/ Connect \/ Break \/ HandlePodEvent \/ HandlePodDeletion \/ IgnoreEvent \/ HandlerDone
    \/ \E j \in ApiJobs : SubmitApi(j)
    \/ \E j \in Jobs : Progress(j) \/ (Enqueue(j) /\ UNCHANGED dvars)
    \/ (Queueing \/ Take \/ Spawn) /\ UNCHANGED dvars

\* The watch is established again after the delay, events are handled, jobs go on.
DSpec ==
    /\ DInit /\ [][DNext]_allvars
    /\ WF_allvars(Connect) /\ WF_allvars(HandlePodEvent) /\ WF_allvars(HandlePodDeletion)
    /\ WF_allvars(IgnoreEvent) /\ WF_allvars(HandlerDone)
    /\ WF_allvars(Take /\ UNCHANGED dvars) /\ WF_allvars(Spawn /\ UNCHANGED dvars)
    /\ \A j \in Jobs : WF_allvars(Enqueue(j) /\ UNCHANGED dvars) /\ WF_allvars(Progress(j))

-----------------------------------------------------------------------------
(* Properties *)

\* Tracking and the registry agree.  A url with one pod and no job under way has a worker
\* exactly if its pod is tracked, through errors of the watch, duplicates and jobs of the
\* admin API and of startup beside discovery's, unless one of these has overridden discovery.
\* Then the next job of discovery that is alone mends it, the removal of a worker that is
\* gone already included.  Jobs of one url that overlap are not ordered, and a workflow
\* that failed may be half done: such a url is astray.
RegistryFollowsTracking ==
    \A p \in Pods :
        /\ standing[Url[p]] = "ours" /\ Busy(Url[p]) = {} /\ handler = NoHandler
        /\ \A q \in Pods : Url[q] = Url[p] => q = p
        => (Url[p] \in registered <=> \E i \in tracked : i.pod = p)

\* A pod that stays healthy is tracked in the end and from then on, although it may have
\* come and gone before, and versions of it that come while the watch is down are lost.
HealthyIsTracked ==
    \A p \in Pods :
        <>[](cluster[p] # None /\ IsHealthy(cluster[p]) /\ ~cluster[p].going)
            => <>[](\E i \in tracked : i.pod = p)
=============================================================================
