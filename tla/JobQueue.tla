------------------------------ MODULE JobQueue ------------------------------
(***************************************************************************)
(* The queue of control-plane jobs (core/job_queue.rs): a bounded channel, *)
(* one dispatcher that takes a permit for each job and spawns it, and the  *)
(* status map that the admin API reads.  A job is known by the key of its  *)
(* status (the worker's url) and by the jobs it submits itself: the        *)
(* startup jobs submit one per configured worker or MCP server, into the   *)
(* same queue and while they hold a permit.  What a job does to the        *)
(* registry is in WorkerRegistry.                                          *)
(***************************************************************************)
EXTENDS Naturals, Sequences, FiniteSets

CONSTANTS
    Jobs, Keys,
    Key,            \* Job::worker_url
    Children,       \* what a job submits, in order
    QueueCapacity,  \* queue_capacity
    MaxConcurrent,  \* max_concurrent_jobs
    None

ASSUME QueueAssumption ==
    /\ IsFiniteSet(Jobs)
    /\ Key \in [Jobs -> Keys] /\ Children \in [Jobs -> Seq(Jobs)]
    /\ QueueCapacity \in Nat \ {0} /\ MaxConcurrent \in Nat \ {0}
    /\ None \notin Jobs

VARIABLES
    alive,      \* the AppContext exists
    queue,      \* the channel
    held,       \* the job for which the dispatcher waits for a permit
    permits,    \* concurrency_limit
    phase,      \* per job: how far it is
    submitted,  \* per job: how many of its children it has submitted
    status      \* key -> who wrote its status, and what

vars == <<alive, queue, held, permits, phase, submitted, status>>

Phases == {"new", "refused", "sending", "cancelled", "queued", "held", "spawned", "begun",
           "running", "over"}
Roots == {j \in Jobs : \A p \in Jobs : \A i \in 1..Len(Children[p]) : Children[p][i] # j}
In(place) == {j \in Jobs : phase[j] = place}
Spawned == In("spawned") \cup In("begun") \cup In("running")

Init ==
    /\ alive = TRUE
    /\ queue = <<>>
    /\ held = None
    /\ permits = MaxConcurrent
    /\ phase = [j \in Jobs |-> "new"]
    /\ submitted = [j \in Jobs |-> 0]
    /\ status = [k \in Keys |-> None]

Write(j, state) == status' = [status EXCEPT ![Key[j]] = [job |-> j, state |-> state]]
Erase(k) == status' = [status EXCEPT ![k] = None]
Move(j, place) == phase' = [phase EXCEPT ![j] = place]

-----------------------------------------------------------------------------
(* submit *)

\* The status says pending before the job is sent.
Submit(j) ==
    /\ j \in Roots /\ phase[j] = "new" /\ alive
    /\ Write(j, "pending")
    /\ Move(j, "sending")
    /\ UNCHANGED <<alive, queue, held, permits, submitted>>

Refuse(j) ==
    /\ j \in Roots /\ phase[j] = "new" /\ ~alive
    /\ Move(j, "refused")
    /\ UNCHANGED <<alive, queue, held, permits, submitted, status>>

\* The channel has room; until then the submitter waits.
Enqueue(j) ==
    /\ phase[j] = "sending" /\ Len(queue) < QueueCapacity
    /\ queue' = Append(queue, j)
    /\ Move(j, "queued")
    /\ UNCHANGED <<alive, held, permits, submitted, status>>

\* The client of the admin API goes away while its handler waits for room: the job is
\* never sent, and its status stays.
Cancel(j) ==
    /\ j \in Roots /\ phase[j] = "sending"
    /\ Move(j, "cancelled")
    /\ UNCHANGED <<alive, queue, held, permits, submitted, status>>

-----------------------------------------------------------------------------
(* The dispatcher *)

\* Variant: the dispatcher runs the job itself instead of spawning it.
TakeWhenIdle ==
    /\ held = None /\ queue # <<>>
    /\ Spawned = {}
    /\ held' = Head(queue) /\ queue' = Tail(queue)
    /\ Move(Head(queue), "held")
    /\ UNCHANGED <<alive, permits, submitted, status>>

Take ==
    /\ held = None /\ queue # <<>>
    /\ held' = Head(queue) /\ queue' = Tail(queue)
    /\ Move(Head(queue), "held")
    /\ UNCHANGED <<alive, permits, submitted, status>>

Spawn ==
    /\ held # None /\ permits > 0
    /\ permits' = permits - 1
    /\ Move(held, "spawned") /\ held' = None
    /\ UNCHANGED <<alive, queue, submitted, status>>

-----------------------------------------------------------------------------
(* process_job *)

\* The status says processing before the context is looked for.
Begin(j) ==
    /\ phase[j] = "spawned"
    /\ Write(j, "processing")
    /\ Move(j, "begun")
    /\ UNCHANGED <<alive, queue, held, permits, submitted>>

\* The context is gone: the job fails at once and its permit is dropped.
Fail(j) ==
    /\ phase[j] = "begun" /\ ~alive
    /\ Write(j, "failed")
    /\ Move(j, "over")
    /\ permits' = permits + 1
    /\ UNCHANGED <<alive, queue, held, submitted>>

\* From here on the job keeps the context alive.
Run(j) ==
    /\ phase[j] = "begun" /\ alive
    /\ Move(j, "running")
    /\ UNCHANGED <<alive, queue, held, permits, submitted, status>>

\* A startup job submits its next child, when the submit of the one before has returned.
SubmitChild(j) ==
    LET n == submitted[j] + 1 IN
    /\ phase[j] = "running" /\ n <= Len(Children[j])
    /\ submitted[j] > 0 => phase[Children[j][submitted[j]]] # "sending"
    /\ phase[Children[j][n]] = "new"
    /\ submitted' = [submitted EXCEPT ![j] = n]
    /\ Write(Children[j][n], "pending")
    /\ Move(Children[j][n], "sending")
    /\ UNCHANGED <<alive, queue, held, permits>>

\* Variant: a success leaves the status for the cleanup.
CompleteQuietly(j, ok) ==
    /\ phase[j] = "running" /\ submitted[j] = Len(Children[j])
    /\ submitted[j] > 0 => phase[Children[j][submitted[j]]] # "sending"
    /\ IF ok THEN UNCHANGED status ELSE Write(j, "failed")
    /\ Move(j, "over")
    /\ permits' = permits + 1
    /\ UNCHANGED <<alive, queue, held, submitted>>

\* execute_job returns, by the timeout of its workflow at the latest; a success removes the
\* status of the key, a failure replaces it, whoever wrote it.
Complete(j, ok) ==
    /\ phase[j] = "running" /\ submitted[j] = Len(Children[j])
    /\ submitted[j] > 0 => phase[Children[j][submitted[j]]] # "sending"
    /\ IF ok THEN Erase(Key[j]) ELSE Write(j, "failed")
    /\ Move(j, "over")
    /\ permits' = permits + 1
    /\ UNCHANGED <<alive, queue, held, submitted>>

\* cleanup_old_statuses: a status has become too old, whatever it says.
CleanUp(k) ==
    /\ status[k] # None
    /\ Erase(k)
    /\ UNCHANGED <<alive, queue, held, permits, phase, submitted>>

\* The server is gone; a job that runs and a handler that submits keep the context alive.
Shutdown ==
    /\ alive /\ In("running") \cup In("sending") = {}
    /\ alive' = FALSE
    /\ UNCHANGED <<queue, held, permits, phase, submitted, status>>

Work(j) == Begin(j) \/ Fail(j) \/ Run(j) \/ SubmitChild(j) \/ (\E ok \in BOOLEAN : Complete(j, ok))

Next ==
    \/ \E j \in Jobs : Submit(j) \/ Refuse(j) \/ Enqueue(j) \/ Cancel(j) \/ Work(j)
    \/ Take \/ Spawn
    \/ \E k \in Keys : CleanUp(k)
    \/ Shutdown

\* The runtime polls every task that can move, and every workflow has a timeout.
Spec ==
    /\ Init /\ [][Next]_vars
    /\ WF_vars(Take) /\ WF_vars(Spawn)
    /\ \A j \in Jobs : WF_vars(Enqueue(j)) /\ WF_vars(Work(j))

-----------------------------------------------------------------------------
(* Properties *)

\* The admin API never reports work that is over: pending is said of a job that has not
\* begun, processing of one that runs, although jobs of one key overwrite and remove each
\* other's status.  The one exception is a submit whose client went away.
StatusNotStale ==
    \A k \in Keys : status[k] # None =>
        LET p == phase[status[k].job] IN
        CASE status[k].state = "pending" -> p \in {"sending", "queued", "held", "spawned", "cancelled"}
          [] status[k].state = "processing" -> p \in {"begun", "running"}
          [] OTHER -> p = "over"

\* Every job that was accepted is carried out, although startup jobs wait for room in the
\* queue while they hold a permit: there are more permits than startup jobs.
EveryJobEnds ==
    \A j \in Jobs : phase[j] = "queued" ~> phase[j] = "over"
=============================================================================
