--------------------------- MODULE ExtensionJobs ---------------------------
(***************************************************************************)
(* What the jobs for WASM modules, tokenizers and MCP servers share: their *)
(* entry in the status map of the job queue, the workflow each of them     *)
(* starts, and the wait for that workflow (core/job_queue.rs).  The queue  *)
(* itself, its permits and its shutdown are in JobQueue.  The workflow     *)
(* engine is external: it runs the steps of a workflow one after the       *)
(* other, tries a step again while its policy allows, and goes on when the *)
(* job that started the workflow has given up waiting.                     *)
(***************************************************************************)
EXTENDS Naturals, FiniteSets

CONSTANTS
    Jobs,
    KeyOf,      \* Job::worker_url: the key of a job's status
    Groups,     \* bound: the sets of jobs that meet
    Nil

ASSUME JobsAssumption ==
    /\ Groups \subseteq SUBSET Jobs
    /\ Nil \notin Jobs
    /\ Nil \notin {"pending", "processing", "failed", "ok", "error", "removed", "not_found", "completed"}
    /\ Jobs \cap {"error", "removed"} = {}

VARIABLES
    active,     \* the jobs that are submitted in this behaviour
    phase,      \* per job: "new", "checked", "refused", "pending", "running" or "over"
    result,     \* per job: what execute_job returned
    status,     \* status_map
    step,       \* per job: the step its workflow is at
    attempt,    \* per job: attempts at that step, this one included
    disturbed   \* history: jobs whose status somebody else wrote or removed

jobs == <<active, phase, result, status, step, attempt, disturbed>>

KeySet == {KeyOf[j] : j \in Jobs}
Ended(j) == step[j] \in {"completed", "failed"}

JobsInit ==
    /\ active \in Groups
    /\ phase = [j \in Jobs |-> "new"]
    /\ result = [j \in Jobs |-> Nil]
    /\ status = [k \in KeySet |-> Nil]
    /\ step = [j \in Jobs |-> "idle"]
    /\ attempt = [j \in Jobs |-> 1]
    /\ disturbed = {}

Sharing(k) == {j \in Jobs : KeyOf[j] = k /\ phase[j] # "new"}

\* A step of a workflow leaves its job alone.
StepOnly == UNCHANGED <<active, phase, result, status, disturbed>>

\* The status of j's key is replaced, or removed, for j.
Put(j, state) ==
    /\ status' = [status EXCEPT ![KeyOf[j]] = state]
    /\ disturbed' = disturbed \cup (Sharing(KeyOf[j]) \ {j})

-----------------------------------------------------------------------------
(* The workflow *)

Goto(j, s) ==
    /\ step' = [step EXCEPT ![j] = s]
    /\ attempt' = [attempt EXCEPT ![j] = 1]

\* Variant: the attempts at a step are not counted.
AgainForever(j, max, last) == UNCHANGED <<step, attempt>>

\* A step failed: it is tried again, up to max attempts in all, and then the workflow goes
\* where the step's failure action says.
Again(j, max, last) ==
    IF attempt[j] < max
    THEN attempt' = [attempt EXCEPT ![j] = @ + 1] /\ UNCHANGED step
    ELSE Goto(j, last)

-----------------------------------------------------------------------------
(* The job *)

\* submit
Submit(j) ==
    /\ j \in active
    /\ phase' = [phase EXCEPT ![j] = "pending"]
    /\ Put(j, "pending")
    /\ UNCHANGED <<active, result, step, attempt>>

\* process_job starts the workflow.
Begin(j, first) ==
    /\ phase[j] = "pending"
    /\ phase' = [phase EXCEPT ![j] = "running"]
    /\ Put(j, "processing")
    /\ Goto(j, first)
    /\ UNCHANGED <<active, result>>

\* Variant: a failure removes the status too.
FinishAlike(j, ok) ==
    /\ phase[j] = "running"
    /\ phase' = [phase EXCEPT ![j] = "over"]
    /\ result' = [result EXCEPT ![j] = IF ok THEN "ok" ELSE "failed"]
    /\ Put(j, Nil)
    /\ UNCHANGED <<active, step, attempt>>

\* record_job_completion
Finish(j, ok) ==
    /\ phase[j] = "running"
    /\ phase' = [phase EXCEPT ![j] = "over"]
    /\ result' = [result EXCEPT ![j] = IF ok THEN "ok" ELSE "failed"]
    /\ Put(j, IF ok THEN Nil ELSE "failed")
    /\ UNCHANGED <<active, step, attempt>>

\* wait_for_completion returns with the workflow ...
Conclude(j) == Ended(j) /\ Finish(j, step[j] = "completed")

\* ... or when its time is up; the workflow goes on.
TimeOut(j) == ~Ended(j) /\ Finish(j, FALSE)

\* cleanup_old_statuses
CleanUp(k) ==
    /\ status[k] # Nil
    /\ status' = [status EXCEPT ![k] = Nil]
    /\ disturbed' = disturbed \cup Sharing(k)
    /\ UNCHANGED <<active, phase, result, step, attempt>>

JobNext(j) == Conclude(j) \/ TimeOut(j)
=============================================================================
