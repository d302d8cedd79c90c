---------------------------- MODULE HttpRouters -----------------------------
(***************************************************************************)
(* The two HTTP routers of a gateway in single-router mode: at start the   *)
(* factory makes the one that the routing mode asks for                    *)
(* (routers/factory.rs), and from then on that router serves the requests. *)
(* What the two keep alike (workers, places, attempts, reports) is kept in *)
(* the same variables.                                                     *)
(***************************************************************************)
EXTENDS HttpRouter

CONSTANTS
    PdRequests,
    Prefills, Decodes,  \* the workers of a prefill/decode deployment
    PdHealthRun         \* its health checks in a row that move a worker's flag

ASSUME PdAssumption ==
    /\ IsFiniteSet(PdRequests) /\ PdHealthRun \in Nat \ {0}
    /\ IsFiniteSet(Prefills \cup Decodes) /\ Prefills \cap Decodes = {}
    /\ None \notin Prefills \cup Decodes

VARIABLES
    mode,                             \* the routing mode that is configured
    pair, early, answer, task, deed   \* see PdRouter

Pd == INSTANCE PdRouter WITH Workers <- Prefills \cup Decodes, Requests <- PdRequests,
                             HealthFailures <- PdHealthRun, HealthSuccesses <- PdHealthRun

ASSUME TaskAssumption ==
    \A d \in Decodes, state \in {"running", "over"}, synthetic \in BOOLEAN, end \in Terminals :
        None # Pd!Task(d, state, synthetic, end)

regularOnly == <<seen, chosen, status, terminal, fate, streak>>
pdOnly == <<pair, early, answer, task, deed>>
routers == <<mode, worker, handler, history, pdOnly>>

\* RouterFactory::create_router.  The variables of the other router have no value of use.
RoutersInit ==
    \/ /\ mode = "regular" /\ Init
       /\ pair = None /\ early = None /\ answer = None /\ task = None /\ deed = None
    \/ /\ mode = "prefill_decode" /\ Pd!Init
       /\ seen = None /\ chosen = None /\ status = None /\ terminal = None
       /\ fate = None /\ streak = None

Regularly(A) == mode = "regular" /\ A /\ UNCHANGED <<mode, pdOnly>>
Disaggregated(A) == mode = "prefill_decode" /\ A /\ UNCHANGED <<mode, regularOnly>>

RoutersNext == Regularly(Next) \/ Disaggregated(Pd!Next)

\* The fairness of HttpRouter and of PdRouter.
RoutersSpec ==
    /\ RoutersInit /\ [][RoutersNext]_routers
    /\ \A r \in Requests : WF_routers(Regularly(Handle(r)))
    /\ \A c \in Pd!Calls : WF_routers(Disaggregated(Pd!CancelTask(c)))

-----------------------------------------------------------------------------
(* Properties *)

\* Whichever router runs, the load of every worker is the number of requests it holds, from
\* the guard to the end of the answer, of the stream or of the backoff, and no longer.
LoadsExact == IF mode = "regular" THEN LoadExact ELSE Pd!LoadExact

\* The breakers of a regular router hear of every attempt once, as the worker ended it.
RegularBreakersHear == mode = "regular" => BreakerHears

\* A prefill/decode router blames each worker once, for what it failed, and decode for
\* nothing else.
PdBlameExact == mode = "prefill_decode" => Pd!BlameExact

\* Every request to a regular router is answered in full or given up by its client, whatever
\* the workers do: the retry loop ends.
RegularRequestsEnd ==
    \A r \in Requests : <>(mode = "regular" => pc[r] \in {"done", "gone"})

\* When the client of a prefill/decode router is gone, no task keeps a decode stream open,
\* even if decode hangs.
PdUpstreamReleased ==
    \A c \in Pd!Calls :
        (mode = "prefill_decode" /\ pc[c[1]] = "gone") ~> ~(mode = "prefill_decode" /\ Pd!Running(c))
=============================================================================
