----------------------------- MODULE Tokenizers -----------------------------
(***************************************************************************)
(* Tokenizers: the endpoints that add, remove and ask about one            *)
(* (routers/tokenize/handlers.rs) and the workflow that loads it           *)
(* (core/steps/tokenizer_registration.rs), which the startup and the       *)
(* registration of a worker use as well.  The registry is external; its    *)
(* load tells a name that is taken from one it has loaded.                 *)
(*                                                                         *)
(* The id of a tokenizer is made for its job, and stands here as the job.  *)
(***************************************************************************)
EXTENDS ExtensionJobs

CONSTANTS
    Tokens,
    NameOf,     \* per tokenizer: its name
    FromApi     \* tokenizers added by the API, with fail_on_duplicate

ASSUME TokensAssumption == Tokens \subseteq Jobs

VARIABLES
    registry,   \* tokenizer_registry: name -> id, or Nil
    ask,        \* a status request: the id, when it was not in the registry, or Nil
    reply       \* the last answer of the status endpoint

tokens == <<registry, ask, reply>>

Loaded == {t \in Tokens : registry[NameOf[t]] = t}
NoReply == [id |-> Nil, says |-> Nil]

TokensInit ==
    /\ registry = [n \in {NameOf[t] : t \in Tokens} |-> Nil]
    /\ ask = Nil
    /\ reply = NoReply

\* add_tokenizer looks for the name ...
CheckName(t) ==
    /\ t \in active \cap FromApi /\ phase[t] = "new"
    /\ phase' = [phase EXCEPT ![t] = IF registry[NameOf[t]] = Nil THEN "checked" ELSE "refused"]
    /\ UNCHANGED <<active, result, status, step, attempt, disturbed, tokens>>

\* ... and submits its job.
AddTokenizer(t) ==
    /\ t \in FromApi /\ phase[t] = "checked"
    /\ Submit(t)
    /\ UNCHANGED tokens

\* The registration of a worker, and the startup, submit theirs without a look.
SubmitTokenizerJob(t) ==
    /\ t \notin FromApi /\ phase[t] = "new"
    /\ Submit(t)
    /\ UNCHANGED tokens

BeginTokenizer(t) == Begin(t, "load_tokenizer") /\ UNCHANGED tokens

\* The load ends: the name is taken, or the tokenizer is registered, or it cannot be had.
\* Every failure is tried again, that of a duplicate too.
LoadTokenizer(t) ==
    /\ step[t] = "load_tokenizer"
    /\ \/ /\ registry[NameOf[t]] = Nil
          /\ registry' = [registry EXCEPT ![NameOf[t]] = t]
          /\ Goto(t, "completed")
       \/ /\ registry[NameOf[t]] # Nil /\ t \notin FromApi
          /\ Goto(t, "completed") /\ UNCHANGED registry
       \/ /\ registry[NameOf[t]] # Nil => t \in FromApi
          /\ Again(t, 3, "failed") /\ UNCHANGED registry
    /\ StepOnly /\ UNCHANGED <<ask, reply>>

\* remove_tokenizer, by id or by name
RemoveTokenizer(n) ==
    /\ registry[n] # Nil
    /\ registry' = [registry EXCEPT ![n] = Nil]
    /\ UNCHANGED <<jobs, ask, reply>>

\* get_tokenizer_status looks into the registry ...
AskRegistry(t) ==
    /\ ask = Nil /\ phase[t] \notin {"new", "checked", "refused"}
    /\ IF t \in Loaded
       THEN reply' = [id |-> t, says |-> "completed"] /\ UNCHANGED ask
       ELSE ask' = t /\ reply' = NoReply
    /\ UNCHANGED <<jobs, registry>>

\* ... and then into the statuses.
AskStatus ==
    /\ ask # Nil
    /\ reply' = [id |-> ask, says |-> IF status[KeyOf[ask]] = Nil THEN "not_found" ELSE status[KeyOf[ask]]]
    /\ ask' = Nil
    /\ UNCHANGED <<jobs, registry>>

TokensNext ==
    \/ \E t \in Tokens :
          \/ CheckName(t) \/ AddTokenizer(t) \/ SubmitTokenizerJob(t) \/ BeginTokenizer(t)
          \/ LoadTokenizer(t) \/ AskRegistry(t)
          \/ JobNext(t) /\ UNCHANGED tokens
    \/ \E n \in DOMAIN registry : RemoveTokenizer(n)
    \/ AskStatus

TokensFair == \A t \in Tokens : WF_<<jobs, tokens>>(LoadTokenizer(t))

-----------------------------------------------------------------------------
(* Properties *)

\* A client that was given an id is told that it is unknown only when its job is over, or
\* its status was cleaned up for its age: the status is there before the id is given out,
\* and the two places where an id is looked for leave no gap while the job is under way.
NotFoundIsOver ==
    reply.says = "not_found" => phase[reply.id] = "over" \/ reply.id \in disturbed
=============================================================================
