----------------------------- MODULE Extensions -----------------------------
(***************************************************************************)
(* The jobs for WASM modules, tokenizers and MCP servers together, as the  *)
(* job queue runs them.                                                    *)
(***************************************************************************)
EXTENDS WasmModules, Tokenizers, McpServers

ASSUME KindsAssumption ==
    /\ (Adds \cup Removals) \cap Tokens = {} /\ (Adds \cup Removals) \cap Servers = {}
    /\ Tokens \cap Servers = {}

extensionVars == <<jobs, wasm, tokens, mcp>>

ExtensionsInit == JobsInit /\ WasmInit /\ TokensInit /\ McpInit

ExtensionsNext ==
    \/ WasmNext /\ UNCHANGED <<tokens, mcp>>
    \/ TokensNext /\ UNCHANGED <<wasm, mcp>>
    \/ McpNext /\ UNCHANGED <<wasm, tokens>>
    \/ \E k \in KeySet : CleanUp(k) /\ UNCHANGED <<wasm, tokens, mcp>>

\* The engine runs the steps of every workflow, and a step is bounded by its timeout.
ExtensionsSpec ==
    /\ ExtensionsInit /\ [][ExtensionsNext]_extensionVars
    /\ WasmFair /\ TokensFair /\ McpFair

-----------------------------------------------------------------------------
(* Properties *)

\* What clients are told, and what a job reports, is so.
ReportsTrue == AnswersTrue /\ NotFoundIsOver /\ RequiredIsServing

\* Every workflow ends, also when its file, its source or its server never comes, and when
\* the job that started it has stopped waiting.  (A job has one workflow, and there are
\* finitely many jobs.)
WorkflowsEnd ==
    <>[](\A j \in Jobs : step[j] # "idle" => Ended(j))
=============================================================================
