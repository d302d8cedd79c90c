----------------------------- MODULE McpServers -----------------------------
(***************************************************************************)
(* MCP servers of the configuration (core/steps/mcp_registration.rs): the  *)
(* workflow that connects to a server, loads what it offers, registers it  *)
(* and decides whether that was good enough.  All steps but the last go on *)
(* when they fail.  The manager of the servers is external; it is there    *)
(* from the start (app_context.rs).                                        *)
(***************************************************************************)
EXTENDS ExtensionJobs

CONSTANTS
    Servers,
    Required,     \* servers with config.required
    MaxConnect    \* attempts to connect; the code has 100

ASSUME McpAssumption == Servers \subseteq Jobs /\ Required \subseteq Servers

VARIABLES
    client,       \* per workflow: mcp_client is there
    inventory,    \* servers whose tools are known
    serving       \* servers in the manager

mcp == <<client, inventory, serving>>

McpInit ==
    /\ client = [s \in Servers |-> FALSE]
    /\ inventory = {}
    /\ serving = {}

\* InitializeMcpServers submits one job per server.
AddServer(s) == phase[s] = "new" /\ Submit(s) /\ UNCHANGED mcp

BeginServer(s) == Begin(s, "connect_mcp_server") /\ UNCHANGED mcp

ConnectMcpServer(s) ==
    /\ step[s] = "connect_mcp_server"
    /\ \/ client' = [client EXCEPT ![s] = TRUE] /\ Goto(s, "discover_mcp_inventory")
       \/ Again(s, MaxConnect, "discover_mcp_inventory") /\ UNCHANGED client
    /\ StepOnly /\ UNCHANGED <<inventory, serving>>

\* Without a client the step fails; with one it can only run out of time.
DiscoverMcpInventory(s) ==
    /\ step[s] = "discover_mcp_inventory"
    /\ \/ client[s] /\ inventory' = inventory \cup {s} /\ Goto(s, "register_mcp_server")
       \/ Again(s, 3, "register_mcp_server") /\ UNCHANGED inventory
    /\ StepOnly /\ UNCHANGED <<client, serving>>

RegisterMcpServer(s) ==
    /\ step[s] = "register_mcp_server"
    /\ serving' = IF client[s] THEN serving \cup {s} ELSE serving
    /\ Goto(s, "validate_registration")
    /\ StepOnly /\ UNCHANGED <<client, inventory>>

\* The client of the workflow stands for the registration.
ValidateRegistration(s) ==
    /\ step[s] = "validate_registration"
    /\ Goto(s, IF client[s] \/ s \notin Required THEN "completed" ELSE "failed")
    /\ StepOnly /\ UNCHANGED mcp

McpSteps(s) ==
    ConnectMcpServer(s) \/ DiscoverMcpInventory(s) \/ RegisterMcpServer(s) \/ ValidateRegistration(s)

McpNext ==
    \E s \in Servers :
        \/ AddServer(s) \/ BeginServer(s) \/ McpSteps(s)
        \/ JobNext(s) /\ UNCHANGED mcp

McpFair == \A s \in Servers : WF_<<jobs, mcp>>(McpSteps(s))

-----------------------------------------------------------------------------
(* Properties *)

\* A required server whose job succeeded is in the manager, whichever of the earlier steps
\* failed on the way: the last step looks only at the client that the first one left.
RequiredIsServing ==
    \A s \in Required : result[s] = "ok" => s \in serving
=============================================================================
