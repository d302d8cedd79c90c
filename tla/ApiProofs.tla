----------------------------- MODULE ApiProofs -----------------------------
(***************************************************************************)
(* Proofs about what clients reach through the API: the jobs for WASM      *)
(* modules, tokenizers and MCP servers, and the Responses API of the gRPC  *)
(* and proxy routers with its stores and the conversations.  They hold for *)
(* any number of jobs, requests and handlers, any answers of the models    *)
(* and any limits.                                                         *)
(***************************************************************************)
EXTENDS Extensions, Conversations, FiniteSetTheorems, WellFoundedInduction, TLAPS

-----------------------------------------------------------------------------
(* The inductive invariant *)

Wasm == Adds \cup Removals
Ok(j) == result[j] = "ok"

JobsType ==
    /\ active \subseteq Jobs /\ active \cap Kept = {}
    /\ phase \in [Jobs -> {"new", "checked", "refused", "pending", "running", "over"}]
    /\ result \in [Jobs -> {Nil, "ok", "failed"}]
    /\ status \in [KeySet -> {Nil, "pending", "processing", "failed"}]
    /\ step = [j \in Jobs |-> step[j]]
    /\ answer \in [Wasm -> Adds \cup {Nil, "error", "removed"}]

\* A workflow starts once, and a success is that of a workflow that was completed.
Once(j) ==
    /\ phase[j] \in {"new", "checked", "refused", "pending"} => step[j] = "idle" /\ result[j] = Nil
    /\ Ok(j) => phase[j] = "over" /\ step[j] = "completed"
    /\ j \in Kept => phase[j] = "new"
    /\ j \in Wasm => phase[j] \notin {"checked", "refused"}

\* The status of a job that nobody disturbed says how far it is.
OwnStatus(j) ==
    j \notin disturbed =>
        /\ phase[j] = "pending" => status[KeyOf[j]] = "pending"
        /\ phase[j] = "running" => status[KeyOf[j]] = "processing"
        /\ phase[j] = "over" /\ ~Ok(j) /\ (j \in Wasm => answer[j] = Nil) => status[KeyOf[j]] = "failed"

JobsInv == JobsType /\ \A j \in Jobs : Once(j) /\ OwnStatus(j)

\* A module was registered, and is not registered again.
Settled(a) == a \in Kept \/ step[a] = "completed"

\* What a registration has found, and what its module is made of.
ModuleInv(a) ==
    /\ module[a] # Nil => Settled(a)
    /\ a \in Kept => data[a].seen = {} /\ (module[a] # Nil => module[a].bytes = Old)
    /\ a \notin Kept /\ module[a] # Nil => /\ module[a].bytes = data[a].bytes
                                           /\ module[a].hash = data[a].hash
    /\ step[a] \in {"register_module", "completed"} => data[a].bytes \in Components
    /\ step[a] = "completed" => a \in ever
    /\ \A m \in data[a].seen : Settled(m)
    /\ step[a] \in {"load_wasm_bytes", "validate_wasm_component", "register_module", "completed"} =>
          \A m \in data[a].seen : module[m] # Nil => module[m].hash # data[a].hash

\* The module of a removal that is completed is gone for good.
RemovalInv(r) ==
    /\ step[r] = "remove_module" => Settled(Target[r])
    /\ step[r] = "completed" => Settled(Target[r]) /\ module[Target[r]] = Nil

\* Who is told of a success has had one.
AnswerInv(j) ==
    /\ j \in Adds => answer[j] # "removed"
    /\ j \in Removals => answer[j] \notin Adds
    /\ j \notin disturbed /\ answer[j] \notin {Nil, "error"} => Ok(j)

WasmType ==
    /\ file \in [Paths -> Contents]
    /\ data \in [Adds -> [size : Contents, hash : Contents, bytes : Contents, seen : SUBSET Adds]]
    /\ module = [a \in Adds |-> module[a]]
    /\ ever \subseteq Adds

WasmInv ==
    /\ WasmType
    /\ \A a \in Adds : ModuleInv(a)
    /\ \A r \in Removals : RemovalInv(r)
    /\ \A j \in Wasm : AnswerInv(j)

\* An id that is asked about has been given out.
TokensInv ==
    /\ ask \in Tokens \cup {Nil}
    /\ ask # Nil => phase[ask] \notin {"new", "checked", "refused"}
    /\ reply.says = "not_found" => reply.id \in Tokens
    /\ NotFoundIsOver

\* The client that the first step of a workflow leaves is in the manager when the last one
\* looks for it.
ServerInv(s) ==
    /\ step[s] \in {"validate_registration", "completed"} /\ client[s] => s \in serving
    /\ step[s] = "completed" /\ s \in Required => client[s]

McpInv == client \in [Servers -> BOOLEAN] /\ \A s \in Servers : ServerInv(s)

ExtensionsInv == JobsInv /\ WasmInv /\ TokensInv /\ McpInv

-----------------------------------------------------------------------------
(* The jobs *)

Unstarted == {"new", "checked", "refused"}

\* No step takes back what the others rely on.
Onward ==
    /\ disturbed \subseteq disturbed'
    /\ \A j \in Jobs : /\ Ok(j) => Ok(j)'
                       /\ phase[j] = "over" => phase'[j] = "over"
                       /\ phase[j] \notin Unstarted => phase'[j] \notin Unstarted

\* Writing the status of a job's key disturbs the others of the key.
LEMMA PutDisturbs ==
    ASSUME JobsType, NEW j \in Jobs, NEW state \in {Nil, "pending", "processing", "failed"}, Put(j, state)
    PROVE  /\ status' \in [KeySet -> {Nil, "pending", "processing", "failed"}]
           /\ status'[KeyOf[j]] = state /\ disturbed \subseteq disturbed'
           /\ \A i \in Jobs \ {j} : i \in disturbed' \/ phase[i] = "new" \/ status'[KeyOf[i]] = status[KeyOf[i]]
<1>1. \A i \in Jobs : KeyOf[i] \in KeySet
  BY DEF KeySet
<1> QED
  BY <1>1 DEF JobsType, Put, Sharing

LEMMA JobsSubmit ==
    ASSUME JobsInv, NEW j \in Jobs, phase[j] \in {"new", "checked"}, Submit(j), answer' = answer
    PROVE  JobsInv' /\ Onward
<1> USE JobsAssumption DEF JobsInv
<1>1. Put(j, "pending") /\ j \notin Kept
  BY DEF Submit, JobsType
<1>2. JobsType'
  BY <1>1, PutDisturbs DEF JobsType, Submit
<1>3. \A i \in Jobs \ {j} : phase'[i] = phase[i]
  BY DEF Submit, JobsType
<1>4. phase'[j] = "pending" /\ result' = result /\ step' = step
  BY DEF Submit, JobsType
<1>5. ASSUME NEW i \in Jobs PROVE Once(i)'
  BY <1>1, <1>3, <1>4, <1>5 DEF Once, Ok
<1>6. ASSUME NEW i \in Jobs PROVE OwnStatus(i)'
  BY <1>1, <1>3, <1>4, PutDisturbs DEF OwnStatus, Ok
<1>7. Onward
  BY <1>1, <1>3, <1>4, PutDisturbs DEF Onward, Ok, Unstarted
<1> QED
  BY <1>2, <1>5, <1>6, <1>7

LEMMA JobsBegin ==
    ASSUME JobsInv, NEW j \in Jobs, NEW first, Begin(j, first), answer' = answer
    PROVE  JobsInv' /\ Onward
<1> USE JobsAssumption DEF JobsInv
<1>1. Put(j, "processing") /\ phase[j] = "pending" /\ result[j] = Nil /\ j \notin Kept
  BY DEF Begin, Once
<1>2. JobsType'
  BY <1>1, PutDisturbs DEF JobsType, Begin, Goto
<1>3. \A i \in Jobs \ {j} : phase'[i] = phase[i] /\ step'[i] = step[i]
  BY DEF Begin, Goto, JobsType
<1>4. phase'[j] = "running" /\ result' = result
  BY DEF Begin, JobsType
<1>5. ASSUME NEW i \in Jobs PROVE Once(i)'
  BY <1>1, <1>3, <1>4, <1>5 DEF Once, Ok
<1>6. ASSUME NEW i \in Jobs PROVE OwnStatus(i)'
  BY <1>1, <1>3, <1>4, PutDisturbs DEF OwnStatus, Ok
<1>7. Onward
  BY <1>1, <1>3, <1>4, PutDisturbs DEF Onward, Ok, Unstarted
<1> QED
  BY <1>2, <1>5, <1>6, <1>7

LEMMA JobsFinish ==
    ASSUME JobsInv, NEW j \in Jobs, JobNext(j), answer' = answer
    PROVE  JobsInv' /\ Onward
<1> USE JobsAssumption DEF JobsInv
<1>0. PICK ok \in BOOLEAN : Finish(j, ok) /\ (ok => step[j] = "completed")
  BY DEF JobNext, Conclude, TimeOut
<1>1. Put(j, IF ok THEN Nil ELSE "failed") /\ phase[j] = "running" /\ j \notin Kept
  BY <1>0 DEF Finish, Once
<1>2. JobsType'
  BY <1>0, <1>1, PutDisturbs DEF JobsType, Finish
<1>3. \A i \in Jobs \ {j} : phase'[i] = phase[i] /\ result'[i] = result[i]
  BY <1>0 DEF Finish, JobsType
<1>4. phase'[j] = "over" /\ result'[j] = (IF ok THEN "ok" ELSE "failed") /\ step' = step
  BY <1>0 DEF Finish, JobsType
<1>5. ASSUME NEW i \in Jobs PROVE Once(i)'
  BY <1>0, <1>1, <1>3, <1>4, <1>5 DEF Once, Ok
<1>6. ASSUME NEW i \in Jobs PROVE OwnStatus(i)'
  BY <1>1, <1>3, <1>4, PutDisturbs DEF OwnStatus, Ok
<1>7. Onward
  BY <1>1, <1>3, <1>4, PutDisturbs DEF Onward, Ok, Once, Unstarted
<1> QED
  BY <1>2, <1>5, <1>6, <1>7

\* A step of the workflow of a job.
LEMMA JobsWork ==
    ASSUME JobsInv, NEW j \in Jobs, StepOnly, step[j] \notin {"idle", "completed"},
           step' = [i \in Jobs |-> step'[i]], \A i \in Jobs \ {j} : step'[i] = step[i], answer' = answer
    PROVE  JobsInv' /\ Onward
<1> USE DEF JobsInv, StepOnly
<1>1. JobsType'
  BY DEF JobsType
<1>2. ASSUME NEW i \in Jobs PROVE Once(i)'
  BY <1>2 DEF Once, Ok
<1>3. ASSUME NEW i \in Jobs PROVE OwnStatus(i)'
  BY <1>3 DEF OwnStatus, Ok
<1> QED
  BY <1>1, <1>2, <1>3 DEF Onward, Ok

LEMMA JobsCleanUp ==
    ASSUME JobsInv, NEW k \in KeySet, CleanUp(k), answer' = answer
    PROVE  JobsInv' /\ Onward
<1> USE DEF JobsInv, CleanUp
<1>1. JobsType'
  BY DEF JobsType
<1>2. ASSUME NEW i \in Jobs PROVE Once(i)'
  BY <1>2 DEF Once, Ok
<1>3. ASSUME NEW i \in Jobs PROVE i \in disturbed' \/ phase[i] = "new" \/ status'[KeyOf[i]] = status[KeyOf[i]]
  BY <1>3 DEF Sharing, JobsType, KeySet
<1>4. ASSUME NEW i \in Jobs PROVE OwnStatus(i)'
  BY <1>3, <1>4 DEF OwnStatus, Ok
<1> QED
  BY <1>1, <1>2, <1>4 DEF Onward, Ok

LEMMA JobsSame ==
    ASSUME JobsInv, UNCHANGED <<jobs, answer>>
    PROVE  JobsInv' /\ Onward
BY DEF JobsInv, JobsType, Once, OwnStatus, Ok, Onward, jobs

-----------------------------------------------------------------------------
(* What the steps of one kind of job leave to the others *)

LEMMA WasmFrame ==
    ASSUME WasmInv, Onward, UNCHANGED wasm, \A j \in Wasm : step'[j] = step[j]
    PROVE  WasmInv'
<1> USE WasmAssumption DEF WasmInv, Wasm, wasm
<1>1. WasmType'
  BY DEF WasmType
<1>2. \A a \in Adds : Settled(a)' <=> Settled(a)
  BY DEF Settled
<1>3. ASSUME NEW a \in Adds PROVE ModuleInv(a)'
  BY <1>2, <1>3 DEF ModuleInv, WasmType
<1>4. ASSUME NEW r \in Removals PROVE RemovalInv(r)'
  BY <1>2, <1>4 DEF RemovalInv
<1>5. ASSUME NEW j \in Wasm PROVE AnswerInv(j)'
  BY <1>5 DEF AnswerInv, Onward
<1> QED
  BY <1>1, <1>3, <1>4, <1>5

LEMMA TokensFrame ==
    ASSUME TokensInv, Onward, UNCHANGED tokens
    PROVE  TokensInv'
BY TokensAssumption DEF TokensInv, NotFoundIsOver, Onward, Unstarted, tokens

LEMMA McpFrame ==
    ASSUME McpInv, UNCHANGED mcp, \A s \in Servers : step'[s] = step[s]
    PROVE  McpInv'
BY DEF McpInv, ServerInv, mcp

\* A job of a kind is submitted, or returns.
LEMMA JobFrame ==
    ASSUME ExtensionsInv, JobsInv', Onward, step' = step, UNCHANGED <<wasm, tokens, mcp>>
    PROVE  ExtensionsInv'
BY WasmFrame, TokensFrame, McpFrame DEF ExtensionsInv

-----------------------------------------------------------------------------
(* WASM modules *)

\* What a registration that is not over does is no concern of the others: none of them has
\* seen its module.
LEMMA WasmOthers ==
    ASSUME WasmInv, NEW a \in Adds, ~Settled(a), \A j \in Wasm \ {a} : step'[j] = step[j],
           \A b \in Adds \ {a} : data'[b] = data[b] /\ module'[b] = module[b],
           ever \subseteq ever', answer' = answer, Onward, WasmType', ModuleInv(a)'
    PROVE  WasmInv'
<1> USE WasmAssumption DEF WasmInv, Wasm
<1>1. \A b \in Adds : Settled(b) => b # a /\ Settled(b)'
  BY DEF Settled
<1>2. ASSUME NEW b \in Adds \ {a} PROVE ModuleInv(b)'
  <2>1. ModuleInv(b) /\ \A m \in data[b].seen : m \in Adds
    BY DEF WasmType
  <2>2. /\ step'[b] = step[b] /\ data'[b] = data[b] /\ module'[b] = module[b]
        /\ Settled(b) => Settled(b)'
    BY <1>1
  <2>3. \A m \in data[b].seen : Settled(m) /\ Settled(m)' /\ m # a /\ module'[m] = module[m]
    BY <1>1, <2>1 DEF ModuleInv
  <2> QED
    BY <2>1, <2>2, <2>3 DEF ModuleInv
<1>3. ASSUME NEW r \in Removals PROVE RemovalInv(r)'
  <2>1. RemovalInv(r) /\ step'[r] = step[r] /\ Target[r] \in Adds
    OBVIOUS
  <2>2. Settled(Target[r]) => Settled(Target[r])' /\ module'[Target[r]] = module[Target[r]]
    BY <1>1, <2>1
  <2> QED
    BY <2>1, <2>2 DEF RemovalInv
<1>4. ASSUME NEW j \in Adds \cup Removals PROVE AnswerInv(j)'
  BY <1>4 DEF AnswerInv, Onward
<1> QED
  BY <1>2, <1>3, <1>4

\* A registration moves only its own workflow.
LEMMA RegistrationMoves ==
    ASSUME JobsInv, NEW a \in Adds, Registration(a)
    PROVE  step' = [j \in Jobs |-> step'[j]] /\ \A i \in Jobs \ {a} : step'[i] = step[i]
<1>0. step = [j \in Jobs |-> step[j]] /\ a \in Jobs
  BY WasmAssumption DEF JobsInv, JobsType
<1>1. CASE ValidateDescriptor(a)
  BY <1>0, <1>1 DEF ValidateDescriptor, Goto
<1>2. CASE CalculateHash(a)
  BY <1>0, <1>2 DEF CalculateHash, Goto, Again
<1>3. CASE CheckDuplicate(a)
  BY <1>0, <1>3 DEF CheckDuplicate, Goto
<1>4. CASE LoadWasmBytes(a)
  BY <1>0, <1>4 DEF LoadWasmBytes, Goto, Again
<1>5. CASE ValidateWasmComponent(a)
  BY <1>0, <1>5 DEF ValidateWasmComponent, Goto
<1>6. CASE RegisterModule(a)
  BY <1>0, <1>6 DEF RegisterModule, Goto
<1> QED
  BY <1>1, <1>2, <1>3, <1>4, <1>5, <1>6 DEF Registration

\* One field of what a registration has found is replaced.
Found == [size : Contents, hash : Contents, bytes : Contents, seen : SUBSET Adds]

LEMMA FoundMore ==
    ASSUME NEW d \in Found, NEW c \in Contents, NEW S \in SUBSET Adds
    PROVE  /\ [d EXCEPT !.size = c] \in Found /\ [d EXCEPT !.hash = c] \in Found
           /\ [d EXCEPT !.bytes = c] \in Found /\ [d EXCEPT !.seen = S] \in Found
<1>1. [d EXCEPT !.size = c] \in Found
  BY DEF Found
<1>2. [d EXCEPT !.hash = c] \in Found
  BY DEF Found
<1>3. [d EXCEPT !.bytes = c] \in Found
  BY DEF Found
<1>4. [d EXCEPT !.seen = S] \in Found
  BY DEF Found
<1> QED BY <1>1, <1>2, <1>3, <1>4

LEMMA FoundIn ==
    ASSUME NEW D \in [Adds -> Found], NEW a \in Adds, NEW c \in Contents
    PROVE  /\ [D EXCEPT ![a].size = c] \in [Adds -> Found] /\ [D EXCEPT ![a].hash = c] \in [Adds -> Found]
           /\ [D EXCEPT ![a].bytes = c] \in [Adds -> Found]
<1>1. D[a] \in Found /\ {} \in SUBSET Adds
  OBVIOUS
<1>2. [D EXCEPT ![a].size = c] \in [Adds -> Found]
  BY <1>1, FoundMore
<1>3. [D EXCEPT ![a].hash = c] \in [Adds -> Found]
  BY <1>1, FoundMore
<1>4. [D EXCEPT ![a].bytes = c] \in [Adds -> Found]
  BY <1>1, FoundMore
<1> QED BY <1>2, <1>3, <1>4

LEMMA FoundSeen ==
    ASSUME NEW D \in [Adds -> Found], NEW a \in Adds, NEW S \in SUBSET Adds
    PROVE  [D EXCEPT ![a].seen = S] \in [Adds -> Found]
<1>1. D[a] \in Found
  OBVIOUS
<1>2. [D[a] EXCEPT !.seen = S] \in Found
  BY <1>1 DEF Found
<1> QED BY <1>2

\* A step of a registration.
LEMMA RegistrationStep ==
    ASSUME JobsInv, WasmInv, NEW a \in Adds, Registration(a)
    PROVE  JobsInv' /\ Onward /\ WasmInv'
<1> USE WasmAssumption
<1>1. Content(a) \in Contents /\ Registered \subseteq Adds /\ WasmType /\ ModuleInv(a)
  BY DEF Content, Paths, Registered, WasmInv, WasmType
<1>2. step[a] \notin {"idle", "completed"} /\ StepOnly /\ answer' = answer
  BY DEF Registration, ValidateDescriptor, CalculateHash, CheckDuplicate, LoadWasmBytes,
     ValidateWasmComponent, RegisterModule
<1>3. step = [j \in Jobs |-> step[j]] /\ a \in Jobs
  BY DEF JobsInv, JobsType
<1>4. step' = [j \in Jobs |-> step'[j]] /\ \A i \in Jobs \ {a} : step'[i] = step[i]
  BY RegistrationMoves
<1>5. JobsInv' /\ Onward
  BY <1>2, <1>3, <1>4, JobsWork
<1>6. ~Settled(a) /\ a \notin Kept /\ module[a] = Nil
  BY <1>1, <1>2, <1>3 DEF JobsInv, Once, Settled, ModuleInv
<1>7. /\ WasmType'
      /\ \A b \in Adds \ {a} : data'[b] = data[b] /\ module'[b] = module[b]
      /\ ever \subseteq ever'
  <2> USE <1>1 DEF WasmType
  <2>0. data \in [Adds -> Found]
    BY DEF Found
  <2>1. CASE ValidateDescriptor(a)
    <3>1. data' = data \/ data' = [data EXCEPT ![a].size = Content(a)]
      BY <2>1 DEF ValidateDescriptor
    <3>2. data' \in [Adds -> Found]
      <4>1. [data EXCEPT ![a].size = Content(a)] \in [Adds -> Found]
        BY <1>1, <2>0, FoundIn, Zenon
      <4> QED BY <2>0, <3>1, <4>1, Zenon
    <3> QED
      BY <2>1, <3>1, <3>2 DEF ValidateDescriptor, Found
  <2>2. CASE CalculateHash(a)
    <3>1. data' = data \/ data' = [data EXCEPT ![a].hash = Content(a)]
      BY <2>2 DEF CalculateHash
    <3>2. data' \in [Adds -> Found]
      <4>1. [data EXCEPT ![a].hash = Content(a)] \in [Adds -> Found]
        BY <1>1, <2>0, FoundIn, Zenon
      <4> QED BY <2>0, <3>1, <4>1, Zenon
    <3> QED
      BY <2>2, <3>1, <3>2 DEF CalculateHash, Found
  <2>3. CASE CheckDuplicate(a)
    <3>1. data' = [data EXCEPT ![a].seen = Registered]
      BY <2>3 DEF CheckDuplicate
    <3>2. data' \in [Adds -> Found]
      BY <2>0, <3>1, FoundSeen
    <3> QED
      BY <2>3, <3>1, <3>2 DEF CheckDuplicate, Found
  <2>4. CASE LoadWasmBytes(a)
    <3>1. data' = data \/ data' = [data EXCEPT ![a].bytes = Content(a)]
      BY <2>4 DEF LoadWasmBytes
    <3>2. data' \in [Adds -> Found]
      <4>1. [data EXCEPT ![a].bytes = Content(a)] \in [Adds -> Found]
        BY <1>1, <2>0, FoundIn, Zenon
      <4> QED BY <2>0, <3>1, <4>1, Zenon
    <3> QED
      BY <2>4, <3>1, <3>2 DEF LoadWasmBytes, Found
  <2>5. CASE ValidateWasmComponent(a)
    BY <2>5 DEF ValidateWasmComponent
  <2>6. CASE RegisterModule(a)
    BY <2>6 DEF RegisterModule
  <2> QED
    BY <2>1, <2>2, <2>3, <2>4, <2>5, <2>6 DEF Registration
<1>8. \A b \in Adds \ {a} : Settled(b)' <=> Settled(b)
  BY <1>4 DEF Settled
<1>9. \A m \in data[a].seen : m \in Adds /\ Settled(m) /\ m # a
  BY <1>1, <1>6 DEF WasmType, ModuleInv
<1>10. ModuleInv(a)'
  <2>1. CASE ValidateDescriptor(a) \/ CalculateHash(a)
    <3>1. /\ step'[a] \in {"validate_descriptor", "calculate_hash", "check_duplicate", "failed"}
          /\ data'[a].seen = data[a].seen /\ module'[a] = Nil
      BY <1>1, <1>3, <1>6, <2>1 DEF ValidateDescriptor, CalculateHash, Goto, Again, WasmType
    <3> QED
      BY <1>6, <1>7, <1>8, <1>9, <3>1 DEF ModuleInv
  <2>2. CASE CheckDuplicate(a)
    <3>1. /\ data'[a].seen = Registered /\ data'[a].hash = data[a].hash
          /\ UNCHANGED module /\ step'[a] \in {"failed", "load_wasm_bytes"}
          /\ step'[a] = "load_wasm_bytes" => \A m \in Registered : module[m].hash # data[a].hash
      BY <1>1, <1>3, <2>2 DEF CheckDuplicate, Goto, WasmType
    <3>2. \A m \in Registered : m \in Adds \ {a} /\ Settled(m)
      BY <1>6 DEF Registered, WasmInv, ModuleInv
    <3> QED
      BY <1>6, <1>7, <1>8, <3>1, <3>2 DEF ModuleInv
  <2>3. CASE LoadWasmBytes(a)
    <3>1. /\ step[a] = "load_wasm_bytes" /\ step'[a] \in {"load_wasm_bytes", "validate_wasm_component", "failed"}
          /\ data'[a].seen = data[a].seen /\ data'[a].hash = data[a].hash /\ UNCHANGED module
      BY <1>1, <1>3, <2>3 DEF LoadWasmBytes, Goto, Again, WasmType
    <3> QED
      BY <1>1, <1>6, <1>7, <1>8, <1>9, <3>1 DEF ModuleInv
  <2>4. CASE ValidateWasmComponent(a)
    <3>1. /\ step[a] = "validate_wasm_component" /\ UNCHANGED <<data, module>>
          /\ step'[a] = IF data[a].bytes \in Components THEN "register_module" ELSE "failed"
      BY <1>3, <2>4 DEF ValidateWasmComponent, Goto
    <3> QED
      BY <1>1, <1>6, <1>7, <1>8, <1>9, <3>1 DEF ModuleInv
  <2>5. CASE RegisterModule(a)
    <3>1. /\ step[a] = "register_module" /\ step'[a] = "completed" /\ UNCHANGED data /\ a \in ever'
          /\ module'[a] = Module(a, data[a])
      BY <1>1, <1>3, <2>5 DEF RegisterModule, Goto, WasmType
    <3>2. module'[a].bytes = data[a].bytes /\ module'[a].hash = data[a].hash /\ Settled(a)'
      BY <3>1 DEF Module, Settled
    <3> QED
      BY <1>1, <1>6, <1>7, <1>8, <1>9, <3>1, <3>2 DEF ModuleInv
  <2> QED
    BY <2>1, <2>2, <2>3, <2>4, <2>5 DEF Registration
<1>11. \A j \in Wasm \ {a} : step'[j] = step[j]
  BY <1>4 DEF Wasm
<1> QED
  BY <1>2, <1>5, <1>6, <1>7, <1>10, <1>11, WasmOthers

\* A step of a removal.
LEMMA RemovalStep ==
    ASSUME JobsInv, WasmInv, NEW r \in Removals, Removal(r)
    PROVE  JobsInv' /\ Onward /\ WasmInv'
<1> USE WasmAssumption
<1>1. WasmType /\ r \in Jobs /\ r \notin Adds /\ Target[r] \in Adds /\ step = [j \in Jobs |-> step[j]]
  BY DEF WasmInv, JobsInv, JobsType
<1>2. /\ step[r] \notin {"idle", "completed"} /\ StepOnly
      /\ UNCHANGED <<file, changes, data, ever, answer>>
  BY DEF Removal, FindModuleToRemove, RemoveModule
<1>3. step' = [j \in Jobs |-> step'[j]] /\ \A i \in Jobs \ {r} : step'[i] = step[i]
  BY <1>1 DEF Removal, FindModuleToRemove, RemoveModule, Goto
<1>4. JobsInv' /\ Onward
  BY <1>1, <1>2, <1>3, JobsWork
<1>5. /\ WasmType'
      /\ \A m \in Adds : module'[m] = module[m] \/ module'[m] = Nil
      /\ \A m \in Adds : module[m] = Nil => module'[m] = Nil
  BY <1>1, <1>2 DEF WasmType, Removal, FindModuleToRemove, RemoveModule
<1>6. \A m \in Adds : step'[m] = step[m] /\ (Settled(m)' <=> Settled(m))
  BY <1>1, <1>3 DEF Settled
<1>7. ASSUME NEW a \in Adds PROVE ModuleInv(a)'
  <2>1. ModuleInv(a) /\ \A m \in data[a].seen : m \in Adds
    BY DEF WasmInv, WasmType
  <2> QED
    BY <1>2, <1>5, <1>6, <2>1 DEF ModuleInv
<1>8. /\ step'[r] = "remove_module" => Settled(Target[r])
      /\ step'[r] = "completed" => Settled(Target[r]) /\ module'[Target[r]] = Nil
  <2>1. CASE FindModuleToRemove(r)
    BY <1>1, <2>1 DEF FindModuleToRemove, Goto, Registered, WasmInv, ModuleInv
  <2>2. CASE RemoveModule(r)
    BY <1>1, <2>2 DEF RemoveModule, Goto, WasmType, WasmInv, RemovalInv
  <2> QED
    BY <2>1, <2>2 DEF Removal
<1>9. ASSUME NEW p \in Removals PROVE RemovalInv(p)'
  <2>1. CASE p = r
    BY <1>1, <1>6, <1>8, <2>1 DEF RemovalInv
  <2>2. CASE p # r
    <3>1. RemovalInv(p) /\ step'[p] = step[p] /\ Target[p] \in Adds
      BY <1>3, <2>2 DEF WasmInv
    <3> QED
      BY <1>5, <1>6, <3>1 DEF RemovalInv
  <2> QED
    BY <2>1, <2>2
<1>10. ASSUME NEW j \in Wasm PROVE AnswerInv(j)'
  BY <1>2, <1>4 DEF AnswerInv, Onward, WasmInv, Wasm
<1> QED
  BY <1>4, <1>5, <1>7, <1>9, <1>10 DEF WasmInv

LEMMA BeginWasmStep ==
    ASSUME JobsInv, WasmInv, NEW j \in Wasm, BeginWasm(j)
    PROVE  JobsInv' /\ Onward /\ WasmInv'
<1> USE WasmAssumption DEF Wasm
<1> DEFINE first == IF j \in Adds THEN "validate_descriptor" ELSE "find_module_to_remove"
<1>1. Begin(j, first) /\ UNCHANGED wasm /\ j \in Jobs
  BY DEF BeginWasm
<1>2. JobsInv' /\ Onward
  BY <1>1, JobsBegin DEF wasm
<1>3. step[j] = "idle" /\ step = [i \in Jobs |-> step[i]]
  BY <1>1 DEF Begin, JobsInv, JobsType, Once
<1>4. step'[j] = first /\ \A i \in Jobs \ {j} : step'[i] = step[i]
  BY <1>1, <1>3 DEF Begin, Goto
<1>5. \A a \in Adds : Settled(a)' <=> Settled(a)
  BY <1>3, <1>4 DEF Settled
<1>6. ASSUME NEW a \in Adds PROVE ModuleInv(a)'
  <2>1. ModuleInv(a) /\ (\A m \in data[a].seen : m \in Adds) /\ UNCHANGED <<module, data, ever>>
    BY <1>1 DEF WasmInv, WasmType, wasm
  <2>2. step'[a] = step[a] \/ step'[a] = "validate_descriptor"
    BY <1>4
  <2> QED
    BY <1>5, <2>1, <2>2 DEF ModuleInv
<1>7. ASSUME NEW r \in Removals PROVE RemovalInv(r)'
  <2>1. step'[r] = step[r] \/ step'[r] = "find_module_to_remove"
    BY <1>4
  <2> QED
    BY <1>1, <1>5, <2>1 DEF RemovalInv, WasmInv, wasm
<1>8. ASSUME NEW i \in Wasm PROVE AnswerInv(i)'
  BY <1>1, <1>2 DEF AnswerInv, Onward, WasmInv, wasm
<1>9. WasmType'
  BY <1>1 DEF WasmInv, WasmType, wasm
<1> QED
  BY <1>2, <1>6, <1>7, <1>8, <1>9 DEF WasmInv

\* A handler hears how its job went, or stops waiting.
LEMMA HandlerStep ==
    ASSUME JobsInv, WasmInv, NEW j \in Wasm, HearFailure(j) \/ HearSuccess(j) \/ StopWaiting(j)
    PROVE  JobsInv' /\ Onward /\ WasmInv' /\ step' = step
<1> USE WasmAssumption, JobsAssumption DEF Wasm
<1>1. /\ UNCHANGED <<phase, result, step, active, file, data, module, ever>> /\ j \in Jobs
      /\ answer[j] = Nil /\ phase[j] # "new"
  BY DEF HearFailure, HearSuccess, StopWaiting, jobs, Waiting
<1>2. /\ \A i \in Jobs \ {j} : i \in disturbed' \/ phase[i] = "new" \/ status'[KeyOf[i]] = status[KeyOf[i]]
      /\ disturbed \subseteq disturbed'
      /\ status' \in [KeySet -> {Nil, "pending", "processing", "failed"}]
  <2>1. CASE HearFailure(j)
    BY <1>1, <2>1, PutDisturbs DEF HearFailure, JobsInv
  <2>2. CASE HearSuccess(j) \/ StopWaiting(j)
    BY <2>2 DEF HearSuccess, StopWaiting, jobs, JobsInv, JobsType
  <2> QED
    BY <2>1, <2>2
<1>3. /\ answer' = [answer EXCEPT ![j] = answer'[j]]
      /\ answer'[j] \in Adds \cup {"error", "removed"}
      /\ j \in Adds => answer'[j] # "removed"
      /\ j \in Removals => answer'[j] \notin Adds
      /\ answer'[j] # "error" => status[KeyOf[j]] = Nil
  <2>0. answer = [i \in Adds \cup Removals |-> answer[i]]
    BY DEF JobsInv, JobsType
  <2>1. CASE HearFailure(j) \/ StopWaiting(j)
    BY <1>1, <2>0, <2>1 DEF HearFailure, StopWaiting
  <2>2. CASE HearSuccess(j)
    <3>1. PICK u \in Registered \cup {"error", "removed"} :
             /\ answer' = [answer EXCEPT ![j] = u]
             /\ j \in Adds => u # "removed"
             /\ j \in Removals => u = "removed"
      BY <2>2 DEF HearSuccess, Registered
    <3> QED
      BY <2>0, <2>2, <3>1 DEF HearSuccess, Registered
  <2> QED
    BY <2>1, <2>2
<1>4. JobsType'
  BY <1>1, <1>2, <1>3 DEF JobsInv, JobsType
<1>5. ASSUME NEW i \in Jobs PROVE Once(i)'
  BY <1>1 DEF JobsInv, Once, Ok
<1>6. ASSUME NEW i \in Jobs PROVE OwnStatus(i)'
  <2>1. OwnStatus(i) /\ JobsType
    BY DEF JobsInv
  <2>2. CASE i = j
    <3>1. CASE HearFailure(j)
      BY <1>1, <1>2, <1>3, <2>1, <2>2, <3>1 DEF OwnStatus, Ok, HearFailure
    <3>2. CASE HearSuccess(j) \/ StopWaiting(j)
      BY <1>1, <1>3, <2>1, <2>2, <3>2 DEF OwnStatus, Ok, HearSuccess, StopWaiting, jobs
    <3> QED
      BY <3>1, <3>2
  <2>3. CASE i # j
    <3>1. i \in Adds \cup Removals => answer'[i] = answer[i]
      BY <1>3, <2>1, <2>3 DEF JobsType
    <3> QED
      BY <1>1, <1>2, <2>1, <2>3, <3>1 DEF OwnStatus, Ok
  <2> QED
    BY <2>2, <2>3
<1>7. Onward
  BY <1>1, <1>2 DEF Onward, Ok
<1>8. ASSUME NEW i \in Wasm PROVE AnswerInv(i)'
  <2>1. CASE i = j
    <3>1. j \notin disturbed /\ status[KeyOf[j]] = Nil => Ok(j)
      BY <1>1 DEF JobsInv, JobsType, OwnStatus, Once
    <3> QED
      BY <1>1, <1>2, <1>3, <2>1, <3>1 DEF AnswerInv, Ok
  <2>2. CASE i # j
    BY <1>3, <1>7, <2>2 DEF AnswerInv, WasmInv, JobsInv, JobsType, Onward
  <2> QED
    BY <2>1, <2>2
<1>9. WasmType' /\ (\A a \in Adds : ModuleInv(a)') /\ \A r \in Removals : RemovalInv(r)'
  BY <1>1 DEF WasmInv, WasmType, ModuleInv, RemovalInv, Settled
<1> QED
  BY <1>1, <1>4, <1>5, <1>6, <1>7, <1>8, <1>9 DEF JobsInv, WasmInv

\* Files may change at any time: no module depends on them.
LEMMA FileStep ==
    ASSUME JobsInv, WasmInv, NEW p \in Paths, NEW c \in Contents, ChangeFile(p, c)
    PROVE  JobsInv' /\ Onward /\ WasmInv' /\ step' = step
<1>1. UNCHANGED <<jobs, data, module, ever, answer>> /\ step' = step /\ disturbed' = disturbed /\ result' = result
  BY DEF ChangeFile, jobs
<1>2. JobsInv' /\ Onward
  BY <1>1, JobsSame
<1>3. WasmType'
  BY <1>1 DEF ChangeFile, WasmInv, WasmType
<1>4. (\A a \in Adds : ModuleInv(a)') /\ (\A r \in Removals : RemovalInv(r)')
  BY <1>1 DEF WasmInv, ModuleInv, RemovalInv, Settled
<1>5. \A j \in Wasm : AnswerInv(j)'
  BY <1>1 DEF WasmInv, AnswerInv, Ok
<1> QED
  BY <1>1, <1>2, <1>3, <1>4, <1>5 DEF WasmInv

\* A step of the jobs for WASM modules.
LEMMA WasmStep ==
    ASSUME ExtensionsInv, WasmNext, UNCHANGED <<tokens, mcp>>
    PROVE  ExtensionsInv'
<1> USE WasmAssumption, KindsAssumption, McpAssumption
<1>0. JobsInv /\ WasmInv /\ TokensInv /\ McpInv
  BY DEF ExtensionsInv
<1>1. ASSUME JobsInv', Onward, WasmInv', \A s \in Servers : step'[s] = step[s]
      PROVE  ExtensionsInv'
  BY <1>0, <1>1, TokensFrame, McpFrame DEF ExtensionsInv
<1>2. \A s \in Servers : s \in Jobs /\ s \notin Wasm
  BY DEF Wasm
<1>3. CASE \E p \in Paths, c \in Contents : ChangeFile(p, c)
  BY <1>0, <1>1, <1>3, FileStep
<1>4. CASE \E a \in Adds : RequestModule(a) \/ Registration(a)
  <2>1. PICK a \in Adds : RequestModule(a) \/ Registration(a)
    BY <1>4
  <2>2. CASE RequestModule(a)
    <3>1. Submit(a) /\ phase[a] = "new" /\ UNCHANGED wasm /\ answer' = answer /\ step' = step /\ a \in Jobs
      BY <2>2 DEF RequestModule, wasm, Submit
    <3> QED
      BY <1>0, <3>1, JobsSubmit, JobFrame
  <2>3. CASE Registration(a)
    <3>1. JobsInv' /\ Onward /\ WasmInv'
      BY <1>0, <2>3, RegistrationStep
    <3>2. \A s \in Servers : step'[s] = step[s]
      BY <1>0, <1>2, <2>3, RegistrationMoves DEF Wasm
    <3> QED
      BY <1>1, <3>1, <3>2
  <2> QED
    BY <2>1, <2>2, <2>3
<1>5. CASE \E r \in Removals : RequestRemoval(r) \/ Removal(r)
  <2>1. PICK r \in Removals : RequestRemoval(r) \/ Removal(r)
    BY <1>5
  <2>2. CASE RequestRemoval(r)
    <3>1. Submit(r) /\ phase[r] = "new" /\ UNCHANGED wasm /\ answer' = answer /\ step' = step /\ r \in Jobs
      BY <2>2 DEF RequestRemoval, wasm, Submit
    <3> QED
      BY <1>0, <3>1, JobsSubmit, JobFrame
  <2>3. CASE Removal(r)
    <3>1. JobsInv' /\ Onward /\ WasmInv'
      BY <1>0, <2>3, RemovalStep
    <3>2. \A s \in Servers : step'[s] = step[s]
      BY <1>0, <1>2, <2>3 DEF Wasm, Removal, FindModuleToRemove, RemoveModule, Goto, JobsInv, JobsType
    <3> QED
      BY <1>1, <3>1, <3>2
  <2> QED
    BY <2>1, <2>2, <2>3
<1>6. CASE \E j \in Adds \cup Removals :
             \/ BeginWasm(j) \/ HearFailure(j) \/ HearSuccess(j) \/ StopWaiting(j)
             \/ JobNext(j) /\ UNCHANGED wasm
  <2>1. PICK j \in Wasm : \/ BeginWasm(j) \/ HearFailure(j) \/ HearSuccess(j) \/ StopWaiting(j)
                          \/ JobNext(j) /\ UNCHANGED wasm
    BY <1>6 DEF Wasm
  <2>2. CASE BeginWasm(j)
    <3>1. JobsInv' /\ Onward /\ WasmInv'
      BY <1>0, <2>2, BeginWasmStep
    <3>2. \A s \in Servers : step'[s] = step[s]
      BY <1>0, <1>2, <2>2 DEF BeginWasm, Begin, Goto, JobsInv, JobsType
    <3> QED
      BY <1>1, <3>1, <3>2
  <2>3. CASE HearFailure(j) \/ HearSuccess(j) \/ StopWaiting(j)
    BY <1>0, <1>1, <2>3, HandlerStep
  <2>4. CASE JobNext(j) /\ UNCHANGED wasm
    <3>1. answer' = answer /\ step' = step /\ j \in Jobs
      BY <2>4 DEF wasm, JobNext, Conclude, TimeOut, Finish, Wasm
    <3> QED
      BY <1>0, <2>4, <3>1, JobsFinish, JobFrame
  <2> QED
    BY <2>1, <2>2, <2>3, <2>4
<1> QED
  BY <1>3, <1>4, <1>5, <1>6 DEF WasmNext

-----------------------------------------------------------------------------
(* Tokenizers *)

LEMMA TokensStep ==
    ASSUME ExtensionsInv, TokensNext, UNCHANGED <<wasm, mcp>>
    PROVE  ExtensionsInv'
<1> USE TokensAssumption, KindsAssumption, McpAssumption, WasmAssumption
<1>0. JobsInv /\ WasmInv /\ TokensInv /\ McpInv /\ answer' = answer
  BY DEF ExtensionsInv, wasm
<1>1. ASSUME JobsInv', Onward, TokensInv', \A i \in Jobs \ Tokens : step'[i] = step[i]
      PROVE  ExtensionsInv'
  BY <1>0, <1>1, WasmFrame, McpFrame DEF ExtensionsInv, Wasm
<1>2. ASSUME NEW t \in Tokens,
             \/ CheckName(t) \/ AddTokenizer(t) \/ SubmitTokenizerJob(t) \/ BeginTokenizer(t)
             \/ LoadTokenizer(t) \/ AskRegistry(t)
             \/ JobNext(t) /\ UNCHANGED tokens
      PROVE  ExtensionsInv'
  <2>0. t \in Jobs /\ step = [j \in Jobs |-> step[j]] /\ t \notin Wasm /\ t \notin Kept
    BY <1>0 DEF JobsInv, JobsType, Wasm
  <2>1. CASE CheckName(t)
    <3>1. /\ phase[t] = "new" /\ \A i \in Jobs \ {t} : phase'[i] = phase[i]
          /\ UNCHANGED <<active, result, status, step, disturbed, tokens>>
          /\ phase'[t] \in {"checked", "refused"}
          /\ phase' \in [Jobs -> {"new", "checked", "refused", "pending", "running", "over"}]
      BY <1>0, <2>0, <2>1 DEF CheckName, JobsInv, JobsType
    <3>2. JobsType'
      BY <1>0, <3>1 DEF JobsInv, JobsType
    <3>3. ASSUME NEW i \in Jobs PROVE Once(i)' /\ OwnStatus(i)'
      BY <1>0, <2>0, <3>1, <3>3 DEF JobsInv, Once, OwnStatus, Ok
    <3>4. Onward
      BY <3>1 DEF Onward, Ok, Unstarted
    <3> QED
      BY <1>0, <3>1, <3>2, <3>3, <3>4, JobFrame DEF JobsInv
  <2>2. CASE AddTokenizer(t) \/ SubmitTokenizerJob(t)
    <3>1. Submit(t) /\ phase[t] \in {"new", "checked"} /\ UNCHANGED tokens /\ step' = step
      BY <2>2 DEF AddTokenizer, SubmitTokenizerJob, Submit
    <3> QED
      BY <1>0, <2>0, <3>1, JobsSubmit, JobFrame
  <2>3. CASE BeginTokenizer(t)
    <3>1. JobsInv' /\ Onward /\ UNCHANGED tokens
      BY <1>0, <2>0, <2>3, JobsBegin DEF BeginTokenizer
    <3>2. \A i \in Jobs \ Tokens : step'[i] = step[i]
      BY <2>0, <2>3 DEF BeginTokenizer, Begin, Goto
    <3> QED
      BY <1>0, <1>1, <3>1, <3>2, TokensFrame
  <2>4. CASE LoadTokenizer(t)
    <3>1. /\ StepOnly /\ step[t] \notin {"idle", "completed"} /\ UNCHANGED <<ask, reply>>
          /\ step' = [i \in Jobs |-> step'[i]] /\ \A i \in Jobs \ {t} : step'[i] = step[i]
      BY <2>0, <2>4 DEF LoadTokenizer, Goto, Again
    <3>2. JobsInv' /\ Onward
      BY <1>0, <2>0, <3>1, JobsWork
    <3>3. TokensInv'
      BY <1>0, <3>1 DEF TokensInv, NotFoundIsOver, StepOnly
    <3> QED
      BY <1>1, <3>1, <3>2, <3>3
  <2>5. CASE AskRegistry(t)
    <3>1. UNCHANGED <<jobs, answer>> /\ step' = step /\ phase' = phase /\ disturbed' = disturbed
      BY <1>0, <2>5 DEF AskRegistry, jobs
    <3>2. TokensInv'
      <4>1. ask' \in {Nil, t} /\ phase[t] \notin Unstarted
        BY <2>5 DEF AskRegistry, Unstarted
      <4>2. reply'.says # "not_found"
        BY <2>5, JobsAssumption DEF AskRegistry, NoReply
      <4> QED
        BY <3>1, <4>1, <4>2, JobsAssumption DEF TokensInv, NotFoundIsOver, Unstarted
    <3> QED
      BY <1>0, <1>1, <3>1, <3>2, JobsSame
  <2>6. CASE JobNext(t) /\ UNCHANGED tokens
    <3>1. step' = step
      BY <2>6 DEF JobNext, Conclude, TimeOut, Finish
    <3> QED
      BY <1>0, <2>0, <2>6, <3>1, JobsFinish, JobFrame
  <2> QED
    BY <1>2, <2>1, <2>2, <2>3, <2>4, <2>5, <2>6
<1>3. ASSUME NEW n \in DOMAIN registry, RemoveTokenizer(n) PROVE ExtensionsInv'
  <2>1. UNCHANGED <<jobs, answer, ask, reply>> /\ step' = step /\ phase' = phase /\ disturbed' = disturbed
    BY <1>0, <1>3 DEF RemoveTokenizer, jobs
  <2>2. TokensInv'
    BY <1>0, <2>1 DEF TokensInv, NotFoundIsOver
  <2> QED
    BY <1>0, <1>1, <2>1, <2>2, JobsSame
<1>4. CASE AskStatus
  <2>1. UNCHANGED <<jobs, answer>> /\ step' = step /\ phase' = phase /\ disturbed' = disturbed
    BY <1>0, <1>4 DEF AskStatus, jobs
  <2>2. ask \in Tokens /\ ask \in Jobs /\ ask \notin Wasm /\ phase[ask] \notin Unstarted /\ ask \notin Kept
    BY <1>0, <1>4 DEF AskStatus, TokensInv, Unstarted, Wasm
  <2>3. reply'.id = ask /\ (reply'.says = "not_found" => status[KeyOf[ask]] = Nil) /\ ask' = Nil
    <3>1. KeyOf[ask] \in KeySet
      BY <2>2 DEF KeySet
    <3>2. status[KeyOf[ask]] # "not_found"
      BY <1>0, <3>1, JobsAssumption DEF JobsInv, JobsType
    <3> QED
      BY <1>4, <3>2 DEF AskStatus
  <2>4. status[KeyOf[ask]] = Nil => phase[ask] = "over" \/ ask \in disturbed
    BY <1>0, <2>2, JobsAssumption DEF JobsInv, JobsType, OwnStatus, Unstarted
  <2>5. TokensInv'
    BY <2>1, <2>2, <2>3, <2>4 DEF TokensInv, NotFoundIsOver
  <2> QED
    BY <1>0, <1>1, <2>1, <2>5, JobsSame
<1> QED
  BY <1>2, <1>3, <1>4 DEF TokensNext

-----------------------------------------------------------------------------
(* MCP servers *)

\* A step of the workflow of a server.
LEMMA ServerStep ==
    ASSUME JobsInv, McpInv, NEW s \in Servers, McpSteps(s), answer' = answer
    PROVE  /\ JobsInv' /\ Onward /\ McpInv'
           /\ \A i \in Jobs \ {s} : step'[i] = step[i]
<1> USE McpAssumption
<1>0. s \in Jobs /\ step = [j \in Jobs |-> step[j]] /\ client \in [Servers -> BOOLEAN] /\ ServerInv(s)
  BY DEF JobsInv, JobsType, McpInv
<1>1. /\ StepOnly /\ step[s] \notin {"idle", "completed"}
      /\ step' = [i \in Jobs |-> step'[i]] /\ \A i \in Jobs \ {s} : step'[i] = step[i]
  <2>1. CASE ConnectMcpServer(s)
    BY <1>0, <2>1 DEF ConnectMcpServer, Goto, Again
  <2>2. CASE DiscoverMcpInventory(s)
    BY <1>0, <2>2 DEF DiscoverMcpInventory, Goto, Again
  <2>3. CASE RegisterMcpServer(s)
    BY <1>0, <2>3 DEF RegisterMcpServer, Goto
  <2>4. CASE ValidateRegistration(s)
    BY <1>0, <2>4 DEF ValidateRegistration, Goto
  <2> QED
    BY <2>1, <2>2, <2>3, <2>4 DEF McpSteps
<1>2. JobsInv' /\ Onward
  BY <1>0, <1>1, JobsWork
<1>3. /\ client' \in [Servers -> BOOLEAN] /\ serving \subseteq serving'
      /\ \A p \in Servers \ {s} : client'[p] = client[p]
  <2>1. CASE ConnectMcpServer(s)
    BY <1>0, <2>1 DEF ConnectMcpServer
  <2>2. CASE ~ConnectMcpServer(s)
    BY <1>0, <2>2 DEF McpSteps, DiscoverMcpInventory, RegisterMcpServer, ValidateRegistration, mcp
  <2> QED
    BY <2>1, <2>2
<1>4. ServerInv(s)'
  <2>1. CASE ConnectMcpServer(s) \/ DiscoverMcpInventory(s)
    <3>1. step'[s] \in {"connect_mcp_server", "discover_mcp_inventory", "register_mcp_server"}
      <4>1. CASE ConnectMcpServer(s)
        BY <1>0, <4>1 DEF ConnectMcpServer, Goto, Again
      <4>2. CASE DiscoverMcpInventory(s)
        BY <1>0, <4>2 DEF DiscoverMcpInventory, Goto, Again
      <4> QED
        BY <2>1, <4>1, <4>2
    <3> QED
      BY <3>1 DEF ServerInv
  <2>2. CASE RegisterMcpServer(s)
    BY <1>0, <2>2 DEF RegisterMcpServer, Goto, ServerInv
  <2>3. CASE ValidateRegistration(s)
    BY <1>0, <2>3 DEF ValidateRegistration, Goto, ServerInv, mcp
  <2> QED
    BY <2>1, <2>2, <2>3 DEF McpSteps
<1>5. ASSUME NEW p \in Servers \ {s} PROVE ServerInv(p)'
  BY <1>1, <1>3, <1>5 DEF McpInv, ServerInv
<1> QED
  BY <1>1, <1>2, <1>3, <1>4, <1>5 DEF McpInv

LEMMA McpStep ==
    ASSUME ExtensionsInv, McpNext, UNCHANGED <<wasm, tokens>>
    PROVE  ExtensionsInv'
<1> USE McpAssumption, KindsAssumption, WasmAssumption
<1>0. JobsInv /\ WasmInv /\ TokensInv /\ McpInv /\ answer' = answer
  BY DEF ExtensionsInv, wasm
<1>1. PICK s \in Servers : \/ AddServer(s) \/ BeginServer(s) \/ McpSteps(s)
                           \/ JobNext(s) /\ UNCHANGED mcp
  BY DEF McpNext
<1>2. s \in Jobs /\ s \notin Wasm /\ step = [j \in Jobs |-> step[j]]
  BY <1>0 DEF JobsInv, JobsType, Wasm
<1>3. CASE AddServer(s)
  <2>1. Submit(s) /\ phase[s] = "new" /\ UNCHANGED mcp /\ step' = step
    BY <1>3 DEF AddServer, Submit
  <2> QED
    BY <1>0, <1>2, <2>1, JobsSubmit, JobFrame
<1>4. CASE BeginServer(s)
  <2>1. JobsInv' /\ Onward /\ UNCHANGED mcp
    BY <1>0, <1>2, <1>4, JobsBegin DEF BeginServer
  <2>2. step'[s] = "connect_mcp_server" /\ \A i \in Jobs \ {s} : step'[i] = step[i]
    BY <1>2, <1>4 DEF BeginServer, Begin, Goto
  <2>3. McpInv'
    BY <1>0, <2>1, <2>2 DEF McpInv, ServerInv, mcp
  <2>4. WasmInv' /\ TokensInv'
    BY <1>0, <1>2, <2>1, <2>2, WasmFrame, TokensFrame DEF Wasm
  <2> QED
    BY <2>1, <2>3, <2>4 DEF ExtensionsInv
<1>5. CASE McpSteps(s)
  <2>1. JobsInv' /\ Onward /\ McpInv' /\ \A i \in Jobs \ {s} : step'[i] = step[i]
    BY <1>0, <1>5, ServerStep
  <2>2. WasmInv' /\ TokensInv'
    BY <1>0, <1>2, <2>1, WasmFrame, TokensFrame DEF Wasm
  <2> QED
    BY <2>1, <2>2 DEF ExtensionsInv
<1>6. CASE JobNext(s) /\ UNCHANGED mcp
  <2>1. step' = step
    BY <1>6 DEF JobNext, Conclude, TimeOut, Finish
  <2> QED
    BY <1>0, <1>2, <1>6, <2>1, JobsFinish, JobFrame
<1> QED
  BY <1>1, <1>3, <1>4, <1>5, <1>6

-----------------------------------------------------------------------------
(* The theorems *)

LEMMA ExtensionsStart == ExtensionsInit => ExtensionsInv
<1> SUFFICES ASSUME ExtensionsInit PROVE ExtensionsInv
  OBVIOUS
<1> USE JobsAssumption, WasmAssumption, TokensAssumption, McpAssumption DEF ExtensionsInit, JobsInit
<1>1. JobsInv
  <2>1. active \cap Kept = {} /\ active \subseteq Jobs
    OBVIOUS
  <2>2. JobsType
    BY <2>1 DEF JobsType, WasmInit, Wasm
  <2> QED
    BY <2>2 DEF JobsInv, Once, OwnStatus, Ok
<1>2. WasmInv
  <2> USE DEF WasmInit
  <2>1. data \in [Adds -> [size : Contents, hash : Contents, bytes : Contents, seen : SUBSET Adds]]
    BY DEF NoData, Contents
  <2>2. file \in [Paths -> Contents]
    BY DEF Contents
  <2>3. WasmType
    BY <2>1, <2>2 DEF WasmType
  <2>4. ASSUME NEW a \in Adds PROVE ModuleInv(a)
    <3>1. data[a].seen = {} /\ step[a] = "idle"
      BY DEF NoData
    <3>2. a \in Kept => module[a].bytes = Old
      BY DEF Module, Earlier
    <3>3. a \notin Kept => module[a] = Nil
      OBVIOUS
    <3> QED
      BY <3>1, <3>2, <3>3 DEF ModuleInv, Settled
  <2>5. (\A r \in Removals : RemovalInv(r)) /\ \A j \in Wasm : AnswerInv(j)
    BY DEF RemovalInv, AnswerInv, Wasm
  <2> QED
    BY <2>3, <2>4, <2>5 DEF WasmInv
<1>3. TokensInv
  BY DEF TokensInit, TokensInv, NotFoundIsOver, NoReply
<1>4. McpInv
  BY DEF McpInit, McpInv, ServerInv
<1> QED
  BY <1>1, <1>2, <1>3, <1>4 DEF ExtensionsInv

LEMMA ExtensionsStep == ExtensionsInv /\ [ExtensionsNext]_extensionVars => ExtensionsInv'
<1> SUFFICES ASSUME ExtensionsInv, [ExtensionsNext]_extensionVars PROVE ExtensionsInv'
  OBVIOUS
<1>1. CASE \E k \in KeySet : CleanUp(k) /\ UNCHANGED <<wasm, tokens, mcp>>
  <2>1. PICK k \in KeySet : CleanUp(k) /\ UNCHANGED <<wasm, tokens, mcp>>
    BY <1>1
  <2>2. step' = step /\ answer' = answer /\ JobsInv
    BY <2>1 DEF CleanUp, wasm, ExtensionsInv
  <2> QED
    BY <2>1, <2>2, JobsCleanUp, JobFrame
<1>2. CASE UNCHANGED extensionVars
  <2>1. UNCHANGED <<jobs, wasm, tokens, mcp>> /\ step' = step /\ answer' = answer
    BY <1>2 DEF extensionVars, jobs, wasm
  <2> QED
    BY <2>1, JobsSame, JobFrame DEF ExtensionsInv
<1> QED
  BY <1>1, <1>2, WasmStep, TokensStep, McpStep DEF ExtensionsNext

LEMMA InvGivesModules == ExtensionsInv => ModulesSound
<1> SUFFICES ASSUME ExtensionsInv, NEW a \in Registered
             PROVE  /\ module[a].bytes \in Components
                    /\ \A b \in Registered \ {a} : module[a].hash = module[b].hash => b \notin data[a].seen
  BY DEF ModulesSound
<1>1. a \in Adds /\ module[a] # Nil /\ ModuleInv(a) /\ Settled(a)
  BY DEF Registered, ExtensionsInv, WasmInv, ModuleInv
<1>2. module[a].bytes \in Components
  BY <1>1, WasmAssumption DEF ModuleInv, Settled
<1>3. ASSUME NEW b \in Registered, b \in data[a].seen PROVE module[a].hash # module[b].hash
  BY <1>1, <1>3 DEF ModuleInv, Settled, Registered
<1> QED
  BY <1>2, <1>3

LEMMA InvGivesReports == ExtensionsInv => ReportsTrue
<1> SUFFICES ASSUME ExtensionsInv PROVE ReportsTrue
  OBVIOUS
<1>1. ASSUME NEW j \in (Adds \cup Removals) \ disturbed
      PROVE  /\ answer[j] \notin {Nil, "error"} => result[j] = "ok"
             /\ answer[j] \in Adds => j \in ever
             /\ answer[j] = "removed" => Target[j] \notin Registered
  <2>1. /\ AnswerInv(j) /\ Once(j) /\ j \in Jobs
        /\ j \in Adds => ModuleInv(j)
        /\ j \in Removals => RemovalInv(j)
    BY WasmAssumption DEF ExtensionsInv, WasmInv, JobsInv, Wasm
  <2>2. Nil \notin Adds /\ "error" \notin Adds /\ "removed" # Nil
    BY WasmAssumption, JobsAssumption
  <2>3. answer[j] \notin {Nil, "error"} => Ok(j) /\ step[j] = "completed"
    BY <2>1 DEF AnswerInv, Once
  <2>4. answer[j] \in Adds => j \in ever
    BY <2>1, <2>2, <2>3 DEF AnswerInv, ModuleInv
  <2>5. answer[j] = "removed" => Target[j] \notin Registered
    BY <2>1, <2>2, <2>3 DEF AnswerInv, RemovalInv, Registered
  <2> QED
    BY <2>3, <2>4, <2>5 DEF Ok
<1>2. AnswersTrue
  BY <1>1 DEF AnswersTrue
<1>3. NotFoundIsOver
  BY DEF ExtensionsInv, TokensInv
<1>4. RequiredIsServing
  BY McpAssumption DEF RequiredIsServing, ExtensionsInv, JobsInv, Once, Ok, McpInv, ServerInv
<1> QED
  BY <1>2, <1>3, <1>4 DEF ReportsTrue

\* Every module runs a valid component, whenever files change, and none is a duplicate of one
\* that was there when its registration looked.
THEOREM ModulesAreSound == ExtensionsSpec => []ModulesSound
<1>1. ExtensionsInv => ModulesSound
  BY InvGivesModules
<1> QED
  BY <1>1, ExtensionsStart, ExtensionsStep, PTL DEF ExtensionsSpec

\* What the handlers answer, and what the status endpoint and the jobs of MCP servers
\* report, is so, unless somebody else touched the status.
THEOREM ReportsAreTrue == ExtensionsSpec => []ReportsTrue
<1>1. ExtensionsInv => ReportsTrue
  BY InvGivesReports
<1> QED
  BY <1>1, ExtensionsStart, ExtensionsStep, PTL DEF ExtensionsSpec
-----------------------------------------------------------------------------
(* Counting and choosing in sequences *)

\* Every set of natural numbers has a least one.
LEMMA LeastNat ==
    ASSUME NEW T \in SUBSET Nat, T # {}
    PROVE  \E x \in T : \A y \in T : x <= y
<1> DEFINE R == {p \in Nat \X Nat : p[1] < p[2]}
<1>1. OpToRel(<, Nat) = R
  BY DEF OpToRel
<1>2. IsWellFoundedOn(R, Nat)
  BY <1>1, NatLessThanWellFounded
<1>3. PICK x \in T : \A y \in T : ~ (<<y, x>> \in R)
  BY <1>2, WFMin
<1>4. \A y \in T : x \in Nat /\ y \in Nat /\ ~ (y < x)
  BY <1>3
<1>5. \A y \in T : x <= y
  BY <1>4
<1> QED BY <1>5

LEMMA MinOfTwo ==
    ASSUME NEW a \in Nat, NEW b \in Nat
    PROVE  Min({a, b}) \in Nat /\ Min({a, b}) <= a /\ Min({a, b}) <= b
<1>1. \E x \in {a, b} : \A y \in {a, b} : x <= y
  OBVIOUS
<1> QED BY <1>1 DEF Min

\* Where x stands in s.
Places(x, s) == {i \in DOMAIN s : s[i] = x}

LEMMA PlacesFinite ==
    ASSUME NEW S, NEW s \in Seq(S), NEW x
    PROVE  IsFiniteSet(Places(x, s)) /\ Count(x, s) = Cardinality(Places(x, s)) /\ Count(x, s) \in Nat
<1>1. IsFiniteSet(1..Len(s))
  BY FS_Interval
<1>2. Places(x, s) \subseteq 1..Len(s)
  BY DEF Places
<1>3. IsFiniteSet(Places(x, s))
  BY <1>1, <1>2, FS_Subset
<1>4. Count(x, s) = Cardinality(Places(x, s))
  BY DEF Count, Places
<1> QED BY <1>3, <1>4, FS_CardinalityType

LEMMA CountNone ==
    ASSUME NEW S, NEW s \in Seq(S), NEW x
    PROVE  Count(x, s) = 0 <=> \A i \in 1..Len(s) : s[i] # x
<1>1. IsFiniteSet(Places(x, s)) /\ Count(x, s) = Cardinality(Places(x, s))
  BY PlacesFinite
<1>2. Count(x, s) = 0 <=> Places(x, s) = {}
  BY <1>1, FS_EmptySet
<1>3. Places(x, s) = {} <=> \A i \in 1..Len(s) : s[i] # x
  BY DEF Places
<1> QED BY <1>2, <1>3

LEMMA CountConcat ==
    ASSUME NEW S, NEW s \in Seq(S), NEW t \in Seq(S), NEW x
    PROVE  Count(x, s \o t) = Count(x, s) + Count(x, t)
<1> DEFINE A == Places(x, s)
           D == Places(x, t)
           C == {i + Len(s) : i \in D}
           f == [i \in D |-> i + Len(s)]
<1>1. Places(x, s \o t) = A \cup C
  <2>1. \A i \in 1..Len(s \o t) :
           (s \o t)[i] = IF i <= Len(s) THEN s[i] ELSE t[i - Len(s)]
    OBVIOUS
  <2>2. Len(s \o t) = Len(s) + Len(t) /\ DOMAIN (s \o t) = 1..Len(s \o t)
    OBVIOUS
  <2>3. ASSUME NEW i \in Places(x, s \o t) PROVE i \in A \cup C
    <3>1. i \in 1..(Len(s) + Len(t)) /\ (s \o t)[i] = x
      BY <2>3, <2>2 DEF Places
    <3>2. CASE i <= Len(s)
      BY <3>1, <3>2, <2>1, <2>2 DEF Places
    <3>3. CASE ~ (i <= Len(s))
      <4>1. i - Len(s) \in 1..Len(t) /\ t[i - Len(s)] = x
        BY <3>1, <3>3, <2>1, <2>2
      <4>2. i - Len(s) \in D /\ i = (i - Len(s)) + Len(s)
        BY <4>1, <3>1 DEF Places
      <4> QED BY <4>2
    <3> QED BY <3>2, <3>3
  <2>4. ASSUME NEW i \in A \cup C PROVE i \in Places(x, s \o t)
    <3>1. CASE i \in A
      BY <3>1, <2>1, <2>2 DEF Places
    <3>2. CASE i \in C
      <4>1. PICK j \in D : i = j + Len(s)
        BY <3>2
      <4>2. j \in 1..Len(t) /\ t[j] = x
        BY <4>1 DEF Places
      <4>3. i \in 1..Len(s \o t) /\ ~ (i <= Len(s)) /\ i - Len(s) = j
        BY <4>1, <4>2, <2>2
      <4> QED BY <4>2, <4>3, <2>1, <2>2 DEF Places
    <3> QED BY <2>4, <3>1, <3>2
  <2> QED BY <2>3, <2>4
<1>2. f \in Bijection(D, C)
  <2>1. \A i \in D : i \in Nat
    BY DEF Places
  <2>2. f \in [D -> C]
    OBVIOUS
  <2>3. \A i, j \in D : f[i] = f[j] => i = j
    BY <2>1
  <2>4. \A c \in C : \E i \in D : f[i] = c
    OBVIOUS
  <2> QED BY <2>2, <2>3, <2>4 DEF Bijection, Injection, Surjection, IsInjective
<1>3. IsFiniteSet(A) /\ IsFiniteSet(D)
  BY PlacesFinite
<1>4. IsFiniteSet(C) /\ Cardinality(C) = Cardinality(D)
  BY <1>2, <1>3, FS_Bijection DEF ExistsBijection
<1>5. A \cap C = {}
  BY DEF Places
<1>6. Cardinality(A \cup C) = Cardinality(A) + Cardinality(C)
  <2>1. Cardinality(A) \in Nat /\ Cardinality(C) \in Nat
    BY <1>3, <1>4, FS_CardinalityType
  <2>2. Cardinality(A \cup C) = Cardinality(A) + Cardinality(C) - Cardinality(A \cap C)
    BY <1>3, <1>4, FS_Union
  <2>3. Cardinality(A \cap C) = 0
    BY <1>5, FS_EmptySet
  <2> QED BY <2>1, <2>2, <2>3
<1>7. s \o t \in Seq(S)
  OBVIOUS
<1> QED BY <1>1, <1>4, <1>6, <1>7, PlacesFinite

LEMMA CountOne ==
    ASSUME NEW S, NEW y \in S, NEW x
    PROVE  Count(x, <<y>>) = IF x = y THEN 1 ELSE 0
<1>1. Places(x, <<y>>) = IF x = y THEN {1} ELSE {}
  BY DEF Places
<1> QED BY <1>1, PlacesFinite, FS_Singleton, FS_EmptySet DEF Count, Places

LEMMA CountAppend ==
    ASSUME NEW S, NEW s \in Seq(S), NEW y \in S, NEW x
    PROVE  Count(x, Append(s, y)) = Count(x, s) + (IF x = y THEN 1 ELSE 0)
<1>1. Append(s, y) = s \o <<y>> /\ <<y>> \in Seq(S)
  OBVIOUS
<1>2. Count(x, s \o <<y>>) = Count(x, s) + Count(x, <<y>>)
  BY <1>1, CountConcat
<1>3. Count(x, <<y>>) = IF x = y THEN 1 ELSE 0
  BY CountOne
<1> QED BY <1>1, <1>2, <1>3

LEMMA CountRepeat ==
    ASSUME NEW n \in Nat, NEW y, NEW x
    PROVE  /\ Repeat(y, n) \in Seq({y}) /\ Len(Repeat(y, n)) = n
           /\ Count(x, Repeat(y, n)) = IF x = y THEN n ELSE 0
<1>1. Repeat(y, n) \in Seq({y}) /\ Len(Repeat(y, n)) = n
  BY DEF Repeat
<1>2. Places(x, Repeat(y, n)) = IF x = y THEN 1..n ELSE {}
  BY DEF Places, Repeat
<1>3. Cardinality(1..n) = n
  BY FS_Interval
<1> QED BY <1>1, <1>2, <1>3, FS_EmptySet DEF Count, Places
-----------------------------------------------------------------------------
(* Keep *)

UpToHere(K, i) == {j \in K : j <= i}

LEMMA RankType ==
    ASSUME NEW K, IsFiniteSet(K), K \subseteq Nat, NEW i
    PROVE  IsFiniteSet(UpToHere(K, i)) /\ Cardinality(UpToHere(K, i)) \in Nat
<1>1. UpToHere(K, i) \subseteq K
  BY DEF UpToHere
<1> QED BY <1>1, FS_Subset, FS_CardinalityType

\* Each rank up to the number of elements belongs to one.
LEMMA EveryRank ==
    ASSUME NEW K, IsFiniteSet(K), K \subseteq Nat, NEW n \in 1..Cardinality(K)
    PROVE  \E i \in K : Cardinality(UpToHere(K, i)) = n
<1>0. Cardinality(K) \in Nat /\ \A j \in K : j \in Nat
  BY FS_CardinalityType
<1> DEFINE Missing == {m \in Nat : /\ m \in 1..Cardinality(K)
                                   /\ \A i \in K : Cardinality(UpToHere(K, i)) # m}
<1>1. SUFFICES ASSUME Missing # {} PROVE FALSE
  BY <1>0
<1>2. PICK m \in Missing : \A y \in Missing : m <= y
  BY <1>1, LeastNat
<1>3. m \in 1..Cardinality(K) /\ \A i \in K : Cardinality(UpToHere(K, i)) # m
  BY <1>2
<1>4. CASE m = 1
  <2>1. K # {}
    BY <1>3, <1>4, <1>0, FS_EmptySet
  <2>2. PICK x \in K : \A y \in K : x <= y
    BY <2>1, LeastNat
  <2>3. UpToHere(K, x) = {x}
    <3>1. \A j \in K : j <= x <=> j = x
      BY <1>0, <2>2
    <3> QED BY <3>1 DEF UpToHere
  <2> QED BY <2>3, <1>3, <1>4, FS_Singleton
<1>5. CASE m > 1
  <2>1. PICK i \in K : Cardinality(UpToHere(K, i)) = m - 1
    <3>1. m - 1 \in Nat /\ m - 1 \in 1..Cardinality(K) /\ ~ (m <= m - 1)
      BY <1>3, <1>5, <1>0
    <3>2. m - 1 \notin Missing
      BY <3>1, <1>2
    <3> QED BY <3>1, <3>2
  <2> DEFINE Rest == {j \in K : j > i}
  <2>2. Rest # {}
    <3>1. SUFFICES ASSUME Rest = {} PROVE FALSE
      OBVIOUS
    <3>2. UpToHere(K, i) = K
      <4>1. \A j \in K : j <= i
        BY <3>1, <1>0
      <4> QED BY <4>1 DEF UpToHere
    <3> QED BY <3>2, <2>1, <1>3, <1>0
  <2>3. PICK x \in Rest : \A y \in Rest : x <= y
    BY <2>2, LeastNat
  <2>4. UpToHere(K, x) = UpToHere(K, i) \cup {x} /\ x \notin UpToHere(K, i) /\ x \in K
    <3>1. \A j \in K : j <= x <=> (j <= i \/ j = x)
      BY <2>3, <1>0
    <3>2. x \in K /\ ~ (x <= i)
      BY <2>3, <1>0
    <3> QED BY <3>1, <3>2 DEF UpToHere
  <2>5. IsFiniteSet(UpToHere(K, i))
    BY RankType
  <2>6. Cardinality(UpToHere(K, x)) = Cardinality(UpToHere(K, i)) + 1
    BY <2>4, <2>5, FS_AddElement
  <2> QED BY <2>1, <2>4, <2>6, <1>3
<1> QED BY <1>3, <1>4, <1>5, <1>0

LEMMA KeepTaken ==
    ASSUME NEW S, NEW s \in Seq(S), NEW K, K \subseteq 1..Len(s)
    PROVE  /\ Keep(s, K) \in Seq(S)
           /\ \A n \in 1..Len(Keep(s, K)) : \E i \in K : Keep(s, K)[n] = s[i]
<1>1. IsFiniteSet(K) /\ Cardinality(K) \in Nat /\ K \subseteq Nat
  <2>1. Len(s) \in Nat /\ IsFiniteSet(1..Len(s))
    BY FS_Interval
  <2>2. IsFiniteSet(K)
    BY <2>1, FS_Subset
  <2> QED BY <2>1, <2>2, FS_CardinalityType
<1> DEFINE At(n) == CHOOSE i \in K : Cardinality({j \in K : j <= i}) = n
<1>2. \A n \in 1..Cardinality(K) : At(n) \in K
  <2> TAKE n \in 1..Cardinality(K)
  <2>1. \E i \in K : Cardinality(UpToHere(K, i)) = n
    BY <1>1, EveryRank
  <2>2. \E i \in K : Cardinality({j \in K : j <= i}) = n
    BY <2>1 DEF UpToHere
  <2> QED BY <2>2
<1>3. Keep(s, K) = [n \in 1..Cardinality(K) |-> s[At(n)]]
  BY DEF Keep
<1> HIDE DEF At
<1>4. \A i \in K : s[i] \in S
  BY <1>1
<1>5. \A n \in 1..Cardinality(K) : s[At(n)] \in S
  BY <1>2, <1>4
<1>6. /\ Len(Keep(s, K)) = Cardinality(K) /\ Keep(s, K) \in Seq(S)
      /\ \A n \in 1..Cardinality(K) : Keep(s, K)[n] = s[At(n)]
  BY <1>1, <1>3, <1>5
<1> QED BY <1>2, <1>6

-----------------------------------------------------------------------------
(* The emitter *)

IsWhole(i) == i.wire = "closed" /\ i.status = "completed" /\ i.data # "none"

\* No item is completed that is not whole.
EmItems == {i \in [type : ItemTypes, status : {"in_progress", "completed"},
                   data : {"none", "done", "output", "failed"}, wire : {"unseen", "open", "closed"}] :
              i.status = "completed" => IsWhole(i)}

Emitter(e) ==
    /\ DOMAIN e = {"items", "message", "part", "sent"}
    /\ e.items \in Seq(EmItems) /\ e.message \in 0..Len(e.items)

\* The items that are not whole.
Ragged(e) == {i \in DOMAIN e.items : ~IsWhole(e.items[i])}

\* f has the items of e and one more, which is x.
OneMore(e, f, x) ==
    /\ Emitter(f) /\ f.message = e.message /\ f.sent = e.sent
    /\ f.items = Append(e.items, x)

LEMMA RaggedPlaces ==
    ASSUME NEW e, Emitter(e) PROVE Ragged(e) \subseteq 1..Len(e.items) /\ NoItem \notin Ragged(e)
BY DEF Emitter, Ragged, NoItem

LEMMA EmitterSent ==
    ASSUME NEW e, Emitter(e), NEW v
    PROVE  /\ Emitter(Sent(e, v)) /\ Sent(e, v).items = e.items /\ Sent(e, v).message = e.message
           /\ Sent(e, v).sent = e.sent \cup {v} /\ Ragged(Sent(e, v)) = Ragged(e)
BY DEF Emitter, Sent, Ragged

LEMMA EmitterOpen ==
    ASSUME NEW e, Emitter(e), NEW t \in ItemTypes
    PROVE  OneMore(e, OpenItem(e, t), [type |-> t, status |-> "in_progress", data |-> "none", wire |-> "open"])
<1> DEFINE x == [type |-> t, status |-> "in_progress", data |-> "none", wire |-> "unseen"]
           y == [type |-> t, status |-> "in_progress", data |-> "none", wire |-> "open"]
           n == Len(e.items) + 1
           g == Allocate(e, t)
<1>1. x \in EmItems /\ y \in EmItems /\ y = [x EXCEPT !.wire = "open"]
  BY DEF EmItems, IsWhole
<1>2. /\ DOMAIN g = DOMAIN e /\ g.items = Append(e.items, x) /\ g.message = e.message /\ g.sent = e.sent
      /\ Newest(g) = n
  BY <1>1 DEF Allocate, Emitter, Newest
<1>3. OpenItem(e, t) = Added(g, n)
  BY <1>2 DEF OpenItem
<1>4. /\ DOMAIN Added(g, n) = DOMAIN e /\ Added(g, n).message = e.message /\ Added(g, n).sent = e.sent
      /\ Added(g, n).items = [Append(e.items, x) EXCEPT ![n].wire = "open"]
  BY <1>2 DEF Added, Emitter
<1>5. [Append(e.items, x) EXCEPT ![n].wire = "open"] = Append(e.items, y)
  <2> DEFINE s == e.items
             z(v) == [j \in 1..n |-> IF j = n THEN v ELSE s[j]]
  <2>1. Append(s, x) = z(x) /\ Append(s, y) = z(y) /\ n \in 1..n
    BY <1>1 DEF Emitter
  <2>2. [z(x) EXCEPT ![n].wire = "open"] = z(y)
    BY <2>1, <1>1
  <2> QED BY <2>1, <2>2
<1>6. Append(e.items, y) \in Seq(EmItems) /\ Len(Append(e.items, y)) = Len(e.items) + 1
  BY <1>1 DEF Emitter
<1> QED BY <1>3, <1>4, <1>5, <1>6 DEF Emitter, OneMore

LEMMA OneMoreItems ==
    ASSUME NEW e, Emitter(e), NEW f, NEW x, OneMore(e, f, x)
    PROVE  /\ DOMAIN f.items = 1..(Len(e.items) + 1) /\ DOMAIN e.items = 1..Len(e.items)
           /\ Len(e.items) \in Nat /\ Len(f.items) = Len(e.items) + 1
           /\ f.items[Len(e.items) + 1] = x
           /\ \A i \in DOMAIN e.items : f.items[i] = e.items[i]
           /\ Ragged(f) = IF IsWhole(x) THEN Ragged(e) ELSE Ragged(e) \cup {Len(e.items) + 1}
<1>1. /\ DOMAIN f.items = 1..(Len(e.items) + 1) /\ DOMAIN e.items = 1..Len(e.items)
      /\ Len(e.items) \in Nat /\ Len(f.items) = Len(e.items) + 1
      /\ f.items[Len(e.items) + 1] = x
      /\ \A i \in DOMAIN e.items : f.items[i] = e.items[i]
  BY DEF OneMore, Emitter
<1> QED BY <1>1 DEF Ragged

LEMMA EmitterClose ==
    ASSUME NEW e, Emitter(e), NEW i \in 1..Len(e.items)
    PROVE  /\ Emitter(CloseItem(e, i)) /\ CloseItem(e, i).message = e.message
           /\ CloseItem(e, i).sent = e.sent /\ Len(CloseItem(e, i).items) = Len(e.items)
           /\ \A j \in 1..Len(e.items) :
                 CloseItem(e, i).items[j] =
                    IF j = i THEN [e.items[j] EXCEPT !.wire = "closed", !.data = "done", !.status = "completed"]
                    ELSE e.items[j]
           /\ Ragged(CloseItem(e, i)) = Ragged(e) \ {i}
<1> DEFINE f == Done(e, i)
           g == CloseItem(e, i)
           x == [e.items[i] EXCEPT !.wire = "closed", !.data = "done", !.status = "completed"]
<1>0. e.items[i] \in EmItems /\ DOMAIN e.items = 1..Len(e.items)
  BY DEF Emitter
<1>1. /\ DOMAIN f = DOMAIN e /\ f.message = e.message /\ f.sent = e.sent
      /\ f.items = [[e.items EXCEPT ![i].wire = "closed"] EXCEPT ![i].data = "done"]
  BY DEF Done, Emitter
<1>2. /\ DOMAIN g = DOMAIN e /\ g.message = e.message /\ g.sent = e.sent
      /\ g.items = [f.items EXCEPT ![i].status = "completed"]
  BY <1>1 DEF CloseItem, CompleteItem, Emitter
<1>3. /\ DOMAIN g.items = DOMAIN e.items
      /\ \A j \in 1..Len(e.items) : g.items[j] = IF j = i THEN x ELSE e.items[j]
  BY <1>0, <1>1, <1>2
<1>4. x \in EmItems /\ IsWhole(x)
  BY <1>0 DEF EmItems, IsWhole
<1>5. g.items = [j \in 1..Len(e.items) |-> IF j = i THEN x ELSE e.items[j]]
  BY <1>0, <1>1, <1>2, <1>3
<1>6. g.items \in Seq(EmItems) /\ Len(g.items) = Len(e.items)
  BY <1>4, <1>5 DEF Emitter
<1>7. Ragged(g) = Ragged(e) \ {i}
  BY <1>0, <1>3, <1>4 DEF Ragged
<1> QED BY <1>0, <1>2, <1>3, <1>6, <1>7 DEF Emitter

LEMMA EmitterWhole ==
    ASSUME NEW e, Emitter(e), NEW t \in ItemTypes
    PROVE  /\ Emitter(WholeItem(e, t)) /\ WholeItem(e, t).message = e.message
           /\ WholeItem(e, t).sent = e.sent /\ Len(WholeItem(e, t).items) = Len(e.items) + 1
           /\ \A j \in 1..Len(e.items) : WholeItem(e, t).items[j] = e.items[j]
           /\ Ragged(WholeItem(e, t)) = Ragged(e)
<1> DEFINE f == OpenItem(e, t)
           n == Len(e.items) + 1
<1>1. PICK x : OneMore(e, f, x) /\ ~IsWhole(x)
  <2> DEFINE y == [type |-> t, status |-> "in_progress", data |-> "none", wire |-> "open"]
  <2>1. OneMore(e, f, y)
    BY EmitterOpen
  <2>2. ~IsWhole(y)
    BY DEF IsWhole
  <2> QED BY <2>1, <2>2
<1>2. Emitter(f) /\ Len(f.items) = n /\ n \in 1..Len(f.items) /\ Ragged(f) = Ragged(e) \cup {n}
      /\ f.message = e.message /\ f.sent = e.sent
      /\ \A j \in 1..Len(e.items) : f.items[j] = e.items[j]
      /\ Len(e.items) \in Nat
  BY <1>1, OneMoreItems DEF OneMore
<1>3. WholeItem(e, t) = CloseItem(f, n)
  BY <1>2 DEF WholeItem, Newest
<1>4. n \notin Ragged(e)
  BY <1>2 DEF Ragged, Emitter
<1> HIDE DEF f
<1>5. \A j \in 1..Len(e.items) : j \in 1..Len(f.items) /\ j # n
  BY <1>2
<1> HIDE DEF n
<1>7. /\ Emitter(CloseItem(f, n)) /\ CloseItem(f, n).message = f.message
      /\ CloseItem(f, n).sent = f.sent /\ Len(CloseItem(f, n).items) = Len(f.items)
      /\ Ragged(CloseItem(f, n)) = Ragged(f) \ {n}
      /\ \A j \in 1..Len(f.items) : j # n => CloseItem(f, n).items[j] = f.items[j]
  <2>1. /\ Emitter(CloseItem(f, n)) /\ CloseItem(f, n).message = f.message
        /\ CloseItem(f, n).sent = f.sent /\ Len(CloseItem(f, n).items) = Len(f.items)
        /\ Ragged(CloseItem(f, n)) = Ragged(f) \ {n}
    BY <1>2, EmitterClose, Zenon
  <2>2. \A j \in 1..Len(f.items) : j # n => CloseItem(f, n).items[j] = f.items[j]
    <3> SUFFICES ASSUME NEW j \in 1..Len(f.items), j # n PROVE CloseItem(f, n).items[j] = f.items[j]
      OBVIOUS
    <3>1. CloseItem(f, n).items[j] =
            IF j = n THEN [f.items[j] EXCEPT !.wire = "closed", !.data = "done", !.status = "completed"]
            ELSE f.items[j]
      BY <1>2, EmitterClose, Zenon
    <3> QED BY <3>1
  <2> QED BY <2>1, <2>2
<1>6. /\ Emitter(CloseItem(f, n)) /\ CloseItem(f, n).message = e.message
      /\ CloseItem(f, n).sent = e.sent /\ Len(CloseItem(f, n).items) = n
      /\ \A j \in 1..Len(e.items) : CloseItem(f, n).items[j] = f.items[j]
      /\ Ragged(CloseItem(f, n)) = Ragged(f) \ {n}
  BY <1>2, <1>5, <1>7
<1> USE DEF n
<1> QED BY <1>2, <1>3, <1>4, <1>6
\* The first text of an answer opens a message, which is then the only new ragged item.
LEMMA EmitterText ==
    ASSUME NEW e, Emitter(e)
    PROVE  /\ Emitter(TextChunk(e)) /\ TextChunk(e).sent = e.sent
           /\ TextChunk(e).message # NoItem
           /\ Ragged(TextChunk(e)) \subseteq Ragged(e) \cup {TextChunk(e).message}
           /\ Ragged(e) \subseteq Ragged(TextChunk(e))
           /\ e.message # NoItem => TextChunk(e).message = e.message
           /\ Len(e.items) <= Len(TextChunk(e).items)
           /\ e.message = NoItem => TextChunk(e).message = Len(e.items) + 1
<1>1. CASE e.message = NoItem
  <2> DEFINE g == OpenItem(e, "message")
             n == Len(e.items) + 1
             h == [[g EXCEPT !.message = n] EXCEPT !.part = TRUE]
  <2>1. PICK x : OneMore(e, g, x) /\ ~IsWhole(x)
    <3> DEFINE y == [type |-> "message", status |-> "in_progress", data |-> "none", wire |-> "open"]
    <3>1. OneMore(e, g, y)
      BY EmitterOpen DEF ItemTypes
    <3>2. ~IsWhole(y)
      BY DEF IsWhole
    <3> QED BY <3>1, <3>2
  <2>2. /\ Emitter(g) /\ Len(g.items) = n /\ Ragged(g) = Ragged(e) \cup {n} /\ g.sent = e.sent
        /\ Len(e.items) \in Nat /\ DOMAIN e.items = 1..Len(e.items) /\ DOMAIN g.items = 1..n
        /\ \A i \in DOMAIN e.items : g.items[i] = e.items[i]
    BY <2>1, OneMoreItems DEF OneMore
  <2>3. TextChunk(e) = h
    BY <1>1, <2>2 DEF TextChunk, Newest
  <2> HIDE DEF g
  <2>4. /\ DOMAIN h = DOMAIN g /\ h.items = g.items /\ h.message = n /\ h.sent = g.sent
    BY <2>2 DEF Emitter
  <2>5. Emitter(h) /\ Ragged(h) = Ragged(g)
    BY <2>2, <2>4 DEF Emitter, Ragged
  <2>6. Len(e.items) <= Len(g.items)
    BY <2>2
  <2> HIDE DEF h
  <2> QED BY <1>1, <2>2, <2>3, <2>4, <2>5, <2>6 DEF NoItem
<1>2. CASE e.message # NoItem
  <2>1. TextChunk(e) = [e EXCEPT !.part = TRUE]
    BY <1>2 DEF TextChunk
  <2>2. LET h == [e EXCEPT !.part = TRUE] IN
          DOMAIN h = DOMAIN e /\ h.items = e.items /\ h.message = e.message /\ h.sent = e.sent
    BY DEF Emitter
  <2>3. LET h == [e EXCEPT !.part = TRUE] IN
          Emitter(h) /\ Ragged(h) = Ragged(e) /\ Len(e.items) <= Len(h.items)
    BY <2>2 DEF Emitter, Ragged
  <2> QED BY <1>2, <2>1, <2>2, <2>3
<1> QED BY <1>1, <1>2

LEMMA EmitterCloseAll ==
    ASSUME NEW e, Emitter(e), NEW which
    PROVE  /\ Emitter(CloseAll(e, which)) /\ CloseAll(e, which).sent = e.sent
           /\ CloseAll(e, which).message = e.message
           /\ Ragged(CloseAll(e, which)) = Ragged(e) \ which
<1> DEFINE x(i) == [e.items[i] EXCEPT !.wire = "closed", !.data = "done", !.status = "completed"]
           new == [i \in 1..Len(e.items) |-> IF i \in which THEN x(i) ELSE e.items[i]]
           f == CloseAll(e, which)
<1>1. DOMAIN e.items = 1..Len(e.items) /\ \A i \in 1..Len(e.items) : e.items[i] \in EmItems
  BY DEF Emitter
<1>2. \A i \in 1..Len(e.items) : x(i) \in EmItems /\ IsWhole(x(i))
  BY <1>1 DEF EmItems, IsWhole
<1>3. \A i \in 1..Len(e.items) :
        x(i) = [e.items[i] EXCEPT !.wire = "closed", !.data = "done", !.status = "completed"]
  OBVIOUS
<1>4. DOMAIN f = DOMAIN e /\ f.message = e.message /\ f.sent = e.sent /\ f.items = new
  BY <1>1 DEF CloseAll, Emitter
<1> HIDE DEF f, x
<1>5. new \in Seq(EmItems) /\ Len(new) = Len(e.items)
  BY <1>1, <1>2 DEF Emitter
<1>6. Emitter(f)
  BY <1>4, <1>5 DEF Emitter
<1>7. Ragged(f) = Ragged(e) \ which
  BY <1>1, <1>2, <1>4 DEF Ragged
<1> QED BY <1>4, <1>6, <1>7 DEF f

WithData(x, d) == [x EXCEPT !.data = d]

LEMMA WithDataWhole ==
    ASSUME NEW x \in EmItems, x.data # "none", NEW d \in {"output", "failed"}
    PROVE  WithData(x, d) \in EmItems /\ (IsWhole(WithData(x, d)) <=> IsWhole(x))
BY DEF WithData, EmItems, IsWhole

\* Results change only what is already done.
LEMMA EmitterOutputs ==
    ASSUME NEW e, Emitter(e), NEW calls, NEW results \in Seq({"output", "failed"})
    PROVE  LET f == CallOutputs(e, calls, results) IN
             Emitter(f) /\ f.sent = e.sent /\ f.message = e.message /\ Ragged(f) = Ragged(e)
<1> DEFINE mine(k) == {n \in DOMAIN results : n \in DOMAIN calls /\ calls[n] = k}
           W == {k \in DOMAIN e.items : e.items[k].type = "mcp_call" /\ e.items[k].data # "none" /\ mine(k) # {}}
           v(k) == results[CHOOSE n \in mine(k) : TRUE]
           new == [k \in DOMAIN e.items |-> IF k \in W THEN WithData(e.items[k], v(k)) ELSE e.items[k]]
           f == CallOutputs(e, calls, results)
<1>1. DOMAIN e.items = 1..Len(e.items) /\ \A i \in 1..Len(e.items) : e.items[i] \in EmItems
  BY DEF Emitter
<1>2. \A k \in W : v(k) \in {"output", "failed"}
  <2> TAKE k \in W
  <2>1. (CHOOSE n \in mine(k) : TRUE) \in mine(k)
    OBVIOUS
  <2>2. (CHOOSE n \in mine(k) : TRUE) \in DOMAIN results
    BY <2>1
  <2> DEFINE n == CHOOSE n \in mine(k) : TRUE
  <2>3. n \in DOMAIN results
    BY <2>2
  <2> HIDE DEF n
  <2>4. results[n] \in {"output", "failed"}
    BY <2>3
  <2> QED BY <2>4 DEF n
<1>3. DOMAIN f = DOMAIN e /\ f.message = e.message /\ f.sent = e.sent /\ f.items = new
  BY DEF CallOutputs, Emitter, WithData
<1>4. \A k \in W : e.items[k].data # "none" /\ k \in 1..Len(e.items)
  BY <1>1
<1>5. PICK d \in [W -> {"output", "failed"}] :
        new = [k \in DOMAIN e.items |-> IF k \in W THEN WithData(e.items[k], d[k]) ELSE e.items[k]]
  <2> HIDE DEF v, W
  <2> DEFINE d == [k \in W |-> v(k)]
  <2>1. d \in [W -> {"output", "failed"}]
    BY <1>2
  <2>2. new = [k \in DOMAIN e.items |-> IF k \in W THEN WithData(e.items[k], d[k]) ELSE e.items[k]]
    OBVIOUS
  <2> QED BY <2>1, <2>2
<1> HIDE DEF f, v, W, new
<1>6. \A k \in 1..Len(e.items) : new[k] \in EmItems /\ (IsWhole(new[k]) <=> IsWhole(e.items[k]))
  <2> TAKE k \in 1..Len(e.items)
  <2>1. CASE k \in W
    <3>1. new[k] = WithData(e.items[k], d[k])
      BY <1>1, <1>5, <2>1
    <3>2. e.items[k] \in EmItems /\ e.items[k].data # "none" /\ d[k] \in {"output", "failed"}
      BY <1>1, <1>4, <1>5, <2>1
    <3> QED BY <3>1, <3>2, WithDataWhole
  <2>2. CASE k \notin W
    BY <1>1, <1>5, <2>2
  <2> QED BY <2>1, <2>2
<1>7. new \in Seq(EmItems) /\ Len(new) = Len(e.items) /\ DOMAIN new = DOMAIN e.items
  <2>1. DOMAIN new = 1..Len(e.items) /\ new = [k \in 1..Len(e.items) |-> new[k]] /\ Len(e.items) \in Nat
    BY <1>1, <1>5 DEF Emitter
  <2>2. \A k \in 1..Len(e.items) : new[k] \in EmItems
    BY <1>6
  <2>3. new \in Seq(EmItems)
    BY <2>1, <2>2
  <2> QED BY <2>1, <2>3, <1>1
<1>8. Emitter(f)
  BY <1>3, <1>7 DEF Emitter
<1>9. Ragged(f) = Ragged(e)
  BY <1>1, <1>3, <1>6, <1>7 DEF Ragged
<1> QED BY <1>3, <1>8, <1>9 DEF f

\* The completed event lists what is not ragged.
LEMMA WholeIsListed ==
    ASSUME NEW e, Emitter(e), DOMAIN e.items \ Ragged(e) # {}
    PROVE  /\ \A i \in DOMAIN e.items \ Ragged(e) : e.items[i].wire = "closed"
           /\ CompletedOutput(e) = Types(Keep(e.items, DOMAIN e.items \ Ragged(e)))
<1> DEFINE listed == {i \in DOMAIN e.items : e.items[i].status = "completed" /\ e.items[i].data # "none"}
<1>1. \A i \in DOMAIN e.items : e.items[i] \in EmItems
  BY DEF Emitter
<1>2. \A i \in DOMAIN e.items : e.items[i].status = "completed" => IsWhole(e.items[i])
  BY <1>1 DEF EmItems
<1>3. listed = DOMAIN e.items \ Ragged(e)
  BY <1>2 DEF Ragged, IsWhole
<1>4. CompletedOutput(e) = IF listed = {} THEN <<"message">> ELSE Types(Keep(e.items, listed))
  BY DEF CompletedOutput
<1> HIDE DEF listed
<1>5. CompletedOutput(e) = Types(Keep(e.items, DOMAIN e.items \ Ragged(e)))
  BY <1>3, <1>4
<1> QED BY <1>5 DEF Ragged, IsWhole

LEMMA FinalizeType ==
    ASSUME NEW e, Emitter(e) PROVE Finalize(e) \in Seq(ItemTypes)
<1> DEFINE K == {i \in DOMAIN e.items : e.items[i].data # "none"}
<1>1. Keep(e.items, K) \in Seq(EmItems)
  BY KeepTaken DEF Emitter
<1>2. Finalize(e) = [k \in DOMAIN Keep(e.items, K) |-> Keep(e.items, K)[k].type]
  BY DEF Finalize, Types
<1> HIDE DEF K
<1>3. /\ DOMAIN Keep(e.items, K) = 1..Len(Keep(e.items, K)) /\ Len(Keep(e.items, K)) \in Nat
      /\ \A k \in DOMAIN Keep(e.items, K) : Keep(e.items, K)[k] \in EmItems
  BY <1>1
<1>4. \A k \in DOMAIN Keep(e.items, K) : Keep(e.items, K)[k].type \in ItemTypes
  BY <1>3 DEF EmItems
<1> QED BY <1>2, <1>3, <1>4

-----------------------------------------------------------------------------
(* What holds of a task of the gRPC routers, of a request of the proxy router and of a     *)
(* handler of the conversations, each a record.                                            *)

InputItems == ItemTypes \cup {"own", "called"}
Results == {"output", "failed"}
Limit(b) == IF b.max = NoLimit THEN MaxIterations ELSE Min({b.max, MaxIterations})

TaskFields == {"body", "at", "input", "servers", "tools", "iter", "executed", "todo", "said", "pending",
               "results", "em", "tracked", "unfinished", "out", "cut", "gone", "answer"}

\* What is still to be read of an answer.
Unread(s) == s \in Seq(Chunks) /\ \A i \in 1..Len(s) : s[i] = "done" <=> i = Len(s)

TaskType(x) ==
    /\ DOMAIN x = TaskFields
    /\ x.body.harmony \in BOOLEAN /\ x.body.stream \in BOOLEAN /\ x.cut \in BOOLEAN
    /\ x.body.max \in Nat \cup {NoLimit}
    /\ x.executed \in Nat /\ x.pending \in Nat
    /\ x.said \in Seq(Chunks) /\ x.input \in Seq(InputItems) /\ x.results \in Seq(Results)
    /\ x.tracked \in Seq(Nat)
    /\ x.out \in Seq(ItemTypes)
    /\ x.at \in {"stream", "complete"} => x.body.stream
    /\ x.at = "stream" => Unread(x.todo)
    /\ x.at = "link" => x.todo \in Seq(ItemTypes)

\* The calls made and to be made keep to the limit.
CallsFit(x) ==
    /\ x.executed <= Limit(x.body)
    /\ x.at \in {"call", "calling"} => x.executed + x.pending <= Limit(x.body)
    /\ x.at = "call" => x.pending > 0

\* Every call made is in the input or among the results.
CallsFed(x) ==
    /\ x.at \in {"new", "load", "conversation", "connect", "tools"} => x.executed = 0
    /\ x.at \in {"conversation", "connect", "tools", "run", "stream", "judge", "call", "calling", "functions"} =>
          "own" \in ToSet(x.input)
    /\ x.at \in {"conversation", "connect", "tools", "run"} => Count("called", x.input) = x.executed
    /\ x.at \in {"stream", "judge", "call", "functions"} =>
          Count("called", x.input) + Len(x.results) = x.executed
    /\ x.at = "calling" => Count("called", x.input) + Len(x.results) + 1 = x.executed

Unclosed(x) == ~x.body.harmony /\ x.body.stream /\ x.body.servers = {} /\ Calls(x.said) > 0

\* While Harmony reads: what is not whole is a call that T tracks, the message, or one of
\* the unfinished calls U, and those are none of the others.
Tied(e, T, U) ==
    /\ T \subseteq 0..Len(e.items)
    /\ Ragged(e) \subseteq T \cup {e.message} \cup U
    /\ U \subseteq Ragged(e) \ (T \cup {e.message})

HarmonyItems(x) ==
    IF x.at = "stream" /\ x.todo # <<>>
      THEN Tied(x.em, ToSet(x.tracked), x.unfinished)
      ELSE x.at = "end" \/ Ragged(x.em) = x.unfinished

RegularItems(x) ==
    /\ x.at = "calling" => Ragged(x.em) \subseteq {x.em.message, Len(x.em.items)}
    /\ x.at \notin {"calling", "end"} => Ragged(x.em) \subseteq {x.em.message}
    /\ (x.at = "judge" \/ (x.at = "stream" /\ x.todo = <<>>)) /\ Calls(x.said) = 0 => Ragged(x.em) = {}
    /\ x.at \in {"complete", "store", "link"} => Ragged(x.em) = {} \/ Unclosed(x)

\* Which items of the emitter are not whole.
ItemsShown(x) ==
    /\ Emitter(x.em)
    /\ "completed" \in x.em.sent =>
          /\ x.at \in {"store", "link", "end"} /\ (x.body.harmony => x.at = "end")
          /\ x.cut \/ Ragged(x.em) = x.unfinished \/ Unclosed(x)
    /\ ~x.body.harmony => x.unfinished = {}
    /\ ~x.body.stream => x.em = NewEmitter
    /\ x.body.stream /\ x.body.harmony /\ ~x.cut => HarmonyItems(x)
    /\ x.body.stream /\ ~x.body.harmony /\ x.at = "calling" => Len(x.em.items) > 0
    /\ x.body.stream /\ ~x.body.harmony /\ ~x.cut => RegularItems(x)

TaskInv(x) == TaskType(x) /\ CallsFit(x) /\ CallsFed(x) /\ ItemsShown(x)

OFields == {"body", "at", "input", "active", "tries", "todo", "said", "begun", "next", "items", "listed", "pending",
            "total", "made", "out", "cut", "gone", "sent", "exchanges", "ticks", "stored", "answer"}

OItems == [index : Nat, type : ItemTypes \cup {"text"}, wire : {"open", "closed"}]
Early == {"new", "refresh", "load", "conversation", "connect"}

ProxyType(x) ==
    /\ DOMAIN x = OFields
    /\ x.body.chat \in BOOLEAN /\ x.body.stream \in BOOLEAN /\ x.body.conv \in BOOLEAN /\ x.body.store \in BOOLEAN
    /\ x.body.max \in Nat \cup {NoLimit}
    /\ x.active \in BOOLEAN /\ x.begun \in BOOLEAN /\ x.gone \in BOOLEAN /\ x.cut \in BOOLEAN
    /\ x.input \in Seq(InputItems) /\ x.said \in Seq(Chunks) /\ x.out \in Seq(ItemTypes)
    /\ x.exchanges \in Seq({"ok", "failed", "cancelled"}) /\ x.ticks \in Seq({"ok", "failed"})
    /\ x.pending \in Nat /\ x.total \in Nat /\ x.made \in Nat
    /\ x.at \notin {"stream", "link", "end"} => x.todo \in Seq(Chunks)
    /\ x.at = "link" => x.todo \in Seq(ItemTypes)
    /\ x.at \in Early => ~x.active /\ ~x.begun /\ x.made = 0 /\ x.total = 0 /\ x.pending = 0
    /\ x.at \in {"stream", "judge", "calling", "final"} => x.active
    /\ x.at \in {"stream", "final"} => x.body.stream

\* What the breaker has heard.
Heard(x) ==
    /\ Count("failed", x.ticks) >= Count("failed", x.exchanges)
    /\ Count("ok", x.ticks) <= Count("ok", x.exchanges)
    /\ x.body.stream /\ x.at \in {"judge", "store", "link"} =>
          Count("ok", x.ticks) < Count("ok", x.exchanges)

\* kept: whether the response is in the store.
StoredRight(x, kept) == ~x.body.chat =>
    /\ x.at # "end" => Count("failed", x.exchanges) = 0
    /\ x.stored = "yes" => kept /\ x.at \in {"link", "end"} /\ Count("failed", x.exchanges) = 0
    /\ x.at = "link" => x.stored = "yes"
    /\ x.begun /\ ~x.active => x.at \in {"pass", "store", "link", "end"}
    /\ x.begun /\ ~x.active /\ x.body.stream /\ (x.body.store \/ x.body.conv) /\ x.at = "end" =>
          x.stored # "no" \/ Count("failed", x.exchanges) > 0

ToolsFit(x) ==
    /\ x.made <= x.total /\ x.total <= Limit(x.body)
    /\ x.at = "calling" => x.made + x.pending = x.total /\ x.pending > 0
    /\ x.at \notin {"calling", "end"} => x.made = x.total

ToolsFed(x) ==
    x.at \in {"conversation", "connect"} \/ (x.at = "send" /\ x.active) =>
        "own" \in ToSet(x.input) /\ Count("called", x.input) = x.made

OpenShown(x) == {i \in DOMAIN x.items : x.items[i].wire = "open"}
CallsShown(x) == {i \in DOMAIN x.items : x.items[i].type = "mcp_call"}

Interception(x) ==
    /\ x.pending <= 1
    /\ OpenShown(x) = IF x.pending = 0 THEN {} ELSE {Len(x.items)}
    /\ Cardinality(CallsShown(x)) = x.made + x.pending
    /\ x.at \in {"judge", "calling"} => x.pending = 1
    /\ x.at \in Early \cup {"send"} => x.pending = 0
    /\ x.at = "final" => x.cut \/ x.pending = 0
    /\ x.at = "stream" => /\ x.todo \in Seq(Chunks \cup {"args"})
                          /\ x.pending = 1 <=> x.todo # <<>> /\ x.todo[1] = "args"
                          /\ \A i \in 2..Len(x.todo) : x.todo[i] # "args"

StreamShown(x) ==
    /\ x.items \in Seq(OItems) /\ x.next = Len(x.items) /\ (~x.body.stream => x.items = <<>>)
    /\ \A i \in 1..Len(x.items) : x.items[i].index = i - 1
    /\ "completed" \in x.sent =>
          /\ x.at \in {"store", "link", "end"}
          /\ x.cut \/ (OpenShown(x) = {} /\ Cardinality(CallsShown(x)) = x.made)
    /\ x.body.stream /\ x.at \in Early \cup {"send", "stream", "judge", "calling", "final"} => Interception(x)

ProxyInv(x, kept) ==
    ProxyType(x) /\ Heard(x) /\ StoredRight(x, kept) /\ ToolsFit(x) /\ ToolsFed(x) /\ StreamShown(x)

\* What the stores hold parses as input.
StoresType ==
    /\ DOMAIN conversation = {"exists", "items"} /\ conversation.items \in Seq(ItemTypes)
    /\ \A i \in DOMAIN responses : responses[i].input \in Seq(ItemTypes) /\ responses[i].output \in Seq(ItemTypes)

HandlerInv(x, exist) ==
    /\ DOMAIN x = {"ask", "at", "todo", "new"}
    /\ x.ask.op = "create" => IsFiniteSet(x.ask.keys)
    /\ x.ask.op = "update" => IsFiniteSet(x.ask.set)
    /\ x.ask.op = "update" /\ x.at = "write" => IsFiniteSet(x.new) /\ Cardinality(x.new) <= MaxMetadata
    /\ x.at = "link" => Head(x.todo).id \in exist

Tasks == q = [r \in DOMAIN q |-> q[r]] /\ \A r \in DOMAIN q : TaskInv(q[r])
Proxies == o = [r \in DOMAIN o |-> o[r]] /\ \A r \in DOMAIN o : ProxyInv(o[r], r \in DOMAIN responses)
AllHandlers == call = [h \in DOMAIN call |-> call[h]] /\ \A h \in DOMAIN call : HandlerInv(call[h], catalog)
Bounded == IsFiniteSet(meta) /\ Cardinality(meta) <= MaxMetadata /\ links \subseteq catalog

\* The inductive invariant of the whole.
ConversationsInv == StoresType /\ Tasks /\ Proxies /\ AllHandlers /\ Bounded
-----------------------------------------------------------------------------
LEMMA LimitType ==
    ASSUME NEW b, b.max \in Nat \cup {NoLimit} PROVE Limit(b) \in Nat
BY MinOfTwo, ResponsesAssumption DEF Limit

\* Nothing in s is the result of a call.
NoResult(s) == \A i \in 1..Len(s) : s[i] # "called"

LEMMA OwnLast ==
    ASSUME NEW past \in Seq(InputItems), NoResult(past)
    PROVE  /\ past \o <<"own">> \in Seq(InputItems) /\ Count("called", past \o <<"own">>) = 0
           /\ "own" \in ToSet(past \o <<"own">>)
<1> DEFINE s == past \o <<"own">>
<1>1. s \in Seq(InputItems) /\ Len(s) = Len(past) + 1 /\ Len(past) \in Nat /\ DOMAIN s = 1..Len(s)
  BY DEF InputItems
<1>2. \A i \in 1..Len(s) : s[i] = IF i <= Len(past) THEN past[i] ELSE "own"
  OBVIOUS
<1>3. \A i \in 1..Len(s) : s[i] # "called"
  BY <1>1, <1>2 DEF NoResult
<1>4. s[Len(s)] = "own" /\ Len(s) \in DOMAIN s
  BY <1>1, <1>2
<1>5. "own" \in ToSet(s)
  BY <1>4 DEF ToSet
<1> HIDE DEF s
<1>6. Count("called", s) = 0
  BY <1>1, <1>3, CountNone
<1> QED BY <1>1, <1>5, <1>6 DEF s

LEMMA NoResultStored ==
    ASSUME NEW s \in Seq(ItemTypes) PROVE s \in Seq(InputItems) /\ NoResult(s)
BY DEF ItemTypes, InputItems, NoResult

LEMMA NoResultConcat ==
    ASSUME NEW s \in Seq(InputItems), NEW t \in Seq(InputItems), NoResult(s), NoResult(t)
    PROVE  s \o t \in Seq(InputItems) /\ NoResult(s \o t)
<1>1. \A i \in 1..Len(s \o t) : (s \o t)[i] = IF i <= Len(s) THEN s[i] ELSE t[i - Len(s)]
  OBVIOUS
<1>2. ASSUME NEW i \in 1..Len(s \o t) PROVE (s \o t)[i] # "called"
  <2>1. i \in Nat /\ i > 0 /\ i <= Len(s) + Len(t) /\ Len(s) \in Nat /\ Len(t) \in Nat
    BY <1>2
  <2>2. CASE i <= Len(s)
    BY <1>1, <2>1, <2>2 DEF NoResult
  <2>3. CASE ~ (i <= Len(s))
    BY <1>1, <2>1, <2>3 DEF NoResult
  <2> QED BY <2>2, <2>3
<1> QED BY <1>2 DEF NoResult

LEMMA NoResultFront ==
    ASSUME NEW s \in Seq(InputItems), Count("called", s) = 0
    PROVE  Front(s) \in Seq(InputItems) /\ NoResult(Front(s))
<1>1. \A i \in 1..Len(s) : s[i] # "called" /\ s[i] \in InputItems
  BY CountNone
<1>2. Len(s) \in Nat
  OBVIOUS
<1>3. Front(s) = [i \in 1..(Len(s) - 1) |-> s[i]] \/ Front(s) = <<>>
  <2>1. CASE Len(s) = 0
    BY <2>1 DEF Front
  <2>2. CASE Len(s) > 0
    BY <2>2 DEF Front
  <2> QED BY <1>2, <2>1, <2>2
<1>4. CASE Front(s) = <<>>
  BY <1>4 DEF NoResult
<1>5. CASE Front(s) = [i \in 1..(Len(s) - 1) |-> s[i]]
  <2>1. (Len(s) - 1) \in Nat \/ Len(s) = 0
    BY <1>2
  <2>2. CASE (Len(s) - 1) \in Nat
    BY <1>1, <1>2, <1>5, <2>2 DEF NoResult
  <2>3. CASE Len(s) = 0
    BY <2>3, <1>5 DEF NoResult
  <2> QED BY <2>1, <2>2, <2>3
<1> QED BY <1>3, <1>4, <1>5

LEMMA ReadableType ==
    ASSUME NEW s \in Seq(ItemTypes) PROVE Readable(s) \in Seq(ItemTypes)
BY KeepTaken DEF Readable

LEMMA ChainType ==
    ASSUME StoresType, NEW id PROVE Chain(id) \in Seq(ItemTypes)
<1>1. CASE id \in DOMAIN responses
  BY <1>1, ReadableType DEF Chain, StoresType
<1>2. CASE id \notin DOMAIN responses
  BY <1>2 DEF Chain
<1> QED BY <1>1, <1>2

LEMMA PastType == ASSUME StoresType PROVE Past \in Seq(ItemTypes)
BY KeepTaken DEF Past, StoresType

LEMMA FrontChunks ==
    ASSUME NEW a \in Outputs
    PROVE  Front(a) \in Seq(Chunks) /\ a \in Seq(Chunks) /\ Unread(a) /\ a # <<>>
<1>1. a \in Seq(Chunks) /\ a # <<>> /\ \A i \in DOMAIN a : a[i] = "done" <=> i = Len(a)
  BY ResponsesAssumption
<1>2. Front(a) \in Seq(Chunks)
  BY <1>1 DEF Front
<1> QED BY <1>1, <1>2 DEF Unread

LEMMA CallsType ==
    ASSUME NEW s \in Seq(Chunks)
    PROVE  OfServers(s) \in Nat /\ OfCaller(s) \in Nat /\ Calls(s) \in Nat
BY PlacesFinite DEF OfServers, OfCaller, Calls

LEMMA StoredRepeat ==
    ASSUME NEW t \in ItemTypes, NEW n \in Nat PROVE Repeat(t, n) \in Seq(ItemTypes)
BY DEF Repeat

LEMMA SpokenType == ASSUME NEW s PROVE Spoken(s) \in Seq(ItemTypes)
<1> DEFINE a == IF "text" \in ToSet(s) THEN <<"message">> ELSE <<>>
           b == IF "reasoning" \in ToSet(s) THEN <<"reasoning">> ELSE <<>>
<1>0. <<"message">> \in Seq(ItemTypes) /\ <<"reasoning">> \in Seq(ItemTypes) /\ <<>> \in Seq(ItemTypes)
  BY SMT DEF ItemTypes
<1>1. a \in Seq(ItemTypes)
  BY <1>0, Zenon
<1>2. b \in Seq(ItemTypes)
  BY <1>0, Zenon
<1> HIDE DEF a, b
<1>3. a \o b \in Seq(ItemTypes)
  BY <1>1, <1>2
<1> QED BY <1>3 DEF a, b, Spoken

LEMMA ConvertedType ==
    ASSUME NEW s \in Seq(Chunks) PROVE Converted(s) \in Seq(ItemTypes)
<1>1. Repeat("function_call", Calls(s)) \in Seq(ItemTypes)
  BY CallsType, StoredRepeat DEF ItemTypes
<1> QED BY <1>1, SpokenType DEF Converted

LEMMA MetadataType ==
    ASSUME NEW r, q[r].executed \in Nat, NEW out \in Seq(ItemTypes)
    PROVE  WithMetadata(r, out) \in Seq(ItemTypes)
<1>1. Repeat("mcp_call", q[r].executed) \in Seq(ItemTypes)
  BY StoredRepeat DEF ItemTypes
<1>2. <<"mcp_list_tools">> \in Seq(ItemTypes)
  BY DEF ItemTypes
<1> QED BY <1>1, <1>2 DEF WithMetadata

LEMMA ToolResponseType ==
    ASSUME NEW r, TaskType(q[r]) PROVE ToolResponse(r) \in Seq(ItemTypes)
BY ConvertedType, MetadataType DEF ToolResponse, TaskType

-----------------------------------------------------------------------------
(* The tasks of the gRPC routers: every action keeps TaskInv. *)

Goes(r) == \E y : Step(r, y) /\ TaskInv(y)

LEMMA TaskEnds ==
    ASSUME NEW x, TaskInv(x), NEW a, NEW e, Emitter(e), e = x.em \/ x.body.stream,
           "completed" \in e.sent => x.cut \/ Ragged(e) = x.unfinished \/ Unclosed(x)
    PROVE  TaskInv([x EXCEPT !.at = "end", !.answer = a, !.em = e])
<1> DEFINE y == [x EXCEPT !.at = "end", !.answer = a, !.em = e]
<1>1. TaskType(y)
  BY DEF TaskInv, TaskType, TaskFields
<1>2. CallsFit(y) /\ CallsFed(y)
  BY DEF TaskInv, TaskType, TaskFields, CallsFit, CallsFed
<1>3. ItemsShown(y)
  BY DEF TaskInv, TaskType, TaskFields, ItemsShown, HarmonyItems, RegularItems, Unclosed
<1> QED BY <1>1, <1>2, <1>3 DEF TaskInv

LEMMA TaskFails ==
    ASSUME NEW r, TaskInv(q[r]), q[r].at \notin {"store", "link", "end"}, Fail(r)
    PROVE  Goes(r)
<1> DEFINE x == q[r]
           e == IF "created" \in x.em.sent THEN EmitError(x.em) ELSE x.em
           y == [x EXCEPT !.at = "end", !.answer = "error", !.em = e]
<1>1. Emitter(x.em) /\ "completed" \notin x.em.sent /\ (~x.body.stream => x.em = NewEmitter)
  BY DEF TaskInv, ItemsShown
<1>2. Emitter(e) /\ "completed" \notin e.sent
  BY <1>1, EmitterSent DEF EmitError
<1>3. e = x.em \/ x.body.stream
  BY <1>1 DEF NewEmitter
<1> HIDE DEF e
<1>4. TaskInv(y)
  BY <1>2, <1>3, TaskEnds
<1>5. Step(r, y)
  BY DEF Fail, e
<1> QED BY <1>4, <1>5 DEF Goes

LEMMA TaskAborts ==
    ASSUME NEW r, TaskInv(q[r]), Abort(r)
    PROVE  Goes(r)
<1> DEFINE x == q[r]
           y == [x EXCEPT !.at = "end", !.answer = "dropped"]
<1>1. Emitter(x.em) /\ ("completed" \in x.em.sent => x.cut \/ Ragged(x.em) = x.unfinished \/ Unclosed(x))
  BY DEF TaskInv, ItemsShown
<1>2. y = [x EXCEPT !.at = "end", !.answer = "dropped", !.em = x.em]
  BY DEF TaskInv, TaskType, TaskFields
<1>3. TaskInv(y)
  BY <1>1, <1>2, TaskEnds
<1>4. Step(r, y)
  BY DEF Abort
<1> QED BY <1>3, <1>4 DEF Goes

LEMMA TaskStores ==
    ASSUME NEW x, TaskInv(x), x.at \in {"judge", "functions"}, x.body.stream => x.body.harmony,
           NEW out \in Seq(ItemTypes)
    PROVE  TaskInv([x EXCEPT !.at = "store", !.out = out])
<1> DEFINE y == [x EXCEPT !.at = "store", !.out = out]
<1>1. TaskType(y)
  BY DEF TaskInv, TaskType, TaskFields
<1>2. CallsFit(y) /\ CallsFed(y)
  BY DEF TaskInv, TaskType, TaskFields, CallsFit, CallsFed
<1>3. ItemsShown(y)
  BY DEF TaskInv, TaskType, TaskFields, ItemsShown, HarmonyItems, RegularItems, Unclosed
<1> QED BY <1>1, <1>2, <1>3 DEF TaskInv

LEMMA StoreActions ==
    ASSUME NEW r, TaskInv(q[r]),
           \/ RegularSyncSingle(r) \/ HarmonySyncSingle(r) \/ HarmonyStreamSingle(r)
           \/ RegularSyncFinal(r) \/ HarmonySyncFinal(r) \/ HarmonyStreamFinal(r)
           \/ HandBack(r) \/ RegularSyncLimit(r) \/ HarmonySyncLimit(r) \/ HarmonySyncFunctions(r)
    PROVE  Goes(r)
<1> DEFINE x == q[r]
<1>1. /\ Converted(x.said) \in Seq(ItemTypes) /\ ToolResponse(r) \in Seq(ItemTypes)
      /\ WithMetadata(r, Converted(x.said)) \in Seq(ItemTypes) /\ Finalize(x.em) \in Seq(ItemTypes)
  BY ConvertedType, ToolResponseType, MetadataType, FinalizeType DEF TaskInv, TaskType, ItemsShown
<1>2. \E out \in Seq(ItemTypes) : Step(r, [x EXCEPT !.at = "store", !.out = out])
  BY <1>1 DEF RegularSyncSingle, HarmonySyncSingle, HarmonyStreamSingle, RegularSyncFinal, HarmonySyncFinal,
     HarmonyStreamFinal, HandBack, RegularSyncLimit, HarmonySyncLimit, HarmonySyncFunctions
<1>3. x.at \in {"judge", "functions"} /\ (x.body.stream => x.body.harmony)
  BY DEF RegularSyncSingle, HarmonySyncSingle, HarmonyStreamSingle, RegularSyncFinal, HarmonySyncFinal,
     HarmonyStreamFinal, HandBack, RegularSyncLimit, HarmonySyncLimit, HarmonySyncFunctions,
     Final, AtLimit, ForCaller, ReturnFunctions, RegSync, HarSync, HarStream, Harmony, Streams, B
<1> QED BY <1>2, <1>3, TaskStores DEF Goes

LEMMA EmitterCreated ==
    ASSUME NEW e, Emitter(e)
    PROVE  /\ Emitter(Created(e)) /\ Created(e).message = e.message /\ Ragged(Created(e)) = Ragged(e)
           /\ Created(e).items = e.items /\ ("completed" \in Created(e).sent => "completed" \in e.sent)
<1> DEFINE f == Sent(e, "created")
<1>1. /\ Emitter(f) /\ f.message = e.message /\ Ragged(f) = Ragged(e) /\ f.items = e.items
      /\ f.sent = e.sent \cup {"created"}
  BY EmitterSent
<1> HIDE DEF f
<1> DEFINE g == Sent(f, "in_progress")
<1>2. /\ Emitter(g) /\ g.message = f.message /\ Ragged(g) = Ragged(f) /\ g.items = f.items
      /\ g.sent = f.sent \cup {"in_progress"}
  BY <1>1, EmitterSent
<1>3. Created(e) = g
  BY DEF Created, f
<1> HIDE DEF g
<1> QED BY <1>1, <1>2, <1>3

LEMMA EmitterRestart ==
    ASSUME NEW e, Emitter(e)
    PROVE  /\ Emitter([e EXCEPT !.message = NoItem]) /\ [e EXCEPT !.message = NoItem].items = e.items
           /\ [e EXCEPT !.message = NoItem].sent = e.sent /\ Ragged([e EXCEPT !.message = NoItem]) = Ragged(e)
BY DEF Emitter, NoItem, Ragged

LEMMA TaskRouted ==
    ASSUME NEW x, TaskInv(x), x.at = "new" PROVE TaskInv([x EXCEPT !.at = "load"])
<1> DEFINE y == [x EXCEPT !.at = "load"]
<1>1. TaskType(y)
  BY DEF TaskInv, TaskType, TaskFields
<1>2. CallsFit(y) /\ CallsFed(y)
  BY DEF TaskInv, TaskType, TaskFields, CallsFit, CallsFed
<1>3. ItemsShown(y)
  BY DEF TaskInv, TaskType, TaskFields, ItemsShown, HarmonyItems, RegularItems, Unclosed
<1> QED BY <1>1, <1>2, <1>3 DEF TaskInv

LEMMA TaskLoaded ==
    ASSUME NEW x, TaskInv(x), x.at \in {"load", "conversation"}, NEW at \in {"conversation", "connect"},
           NEW past \in Seq(InputItems), NoResult(past)
    PROVE  TaskInv([x EXCEPT !.at = at, !.input = past \o <<"own">>])
<1> DEFINE in == past \o <<"own">>
           y == [x EXCEPT !.at = at, !.input = in]
<1>1. in \in Seq(InputItems) /\ Count("called", in) = 0 /\ "own" \in ToSet(in)
  BY OwnLast
<1> HIDE DEF in
<1>2. TaskType(y)
  BY <1>1 DEF TaskInv, TaskType, TaskFields
<1>3. CallsFit(y) /\ CallsFed(y)
  BY <1>1 DEF TaskInv, TaskType, TaskFields, CallsFit, CallsFed
<1>4. ItemsShown(y)
  BY DEF TaskInv, TaskType, TaskFields, ItemsShown, HarmonyItems, RegularItems, Unclosed
<1> QED BY <1>2, <1>3, <1>4 DEF TaskInv, in

LEMMA LoadActions ==
    ASSUME NEW r, StoresType, TaskInv(q[r]), HarmonyLoadChain(r) \/ RegularLoadChain(r) \/ LoadConversation(r)
    PROVE  Goes(r)
<1> DEFINE x == q[r]
<1>1. <<>> \in Seq(ItemTypes) /\ Chain(B(r).prev) \in Seq(ItemTypes) /\ Past \in Seq(ItemTypes)
  BY ChainType, PastType
<1>2. CASE HarmonyLoadChain(r)
  <2>1. CASE Fail(r)
    BY <1>2, <2>1, TaskFails DEF HarmonyLoadChain
  <2>2. CASE Step(r, [x EXCEPT !.at = "connect", !.input = Chain(B(r).prev) \o <<"own">>])
    <3>1. x.at = "load" /\ Chain(B(r).prev) \in Seq(InputItems) /\ NoResult(Chain(B(r).prev))
      BY <1>1, <1>2, NoResultStored DEF HarmonyLoadChain
    <3> QED BY <3>1, <2>2, TaskLoaded DEF Goes
  <2> QED BY <1>2, <2>1, <2>2 DEF HarmonyLoadChain
<1>3. CASE RegularLoadChain(r)
  <2>1. PICK past \in {Chain(B(r).prev), <<>>} :
           Step(r, [x EXCEPT !.at = IF B(r).conv THEN "conversation" ELSE "connect", !.input = past \o <<"own">>])
    BY <1>3 DEF RegularLoadChain
  <2>2. x.at = "load" /\ past \in Seq(InputItems) /\ NoResult(past)
    BY <1>1, <1>3, <2>1, NoResultStored DEF RegularLoadChain
  <2>3. CASE B(r).conv
    BY <2>1, <2>2, <2>3, TaskLoaded DEF Goes
  <2>4. CASE ~B(r).conv
    BY <2>1, <2>2, <2>4, TaskLoaded DEF Goes
  <2> QED BY <2>3, <2>4
<1>4. CASE LoadConversation(r)
  <2>0. x.at = "conversation"
    BY <1>4 DEF LoadConversation
  <2>1. CASE Fail(r)
    BY <2>0, <2>1, TaskFails
  <2>2. CASE ~Fail(r)
    <3>1. PICK past \in {Past, <<>>} :
             Step(r, [x EXCEPT !.at = "connect", !.input = Front(x.input) \o past \o <<"own">>])
      BY <1>4, <2>2 DEF LoadConversation
    <3>2. past \in Seq(InputItems) /\ NoResult(past)
      BY <1>1, <3>1, NoResultStored
    <3>3. x.input \in Seq(InputItems) /\ Count("called", x.input) = 0
      BY <2>0 DEF TaskInv, TaskType, CallsFed
    <3>4. Front(x.input) \in Seq(InputItems) /\ NoResult(Front(x.input))
      BY <3>3, NoResultFront
    <3>5. Front(x.input) \o past \in Seq(InputItems) /\ NoResult(Front(x.input) \o past)
      BY <3>2, <3>4, NoResultConcat
    <3>6. TaskInv([x EXCEPT !.at = "connect", !.input = (Front(x.input) \o past) \o <<"own">>])
      BY <2>0, <3>5, TaskLoaded
    <3> QED BY <3>1, <3>6 DEF Goes
  <2> QED BY <2>1, <2>2
<1> QED BY <1>2, <1>3, <1>4

\* What the manager and the context know of tools is not part of the invariant.
LEMMA TaskConnected ==
    ASSUME NEW x, TaskInv(x), x.at = "connect", NEW at \in {"tools", "run"}, NEW up
    PROVE  TaskInv([x EXCEPT !.at = at, !.servers = up])
<1> DEFINE y == [x EXCEPT !.at = at, !.servers = up]
<1>1. TaskType(y)
  BY DEF TaskInv, TaskType, TaskFields
<1>2. CallsFit(y) /\ CallsFed(y)
  BY DEF TaskInv, TaskType, TaskFields, CallsFit, CallsFed
<1>3. ItemsShown(y)
  BY DEF TaskInv, TaskType, TaskFields, ItemsShown, HarmonyItems, RegularItems, Unclosed
<1> QED BY <1>1, <1>2, <1>3 DEF TaskInv

LEMMA TaskSyncTools ==
    ASSUME NEW x, TaskInv(x), x.at = "tools", NEW tools
    PROVE  TaskInv([x EXCEPT !.at = "run", !.tools = tools])
<1> DEFINE y == [x EXCEPT !.at = "run", !.tools = tools]
<1>1. TaskType(y)
  BY DEF TaskInv, TaskType, TaskFields
<1>2. CallsFit(y) /\ CallsFed(y)
  BY DEF TaskInv, TaskType, TaskFields, CallsFit, CallsFed
<1>3. ItemsShown(y)
  BY DEF TaskInv, TaskType, TaskFields, ItemsShown, HarmonyItems, RegularItems, Unclosed
<1> QED BY <1>1, <1>2, <1>3 DEF TaskInv

LEMMA TaskListTools ==
    ASSUME NEW x, TaskInv(x), x.at = "tools", NEW tools, x.body.stream
    PROVE  TaskInv([x EXCEPT !.at = "run", !.tools = tools, !.em = WholeItem(Created(x.em), "mcp_list_tools")])
<1> DEFINE f == Created(x.em)
           e == WholeItem(f, "mcp_list_tools")
           y == [x EXCEPT !.at = "run", !.tools = tools, !.em = e]
<1>0. Emitter(x.em)
  BY DEF TaskInv, ItemsShown
<1>1. /\ Emitter(f) /\ f.message = x.em.message /\ Ragged(f) = Ragged(x.em)
      /\ ("completed" \in f.sent => "completed" \in x.em.sent)
  BY <1>0, EmitterCreated
<1> HIDE DEF f
<1>2. Emitter(e) /\ e.message = f.message /\ Ragged(e) = Ragged(f) /\ e.sent = f.sent
  BY <1>1, EmitterWhole DEF ItemTypes
<1> HIDE DEF e
<1>3. TaskType(y)
  BY DEF TaskInv, TaskType, TaskFields
<1>4. CallsFit(y) /\ CallsFed(y)
  BY DEF TaskInv, TaskType, TaskFields, CallsFit, CallsFed
<1>5. ItemsShown(y)
  BY <1>1, <1>2 DEF TaskInv, TaskType, TaskFields, ItemsShown, HarmonyItems, RegularItems, Unclosed
<1> QED BY <1>3, <1>4, <1>5 DEF TaskInv, e, f

LEMMA EntryActions ==
    ASSUME NEW r, TaskInv(q[r]),
           \/ Refuse(r) \/ RouteResponses(r) \/ EnsureConnection(r) \/ EnsureConnectionFails(r)
           \/ SyncTools(r) \/ RegularListTools(r) \/ HarmonyListTools(r) \/ ExceedIterations(r)
    PROVE  Goes(r)
<1> DEFINE x == q[r]
<1>1. CASE Refuse(r) \/ EnsureConnectionFails(r) \/ ExceedIterations(r)
  BY <1>1, TaskFails DEF Refuse, EnsureConnectionFails, ExceedIterations
<1>2. CASE RouteResponses(r)
  BY <1>2, TaskRouted DEF RouteResponses, Goes
<1>3. CASE EnsureConnection(r)
  <2>1. PICK up \in Connections(r) :
          Step(r, [q[r] EXCEPT !.at = IF InLoop(r) THEN "tools" ELSE "run", !.servers = up])
    BY <1>3 DEF EnsureConnection
  <2>2. x.at = "connect"
    BY <1>3 DEF EnsureConnection
  <2>3. CASE InLoop(r)
    BY <2>1, <2>2, <2>3, TaskConnected DEF Goes
  <2>4. CASE ~InLoop(r)
    BY <2>1, <2>2, <2>4, TaskConnected DEF Goes
  <2> QED BY <2>3, <2>4
<1>4. CASE SyncTools(r)
  <2>1. TaskInv([x EXCEPT !.at = "run", !.tools = IF Harmony(r) THEN HarmonyTools(r) ELSE RegularTools(r)])
    BY <1>4, TaskSyncTools DEF SyncTools
  <2> QED BY <1>4, <2>1 DEF SyncTools, Goes
<1>5. CASE RegularListTools(r)
  <2>1. x.at = "tools" /\ x.body.stream
    BY <1>5 DEF RegularListTools, RegStream, Streams, B
  <2>2. TaskInv([x EXCEPT !.at = "run", !.tools = RegularTools(r), !.em = WholeItem(Created(x.em), "mcp_list_tools")])
    BY <2>1, TaskListTools
  <2> QED BY <1>5, <2>2 DEF RegularListTools, Listed, Goes
<1>6. CASE HarmonyListTools(r)
  <2>1. x.at = "tools" /\ x.body.stream
    BY <1>6 DEF HarmonyListTools, HarStream, Streams, B
  <2>2. TaskInv([x EXCEPT !.at = "run", !.tools = HarmonyTools(r), !.em = WholeItem(Created(x.em), "mcp_list_tools")])
    BY <2>1, TaskListTools
  <2> QED BY <1>6, <2>2 DEF HarmonyListTools, Listed, Goes
<1> QED BY <1>1, <1>2, <1>3, <1>4, <1>5, <1>6

\* A run starts, or has failed to, with the emitter of the request or a new one.
LEMMA TaskStreaming ==
    ASSUME NEW x, TaskInv(x), x.at = "run", x.body.stream, NEW n, NEW a, NEW cut \in BOOLEAN, NEW e,
           Unread(a), a = <<>> => cut, cut \/ cut = x.cut,
           Emitter(e), Ragged(e) = Ragged(x.em),
           IF x.body.harmony THEN e.message = NoItem ELSE e.message = x.em.message,
           "completed" \in e.sent => "completed" \in x.em.sent
    PROVE  TaskInv([x EXCEPT !.at = "stream", !.iter = n, !.todo = a, !.said = <<>>, !.results = <<>>,
                             !.cut = cut, !.tracked = <<>>, !.em = e])
<1> DEFINE y == [x EXCEPT !.at = "stream", !.iter = n, !.todo = a, !.said = <<>>, !.results = <<>>,
                          !.cut = cut, !.tracked = <<>>, !.em = e]
<1>0. <<>> \in Seq(Chunks) /\ <<>> \in Seq(Results) /\ <<>> \in Seq(Nat)
  OBVIOUS
<1>1. TaskType(y)
  BY <1>0 DEF TaskInv, TaskType, TaskFields
<1>2. CallsFit(y) /\ CallsFed(y)
  <2>1. Count("called", x.input) \in Nat
    BY PlacesFinite DEF TaskInv, TaskType
  <2> QED BY <2>1 DEF TaskInv, TaskType, TaskFields, CallsFit, CallsFed
<1>3. ItemsShown(y)
  <2>1. ASSUME Ragged(x.em) = x.unfinished, e.message = NoItem PROVE Tied(e, ToSet(<<>>), x.unfinished)
    <3>1. ToSet(<<>>) = {}
      BY DEF ToSet
    <3>2. NoItem \notin Ragged(e)
      BY RaggedPlaces
    <3> QED BY <2>1, <3>1, <3>2 DEF Tied
  <2> QED BY <2>1 DEF TaskInv, TaskType, TaskFields, ItemsShown, HarmonyItems, RegularItems
<1> QED BY <1>1, <1>2, <1>3 DEF TaskInv

LEMMA EmitterAnnounced ==
    ASSUME NEW r, Emitter(q[r].em)
    PROVE  /\ Emitter(Announced(r)) /\ Ragged(Announced(r)) = Ragged(q[r].em)
           /\ Announced(r).message = q[r].em.message
           /\ "completed" \in Announced(r).sent => "completed" \in q[r].em.sent
<1>1. CASE Announced(r) = Created(q[r].em)
  BY <1>1, EmitterCreated
<1>2. CASE Announced(r) = q[r].em
  BY <1>2
<1> QED BY <1>1, <1>2 DEF Announced

LEMMA RunActions ==
    ASSUME NEW r, TaskInv(q[r]), RunRegularStream(r) \/ RunHarmonyStream(r) \/ PipelineFails(r)
    PROVE  Goes(r)
<1> DEFINE x == q[r]
           e == Announced(r)
<1>1. /\ Emitter(e) /\ Ragged(e) = Ragged(x.em) /\ e.message = x.em.message
      /\ "completed" \in e.sent => "completed" \in x.em.sent
  BY EmitterAnnounced DEF TaskInv, ItemsShown
<1>2. x.at = "run" /\ x.cut \in BOOLEAN /\ DOMAIN x = TaskFields
  BY DEF RunRegularStream, RunHarmonyStream, PipelineFails, Runs, TaskInv, TaskType
<1>3. CASE RunRegularStream(r)
  <2>1. PICK a \in Outputs : Step(r, Streaming(r, a))
    BY <1>3 DEF RunRegularStream
  <2>2. Unread(a) /\ a # <<>> /\ x.body.stream
    BY <1>3, FrontChunks DEF RunRegularStream, RegStream, Streams, B
  <2> HIDE DEF e
  <2>3. TaskInv([x EXCEPT !.at = "stream", !.iter = x.iter + 1, !.todo = a, !.said = <<>>, !.results = <<>>,
                          !.cut = x.cut, !.tracked = <<>>, !.em = e])
    BY <1>1, <1>2, <1>3, <2>2, TaskStreaming DEF RunRegularStream, RegStream, Harmony, B
  <2>4. Streaming(r, a) = [x EXCEPT !.at = "stream", !.iter = x.iter + 1, !.todo = a, !.said = <<>>,
                                    !.results = <<>>, !.cut = x.cut, !.tracked = <<>>, !.em = e]
    BY <1>2 DEF Streaming, TaskFields, e
  <2> QED BY <2>1, <2>3, <2>4 DEF Goes
<1>4. CASE RunHarmonyStream(r)
  <2> DEFINE f == [e EXCEPT !.message = NoItem]
  <2>1. PICK a \in Outputs : Step(r, [Streaming(r, a) EXCEPT !.em.message = NoItem])
    BY <1>4 DEF RunHarmonyStream
  <2>2. Unread(a) /\ a # <<>> /\ x.body.stream /\ x.body.harmony
    BY <1>4, FrontChunks DEF RunHarmonyStream, HarStream, Harmony, Streams, B
  <2> HIDE DEF e
  <2>3. Emitter(f) /\ Ragged(f) = Ragged(e) /\ f.sent = e.sent /\ f.message = NoItem
    BY <1>1, EmitterRestart DEF Emitter
  <2>4. [Streaming(r, a) EXCEPT !.em.message = NoItem]
           = [x EXCEPT !.at = "stream", !.iter = x.iter + 1, !.todo = a, !.said = <<>>,
                       !.results = <<>>, !.cut = x.cut, !.tracked = <<>>, !.em = f]
    BY <1>2 DEF Streaming, TaskFields, e
  <2> HIDE DEF f
  <2>5. TaskInv([x EXCEPT !.at = "stream", !.iter = x.iter + 1, !.todo = a, !.said = <<>>, !.results = <<>>,
                          !.cut = x.cut, !.tracked = <<>>, !.em = f])
    BY <1>1, <1>2, <2>2, <2>3, TaskStreaming
  <2> QED BY <2>1, <2>4, <2>5 DEF Goes
<1>5. CASE PipelineFails(r)
  <2>1. CASE RegStream(r)
    <3>1. Unread(<<>>) /\ x.body.stream
      BY <2>1 DEF RegStream, Streams, B, Unread
    <3> HIDE DEF e
    <3>2. TaskInv([x EXCEPT !.at = "stream", !.iter = x.iter + 1, !.todo = <<>>, !.said = <<>>, !.results = <<>>,
                            !.cut = TRUE, !.tracked = <<>>, !.em = e])
      BY <1>1, <1>2, <2>1, <3>1, TaskStreaming DEF RegStream, Harmony, B
    <3>3. [Streaming(r, <<>>) EXCEPT !.cut = TRUE]
             = [x EXCEPT !.at = "stream", !.iter = x.iter + 1, !.todo = <<>>, !.said = <<>>,
                         !.results = <<>>, !.cut = TRUE, !.tracked = <<>>, !.em = e]
      BY <1>2 DEF Streaming, TaskFields, e
    <3> QED BY <1>5, <2>1, <3>2, <3>3 DEF PipelineFails, Goes
  <2>2. CASE ~RegStream(r)
    BY <1>2, <1>5, <2>2, TaskFails DEF PipelineFails
  <2> QED BY <2>1, <2>2
<1> QED BY <1>3, <1>4, <1>5

LEMMA TaskAnswered ==
    ASSUME NEW x, TaskInv(x), x.at = "run", ~x.body.stream, NEW n, NEW a \in Seq(Chunks)
    PROVE  TaskInv([x EXCEPT !.at = "judge", !.iter = n, !.said = a, !.results = <<>>])
<1> DEFINE y == [x EXCEPT !.at = "judge", !.iter = n, !.said = a, !.results = <<>>]
<1>1. TaskType(y)
  BY DEF TaskInv, TaskType, TaskFields
<1>2. CallsFit(y) /\ CallsFed(y)
  <2>1. Count("called", x.input) \in Nat
    BY PlacesFinite DEF TaskInv, TaskType
  <2> QED BY <2>1 DEF TaskInv, TaskType, TaskFields, CallsFit, CallsFed
<1>3. ItemsShown(y)
  BY DEF TaskInv, TaskType, TaskFields, ItemsShown
<1> QED BY <1>1, <1>2, <1>3 DEF TaskInv

LEMMA SyncRunActions ==
    ASSUME NEW r, TaskInv(q[r]), RunRegularSync(r) \/ RunHarmonySync(r)
    PROVE  Goes(r)
<1>1. PICK a \in Outputs : Step(r, Answered(r, a))
  BY DEF RunRegularSync, RunHarmonySync
<1>2. q[r].at = "run" /\ ~q[r].body.stream
  BY DEF RunRegularSync, RunHarmonySync, Runs, RegSync, HarSync, Streams, B
<1>3. TaskInv(Answered(r, a))
  BY <1>2, FrontChunks, TaskAnswered DEF Answered
<1> QED BY <1>1, <1>3 DEF Goes
-----------------------------------------------------------------------------
(* Reading an answer. *)

LEMMA UnreadTail ==
    ASSUME NEW s, Unread(s), s # <<>>
    PROVE  /\ Unread(Tail(s)) /\ Head(s) \in Chunks /\ (Head(s) = "done" <=> Tail(s) = <<>>)
<1>1. s \in Seq(Chunks) /\ \A i \in 1..Len(s) : s[i] = "done" <=> i = Len(s)
  BY DEF Unread
<1>2. Len(s) \in Nat /\ Len(s) > 0 /\ Head(s) = s[1] /\ Head(s) \in Chunks
  BY <1>1
<1> DEFINE t == Tail(s)
<1>3. t \in Seq(Chunks) /\ Len(t) = Len(s) - 1 /\ \A i \in 1..Len(t) : t[i] = s[i + 1]
  BY <1>1, <1>2 DEF t
<1> HIDE DEF t
<1>4. ASSUME NEW i \in 1..Len(t) PROVE t[i] = "done" <=> i = Len(t)
  <2>1. i + 1 \in 1..Len(s) /\ i \in Nat /\ t[i] = s[i + 1]
    BY <1>2, <1>3, <1>4
  <2>2. s[i + 1] = "done" <=> i + 1 = Len(s)
    BY <1>1, <2>1
  <2> QED BY <1>2, <1>3, <2>1, <2>2
<1>5. 1 \in 1..Len(s)
  BY <1>2
<1>6. Head(s) = "done" <=> 1 = Len(s)
  BY <1>1, <1>2, <1>5
<1>7. CASE Len(s) = 1
  <2>1. Len(t) = 0
    BY <1>3, <1>7
  <2>2. t = <<>>
    BY <1>3, <2>1
  <2>3. Unread(t)
    BY <1>3, <1>4 DEF Unread
  <2> QED BY <1>2, <1>6, <1>7, <2>2, <2>3 DEF t
<1>8. CASE Len(s) # 1
  <2>1. Len(t) # 0
    BY <1>2, <1>3, <1>8
  <2>2. t # <<>>
    BY <2>1
  <2>3. Unread(t)
    BY <1>3, <1>4 DEF Unread
  <2> QED BY <1>2, <1>6, <1>8, <2>2, <2>3 DEF t
<1> QED BY <1>7, <1>8

\* The task has read a chunk; its emitter is e now.
LEMMA TaskReads ==
    ASSUME NEW x, TaskInv(x), x.at = "stream", x.body.stream, NEW todo, Unread(todo), NEW said \in Seq(Chunks),
           NEW tracked \in Seq(Nat), NEW unfinished, NEW e, Emitter(e), e.sent = x.em.sent,
           ~x.body.harmony => unfinished = {},
           ~x.cut /\ x.body.harmony =>
              IF todo # <<>> THEN Tied(e, ToSet(tracked), unfinished) ELSE Ragged(e) = unfinished,
           ~x.cut /\ ~x.body.harmony =>
              Ragged(e) \subseteq {e.message} /\ (todo = <<>> /\ Calls(said) = 0 => Ragged(e) = {})
    PROVE  TaskInv([x EXCEPT !.todo = todo, !.said = said, !.em = e, !.tracked = tracked, !.unfinished = unfinished])
<1> DEFINE y == [x EXCEPT !.todo = todo, !.said = said, !.em = e, !.tracked = tracked, !.unfinished = unfinished]
<1>1. TaskType(y)
  BY DEF TaskInv, TaskType, TaskFields
<1>2. CallsFit(y) /\ CallsFed(y)
  BY DEF TaskInv, TaskType, TaskFields, CallsFit, CallsFed
<1>3. ItemsShown(y)
  BY DEF TaskInv, TaskType, TaskFields, ItemsShown, HarmonyItems, RegularItems
<1> QED BY <1>1, <1>2, <1>3 DEF TaskInv

\* The regular streams track no calls.
LEMMA RegularTaskReads ==
    ASSUME NEW x, TaskInv(x), x.at = "stream", x.body.stream, ~x.body.harmony, NEW todo, Unread(todo),
           NEW said \in Seq(Chunks), NEW e, Emitter(e), e.sent = x.em.sent,
           ~x.cut => Ragged(e) \subseteq {e.message} /\ (todo = <<>> /\ Calls(said) = 0 => Ragged(e) = {})
    PROVE  TaskInv([x EXCEPT !.todo = todo, !.said = said, !.em = e])
<1>1. x.tracked \in Seq(Nat) /\ x.unfinished = {} /\ DOMAIN x = TaskFields
  BY DEF TaskInv, TaskType, ItemsShown
<1>2. TaskInv([x EXCEPT !.todo = todo, !.said = said, !.em = e, !.tracked = x.tracked, !.unfinished = x.unfinished])
  BY <1>1, TaskReads
<1>3. [x EXCEPT !.todo = todo, !.said = said, !.em = e, !.tracked = x.tracked, !.unfinished = x.unfinished]
         = [x EXCEPT !.todo = todo, !.said = said, !.em = e]
  BY <1>1 DEF TaskFields
<1> QED BY <1>2, <1>3

\* A chunk that is not the last is heard, the others end the stream.
LEMMA Accumulated ==
    ASSUME NEW r, NEW c, TaskInv(q[r]), q[r].at = "stream", q[r].todo # <<>>, c = Head(q[r].todo)
    PROVE  \E todo, said :
             /\ Accumulate(r, c) = [q[r] EXCEPT !.todo = todo, !.said = said]
             /\ Unread(todo) /\ said \in Seq(Chunks) /\ (todo = <<>> <=> c = "done")
             /\ c \in Chunks
<1> DEFINE s == q[r].todo
           said == IF c = "done" THEN q[r].said ELSE Append(q[r].said, c)
<1>1. Unread(s) /\ q[r].said \in Seq(Chunks)
  BY DEF TaskInv, TaskType
<1>2. Unread(Tail(s)) /\ c \in Chunks /\ (c = "done" <=> Tail(s) = <<>>)
  BY <1>1, UnreadTail
<1>3. said \in Seq(Chunks)
  BY <1>1, <1>2
<1>4. Accumulate(r, c) = [q[r] EXCEPT !.todo = Tail(s), !.said = said]
  BY DEF Accumulate
<1> QED BY <1>2, <1>3, <1>4

\* The regular stream keeps one message open.
LEMMA RegularReads ==
    ASSUME NEW r, NEW c, TaskInv(q[r]), q[r].at = "stream", q[r].todo # <<>>, c = Head(q[r].todo),
           ~Harmony(r), RegularChunk(r, c)
    PROVE  Goes(r)
<1> DEFINE x == q[r]
           e == x.em
<1>1. PICK todo, said : /\ Accumulate(r, c) = [x EXCEPT !.todo = todo, !.said = said]
                        /\ Unread(todo) /\ said \in Seq(Chunks) /\ (todo = <<>> <=> c = "done")
                        /\ c \in Chunks
  BY Accumulated
<1>2. /\ DOMAIN x = TaskFields /\ x.body.stream /\ ~x.body.harmony /\ Emitter(e) /\ x.cut \in BOOLEAN
      /\ ~x.cut => Ragged(e) \subseteq {e.message}
      /\ x.said \in Seq(Chunks) /\ "completed" \notin e.sent
  BY DEF TaskInv, TaskType, Harmony, B, ItemsShown, RegularItems
<1>3. CASE c = "text" /\ Step(r, [Accumulate(r, c) EXCEPT !.em = TextChunk(@)])
  <2> DEFINE f == TextChunk(e)
  <2>1. /\ Emitter(f) /\ f.sent = e.sent /\ Ragged(f) \subseteq Ragged(e) \cup {f.message}
        /\ e.message # NoItem => f.message = e.message
    BY <1>2, EmitterText
  <2>2. [Accumulate(r, c) EXCEPT !.em = TextChunk(@)] = [x EXCEPT !.todo = todo, !.said = said, !.em = f]
    BY <1>1, <1>2 DEF TaskFields
  <2> HIDE DEF f
  <2>3. ~x.cut => Ragged(f) \subseteq {f.message}
    BY <1>2, <2>1, RaggedPlaces
  <2>4. TaskInv([x EXCEPT !.todo = todo, !.said = said, !.em = f])
    BY <1>1, <1>2, <1>3, <2>1, <2>3, RegularTaskReads
  <2> QED BY <1>3, <2>2, <2>4 DEF Goes
<1>4. CASE c \in {"reasoning", "mcp", "fn"} /\ Step(r, Accumulate(r, c))
  <2>1. Accumulate(r, c) = [x EXCEPT !.todo = todo, !.said = said, !.em = e]
    BY <1>1, <1>2 DEF TaskFields
  <2>2. TaskInv([x EXCEPT !.todo = todo, !.said = said, !.em = e])
    BY <1>1, <1>2, <1>4, RegularTaskReads
  <2> QED BY <1>4, <2>1, <2>2 DEF Goes
<1>5. CASE c = "done" /\ FinishPanics(e) /\ Step(r, [x EXCEPT !.at = "end", !.answer = "panic", !.todo = <<>>])
  <2> DEFINE y == [x EXCEPT !.at = "end", !.answer = "panic", !.todo = <<>>]
  <2>1. TaskType(y)
    BY DEF TaskInv, TaskType, TaskFields
  <2>2. CallsFit(y) /\ CallsFed(y)
    BY DEF TaskInv, TaskType, TaskFields, CallsFit, CallsFed
  <2>3. ItemsShown(y)
    BY <1>2 DEF TaskInv, TaskType, TaskFields, ItemsShown, HarmonyItems, RegularItems, Unclosed
  <2> QED BY <1>5, <2>1, <2>2, <2>3 DEF TaskInv, Goes
<1>6. CASE c = "done" /\ ~FinishPanics(e) /\ Step(r, [x EXCEPT !.todo = <<>>, !.em = FinishChunk(e)])
  <2> DEFINE f == FinishChunk(e)
  <2>1. e.message \in 1..Len(e.items)
    BY <1>2, <1>6 DEF Emitter, FinishPanics, NoItem
  <2>2. Emitter(f) /\ f.sent = e.sent /\ Ragged(f) = Ragged(e) \ {e.message}
    <3>1. f = CloseItem(e, e.message)
      BY DEF FinishChunk
    <3> HIDE DEF f
    <3> DEFINE n == e.message
    <3>2. f = CloseItem(e, n) /\ n \in 1..Len(e.items)
      BY <2>1, <3>1
    <3> HIDE DEF n
    <3>3. Emitter(f) /\ f.sent = e.sent /\ Ragged(f) = Ragged(e) \ {n}
      BY <1>2, <3>2, EmitterClose
    <3> QED BY <3>3 DEF n
  <2>3. [x EXCEPT !.todo = <<>>, !.em = f] = [x EXCEPT !.todo = <<>>, !.said = x.said, !.em = f]
    BY <1>2 DEF TaskFields
  <2> HIDE DEF f
  <2>4. Unread(<<>>)
    BY DEF Unread
  <2>5. TaskInv([x EXCEPT !.todo = <<>>, !.said = x.said, !.em = f])
    BY <1>2, <2>2, <2>4, RegularTaskReads
  <2> QED BY <1>6, <2>3, <2>5 DEF Goes, f
<1>7. CASE c = "done" /\ Calls(x.said) > 0 /\ Step(r, [x EXCEPT !.todo = <<>>])
  <2>1. [x EXCEPT !.todo = <<>>] = [x EXCEPT !.todo = <<>>, !.said = x.said, !.em = e]
    BY <1>2 DEF TaskFields
  <2>2. Unread(<<>>) /\ Calls(x.said) # 0
    BY <1>2, <1>7, CallsType DEF Unread
  <2>3. TaskInv([x EXCEPT !.todo = <<>>, !.said = x.said, !.em = e])
    BY <1>2, <2>2, RegularTaskReads
  <2> QED BY <1>7, <2>1, <2>3 DEF Goes
<1> QED BY <1>3, <1>4, <1>5, <1>6, <1>7 DEF RegularChunk

\* Reasoning and text are not calls.
LEMMA HarmonyShows ==
    ASSUME NEW e, Emitter(e), NEW T, NEW U, NEW f,
           f = e \/ f = WholeItem(e, "reasoning") \/ f = TextChunk(e)
    PROVE  Emitter(f) /\ f.sent = e.sent /\ (Tied(e, T, U) => Tied(f, T, U))
<1>0. Ragged(e) \subseteq 1..Len(e.items) /\ NoItem \notin Ragged(e) /\ Len(e.items) \in Nat
  BY RaggedPlaces DEF Emitter
<1>1. CASE f = e
  BY <1>1
<1>2. CASE f = WholeItem(e, "reasoning")
  <2>1. /\ Emitter(f) /\ f.sent = e.sent /\ f.message = e.message /\ Len(f.items) = Len(e.items) + 1
        /\ Ragged(f) = Ragged(e)
    BY <1>2, EmitterWhole DEF ItemTypes
  <2> QED BY <1>0, <2>1 DEF Tied
<1>3. CASE f = TextChunk(e)
  <2>1. /\ Emitter(f) /\ f.sent = e.sent /\ Len(e.items) <= Len(f.items) /\ Len(f.items) \in Nat
        /\ Ragged(f) \subseteq Ragged(e) \cup {f.message} /\ Ragged(e) \subseteq Ragged(f)
        /\ (e.message # NoItem => f.message = e.message) /\ (e.message = NoItem => f.message = Len(e.items) + 1)
    BY <1>3, EmitterText DEF Emitter
  <2>2. ASSUME Tied(e, T, U) PROVE Tied(f, T, U)
    <3>1. T \subseteq 0..Len(f.items)
      BY <1>0, <2>1, <2>2 DEF Tied
    <3>2. Ragged(f) \subseteq T \cup {f.message} \cup U
      BY <1>0, <2>1, <2>2 DEF Tied
    <3>3. f.message \notin U
      BY <1>0, <2>1, <2>2 DEF Tied
    <3> QED BY <2>1, <2>2, <3>1, <3>2, <3>3 DEF Tied
  <2> QED BY <2>1, <2>2
<1> QED BY <1>1, <1>2, <1>3

\* A call is shown, and tracked or known to be unfinished.
LEMMA HarmonyOpens ==
    ASSUME NEW e, Emitter(e), NEW T, NEW U, NEW t \in ItemTypes
    PROVE  LET f == OpenItem(e, t)
               n == Len(e.items) + 1
           IN /\ Emitter(f) /\ f.sent = e.sent /\ n \in Nat
              /\ Tied(e, T, U) => Tied(f, T \cup {n}, U) /\ Tied(f, T, U \cup {n})
<1> DEFINE f == OpenItem(e, t)
           n == Len(e.items) + 1
           x == [type |-> t, status |-> "in_progress", data |-> "none", wire |-> "open"]
<1>1. OneMore(e, f, x)
  BY EmitterOpen
<1>2. ~IsWhole(x)
  BY DEF IsWhole
<1> HIDE DEF f, x
<1>3. Len(e.items) \in Nat /\ Len(f.items) = n /\ Ragged(f) = Ragged(e) \cup {n}
  BY <1>1, <1>2, OneMoreItems
<1>4. Emitter(f) /\ f.sent = e.sent /\ f.message = e.message /\ e.message \in 0..Len(e.items)
  BY <1>1 DEF OneMore, Emitter
<1>5. Ragged(e) \subseteq 1..Len(e.items)
  BY RaggedPlaces
<1>6. ASSUME Tied(e, T, U) PROVE Tied(f, T \cup {n}, U) /\ Tied(f, T, U \cup {n})
  <2>1. n \notin T /\ n \notin U /\ n # e.message /\ T \subseteq 0..n /\ n \in 0..n
    BY <1>3, <1>4, <1>5, <1>6 DEF Tied
  <2> QED BY <1>3, <1>4, <1>6, <2>1 DEF Tied
<1> QED BY <1>3, <1>4, <1>6 DEF f

\* A call that is not shown has no item.
LEMMA HarmonyHides ==
    ASSUME NEW e, Emitter(e), NEW T, NEW U, Tied(e, T, U) PROVE Tied(e, T \cup {NoItem}, U)
<1>1. NoItem \notin Ragged(e) /\ NoItem \in 0..Len(e.items)
  BY RaggedPlaces DEF Emitter, NoItem
<1> QED BY <1>1 DEF Tied

LEMMA ToSetAppend ==
    ASSUME NEW S, NEW s \in Seq(S), NEW v \in S
    PROVE  ToSet(Append(s, v)) = ToSet(s) \cup {v} /\ Append(s, v) \in Seq(S)
<1>1. /\ DOMAIN Append(s, v) = 1..(Len(s) + 1) /\ DOMAIN s = 1..Len(s) /\ Len(s) \in Nat
      /\ \A i \in 1..Len(s) : Append(s, v)[i] = s[i]
      /\ Append(s, v)[Len(s) + 1] = v
  OBVIOUS
<1>2. 1..(Len(s) + 1) = (1..Len(s)) \cup {Len(s) + 1}
  BY <1>1
<1> QED BY <1>1, <1>2 DEF ToSet

LEMMA HarmonyReads ==
    ASSUME NEW r, NEW c, TaskInv(q[r]), q[r].at = "stream", q[r].todo # <<>>, c = Head(q[r].todo),
           Harmony(r), HarmonyChunk(r, c)
    PROVE  Goes(r)
<1> DEFINE x == q[r]
           e == x.em
           T == ToSet(x.tracked)
           U == x.unfinished
<1>1. PICK todo, said : /\ Accumulate(r, c) = [x EXCEPT !.todo = todo, !.said = said]
                        /\ Unread(todo) /\ said \in Seq(Chunks) /\ (todo = <<>> <=> c = "done")
                        /\ c \in Chunks
  BY Accumulated
<1> DEFINE read(f, tr, un) ==
             [x EXCEPT !.todo = todo, !.said = said, !.em = f, !.tracked = tr, !.unfinished = un]
<1>2. /\ DOMAIN x = TaskFields /\ x.body.stream /\ x.body.harmony /\ Emitter(e) /\ x.cut \in BOOLEAN
      /\ ~x.cut => Tied(e, T, U)
      /\ x.tracked \in Seq(Nat)
  BY DEF TaskInv, TaskType, Harmony, B, ItemsShown, HarmonyItems
<1>3. ASSUME NEW f, Emitter(f), f.sent = e.sent, NEW tr \in Seq(Nat), NEW un, c # "done",
             ~x.cut => Tied(f, ToSet(tr), un)
      PROVE  TaskInv(read(f, tr, un))
  BY <1>1, <1>2, <1>3, TaskReads
<1>4. CASE c \in {"reasoning", "text"}
  <2>1. PICK f : /\ f = e \/ f = WholeItem(e, "reasoning") \/ f = TextChunk(e)
                 /\ Step(r, [Accumulate(r, c) EXCEPT !.em = f])
    <3>1. CASE c = "reasoning"
      <4>1. Step(r, [Accumulate(r, c) EXCEPT !.em = HarmonyReasoning(r, @)])
        BY <3>1 DEF HarmonyChunk, Halves
      <4>2. Accumulate(r, c).em = e
        BY <1>1, <1>2 DEF TaskFields
      <4> QED BY <4>1, <4>2 DEF HarmonyReasoning
    <3>2. CASE c = "text"
      <4>1. Step(r, [Accumulate(r, c) EXCEPT !.em = HarmonyText(@)])
        BY <3>2 DEF HarmonyChunk, Halves
      <4>2. Accumulate(r, c).em = e
        BY <1>1, <1>2 DEF TaskFields
      <4> QED BY <4>1, <4>2 DEF HarmonyText
    <3> QED BY <1>4, <3>1, <3>2
  <2>2. [Accumulate(r, c) EXCEPT !.em = f] = read(f, x.tracked, U)
    BY <1>1, <1>2, ZenonT(60) DEF TaskFields
  <2>3. Emitter(f) /\ f.sent = e.sent /\ (~x.cut => Tied(f, T, U))
    BY <1>2, <2>1, HarmonyShows
  <2>4. TaskInv(read(f, x.tracked, U))
    BY <1>2, <1>3, <1>4, <2>3
  <2> QED BY <2>1, <2>2, <2>4 DEF Goes
<1>5. CASE c \in {"mcp", "fn"} \cup Halves
  <2> DEFINE n == Newest(e) + 1
             f == OpenItem(e, CallType(c))
  <2>0. c # "done" /\ HarmonyCall(r, c)
    BY <1>5 DEF HarmonyChunk, Halves
  <2>1. /\ Emitter(f) /\ f.sent = e.sent /\ n \in Nat /\ NoItem \in Nat
        /\ ~x.cut => Tied(f, T \cup {n}, U) /\ Tied(f, T, U \cup {n})
    <3>1. CallType(c) \in ItemTypes
      BY DEF CallType, ItemTypes
    <3> DEFINE t == CallType(c)
    <3>2. t \in ItemTypes
      BY <3>1
    <3> HIDE DEF t
    <3>3. LET g == OpenItem(e, t) IN
             /\ Emitter(g) /\ g.sent = e.sent /\ Len(e.items) + 1 \in Nat
             /\ Tied(e, T, U) => Tied(g, T \cup {Len(e.items) + 1}, U) /\ Tied(g, T, U \cup {Len(e.items) + 1})
      BY <1>2, <3>2, HarmonyOpens
    <3> QED BY <1>2, <3>3 DEF t, Newest, NoItem
  <2>2. [Accumulate(r, c) EXCEPT !.em = OpenItem(@, CallType(c))] = [Accumulate(r, c) EXCEPT !.em = f]
    BY <1>1, <1>2 DEF TaskFields
  <2>3. \/ Step(r, read(f, Append(x.tracked, n), U))
        \/ Step(r, read(f, x.tracked, U \cup {n}))
        \/ Step(r, read(e, x.tracked, U))
        \/ Step(r, read(e, Append(x.tracked, NoItem), U))
    <3> HIDE DEF f, n
    <3> DEFINE shown == [Accumulate(r, c) EXCEPT !.em = f]
    <3>0. shown.tracked = x.tracked /\ shown.unfinished = U /\ Accumulate(r, c).tracked = x.tracked
      BY <1>1, <1>2 DEF TaskFields
    <3>6. ASSUME NEW tr PROVE [shown EXCEPT !.tracked = tr] = read(f, tr, U)
      BY <1>1, <1>2, ZenonT(60) DEF TaskFields
    <3>7. ASSUME NEW un PROVE [shown EXCEPT !.unfinished = un] = read(f, x.tracked, un)
      BY <1>1, <1>2, ZenonT(60) DEF TaskFields
    <3>8. ASSUME NEW tr PROVE [Accumulate(r, c) EXCEPT !.tracked = tr] = read(e, tr, U)
      BY <1>1, <1>2, ZenonT(60) DEF TaskFields
    <3> HIDE DEF shown, read
    <3>1. /\ [shown EXCEPT !.tracked = Append(@, n)] = read(f, Append(x.tracked, n), U)
          /\ [shown EXCEPT !.unfinished = @ \cup {n}] = read(f, x.tracked, U \cup {n})
      BY <3>0, <3>6, <3>7
    <3>2. /\ [Accumulate(r, c) EXCEPT !.tracked = x.tracked] = read(e, x.tracked, U)
          /\ [Accumulate(r, c) EXCEPT !.tracked = Append(x.tracked, NoItem)] = read(e, Append(x.tracked, NoItem), U)
          /\ Accumulate(r, c).tracked = x.tracked
      BY <3>0, <3>8
    <3>3. \/ Step(r, [shown EXCEPT !.tracked = Append(@, n)])
          \/ Step(r, [shown EXCEPT !.unfinished = @ \cup {n}])
          \/ Step(r, [Accumulate(r, c) EXCEPT !.tracked = IF c \in Halves THEN @ ELSE Append(@, NoItem)])
      BY <2>0, <2>2 DEF HarmonyCall, shown, n
    <3>4. CASE c \in Halves
      BY <3>1, <3>2, <3>3, <3>4
    <3>5. CASE c \notin Halves
      BY <3>1, <3>2, <3>3, <3>5
    <3> QED BY <3>4, <3>5
  <2> HIDE DEF f, n, read
  <2>4. TaskInv(read(f, Append(x.tracked, n), U))
    <3>1. Append(x.tracked, n) \in Seq(Nat) /\ ToSet(Append(x.tracked, n)) = T \cup {n}
      BY <1>2, <2>1, ToSetAppend
    <3> QED BY <1>3, <2>0, <2>1, <3>1
  <2>5. TaskInv(read(f, x.tracked, U \cup {n}))
    BY <1>2, <1>3, <2>0, <2>1
  <2>6. TaskInv(read(e, x.tracked, U))
    BY <1>2, <1>3, <2>0
  <2>7. TaskInv(read(e, Append(x.tracked, NoItem), U))
    <3>1. Append(x.tracked, NoItem) \in Seq(Nat) /\ ToSet(Append(x.tracked, NoItem)) = T \cup {NoItem}
      BY <1>2, <2>1, ToSetAppend
    <3>2. ~x.cut => Tied(e, T \cup {NoItem}, U)
      BY <1>2, HarmonyHides
    <3> QED BY <1>2, <1>3, <2>0, <3>1, <3>2
  <2> QED BY <2>3, <2>4, <2>5, <2>6, <2>7 DEF Goes
<1>6. CASE c = "done"
  <2> DEFINE which == (T \cup {e.message}) \ {NoItem}
             f == CloseAll(e, which)
  <2>1. Step(r, [Accumulate(r, c) EXCEPT !.em = f])
    BY <1>6 DEF HarmonyChunk, HarmonyComplete, Halves
  <2>2. Emitter(f) /\ f.sent = e.sent /\ Ragged(f) = Ragged(e) \ which
    BY <1>2, EmitterCloseAll
  <2> HIDE DEF f
  <2>3. ~x.cut => Ragged(f) = U
    BY <1>2, <2>2, RaggedPlaces DEF Tied
  <2>4. [Accumulate(r, c) EXCEPT !.em = f] = read(f, x.tracked, U)
    BY <1>1, <1>2, ZenonT(60) DEF TaskFields
  <2>5. TaskInv(read(f, x.tracked, U))
    BY <1>1, <1>2, <1>6, <2>2, <2>3, TaskReads
  <2> QED BY <2>1, <2>4, <2>5 DEF Goes
<1> QED BY <1>1, <1>4, <1>5, <1>6 DEF Chunks

LEMMA TaskJudges ==
    ASSUME NEW x, TaskInv(x), x.at = "stream", NEW cut \in BOOLEAN, NEW e, Emitter(e), e.sent = x.em.sent,
           cut \/ (x.todo = <<>> /\ cut = x.cut /\ e = x.em)
    PROVE  TaskInv([x EXCEPT !.at = "judge", !.todo = <<>>, !.cut = cut, !.em = e])
<1> DEFINE y == [x EXCEPT !.at = "judge", !.todo = <<>>, !.cut = cut, !.em = e]
<1>1. TaskType(y)
  BY DEF TaskInv, TaskType, TaskFields
<1>2. CallsFit(y) /\ CallsFed(y)
  BY DEF TaskInv, TaskType, TaskFields, CallsFit, CallsFed
<1>3. ItemsShown(y)
  BY DEF TaskInv, TaskType, TaskFields, ItemsShown, HarmonyItems, RegularItems
<1> QED BY <1>1, <1>2, <1>3 DEF TaskInv

\* Harmony makes a call of what it has of one.
LEMMA TaskTakesHalf ==
    ASSUME NEW r, TaskInv(q[r]), TakeHalf(r)
    PROVE  Goes(r)
<1> DEFINE x == q[r]
           n == Newest(x.em)
           e == CloseAll(x.em, {n})
           cut == x.cut \/ x.todo # <<>>
           said == Append(Front(x.said), Whole(Last(x.said)))
           y == [x EXCEPT !.at = "judge", !.todo = <<>>, !.cut = cut, !.said = said, !.tracked = <<n>>,
                          !.unfinished = x.unfinished \ {n}, !.em = e]
<1>0. /\ DOMAIN x = TaskFields /\ Emitter(x.em) /\ x.cut \in BOOLEAN /\ x.said \in Seq(Chunks)
      /\ x.at = "stream" /\ x.body.stream /\ x.body.harmony /\ "completed" \notin x.em.sent
  BY DEF TakeHalf, TaskInv, TaskType, ItemsShown, HarStream, Harmony, Streams, B
<1>1. Step(r, y)
  BY DEF TakeHalf
<1>2. Emitter(e) /\ e.sent = x.em.sent /\ Ragged(e) = Ragged(x.em) \ {n}
  BY <1>0, EmitterCloseAll
<1>3. <<n>> \in Seq(Nat)
  BY <1>0 DEF Newest, Emitter
<1>4. said \in Seq(Chunks)
  <2>1. x.said # <<>>
    BY DEF TakeHalf
  <2>2. Front(x.said) \in Seq(Chunks)
    BY <1>0, <2>1 DEF Front
  <2>3. Whole(Last(x.said)) \in Chunks
    BY DEF Whole, Chunks
  <2> QED BY <2>2, <2>3
<1>5. ~cut => Ragged(x.em) = x.unfinished
  BY <1>0 DEF TaskInv, ItemsShown, HarmonyItems
<1>6. cut \in BOOLEAN /\ (~cut => Ragged(e) = x.unfinished \ {n})
  BY <1>0, <1>2, <1>5
<1> HIDE DEF e, n, said, cut
<1>7. TaskType(y)
  BY <1>0, <1>3, <1>4, <1>6 DEF TaskInv, TaskType, TaskFields
<1>8. CallsFit(y) /\ CallsFed(y)
  BY <1>0 DEF TaskInv, TaskType, TaskFields, CallsFit, CallsFed
<1>9. ItemsShown(y)
  BY <1>0, <1>2, <1>6 DEF TaskInv, TaskType, TaskFields, ItemsShown, HarmonyItems
<1> QED BY <1>1, <1>7, <1>8, <1>9 DEF TaskInv, Goes

LEMMA StreamActions ==
    ASSUME NEW r, TaskInv(q[r]), Chunk(r) \/ SendFails(r) \/ StreamBreaks(r) \/ StreamEnds(r) \/ TakeHalf(r)
    PROVE  Goes(r)
<1> DEFINE x == q[r]
<1>1. CASE Chunk(r)
  BY <1>1, HarmonyReads, RegularReads DEF Chunk
<1>2. CASE SendFails(r)
  BY <1>2, TaskAborts DEF SendFails
<1>3. CASE StreamBreaks(r)
  BY <1>3, TaskFails DEF StreamBreaks
<1>4. CASE StreamEnds(r)
  <2>0. x.at = "stream" /\ Emitter(x.em) /\ x.cut \in BOOLEAN /\ DOMAIN x = TaskFields
    BY <1>4 DEF StreamEnds, TaskInv, TaskType, ItemsShown
  <2>1. CASE x.todo = <<>>
    <3>1. Step(r, [x EXCEPT !.at = "judge"])
      BY <1>4, <2>1 DEF StreamEnds
    <3>2. [x EXCEPT !.at = "judge"] = [x EXCEPT !.at = "judge", !.todo = <<>>, !.cut = x.cut, !.em = x.em]
      BY <2>0, <2>1 DEF TaskFields
    <3>3. TaskInv([x EXCEPT !.at = "judge", !.todo = <<>>, !.cut = x.cut, !.em = x.em])
      BY <2>0, <2>1, TaskJudges
    <3> QED BY <3>1, <3>2, <3>3 DEF Goes
  <2>2. CASE x.todo # <<>>
    <3> DEFINE e == IF Harmony(r) THEN HarmonyCut(r) ELSE x.em
    <3>1. Step(r, [x EXCEPT !.at = "judge", !.todo = <<>>, !.cut = TRUE, !.em = e])
      BY <1>4, <2>2 DEF StreamEnds
    <3>2. Emitter(e) /\ e.sent = x.em.sent
      BY <2>0, EmitterCloseAll DEF HarmonyCut
    <3> HIDE DEF e
    <3>3. TaskInv([x EXCEPT !.at = "judge", !.todo = <<>>, !.cut = TRUE, !.em = e])
      BY <2>0, <3>2, TaskJudges
    <3> QED BY <3>1, <3>3 DEF Goes
  <2> QED BY <2>1, <2>2
<1> QED BY <1>1, <1>2, <1>3, <1>4, TaskTakesHalf
-----------------------------------------------------------------------------
(* After a run. *)

LEMMA TaskCompletes ==
    ASSUME NEW x, TaskInv(x), x.at = "judge", x.body.stream, ~x.body.harmony,
           Calls(x.said) = 0 \/ Unclosed(x), NEW out \in Seq(ItemTypes), NEW e, Emitter(e), e.sent = x.em.sent,
           e.message = x.em.message, Ragged(e) = Ragged(x.em)
    PROVE  TaskInv([x EXCEPT !.at = "complete", !.out = out, !.em = e])
<1> DEFINE y == [x EXCEPT !.at = "complete", !.out = out, !.em = e]
<1>1. TaskType(y)
  BY DEF TaskInv, TaskType, TaskFields
<1>2. CallsFit(y) /\ CallsFed(y)
  BY DEF TaskInv, TaskType, TaskFields, CallsFit, CallsFed
<1>3. ItemsShown(y)
  BY DEF TaskInv, TaskType, TaskFields, ItemsShown, RegularItems, Unclosed
<1> QED BY <1>1, <1>2, <1>3 DEF TaskInv

LEMMA RegularStreamActions ==
    ASSUME NEW r, TaskInv(q[r]), RegularStreamSingle(r) \/ RegularStreamFinal(r)
    PROVE  Goes(r)
<1> DEFINE x == q[r]
<1>0. /\ DOMAIN x = TaskFields /\ x.at = "judge" /\ x.body.stream /\ ~x.body.harmony /\ Emitter(x.em)
      /\ x.said \in Seq(Chunks) /\ x.out \in Seq(ItemTypes)
  BY DEF RegularStreamSingle, RegularStreamFinal, Final, RegStream, Harmony, Streams, B, TaskInv, TaskType, ItemsShown
<1>1. CASE RegularStreamSingle(r)
  <2>1. Step(r, [x EXCEPT !.at = "complete", !.out = Converted(x.said)])
    BY <1>1 DEF RegularStreamSingle
  <2>2. Converted(x.said) \in Seq(ItemTypes)
    BY <1>0, ConvertedType
  <2>3. Calls(x.said) = 0 \/ Unclosed(x)
    <3>1. Calls(x.said) \in Nat
      BY <1>0, CallsType
    <3>2. x.body.servers = {}
      BY <1>1 DEF RegularStreamSingle, InLoop, B
    <3> QED BY <1>0, <3>1, <3>2 DEF Unclosed
  <2>4. [x EXCEPT !.at = "complete", !.out = Converted(x.said)]
           = [x EXCEPT !.at = "complete", !.out = Converted(x.said), !.em = x.em]
    BY <1>0 DEF TaskFields
  <2>5. TaskInv([x EXCEPT !.at = "complete", !.out = Converted(x.said), !.em = x.em])
    BY <1>0, <2>2, <2>3, TaskCompletes
  <2> QED BY <2>1, <2>4, <2>5 DEF Goes
<1>2. CASE RegularStreamFinal(r)
  <2> DEFINE e == IF "reasoning" \in ToSet(x.said) THEN WholeItem(x.em, "reasoning") ELSE x.em
  <2>1. Step(r, [x EXCEPT !.at = "complete", !.em = e]) /\ Calls(x.said) = 0
    BY <1>2 DEF RegularStreamFinal, Final
  <2>2. Emitter(e) /\ e.sent = x.em.sent /\ e.message = x.em.message /\ Ragged(e) = Ragged(x.em)
    <3>1. CASE e = x.em
      BY <1>0, <3>1
    <3>2. CASE e = WholeItem(x.em, "reasoning")
      BY <1>0, <3>2, EmitterWhole DEF ItemTypes
    <3> QED BY <3>1, <3>2
  <2> HIDE DEF e
  <2>3. [x EXCEPT !.at = "complete", !.em = e] = [x EXCEPT !.at = "complete", !.out = x.out, !.em = e]
    BY <1>0 DEF TaskFields
  <2>4. TaskInv([x EXCEPT !.at = "complete", !.out = x.out, !.em = e])
    BY <1>0, <2>1, <2>2, TaskCompletes
  <2> QED BY <2>1, <2>3, <2>4 DEF Goes
<1> QED BY <1>1, <1>2

LEMMA HarmonyCompletes ==
    ASSUME NEW r, TaskInv(q[r]), q[r].at \in {"judge", "complete"}, q[r].body.harmony, q[r].body.stream, NEW a,
           Step(r, [q[r] EXCEPT !.at = "end", !.answer = a, !.em = Completed(q[r].em)])
    PROVE  Goes(r)
<1> DEFINE x == q[r]
<1>0. Emitter(x.em) /\ x.cut \in BOOLEAN
  BY DEF TaskInv, TaskType, ItemsShown
<1>1. Emitter(Completed(x.em)) /\ Ragged(Completed(x.em)) = Ragged(x.em)
  BY <1>0, EmitterSent DEF Completed
<1>2. ~x.cut => Ragged(x.em) = x.unfinished
  BY <1>0 DEF TaskInv, ItemsShown, HarmonyItems
<1>3. TaskInv([x EXCEPT !.at = "end", !.answer = a, !.em = Completed(x.em)])
  BY <1>1, <1>2, TaskEnds
<1> QED BY <1>3 DEF Goes

LEMMA LimitActions ==
    ASSUME NEW r, TaskInv(q[r]), HarmonyStreamLimit(r) \/ RegularStreamLimit(r) \/ HarmonySendCompleted(r)
    PROVE  Goes(r)
<1> DEFINE x == q[r]
<1>0. DOMAIN x = TaskFields /\ Emitter(x.em) /\ x.cut \in BOOLEAN
  BY DEF TaskInv, TaskType, ItemsShown
<1>2. CASE HarmonyStreamLimit(r)
  <2>1. x.at = "judge" /\ x.body.harmony /\ x.body.stream
    BY <1>2 DEF HarmonyStreamLimit, AtLimit, HarStream, Harmony, Streams, B
  <2>2. Step(r, [x EXCEPT !.at = "end", !.answer = "incomplete", !.em = Completed(x.em)])
    BY <1>2 DEF HarmonyStreamLimit
  <2> QED BY <2>1, <2>2, HarmonyCompletes
<1>3. CASE HarmonySendCompleted(r)
  <2>1. x.at = "complete" /\ x.body.harmony /\ x.body.stream
    BY <1>3 DEF HarmonySendCompleted, Harmony, B, TaskInv, TaskType
  <2>2. Step(r, [x EXCEPT !.at = "end", !.answer = "ok", !.em = Completed(x.em)])
    BY <1>3 DEF HarmonySendCompleted
  <2> QED BY <2>1, <2>2, HarmonyCompletes
<1>4. CASE RegularStreamLimit(r)
  <2>1. Step(r, [x EXCEPT !.at = "end", !.answer = "incomplete"]) /\ x.at = "judge"
    BY <1>4 DEF RegularStreamLimit, AtLimit
  <2>2. "completed" \notin x.em.sent
    BY <2>1 DEF TaskInv, ItemsShown
  <2>3. [x EXCEPT !.at = "end", !.answer = "incomplete"] = [x EXCEPT !.at = "end", !.answer = "incomplete", !.em = x.em]
    BY <1>0 DEF TaskFields
  <2>4. TaskInv([x EXCEPT !.at = "end", !.answer = "incomplete", !.em = x.em])
    BY <1>0, <2>2, TaskEnds
  <2> QED BY <2>1, <2>3, <2>4 DEF Goes
<1> QED BY <1>2, <1>3, <1>4

(* The calls. *)

LEMMA TaskBeginsCalls ==
    ASSUME NEW x, TaskInv(x), x.at = "judge", NEW n \in Nat, x.executed + n <= Limit(x.body), NEW at,
           at = IF n = 0 THEN "functions" ELSE "call"
    PROVE  TaskInv([x EXCEPT !.at = at, !.pending = n])
<1> DEFINE y == [x EXCEPT !.at = at, !.pending = n]
<1>0. at \in {"functions", "call"} /\ (at = "call" => n > 0)
  OBVIOUS
<1>1. TaskType(y)
  BY <1>0 DEF TaskInv, TaskType, TaskFields
<1>2. CallsFit(y)
  BY <1>0 DEF TaskInv, TaskType, TaskFields, CallsFit
<1>3. CallsFed(y)
  BY <1>0 DEF TaskInv, TaskType, TaskFields, CallsFed
<1>4. ItemsShown(y)
  BY <1>0 DEF TaskInv, TaskType, TaskFields, ItemsShown, HarmonyItems, RegularItems
<1> QED BY <1>1, <1>2, <1>3, <1>4 DEF TaskInv

LEMMA TaskStartsCall ==
    ASSUME NEW x, TaskInv(x), x.at = "call", NEW e, Emitter(e), e.sent = x.em.sent, e.message = x.em.message,
           IF x.body.stream /\ ~x.body.harmony
             THEN Len(e.items) > 0 /\ Ragged(e) \subseteq Ragged(x.em) \cup {Len(e.items)}
             ELSE e = x.em
    PROVE  TaskInv([x EXCEPT !.at = "calling", !.executed = x.executed + 1, !.pending = x.pending - 1, !.em = e])
<1> DEFINE y == [x EXCEPT !.at = "calling", !.executed = x.executed + 1, !.pending = x.pending - 1, !.em = e]
<1>0. x.pending \in Nat /\ x.pending > 0 /\ x.executed \in Nat /\ x.executed + x.pending <= Limit(x.body)
      /\ Limit(x.body) \in Nat
  BY LimitType DEF TaskInv, TaskType, CallsFit
<1>1. TaskType(y)
  BY <1>0 DEF TaskInv, TaskType, TaskFields
<1>2. CallsFit(y)
  BY <1>0 DEF TaskInv, TaskType, TaskFields, CallsFit
<1>3. CallsFed(y)
  <2>1. Count("called", x.input) \in Nat /\ Len(x.results) \in Nat
    BY PlacesFinite DEF TaskInv, TaskType
  <2> QED BY <1>0, <2>1 DEF TaskInv, TaskType, TaskFields, CallsFed
<1>4. ItemsShown(y)
  BY DEF TaskInv, TaskType, TaskFields, ItemsShown, HarmonyItems, RegularItems
<1> QED BY <1>1, <1>2, <1>3, <1>4 DEF TaskInv

LEMMA TaskEndsCall ==
    ASSUME NEW x, TaskInv(x), x.at = "calling", NEW res \in Results, NEW e, Emitter(e), e.sent = x.em.sent,
           e.message = x.em.message, NEW at, at = IF x.pending = 0 THEN "functions" ELSE "call",
           IF x.body.stream /\ ~x.body.harmony THEN Ragged(e) = Ragged(x.em) \ {Len(x.em.items)} ELSE e = x.em
    PROVE  TaskInv([x EXCEPT !.at = at, !.results = Append(x.results, res), !.em = e])
<1> DEFINE y == [x EXCEPT !.at = at, !.results = Append(x.results, res), !.em = e]
<1>0. at \in {"functions", "call"} /\ (at = "call" => x.pending # 0)
  OBVIOUS
<1>1. TaskType(y)
  <2>1. Append(x.results, res) \in Seq(Results)
    BY DEF TaskInv, TaskType
  <2> QED BY <1>0, <2>1 DEF TaskInv, TaskType, TaskFields
<1>2. CallsFit(y)
  BY <1>0 DEF TaskInv, TaskType, TaskFields, CallsFit
<1>3. CallsFed(y)
  <2>1. Count("called", x.input) \in Nat /\ Len(x.results) \in Nat /\ Len(Append(x.results, res)) = Len(x.results) + 1
    BY PlacesFinite DEF TaskInv, TaskType
  <2> QED BY <1>0, <2>1 DEF TaskInv, TaskType, TaskFields, CallsFed
<1>4. ItemsShown(y)
  BY <1>0 DEF TaskInv, TaskType, TaskFields, ItemsShown, HarmonyItems, RegularItems
<1> QED BY <1>1, <1>2, <1>3, <1>4 DEF TaskInv

LEMMA CallActions ==
    ASSUME NEW r, TaskInv(q[r]),
           \/ BeginCalls(r) \/ StartCall(r) \/ ShowCall(r) \/ BadArguments(r)
           \/ RegularEndCall(r) \/ HarmonyEndCall(r) \/ ShowResult(r)
    PROVE  Goes(r)
<1> DEFINE x == q[r]
<1>0. DOMAIN x = TaskFields /\ Emitter(x.em) /\ x.said \in Seq(Chunks)
  BY DEF TaskInv, TaskType, ItemsShown
<1>1. CASE BeginCalls(r)
  <2> DEFINE n == OfServers(x.said)
             at == IF n = 0 THEN "functions" ELSE "call"
  <2>1. x.at = "judge" /\ Step(r, [x EXCEPT !.at = at, !.pending = n])
    BY <1>1 DEF BeginCalls
  <2>2. x.executed + n <= Limit(x.body) /\ n \in Nat
    <3>1. EffectiveLimit(r) = Limit(x.body)
      BY DEF EffectiveLimit, Limit, B
    <3>2. Limit(x.body) \in Nat /\ x.executed \in Nat /\ n \in Nat
      BY <1>0, LimitType, CallsType DEF TaskInv, TaskType
    <3>3. ~ (x.executed + n > Limit(x.body))
      BY <1>1, <3>1 DEF BeginCalls, OverLimit
    <3> QED BY <3>2, <3>3
  <2> HIDE DEF n
  <2>3. TaskInv([x EXCEPT !.at = at, !.pending = n])
    BY <2>1, <2>2, TaskBeginsCalls
  <2> QED BY <2>1, <2>3 DEF Goes
<1>2. CASE StartCall(r)
  <2>1. x.at = "call" /\ ~(x.body.stream /\ ~x.body.harmony)
    BY <1>2 DEF StartCall, RegStream, Harmony, Streams, B
  <2>2. Step(r, [x EXCEPT !.at = "calling", !.executed = x.executed + 1, !.pending = x.pending - 1])
    BY <1>2 DEF StartCall, Started
  <2>3. [x EXCEPT !.at = "calling", !.executed = x.executed + 1, !.pending = x.pending - 1]
           = [x EXCEPT !.at = "calling", !.executed = x.executed + 1, !.pending = x.pending - 1, !.em = x.em]
    BY <1>0 DEF TaskFields
  <2>4. TaskInv([x EXCEPT !.at = "calling", !.executed = x.executed + 1, !.pending = x.pending - 1, !.em = x.em])
    BY <1>0, <2>1, TaskStartsCall
  <2> QED BY <2>2, <2>3, <2>4 DEF Goes
<1>3. CASE ShowCall(r)
  <2> DEFINE e == OpenItem(x.em, "mcp_call")
  <2>1. x.at = "call" /\ x.body.stream /\ ~x.body.harmony
    BY <1>3 DEF ShowCall, RegStream, Harmony, Streams, B
  <2>2. Step(r, [x EXCEPT !.at = "calling", !.executed = x.executed + 1, !.pending = x.pending - 1, !.em = e])
    BY <1>0, <1>3 DEF ShowCall, Started, TaskFields
  <2>3. OneMore(x.em, e, [type |-> "mcp_call", status |-> "in_progress", data |-> "none", wire |-> "open"])
    BY <1>0, EmitterOpen DEF ItemTypes
  <2> HIDE DEF e
  <2>4. Emitter(e) /\ e.sent = x.em.sent /\ e.message = x.em.message
    BY <2>3 DEF OneMore
  <2>5. Len(e.items) > 0 /\ Ragged(e) \subseteq Ragged(x.em) \cup {Len(e.items)}
    BY <1>0, <2>3, OneMoreItems
  <2>6. TaskInv([x EXCEPT !.at = "calling", !.executed = x.executed + 1, !.pending = x.pending - 1, !.em = e])
    BY <2>1, <2>4, <2>5, TaskStartsCall
  <2> QED BY <2>2, <2>6 DEF Goes
<1>4. CASE BadArguments(r)
  BY <1>4, TaskFails DEF BadArguments
<1>5. CASE RegularEndCall(r) \/ HarmonyEndCall(r)
  <2> DEFINE at == IF x.pending = 0 THEN "functions" ELSE "call"
  <2>1. PICK res \in Results : Step(r, [x EXCEPT !.at = at, !.results = Append(x.results, res)])
    BY <1>5 DEF RegularEndCall, HarmonyEndCall, Concluded, Results
  <2>2. x.at = "calling" /\ ~(x.body.stream /\ ~x.body.harmony)
    BY <1>5 DEF RegularEndCall, HarmonyEndCall, RegSync, Harmony, Streams, B
  <2>3. [x EXCEPT !.at = at, !.results = Append(x.results, res)]
           = [x EXCEPT !.at = at, !.results = Append(x.results, res), !.em = x.em]
    BY <1>0 DEF TaskFields
  <2>4. TaskInv([x EXCEPT !.at = at, !.results = Append(x.results, res), !.em = x.em])
    BY <1>0, <2>2, TaskEndsCall
  <2> QED BY <2>1, <2>3, <2>4 DEF Goes
<1>6. CASE ShowResult(r)
  <2> DEFINE at == IF x.pending = 0 THEN "functions" ELSE "call"
             n == Len(x.em.items)
             e == CloseItem(x.em, n)
  <2>1. PICK res \in Results : Step(r, [x EXCEPT !.at = at, !.results = Append(x.results, res), !.em = e])
    BY <1>0, <1>6 DEF ShowResult, Concluded, Results, Newest, TaskFields
  <2>2. x.at = "calling" /\ x.body.stream /\ ~x.body.harmony
    BY <1>6 DEF ShowResult, RegStream, Harmony, Streams, B
  <2>3. n \in 1..Len(x.em.items)
    BY <1>0, <2>2 DEF TaskInv, ItemsShown, Emitter
  <2>4. Emitter(e) /\ e.sent = x.em.sent /\ e.message = x.em.message /\ Ragged(e) = Ragged(x.em) \ {n}
    <3> HIDE DEF n
    <3> QED BY <1>0, <2>3, EmitterClose
  <2> HIDE DEF e
  <2>5. TaskInv([x EXCEPT !.at = at, !.results = Append(x.results, res), !.em = e])
    BY <1>0, <2>2, <2>4, TaskEndsCall
  <2> QED BY <2>1, <2>5 DEF Goes
<1> QED BY <1>1, <1>2, <1>3, <1>4, <1>5, <1>6

\* The results of a run's calls, after the input it was given.
LEMMA NextInputs ==
    ASSUME NEW r, TaskInv(q[r]), q[r].at = "functions"
    PROVE  /\ NextInput(r) \in Seq(InputItems) /\ "own" \in ToSet(NextInput(r))
           /\ Count("called", NextInput(r)) = q[r].executed
           /\ HarmonyNextInput(r) \in Seq(InputItems) /\ "own" \in ToSet(HarmonyNextInput(r))
           /\ Count("called", HarmonyNextInput(r)) = q[r].executed
<1> DEFINE x == q[r]
           own == <<"own">>
           a == IF "reasoning" \in ToSet(x.said) THEN <<"reasoning">> ELSE <<>>
           b == IF "text" \in ToSet(x.said) THEN <<"message">> ELSE <<>>
           n == x.executed
           m == Len(x.results)
<1>1. /\ x.input \in Seq(InputItems) /\ n \in Nat /\ m \in Nat /\ "own" \in ToSet(x.input)
      /\ Count("called", x.input) + m = n
  BY DEF TaskInv, TaskType, CallsFed
<1>2. <<"reasoning">> \in Seq(InputItems) /\ <<"message">> \in Seq(InputItems) /\ <<>> \in Seq(InputItems)
      /\ own \in Seq(InputItems)
  BY SMT DEF InputItems, ItemTypes
<1>3. \A k \in Nat : Repeat("called", k) \in Seq(InputItems)
  BY DEF Repeat, InputItems
<1>4. a \in Seq(InputItems) /\ b \in Seq(InputItems)
  BY <1>2, Zenon
<1>5. Count("called", a) = 0 /\ Count("called", b) = 0 /\ Count("called", own) = 0
  <2>1. "reasoning" \in InputItems /\ "message" \in InputItems /\ "own" \in InputItems
    BY DEF InputItems, ItemTypes
  <2>2. Count("called", <<"reasoning">>) = 0 /\ Count("called", <<"message">>) = 0 /\ Count("called", <<"own">>) = 0
    BY <2>1, CountOne
  <2>3. Count("called", <<>>) = 0
    <3>1. \A i \in 1..Len(<<>>) : <<>>[i] # "called"
      OBVIOUS
    <3>2. \A s \in Seq(InputItems) : (\A i \in 1..Len(s) : s[i] # "called") => Count("called", s) = 0
      BY CountNone
    <3> QED BY <1>2, <3>1, <3>2
  <2> QED BY <2>2, <2>3
<1>6. \A k \in Nat : Count("called", Repeat("called", k)) = k
  BY CountRepeat
<1>7. /\ NextInput(r) = own \o Repeat("called", n)
      /\ HarmonyNextInput(r) = ((x.input \o a) \o b) \o Repeat("called", m)
  <2>1. NextInput(r) = own \o Repeat("called", n)
    BY DEF NextInput
  <2>2. HarmonyNextInput(r) = ((x.input \o a) \o b) \o Repeat("called", m)
    BY DEF HarmonyNextInput
  <2> QED BY <2>1, <2>2
<1>8. "own" \in ToSet(own)
  BY DEF ToSet
<1>9. ASSUME NEW s \in Seq(InputItems), NEW t \in Seq(InputItems), "own" \in ToSet(s)
      PROVE  s \o t \in Seq(InputItems) /\ "own" \in ToSet(s \o t)
  <2>1. PICK i \in DOMAIN s : s[i] = "own"
    BY <1>9 DEF ToSet
  <2>2. i \in DOMAIN (s \o t) /\ (s \o t)[i] = "own"
    BY <2>1
  <2> QED BY <2>2 DEF ToSet
<1> HIDE DEF a, b, n, m, own
<1> DEFINE s1 == x.input \o a
           s2 == s1 \o b
           s3 == s2 \o Repeat("called", m)
           t1 == own \o Repeat("called", n)
<1>10. t1 \in Seq(InputItems) /\ "own" \in ToSet(t1)
  BY <1>1, <1>2, <1>3, <1>8, <1>9
<1>11. Count("called", t1) = 0 + n
  <2>1. Count("called", t1) = Count("called", own) + Count("called", Repeat("called", n))
    BY <1>1, <1>2, <1>3, CountConcat
  <2> QED BY <1>1, <1>5, <1>6, <2>1
<1>12. s1 \in Seq(InputItems) /\ "own" \in ToSet(s1) /\ Count("called", s1) = Count("called", x.input) + 0
  <2>1. Count("called", s1) = Count("called", x.input) + Count("called", a)
    BY <1>1, <1>4, CountConcat
  <2> QED BY <1>1, <1>4, <1>5, <1>9, <2>1
<1> HIDE DEF s1
<1>13. s2 \in Seq(InputItems) /\ "own" \in ToSet(s2) /\ Count("called", s2) = Count("called", s1) + 0
  <2>1. Count("called", s2) = Count("called", s1) + Count("called", b)
    BY <1>12, <1>4, CountConcat
  <2> QED BY <1>12, <1>4, <1>5, <1>9, <2>1
<1> HIDE DEF s2
<1>14. s3 \in Seq(InputItems) /\ "own" \in ToSet(s3) /\ Count("called", s3) = Count("called", s2) + m
  <2>1. Count("called", s3) = Count("called", s2) + Count("called", Repeat("called", m))
    BY <1>13, <1>1, <1>3, CountConcat
  <2> QED BY <1>13, <1>1, <1>3, <1>6, <1>9, <2>1
<1>15. Count("called", x.input) \in Nat
  BY <1>1, PlacesFinite
<1>16. HarmonyNextInput(r) = s3 /\ NextInput(r) = t1
  BY <1>7 DEF s1, s2
<1> HIDE DEF s3, t1
<1>17. Count("called", s3) = n /\ Count("called", t1) = n
  BY <1>1, <1>11, <1>12, <1>13, <1>14, <1>15
<1> QED BY <1>10, <1>14, <1>16, <1>17 DEF n

LEMMA TaskRunsAgain ==
    ASSUME NEW x, TaskInv(x), x.at = "functions", NEW in \in Seq(InputItems), "own" \in ToSet(in),
           Count("called", in) = x.executed, NEW e, Emitter(e), e.sent = x.em.sent, e.message = x.em.message,
           Ragged(e) = Ragged(x.em), x.body.stream \/ e = x.em
    PROVE  TaskInv([x EXCEPT !.at = "run", !.input = in, !.em = e])
<1> DEFINE y == [x EXCEPT !.at = "run", !.input = in, !.em = e]
<1>1. TaskType(y)
  BY DEF TaskInv, TaskType, TaskFields
<1>2. CallsFit(y) /\ CallsFed(y)
  BY DEF TaskInv, TaskType, TaskFields, CallsFit, CallsFed
<1>3. ItemsShown(y)
  BY DEF TaskInv, TaskType, TaskFields, ItemsShown, HarmonyItems, RegularItems
<1> QED BY <1>1, <1>2, <1>3 DEF TaskInv

LEMMA NextRequestAction ==
    ASSUME NEW r, TaskInv(q[r]), NextRequest(r) PROVE Goes(r)
<1> DEFINE x == q[r]
<1>0. DOMAIN x = TaskFields /\ Emitter(x.em) /\ x.results \in Seq({"output", "failed"}) /\ x.at = "functions"
  BY DEF TaskInv, TaskType, ItemsShown, NextRequest, Results
<1>1. /\ NextInput(r) \in Seq(InputItems) /\ "own" \in ToSet(NextInput(r))
      /\ Count("called", NextInput(r)) = x.executed
      /\ HarmonyNextInput(r) \in Seq(InputItems) /\ "own" \in ToSet(HarmonyNextInput(r))
      /\ Count("called", HarmonyNextInput(r)) = x.executed
  BY <1>0, NextInputs
<1>2. CASE Harmony(r)
  <2> DEFINE e == IF Streams(r) THEN CallOutputs(x.em, CallItems(r), x.results) ELSE x.em
  <2>1. Step(r, [x EXCEPT !.at = "run", !.input = HarmonyNextInput(r), !.em = e])
    BY <1>2 DEF NextRequest
  <2>2. Emitter(e) /\ e.sent = x.em.sent /\ e.message = x.em.message /\ Ragged(e) = Ragged(x.em)
    <3>1. CASE e = x.em
      BY <1>0, <3>1
    <3>2. CASE e = CallOutputs(x.em, CallItems(r), x.results)
      BY <1>0, <3>2, EmitterOutputs
    <3> QED BY <3>1, <3>2
  <2>3. x.body.stream \/ e = x.em
    BY DEF Streams, B
  <2> HIDE DEF e
  <2>4. TaskInv([x EXCEPT !.at = "run", !.input = HarmonyNextInput(r), !.em = e])
    BY <1>0, <1>1, <2>2, <2>3, TaskRunsAgain
  <2> QED BY <2>1, <2>4 DEF Goes
<1>3. CASE ~Harmony(r)
  <2>1. Step(r, [x EXCEPT !.at = "run", !.input = NextInput(r)])
    BY <1>3 DEF NextRequest
  <2>2. [x EXCEPT !.at = "run", !.input = NextInput(r)] = [x EXCEPT !.at = "run", !.input = NextInput(r), !.em = x.em]
    BY <1>0 DEF TaskFields
  <2>3. TaskInv([x EXCEPT !.at = "run", !.input = NextInput(r), !.em = x.em])
    BY <1>0, <1>1, TaskRunsAgain
  <2> QED BY <2>1, <2>2, <2>3 DEF Goes
<1> QED BY <1>2, <1>3

LEMMA FunctionActions ==
    ASSUME NEW r, TaskInv(q[r]), HarmonyStreamFunctions(r) \/ RegularStreamFunctions(r) PROVE Goes(r)
<1> DEFINE x == q[r]
<1>0. /\ DOMAIN x = TaskFields /\ Emitter(x.em) /\ x.results \in Seq({"output", "failed"}) /\ x.at = "functions"
      /\ x.said \in Seq(Chunks) /\ x.cut \in BOOLEAN /\ x.body.stream
  BY DEF TaskInv, TaskType, ItemsShown, Results, HarmonyStreamFunctions, RegularStreamFunctions, ForCaller,
     HarStream, RegStream, Streams, B
<1>1. CASE HarmonyStreamFunctions(r)
  <2> DEFINE f == CallOutputs(x.em, CallItems(r), x.results)
             e == Completed(f)
  <2>1. Step(r, [x EXCEPT !.at = "end", !.answer = "ok", !.em = e])
    BY <1>1 DEF HarmonyStreamFunctions
  <2>2. Emitter(f) /\ Ragged(f) = Ragged(x.em)
    BY <1>0, EmitterOutputs
  <2> HIDE DEF f
  <2>3. Emitter(e) /\ Ragged(e) = Ragged(x.em)
    BY <2>2, EmitterSent DEF Completed
  <2>4. ~x.cut => Ragged(x.em) = x.unfinished
    BY <1>0, <1>1 DEF HarmonyStreamFunctions, HarStream, Harmony, Streams, B, TaskInv, ItemsShown, HarmonyItems
  <2> HIDE DEF e
  <2>5. TaskInv([x EXCEPT !.at = "end", !.answer = "ok", !.em = e])
    BY <1>0, <2>3, <2>4, TaskEnds
  <2> QED BY <2>1, <2>5 DEF Goes
<1>2. CASE RegularStreamFunctions(r)
  <2> DEFINE z == [type |-> "function_call", status |-> "completed", data |-> "done", wire |-> "closed"]
             n == OfCaller(x.said)
             e == WithFunctions(x.em, n)
  <2>1. Step(r, [x EXCEPT !.at = "end", !.answer = "ok", !.em = e])
    BY <1>2 DEF RegularStreamFunctions
  <2>2. z \in EmItems
    BY DEF EmItems, ItemTypes, IsWhole
  <2>3. n \in Nat
    BY <1>0, CallsType
  <2> HIDE DEF z, n
  <2>4. Repeat(z, n) \in Seq(EmItems)
    BY <2>2, <2>3 DEF Repeat
  <2>5. x.em.items \o Repeat(z, n) \in Seq(EmItems) /\ Len(x.em.items) <= Len(x.em.items \o Repeat(z, n))
    BY <1>0, <2>4 DEF Emitter
  <2>6. Emitter(e) /\ e.sent = x.em.sent
    <3>1. e = [x.em EXCEPT !.items = x.em.items \o Repeat(z, n)]
      BY DEF WithFunctions, z
    <3> HIDE DEF e
    <3> QED BY <1>0, <2>5, <3>1 DEF Emitter
  <2>7. "completed" \notin x.em.sent
    BY <1>0 DEF TaskInv, ItemsShown
  <2> HIDE DEF e
  <2>8. TaskInv([x EXCEPT !.at = "end", !.answer = "ok", !.em = e])
    BY <1>0, <2>6, <2>7, TaskEnds
  <2> QED BY <2>1, <2>8 DEF Goes
<1> QED BY <1>1, <1>2

LEMMA TaskSendsCompleted ==
    ASSUME NEW x, TaskInv(x), x.at = "complete", ~x.body.harmony, NEW at \in {"end", "store"}, NEW a
    PROVE  TaskInv([x EXCEPT !.at = at, !.answer = a, !.em = Completed(x.em)])
<1> DEFINE e == Completed(x.em)
           y == [x EXCEPT !.at = at, !.answer = a, !.em = e]
<1>0. /\ Emitter(e) /\ Ragged(e) = Ragged(x.em) /\ e.message = x.em.message /\ x.body.stream
      /\ Len(e.items) = Len(x.em.items)
  BY EmitterSent DEF Completed, TaskInv, TaskType, ItemsShown
<1> HIDE DEF e
<1>1. TaskType(y)
  BY DEF TaskInv, TaskType, TaskFields
<1>2. CallsFit(y) /\ CallsFed(y)
  BY DEF TaskInv, TaskType, TaskFields, CallsFit, CallsFed
<1>3. ItemsShown(y)
  BY <1>0 DEF TaskInv, TaskType, TaskFields, ItemsShown, RegularItems, Unclosed
<1> QED BY <1>1, <1>2, <1>3 DEF TaskInv, e

LEMMA TaskStops ==
    ASSUME NEW r, TaskInv(q[r]), q[r].at \in {"store", "link"}
    PROVE  TaskInv(Stop(r))
<1> DEFINE x == q[r]
           y == [x EXCEPT !.at = AfterStore(r), !.answer = "ok"]
<1>0. AfterStore(r) = IF x.body.stream /\ x.body.harmony THEN "complete" ELSE "end"
  BY DEF AfterStore, Streams, Harmony, B
<1>1. TaskType(y)
  BY <1>0 DEF TaskInv, TaskType, TaskFields
<1>2. CallsFit(y) /\ CallsFed(y)
  BY <1>0 DEF TaskInv, TaskType, TaskFields, CallsFit, CallsFed
<1>3. ItemsShown(y)
  BY <1>0 DEF TaskInv, TaskType, TaskFields, ItemsShown, HarmonyItems, RegularItems, Unclosed
<1> QED BY <1>1, <1>2, <1>3 DEF TaskInv, Stop

LEMMA TaskLinks ==
    ASSUME NEW x, TaskInv(x), x.at \in {"store", "link"}, NEW todo \in Seq(ItemTypes)
    PROVE  TaskInv([x EXCEPT !.at = "link", !.todo = todo])
<1> DEFINE y == [x EXCEPT !.at = "link", !.todo = todo]
<1>1. TaskType(y)
  BY DEF TaskInv, TaskType, TaskFields
<1>2. CallsFit(y) /\ CallsFed(y)
  BY DEF TaskInv, TaskType, TaskFields, CallsFit, CallsFed
<1>3. ItemsShown(y)
  BY DEF TaskInv, TaskType, TaskFields, ItemsShown, HarmonyItems, RegularItems, Unclosed
<1> QED BY <1>1, <1>2, <1>3 DEF TaskInv

LEMMA TaskAlone ==
    ASSUME NEW x, TaskInv(x) PROVE TaskInv([x EXCEPT !.gone = TRUE])
<1> DEFINE y == [x EXCEPT !.gone = TRUE]
<1>1. TaskType(y)
  BY DEF TaskInv, TaskType, TaskFields
<1>2. CallsFit(y) /\ CallsFed(y)
  BY DEF TaskInv, TaskType, TaskFields, CallsFit, CallsFed
<1>3. ItemsShown(y)
  BY DEF TaskInv, TaskType, TaskFields, ItemsShown, HarmonyItems, RegularItems, Unclosed
<1> QED BY <1>1, <1>2, <1>3 DEF TaskInv

LEMMA StoredMessage == ASSUME NEW out \in Seq(ItemTypes) PROVE <<"message">> \o out \in Seq(ItemTypes) /\ <<"message">> \in Seq(ItemTypes)
<1>1. <<"message">> \in Seq(ItemTypes)
  BY DEF ItemTypes
<1> QED BY <1>1

LEMMA EndActions ==
    ASSUME NEW r, TaskInv(q[r]), RegularSendCompleted(r) \/ StoreResponse(r) \/ LinkItem(r) \/ Leave(r)
    PROVE  Goes(r)
<1> DEFINE x == q[r]
<1>0. DOMAIN x = TaskFields /\ x.out \in Seq(ItemTypes)
  BY DEF TaskInv, TaskType
<1>1. CASE RegularSendCompleted(r)
  <2> DEFINE at == IF InLoop(r) THEN "end" ELSE "store"
             a == IF InLoop(r) THEN "ok" ELSE x.answer
  <2>1. x.at = "complete" /\ ~x.body.harmony /\ Step(r, [x EXCEPT !.at = at, !.answer = a, !.em = Completed(x.em)])
    BY <1>1 DEF RegularSendCompleted, Harmony, B
  <2>2. at \in {"end", "store"}
    OBVIOUS
  <2> HIDE DEF at, a
  <2>3. TaskInv([x EXCEPT !.at = at, !.answer = a, !.em = Completed(x.em)])
    BY <2>1, <2>2, TaskSendsCompleted
  <2> QED BY <2>1, <2>3 DEF Goes
<1>2. CASE StoreResponse(r)
  <2>1. x.at = "store" /\ (Step(r, Stop(r)) \/ Step(r, [x EXCEPT !.at = "link", !.todo = <<"message">> \o x.out]))
    BY <1>2 DEF StoreResponse
  <2>2. TaskInv([x EXCEPT !.at = "link", !.todo = <<"message">> \o x.out])
    BY <1>0, <2>1, StoredMessage, TaskLinks
  <2>3. TaskInv(Stop(r))
    BY <2>1, TaskStops
  <2> QED BY <2>1, <2>2, <2>3 DEF Goes
<1>3. CASE LinkItem(r)
  <2>1. x.at = "link" /\ (Step(r, Stop(r)) \/ (x.todo # <<>> /\ Step(r, [x EXCEPT !.todo = Tail(x.todo)])))
    BY <1>3 DEF LinkItem
  <2>2. TaskInv(Stop(r))
    BY <2>1, TaskStops
  <2>3. ASSUME x.todo # <<>> PROVE TaskInv([x EXCEPT !.todo = Tail(x.todo)])
    <3>1. Tail(x.todo) \in Seq(ItemTypes)
      BY <2>1, <2>3 DEF TaskInv, TaskType
    <3>2. [x EXCEPT !.todo = Tail(x.todo)] = [x EXCEPT !.at = "link", !.todo = Tail(x.todo)]
      BY <1>0, <2>1 DEF TaskFields
    <3>3. TaskInv([x EXCEPT !.at = "link", !.todo = Tail(x.todo)])
      BY <2>1, <3>1, TaskLinks
    <3> QED BY <3>2, <3>3
  <2> QED BY <2>1, <2>2, <2>3 DEF Goes
<1>4. CASE Leave(r)
  BY <1>4, TaskAlone, TaskAborts DEF Leave, Goes
<1> QED BY <1>1, <1>2, <1>3, <1>4

\* Every step of a task keeps its invariant.
LEMMA TaskAdvances ==
    ASSUME NEW r, StoresType, TaskInv(q[r]), Advance(r) \/ Leave(r)
    PROVE  Goes(r)
BY EntryActions, LoadActions, RunActions, SyncRunActions, StreamActions, StoreActions, RegularStreamActions,
   LimitActions, CallActions, NextRequestAction, FunctionActions, EndActions DEF Advance

\* The stores hold what parses, whoever writes.
LEMMA WithResponseType ==
    ASSUME StoresType, NEW r, NEW out \in Seq(ItemTypes), responses' = WithResponse(r, out),
           UNCHANGED conversation
    PROVE  StoresType' /\ DOMAIN responses' = DOMAIN responses \cup {r}
<1>1. <<"message">> \in Seq(ItemTypes)
  BY DEF ItemTypes
<1> QED BY <1>1 DEF StoresType, WithResponse

LEMMA ConversationGrows ==
    ASSUME StoresType, NEW i \in ItemTypes, conversation' = [conversation EXCEPT !.items = Append(@, i)],
           UNCHANGED responses
    PROVE  StoresType'
BY DEF StoresType

LEMMA StoreSteps ==
    ASSUME NEW r, StoresType, TaskInv(q[r]), Advance(r) \/ Leave(r)
    PROVE  StoresType' /\ DOMAIN responses \subseteq DOMAIN responses'
<1> DEFINE x == q[r]
<1>0. x.out \in Seq(ItemTypes) /\ (x.at = "link" => x.todo \in Seq(ItemTypes))
  BY DEF TaskInv, TaskType
<1>1. CASE UNCHANGED <<responses, conversation>>
  BY <1>1 DEF StoresType
<1>2. CASE StoreResponse(r)
  <2>1. UNCHANGED <<responses, conversation>> \/ (responses' = WithResponse(r, x.out) /\ UNCHANGED conversation)
    BY <1>2 DEF StoreResponse
  <2> QED BY <1>0, <1>1, <2>1, WithResponseType
<1>3. CASE LinkItem(r)
  <2>1. \/ UNCHANGED <<responses, conversation>>
        \/ /\ x.todo # <<>> /\ x.at = "link" /\ UNCHANGED responses
           /\ conversation' = [conversation EXCEPT !.items = Append(@, Head(x.todo))]
    BY <1>3 DEF LinkItem
  <2>2. x.todo # <<>> /\ x.at = "link" => Head(x.todo) \in ItemTypes
    BY <1>0
  <2> QED BY <1>1, <2>1, <2>2, ConversationGrows
<1>4. CASE EnsureConnection(r)
  BY <1>1, <1>4 DEF EnsureConnection
<1>5. CASE UNCHANGED Shared
  BY <1>1, <1>5 DEF Shared
<1> QED BY <1>2, <1>3, <1>4, <1>5 DEF Advance, Leave, Refuse, RouteResponses, HarmonyLoadChain, RegularLoadChain,
     LoadConversation, EnsureConnectionFails, SyncTools, RegularListTools, HarmonyListTools, ExceedIterations,
     RunRegularStream, RunHarmonyStream, RunRegularSync, RunHarmonySync, PipelineFails, Chunk, SendFails,
     StreamBreaks, StreamEnds, TakeHalf, RegularSyncSingle, HarmonySyncSingle, HarmonyStreamSingle, RegularStreamSingle,
     RegularSyncFinal, HarmonySyncFinal, HarmonyStreamFinal, RegularStreamFinal, HandBack, RegularSyncLimit,
     HarmonySyncLimit, HarmonyStreamLimit, RegularStreamLimit, BeginCalls, StartCall, ShowCall, BadArguments,
     RegularEndCall, HarmonyEndCall, ShowResult, HarmonySyncFunctions, HarmonyStreamFunctions,
     RegularStreamFunctions, NextRequest, HarmonySendCompleted, RegularSendCompleted

-----------------------------------------------------------------------------
(* The proxy router. *)

OGoes(r) == \E y : OStep(r, y) /\ ProxyInv(y, r \in DOMAIN responses')

\* y is x but for the fields F.
But(x, y, F) == DOMAIN y = OFields /\ \A f \in OFields \ F : y[f] = x[f]

Outcomes == {"ok", "failed", "cancelled"}
Ticks == {"ok", "failed"}

LEMMA HeardCounts ==
    /\ Good \in Seq(Ticks) /\ Failed \in Seq(Ticks) /\ Failed \o Failed \in Seq(Ticks) /\ <<>> \in Seq(Ticks)
    /\ Count("ok", Good) = 1 /\ Count("failed", Good) = 0
    /\ Count("ok", Failed) = 0 /\ Count("failed", Failed) = 1
    /\ Count("ok", Failed \o Failed) = 0 /\ Count("failed", Failed \o Failed) = 2
    /\ Count("ok", <<>>) = 0 /\ Count("failed", <<>>) = 0
<1>1. "ok" \in Ticks /\ "failed" \in Ticks
  BY DEF Ticks
<1>2. Good \in Seq(Ticks) /\ Failed \in Seq(Ticks) /\ <<>> \in Seq(Ticks)
  BY <1>1 DEF Good, Failed
<1>3. Count("ok", Good) = 1 /\ Count("failed", Good) = 0 /\ Count("ok", Failed) = 0 /\ Count("failed", Failed) = 1
  BY <1>1, CountOne DEF Good, Failed
<1>4. \A x : Count(x, Failed \o Failed) = Count(x, Failed) + Count(x, Failed)
  BY <1>2, CountConcat
<1>5. Failed \o Failed \in Seq(Ticks)
  BY <1>2
<1>6. ASSUME NEW x PROVE Count(x, <<>>) = 0
  <2>1. \A i \in 1..Len(<<>>) : <<>>[i] # x
    OBVIOUS
  <2>2. \A s \in Seq(Ticks) : (\A i \in 1..Len(s) : s[i] # x) => Count(x, s) = 0
    BY CountNone
  <2> QED BY <1>2, <2>1, <2>2
<1> QED BY <1>2, <1>3, <1>4, <1>5, <1>6

\* How an exchange and what is heard of it change the counts.
Counted(ex, tk, out, heard, ended, told) ==
    /\ ended \in Seq(Outcomes) /\ told \in Seq(Ticks)
    /\ \A v : /\ Count(v, ex) \in Nat /\ Count(v, tk) \in Nat /\ Count(v, heard) \in Nat
              /\ Count(v, ended) = Count(v, ex) + (IF v = out THEN 1 ELSE 0)
              /\ Count(v, told) = Count(v, tk) + Count(v, heard)

LEMMA ExchangeCounts ==
    ASSUME NEW ex \in Seq(Outcomes), NEW tk \in Seq(Ticks), NEW out \in Outcomes, NEW heard \in Seq(Ticks)
    PROVE  Counted(ex, tk, out, heard, Append(ex, out), tk \o heard)
<1>1. Append(ex, out) \in Seq(Outcomes) /\ tk \o heard \in Seq(Ticks)
  OBVIOUS
<1>2. \A v : Count(v, ex) \in Nat /\ Count(v, tk) \in Nat /\ Count(v, heard) \in Nat
  BY PlacesFinite
<1>3. \A v : Count(v, Append(ex, out)) = Count(v, ex) + (IF v = out THEN 1 ELSE 0)
  BY CountAppend
<1>4. \A v : Count(v, tk \o heard) = Count(v, tk) + Count(v, heard)
  BY CountConcat
<1> QED BY <1>1, <1>2, <1>3, <1>4 DEF Counted

LEMMA SeenSeqs ==
    ASSUME NEW x, NEW kept, ProxyInv(x, kept)
    PROVE  /\ DOMAIN x = OFields /\ x.exchanges \in Seq(Outcomes) /\ x.ticks \in Seq(Ticks)
           /\ \A v : Count(v, x.exchanges) \in Nat /\ Count(v, x.ticks) \in Nat
<1>1. DOMAIN x = OFields /\ x.exchanges \in Seq(Outcomes) /\ x.ticks \in Seq(Ticks)
  BY DEF ProxyInv, ProxyType, Outcomes, Ticks
<1>2. \A v : Count(v, x.exchanges) \in Nat /\ Count(v, x.ticks) \in Nat
  BY <1>1, PlacesFinite
<1> QED BY <1>1, <1>2

LEMMA SameShown ==
    ASSUME NEW x, NEW y, y.items = x.items PROVE OpenShown(y) = OpenShown(x) /\ CallsShown(y) = CallsShown(x)
BY DEF OpenShown, CallsShown

\* A request that is over.
LEMMA ProxyEnds ==
    ASSUME NEW x, NEW kept, ProxyInv(x, kept), NEW y,
           But(x, y, {"at", "answer", "exchanges", "ticks", "sent", "made", "stored"}), y.at = "end",
           y.exchanges \in Seq(Outcomes), y.ticks \in Seq(Ticks), y.made \in Nat, y.made <= x.total, Heard(y),
           StoredRight(y, kept), "completed" \in y.sent => "completed" \in x.sent, y.made = x.made \/ "completed" \notin x.sent
    PROVE  ProxyInv(y, kept)
<1>1. ProxyType(y)
  BY DEF ProxyInv, ProxyType, But, OFields, Early, Outcomes, Ticks
<1>2. ToolsFit(y) /\ ToolsFed(y)
  BY DEF ProxyInv, ProxyType, ToolsFit, ToolsFed, But, OFields
<1>3. StreamShown(y)
  <2>1. /\ y.items = x.items /\ y.next = x.next /\ y.body = x.body /\ y.cut = x.cut
        /\ OpenShown(y) = OpenShown(x) /\ CallsShown(y) = CallsShown(x)
    BY SameShown DEF But, OFields
  <2> QED BY <2>1 DEF ProxyInv, StreamShown, Early
<1> QED BY <1>1, <1>2, <1>3 DEF ProxyInv

\* The entry: nothing shown, called or stored so far.
LEMMA ProxyEnters ==
    ASSUME NEW x, NEW kept, ProxyInv(x, kept), x.at \in Early, NEW y, But(x, y, {"at", "input", "active"}),
           y.at \in Early \cup {"send"}, y.at \in Early => ~y.active, y.active \in BOOLEAN, y.input \in Seq(InputItems),
           y.at \in {"conversation", "connect"} \/ (y.at = "send" /\ y.active) =>
              "own" \in ToSet(y.input) /\ Count("called", y.input) = 0
    PROVE  ProxyInv(y, kept)
<1>1. ProxyType(y)
  BY DEF ProxyInv, ProxyType, But, OFields, Early
<1>2. Heard(y) /\ StoredRight(y, kept)
  BY DEF ProxyInv, ProxyType, Heard, StoredRight, But, OFields, Early
<1>3. ToolsFit(y) /\ ToolsFed(y)
  BY DEF ProxyInv, ProxyType, ToolsFit, ToolsFed, But, OFields, Early
<1>4. StreamShown(y)
  <2>1. /\ y.items = x.items /\ y.next = x.next /\ y.body = x.body /\ y.cut = x.cut /\ y.sent = x.sent
        /\ y.pending = x.pending /\ y.made = x.made
        /\ OpenShown(y) = OpenShown(x) /\ CallsShown(y) = CallsShown(x)
    BY SameShown DEF But, OFields
  <2>2. "completed" \notin x.sent /\ (x.body.stream => Interception(x))
    BY DEF ProxyInv, StreamShown, Early
  <2>3. x.body.stream => Interception(y)
    BY <2>1, <2>2 DEF Interception, Early
  <2> QED BY <2>1, <2>2, <2>3 DEF ProxyInv, StreamShown
<1> QED BY <1>1, <1>2, <1>3, <1>4 DEF ProxyInv

\* A request that ends before anything is stored, without another exchange ...
LEMMA ProxyDrops ==
    ASSUME NEW x, NEW kept, ProxyInv(x, kept), x.at \notin {"store", "link", "end"}, NEW y,
           But(x, y, {"at", "answer", "sent"}), y.at = "end", "completed" \in y.sent => "completed" \in x.sent,
           ~x.body.chat /\ x.body.stream /\ x.begun => x.active
    PROVE  ProxyInv(y, kept)
<1>1. /\ y.exchanges = x.exchanges /\ y.ticks = x.ticks /\ y.body = x.body /\ y.made = x.made /\ y.stored = x.stored
      /\ y.begun = x.begun /\ y.active = x.active
  BY DEF But, OFields
<1>2. But(x, y, {"at", "answer", "exchanges", "ticks", "sent", "made", "stored"})
  BY DEF But
<1>3. x.made \in Nat /\ x.made <= x.total /\ x.exchanges \in Seq(Outcomes) /\ x.ticks \in Seq(Ticks)
  BY SeenSeqs DEF ProxyInv, ProxyType, ToolsFit
<1>4. Heard(y)
  BY <1>1 DEF ProxyInv, Heard
<1>5. StoredRight(y, kept)
  BY <1>1 DEF ProxyInv, StoredRight
<1> QED BY <1>1, <1>2, <1>3, <1>4, <1>5, ProxyEnds

\* ... and with one.
LEMMA ProxyQuits ==
    ASSUME NEW x, NEW kept, ProxyInv(x, kept), x.at \notin {"store", "link", "end"}, NEW y,
           But(x, y, {"at", "answer", "sent", "exchanges", "ticks"}), y.at = "end",
           "completed" \in y.sent => "completed" \in x.sent,
           NEW out \in Outcomes, NEW heard \in Seq(Ticks), y.exchanges = Append(x.exchanges, out), y.ticks = x.ticks \o heard,
           out = "failed" => Count("failed", heard) > 0, IF out = "ok" THEN Count("ok", heard) = 1 ELSE Count("ok", heard) = 0,
           ~x.body.chat /\ x.body.stream /\ (x.body.store \/ x.body.conv) /\ x.begun => x.active \/ out = "failed"
    PROVE  ProxyInv(y, kept)
<1>1. /\ y.body = x.body /\ y.made = x.made /\ y.stored = x.stored /\ y.begun = x.begun /\ y.active = x.active
  BY DEF But, OFields
<1>2. But(x, y, {"at", "answer", "exchanges", "ticks", "sent", "made", "stored"})
  BY DEF But
<1>3. x.made \in Nat /\ x.made <= x.total /\ x.exchanges \in Seq(Outcomes) /\ x.ticks \in Seq(Ticks)
  BY SeenSeqs DEF ProxyInv, ProxyType, ToolsFit
<1>4. /\ y.exchanges \in Seq(Outcomes) /\ y.ticks \in Seq(Ticks)
      /\ \A v : /\ Count(v, x.exchanges) \in Nat /\ Count(v, x.ticks) \in Nat /\ Count(v, heard) \in Nat
                /\ Count(v, y.exchanges) = Count(v, x.exchanges) + (IF v = out THEN 1 ELSE 0)
                /\ Count(v, y.ticks) = Count(v, x.ticks) + Count(v, heard)
  <2>1. Counted(x.exchanges, x.ticks, out, heard, y.exchanges, y.ticks)
    BY <1>3, ExchangeCounts
  <2> QED BY <2>1 DEF Counted
<1>5. Heard(y)
  BY <1>1, <1>4 DEF ProxyInv, Heard
<1>6. StoredRight(y, kept)
  BY <1>1, <1>4 DEF ProxyInv, StoredRight
<1> QED BY <1>1, <1>2, <1>3, <1>4, <1>5, <1>6, ProxyEnds

LEMMA ExchangedFields ==
    ASSUME NEW x, DOMAIN x = OFields, NEW out, NEW heard
    PROVE  /\ But(x, Exchanged(x, out, heard), {"exchanges", "ticks"})
           /\ Exchanged(x, out, heard).exchanges = Append(x.exchanges, out)
           /\ Exchanged(x, out, heard).ticks = x.ticks \o heard
BY DEF Exchanged, But, OFields

LEMMA OEndFields ==
    ASSUME NEW x, DOMAIN x = OFields, NEW a
    PROVE  But(x, OEnd(x, a), {"at", "answer"}) /\ OEnd(x, a).at = "end"
BY DEF OEnd, But, OFields

LEMMA SentFields ==
    ASSUME NEW x, DOMAIN x = OFields, NEW v
    PROVE  But(x, Sent(x, v), {"sent"}) /\ Sent(x, v).sent = x.sent \cup {v}
BY DEF Sent, But, OFields

LEMMA ButTrans ==
    ASSUME NEW x, NEW y, NEW z, NEW F, NEW G, But(x, y, F), But(y, z, G) PROVE But(x, z, F \cup G)
BY DEF But

LEMMA OPastTypes ==
    ASSUME StoresType, NEW id PROVE OChain(id) \in Seq(ItemTypes) /\ OPast \in Seq(ItemTypes)
<1>1. Chain(id) \in Seq(ItemTypes)
  BY ChainType
<1>2. OChain(id) \in Seq(ItemTypes)
  <2> DEFINE s == Chain(id)
             K == {i \in DOMAIN s : s[i] # "reasoning"}
  <2>1. OChain(id) = Keep(s, K)
    BY DEF OChain
  <2> HIDE DEF s
  <2>2. s \in Seq(ItemTypes) /\ K \subseteq 1..Len(s)
    BY <1>1 DEF s
  <2> HIDE DEF K
  <2> QED BY <2>1, <2>2, KeepTaken
<1>3. OPast \in Seq(ItemTypes)
  BY KeepTaken DEF OPast, StoresType
<1> QED BY <1>2, <1>3

LEMMA OEntryActions ==
    ASSUME NEW r, StoresType, ProxyInv(o[r], r \in DOMAIN responses),
           \/ SelectWorkerForModel(r) \/ RefreshExternalModels(r) \/ OLoadChain(r) \/ OLoadConversation(r)
           \/ RefusePayload(r) \/ OConnect(r)
    PROVE  OGoes(r)
<1> DEFINE x == o[r]
           kept == r \in DOMAIN responses
<1>0. DOMAIN x = OFields /\ UNCHANGED responses /\ x.at \in Early
  BY DEF SelectWorkerForModel, RefreshExternalModels, OLoadChain, OLoadConversation, RefusePayload, OConnect, OShared, Early,
     ProxyInv, ProxyType
<1>1. x.active = FALSE /\ x.input \in Seq(InputItems) /\ ~x.begun /\ x.made = 0
  BY <1>0 DEF ProxyInv, ProxyType
<1>2. ASSUME NEW y, OStep(r, y), ProxyInv(y, kept) PROVE OGoes(r)
  BY <1>0, <1>2 DEF OGoes
<1>20. OChain(OB(r).prev) \in Seq(ItemTypes) /\ OPast \in Seq(ItemTypes) /\ <<>> \in Seq(ItemTypes)
  BY OPastTypes
<1>3. CASE SelectWorkerForModel(r) \/ RefreshExternalModels(r) \/ RefusePayload(r)
  <2>1. PICK at \in {"send", "load", "refresh", "end"} :
           \/ at # "end" /\ OStep(r, [x EXCEPT !.at = at])
           \/ at = "end" /\ OStep(r, OEnd(x, "error"))
    BY <1>3 DEF SelectWorkerForModel, RefreshExternalModels, RefusePayload, Chosen
  <2>2. CASE at # "end"
    <3> DEFINE y == [x EXCEPT !.at = at]
    <3>1. But(x, y, {"at", "input", "active"}) /\ y.at \in Early \cup {"send"} /\ y.at = at /\ y.active = x.active /\ y.input = x.input
      BY <1>0, <2>2 DEF But, OFields, Early
    <3> HIDE DEF y
    <3>2. ProxyInv(y, kept)
      BY <1>0, <1>1, <2>2, <3>1, ProxyEnters
    <3> QED BY <1>2, <2>1, <2>2, <3>2 DEF y
  <2>3. CASE at = "end"
    <3> DEFINE y == OEnd(x, "error")
    <3>1. But(x, y, {"at", "answer"}) /\ y.at = "end"
      BY <1>0, OEndFields
    <3> HIDE DEF y
    <3>2. But(x, y, {"at", "answer", "sent"}) /\ y.sent = x.sent
      BY <3>1 DEF But, OFields
    <3>3. ProxyInv(y, kept)
      BY <1>0, <1>1, <3>1, <3>2, ProxyDrops DEF Early
    <3> QED BY <1>2, <2>1, <2>3, <3>3 DEF y
  <2> QED BY <2>2, <2>3
<1>4. ASSUME NEW at \in {"conversation", "connect"}, NEW past \in Seq(InputItems), NoResult(past),
             OStep(r, [x EXCEPT !.at = at, !.input = past \o <<"own">>])
      PROVE  OGoes(r)
  <2> DEFINE in == past \o <<"own">>
             y == [x EXCEPT !.at = at, !.input = in]
  <2>1. in \in Seq(InputItems) /\ Count("called", in) = 0 /\ "own" \in ToSet(in)
    BY <1>4, OwnLast
  <2> HIDE DEF in
  <2>2. But(x, y, {"at", "input", "active"}) /\ y.at \in Early /\ y.active = x.active /\ y.input = in
    BY <1>0, <1>4 DEF But, OFields, Early
  <2>3. OStep(r, y)
    BY <1>4 DEF in
  <2> HIDE DEF y
  <2>4. ProxyInv(y, kept)
    BY <1>0, <1>1, <2>1, <2>2, ProxyEnters DEF Early
  <2> QED BY <1>2, <2>3, <2>4
<1>5. CASE OLoadChain(r)
  <2> DEFINE at == IF OB(r).conv THEN "conversation" ELSE "connect"
  <2>1. PICK past \in {OChain(OB(r).prev), <<>>} : OStep(r, [x EXCEPT !.at = at, !.input = past \o <<"own">>])
    BY <1>5 DEF OLoadChain
  <2>2. past \in Seq(ItemTypes)
    BY <2>1, <1>20
  <2>3. past \in Seq(InputItems) /\ NoResult(past)
    BY <2>2, NoResultStored
  <2>4. at \in {"conversation", "connect"}
    OBVIOUS
  <2> HIDE DEF at
  <2> QED BY <1>4, <2>1, <2>3, <2>4
<1>6. CASE OLoadConversation(r)
  <2>0. x.at = "conversation"
    BY <1>6 DEF OLoadConversation
  <2>1. CASE OStep(r, OEnd(x, "error"))
    <3> DEFINE y == OEnd(x, "error")
    <3>1. But(x, y, {"at", "answer"}) /\ y.at = "end"
      BY <1>0, OEndFields
    <3> HIDE DEF y
    <3>2. But(x, y, {"at", "answer", "sent"}) /\ y.sent = x.sent
      BY <3>1 DEF But, OFields
    <3>3. ProxyInv(y, kept)
      BY <1>0, <1>1, <3>1, <3>2, ProxyDrops DEF Early
    <3> QED BY <1>2, <2>1, <3>3 DEF y
  <2>2. CASE \E past \in {OPast, <<>>} :
               OStep(r, [x EXCEPT !.at = "connect", !.input = Front(x.input) \o past \o <<"own">>])
    <3>1. PICK past \in {OPast, <<>>} :
               OStep(r, [x EXCEPT !.at = "connect", !.input = (Front(x.input) \o past) \o <<"own">>])
      BY <2>2
    <3>2. past \in Seq(ItemTypes)
      BY <3>1, <1>20
    <3>3. past \in Seq(InputItems) /\ NoResult(past)
      BY <3>2, NoResultStored
    <3>4. Count("called", x.input) = 0
      BY <1>1, <2>0 DEF ProxyInv, ToolsFed
    <3>5. Front(x.input) \in Seq(InputItems) /\ NoResult(Front(x.input))
      BY <1>1, <3>4, NoResultFront
    <3> DEFINE all == Front(x.input) \o past
    <3>6. all \in Seq(InputItems) /\ NoResult(all)
      BY <3>3, <3>5, NoResultConcat
    <3>7. OStep(r, [x EXCEPT !.at = "connect", !.input = all \o <<"own">>])
      BY <3>1
    <3> HIDE DEF all
    <3> QED BY <1>4, <3>6, <3>7
  <2> QED BY <1>6, <2>1, <2>2 DEF OLoadConversation
<1>7. CASE OConnect(r)
  <2>1. PICK up : OStep(r, [x EXCEPT !.at = "send", !.active = up # {}])
    BY <1>7 DEF OConnect
  <2> DEFINE y == [x EXCEPT !.at = "send", !.active = up # {}]
  <2>2. But(x, y, {"at", "input", "active"}) /\ y.at = "send" /\ y.active \in BOOLEAN /\ y.input = x.input
    BY <1>0 DEF But, OFields
  <2>3. "own" \in ToSet(x.input) /\ Count("called", x.input) = 0
    BY <1>1, <1>7 DEF OConnect, ProxyInv, ToolsFed
  <2> HIDE DEF y
  <2>4. ProxyInv(y, kept)
    BY <1>0, <1>1, <2>2, <2>3, ProxyEnters DEF Early
  <2> QED BY <1>2, <2>1, <2>4 DEF y
<1> QED BY <1>3, <1>5, <1>6, <1>7

LEMMA OQuits ==
    ASSUME NEW r, ProxyInv(o[r], r \in DOMAIN responses), UNCHANGED responses, o[r].at \notin {"store", "link", "end"},
           NEW z, z = o[r] \/ z = Sent(o[r], "error"), NEW a,
           NEW out \in Outcomes, NEW heard \in Seq(Ticks), OStep(r, OEnd(Exchanged(z, out, heard), a)),
           out = "failed" => Count("failed", heard) > 0, IF out = "ok" THEN Count("ok", heard) = 1 ELSE Count("ok", heard) = 0,
           ~o[r].body.chat /\ o[r].body.stream /\ (o[r].body.store \/ o[r].body.conv) /\ o[r].begun =>
              o[r].active \/ out = "failed"
    PROVE  OGoes(r)
<1> DEFINE x == o[r]
           w == Exchanged(z, out, heard)
           y == OEnd(w, a)
<1>1. DOMAIN x = OFields
  BY SeenSeqs
<1>2. /\ But(x, z, {"sent"}) /\ ("completed" \in z.sent => "completed" \in x.sent) /\ DOMAIN z = OFields
      /\ z.exchanges = x.exchanges /\ z.ticks = x.ticks
  <2>1. CASE z = x
    BY <1>1, <2>1 DEF But
  <2>2. CASE z = Sent(x, "error")
    <3>1. But(x, z, {"sent"}) /\ z.sent = x.sent \cup {"error"}
      BY <1>1, <2>2, SentFields
    <3> QED BY <3>1 DEF But, OFields
  <2> QED BY <2>1, <2>2
<1>3. /\ But(z, w, {"exchanges", "ticks"}) /\ w.exchanges = Append(z.exchanges, out) /\ w.ticks = z.ticks \o heard
  BY <1>2 DEF Exchanged, But, OFields
<1> HIDE DEF w
<1>4. DOMAIN w = OFields /\ w.sent = z.sent
  BY <1>3 DEF But, OFields
<1>5. But(w, y, {"at", "answer"}) /\ y.at = "end"
  BY <1>4, OEndFields
<1>6. OStep(r, y)
  BY DEF w
<1> HIDE DEF y
<1>7. But(x, y, {"at", "answer", "sent", "exchanges", "ticks"})
  BY <1>2, <1>3, <1>5 DEF But
<1>8. y.exchanges = Append(x.exchanges, out) /\ y.ticks = x.ticks \o heard /\ y.sent = z.sent
  BY <1>2, <1>3, <1>4, <1>5 DEF But, OFields
<1>9. ProxyInv(y, r \in DOMAIN responses)
  BY <1>2, <1>5, <1>7, <1>8, ProxyQuits
<1> QED BY <1>6, <1>9 DEF OGoes

LEMMA ProxyPasses ==
    ASSUME NEW x, NEW kept, ProxyInv(x, kept), x.at \in {"send", "pass"}, NEW y,
           But(x, y, {"at", "todo", "said", "begun"}), y.at = "pass",
           y.todo \in Seq(Chunks), y.said \in Seq(Chunks), y.begun \in BOOLEAN
    PROVE  ProxyInv(y, kept)
<1>1. ProxyType(y)
  BY DEF ProxyInv, ProxyType, But, OFields, Early
<1>2. Heard(y) /\ StoredRight(y, kept)
  BY DEF ProxyInv, ProxyType, Heard, StoredRight, But, OFields
<1>3. ToolsFit(y) /\ ToolsFed(y)
  BY DEF ProxyInv, ProxyType, ToolsFit, ToolsFed, But, OFields
<1>4. StreamShown(y)
  <2>1. /\ y.items = x.items /\ y.next = x.next /\ y.body = x.body /\ y.sent = x.sent
        /\ OpenShown(y) = OpenShown(x) /\ CallsShown(y) = CallsShown(x)
    BY SameShown DEF But, OFields
  <2>2. "completed" \notin x.sent
    BY DEF ProxyInv, StreamShown
  <2> QED BY <2>1, <2>2 DEF ProxyInv, StreamShown, Early
<1> QED BY <1>1, <1>2, <1>3, <1>4 DEF ProxyInv

\* A response is complete and goes to the store.
LEMMA ProxyStores ==
    ASSUME NEW x, NEW kept, ProxyInv(x, kept), x.at \in {"send", "pass", "judge", "final"}, NEW y,
           But(x, y, {"at", "todo", "cut", "out", "exchanges", "ticks", "sent"}), y.at = "store",
           y.todo \in Seq(Chunks), y.cut \in BOOLEAN, y.out \in Seq(ItemTypes),
           y.exchanges \in Seq(Outcomes), y.ticks \in Seq(Ticks), Heard(y),
           Count("failed", y.exchanges) = Count("failed", x.exchanges),
           "completed" \in y.sent => y.cut \/ (OpenShown(x) = {} /\ Cardinality(CallsShown(x)) = x.made)
    PROVE  ProxyInv(y, kept)
<1>1. ProxyType(y)
  BY DEF ProxyInv, ProxyType, But, OFields, Early, Outcomes, Ticks
<1>2. StoredRight(y, kept)
  BY DEF ProxyInv, ProxyType, StoredRight, But, OFields
<1>3. ToolsFit(y) /\ ToolsFed(y)
  BY DEF ProxyInv, ProxyType, ToolsFit, ToolsFed, But, OFields
<1>4. StreamShown(y)
  <2>1. /\ y.items = x.items /\ y.next = x.next /\ y.body = x.body /\ y.made = x.made
        /\ OpenShown(y) = OpenShown(x) /\ CallsShown(y) = CallsShown(x)
    BY SameShown DEF But, OFields
  <2> QED BY <2>1 DEF ProxyInv, StreamShown, Early
<1> QED BY <1>1, <1>2, <1>3, <1>4 DEF ProxyInv

\* Another attempt of a chat completion.
LEMMA ProxyTriesAgain ==
    ASSUME NEW x, NEW kept, ProxyInv(x, kept), x.at = "send", x.body.chat, NEW y,
           But(x, y, {"tries", "exchanges", "ticks"}), y.exchanges \in Seq(Outcomes), y.ticks \in Seq(Ticks), Heard(y)
    PROVE  ProxyInv(y, kept)
<1>1. ProxyType(y)
  BY DEF ProxyInv, ProxyType, But, OFields, Early, Outcomes, Ticks
<1>2. StoredRight(y, kept)
  BY DEF ProxyInv, ProxyType, StoredRight, But, OFields
<1>3. ToolsFit(y) /\ ToolsFed(y)
  BY DEF ProxyInv, ProxyType, ToolsFit, ToolsFed, But, OFields
<1>4. StreamShown(y)
  <2>1. /\ y.items = x.items /\ y.next = x.next /\ y.body = x.body /\ y.cut = x.cut /\ y.sent = x.sent
        /\ y.pending = x.pending /\ y.made = x.made /\ y.at = x.at /\ y.todo = x.todo
        /\ OpenShown(y) = OpenShown(x) /\ CallsShown(y) = CallsShown(x)
    BY SameShown DEF But, OFields
  <2>2. "completed" \notin x.sent /\ (x.body.stream => Interception(x))
    BY DEF ProxyInv, StreamShown, Early
  <2>3. x.body.stream => Interception(y)
    BY <2>1, <2>2 DEF Interception, Early
  <2> QED BY <2>1, <2>2, <2>3 DEF ProxyInv, StreamShown
<1> QED BY <1>1, <1>2, <1>3, <1>4 DEF ProxyInv

LEMMA ChatActions ==
    ASSUME NEW r, ProxyInv(o[r], r \in DOMAIN responses), ChatFails(r) \/ ChatRefused(r) \/ ChatAnswered(r)
    PROVE  OGoes(r)
<1> DEFINE x == o[r]
           kept == r \in DOMAIN responses
<1>0. DOMAIN x = OFields /\ UNCHANGED responses /\ x.at = "send" /\ x.body.chat /\ x.body.chat \in BOOLEAN
  BY DEF ChatFails, ChatRefused, ChatAnswered, OShared, OB, ProxyInv, ProxyType
<1>1. ASSUME NEW y, OStep(r, y), ProxyInv(y, kept) PROVE OGoes(r)
  BY <1>0, <1>1 DEF OGoes
<1>2. "failed" \in Outcomes /\ "ok" \in Outcomes
  BY DEF Outcomes
<1>3. ASSUME NEW heard \in Seq(Ticks), Count("failed", heard) > 0, Count("failed", heard) \in Nat, Count("ok", heard) = 0,
             \/ TryAgain(r, Exchanged(x, "failed", heard))
             \/ OStep(r, OEnd(Exchanged(x, "failed", heard), "error"))
      PROVE  OGoes(r)
  <2> DEFINE w == Exchanged(x, "failed", heard)
             y == [w EXCEPT !.tries = @ + 1]
  <2>1. OStep(r, y) \/ OStep(r, OEnd(w, "error"))
    BY <1>3 DEF TryAgain
  <2>2. CASE OStep(r, OEnd(w, "error"))
    BY <1>0, <1>2, <1>3, <2>2, OQuits
  <2>3. CASE OStep(r, y)
    <3>1. But(x, w, {"exchanges", "ticks"}) /\ w.exchanges = Append(x.exchanges, "failed") /\ w.ticks = x.ticks \o heard
      BY <1>0 DEF Exchanged, But, OFields
    <3> HIDE DEF w
    <3>2. But(x, y, {"tries", "exchanges", "ticks"}) /\ y.exchanges = w.exchanges /\ y.ticks = w.ticks /\ y.at = x.at /\ y.body = x.body
      BY <3>1 DEF But, OFields
    <3> HIDE DEF y
    <3>3. Counted(x.exchanges, x.ticks, "failed", heard, y.exchanges, y.ticks)
      BY <1>2, <1>3, <3>1, <3>2, SeenSeqs, ExchangeCounts
    <3>4. Heard(y)
      BY <1>0, <1>3, <3>2, <3>3 DEF Counted, ProxyInv, Heard
    <3>5. ProxyInv(y, kept)
      BY <1>0, <3>2, <3>3, <3>4, ProxyTriesAgain DEF Counted
    <3> QED BY <1>1, <2>3, <3>5
  <2> QED BY <2>1, <2>2, <2>3
<1>4. CASE ChatFails(r)
  <2>1. TryAgain(r, Exchanged(x, "failed", Failed))
    BY <1>4 DEF ChatFails
  <2> QED BY <1>3, <2>1, HeardCounts
<1>5. CASE ChatRefused(r)
  <2>1. PICK h \in {Failed, Failed \o Failed} :
           \/ OStep(r, OEnd(Exchanged(x, "failed", IF OB(r).stream THEN Failed ELSE h), "error"))
           \/ TryAgain(r, Exchanged(x, "failed", IF OB(r).stream THEN Failed ELSE h))
    BY <1>5 DEF ChatRefused
  <2> DEFINE heard == IF OB(r).stream THEN Failed ELSE h
  <2>2. heard \in {Failed, Failed \o Failed}
    OBVIOUS
  <2>3. OStep(r, OEnd(Exchanged(x, "failed", heard), "error")) \/ TryAgain(r, Exchanged(x, "failed", heard))
    BY <2>1
  <2> HIDE DEF heard
  <2>4. heard \in Seq(Ticks) /\ Count("failed", heard) > 0 /\ Count("failed", heard) \in Nat /\ Count("ok", heard) = 0
    <3>1. CASE heard = Failed
      BY <3>1, HeardCounts
    <3>2. CASE heard = Failed \o Failed
      BY <3>2, HeardCounts
    <3> QED BY <2>2, <3>1, <3>2
  <2> QED BY <1>3, <2>3, <2>4
<1>6. CASE ChatAnswered(r)
  <2>1. CASE OB(r).stream
    <3> DEFINE y == [x EXCEPT !.at = "pass"]
    <3>1. OStep(r, y)
      BY <1>6, <2>1 DEF ChatAnswered
    <3>2. x.todo \in Seq(Chunks) /\ x.said \in Seq(Chunks) /\ x.begun \in BOOLEAN
      BY <1>0 DEF ProxyInv, ProxyType
    <3>3. But(x, y, {"at", "todo", "said", "begun"}) /\ y.at = "pass" /\ y.todo = x.todo /\ y.said = x.said /\ y.begun = x.begun
      BY <1>0 DEF But, OFields
    <3> HIDE DEF y
    <3>4. ProxyInv(y, kept)
      BY <1>0, <3>2, <3>3, ProxyPasses
    <3> QED BY <1>1, <3>1, <3>4
  <2>2. CASE ~OB(r).stream
    <3>1. OStep(r, OEnd(Exchanged(x, "ok", Good), "ok"))
      BY <1>6, <2>2 DEF ChatAnswered
    <3> QED BY <1>0, <1>2, <3>1, OQuits, HeardCounts
  <2> QED BY <2>1, <2>2
<1> QED BY <1>4, <1>5, <1>6

\* The exchange with the worker was good; the breaker is told now or later.
LEMMA ProxyHeard ==
    ASSUME NEW x, NEW kept, ProxyInv(x, kept), NEW y, y.body = x.body, y.exchanges = Append(x.exchanges, "ok"),
           y.ticks = x.ticks \/ (y.ticks = x.ticks \o Good /\ (x.body.stream => y.at \notin {"judge", "store", "link"}))
    PROVE  /\ Heard(y) /\ y.exchanges \in Seq(Outcomes) /\ y.ticks \in Seq(Ticks)
           /\ Count("failed", y.exchanges) = Count("failed", x.exchanges)
<1>1. "ok" \in Outcomes /\ x.exchanges \in Seq(Outcomes) /\ x.ticks \in Seq(Ticks)
  BY SeenSeqs DEF Outcomes
<1>2. Counted(x.exchanges, x.ticks, "ok", Good, y.exchanges, x.ticks \o Good)
  <2>1. Counted(x.exchanges, x.ticks, "ok", Good, Append(x.exchanges, "ok"), x.ticks \o Good)
    BY <1>1, ExchangeCounts, HeardCounts, Zenon
  <2> QED BY <2>1
<1>3. /\ Count("ok", x.ticks) \in Nat /\ Count("failed", x.ticks) \in Nat
      /\ Count("ok", x.exchanges) \in Nat /\ Count("failed", x.exchanges) \in Nat
      /\ Count("ok", y.exchanges) = Count("ok", x.exchanges) + 1
      /\ Count("failed", y.exchanges) = Count("failed", x.exchanges)
      /\ Count("ok", x.ticks \o Good) = Count("ok", x.ticks) + 1
      /\ Count("failed", x.ticks \o Good) = Count("failed", x.ticks)
      /\ y.exchanges \in Seq(Outcomes) /\ x.ticks \o Good \in Seq(Ticks)
  <2>1. \A v : /\ Count(v, x.exchanges) \in Nat /\ Count(v, x.ticks) \in Nat
              /\ Count(v, y.exchanges) = Count(v, x.exchanges) + (IF v = "ok" THEN 1 ELSE 0)
              /\ Count(v, x.ticks \o Good) = Count(v, x.ticks) + Count(v, Good)
    BY <1>2 DEF Counted
  <2>2. y.exchanges \in Seq(Outcomes) /\ x.ticks \o Good \in Seq(Ticks)
    BY <1>2 DEF Counted
  <2>3. Count("ok", Good) = 1 /\ Count("failed", Good) = 0
    BY HeardCounts
  <2> QED BY <2>1, <2>2, <2>3
<1>4. /\ Count("failed", x.ticks) >= Count("failed", x.exchanges) /\ Count("ok", x.ticks) <= Count("ok", x.exchanges)
  BY DEF ProxyInv, Heard
<1>5. CASE y.ticks = x.ticks
  BY <1>1, <1>3, <1>4, <1>5 DEF Heard
<1>6. CASE y.ticks = x.ticks \o Good /\ (x.body.stream => y.at \notin {"judge", "store", "link"})
  BY <1>3, <1>4, <1>6 DEF Heard
<1> QED BY <1>3, <1>5, <1>6

LEMMA SingleActions ==
    ASSUME NEW r, ProxyInv(o[r], r \in DOMAIN responses), SingleFails(r) \/ SingleAnswered(r)
    PROVE  OGoes(r)
<1> DEFINE x == o[r]
           kept == r \in DOMAIN responses
<1>0. /\ DOMAIN x = OFields /\ UNCHANGED responses /\ x.at = "send" /\ ~x.body.chat /\ ~x.active
      /\ x.said \in Seq(Chunks) /\ x.begun \in BOOLEAN /\ x.cut \in BOOLEAN /\ x.todo \in Seq(Chunks)
  <2>1. UNCHANGED responses /\ Single(r)
    BY Zenon DEF SingleFails, SingleAnswered, OShared
  <2>2. x.at = "send" /\ ~x.body.chat /\ ~x.active
    BY <2>1 DEF Single, OB
  <2>3. ProxyType(x)
    BY DEF ProxyInv
  <2>4. /\ DOMAIN x = OFields /\ x.said \in Seq(Chunks) /\ x.begun \in BOOLEAN /\ x.cut \in BOOLEAN
        /\ x.todo \in Seq(Chunks)
    BY <2>2, <2>3 DEF ProxyType
  <2> QED BY <2>1, <2>2, <2>4
<1>1. CASE SingleFails(r)
  <2>1. OStep(r, OEnd(Exchanged(x, "failed", Failed), "error"))
    BY <1>1 DEF SingleFails
  <2>2. "failed" \in Outcomes /\ Failed \in Seq(Ticks) /\ Count("failed", Failed) > 0 /\ Count("ok", Failed) = 0
    BY HeardCounts DEF Outcomes
  <2> QED BY <1>0, <2>1, <2>2, OQuits
<1>2. CASE SingleAnswered(r)
  <2>1. CASE OB(r).stream
    <3>1. PICK a \in Outputs : OStep(r, [x EXCEPT !.at = "pass", !.todo = a])
      BY <1>2, <2>1, Zenon DEF SingleAnswered, Answers
    <3> DEFINE y == [x EXCEPT !.at = "pass", !.todo = a]
    <3>2. a \in Seq(Chunks)
      BY FrontChunks
    <3>3. But(x, y, {"at", "todo", "said", "begun"}) /\ y.at = "pass" /\ y.todo = a /\ y.said = x.said /\ y.begun = x.begun
      BY <1>0 DEF But, OFields
    <3> HIDE DEF y
    <3>4. ProxyInv(y, kept)
      BY <1>0, <3>2, <3>3, ProxyPasses
    <3> QED BY <1>0, <3>1, <3>4 DEF OGoes, y
  <2>2. CASE ~OB(r).stream
    <3>1. PICK a \in Outputs :
            OStep(r, [Exchanged(x, "ok", Good) EXCEPT !.at = "store", !.out = Converted(Front(a))])
      BY <1>2, <2>2, Zenon DEF SingleAnswered, Answers
    <3> DEFINE out == Converted(Front(a))
               y == [Exchanged(x, "ok", Good) EXCEPT !.at = "store", !.out = out]
    <3>2. out \in Seq(ItemTypes)
      BY FrontChunks, ConvertedType
    <3>3. OStep(r, y)
      BY <3>1
    <3> HIDE DEF out
    <3>4. /\ But(x, y, {"at", "out", "exchanges", "ticks"})
          /\ y.at = "store" /\ y.out = out /\ y.exchanges = Append(x.exchanges, "ok") /\ y.ticks = x.ticks \o Good
      BY <1>0 DEF But, OFields, Exchanged
    <3> HIDE DEF y
    <3>5. /\ But(x, y, {"at", "todo", "cut", "out", "exchanges", "ticks", "sent"}) /\ y.todo = x.todo /\ y.cut = x.cut
          /\ y.sent = x.sent /\ y.body = x.body
      BY <3>4 DEF But, OFields
    <3>6. /\ Heard(y) /\ y.exchanges \in Seq(Outcomes) /\ y.ticks \in Seq(Ticks)
          /\ Count("failed", y.exchanges) = Count("failed", x.exchanges)
      BY <2>2, <3>4, <3>5, ProxyHeard DEF OB
    <3>7. "completed" \notin x.sent
      BY <1>0 DEF ProxyInv, StreamShown
    <3>8. ProxyInv(y, kept)
      BY <1>0, <3>2, <3>4, <3>5, <3>6, <3>7, ProxyStores
    <3> QED BY <1>0, <3>3, <3>8 DEF OGoes
  <2> QED BY <2>1, <2>2
<1> QED BY <1>1, <1>2

LEMMA PassActions ==
    ASSUME NEW r, ProxyInv(o[r], r \in DOMAIN responses),
           PassChunk(r) \/ PassCancelled(r) \/ PassBreaks(r) \/ PassEnds(r)
    PROVE  OGoes(r)
<1> DEFINE x == o[r]
           kept == r \in DOMAIN responses
<1>0. /\ DOMAIN x = OFields /\ UNCHANGED responses /\ x.at = "pass"
      /\ x.said \in Seq(Chunks) /\ x.begun \in BOOLEAN /\ x.cut \in BOOLEAN /\ x.todo \in Seq(Chunks)
      /\ x.body.chat \in BOOLEAN /\ x.body.store \in BOOLEAN /\ x.body.conv \in BOOLEAN
  BY DEF PassChunk, PassCancelled, PassBreaks, PassEnds, OShared, ProxyInv, ProxyType
<1>1. NeedPersistence(r) <=> ~x.body.chat /\ (x.body.store \/ x.body.conv)
  BY DEF NeedPersistence, OB
<1>2. "failed" \in Outcomes /\ "ok" \in Outcomes /\ "cancelled" \in Outcomes
  BY DEF Outcomes
<1>3. CASE PassChunk(r)
  <2> DEFINE c == Head(x.todo)
  <2>0. PICK named \in BOOLEAN :
           OStep(r, [x EXCEPT !.todo = Tail(x.todo), !.said = Append(x.said, c), !.begun = x.begun \/ named])
    BY <1>3 DEF PassChunk
  <2> DEFINE begun == x.begun \/ named
             y == [x EXCEPT !.todo = Tail(x.todo), !.said = Append(x.said, c), !.begun = begun]
  <2>1. OStep(r, y) /\ x.todo # <<>> /\ begun \in BOOLEAN
    BY <1>0, <1>3, <2>0 DEF PassChunk
  <2>2. Tail(x.todo) \in Seq(Chunks) /\ Append(x.said, c) \in Seq(Chunks)
    BY <1>0, <2>1
  <2> HIDE DEF c, begun
  <2>3. /\ But(x, y, {"at", "todo", "said", "begun"}) /\ y.at = "pass" /\ y.todo = Tail(x.todo)
        /\ y.said = Append(x.said, c) /\ y.begun = begun
    BY <1>0 DEF But, OFields
  <2> HIDE DEF y
  <2>4. ProxyInv(y, kept)
    BY <1>0, <2>1, <2>2, <2>3, ProxyPasses
  <2> QED BY <1>0, <2>1, <2>4 DEF OGoes
<1>4. CASE PassCancelled(r)
  <2>1. OStep(r, OEnd(Exchanged(x, "cancelled", <<>>), "dropped")) /\ ~NeedPersistence(r)
    BY <1>4 DEF PassCancelled
  <2> QED BY <1>0, <1>1, <1>2, <2>1, OQuits, HeardCounts
<1>5. CASE PassBreaks(r)
  <2>1. OStep(r, OEnd(Exchanged(x, "failed", Failed), "error"))
    BY <1>5 DEF PassBreaks
  <2> QED BY <1>0, <1>2, <2>1, OQuits, HeardCounts
<1>6. CASE PassEnds(r)
  <2>1. CASE NeedPersistence(r) /\ x.begun
    <3> DEFINE out == Converted(x.said)
               cut == x.todo # <<>>
               y == [x EXCEPT !.at = "store", !.todo = <<>>, !.cut = cut, !.out = out,
                              !.exchanges = Append(x.exchanges, "ok")]
    <3>1. OStep(r, y)
      BY <1>6, <2>1 DEF PassEnds
    <3>2. out \in Seq(ItemTypes) /\ cut \in BOOLEAN
      BY <1>0, ConvertedType
    <3> HIDE DEF out, cut
    <3>3. /\ But(x, y, {"at", "todo", "cut", "out", "exchanges", "ticks", "sent"}) /\ y.todo = <<>> /\ y.cut = cut
          /\ y.at = "store" /\ y.out = out /\ y.exchanges = Append(x.exchanges, "ok") /\ y.ticks = x.ticks
          /\ y.sent = x.sent /\ y.body = x.body
      BY <1>0 DEF But, OFields
    <3> HIDE DEF y
    <3>4. /\ Heard(y) /\ y.exchanges \in Seq(Outcomes) /\ y.ticks \in Seq(Ticks)
          /\ Count("failed", y.exchanges) = Count("failed", x.exchanges)
      BY <3>3, ProxyHeard
    <3>5. "completed" \notin x.sent /\ <<>> \in Seq(Chunks)
      BY <1>0 DEF ProxyInv, StreamShown
    <3>6. ProxyInv(y, kept)
      BY <1>0, <3>2, <3>3, <3>4, <3>5, ProxyStores
    <3> QED BY <1>0, <3>1, <3>6 DEF OGoes
  <2>2. CASE ~(NeedPersistence(r) /\ x.begun)
    <3>1. OStep(r, OEnd(Exchanged(x, "ok", Good), "ok"))
      BY <1>6, <2>2 DEF PassEnds
    <3> QED BY <1>0, <1>1, <1>2, <2>2, <3>1, OQuits, HeardCounts
  <2> QED BY <2>1, <2>2
<1> QED BY <1>3, <1>4, <1>5, <1>6

Indexed(x) == x.items \in Seq(OItems) /\ x.next = Len(x.items) /\ \A i \in 1..Len(x.items) : x.items[i].index = i - 1

LEMMA CallsShownFinite ==
    ASSUME NEW x, Indexed(x)
    PROVE  IsFiniteSet(CallsShown(x)) /\ Cardinality(CallsShown(x)) \in Nat
<1>1. Len(x.items) \in Nat /\ DOMAIN x.items = 1..Len(x.items)
  BY DEF Indexed
<1>2. IsFiniteSet(1..Len(x.items))
  BY <1>1, FS_Interval
<1>3. CallsShown(x) \subseteq 1..Len(x.items)
  BY <1>1 DEF CallsShown
<1>4. IsFiniteSet(CallsShown(x))
  BY <1>2, <1>3, FS_Subset
<1> QED BY <1>4, FS_CardinalityType

\* The next item shown has the next index.
LEMMA ShowFields ==
    ASSUME NEW x, DOMAIN x = OFields, Indexed(x), NEW t \in ItemTypes \cup {"text"}, NEW w \in {"open", "closed"}
    PROVE  /\ But(x, Show(x, t, w), {"next", "items"}) /\ Indexed(Show(x, t, w))
           /\ Len(Show(x, t, w).items) = Len(x.items) + 1
           /\ OpenShown(Show(x, t, w)) = OpenShown(x) \cup (IF w = "open" THEN {Len(x.items) + 1} ELSE {})
           /\ Cardinality(CallsShown(Show(x, t, w))) = Cardinality(CallsShown(x)) + (IF t = "mcp_call" THEN 1 ELSE 0)
<1> DEFINE y == Show(x, t, w)
           n == Len(x.items) + 1
           z == [index |-> x.next, type |-> t, wire |-> w]
<1>1. But(x, y, {"next", "items"}) /\ y.next = x.next + 1 /\ y.items = Append(x.items, z)
  BY DEF Show, But, OFields
<1>2. Len(x.items) \in Nat /\ DOMAIN x.items = 1..Len(x.items) /\ x.next = Len(x.items) /\ x.items \in Seq(OItems)
  BY DEF Indexed
<1>3. z \in OItems /\ z.index = n - 1 /\ z.type = t /\ z.wire = w
  BY <1>2 DEF OItems
<1> HIDE DEF y, z
<1>4. /\ y.items \in Seq(OItems) /\ Len(y.items) = n /\ DOMAIN y.items = 1..n /\ y.items[n] = z
      /\ \A i \in 1..Len(x.items) : y.items[i] = x.items[i]
  BY <1>1, <1>2, <1>3
<1>5. Indexed(y)
  BY <1>1, <1>2, <1>3, <1>4 DEF Indexed
<1>6. OpenShown(y) = OpenShown(x) \cup (IF w = "open" THEN {n} ELSE {})
  BY <1>2, <1>3, <1>4 DEF OpenShown
<1>7. CallsShown(y) = CallsShown(x) \cup (IF t = "mcp_call" THEN {n} ELSE {})
  BY <1>2, <1>3, <1>4 DEF CallsShown
<1>8. IsFiniteSet(CallsShown(x)) /\ Cardinality(CallsShown(x)) \in Nat /\ n \notin CallsShown(x)
  <2>1. IsFiniteSet(CallsShown(x)) /\ Cardinality(CallsShown(x)) \in Nat
    BY CallsShownFinite
  <2>2. n \notin DOMAIN x.items
    BY <1>2
  <2>3. n \notin CallsShown(x)
    BY <2>2 DEF CallsShown
  <2> QED BY <2>1, <2>3
<1>9. Cardinality(CallsShown(y)) = Cardinality(CallsShown(x)) + (IF t = "mcp_call" THEN 1 ELSE 0)
  <2>1. CASE t = "mcp_call"
    <3>1. Cardinality(CallsShown(x) \cup {n}) = Cardinality(CallsShown(x)) + 1
      BY <1>8, FS_AddElement
    <3> QED BY <1>7, <2>1, <3>1
  <2>2. CASE t # "mcp_call"
    <3>1. CallsShown(y) = CallsShown(x)
      BY <1>7, <2>2
    <3> QED BY <1>8, <2>2, <3>1
  <2> QED BY <2>1, <2>2
<1> QED BY <1>1, <1>4, <1>5, <1>6, <1>9 DEF y

\* Before the first item of a stream, the list of tools.
LEMMA WithListFields ==
    ASSUME NEW x, DOMAIN x = OFields, Indexed(x)
    PROVE  /\ But(x, WithList(x), {"next", "items", "listed"}) /\ Indexed(WithList(x))
           /\ OpenShown(WithList(x)) = OpenShown(x)
           /\ Cardinality(CallsShown(WithList(x))) = Cardinality(CallsShown(x))
<1>1. CASE x.listed
  BY <1>1 DEF WithList, But
<1>2. CASE ~x.listed
  <2> DEFINE w == Show(x, "mcp_list_tools", "closed")
             y == [w EXCEPT !.listed = TRUE]
  <2>0. "mcp_list_tools" \in ItemTypes \cup {"text"}
    BY DEF ItemTypes
  <2>1. /\ But(x, w, {"next", "items"}) /\ Indexed(w)
        /\ OpenShown(w) = OpenShown(x) \cup {} /\ Cardinality(CallsShown(w)) = Cardinality(CallsShown(x)) + 0
    BY <2>0, ShowFields
  <2>2. Cardinality(CallsShown(x)) \in Nat
    BY CallsShownFinite
  <2>3. WithList(x) = y
    BY <1>2 DEF WithList
  <2> HIDE DEF w
  <2>4. y.items = w.items /\ y.next = w.next /\ But(x, y, {"next", "items", "listed"})
    BY <2>1 DEF But, OFields
  <2> HIDE DEF y
  <2>5. Indexed(y) /\ OpenShown(y) = OpenShown(w) /\ CallsShown(y) = CallsShown(w)
    BY <2>1, <2>4, SameShown DEF Indexed
  <2> QED BY <2>1, <2>2, <2>3, <2>4, <2>5
<1> QED BY <1>1, <1>2

LEMMA LoopEnds ==
    ASSUME NEW r, ProxyInv(o[r], r \in DOMAIN responses),
           LoopFails(r) \/ LoopAbandoned(r) \/ InterceptCancelled(r) \/ InterceptBreaks(r)
    PROVE  OGoes(r)
<1> DEFINE x == o[r]
<1>0. DOMAIN x = OFields /\ UNCHANGED responses /\ x.at \in {"send", "stream", "final"} /\ x.active
  BY DEF LoopFails, LoopAbandoned, InterceptCancelled, InterceptBreaks, Looped, OShared, ProxyInv, ProxyType
<1>1. "failed" \in Outcomes /\ "cancelled" \in Outcomes
  BY DEF Outcomes
<1>2. CASE LoopFails(r) \/ InterceptBreaks(r)
  <2> DEFINE z == Sent(x, "error")
  <2>1. OStep(r, OEnd(Exchanged(z, "failed", Failed), "error"))
    BY <1>2 DEF LoopFails, InterceptBreaks
  <2>2. z = Sent(x, "error")
    OBVIOUS
  <2> HIDE DEF z
  <2>3. Failed \in Seq(Ticks) /\ Count("failed", Failed) > 0 /\ Count("ok", Failed) = 0
    BY HeardCounts
  <2> QED BY <1>0, <1>1, <2>1, <2>2, <2>3, OQuits
<1>3. CASE InterceptCancelled(r)
  <2>1. OStep(r, OEnd(Exchanged(x, "cancelled", <<>>), "dropped"))
    BY <1>3 DEF InterceptCancelled
  <2>2. <<>> \in Seq(Ticks) /\ Count("ok", <<>>) = 0
    BY HeardCounts
  <2> QED BY <1>0, <1>1, <2>1, <2>2, OQuits
<1>4. CASE LoopAbandoned(r)
  <2> DEFINE y == OEnd(x, "dropped")
  <2>0. OStep(r, y)
    BY <1>4 DEF LoopAbandoned
  <2>1. But(x, y, {"at", "answer"}) /\ y.at = "end"
    BY <1>0, OEndFields
  <2> HIDE DEF y
  <2>2. But(x, y, {"at", "answer", "sent"}) /\ y.sent = x.sent
    BY <2>1 DEF But, OFields
  <2>3. ProxyInv(y, r \in DOMAIN responses)
    BY <1>0, <2>1, <2>2, ProxyDrops
  <2> QED BY <1>0, <2>0, <2>3 DEF OGoes
<1> QED BY <1>2, <1>3, <1>4

\* The stages of a loop whose answer is awaited or read.
LEMMA ProxyInLoop ==
    ASSUME NEW x, NEW kept, ProxyInv(x, kept), x.active, x.at \in {"send", "stream"}, NEW y,
           But(x, y, {"at", "todo", "said", "begun", "next", "items", "listed", "pending", "exchanges", "sent", "cut"}),
           y.at \in {"stream", "judge", "final"}, y.at \in {"stream", "final"} => x.body.stream,
           y.at # "stream" => y.todo \in Seq(Chunks), y.said \in Seq(Chunks),
           y.begun \in BOOLEAN, y.cut \in BOOLEAN, y.pending \in Nat, y.exchanges \in Seq(Outcomes), Heard(y),
           Count("failed", y.exchanges) = Count("failed", x.exchanges),
           Indexed(y), x.body.stream \/ y.items = x.items, "completed" \in y.sent => "completed" \in x.sent,
           x.body.stream => Interception(y)
    PROVE  ProxyInv(y, kept)
<1>0. /\ DOMAIN y = OFields /\ y.body = x.body /\ y.active = x.active /\ y.gone = x.gone /\ y.input = x.input
      /\ y.out = x.out /\ y.ticks = x.ticks /\ y.total = x.total /\ y.made = x.made
  BY DEF But, OFields
<1>1. ProxyType(y)
  <2>1. ProxyType(x)
    BY DEF ProxyInv
  <2>2. y.at \notin Early /\ y.at # "link"
    BY DEF Early
  <2> QED BY <1>0, <2>1, <2>2 DEF ProxyType, Outcomes
<1>2. StoredRight(y, kept)
  BY DEF ProxyInv, ProxyType, StoredRight, But, OFields
<1>3. ToolsFit(y) /\ ToolsFed(y)
  <2>1. ToolsFit(x) /\ ToolsFed(x) /\ x.made = x.total
    BY DEF ProxyInv, ToolsFit
  <2>2. y.at \notin {"calling", "end"}
    OBVIOUS
  <2>3. ToolsFit(y)
    BY <1>0, <2>1, <2>2 DEF ToolsFit
  <2>4. ToolsFed(y)
    BY <1>0, <2>1, <2>2 DEF ToolsFed
  <2> QED BY <2>3, <2>4
<1>4. StreamShown(y)
  <2>1. y.body = x.body
    BY DEF But, OFields
  <2>2. "completed" \notin x.sent /\ (~x.body.stream => x.items = <<>>)
    BY DEF ProxyInv, StreamShown
  <2> QED BY <2>1, <2>2 DEF StreamShown, Indexed
<1> QED BY <1>1, <1>2, <1>3, <1>4 DEF ProxyInv

LEMMA SameHeard ==
    ASSUME NEW x, NEW kept, ProxyInv(x, kept), NEW y, y.exchanges = x.exchanges, y.ticks = x.ticks, y.body = x.body,
           y.at \notin {"judge", "store", "link"}
    PROVE  Heard(y) /\ y.exchanges \in Seq(Outcomes)
BY SeenSeqs DEF ProxyInv, Heard

LEMMA LoopAnswers ==
    ASSUME NEW r, ProxyInv(o[r], r \in DOMAIN responses), LoopAnswered(r) PROVE OGoes(r)
<1> DEFINE x == o[r]
           kept == r \in DOMAIN responses
<1>0. /\ DOMAIN x = OFields /\ UNCHANGED responses /\ x.at = "send" /\ x.active /\ x.todo \in Seq(Chunks)
      /\ x.begun \in BOOLEAN /\ x.cut \in BOOLEAN /\ x.body.stream \in BOOLEAN /\ x.pending \in Nat
  BY DEF LoopAnswered, Looped, OShared, ProxyInv, ProxyType
<1>1. Indexed(x)
  BY DEF ProxyInv, StreamShown, Indexed
<1>2. CASE x.body.stream
  <2>1. PICK a \in Outputs : OStep(r, [x EXCEPT !.at = "stream", !.todo = a, !.said = <<>>, !.begun = FALSE])
    BY <1>2 DEF LoopAnswered, OB, Answers
  <2> DEFINE y == [x EXCEPT !.at = "stream", !.todo = a, !.said = <<>>, !.begun = FALSE]
  <2>2. a \in Seq(Chunks)
    BY FrontChunks
  <2>3. /\ But(x, y, {"at", "todo", "said", "begun"}) /\ y.at = "stream" /\ y.todo = a /\ y.said = <<>> /\ y.begun = FALSE
    BY <1>0 DEF But, OFields
  <2> HIDE DEF y
  <2>4. /\ But(x, y, {"at", "todo", "said", "begun", "next", "items", "listed", "pending", "exchanges", "sent", "cut"})
        /\ y.body = x.body /\ y.exchanges = x.exchanges /\ y.ticks = x.ticks /\ y.items = x.items /\ y.next = x.next
        /\ y.pending = x.pending /\ y.cut = x.cut /\ y.sent = x.sent /\ y.made = x.made
    BY <2>3 DEF But, OFields
  <2>5. Heard(y) /\ y.exchanges \in Seq(Outcomes)
    BY <2>3, <2>4, SameHeard
  <2>6. Interception(y)
    <3>1. Interception(x) /\ x.pending = 0
      BY <1>0, <1>2 DEF ProxyInv, StreamShown, Interception
    <3>2. OpenShown(y) = OpenShown(x) /\ CallsShown(y) = CallsShown(x)
      BY <2>4, SameShown
    <3>3. \A i \in 1..Len(a) : a[i] \in Chunks /\ a[i] # "args"
      BY <2>2 DEF Chunks, Halves
    <3>4. a \in Seq(Chunks \cup {"args"}) /\ Len(a) \in Nat
      BY <2>2
    <3>5. a # <<>> => a[1] # "args"
      BY <2>2, <3>3
    <3> QED BY <2>3, <2>4, <3>1, <3>2, <3>3, <3>4, <3>5 DEF Interception, Early
  <2>7. Indexed(y) /\ <<>> \in Seq(Chunks)
    BY <1>1, <2>4 DEF Indexed
  <2>8. ProxyInv(y, kept)
    BY <1>0, <1>2, <2>3, <2>4, <2>5, <2>6, <2>7, ProxyInLoop
  <2> QED BY <1>0, <2>1, <2>8 DEF OGoes, y
<1>3. CASE ~x.body.stream
  <2>1. PICK a \in Outputs :
          OStep(r, [x EXCEPT !.at = "judge", !.said = Front(a), !.exchanges = Append(x.exchanges, "ok"),
                             !.pending = IF Calls(a) = 0 THEN 0 ELSE 1])
    BY <1>3 DEF LoopAnswered, OB, Answers
  <2> DEFINE n == IF Calls(a) = 0 THEN 0 ELSE 1
             y == [x EXCEPT !.at = "judge", !.said = Front(a), !.exchanges = Append(x.exchanges, "ok"), !.pending = n]
  <2>2. Front(a) \in Seq(Chunks) /\ n \in Nat
    BY FrontChunks
  <2>3. OStep(r, y)
    BY <2>1
  <2> HIDE DEF n
  <2>4. /\ But(x, y, {"at", "said", "exchanges", "pending"}) /\ y.at = "judge" /\ y.said = Front(a)
        /\ y.exchanges = Append(x.exchanges, "ok") /\ y.pending = n
    BY <1>0 DEF But, OFields
  <2> HIDE DEF y
  <2>5. /\ But(x, y, {"at", "todo", "said", "begun", "next", "items", "listed", "pending", "exchanges", "sent", "cut"})
        /\ y.body = x.body /\ y.ticks = x.ticks /\ y.items = x.items /\ y.next = x.next
        /\ y.todo = x.todo /\ y.cut = x.cut /\ y.sent = x.sent /\ y.begun = x.begun
    BY <2>4 DEF But, OFields
  <2>6. /\ Heard(y) /\ y.exchanges \in Seq(Outcomes)
        /\ Count("failed", y.exchanges) = Count("failed", x.exchanges)
    BY <2>4, <2>5, ProxyHeard
  <2>7. Indexed(y)
    BY <1>1, <2>5 DEF Indexed
  <2>8. ProxyInv(y, kept)
    BY <1>0, <1>3, <2>2, <2>4, <2>5, <2>6, <2>7, ProxyInLoop
  <2> QED BY <1>0, <2>3, <2>8 DEF OGoes
<1> QED BY <1>0, <1>2, <1>3

\* What is still to be read of an intercepted stream.
LEMMA InterceptedTail ==
    ASSUME NEW s \in Seq(Chunks \cup {"args"}), s # <<>>, \A i \in 2..Len(s) : s[i] # "args"
    PROVE  LET t == Tail(s)
           IN  /\ t \in Seq(Chunks \cup {"args"}) /\ (t # <<>> => t[1] # "args") /\ \A i \in 1..Len(t) : t[i] # "args"
               /\ <<"args">> \o t \in Seq(Chunks \cup {"args"}) /\ <<"args">> \o t # <<>> /\ (<<"args">> \o t)[1] = "args"
               /\ \A i \in 2..Len(<<"args">> \o t) : (<<"args">> \o t)[i] # "args"
<1> DEFINE t == Tail(s)
<1>1. Len(s) \in Nat /\ Len(s) > 0
  OBVIOUS
<1>2. t \in Seq(Chunks \cup {"args"}) /\ Len(t) = Len(s) - 1 /\ \A i \in 1..Len(t) : t[i] = s[i + 1]
  BY <1>1
<1> HIDE DEF t
<1>3. \A i \in 1..Len(t) : t[i] # "args"
  BY <1>1, <1>2
<1>4. t # <<>> => t[1] # "args"
  BY <1>2, <1>3
<1> DEFINE u == <<"args">> \o t
<1>5. u \in Seq(Chunks \cup {"args"}) /\ Len(u) = Len(t) + 1 /\ u[1] = "args" /\ \A i \in 2..Len(u) : u[i] = t[i - 1]
  BY <1>2
<1>6. u # <<>> /\ Len(t) \in Nat
  BY <1>2, <1>5
<1> HIDE DEF u
<1>7. \A i \in 2..Len(u) : u[i] # "args"
  BY <1>3, <1>5, <1>6
<1> QED BY <1>2, <1>3, <1>4, <1>5, <1>6, <1>7 DEF t, u

LEMMA StreamsOn ==
    ASSUME NEW r, ProxyInv(o[r], r \in DOMAIN responses), o[r].at = "stream"
    PROVE  /\ DOMAIN o[r] = OFields /\ o[r].active /\ o[r].body.stream /\ Indexed(o[r]) /\ Interception(o[r])
           /\ o[r].said \in Seq(Chunks) /\ o[r].begun \in BOOLEAN /\ o[r].cut \in BOOLEAN /\ o[r].pending \in Nat
           /\ o[r].todo \in Seq(Chunks \cup {"args"}) /\ (\A i \in 2..Len(o[r].todo) : o[r].todo[i] # "args")
           /\ (o[r].pending = 1 <=> (o[r].todo # <<>> /\ o[r].todo[1] = "args")) /\ o[r].pending <= 1
           /\ o[r].made \in Nat
<1>1. DOMAIN o[r] = OFields /\ o[r].active /\ o[r].body.stream /\ Indexed(o[r]) /\ Interception(o[r])
  BY DEF ProxyInv, ProxyType, StreamShown, Indexed
<1> QED BY <1>1 DEF ProxyInv, ProxyType, Interception

LEMMA StreamGoesOn ==
    ASSUME NEW r, ProxyInv(o[r], r \in DOMAIN responses), UNCHANGED responses, o[r].at = "stream", NEW y, OStep(r, y),
           But(o[r], y, {"at", "todo", "said", "begun", "next", "items", "listed", "pending", "exchanges", "sent", "cut"}),
           y.at = "stream", y.begun = TRUE, y.sent = o[r].sent \cup {"created"}, y.cut = o[r].cut,
           y.exchanges = o[r].exchanges, y.said \in Seq(Chunks), y.pending \in Nat, Indexed(y), Interception(y)
    PROVE  OGoes(r)
<1> DEFINE x == o[r]
<1>0. x.active /\ x.body.stream /\ x.cut \in BOOLEAN
  BY StreamsOn
<1>1. y.body = x.body /\ y.ticks = x.ticks
  BY DEF But, OFields
<1>2. Heard(y) /\ y.exchanges \in Seq(Outcomes)
  BY <1>1, SameHeard
<1>3. "completed" \in y.sent => "completed" \in x.sent
  OBVIOUS
<1>4. ProxyInv(y, r \in DOMAIN responses)
  BY <1>0, <1>2, <1>3, ProxyInLoop
<1> QED BY <1>4 DEF OGoes

LEMMA InterceptAction ==
    ASSUME NEW r, ProxyInv(o[r], r \in DOMAIN responses), Intercept(r) PROVE OGoes(r)
<1> DEFINE x == o[r]
           kept == r \in DOMAIN responses
           c == Head(x.todo)
           w == [Sent(x, "created") EXCEPT !.begun = TRUE]
           v == WithList(w)
           t == Tail(x.todo)
           moved == {"at", "todo", "said", "begun", "next", "items", "listed", "pending", "exchanges", "sent", "cut"}
<1>0. UNCHANGED responses /\ x.at = "stream" /\ x.todo # <<>> /\ c # "args"
  BY DEF Intercept, OShared
<1>1. /\ DOMAIN x = OFields /\ x.active /\ x.body.stream /\ Indexed(x) /\ Interception(x)
      /\ x.said \in Seq(Chunks) /\ x.begun \in BOOLEAN /\ x.cut \in BOOLEAN /\ x.pending \in Nat
      /\ x.todo \in Seq(Chunks \cup {"args"}) /\ (\A i \in 2..Len(x.todo) : x.todo[i] # "args")
      /\ (x.pending = 1 <=> (x.todo # <<>> /\ x.todo[1] = "args")) /\ x.pending <= 1 /\ x.made \in Nat
  BY <1>0, StreamsOn
<1>2. x.pending = 0
  BY <1>0, <1>1
<1>3. /\ t \in Seq(Chunks \cup {"args"}) /\ (t # <<>> => t[1] # "args") /\ (\A i \in 1..Len(t) : t[i] # "args")
      /\ <<"args">> \o t \in Seq(Chunks \cup {"args"}) /\ <<"args">> \o t # <<>> /\ (<<"args">> \o t)[1] = "args"
      /\ \A i \in 2..Len(<<"args">> \o t) : (<<"args">> \o t)[i] # "args"
  BY <1>0, <1>1, InterceptedTail
<1>4. OpenShown(x) = {} /\ Cardinality(CallsShown(x)) = x.made
  BY <1>1, <1>2 DEF Interception
<1>5. /\ But(x, w, {"sent", "begun"}) /\ w.sent = x.sent \cup {"created"} /\ w.begun = TRUE
      /\ w.items = x.items /\ w.next = x.next /\ DOMAIN w = OFields
  BY <1>1 DEF Sent, But, OFields
<1> HIDE DEF w
<1>6. Indexed(w) /\ OpenShown(w) = {} /\ Cardinality(CallsShown(w)) = x.made
  BY <1>1, <1>4, <1>5, SameShown DEF Indexed
<1>7. /\ But(w, v, {"next", "items", "listed"}) /\ Indexed(v)
      /\ OpenShown(v) = {} /\ Cardinality(CallsShown(v)) = x.made
  BY <1>5, <1>6, WithListFields
<1> HIDE DEF v
<1>8. But(x, v, {"sent", "begun", "next", "items", "listed"}) /\ v.sent = w.sent /\ v.begun = TRUE /\ DOMAIN v = OFields
  BY <1>5, <1>7 DEF But, OFields
<1>10. CASE /\ c \in {"text", "reasoning"}
            /\ OStep(r, [Show(v, c, "closed") EXCEPT !.todo = Tail(@), !.said = Append(@, c)])
  <2> DEFINE u == Show(v, c, "closed")
             y == [u EXCEPT !.todo = Tail(@), !.said = Append(@, c)]
  <2>1. c \in ItemTypes \cup {"text"} /\ c # "mcp_call" /\ c \in Chunks
    BY <1>10 DEF ItemTypes, Chunks
  <2>2. OStep(r, y)
    BY <1>10
  <2> HIDE DEF c
  <2>3. /\ But(v, u, {"next", "items"}) /\ Indexed(u) /\ OpenShown(u) = OpenShown(v) \cup {}
        /\ Cardinality(CallsShown(u)) = Cardinality(CallsShown(v)) + 0
    BY <1>7, <1>8, <2>1, ShowFields
  <2> HIDE DEF u
  <2>4. /\ DOMAIN u = OFields /\ u.todo = x.todo /\ u.said = x.said /\ u.at = x.at /\ u.sent = w.sent /\ u.begun = TRUE
        /\ u.cut = x.cut /\ u.exchanges = x.exchanges /\ u.pending = x.pending /\ u.made = x.made
        /\ But(x, u, {"sent", "begun", "next", "items", "listed"})
    BY <1>8, <2>3 DEF But, OFields
  <2>5. /\ y.todo = t /\ y.said = Append(x.said, c) /\ y.items = u.items /\ y.next = u.next /\ But(u, y, {"todo", "said"})
    BY <2>4 DEF But, OFields
  <2> HIDE DEF y, t
  <2>6. /\ But(x, y, moved) /\ y.at = "stream" /\ y.sent = w.sent /\ y.begun = TRUE
        /\ y.cut = x.cut /\ y.exchanges = x.exchanges /\ y.pending = 0 /\ y.made = x.made
    BY <1>0, <1>2, <2>4, <2>5 DEF But, OFields
  <2>7. Indexed(y) /\ OpenShown(y) = {} /\ Cardinality(CallsShown(y)) = x.made
    BY <1>1, <1>7, <2>3, <2>5, SameShown DEF Indexed
  <2>8. \A i \in 2..Len(t) : t[i] # "args"
    BY <1>3
  <2>9. Interception(y)
    BY <1>1, <1>3, <2>5, <2>6, <2>7, <2>8 DEF Interception, Early
  <2>10. Append(x.said, c) \in Seq(Chunks)
    BY <1>1, <2>1
  <2>20. /\ UNCHANGED responses /\ x.at = "stream" /\ OStep(r, y) /\ But(x, y, moved)
         /\ y.at = "stream" /\ y.begun = TRUE /\ y.sent = x.sent \cup {"created"} /\ y.cut = x.cut
         /\ y.exchanges = x.exchanges /\ y.said \in Seq(Chunks) /\ y.pending \in Nat /\ Indexed(y) /\ Interception(y)
    BY <1>0, <1>5, <2>2, <2>5, <2>6, <2>7, <2>9, <2>10
  <2> QED BY <2>20, StreamGoesOn, Zenon
<1>11. CASE /\ c = "mcp"
            /\ OStep(r, [Show(v, "mcp_call", "open") EXCEPT !.todo = <<"args">> \o Tail(@), !.pending = @ + 1])
  <2> DEFINE u == Show(v, "mcp_call", "open")
             y == [u EXCEPT !.todo = <<"args">> \o Tail(@), !.pending = @ + 1]
  <2>1. "mcp_call" \in ItemTypes \cup {"text"}
    BY DEF ItemTypes
  <2>2. OStep(r, y)
    BY <1>11
  <2>3. /\ But(v, u, {"next", "items"}) /\ Indexed(u) /\ OpenShown(u) = OpenShown(v) \cup {Len(v.items) + 1}
        /\ Cardinality(CallsShown(u)) = Cardinality(CallsShown(v)) + 1 /\ Len(u.items) = Len(v.items) + 1
    BY <1>7, <1>8, <2>1, ShowFields
  <2> HIDE DEF u
  <2>4. /\ DOMAIN u = OFields /\ u.todo = x.todo /\ u.said = x.said /\ u.at = x.at /\ u.sent = w.sent /\ u.begun = TRUE
        /\ u.cut = x.cut /\ u.exchanges = x.exchanges /\ u.pending = x.pending /\ u.made = x.made
        /\ But(x, u, {"sent", "begun", "next", "items", "listed"})
    BY <1>8, <2>3 DEF But, OFields
  <2>5. /\ y.todo = <<"args">> \o t /\ y.pending = x.pending + 1 /\ y.items = u.items /\ y.next = u.next
        /\ But(u, y, {"todo", "pending"})
    BY <2>4 DEF But, OFields
  <2> HIDE DEF y, t
  <2>6. /\ But(x, y, moved) /\ y.at = "stream" /\ y.sent = w.sent /\ y.begun = TRUE
        /\ y.cut = x.cut /\ y.exchanges = x.exchanges /\ y.pending = 1 /\ y.made = x.made /\ y.said = x.said
    BY <1>0, <1>2, <2>4, <2>5 DEF But, OFields
  <2>7. Indexed(y) /\ OpenShown(y) = {Len(y.items)} /\ Cardinality(CallsShown(y)) = x.made + 1
    BY <1>1, <1>7, <2>3, <2>5, SameShown DEF Indexed
  <2>8. Interception(y)
    BY <1>1, <1>3, <2>5, <2>6, <2>7 DEF Interception, Early
  <2>20. /\ UNCHANGED responses /\ x.at = "stream" /\ OStep(r, y) /\ But(x, y, moved)
         /\ y.at = "stream" /\ y.begun = TRUE /\ y.sent = x.sent \cup {"created"} /\ y.cut = x.cut
         /\ y.exchanges = x.exchanges /\ y.said \in Seq(Chunks) /\ y.pending \in Nat /\ Indexed(y) /\ Interception(y)
    BY <1>0, <1>1, <1>5, <2>2, <2>6, <2>7, <2>8
  <2> QED BY <2>20, StreamGoesOn, Zenon
<1>12. CASE c = "done" /\ OStep(r, [v EXCEPT !.todo = <<>>])
  <2> DEFINE y == [v EXCEPT !.todo = <<>>]
  <2>1. /\ y.todo = <<>> /\ y.items = v.items /\ y.next = v.next /\ But(v, y, {"todo"})
    BY <1>8 DEF But, OFields
  <2>2. OStep(r, y)
    BY <1>12
  <2> HIDE DEF y
  <2>3. /\ But(x, y, moved) /\ y.at = "stream" /\ y.sent = w.sent /\ y.begun = TRUE
        /\ y.cut = x.cut /\ y.exchanges = x.exchanges /\ y.pending = 0 /\ y.made = x.made /\ y.said = x.said
    BY <1>0, <1>2, <1>8, <2>1 DEF But, OFields
  <2>4. Indexed(y) /\ OpenShown(y) = {} /\ Cardinality(CallsShown(y)) = x.made
    BY <1>7, <2>1, SameShown DEF Indexed
  <2>5. Interception(y)
    BY <1>1, <2>1, <2>3, <2>4 DEF Interception, Early
  <2>20. /\ UNCHANGED responses /\ x.at = "stream" /\ OStep(r, y) /\ But(x, y, moved)
         /\ y.at = "stream" /\ y.begun = TRUE /\ y.sent = x.sent \cup {"created"} /\ y.cut = x.cut
         /\ y.exchanges = x.exchanges /\ y.said \in Seq(Chunks) /\ y.pending \in Nat /\ Indexed(y) /\ Interception(y)
    BY <1>0, <1>1, <1>5, <2>2, <2>3, <2>4, <2>5
  <2> QED BY <2>20, StreamGoesOn, Zenon
<1> QED BY <1>10, <1>11, <1>12 DEF Intercept, v, w

LEMMA StreamStops ==
    ASSUME NEW r, ProxyInv(o[r], r \in DOMAIN responses), ExecuteTools(r) \/ InterceptEnds(r) PROVE OGoes(r)
<1> DEFINE x == o[r]
           kept == r \in DOMAIN responses
           moved == {"at", "todo", "said", "begun", "next", "items", "listed", "pending", "exchanges", "sent", "cut"}
<1>0. UNCHANGED responses /\ x.at = "stream"
  BY DEF ExecuteTools, InterceptEnds, OShared
<1>1. /\ DOMAIN x = OFields /\ x.active /\ x.body.stream /\ Indexed(x) /\ Interception(x)
      /\ x.said \in Seq(Chunks) /\ x.begun \in BOOLEAN /\ x.cut \in BOOLEAN /\ x.pending \in Nat
      /\ (x.pending = 1 <=> (x.todo # <<>> /\ x.todo[1] = "args")) /\ x.pending <= 1 /\ x.made \in Nat
      /\ x.todo \in Seq(Chunks \cup {"args"})
  BY <1>0, StreamsOn
<1>2. CASE ExecuteTools(r)
  <2> DEFINE y == [x EXCEPT !.at = "judge", !.todo = <<>>, !.exchanges = Append(x.exchanges, "ok")]
  <2>1. OStep(r, y) /\ x.todo # <<>> /\ Head(x.todo) = "args"
    BY <1>2 DEF ExecuteTools
  <2>2. x.pending = 1
    BY <1>1, <2>1
  <2>3. /\ But(x, y, moved) /\ y.at = "judge" /\ y.todo = <<>> /\ y.exchanges = Append(x.exchanges, "ok")
        /\ y.ticks = x.ticks /\ y.body = x.body /\ y.items = x.items /\ y.next = x.next /\ y.pending = x.pending
        /\ y.cut = x.cut /\ y.sent = x.sent /\ y.said = x.said /\ y.begun = x.begun /\ y.made = x.made
    BY <1>1 DEF But, OFields
  <2> HIDE DEF y
  <2>4. /\ Heard(y) /\ y.exchanges \in Seq(Outcomes)
        /\ Count("failed", y.exchanges) = Count("failed", x.exchanges)
    BY <2>3, ProxyHeard
  <2>5. OpenShown(y) = OpenShown(x) /\ CallsShown(y) = CallsShown(x)
    BY <2>3, SameShown
  <2>50. Indexed(y)
    BY <1>1, <2>3 DEF Indexed
  <2>51. <<>> \in Seq(Chunks)
    OBVIOUS
  <2>6. Interception(y)
    BY <1>1, <2>2, <2>3, <2>5 DEF Interception, Early
  <2>7. ProxyInv(y, kept)
    BY <1>0, <1>1, <2>3, <2>4, <2>5, <2>50, <2>51, <2>6, ProxyInLoop
  <2> QED BY <1>0, <2>1, <2>7 DEF OGoes
<1>3. CASE InterceptEnds(r)
  <2> DEFINE cut == x.todo # <<>>
             y == [x EXCEPT !.at = "final", !.todo = <<>>, !.cut = cut]
  <2>1. OStep(r, y)
    BY <1>3 DEF InterceptEnds
  <2>2. cut \in BOOLEAN /\ (cut \/ x.pending = 0)
    BY <1>1
  <2> HIDE DEF cut
  <2>3. /\ But(x, y, moved) /\ y.at = "final" /\ y.todo = <<>> /\ y.exchanges = x.exchanges
        /\ y.ticks = x.ticks /\ y.body = x.body /\ y.items = x.items /\ y.next = x.next /\ y.pending = x.pending
        /\ y.cut = cut /\ y.sent = x.sent /\ y.said = x.said /\ y.begun = x.begun /\ y.made = x.made
    BY <1>1 DEF But, OFields
  <2> HIDE DEF y
  <2>4. Heard(y) /\ y.exchanges \in Seq(Outcomes)
    BY <2>3, SameHeard
  <2>5. OpenShown(y) = OpenShown(x) /\ CallsShown(y) = CallsShown(x)
    BY <2>3, SameShown
  <2>50. Indexed(y)
    BY <1>1, <2>3 DEF Indexed
  <2>51. <<>> \in Seq(Chunks)
    OBVIOUS
  <2>6. Interception(y)
    BY <1>1, <2>2, <2>3, <2>5 DEF Interception, Early
  <2>7. ProxyInv(y, kept)
    BY <1>0, <1>1, <2>2, <2>3, <2>4, <2>5, <2>50, <2>51, <2>6, ProxyInLoop
  <2> QED BY <1>0, <2>1, <2>7 DEF OGoes
<1> QED BY <1>2, <1>3

LEMMA OMetadataType ==
    ASSUME NEW r, o[r].made \in Nat, NEW out \in Seq(ItemTypes) PROVE OMetadata(r, out) \in Seq(ItemTypes)
<1>1. Repeat("mcp_call", o[r].made) \in Seq(ItemTypes)
  BY StoredRepeat DEF ItemTypes
<1>2. <<"mcp_list_tools">> \in Seq(ItemTypes)
  BY DEF ItemTypes
<1> QED BY <1>1, <1>2 DEF OMetadata

\* An answer in hand is complete.
LEMMA ProxyConcludes ==
    ASSUME NEW r, ProxyInv(o[r], r \in DOMAIN responses), UNCHANGED responses, o[r].at = "judge",
           NEW out \in Seq(ItemTypes), OStep(r, [o[r] EXCEPT !.at = "store", !.out = out])
    PROVE  OGoes(r)
<1> DEFINE x == o[r]
           y == [x EXCEPT !.at = "store", !.out = out]
<1>1. /\ DOMAIN x = OFields /\ x.todo \in Seq(Chunks) /\ x.cut \in BOOLEAN /\ x.exchanges \in Seq(Outcomes)
      /\ x.ticks \in Seq(Ticks) /\ "completed" \notin x.sent
  BY SeenSeqs DEF ProxyInv, ProxyType, StreamShown
<1>2. /\ But(x, y, {"at", "todo", "cut", "out", "exchanges", "ticks", "sent"}) /\ y.at = "store" /\ y.out = out
      /\ y.todo = x.todo /\ y.cut = x.cut /\ y.exchanges = x.exchanges /\ y.ticks = x.ticks /\ y.sent = x.sent
      /\ y.body = x.body
  BY <1>1 DEF But, OFields
<1>3. OStep(r, y)
  OBVIOUS
<1> HIDE DEF y
<1>4. Heard(y)
  BY <1>2 DEF ProxyInv, Heard
<1>5. ProxyInv(y, r \in DOMAIN responses)
  BY <1>1, <1>2, <1>4, ProxyStores
<1> QED BY <1>3, <1>5 DEF OGoes

LEMMA JudgeActions ==
    ASSUME NEW r, ProxyInv(o[r], r \in DOMAIN responses), ReachLimit(r) \/ BeginTools(r) \/ LoopFinal(r) PROVE OGoes(r)
<1> DEFINE x == o[r]
           kept == r \in DOMAIN responses
<1>0. /\ DOMAIN x = OFields /\ UNCHANGED responses /\ x.at = "judge" /\ x.active /\ x.said \in Seq(Chunks)
      /\ x.pending \in Nat /\ x.total \in Nat /\ x.made \in Nat /\ x.made = x.total /\ x.body.max \in Nat \cup {NoLimit}
      /\ x.exchanges \in Seq(Outcomes) /\ x.ticks \in Seq(Ticks)
  BY SeenSeqs DEF ReachLimit, BeginTools, LoopFinal, OShared, ProxyInv, ProxyType, ToolsFit
<1>1. Converted(x.said) \in Seq(ItemTypes) /\ Spoken(x.said) \in Seq(ItemTypes)
  BY <1>0, ConvertedType, SpokenType
<1>2. CASE LoopFinal(r)
  <2>1. OMetadata(r, Converted(x.said)) \in Seq(ItemTypes)
    BY <1>0, <1>1, OMetadataType
  <2>2. CASE x.total > 0
    BY <1>0, <1>1, <1>2, <2>1, <2>2, ProxyConcludes DEF LoopFinal
  <2>3. CASE ~(x.total > 0)
    BY <1>0, <1>1, <1>2, <2>1, <2>3, ProxyConcludes DEF LoopFinal
  <2> QED BY <2>2, <2>3
<1>3. CASE ReachLimit(r) /\ ~x.body.stream
  <2> DEFINE left == Repeat("mcp_call", Calls(x.said))
             items == left \o Converted(x.said)
  <2>1. left \in Seq(ItemTypes)
    BY <1>0, CallsType, StoredRepeat DEF ItemTypes
  <2>3. OStep(r, [x EXCEPT !.at = "store", !.out = OMetadata(r, items)])
    BY <1>3 DEF ReachLimit, OB
  <2> HIDE DEF left
  <2>4. items \in Seq(ItemTypes)
    BY <1>1, <2>1
  <2> HIDE DEF items
  <2>5. OMetadata(r, items) \in Seq(ItemTypes)
    BY <1>0, <2>4, OMetadataType
  <2> QED BY <1>0, <2>3, <2>5, ProxyConcludes
<1>4. CASE ReachLimit(r) /\ x.body.stream
  <2> DEFINE y == [OEnd(x, "incomplete") EXCEPT !.ticks = @ \o Good, !.sent = @ \cup {"error", "DONE"}]
  <2>1. OStep(r, y)
    BY <1>4 DEF ReachLimit, OB
  <2>2. /\ But(x, y, {"at", "answer", "ticks", "sent"}) /\ y.at = "end" /\ y.ticks = x.ticks \o Good
        /\ y.sent = x.sent \cup {"error", "DONE"}
    BY <1>0 DEF OEnd, But, OFields
  <2> HIDE DEF y
  <2>3. /\ But(x, y, {"at", "answer", "exchanges", "ticks", "sent", "made", "stored"}) /\ y.exchanges = x.exchanges
        /\ y.made = x.made /\ y.body = x.body /\ y.stored = x.stored /\ y.active = x.active
    BY <2>2 DEF But, OFields
  <2>4. "ok" \in Outcomes
    BY DEF Outcomes
  <2>5. Counted(x.exchanges, x.ticks, "ok", Good, Append(x.exchanges, "ok"), y.ticks)
    BY <1>0, <2>2, <2>4, ExchangeCounts, HeardCounts
  <2>6. /\ Count("ok", y.ticks) = Count("ok", x.ticks) + 1 /\ Count("failed", y.ticks) = Count("failed", x.ticks)
        /\ Count("ok", x.ticks) \in Nat /\ Count("failed", x.ticks) \in Nat /\ y.ticks \in Seq(Ticks)
        /\ Count("ok", x.exchanges) \in Nat
    BY <2>5, HeardCounts DEF Counted
  <2>7. Heard(y)
    BY <1>0, <1>4, <2>2, <2>3, <2>6 DEF ProxyInv, Heard
  <2>8. StoredRight(y, kept)
    BY <1>0, <2>2, <2>3 DEF ProxyInv, StoredRight
  <2>80. /\ ProxyInv(x, kept) /\ y.at = "end" /\ y.exchanges \in Seq(Outcomes) /\ y.ticks \in Seq(Ticks)
         /\ y.made \in Nat /\ y.made <= x.total /\ ("completed" \in y.sent => "completed" \in x.sent) /\ y.made = x.made
    BY <1>0, <2>2, <2>3, <2>6
  <2>9. ProxyInv(y, kept)
    BY <2>3, <2>7, <2>8, <2>80, ProxyEnds
  <2> QED BY <1>0, <2>1, <2>9 DEF OGoes
<1>5. CASE BeginTools(r)
  <2> DEFINE n == x.total + x.pending
             y == [x EXCEPT !.at = "calling", !.total = n]
  <2>1. OStep(r, y) /\ x.pending > 0
    BY <1>5 DEF BeginTools, Total
  <2>2. n <= Limit(x.body) /\ n \in Nat
    <3>1. OLimit(r) = Limit(x.body) /\ Limit(x.body) \in Nat
      BY <1>0, LimitType DEF OLimit, Limit, OB
    <3>2. ~ (n > Limit(x.body))
      BY <1>5, <3>1 DEF BeginTools, OverTotal, Total
    <3> QED BY <1>0, <3>1, <3>2
  <2>3. x.made + x.pending = n
    BY <1>0
  <2>4. /\ But(x, y, {"at", "total"}) /\ y.at = "calling" /\ y.total = n
    BY <1>0 DEF But, OFields
  <2> HIDE DEF y, n
  <2>5. ProxyType(y)
    BY <1>0, <2>2, <2>4 DEF ProxyInv, ProxyType, But, OFields, Early
  <2>6. Heard(y) /\ StoredRight(y, kept)
    BY <1>0, <2>4 DEF ProxyInv, Heard, StoredRight, But, OFields
  <2>70. y.made = x.made /\ y.pending = x.pending /\ y.body = x.body
    BY <2>4 DEF But, OFields
  <2>71. ToolsFit(y)
    BY <1>0, <2>1, <2>2, <2>3, <2>4, <2>70 DEF ToolsFit
  <2>7. ToolsFit(y) /\ ToolsFed(y)
    BY <2>4, <2>71 DEF ToolsFed
  <2>8. StreamShown(y)
    <3>1. /\ y.items = x.items /\ y.next = x.next /\ y.body = x.body /\ y.cut = x.cut /\ y.sent = x.sent
          /\ y.pending = x.pending /\ y.made = x.made
          /\ OpenShown(y) = OpenShown(x) /\ CallsShown(y) = CallsShown(x)
      BY <2>4, SameShown DEF But, OFields
    <3>2. "completed" \notin x.sent /\ (x.body.stream => Interception(x))
      BY <1>0 DEF ProxyInv, StreamShown
    <3>3. x.body.stream => Interception(y)
      BY <1>0, <2>4, <3>1, <3>2 DEF Interception, Early
    <3> QED BY <2>4, <3>1, <3>2, <3>3 DEF ProxyInv, StreamShown
  <2>9. ProxyInv(y, kept)
    BY <2>5, <2>6, <2>7, <2>8 DEF ProxyInv
  <2> QED BY <1>0, <2>1, <2>9 DEF OGoes
<1> QED BY <1>2, <1>3, <1>4, <1>5

LEMMA LoopInput ==
    ASSUME NEW n \in Nat
    PROVE  LET in == <<"own">> \o Repeat("called", n)
           IN  in \in Seq(InputItems) /\ "own" \in ToSet(in) /\ Count("called", in) = n
<1> DEFINE own == <<"own">>
           rep == Repeat("called", n)
           in == own \o rep
<1>1. own \in Seq(InputItems) /\ "own" \in InputItems
  BY DEF InputItems
<1>2. rep \in Seq(InputItems) /\ Count("called", rep) = n
  <2>1. rep \in Seq(InputItems)
    BY DEF Repeat, InputItems
  <2>2. Count("called", rep) = n
    BY CountRepeat
  <2> QED BY <2>1, <2>2
<1>3. Count("called", own) = 0
  BY <1>1, CountOne
<1>4. 1 \in DOMAIN in /\ in[1] = "own"
  BY <1>1, <1>2
<1> HIDE DEF own, rep
<1>5. Count("called", in) = Count("called", own) + Count("called", rep)
  BY <1>1, <1>2, CountConcat
<1>6. in \in Seq(InputItems)
  BY <1>1, <1>2
<1>7. "own" \in ToSet(in)
  BY <1>4 DEF ToSet
<1>8. Count("called", in) = n
  BY <1>2, <1>3, <1>5
<1> QED BY <1>6, <1>7, <1>8 DEF own, rep

LEMMA MinOne == ASSUME NEW n \in Nat PROVE Min({n}) = n
BY DEF Min

LEMMA ClosedItem ==
    ASSUME NEW e \in OItems, NEW f, f = [e EXCEPT !.wire = "closed"]
    PROVE  f \in OItems /\ f.index = e.index /\ f.type = e.type /\ f.wire = "closed"
BY DEF OItems

\* Closing the one call that is open.
LEMMA CloseLast ==
    ASSUME NEW x, Indexed(x), OpenShown(x) = {Len(x.items)}, NEW y, y.items = CloseFirst(x.items, OpenShown(x)),
           y.next = x.next
    PROVE  Indexed(y) /\ OpenShown(y) = {} /\ CallsShown(y) = CallsShown(x)
<1> DEFINE n == Len(x.items)
<1>1. n \in Nat /\ x.items \in Seq(OItems) /\ DOMAIN x.items = 1..n /\ n \in 1..n
  BY DEF Indexed, OpenShown
<1>2. y.items = [x.items EXCEPT ![n].wire = "closed"]
  BY <1>1, MinOne DEF CloseFirst
<1>3. /\ \A i \in 1..n : i # n => y.items[i] = x.items[i]
      /\ y.items[n] = [x.items[n] EXCEPT !.wire = "closed"]
      /\ DOMAIN y.items = 1..n
  BY <1>1, <1>2
<1>4. /\ x.items[n] \in OItems /\ y.items[n] \in OItems /\ y.items[n].index = x.items[n].index
      /\ y.items[n].type = x.items[n].type /\ y.items[n].wire = "closed"
  <2>1. x.items[n] \in OItems
    BY <1>1
  <2>2. y.items[n] = [x.items[n] EXCEPT !.wire = "closed"]
    BY <1>3
  <2> QED BY <2>1, <2>2, ClosedItem, Zenon
<1>5. y.items \in Seq(OItems) /\ Len(y.items) = n
  <2>1. ASSUME NEW i \in 1..n PROVE y.items[i] \in OItems
    <3>1. x.items[i] \in OItems
      BY <1>1
    <3>2. CASE i = n
      BY <1>4, <3>2
    <3>3. CASE i # n
      BY <1>3, <3>1, <3>3
    <3> QED BY <3>2, <3>3
  <2>2. y.items = [i \in 1..n |-> y.items[i]]
    BY <1>1, <1>2
  <2> DEFINE s == y.items
  <2>3. s = [i \in 1..n |-> s[i]] /\ \A i \in 1..n : s[i] \in OItems
    BY <2>1, <2>2
  <2> HIDE DEF s
  <2>4. s \in [1..n -> OItems]
    BY <2>3
  <2>5. s \in Seq(OItems)
    BY <1>1, <2>4
  <2>6. Len(s) = n
    BY <1>1, <2>4, <2>5
  <2> QED BY <2>5, <2>6 DEF s
<1>6. Indexed(y)
  BY <1>1, <1>3, <1>4, <1>5 DEF Indexed
<1>7. OpenShown(y) = {}
  <2>1. \A i \in 1..n : i # n => x.items[i].wire # "open"
    BY <1>1 DEF OpenShown
  <2>2. \A i \in DOMAIN y.items : y.items[i].wire # "open"
    BY <1>3, <1>4, <2>1
  <2> QED BY <2>2 DEF OpenShown
<1>8. CallsShown(y) = CallsShown(x)
  BY <1>1, <1>3, <1>4 DEF CallsShown
<1> QED BY <1>6, <1>7, <1>8

LEMMA ToolCalled ==
    ASSUME NEW r, ProxyInv(o[r], r \in DOMAIN responses), CallTool(r) PROVE OGoes(r)
<1> DEFINE x == o[r]
           kept == r \in DOMAIN responses
<1>0. /\ DOMAIN x = OFields /\ UNCHANGED responses /\ x.at = "calling" /\ x.active /\ Indexed(x)
      /\ x.pending \in Nat /\ x.pending > 0 /\ x.total \in Nat /\ x.made \in Nat /\ x.made + x.pending = x.total
      /\ x.exchanges \in Seq(Outcomes) /\ x.ticks \in Seq(Ticks) /\ "completed" \notin x.sent
      /\ x.total <= Limit(x.body)
  BY SeenSeqs DEF CallTool, OShared, ProxyInv, ProxyType, ToolsFit, StreamShown, Indexed
<1>1. CASE x.gone
  <2> DEFINE y == [OEnd(x, "dropped") EXCEPT !.made = x.made + 1]
  <2>1. OStep(r, y)
    BY <1>1 DEF CallTool, OEnd
  <2>2. /\ But(x, y, {"at", "answer", "exchanges", "ticks", "sent", "made", "stored"}) /\ y.at = "end"
        /\ y.exchanges = x.exchanges /\ y.ticks = x.ticks /\ y.sent = x.sent /\ y.made = x.made + 1
        /\ y.body = x.body /\ y.stored = x.stored /\ y.active = x.active
    BY <1>0 DEF OEnd, But, OFields
  <2> HIDE DEF y
  <2>3. Heard(y)
    BY <1>0, <2>2 DEF ProxyInv, Heard
  <2>4. StoredRight(y, kept)
    BY <1>0, <2>2 DEF ProxyInv, StoredRight
  <2>5. /\ ProxyInv(x, kept) /\ y.exchanges \in Seq(Outcomes) /\ y.ticks \in Seq(Ticks)
        /\ y.made \in Nat /\ y.made <= x.total /\ ("completed" \in y.sent => "completed" \in x.sent)
        /\ "completed" \notin x.sent
    BY <1>0, <2>2
  <2>6. ProxyInv(y, kept)
    BY <2>2, <2>3, <2>4, <2>5, ProxyEnds
  <2> QED BY <1>0, <2>1, <2>6 DEF OGoes
<1>2. CASE ~x.gone
  <2> DEFINE left == x.pending - 1
             in == <<"own">> \o Repeat("called", x.made + 1)
             items == CloseFirst(x.items, OpenShown(x))
             at == IF left = 0 THEN "send" ELSE "calling"
             y == [x EXCEPT !.made = x.made + 1, !.pending = left, !.items = items, !.at = at, !.input = in]
  <2>1. OStep(r, y)
    BY <1>2 DEF CallTool, OpenShown
  <2>2. in \in Seq(InputItems) /\ "own" \in ToSet(in) /\ Count("called", in) = x.made + 1
    <3>1. x.made + 1 \in Nat
      BY <1>0
    <3> QED BY <3>1, LoopInput
  <2>3. left \in Nat /\ left + 1 = x.pending /\ at \in {"send", "calling"} /\ (at = "send" <=> left = 0)
    BY <1>0
  <2> HIDE DEF left, in, items, at
  <2>4. /\ But(x, y, {"made", "pending", "items", "at", "input"}) /\ y.made = x.made + 1 /\ y.pending = left
        /\ y.items = items /\ y.at = at /\ y.input = in /\ y.next = x.next /\ y.body = x.body /\ y.cut = x.cut
        /\ y.sent = x.sent /\ y.active = x.active /\ y.total = x.total
    BY <1>0 DEF But, OFields
  <2>40. /\ y.todo = x.todo /\ y.begun = x.begun /\ y.gone = x.gone /\ y.said = x.said /\ y.out = x.out
         /\ y.exchanges = x.exchanges /\ y.ticks = x.ticks /\ DOMAIN y = OFields
    BY <1>0 DEF OFields
  <2> HIDE DEF y
  <2>41. x.made + 1 \in Nat
    BY <1>0
  <2>5. ProxyType(y)
    <3>1. ProxyType(x)
      BY DEF ProxyInv
    <3>2. y.at \notin Early /\ y.at \notin {"stream", "link", "end", "judge", "final"}
      BY <2>3, <2>4 DEF Early
    <3>3. x.todo \in Seq(Chunks)
      BY <1>0, <3>1 DEF ProxyType
    <3>4. y.made \in Nat /\ y.pending \in Nat /\ y.input \in Seq(InputItems) /\ y.active
      BY <1>0, <2>2, <2>3, <2>4, <2>41
    <3> QED BY <2>4, <2>40, <3>1, <3>2, <3>3, <3>4 DEF ProxyType
  <2>6. Heard(y) /\ StoredRight(y, kept)
    <3>1. Heard(x) /\ StoredRight(x, kept)
      BY DEF ProxyInv
    <3>2. y.stored = x.stored
      BY <2>4 DEF But, OFields
    <3>3. x.at = "calling" /\ y.at \notin {"end", "link", "store", "judge"}
      BY <1>0, <2>3, <2>4
    <3>4. Heard(y)
      BY <2>4, <2>40, <3>1, <3>3 DEF Heard
    <3>5. StoredRight(y, kept)
      BY <2>4, <2>40, <3>1, <3>2, <3>3 DEF StoredRight
    <3> QED BY <3>4, <3>5
  <2>7. ToolsFit(y)
    <3>1. Limit(y.body) = Limit(x.body) /\ y.made = x.made + 1 /\ y.total = x.total /\ y.pending = left /\ y.at = at
      BY <2>4
    <3>2. x.made + 1 <= x.total /\ (x.made + 1) + left = x.total /\ (left = 0 => x.made + 1 = x.total)
      <4> DEFINE m == x.made
                 p == x.pending
                 t == x.total
      <4>1. m \in Nat /\ p \in Nat /\ t \in Nat /\ left \in Nat /\ m + p = t /\ left + 1 = p
        BY <1>0, <2>3
      <4> HIDE DEF m, p, t
      <4>2. m + 1 <= t /\ (m + 1) + left = t /\ (left = 0 => m + 1 = t)
        BY <4>1
      <4> QED BY <4>2 DEF m, p, t
    <3>3. at = "calling" => left > 0
      BY <2>3
    <3> QED BY <1>0, <2>3, <3>1, <3>2, <3>3 DEF ToolsFit
  <2>8. ToolsFed(y)
    BY <2>2, <2>3, <2>4 DEF ToolsFed
  <2>9. StreamShown(y)
    <3>1. CASE ~x.body.stream
      <4>1. x.items = <<>>
        BY <3>1 DEF ProxyInv, StreamShown
      <4>2. y.items = <<>>
        BY <4>1, <2>4 DEF items, CloseFirst, OpenShown
      <4>3. Indexed(y)
        BY <1>0, <2>4, <4>1, <4>2 DEF Indexed
      <4> QED BY <1>0, <2>4, <3>1, <4>2, <4>3 DEF StreamShown, Indexed
    <3>2. CASE x.body.stream
      <4>1. Interception(x)
        BY <1>0, <3>2 DEF ProxyInv, StreamShown
      <4>2. /\ x.pending = 1 /\ OpenShown(x) = {Len(x.items)}
            /\ Cardinality(CallsShown(x)) = x.made + 1
        BY <1>0, <4>1 DEF Interception
      <4>3. Indexed(y) /\ OpenShown(y) = {} /\ CallsShown(y) = CallsShown(x)
        BY <1>0, <2>4, <4>2, CloseLast DEF items
      <4>4. left = 0 /\ at = "send"
        BY <2>3, <4>2
      <4>5. Interception(y)
        BY <1>0, <2>4, <4>2, <4>3, <4>4 DEF Interception, Early
      <4> QED BY <1>0, <2>4, <3>2, <4>3, <4>5 DEF StreamShown, Indexed
    <3> QED BY <3>1, <3>2
  <2>10. ProxyInv(y, kept)
    BY <2>5, <2>6, <2>7, <2>8, <2>9 DEF ProxyInv
  <2> QED BY <1>0, <2>1, <2>10 DEF OGoes
<1> QED BY <1>1, <1>2

\* The end of an intercepted stream.
LEMMA ProxyCompletes ==
    ASSUME NEW x, NEW kept, ProxyInv(x, kept), x.at = "final", x.active, NEW y,
           But(x, y, {"at", "answer", "sent", "exchanges", "ticks"}), y.at = "end",
           y.exchanges \in Seq(Outcomes), y.ticks \in Seq(Ticks), Heard(y),
           x.cut \/ (OpenShown(x) = {} /\ Cardinality(CallsShown(x)) = x.made)
    PROVE  ProxyInv(y, kept)
<1>1. ProxyType(y)
  BY DEF ProxyInv, ProxyType, But, OFields, Early, Outcomes, Ticks
<1>2. ToolsFit(y) /\ ToolsFed(y)
  BY DEF ProxyInv, ProxyType, ToolsFit, ToolsFed, But, OFields
<1>3. StreamShown(y)
  <2>1. /\ y.items = x.items /\ y.next = x.next /\ y.body = x.body /\ y.cut = x.cut /\ y.made = x.made
        /\ OpenShown(y) = OpenShown(x) /\ CallsShown(y) = CallsShown(x)
    BY SameShown DEF But, OFields
  <2> QED BY <2>1 DEF ProxyInv, StreamShown, Early
<1>4. StoredRight(y, kept)
  <2>1. y.body = x.body /\ y.stored = x.stored /\ y.active = x.active
    BY DEF But, OFields
  <2> QED BY <2>1 DEF ProxyInv, StoredRight
<1> QED BY <1>1, <1>2, <1>3, <1>4 DEF ProxyInv

LEMMA InterceptFinishes ==
    ASSUME NEW r, ProxyInv(o[r], r \in DOMAIN responses), InterceptFinal(r) PROVE OGoes(r)
<1> DEFINE x == o[r]
           kept == r \in DOMAIN responses
           shown == IF x.begun THEN {"completed"} ELSE {}
           ended == Append(x.exchanges, "ok")
<1>0. /\ DOMAIN x = OFields /\ UNCHANGED responses /\ x.at = "final" /\ x.active /\ x.said \in Seq(Chunks)
      /\ x.made \in Nat /\ x.pending \in Nat /\ x.todo \in Seq(Chunks) /\ x.cut \in BOOLEAN /\ x.body.stream
      /\ Interception(x)
  BY SeenSeqs DEF InterceptFinal, OShared, ProxyInv, ProxyType, StreamShown
<1>1. x.cut \/ (OpenShown(x) = {} /\ Cardinality(CallsShown(x)) = x.made)
  BY <1>0 DEF Interception
<1>2. OMetadata(r, Converted(x.said)) \in Seq(ItemTypes)
  BY <1>0, ConvertedType, OMetadataType
<1>3. CASE NeedPersistence(r) /\ x.begun
  <2> DEFINE y == [x EXCEPT !.at = "store", !.out = OMetadata(r, Converted(x.said)), !.exchanges = ended,
                            !.sent = x.sent \cup shown]
  <2>1. OStep(r, y)
    BY <1>3 DEF InterceptFinal
  <2>2. /\ But(x, y, {"at", "todo", "cut", "out", "exchanges", "ticks", "sent"}) /\ y.at = "store"
        /\ y.out = OMetadata(r, Converted(x.said)) /\ y.exchanges = Append(x.exchanges, "ok") /\ y.ticks = x.ticks
        /\ y.todo = x.todo /\ y.cut = x.cut /\ y.body = x.body
    BY <1>0 DEF But, OFields
  <2> HIDE DEF y
  <2>3. /\ Heard(y) /\ y.exchanges \in Seq(Outcomes) /\ y.ticks \in Seq(Ticks)
        /\ Count("failed", y.exchanges) = Count("failed", x.exchanges)
    BY <2>2, ProxyHeard
  <2>4. /\ ProxyInv(x, kept) /\ x.at \in {"send", "pass", "judge", "final"} /\ y.todo \in Seq(Chunks)
        /\ y.cut \in BOOLEAN /\ y.out \in Seq(ItemTypes)
        /\ ("completed" \in y.sent => y.cut \/ (OpenShown(x) = {} /\ Cardinality(CallsShown(x)) = x.made))
    BY <1>0, <1>1, <1>2, <2>2
  <2>5. ProxyInv(y, kept)
    BY <2>2, <2>3, <2>4, ProxyStores
  <2> QED BY <1>0, <2>1, <2>5 DEF OGoes
<1>4. CASE ~(NeedPersistence(r) /\ x.begun)
  <2> DEFINE z == OEnd(Exchanged(x, "ok", Good), "ok")
             y == [z EXCEPT !.sent = (z.sent \cup shown) \cup {"DONE"}]
  <2>1. OStep(r, y)
    BY <1>4 DEF InterceptFinal
  <2>2. /\ But(x, z, {"exchanges", "ticks"} \cup {"at", "answer"}) /\ z.at = "end"
        /\ z.exchanges = Append(x.exchanges, "ok") /\ z.ticks = x.ticks \o Good
    <3>1. /\ But(x, Exchanged(x, "ok", Good), {"exchanges", "ticks"})
          /\ Exchanged(x, "ok", Good).exchanges = Append(x.exchanges, "ok")
          /\ Exchanged(x, "ok", Good).ticks = x.ticks \o Good
      BY <1>0 DEF Exchanged, But, OFields
    <3>2. But(Exchanged(x, "ok", Good), z, {"at", "answer"}) /\ z.at = "end"
      BY <3>1, OEndFields DEF But
    <3>3. But(x, z, {"exchanges", "ticks"} \cup {"at", "answer"})
      BY <3>1, <3>2, ButTrans
    <3>4. z.exchanges = Exchanged(x, "ok", Good).exchanges /\ z.ticks = Exchanged(x, "ok", Good).ticks
      BY <3>2 DEF But, OFields
    <3> QED BY <3>1, <3>2, <3>3, <3>4
  <2> HIDE DEF z
  <2>3. /\ But(x, y, {"at", "answer", "sent", "exchanges", "ticks"}) /\ y.at = "end"
        /\ y.exchanges = Append(x.exchanges, "ok") /\ y.ticks = x.ticks \o Good /\ y.body = x.body
    BY <2>2 DEF But, OFields
  <2> HIDE DEF y
  <2>4. Heard(y) /\ y.exchanges \in Seq(Outcomes) /\ y.ticks \in Seq(Ticks)
    BY <2>3, ProxyHeard
  <2>5. ProxyInv(y, kept)
    BY <1>0, <1>1, <2>3, <2>4, ProxyCompletes
  <2> QED BY <1>0, <2>1, <2>5 DEF OGoes
<1> QED BY <1>3, <1>4

LEMMA ProxyKept ==
    ASSUME NEW x, NEW kept, NEW more, ProxyInv(x, kept), kept => more PROVE ProxyInv(x, more)
BY DEF ProxyInv, StoredRight

\* The end of the store.
LEMMA ProxyStops ==
    ASSUME NEW r, NEW kept, ProxyInv(o[r], kept), o[r].at \in {"store", "link"}, NEW stored \in {"yes", "failed"},
           ~o[r].body.chat /\ stored = "yes" => kept
    PROVE  ProxyInv(OStop(r, stored), kept)
<1> DEFINE x == o[r]
           y == OStop(r, stored)
<1>0. /\ DOMAIN x = OFields /\ x.exchanges \in Seq(Outcomes) /\ x.ticks \in Seq(Ticks) /\ x.made \in Nat
      /\ x.made <= x.total /\ x.body.stream \in BOOLEAN
      /\ \A v : Count(v, x.exchanges) \in Nat /\ Count(v, x.ticks) \in Nat
  BY SeenSeqs DEF ProxyInv, ProxyType, ToolsFit
<1>1. /\ But(x, y, {"at", "answer", "ticks", "sent", "stored"}) /\ y.at = "end" /\ y.stored = stored
      /\ y.ticks = (IF x.body.stream THEN x.ticks \o Good ELSE x.ticks)
      /\ ("completed" \in y.sent => "completed" \in x.sent)
  <2> DEFINE e == [OEnd(x, "ok") EXCEPT !.stored = stored]
  <2>1. But(x, e, {"at", "answer", "stored"}) /\ e.at = "end" /\ e.stored = stored /\ e.ticks = x.ticks /\ e.sent = x.sent
    BY <1>0 DEF OEnd, But, OFields
  <2>2. CASE ~x.body.stream
    <3>1. y = e
      BY <2>2 DEF OStop, OB
    <3> QED BY <2>1, <2>2, <3>1 DEF But
  <2>3. CASE x.body.stream
    <3>1. y = [Sent(e, "DONE") EXCEPT !.ticks = e.ticks \o Good]
      BY <2>3, <2>1 DEF OStop, OB, Sent, But, OFields
    <3> HIDE DEF e, y
    <3>2. DOMAIN e = OFields
      BY <2>1 DEF But
    <3>3. But(e, Sent(e, "DONE"), {"sent"}) /\ Sent(e, "DONE").sent = e.sent \cup {"DONE"}
      BY <3>2, SentFields
    <3>4. But(e, y, {"sent", "ticks"}) /\ y.ticks = e.ticks \o Good /\ y.sent = e.sent \cup {"DONE"}
      BY <3>1, <3>2, <3>3 DEF But, OFields
    <3> QED BY <2>1, <2>3, <3>4 DEF But, OFields
  <2> QED BY <1>0, <2>2, <2>3
<1> HIDE DEF y
<1>2. y.exchanges = x.exchanges /\ y.body = x.body /\ y.made = x.made /\ y.active = x.active /\ y.begun = x.begun
  BY <1>1 DEF But, OFields
<1>3. y.ticks \in Seq(Ticks) /\ Heard(y)
  <2>1. CASE ~x.body.stream
    BY <1>0, <1>1, <1>2, <2>1 DEF ProxyInv, Heard
  <2>2. CASE x.body.stream
    <3>1. "ok" \in Outcomes
      BY DEF Outcomes
    <3>2. Counted(x.exchanges, x.ticks, "ok", Good, Append(x.exchanges, "ok"), y.ticks)
      BY <1>0, <1>1, <2>2, <3>1, ExchangeCounts, HeardCounts
    <3>3. /\ Count("ok", y.ticks) = Count("ok", x.ticks) + 1 /\ Count("failed", y.ticks) = Count("failed", x.ticks)
          /\ y.ticks \in Seq(Ticks)
      BY <3>2, HeardCounts, <1>0 DEF Counted
    <3>4. Count("ok", x.ticks) < Count("ok", x.exchanges) /\ Count("failed", x.ticks) >= Count("failed", x.exchanges)
      BY <2>2 DEF ProxyInv, Heard
    <3> QED BY <1>0, <1>1, <1>2, <3>3, <3>4 DEF Heard
  <2> QED BY <2>1, <2>2
<1>4. StoredRight(y, kept)
  BY <1>1, <1>2 DEF ProxyInv, StoredRight
<1>5. But(x, y, {"at", "answer", "exchanges", "ticks", "sent", "made", "stored"})
  BY <1>1 DEF But
<1>6. ProxyInv(y, kept)
  BY <1>0, <1>1, <1>2, <1>3, <1>4, <1>5, ProxyEnds
<1> QED BY <1>6 DEF y

LEMMA ProxyLinks ==
    ASSUME NEW x, NEW kept, ProxyInv(x, kept), x.at \in {"store", "link"}, NEW y, But(x, y, {"at", "stored", "todo"}),
           y.at = "link", ~x.body.chat => kept /\ y.stored = "yes", y.todo \in Seq(ItemTypes)
    PROVE  ProxyInv(y, kept)
<1>1. ProxyType(y)
  BY DEF ProxyInv, ProxyType, But, OFields, Early
<1>2. ToolsFit(y) /\ ToolsFed(y)
  BY DEF ProxyInv, ProxyType, ToolsFit, ToolsFed, But, OFields
<1>3. StreamShown(y)
  <2>1. /\ y.items = x.items /\ y.next = x.next /\ y.body = x.body /\ y.cut = x.cut /\ y.made = x.made /\ y.sent = x.sent
        /\ OpenShown(y) = OpenShown(x) /\ CallsShown(y) = CallsShown(x)
    BY SameShown DEF But, OFields
  <2> QED BY <2>1 DEF ProxyInv, StreamShown, Early
<1>4. Heard(y) /\ StoredRight(y, kept)
  <2>1. /\ y.body = x.body /\ y.active = x.active /\ y.begun = x.begun /\ y.exchanges = x.exchanges
        /\ y.ticks = x.ticks
    BY DEF But, OFields
  <2> QED BY <2>1 DEF ProxyInv, StoredRight, Heard
<1> QED BY <1>1, <1>2, <1>3, <1>4 DEF ProxyInv

LEMMA ProxyLeaves ==
    ASSUME NEW r, ProxyInv(o[r], r \in DOMAIN responses), OLeave(r) PROVE OGoes(r)
<1> DEFINE x == o[r]
           kept == r \in DOMAIN responses
<1>0. /\ DOMAIN x = OFields /\ UNCHANGED responses /\ x.at \notin {"new", "end"}
      /\ x.exchanges \in Seq(Outcomes) /\ x.ticks \in Seq(Ticks) /\ x.made \in Nat /\ x.made <= x.total
  BY SeenSeqs DEF OLeave, OShared, ProxyInv, ProxyType, ToolsFit
<1>1. CASE x.body.stream /\ (x.active \/ x.at \in {"pass", "store", "link"})
  <2> DEFINE y == [x EXCEPT !.gone = TRUE]
  <2>1. OStep(r, y)
    BY <1>1 DEF OLeave, OB
  <2>2. But(x, y, {"gone"}) /\ y.gone = TRUE
    BY <1>0 DEF But, OFields
  <2> HIDE DEF y
  <2>3. ProxyType(y)
    BY <2>2 DEF ProxyInv, ProxyType, But, OFields
  <2>4. /\ y.items = x.items /\ y.next = x.next /\ y.body = x.body /\ y.cut = x.cut /\ y.made = x.made /\ y.sent = x.sent
        /\ y.at = x.at /\ y.pending = x.pending /\ y.todo = x.todo /\ y.total = x.total /\ y.input = x.input
        /\ y.active = x.active /\ y.begun = x.begun /\ y.exchanges = x.exchanges /\ y.ticks = x.ticks /\ y.stored = x.stored
    BY <2>2 DEF But, OFields
  <2>5. OpenShown(y) = OpenShown(x) /\ CallsShown(y) = CallsShown(x)
    BY <2>4, SameShown
  <2>6. Heard(y) /\ StoredRight(y, kept)
    BY <2>4 DEF ProxyInv, Heard, StoredRight
  <2>7. ToolsFit(y) /\ ToolsFed(y)
    BY <2>4 DEF ProxyInv, ToolsFit, ToolsFed
  <2>8. Interception(x) => Interception(y)
    BY <2>4, <2>5 DEF Interception
  <2>9. StreamShown(y)
    BY <2>4, <2>5, <2>8 DEF ProxyInv, StreamShown
  <2>10. ProxyInv(y, kept)
    BY <2>3, <2>6, <2>7, <2>9 DEF ProxyInv
  <2> QED BY <1>0, <2>1, <2>10 DEF OGoes
<1>2. CASE ~(x.body.stream /\ (x.active \/ x.at \in {"pass", "store", "link"}))
  <2> DEFINE y == OEnd(x, "dropped")
  <2>1. OStep(r, y)
    BY <1>2 DEF OLeave, OB
  <2>2. But(x, y, {"at", "answer"}) /\ y.at = "end"
    BY <1>0, OEndFields
  <2> HIDE DEF y
  <2>3. /\ But(x, y, {"at", "answer", "exchanges", "ticks", "sent", "made", "stored"})
        /\ y.body = x.body /\ y.active = x.active /\ y.begun = x.begun /\ y.exchanges = x.exchanges /\ y.ticks = x.ticks
        /\ y.stored = x.stored /\ y.made = x.made /\ y.sent = x.sent
    BY <2>2 DEF But, OFields
  <2>4. Heard(y)
    BY <2>2, <2>3 DEF ProxyInv, Heard
  <2>5. StoredRight(y, kept)
    <3>1. StoredRight(x, kept)
      BY DEF ProxyInv
    <3> QED BY <1>0, <1>2, <2>2, <2>3, <3>1 DEF StoredRight
  <2>6. ProxyInv(y, kept)
    BY <1>0, <2>2, <2>3, <2>4, <2>5, ProxyEnds
  <2> QED BY <1>0, <2>1, <2>6 DEF OGoes
<1> QED BY <1>1, <1>2

LEMMA StoreAction ==
    ASSUME NEW r, ProxyInv(o[r], r \in DOMAIN responses), OStoreResponse(r) PROVE OGoes(r)
<1> DEFINE x == o[r]
<1>0. /\ DOMAIN x = OFields /\ x.out \in Seq(ItemTypes) /\ x.at \in {"store", "link"}
  BY DEF OStoreResponse, ProxyInv, ProxyType
<1>1. CASE OStep(r, OStop(r, "failed")) /\ UNCHANGED responses
  <2>1. ProxyInv(OStop(r, "failed"), r \in DOMAIN responses)
    BY <1>0, ProxyStops
  <2> QED BY <1>1, <2>1 DEF OGoes
<1>2. CASE /\ responses' = WithResponse(r, x.out)
           /\ \/ OStep(r, OStop(r, "yes"))
              \/ OStep(r, [x EXCEPT !.at = "link", !.stored = "yes", !.todo = <<"message">> \o x.out])
  <2>1. r \in DOMAIN responses'
    BY <1>2 DEF WithResponse
  <2>2. ProxyInv(x, r \in DOMAIN responses')
    BY <2>1, ProxyKept
  <2>3. CASE OStep(r, OStop(r, "yes"))
    <3>1. ProxyInv(OStop(r, "yes"), r \in DOMAIN responses')
      BY <1>0, <2>1, <2>2, ProxyStops
    <3> QED BY <2>3, <3>1 DEF OGoes
  <2>4. CASE OStep(r, [x EXCEPT !.at = "link", !.stored = "yes", !.todo = <<"message">> \o x.out])
    <3> DEFINE todo == <<"message">> \o x.out
               y == [x EXCEPT !.at = "link", !.stored = "yes", !.todo = todo]
    <3>1. todo \in Seq(ItemTypes)
      BY <1>0, StoredMessage
    <3>2. OStep(r, y)
      BY <2>4
    <3> HIDE DEF todo
    <3>3. But(x, y, {"at", "stored", "todo"}) /\ y.at = "link" /\ y.stored = "yes" /\ y.todo = todo
      BY <1>0 DEF But, OFields
    <3> HIDE DEF y
    <3>4. ProxyInv(y, r \in DOMAIN responses')
      BY <1>0, <2>1, <2>2, <3>1, <3>3, ProxyLinks
    <3> QED BY <3>2, <3>4 DEF OGoes
  <2> QED BY <1>2, <2>3, <2>4
<1> QED BY <1>1, <1>2 DEF OStoreResponse

LEMMA LinkAction ==
    ASSUME NEW r, ProxyInv(o[r], r \in DOMAIN responses), OLinkItem(r) PROVE OGoes(r)
<1> DEFINE x == o[r]
<1>9. /\ DOMAIN x = OFields /\ x.out \in Seq(ItemTypes) /\ x.at \in {"store", "link"}
  BY DEF OLinkItem, ProxyInv, ProxyType
<1>0. UNCHANGED responses /\ x.at = "link" /\ x.todo \in Seq(ItemTypes)
  BY DEF OLinkItem, ProxyInv, ProxyType
<1>1. CASE OStep(r, OStop(r, "yes"))
  <2>1. x.body.chat \in BOOLEAN /\ (~x.body.chat => r \in DOMAIN responses)
    BY <1>0 DEF ProxyInv, ProxyType, StoredRight
  <2>2. ProxyInv(OStop(r, "yes"), r \in DOMAIN responses)
    BY <1>9, <2>1, ProxyStops
  <2> QED BY <1>0, <1>1, <2>2 DEF OGoes
<1>2. CASE x.todo # <<>> /\ OStep(r, [x EXCEPT !.todo = Tail(x.todo)])
  <2> DEFINE todo == Tail(x.todo)
             y == [x EXCEPT !.todo = todo]
  <2>1. todo \in Seq(ItemTypes)
    BY <1>0, <1>2
  <2>2. OStep(r, y)
    BY <1>2
  <2> HIDE DEF todo
  <2>3. But(x, y, {"todo"}) /\ y.todo = todo
    BY <1>9 DEF But, OFields
  <2> HIDE DEF y
  <2>4. But(x, y, {"at", "stored", "todo"}) /\ y.at = "link" /\ y.stored = x.stored
    BY <1>0, <2>3 DEF But, OFields
  <2>6. ~x.body.chat => (r \in DOMAIN responses /\ x.stored = "yes")
    BY <1>0 DEF ProxyInv, StoredRight
  <2>5. ProxyInv(y, r \in DOMAIN responses)
    BY <1>9, <1>0, <2>1, <2>3, <2>4, <2>6, ProxyLinks
  <2> QED BY <1>0, <2>2, <2>5 DEF OGoes
<1> QED BY <1>1, <1>2 DEF OLinkItem

\* Every step of a request of the proxy router keeps its invariant.
LEMMA ProxyAdvances ==
    ASSUME NEW r, StoresType, ProxyInv(o[r], r \in DOMAIN responses), OAdvance(r) \/ OLeave(r)
    PROVE  OGoes(r)
BY OEntryActions, ChatActions, SingleActions, PassActions, LoopEnds, LoopAnswers, InterceptAction, StreamStops,
   JudgeActions, ToolCalled, InterceptFinishes, StoreAction, LinkAction, ProxyLeaves DEF OAdvance

LEMMA ProxyStoreSteps ==
    ASSUME NEW r, StoresType, ProxyInv(o[r], r \in DOMAIN responses), OAdvance(r) \/ OLeave(r)
    PROVE  StoresType' /\ DOMAIN responses \subseteq DOMAIN responses' /\ UNCHANGED q
<1> DEFINE x == o[r]
<1>0. x.out \in Seq(ItemTypes) /\ (x.at = "link" => x.todo \in Seq(ItemTypes))
  BY DEF ProxyInv, ProxyType
<1>1. CASE UNCHANGED <<q, responses, conversation>>
  BY <1>1 DEF StoresType
<1>2. CASE OStoreResponse(r)
  <2>1. UNCHANGED q /\ (UNCHANGED <<responses, conversation>> \/ (responses' = WithResponse(r, x.out) /\ UNCHANGED conversation))
    BY <1>2 DEF OStoreResponse
  <2> QED BY <1>0, <1>1, <2>1, WithResponseType
<1>3. CASE OLinkItem(r)
  <2>1. /\ UNCHANGED q
        /\ \/ UNCHANGED <<responses, conversation>>
           \/ /\ x.todo # <<>> /\ x.at = "link" /\ UNCHANGED responses
              /\ conversation' = [conversation EXCEPT !.items = Append(@, Head(x.todo))]
    BY <1>3 DEF OLinkItem
  <2>2. x.todo # <<>> /\ x.at = "link" => Head(x.todo) \in ItemTypes
    BY <1>0
  <2> QED BY <1>1, <2>1, <2>2, ConversationGrows
<1>4. CASE OConnect(r)
  BY <1>1, <1>4 DEF OConnect
<1>5. CASE UNCHANGED OShared
  BY <1>1, <1>5 DEF OShared
<1> QED BY <1>2, <1>3, <1>4, <1>5 DEF OAdvance, OLeave, SelectWorkerForModel, RefreshExternalModels, OLoadChain,
     OLoadConversation, RefusePayload, ChatFails, ChatRefused, ChatAnswered, SingleFails, SingleAnswered, PassChunk, PassCancelled,
     PassBreaks, PassEnds, LoopFails, LoopAbandoned, LoopAnswered, Intercept, ExecuteTools, InterceptCancelled,
     InterceptBreaks, InterceptEnds, ReachLimit, BeginTools, CallTool, LoopFinal, InterceptFinal
-----------------------------------------------------------------------------
(* The handlers of the conversations. *)

HFields == {"ask", "at", "todo", "new"}

LEMMA HandlerMoves ==
    ASSUME NEW x, NEW exist, HandlerInv(x, exist), NEW y, DOMAIN y = HFields, y.ask = x.ask,
           x.ask.op = "update" /\ y.at = "write" => IsFiniteSet(y.new) /\ Cardinality(y.new) <= MaxMetadata,
           NEW more, y.at = "link" => Head(y.todo).id \in more
    PROVE  HandlerInv(y, more)
BY DEF HandlerInv, HFields

LEMMA HandlerKept ==
    ASSUME NEW x, NEW exist, NEW more, HandlerInv(x, exist), exist \subseteq more PROVE HandlerInv(x, more)
BY DEF HandlerInv

\* A step of a handler, and what the metadata and the links are after it.
HGoes(h) ==
    /\ \E y : CStep(h, y) /\ HandlerInv(y, catalog')
    /\ catalog \subseteq catalog' /\ links' \subseteq catalog'
    /\ IsFiniteSet(meta') /\ Cardinality(meta') <= MaxMetadata

\* A handler that goes to a place where nothing is promised.
LEMMA HandlerAt ==
    ASSUME NEW h, HandlerInv(call[h], catalog), NEW s, s # "link", call[h].ask.op # "update" \/ s # "write",
           NEW more
    PROVE  HandlerInv([call[h] EXCEPT !.at = s], more)
<1> DEFINE x == call[h]
           y == [x EXCEPT !.at = s]
<1>1. DOMAIN x = HFields
  BY DEF HandlerInv, HFields
<1>2. DOMAIN y = HFields /\ y.ask = x.ask /\ y.at = s
  BY <1>1 DEF HFields
<1> HIDE DEF y
<1>3. HandlerInv(y, more)
  BY <1>2, HandlerMoves
<1> QED BY <1>3 DEF y

LEMMA HandlerAnswers ==
    ASSUME NEW h, HandlerInv(call[h], catalog), NEW s \in Statuses, Answer(h, s)
    PROVE  \E y : CStep(h, y) /\ HandlerInv(y, catalog')
<1>1. s # "link" /\ s # "write"
  BY DEF Statuses
<1> QED BY <1>1, HandlerAt DEF Answer

LEMMA HandlerLinks ==
    ASSUME NEW h, HandlerInv(call[h], catalog), NEW more, Item(h).id \in more
    PROVE  HandlerInv([call[h] EXCEPT !.at = "link"], more)
<1> DEFINE x == call[h]
           y == [x EXCEPT !.at = "link"]
<1>1. DOMAIN x = HFields
  BY DEF HandlerInv, HFields
<1>2. DOMAIN y = HFields /\ y.ask = x.ask /\ y.at = "link" /\ y.todo = x.todo
  BY <1>1 DEF HFields
<1> HIDE DEF y
<1>3. HandlerInv(y, more)
  BY <1>2, HandlerMoves DEF Item
<1> QED BY <1>3 DEF y

LEMMA PatchedBounded ==
    ASSUME NEW h, Bounded, HandlerInv(call[h], catalog), Op(h) = "update", ~TooLarge(h)
    PROVE  IsFiniteSet(Patched(h)) /\ Cardinality(Patched(h)) <= MaxMetadata
<1> DEFINE a == call[h].ask
<1>1. IsFiniteSet(meta) /\ IsFiniteSet(a.set)
  BY DEF Bounded, HandlerInv, Op
<1>2. IsFiniteSet(meta \cup a.set)
  BY <1>1, FS_Union
<1>3. Patched(h) \subseteq meta \cup a.set
  BY DEF Patched
<1>4. IsFiniteSet(Patched(h))
  BY <1>2, <1>3, FS_Subset
<1>5. Cardinality(Patched(h)) \in Nat
  BY <1>4, FS_CardinalityType
<1> QED BY <1>4, <1>5, ConversationsAssumption DEF TooLarge

LEMMA BoundedSame ==
    ASSUME Bounded, UNCHANGED <<meta, catalog, links>>
    PROVE  /\ catalog \subseteq catalog' /\ links' \subseteq catalog'
           /\ IsFiniteSet(meta') /\ Cardinality(meta') <= MaxMetadata
BY DEF Bounded

LEMMA ConversationWrites ==
    ASSUME NEW h, Bounded, HandlerInv(call[h], catalog),
           CreateConversation(h) \/ UpdateConversation(h) \/ CDeleteConversation(h) \/ DeleteConversationItem(h)
    PROVE  HGoes(h)
<1>0. {"200", "400", "404", "500"} = Statuses
  BY DEF Statuses
<1>1. CASE CreateConversation(h)
  <2>1. /\ \E s \in Statuses : Answer(h, s)
        /\ UNCHANGED <<catalog, links>>
    BY <1>0, <1>1 DEF CreateConversation
  <2>2. meta' = meta \/ (meta' = call[h].ask.keys /\ ~(Cardinality(call[h].ask.keys) > MaxMetadata))
    BY <1>1 DEF CreateConversation
  <2>3. IsFiniteSet(call[h].ask.keys)
    BY <1>1 DEF CreateConversation, Op, HandlerInv
  <2>4. Cardinality(call[h].ask.keys) \in Nat /\ MaxMetadata \in Nat
    BY <2>3, FS_CardinalityType, ConversationsAssumption
  <2>5. IsFiniteSet(meta') /\ Cardinality(meta') <= MaxMetadata
    BY <2>2, <2>3, <2>4 DEF Bounded
  <2> QED BY <2>1, <2>5, HandlerAnswers DEF HGoes, Bounded
<1>2. CASE UpdateConversation(h)
  <2>1. /\ \E s \in Statuses : Answer(h, s)
        /\ UNCHANGED <<catalog, links>> /\ (meta' = meta \/ meta' = call[h].new)
    BY <1>0, <1>2 DEF UpdateConversation
  <2>2. IsFiniteSet(call[h].new) /\ Cardinality(call[h].new) <= MaxMetadata
    BY <1>2 DEF UpdateConversation, Op, HandlerInv
  <2> QED BY <2>1, <2>2, HandlerAnswers DEF HGoes, Bounded
<1>3. CASE CDeleteConversation(h)
  <2>1. /\ \E s \in Statuses : Answer(h, s)
        /\ UNCHANGED <<catalog, links>> /\ (meta' = meta \/ meta' = {})
    BY <1>0, <1>3 DEF CDeleteConversation
  <2>2. IsFiniteSet({}) /\ Cardinality({}) <= MaxMetadata
    BY FS_EmptySet, ConversationsAssumption
  <2> QED BY <2>1, <2>2, HandlerAnswers DEF HGoes, Bounded
<1>4. CASE DeleteConversationItem(h)
  <2>1. /\ \E s \in Statuses : Answer(h, s)
        /\ UNCHANGED <<catalog, meta>> /\ links' \subseteq links
    BY <1>0, <1>4 DEF DeleteConversationItem
  <2> QED BY <2>1, HandlerAnswers DEF HGoes, Bounded
<1> QED BY <1>1, <1>2, <1>3, <1>4

LEMMA ConversationChecked ==
    ASSUME NEW h, Bounded, HandlerInv(call[h], catalog), EnsureConversationExists(h)
    PROVE  HGoes(h)
<1> DEFINE x == call[h]
<1>0. /\ DOMAIN x = HFields /\ UNCHANGED <<meta, catalog, links>>
      /\ catalog \subseteq catalog' /\ links' \subseteq catalog'
      /\ IsFiniteSet(meta') /\ Cardinality(meta') <= MaxMetadata
  BY BoundedSame DEF EnsureConversationExists, HandlerInv, HFields
<1>1. CASE \E s \in Statuses : Answer(h, s)
  BY <1>0, <1>1, HandlerAnswers DEF HGoes
<1>2. CASE Op(h) = "update" /\ ~TooLarge(h) /\ CStep(h, [x EXCEPT !.at = "write", !.new = Patched(h)])
  <2> DEFINE new == Patched(h)
             y == [x EXCEPT !.at = "write", !.new = new]
  <2>1. CStep(h, y)
    BY <1>2
  <2>2. IsFiniteSet(new) /\ Cardinality(new) <= MaxMetadata
    BY <1>2, PatchedBounded
  <2> HIDE DEF new
  <2>3. DOMAIN y = HFields /\ y.ask = x.ask /\ y.at = "write" /\ y.new = new
    BY <1>0 DEF HFields
  <2> HIDE DEF y
  <2>4. HandlerInv(y, catalog')
    BY <2>2, <2>3, HandlerMoves
  <2> QED BY <1>0, <2>1, <2>4 DEF HGoes
<1>3. CASE CStep(h, [x EXCEPT !.at = "item", !.todo = x.ask.items])
  <2> DEFINE todo == x.ask.items
             y == [x EXCEPT !.at = "item", !.todo = todo]
  <2>1. CStep(h, y)
    BY <1>3
  <2> HIDE DEF todo
  <2>2. DOMAIN y = HFields /\ y.ask = x.ask /\ y.at = "item"
    BY <1>0 DEF HFields
  <2> HIDE DEF y
  <2>3. HandlerInv(y, catalog')
    BY <2>2, HandlerMoves
  <2> QED BY <1>0, <2>1, <2>3 DEF HGoes
<1>4. CASE Op(h) # "update" /\ CStep(h, [x EXCEPT !.at = "write"])
  <2>1. HandlerInv([x EXCEPT !.at = "write"], catalog')
    BY <1>4, HandlerAt DEF Op
  <2> QED BY <1>0, <1>4, <2>1 DEF HGoes
<1> QED BY <1>1, <1>2, <1>3, <1>4 DEF EnsureConversationExists, Statuses

LEMMA ConversationReads ==
    ASSUME NEW h, Bounded, HandlerInv(call[h], catalog),
           ListConversationItems(h) \/ GetConversationItem(h) \/ ItemsCreated(h)
    PROVE  HGoes(h)
<1>0. /\ catalog \subseteq catalog' /\ links' \subseteq catalog'
      /\ IsFiniteSet(meta') /\ Cardinality(meta') <= MaxMetadata
  BY BoundedSame DEF ListConversationItems, GetConversationItem, ItemsCreated
<1>1. CASE \E s \in Statuses : Answer(h, s)
  BY <1>0, <1>1, HandlerAnswers DEF HGoes
<1>2. CASE CStep(h, [call[h] EXCEPT !.at = "read"])
  <2>1. HandlerInv([call[h] EXCEPT !.at = "read"], catalog')
    BY HandlerAt
  <2> QED BY <1>0, <1>2, <2>1 DEF HGoes
<1>3. CASE ListConversationItems(h)
  BY <1>1, <1>3 DEF ListConversationItems, Statuses
<1>4. CASE GetConversationItem(h)
  BY <1>1, <1>2, <1>4 DEF GetConversationItem, Statuses
<1>5. CASE ItemsCreated(h)
  BY <1>1, <1>5 DEF ItemsCreated, Statuses
<1> QED BY <1>3, <1>4, <1>5

LEMMA ItemActions ==
    ASSUME NEW h, Bounded, HandlerInv(call[h], catalog),
           ProcessItem(h) \/ ProcessItemWithId(h) \/ CreateItem(h) \/ ConvLinkItem(h)
    PROVE  HGoes(h)
<1> DEFINE x == call[h]
<1>1. CASE ProcessItem(h) \/ ProcessItemWithId(h)
  <2>0. /\ UNCHANGED <<meta, catalog, links>> /\ catalog \subseteq catalog' /\ links' \subseteq catalog'
        /\ IsFiniteSet(meta') /\ Cardinality(meta') <= MaxMetadata
    BY <1>1, BoundedSame DEF ProcessItem, ProcessItemWithId
  <2>1. CASE \E s \in Statuses : Answer(h, s)
    BY <2>0, <2>1, HandlerAnswers DEF HGoes
  <2>2. CASE \E s \in {"exists", "create"} : CStep(h, [x EXCEPT !.at = s])
    <3>1. PICK s \in {"exists", "create"} : CStep(h, [x EXCEPT !.at = s])
      BY <2>2
    <3>2. HandlerInv([x EXCEPT !.at = s], catalog')
      BY HandlerAt
    <3> QED BY <2>0, <3>1, <3>2 DEF HGoes
  <2>3. CASE Item(h).id \in catalog /\ CStep(h, [x EXCEPT !.at = "link"])
    <3>1. HandlerInv([x EXCEPT !.at = "link"], catalog')
      BY <2>0, <2>3, HandlerLinks
    <3> QED BY <2>0, <2>3, <3>1 DEF HGoes
  <2>4. CASE ProcessItem(h)
    BY <2>1, <2>2, <2>3, <2>4 DEF ProcessItem, Statuses
  <2>5. CASE ProcessItemWithId(h)
    BY <2>1, <2>2, <2>3, <2>5 DEF ProcessItemWithId, Statuses
  <2> QED BY <1>1, <2>4, <2>5
<1>2. CASE CreateItem(h)
  <2>1. CASE Answer(h, "500") /\ UNCHANGED catalog
    <3>1. UNCHANGED <<meta, catalog, links>> /\ "500" \in Statuses
      BY <1>2, <2>1 DEF CreateItem, Statuses
    <3>2. /\ catalog \subseteq catalog' /\ links' \subseteq catalog'
          /\ IsFiniteSet(meta') /\ Cardinality(meta') <= MaxMetadata
      BY <3>1, BoundedSame
    <3> QED BY <2>1, <3>1, <3>2, HandlerAnswers DEF HGoes
  <2>2. CASE CStep(h, [x EXCEPT !.at = "link"]) /\ catalog' = catalog \cup {Item(h).id}
    <3>1. UNCHANGED <<meta, links>>
      BY <1>2 DEF CreateItem
    <3>2. HandlerInv([x EXCEPT !.at = "link"], catalog')
      BY <2>2, HandlerLinks
    <3> QED BY <2>2, <3>1, <3>2 DEF HGoes, Bounded
  <2> QED BY <1>2, <2>1, <2>2 DEF CreateItem
<1>3. CASE ConvLinkItem(h)
  <2> DEFINE todo == Tail(x.todo)
             y == [x EXCEPT !.at = "item", !.todo = todo]
  <2>1. /\ CStep(h, y) /\ UNCHANGED <<meta, catalog>> /\ (links' = links \/ links' = links \cup {Item(h).id})
    BY <1>3 DEF ConvLinkItem
  <2>2. Item(h).id \in catalog /\ DOMAIN x = HFields
    BY <1>3 DEF ConvLinkItem, HandlerInv, Item, HFields
  <2> HIDE DEF todo
  <2>3. DOMAIN y = HFields /\ y.ask = x.ask /\ y.at = "item"
    BY <2>2 DEF HFields
  <2> HIDE DEF y
  <2>4. HandlerInv(y, catalog')
    BY <2>3, HandlerMoves
  <2> QED BY <2>1, <2>2, <2>4 DEF HGoes, Bounded
<1> QED BY <1>1, <1>2, <1>3

LEMMA HandlerAdvances ==
    ASSUME NEW h, Bounded, HandlerInv(call[h], catalog), CAdvance(h) PROVE HGoes(h)
BY ConversationWrites, ConversationChecked, ConversationReads, ItemActions DEF CAdvance

\* A handler touches neither the tasks nor what the conversation holds.
LEMMA HandlerLeavesRest ==
    ASSUME NEW h, StoresType, CAdvance(h) PROVE UNCHANGED <<o, q, responses>> /\ StoresType'
<1>1. UNCHANGED COthers
  BY DEF CAdvance, CreateConversation, EnsureConversationExists, UpdateConversation, CDeleteConversation,
     DeleteConversationItem, ListConversationItems, GetConversationItem, ProcessItem, ProcessItemWithId,
     CreateItem, ConvLinkItem, ItemsCreated
<1>2. conversation' = conversation \/ \E b \in BOOLEAN : conversation' = [conversation EXCEPT !.exists = b]
  BY DEF CAdvance, CreateConversation, EnsureConversationExists, UpdateConversation, CDeleteConversation,
     DeleteConversationItem, ListConversationItems, GetConversationItem, ProcessItem, ProcessItemWithId,
     CreateItem, ConvLinkItem, ItemsCreated
<1>3. UNCHANGED <<o, q, responses>>
  BY <1>1 DEF COthers
<1>4. conversation'.items = conversation.items /\ DOMAIN conversation' = DOMAIN conversation
  BY <1>2 DEF StoresType
<1> QED BY <1>3, <1>4 DEF StoresType

-----------------------------------------------------------------------------
(* The initial states, the steps, and what follows from the invariant. *)

Body(b) == b.harmony \in BOOLEAN /\ b.stream \in BOOLEAN /\ b.max \in Nat \cup {NoLimit}
OBody(b) ==
    /\ b.chat \in BOOLEAN /\ b.stream \in BOOLEAN /\ b.conv \in BOOLEAN /\ b.store \in BOOLEAN
    /\ b.max \in Nat \cup {NoLimit}

LEMMA NewItems == Emitter(NewEmitter) /\ Ragged(NewEmitter) = {} /\ "completed" \notin NewEmitter.sent
<1> DEFINE e == NewEmitter
<1>1. DOMAIN e = {"items", "message", "part", "sent"} /\ e.items = <<>> /\ e.message = 0 /\ e.sent = {}
  BY DEF NewEmitter, NoItem
<1> HIDE DEF e
<1>2. e.items \in Seq(EmItems) /\ Len(e.items) = 0 /\ DOMAIN e.items = {}
  BY <1>1
<1>3. e.message \in 0..Len(e.items)
  BY <1>1, <1>2
<1> QED BY <1>1, <1>2, <1>3 DEF Emitter, Ragged, e

LEMMA FreshTask == ASSUME NEW b, Body(b) PROVE TaskInv(Fresh(b))
<1> DEFINE x == Fresh(b)
<1>1. /\ DOMAIN x = TaskFields /\ x.body = b /\ x.at = "new" /\ x.input = <<>> /\ x.executed = 0 /\ x.pending = 0
      /\ x.said = <<>> /\ x.results = <<>> /\ x.out = <<>> /\ x.cut = FALSE /\ x.em = NewEmitter
      /\ x.tracked = <<>> /\ x.unfinished = {}
  BY DEF Fresh, TaskFields
<1>2. /\ <<>> \in Seq(Chunks) /\ <<>> \in Seq(InputItems) /\ <<>> \in Seq(Results) /\ <<>> \in Seq(ItemTypes)
      /\ <<>> \in Seq(Nat)
  OBVIOUS
<1>3. Limit(b) \in Nat
  BY LimitType DEF Body
<1> HIDE DEF x
<1>4. TaskType(x)
  <2>1. x.said \in Seq(Chunks) /\ x.input \in Seq(InputItems) /\ x.results \in Seq(Results) /\ x.out \in Seq(ItemTypes)
        /\ x.tracked \in Seq(Nat)
    BY <1>1, <1>2, Zenon
  <2>2. x.executed \in Nat /\ x.pending \in Nat
    BY <1>1
  <2>3. x.cut \in BOOLEAN
    BY <1>1, Zenon
  <2> QED BY <1>1, <2>1, <2>2, <2>3 DEF TaskType, Body
<1>5. CallsFit(x) /\ CallsFed(x)
  BY <1>1, <1>3 DEF CallsFit, CallsFed
<1>6. ItemsShown(x)
  BY <1>1, NewItems DEF ItemsShown, HarmonyItems, RegularItems
<1> QED BY <1>4, <1>5, <1>6 DEF TaskInv, x

LEMMA FreshProxy == ASSUME NEW b, OBody(b) PROVE ProxyInv(OFresh(b), FALSE)
<1> DEFINE x == OFresh(b)
<1>1. /\ DOMAIN x = OFields /\ x.body = b /\ x.at = "new" /\ x.input = <<>> /\ x.active = FALSE /\ x.todo = <<>>
      /\ x.said = <<>> /\ x.begun = FALSE /\ x.next = 0 /\ x.items = <<>> /\ x.pending = 0 /\ x.total = 0 /\ x.made = 0
      /\ x.out = <<>> /\ x.cut = FALSE /\ x.gone = FALSE /\ x.sent = {} /\ x.exchanges = <<>> /\ x.ticks = <<>>
      /\ x.stored = "no"
  BY DEF OFresh, OFields
<1>2. /\ <<>> \in Seq(Chunks) /\ <<>> \in Seq(InputItems) /\ <<>> \in Seq(ItemTypes) /\ <<>> \in Seq(OItems)
      /\ <<>> \in Seq({"ok", "failed", "cancelled"}) /\ <<>> \in Seq({"ok", "failed"}) /\ Len(<<>>) = 0
  OBVIOUS
<1>3. Limit(b) \in Nat
  BY LimitType DEF OBody
<1>4. Count("failed", <<>>) = 0 /\ Count("ok", <<>>) = 0
  BY HeardCounts
<1> HIDE DEF x
<1>5. ProxyType(x)
  <2>1. /\ x.said \in Seq(Chunks) /\ x.input \in Seq(InputItems) /\ x.out \in Seq(ItemTypes) /\ x.todo \in Seq(Chunks)
        /\ x.exchanges \in Seq({"ok", "failed", "cancelled"}) /\ x.ticks \in Seq({"ok", "failed"})
    BY <1>1, <1>2, Zenon
  <2>2. /\ x.pending \in Nat /\ x.total \in Nat /\ x.made \in Nat
    BY <1>1
  <2>3. x.active \in BOOLEAN /\ x.begun \in BOOLEAN /\ x.gone \in BOOLEAN /\ x.cut \in BOOLEAN
    BY <1>1, Zenon
  <2> QED BY <1>1, <2>1, <2>2, <2>3 DEF ProxyType, OBody
<1>6. Heard(x) /\ StoredRight(x, FALSE)
  BY <1>1, <1>4 DEF Heard, StoredRight
<1>7. ToolsFit(x) /\ ToolsFed(x)
  BY <1>1, <1>3 DEF ToolsFit, ToolsFed
<1>8. OpenShown(x) = {} /\ CallsShown(x) = {} /\ Cardinality({}) = 0
  BY <1>1, FS_EmptySet DEF OpenShown, CallsShown
<1>9. Interception(x)
  BY <1>1, <1>8 DEF Interception, Early
<1>10. StreamShown(x)
  BY <1>1, <1>2, <1>9 DEF StreamShown
<1> QED BY <1>5, <1>6, <1>7, <1>10 DEF ProxyInv, x

LEMMA FreshHandler ==
    ASSUME NEW a, a.op = "create" => IsFiniteSet(a.keys), a.op = "update" => IsFiniteSet(a.set)
    PROVE  HandlerInv([ask |-> a, at |-> "new", todo |-> <<>>, new |-> {}], {})
BY DEF HandlerInv

LEMMA ConversationsInit == ASSUME CInit PROVE StoresType /\ Tasks /\ Proxies /\ AllHandlers /\ Bounded
<1>1. Bounded /\ catalog = {}
  BY FS_EmptySet, ConversationsAssumption DEF CInit, Bounded
<1>2. responses = <<>> /\ DOMAIN conversation = {"exists", "items"} /\ conversation.items = <<>>
  BY DEF CInit, OInit, Init
<1>3. StoresType
  BY <1>2 DEF StoresType
<1>4. Tasks
  <2>1. CASE q = <<>>
    BY <2>1 DEF Tasks
  <2>2. CASE \E w \in Workloads : q = [r \in DOMAIN w |-> Fresh(w[r])]
    <3>1. PICK w \in Workloads : q = [r \in DOMAIN w |-> Fresh(w[r])]
      BY <2>2
    <3>2. ASSUME NEW r \in DOMAIN w PROVE TaskInv(Fresh(w[r]))
      <4>1. {w[r].harmony, w[r].stream, w[r].conv, w[r].store} \subseteq BOOLEAN /\ w[r].max \in Nat \cup {NoLimit}
        BY <3>2, ResponsesAssumption
      <4>2. Body(w[r])
        BY <4>1 DEF Body
      <4> QED BY <4>2, FreshTask
    <3>3. DOMAIN q = DOMAIN w /\ \A r \in DOMAIN q : q[r] = Fresh(w[r])
      BY <3>1
    <3>4. q = [r \in DOMAIN q |-> q[r]]
      BY <3>1
    <3> QED BY <3>2, <3>3, <3>4 DEF Tasks
  <2> QED BY <2>1, <2>2 DEF CInit, OInit, Init
<1>5. Proxies
  <2>1. CASE o = <<>>
    BY <2>1 DEF Proxies
  <2>2. CASE \E w \in OWorkloads : o = [r \in DOMAIN w |-> OFresh(w[r])]
    <3>1. PICK w \in OWorkloads : o = [r \in DOMAIN w |-> OFresh(w[r])]
      BY <2>2
    <3>2. ASSUME NEW r \in DOMAIN w, NEW kept PROVE ProxyInv(OFresh(w[r]), kept)
      <4>1. {w[r].chat, w[r].stream, w[r].conv, w[r].store} \subseteq BOOLEAN /\ w[r].max \in Nat \cup {NoLimit}
        BY <3>2, OpenAIAssumption
      <4>2. OBody(w[r])
        BY <4>1 DEF OBody
      <4>3. ProxyInv(OFresh(w[r]), FALSE)
        BY <4>2, FreshProxy
      <4> QED BY <4>3, ProxyKept
    <3>3. DOMAIN o = DOMAIN w /\ \A r \in DOMAIN o : o[r] = OFresh(w[r])
      BY <3>1
    <3>4. o = [r \in DOMAIN o |-> o[r]]
      BY <3>1
    <3> QED BY <3>2, <3>3, <3>4 DEF Proxies
  <2> QED BY <2>1, <2>2 DEF CInit, OInit
<1>6. AllHandlers
  <2>1. CASE call = <<>>
    BY <2>1 DEF AllHandlers
  <2>2. CASE \E w \in CWorkloads : call = [h \in DOMAIN w |-> [ask |-> w[h], at |-> "new", todo |-> <<>>, new |-> {}]]
    <3>1. PICK w \in CWorkloads : call = [h \in DOMAIN w |-> [ask |-> w[h], at |-> "new", todo |-> <<>>, new |-> {}]]
      BY <2>2
    <3>2. ASSUME NEW h \in DOMAIN w PROVE HandlerInv([ask |-> w[h], at |-> "new", todo |-> <<>>, new |-> {}], catalog)
      <4>1. (w[h].op = "create" => IsFiniteSet(w[h].keys)) /\ (w[h].op = "update" => IsFiniteSet(w[h].set))
        BY <3>2, ConversationsAssumption
      <4> QED BY <1>1, <4>1, FreshHandler
    <3>3. DOMAIN call = DOMAIN w /\ \A h \in DOMAIN call : call[h] = [ask |-> w[h], at |-> "new", todo |-> <<>>, new |-> {}]
      BY <3>1
    <3>4. call = [h \in DOMAIN call |-> call[h]]
      BY <3>1
    <3> QED BY <3>2, <3>3, <3>4 DEF AllHandlers
  <2> QED BY <2>1, <2>2 DEF CInit
<1> QED BY <1>1, <1>3, <1>4, <1>5, <1>6

LEMMA TasksStep == ASSUME Tasks, NEW r \in DOMAIN q, Goes(r) PROVE Tasks'
<1>1. PICK y : q' = [q EXCEPT ![r] = y] /\ TaskInv(y)
  BY DEF Goes, Step
<1>2. DOMAIN q' = DOMAIN q /\ q' = [s \in DOMAIN q' |-> q'[s]] /\ q'[r] = y /\ \A s \in DOMAIN q : s # r => q'[s] = q[s]
  BY <1>1 DEF Tasks
<1>3. \A s \in DOMAIN q' : TaskInv(q'[s])
  BY <1>1, <1>2 DEF Tasks
<1> QED BY <1>2, <1>3 DEF Tasks

LEMMA ProxiesKept ==
    ASSUME Proxies, UNCHANGED o, DOMAIN responses \subseteq DOMAIN responses' PROVE Proxies'
<1>1. ASSUME NEW r \in DOMAIN o PROVE ProxyInv(o[r], r \in DOMAIN responses')
  <2>1. ProxyInv(o[r], r \in DOMAIN responses)
    BY DEF Proxies
  <2>2. r \in DOMAIN responses => r \in DOMAIN responses'
    OBVIOUS
  <2> QED BY <2>1, <2>2 DEF ProxyInv, StoredRight
<1> QED BY <1>1 DEF Proxies

LEMMA ProxiesStep ==
    ASSUME Proxies, NEW r \in DOMAIN o, OGoes(r), DOMAIN responses \subseteq DOMAIN responses' PROVE Proxies'
<1>1. PICK y : o' = [o EXCEPT ![r] = y] /\ ProxyInv(y, r \in DOMAIN responses')
  BY DEF OGoes, OStep
<1>2. DOMAIN o' = DOMAIN o /\ o' = [s \in DOMAIN o' |-> o'[s]] /\ o'[r] = y /\ \A s \in DOMAIN o : s # r => o'[s] = o[s]
  BY <1>1 DEF Proxies
<1>3. ASSUME NEW s \in DOMAIN o' PROVE ProxyInv(o'[s], s \in DOMAIN responses')
  <2>1. CASE s = r
    BY <1>1, <1>2, <2>1
  <2>2. CASE s # r
    <3>1. ProxyInv(o[s], s \in DOMAIN responses)
      BY <1>2 DEF Proxies
    <3>2. s \in DOMAIN responses => s \in DOMAIN responses'
      OBVIOUS
    <3>3. ProxyInv(o[s], s \in DOMAIN responses')
      BY <3>1, <3>2 DEF ProxyInv, StoredRight
    <3> QED BY <1>2, <2>2, <3>3
  <2> QED BY <2>1, <2>2
<1> QED BY <1>2, <1>3 DEF Proxies

LEMMA HandlersStep ==
    ASSUME AllHandlers, NEW h \in DOMAIN call, HGoes(h) PROVE AllHandlers' /\ Bounded'
<1>1. PICK y : call' = [call EXCEPT ![h] = y] /\ HandlerInv(y, catalog')
  BY DEF HGoes, CStep
<1>2. /\ DOMAIN call' = DOMAIN call /\ call' = [s \in DOMAIN call' |-> call'[s]] /\ call'[h] = y
      /\ \A s \in DOMAIN call : s # h => call'[s] = call[s]
  BY <1>1 DEF AllHandlers
<1>3. ASSUME NEW s \in DOMAIN call' PROVE HandlerInv(call'[s], catalog')
  <2>1. CASE s = h
    BY <1>1, <1>2, <2>1
  <2>2. CASE s # h
    <3>1. HandlerInv(call[s], catalog)
      BY <1>2 DEF AllHandlers
    <3>2. HandlerInv(call[s], catalog')
      BY <3>1, HandlerKept DEF HGoes
    <3> QED BY <1>2, <2>2, <3>2
  <2> QED BY <2>1, <2>2
<1>4. AllHandlers'
  BY <1>2, <1>3 DEF AllHandlers
<1> QED BY <1>4 DEF HGoes, Bounded

LEMMA ConversationsStep == ASSUME ConversationsInv, [CNext]_allvars PROVE ConversationsInv'
<1>1. CASE UNCHANGED allvars
  BY <1>1 DEF ConversationsInv, StoresType, Tasks, Proxies, AllHandlers, Bounded, allvars
<1>2. ASSUME NEW h \in DOMAIN call, CAdvance(h) PROVE ConversationsInv'
  <2>1. HGoes(h)
    BY <1>2, HandlerAdvances DEF ConversationsInv, AllHandlers
  <2>2. UNCHANGED <<o, q, responses>> /\ StoresType'
    BY <1>2, HandlerLeavesRest DEF ConversationsInv
  <2>3. AllHandlers' /\ Bounded'
    BY <2>1, HandlersStep DEF ConversationsInv
  <2>4. Tasks' /\ Proxies'
    BY <2>2 DEF ConversationsInv, Tasks, Proxies
  <2> QED BY <2>2, <2>3, <2>4 DEF ConversationsInv
<1>3. ASSUME ONext, UNCHANGED cvars PROVE ConversationsInv'
  <2>0. AllHandlers' /\ Bounded'
    BY <1>3 DEF ConversationsInv, AllHandlers, Bounded, cvars
  <2>1. CASE \E r \in Reqs : (Advance(r) \/ Leave(r)) /\ UNCHANGED o
    <3>1. PICK r \in DOMAIN q : (Advance(r) \/ Leave(r)) /\ UNCHANGED o
      BY <2>1 DEF Reqs
    <3>2. TaskInv(q[r])
      BY DEF ConversationsInv, Tasks
    <3>3. Goes(r)
      BY <3>1, <3>2, TaskAdvances DEF ConversationsInv
    <3>4. StoresType' /\ DOMAIN responses \subseteq DOMAIN responses'
      BY <3>1, <3>2, StoreSteps DEF ConversationsInv
    <3>5. Tasks'
      BY <3>3, TasksStep DEF ConversationsInv
    <3>6. Proxies'
      BY <3>1, <3>4, ProxiesKept DEF ConversationsInv
    <3> QED BY <2>0, <3>4, <3>5, <3>6 DEF ConversationsInv
  <2>2. CASE \E r \in OReqs : OAdvance(r) \/ OLeave(r)
    <3>1. PICK r \in DOMAIN o : OAdvance(r) \/ OLeave(r)
      BY <2>2 DEF OReqs
    <3>2. ProxyInv(o[r], r \in DOMAIN responses)
      BY DEF ConversationsInv, Proxies
    <3>3. OGoes(r)
      BY <3>1, <3>2, ProxyAdvances DEF ConversationsInv
    <3>4. StoresType' /\ DOMAIN responses \subseteq DOMAIN responses' /\ UNCHANGED q
      BY <3>1, <3>2, ProxyStoreSteps DEF ConversationsInv
    <3>5. Tasks'
      BY <3>4 DEF ConversationsInv, Tasks
    <3>6. Proxies'
      BY <3>3, <3>4, ProxiesStep DEF ConversationsInv
    <3> QED BY <2>0, <3>4, <3>5, <3>6 DEF ConversationsInv
  <2>3. CASE (DeleteConversation /\ UNCHANGED o) \/ ODeleteConversation
    <3>1. conversation' = [conversation EXCEPT !.exists = FALSE] /\ UNCHANGED <<o, q, responses>>
      BY <2>3 DEF DeleteConversation, ODeleteConversation
    <3>2. conversation'.items = conversation.items /\ DOMAIN conversation' = DOMAIN conversation
      BY <3>1 DEF ConversationsInv, StoresType
    <3>3. StoresType'
      BY <3>1, <3>2 DEF ConversationsInv, StoresType
    <3>4. Tasks' /\ Proxies'
      BY <3>1 DEF ConversationsInv, Tasks, Proxies
    <3> QED BY <2>0, <3>3, <3>4 DEF ConversationsInv
  <2>4. CASE UNCHANGED ovars
    BY <1>1, <1>3, <2>4 DEF ovars, cvars, allvars
  <2> QED BY <1>3, <2>1, <2>2, <2>3, <2>4 DEF ONext
<1> QED BY <1>1, <1>2, <1>3 DEF CNext, Handlers

LEMMA ConversationsInvariant == CSpec => []ConversationsInv
<1>1. CInit => ConversationsInv
  BY ConversationsInit DEF ConversationsInv
<1>2. ConversationsInv /\ [CNext]_allvars => ConversationsInv'
  BY ConversationsStep
<1> QED BY <1>1, <1>2, PTL DEF CSpec

\* Every tool loop, of the gRPC routers and of the proxy, streaming or not, makes no more calls
\* than max_tool_calls and DEFAULT_MAX_ITERATIONS allow, and asks its model again with its own
\* question and the result of every call made so far.
THEOREM LoopsSound == CSpec => []ToolLoopsSound
<1>1. ConversationsInv => ToolLoopsSound
  <2> SUFFICES ASSUME ConversationsInv PROVE ToolLoopsSound
    OBVIOUS
  <2>1. ASSUME NEW r \in DOMAIN q
        PROVE  /\ q[r].executed <= EffectiveLimit(r)
               /\ q[r].at = "run" => "own" \in ToSet(q[r].input) /\ Count("called", q[r].input) = q[r].executed
    <3>1. CallsFit(q[r]) /\ CallsFed(q[r])
      BY DEF ConversationsInv, Tasks, TaskInv
    <3>2. EffectiveLimit(r) = Limit(q[r].body)
      BY DEF EffectiveLimit, Limit, B
    <3> QED BY <3>1, <3>2 DEF CallsFit, CallsFed
  <2>2. ASSUME NEW r \in DOMAIN o
        PROVE  /\ o[r].made <= OLimit(r)
               /\ Looped(r) => "own" \in ToSet(o[r].input) /\ Count("called", o[r].input) = o[r].made
    <3>1. ToolsFit(o[r]) /\ ToolsFed(o[r]) /\ ProxyType(o[r])
      BY DEF ConversationsInv, Proxies, ProxyInv
    <3>2. OLimit(r) = Limit(o[r].body) /\ Limit(o[r].body) \in Nat
      BY <3>1, LimitType DEF OLimit, Limit, OB, ProxyType
    <3>3. o[r].made <= OLimit(r)
      BY <3>1, <3>2 DEF ToolsFit, ProxyType
    <3> QED BY <3>1, <3>3 DEF ToolsFed, Looped
  <2> QED BY <2>1, <2>2 DEF ToolLoopsSound, CallsWithinLimit, EveryResultFed, ToolLimit, ResultsReachModel, Reqs, OReqs
<1> QED BY <1>1, ConversationsInvariant, PTL

\* At the end of every request of the proxy the worker's breaker has heard of each failed
\* exchange, and of no success that was none.
THEOREM ProxyFailuresHeard == CSpec => []FailuresHeard
<1>1. ConversationsInv => FailuresHeard
  BY DEF ConversationsInv, Proxies, ProxyInv, Heard, FailuresHeard, OReqs
<1> QED BY <1>1, ConversationsInvariant, PTL

\* A passed-through response that is to be stored is read to its end, nothing that broke off
\* is stored, metadata keep to MAX_METADATA_PROPERTIES and what is linked exists, however the
\* handlers interleave.
THEOREM StoresWhole == CSpec => []StoresSound
<1>1. ConversationsInv => StoresSound
  <2> SUFFICES ASSUME ConversationsInv PROVE StoresSound
    OBVIOUS
  <2>1. ASSUME NEW r \in DOMAIN o, o[r].at = "end", ~OB(r).chat, OB(r).stream, OB(r).store \/ OB(r).conv
        PROVE  /\ (o[r].begun /\ ~o[r].active) => (o[r].stored # "no" \/ Count("failed", o[r].exchanges) > 0)
               /\ o[r].stored = "yes" => Count("failed", o[r].exchanges) = 0 /\ r \in DOMAIN responses
    <3>1. StoredRight(o[r], r \in DOMAIN responses)
      BY DEF ConversationsInv, Proxies, ProxyInv
    <3> QED BY <2>1, <3>1 DEF StoredRight, OB
  <2>2. StoredUnlessBroken
    BY <2>1 DEF StoredUnlessBroken, OReqs
  <2>3. MetadataBounded
    BY DEF ConversationsInv, Bounded, MetadataBounded
  <2> QED BY <2>2, <2>3 DEF StoresSound
<1> QED BY <1>1, ConversationsInvariant, PTL

\* After a completed event no item a stream showed is open, no two share an index and each is in
\* the final object, unless the model's stream was cut or LeftOpen holds.  Harmony's exception
\* is the call in the middle of which the model ran out: it stays open, and only it does.
THEOREM CompletedClosed == CSpec => []CompletedClosesAll
<1>1. ConversationsInv => CompletedClosesAll
  <2> SUFFICES ASSUME ConversationsInv PROVE CompletedClosesAll
    OBVIOUS
  <2>1. ASSUME NEW r \in DOMAIN q, "completed" \in q[r].em.sent, ~q[r].cut, ~LeftOpen(r),
               DOMAIN q[r].em.items \ q[r].unfinished # {}
        PROVE  /\ \A i \in DOMAIN q[r].em.items \ q[r].unfinished : q[r].em.items[i].wire = "closed"
               /\ CompletedOutput(q[r].em) = Types(Keep(q[r].em.items, DOMAIN q[r].em.items \ q[r].unfinished))
    <3>1. ItemsShown(q[r])
      BY DEF ConversationsInv, Tasks, TaskInv
    <3>2. ~Unclosed(q[r])
      BY <2>1 DEF LeftOpen, Unclosed, RegStream, InLoop, Harmony, Streams, B
    <3>3. Emitter(q[r].em) /\ Ragged(q[r].em) = q[r].unfinished
      BY <2>1, <3>1, <3>2 DEF ItemsShown
    <3> QED BY <2>1, <3>3, WholeIsListed
  <2>2. ASSUME NEW r \in DOMAIN o, "completed" \in o[r].sent, ~o[r].cut
        PROVE  /\ \A i, j \in DOMAIN o[r].items : o[r].items[i].index = o[r].items[j].index => i = j
               /\ \A i \in DOMAIN o[r].items : o[r].items[i].wire = "closed"
               /\ Cardinality({i \in DOMAIN o[r].items : o[r].items[i].type = "mcp_call"}) = o[r].made
    <3>1. StreamShown(o[r])
      BY DEF ConversationsInv, Proxies, ProxyInv
    <3>2. /\ o[r].items \in Seq(OItems) /\ \A i \in 1..Len(o[r].items) : o[r].items[i].index = i - 1
          /\ OpenShown(o[r]) = {} /\ Cardinality(CallsShown(o[r])) = o[r].made
      BY <2>2, <3>1 DEF StreamShown
    <3>3. ASSUME NEW i \in DOMAIN o[r].items PROVE o[r].items[i].index = i - 1 /\ o[r].items[i].wire = "closed" /\ i \in Nat
      <4>1. i \in 1..Len(o[r].items) /\ o[r].items[i] \in OItems
        BY <3>2
      <4>2. o[r].items[i].wire # "open"
        BY <3>2 DEF OpenShown
      <4> QED BY <3>2, <4>1, <4>2 DEF OItems
    <3>4. \A i, j \in DOMAIN o[r].items : o[r].items[i].index = o[r].items[j].index => i = j
      BY <3>3
    <3> QED BY <3>2, <3>3, <3>4 DEF CallsShown
  <2>3. CompletedIsWhole
    BY <2>1 DEF CompletedIsWhole, Reqs
  <2> QED BY <2>2, <2>3 DEF CompletedClosesAll, OReqs
<1> QED BY <1>1, ConversationsInvariant, PTL
=============================================================================
