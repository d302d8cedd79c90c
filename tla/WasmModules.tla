---------------------------- MODULE WasmModules -----------------------------
(***************************************************************************)
(* WASM modules: POST /wasm and DELETE /wasm/:uuid (wasm/route.rs) and the *)
(* workflows that register and remove a module                             *)
(* (core/steps/wasm_module_registration.rs, wasm_module_removal.rs).  The  *)
(* file of a module may change while it is being registered: it is looked  *)
(* at by three steps.  The manager of the modules is external.             *)
(*                                                                         *)
(* A module's uuid is new, and stands here as the job that registered it.  *)
(***************************************************************************)
EXTENDS ExtensionJobs

CONSTANTS
    Adds, Removals,
    Before,       \* the module before this one in the same request, or Nil
    Target,       \* the uuid a removal names
    Path,         \* descriptor.file_path
    Allowed,      \* paths that pass: absolute, without dots, .wasm, not in a blocked directory
    Components,   \* contents that are valid components
    Junk,         \* a content that is not
    Kept,         \* modules that are registered when the behaviour starts
    Old,          \* their content
    First,        \* bound: the contents that files may have at first
    MaxChanges    \* bound: how often files change

ASSUME WasmAssumption ==
    /\ Adds \subseteq Jobs /\ Removals \subseteq Jobs /\ Adds \cap Removals = {}
    /\ Before \in [Adds -> Adds \cup {Nil}] /\ Target \in [Removals -> Adds]
    /\ Kept \subseteq Adds /\ \A g \in Groups : g \cap Kept = {}
    /\ Old \in Components /\ First \subseteq Components \cup {Junk}

Paths == {Path[a] : a \in Adds}
Used == {Path[a] : a \in active \cap Adds}
Contents == Components \cup {Junk, Nil}   \* Nil: no such file

VARIABLES
    file,       \* the file system
    changes,    \* bound: how often it has changed
    data,       \* per registration: what its steps have found
    module,     \* the manager: uuid -> module, or Nil
    ever,       \* history: uuids that have been registered
    answer      \* per module or removal of a request: Nil, "error", or what was answered

wasm == <<file, changes, data, module, ever, answer>>

NoData == [size |-> Nil, hash |-> Nil, bytes |-> Nil, seen |-> {}]

Earlier == [size |-> Old, hash |-> Old, bytes |-> Old]
Module(a, found) ==
    [name |-> KeyOf[a], size |-> found.size, hash |-> found.hash, bytes |-> found.bytes]

WasmInit ==
    /\ file \in {f \in [Paths -> First \cup {Nil}] : \A p \in Paths : f[p] # Nil <=> p \in Used}
    /\ changes = 0
    /\ data = [a \in Adds |-> NoData]
    /\ module = [a \in Adds |-> IF a \in Kept THEN Module(a, Earlier) ELSE Nil]
    /\ ever = Kept
    /\ answer = [j \in Adds \cup Removals |-> Nil]

Registered == {a \in Adds : module[a] # Nil}
Content(a) == file[Path[a]]

ChangeFile(p, c) ==
    /\ p \in Used /\ changes < MaxChanges /\ c # file[p]
    /\ file' = [file EXCEPT ![p] = c]
    /\ changes' = changes + 1
    /\ UNCHANGED <<jobs, data, module, ever, answer>>

-----------------------------------------------------------------------------
(* The steps of a registration *)

\* The size is taken here and kept. A link is followed here, once: where it leads now may be
\* refused, and the later steps do not look again.
ValidateDescriptor(a) ==
    /\ step[a] = "validate_descriptor"
    /\ \/ /\ Path[a] \in Allowed /\ Content(a) # Nil
          /\ data' = [data EXCEPT ![a].size = Content(a)] /\ Goto(a, "calculate_hash")
       \/ UNCHANGED data /\ Goto(a, "failed")
    /\ StepOnly /\ UNCHANGED <<file, changes, module, ever, answer>>

CalculateHash(a) ==
    /\ step[a] = "calculate_hash"
    /\ IF Content(a) # Nil
       THEN data' = [data EXCEPT ![a].hash = Content(a)] /\ Goto(a, "check_duplicate")
       ELSE UNCHANGED data /\ Again(a, 3, "failed")
    /\ StepOnly /\ UNCHANGED <<file, changes, module, ever, answer>>

\* check_duplicate_sha256_hash looks at the modules registered now.
CheckDuplicate(a) ==
    /\ step[a] = "check_duplicate"
    /\ data' = [data EXCEPT ![a].seen = Registered]
    /\ Goto(a, IF \E m \in Registered : module[m].hash = data[a].hash THEN "failed" ELSE "load_wasm_bytes")
    /\ StepOnly /\ UNCHANGED <<file, changes, module, ever, answer>>

\* The file is read once more.
LoadWasmBytes(a) ==
    /\ step[a] = "load_wasm_bytes"
    /\ IF Content(a) # Nil
       THEN data' = [data EXCEPT ![a].bytes = Content(a)] /\ Goto(a, "validate_wasm_component")
       ELSE UNCHANGED data /\ Again(a, 3, "failed")
    /\ StepOnly /\ UNCHANGED <<file, changes, module, ever, answer>>

\* Variant: the file is compiled, not the bytes in memory.
ValidateFile(a) ==
    /\ step[a] = "validate_wasm_component"
    /\ Goto(a, IF Content(a) \in Components THEN "register_module" ELSE "failed")
    /\ StepOnly /\ UNCHANGED <<file, changes, data, module, ever, answer>>

ValidateWasmComponent(a) ==
    /\ step[a] = "validate_wasm_component"
    /\ Goto(a, IF data[a].bytes \in Components THEN "register_module" ELSE "failed")
    /\ StepOnly /\ UNCHANGED <<file, changes, data, module, ever, answer>>

RegisterModule(a) ==
    /\ step[a] = "register_module"
    /\ module' = [module EXCEPT ![a] = Module(a, data[a])]
    /\ ever' = ever \cup {a}
    /\ Goto(a, "completed")
    /\ StepOnly /\ UNCHANGED <<file, changes, data, answer>>

Registration(a) ==
    \/ ValidateDescriptor(a) \/ CalculateHash(a) \/ CheckDuplicate(a)
    \/ LoadWasmBytes(a) \/ ValidateWasmComponent(a) \/ RegisterModule(a)

-----------------------------------------------------------------------------
(* The steps of a removal *)

FindModuleToRemove(r) ==
    /\ step[r] = "find_module_to_remove"
    /\ Goto(r, IF Target[r] \in Registered THEN "remove_module" ELSE "failed")
    /\ StepOnly /\ UNCHANGED <<file, changes, data, module, ever, answer>>

\* A module that has gone in the meantime may be an error to the manager or not.
RemoveModule(r) ==
    /\ step[r] = "remove_module"
    /\ module' = [module EXCEPT ![Target[r]] = Nil]
    /\ \/ Goto(r, "completed")
       \/ Target[r] \notin Registered /\ Goto(r, "failed")
    /\ StepOnly /\ UNCHANGED <<file, changes, data, ever, answer>>

Removal(r) == FindModuleToRemove(r) \/ RemoveModule(r)

-----------------------------------------------------------------------------
(* The handlers *)

\* add_wasm_module takes the modules of a request one after the other.
RequestModule(a) ==
    /\ phase[a] = "new" /\ (Before[a] # Nil => answer[Before[a]] # Nil)
    /\ Submit(a)
    /\ UNCHANGED wasm

\* remove_wasm_module
RequestRemoval(r) ==
    /\ phase[r] = "new"
    /\ Submit(r)
    /\ UNCHANGED wasm

BeginWasm(j) ==
    /\ Begin(j, IF j \in Adds THEN "validate_descriptor" ELSE "find_module_to_remove")
    /\ UNCHANGED wasm

Waiting(j) == phase[j] # "new" /\ answer[j] = Nil

\* wait_for_job_completion finds a failure, and removes it.
HearFailure(j) ==
    /\ Waiting(j) /\ status[KeyOf[j]] = "failed"
    /\ answer' = [answer EXCEPT ![j] = "error"]
    /\ Put(j, Nil)
    /\ UNCHANGED <<active, phase, result, step, attempt, file, changes, data, module, ever>>

\* It finds no status, which it takes for success; the uuid to answer with is that of a
\* module with the right name, if there is one.
HearSuccess(j) ==
    LET named == {m \in Registered : module[m].name = KeyOf[j]} IN
    /\ Waiting(j) /\ status[KeyOf[j]] = Nil
    /\ \E u \in IF j \in Removals THEN {"removed"} ELSE IF named = {} THEN {"error"} ELSE named :
          answer' = [answer EXCEPT ![j] = u]
    /\ UNCHANGED <<jobs, file, changes, data, module, ever>>

\* It has waited too long.
StopWaiting(j) ==
    /\ Waiting(j) /\ status[KeyOf[j]] \in {"pending", "processing"}
    /\ answer' = [answer EXCEPT ![j] = "error"]
    /\ UNCHANGED <<jobs, file, changes, data, module, ever>>

WasmNext ==
    \/ \E p \in Paths, c \in Contents : ChangeFile(p, c)
    \/ \E a \in Adds : RequestModule(a) \/ Registration(a)
    \/ \E r \in Removals : RequestRemoval(r) \/ Removal(r)
    \/ \E j \in Adds \cup Removals :
          \/ BeginWasm(j) \/ HearFailure(j) \/ HearSuccess(j) \/ StopWaiting(j)
          \/ JobNext(j) /\ UNCHANGED wasm

WasmFair ==
    /\ \A a \in Adds : WF_<<jobs, wasm>>(Registration(a))
    /\ \A r \in Removals : WF_<<jobs, wasm>>(Removal(r))

-----------------------------------------------------------------------------
(* Properties *)

\* What a module runs is what was validated, although its file may change between any two
\* steps of its registration; and two modules of one hash can only come from registrations
\* that overlapped: none of them was there when the other was checked.
ModulesSound ==
    \A a \in Registered :
        /\ module[a].bytes \in Components
        /\ \A b \in Registered \ {a} : module[a].hash = module[b].hash => b \notin data[a].seen

\* A client that is told of a success was told the truth, if nobody but its own job touched
\* the status it waited for: its job succeeded, its module was registered, the module it
\* wanted removed is gone.  The wait takes a missing status for a success, so this needs the
\* status to be there from before the wait until the job is over.
AnswersTrue ==
    \A j \in (Adds \cup Removals) \ disturbed :
        /\ answer[j] \notin {Nil, "error"} => result[j] = "ok"
        /\ answer[j] \in Adds => j \in ever
        /\ answer[j] = "removed" => Target[j] \notin Registered
=============================================================================
