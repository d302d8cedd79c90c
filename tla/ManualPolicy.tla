---------------------------- MODULE ManualPolicy ----------------------------
(***************************************************************************)
(* Sticky routing (policies/manual.rs): a table from routing keys to at    *)
(* most two candidate workers, shared by all instances of the policy in    *)
(* the process.  Every instance has a background thread (PeriodicTask,     *)
(* policies/utils.rs) that evicts idle entries and then writes the table   *)
(* to a file, through a temporary file and under a process-wide lock; at   *)
(* start the table is loaded from that file.                               *)
(*                                                                         *)
(* The entry of a key is locked while a request decides.  Health is read   *)
(* just before.  Time is counted in periods in which a key is not used.    *)
(***************************************************************************)
EXTENDS Policies, SequencesExt

CONSTANTS
    Keepers,      \* background threads of policy instances that have the file
    Sessions,     \* routing keys in use
    MaxIdle,      \* max_idle_secs, in periods
    Assignment,   \* assignment_mode: "random", "min_load" or "min_group"
    IoErrors      \* writing and renaming may fail

MaxCandidateWorkers == 2

ASSUME ManualAssumption ==
    /\ Sessions \subseteq Keys /\ MaxIdle \in Nat \ {0} /\ IoErrors \in BOOLEAN
    /\ Assignment \in {"random", "min_load", "min_group"}
    /\ None \notin Keepers /\ None \notin [urls : Seq(Servers), idle : Nat]

VARIABLES
    table,      \* routing_map: key -> candidates, oldest first, and periods since last_access
    keeper,     \* per thread: where it is, the entries it is about to write and, as history,
                \* the keys that have not changed since it collected them
    writing,    \* the thread that holds SNAPSHOT_LOCK; its entries are in the temporary file
    mapFile,    \* the file: candidates per key
    last,       \* history, per key: worker of the last request since the entry was made
    saved       \* history: keys that have not changed since a snapshot that holds them, and no
                \* older snapshot is still to be written

manual == <<table, keeper, writing, mapFile, last, saved>>

NoEntries == [k \in Sessions |-> <<>>]
Resting == [pc |-> "sleep", entries |-> NoEntries, fresh |-> {}]

ManualInit ==
    /\ table = [k \in Sessions |-> None]
    /\ keeper = [e \in Keepers |-> Resting]
    /\ writing = None
    /\ mapFile = NoEntries
    /\ last = [k \in Sessions |-> None]
    /\ saved = {}

Candidates(k) == IF table[k] = None THEN <<>> ELSE table[k].urls

-----------------------------------------------------------------------------
(* Requests *)

\* The least loaded of ws, by requests being served or, for min_group, by routing keys being
\* served.  Loads are read when they are needed and may be anything.
MinBy(ws, loads) == {w \in ws : \A v \in ws : loads[w] <= loads[v]}

SelectNewWorker(ws) ==
    IF Assignment = "random" THEN ws
    ELSE {w \in ws : \E loads \in [ws -> 0..1] : w \in MinBy(ws, loads)}

\* Variant: a full list takes no new candidate.
PushBoundedFull(cands, w) == IF Len(cands) < MaxCandidateWorkers THEN Append(cands, w) ELSE cands

\* The oldest candidate makes room.
PushBounded(cands, w) == Append(IF Len(cands) < MaxCandidateWorkers THEN cands ELSE Tail(cands), w)

\* The first candidate that is healthy.
FindHealthyWorker(cands, ws) ==
    LET good == {i \in DOMAIN cands : cands[i] \in ws} IN IF good = {} THEN None ELSE cands[Min(good)]

\* History: the entries of ks change.
Changed(ks) ==
    /\ saved' = saved \ ks
    /\ keeper' = [e \in Keepers |-> [keeper[e] EXCEPT !.fresh = @ \ ks]]

\* The entry of k is now entry, and the request goes to w.
Assigned(k, w, entry) ==
    /\ table' = [table EXCEPT ![k] = [urls |-> entry, idle |-> 0]]
    /\ last' = [last EXCEPT ![k] = w]
    /\ UNCHANGED <<common, simple, writing, mapFile>>

OccupiedHit(k) ==
    LET w == FindHealthyWorker(Candidates(k), up) IN
    /\ policy = "manual" /\ w # None
    /\ Assigned(k, w, Candidates(k))
    /\ UNCHANGED <<saved, keeper>>

OccupiedMiss(k) ==
    /\ policy = "manual" /\ up # {} /\ table[k] # None
    /\ FindHealthyWorker(Candidates(k), up) = None
    /\ \E w \in SelectNewWorker(up) : Assigned(k, w, PushBounded(Candidates(k), w))
    /\ Changed({k})

\* A request without a routing key goes to the least loaded worker and leaves no trace.
Vacant(k) ==
    /\ policy = "manual" /\ up # {} /\ table[k] = None
    /\ \E w \in SelectNewWorker(up) : Assigned(k, w, <<w>>)
    /\ Changed({k})

-----------------------------------------------------------------------------
(* The background threads *)

\* A period in which none of the keys ks is used.
Rest(ks) ==
    /\ policy = "manual" /\ ks # {} /\ \A k \in ks : table[k] # None /\ table[k].idle < MaxIdle
    /\ table' = [k \in Sessions |-> IF k \in ks THEN [table[k] EXCEPT !.idle = @ + 1] ELSE table[k]]
    /\ UNCHANGED <<common, simple, keeper, writing, mapFile, last, saved>>

\* retain: entries that were not used for MaxIdle are dropped.
EvictIdle(e) ==
    LET gone == {k \in Sessions : table[k] # None /\ table[k].idle >= MaxIdle} IN
    /\ policy = "manual" /\ keeper[e].pc = "sleep"
    /\ table' = [k \in Sessions |-> IF k \in gone THEN None ELSE table[k]]
    /\ last' = [k \in Sessions |-> IF k \in gone THEN None ELSE last[k]]
    /\ saved' = saved \ gone
    /\ keeper' = [x \in Keepers |-> [keeper[x] EXCEPT !.fresh = @ \ gone,
                                                      !.pc = IF x = e THEN "collect" ELSE @]]
    /\ UNCHANGED <<common, simple, writing, mapFile>>

\* Variant: only the first candidate is written.
CollectFirst(e) ==
    /\ keeper[e].pc = "collect"
    /\ keeper' = [keeper EXCEPT ![e] = [pc |-> "write", entries |->
           [k \in Sessions |-> IF Candidates(k) = <<>> THEN <<>> ELSE <<Head(Candidates(k))>>],
           fresh |-> {k \in Sessions : table[k] # None}]]
    /\ UNCHANGED <<common, simple, table, writing, mapFile, last, saved>>

\* snapshot_routing_map: the entries are collected before the lock is taken.
CollectEntries(e) ==
    /\ keeper[e].pc = "collect"
    /\ keeper' = [keeper EXCEPT ![e] = [pc |-> "write", entries |-> [k \in Sessions |-> Candidates(k)],
                                        fresh |-> {k \in Sessions : table[k] # None}]]
    /\ UNCHANGED <<common, simple, table, writing, mapFile, last, saved>>

WriteTmp(e) ==
    /\ keeper[e].pc = "write" /\ writing = None
    /\ \/ /\ writing' = e
          /\ keeper' = [keeper EXCEPT ![e].pc = "rename"]
       \/ /\ IoErrors
          /\ keeper' = [keeper EXCEPT ![e] = Resting]
          /\ UNCHANGED writing
    /\ UNCHANGED <<common, simple, table, mapFile, last, saved>>

RenameTmp(e) ==
    LET others == {x \in Keepers \ {e} : keeper[x].pc = "write"} IN
    /\ keeper[e].pc = "rename"
    /\ \/ /\ mapFile' = keeper[e].entries
          /\ saved' = saved \cup {k \in keeper[e].fresh : \A x \in others : k \in keeper[x].fresh}
       \/ IoErrors /\ UNCHANGED <<mapFile, saved>>
    /\ writing' = None
    /\ keeper' = [keeper EXCEPT ![e] = Resting]
    /\ UNCHANGED <<common, simple, table, last>>

-----------------------------------------------------------------------------
(* Restart *)

\* load_routing_map: entries come back as if just used; a malformed file is put aside.
LoadRoutingMap(malformed) ==
    [k \in Sessions |-> IF malformed \/ mapFile[k] = <<>> THEN None
                        ELSE [urls |-> mapFile[k], idle |-> 0]]

\* The process ends at any point and starts again; nothing but the files is left.  The last
\* file may come back malformed, since nothing is synced to disk.
Restart(damaged) ==
    /\ policy = "manual" /\ (damaged => IoErrors)
    /\ table' = LoadRoutingMap(damaged)
    /\ mapFile' = IF damaged THEN NoEntries ELSE mapFile
    /\ last' = [k \in Sessions |-> IF ~damaged /\ k \in saved THEN last[k] ELSE None]
    /\ saved' = IF damaged THEN {} ELSE {k \in Sessions : mapFile[k] # <<>>}
    /\ keeper' = [e \in Keepers |-> Resting] /\ writing' = None
    /\ UNCHANGED <<common, simple>>

ManualNext ==
    \/ \E k \in Sessions : OccupiedHit(k) \/ OccupiedMiss(k) \/ Vacant(k)
    \/ \E ks \in SUBSET Sessions : Rest(ks)
    \/ \E e \in Keepers : EvictIdle(e) \/ CollectEntries(e) \/ WriteTmp(e) \/ RenameTmp(e)
    \/ \E damaged \in BOOLEAN : Restart(damaged)

-----------------------------------------------------------------------------
(* Properties *)

\* Position of a worker among the candidates of a key.
Rank(k, w) == CHOOSE i \in DOMAIN Candidates(k) : Candidates(k)[i] = w

\* A session stays with its worker: the next request of a key, also after a restart from a
\* snapshot that holds it, goes elsewhere only if the worker was not available, or to an
\* earlier candidate that is back.  Adding workers, other keys, failovers and the threads
\* that evict and write change nothing.
Sticky ==
    [][\A k \in Sessions :
          (last[k] # None /\ last'[k] \notin {None, last[k]}) =>
              \/ last[k] \notin up
              \/ (last[k] \in Range(Candidates(k)) /\ last'[k] \in Range(Candidates(k))
                  /\ Rank(k, last'[k]) < Rank(k, last[k]))]_last

\* What a restart restores: once a snapshot that holds a session is written and no older one
\* is on its way, the file has the session's candidates until these change, whatever other
\* threads write, fail to write, or where the process stops.
RestoredSession == \A k \in saved : table[k] # None /\ mapFile[k] = table[k].urls
=============================================================================
