----------------------------- MODULE FileEvictor -----------------------------
(***************************************************************************)
(* The evictor of the disk cache (sglang/patches/0008-v6-scaled-evictor/   *)
(* lru_file_evictor.py) of a rank that owns its files and has eviction     *)
(* configured: index, sizes, heat and in-flight flags under one lock, the  *)
(* bounded eviction loop, and the files on disk, which the lock does not   *)
(* cover.                                                                  *)
(*                                                                         *)
(* The storage backend that drives it is not in the repository; writers,   *)
(* readers and the wipe follow the lifecycle the evictor documents: a      *)
(* writer reserves a key that is not on disk, writes the file, and commits *)
(* or aborts; a reader touches a key whose file it has read.  No two       *)
(* writers write one key at a time.  A value larger than the cap is        *)
(* refused before anything happens, and is left out.                       *)
(***************************************************************************)
EXTENDS Naturals, Sequences, FiniteSets

CONSTANTS
    Keys, Writers, Readers,
    SizeOf,        \* bytes of a key's file
    Cap,           \* max_size_bytes
    Target,        \* max_size_bytes * eviction_ratio
    MinFree,       \* min_free_bytes
    FsSize,        \* capacity of the filesystem
    Window,        \* entries looked at for a victim, 64 in the code
    SmallWrite, Base, HardMax, Slack,  \* of the eviction budget
    HitWorth,      \* BASE_TTL_SECONDS * HIT_WEIGHT, in ticks
    MaxTime,       \* bound on the clock
    MaxHits,       \* bound on the read-backs of a key
    None

ASSUME EvictorAssumption ==
    /\ IsFiniteSet(Keys) /\ IsFiniteSet(Writers) /\ IsFiniteSet(Readers)
    /\ Cap \in Nat \ {0} /\ Target \in 0..Cap /\ MinFree \in Nat \ {0}
    /\ SizeOf \in [Keys -> 1..Cap]
    /\ FsSize \in Nat /\ Cap + MinFree <= FsSize  \* __init__ clamps the cap
    /\ Window \in Nat \ {0} /\ SmallWrite \in Nat /\ Slack \in Nat
    /\ Base \in Nat \ {0} /\ HardMax \in Nat /\ Base <= HardMax
    /\ HitWorth \in Nat /\ MaxTime \in Nat /\ MaxHits \in Nat
    /\ None \notin Keys \cup Writers

VARIABLES
    lru,        \* _lru: the keys of the index, oldest first
    size,       \* _lru: per key of the index, its bytes
    heat,       \* _meta: per key, last access and read-backs
    pending,    \* _pending_writes
    total,      \* _total_bytes
    call,       \* what the holder of the lock is doing; None while the lock is free
    disk,       \* bytes of each key's file; 0 if there is none
    now,        \* time.time()
    writer,     \* per writer: its step and key
    reader,     \* per reader: its step, key, time and the size it found
    orphaned,   \* history: files that lost their entry other than by eviction
    dropped,    \* history: writers whose reservation a wipe has dropped
    solo,       \* history: writers admitted by a probe that nothing has invalidated
    late        \* history: keys renewed with a time read before the clock moved

index == <<lru, size, heat, pending, total>>
history == <<orphaned, dropped, solo, late>>
vars == <<index, call, disk, now, writer, reader, history>>

Heat(at, hits) == [at |-> at, hits |-> hits]
Cold == Heat(0, 0)
Tracked == {lru[i] : i \in 1..Len(lru)}

\* The bytes that f gives to the keys of S, one by one; no file is larger than the cap.
Bytes(f, S) == Cardinality({c \in S \X (1..Cap) : c[2] <= f[c[1]]})
Free == FsSize - Bytes(disk, Keys)

\* A key is in the index at most once.
Without(seq, k) ==
    IF \E i \in 1..Len(seq) : seq[i] = k
    THEN LET p == CHOOSE i \in 1..Len(seq) : seq[i] = k
         IN [i \in 1..(Len(seq) - 1) |-> seq[IF i < p THEN i ELSE i + 1]]
    ELSE seq
ToTail(k) == Append(Without(lru, k), k)
UpTo(n, cap) == IF n > cap THEN cap ELSE n
AtLeast(n, floor) == IF n < floor THEN floor ELSE n
Minus(a, b) == IF a > b THEN a - b ELSE 0

-----------------------------------------------------------------------------
(* The eviction loop, with the lock held *)

\* _eviction_cap_for
Budget(need) ==
    IF need <= SmallWrite \/ lru = <<>> THEN Base
    ELSE LET avg == AtLeast(total \div Len(lru), 1) IN
         UpTo(AtLeast((3 * need) \div (2 * avg) + Slack, Base), HardMax)

\* The loop against the cap, and the one against the watermark with the space it probed.
Call(who, k, need, loop, on, fresh, budget, free) ==
    [who |-> who, key |-> k, need |-> need, loop |-> loop, on |-> on, fresh |-> fresh,
     budget |-> budget, free |-> free]
CapLoop(who, k, need) == Call(who, k, need, "cap", TRUE, FALSE, Budget(need), 0)
FreeLoop(who, k, need) == Call(who, k, need, "free", TRUE, TRUE, Budget(need + MinFree), Free)

\* The retention score, without the base TTL that all scores share.
Score(k) == heat[k].at + HitWorth * heat[k].hits

InWindow == {i \in 1..UpTo(Len(lru), Window) : lru[i] \notin pending}

\* The first entry of the window with the lowest score.
Victim == lru[CHOOSE i \in InWindow : \A j \in InWindow :
                  Score(lru[i]) < Score(lru[j]) \/ (Score(lru[i]) = Score(lru[j]) /\ i <= j)]

WantsMore ==
    /\ call.on /\ call.budget > 0 /\ InWindow # {}
    /\ IF call.loop = "cap" THEN total > Minus(Target, call.need)
       ELSE call.free < call.need + MinFree

\* The file is unlinked, or was gone already; only an unlinked file is credited.
Evict ==
    /\ call # None /\ WantsMore
    /\ LET v == Victim IN
       /\ lru' = Without(lru, v)
       /\ size' = [size EXCEPT ![v] = 0]
       /\ heat' = [heat EXCEPT ![v] = Cold]
       /\ total' = total - size[v]
       /\ disk' = [disk EXCEPT ![v] = 0]
       /\ call' = Call(call.who, call.key, call.need, call.loop, call.on, FALSE, call.budget - 1,
                       IF disk[v] > 0 THEN call.free + size[v] ELSE call.free)
    /\ UNCHANGED <<pending, now, writer, reader, history>>

\* Variant: the entry goes to the tail and the loop tries the next one.
UnlinkFailsRetrying ==
    /\ call # None /\ WantsMore /\ disk[Victim] > 0
    /\ lru' = ToTail(Victim)
    /\ UNCHANGED <<size, heat, pending, total, call, disk, now, writer, reader, history>>

\* os.remove fails: the entry goes back, to the front, and the loop stops.
UnlinkFails ==
    /\ call # None /\ WantsMore /\ disk[Victim] > 0
    /\ lru' = <<Victim>> \o Without(lru, Victim)
    /\ call' = Call(call.who, call.key, call.need, call.loop, FALSE, call.fresh, call.budget,
                    call.free)
    /\ UNCHANGED <<size, heat, pending, total, disk, now, writer, reader, history>>

-----------------------------------------------------------------------------
(* reserve *)

Step(w, step) ==
    writer' = [writer EXCEPT ![w] = [step |-> step,
                                     key |-> IF step = "idle" THEN None ELSE @.key]]
InFlight == {w \in Writers : writer[w].step # "idle"}
Unlanded == {w \in Writers : writer[w].step = "writing"}

Reserve(w, k) ==
    /\ call = None /\ writer[w].step = "idle"
    /\ disk[k] = 0 /\ \A x \in InFlight : writer[x].key # k
    /\ writer' = [writer EXCEPT ![w] = [step |-> "reserving", key |-> k]]
    /\ call' = IF total + SizeOf[k] > Cap THEN CapLoop(w, k, SizeOf[k])
               ELSE FreeLoop(w, k, SizeOf[k])
    /\ UNCHANGED <<index, disk, now, reader, history>>

\* Variant: a reservation of a tracked key adds its bytes once more.
AdmitTwice(w, k, probed) ==
    /\ lru' = ToTail(k)
    /\ size' = [size EXCEPT ![k] = SizeOf[k]]
    /\ total' = total + SizeOf[k]
    /\ pending' = pending \cup {k}
    /\ heat' = [heat EXCEPT ![k] = Heat(now, @.hits)]
    /\ call' = None
    /\ Step(w, "writing")
    /\ solo' = IF probed /\ Unlanded = {} THEN {w} ELSE {}
    /\ late' = late \ {k}

\* The key goes to the tail, in flight; an entry it had is replaced and keeps its heat.
Admit(w, k, probed) ==
    /\ lru' = ToTail(k)
    /\ size' = [size EXCEPT ![k] = SizeOf[k]]
    /\ total' = total - size[k] + SizeOf[k]
    /\ pending' = pending \cup {k}
    /\ heat' = [heat EXCEPT ![k] = Heat(now, @.hits)]
    /\ call' = None
    /\ Step(w, "writing")
    /\ solo' = IF probed /\ Unlanded = {} THEN {w} ELSE {}
    /\ late' = late \ {k}

Refuse(w) == Step(w, "idle") /\ call' = None /\ UNCHANGED <<index, solo, late>>

\* The loop against the cap has ended.
CapDecided ==
    /\ call # None /\ call.loop = "cap" /\ ~WantsMore
    /\ \/ /\ call.who # None /\ total + call.need > Cap
          /\ Refuse(call.who)
       \/ /\ call.who = None \/ total + call.need <= Cap
          /\ call' = FreeLoop(call.who, call.key, call.need)
          /\ UNCHANGED <<index, writer, solo, late>>
    /\ UNCHANGED <<disk, now, reader, orphaned, dropped>>

\* The second probe.
Room == Free >= call.need + MinFree

\* The loop against the watermark has ended, with a second probe, or there was no probe.
FreeDecided ==
    /\ call # None /\ call.loop = "free" /\ ~WantsMore
    /\ \/ call.who = None /\ call' = None /\ UNCHANGED <<index, writer, solo, late>>
       \/ call.who # None /\ Room /\ Admit(call.who, call.key, TRUE)
       \/ call.who # None /\ ~Room /\ Refuse(call.who)
    /\ UNCHANGED <<disk, now, reader, orphaned, dropped>>

\* statvfs fails, at the first probe or at the second: the write is admitted unseen.
ProbeFails ==
    /\ call # None /\ call.loop = "free"
    /\ call.fresh \/ ~WantsMore
    /\ \/ call.who = None /\ call' = None /\ UNCHANGED <<index, writer, solo, late>>
       \/ call.who # None /\ Admit(call.who, call.key, FALSE)
    /\ UNCHANGED <<disk, now, reader, orphaned, dropped>>

-----------------------------------------------------------------------------
(* The writer: the file itself, then commit or abort *)

Land(w) ==
    /\ writer[w].step = "writing"
    /\ LET k == writer[w].key IN
       /\ Free >= SizeOf[k] - disk[k]
       /\ disk' = [disk EXCEPT ![k] = SizeOf[k]]
       /\ orphaned' = IF k \in Tracked THEN orphaned ELSE orphaned \cup {k}
    /\ Step(w, "landed")
    /\ solo' = solo \ {w}
    /\ UNCHANGED <<index, call, now, reader, dropped, late>>

\* The write fails and leaves nothing, or a part of the file.
WriteFails(w, part) ==
    /\ writer[w].step = "writing"
    /\ part < SizeOf[writer[w].key] /\ Free >= part
    /\ disk' = [disk EXCEPT ![writer[w].key] = part]
    /\ orphaned' = IF part > 0 /\ writer[w].key \notin Tracked
                   THEN orphaned \cup {writer[w].key} ELSE orphaned
    /\ Step(w, "failed")
    /\ solo' = solo \ {w}
    /\ UNCHANGED <<index, call, now, reader, dropped, late>>

Commit(w) ==
    /\ call = None /\ writer[w].step = "landed"
    /\ pending' = pending \ {writer[w].key}
    /\ Step(w, "idle")
    /\ dropped' = dropped \ {w}
    /\ UNCHANGED <<lru, size, heat, total, call, disk, now, reader, orphaned, solo, late>>

Abort(w) ==
    /\ call = None /\ writer[w].step = "failed"
    /\ LET k == writer[w].key IN
       /\ lru' = Without(lru, k)
       /\ size' = [size EXCEPT ![k] = 0]
       /\ total' = total - size[k]
       /\ pending' = pending \ {k}
       /\ heat' = [heat EXCEPT ![k] = Cold]
       /\ orphaned' = IF disk[k] > 0 THEN orphaned \cup {k} ELSE orphaned
    /\ Step(w, "idle")
    /\ dropped' = dropped \ {w}
    /\ UNCHANGED <<call, disk, now, reader, solo, late>>

-----------------------------------------------------------------------------
(* touch, by a reader that has read the file *)

Look(step, k, at, found) == [step |-> step, key |-> k, at |-> at, found |-> found]
Idle == Look("idle", None, 0, 0)
Reading(r, step) == reader[r].step = step
Stamp(k, at) == late' = IF at < now THEN late \cup {k} ELSE late \ {k}

\* Variant: a read-back leaves the entry where it is.
RenewInPlace(k, at) ==
    /\ lru' = lru
    /\ heat' = [heat EXCEPT ![k] = Heat(at, @.hits + 1)]
    /\ Stamp(k, at)
    /\ UNCHANGED <<size, pending, total, call, disk, now, writer, orphaned, dropped, solo>>

Renew(k, at) ==
    /\ lru' = ToTail(k)
    /\ heat' = [heat EXCEPT ![k] = Heat(at, @.hits + 1)]
    /\ Stamp(k, at)
    /\ UNCHANGED <<size, pending, total, call, disk, now, writer, orphaned, dropped, solo>>

Touchable(r, k) == call = None /\ Reading(r, "idle") /\ disk[k] > 0 /\ heat[k].hits < MaxHits

\* The first look finds the key.  The time is read before the lock is taken; the delay
\* between the two is left out here, and kept before the second look.
Touch(r, k) ==
    /\ Touchable(r, k) /\ k \in Tracked
    /\ Renew(k, now)
    /\ UNCHANGED reader

\* It does not: the size is read without the lock.
TouchUntracked(r, k) ==
    /\ Touchable(r, k) /\ k \notin Tracked
    /\ reader' = [reader EXCEPT ![r] = Look("stat", k, now, 0)]
    /\ UNCHANGED <<index, call, disk, now, writer, history>>

\* os.path.getsize, without the lock.
Stat(r) ==
    /\ Reading(r, "stat")
    /\ LET bytes == disk[reader[r].key] IN
       reader' = [reader EXCEPT ![r] = IF bytes = 0 THEN Idle
                                       ELSE Look("adopt", @.key, @.at, bytes)]
    /\ UNCHANGED <<index, call, disk, now, writer, history>>

\* The second look finds the key, which somebody else has entered meanwhile.
TouchLate(r) ==
    /\ call = None /\ Reading(r, "adopt")
    /\ reader[r].key \in Tracked
    /\ Renew(reader[r].key, reader[r].at)
    /\ reader' = [reader EXCEPT ![r] = Idle]

\* The file is not tracked still: it enters the index, whatever the cap says.
Adopt(r) ==
    /\ call = None /\ Reading(r, "adopt")
    /\ LET k == reader[r].key IN
       /\ k \notin Tracked
       /\ lru' = ToTail(k)
       /\ size' = [size EXCEPT ![k] = reader[r].found]
       /\ total' = total + reader[r].found
       /\ heat' = [heat EXCEPT ![k] = Heat(reader[r].at, 1)]
       /\ orphaned' = orphaned \ {k}
       /\ Stamp(k, reader[r].at)
    /\ reader' = [reader EXCEPT ![r] = Idle]
    /\ UNCHANGED <<pending, call, disk, now, writer, dropped, solo>>

-----------------------------------------------------------------------------
(* clear, and the world outside *)

\* The backend removes every file and calls clear; a write under way goes on.
Clear ==
    /\ call = None
    /\ disk' = [k \in Keys |-> 0]
    /\ lru' = <<>> /\ pending' = {} /\ total' = 0
    /\ size' = [k \in Keys |-> 0] /\ heat' = [k \in Keys |-> Cold]
    /\ orphaned' = {} /\ late' = {}
    /\ dropped' = InFlight
    /\ UNCHANGED <<call, now, writer, reader, solo>>

\* Somebody else deletes a file.
Vanish(k) ==
    /\ disk[k] > 0 /\ \A w \in InFlight : writer[w].key # k
    /\ disk' = [disk EXCEPT ![k] = 0]
    /\ orphaned' = orphaned \ {k}
    /\ UNCHANGED <<index, call, now, writer, reader, dropped, solo, late>>

Tick ==
    /\ now < MaxTime /\ now' = now + 1
    /\ UNCHANGED <<index, call, disk, writer, reader, history>>

-----------------------------------------------------------------------------
\* The files found are entered in the order of their times, all of which are past.
ScanExistingFiles ==
    /\ \E present \in SUBSET Keys :
         /\ disk = [k \in Keys |-> IF k \in present THEN SizeOf[k] ELSE 0]
         /\ lru \in {s \in [1..Cardinality(present) -> present] :
                       \A i, j \in DOMAIN s : s[i] = s[j] => i = j}
    /\ Bytes(disk, Keys) <= FsSize
    /\ size = disk
    /\ heat = [k \in Keys |-> Cold]
    /\ total = Bytes(disk, Keys)

\* __init__ then runs both loops for a write of no bytes, the first if the cap is exceeded.
Init ==
    /\ ScanExistingFiles
    /\ pending = {}
    /\ now = 0
    /\ call = IF total > Cap THEN CapLoop(None, None, 0) ELSE FreeLoop(None, None, 0)
    /\ writer = [w \in Writers |-> [step |-> "idle", key |-> None]]
    /\ reader = [r \in Readers |-> Idle]
    /\ orphaned = {} /\ dropped = {} /\ solo = {} /\ late = {}

Locked == Evict \/ UnlinkFails \/ CapDecided \/ FreeDecided \/ ProbeFails
Write(w) == (\E k \in Keys : Reserve(w, k)) \/ Land(w) \/ Commit(w) \/ Abort(w)
            \/ (\E part \in 0..1 : WriteFails(w, part))
Read(r) == (\E k \in Keys : Touch(r, k) \/ TouchUntracked(r, k))
           \/ Stat(r) \/ TouchLate(r) \/ Adopt(r)
Outside == Clear \/ (\E k \in Keys : Vanish(k)) \/ Tick

Next ==
    \/ Locked
    \/ \E w \in Writers : Write(w)
    \/ \E r \in Readers : Read(r)
    \/ Outside

\* The thread that holds the lock runs.
Spec == Init /\ [][Next]_vars /\ WF_vars(Locked)

-----------------------------------------------------------------------------
(* Properties *)

\* _total_bytes is what the index holds, through evictions of files that are gone, failed
\* unlinks, aborted writes, adoptions by a reader whose look is out of date, and a wipe.
TotalExact ==
    /\ total = Bytes(size, Tracked)
    /\ \A k \in Keys : size[k] > 0 <=> k \in Tracked

\* "flagged in-flight so a concurrent reserve won't evict it before the file is committed":
\* from reserve to commit or abort the key stays in the index, unless a wipe dropped it.
InFlightKept ==
    \A w \in InFlight \ dropped : writer[w].step # "reserving" =>
        writer[w].key \in Tracked \cap pending

\* A file without an entry escapes the cap.  Only a failed write that left a part, or a
\* write that a wipe overtook, leaves one; eviction and touch never do.
UntrackedOnlyIfOrphaned ==
    \A k \in Keys : disk[k] > 0 /\ k \notin Tracked => k \in orphaned

\* The index and the disk agree, whoever evicts, reads, fails or wipes meanwhile.
IndexSound == TotalExact /\ InFlightKept /\ UntrackedOnlyIfOrphaned

\* A write that was alone, and that nobody outside disturbed, leaves MinFree bytes free.
LandsAboveWatermark ==
    \A w \in solo : writer[w].step = "writing" /\ writer'[w].step = "landed" => Free' >= MinFree

\* A file is never evicted while a colder one stays, read before it and not more often,
\* although only the front of the index is looked at.  Exempt are writes in flight and keys
\* whose reader took its time before it got the lock.
ColderGoesFirst ==
    \A u \in Tracked \ Tracked' : call # None =>
        \A v \in Tracked' \ (pending \cup late) :
            ~(heat[v].at < heat[u].at /\ heat[v].hits <= heat[u].hits)

\* What every reservation does for its writers: it makes room enough, of the coldest files.
EvictionPolicy == [][LandsAboveWatermark /\ ColderGoesFirst]_vars

\* Whoever holds the lock gives it back, also if every entry in the window is in flight, a
\* file cannot be unlinked, or the watermark is out of reach.
LockIsReleased == call # None ~> call = None
=============================================================================
