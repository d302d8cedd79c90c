---------------------------- MODULE BucketPolicy ----------------------------
(***************************************************************************)
(* The bucket policy for prefill workers (policies/bucket.rs): requests go *)
(* to workers by their length.  Every worker has a range of lengths; the   *)
(* ranges follow the lengths of the requests of the last period.  When the *)
(* workers' loads, in characters of that period, differ too much, the      *)
(* least loaded worker is taken instead.                                   *)
(*                                                                         *)
(* A request reads the bucket under the read lock and enters itself later, *)
(* under the write lock; registrations and the adjusting thread come in    *)
(* between.  The policy looks neither at health nor at the requests a      *)
(* worker serves; when the url it chose is not among the workers it was    *)
(* given, the request is refused after it was entered.  So requests end    *)
(* here when they are entered.  One model; time is counted in steps        *)
(* of half a period or more.                                               *)
(***************************************************************************)
EXTENDS Policies, SequencesExt

CONSTANTS
    PrefillClients,          \* requests at a time
    Lengths,                 \* lengths of requests, in characters
    LMax, UsizeMax,          \* the initial l_max (4096), usize::MAX
    AbsThreshold, RelNum, RelDen,   \* balance_abs_threshold, balance_rel_threshold
    Fleets,                  \* sets of prefill workers that may be registered
    MaxWindow                \* bound: requests in the window

ASSUME BucketAssumption ==
    /\ Lengths \subseteq 0..UsizeMax /\ Fleets \subseteq (SUBSET Servers) \ {{}}
    /\ Cardinality(Servers) <= LMax /\ LMax <= UsizeMax

VARIABLES
    urls,          \* prefill_worker_urls; <<>>: the model has no bucket yet
    lmax,          \* l_max
    ranges,        \* boundary: [url, lo, hi] in ascending order
    chars,         \* chars_per_url, for the urls it holds
    window,        \* request_list, oldest first, with the entries of t_req_loads
    loadTotal,     \* load_total
    bucketLoad,    \* bucket_load: a bucket's share when the ranges were last adjusted
    choice         \* per client: the url it chose and its length, before it is entered

bucket == <<urls, lmax, ranges, chars, window, loadTotal, bucketLoad, choice>>

BucketInit ==
    /\ urls = <<>> /\ lmax = LMax /\ ranges = <<>>
    /\ chars = <<>>
    /\ window = <<>> /\ loadTotal = 0 /\ bucketLoad = 0
    /\ choice = [c \in PrefillClients |-> None]

Monus(m, n) == IF m > n THEN m - n ELSE 0

-----------------------------------------------------------------------------
(* Registration *)

\* Equal ranges up to l_max; the last one has no end.  From the second time on, l_max is
\* usize::MAX.
EvenRanges(us, top) ==
    LET n == Len(us) gap == top \div n IN
    [i \in 1..n |-> [url |-> us[i], lo |-> (i - 1) * gap,
                     hi |-> IF i = n THEN UsizeMax ELSE i * gap - 1]]

\* The workers' urls, in list order.
WorkerUrls(ws) == SelectSeq(ServerList, LAMBDA w : w \in ws)

\* Every registration of a prefill worker starts the bucket anew with all of them; the
\* window stays.
InitPrefillWorkerUrls(ws) ==
    /\ policy = "bucket"
    /\ urls' = WorkerUrls(ws)
    /\ chars' = [w \in ws |-> 0]
    /\ ranges' = EvenRanges(urls', lmax)
    /\ lmax' = UsizeMax
    /\ UNCHANGED <<common, simple, window, loadTotal, bucketLoad, choice>>

-----------------------------------------------------------------------------
(* Requests *)

FindBoundary(n) ==
    LET fits == {i \in DOMAIN ranges : ranges[i].lo <= n /\ n <= ranges[i].hi} IN
    IF fits = {} THEN None ELSE ranges[CHOOSE i \in fits : TRUE].url

Imbalanced ==
    LET loads == {chars[w] : w \in DOMAIN chars} IN
    /\ Max(loads) - Min(loads) > AbsThreshold
    /\ Max(loads) * RelDen > RelNum * Min(loads)

\* What a request of length n may choose.
PrefillChoices(n) ==
    IF Imbalanced THEN {w \in DOMAIN chars : \A v \in DOMAIN chars : chars[w] <= chars[v]}
    ELSE IF FindBoundary(n) # None THEN {FindBoundary(n)} ELSE up

\* Without a bucket (before the first registration) a request goes to any worker.
ChoosePrefill(c, n) ==
    /\ policy = "bucket" /\ urls # <<>> /\ choice[c] = None
    /\ \E w \in PrefillChoices(n) : choice' = [choice EXCEPT ![c] = [url |-> w, len |-> n]]
    /\ UNCHANGED <<common, simple, urls, lmax, ranges, chars, window, loadTotal, bucketLoad>>

\* The requests of the window that belong to w.
Of(w, reqs) == SelectSeq(reqs, LAMBDA r : r.url = w)
LengthSum(reqs) == FoldSeq(LAMBDA r, n : r.len + n, 0, reqs)

\* The characters of the expired requests are taken from their workers, as far as there are any.
WithoutExpired(cs, reqs) == [w \in DOMAIN cs |-> Monus(cs[w], LengthSum(Of(w, reqs)))]

PostProcessRequest(c) ==
    LET w == choice[c].url
        n == choice[c].len
        stale == SelectSeq(window, LAMBDA r : r.age > 1)
        kept == SelectSeq(window, LAMBDA r : r.age <= 1)
        entered == [v \in DOMAIN chars \cup {w} |->
                       (IF v \in DOMAIN chars THEN chars[v] ELSE 0) + (IF v = w THEN n ELSE 0)] IN
    /\ choice[c] # None /\ Len(kept) < MaxWindow
    /\ chars' = WithoutExpired(entered, stale)
    /\ window' = Append(kept, [url |-> w, len |-> n, age |-> 0])
    /\ loadTotal' = Monus(loadTotal, LengthSum(stale)) + n
    /\ choice' = [choice EXCEPT ![c] = None]
    /\ UNCHANGED <<common, simple, urls, lmax, ranges, bucketLoad>>

\* Half a period or more passes.
PassPeriod ==
    /\ policy = "bucket" /\ \E i \in DOMAIN window : window[i].age < 2
    /\ window' = [i \in DOMAIN window |-> [window[i] EXCEPT !.age = IF @ < 2 THEN @ + 1 ELSE 2]]
    /\ UNCHANGED <<common, simple, urls, lmax, ranges, chars, loadTotal, bucketLoad, choice>>

-----------------------------------------------------------------------------
(* Adjustment *)

\* update_workers_cnt: the url's workers have an entry; others only while theirs is not 0.
UpdateWorkersCnt ==
    [w \in Range(urls) \cup {v \in DOMAIN chars : chars[v] # 0} |->
        IF w \in DOMAIN chars THEN chars[w] ELSE 0]

\* How many of the lengths it takes, from the front, to reach a load; 0: all are not enough.
Reach(lens, load) ==
    LET enough == {k \in DOMAIN lens : FoldSeq(+, 0, SubSeq(lens, 1, k)) >= load} IN
    IF enough = {} THEN 0 ELSE Min(enough)

\* Variant: the next range starts at the end of the one before.
NextRangeTouching(acc, u, single) ==
    LET m == Reach(acc.rest, single)
        hi == IF u = Last(urls) THEN UsizeMax
              ELSE IF m # 0 /\ acc.rest[m] > acc.lo THEN acc.rest[m] ELSE acc.lo + single IN
    [out |-> Append(acc.out, [url |-> u, lo |-> acc.lo, hi |-> hi]), lo |-> hi,
     rest |-> IF m = 0 THEN <<>> ELSE SubSeq(acc.rest, m + 1, Len(acc.rest))]

\* The range of the next worker takes the shortest requests left, up to its share of the
\* load.  It ends at the longest of them, or after its share if that is no further.
NextRange(acc, u, single) ==
    LET m == Reach(acc.rest, single)
        hi == IF u = Last(urls) THEN UsizeMax
              ELSE IF m # 0 /\ acc.rest[m] > acc.lo THEN acc.rest[m] ELSE acc.lo + single IN
    [out |-> Append(acc.out, [url |-> u, lo |-> acc.lo, hi |-> hi]), lo |-> hi + 1,
     rest |-> IF m = 0 THEN <<>> ELSE SubSeq(acc.rest, m + 1, Len(acc.rest))]

AdjustedRanges(single) ==
    LET lens == SortSeq([i \in DOMAIN window |-> window[i].len], <) IN
    FoldLeft(LAMBDA acc, u : NextRange(acc, u, single), [out |-> <<>>, lo |-> 0, rest |-> lens], urls).out

AdjustBoundary ==
    LET single == loadTotal \div Len(urls)
        close == single <= 2 * bucketLoad /\ bucketLoad <= 2 * single /\ bucketLoad # 0 IN
    /\ policy = "bucket" /\ urls # <<>> /\ window # <<>>
    /\ chars' = UpdateWorkersCnt
    /\ ranges' = IF close THEN ranges ELSE AdjustedRanges(single)
    /\ bucketLoad' = IF close THEN bucketLoad ELSE single
    /\ UNCHANGED <<common, simple, urls, lmax, window, loadTotal, choice>>

BucketNext ==
    \/ \E ws \in Fleets : InitPrefillWorkerUrls(ws)
    \/ \E c \in PrefillClients : PostProcessRequest(c) \/ \E n \in Lengths : ChoosePrefill(c, n)
    \/ PassPeriod
    \/ AdjustBoundary

-----------------------------------------------------------------------------
(* Properties *)

\* Whatever requests the ranges were last fitted to, and however often the workers changed,
\* the ranges cover every length exactly once, in ascending order, one range per worker:
\* find_boundary's binary search always finds a worker.
RangesTile ==
    /\ [i \in DOMAIN ranges |-> ranges[i].url] = urls
    /\ urls # <<>> => ranges[1].lo = 0 /\ Last(ranges).hi = UsizeMax
    /\ \A i \in DOMAIN ranges : ranges[i].lo <= ranges[i].hi
    /\ \A i \in 2..Len(ranges) : ranges[i].lo = ranges[i - 1].hi + 1

\* The load kept is that of the requests in the window, and a worker is never charged with
\* more than its own requests there, although requests enter themselves after others have
\* reset the counters: an idle worker is never passed over for load it does not have.
LoadsInWindow ==
    /\ loadTotal = LengthSum(window)
    /\ \A w \in DOMAIN chars : chars[w] <= LengthSum(Of(w, window))

\* What a selection starts from: a range for every length, and loads that are really there.
BucketsSound == RangesTile /\ LoadsInWindow
=============================================================================
