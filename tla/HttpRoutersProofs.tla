-------------------------- MODULE HttpRoutersProofs -------------------------
(***************************************************************************)
(* Proofs about the HTTP routers, for any number of requests, workers,     *)
(* retries and thresholds: the loads are exact, the breakers hear of each  *)
(* attempt once, and a prefill/decode pair is blamed for what it did.      *)
(***************************************************************************)
EXTENDS HttpRouters, FiniteSetTheorems, TLAPS

-----------------------------------------------------------------------------
(* The inductive invariant of the regular router *)

RegularType ==
    /\ pc = [r \in Requests |-> pc[r]]
    /\ attempt = [r \in Requests |-> attempt[r]]
    /\ status = [r \in Requests |-> status[r]]
    /\ seen \in [Requests -> SUBSET Workers]
    /\ chosen \in [Requests -> Workers \cup {None}]
    /\ terminal = [r \in Requests |-> terminal[r]]
    /\ told = [r \in Requests |-> told[r]]
    /\ fate = [r \in Requests |-> fate[r]]
    /\ load \in [Workers -> Nat]

\* What the breaker has heard of an attempt that is over.
Heard(r) == CASE fate[r] = None -> told[r] = <<>>
              [] fate[r] = "unsent" -> Len(told[r]) <= 1
              [] OTHER -> told[r] = <<fate[r]>>

\* What is known of a request at each place.
At(r) ==
    /\ pc[r] \in Places
    /\ Holds(r) => chosen[r] \in Workers
    /\ pc[r] \notin {"streaming", "ended", "backoff"} => terminal[r] = None
    /\ pc[r] \in {"prepare", "sent", "body"} => told[r] = <<>> /\ fate[r] = None
    /\ pc[r] = "streaming" =>
          /\ told[r] = <<>>
          /\ (terminal[r] = "Active" /\ fate[r] = None) \/ (terminal[r] = "Errored" /\ fate[r] = "bad")
    /\ pc[r] = "ended" =>
          /\ told[r] = <<>>
          /\ (terminal[r] = "Completed" /\ fate[r] = "ok") \/ (terminal[r] = "Errored" /\ fate[r] = "bad")
    /\ pc[r] = "backoff" /\ terminal[r] # None => told[r] = <<>> /\ terminal[r] = "Errored" /\ fate[r] = "bad"
    /\ pc[r] \in {"new", "select", "done", "gone"} \/ (pc[r] = "backoff" /\ terminal[r] = None) => Heard(r)

\* A closed circuit has counted every failure of the run.
Counted(w) ==
    breaker[w].state = "Closed" =>
        breaker[w].failures \in Nat /\ streak[w] <= breaker[w].failures /\ breaker[w].failures < FailureThreshold

Breakers ==
    /\ breaker = [w \in Workers |-> breaker[w]] /\ streak \in [Workers -> Nat]
    /\ \A w \in Workers : Counted(w)

RegularInv == RegularType /\ (\A r \in Requests : At(r)) /\ Breakers /\ LoadExact

-----------------------------------------------------------------------------
(* The inductive invariant of the prefill/decode router *)

PdType ==
    /\ pc = [r \in PdRequests |-> pc[r]]
    /\ attempt \in [PdRequests -> 0..MaxRetries]
    /\ pair \in [PdRequests -> [prefill : Prefills \cup {None}, decode : Decodes \cup {None}]]
    /\ early = [r \in PdRequests |-> early[r]]
    /\ answer = [r \in PdRequests |-> answer[r]]
    /\ task = [c \in Pd!Calls |-> task[c]]
    /\ told = [c \in Pd!Calls |-> told[c]]
    /\ deed = [c \in Pd!Calls |-> deed[c]]
    /\ load \in [Prefills \cup Decodes -> Nat]

Outcomes == {"ok", "bad"}
Fresh(c) == told[c] = Pd!Both(<<>>, <<>>) /\ deed[c] = Pd!Both(None, None) /\ task[c] = None

\* Nobody has heard twice, and decode of no failure that is not its own.
Innocent(c) ==
    \E p, d \in {<<>>, <<"ok">>, <<"bad">>}, P, D \in {None, "ok", "bad", "unsent", "dropped"} :
        /\ told[c] = Pd!Both(p, d) /\ deed[c] = Pd!Both(P, D)
        /\ d = <<"bad">> => D \in {"bad", "unsent"}
        /\ D = "dropped" => d = <<>> /\ p # <<>>

\* A task that runs has reported nothing yet; what decode did so far, it will report.
TaskSound(c) ==
    task[c] # None =>
        \E d \in Decodes, state \in {"running", "over"}, synthetic \in BOOLEAN, end \in Terminals :
            /\ task[c] = Pd!Task(d, state, synthetic, end)
            /\ state = "running" =>
                  /\ told[c].decode = <<>> /\ deed[c].prefill = "ok"
                  /\ \/ synthetic /\ end = "Errored" /\ deed[c].decode = "bad"
                     \/ synthetic /\ end = "Active" /\ deed[c].decode = "ok"
                     \/ ~synthetic /\ end = "Active" /\ deed[c].decode = None

\* What failed is heard of.
Blamed(c) ==
    /\ deed[c].prefill = "bad" => told[c].prefill = <<"bad">>
    /\ deed[c].decode = "bad" /\ ~Pd!Running(c) => told[c].decode = <<"bad">>

Paired(r) == pair[r].prefill \in Prefills /\ pair[r].decode \in Decodes

\* What is known of the call of a request at each place.
PdAt(r) ==
    LET c == Pd!Call(r) IN
    /\ pc[r] = "pick_decode" => pair[r].prefill \in Prefills
    /\ pc[r] \in {"picked", "sent", "prefill_error", "decode", "decode_error", "prefill_body", "body", "streaming"}
          => Paired(r)
    /\ Pd!Holds(r) => Paired(r)
    /\ pc[r] \in {"new", "pick_decode", "picked", "sent"} => Fresh(c)
    /\ pc[r] = "prefill_error" =>
          /\ task[c] = None
          /\ \E v \in Outcomes, D \in {None, "dropped"} :
                told[c] = Pd!Both(<<v>>, <<>>) /\ deed[c] = Pd!Both(v, D)
    /\ pc[r] = "decode_error" =>
          /\ task[c] = None /\ deed[c] = Pd!Both("ok", Pd!Verdict(answer[r]))
          /\ told[c] = Pd!Both(<<"ok">>, IF r \in stream THEN <<>> ELSE <<Pd!Verdict(answer[r])>>)
    /\ pc[r] \in {"decode", "prefill_body", "body"} =>
          /\ task[c] = None
          /\ told[c] = Pd!Both(<<>>, <<>>) /\ deed[c] = Pd!Both("ok", None)
    /\ pc[r] = "streaming" => task[c] # None /\ r \in stream
    /\ pc[r] = "body" => r \notin stream
    /\ pc[r] = "backoff" => attempt[r] + 1 < MaxRetries
    /\ pc[r] \in {"streaming", "backoff", "done"} => Blamed(c)

\* What is known of a call.
CallSound(r, n) ==
    LET c == <<r, n>> IN
    /\ Innocent(c) /\ TaskSound(c)
    /\ n > attempt[r] => Fresh(c)
    /\ n < attempt[r] => Blamed(c)

PdInv ==
    /\ PdType
    /\ \A r \in PdRequests : PdAt(r)
    /\ \A r \in PdRequests, n \in 0..MaxRetries : CallSound(r, n)
    /\ Pd!LoadExact

RoutersInv ==
    /\ mode \in {"regular", "prefill_decode"}
    /\ mode = "regular" => RegularInv
    /\ mode = "prefill_decode" => PdInv

-----------------------------------------------------------------------------
(* Counting *)

LEMMA OneMore ==
    ASSUME NEW S, NEW T, NEW x, IsFiniteSet(S), x \notin S, T = S \cup {x}
    PROVE  Cardinality(S) \in Nat /\ Cardinality(T) = Cardinality(S) + 1
BY FS_AddElement, FS_CardinalityType

LEMMA OneLess ==
    ASSUME NEW S, NEW T, NEW x, IsFiniteSet(S), x \in S, T = S \ {x}
    PROVE  Cardinality(S) \in Nat \ {0} /\ Cardinality(T) = Cardinality(S) - 1
<1>1. IsFiniteSet(T) /\ x \notin T /\ S = T \cup {x}
  BY FS_RemoveElement
<1> QED
  BY <1>1, OneMore

-----------------------------------------------------------------------------
(* The regular router: requests *)

\* A step of one request leaves the others where they are.
Others(r) ==
    \A q \in Requests \ {r} :
        /\ pc'[q] = pc[q] /\ chosen'[q] = chosen[q] /\ terminal'[q] = terminal[q]
        /\ told'[q] = told[q] /\ fate'[q] = fate[q]

LEMMA OthersStay ==
    ASSUME NEW r \in Requests, Others(r), NEW q \in Requests \ {r}
    PROVE  (Holds(q)' <=> Holds(q)) /\ (At(q) => At(q)') /\ chosen'[q] = chosen[q]
<1>1. Holds(q)' <=> Holds(q)
  BY DEF Others, Holds
<1>2. Heard(q) => Heard(q)'
  BY DEF Others, Heard
<1> QED
  BY <1>1, <1>2 DEF Others, At

HeldBy(w) == {r \in Requests : chosen[r] = w /\ Holds(r)}

LEMMA HeldFinite ==
    ASSUME NEW w
    PROVE  IsFiniteSet(HeldBy(w)) /\ HeldBy(w) \subseteq Requests
BY RouterAssumption, FS_Subset DEF HeldBy

LEMMA LoadKept ==
    ASSUME LoadExact, NEW r \in Requests, Others(r), Holds(r)' <=> Holds(r), Holds(r) => chosen'[r] = chosen[r],
           load' = load
    PROVE  LoadExact'
<1>1. ASSUME NEW w \in Workers PROVE HeldBy(w)' = HeldBy(w)
  BY OthersStay DEF HeldBy
<1> QED
  BY <1>1 DEF LoadExact, HeldBy

LEMMA LoadTaken ==
    ASSUME LoadExact, RegularType, NEW r \in Requests, Others(r), ~Holds(r), Holds(r)',
           NEW v \in Workers, chosen'[r] = v, load' = [load EXCEPT ![v] = @ + 1]
    PROVE  LoadExact' /\ load' \in [Workers -> Nat]
<1>1. \A w \in Workers \ {v} : HeldBy(w)' = HeldBy(w)
  BY OthersStay DEF HeldBy
<1>2. HeldBy(v)' = HeldBy(v) \cup {r} /\ r \notin HeldBy(v)
  BY OthersStay DEF HeldBy
<1>3. Cardinality(HeldBy(v)') = Cardinality(HeldBy(v)) + 1
  BY <1>2, HeldFinite, OneMore
<1>4. ASSUME NEW w \in Workers PROVE load'[w] = Cardinality(HeldBy(w)')
  BY <1>1, <1>3 DEF LoadExact, HeldBy, RegularType
<1> QED
  BY <1>4 DEF LoadExact, HeldBy, RegularType

LEMMA LoadGiven ==
    ASSUME LoadExact, RegularType, NEW r \in Requests, Others(r), Holds(r), ~Holds(r)',
           NEW v \in Workers, chosen[r] = v, Unload(r)
    PROVE  LoadExact' /\ load' \in [Workers -> Nat]
<1>1. \A w \in Workers \ {v} : HeldBy(w)' = HeldBy(w)
  BY OthersStay DEF HeldBy
<1>2. HeldBy(v)' = HeldBy(v) \ {r} /\ r \in HeldBy(v)
  BY OthersStay DEF HeldBy
<1>3. Cardinality(HeldBy(v)) \in Nat \ {0} /\ Cardinality(HeldBy(v)') = Cardinality(HeldBy(v)) - 1
  BY <1>2, HeldFinite, OneLess
<1>4. ASSUME NEW w \in Workers PROVE load'[w] = Cardinality(HeldBy(w)')
  <2>1. load[v] = Cardinality(HeldBy(v)) /\ load[w] = Cardinality(HeldBy(w))
    BY DEF LoadExact, HeldBy
  <2>2. load'[w] = IF w = v THEN load[v] - 1 ELSE load[w]
    BY <1>3, <2>1 DEF Unload, RegularType
  <2> QED
    BY <1>1, <1>3, <2>1, <2>2
<1>5. load' \in [Workers -> Nat]
  BY <1>3 DEF LoadExact, HeldBy, RegularType, Unload
<1> QED
  BY <1>4, <1>5 DEF LoadExact, HeldBy

-----------------------------------------------------------------------------
(* The regular router: breakers *)

\* A failure is counted, a success ends the run.
LEMMA HearKeeps ==
    ASSUME Breakers, NEW r \in Requests, NEW v \in Workers, chosen[r] = v, NEW outcome \in {None, "ok", "bad"},
           Report(r, outcome), Judge(r, outcome) \/ (outcome # "ok" /\ streak' = streak)
    PROVE  Breakers'
<1> USE WorkerAssumption, RouterAssumption
<1>1. CASE outcome = None
  BY <1>1 DEF Breakers, Counted, Report, Judge
<1>2. CASE outcome # None
  <2>1. /\ breaker' = [breaker EXCEPT ![v] = Outcome(@, outcome = "ok")]
        /\ \A w \in Workers \ {v} : breaker'[w] = breaker[w]
        /\ breaker' = [w \in Workers |-> breaker'[w]]
    BY <1>2 DEF Report, Breakers
  <2>2. breaker'[v] = IF outcome = "ok" THEN Passed(breaker[v]) ELSE Failed(breaker[v])
    BY <2>1 DEF Breakers, Outcome
  <2>3. /\ streak' \in [Workers -> Nat] /\ \A w \in Workers \ {v} : streak'[w] = streak[w]
        /\ outcome = "ok" => streak'[v] = 0
        /\ outcome = "bad" => streak'[v] <= streak[v] + 1
    BY <1>2 DEF Breakers, Judge, UpTo
  <2>4. Counted(v)'
    <3>1. CASE outcome = "ok"
      BY <2>2, <2>3, <3>1 DEF Breakers, Counted, Passed, Closed, Circuit
    <3>2. CASE outcome = "bad"
      BY <2>2, <2>3, <3>2 DEF Breakers, Counted, Failed, Opened, Circuit, UpTo
    <3> QED
      BY <1>2, <3>1, <3>2
  <2>5. ASSUME NEW w \in Workers \ {v} PROVE Counted(w)'
    BY <2>1, <2>3 DEF Breakers, Counted
  <2> QED
    BY <2>1, <2>3, <2>4, <2>5 DEF Breakers
<1> QED
  BY <1>1, <1>2

LEMMA PollKeeps ==
    ASSUME Breakers, NEW S, breaker' = Polled(breaker, S), streak' = streak
    PROVE  Breakers'
<1>1. ASSUME NEW w \in Workers PROVE Counted(w)'
  <2>1. breaker'[w] = breaker[w] \/ breaker'[w] = Circuit("HalfOpen", 0, 0, FALSE)
    BY DEF Polled, Checked
  <2> QED
    BY <2>1 DEF Breakers, Counted, Circuit
<1> QED
  BY <1>1 DEF Breakers, Polled


-----------------------------------------------------------------------------
(* The regular router: steps *)

LEMMA RegularParts ==
    ASSUME RegularInv, NEW r \in Requests, RegularType', Others(r), At(r)', Breakers', LoadExact'
    PROVE  RegularInv'
BY OthersStay DEF RegularInv

\* What Release does depends on the stream and on the guard that are there.
LEMMA ReleaseKeeps ==
    ASSUME RegularInv, NEW r \in Requests, Release(r), Others(r), chosen' = chosen, ~Holds(r)'
    PROVE  /\ Breakers' /\ LoadExact' /\ load' \in [Workers -> Nat]
           /\ told' = [q \in Requests |-> told'[q]]
           /\ \A q \in Requests \ {r} : told'[q] = told[q]
           /\ told'[r] = IF terminal[r] = "Completed" THEN Append(told[r], "ok")
                         ELSE IF terminal[r] = "Errored" THEN Append(told[r], "bad") ELSE told[r]
<1> USE RouterAssumption DEF RegularInv
<1>1. Report(r, DropReports(r)) /\ DropReports(r) \in {None, "ok", "bad"}
  BY DEF Release, DropReports
<1>2. /\ DropReports(r) = "ok" <=> terminal[r] = "Completed"
      /\ DropReports(r) = "bad" <=> terminal[r] = "Errored"
  BY DEF DropReports
<1>3. /\ told' = [q \in Requests |-> told'[q]]
      /\ \A q \in Requests \ {r} : told'[q] = told[q]
      /\ told'[r] = IF terminal[r] = "Completed" THEN Append(told[r], "ok")
                    ELSE IF terminal[r] = "Errored" THEN Append(told[r], "bad") ELSE told[r]
  BY <1>1, <1>2 DEF Report, RegularType
<1>4. terminal[r] # None => Judge(r, fate[r]) /\ DropReports(r) = fate[r] /\ Holds(r) /\ chosen[r] \in Workers
  BY <1>1, <1>2 DEF Release, At, Holds
<1>5. Breakers'
  <2>1. CASE terminal[r] = None
    <3>1. DropReports(r) = None /\ streak' = streak /\ breaker' = breaker
      BY <1>1, <1>2, <2>1 DEF Release, Report, DropReports
    <3> QED
      BY <3>1 DEF Breakers, Counted
  <2>2. CASE terminal[r] # None
    BY <1>1, <1>4, <2>2, HearKeeps
  <2> QED
    BY <2>1, <2>2
<1>6. LoadExact' /\ load' \in [Workers -> Nat]
  <2>1. CASE Holds(r)
    BY <2>1, LoadGiven DEF Release, At
  <2>2. CASE ~Holds(r)
    BY <2>2, LoadKept DEF Release, RegularType
  <2> QED
    BY <2>1, <2>2
<1> QED
  BY <1>3, <1>5, <1>6

\* An attempt whose answer is not held ends: the guard goes, and the loop gets a response.
LEMMA EndKeeps ==
    ASSUME RegularInv, NEW r \in Requests, pc[r] \in {"prepare", "sent", "body"},
           NEW outcome \in {None, "ok", "bad"}, NEW done \in {"unsent", "ok", "bad"}, NEW s,
           Report(r, outcome), Judge(r, outcome) \/ (outcome # "ok" /\ streak' = streak),
           fate' = Set(fate, r, done), done = "unsent" \/ done = outcome,
           Unload(r), Conclude(r, s), UNCHANGED <<attempt, seen, chosen, terminal>>
    PROVE  RegularInv'
<1> USE RouterAssumption DEF RegularInv
<1>1. /\ Holds(r) /\ chosen[r] \in Workers /\ told[r] = <<>> /\ terminal[r] = None
  BY DEF Holds, At
<1>2. /\ pc'[r] \in {"done", "backoff"} /\ \A q \in Requests \ {r} : pc'[q] = pc[q]
      /\ pc' = [q \in Requests |-> pc'[q]] /\ status' = [q \in Requests |-> status'[q]]
      /\ fate'[r] = done /\ \A q \in Requests \ {r} : fate'[q] = fate[q]
      /\ fate' = [q \in Requests |-> fate'[q]]
  BY DEF Conclude, AfterAttempt, Set, RegularType
<1>3. /\ told'[r] = (IF outcome = None THEN <<>> ELSE <<outcome>>)
      /\ \A q \in Requests \ {r} : told'[q] = told[q]
      /\ told' = [q \in Requests |-> told'[q]]
  BY <1>1 DEF Report, RegularType
<1>4. Others(r) /\ ~Holds(r)'
  BY <1>1, <1>2, <1>3 DEF Others, Holds
<1>5. Breakers'
  BY <1>1, HearKeeps
<1>6. LoadExact' /\ load' \in [Workers -> Nat]
  BY <1>1, <1>4, LoadGiven
<1>7. RegularType'
  BY <1>2, <1>3, <1>6 DEF RegularType
<1>8. Heard(r)'
  BY <1>2, <1>3 DEF Heard
<1>9. At(r)'
  BY <1>1, <1>2, <1>4, <1>8 DEF At, Places
<1> QED
  BY <1>4, <1>5, <1>6, <1>7, <1>9, RegularParts

LEMMA FilterKeeps ==
    ASSUME RegularInv, NEW r \in Requests, Filter(r)
    PROVE  RegularInv'
<1> USE RouterAssumption DEF RegularInv
<1>1. pc[r] = "new" /\ pc'[r] \in {"done", "backoff", "select"} /\ \A q \in Requests \ {r} : pc'[q] = pc[q]
  BY DEF Filter, Conclude, AfterAttempt, Set, RegularType
<1>2. RegularType' /\ Others(r)
  BY <1>1 DEF Filter, Conclude, Set, RegularType, history, Others, Available
<1>3. UNCHANGED <<chosen, terminal, told, fate, load, streak>> /\ breaker' = Polled(breaker, Workers)
  BY DEF Filter, history
<1>4. At(r)' /\ ~Holds(r) /\ ~Holds(r)'
  BY <1>1, <1>3 DEF At, Places, Holds, Heard
<1> QED
  BY <1>2, <1>3, <1>4, LoadKept, PollKeeps, RegularParts

LEMMA PickKeeps ==
    ASSUME RegularInv, NEW r \in Requests, Pick(r)
    PROVE  RegularInv'
<1> USE RouterAssumption DEF RegularInv
<1>1. pc[r] = "select" /\ breaker' = Polled(breaker, seen[r]) /\ streak' = streak
  BY DEF Pick
<1>2. CASE Available(seen[r]) = {}
  <2>1. pc'[r] \in {"done", "backoff"} /\ \A q \in Requests \ {r} : pc'[q] = pc[q]
    BY <1>2 DEF Pick, Conclude, AfterAttempt, Set, RegularType
  <2>2. RegularType' /\ Others(r)
    BY <1>2, <2>1 DEF Pick, Conclude, Set, RegularType, Others
  <2>3. UNCHANGED <<chosen, terminal, told, fate, load>>
    BY <1>2 DEF Pick
  <2>4. At(r)' /\ ~Holds(r) /\ ~Holds(r)'
    BY <1>1, <2>1, <2>3 DEF At, Places, Holds, Heard
  <2> QED
    BY <1>1, <2>2, <2>3, <2>4, LoadKept, PollKeeps, RegularParts
<1>3. CASE Available(seen[r]) # {}
  <2>1. PICK w \in Available(seen[r]) :
           /\ chosen' = Set(chosen, r, w) /\ load' = [load EXCEPT ![w] = @ + 1]
           /\ pc' = Set(pc, r, "prepare")
           /\ told' = Set(told, r, <<>>) /\ fate' = Set(fate, r, None)
           /\ UNCHANGED <<status, terminal, attempt>> /\ seen' = Set(seen, r, {})
    BY <1>3 DEF Pick
  <2>2. w \in Workers
    BY <2>1 DEF Available, RegularType
  <2>3. /\ chosen'[r] = w /\ pc'[r] = "prepare" /\ told'[r] = <<>> /\ fate'[r] = None
        /\ Others(r)
    BY <2>1 DEF Set, RegularType, Others
  <2>4. At(r)' /\ ~Holds(r) /\ Holds(r)'
    BY <1>1, <2>1, <2>2, <2>3 DEF At, Places, Holds
  <2>5. LoadExact' /\ load' \in [Workers -> Nat]
    BY <2>1, <2>2, <2>3, <2>4, LoadTaken
  <2>6. RegularType'
    BY <2>1, <2>2, <2>5 DEF Set, RegularType
  <2> QED
    BY <1>1, <2>3, <2>4, <2>5, <2>6, PollKeeps, RegularParts
<1> QED
  BY <1>2, <1>3

LEMMA SendingKeeps ==
    ASSUME RegularInv, NEW r \in Requests, Sending(r)
    PROVE  RegularInv'
<1> USE RouterAssumption DEF RegularInv
<1>1. CASE PrepareFails(r)
  <2>1. PICK s : Conclude(r, s)
    BY <1>1 DEF PrepareFails
  <2> DEFINE outcome == IF r \in stream THEN None ELSE "bad"
  <2>2. /\ pc[r] = "prepare" /\ Report(r, outcome) /\ outcome \in {None, "ok", "bad"} /\ outcome # "ok"
        /\ Unload(r) /\ fate' = Set(fate, r, "unsent") /\ UNCHANGED <<attempt, seen, chosen, terminal, streak>>
    BY <1>1 DEF PrepareFails
  <2> HIDE DEF outcome
  <2> QED
    BY <2>1, <2>2, EndKeeps
<1>2. CASE Send(r)
  <2>1. /\ pc[r] = "prepare" /\ pc'[r] = "sent" /\ \A q \in Requests \ {r} : pc'[q] = pc[q]
        /\ UNCHANGED <<attempt, seen, chosen, status, terminal, told, fate, streak, load, breaker>>
    BY <1>2 DEF Send, Set, RegularType, worker, history
  <2>2. RegularType' /\ Others(r)
    BY <1>2, <2>1 DEF Send, Set, RegularType, Others
  <2>3. At(r)' /\ Holds(r)' /\ Holds(r)
    BY <2>1 DEF At, Places, Holds
  <2>4. Breakers'
    BY <2>1 DEF Breakers, Counted
  <2> QED
    BY <2>1, <2>2, <2>3, <2>4, LoadKept, RegularParts
<1> QED
  BY <1>1, <1>2 DEF Sending

LEMMA ReceivingKeeps ==
    ASSUME RegularInv, NEW r \in Requests, Receiving(r)
    PROVE  RegularInv'
<1> USE RouterAssumption DEF RegularInv
<1>1. CASE SendFails(r)
  BY <1>1, EndKeeps DEF SendFails
<1>2. ASSUME NEW s \in Statuses, Headers(r, s) PROVE RegularInv'
  <2>1. /\ pc[r] = "sent" /\ terminal[r] = None /\ told[r] = <<>> /\ fate[r] = None
        /\ UNCHANGED <<attempt, seen, chosen, told, streak, load, breaker>>
    BY <1>2 DEF Headers, At, worker
  <2>2. /\ Others(r) /\ RegularType'
    BY <1>2, <2>1 DEF Headers, Set, RegularType, Others
  <2>3. \/ pc'[r] = "body" /\ terminal'[r] = None /\ fate'[r] = None
        \/ pc'[r] = "streaming" /\ terminal'[r] = "Active" /\ fate'[r] = None
        \/ pc'[r] \in {"streaming", "backoff"} /\ terminal'[r] = "Errored" /\ fate'[r] = "bad"
    BY <1>2, <2>1 DEF Headers, Set, RegularType, AfterAttempt, Statuses
  <2>4. At(r)' /\ Holds(r)' /\ Holds(r)
    BY <2>1, <2>3 DEF At, Places, Holds
  <2>5. Breakers'
    BY <2>1 DEF Breakers, Counted
  <2> QED
    BY <2>1, <2>2, <2>4, <2>5, LoadKept, RegularParts
<1> QED
  BY <1>1, <1>2 DEF Receiving

LEMMA ReadingKeeps ==
    ASSUME RegularInv, NEW r \in Requests, Reading(r)
    PROVE  RegularInv'
<1> USE RouterAssumption DEF RegularInv
<1>1. ASSUME NEW readable \in BOOLEAN, Body(r, readable) PROVE RegularInv'
  <2> DEFINE s == IF readable THEN status[r] ELSE "retry"
             done == IF s = "ok" THEN "ok" ELSE "bad"
  <2>1. /\ pc[r] = "body" /\ Report(r, done) /\ fate' = Set(fate, r, done) /\ Judge(r, done)
        /\ Unload(r) /\ Conclude(r, s) /\ UNCHANGED <<attempt, seen, chosen, terminal>>
        /\ done \in {"ok", "bad"}
    BY <1>1 DEF Body
  <2> HIDE DEF s, done
  <2> QED
    BY <2>1, EndKeeps
<1>2. ASSUME NEW clean \in BOOLEAN, EndStream(r, clean) PROVE RegularInv'
  <2>1. /\ pc[r] = "streaming" /\ pc'[r] = "ended"
        /\ UNCHANGED <<attempt, seen, chosen, told, streak, load, breaker>>
    BY <1>2 DEF EndStream, worker, Set, RegularType
  <2>2. /\ Others(r) /\ RegularType'
    BY <1>2, <2>1 DEF EndStream, Set, RegularType, Others
  <2>3. \/ terminal'[r] = "Completed" /\ fate'[r] = "ok"
        \/ terminal'[r] = "Errored" /\ fate'[r] = "bad"
    BY <1>2, <2>1 DEF EndStream, Set, RegularType, At
  <2>4. At(r)' /\ Holds(r)' /\ Holds(r)
    BY <2>1, <2>3 DEF At, Places, Holds
  <2>5. Breakers'
    BY <2>1 DEF Breakers, Counted
  <2> QED
    BY <2>1, <2>2, <2>4, <2>5, LoadKept, RegularParts
<1> QED
  BY <1>1, <1>2 DEF Reading

\* A body is dropped: by the server that has written it, after a backoff, or with its client.
LEMMA DropKeeps ==
    ASSUME RegularInv, NEW r \in Requests, Close(r) \/ Wake(r) \/ Disconnect(r)
    PROVE  RegularInv'
<1> USE RouterAssumption DEF RegularInv
<1>1. Release(r)
  BY DEF Close, Wake, Disconnect, Release, Holds, At
<1>2. /\ pc'[r] \in {"done", "new", "gone"} /\ terminal'[r] = None /\ UNCHANGED <<chosen, fate>>
      /\ pc' = [q \in Requests |-> pc'[q]] /\ terminal' = [q \in Requests |-> terminal'[q]]
      /\ \A q \in Requests \ {r} : pc'[q] = pc[q] /\ terminal'[q] = terminal[q] /\ told'[q] = told[q]
      /\ attempt' = [q \in Requests |-> attempt'[q]] /\ status' = status
      /\ seen' \in [Requests -> SUBSET Workers]
  BY <1>1 DEF Close, Wake, Disconnect, Set, RegularType, Release, Report
<1>3. Others(r) /\ ~Holds(r)'
  BY <1>2 DEF Others, Holds
<1>4. /\ Breakers' /\ LoadExact' /\ load' \in [Workers -> Nat]
      /\ told' = [q \in Requests |-> told'[q]]
      /\ told'[r] = IF terminal[r] = "Completed" THEN Append(told[r], "ok")
                    ELSE IF terminal[r] = "Errored" THEN Append(told[r], "bad") ELSE told[r]
  BY <1>1, <1>2, <1>3, ReleaseKeeps
<1>5. RegularType'
  BY <1>2, <1>4 DEF RegularType
<1>6. Heard(r)'
  <2>1. CASE terminal[r] = None
    <3>1. told'[r] = told[r] /\ fate'[r] = fate[r]
      BY <1>2, <1>4, <2>1
    <3>2. Heard(r)
      <4>1. pc[r] \in {"prepare", "sent", "body"} => Heard(r)
        BY DEF At, Heard
      <4> QED
        BY <2>1, <4>1 DEF At, Places, Close, Wake, Disconnect
    <3> QED
      BY <3>1, <3>2 DEF Heard
  <2>2. CASE terminal[r] # None
    <3>1. /\ told[r] = <<>>
          /\ \/ terminal[r] = "Active" /\ fate[r] = None
             \/ terminal[r] = "Completed" /\ fate[r] = "ok"
             \/ terminal[r] = "Errored" /\ fate[r] = "bad"
      BY <2>2 DEF At
    <3>2. told'[r] = IF fate[r] = None THEN <<>> ELSE <<fate[r]>>
      BY <1>4, <3>1
    <3> QED
      BY <1>2, <3>1, <3>2 DEF Heard
  <2> QED
    BY <2>1, <2>2
<1>7. At(r)'
  BY <1>2, <1>3, <1>6 DEF At, Places
<1> QED
  BY <1>3, <1>4, <1>5, <1>7, RegularParts

\* A breaker cools down or a worker is probed: no request moves.
LEMMA AroundKeeps ==
    ASSUME RegularInv, UNCHANGED <<handler, history>>, load' = load,
           breaker' = [w \in Workers |-> breaker'[w]],
           \A w \in Workers : breaker'[w].state = breaker[w].state /\ breaker'[w].failures = breaker[w].failures
    PROVE  RegularInv'
<1> USE DEF RegularInv, handler, history
<1>1. \A r \in Requests : (Holds(r)' <=> Holds(r)) /\ At(r)'
  <2>1. \A r \in Requests : (Holds(r)' <=> Holds(r)) /\ (Heard(r)' <=> Heard(r))
    BY DEF Holds, Heard
  <2> QED
    BY <2>1 DEF At
<1>2. Breakers'
  BY DEF Breakers, Counted
<1>3. LoadExact'
  <2>1. \A w \in Workers : HeldBy(w)' = HeldBy(w)
    BY <1>1 DEF HeldBy
  <2> QED
    BY <2>1 DEF LoadExact, HeldBy
<1> QED
  BY <1>1, <1>2, <1>3 DEF RegularType

LEMMA RegularStep ==
    ASSUME RegularInv, Next \/ UNCHANGED vars
    PROVE  RegularInv'
<1>1. ASSUME NEW r \in Requests, Handle(r) \/ Disconnect(r) PROVE RegularInv'
  BY <1>1, FilterKeeps, PickKeeps, SendingKeeps, ReceivingKeeps, ReadingKeeps, DropKeeps
     DEF Handle, Selecting, Finishing
<1>2. breaker = [w \in Workers |-> breaker[w]]
  BY DEF RegularInv, Breakers
<1>3. ASSUME NEW w \in Workers, TimeOut(w) PROVE RegularInv'
  <2>1. breaker' = [breaker EXCEPT ![w] = Circuit("Open", breaker[w].failures, breaker[w].successes, TRUE)]
    BY <1>3 DEF TimeOut, CoolDown, Cooled
  <2>2. \A v \in Workers : breaker'[v].state = breaker[v].state /\ breaker'[v].failures = breaker[v].failures
    BY <1>2, <1>3, <2>1 DEF TimeOut, CoolDown, Circuit
  <2> QED
    BY <1>2, <1>3, <2>1, <2>2, AroundKeeps DEF TimeOut, CoolDown
<1>4. ASSUME NEW w \in Workers, NEW result, Probe(w, result) PROVE RegularInv'
  BY <1>2, <1>4, AroundKeeps DEF Probe, CheckPasses, CheckFails
<1>5. CASE UNCHANGED vars
  BY <1>2, <1>5, AroundKeeps DEF vars, worker
<1> QED
  BY <1>1, <1>3, <1>4, <1>5 DEF Next

LEMMA RegularStart == Init => RegularInv
<1> SUFFICES ASSUME Init PROVE RegularInv
  OBVIOUS
<1> USE RouterAssumption, WorkerAssumption DEF Init, WorkerInit
<1>1. RegularType
  BY DEF RegularType
<1>2. \A r \in Requests : At(r) /\ ~Holds(r)
  BY DEF At, Places, Holds, Heard
<1>3. Breakers
  BY DEF Breakers, Counted, NewBreaker, Circuit
<1>4. LoadExact
  <2>1. \A w \in Workers : HeldBy(w) = {}
    BY <1>2 DEF HeldBy
  <2> QED
    BY <2>1, FS_EmptySet DEF LoadExact, HeldBy
<1> QED
  BY <1>1, <1>2, <1>3, <1>4 DEF RegularInv

LEMMA RegularGives == RegularInv => LoadExact /\ BreakerHears
<1> SUFFICES ASSUME RegularInv PROVE LoadExact /\ BreakerHears
  OBVIOUS
<1>1. OutcomeOnce
  <2>1. \A r \in Requests : Settled(r) => Heard(r)
    BY DEF RegularInv, At, Settled
  <2> QED
    BY <2>1 DEF OutcomeOnce, Heard
<1>2. BrokenWorkersOpen
  BY WorkerAssumption DEF BrokenWorkersOpen, RegularInv, Breakers, Counted
<1> QED
  BY <1>1, <1>2 DEF RegularInv, BreakerHears

-----------------------------------------------------------------------------
(* The prefill/decode router: what a step of a request leaves alone *)

PdWorkers == Prefills \cup Decodes

OnlyRequest(r) ==
    /\ pc' = [q \in PdRequests |-> pc'[q]]
    /\ early' = [q \in PdRequests |-> early'[q]]
    /\ answer' = [q \in PdRequests |-> answer'[q]]
    /\ pair' \in [PdRequests -> [prefill : Prefills \cup {None}, decode : Decodes \cup {None}]]
    /\ stream' = stream /\ attempt' \in [PdRequests -> 0..MaxRetries]
    /\ \A q \in PdRequests \ {r} : /\ pc'[q] = pc[q] /\ pair'[q] = pair[q] /\ answer'[q] = answer[q]
                                   /\ attempt'[q] = attempt[q]

OnlyCall(c) ==
    /\ told' = [x \in Pd!Calls |-> told'[x]]
    /\ deed' = [x \in Pd!Calls |-> deed'[x]]
    /\ task' = [x \in Pd!Calls |-> task'[x]]
    /\ \A x \in Pd!Calls \ {c} : told'[x] = told[x] /\ deed'[x] = deed[x] /\ task'[x] = task[x]

LEMMA CallIsCall ==
    ASSUME PdType, NEW r \in PdRequests
    PROVE  Pd!Call(r) = <<r, attempt[r]>> /\ Pd!Call(r) \in Pd!Calls /\ attempt[r] \in 0..MaxRetries
BY DEF PdType, Pd!Call, Pd!Calls

\* The same is known of a call that did not change.
LEMMA SameCall ==
    ASSUME NEW x \in Pd!Calls, told'[x] = told[x], deed'[x] = deed[x], task'[x] = task[x]
    PROVE  /\ Innocent(x) => Innocent(x)'
           /\ TaskSound(x) => TaskSound(x)'
           /\ Fresh(x) => Fresh(x)'
           /\ Blamed(x) => Blamed(x)'
<1>1. Pd!Running(x)' <=> Pd!Running(x)
  BY DEF Pd!Running
<1>2. Innocent(x) => Innocent(x)'
  BY DEF Innocent
<1>3. TaskSound(x) => TaskSound(x)'
  BY DEF TaskSound
<1> QED
  BY <1>1, <1>2, <1>3 DEF Fresh, Blamed

LEMMA OthersHold ==
    ASSUME PdType, NEW r \in PdRequests, NEW c, c = <<r, attempt[r]>>, OnlyRequest(r), OnlyCall(c),
           NEW q \in PdRequests \ {r}
    PROVE  (Pd!Holds(q)' <=> Pd!Holds(q)) /\ (PdAt(q) => PdAt(q)')
<1>1. Pd!Call(q) = <<q, attempt[q]>> /\ Pd!Call(q) \in Pd!Calls /\ Pd!Call(q) # c /\ Pd!Call(q)' = Pd!Call(q)
  BY CallIsCall DEF OnlyRequest, Pd!Call
<1>2. PICK x \in Pd!Calls : x = Pd!Call(q) /\ x = Pd!Call(q)' /\ x # c
  BY <1>1
<1>3. told'[x] = told[x] /\ deed'[x] = deed[x] /\ task'[x] = task[x]
  BY <1>2 DEF OnlyCall
<1>4. Pd!Holds(q)' <=> Pd!Holds(q)
  BY <1>2, <1>3 DEF Pd!Holds, OnlyRequest
<1>5. (Fresh(x) => Fresh(x)') /\ (Blamed(x) => Blamed(x)')
  BY <1>3, SameCall
<1>6. /\ pc'[q] = pc[q] /\ pair'[q] = pair[q] /\ answer'[q] = answer[q] /\ attempt'[q] = attempt[q]
      /\ stream' = stream
  BY DEF OnlyRequest
<1>7. PdAt(q) => PdAt(q)'
  BY <1>2, <1>3, <1>4, <1>5, <1>6 DEF PdAt, Paired
<1> QED
  BY <1>4, <1>7

LEMMA PdParts ==
    ASSUME PdInv, NEW r \in PdRequests, NEW c, c = <<r, attempt[r]>>, OnlyRequest(r), OnlyCall(c),
           attempt' = attempt, load' \in [PdWorkers -> Nat],
           PdAt(r)', Innocent(c)', TaskSound(c)', Pd!LoadExact'
    PROVE  PdInv'
<1> USE DEF PdInv
<1>1. PdType'
  BY DEF PdType, OnlyRequest, OnlyCall, PdWorkers
<1>2. \A q \in PdRequests : PdAt(q)'
  BY OthersHold
<1>3. ASSUME NEW q \in PdRequests, NEW n \in 0..MaxRetries PROVE CallSound(q, n)'
  <2>1. attempt' = attempt /\ attempt[q] \in Nat /\ CallSound(q, n)
    BY DEF OnlyRequest, PdType
  <2>2. CASE q = r /\ n = attempt[r]
    BY <2>1, <2>2 DEF CallSound
  <2>3. CASE ~(q = r /\ n = attempt[r])
    <3>0. <<q, n>> \in Pd!Calls /\ <<q, n>> # c
      BY <2>3 DEF Pd!Calls
    <3>1. PICK x \in Pd!Calls : x = <<q, n>> /\ x # c
      BY <3>0
    <3>2. told'[x] = told[x] /\ deed'[x] = deed[x] /\ task'[x] = task[x]
      BY <3>1 DEF OnlyCall
    <3> QED
      BY <2>1, <3>1, <3>2, SameCall DEF CallSound
  <2> QED
    BY <2>2, <2>3
<1> QED
  BY <1>1, <1>2, <1>3

-----------------------------------------------------------------------------
(* The prefill/decode router: loads *)

PdHeldBy(w) == {r \in PdRequests : Pd!Holds(r) /\ w \in {pair[r].prefill, pair[r].decode}}

LEMMA PdHeldFinite ==
    ASSUME NEW w
    PROVE  IsFiniteSet(PdHeldBy(w)) /\ PdHeldBy(w) \subseteq PdRequests
BY PdAssumption, FS_Subset DEF PdHeldBy

LEMMA SameCount == ASSUME NEW S PROVE Pd!Cardinality(S) = Cardinality(S)
BY DEF Pd!Cardinality, Cardinality

LEMMA PdLoadMeans == Pd!LoadExact <=> \A w \in PdWorkers : load[w] = Cardinality(PdHeldBy(w))
BY SameCount DEF Pd!LoadExact, PdHeldBy, PdWorkers

LEMMA PdLoadMeansNext == Pd!LoadExact' <=> (\A w \in PdWorkers : load[w] = Cardinality(PdHeldBy(w)))'
BY PdLoadMeans, PTL

LEMMA PdLoadKept ==
    ASSUME PdInv, NEW r \in PdRequests, NEW c, c = <<r, attempt[r]>>, OnlyRequest(r), OnlyCall(c),
           Pd!Holds(r)' <=> Pd!Holds(r), Pd!Holds(r) => pair'[r] = pair[r], load' = load
    PROVE  Pd!LoadExact' /\ load' \in [PdWorkers -> Nat]
<1>1. ASSUME NEW w \in PdWorkers PROVE PdHeldBy(w)' = PdHeldBy(w)
  BY OthersHold DEF PdHeldBy, PdInv, OnlyRequest
<1> QED
  BY <1>1 DEF Pd!LoadExact, PdHeldBy, PdInv, PdType, PdWorkers

LEMMA PdLoadTaken ==
    ASSUME PdInv, NEW r \in PdRequests, NEW c, c = <<r, attempt[r]>>, OnlyRequest(r), OnlyCall(c),
           ~Pd!Holds(r), Pd!Holds(r)', pair'[r] = pair[r], Pd!Load(r)
    PROVE  Pd!LoadExact' /\ load' \in [PdWorkers -> Nat]
<1>1. ASSUME NEW w \in PdWorkers
      PROVE  load'[w] = Cardinality(PdHeldBy(w)') /\ load'[w] \in Nat
  <2>1. load[w] = Cardinality(PdHeldBy(w)) /\ load[w] \in Nat
    BY PdLoadMeans DEF PdInv, PdType, PdWorkers
  <2>2. CASE w \in {pair[r].prefill, pair[r].decode}
    <3>1. PdHeldBy(w)' = PdHeldBy(w) \cup {r} /\ r \notin PdHeldBy(w)
      BY <2>2, OthersHold DEF PdHeldBy, PdInv, OnlyRequest
    <3>2. Cardinality(PdHeldBy(w)') = Cardinality(PdHeldBy(w)) + 1
      BY <3>1, PdHeldFinite, OneMore
    <3> QED
      BY <2>1, <2>2, <3>2 DEF Pd!Load, PdWorkers
  <2>3. CASE w \notin {pair[r].prefill, pair[r].decode}
    <3>1. PdHeldBy(w)' = PdHeldBy(w)
      BY <2>3, OthersHold DEF PdHeldBy, PdInv, OnlyRequest
    <3> QED
      BY <2>1, <2>3, <3>1 DEF Pd!Load, PdWorkers
  <2> QED
    BY <2>2, <2>3
<1>2. load' = [w \in PdWorkers |-> load'[w]]
  BY DEF Pd!Load, PdWorkers
<1> QED
  BY <1>1, <1>2, PdLoadMeansNext

LEMMA PdLoadGiven ==
    ASSUME PdInv, NEW r \in PdRequests, NEW c, c = <<r, attempt[r]>>, OnlyRequest(r), OnlyCall(c),
           Pd!Holds(r), ~Pd!Holds(r)', Pd!Unload(r)
    PROVE  Pd!LoadExact' /\ load' \in [PdWorkers -> Nat]
<1>1. ASSUME NEW w \in PdWorkers
      PROVE  load'[w] = Cardinality(PdHeldBy(w)') /\ load'[w] \in Nat
  <2>1. load[w] = Cardinality(PdHeldBy(w)) /\ load[w] \in Nat
    BY PdLoadMeans DEF PdInv, PdType, PdWorkers
  <2>2. CASE w \in {pair[r].prefill, pair[r].decode}
    <3>1. PdHeldBy(w)' = PdHeldBy(w) \ {r} /\ r \in PdHeldBy(w)
      BY <2>2, OthersHold DEF PdHeldBy, PdInv, OnlyRequest
    <3>2. Cardinality(PdHeldBy(w)) \in Nat \ {0} /\ Cardinality(PdHeldBy(w)') = Cardinality(PdHeldBy(w)) - 1
      BY <3>1, PdHeldFinite, OneLess
    <3> QED
      BY <2>1, <2>2, <3>2 DEF Pd!Unload, PdWorkers
  <2>3. CASE w \notin {pair[r].prefill, pair[r].decode}
    <3>1. PdHeldBy(w)' = PdHeldBy(w)
      BY <2>3, OthersHold DEF PdHeldBy, PdInv, OnlyRequest
    <3> QED
      BY <2>1, <2>3, <3>1 DEF Pd!Unload, PdWorkers
  <2> QED
    BY <2>2, <2>3
<1>2. load' = [w \in PdWorkers |-> load'[w]]
  BY DEF Pd!Unload, PdWorkers
<1> QED
  BY <1>1, <1>2, PdLoadMeansNext

-----------------------------------------------------------------------------
(* The prefill/decode router: steps of a request *)

\* The handler returns a response that holds nothing.
LEMMA ReturnKeeps ==
    ASSUME PdInv, NEW r \in PdRequests, NEW c, c = <<r, attempt[r]>>, NEW s, Pd!Return(r, s),
           UNCHANGED <<stream, attempt, pair>>, early' = [q \in PdRequests |-> early'[q]],
           OnlyCall(c), task'[c] = None, task[c] = None, Blamed(c)', Innocent(c)'
    PROVE  PdInv'
<1> USE DEF PdInv
<1>1. /\ pc'[r] \in {"backoff", "done"}
      /\ pc'[r] = "backoff" => attempt[r] + 1 < MaxRetries
      /\ OnlyRequest(r)
  <2>1. attempt[r] \in Nat /\ MaxRetries \in Nat
    BY RetryAssumption DEF PdType
  <2>2. OnlyRequest(r)
    BY DEF Pd!Return, Pd!Set, PdType, OnlyRequest
  <2>3. pc'[r] = Pd!AfterAttempt(attempt[r], s \in Pd!Retryable, "done")
    BY DEF Pd!Return, Pd!Set, PdType
  <2> QED
    BY <2>1, <2>2, <2>3 DEF Pd!AfterAttempt, Pd!IsLast
<1>2. Pd!Call(r) = c /\ Pd!Call(r)' = c
  BY CallIsCall DEF Pd!Call
<1>3. ~Pd!Holds(r)'
  BY <1>1, <1>2 DEF Pd!Holds
<1>4. Pd!LoadExact' /\ load' \in [PdWorkers -> Nat]
  <2>1. CASE Pd!Holds(r)
    BY <1>1, <1>3, <2>1, PdLoadGiven DEF Pd!Return
  <2>2. CASE ~Pd!Holds(r)
    BY <1>1, <1>3, <2>2, PdLoadKept DEF Pd!Return
  <2> QED
    BY <2>1, <2>2
<1>5. PdAt(r)'
  BY <1>1, <1>2, <1>3 DEF PdAt
<1>6. TaskSound(c)'
  BY DEF TaskSound
<1> QED
  BY <1>1, <1>4, <1>5, <1>6, PdParts

\* A call that has not begun.
LEMMA FreshSound ==
    ASSUME NEW c, Fresh(c)
    PROVE  Innocent(c) /\ TaskSound(c) /\ Blamed(c)
<1>1. Innocent(c)
  BY RouterAssumption DEF Innocent, Fresh
<1> QED
  BY <1>1, RouterAssumption DEF Fresh, TaskSound, Blamed, Pd!Both

LEMMA PdSelectingKeeps ==
    ASSUME PdInv, NEW r \in PdRequests, Pd!Selecting(r)
    PROVE  PdInv'
<1> USE DEF PdInv
<1>0. PICK c \in Pd!Calls : c = <<r, attempt[r]>> /\ c = Pd!Call(r)
  BY CallIsCall
<1>1. /\ pc[r] \in {"new", "pick_decode"} /\ Fresh(c)
      /\ UNCHANGED <<stream, attempt, early, task, told, deed>>
  BY <1>0 DEF Pd!Selecting, Pd!PickPrefill, Pd!PickDecode, PdAt, Pd!history
<1>2. OnlyCall(c) /\ Fresh(c)' /\ c = Pd!Call(r)' /\ ~Pd!Holds(r)
  BY <1>0, <1>1 DEF OnlyCall, PdType, Fresh, Pd!Call, Pd!Holds
<1>3. Innocent(c)' /\ TaskSound(c)' /\ Blamed(c)'
  BY <1>2, FreshSound, PTL
<1>4. ASSUME NEW s, Pd!Return(r, s), pair' = pair PROVE PdInv'
  BY <1>0, <1>1, <1>2, <1>3, <1>4, ReturnKeeps DEF Fresh, PdType
<1>5. ASSUME NEW w \in Prefills, pc[r] = "new", pair' = Pd!Set(pair, r, Pd!Both(w, None)),
             pc' = Pd!Set(pc, r, "pick_decode"), UNCHANGED <<answer, load>>
      PROVE  PdInv'
  <2>1. /\ pc'[r] = "pick_decode" /\ pair'[r] = Pd!Both(w, None)
        /\ OnlyRequest(r)
    BY <1>1, <1>5 DEF Pd!Set, PdType, OnlyRequest, Pd!Both
  <2>2. PdAt(r)' /\ ~Pd!Holds(r)'
    BY <1>2, <2>1 DEF PdAt, Pd!Holds, Pd!Both
  <2> QED
    BY <1>0, <1>1, <1>2, <1>3, <1>5, <2>1, <2>2, PdLoadKept, PdParts
<1>6. ASSUME NEW w \in Decodes, pc[r] = "pick_decode", pair' = [pair EXCEPT ![r].decode = w],
             pc' = Pd!Set(pc, r, "picked"), UNCHANGED <<answer, load>>
      PROVE  PdInv'
  <2>1. pair[r].prefill \in Prefills
    BY <1>6 DEF PdAt
  <2>2. /\ pc'[r] = "picked" /\ pair'[r].prefill = pair[r].prefill /\ pair'[r].decode = w
        /\ OnlyRequest(r)
    BY <1>1, <1>6 DEF Pd!Set, PdType, OnlyRequest
  <2>3. PdAt(r)' /\ ~Pd!Holds(r)'
    BY <1>2, <2>1, <2>2 DEF PdAt, Pd!Holds, Paired
  <2> QED
    BY <1>0, <1>1, <1>2, <1>3, <1>6, <2>2, <2>3, PdLoadKept, PdParts
<1>7. Pd!Available(Prefills) \subseteq Prefills /\ Pd!Available(Decodes) \subseteq Decodes
  BY DEF Pd!Available
<1>8. CASE Pd!PickPrefill(r)
  BY <1>4, <1>5, <1>7, <1>8 DEF Pd!PickPrefill
<1>9. CASE Pd!PickDecode(r)
  BY <1>4, <1>6, <1>7, <1>9 DEF Pd!PickDecode
<1> QED
  BY <1>8, <1>9 DEF Pd!Selecting

\* A first report of a call.
First(outcome) == IF outcome = None THEN <<>> ELSE <<outcome>>

LEMMA NoteFirst == ASSUME NEW outcome PROVE Pd!Note(<<>>, outcome) = First(outcome)
BY DEF Pd!Note, First

LEMMA TellOne ==
    ASSUME PdType, NEW c \in Pd!Calls, NEW ws, NEW p, NEW d, Pd!Tell(c, ws, p, d), told[c] = Pd!Both(<<>>, <<>>)
    PROVE  /\ told' = [x \in Pd!Calls |-> told'[x]]
           /\ \A x \in Pd!Calls \ {c} : told'[x] = told[x]
           /\ told'[c] = Pd!Both(First(p), First(d))
<1>1. told' = [told EXCEPT ![c] = Pd!Both(Pd!Note(told[c].prefill, p), Pd!Note(told[c].decode, d))]
  BY DEF Pd!Tell
<1>2. told[c].prefill = <<>> /\ told[c].decode = <<>>
  BY DEF Pd!Both
<1> QED
  BY <1>1, <1>2, NoteFirst DEF PdType

LEMMA DidOne ==
    ASSUME PdType, NEW r \in PdRequests, NEW c, c = <<r, attempt[r]>>, NEW p, NEW d, Pd!Did(r, p, d)
    PROVE  /\ deed' = [x \in Pd!Calls |-> deed'[x]]
           /\ \A x \in Pd!Calls \ {c} : deed'[x] = deed[x]
           /\ deed'[c] = Pd!Both(p, d)
BY CallIsCall DEF Pd!Did, Pd!Set, PdType

LEMMA StoryTold ==
    ASSUME NEW c, NEW p \in {None, "ok", "bad"}, NEW d \in {None, "ok", "bad"},
           NEW P \in {None, "ok", "bad", "unsent"}, NEW D \in {None, "ok", "bad", "unsent", "dropped"},
           told'[c] = Pd!Both(First(p), First(d)), deed'[c] = Pd!Both(P, D),
           d = "bad" => D \in {"bad", "unsent"}, D = "dropped" => d = None /\ p # None
    PROVE  /\ Innocent(c)'
           /\ told'[c].prefill = First(p) /\ told'[c].decode = First(d)
           /\ deed'[c].prefill = P /\ deed'[c].decode = D
<1>1. /\ First(p) \in {<<>>, <<"ok">>, <<"bad">>} /\ First(d) \in {<<>>, <<"ok">>, <<"bad">>}
      /\ First(d) = <<"bad">> => d = "bad"
      /\ d = None => First(d) = <<>>
      /\ p # None => First(p) # <<>>
  BY DEF First
<1>2. Innocent(c)'
  BY <1>1 DEF Innocent
<1> QED
  BY <1>2 DEF Pd!Both

LEMMA PdPreparingKeeps ==
    ASSUME PdInv, NEW r \in PdRequests, Pd!Preparing(r)
    PROVE  PdInv'
<1> USE RouterAssumption DEF PdInv
<1>0. PICK c \in Pd!Calls : c = <<r, attempt[r]>> /\ c = Pd!Call(r)
  BY CallIsCall
<1>1. /\ pc[r] = "picked" /\ Fresh(c) /\ Paired(r)
      /\ UNCHANGED <<stream, attempt, early, task, pair>>
  BY <1>0 DEF Pd!Preparing, Pd!Unserializable, Pd!PrepareFails, Pd!Dispatch, PdAt
<1>2. c = Pd!Call(r)' /\ ~Pd!Holds(r) /\ task' = [x \in Pd!Calls |-> task'[x]] /\ task'[c] = None
  BY <1>0, <1>1 DEF PdType, Fresh, Pd!Call, Pd!Holds
<1>3. CASE Pd!Unserializable(r)
  <2>1. OnlyCall(c) /\ Fresh(c)'
    BY <1>1, <1>3 DEF Pd!Unserializable, Pd!history, OnlyCall, PdType, Fresh
  <2>2. Innocent(c)' /\ Blamed(c)'
    BY <2>1, FreshSound, PTL
  <2>3. Pd!Return(r, "unavailable")
    BY <1>3 DEF Pd!Unserializable
  <2> QED
    BY <1>0, <1>1, <1>2, <2>1, <2>2, <2>3, ReturnKeeps DEF Fresh, PdType
<1>4. CASE Pd!PrepareFails(r)
  <2> DEFINE d == IF r \in stream THEN None ELSE "bad"
  <2>1. Pd!Tell(c, pair[r], "bad", d) /\ Pd!Did(r, "unsent", "unsent") /\ Pd!Return(r, "unavailable")
    BY <1>0, <1>4 DEF Pd!PrepareFails
  <2>2. d \in {None, "ok", "bad"} /\ d # "ok"
    OBVIOUS
  <2> HIDE DEF d
  <2>3. OnlyCall(c) /\ told'[c] = Pd!Both(First("bad"), First(d)) /\ deed'[c] = Pd!Both("unsent", "unsent")
    BY <1>0, <1>1, <2>1, TellOne, DidOne DEF OnlyCall, PdType, Fresh
  <2>4. Innocent(c)' /\ deed'[c].prefill = "unsent" /\ deed'[c].decode = "unsent"
    BY <2>2, <2>3, StoryTold
  <2>5. Blamed(c)'
    BY <2>4 DEF Blamed
  <2> QED
    BY <1>0, <1>1, <1>2, <2>1, <2>3, <2>4, <2>5, ReturnKeeps DEF Fresh, PdType
<1>5. CASE Pd!Dispatch(r)
  <2>1. OnlyCall(c) /\ Fresh(c)' /\ OnlyRequest(r) /\ pc'[r] = "sent"
    BY <1>1, <1>5 DEF Pd!Dispatch, Pd!Set, Pd!history, OnlyCall, OnlyRequest, PdType, Fresh
  <2>2. Innocent(c)' /\ TaskSound(c)'
    BY <2>1, FreshSound, PTL
  <2>3. PdAt(r)'
    BY <1>1, <1>2, <2>1 DEF PdAt, Paired
  <2>4. Pd!LoadExact' /\ load' \in [PdWorkers -> Nat]
    <3>1. CASE r \in stream
      BY <1>0, <1>1, <1>2, <1>5, <2>1, <3>1, PdLoadKept DEF Pd!Dispatch, Pd!Holds
    <3>2. CASE r \notin stream
      BY <1>0, <1>1, <1>2, <1>5, <2>1, <3>2, PdLoadTaken DEF Pd!Dispatch, Pd!Holds
    <3> QED
      BY <3>1, <3>2
  <2> QED
    BY <1>0, <1>1, <2>1, <2>2, <2>3, <2>4, PdParts
<1> QED
  BY <1>3, <1>4, <1>5 DEF Pd!Preparing

\* The replies of prefill, and an early one of decode.
LEMMA PdPrefillingKeeps ==
    ASSUME PdInv, NEW r \in PdRequests,
           \/ Pd!Prefilling(r)
           \/ \E reply \in Pd!Replies : Pd!DecodeEarly(r, reply)
    PROVE  PdInv'
<1> USE RouterAssumption DEF PdInv
<1>0. PICK c \in Pd!Calls : c = <<r, attempt[r]>> /\ c = Pd!Call(r)
  BY CallIsCall
<1>1. /\ pc[r] = "sent" /\ Fresh(c) /\ Paired(r)
      /\ UNCHANGED <<stream, attempt, task, pair, load>>
  BY <1>0 DEF Pd!Prefilling, Pd!PrefillPasses, Pd!PrefillFails, Pd!DecodeEarly, PdAt, Pd!worker
<1>2. c = Pd!Call(r)' /\ task' = [x \in Pd!Calls |-> task'[x]] /\ task'[c] = None
  BY <1>0, <1>1 DEF PdType, Fresh, Pd!Call
<1>3. ASSUME OnlyRequest(r), OnlyCall(c), PdAt(r)', Innocent(c)', pc'[r] \in {"sent", "decode", "prefill_error"}
      PROVE  PdInv'
  <2>1. Pd!Holds(r)' <=> Pd!Holds(r)
    BY <1>0, <1>1, <1>2, <1>3 DEF Pd!Holds, OnlyRequest
  <2>2. TaskSound(c)'
    BY <1>2 DEF TaskSound
  <2> QED
    BY <1>0, <1>1, <1>3, <2>1, <2>2, PdLoadKept, PdParts
<1>4. CASE Pd!PrefillPasses(r)
  <2>1. Pd!Did(r, "ok", None) /\ told' = told
    BY <1>4 DEF Pd!PrefillPasses
  <2>2. OnlyCall(c) /\ told'[c] = Pd!Both(<<>>, <<>>) /\ deed'[c] = Pd!Both("ok", None)
    BY <1>0, <1>1, <1>2, <2>1, DidOne DEF OnlyCall, PdType, Fresh
  <2>3. OnlyRequest(r) /\ pc'[r] = "decode"
    BY <1>1, <1>4 DEF Pd!PrefillPasses, Pd!Set, OnlyRequest, PdType
  <2>4. Innocent(c)'
    BY RouterAssumption, <2>2 DEF Innocent
  <2>5. PdAt(r)'
    BY <1>1, <1>2, <2>2, <2>3 DEF PdAt, Paired
  <2> QED
    BY <1>3, <2>2, <2>3, <2>4, <2>5
<1>5. ASSUME NEW reply \in Pd!Replies, Pd!PrefillFails(r, reply) PROVE PdInv'
  <2>0. PICK v \in Outcomes : v = Pd!Verdict(reply)
    BY DEF Outcomes, Pd!Verdict
  <2>6. PICK D \in {None, "dropped"} : D = Pd!Overlooked(early[r])
    BY DEF Pd!Overlooked
  <2>1. Pd!Did(r, v, D) /\ Pd!Tell(c, pair[r], v, None)
    BY <1>0, <1>5, <2>0, <2>6 DEF Pd!PrefillFails
  <2>2. OnlyCall(c) /\ told'[c] = Pd!Both(First(v), First(None)) /\ deed'[c] = Pd!Both(v, D)
    BY <1>0, <1>1, <1>2, <2>1, TellOne, DidOne DEF OnlyCall, PdType, Fresh
  <2>3. OnlyRequest(r) /\ pc'[r] = "prefill_error"
    BY <1>1, <1>5 DEF Pd!PrefillFails, Pd!Set, OnlyRequest, PdType
  <2>4. Innocent(c)'
    BY <2>2, StoryTold DEF Outcomes
  <2>5. PdAt(r)'
    BY <1>1, <1>2, <2>2, <2>3 DEF PdAt, Paired, First, Outcomes
  <2> QED
    BY <1>3, <2>2, <2>3, <2>4, <2>5
<1>6. ASSUME NEW reply \in Pd!Replies, Pd!DecodeEarly(r, reply) PROVE PdInv'
  <2>1. OnlyCall(c) /\ Fresh(c)' /\ OnlyRequest(r) /\ pc'[r] = "sent"
    BY <1>1, <1>6 DEF Pd!DecodeEarly, Pd!Set, Pd!history, OnlyCall, OnlyRequest, PdType, Fresh
  <2>2. Innocent(c)'
    BY <2>1, FreshSound, PTL
  <2>3. PdAt(r)'
    BY <1>1, <1>2, <2>1 DEF PdAt, Paired
  <2> QED
    BY <1>3, <2>1, <2>2, <2>3
<1> QED
  BY <1>4, <1>5, <1>6 DEF Pd!Prefilling

\* A stream is forwarded: the task has it all to report.
LEMMA ForwardKeeps ==
    ASSUME PdInv, NEW r \in PdRequests, NEW c, c = <<r, attempt[r]>>, NEW s, NEW synthetic \in BOOLEAN,
           NEW D \in {None, "ok", "bad"}, Pd!Forward(r, s, synthetic), r \in stream, Paired(r),
           pc[r] \in {"decode_error", "prefill_body"}, UNCHANGED <<stream, attempt, pair, early, answer>>,
           told' = [x \in Pd!Calls |-> told'[x]], deed' = [x \in Pd!Calls |-> deed'[x]],
           \A x \in Pd!Calls \ {c} : told'[x] = told[x] /\ deed'[x] = deed[x],
           told'[c] = Pd!Both(<<"ok">>, <<>>), deed'[c] = Pd!Both("ok", D),
           (synthetic /\ D = Pd!Verdict(s)) \/ (~synthetic /\ D = None /\ s = "ok")
    PROVE  PdInv'
<1> USE RouterAssumption DEF PdInv
<1>0. Pd!Call(r) = c /\ Pd!Call(r)' = c /\ c \in Pd!Calls
  BY CallIsCall DEF Pd!Call
<1>1. PICK end \in {"Errored", "Active"} : end = IF Pd!Verdict(s) = "bad" THEN "Errored" ELSE "Active"
  OBVIOUS
<1>2. task' = [task EXCEPT ![c] = Pd!Task(pair[r].decode, "running", synthetic, end)]
  BY <1>0, <1>1 DEF Pd!Forward, Pd!Set
<1>3. OnlyCall(c) /\ task'[c] = Pd!Task(pair[r].decode, "running", synthetic, end)
  BY <1>0, <1>2 DEF OnlyCall, PdType
<1>4. task'[c] # None /\ task'[c].state = "running"
  BY <1>3, TaskAssumption DEF Paired, Terminals, Pd!Task
<1>5. /\ pc'[r] \in {"streaming", "backoff"} /\ (pc'[r] = "backoff" => attempt[r] + 1 < MaxRetries)
      /\ OnlyRequest(r)
  <2>1. attempt[r] \in Nat /\ MaxRetries \in Nat
    BY RetryAssumption DEF PdType
  <2>2. pc'[r] = Pd!AfterAttempt(attempt[r], s \in Pd!Retryable, "streaming") /\ OnlyRequest(r)
    BY DEF Pd!Forward, Pd!Set, PdType, OnlyRequest
  <2> QED
    BY <2>1, <2>2 DEF Pd!AfterAttempt, Pd!IsLast
<1>6. Pd!Holds(r)' /\ ~Pd!Holds(r)
  BY <1>0, <1>4, <1>5 DEF Pd!Holds
<1>7. Pd!LoadExact' /\ load' \in [PdWorkers -> Nat]
  BY <1>3, <1>5, <1>6, PdLoadTaken DEF Pd!Forward
<1>8. /\ told'[c].prefill = <<"ok">> /\ told'[c].decode = <<>>
      /\ deed'[c].prefill = "ok" /\ deed'[c].decode = D
      /\ Innocent(c)'
  <2>1. Innocent(c)'
    BY DEF Innocent
  <2> QED
    BY <2>1 DEF Pd!Both
<1>9. Blamed(c)'
  BY <1>4, <1>8 DEF Blamed, Pd!Running
<1>10. TaskSound(c)'
  <2>1. /\ synthetic /\ end = "Errored" => D = "bad"
        /\ synthetic /\ end = "Active" => D = "ok"
        /\ ~synthetic => end = "Active" /\ D = None
    BY <1>1 DEF Pd!Verdict
  <2>2. pair[r].decode \in Decodes /\ end \in Terminals
    BY DEF Paired, Terminals
  <2> QED
    BY <1>1, <1>3, <1>8, <2>1, <2>2 DEF TaskSound
<1>11. PdAt(r)'
  BY <1>0, <1>4, <1>5, <1>9 DEF PdAt, Paired
<1> QED
  BY <1>3, <1>5, <1>7, <1>8, <1>10, <1>11, PdParts

LEMMA DecodeRepliesKeeps ==
    ASSUME PdInv, NEW r \in PdRequests, NEW reply \in Pd!Replies, Pd!DecodeReplies(r, reply)
    PROVE  PdInv'
<1> USE RouterAssumption DEF PdInv
<1>0. PICK c \in Pd!Calls : c = <<r, attempt[r]>> /\ c = Pd!Call(r)
  BY CallIsCall
<1>1. /\ pc[r] = "decode" /\ task[c] = None /\ Paired(r)
      /\ told[c] = Pd!Both(<<>>, <<>>) /\ deed[c] = Pd!Both("ok", None)
      /\ UNCHANGED <<stream, attempt, task, pair>> /\ early' = [q \in PdRequests |-> early'[q]]
  BY <1>0 DEF Pd!DecodeReplies, PdAt, Pd!Set, PdType
<1>2. c = Pd!Call(r)' /\ task' = [x \in Pd!Calls |-> task'[x]] /\ task'[c] = None
  BY <1>0, <1>1 DEF PdType, Pd!Call
<1>3. ASSUME OnlyRequest(r), OnlyCall(c), PdAt(r)', Innocent(c)', load' = load,
             pc'[r] \in {"prefill_body", "decode_error"}
      PROVE  PdInv'
  <2>1. Pd!Holds(r)' <=> Pd!Holds(r)
    BY <1>0, <1>1, <1>2, <1>3 DEF Pd!Holds, OnlyRequest
  <2>2. TaskSound(c)'
    BY <1>2 DEF TaskSound
  <2> QED
    BY <1>0, <1>1, <1>3, <2>1, <2>2, PdLoadKept, PdParts
<1>4. CASE reply = "ok"
  <2>1. /\ OnlyCall(c) /\ OnlyRequest(r) /\ pc'[r] = "prefill_body" /\ load' = load
        /\ told'[c] = told[c] /\ deed'[c] = deed[c]
    BY <1>1, <1>4 DEF Pd!DecodeReplies, Pd!Set, Pd!history, OnlyCall, OnlyRequest, PdType
  <2>2. Innocent(c)'
    BY RouterAssumption, <1>1, <2>1 DEF Innocent
  <2>3. PdAt(r)'
    BY <1>1, <1>2, <2>1 DEF PdAt, Paired
  <2> QED
    BY <1>3, <2>1, <2>2, <2>3
<1>5. CASE reply # "ok"
  <2>0. PICK v \in Outcomes : v = Pd!Verdict(reply) /\ (reply = "transport" => v = "bad")
    BY DEF Outcomes, Pd!Verdict, Pd!ClientFault
  <2>1. PICK d \in {None, v} : d = IF r \in stream /\ reply # "transport" THEN None ELSE v
    OBVIOUS
  <2>2. Pd!Did(r, "ok", v) /\ Pd!Tell(c, pair[r], "ok", d)
    BY <1>0, <1>5, <2>0, <2>1 DEF Pd!DecodeReplies
  <2>3. OnlyCall(c) /\ told'[c] = Pd!Both(First("ok"), First(d)) /\ deed'[c] = Pd!Both("ok", v)
    BY <1>0, <1>1, <1>2, <2>2, TellOne, DidOne DEF OnlyCall, PdType
  <2>4. /\ Innocent(c)' /\ deed'[c].prefill = "ok" /\ deed'[c].decode = v
        /\ told'[c].decode = First(d)
    BY <2>0, <2>1, <2>3, StoryTold DEF Outcomes
  <2>5. CASE reply = "transport"
    <3>1. Blamed(c)'
      BY <2>0, <2>1, <2>4, <2>5 DEF Blamed, First
    <3>2. Pd!Return(r, "unavailable")
      BY <1>5, <2>5 DEF Pd!DecodeReplies
    <3> QED
      BY <1>0, <1>1, <1>2, <2>3, <2>4, <3>1, <3>2, ReturnKeeps
  <2>6. CASE reply # "transport"
    <3>1. OnlyRequest(r) /\ pc'[r] = "decode_error" /\ load' = load /\ answer'[r] = reply
      BY <1>1, <1>5, <2>6 DEF Pd!DecodeReplies, Pd!Set, OnlyRequest, PdType
    <3>2. told'[c] = Pd!Both(<<"ok">>, IF r \in stream THEN <<>> ELSE <<v>>)
      BY <2>1, <2>3, <2>6 DEF First, Outcomes
    <3>3. PdAt(r)'
      BY <1>1, <1>2, <2>0, <2>3, <3>1, <3>2 DEF PdAt, Paired
    <3> QED
      BY <1>3, <2>3, <2>4, <3>1, <3>3
  <2> QED
    BY <2>5, <2>6
<1> QED
  BY <1>4, <1>5

LEMMA PdReadingKeeps ==
    ASSUME PdInv, NEW r \in PdRequests, Pd!Reading(r)
    PROVE  PdInv'
<1> USE RouterAssumption DEF PdInv
<1>0. PICK c \in Pd!Calls : c = <<r, attempt[r]>> /\ c = Pd!Call(r)
  BY CallIsCall
<1>1. /\ pc[r] \in {"prefill_error", "decode_error", "prefill_body", "body"} /\ task[c] = None /\ Paired(r)
      /\ UNCHANGED <<stream, attempt, pair, early>> /\ early = [q \in PdRequests |-> early[q]]
  BY <1>0 DEF Pd!Reading, Pd!PrefillErrorRead, Pd!DecodeErrorRead, Pd!PrefillBodyRead, Pd!Body, PdAt, PdType
<1>2. c = Pd!Call(r)' /\ task = [x \in Pd!Calls |-> task[x]]
  BY <1>0, <1>1 DEF PdType, Pd!Call
<1>3. ASSUME UNCHANGED <<told, deed, task>> PROVE OnlyCall(c)
  BY <1>3 DEF OnlyCall, PdType
<1>4. CASE Pd!PrefillErrorRead(r)
  <2>1. /\ UNCHANGED <<told, deed, task>> /\ Pd!Return(r, Pd!Shaped(answer[r]))
        /\ pc[r] = "prefill_error"
    BY <1>4 DEF Pd!PrefillErrorRead, Pd!history
  <2>2. PICK v \in Outcomes, D \in {None, "dropped"} :
           told[c] = Pd!Both(<<v>>, <<>>) /\ deed[c] = Pd!Both(v, D)
    BY <1>0, <2>1 DEF PdAt
  <2>3. Innocent(c)'
    BY <2>1, <2>2 DEF Innocent, Outcomes
  <2>4. Blamed(c)'
    BY <2>1, <2>2 DEF Blamed, Pd!Both
  <2> QED
    BY <1>0, <1>1, <1>2, <1>3, <2>1, <2>3, <2>4, ReturnKeeps
<1>5. CASE Pd!DecodeErrorRead(r)
  <2>1. /\ UNCHANGED <<told, deed>> /\ pc[r] = "decode_error"
    BY <1>5 DEF Pd!DecodeErrorRead, Pd!history
  <2>2. PICK v \in Outcomes : v = Pd!Verdict(answer[r])
    BY DEF Outcomes, Pd!Verdict
  <2>3. deed[c] = Pd!Both("ok", v) /\ told[c] = Pd!Both(<<"ok">>, IF r \in stream THEN <<>> ELSE <<v>>)
    BY <1>0, <2>1, <2>2 DEF PdAt
  <2>4. CASE r \in stream
    <3>1. Pd!Forward(r, answer[r], TRUE) /\ answer' = answer
      BY <1>5, <2>4 DEF Pd!DecodeErrorRead
    <3> QED
      BY <1>0, <1>1, <2>1, <2>2, <2>3, <2>4, <3>1, ForwardKeeps DEF Outcomes, PdType
  <2>5. CASE r \notin stream
    <3>1. Pd!Return(r, Pd!Shaped(answer[r])) /\ task' = task
      BY <1>5, <2>5 DEF Pd!DecodeErrorRead
    <3>2. Innocent(c)'
      BY <2>1, <2>3, <2>5 DEF Innocent, Outcomes
    <3>3. Blamed(c)'
      BY <2>1, <2>3, <2>5 DEF Blamed, Pd!Both
    <3> QED
      BY <1>0, <1>1, <1>2, <1>3, <2>1, <3>1, <3>2, <3>3, ReturnKeeps
  <2> QED
    BY <2>4, <2>5
<1>6. CASE Pd!PrefillBodyRead(r)
  <2>1. /\ deed' = deed /\ answer' = answer /\ pc[r] = "prefill_body"
        /\ told[c] = Pd!Both(<<>>, <<>>) /\ deed[c] = Pd!Both("ok", None)
    BY <1>0, <1>6 DEF Pd!PrefillBodyRead, PdAt
  <2>2. CASE r \in stream
    <3>1. Pd!Forward(r, "ok", FALSE) /\ Pd!Tell(c, pair[r], "ok", None)
      BY <1>0, <1>6, <2>2 DEF Pd!PrefillBodyRead
    <3>2. /\ told' = [x \in Pd!Calls |-> told'[x]]
          /\ \A x \in Pd!Calls \ {c} : told'[x] = told[x]
          /\ told'[c] = Pd!Both(<<"ok">>, <<>>)
      BY <2>1, <3>1, TellOne DEF First
    <3> QED
      BY <1>0, <1>1, <2>1, <2>2, <3>1, <3>2, ForwardKeeps DEF PdType
  <2>3. CASE r \notin stream
    <3>1. UNCHANGED <<told, deed, task, load>> /\ OnlyRequest(r) /\ pc'[r] = "body"
      BY <1>1, <1>6, <2>1, <2>3 DEF Pd!PrefillBodyRead, Pd!Set, OnlyRequest, PdType
    <3>2. Innocent(c)'
      BY RouterAssumption, <2>1, <3>1 DEF Innocent
    <3>3. PdAt(r)' /\ TaskSound(c)'
      BY <1>1, <1>2, <2>1, <2>3, <3>1 DEF PdAt, Paired, TaskSound
    <3>4. Pd!Holds(r) /\ Pd!Holds(r)'
      BY <2>1, <2>3, <3>1 DEF Pd!Holds, OnlyRequest
    <3> QED
      BY <1>0, <1>1, <1>3, <3>1, <3>2, <3>3, <3>4, PdLoadKept, PdParts
  <2> QED
    BY <2>2, <2>3
<1>7. ASSUME NEW readable \in BOOLEAN, Pd!Body(r, readable) PROVE PdInv'
  <2>0. PICK s \in {"ok", "unavailable"} : s = IF readable THEN "ok" ELSE "unavailable"
    OBVIOUS
  <2>1. PICK v \in Outcomes : v = Pd!Verdict(s)
    BY DEF Outcomes, Pd!Verdict
  <2>2. /\ Pd!Did(r, "ok", v) /\ Pd!Tell(c, pair[r], v, v) /\ Pd!Return(r, s) /\ task' = task
        /\ told[c] = Pd!Both(<<>>, <<>>)
    BY <1>0, <1>7, <2>0, <2>1 DEF Pd!Body, PdAt
  <2>3. OnlyCall(c) /\ told'[c] = Pd!Both(First(v), First(v)) /\ deed'[c] = Pd!Both("ok", v)
    BY <1>0, <1>2, <2>2, TellOne, DidOne DEF OnlyCall, PdType
  <2>4. /\ Innocent(c)' /\ deed'[c].prefill = "ok" /\ deed'[c].decode = v
        /\ told'[c].decode = First(v)
    BY <2>3, StoryTold DEF Outcomes
  <2>5. Blamed(c)'
    BY <2>4 DEF Blamed, First
  <2> QED
    BY <1>0, <1>1, <1>2, <2>2, <2>3, <2>4, <2>5, ReturnKeeps
<1> QED
  BY <1>4, <1>5, <1>6, <1>7 DEF Pd!Reading

\* The end of a response, and a client that leaves.
LEMMA PdEndKeeps ==
    ASSUME PdInv, NEW r \in PdRequests, Pd!Finish(r) \/ Pd!Disconnect(r)
    PROVE  PdInv'
<1> USE RouterAssumption DEF PdInv
<1>0. PICK c \in Pd!Calls : c = <<r, attempt[r]>> /\ c = Pd!Call(r)
  BY CallIsCall
<1>1. /\ UNCHANGED <<stream, attempt, pair, task, told, deed>> /\ pc'[r] \in {"done", "gone"}
      /\ OnlyRequest(r)
  BY DEF Pd!Finish, Pd!Disconnect, Pd!Set, Pd!history, OnlyRequest, PdType
<1>2. c = Pd!Call(r)' /\ OnlyCall(c) /\ ~Pd!Holds(r)'
  BY <1>0, <1>1 DEF OnlyCall, PdType, Pd!Call, Pd!Holds
<1>3. Pd!Finish(r) => Blamed(c) /\ Pd!Holds(r)
  BY <1>0 DEF Pd!Finish, PdAt, Pd!Holds
<1>4. CallSound(r, attempt[r]) /\ Innocent(c) /\ TaskSound(c)
  BY <1>0, CallIsCall DEF CallSound
<1>5. Innocent(c)' /\ TaskSound(c)' /\ (Blamed(c) => Blamed(c)')
  BY <1>1, <1>4, SameCall
<1>6. PdAt(r)'
  <2>1. CASE Pd!Finish(r)
    BY <1>1, <1>2, <1>3, <1>5, <2>1 DEF PdAt
  <2>2. CASE Pd!Disconnect(r)
    <3>1. pc'[r] = "gone"
      BY <2>2 DEF Pd!Disconnect, Pd!Set, PdType
    <3> QED
      BY <1>2, <3>1 DEF PdAt
  <2> QED
    BY <2>1, <2>2
<1>7. Pd!LoadExact' /\ load' \in [PdWorkers -> Nat]
  <2>1. CASE Pd!Holds(r)
    BY <1>0, <1>1, <1>2, <2>1, PdLoadGiven DEF Pd!Finish, Pd!Disconnect
  <2>2. CASE ~Pd!Holds(r)
    BY <1>0, <1>1, <1>2, <1>3, <2>2, PdLoadKept DEF Pd!Disconnect
  <2> QED
    BY <2>1, <2>2
<1> QED
  BY <1>0, <1>1, <1>2, <1>5, <1>6, <1>7, PdParts

\* The next attempt: the last one is answered for, the new one is fresh.
LEMMA PdWakeKeeps ==
    ASSUME PdInv, NEW r \in PdRequests, Pd!Wake(r)
    PROVE  PdInv'
<1> USE RetryAssumption DEF PdInv
<1>0. PICK c \in Pd!Calls : c = <<r, attempt[r]>> /\ c = Pd!Call(r)
  BY CallIsCall
<1>1. attempt[r] \in Nat /\ attempt[r] + 1 \in 0..MaxRetries /\ Blamed(c)
  <2>1. PdAt(r) /\ pc[r] = "backoff" /\ attempt[r] \in 0..MaxRetries
    BY DEF Pd!Wake, PdType
  <2>2. attempt[r] + 1 < MaxRetries /\ Blamed(c)
    BY <1>0, <2>1 DEF PdAt
  <2> QED
    BY <2>1, <2>2
<1>2. /\ UNCHANGED <<stream, pair, early, answer, task, told, deed>> /\ pc'[r] = "new"
      /\ attempt'[r] = attempt[r] + 1 /\ OnlyRequest(r) /\ OnlyCall(c)
  BY <1>1 DEF Pd!Wake, Pd!Set, Pd!history, OnlyRequest, OnlyCall, PdType
<1>3. ~Pd!Holds(r)'
  BY <1>2 DEF Pd!Holds
<1>4. Pd!LoadExact' /\ load' \in [PdWorkers -> Nat]
  <2>1. CASE Pd!Holds(r)
    BY <1>0, <1>2, <1>3, <2>1, PdLoadGiven DEF Pd!Wake
  <2>2. CASE ~Pd!Holds(r)
    BY <1>0, <1>2, <1>3, <2>2, PdLoadKept DEF Pd!Wake
  <2> QED
    BY <2>1, <2>2
<1>5. PdType'
  BY <1>2, <1>4 DEF PdType, OnlyRequest, OnlyCall, PdWorkers
<1>6. PdAt(r)'
  <2>1. PICK x \in Pd!Calls : x = <<r, attempt[r] + 1>> /\ x = Pd!Call(r)'
    BY <1>1, <1>2 DEF Pd!Call, Pd!Calls
  <2>2. Fresh(x)
    BY <1>1, <2>1 DEF CallSound
  <2>3. Fresh(x)'
    BY <1>2, <2>2 DEF Fresh
  <2> QED
    BY <1>2, <1>3, <2>1, <2>3 DEF PdAt
<1>7. \A q \in PdRequests : PdAt(q)'
  BY <1>0, <1>2, <1>6, OthersHold
<1>8. ASSUME NEW q \in PdRequests, NEW n \in 0..MaxRetries PROVE CallSound(q, n)'
  <2>1. PICK x \in Pd!Calls : x = <<q, n>>
    BY DEF Pd!Calls
  <2>2. CallSound(q, n) /\ attempt[q] \in Nat
    BY DEF PdType
  <2>3. q # r => attempt'[q] = attempt[q]
    BY <1>2 DEF OnlyRequest
  <2>4. /\ n > attempt'[q] => Fresh(x)
        /\ n < attempt'[q] => Blamed(x)
        /\ Innocent(x) /\ TaskSound(x)
    BY <1>0, <1>1, <1>2, <2>1, <2>2, <2>3 DEF CallSound
  <2>5. told'[x] = told[x] /\ deed'[x] = deed[x] /\ task'[x] = task[x]
    BY <1>2
  <2> QED
    BY <2>1, <2>4, <2>5, SameCall DEF CallSound
<1> QED
  BY <1>4, <1>5, <1>7, <1>8

-----------------------------------------------------------------------------
(* The prefill/decode router: tasks *)

\* A task ends, and decode hears what it did.
LEMMA TaskEnds ==
    ASSUME PdInv, NEW c \in Pd!Calls, Pd!Streaming(c)
    PROVE  /\ OnlyCall(c) /\ task[c] # None /\ task'[c] # None
           /\ Innocent(c)' /\ TaskSound(c)' /\ Blamed(c)'
<1> USE RouterAssumption DEF PdInv
<1>1. Innocent(c) /\ TaskSound(c)
  <2>1. PICK r \in PdRequests, n \in 0..MaxRetries : c = <<r, n>>
    BY DEF Pd!Calls
  <2>2. CallSound(r, n)
    OBVIOUS
  <2> QED
    BY <2>1, <2>2 DEF CallSound
<1>2. Pd!Running(c) /\ task[c] # None /\ task[c].state = "running"
  BY DEF Pd!Streaming, Pd!CancelTask, Pd!StreamEnds, Pd!Running
<1>3. PICK w \in Decodes, state \in {"running", "over"}, synthetic \in BOOLEAN, end \in Terminals :
         /\ task[c] = Pd!Task(w, state, synthetic, end)
         /\ state = "running" =>
               /\ told[c].decode = <<>> /\ deed[c].prefill = "ok"
               /\ \/ synthetic /\ end = "Errored" /\ deed[c].decode = "bad"
                  \/ synthetic /\ end = "Active" /\ deed[c].decode = "ok"
                  \/ ~synthetic /\ end = "Active" /\ deed[c].decode = None
  BY <1>1, <1>2 DEF TaskSound
<1>4. task[c].decode = w /\ task[c].state = state /\ task[c].synthetic = synthetic /\ task[c].terminal = end
  BY <1>3 DEF Pd!Task
<1>5. PICK p, d \in {<<>>, <<"ok">>, <<"bad">>}, P, D \in {None, "ok", "bad", "unsent", "dropped"} :
         told[c] = Pd!Both(p, d) /\ deed[c] = Pd!Both(P, D)
  BY <1>1 DEF Innocent
<1>6. /\ d = <<>> /\ P = "ok"
      /\ \/ synthetic /\ end = "Errored" /\ D = "bad"
         \/ synthetic /\ end = "Active" /\ D = "ok"
         \/ ~synthetic /\ end = "Active" /\ D = None
  <2>1. told[c].decode = d /\ deed[c].prefill = P /\ deed[c].decode = D
    BY <1>5 DEF Pd!Both
  <2> QED
    BY <1>2, <1>3, <1>4, <2>1
<1>7. PICK last \in Terminals, did \in {None, "ok", "bad"} :
         /\ Pd!EndTask(c, last)
         /\ did = "bad" <=> last = "Errored"
         /\ deed' = [x \in Pd!Calls |-> deed'[x]]
         /\ \A x \in Pd!Calls \ {c} : deed'[x] = deed[x]
         /\ deed'[c] = Pd!Both(P, did)
  <2>0. deed = [x \in Pd!Calls |-> deed[x]]
    BY DEF PdType
  <2>1. CASE Pd!CancelTask(c)
    <3>1. Pd!EndTask(c, end) /\ deed' = deed
      BY <1>4, <2>1 DEF Pd!CancelTask
    <3>2. D \in {None, "ok", "bad"} /\ (D = "bad" <=> end = "Errored")
      BY <1>6
    <3> QED
      BY <1>5, <2>0, <3>1, <3>2
  <2>2. ASSUME NEW clean \in BOOLEAN, Pd!StreamEnds(c, clean)
        PROVE  \E last \in Terminals, did \in {None, "ok", "bad"} :
                  /\ Pd!EndTask(c, last)
                  /\ did = "bad" <=> last = "Errored"
                  /\ deed' = [x \in Pd!Calls |-> deed'[x]]
                  /\ \A x \in Pd!Calls \ {c} : deed'[x] = deed[x]
                  /\ deed'[c] = Pd!Both(P, did)
    <3>1. CASE ~clean
      <4>1. Pd!EndTask(c, "Errored") /\ deed' = [deed EXCEPT ![c].decode = "bad"]
        BY <2>2, <3>1 DEF Pd!StreamEnds
      <4>2. /\ deed' = [x \in Pd!Calls |-> deed'[x]] /\ deed'[c] = Pd!Both(P, "bad")
            /\ \A x \in Pd!Calls \ {c} : deed'[x] = deed[x]
        <5>1. /\ deed' = [x \in Pd!Calls |-> deed'[x]] /\ deed'[c] = [deed[c] EXCEPT !.decode = "bad"]
              /\ \A x \in Pd!Calls \ {c} : deed'[x] = deed[x]
          BY <2>0, <4>1
        <5>2. [Pd!Both(P, D) EXCEPT !.decode = "bad"] = Pd!Both(P, "bad")
          BY DEF Pd!Both
        <5> QED
          BY <1>5, <5>1, <5>2
      <4> QED
        BY <4>1, <4>2 DEF Terminals
    <3>2. CASE clean /\ ~synthetic
      <4>1. Pd!EndTask(c, "Completed") /\ deed' = [deed EXCEPT ![c].decode = "ok"]
        BY <1>4, <1>6, <2>2, <3>2 DEF Pd!StreamEnds
      <4>2. /\ deed' = [x \in Pd!Calls |-> deed'[x]] /\ deed'[c] = Pd!Both(P, "ok")
            /\ \A x \in Pd!Calls \ {c} : deed'[x] = deed[x]
        <5>1. /\ deed' = [x \in Pd!Calls |-> deed'[x]] /\ deed'[c] = [deed[c] EXCEPT !.decode = "ok"]
              /\ \A x \in Pd!Calls \ {c} : deed'[x] = deed[x]
          BY <2>0, <4>1
        <5>2. [Pd!Both(P, D) EXCEPT !.decode = "ok"] = Pd!Both(P, "ok")
          BY DEF Pd!Both
        <5> QED
          BY <1>5, <5>1, <5>2
      <4> QED
        BY <4>1, <4>2 DEF Terminals
    <3>3. CASE clean /\ synthetic
      <4>1. Pd!EndTask(c, IF end = "Active" THEN "Completed" ELSE "Errored") /\ deed' = deed
        BY <1>4, <2>2, <3>3 DEF Pd!StreamEnds
      <4>2. CASE end = "Active"
        BY <1>5, <1>6, <2>0, <3>3, <4>1, <4>2 DEF Terminals
      <4>3. CASE end = "Errored"
        BY <1>5, <1>6, <2>0, <3>3, <4>1, <4>3 DEF Terminals
      <4> QED
        BY <1>6, <4>2, <4>3
    <3> QED
      BY <3>1, <3>2, <3>3
  <2> QED
    BY <2>1, <2>2 DEF Pd!Streaming
<1>8. /\ task' = [x \in Pd!Calls |-> task'[x]] /\ \A x \in Pd!Calls \ {c} : task'[x] = task[x]
      /\ task'[c] = Pd!Task(w, "over", synthetic, last)
  BY <1>4, <1>7 DEF Pd!EndTask, Pd!Set, PdType
<1>9. task'[c] # None
  BY <1>8, TaskAssumption
<1>10. PICK o \in {None, "ok", "bad"} : o = Pd!DropReports(last) /\ (o = "bad" <=> last = "Errored")
  BY DEF Pd!DropReports
<1>11. /\ told' = [x \in Pd!Calls |-> told'[x]] /\ \A x \in Pd!Calls \ {c} : told'[x] = told[x]
       /\ told'[c] = Pd!Both(p, First(o))
  <2>1. told' = [told EXCEPT ![c] = Pd!Both(Pd!Note(told[c].prefill, None), Pd!Note(told[c].decode, o))]
    BY <1>7, <1>10 DEF Pd!EndTask, Pd!Tell
  <2>2. Pd!Note(told[c].prefill, None) = p /\ told[c].decode = <<>>
    BY <1>5, <1>6 DEF Pd!Both, Pd!Note
  <2> QED
    BY <2>1, <2>2, NoteFirst DEF PdType
<1>12. /\ Innocent(c)'
       /\ told'[c].decode = First(o) /\ deed'[c].prefill = "ok" /\ deed'[c].decode = did
  <2>1. /\ First(o) \in {<<>>, <<"ok">>, <<"bad">>}
        /\ First(o) = <<"bad">> => did = "bad"
    BY <1>7, <1>10 DEF First
  <2>2. Innocent(c)'
    BY RouterAssumption, <1>7, <1>11, <2>1 DEF Innocent
  <2> QED
    BY <1>6, <1>7, <1>11, <2>2 DEF Pd!Both
<1>13. Blamed(c)'
  BY <1>7, <1>10, <1>12 DEF Blamed, First
<1>14. TaskSound(c)'
  BY <1>8 DEF TaskSound
<1> QED
  BY <1>2, <1>7, <1>8, <1>9, <1>11, <1>12, <1>13, <1>14 DEF OnlyCall

LEMMA PdStreamingKeeps ==
    ASSUME PdInv, NEW c \in Pd!Calls, Pd!Streaming(c)
    PROVE  PdInv'
<1> USE RouterAssumption DEF PdInv
<1>1. /\ OnlyCall(c) /\ task[c] # None /\ task'[c] # None
      /\ Innocent(c)' /\ TaskSound(c)' /\ Blamed(c)'
  BY TaskEnds
<1>2. UNCHANGED <<pc, stream, attempt, pair, early, answer, load>>
  BY DEF Pd!Streaming, Pd!CancelTask, Pd!StreamEnds, Pd!handler
<1>3. PdType'
  BY <1>1, <1>2 DEF PdType, OnlyCall
<1>4. ASSUME NEW q \in PdRequests PROVE (Pd!Holds(q)' <=> Pd!Holds(q)) /\ PdAt(q)'
  <2>1. PICK x \in Pd!Calls : x = Pd!Call(q) /\ x = Pd!Call(q)'
    BY <1>2, CallIsCall DEF Pd!Call
  <2>2. task'[x] # None <=> task[x] # None
    BY <1>1 DEF OnlyCall
  <2>3. Pd!Holds(q)' <=> Pd!Holds(q)
    BY <1>2, <2>1, <2>2 DEF Pd!Holds
  <2>4. CASE x = c
    <3>1. pc[q] \notin {"new", "pick_decode", "picked", "sent", "prefill_error", "decode", "decode_error",
                        "prefill_body", "body"}
      BY <1>1, <2>1, <2>4 DEF PdAt, Fresh
    <3>2. PdAt(q)
      OBVIOUS
    <3> QED
      BY <1>1, <1>2, <2>1, <2>3, <2>4, <3>1, <3>2 DEF PdAt, Paired
  <2>5. CASE x # c
    <3>1. told'[x] = told[x] /\ deed'[x] = deed[x] /\ task'[x] = task[x]
      BY <1>1, <2>5 DEF OnlyCall
    <3>2. (Fresh(x) => Fresh(x)') /\ (Blamed(x) => Blamed(x)') /\ PdAt(q)
      BY <3>1, SameCall
    <3> QED
      BY <1>2, <2>1, <2>3, <3>1, <3>2 DEF PdAt, Paired
  <2> QED
    BY <2>3, <2>4, <2>5
<1>5. ASSUME NEW q \in PdRequests, NEW n \in 0..MaxRetries PROVE CallSound(q, n)'
  <2>1. PICK x \in Pd!Calls : x = <<q, n>>
    BY DEF Pd!Calls
  <2>2. CallSound(q, n)
    OBVIOUS
  <2>3. CASE x = c
    BY <1>1, <1>2, <2>1, <2>2, <2>3 DEF CallSound, Fresh
  <2>4. CASE x # c
    <3>1. told'[x] = told[x] /\ deed'[x] = deed[x] /\ task'[x] = task[x]
      BY <1>1, <2>4 DEF OnlyCall
    <3> QED
      BY <1>2, <2>1, <2>2, <3>1, SameCall DEF CallSound
  <2> QED
    BY <2>3, <2>4
<1>6. Pd!LoadExact'
  <2>1. \A w \in PdWorkers : PdHeldBy(w)' = PdHeldBy(w)
    BY <1>2, <1>4 DEF PdHeldBy
  <2> QED
    BY <1>2, <2>1, PdLoadMeans, PdLoadMeansNext
<1> QED
  BY <1>3, <1>4, <1>5, <1>6

-----------------------------------------------------------------------------
(* The prefill/decode router: the whole *)

\* No request and no task moves.
LEMMA PdAroundKeeps ==
    ASSUME PdInv, UNCHANGED <<pc, stream, attempt, pair, early, answer, task, told, deed, load>>
    PROVE  PdInv'
<1> USE DEF PdInv
<1>1. \A r \in PdRequests : (Pd!Holds(r)' <=> Pd!Holds(r)) /\ Pd!Call(r)' = Pd!Call(r)
  BY DEF Pd!Holds, Pd!Call
<1>2. ASSUME NEW x \in Pd!Calls
      PROVE  /\ Innocent(x) => Innocent(x)'
             /\ TaskSound(x) => TaskSound(x)'
             /\ Fresh(x) => Fresh(x)'
             /\ Blamed(x) => Blamed(x)'
  BY SameCall
<1>3. ASSUME NEW r \in PdRequests PROVE PdAt(r)'
  <2>1. PICK x \in Pd!Calls : x = Pd!Call(r) /\ x = Pd!Call(r)'
    BY <1>1, CallIsCall
  <2>2. PdAt(r) /\ (Fresh(x) => Fresh(x)') /\ (Blamed(x) => Blamed(x)')
    BY <1>2
  <2> QED
    BY <1>1, <2>1, <2>2 DEF PdAt, Paired
<1>4. ASSUME NEW q \in PdRequests, NEW n \in 0..MaxRetries PROVE CallSound(q, n)'
  <2>1. PICK x \in Pd!Calls : x = <<q, n>>
    BY DEF Pd!Calls
  <2>2. CallSound(q, n)
    OBVIOUS
  <2> QED
    BY <1>2, <2>1, <2>2 DEF CallSound
<1>5. Pd!LoadExact'
  <2>1. \A w \in PdWorkers : PdHeldBy(w)' = PdHeldBy(w)
    BY <1>1 DEF PdHeldBy
  <2> QED
    BY <2>1, PdLoadMeans, PdLoadMeansNext
<1>6. PdType'
  BY DEF PdType
<1> QED
  BY <1>3, <1>4, <1>5, <1>6

LEMMA PdStep ==
    ASSUME PdInv, Pd!Next \/ UNCHANGED <<Pd!worker, Pd!handler, task, Pd!history>>
    PROVE  PdInv'
<1>1. ASSUME NEW r \in PdRequests,
             \/ Pd!Selecting(r) \/ Pd!Preparing(r) \/ Pd!Prefilling(r) \/ Pd!Decoding(r)
             \/ Pd!Reading(r) \/ Pd!Finish(r) \/ Pd!Wake(r) \/ Pd!Disconnect(r)
      PROVE  PdInv'
  <2>1. CASE Pd!Decoding(r)
    BY <2>1, PdPrefillingKeeps, DecodeRepliesKeeps DEF Pd!Decoding
  <2> QED
    BY <1>1, <2>1, PdSelectingKeeps, PdPreparingKeeps, PdPrefillingKeeps, PdReadingKeeps, PdEndKeeps, PdWakeKeeps
<1>2. ASSUME NEW w, Pd!TimeOut(w) \/ Pd!Probe(w) PROVE PdInv'
  BY <1>2, PdAroundKeeps DEF Pd!TimeOut, Pd!Probe, Pd!CoolDown, Pd!CheckPasses, Pd!CheckFails,
     Pd!handler, Pd!history
<1>3. CASE UNCHANGED <<Pd!worker, Pd!handler, task, Pd!history>>
  BY <1>3, PdAroundKeeps DEF Pd!worker, Pd!handler, Pd!history
<1> QED
  BY <1>1, <1>2, <1>3, PdStreamingKeeps DEF Pd!Next

LEMMA PdStart == Pd!Init => PdInv
<1> SUFFICES ASSUME Pd!Init PROVE PdInv
  OBVIOUS
<1> USE RouterAssumption, RetryAssumption DEF Pd!Init, Pd!WorkerInit
<1>1. PdType
  BY DEF PdType, Pd!Both
<1>2. \A x \in Pd!Calls : Fresh(x)
  BY DEF Fresh
<1>3. ASSUME NEW r \in PdRequests PROVE PdAt(r) /\ ~Pd!Holds(r)
  <2>1. PICK x \in Pd!Calls : x = Pd!Call(r)
    BY <1>1, CallIsCall
  <2>2. pc[r] = "new" /\ Fresh(x)
    BY <1>2
  <2> QED
    BY <2>1, <2>2 DEF PdAt, Pd!Holds
<1>4. ASSUME NEW q \in PdRequests, NEW n \in 0..MaxRetries PROVE CallSound(q, n)
  <2>1. PICK x \in Pd!Calls : x = <<q, n>>
    BY DEF Pd!Calls
  <2> QED
    BY <1>2, <2>1, FreshSound DEF CallSound
<1>5. Pd!LoadExact
  <2>1. \A w \in PdWorkers : PdHeldBy(w) = {}
    BY <1>3 DEF PdHeldBy
  <2> QED
    BY <2>1, FS_EmptySet, PdLoadMeans DEF PdWorkers
<1> QED
  BY <1>1, <1>3, <1>4, <1>5 DEF PdInv

LEMMA PdGives == PdInv => Pd!LoadExact /\ Pd!BlameExact
<1> SUFFICES ASSUME PdInv PROVE Pd!LoadExact /\ Pd!BlameExact
  OBVIOUS
<1>1. ASSUME NEW c \in Pd!Calls
      PROVE  /\ Pd!Len(told[c].prefill) <= 1 /\ Pd!Len(told[c].decode) <= 1
             /\ told[c].decode = <<"bad">> => deed[c].decode \in {"bad", "unsent"}
             /\ Pd!Answered(c) => Blamed(c)
             /\ deed[c].decode = "dropped" => Pd!Len(told[c].prefill) = 1 /\ told[c].decode = <<>>
  <2>1. PICK r \in PdRequests, n \in 0..MaxRetries : c = <<r, n>>
    BY DEF Pd!Calls
  <2>2. CallSound(r, n) /\ PdAt(r) /\ Innocent(c) /\ c[1] = r /\ c[2] = n
    BY <2>1 DEF PdInv, CallSound
  <2>3. PICK p, d \in {<<>>, <<"ok">>, <<"bad">>}, P, D \in {None, "ok", "bad", "unsent", "dropped"} :
           /\ told[c] = Pd!Both(p, d) /\ deed[c] = Pd!Both(P, D)
           /\ d = <<"bad">> => D \in {"bad", "unsent"}
           /\ D = "dropped" => d = <<>> /\ p # <<>>
    BY <2>2 DEF Innocent
  <2>4. told[c].prefill = p /\ told[c].decode = d /\ deed[c].decode = D
    BY <2>3 DEF Pd!Both
  <2>5. Pd!Answered(c) => Blamed(c)
    <3>1. attempt[r] = n => Pd!Call(r) = c
      BY <2>1 DEF Pd!Call
    <3>2. attempt[r] \in Nat
      BY DEF PdInv, PdType
    <3> QED
      BY <2>1, <2>2, <3>1, <3>2 DEF Pd!Answered, CallSound, PdAt
  <2>6. Pd!Len(p) <= 1 /\ Pd!Len(d) <= 1
    <3>1. Pd!Len(<<>>) = 0 /\ Pd!Len(<<"ok">>) = 1 /\ Pd!Len(<<"bad">>) = 1
      OBVIOUS
    <3>2. (Pd!Len(p) = 0 \/ Pd!Len(p) = 1) /\ (Pd!Len(d) = 0 \/ Pd!Len(d) = 1)
      BY <3>1, Zenon
    <3>3. 0 <= 1 /\ 1 <= 1
      OBVIOUS
    <3> QED
      BY <3>2, <3>3, Zenon
  <2>7. p # <<>> => Pd!Len(p) = 1
    BY <2>3
  <2> QED
    BY <2>3, <2>4, <2>5, <2>6, <2>7
<1>2. Pd!HeardOnce
  BY <1>1 DEF Pd!HeardOnce, Blamed
<1>3. Pd!DecodeInnocent
  BY <1>1 DEF Pd!DecodeInnocent
<1> QED
  BY <1>2, <1>3 DEF PdInv, Pd!BlameExact

-----------------------------------------------------------------------------
(* The theorems *)

LEMMA RoutersStart == RoutersInit => RoutersInv
BY RegularStart, PdStart DEF RoutersInit, RoutersInv

LEMMA RoutersStep == RoutersInv /\ [RoutersNext]_routers => RoutersInv'
<1> SUFFICES ASSUME RoutersInv, [RoutersNext]_routers PROVE RoutersInv'
  OBVIOUS
<1>1. CASE Regularly(Next)
  BY <1>1, RegularStep DEF Regularly, RoutersInv
<1>2. CASE Disaggregated(Pd!Next)
  BY <1>2, PdStep DEF Disaggregated, RoutersInv
<1>3. CASE UNCHANGED routers
  <2>1. mode' = mode /\ UNCHANGED vars /\ UNCHANGED <<Pd!worker, Pd!handler, task, Pd!history>>
    BY <1>3 DEF routers, pdOnly, vars, worker, handler, history, Pd!worker, Pd!handler, Pd!history
  <2> QED
    BY <2>1, RegularStep, PdStep DEF RoutersInv
<1> QED
  BY <1>1, <1>2, <1>3 DEF RoutersNext

\* The load of a worker is the number of requests it holds, in both routers.
THEOREM LoadsAreExact == RoutersSpec => []LoadsExact
<1>1. RoutersInv => LoadsExact
  BY RegularGives, PdGives DEF RoutersInv, LoadsExact
<1> QED
  BY <1>1, RoutersStart, RoutersStep, PTL DEF RoutersSpec

\* The breaker of a worker hears of every attempt once, and a run of failures opens it.
THEOREM BreakersHear == RoutersSpec => []RegularBreakersHear
<1>1. RoutersInv => RegularBreakersHear
  BY RegularGives DEF RoutersInv, RegularBreakersHear
<1> QED
  BY <1>1, RoutersStart, RoutersStep, PTL DEF RoutersSpec

\* Of the three places that report the outcome of a call, one reports each worker, and
\* decode hears of no failure but its own.
THEOREM BlameIsExact == RoutersSpec => []PdBlameExact
<1>1. RoutersInv => PdBlameExact
  BY PdGives DEF RoutersInv, PdBlameExact
<1> QED
  BY <1>1, RoutersStart, RoutersStep, PTL DEF RoutersSpec

=============================================================================
