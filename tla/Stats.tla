------------------------------- MODULE Stats -------------------------------
(***************************************************************************)
(* stats.Recorder: outcome counters and a ring of latency samples for each *)
(* upstream id (internal/stats/stats.go), used by concurrent requests and  *)
(* by the snapshot of /internal/stats.                                     *)
(*                                                                         *)
(* get looks the id up under the read lock and, if it is new, creates its  *)
(* metrics under the write lock; what it returns is used after unlocking.  *)
(* The counters are atomic, the ring has a lock of its own.  A row of a    *)
(* snapshot is read piece by piece; the shares it also holds are arithmetic*)
(* on configured weights and window sums (SlidingWindow.tla).              *)
(***************************************************************************)
EXTENDS Naturals, FiniteSets, Functions, SequencesExt

CONSTANTS
    Callers,        \* goroutines: requests, and readers of the statistics
    Upstreams,      \* ids
    ttftSampleCap,
    Latencies,      \* time-to-first-chunk samples
    MaxCalls        \* bound on the calls of a behaviour

ASSUME StatsAssumption ==
    /\ IsFiniteSet(Callers)
    /\ ttftSampleCap \in Nat \ {0} /\ Latencies \subseteq Nat /\ MaxCalls \in Nat

VARIABLES
    heap,       \* upstreamMetrics objects, in order of creation
    metrics,    \* Recorder.metrics: index into heap, 0 if absent
    caller,     \* where each caller is, for which id, with which object and row
    calls,      \* history: number of calls
    told        \* history: outcomes and samples recorded for each id

vars == <<heap, metrics, caller, calls, told>>

Blank == [success |-> 0, failure |-> 0, ttftSamples |-> <<>>, ttftNext |-> 0]
NoRow == [success |-> 0, failure |-> 0, p50 |-> 0, p95 |-> 0]
Nothing == [success |-> 0, failure |-> 0, samples |-> <<>>]

Resting == [pc |-> "rest", op |-> "none", id |-> CHOOSE u \in Upstreams : TRUE,
            m |-> 0, row |-> NoRow, since |-> Nothing]

Init ==
    /\ heap = <<>>
    /\ metrics = [u \in Upstreams |-> 0]
    /\ caller = [c \in Callers |-> Resting]
    /\ calls = 0
    /\ told = [u \in Upstreams |-> Nothing]

At(c, pc) == caller[c].pc = pc

(* RecordOutcome, RecordTTFT, or one row of Snapshot.                      *)
Call(c) ==
    /\ At(c, "rest")
    /\ calls < MaxCalls
    /\ calls' = calls + 1
    /\ \E u \in Upstreams, op \in {"success", "failure", "ttft", "row"} :
          caller' = [caller EXCEPT ![c] = [Resting EXCEPT
                        !.pc = "get", !.op = op, !.id = u, !.since = told[u]]]
    /\ UNCHANGED <<heap, metrics, told>>

----------------------------------------------------------------------------
(* get                                                                     *)

Found(c, m) ==
    caller' = [caller EXCEPT ![c].m = m,
                             ![c].pc = caller[c].op]

Lookup(c) ==
    LET m == metrics[caller[c].id] IN
    /\ At(c, "get")
    /\ IF m # 0 THEN Found(c, m)
       ELSE caller' = [caller EXCEPT ![c].pc = "create"]
    /\ UNCHANGED <<heap, metrics, calls, told>>

(* Mutant: the id is not looked up again under the write lock.             *)
CreateUnchecked(c) ==
    /\ At(c, "create")
    /\ heap' = Append(heap, Blank)
    /\ metrics' = [metrics EXCEPT ![caller[c].id] = Len(heap')]
    /\ Found(c, Len(heap'))
    /\ UNCHANGED <<calls, told>>

Create(c) ==
    LET m == metrics[caller[c].id] IN
    /\ At(c, "create")
    /\ IF m # 0
       THEN Found(c, m) /\ UNCHANGED <<heap, metrics>>
       ELSE /\ heap' = Append(heap, Blank)
            /\ metrics' = [metrics EXCEPT ![caller[c].id] = Len(heap')]
            /\ Found(c, Len(heap'))
    /\ UNCHANGED <<calls, told>>

----------------------------------------------------------------------------
(* What the callers do with the object.                                    *)

Return(c) == caller' = [caller EXCEPT ![c] = Resting]

CountSuccess(c) ==
    /\ At(c, "success")
    /\ heap' = [heap EXCEPT ![caller[c].m].success = @ + 1]
    /\ told' = [told EXCEPT ![caller[c].id].success = @ + 1]
    /\ Return(c)
    /\ UNCHANGED <<metrics, calls>>

CountFailure(c) ==
    /\ At(c, "failure")
    /\ heap' = [heap EXCEPT ![caller[c].m].failure = @ + 1]
    /\ told' = [told EXCEPT ![caller[c].id].failure = @ + 1]
    /\ Return(c)
    /\ UNCHANGED <<metrics, calls>>

(* recordTTFT: the samples are appended up to the cap, then the oldest one *)
(* is replaced.                                                            *)
(* Mutant: the ring is one longer than its next index goes round.          *)
WithSampleRagged(m, ms) ==
    IF Len(m.ttftSamples) <= ttftSampleCap
    THEN [m EXCEPT !.ttftSamples = Append(@, ms)]
    ELSE [m EXCEPT !.ttftSamples[m.ttftNext + 1] = ms,
                   !.ttftNext = (@ + 1) % ttftSampleCap]

WithSample(m, ms) ==
    IF Len(m.ttftSamples) < ttftSampleCap
    THEN [m EXCEPT !.ttftSamples = Append(@, ms)]
    ELSE [m EXCEPT !.ttftSamples[m.ttftNext + 1] = ms,
                   !.ttftNext = (@ + 1) % ttftSampleCap]

RecordTTFT(c) ==
    /\ At(c, "ttft")
    /\ \E ms \in Latencies :
          /\ heap' = [heap EXCEPT ![caller[c].m] = WithSample(@, ms)]
          /\ told' = [told EXCEPT ![caller[c].id].samples = Append(@, ms)]
    /\ Return(c)
    /\ UNCHANGED <<metrics, calls>>

(* A row: two loads, then the percentiles of a copy of the samples.        *)
LoadSuccess(c) ==
    /\ At(c, "row")
    /\ caller' = [caller EXCEPT ![c].row.success = heap[caller[c].m].success,
                                ![c].pc = "failures"]
    /\ UNCHANGED <<heap, metrics, calls, told>>

LoadFailure(c) ==
    /\ At(c, "failures")
    /\ caller' = [caller EXCEPT ![c].row.failure = heap[caller[c].m].failure,
                                ![c].pc = "percentiles"]
    /\ UNCHANGED <<heap, metrics, calls, told>>

(* sort.Float64s.                                                          *)
Sorted(s) ==
    LET order == CHOOSE p \in Bijection(DOMAIN s, DOMAIN s) :
                     \A i, j \in DOMAIN s : i < j => s[p[i]] <= s[p[j]]
    IN  [i \in DOMAIN s |-> s[order[i]]]

(* Mutant: the rank is not rounded down.                                   *)
percentileUp(sorted, p) ==
    IF sorted = <<>> THEN 0 ELSE sorted[(p * (Len(sorted) - 1) + 99) \div 100 + 1]

(* percentile, and the 0 that percentiles answers without samples.         *)
percentile(sorted, p) ==
    IF sorted = <<>> THEN 0 ELSE sorted[(p * (Len(sorted) - 1)) \div 100 + 1]

(* Mutant: the samples are sorted in place.                                *)
PercentilesInPlace(c) ==
    LET sorted == Sorted(heap[caller[c].m].ttftSamples) IN
    /\ At(c, "percentiles")
    /\ heap' = [heap EXCEPT ![caller[c].m].ttftSamples = sorted]
    /\ caller' = [caller EXCEPT ![c].row.p50 = percentile(sorted, 50),
                                ![c].row.p95 = percentile(sorted, 95),
                                ![c].pc = "done"]
    /\ UNCHANGED <<metrics, calls, told>>

Percentiles(c) ==
    LET sorted == Sorted(heap[caller[c].m].ttftSamples) IN
    /\ At(c, "percentiles")
    /\ caller' = [caller EXCEPT ![c].row.p50 = percentile(sorted, 50),
                                ![c].row.p95 = percentile(sorted, 95),
                                ![c].pc = "done"]
    /\ UNCHANGED <<heap, metrics, calls, told>>

Report(c) ==
    /\ At(c, "done")
    /\ Return(c)
    /\ UNCHANGED <<heap, metrics, calls, told>>

Next ==
    \E c \in Callers :
        \/ Call(c) \/ Lookup(c) \/ Create(c)
        \/ CountSuccess(c) \/ CountFailure(c) \/ RecordTTFT(c)
        \/ LoadSuccess(c) \/ LoadFailure(c) \/ Percentiles(c) \/ Report(c)

Spec == Init /\ [][Next]_vars

----------------------------------------------------------------------------
(* Properties                                                              *)

TypeOK ==
    /\ metrics \in [Upstreams -> 0..Len(heap)]
    /\ \A i \in DOMAIN heap :
          /\ heap[i].success + heap[i].failure <= calls
          /\ Len(heap[i].ttftSamples) <= ttftSampleCap
          /\ heap[i].ttftNext \in 0..ttftSampleCap - 1
    /\ \A c \in Callers :
          /\ caller[c].m \in 0..Len(heap)
          /\ caller[c].pc \in {"success", "failure", "ttft", "row", "failures",
                               "percentiles", "done"} => caller[c].m # 0
    /\ calls \in 0..MaxCalls

(* No outcome is counted where nobody looks: however many requests were    *)
(* the first ones for an upstream, the metrics registered for it hold      *)
(* every outcome reported.                                                 *)
Registered(u) == IF metrics[u] = 0 THEN Blank ELSE heap[metrics[u]]

NothingUncounted ==
    \A u \in Upstreams :
        /\ Registered(u).success = told[u].success
        /\ Registered(u).failure = told[u].failure

(* The ring holds the last ttftSampleCap samples, each where the next but  *)
(* ttftSampleCap will replace it, however often it went round and whatever *)
(* snapshots were taken in between.                                        *)
SamplesRecent ==
    \A u \in Upstreams :
        LET ring == Registered(u).ttftSamples
            all == told[u].samples
        IN
        /\ Len(ring) = IF Len(all) < ttftSampleCap THEN Len(all) ELSE ttftSampleCap
        /\ \A j \in 1..Len(all) : j + ttftSampleCap > Len(all) =>
              ring[((j - 1) % ttftSampleCap) + 1] = all[j]

(* v is the p-th percentile of the last ttftSampleCap of the first n       *)
(* samples told, 0 if there are none: with k the rank the code rounds down *)
(* to, at most k of them are below v, and more than k are not above it.    *)
Latest(n) == {j \in 1..n : j + ttftSampleCap > n}

Ranked(all, n, p, v) ==
    LET k == (p * (Cardinality(Latest(n)) - 1)) \div 100 IN
    IF n = 0 THEN v = 0
    ELSE /\ \E j \in Latest(n) : all[j] = v
         /\ Cardinality({j \in Latest(n) : all[j] < v}) <= k
         /\ Cardinality({j \in Latest(n) : all[j] <= v}) > k

(* Each part of a row of a snapshot was true at some time between the      *)
(* snapshot's beginning and its end: each counter by itself, and the two   *)
(* percentiles together, of the samples that were the latest ones then.    *)
RowSound ==
    \A c \in Callers :
        LET q == caller[c]
            t == told[q.id]
        IN
        At(c, "done") =>
            /\ q.row.success \in q.since.success .. t.success
            /\ q.row.failure \in q.since.failure .. t.failure
            /\ \E n \in Len(q.since.samples) .. Len(t.samples) :
                  /\ Ranked(t.samples, n, 50, q.row.p50)
                  /\ Ranked(t.samples, n, 95, q.row.p95)

=============================================================================
