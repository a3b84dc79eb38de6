# A verification of the chat-completions router

The program is a Go proxy that serves an OpenAI-compatible chat API under a
public model name and spreads the requests over a pool of upstream models.
Each upstream has a weight; the proxy keeps, per upstream, a *debt* (tokens it
owes or is owed relative to its weight), a circuit breaker, a tokens-per-minute
bucket and an in-flight counter, and it fails over between upstreams until
something was delivered or a request's budget ran out. Several instances may
share their deliveries through Redis, and the configuration is reloaded while
requests are running.

This directory holds TLA+ models of that program, the TLC runs that check them
and TLAPS proofs. Paths below are relative to `src/`.

## 1. The system

| Component | Source | State | Operations |
|---|---|---|---|
| Circuit breaker | `internal/upstream/breaker.go` | state, consecutive failures, event window, `openedAt`, `halfOpenInFlight`, one mutex | `Allow`, `RecordResult`, `State`, the `onClose` callback |
| Sliding window | `internal/upstream/window.go` | 60 minute stamps and buckets, atomics only | `Add`, `Sum`, `SumLastMinutes` |
| Upstream runtime | `internal/upstream/upstream.go`, `atomicfloat.go` | debt, in-flight, TPM window, tokens sent, breaker, config pointer | `ReserveTPM`, `TPMUsedThisMinute`, `ResetDebt` |
| Gating and selection | `internal/router/gate.go`, `select.go` | none of its own | `Candidates`, `Select`, `ApplyDelivery` |
| Registry | `internal/router/registry.go` | id to upstream, active config, RW lock | `Sync`, `Get`, `Config`, `All` |
| Proxy loop | `internal/proxy/proxy.go`, `nonstream.go`, `stream.go`, `dispatch.go` | locals of one goroutine per request | the retry loop, dispatch, streaming, accounting |
| Redis sync | `internal/redisync/redisync.go`, `store.go` | unpublished deliveries and last known counter per upstream, under a mutex; the counter in Redis | `RecordLocalDelivery`, `syncOne` on a ticker |
| Config hot reload | `internal/config/manager.go` | active config, last modification time, subscribers | `NewManager`, `Watch`, `Reload` |
| Config load | `internal/config/config.go` | none | `Load`, `Parse`, `Validate` |
| Pure functions | `internal/openai`, `internal/tokens`, `internal/sanitize`, `internal/jsonutil` | none | request signals, quirks, estimates, sanitising, ordered JSON |
| Statistics | `internal/stats` | counters and a ring of latencies behind a mutex | record, snapshot |
| Wiring | `cmd/router/main.go` | none | start, graceful shutdown |

**How they interact.** A request's goroutine calls the registry for the active
configuration and upstreams, `Candidates` (which reads every breaker and TPM
bucket), `Select` (which reads every debt), the chosen breaker's `Allow`, then
dispatches. Whatever comes back is reported with `RecordResult`; when that
closes the breaker, `onClose` resets the upstream's debt after the breaker's
lock was released. A delivery ends in `ApplyDelivery`, which updates the debts
of all candidates one by one, and in `RecordLocalDelivery` for Redis.
The syncer applies what other instances delivered to the same debts. The
config manager calls `Registry.Sync` as a subscriber.

**What is hard.** Only the breaker, the registry and the syncer's books have
locks; the rest are single atomics with nothing held in between. So: results
that arrive in any order, long after their admission; checks whose subject
changes before it is used (TPM, debts, breaker state); a context that ends for
two reasons (client, budget) in the middle of anything, while a write to a
client that stopped reading does not end at all; many ways out of a
dispatch that must all settle breaker, counters and answer; a ring that is
reset without a lock; Redis calls that fail, or succeed unnoticed; files edited
in the middle of a reload. `PROJECT.json` lists these hazards line by line.

**What correctness means**, component by component:

- breaker: one probe at a time and a cooldown apart, a half-open breaker
  has a probe that will decide it, a closed one is below its thresholds;
- window: sums equal to what was added in the last minutes;
- router: one report per admission, one answer per client, counters that
  return to zero, debts that are only moved around and stay near zero,
  the TPM limit up to concurrent check-then-charge, termination as far as clients
  read;
- Redis: own deliveries never come back as remote, what is published is
  accounted for once everywhere, all instances converge, up to named exceptions;
- reload: only validated configurations, consistent with the registry's
  runtime state, state kept, edits noticed;
- request side: an upstream gets what it can serve, adapted to it alone, from
  configurations in order; nobody capable is turned down;
- response side: one coherent answer, nothing in it that names an upstream,
  and the tokens booked are the tokens told;
- statistics: nothing is counted where nobody looks, the latest samples are
  kept, a row is made of true numbers.

## 2. Modules

| Module | Models | Composition |
|---|---|---|
| `Circuit` | abstract: what a breaker promises its callers | implemented by `Breaker`; its contract is checked of `Router` |
| `Breaker` | `breaker.go` with clock, counter and failure-rate window | refines `Circuit` (`Contract`) |
| `BreakerProofs` | theorems about `Breaker` | extends `Breaker`, `TLAPS` |
| `Router` | requests through gate, select, admit, dispatch, stream, settle | uses the circuit in place of the breaker (`C(u)`) |
| `RouterProofs` | theorems about `Router` | extends `Router`, `DataTheorems` |
| `SlidingWindow` | `window.go` | on its own |
| `TpmGate` | the TPM limit: `HasTPMCapacity`, `ReserveTPM` and what lies between | extends `SlidingWindow` |
| `SlidingWindowProofs` | theorems about `SlidingWindow` and `TpmGate` | extends `TpmGate`, `DataTheorems` |
| `Tally` | abstract: what synchronisation promises | implemented by `RedisSync` |
| `RedisSync` | `redisync.go`, `store.go` | refines `Tally` (`Promise`) |
| `RedisSyncProofs` | theorems about `RedisSync` | extends `RedisSync`, `DataTheorems` |
| `Registry` | `registry.go` | part of `ConfigReload` and of `Dispatch` |
| `ConfigReload` | `manager.go` | extends `Registry` |
| `ConfigReloadProofs` | theorems about `ConfigReload` | extends `ConfigReload`, `TLAPS` |
| `OrderedMap` | `jsonutil/ordered.go` | operators, no state |
| `Wire` | `request.go`, `quirks.go`, `estimate.go`, `sanitize.go`, the content gates of `gate.go` | operators, extends `OrderedMap` |
| `Dispatch` | the request side of one chat completion: `proxy.go`, `gate.go`, `dispatch.go` | extends `Registry` and `Wire` |
| `Relay` | abstract: what a client may see | implemented by `Stream` |
| `Stream` | the response side: `stream.go`, `nonstream.go`; with `Dispatch` the whole exchange | extends `Dispatch`, refines `Relay` (`Promise`) |
| `StreamProofs` | theorems about `OrderedMap`, `Wire`, `Dispatch` and `Stream` | extends `Stream`, `DataTheorems` |
| `Stats` | `stats.go` | on its own |
| `StatsProofs` | theorems about `Stats` | extends `Stats`, `DataTheorems` |
| `DataTheorems` | lemmas about finite sets, sums, folds and remainders | extends `TLAPS` and the library's theorems |
| `MC...` | constants for TLC | extend the module they are named after |

Definitions with "Mutant" in their comment are plausible bugs; each is the
reason to believe that a property can fail (`mutants` in `PROJECT.json`). They
are not part of any specification.

### Breaker

Variables are the fields of `Breaker` plus the clock `now`, the requests `rq`
and a history `probes` of all probes. `AllowClosed`, `AllowProbe`, `Refuse`
are the three results of `Allow`; `HalfOpenSuccess`, `HalfOpenFailure`,
`Success`, `Failure` are the branches of `RecordResult`. Each runs under the
mutex from first to last line, hence one step. Times are ticks; the failure
rate is the fraction `RateNum/RateDen`. The events window is kept as the set of
events not yet pruned, tagged by request since each request reports once.
`Streaming` is the set of requests whose answers are streamed: their report comes
after writes to the client, which may block.

### Router

One record per request slot holds the locals of `ChatCompletions`, and `pc`
names the position. Steps are as fine as the code's atomic operations, with
these exceptions:

- `Admit` merges `Allow` and the in-flight increment (`proxy.go:103-111`); in
  between nothing reads the counter.
- `Examine` and `Consider` (the loops of `Candidates` and of `Select`, one
  upstream's reading per step) visit upstreams in any order; the code takes
  config order. The model has more behaviours than the code. Debts are whole
  numbers here and the jitter is below a hundredth, so it only breaks ties.
- The TPM bucket is not a variable. An upstream in `Metered` may be found
  without capacity at any gating; `TpmGate` has the bucket itself, with its
  lossy charge, and the bound on what is reserved.
- The write of the first event that fails is `FirstChunk` then `WriteFails`.
- Statistics and the call to the syncer are left out; see `Stats` and, for the
  latter, `RedisSync`'s `Deliver` and `RecordLocalDelivery`.
- A context ends (`BudgetExpires`, `ClientLeaves`) only where the code still
  reads it; later it makes no difference.
- `Stallers` are the requests whose clients may stop reading without leaving.
  Such a handler is `Blocked` wherever it writes (`Writing`); it takes no part
  in the fairness then, which is all that matters for it: a handler that makes
  no step is in the model anyway.
- What modality, tools, structured output and the context window decide is the
  set `able`, chosen with the request; `Dispatch` has the decision itself.

`Router` has several requests and everything they share; `Dispatch` and `Stream`
have one request at a time with its content, and leave open what `Router`
decides (selection, breaker, bucket).

`circuit[u]` is `closed`, `open`, `cooled` (open, cooldown elapsed, still
reported as `StateOpen`) or `half_open`. A failure of an upstream in `Fragile`
may trip a closed circuit; when it does is the detail that `Breaker` has.

### SlidingWindow and TpmGate

`Add` is three atomic operations: read the minute (`Begin`), swap the stamp
(`Swap`), store zero if it was stale (`Reset`), add (`AddDelta`). The sums
`SumsExact` and `NeverOverstated` speak of are state functions: a loop that loads
slot by slot while others add sees a mixture, about which they say nothing. The
ring has `Slots` slots instead of 60; an `Add` takes less than a whole turn of
the ring, an hour in the code.

`TpmGate` puts the check before the `Add`, for one upstream. `HasTPMCapacity`
reads the clock and the stamp (`Look`) and then the bucket (`Load`), in two
steps, so an `Add`'s swap and reset may fall in between. Clock and stamp are
read in one step: were the minute to turn between them, the request would find
the stamp of a minute that is over, set or not set as it was before the turn or
set since, which lets it pass no more easily. A request that passed is passed
over for another candidate (`PassedOver`) or reserves (`Reserve`), as late as it
likes, also in a later minute. Estimates are one token each, so the limit is a
number of requests.

### RedisSync

One key, since keys are independent. `syncOne` is `ReadPending`, the call
(`Answer`, `StoreFails`, or `ReplyLost`: Redis counted, the syncer does not
know), `Book` and `Nudge`; deliveries happen between any two. `Restart` discards
everything in memory. The debts of one upstream are split into what came from
own deliveries (`own`) and from remote ones (`remote`), to be able to tell them
apart. `unapplied` counts what never reaches the debts (`LeaveOut`): an own
delivery to candidates that weigh nothing together, which is recorded for the
syncer all the same (`select.go:58-60`, `proxy.go:117-119`), and a remote delta
that meets one of the early returns of `redisync.go:137-146` or of
`ApplyDelivery` after it was booked. Either may happen to any delivery and any
delta; whether weights and reloads make it happen is left open.
`ImplementsTally` says that for any run there is a tally of deliveries, and of
amounts published twice, that every instance catches up with and never exceeds.

### Registry and ConfigReload

A configuration is an edit number and the upstreams it lists. A runtime object
is named by its upstream and the edit that created it, so an upstream that goes
and comes back is another object and `StateKept` sees state being recreated.
`cfgOf` is the `Cfg` pointer of every object, also of removed ones that a
request may still hold. `Sync` is one step, under the registry's lock.

The file is edited between any two steps of the manager, which stats and reads
it separately. An edit leaves any content, valid or not, and any modification
time: later, the same, or earlier. The history `missed` records the edits that
the manager cannot notice: between `Load` and `Stat` at start
(`manager.go:35-44`), and those whose time is not after the last one seen
(`manager.go:107`). A tick whose `os.Stat` fails (`manager.go:103-106`) changes
nothing and is a step that is not taken. `ValidUpstream` and `Valid` are the
rules of `Validate` that other modules rely on.

### OrderedMap and Wire

A JSON object is its list of keys and its table of values, as in the code; a
value is tagged with its kind. Only what some reader tells apart is kept of it:
a string is a name, a content part has a type and a length, `tool_calls` is
absent, null or a list. Integers have the width given by `MaxInt`, and sums
wrap. What the models rely on is named: `WellFormed` (keys and table agree, each
key once), `IsRequest` (messages are a list of `ChatMessage`s, a limit that is
read is an `int`), `IsResponse` (a usage that is an object is well-formed), and
`ValidUpstream`, what `Validate` guarantees. `Delete` removes a key's first
occurrence, as the code does; that no other is left is proved. Simplified: role
names have about four letters and `tool_calls` between four and seven characters
in the estimate; a content that is neither string nor list; `stream_options`,
which the code reads and never uses.

### Dispatch and Stream

`NewRequest` has the early refusals of `ChatCompletions`, `Examine` gates one
upstream (the lookup of the object and of its `Cfg` in one step, the pointer
read being `passesGates`'s only one), `Build`, `Address` and `Authorize` are the
three reads of `up.Cfg` in `dispatch`, with `Reconfigure` anywhere in between.
`Commit` to `StreamBreaks` are the stages of `serveStream` after the first event
arrived, `Answered` is `serveNonStream`; failures before that are
`DispatchFails`, for both. The client leaves or the budget ends at any time
(`ContextEnds`); from then on reads and writes may fail. `log` is what the
client has been sent, event by event.

Left out: lines of the SSE syntax that carry no payload, the sanitised choices
inside a response (the code does not touch them), headers.

### Stats

`get` is two steps, the lookup under the read lock and the creation under the
write lock (which looks again); what it returns is used later. Counters are
atomics, the ring one step under its mutex. A row of a snapshot is two loads and
a copy of the ring, which is sorted and from which `percentile` picks by rank.
The history `told` has all samples, of which `RowSound` takes the latest ones at
some moment of the snapshot (`Latest`) and asks for the ranks of both
percentiles among them (`Ranked`), without mentioning order or ring. Shares are
arithmetic and left out.

## 3. Runs

| Run | Checks | Shows | States |
|---|---|---|---|
| `breaker` | `TypeOK` `ClosedBelowThreshold` `HalfOpenOccupied` `ProbesSpaced` `HalfOpenResolves` `ImplementsCircuit` | the breaker's guarantees survive any order of late results | 767k |
| `router_loop` | `TypeOK` `InFlightExact` `ProbeAlive` `CircuitContract` `OneAnswer` | every way out of a dispatch settles counters, breaker and answer | 1.0M |
| `router_debt` | `DebtConserved` `ShareOnTarget` | debts are conserved at every step, and shares stay on target up to what concurrency and resets explain | 2.4M |
| `router_budget` | `RequestTerminates` | requests end without upstreams' help, and one client that stops reading holds up nobody else | 302k |
| `router_recovery` | `Recovers`, violated | an opened breaker is never probed again | |
| `router_silent` | `AlwaysAnswered`, violated | a budget that runs out during a dispatch leaves the client without answer | |
| `window` | `TypeOK` `SumsExact` `NeverOverstated` `OvershootBounded` | when the ring's sums are exact, that they never overstate after a reset, and how far the TPM limit is exceeded | 666k |
| `window_overtaken` | `AddRecorded`, violated | one `Add`'s reset wipes out another's tokens | |
| `redis` | `TypeOK` `NoDoubleCount` `BooksBalance` `Converges` `ImplementsTally` | the books balance and instances converge, with failures, a lost reply, a restart and tokens the debts leave out; only a lost reply makes own tokens count as remote | 769k |
| `config_reload` | `TypeOK` `RegistryConsistent` `StateKept` `EditsTakeEffect` | reloads around edits, broken files and modification times that go backwards | 24k |
| `exchange` | `TypeOK` `InFlightExact` `Servable` `CapableNotRefused` `BodyFits` `PartsInOrder` `Opaque` `TokensTold` `ImplementsRelay` | from the client's JSON to the client's bytes, with failover, reconfiguration and departure | 428k |
| `stats` | `TypeOK` `NothingUncounted` `SamplesRecent` `RowSound` | first requests racing, the ring going round, percentiles of the latest samples in between | 3.5M |

### Bounds, and why they are enough

- `Breaker`: five requests are two failures that open it, a stray one admitted
  before, and two probes, the fewest for a stray result to interfere with a
  probe and a further probe to follow; `MaxTime = 5` leaves room for two
  cooldowns of 2 and a tick. `MinSamples = 3` lets the failure rate open the
  breaker before the counter does. One request streams and may never report. No
  request reports twice, so the model stops when they are used up:
  `CHECK_DEADLOCK FALSE`.
- `Router`: two upstreams and two slots, which are reused without end, give
  every pair of concurrent positions; `MaxAttempts = 2` gives a first attempt, a
  failover and exhaustion. Runs switch on what their question is about: `Shapes`
  (who can serve a request), `Modes` (streaming), `Endings` (how contexts may
  end), `Fragile` (who may trip), `Metered` (who may be found without capacity),
  `Stallers` (whose client may stop reading: one of the two, so that the other
  has to get along with it), `Tokens`/`MaxSent` (whether usage is counted).
  `router_debt` needs usage and caps the tokens delivered in a behaviour at
  `MaxSent = 12`, six deliveries of 2. Without resets the extreme debt that
  occurs is 3 while the bound is 4. A delivery past the cap counts as one that
  reported no usage. Requests are interchangeable, so safety runs use symmetry;
  liveness runs do not.
- `SlidingWindow`, `TpmGate`: three slots and enough minutes for the ring to
  wrap three times, two requests, `MaxTokens` per minute, a limit of two: the
  bounds of three, and of five after an overtaken reset, are reached before
  `MaxTokens = 6`. The clock is bounded, so the model stops:
  `CHECK_DEADLOCK FALSE`.
- `RedisSync`: two instances, three deliveries (before, during and after a
  sync), one restart, one token published with its reply lost per instance, two
  left out of the debts per instance (an own one and a remote one, or a delta of
  two).
- `ConfigReload`: four edits: a broken file, its repair, one in the middle of a
  reload, and one more; two upstreams that come and go; three modification
  times, for earlier, same and later.
- `Exchange` (`MCStream`): two upstreams and two attempts (one failover); two
  edits, so that one falls between each two of `dispatch`'s three reads, and an
  upstream can be removed and added again. Each upstream has another setting in
  each edit, and between them the settings differ in every gate and quirk. The
  thirteen requests meet each gate, each quirk, each early refusal, each parameter
  the code misreads, and an estimate that overflows (`MaxInt = 32767`). Streams
  have up to three events out of six: `[DONE]`, malformed, without usage, with a
  null usage, with parts of a usage and fields to be scrubbed, and with a total.
- `Stats`: two callers, two ids, a ring of four and six calls: the ring wraps and
  a snapshot still follows, and with four samples the two percentiles have
  different ranks. Callers are interchangeable, and the properties are
  invariants: symmetry. Calls are used up: `CHECK_DEADLOCK FALSE`.

Exceptions that a property names are states that the run really reaches; each
was dropped once, and the property then failed.

### Fairness, and why the code justifies it

- `Breaker`: `WF(RecordResult(r))` for requests that do not stream: their
  context has a deadline, and every way out of `serveNonStream` reports before
  anything is written to the client. That each way out reports is itself checked
  of the router (`CircuitContract`, `ProbeAlive`). A streaming dispatch writes
  first (`stream.go:128-136`). `http.Server` has no `WriteTimeout`
  (`main.go:64-67`) and a context does not end a write, so a client that stays
  and stops reading keeps it from ever reporting: no fairness for it.
- `Router`, `FairSpec`: handlers are goroutines and are scheduled (`Proceed`);
  `context.WithTimeout` fires (`BudgetExpires`); after that the HTTP client fails
  the dispatch (`Cancelled`). Nothing is assumed of upstreams. Neither
  `Proceed` nor `Cancelled` holds for a handler that is `Blocked` in a write.
- `Router`, `BusySpec` (only for the `Recovers` counterexample): requests keep
  coming, upstreams keep responding in one way or another, cooldowns elapse.
- `RedisSync`: the ticker and requests go on (weak); Redis may fail but not
  always (strong fairness of `Answer`).
- `ConfigReload`: the ticker keeps ticking, and `os.Stat` does not fail for ever.

## 4. Proofs

`BreakerProofs` proves, for any set of requests, thresholds, rate, window,
cooldown and time bound that satisfy the assumption of `Breaker`:

- `TypeCorrect`, `ClosedIsBelowThreshold`, `HalfOpenIsOccupied`,
  `ProbesAreSpaced`: the four invariants of run `breaker`;
- `BreakerRefinesCircuit`: `Breaker` implements `Circuit` step by step, which
  is why `Router` may use the circuit in place of the breaker;
- `Inductive`: the invariant they all rest on.

The three safety properties are not inductive together. A breaker could, as far
as they say, be open with an `openedAt` that lies before its last probe: the
next probe would then come too early. `IInv` therefore adds `PastProbes` (no
probe is dated later than now) and `OpenedAfterProbes` (an open breaker opened
no earlier than any probe). The step that needs most care is a report by a
stray request that re-opens a half-open breaker, isolated as the lemma
`ReportKeepsSpacing`; the other actions leave probes and state alone or only
add a probe when `openedAt + Cooldown` has passed. The proof of `InvStep` has
one step per action and one per conjunct it can disturb.

`ConfigReloadProofs` proves, for any upstreams, any number of edits and any
modification times, `TypeCorrect`, `RegistryIsConsistent` and `StateIsKept`.
The assumptions are that `None` is neither an edit nor a configuration. What
makes the invariant inductive is `Loaded`: the manager reaches its subscribers
only after a `Load` that passed. The two facts about `Sync` are lemmas of their
own, `SyncConsistent` and `SyncKeeps`.

`RedisSyncProofs` proves, for any set of instances and any number of deliveries,
omissions, restarts and lost replies, `TypeCorrect`, `NothingCountedTwice` and
`BooksAreBalanced`. `BooksBalance` speaks only of instances at rest, and says
nothing of what was published; its inductive form follows the books through
`syncOne`. What an instance published with a known reply plus what it has yet to
publish is at most what it delivered or left out (`OwnBooked`; an inequality,
since what is left out may be somebody else's); what it booked is what it last
read plus what it has yet to publish (`AllBooked`); and what it read is not more
than Redis holds (`Known`), which is why no remote amount is negative. A
step touches the books of one instance only; `StepKeeps` carries the others
over, because the counter never falls.

That the syncers implement `Tally` is `TallyKept`. The tally is the counter in
Redis plus what every instance still has to add to it (`OnTheWay`, a sum over
the instances); a step of one instance moves that sum by what it does to the
instance's own share, and each of the nine actions is then a delivery, a
surplus, a restart or a view catching up.

`RouterProofs` proves, for any pool, weights, number of requests in progress,
attempts and shapes of requests, and any upstreams that may be found without
capacity, all of `Router`'s properties but `ShareOnTarget` and the liveness. Its
invariant has two layers. `Fine` says of each handler by itself what its locals
may hold at each position of the loop. The rest is one statement per shared
counter, each a sum or a count over the handlers: `InFlightExact`,
`DebtConserved`, `ProbeAlive`, and `SentBounded`, which bounds what was
delivered and which TLC's properties do not have. Each action of a handler has a
lemma that says how the step looks from outside (which upstream it serves, what
it has yet to record and to credit), and the counters are proved from that
alone. `AnsweredOnce` and `CircuitsRespected` follow action by action.

`StreamProofs` proves all of `Stream`'s invariants and that the exchange
implements `Relay` (`RelayIsKept`), for any pool, number of edits, settings,
requests and payloads that satisfy the assumptions. The invariant adds to them:
an upstream's object has a configuration as long as anybody holds it, and
configurations only get newer (`Tracked`); candidates passed the content gates
with the settings they were looked at (`Screened`); the dates of the parts that
have been read (`Aged`, `Dated`); that the body is the client's request as
built for one valid configuration (`Built`); and which messages the log may hold
at which stage (`Shape`). `Reconfigure` may come between any two steps, and what
it preserves is a lemma of its own.

With that, five properties are statements about what pure functions return for
every request and response, which is where most of the module goes:

- *Ordered maps.* `PutWell`, `DeleteWell`, `KeepOnlyReduces`: what an update of
  a map keeps of its keys, its values and their order. `Before` is carried
  through each of them, so the order of the fields a quirk does not touch is
  too.
- *Loops over keys and messages.* The model writes them as folds, which the
  library defines by recursion over sets. `Drops` and `Adds` state the recursion
  of a fold for a list of given length; solutions exist by induction on that
  length (`DropsExist`, `AddsExist`), and a fold is what they give.
- *Quirks.* Each step of `BuildUpstreamRequest` leaves what it does not name
  (`SameOutside`), and the steps are composed in the order of the code. The
  result is `BodiesFit`.
- *Estimate.* A prompt costs at least nothing, and if sum and completion do not
  overflow nothing wraps. Building changes neither messages nor tools, and caps
  the limit: `SentIsServable`. `CapableServe` is the other direction: where
  `CanServe` says no, one of the listed reasons holds.
- *Rewrite.* What is left of a response are the allowed fields, with the name
  and the id replaced: `IdentityIsKept`.

`Types` collects what these show of maps that are sent.

`SlidingWindowProofs` proves `TypeCorrect`, `ExactSums` and `NoPhantomTokens` for
any ring size, number of adders, deltas and minutes. The two sums are
consequences of statements about single slots: a minute whose stamp is not
written has nothing (`Fresh`), one `Add` resets a bucket (`OneReset`), until it
has the others wait or have overtaken it (`Pending`), and afterwards the bucket
is what was added, or less if an `Add` was overtaken (`Settled`). They are
inductive only because no `Add` outlasts a turn of the ring (`BusyInWindow`).

The same module proves of the gate, for any limit and number of requests, that
it is the ring with some waiting in front of it (`GateImplementsRing`) and that
what a minute's requests reserve is bounded (`OvershootCeiling`).
`OvershootBounded` is not inductive, since it says nothing of the requests that
passed and have yet to charge: `Claims` are those and the `Add`s under way, and
`CapAt` says that they fit under the ceiling together with what was charged.
After an overtaken reset what was charged is not what the gate reads any more;
then they fit together with the bucket, and what was wiped out is less than the
ceiling, for the request that resets is not part of it. `Covered` is the reason
that no more than that is lost: until the reset the bucket holds at least what
was added.

`StatsProofs` proves all properties of run `stats` for any callers, ids, ring
capacity and samples. An object is used by the callers of one id only (`Apart`,
`Settled`), so what is counted in it is what that id was told (`Recorded`, with
`Ring` for where each sample lies), and the parts of a row that have been read
are true of some moment between the call and now (`Rows`). For the percentiles
that takes three steps: sorting is a permutation and has a result
(`SortedOrder`), so the element `percentile` picks has as many below it and not
above it as its rank says (`PercentileRank`); the places of a ring match the
latest samples one to one (`LatestPlaces`), so the counts among the samples are
those in the ring (`RingPercentile`); and samples told later change neither the
ones before nor which were the latest then (`RankedLater`).

`DataTheorems` has what these need of data: sums over finite sets
(`SumFunctionOnSet`), counting, and remainders. The sum is defined by recursion,
and the library's induction theorems are of no use here since they take an
operator; each fact is proved from the existence of a smallest counterexample
(`WFMin`) or by induction on a set of numbers instead, beginning with the
recursion having a solution. Its last part does so for `FoldLeft` over a list of
numbers, which the token estimate needs.

Assumptions: the named `ASSUME`s of the models, nothing else. Finite sets are
assumed where something is counted (`Requests`, `Upstreams`, `Adders`,
`Callers`, `Instances`). Of the exchange: requests are `IsRequest`, settings
`ValidUpstream`, payloads `IsPayload` (a readable usage has an integer total).
`OpacityAssumption` is needed for `IdentityIsKept` alone: the public name and the
router's request id are not themselves names of an upstream, and in the fields
that the API defines (`choices`, `created`, `object`, `service_tier`, the counts
of the usage) the upstream does not name itself (`Conventional`). It is a real
limit of the code: those fields are forwarded untouched, so an upstream that
introduces itself in `choices` is not hidden.

Only model-checked:

- liveness (`HalfOpenResolves`, `RequestTerminates`, `Converges`,
  `EditsTakeEffect`), which needs fairness and `ENABLED`, out of the prover's
  reach, and the three violations;
- `ShareOnTarget`: its bound holds of the pool and the shapes of `router_debt`,
  not in general: a request that only one upstream can serve goes there however
  far ahead of its share it is.

## 5. Findings

1. **An opened breaker never recovers** (`router_recovery`). `passesGates`
   drops every upstream with `State() == StateOpen` (`gate.go:57`) without
   looking at the cooldown, and only a gated candidate is asked to `Allow`
   (`proxy.go:103`), the only code that leaves `StateOpen`. Only a request
   gated before the breaker opened can still reach it.
2. **No answer at all when the budget runs out during a dispatch**
   (`router_silent`). `ctx.Err() != nil` is taken for the client having gone,
   but the context also carries the request budget (`nonstream.go:46`,
   `proxy.go:138`); the 504 of `proxy.go:148-151` is only reached in between
   attempts.
3. **Tokens are lost at the turn of a minute** (`window_overtaken`): `Add` swaps
   the stamp before it resets the bucket.

### Where properties have exceptions

These are places where the code differs from what its comments or the README
say, or does something a reader would not expect. No run refutes them: the
models contain them and a property names the exception, or holds in spite of
them.

- A stray success closes a half-open breaker: `breaker.go:27-30` speaks of
  "that probe's success", `RecordResult` takes anybody's. The breaker's
  properties hold all the same.
- A client that stays connected and stops reading holds its handler, since
  `http.Server` has no `WriteTimeout` (`main.go:64-67`) and a context does not
  end a write: the request outlives its budget, and if its stream is the probe
  (`stream.go:128-136`), the breaker stays half open and admits nobody.
  `RequestTerminates` and `HalfOpenResolves` leave it out.
- The TPM limit may be reserved twice over in a minute whose first `Add` was
  overtaken: what the reset erases (finding 3) the gate does not see
  (`OvershootBounded`).
- Tokens that no debt accounts for: a delivery to candidates that weigh nothing
  together (a fallback of weight 0 passes `config.go:253-264`) is published but
  not applied (`select.go:58-60`), so the other instances account for it and
  this one does not. A remote delta whose upstream or model is gone after a
  reload (`redisync.go:137-146`) has been booked by then and is lost. Neither is
  made up for; `BooksBalance` and `Converges` count them in `unapplied`.
- A lost reply double-counts: an `IncrByFloat` that Redis executed but whose
  reply did not arrive is published again, and the first time taken for
  somebody else's (`redisync.go:12-14` says no instance double-counts its own).
  `NoDoubleCount` bounds the surplus by what was lost.
- Edits that are missed: between `NewManager`'s `Load` and its `Stat`, and with
  a modification time that is not later (`EditsTakeEffect`).
- `tool_choice: "none"` next to a list of tools does not suppress the need for
  tools, although the comment at `request.go:94-101` says it must not gate out
  upstreams without them; a null `tool_choice` or `tool_calls` counts as use
  (`CapableNotRefused`).
- An estimate that overflows is negative and passes every context window
  (`Servable`).
- The output limit is clamped in one parameter only, the other passes; the limit
  renamed by `max_completion_tokens` replaces one the client gave under that
  name; and stripping comes before renaming, so a stripped name may come back
  (`BodyFits`).
- A stream that begins with `[DONE]` goes on (`Relay`). Any first payload
  commits the stream, also a malformed one, which is then dropped; the README
  (ambiguity 4) speaks of a "successfully parsed" event.
- A stream that ends without `[DONE]` is a success, and the client gets none
  (`Stream`'s `EndOfStream`, allowed by `Relay`). A usage of null resets the
  tokens to zero (`TokensTold`).

## 6. What is not modelled, and the plan

Not modelled: JSON and YAML text, HTTP transport settings, error wording,
request ids, the model list, the statistics' HTTP handler and shares, the checks
of single fields in `Validate`, graceful shutdown (beyond a process ending).
`Router` has one pool per public model in the code; several models that share
upstreams, and with them debts, are not composed. The 400 of an empty first
gating blames the request also when every breaker is open (`proxy.go:95`), and
a client's departure counts as the upstream's failure (`nonstream.go:43`): the
models contain both, no document says otherwise.

What is left to prove: a bound on how far an upstream's share may be from its
target, in terms of the weights and of which upstreams can serve which requests,
of which `ShareOnTarget` would be an instance; and the `Inductive` invariants of
several pools that share upstreams, once they are modelled.
