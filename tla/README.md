# Verification of c12n

c12n classifies a text by running independent *signals* (PII, jailbreak, language, cost, ...)
over it, concurrently, and returns one answer with their results and errors. The engine is a Rust
crate (`core/`); Go, PHP, Python and TypeScript clients reach it through a C library, an extension
module or a wasm module. This directory holds TLA+ models of the parts of it whose correctness
depends on order, failure or interleaving, the TLC runs that check them, and TLAPS proofs of their
most important properties. Paths below are those of the repository.

1. [The system](#1-the-system)
2. [Modules and how they correspond to the code](#2-modules-and-how-they-correspond-to-the-code)
3. [Runs](#3-runs)
4. [Fairness](#4-fairness)
5. [Proofs](#5-proofs)
6. [Where the code and its documentation disagree](#6-where-the-code-and-its-documentation-disagree)
7. [What is not modelled](#7-what-is-not-modelled)

## 1. The system

| Component | State it keeps | Operations | What makes it correct |
|---|---|---|---|
| **Pipeline** `core/src/pipeline.rs` | signals; a semaphore of `max(1, max_concurrency)` permits shared by all calls | `new`, `add_signal`, `evaluate` (spawns a task per signal, joins them) | the limit holds over all calls, no permit is lost whichever way a task ends, every signal costs one entry of the answer, every call ends |
| **Timeout** `core/src/rt.rs` | native: tokio's timer; wasm32: one host timer, its closure and a waker | `timeout`, `Sleep::poll`, `Sleep::drop` | the output wins a tie, never early, no lost wake, no call into a freed closure |
| **Detector chains** `core/src/chain.rs`, `registry.rs` | tiers in order, a strategy | `new`, `single`, `parse`, the registry's chains by name, one evaluation per trait | a tier is asked only when needed, the best answer wins, no answer is lost, the provenance tells what happened |
| **JailbreakSignal** `core/src/signals/safety.rs` | a cache by text hash behind a tokio `Mutex` | `evaluate` | a cached answer was judged; a failure fails closed |
| **PiiSignal** `core/src/signals/safety.rs` | none between calls | `chunk_text`, `evaluate` | cutting a long text into chunks hides and moves nothing |
| **Rule and judgment signals** `core/src/signals/`, `prototype.rs` | none; prototype banks of vectors | `evaluate` | confidences are comparable and grow with the evidence; searches and distances find what their definitions say; vectors are compared only with vectors of their width |
| **Built-in detectors** `core/src/signals/detectors/` | tables | `detect...` | entities are disjoint, the more precise wins |
| **C library** `core/src/ffi.rs` | a boxed pipeline and its runtime; result strings owned by the caller | `c12n_pipeline_new`, `_evaluate`, `_free`, `c12n_result_free` | nothing is freed twice, used after it was freed, or left behind |
| **Go Pipeline** `go/c12n_cgo.go` | the pointer, `closed`, a mutex | `NewPipeline`, `Evaluate`, `Close` | as above, for any goroutines |
| **Clients** `go/`, `php/src`, `py/`, `ts/src`, `rs/src`, `core/src/wasm.rs` | a handle, `closed` | construct, evaluate, read the result, close | the same request means the same everywhere; a failure shows as one |
| **Python router** `py/python/c12n/router.py` | rules | `from_config`, `calculate_strong_win_rate`, `route` | the confidence of a decision is a mean of win rates between 0 and 1 |
| **Python middleware** `py/python/c12n/middleware.py` | per request | `__call__`, `_read_body`, `receive_wrapper` | the application gets the body once and whole, and gets it whatever the pipeline does |
| **PHP installer** `php/src/Installer.php` | on disk: the library and a version marker | `download` (a Composer hook) | only verified bytes are installed; an interrupted run is repaired by the next |
| **Go command line** `go/cmd/c12n` | configuration files | `config set`, `classify`, `bench`, ... | a command changes the key it names and leaves a file the next one can load |

How they interact: a client marshals a context and calls the C library (or wasm, or the Python
extension), which blocks on `Pipeline::evaluate`. Every signal runs as a tokio task: it waits for a
permit, then runs under `rt::timeout`; what it returns, its error, its panic or its timeout becomes
one entry of the answer, in the order in which the tasks end. Safety and language signals ask a
chain, whose tiers are detectors. A caller that drops the `evaluate` future aborts its tasks, and
tokio destroys them later, in whatever state they are; a task dropped by its timeout drops the
signal's own future, at whichever `await` it was. The router reads an answer whose results are in
completion order.

The hard behaviours, hence where the properties aim (the list with lines is `hazards` in
`PROJECT.json`): tasks of several calls on one semaphore and aborts in every state; cache look-up and
insertion around an await; tiers that fail between tiers that answer; a timer and a future that are
ready in the same turn; offsets at the edges of chunks and of characters; several goroutines that
use and close one handle; kills and unnoticed write failures between the writes of an installation
or of a configuration file; a request body in pieces; seven clients that each repeat the defaults and
conversions of the engine; a second embedding engine of another width.

## 2. Modules and how they correspond to the code

Each module models one component, `MC...` modules give its constants values for TLC, `..._proof` modules hold
theorems, and three modules state abstractly what a component promises. A proof module extends the module it
is about; `Safety_proof` and `Clients_proof` extend two that share no name, which is why `JailbreakCache` and
`Middleware` have a `CacheSpec` and a `MiddlewareSpec`.

```
EvaluateContract  <== SignalPipeline   <- MCSignalPipeline   SignalPipeline_proof
TimeoutContract   <== WasmTimeout      <- MCWasmTimeout      WasmTimeout_proof
HandleContract    <== NativeHandle     <- MCNativeHandle     Clients_proof
                      Middleware       <- MCMiddleware       Clients_proof
                      TierChain        <- MCTierChain        TierChain_proof
                      PiiSignal        <- MCPiiSignal        Safety_proof
                      JailbreakCache   <- MCJailbreakCache   Safety_proof
                      Installer        <- MCInstaller        Installer_proof
                      ConfigSet        <- MCConfigSet        ConfigSet_proof
Scoring <- Signals <- Bindings <- SignalRouter <- MCSignals  Signals_proof    (<== refines, <- extends)
```

**SignalPipeline** (`pipeline.rs`, native `rt.rs`). A task is a pair of a call and a signal; its state is
where it stands in `sem.acquire().await`, `timeout(..., evaluate).await`. `permits`, `waiters` are the tokio
semaphore: a fair queue whose released permit goes to its head, which is assumed of tokio and no property
here. `spawned` is how far the spawn loop got, for tasks run on other threads while it spawns. `DropFuture` is
the caller dropping the future: its tasks become `doomed`, and `Reap` destroys each later. `Finish` covers
answer, error and panic, `overdue` separates a deadline that has passed from the poll that notices it, so that
a late answer can still win. Durations are left out.

**EvaluateContract** says only that at most `Limit` signals are active, that a call returns when each
of its signals has been reported, and that signals of an abandoned call may be discarded.

**TierChain** (`chain.rs`, and the chains `registry.rs` builds). Confidences are levels of a small scale,
labels are model values, a tier's answer is any value of its trait or one of the two errors. The nine traits
share the loop and differ in what `Values`, `Infallible`, `SupportsConfidence` say, in what a merge does and
in how a search ends, as the nine `impl` blocks do. Merged categories are divided by their sum
(`Renormalized`): a score is so many parts of the `whole` of its value, so the division is exact. `FromNames`
is the path from configuration strings: names that the registry looks up, and a strategy. A NaN confidence is
a level that compares false with all (constant `NaNs`).

**JailbreakCache** (`JailbreakSignal::evaluate`). One step for the look-up under the lock, one for the
answer of the chain, one for the insertion under the lock; `Drop` is the timeout, at any await. `Hash`
need not be injective. `judged` is a history of what the chain answered.

**PiiSignal** (`PiiSignal::chunk_text`, `evaluate`). A text is a sequence of bytes told apart as the code
does: whitespace, first bytes of words, lead and continuation bytes. One turn of the loop is `Cut`;
`CutPanicked` is the panic of a slice that is not on a character boundary. The chunks are given to a
detector of words in turn; entities are placed by offset, the provenances are folded, the deny list
separates flagged from suppressed.

**WasmTimeout** (`rt.rs` for wasm32). One race of an inner future with a `Sleep`; the executor, the host's timer
queue and the inner future are the environment. The host converts delays to a signed 32-bit
integer, `DelayRange` stands for 2^32. **TimeoutContract** states what `timeout` promises on every target.

**NativeHandle** (`c12n_cgo.go`, `ffi.rs`). Goroutines with one step per lock, native call and deferred
release, in the order Go runs them; what the library allocated is `live` or `freed`. **HandleContract**
says that calls take effect one at a time and that `Close` ends the handle.

**Installer** (`Installer.php`). A composer run takes a step per download, check and write; it may be killed
between any two, and the disk (library, marker) stays. What a GET ends with is the list of the status lines it
followed, since `parseStatus` reads the first of them: `redirects` are the URLs that the host answers with a
redirect, as it does at every attempt, so that no number of runs gets past one.

**ConfigSet** (`config_cmd.go`, `root.go`). Several `config set` processes and people who edit the same file.
A process loads the configuration, then the kit's `Set` reads and writes the file with the value as a string,
then `retypeConfigScalar` reads it again and writes it with its type; a write empties the file (`KitOpen`,
`Truncate`), then fills it (`WritePart`), and one that is stopped leaves a part, which may not parse (`torn`).
A process may be killed, or a call fail, anywhere. `intended` and `overlapped` are histories.

**Middleware** (`middleware.py`). Messages of the ASGI server, `_read_body`, and the receive the application
is given. From the last message to the application's call nothing is awaited, so `Classify` is one step: of
the exceptions that the extractor of a text may raise (`Raises`), it catches four (`Caught`); any other is the
end of the request, as an undecodable body is.

**Signals**, **Scoring** (`core/src/signals/*.rs`, `detectors/*.rs`, `prototype.rs`). An evaluation without
state is one step from `input` to `answer`, one action per signal and detector; `Scoring` holds the functions
they are made of. Scores are whole numbers of 1/`Unit`, so every comparison is exact. A text is a sequence of
letters where its content is searched (keyword, structure, tokens), the set of indicators found in it where a
signal only asks which of its expressions match, and the list of matched spans, with the digits that the
validators look at, for the PII scan. An embedding engine is whether it fails and the width of its vectors; a
bank is the widths and weights of its prototypes, and its similarities to the text are inputs. The four lanes
of the dot product and the tail are `LaneSum`. A token count uses the ratio of its model. BM25 scores and the
entropy of a distribution are inputs, what an `input.chain` fails with is one error. Rules of equal score come
in any order (`sort_unstable`). Metadata is left out.

**Bindings** (`ffi.rs`, `wasm.rs`, `py/src/lib.rs`, `rs/src`, and the Go, PHP and TypeScript clients). One
request through one of seven clients: the settings it sends, the engine they build, the context in its
encoding, and what is read back. A collection of the context is full, empty, null, absent, of a wrong type, a
map numbered from zero, nested too deep for JSON, or a value JSON cannot write. Concurrency beyond what
tokio's semaphore holds is a panic of the constructor, and beyond `usize` of wasm32 an error there
(`NativePermits`, `WasmPermits`, `WasmUsize`).

**SignalRouter** (`router.py`). Rules over the results of one answer; a result is the type of its signal and
the conditions it meets, in the order in which the signals finished. The confidence of a decision is one of
those `ConfidenceInRange` speaks of; that order decides which of several results of one type is kept, and
nothing in the repository says which it should be, so no property does.

## 3. Runs

| Run | Instance | Distinct states | What it shows |
|---|---|---|---|
| `pipeline` | 2 calls x 2 signals, 2 permits, a signal that never answers | 62,677 | `PermitConservation`, `OneOutcomeEach` in every interleaving of spawns, acquires, answers, panics, timeouts, joins and aborts; `CallsEnd`, `PermitsRecovered`; `ImplementsContract`: what callers see is `EvaluateContract` |
| `chain` | 9 traits, up to 3 tiers, 3 levels, 2 labels, every strategy, names and configuration string | 809,071 | `AsksWhatIsNeeded`, `ReturnsBest`, `ProvenanceTrue`, `FailsOnlyWithAll`, `MergesUnion` |
| `jailbreak_cache` | 3 evaluations, 3 texts, 2 of one hash | 57,000 | `ResultsJudged`, `SettledForEver` |
| `pii_chunks` | every text of up to 6 bytes, chunks of up to 3, 2 tiers, with and without a deny list | 269,572 | `ChunksSound`, `WordsKept`, `ChunkingInvisible` |
| `wasm_timeout` | durations 0 to 3 of a host range of 8 | 238 | `NoOrphanTimer`, `NoLostWakeup`, `ImplementsContract` |
| `handle` | 3 goroutines | 1,629 | `NoUseAfterFree`, `StringsAreReturned`, `ImplementsContract` |
| `installer` | one version, any number of runs one after the other, 2 kills, 3 failures, each set of redirecting URLs | 826 | `OnlyVerified`, `MarkerTrue`, `Converges`: from a host that answers itself the library gets installed, from one that redirects never |
| `config_set` | 2 processes and an editor, a typed and an untyped key, 2 values, any kill or failure, writes stopped anywhere | 848,372 | `LoadsUnlessInterrupted`, `SettingsKept`, `OnlyHandsRepair` |
| `middleware` | bodies of up to 3 messages, 4 contents: read, caught, not caught, not decoded | 1,273 | `BodyReplayed`, `RequestsGoOn` |
| `signals` | 76,405 inputs: words of up to 3 and texts of up to 4 letters, sequences of 3 patterns, every set of indicators, 3 expressions claiming spans, vectors of up to 9 lanes, banks of 2, 2 engines, scores at and beside each threshold, every request a client can make, with concurrency at and beyond each limit, 2 rules over 2 results | 152,826 | `ConfidenceInRange`, `EvidenceNeverHurts`, `FuzzyWithinDistance`, `SequenceFound`, `SpansClaimed`, `FailoverKeepsWidth`, `LanesCoverVectors`, `BindingsAgree`, `NeverSilent` |
| `pii_wide`, `install_stale` | the smallest instances that matter | - | `CutsBetweenCharacters`, `SkippedMeansInstalled` violated: see section 6 |

Every module with state but `Middleware`, `Signals` and those that extend it has a `TypeOK` (`CacheTypeOK` in
`JailbreakCache`), proved in section 5 (that of `WasmTimeout` as a part of `WakeInv`). `ConcurrencyBound`,
`QueueSound`, `ScalarAnswersKept`, `CutAdvances`, `NeverEarly` and `NoDoubleFree` are proved there for every
value of the constants and have no run. `max_concurrency` 0, which counts as 1, is in the proofs, which hold
for every value.

*Why the bounds are enough.* The interesting cases of the semaphore need a task that holds, one that waits and
one that is aborted while a permit is on its way to it, and a task of another call to starve: two calls of two
signals with two permits have them all. A chain needs a tier before, at and after the one that matters, hence
three, and two confidences that differ from each other and from the threshold. Of three evaluations of one
hash one can store, one overwrite and one hit. Six bytes in chunks of three hold two cuts, words that fit,
touch or exceed a chunk, whitespace before, at and after an end, and characters of two bytes at each of these.
A third goroutine is the one that waits while the second does. A sequence of three patterns is the shortest
whose offsets add up, three letters in two alphabets the shortest words in which an edit may be replaced,
shifted or swapped; nine numbers fill the four lanes of the dot product twice and leave a tail, and two
engines are one to fail and one to be asked instead. Two kills hit the same installation before and after it
is repaired. Of two processes that set a key, one can be stopped while the other loads, and an editor may come
between both. Two rules are enough to differ in priority, tie, or ask for a result that is missing. The
theorems of section 5 hold without these bounds.

*Deadlock* is checked for `handle`, whose goroutines never stop calling, for the installer, which can always
be run again, and for `config_set`, where a person can always edit; in the other modules calls, evaluations,
requests or texts are used up, and their configurations say `CHECK_DEADLOCK FALSE`. `config_set` takes its two
processes for symmetric: they are told apart nowhere, and none of its properties is a liveness property.

## 4. Fairness

- *SignalPipeline*: the runtime polls what is ready and its timer fires (weak fairness of each
  task's acquire, deadline, timeout and destruction, and of each call's loop): tokio's multi-threaded
  scheduler does both. No signal has to answer (`Finish` is not fair) and no caller has to act.
- *WasmTimeout*: the host's event loop runs woken tasks and due timers; the inner future
  need not finish.
- *NativeHandle*: a goroutine that can run does, native calls return (the pipeline's own timeout, above),
  and `sync.Mutex` starves nobody (strong fairness of `Lock`; its starvation mode hands the mutex to the
  first waiter after 1 ms).
- *Installer* (`Converges` only): a run that has started goes on unless it is killed, and composer is run
  again. Kills and passing failures are bounded, which is what makes converging possible; a redirect is no such failure.
- *Middleware*: the event loop runs the middleware, and a client finishes its body or leaves.
- The other modules claim no liveness and assume none.

## 5. Proofs

For every value of the constants (subject to the named `ASSUME`s, which TLC evaluates on every run):

**SignalPipeline_proof.** `TypeCorrect`, `PermitsConserved`, `QueueIsSound`, `ConcurrencyBounded`.
The bound on running signals follows from permits being conserved; that is inductive only
with the queue: a released permit goes to the head of the queue, which must be a queued task, once, that
holds none; and with `SpawnedPrefix`, since a spawn must not restart a task. Together: `PermitInv`.

`OneOutcome`: a returned call has one entry for each of its signals. That counts entries, so `OutcomeInv` says
which they are: the vectors hold exactly the signals whose task was joined, each once and in one of the two
(`Accounted`), and where a call stands says how many that is (`Stands`). A panicked signal leaves an entry
without a name, which the lengths count and the names do not.

`PipelineRefinesContract`: every step of the pipeline is one of `EvaluateContract` or none. `ContractInv` adds
to these that a call which joins has spawned all that is registered (no signal is added while a call is in
flight). A step that begins a signal finds room under the limit since its task holds a permit (`RoomToBegin`),
a task that is alive belongs to a call that is open or abandoned (`AliveOfOpen`), and a permit that moves on
changes nobody else's progress (`ReleaseMapped`).

**TierChain_proof.** `ChainTypeCorrect`, `TiersAskedAsNeeded`, `BestReturned`, `ScalarsKept`,
`MergeReturnsUnion`, and without NaN confidences `ProvenanceIsTrue`, `ChainFailsOnlyWithAll`. `LoopInv` says
what the loop knows while it runs: no tier so far has cleared the bar, `best` is the first of the most
confident answers, there is an error for every tier that failed. Whether the end returns an answer follows
from it only without NaN, since `best` is empty as long as every confidence was NaN. `MergeInv` adds that the
merged labels are the union so far, each at its highest score, and that the end returns them as they are or,
for categories, divided by their sum.

**Safety_proof, of JailbreakCache.** `CacheTypeCorrect`, `EveryResultJudged`, `SettledIsForEver`, for every
hash. A hit answers with what another evaluation stored, so `CacheInv` says
of the stored and of the pending results what `ResultsJudged` says of the answered ones.

**Safety_proof, of PiiSignal.** `PiiTypeCorrect`, `ChunksAreSound`, `WordsAreKept`, and for a chunk size of at least one byte
`EveryCutAdvances`, for every text. `PiiInv` adds that the chunks lie before `start` and that
`start` is on a character boundary; the lemmas say what the search for whitespace and the skip return.

`ChunkingIsInvisible` puts them together: where every word fits, the words of the chunks are the words of the
text. A chunk that ended inside a word would have `MaxSize` bytes of it before the cut (`WordsKept`) and at
least one after, and these extend to a word of the text (`ExtendsToWord`) that is too long; so every chunk
ends beside whitespace (`EndsBesideSpace`), a word lies in the chunk of its first byte, and the byte before a
chunk that starts a word is whitespace, or the chunk it lies in would end inside one. `FoundInv` adds what the
loop over the chunks has found so far.

**WasmTimeout_proof.** `NoWakeupLost`, `NoTimerOrphaned`, and for durations of less than half the host's range
`ElapsedNeverEarly`, `RefinesContractSafely`. That a parked future misses nothing needs who owns the timer: a
live `Sleep` has one pending until it fires, and nobody else has (`WakeInv`).

**Clients_proof, of NativeHandle.** `HandleTypeCorrect`, `NeverUsedAfterFree`, `EveryStringReturned`, `FreedOnce`,
`HandleRefinesContract`, for any goroutines. `ThreadInv` says what a goroutine's place tells about the handle: one that
is inside the library found it open under the mutex it still holds.

**Clients_proof, of Middleware.** `BodyIsReplayed`, for bodies of any number of messages. `MiddlewareInv` says
where the messages stand: those that have not been read cut the rest of the body at offsets that do not go
back, and only the last of them ends it, so what has been read and what is to come make up what was sent
(`MessagesCut`, `RestIsSent`); when the application is called the body is finished, and what it is handed is
the body as sent or, after a disconnect, the part that arrived.

**Installer_proof.** `InstallTypeCorrect`, `NothingUnverified`, `RedirectsInstallNothing`, for any number of
overlapping runs, versions, kills and failures: past the comparison of hashes a run holds the archive as
published (`InstallInv`). That nothing is installed through a redirect is the part of `Converges` that is no
liveness: no run gets past the download that redirects (`RedirectInv`). `MarkerIsTrue` is for one run at a
time and one version, and needs both: `install_stale` is what happens with two versions, and an overlapping
run tears the library under another's marker. A run that is under way found no marker, and writes one only
over the whole library (`MarkerInv`).

**ConfigSet_proof.** `ConfigType`, `LoadsUnlessInterruptedHolds`, `SettingsKeptHolds`, `OnlyHandsRepairHolds`,
for any processes, keys and values, and for any kills and failures. Without overlap at most one process is at
work on the file, and what it has read is the file but for the key it sets: `ConfigInv` says so for each of
its steps, that a value is missing only while a set fills the file it emptied, or was stopped there, and that
a string of a typed key belongs to a process between its two writes, or to one that was stopped there.

**Signals_proof**, of Signals, Bindings and SignalRouter: `EvidenceGrows`, `FailoverIsFit`, `SequenceIsFound`,
`FuzzyIsDistance`, `SpansAreClaimed`, `LanesDoCover`, `ConfidenceIsInRange`, `BindingsDoAgree`,
`NeverSilentHolds`. An evaluation is one step, so the inductive invariant is short (`InputInv`: the input is
one of `Inputs`, and no step changes it) and the work is in what an operator returns for inputs of any length.
What an input may be is the named assumption of its module: `InputsAssumption` (texts and patterns that are
sequences of words, and a distance that is a natural, as `Vec<char>` and `usize` make them, banks that
`PrototypeBank::new` accepted, a chain with at least one engine as `EmbeddingChain::new` requires, spans of a
regular expression that are not empty, vectors of one length as the assertion of `cosine_similarity` demands),
`ScoresAssumption` (the scores and probabilities that a detector or a classifier promises in its doc comment,
the clamped scores of `score_regex` and `score_bm25`, no more hits for a language than there are tokens),
`RequestsAssumption` (settings and contexts that a client can write), `ResultsAssumption` (win rates between 0
and 1). TLC evaluates them for the inputs of `signals`.

A fold of the community modules is a recursive function under a `CHOOSE`; `FoldUnfolds` and `FoldRuns` show
that such a function exists, so that the value it returns is the last of a run of its steps, and what holds
along a run follows by induction, from the least counterexample (`LeastExists`, `UpTo`). On this rest:

- *sequences*: a search that passes stands at the least end of all placements of the patterns so far, one that
  fails shows that none exists (`Greedy`); hence looking for the first occurrence each time loses nothing;
- *distances*: an alignment of two words with one more character each aligns the two last, or does without one
  of them (`LastPair`), so the fewest edits follow from those of the three shorter pairs
  (`ShortestOfOneMore`); a row is made of such steps (`NextRowIs`) and stays a row of distances
  (`NextRowMeasures`), and the last entry of the last row is the distance (`LevenshteinIsShortest`). The
  rounding of the score keeps it above 0 up to the distance;
- *spans*: what is claimed so far is disjoint and covers each plausible match scanned (`Scanned`), and
  `InOrder` is an order because any finite set can be sorted by what orders it consistently (`OrderExists`);
- *lanes*: a sum over a set does not depend on the order the fold takes its elements in (`FoldIsSum`), sums of
  disjoint sets add up (`SumsAdd`), and the lanes and the tail are disjoint and make up the domain; then the
  inequality of Cauchy and Schwarz, element by element;
- *confidence*: every way a confidence is computed stays within the range its input allows (`Allowed`, with
  one lemma per kind of signal). A part of a whole is at most 1 (`PartOfUnit`: matched rules, shared
  trigrams), the maximum of scores is one of them (`MaxBounded`), the terms of a language's confidence
  saturate before they add up (`LanguageInRange`). The score of a bank is a blend of its highest weighted
  similarity and the mean of the highest few: some few are highest (`HighestExist`), the sum of m of them lies
  within m times their bound (`SumBounded`), and the quotient of the blend within one (`BlendBounded`,
  `QuotientBetween`); the bound is that of the heaviest weight of the banks, which are finitely many
  (`HeaviestIs`);
- *failover*: the first engine alive answers, with the width of all when the chain is validated, and a bank of
  that width has no obstacle;
- *bindings*: each client's conversions of settings and contexts come out as one engine (`EngineMeant`) and
  one verdict (`AnswerIsMeant`).

*Model-checked only.* All liveness (`CallsEnd`, `PermitsRecovered`, `Converges`, `RequestsGoOn` and the
liveness parts of the contracts): it is out of the prover's reach under fairness. Every invariant that a
passing run checks is also a theorem.

## 6. Where the code and its documentation disagree

Runs that show the violation:

- `pii_wide`: `chunk_text` slices at byte offsets (`core/src/signals/safety.rs:194-207`), which for texts longer than
  `max_chunk_size` may be inside a character: the slice panics. Its comment (`:181`) speaks of word boundaries.
- `install_stale`: the marker of the version installed before stays while another version is extracted over
  its library (`php/src/Installer.php:519`); after a kill the old version counts as installed.

Seen while modelling, without a run of their own:

- Installer: `parseStatus` (`php/src/Installer.php:477`) takes the first status line, of a redirect, for that
  of the download, where the comments at `:429` and `:442` want the final response. It warns about a
  misconfigured package where its class comment says that it throws (`:45,79`).
- Clients: Go sends 0 for a setting that is left out and cuts durations to milliseconds, so its zero
  configuration is one permit and no time, where the other clients' is 8 and 5 s. A `null` configuration is
  refused by C and means the defaults to JavaScript; a `null` config of a context is empty everywhere but in
  Python, which refuses it (`py/src/lib.rs:46`). PHP sends a map whose keys are the numbers from zero as a
  list, which the engine refuses. More permits than tokio's semaphore holds panic in its constructor
  (`core/src/pipeline.rs:52`), on wasm32 from 2^29. A config nested deeper than 128 is an error envelope,
  which Go's `ParseResult` reads as an answer without results and errors. `BindingsAgree` and `NeverSilent`
  name these as their exceptions.
- Configuration: `config set` is two writes (`go/cmd/c12n/config_cmd.go:113-116`). A command killed between
  them leaves a number as a string, which no later command loads, `config set` included (`OnlyHandsRepair`);
  one killed while it fills the file it has emptied leaves any part of it: keys gone without a word, or no
  YAML; overlapping commands may do either.
- Router: of several results of one type it keeps the last (`py/python/c12n/router.py:85`), where the
  accessors of Go, PHP and TypeScript find the first; results are in completion order.
- Signals: a keyword rule that requires all of its patterns and has none answers with the confidence
  `f64::MAX` (`core/src/signals/keyword.rs:101`); prototype weights above 1 give a confidence above 1, and the
  feedback signal behind a negative threshold one below 0 (`core/src/signals/feedback.rs:96`; all three are
  exceptions `ConfidenceInRange` makes); of several labels in an answer the preference signal picks the
  alphabetically first where its comment says the first match (`core/src/signals/preference.rs:79`); a chain
  whose only answers have NaN confidence returns an error (`core/src/chain.rs:577`); `max_chunk_size` 0 makes
  `chunk_text` loop for ever (`core/src/signals/safety.rs:191`).
- Timeout: `setTimeout` fires at once for delays of 2^31 ms or more, which saturation at `u32::MAX` lets
  through (`core/src/rt.rs:152`).
- Middleware: it takes a client's disconnect for the end of its body (`py/python/c12n/middleware.py:113`),
  lets the `UnicodeDecodeError` of an undecodable body and any exception of an extractor but four (`:59`),
  such as the `RecursionError` of a deep body, through, and evaluates on the event loop (`:64`), where every
  other request of the process waits for it.

## 7. What is not modelled

Left out for good: regular expressions and word lists, BM25 and the division of cosine similarity,
floating-point arithmetic, formatting of results, command-line input and output, type declarations, the
layered configuration and the record and replay of calls, which external libraries do, the search for the
native library on disk, and log events. The wasm entry points are modelled as what they answer; `block_on`,
which waits inside a synchronous call from JavaScript, is not. `bench` starts goroutines that only call the Go
handle, which `NativeHandle` models for any number of them; what it measures includes the wait for the mutex.
PHP, TypeScript and Python close a handle by setting a flag on one thread, which is `NativeHandle` with one
goroutine. Per component, `components` in `PROJECT.json` gives the reason.

What could come next: a composition of SignalPipeline with JailbreakCache, in which the timeout that drops a
signal's future is the drop of its evaluation; the bench command's statistics.
