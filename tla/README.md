# A TLA+ model of testrs

testrs is a Rust workspace of testing tools that use the standard library
only: a property-based tester (`testrs-pbt`), a smoke fuzzer (`testrs-fuzz`),
a benchmark harness (`testrs-bench`), generators and shrinkers shared by them
(`testrs-core`) and a derive crate. This directory holds TLA+ models of them,
TLC configurations that check the models, and TLAPS proofs. Paths are relative
to the repository.

    tlc -config Runner_cases.cfg MCRunner.tla      # any run of PROJECT.json
    tlapm RunnerProofs.tla                         # any *Proofs.tla

## 1. Inventory

| Component | Code | State | Operations | Correct when |
|---|---|---|---|---|
| Panic hook silencer | `crates/pbt/src/panic_hook.rs` | `REFCOUNT`, `SAVED` (mutex), the process-wide hook | `install`, `Drop` | panic output is silent while a guard lives, the original hook is back after the last |
| Property runner | `crates/pbt/src/lib.rs` | counters, classifications, size, shrinking locals | `forall*`, `run*`, `run_loop`, `run_prop`, `shrink_failure_with_mode` | the verdict is what happened, the counterexample fails and is a local minimum, budgets hold, the run returns |
| Seed file | `crates/pbt/src/regression.rs` | one text file per test | `read_seeds`, `append_seed` | failing seeds stay and are replayed, the file keeps its cap |
| Async executor | `crates/pbt/src/async_exec.rs` | `Mutex<bool>`, `Condvar` | `block_on`, `park`, `unpark` | no wake-up is lost, no busy loop |
| Labels | `crates/pbt/src/classify.rs` | thread-local buffer, counts | `record_label`, `reset_current`, `take_current`, `merge_case` | each case is counted once |
| Assertions, context | `crates/pbt/src/assert.rs` | thread-local context stack, panic payloads | macros, `with_context` | the stack is popped on unwinding, payloads classify the outcome |
| Strategy runner | `crates/pbt/src/strategy_runner.rs` | as the runner | `forall_strategy*`, `run_strategy*` | it does what the property runner does |
| State-machine runner | `crates/pbt/src/state_machine.rs` | sequence, current shrink | `run_state_machine`, `simulate`, `shrink_sequence` | the reported sequence fails and is 1-minimal |
| Differential testing | `crates/pbt/src/differential.rs` | none | two functions compared through `run` | as the runner |
| Generators, shrinkers | `crates/core/src/{rng,arbitrary,collections}.rs` | rng word | `arbitrary`, `shrink` | candidates stay in the domain, are smaller, and lead to the smallest failing value |
| Strategies | `crates/core/src/strategy*.rs` | none | combinators | as the generators, for what the strategy describes |
| Fuzzer | `crates/fuzz/src/{lib,typed}.rs` | corpus, crash files, panic hook | `fuzz`, `mutate`, `minimize`, `save_input`, `save_crash` | inputs keep their bound, the minimised input crashes, a described crash can be replayed |
| Benchmarks | `crates/bench/src/{lib,stats}.rs` | samples | `measure_with`, `calibrate`, filters, statistics | calibration ends and suffices, the statistics describe the samples |
| Macros | `crates/pbt-derive/src/lib.rs` | none at run time | token parsers, code generation | a field gets its type and its strategy, the derived shrinker ends |
| Scripts | `scripts` | none | - | - |

How they interact. `run_with` reads the seed file, installs a hook guard, calls
`run_loop`, drops the guard and appends the failing seed. `run_loop` calls the
generator *outside* and the property *inside* `catch_unwind`; panics carry the
outcome (discard, skip, assertion failure). `run_strategy_loop` repeats the loop
with a strategy instead of `Arbitrary`. A property body may start a run of its
own (nested guards, the same thread-local buffers), `cargo test` runs tests on
several threads of one process and test binaries in several processes.
`#[pbt] async fn` bodies go through `block_on`; `#[derive(Arbitrary)]` and
`#[pbt]` generate calls of the generators above. The fuzzer sets the same
process-wide hook, without the reference count.

What is hard. Two steps of the hook (count, then hook) that other runs fall
between; dropping a guard during unwinding; a file that is read, truncated and
written in three steps; the poll/park/wake race; a replay that generates
something else than what failed; shrinkers that cycle; loops that edit the
sequence they walk over; a kill between two files; a clock that measures
nothing; and the boundaries of many limits at once. `PROJECT.json` lists each
at its line, under `hazards`.

## 2. The modules

| Module | What it is |
|---|---|
| `HookPromise` | abstract: guards acquired and released atomically, silent in between |
| `PanicHook`, `MCPanicHook`, `PanicHookProofs` | the silencer, one action per atomic operation |
| `Runner`, `MCRunner`, `RunnerProofs` | `run_loop` and `shrink_failure_with_mode`, one action per execution of the property |
| `SeedLog` | abstract: a bounded log of failing seeds |
| `SeedFile` | what `read_seeds` and `append_seed` compute, as operators |
| `Regression`, `MCRegression` | concurrent and killed runs that share the file |
| `RunWith`, `MCRunWith` | `Runner` and `SeedFile` composed: the runs of one test, one after the other |
| `SeedFileProofs` | the seed file: its operators, `Regression` and `RunWith`, which rest on the same lemmas |
| `StateMachineRunner`, `MCStateMachineRunner`, `StateMachineProofs` | `run_sm_loop` and `shrink_sequence`, one action per simulation |
| `ParkToken` | abstract: `unpark` leaves a token, `park` takes it |
| `BlockOn`, `MCBlockOn`, `BlockOnProofs` | executor and wakers, one action per lock, flag, notify |
| `Arbitrary`, `Collections` | every `Arbitrary` implementation: what it generates, what it shrinks to |
| `Strategies` | every strategy and combinator: generates, shrinks to, panics |
| `Derived`, `DeriveParser` | what the macros generate; how they read the tokens of an item |
| `StrategyRunner`, `MCStrategyRunner`, `StrategyRunnerProofs` | `run_strategy_loop` over those strategies, an implementation of `Runner` |
| `Fuzz`, `MCFuzz`, `FuzzProofs` | `run_fuzz`, the mutations, `minimize`, corpus and crash files over kills and restarts |
| `Bench`, `MCBench`, `BenchProofs` | warm-up, calibration, sampling, filters, statistics, under a coarse clock |

`MCStrategyRunner` stands on `StrategyRunner` and `DeriveParser`, the latter on
`Derived`, `Strategies`, `Collections` and `Arbitrary` in this order.
A definition marked `mutant` is not part of a specification: it is a plausible
slip in the definition after it, and `PROJECT.json` names the property that
catches it.

### PanicHook

An actor is one run holding one guard. `pc` follows it through `install`
(`idle`, `take`, `save`, `silence`, `live`) and `Drop` (`lock`, `restore`);
`hand` is the hook it holds between `take_hook` and the slot, or between the
slot and `set_hook`. `hook` distinguishes the hook found at the start
("original"), the runner's ("silent") and the one `take_hook` leaves behind
("default"). Nested runs are on the thread of their `Outer` run and need it
live. `FetchSub(r, panics)` drops the guard by return or by a panic that no
`catch_unwind` of the run stops; in the second case `set_hook` itself panics
(std's rule) and the process aborts (`RestoreWhileUnwinding`). A panic that
drops a guard which is not the last is an ordinary return as far as the hook
goes. The `if let Ok` around `SAVED.lock()` never sees a poisoned mutex, as
the only panic under it ends the process. Every run may start again.

The variable `overlap`, chosen initially, is TRUE for the code. FALSE adds the
restriction that no two runs are between `fetch_add`/`fetch_sub` and the end of
`install`/`drop` at the same time; it is not what the code guarantees, and says
where the documented promise ends: `ImplementsPromise` refines `HookPromise`
for FALSE, the invariants hold for both. `LeftAtRest` says what overlap can do at worst:
the original hook may be gone, but then silence is what remains, never a stale hook
in `SAVED` nor std's default one.

### Runner

The thread is alone with its state, so a step is one execution of the
property with the counting that follows. A value is a member of `Values`;
`shrink` (Arbitrary::shrink), `verdict` (the set of outcomes the property may
have: more than one if it is flaky), `cfg` and the seeds to replay are
parameters chosen initially and constant afterwards. The generator may
return any value, so everything checked here holds for every generator. Names
follow the code (`passed`, `discarded`, `skipped`, `attempts`, `current`,
`best`); `phase` and `tried` stand for the program counter, `failure` for the
variables in scope at the call of the shrinking function. Failure messages and
the `Debug` form are abstracted to what is compared, its length.

### SeedFile, Regression, RunWith

A file is the sequence of seeds on its lines. `fs::write` is two steps, open
with truncation and one write of the whole contents from offset 0; content that
is left behind a shorter write may start with a torn line (`Torn`). That the
write itself is one step (about a kilobyte), and that seeds have nearly the
same number of digits, are the assumptions made of the file system and the data.
`Interrupt` is a kill at any point, or a failing file operation, whose error
`run_with` drops. `settled` is a history variable: the contents when no write
was under way. `overlap` is a parameter as in `PanicHook`: whether two appends
may be under way at once. `RunWith` gives the generator back its determinism:
the value is a function of seed, position and size (`Draw`), and one test is run
any number of times with its file. It uses the actions of `Runner` unchanged.

### StateMachineRunner

As in `Runner` a step is one execution, here of a whole sequence (`Simulate`,
a fold over the operations: the first failure decides, the initial state is
not tested). A machine under test is a parameter, a deterministic one: a
flaky machine would make "this sequence fails" a statement about one execution.
All that can go wrong in it (an invariant that says no, a panic, also that of a
discard, line 238) is the one value `Err`, as for the loop. `next` is the
source's `i` counted from 1, `removed` its `shrunk`.

### BlockOn

`exec` follows the executor through poll, lock, test, sleep; `waker[s]` follows a
source through `unpark`. The future is external and minimal: it looks at its
sources one after the other, so a source may finish after it was looked at,
and it keeps the `Future` contract (a pending poll has left the waker). `Inline`
sources call the waker from inside the poll. After `block_on` has returned
wakers may still arrive.

### Arbitrary, Collections, Strategies, Derived, DeriveParser

These are pure. An implementation of `Arbitrary` is a record: `of`, the values of
the type, `gen[s]`, the values that generation at size s can return, and
`shrink[v]`, the candidates in their order; a strategy also has `panics[s]`,
whether generating can panic. The xorshift generator is replaced by the free
choice within each range it is used for (`gen_range`). Widths, alphabets and
lengths are constants: integers of any width share `Unsigned(b)` and
`Signed(b)`, floats are multiples of 1/`Unit` with an infinity and a NaN, characters
are codes with a gap where the surrogates are. Sets and maps are sets, with the
order `iter()` yields where the candidates depend on it; for hash collections
that order is one of the possible ones. The domain texts
(e-mail, URL, UUID, IPv4, date) are lists of parts, a range of numbers stands
for its two ends. `Derived` gives the code that `#[derive(Arbitrary)]`
generates its meaning; `DeriveParser` reads an item, given as tokens and token
groups, the way the parsers do, and puts the two together. A loop over the
token iterator is defined by the positions at which it stops. What the macros refuse, an
attribute with a missing value among it, is `Bad` where it is parsed and as a strategy `CompileError`, whose
only value belongs to no other type.

### StrategyRunner

The copy of the loop in `strategy_runner.rs`, one action per case or candidate,
for a subject: one of the strategies above, and what is claimed of it. A value
stands by its number in a list of the strategy's values (TLC compares values of
one kind only; `Numbered` in `MCStrategyRunner` translates). The property under
test is monotone: it fails for values that weigh `floor` or more. `new_value` runs outside
`catch_unwind`: `GeneratorPanics` leaves the run without an outcome.
`ImplementsRunner` is the refinement to `R!Spec`, `Runner` without seed file and
with greedy shrinking.

### Fuzz

A step is one execution of the target, or one write to a file. `cfg`, `target`
and the directories' contents outlive the process; `Restart` is a kill at any
step or an ordinary end, followed by a new process on the same directories.
A failed or killed write leaves the file as it was or any proper prefix of the contents
(`Torn`). `MutatedInputs` is everything one to four mutations make of
a corpus entry. The target is a function of the input. An input's
file name is a hash of it; that no two inputs of one directory collide is assumed.
`minimize`'s loops are `TryRemove`, `NextRound`, `TryZero`.

### Bench

Time is in ticks; `Instant::now` rounds down to `Quantum`, so a batch may measure
0, and the same batch differently at different moments. Any batch may be
preempted. One action is a call of the closure during warm-up, a calibration
round, the allocation of the samples, a sample, or the summary. `Vec::with_capacity` panics
for more than `MaxCapacity` elements (`Allocate`). A sample is the time of its batch: all are divided by
the same number of iterations later, which changes no comparison. Quartiles
are kept in quarters of a tick, the MAD in sixteenths, so that interpolation
is exact and the comparisons of the filters are those of the code up to f64 rounding.
The truncation of `max_samples` to 32 bits is in (`U32`). The stable `sort_by` is the
sample at each rank (`Sorted`), the filter's `collect` and `sum` are folds. The
`BenchResult` is what the samples and the configuration determine when sampling is over.

## 3. The runs

| Run | Instance | Shows |
|---|---|---|
| `PanicHook_guards` | 5 top-level runs and 2 nested, one in the other; overlap on and off | one installer at a time; the hook settles to silent while a guard lives; at rest the slot is empty and the hook the original or silent; without overlap it implements `HookPromise` |
| `PanicHook_lost`, `PanicHook_abort` | 2 and 1 runs | counterexamples, section 5 |
| `Runner_cases` | one value with every outcome: cases 0-3, max_size 0/1/2/5, discards 0-2, skips 0-1, 0-2 seeds, a label; and 4 values, 3 shrinkers (one cyclic, one with a self-loop), all 256 properties, budgets 1/3/6, both modes | verdicts, labels, size hints; counterexamples fail, local minimality, budget, the shortest candidate; termination |
| `BlockOn_park` | 3 sources, one inline, one with two steps; ready at 2 | no lost wake-up, no poll without a wake-up, the executor returns |
| `Regression_log` | 2 runs, 4 seeds, cap 2, hand-edited files, kills at any step; overlap on and off | the cap holds in every case, without overlap the file is a `SeedLog` |
| `RunWith_again` | 3 seeds, cap 2, 3 values, 27 properties, both modes | replay decides, the seed is saved, a reported seed reproduces |
| `RunWith_rerun` | the same | counterexample, section 5 |
| `StateMachine_shrink` | 91 machines with three states and three operations, sequences of 1-3 operations, budgets 0, 2, 20 | both reported sequences fail, 1-minimality (with a second pass that finds more), quadratic effort |
| `StrategyRunner_values` | 55 subjects: every generator, strategy and derived shape, integers of 1-4 bits, collections of up to 2 elements, every weight as a threshold, sizes 1-3 | values and candidates stay in the documented domain and adopted candidates are strictly smaller, but for the exceptions named below; shrinking ends at the threshold exactly; the loop is `Runner`'s |
| `Fuzz_restarts` | bytes of one bit, inputs up to 3, 2 iterations in each of 2 processes, corpus cap 3, 2 targets, every option | the six properties of `Fuzz`, over kills and torn writes |
| `Bench_samples` | clock of 4 ticks, calls of 1 and 3, preemptions of 5 and 90 ticks, 2-5 samples (5 at least for the MAD), three filters, max_samples 0, 1, a truncated one and one beyond the capacity | a report with enough samples, or one of four configurations that panic; long enough batches; filters keep the middle; statistics agree; the measurement ends |

Why the bounds suffice. A third run can install between two others' drop steps;
the limits 0 and 1 and every way to exceed one of two limits occur; the ramp
is exercised below, at and above one size per case; a round of shrinking is cut
short by the budget at every position; the file is one below, at and beyond its
cap; a wake falls between any two steps of poll and park. Integers of 3 and 4
bits have both signs, both ends, and halving sequences of more than two
steps. An initial corpus entry longer than `max_input_len` exists, a crash is found, minimised
and saved in the second process next to what the first left behind, and bytes
become removable only after later ones are gone (the second target), so that a
second round of `minimize` matters. The batch of 6 calls is reached by the last
factor and by the cap; 90 ticks outweigh all samples, 5 do not.
No state constraint is used, the specifications are finite as they stand (a
finished run starts again rather than being counted; `MaxRuns` bounds the
processes of `Fuzz`). Deadlock is checked in every run: the ends of a
run, of `block_on` and of the process are explicit stuttering steps.

**What a subject of `StrategyRunner_values` claims.** Its domain is what docs or
types say it generates, and its weight the order in which values are to
shrink. The property under test fails from any weight of the domain (`floors`), so that
nothing the code does is kept from happening by the choice of a threshold. Where
the code breaks its documentation the subject names the exceptions, in full:

* `strays`, values outside of the domain: `hi` of a range of floats; and under `one_of`
  what a foreign branch makes of a value (`apart`: a range of characters halves a
  constant toward its own bounds; `lengths`: a vector is cut below the length its branch has).
* `rises`, pairs of a value and a candidate that is not smaller: a float and `round(x)`,
  an empty `Range` and itself, the numbers below a range of `one_of` and its target (`gap`).

Everything else violates `InDomain` or `StrictlySmaller`; without the exceptions each of
the two is violated. `exact` are the thresholds at which shrinking is claimed to end at the smallest
failing value. They are all but those that `Inexact` takes away: characters (the surrogates are a gap in front of
the larger ones) and strings of them, filters (a dropped candidate is not replaced),
floats, and for signed integers the thresholds between |v| and -|v|.

**Fairness.** `Runner` and `Bench`: weak fairness of the loop; it is a loop on a
running thread, and the property and the closure are assumed to return. `BlockOn`:
weak fairness of the executor and of a waker that holds the mutex, strong
fairness of getting the mutex (a spurious wake-up storm may take it in between; a
blocked thread is woken at each unlock). No fairness is given to the sources'
progress, so `ReadyReturns` says that block_on returns once the future *is*
ready. The safety runs assume none.

## 4. The proofs

All for every value of the constants that satisfies the named assumptions; further
hypotheses are in the statement of the theorem (`ASSUME ... PROVE`) and
discussed below. Each inductive invariant was model-checked on the run of its
module before it was proved, except `WEnv`, whose `Reaches` quantifies over all sets of
positions; what it is for, `EnvSeedReproduces`, was.

* `PanicHookProofs` (finite set of runs). The core of the inductive invariant is
  that `refcount` equals the number of counted runs, so at most one run is past
  `fetch_add` with 0; around it, how `hook`, `saved` and `hand` follow from where
  the installer and the pending drops are: while a guard is settled, either the
  hook is silent with the previous one in the slot, or the installation in
  progress will make it so, and a late drop can only take what an installer
  has already stored. The counting needs the library's theorems on finite sets.
  `PromiseKept` is the refinement of `HookPromise`: `InTurn` says where the
  original hook is at every point of install and drop as long as no two
  overlap, and each step is an `Acquire` (`take_hook` by the first guard,
  `fetch_add` by the others), a `Release` or a stutter.
* `RunnerProofs`. `IInv` adds to the checked invariants that the limits are
  exceeded by one step at most and only while cases are missing
  (`LimitsWatched`), what is known of a failing case (`FailureKnown`), what a
  round of shrinking has ruled out so far (`RoundTried`), and that the outcome is
  the value of the state at the return (`OutcomeOfState`). Without
  `RoundTried` local minimality is not inductive; without `LimitsWatched` the
  verdict is not. `SizesGrow` and the bound on the size hint need lemmas on integer
  division; `ShortestIsAdopted` an invariant about the best candidate so far.
* `SeedFileProofs`, the operators. What `ReadSeeds` (a fold) returns for every file: the same seeds
  without repetitions (`ReadSeedsFacts`), and itself for a file without repetitions
  (`DistinctFileRead`). The induction principle is stated for a set,
  `0 \in S` and `n \in S => n + 1 \in S`, and derived from the well-foundedness of
  the order of the natural numbers, as the library's has an operator parameter.
* `SeedFileProofs`, the shared file (`Regression`). `IInv` for the capacity under any interleaving: a file that
  somebody is writing has been truncated since it was last longer than the
  capacity, and what another run left behind is overwritten from the start. `RInv` for the
  refinement of `SeedLog`: without overlap one run is between its second read and
  the end of its write, so what it writes is still the log with its seed added.
* `SeedFileProofs`, the runs of one test (`RunWith`). Three hypotheses.
  `Deterministic`: the property gives one outcome per value, without which no
  seed reproduces anything. `DrawsValues`: a generator returns a value of its
  type. For `ReportedSeedsFail` also `OneLimit`: the limits are the same in all
  runs, seed and shrink mode may differ (a run with fewer cases, or another
  `max_size`, need not come to the failing case). `WReplay` says which seeds
  were replayed without a failure. For `ReportedSeedsFail`, a position of the
  main loop is the record of its three counters; `Reaches` is the least
  relation closed under the loop's cases. `WEnv`: every seed ever reported leads from zero to a
  position that fails (`MainFails`), also if it was reported from a replay, as the
  file has reported seeds only; and a loop under way has come along the way its
  seed prescribes, with the failing position still ahead.
* `StrategyRunnerProofs`. `RunsLikeForall` needs no hypothesis: the mapping is the one
  TLC checks. The other three go from one step to a whole run: `WellBehaved` states
  what a strategy must do with one value (`StaysInDomain`, `Descends`,
  `LeadsDown`), the theorems that this is enough for runs. TLC evaluates
  `WellBehaved` to TRUE for the 55 subjects of `MCStrategyRunner`, with their exceptions.
  `Descends` is close to `StrictlySmaller`, which is why the step from one to the other is a lemma
  only, and the theorem about it is `IntegersShrinkDown`, below. An earlier
  `Descends`, that every failing candidate is smaller than its value, is
  false for floats (`round(x)`); only the first one that fails has to be, as no other is adopted.
* `StrategyRunnerProofs`, the strategies. For integers of every width, ranges,
  `one_of` (with and without weights) and vectors `WellBehaved` is no hypothesis but
  a theorem. `IntegersShrinkDown` is what follows for runs of integers, ranges and vectors of ranges,
  where neither strays nor rises are admitted, `UnitsReachMinimum` for all that shrink by units. The induction hypothesis
  that combinators hand on is stronger than `WellBehaved`: a strategy shrinks by units
  (`ShrinksByUnits`), that is, its candidates stay in the domain, weigh less, and one of
  them weighs one unit less than the value, unless nothing in the domain weighs less.
  For `one_of` one branch has to do so, the others need only stay in the domain and descend
  (`RangeWithin` says that a range does so with any number, also one that another branch
  drew). Signed integers do not shrink by units (-n comes before n - 1) and are proved
  apart (`SignedBehaves`); there the absolute value of the smallest number is the
  case that matters. The way down from the code: `HalvingsFacts` (what repeated halving yields,
  down to 1), `ApproachFacts`, the elements of a concatenation, a flattening and a filter,
  `ShiftedFacts` (1 << n), and sums along a vector from which one element
  is taken out or changed (`SizeRemove`, `SizeReplace`). Every recursive function used
  there is first proved to exist, by the induction principle above. A subject
  `ActsAs` a strategy when it agrees with it on its own domain; `SizesReached`
  says that the instance knows the size hints that its configurations reach.
* `StateMachineProofs`. The invariant carries what a pass has ruled out as long as
  it removed nothing (`PassTried`), an embedding of the current sequence into the
  original one, and a potential (`EffortLeft`): the steps so far, the rest of
  the pass and the passes that may follow fit in n(n+1)/2. A removal leaves the
  potential as it is, which is why the bound holds whatever the machine
  does. The proofs treat `Violates` as any predicate of a sequence.
* `BlockOnProofs`. `Covered`: each source looked at was finished, still
  holds the waker, is in a wake call, or the flag is set. With `PollPaid` (a
  parked executor has looked at all of them and has not seen enough) it gives
  `ReadyIsNoticed`, and the refinement of `ParkToken` by a case split over the steps.
* `FuzzProofs`. For the files: whatever is being minimized panics, a `.bin` is
  written only for a message that has none, so a torn one is never of a message
  whose `.txt` exists, and at `save_txt` the `.bin` holds the current input. For the report
  (`ReportInv`): while a crash is minimized exactly its message is missing from
  the failures; with `dedup_by_message` the failures are then counted by their
  messages, with the library's theorems on finite sets. For the inputs: every
  mutation, splice and dictionary entry respects the length (`LengthsBounded`), and a minimized
  input embeds into the crashing one at every point of both passes
  (`CrashIsKept`); what a removal round has ruled out, as long as it
  removed nothing, is what `RemovalIsMinimal` rests on.
* `BenchProofs`. Two readings of a clock of resolution `Quantum` are off by less than
  one resolution from the time between them (`ClockError`). `BatchTimed` keeps what
  calibration has found out, that the iterations it chose cost the target up to one
  resolution; the sampled batches lose at most another. Without it `BatchLongEnough`
  is not inductive. `DivisorChecked`, `SamplesCapped` and the capacity that `Allocate` has checked
  carry the number of samples: which configurations panic is exactly `EnoughSamples`' list of four.
* `BenchProofs`, the statistics, for every number of samples. `Rank` is injective, so
  sorting is a bijection of positions (`SortedRearranges`) and the sorted
  samples have as many members in any set (`SortedFacts`). Filter and sum are followed
  from element to element (`WithinByElement`, `TotalByElement`). An interpolated percentile
  lies between its neighbours and grows with its rank (`InterpolatedMonotone`). `HalfInFences`
  and `HalfNear` count the sorted positions that a filter keeps, by the remainder of
  n - 1 modulo 4; so the fallback to all samples (stats.rs:180-183) is never taken. That the median is within
  one standard deviation of the mean is `DeviationsBound`: with t = median - mean,
  the squares of d + t sum up to those of d plus n t^2, and half of them are 4 t^2 or more.

Type correctness is a theorem of `PanicHook`, `Runner`, `BlockOn` and
`StateMachineRunner`; that the size hint stays within its bounds (`SizesBounded`)
and that overlapping installs and drops leave silence at worst (`RaceLeavesSilenceAtWorst`) are theorems, too.

Only model-checked: liveness (`Termination`, `ReadyReturns`, `Finishes`), which
the prover does not do; and the rest of the pure modules: that floats, characters,
strings, options, results, tuples, maps, sets, the other wrappers and what the macros derive are
`WellBehaved` is a question about finitely many subjects of small width. Tuples and
derived structs are built with folds over sets of values, of which the prover knows nothing;
characters and filtered strategies do not shrink by units, which is why they are
not claimed to reach the smallest value. The three `violation` runs refute what they check.

## 5. Where code and documentation differ

Each of the first three has a run whose counterexample is the story;
`PROJECT.json` quotes the line.

1. *The original hook can be lost* (`PanicHook_lost`). The last drop decrements,
   another run installs and saves the silent hook, the drop then restores
   what it finds.
2. *A generator's panic aborts the process* (`PanicHook_abort`). `set_hook` may not be
   called while panicking, and `Drop` calls it.
3. *Running again need not reproduce* (`RunWith_rerun`). Replay generates the
   first value of the stream at half the maximal size, not the one that failed.
   The printed seed given as `TESTRS_PBT_SEED` does (`EnvSeedReproduces`).

Seen while modelling, without a run of their own:

* `regression.rs:75-96`: of two appends that overlap, the later write drops the
  other's seed; `ImplementsLog` without its `overlap` disjunct is violated. A
  kill between truncation and write loses every seed (`SeedLog`'s `Wipe`).
* `panic_hook.rs:34`: a second guard is handed out before the first install has
  silenced the hook.
* `arbitrary.rs:213`: between two whole numbers the candidate `round(x)` of a float
  may be larger than x; with a threshold in between, shrinking goes round in a
  circle until the budget ends it (`rises` of `f32`).
* `arbitrary.rs:57`, `strategy.rs`: an `IntRange` never tries |v| for a negative v;
  `FloatRange` stops halving at EPSILON.
* `strategy.rs:388`: the largest draws round to 1.0 and `FloatRange` returns `hi`,
  outside the half-open range it documents at 354 (`strays` of `f64_range`).
* `strategy.rs:448`, `494`: `OneOf` and `WeightedOneOf` hand a value to the shrinkers of branches
  that did not generate it, which make larger values of it and values no branch
  generates (`gap`, `apart`, `lengths`), although line 50 promises smaller ones.
* `collections.rs:210`: the first candidate of an empty `Range` is the range
  itself (`rises` of `range`). A filter loses exactness (`strategy.rs:652`).
* `pbt-derive/src/lib.rs:581`: the `>` of a `->` closes an angle bracket; `where F: Fn(u8)`
  ends the where clause at the parenthesis; the field of `struct S(pub (A, B))` is taken for
  a visibility; enum discriminants are refused.
* `fuzz/src/lib.rs:153-158` takes and sets the panic hook directly, although
  `crates/fuzz/README.md:129-130` says it is reference counted.
* `fuzz/src/lib.rs:285`: a minimised input may reproduce another message than
  the one it is filed under; an initial corpus entry longer than `max_input_len`
  stays as long; a torn `.bin` under a message's name is never repaired,
  as `save_crash` leaves existing files alone.
* `stats.rs:164-176`: the MAD filter may remove a sample between the quartiles (of
  0, 0, 1, 100, 100 both 100s, one of them the upper quartile); only samples within one MAD of the
  median are safe. `MiddleKept` first said otherwise and held on an instance too
  small; it was corrected when the proof failed.
* `bench/src/lib.rs:313`: `max_samples as u32` truncates, a multiple of 2^32 divides by
  zero; `max_samples = 0`, or `min_samples = 0` without time, panics
  at the `expect` (330); a `max_samples` that no `Vec` can hold, such as `usize::MAX` for no limit,
  panics at line 318 ("capacity overflow") or aborts when memory is short, before any sample; `max_samples` beats `min_samples`, although lines 55-56 promise
  the minimum.

## 6. Not modelled

* `assert.rs` and the thread-local label buffer of `classify.rs`: the context
  stack under nested runs and unwinding. `Runner` has what the payloads decide
  and what a case's labels add to the report.
* `differential.rs`: a few lines that compare two functions through `run`.
* Paths and their sanitising, environment parsing, `Debug` and report
  formatting, JSON, baselines, comparison tables: text.
* The xorshift generator's sequence: replaced by choice. f64 rounding: replaced
  by exact arithmetic. Hash collisions: assumed away.
* The fuzzer's handling of the panic hook; two fuzzers, or a fuzzer and runs, in one process.
  `fuzz_typed` is `fuzz` with a target that decodes its bytes first.
* Scripts and CI.

## 7. Plan

Next, most important first: the panic hook shared with the fuzzer's
unguarded one and with runs that leave it alone; `CaseLocals`, the thread-local
label buffer and context stack under nesting and unwinding; what `Approach` and `IntRange` return for every width.
