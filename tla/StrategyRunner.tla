--------------------------- MODULE StrategyRunner ---------------------------
(***************************************************************************)
(* The runner of crates/pbt/src/strategy_runner.rs: run_strategy_loop and  *)
(* shrink_with_strategy.  It repeats the loop of lib.rs for strategies, so *)
(* that it should do what Runner does without a regression file and with   *)
(* greedy shrinking, whatever Config::shrink_mode says.                    *)
(*                                                                         *)
(* The property under test fails exactly for the values that weigh floor   *)
(* or more, where a weight says how large a value is.                      *)
(***************************************************************************)
EXTENDS Integers, Sequences, FiniteSets

CONSTANTS
    Values,        \* values, of any strategy
    NoValue,
    Names,         \* the subjects considered, by name
    Subjects,      \* Subjects[n]: a strategy, and what is said of it
    Others,        \* outcomes of the values the property does not fail for
    Configs        \* the Configs considered

Outcomes == {"Pass", "Fail", "Discard", "Skip"}     \* CaseOutcome

\* A subject has a strategy (a record of "of", "gen", "shrink" and "panics"),
\* the domain it is documented to generate, the weight of values (how large
\* they are), the floors from which the property may fail, and those of them
\* for which shrinking ends at the smallest failing value.  Where the code is
\* known not to do what its documentation says, "strays" are the values it
\* yields outside of the domain and "rises" the pairs of a value and a
\* candidate for it that is not smaller.
ASSUME StrategyRunnerAssumption ==
    /\ NoValue \notin Values /\ Others \subseteq Outcomes \ {"Fail"}
    /\ Configs \subseteq [cases : Nat, seed : Nat, max_shrinks : Nat, max_size : Nat,
                          max_discards : Nat, max_skips : Nat,
                          shrink_mode : {"Greedy", "Exhaustive"}]
    /\ \A n \in Names :
         LET s == Subjects[n] IN
         /\ s.strategy.of \subseteq Values /\ s.domain \subseteq s.strategy.of
         /\ s.strategy.shrink \in [Values -> Seq(Values)]
         /\ s.strays \subseteq s.strategy.of /\ s.rises \subseteq Values \X Values
         /\ s.weight \in [Values -> Nat]
         /\ s.floors \subseteq Nat /\ s.exact \subseteq s.floors

VARIABLES
    name, subject, floor, other, cfg,  \* parameters of the run
    phase,         \* "start", "main", "outer", "inner", "done", "unwound"
    size,          \* the size hint last given to the strategy (0: none)
    passed, discarded, skipped,
    classes,       \* Classifications, without labels
    original,      \* the failing value
    current, attempts, tried,          \* shrink_with_strategy's locals
    outcome

params == <<name, subject, floor, other, cfg>>
counts == <<size, passed, discarded, skipped, classes>>
locals == <<current, attempts, tried>>
vars   == <<params, phase, counts, original, locals, outcome>>

Running == [status |-> "Running"]
Classes(n) == [total |-> n, count |-> [l \in {} |-> 0]]
strategy == subject.strategy

Smaller(a, b) == IF a < b THEN a ELSE b
Larger(a, b)  == IF a > b THEN a ELSE b

run_prop(v) == IF subject.weight[v] >= floor THEN "Fail" ELSE other

target_cases == Larger(cfg.cases, 1)
SizeHint     == 1 + Smaller((passed * cfg.max_size) \div target_cases, cfg.max_size)

Init ==
    /\ name \in Names /\ subject = Subjects[name]
    /\ floor \in subject.floors /\ other \in Others /\ cfg \in Configs
    /\ phase = "start"
    /\ passed = 0 /\ discarded = 0 /\ skipped = 0
    /\ size = 0 /\ classes = Classes(0)
    /\ original = NoValue /\ current = NoValue /\ attempts = 0 /\ tried = 0
    /\ outcome = Running

\* The generator is seeded from the Config: no regression file is read.
Seed ==
    /\ phase = "start" /\ phase' = "main"
    /\ UNCHANGED <<params, counts, original, locals, outcome>>

Return(o) ==
    /\ outcome' = o /\ phase' = "done"
    /\ UNCHANGED <<params, counts, original, locals>>

InMain == phase = "main" /\ passed < target_cases

WithinLimits == discarded <= cfg.max_discards /\ skipped <= cfg.max_skips

GiveUp ==
    /\ InMain /\ ~WithinLimits
    /\ Return([status |-> "Aborted", cases |-> passed, discarded |-> discarded,
               skipped |-> skipped, seed |-> cfg.seed, classes |-> classes,
               reason |-> IF discarded > cfg.max_discards THEN "discards" ELSE "skips"])

\* new_value() panics: nothing catches it, the run has no outcome.
GeneratorPanics ==
    /\ InMain /\ WithinLimits
    /\ strategy.panics[SizeHint]
    /\ phase' = "unwound"
    /\ UNCHANGED <<params, counts, original, locals, outcome>>

\* One iteration: generate, execute, count; a failure is shrunk.
Case(v) ==
    /\ InMain /\ WithinLimits
    /\ v \in strategy.gen[SizeHint]
    /\ size' = SizeHint
    /\ LET o == run_prop(v) IN
       /\ passed' = passed + (IF o = "Pass" THEN 1 ELSE 0)
       /\ discarded' = discarded + (IF o = "Discard" THEN 1 ELSE 0)
       /\ skipped' = skipped + (IF o = "Skip" THEN 1 ELSE 0)
       /\ classes' = Classes(classes.total + (IF o \in {"Pass", "Fail"} THEN 1 ELSE 0))
       /\ IF o = "Fail"
          THEN original' = v /\ current' = v /\ phase' = "outer"
          ELSE UNCHANGED <<original, current, phase>>
    /\ UNCHANGED <<params, attempts, tried, outcome>>

AllPassed ==
    /\ phase = "main" /\ passed >= target_cases
    /\ Return([status |-> "Passed", cases |-> passed, discarded |-> discarded,
               skipped |-> skipped, classes |-> classes])

-----------------------------------------------------------------------------
(* shrink_with_strategy; when it returns, so does the loop.                *)

candidates == strategy.shrink[current]
BudgetLeft == attempts < cfg.max_shrinks
Exhausted  == tried = Len(candidates)

ReturnFailed ==
    Return([status |-> "Failed", original |-> original, shrunk |-> current,
            seed |-> cfg.seed, attempt |-> passed + 1, discarded |-> discarded,
            skipped |-> skipped, classes |-> classes])

NoCandidates == phase = "outer" /\ candidates = <<>> /\ ReturnFailed

BeginRound ==
    /\ phase = "outer" /\ candidates # <<>>
    /\ tried' = 0 /\ phase' = "inner"
    /\ UNCHANGED <<params, counts, original, current, attempts, outcome>>

TryAdoptsAny ==                 \* mutant: a discarded candidate is adopted
    /\ phase = "inner" /\ ~Exhausted /\ BudgetLeft
    /\ attempts' = attempts + 1 /\ tried' = tried + 1
    /\ IF run_prop(candidates[tried + 1]) # "Pass"
       THEN current' = candidates[tried + 1] /\ phase' = "outer"
       ELSE UNCHANGED <<current, phase>>
    /\ UNCHANGED <<params, counts, original, outcome>>

\* The first candidate that fails becomes the current value.
Try ==
    /\ phase = "inner" /\ ~Exhausted /\ BudgetLeft
    /\ attempts' = attempts + 1 /\ tried' = tried + 1
    /\ IF run_prop(candidates[tried + 1]) = "Fail"
       THEN current' = candidates[tried + 1] /\ phase' = "outer"
       ELSE UNCHANGED <<current, phase>>
    /\ UNCHANGED <<params, counts, original, outcome>>

StopShrinking == phase = "inner" /\ (Exhausted \/ ~BudgetLeft) /\ ReturnFailed

Returned == phase \in {"done", "unwound"} /\ UNCHANGED vars

Next == \/ Seed \/ GiveUp \/ GeneratorPanics
        \/ \E v \in strategy.of : Case(v)
        \/ AllPassed
        \/ NoCandidates \/ BeginRound \/ Try \/ StopShrinking
        \/ Returned

Spec == Init /\ [][Next]_vars
-----------------------------------------------------------------------------
(* Properties.                                                             *)

\* What a run may hold: the documented domain, and the strays of a subject.
Yields(s) == s.domain \cup s.strays

\* Generating and shrinking never leave what the strategy is documented to
\* generate: the counterexample a user sees is a value the test could have been
\* given, after any number of shrinking steps.  Only two strategies stray:
\* f64_range(lo..hi) and f32_range(lo..hi), documented as [lo, hi)
\* (core/src/strategy.rs:354), draw hi itself (388-390); and one_of() and
\* weighted_one_of() let every branch shrink a value (448-454, 494-498), so that
\* a branch that did not generate it makes a candidate of its own out of it.
InDomain ==
    /\ original # NoValue => original \in Yields(subject)
    /\ current # NoValue => current \in Yields(subject)

\* Every adopted candidate is strictly smaller than the value it comes from
\* (the candidates are documented as strictly smaller,
\* core/src/arbitrary.rs:26 and core/src/strategy.rs:50): shrinking cannot go
\* round in a circle.  It can where the code itself breaks that promise: a float
\* is offered round(x) (arbitrary.rs:213), an empty Range itself
\* (collections.rs:210), and one_of() and weighted_one_of() offer what a branch
\* that cannot have generated the value makes of it (strategy.rs:448, 494).
StrictlySmaller ==
    [][phase = "inner" /\ phase' = "outer" =>
        \/ subject.weight[current'] < subject.weight[current]
        \/ <<current, current'>> \in subject.rises]_vars

\* A shrink that ended with budget left ended at the smallest failing value
\* of the whole domain, not only at a local minimum: from any failing value,
\* the candidates lead to the boundary of a monotone property.
ExactMinimum ==
    (floor \in subject.exact /\ outcome.status = "Failed" /\ BudgetLeft) =>
        \A v \in subject.domain :
            subject.weight[v] >= floor => subject.weight[outcome.shrunk] <= subject.weight[v]

-----------------------------------------------------------------------------
(* The loop of lib.rs, of which this is a copy.  A run that unwinds stays  *)
(* in the main loop.                                                       *)

RunnerConfig == [cfg EXCEPT !.shrink_mode = "Greedy"]

RunnerVerdict == [v \in Values |-> {run_prop(v)}]

RunnerPhase ==
    CASE phase = "start" -> "replay"
      [] phase \in {"main", "unwound"} -> "main"
      [] phase = "outer" -> "shrink"
      [] phase = "inner" -> "round"
      [] phase = "done" -> "done"

RunnerFailure ==
    [original |-> original, kept |-> original # NoValue,
     seed |-> IF original = NoValue THEN 0 ELSE cfg.seed,
     attempt |-> IF original = NoValue THEN 0 ELSE passed + 1]

R == INSTANCE Runner WITH
        Labels <- {}, Regressions <- {<<>>},
        Shrinkers <- [Values -> Seq(Values)], DebugLen <- [v \in Values |-> 0],
        Verdicts <- [Values -> {{o} : o \in Outcomes}],
        Configs <- {[c EXCEPT !.shrink_mode = "Greedy"] : c \in Configs},
        cfg <- RunnerConfig, shrink <- strategy.shrink, verdict <- RunnerVerdict,
        regressions <- <<>>, phase <- RunnerPhase, replayed <- 0,
        failure <- RunnerFailure, best <- NoValue

\* A run over a strategy is a run of forall_with without regression seeds and
\* with greedy shrinking: the copied loop has not drifted from the original.
ImplementsRunner == R!Spec
=============================================================================
