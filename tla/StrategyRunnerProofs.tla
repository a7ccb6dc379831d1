------------------------ MODULE StrategyRunnerProofs ------------------------
(***************************************************************************)
(* Theorems about StrategyRunner: the copied loop implements that of       *)
(* Runner, for every strategy, property and configuration; and where a     *)
(* strategy keeps what its documentation promises of one value and of one  *)
(* list of candidates, a whole run ends with the smallest failing value.   *)
(*                                                                         *)
(* The second half proves the promises for integers of every width, ranges *)
(* of integers, one of several strategies and vectors, from what the       *)
(* operators of Arbitrary and Strategies compute.                          *)
(***************************************************************************)
EXTENDS StrategyRunner, Strategies, FiniteSetTheorems, WellFoundedInduction, TLAPS

\* Until a value fails nothing is known of it; from then on the values of
\* shrinking are values, and a round stays within its candidates.
IInv ==
    /\ name \in Names /\ subject = Subjects[name] /\ floor \in subject.floors
    /\ other \in Others /\ cfg \in Configs
    /\ phase \in {"start", "main", "outer", "inner", "done", "unwound"}
    /\ phase \in {"start", "main", "unwound"} =>
         original = NoValue /\ current = NoValue /\ attempts = 0 /\ tried = 0
    /\ phase \in {"outer", "inner"} => original \in Values /\ current \in Values
    /\ phase = "inner" => tried \in 0 .. Len(candidates)
    /\ passed \in Nat /\ classes.total \in Nat /\ classes = Classes(classes.total)

\* The types of the parameters, which no step changes.
LEMMA ParamTypes ==
  ASSUME IInv
  PROVE  /\ NoValue \notin Values
         /\ strategy.of \subseteq Values /\ strategy.shrink \in [Values -> Seq(Values)]
         /\ \A v \in Values : run_prop(v) \in Outcomes /\ (run_prop(v) = "Fail" \/ run_prop(v) = other)
  BY StrategyRunnerAssumption DEF IInv, strategy, run_prop, Outcomes

\* A candidate of a round is a value.
LEMMA CandidateIsValue ==
  ASSUME IInv, phase = "inner", ~Exhausted
  PROVE  /\ candidates[tried + 1] \in Values /\ tried + 1 \in 0 .. Len(candidates)
         /\ Len(candidates) \in Nat
  <1>1. candidates \in Seq(Values)
    BY ParamTypes DEF IInv, candidates
  <1>2. Len(candidates) \in Nat /\ tried + 1 \in 1 .. Len(candidates)
    BY <1>1 DEF IInv, Exhausted
  <1> HIDE DEF candidates
  <1> QED BY <1>1, <1>2

LEMMA InitIInv == Init => IInv
  BY DEF Init, IInv, Classes

LEMMA NextIInv == IInv /\ [Next]_vars => IInv'
  <1> SUFFICES ASSUME IInv, [Next]_vars PROVE IInv'
    OBVIOUS
  <1> USE DEF params, counts, locals
  <1>1. CASE UNCHANGED vars
    BY <1>1 DEF IInv, vars, candidates, strategy
  <1>2. CASE Seed \/ GiveUp \/ GeneratorPanics \/ AllPassed
    BY <1>2 DEF IInv, Seed, GiveUp, GeneratorPanics, AllPassed, Return, InMain
  <1>3. ASSUME NEW v \in strategy.of, Case(v) PROVE IInv'
    <2>1. v \in Values
      BY ParamTypes
    <2>2. classes'.total \in Nat /\ classes' = Classes(classes'.total)
      BY <1>3 DEF IInv, Case, Classes
    <2>3. passed' \in Nat
      BY <1>3 DEF IInv, Case
    <2> QED BY <1>3, <2>1, <2>2, <2>3 DEF IInv, Case, InMain
  <1>4. CASE NoCandidates \/ StopShrinking
    BY <1>4 DEF IInv, NoCandidates, StopShrinking, ReturnFailed, Return
  <1>5. CASE BeginRound
    <2>1. candidates \in Seq(Values) /\ phase = "outer" /\ candidates' = candidates
      BY <1>5, ParamTypes DEF IInv, BeginRound, candidates, strategy
    <2>2. tried' \in 0 .. Len(candidates')
      <3>1. Len(candidates) \in Nat
        BY <2>1
      <3> QED BY <1>5, <2>1, <3>1 DEF BeginRound
    <2> QED BY <1>5, <2>1, <2>2 DEF IInv, BeginRound
  <1>6. CASE Try
    <2>1. phase = "inner" /\ candidates[tried + 1] \in Values /\ tried + 1 \in 0 .. Len(candidates)
      BY <1>6, CandidateIsValue DEF Try
    <2>2. phase' = "inner" => candidates' = candidates
      BY <1>6, <2>1 DEF Try, candidates, strategy
    <2> QED BY <1>6, <2>1, <2>2 DEF IInv, Try
  <1> QED BY <1>1, <1>2, <1>3, <1>4, <1>5, <1>6 DEF Next, Returned

\* What the inductive invariant says holds in every state of a run.
THEOREM StrategyRunnerInvariant == Spec => []IInv
  BY InitIInv, NextIInv, PTL DEF Spec

-----------------------------------------------------------------------------
(* The refinement.                                                         *)

\* What the loop of lib.rs sees of the Config.
LEMMA ConfigSeen ==
  ASSUME cfg \in Configs
  PROVE  /\ RunnerConfig.cases = cfg.cases /\ RunnerConfig.seed = cfg.seed
         /\ RunnerConfig.max_shrinks = cfg.max_shrinks /\ RunnerConfig.max_size = cfg.max_size
         /\ RunnerConfig.max_discards = cfg.max_discards
         /\ RunnerConfig.max_skips = cfg.max_skips /\ RunnerConfig.shrink_mode = "Greedy"
  BY StrategyRunnerAssumption DEF RunnerConfig

LEMMA InitRefines == Init => R!Init
  <1> SUFFICES ASSUME Init PROVE R!Init
    OBVIOUS
  <1>1. IInv
    BY InitIInv
  <1>2. RunnerConfig \in {[c EXCEPT !.shrink_mode = "Greedy"] : c \in Configs}
    BY DEF Init, RunnerConfig
  <1>3. RunnerVerdict \in [Values -> {{o} : o \in Outcomes}]
    BY <1>1, ParamTypes DEF RunnerVerdict
  <1>4. strategy.shrink \in [Values -> Seq(Values)]
    BY <1>1, ParamTypes
  <1>5. RunnerPhase = "replay"
    BY DEF Init, RunnerPhase
  <1>6. RunnerFailure = R!NoFailure
    BY DEF Init, RunnerFailure, R!NoFailure
  <1>7. classes = R!NoClasses
    BY DEF Init, Classes, R!NoClasses
  <1> QED BY <1>2, <1>3, <1>4, <1>5, <1>6, <1>7 DEF Init, R!Init, Running, R!Running

\* No step changes the parameters.
LEMMA ParamsKept ==
  ASSUME UNCHANGED params
  PROVE  UNCHANGED R!params
  BY DEF params, R!params, RunnerConfig, RunnerVerdict, run_prop, strategy

\* Leaving the loop is leaving the loop of lib.rs.
LEMMA ReturnRefines ==
  ASSUME IInv, NEW o, Return(o), phase # "start"
  PROVE  R!Return(o)
  <1>1. UNCHANGED R!params /\ phase' = "done" /\ outcome' = o
    BY ParamsKept DEF Return
  <1>2. RunnerPhase' = "done"
    BY <1>1 DEF RunnerPhase
  <1>3. UNCHANGED RunnerFailure
    BY DEF Return, params, counts, RunnerFailure
  <1> QED BY <1>1, <1>2, <1>3 DEF Return, R!Return, R!counts, R!locals, counts, locals

LEMMA LimitsSeen ==
  ASSUME IInv
  PROVE  /\ R!Target = target_cases /\ R!RampSize = SizeHint
         /\ (R!WithinLimits <=> WithinLimits)
         /\ (phase = "main" => (R!InMain <=> InMain))
         /\ (R!BudgetLeft <=> BudgetLeft)
  <1>1. R!Target = target_cases
    BY ConfigSeen DEF IInv, R!Target, target_cases, Larger, R!Larger
  <1>2. R!RampSize = SizeHint
    BY <1>1, ConfigSeen DEF IInv, R!RampSize, SizeHint, Smaller, R!Smaller
  <1>3. R!WithinLimits <=> WithinLimits
    BY ConfigSeen DEF IInv, R!WithinLimits, WithinLimits
  <1>4. phase = "main" => (R!InMain <=> InMain)
    BY <1>1 DEF R!InMain, InMain, RunnerPhase
  <1>5. R!BudgetLeft <=> BudgetLeft
    BY ConfigSeen DEF IInv, R!BudgetLeft, BudgetLeft
  <1> QED BY <1>1, <1>2, <1>3, <1>4, <1>5

\* A case of a strategy is a case of lib.rs that records no label.
LEMMA CaseRefines ==
  ASSUME IInv, NEW v \in strategy.of, Case(v)
  PROVE  R!Case(v, run_prop(v), {})
  <1> DEFINE o == run_prop(v)
  <1>1. v \in Values /\ o \in RunnerVerdict[v]
    BY ParamTypes DEF RunnerVerdict
  <1>2. phase = "main" /\ R!InMain /\ R!WithinLimits /\ size' = R!RampSize
    BY LimitsSeen DEF Case, InMain
  <1>3. original = NoValue /\ current = NoValue /\ attempts = 0 /\ tried = 0
    BY <1>2 DEF IInv
  <1>4. UNCHANGED R!params /\ outcome' = outcome
    BY ParamsKept DEF Case
  <1>5. R!Tally(o)
    BY DEF Case, R!Tally
  <1>6. classes' = R!ClassesAfter(o, {})
    <2>1. CASE o \in {"Pass", "Fail"}
      <3>1. classes' = Classes(classes.total + 1)
        BY <2>1 DEF Case
      <3> QED BY <2>1, <3>1 DEF R!ClassesAfter, R!MergeCase, Classes
    <2>2. CASE o \notin {"Pass", "Fail"}
      <3>1. classes' = classes
        BY <2>2 DEF IInv, Case, Classes
      <3> QED BY <2>2, <3>1 DEF R!ClassesAfter
    <2> QED BY <2>1, <2>2
  <1>7. CASE o = "Fail"
    <2>1. original' = v /\ current' = v /\ phase' = "outer" /\ passed' = passed
      BY <1>7 DEF Case, IInv
    <2>2. attempts' = 0 /\ tried' = 0 /\ cfg' = cfg
      BY <1>3 DEF Case, params
    <2>3. RunnerPhase' = "shrink"
      BY <2>1 DEF RunnerPhase
    <2>4. RunnerFailure' = [original |-> v, seed |-> RunnerConfig.seed,
                            attempt |-> passed + 1, kept |-> TRUE]
      BY <2>1, <2>2, <1>1, ParamTypes, ConfigSeen DEF RunnerFailure, IInv
    <2>5. R!StartShrink(v, RunnerConfig.seed, passed + 1, TRUE)
      BY <2>1, <2>2, <2>3, <2>4 DEF R!StartShrink
    <2> QED BY <1>7, <1>1, <1>2, <1>4, <1>5, <1>6, <2>5 DEF R!Case
  <1>8. CASE o # "Fail"
    <2>1. UNCHANGED <<original, current, phase, attempts, tried>>
      BY <1>8 DEF Case
    <2>2. UNCHANGED <<RunnerPhase, RunnerFailure>>
      BY <2>1, <1>3 DEF RunnerPhase, RunnerFailure
    <2> QED BY <1>8, <1>1, <1>2, <1>4, <1>5, <1>6, <2>1, <2>2 DEF R!Case, R!locals
  <1> QED BY <1>7, <1>8

\* The end of the main loop.
LEMMA GiveUpRefines ==
  ASSUME IInv, GiveUp
  PROVE  R!GiveUp
  <1>1. phase = "main" /\ R!InMain /\ ~R!WithinLimits
    BY LimitsSeen DEF GiveUp, InMain
  <1> DEFINE o == [status |-> "Aborted", cases |-> passed, discarded |-> discarded,
                   skipped |-> skipped, seed |-> cfg.seed, classes |-> classes,
                   reason |-> IF discarded > cfg.max_discards THEN "discards" ELSE "skips"]
  <1>2. o = R!AbortedOutcome
    BY ConfigSeen DEF IInv, R!AbortedOutcome
  <1>3. Return(o)
    BY DEF GiveUp
  <1>4. R!Return(o)
    <2> HIDE DEF o
    <2> QED BY <1>1, <1>3, ReturnRefines
  <1> QED BY <1>1, <1>2, <1>4 DEF R!GiveUp

LEMMA AllPassedRefines ==
  ASSUME IInv, AllPassed
  PROVE  R!AllPassed
  <1>1. phase = "main" /\ RunnerPhase = "main" /\ passed >= R!Target
    BY LimitsSeen DEF AllPassed, RunnerPhase
  <1>2. Return(R!PassedOutcome)
    BY DEF AllPassed, R!PassedOutcome
  <1>3. R!Return(R!PassedOutcome)
    BY <1>1, <1>2, ReturnRefines
  <1> QED BY <1>1, <1>3 DEF R!AllPassed

\* A shrink that ends reports what lib.rs reports.
LEMMA FailedRefines ==
  ASSUME IInv, ReturnFailed, phase \in {"outer", "inner"}
  PROVE  R!Return(R!FailedOutcome)
  <1>1. original # NoValue
    BY ParamTypes DEF IInv
  <1>2. Return(R!FailedOutcome)
    BY <1>1 DEF ReturnFailed, R!FailedOutcome, RunnerFailure
  <1> QED BY <1>2, ReturnRefines

LEMMA ShrinkStepRefines ==
  ASSUME IInv, NoCandidates \/ BeginRound \/ Try \/ StopShrinking
  PROVE  R!Next
  <1>1. current \in Values /\ candidates = strategy.shrink[current]
    BY DEF IInv, candidates, NoCandidates, BeginRound, Try, StopShrinking
  <1>2. RunnerConfig.shrink_mode = "Greedy"
    BY ConfigSeen DEF IInv
  <1>3. CASE NoCandidates
    <2>1. RunnerPhase = "shrink"
      BY <1>3 DEF NoCandidates, RunnerPhase
    <2>2. R!NothingToShrink
      BY <1>3, <1>1, <2>1, FailedRefines DEF NoCandidates, R!NothingToShrink
    <2> QED BY <2>2 DEF R!Next, R!Shrink
  <1>4. CASE BeginRound
    <2>1. RunnerPhase = "shrink" /\ RunnerPhase' = "round"
      BY <1>4 DEF BeginRound, RunnerPhase
    <2>2. UNCHANGED <<R!params, R!counts, RunnerFailure>>
      BY <1>4, ParamsKept DEF BeginRound, R!counts, counts, RunnerFailure, params
    <2>3. R!BeginRound
      BY <1>4, <1>1, <2>1, <2>2 DEF BeginRound, counts, R!BeginRound
    <2> QED BY <2>3 DEF R!Next, R!Shrink
  <1>5. CASE Try
    <2>1. phase = "inner" /\ RunnerPhase = "round"
      BY <1>5 DEF Try, RunnerPhase
    <2>2. R!InRound("Greedy")
      BY <1>2, <2>1 DEF R!InRound
    <2>3. ~R!RoundOver
      BY <1>5, <1>1, LimitsSeen DEF Try, Exhausted, R!RoundOver, R!AllTried
    <2> DEFINE c == candidates[tried + 1]
    <2>4. c \in Values /\ R!Candidate = c
      BY <1>5, <1>1, CandidateIsValue DEF Try, R!Candidate
    <2>5. run_prop(c) \in RunnerVerdict[c] /\ run_prop(c) \in Outcomes
      BY <2>4, ParamTypes DEF RunnerVerdict
    <2>6. UNCHANGED <<R!params, R!counts, RunnerFailure>>
      BY <1>5, ParamsKept DEF Try, R!counts, counts, RunnerFailure, params
    <2>7. attempts' = attempts + 1 /\ tried' = tried + 1 /\ UNCHANGED <<counts, outcome>>
      BY <1>5 DEF Try
    <2>8. IF run_prop(c) = "Fail" THEN current' = c /\ RunnerPhase' = "shrink"
                                  ELSE UNCHANGED <<current, RunnerPhase>>
      BY <1>5 DEF Try, RunnerPhase
    <2>9. R!GreedyTry(run_prop(c))
      <3> HIDE DEF c
      <3> QED BY <2>2, <2>3, <2>4, <2>5, <2>6, <2>7, <2>8
              DEF R!GreedyTry, R!Try, R!Adopts, counts
    <2> QED BY <2>5, <2>9 DEF R!Next, R!Shrink, Outcomes, R!Outcomes
  <1>6. CASE StopShrinking
    <2>1. phase = "inner" /\ RunnerPhase = "round"
      BY <1>6 DEF StopShrinking, RunnerPhase
    <2>2. R!InRound("Greedy") /\ R!RoundOver
      BY <1>6, <1>1, <1>2, <2>1, LimitsSeen
      DEF StopShrinking, Exhausted, R!InRound, R!RoundOver, R!AllTried
    <2>3. R!Return(R!FailedOutcome)
      BY <1>6, <2>1, FailedRefines DEF StopShrinking
    <2> QED BY <2>2, <2>3 DEF R!GreedyStop, R!Next, R!Shrink
  <1> QED BY <1>3, <1>4, <1>5, <1>6

\* Seeding leaves the replay of no seed; a panicking generator is not a step.
LEMMA SeedRefines ==
  ASSUME Seed
  PROVE  R!StartMain
  <1>1. RunnerPhase = "replay" /\ RunnerPhase' = "main"
    BY DEF Seed, RunnerPhase
  <1>2. UNCHANGED <<R!params, R!counts, RunnerFailure, R!locals>>
    BY ParamsKept DEF Seed, R!counts, counts, R!locals, locals, RunnerFailure, params
  <1>3. 0 = Len(<<>>)
    OBVIOUS
  <1> QED BY <1>1, <1>2, <1>3 DEF Seed, counts, R!StartMain

LEMMA StutterRefines ==
  ASSUME UNCHANGED vars \/ GeneratorPanics
  PROVE  UNCHANGED R!vars
  <1>1. UNCHANGED <<params, counts, original, locals, outcome>>
    BY DEF vars, GeneratorPanics
  <1>2. UNCHANGED RunnerPhase
    BY DEF vars, GeneratorPanics, InMain, RunnerPhase
  <1>3. UNCHANGED RunnerFailure
    BY <1>1 DEF params, counts, RunnerFailure
  <1> QED BY <1>1, <1>2, <1>3, ParamsKept DEF counts, locals, R!vars, R!counts, R!locals

LEMMA NextRefines == IInv /\ [Next]_vars => [R!Next]_R!vars
  <1> SUFFICES ASSUME IInv, [Next]_vars PROVE [R!Next]_R!vars
    OBVIOUS
  <1>1. CASE UNCHANGED vars \/ GeneratorPanics \/ Returned
    BY <1>1, StutterRefines DEF Returned
  <1>2. CASE Seed
    BY <1>2, SeedRefines DEF R!Next, R!Loop
  <1>3. CASE GiveUp
    BY <1>3, GiveUpRefines DEF R!Next, R!Loop
  <1>4. ASSUME NEW v \in strategy.of, Case(v) PROVE R!Next
    <2>1. v \in Values /\ run_prop(v) \in R!Outcomes /\ {} \in SUBSET {}
      BY ParamTypes DEF Outcomes, R!Outcomes
    <2> QED BY <1>4, <2>1, CaseRefines DEF R!Next, R!Loop
  <1>5. CASE AllPassed
    BY <1>5, AllPassedRefines DEF R!Next, R!Loop
  <1>6. CASE NoCandidates \/ BeginRound \/ Try \/ StopShrinking
    BY <1>6, ShrinkStepRefines
  <1> QED BY <1>1, <1>2, <1>3, <1>4, <1>5, <1>6 DEF Next

\* For every strategy, property and configuration, a run over a strategy is a
\* run of the loop of lib.rs without regression seeds and with greedy
\* shrinking: seeding, limits, size ramp, counts, budget and report are those
\* of forall_with, and a generator that panics only cuts the run short.
THEOREM RunsLikeForall == Spec => ImplementsRunner
  <1>1. Spec => []IInv
    BY StrategyRunnerInvariant
  <1> QED BY <1>1, InitRefines, NextRefines, PTL DEF Spec, ImplementsRunner, R!Spec

-----------------------------------------------------------------------------
(* From one step of a strategy to a whole run.  What a strategy must do    *)
(* with one value is stated here, subject by subject; that it is enough    *)
(* for whole runs is what the theorems say.                                *)

\* One value generated, and one candidate of a value, are in the domain, or
\* among the strays of a subject that has some.
StaysInDomain(s) ==
    /\ \A c \in Configs : \A k \in 1 .. 1 + c.max_size : s.strategy.gen[k] \subseteq Yields(s)
    /\ \A v \in Yields(s) : \A i \in DOMAIN s.strategy.shrink[v] :
          s.strategy.shrink[v][i] \in Yields(s)

\* The first candidate that fails is smaller than the failing value it is made
\* from, or a known rise.  (A later one need not be: a float offers round(x)
\* after trunc(x).)
Descends(s) ==
    \A f \in s.floors, v \in Yields(s) : \A i \in DOMAIN s.strategy.shrink[v] :
        /\ f <= s.weight[v] /\ f <= s.weight[s.strategy.shrink[v][i]]
        /\ \A j \in 1 .. i - 1 : s.weight[s.strategy.shrink[v][j]] < f
        => \/ s.weight[s.strategy.shrink[v][i]] < s.weight[v]
           \/ <<v, s.strategy.shrink[v][i]>> \in s.rises

\* A failing value that is not the smallest has one candidate that fails.
LeadsDown(s) ==
    \A f \in s.exact, u \in s.domain, v \in Yields(s) :
        f <= s.weight[u] /\ s.weight[u] < s.weight[v]
            => \E i \in DOMAIN s.strategy.shrink[v] : f <= s.weight[s.strategy.shrink[v][i]]

\* Strategies of which the three hold.
WellBehaved == \A n \in Names : /\ StaysInDomain(Subjects[n])
                                /\ Descends(Subjects[n])
                                /\ LeadsDown(Subjects[n])

\* The candidates of the round tried so far do not fail; a run that failed
\* with budget left has tried them all, of the value it reports.
DInv ==
    /\ InDomain
    /\ phase \in {"outer", "inner"} =>
         original \in Yields(subject) /\ current \in Yields(subject) /\ run_prop(current) = "Fail"
    /\ phase = "inner" => \A i \in 1 .. tried : run_prop(candidates[i]) # "Fail"
    /\ outcome.status = "Failed" =>
         /\ phase = "done" /\ outcome.shrunk = current /\ current \in Yields(subject)
         /\ BudgetLeft => \A i \in DOMAIN candidates : run_prop(candidates[i]) # "Fail"

\* The next size hint is one of the sizes a configuration allows.
LEMMA SizeHintInRange ==
  ASSUME IInv
  PROVE  SizeHint \in 1 .. 1 + cfg.max_size
  <1>1. cfg.cases \in Nat /\ cfg.max_size \in Nat /\ passed \in Nat
    BY StrategyRunnerAssumption DEF IInv
  <1>2. target_cases \in Nat \ {0}
    BY <1>1 DEF target_cases, Larger
  <1>3. passed * cfg.max_size \in Nat
    BY <1>1
  <1>4. (passed * cfg.max_size) \div target_cases \in Nat
    <2> DEFINE p == passed * cfg.max_size
               t == target_cases
    <2>1. \A x \in Nat, y \in Nat \ {0} : x \div y \in Nat
      OBVIOUS
    <2> HIDE DEF p, t
    <2>2. p \in Nat /\ t \in Nat \ {0}
      BY <1>2, <1>3 DEF p, t
    <2>3. p \div t \in Nat
      BY <2>1, <2>2
    <2> QED BY <2>3 DEF p, t
  <1> QED BY <1>1, <1>4 DEF SizeHint, Smaller

LEMMA SubjectWellBehaved ==
  ASSUME WellBehaved, IInv
  PROVE  StaysInDomain(subject) /\ Descends(subject) /\ LeadsDown(subject)
  BY DEF WellBehaved, IInv

\* A value fails when it weighs the floor or more.
LEMMA FailsByWeight ==
  ASSUME IInv, NEW v \in Values
  PROVE  /\ run_prop(v) = "Fail" <=> subject.weight[v] >= floor
         /\ subject.weight[v] \in Nat /\ floor \in Nat /\ Yields(subject) \subseteq Values
  BY StrategyRunnerAssumption DEF IInv, run_prop, Yields

\* A candidate is in the domain when the current value is.
LEMMA CandidateInDomain ==
  ASSUME WellBehaved, IInv, current \in Yields(subject)
  PROVE  /\ candidates \in Seq(Values)
         /\ \A i \in 1 .. Len(candidates) : candidates[i] \in Yields(subject)
  <1>1. current \in Values
    BY StrategyRunnerAssumption DEF IInv, Yields
  <1>2. candidates \in Seq(Values)
    BY <1>1, ParamTypes DEF candidates
  <1>3. \A i \in DOMAIN candidates : candidates[i] \in Yields(subject)
    BY SubjectWellBehaved DEF StaysInDomain, candidates, strategy
  <1> QED BY <1>2, <1>3

LEMMA InitDInv == Init => DInv
  BY DEF Init, DInv, InDomain, Running

LEMMA NextDInv == WellBehaved /\ IInv /\ DInv /\ [Next]_vars => DInv'
  <1> SUFFICES ASSUME WellBehaved, IInv, DInv, [Next]_vars PROVE DInv'
    OBVIOUS
  <1>1. CASE UNCHANGED vars
    BY <1>1 DEF DInv, InDomain, Yields, vars, params, counts, locals, candidates, strategy, run_prop,
                BudgetLeft
  <1>2. CASE Seed \/ GiveUp \/ GeneratorPanics \/ AllPassed
    <2>1. UNCHANGED <<original, current>> /\ UNCHANGED params
      BY <1>2 DEF Seed, GiveUp, GeneratorPanics, AllPassed, Return, locals
    <2>2. phase \in {"start", "main"} /\ phase' \notin {"outer", "inner"}
      BY <1>2 DEF Seed, GiveUp, GeneratorPanics, AllPassed, Return, InMain
    <2>3. outcome'.status # "Failed"
      BY <1>2, <2>2 DEF DInv, Seed, GiveUp, GeneratorPanics, AllPassed, Return
    <2> QED BY <2>1, <2>2, <2>3 DEF DInv, InDomain, params
  <1>3. ASSUME NEW v \in strategy.of, Case(v) PROVE DInv'
    <2>1. SizeHint \in 1 .. 1 + cfg.max_size /\ cfg \in Configs
      BY SizeHintInRange DEF IInv
    <2>2. v \in Yields(subject)
      BY <1>3, <2>1, SubjectWellBehaved DEF Case, StaysInDomain, strategy
    <2>3. UNCHANGED <<params, outcome>> /\ outcome.status # "Failed" /\ phase = "main"
      BY <1>3 DEF Case, InMain, DInv
    <2>4. CASE run_prop(v) = "Fail"
      BY <1>3, <2>2, <2>3, <2>4 DEF Case, DInv, InDomain, params, run_prop
    <2>5. CASE run_prop(v) # "Fail"
      BY <1>3, <2>3, <2>5 DEF Case, DInv, InDomain, params
    <2> QED BY <2>4, <2>5
  <1>4. CASE NoCandidates
    <2>1. current \in Yields(subject) /\ candidates = <<>> /\ phase = "outer"
      BY <1>4 DEF NoCandidates, DInv
    <2>2. UNCHANGED <<params, original, locals>> /\ phase' = "done" /\ outcome'.shrunk = current
      BY <1>4 DEF NoCandidates, ReturnFailed, Return
    <2>3. candidates' = <<>>
      BY <2>1, <2>2 DEF candidates, strategy, params, locals
    <2> QED BY <2>1, <2>2, <2>3 DEF DInv, InDomain, params, locals
  <1>5. CASE BeginRound
    <2>1. UNCHANGED <<params, original, current, attempts, outcome>> /\ phase = "outer"
      BY <1>5 DEF BeginRound
    <2>2. tried' = 0 /\ phase' = "inner" /\ outcome.status # "Failed"
      BY <1>5, <2>1 DEF BeginRound, DInv
    <2> QED BY <2>1, <2>2 DEF DInv, InDomain, params, run_prop
  <1>6. CASE Try
    <2> DEFINE c == candidates[tried + 1]
    <2>1. phase = "inner" /\ tried + 1 \in 0 .. Len(candidates) /\ Len(candidates) \in Nat
      BY <1>6, CandidateIsValue DEF Try
    <2>2. c \in Yields(subject) /\ tried \in Nat
      BY <1>6, <2>1, CandidateInDomain DEF DInv, Try, IInv
    <2>3. UNCHANGED <<params, original, outcome>> /\ outcome.status # "Failed"
      BY <1>6, <2>1 DEF Try, DInv
    <2>4. CASE run_prop(c) = "Fail"
      <3>1. current' = c /\ phase' = "outer"
        BY <1>6, <2>4 DEF Try
      <3>2. (run_prop(current) = "Fail")'
        BY <2>3, <2>4, <3>1 DEF params, run_prop
      <3>3. subject' = subject
        BY <2>3 DEF params
      <3> HIDE DEF c
      <3> QED BY <2>1, <2>2, <2>3, <3>1, <3>2, <3>3 DEF DInv, InDomain
    <2>5. CASE run_prop(c) # "Fail"
      <3>1. UNCHANGED <<current, phase>> /\ tried' = tried + 1
        BY <1>6, <2>5 DEF Try
      <3>2. UNCHANGED <<candidates, subject, floor, other>>
        BY <2>3, <3>1 DEF candidates, strategy, params
      <3>3. \A i \in 1 .. tried' : run_prop(candidates[i]) # "Fail"
        BY <2>1, <2>2, <2>5, <3>1 DEF DInv
      <3>4. (\A i \in 1 .. tried : run_prop(candidates[i]) # "Fail")'
        BY <3>2, <3>3 DEF run_prop
      <3> QED BY <2>1, <2>3, <3>1, <3>2, <3>4 DEF DInv, InDomain, run_prop
    <2> QED BY <2>4, <2>5
  <1>7. CASE StopShrinking
    <2>1. phase = "inner" /\ (Exhausted \/ ~BudgetLeft) /\ current \in Yields(subject)
      BY <1>7 DEF StopShrinking, DInv
    <2>2. UNCHANGED <<params, original, locals>> /\ phase' = "done" /\ outcome'.shrunk = current
      BY <1>7 DEF StopShrinking, ReturnFailed, Return
    <2>3. BudgetLeft => \A i \in DOMAIN candidates : run_prop(candidates[i]) # "Fail"
      BY <2>1, CandidateInDomain DEF Exhausted, DInv
    <2>4. UNCHANGED <<candidates, BudgetLeft, subject, floor, other, current, original>>
      BY <2>2 DEF candidates, strategy, BudgetLeft, params, locals
    <2>5. (BudgetLeft => \A i \in DOMAIN candidates : run_prop(candidates[i]) # "Fail")'
      BY <2>3, <2>4 DEF run_prop
    <2> QED BY <2>1, <2>2, <2>4, <2>5 DEF DInv, InDomain
  <1> QED BY <1>1, <1>2, <1>3, <1>4, <1>5, <1>6, <1>7 DEF Next, Returned

LEMMA SpecDInv == ASSUME WellBehaved PROVE Spec => []DInv
  <1>1. Spec => []IInv
    BY StrategyRunnerInvariant
  <1>2. IInv /\ DInv /\ [Next]_vars => DInv'
    BY NextDInv
  <1> QED BY <1>1, InitDInv, <1>2, PTL DEF Spec

\* Generating and shrinking never leave the documented domain, however often
\* a counterexample is shrunk, if one generated value and one candidate do not.
THEOREM RunStaysInDomain == ASSUME WellBehaved PROVE Spec => []InDomain
  <1>1. DInv => InDomain
    BY DEF DInv
  <1> QED BY <1>1, SpecDInv, PTL

\* Every value adopted is strictly smaller than the one it replaces, so that
\* the greedy shrink of a run cannot go round in a circle: only the first
\* failing candidate of a value has to be smaller, for no other is adopted.
LEMMA AdoptsSmaller == ASSUME WellBehaved PROVE Spec => StrictlySmaller
  <1>1. IInv /\ DInv /\ [Next]_vars =>
          [phase = "inner" /\ phase' = "outer" => \/ subject.weight[current'] < subject.weight[current]
                                               \/ <<current, current'>> \in subject.rises]_vars
    <2> SUFFICES ASSUME IInv, DInv, Next, phase = "inner", phase' = "outer"
                 PROVE  \/ subject.weight[current'] < subject.weight[current]
                        \/ <<current, current'>> \in subject.rises
      BY DEF vars
    <2>1. Try
      BY DEF Next, Seed, GiveUp, GeneratorPanics, Case, AllPassed, NoCandidates, BeginRound,
             StopShrinking, ReturnFailed, Return, Returned, InMain, vars
    <2> DEFINE i == tried + 1
    <2>2. current' = candidates[i] /\ run_prop(candidates[i]) = "Fail"
      BY <2>1 DEF Try
    <2>3. i \in DOMAIN candidates /\ candidates[i] \in Values
      BY <2>1, CandidateIsValue, CandidateInDomain DEF Try, DInv, IInv
    <2>4. current \in Yields(subject) /\ current \in Values /\ run_prop(current) = "Fail"
      BY DEF DInv, IInv
    <2>5. subject.weight[current] >= floor /\ subject.weight[candidates[i]] >= floor
      BY <2>2, <2>3, <2>4, FailsByWeight
    <2>6. floor \in subject.floors /\ Descends(subject)
      BY SubjectWellBehaved DEF IInv
    <2>7. \A j \in 1 .. i - 1 : subject.weight[candidates[j]] < floor
      <3> SUFFICES ASSUME NEW j \in 1 .. i - 1 PROVE subject.weight[candidates[j]] < floor
        OBVIOUS
      <3>1. phase = "inner" /\ tried \in 0 .. Len(candidates) /\ candidates \in Seq(Values)
        BY <2>1, <2>4, CandidateInDomain DEF IInv, Try
      <3>2. j \in 1 .. tried /\ candidates[j] \in Values
        BY <3>1
      <3> QED BY <3>1, <3>2, FailsByWeight DEF DInv
    <2> QED BY <2>2, <2>3, <2>4, <2>5, <2>6, <2>7, FailsByWeight DEF Descends, candidates, strategy
  <1> QED BY <1>1, SpecDInv, StrategyRunnerInvariant, PTL DEF Spec, StrictlySmaller

\* A shrink that ends with budget left reports the smallest failing value of
\* the whole domain, if from a failing value that is not the smallest one
\* candidate fails: a local condition on a strategy gives the global minimum.
THEOREM ReachesMinimum == ASSUME WellBehaved PROVE Spec => []ExactMinimum
  <1>1. IInv /\ DInv => ExactMinimum
    <2> SUFFICES ASSUME IInv, DInv, floor \in subject.exact, outcome.status = "Failed", BudgetLeft,
                        NEW u \in subject.domain, subject.weight[u] >= floor
                 PROVE  subject.weight[current] <= subject.weight[u]
      BY DEF ExactMinimum, DInv
    <2>1. current \in Yields(subject) /\ \A i \in DOMAIN candidates : run_prop(candidates[i]) # "Fail"
      BY DEF DInv
    <2>2. current \in Values /\ u \in Values /\ floor \in subject.floors
      BY StrategyRunnerAssumption, <2>1 DEF IInv, Yields
    <2>3. candidates \in Seq(Values)
      BY <2>1, CandidateInDomain
    <2>4. ASSUME subject.weight[u] < subject.weight[current] PROVE FALSE
      <3>1. PICK i \in DOMAIN candidates : floor <= subject.weight[candidates[i]]
        BY <2>1, <2>2, <2>4, SubjectWellBehaved, FailsByWeight DEF LeadsDown, candidates, strategy
      <3>2. candidates[i] \in Values
        BY <2>3
      <3> QED BY <2>1, <3>1, <3>2, FailsByWeight
    <2> QED BY <2>2, <2>4, FailsByWeight
  <1> QED BY <1>1, SpecDInv, StrategyRunnerInvariant, PTL

-----------------------------------------------------------------------------
(* Sequences of candidates.                                                *)

LEMMA LeastNatural ==
  ASSUME NEW T \in SUBSET Nat, T # {}
  PROVE  \E x \in T : \A y \in T : x <= y
  <1> DEFINE Less == OpToRel(<, Nat)
  <1>1. IsWellFoundedOn(Less, Nat)
    BY NatLessThanWellFounded
  <1>2. \A x, y \in Nat : x < y => <<x, y>> \in Less
    BY DEF OpToRel
  <1> HIDE DEF Less
  <1>3. PICK x \in T : \A y \in T : ~ (<<y, x>> \in Less)
    <2>1. T \subseteq Nat
      OBVIOUS
    <2> QED BY <1>1, <2>1, WFMin, Zenon
  <1>4. \A y \in T : ~(y < x)
    BY <1>2, <1>3
  <1>5. \A y \in T : x <= y
    BY <1>4
  <1> QED BY <1>5

LEMMA Induction ==
  ASSUME NEW S, 0 \in S, \A n \in Nat : n \in S => n + 1 \in S
  PROVE  \A n \in Nat : n \in S
  <1> DEFINE T == Nat \ S
  <1>1. CASE T = {}
    BY <1>1
  <1>2. CASE T # {}
    <2>1. PICK x \in T : \A y \in T : x <= y
      BY <1>2, LeastNatural
    <2>2. x - 1 \in Nat /\ x - 1 \notin T
      BY <2>1
    <2> QED BY <2>1, <2>2
  <1> QED BY <1>1, <1>2

Halved(g, d, n) == g = [i \in 0 .. n |-> IF i = 0 THEN d ELSE g[i - 1] \div 2]

LEMMA HalvedExists ==
  ASSUME NEW d \in Nat, NEW m \in Nat
  PROVE  \E g : Halved(g, d, m)
  <1> DEFINE S == {n \in Nat : \E g : Halved(g, d, n)}
  <1>1. 0 \in S
    <2>1. Halved([i \in 0 .. 0 |-> d], d, 0)
      BY DEF Halved
    <2> QED BY <2>1
  <1>2. ASSUME NEW n \in Nat, n \in S PROVE n + 1 \in S
    <2>1. PICK g : Halved(g, d, n)
      BY <1>2
    <2> DEFINE h == [i \in 0 .. n + 1 |-> IF i = n + 1 THEN g[n] \div 2 ELSE g[i]]
    <2>2. \A i \in 0 .. n : h[i] = g[i] /\ i \in 0 .. n + 1
      OBVIOUS
    <2>3. h[n + 1] = g[n] \div 2
      OBVIOUS
    <2>4. ASSUME NEW i \in 0 .. n + 1 PROVE h[i] = IF i = 0 THEN d ELSE h[i - 1] \div 2
      <3>1. CASE i = n + 1
        <4>1. h[i - 1] = g[n] /\ i # 0
          BY <3>1, <2>2
        <4> QED BY <3>1, <4>1, <2>3
      <3>2. CASE i = 0
        BY <3>2, <2>1, <2>2 DEF Halved
      <3>3. CASE i # 0 /\ i # n + 1
        <4>1. i \in 0 .. n /\ i - 1 \in 0 .. n
          BY <3>3
        <4>2. g[i] = g[i - 1] \div 2
          BY <4>1, <3>3, <2>1 DEF Halved
        <4> QED BY <3>3, <4>1, <4>2, <2>2
      <3> QED BY <3>1, <3>2, <3>3
    <2>5. DOMAIN h = 0 .. n + 1 /\ h = [i \in 0 .. n + 1 |-> h[i]]
      OBVIOUS
    <2> HIDE DEF h
    <2>6. Halved(h, d, n + 1)
      BY <2>4, <2>5 DEF Halved
    <2> QED BY <2>6
  <1>3. \A n \in Nat : n \in S
    <2> HIDE DEF S
    <2> QED BY <1>1, <1>2, Induction
  <1> QED BY <1>3

\* A halved number is at most half as large; 1 is the only positive number
\* whose half is 0.
LEMMA Half ==
  ASSUME NEW x \in Nat
  PROVE  /\ x \div 2 \in Nat /\ x \div 2 <= x /\ (x # 0 => x \div 2 < x)
         /\ (x \div 2 = 0 => x \in {0, 1})
  BY Z3

\* delta falls until it is 0.
LEMMA HalvedFalls ==
  ASSUME NEW d \in Nat, NEW g, Halved(g, d, d)
  PROVE  /\ \A i \in 0 .. d : g[i] \in 0 .. d /\ (i # 0 => g[i] <= d - 1 \/ d = 0)
         /\ \A i \in 0 .. d : g[i] = 0 \/ g[i] <= d - i
         /\ g[0] = d /\ \A i \in 1 .. d : g[i] = g[i - 1] \div 2
  <1>1. g[0] = d /\ \A i \in 1 .. d : g[i] = g[i - 1] \div 2
    BY DEF Halved
  <1> DEFINE S == {n \in Nat : n <= d => g[n] \in 0 .. d /\ (g[n] = 0 \/ g[n] <= d - n)}
  <1>2. 0 \in S
    BY <1>1
  <1>3. ASSUME NEW n \in Nat, n \in S PROVE n + 1 \in S
    <2>1. SUFFICES ASSUME n + 1 <= d PROVE g[n + 1] \in 0 .. d /\ (g[n + 1] = 0 \/ g[n + 1] <= d - (n + 1))
      OBVIOUS
    <2>2. g[n] \in 0 .. d /\ (g[n] = 0 \/ g[n] <= d - n) /\ g[n + 1] = g[n] \div 2
      BY <1>1, <1>3, <2>1
    <2> DEFINE x == g[n]
    <2>3. x \in Nat /\ x \div 2 \in Nat /\ x \div 2 <= x /\ (x # 0 => x \div 2 < x) /\ (x = 0 => x \div 2 = 0)
      BY <2>2, Half
    <2> HIDE DEF x
    <2>4. g[n + 1] = x \div 2 /\ (x = 0 \/ x <= d - n) /\ x <= d
      BY <2>2 DEF x
    <2> DEFINE y == x \div 2
    <2> HIDE DEF y
    <2>5. y \in Nat /\ y <= x /\ (x # 0 => y < x) /\ (x = 0 => y = 0) /\ g[n + 1] = y
      BY <2>3, <2>4 DEF y
    <2> QED BY <2>3, <2>4, <2>5
  <1>4. \A n \in Nat : n \in S
    <2> HIDE DEF S
    <2> QED BY <1>2, <1>3, Induction
  <1>5. \A i \in 0 .. d : g[i] \in 0 .. d /\ (g[i] = 0 \/ g[i] <= d - i)
    BY <1>4
  <1> QED BY <1>1, <1>5

\* The halvings of d lie strictly between 0 and d, and reach 1.
LEMMA HalvingsFacts ==
  ASSUME NEW d \in Nat
  PROVE  /\ Halvings(d) \in Seq(1 .. d - 1)
         /\ d >= 2 => 1 \in Elements(Halvings(d))
  <1> DEFINE g == CHOOSE g : Halved(g, d, d)
             H == {i \in 1 .. d : g[i] # 0}
             Zero == {i \in Nat : i <= d /\ g[i] = 0}
  <1>1. Halved(g, d, d)
    BY HalvedExists
  <1>2. Halvings(d) = [i \in 1 .. Cardinality(H) |-> g[i]]
    BY DEF Halvings, Halved
  <1> HIDE DEF g
  <1>3. /\ \A i \in 0 .. d : g[i] \in 0 .. d /\ (i # 0 => g[i] <= d - 1 \/ d = 0)
        /\ \A i \in 0 .. d : g[i] = 0 \/ g[i] <= d - i
        /\ g[0] = d /\ \A i \in 1 .. d : g[i] = g[i - 1] \div 2
    BY <1>1, HalvedFalls
  <1>4. d \in Zero
    BY <1>3
  <1>5. PICK z \in Zero : \A y \in Zero : z <= y
    BY <1>4, LeastNatural
  <1>6. \A i \in Nat : i <= d => (i < z <=> g[i] # 0)
    <2> DEFINE S == {n \in Nat : z <= n /\ n <= d => g[n] = 0}
    <2>1. 0 \in S
      BY <1>5
    <2>2. ASSUME NEW n \in Nat, n \in S PROVE n + 1 \in S
      <3>1. SUFFICES ASSUME z <= n + 1, n + 1 <= d PROVE g[n + 1] = 0
        OBVIOUS
      <3>2. CASE z = n + 1
        BY <3>2, <1>5
      <3>3. CASE z # n + 1
        <4>1. g[n] = 0 /\ g[n + 1] = g[n] \div 2
          BY <3>1, <3>3, <2>2, <1>3, <1>5
        <4>2. 0 \div 2 = 0
          BY Z3
        <4> QED BY <4>1, <4>2
      <3> QED BY <3>2, <3>3
    <2>3. \A n \in Nat : n \in S
      <3> HIDE DEF S
      <3> QED BY <2>1, <2>2, Induction
    <2>4. \A i \in Nat : i <= d /\ i < z => g[i] # 0
      BY <1>5
    <2> QED BY <2>3, <2>4, <1>5
  <1>7. z \in Nat /\ z <= d
    BY <1>5
  <1>8. CASE d = 0
    <2>1. H = {}
      BY <1>8
    <2>2. Cardinality(H) = 0
      BY <2>1, FS_EmptySet
    <2>3. Halvings(d) = [i \in 1 .. 0 |-> g[i]]
      BY <1>2, <2>2
    <2>4. \A i \in 1 .. 0 : g[i] \in 1 .. d - 1
      OBVIOUS
    <2>5. Halvings(d) \in Seq(1 .. d - 1)
      BY <2>3, <2>4
    <2> QED BY <1>8, <2>5
  <1>9. CASE d # 0
    <2>1. z >= 1
      BY <1>9, <1>3, <1>5
    <2>2. H = 1 .. z - 1
      BY <1>6, <1>7, <2>1
    <2>3. Cardinality(H) = z - 1
      <3>1. 1 \in Int /\ z - 1 \in Int /\ z - 1 >= 0
        BY <2>1, <1>7
      <3>2. Cardinality(1 .. z - 1) = IF 1 > z - 1 THEN 0 ELSE z - 1 - 1 + 1
        BY <3>1, FS_Interval
      <3>3. Cardinality(1 .. z - 1) = z - 1
        BY <3>1, <3>2
      <3> HIDE DEF H
      <3> QED BY <2>2, <3>3
    <2>4. Halvings(d) = [i \in 1 .. z - 1 |-> g[i]]
      BY <1>2, <2>3
    <2>5. \A i \in 1 .. z - 1 : g[i] \in 1 .. d - 1
      <3> SUFFICES ASSUME NEW i \in 1 .. z - 1 PROVE g[i] \in 1 .. d - 1
        OBVIOUS
      <3>1. i \in 1 .. d /\ i < z
        BY <1>7
      <3>2. g[i] # 0 /\ g[i] \in 0 .. d /\ g[i] <= d - 1
        BY <3>1, <1>3, <1>6, <1>9
      <3> QED BY <3>2
    <2>6. Halvings(d) \in Seq(1 .. d - 1)
      BY <2>4, <2>5, <2>1, <1>7
    <2>7. ASSUME d >= 2 PROVE 1 \in Elements(Halvings(d))
      <3>1. z # 1
        <4>1. SUFFICES ASSUME z = 1 PROVE FALSE
          OBVIOUS
        <4>2. g[1] = d \div 2 /\ g[1] = 0
          BY <4>1, <1>3, <1>5, <1>9
        <4> QED BY <4>2, <2>7, Half
      <3>2. z - 1 \in 1 .. d /\ z - 1 < z /\ z \in 1 .. d
        BY <3>1, <2>1, <1>7
      <3>3. g[z - 1] # 0 /\ g[z - 1] \in Nat /\ g[z] = g[z - 1] \div 2 /\ g[z] = 0
        BY <3>2, <1>3, <1>5, <1>6
      <3>4. g[z - 1] = 1
        BY <3>3, Half
      <3>5. z - 1 \in DOMAIN Halvings(d) /\ Halvings(d)[z - 1] = 1
        BY <2>4, <3>2, <3>4
      <3> QED BY <3>5 DEF Elements
    <2> QED BY <2>6, <2>7
  <1> QED BY <1>8, <1>9

\* g concatenates the first n sequences of ss.
Flattened(g, ss, n) ==
    g = [i \in 1 .. n |-> IF i = 1 THEN ss[i] ELSE g[i - 1] \o ss[i]]

LEMMA FlattenedExists ==
  ASSUME NEW ss, NEW m \in Nat
  PROVE  \E g : Flattened(g, ss, m)
  <1> DEFINE S == {n \in Nat : \E g : Flattened(g, ss, n)}
  <1>1. 0 \in S
    <2>1. Flattened(<<>>, ss, 0)
      BY DEF Flattened
    <2> QED BY <2>1
  <1>2. ASSUME NEW n \in Nat, n \in S PROVE n + 1 \in S
    <2>1. PICK g : Flattened(g, ss, n)
      BY <1>2
    <2> DEFINE last == IF n = 0 THEN ss[1] ELSE g[n] \o ss[n + 1]
    <2> HIDE DEF last
    <2> DEFINE h == [i \in 1 .. n + 1 |-> IF i = n + 1 THEN last ELSE g[i]]
    <2>2. (\A i \in 1 .. n : h[i] = g[i]) /\ h[n + 1] = last
      OBVIOUS
    <2>3. ASSUME NEW i \in 1 .. n + 1 PROVE h[i] = IF i = 1 THEN ss[i] ELSE h[i - 1] \o ss[i]
      <3>1. CASE i = n + 1
        <4>1. CASE n = 0
          BY <3>1, <4>1, <2>2 DEF last
        <4>2. CASE n # 0
          <5>1. i # 1 /\ i - 1 = n /\ n \in 1 .. n
            BY <3>1, <4>2
          <5>3. h[i] = g[n] \o ss[n + 1]
            BY <3>1, <4>2, <2>2 DEF last
          <5>2. h[n] = g[n]
            BY <5>1, <2>2
          <5> QED BY <3>1, <5>1, <5>2, <5>3
        <4> QED BY <4>1, <4>2
      <3>2. CASE i # n + 1
        <4>1. i \in 1 .. n /\ h[i] = g[i]
          BY <3>2, <2>2
        <4>2. g[i] = IF i = 1 THEN ss[i] ELSE g[i - 1] \o ss[i]
          BY <4>1, <2>1 DEF Flattened
        <4>3. i # 1 => i - 1 \in 1 .. n /\ h[i - 1] = g[i - 1]
          BY <4>1, <2>2
        <4> QED BY <4>1, <4>2, <4>3
      <3> QED BY <3>1, <3>2
    <2>4. DOMAIN h = 1 .. n + 1 /\ h = [i \in 1 .. n + 1 |-> h[i]]
      OBVIOUS
    <2> HIDE DEF h
    <2>5. Flattened(h, ss, n + 1)
      BY <2>3, <2>4 DEF Flattened
    <2> QED BY <2>5
  <1>3. \A n \in Nat : n \in S
    <2> HIDE DEF S
    <2> QED BY <1>1, <1>2, Induction
  <1> QED BY <1>3

\* The elements of a concatenation.
LEMMA ConcatElements ==
  ASSUME NEW S, NEW s \in Seq(S), NEW t \in Seq(S)
  PROVE  s \o t \in Seq(S) /\ Elements(s \o t) = Elements(s) \cup Elements(t)
  <1>1. s \o t \in Seq(S) /\ Len(s \o t) = Len(s) + Len(t) /\ Len(s) \in Nat /\ Len(t) \in Nat
    OBVIOUS
  <1>2. \A i \in 1 .. Len(s) + Len(t) : (s \o t)[i] = IF i <= Len(s) THEN s[i] ELSE t[i - Len(s)]
    OBVIOUS
  <1>3. DOMAIN s = 1 .. Len(s) /\ DOMAIN t = 1 .. Len(t) /\ DOMAIN (s \o t) = 1 .. Len(s) + Len(t)
    BY <1>1
  <1>4. ASSUME NEW x \in Elements(s \o t) PROVE x \in Elements(s) \cup Elements(t)
    <2>1. PICK i \in 1 .. Len(s) + Len(t) : x = (s \o t)[i]
      BY <1>3 DEF Elements
    <2>2. CASE i <= Len(s)
      <3>1. i \in DOMAIN s /\ x = s[i]
        BY <2>1, <2>2, <1>1, <1>2, <1>3
      <3> QED BY <3>1 DEF Elements
    <2>3. CASE ~(i <= Len(s))
      <3>1. i - Len(s) \in DOMAIN t /\ x = t[i - Len(s)]
        BY <2>1, <2>3, <1>1, <1>2, <1>3
      <3> QED BY <3>1 DEF Elements
    <2> QED BY <2>2, <2>3
  <1>5. ASSUME NEW x \in Elements(s) PROVE x \in Elements(s \o t)
    <2>1. PICK i \in 1 .. Len(s) : x = s[i]
      BY <1>3 DEF Elements
    <2>2. i \in DOMAIN (s \o t) /\ x = (s \o t)[i]
      BY <2>1, <1>1, <1>2, <1>3
    <2> QED BY <2>2 DEF Elements
  <1>6. ASSUME NEW x \in Elements(t) PROVE x \in Elements(s \o t)
    <2>1. PICK i \in 1 .. Len(t) : x = t[i]
      BY <1>3 DEF Elements
    <2>2. Len(s) + i \in DOMAIN (s \o t) /\ x = (s \o t)[Len(s) + i]
      <3>1. Len(s) + i \in 1 .. Len(s) + Len(t) /\ ~(Len(s) + i <= Len(s)) /\ Len(s) + i - Len(s) = i
        BY <1>1
      <3> QED BY <2>1, <3>1, <1>2, <1>3
    <2> QED BY <2>2 DEF Elements
  <1> QED BY <1>1, <1>4, <1>5, <1>6

\* The elements of a flattened sequence of sequences are those of its members.
LEMMA FlattenElements ==
  ASSUME NEW S, NEW ss \in Seq(Seq(S))
  PROVE  /\ FlattenSeq(ss) \in Seq(S)
         /\ Elements(FlattenSeq(ss)) = UNION {Elements(ss[j]) : j \in DOMAIN ss}
  <1> DEFINE N == Len(ss)
             g == CHOOSE g : Flattened(g, ss, N)
  <1>0. N \in Nat /\ DOMAIN ss = 1 .. N /\ \A j \in 1 .. N : ss[j] \in Seq(S)
    OBVIOUS
  <1>1. CASE N = 0
    <2>1. FlattenSeq(ss) = <<>> /\ DOMAIN ss = {} /\ ss = <<>>
      BY <1>0, <1>1 DEF FlattenSeq
    <2> QED BY <2>1 DEF Elements
  <1>2. CASE N # 0
    <2>1. Flattened(g, ss, N)
      BY <1>0, FlattenedExists
    <2>2. FlattenSeq(ss) = g[N]
      BY <1>2 DEF FlattenSeq, Flattened
    <2> HIDE DEF g
    <2>3. \A i \in 1 .. N : g[i] = IF i = 1 THEN ss[i] ELSE g[i - 1] \o ss[i]
      BY <2>1 DEF Flattened
    <2> HIDE DEF N
    <2> DEFINE Members(n) == UNION {Elements(ss[j]) : j \in 1 .. n}
               T == {n \in Nat : n \in 1 .. N => g[n] \in Seq(S) /\ Elements(g[n]) = Members(n)}
    <2>4. 0 \in T
      OBVIOUS
    <2>5. ASSUME NEW n \in Nat, n \in T PROVE n + 1 \in T
      <3>1. SUFFICES ASSUME n + 1 \in 1 .. N
                     PROVE  g[n + 1] \in Seq(S) /\ Elements(g[n + 1]) = Members(n + 1)
        OBVIOUS
      <3>2. CASE n = 0
        <4>1. g[n + 1] = ss[1] /\ ss[1] \in Seq(S) /\ 1 .. n + 1 = {1}
          BY <3>1, <3>2, <2>3, <1>0
        <4> QED BY <4>1
      <3>3. CASE n # 0
        <4>1. n \in 1 .. N /\ g[n] \in Seq(S) /\ Elements(g[n]) = Members(n)
          BY <3>1, <3>3, <2>5, <1>0
        <4>2. g[n + 1] = g[n] \o ss[n + 1] /\ ss[n + 1] \in Seq(S)
          <5>1. n + 1 # 1 /\ (n + 1) - 1 = n
            BY <3>3
          <5> QED BY <3>1, <5>1, <2>3, <1>0
        <4>3. g[n + 1] \in Seq(S) /\ Elements(g[n + 1]) = Members(n) \cup Elements(ss[n + 1])
          BY <4>1, <4>2, ConcatElements
        <4>4. 1 .. n + 1 = (1 .. n) \cup {n + 1}
          BY <3>3
        <4>5. Members(n + 1) = Members(n) \cup Elements(ss[n + 1])
          BY <4>4
        <4> QED BY <4>3, <4>5
      <3> QED BY <3>2, <3>3
    <2>6. \A n \in Nat : n \in T
      <3> HIDE DEF T
      <3> QED BY <2>4, <2>5, Induction
    <2>7. N \in 1 .. N
      BY <1>0, <1>2
    <2>8. g[N] \in Seq(S) /\ Elements(g[N]) = Members(N)
      BY <2>6, <2>7, <1>0
    <2> QED BY <2>2, <2>8, <1>0
  <1> QED BY <1>1, <1>2

\* A filter keeps the elements of the set.
LEMMA WithinElements ==
  ASSUME NEW S, NEW s \in Seq(S), NEW K
  PROVE  /\ Within(s, K) \in Seq(S)
         /\ Elements(Within(s, K)) = Elements(s) \cap K
  <1> DEFINE one(x) == IF x \in K THEN <<x>> ELSE <<>>
             ss == [i \in DOMAIN s |-> one(s[i])]
  <1>1. Within(s, K) = FlattenSeq(ss)
    BY DEF Within, Flat, Mapped, When
  <1>2. \A x \in S : one(x) \in Seq(S) /\ Elements(one(x)) = {x} \cap K
    BY DEF Elements
  <1> HIDE DEF one
  <1>3. ss \in Seq(Seq(S)) /\ DOMAIN ss = DOMAIN s
    <2>1. DOMAIN s = 1 .. Len(s) /\ Len(s) \in Nat /\ \A i \in 1 .. Len(s) : s[i] \in S
      OBVIOUS
    <2>2. \A i \in 1 .. Len(s) : one(s[i]) \in Seq(S)
      BY <2>1, <1>2
    <2>3. ss = [i \in 1 .. Len(s) |-> one(s[i])]
      BY <2>1
    <2> QED BY <2>1, <2>2, <2>3
  <1>4. \A j \in DOMAIN s : s[j] \in S /\ Elements(ss[j]) = {s[j]} \cap K
    <2>1. \A j \in DOMAIN s : s[j] \in S /\ ss[j] = one(s[j])
      OBVIOUS
    <2> QED BY <2>1, <1>2
  <1> HIDE DEF ss
  <1>5. Elements(FlattenSeq(ss)) = UNION {Elements(ss[j]) : j \in DOMAIN s} /\ FlattenSeq(ss) \in Seq(S)
    BY <1>3, FlattenElements
  <1>6. Elements(s) \cap K = UNION {Elements(ss[j]) : j \in DOMAIN s}
    BY <1>4 DEF Elements
  <1> QED BY <1>1, <1>5, <1>6

LEMMA AbsFacts ==
  ASSUME NEW n \in Int
  PROVE  Abs(n) \in Nat /\ (n >= 0 => Abs(n) = n) /\ (n <= 0 => Abs(n) = -n)
  BY DEF Abs, Greater

\* The candidates lie strictly between the target and n, and one of them is
\* the neighbour of n, unless that is the target.
LEMMA ApproachFacts ==
  ASSUME NEW n \in Int, NEW t \in Int
  PROVE  /\ Approach(n, t) \in Seq(Int)
         /\ \A c \in Elements(Approach(n, t)) : (t < c /\ c < n) \/ (n < c /\ c < t)
         /\ n >= t + 2 => n - 1 \in Elements(Approach(n, t))
         /\ n <= t - 2 => n + 1 \in Elements(Approach(n, t))
  <1> DEFINE d    == Abs(n - t)
             hs   == Halvings(d)
             f(x) == IF n > t THEN n - x ELSE n + x
  <1>1. d \in Nat /\ (n >= t => d = n - t) /\ (n <= t => d = t - n)
    BY AbsFacts
  <1>2. Approach(n, t) = [i \in DOMAIN hs |-> f(hs[i])]
    BY DEF Approach, Mapped
  <1>3. hs \in Seq(1 .. d - 1) /\ (d >= 2 => 1 \in Elements(hs))
    <2> HIDE DEF d
    <2> QED BY <1>1, HalvingsFacts
  <1> HIDE DEF hs, d
  <1>4. Len(hs) \in Nat /\ DOMAIN hs = 1 .. Len(hs) /\ \A i \in 1 .. Len(hs) : hs[i] \in 1 .. d - 1
    <2> DEFINE Deltas == 1 .. d - 1
    <2>1. hs \in Seq(Deltas)
      BY <1>3
    <2> HIDE DEF Deltas
    <2>2. Len(hs) \in Nat /\ DOMAIN hs = 1 .. Len(hs) /\ \A i \in 1 .. Len(hs) : hs[i] \in Deltas
      BY <2>1
    <2> QED BY <2>2 DEF Deltas
  <1>5. \A x \in 1 .. d - 1 : f(x) \in Int /\ ((t < f(x) /\ f(x) < n) \/ (n < f(x) /\ f(x) < t))
    BY <1>1
  <1>6. Approach(n, t) = [i \in 1 .. Len(hs) |-> f(hs[i])]
    BY <1>2, <1>4
  <1>7. \A i \in DOMAIN hs : f(hs[i]) \in Elements(Approach(n, t))
    BY <1>2 DEF Elements
  <1>8. ASSUME d >= 2 PROVE f(1) \in Elements(Approach(n, t))
    <2>1. PICK i \in DOMAIN hs : hs[i] = 1
      BY <1>3, <1>8 DEF Elements
    <2> QED BY <2>1, <1>7
  <1>9. (n >= t + 2 => d >= 2 /\ f(1) = n - 1) /\ (n <= t - 2 => d >= 2 /\ f(1) = n + 1)
    BY <1>1
  <1> HIDE DEF f
  <1>10. Approach(n, t) \in Seq(Int)
    BY <1>4, <1>5, <1>6
  <1>11. \A c \in Elements(Approach(n, t)) : (t < c /\ c < n) \/ (n < c /\ c < t)
    <2> SUFFICES ASSUME NEW c \in Elements(Approach(n, t)) PROVE (t < c /\ c < n) \/ (n < c /\ c < t)
      OBVIOUS
    <2>1. PICK i \in 1 .. Len(hs) : c = f(hs[i])
      BY <1>4, <1>6 DEF Elements
    <2> QED BY <2>1, <1>4, <1>5
  <1> QED BY <1>8, <1>9, <1>10, <1>11

LEMMA WhenElements ==
  ASSUME NEW S, NEW s \in Seq(S), NEW cond \in BOOLEAN
  PROVE  When(cond, s) \in Seq(S) /\ Elements(When(cond, s)) = IF cond THEN Elements(s) ELSE {}
  <1>1. <<>> \in Seq(S) /\ DOMAIN <<>> = {}
    OBVIOUS
  <1> QED BY <1>1 DEF When, Elements

LEMMA OneElement ==
  ASSUME NEW S, NEW x \in S
  PROVE  <<x>> \in Seq(S) /\ Elements(<<x>>) = {x}
  BY DEF Elements

\* A first candidate, then others.
LEMMA FirstThenElements ==
  ASSUME NEW t \in Int, NEW w \in Seq(Int), NEW cond \in BOOLEAN
  PROVE  /\ When(cond, <<t>> \o w) \in Seq(Int)
         /\ ~cond => Elements(When(cond, <<t>> \o w)) = {}
         /\ cond => Elements(When(cond, <<t>> \o w)) = {t} \cup Elements(w)
  <1> DEFINE one == <<t>>
  <1>1. one \in Seq(Int) /\ Elements(one) = {t}
    BY OneElement
  <1> HIDE DEF one
  <1>2. one \o w \in Seq(Int) /\ Elements(one \o w) = {t} \cup Elements(w)
    BY <1>1, ConcatElements
  <1> DEFINE s == one \o w
  <1> HIDE DEF s
  <1>3. s \in Seq(Int) /\ Elements(s) = {t} \cup Elements(w)
    BY <1>2 DEF s
  <1>4. When(cond, s) \in Seq(Int) /\ Elements(When(cond, s)) = IF cond THEN Elements(s) ELSE {}
    BY <1>3, WhenElements
  <1> QED BY <1>3, <1>4 DEF s, one

\* What IntRange offers instead of a value of its range.
LEMMA IntRangeElements ==
  ASSUME NEW T, NEW lo \in Int, NEW hi \in Int, lo < hi, NEW v \in Int, v \in T.of
  PROVE  /\ TargetOf(lo, hi) \in lo .. hi - 1
         /\ IntRange(T, lo, hi).shrink[v] \in Seq(Int)
         /\ v = TargetOf(lo, hi) => Elements(IntRange(T, lo, hi).shrink[v]) = {}
         /\ v # TargetOf(lo, hi) =>
              Elements(IntRange(T, lo, hi).shrink[v]) =
                {TargetOf(lo, hi)}
                \cup (Elements(Approach(v, TargetOf(lo, hi))) \cap (lo .. hi - 1))
  <1> DEFINE t == TargetOf(lo, hi)
             a == Approach(v, t)
             w == Within(a, lo .. hi - 1)
  <1>1. t \in lo .. hi - 1 /\ t \in Int
    BY DEF TargetOf
  <1>2. IntRange(T, lo, hi).shrink[v] = When(v # t, <<t>> \o w)
    BY DEF IntRange, Strategy, any, Impl
  <1> HIDE DEF t
  <1>3. a \in Seq(Int)
    BY <1>1, ApproachFacts
  <1> HIDE DEF a
  <1>4. w \in Seq(Int) /\ Elements(w) = Elements(a) \cap (lo .. hi - 1)
    BY <1>3, WithinElements
  <1> HIDE DEF w
  <1>5. (v # t) \in BOOLEAN
    OBVIOUS
  <1>6. /\ When(v # t, <<t>> \o w) \in Seq(Int)
        /\ v = t => Elements(When(v # t, <<t>> \o w)) = {}
        /\ v # t => Elements(When(v # t, <<t>> \o w)) = {t} \cup Elements(w)
    BY <1>1, <1>4, <1>5, FirstThenElements
  <1> QED BY <1>1, <1>2, <1>4, <1>6 DEF t, a

-----------------------------------------------------------------------------
(* Integer strategies.                                                     *)

\* What the three conditions say, in terms of sets of candidates.
LEMMA BehavesByElements ==
  ASSUME NEW s,
         \A c \in Configs : \A k \in 1 .. 1 + c.max_size : s.strategy.gen[k] \subseteq s.domain,
         \A v \in s.domain : \A c \in Elements(s.strategy.shrink[v]) :
            c \in s.domain /\ s.weight[c] < s.weight[v],
         s.strays = {},
         \A f \in s.exact, u \in s.domain, v \in s.domain :
            f <= s.weight[u] /\ s.weight[u] < s.weight[v]
               => \E c \in Elements(s.strategy.shrink[v]) : f <= s.weight[c]
  PROVE  StaysInDomain(s) /\ Descends(s) /\ LeadsDown(s)
  <1>1. \A v \in s.domain : \A i \in DOMAIN s.strategy.shrink[v] :
           s.strategy.shrink[v][i] \in Elements(s.strategy.shrink[v])
    BY DEF Elements
  <1>0. Yields(s) = s.domain
    BY DEF Yields
  <1>2. StaysInDomain(s)
    BY <1>0, <1>1 DEF StaysInDomain
  <1>3. Descends(s)
    BY <1>0, <1>1 DEF Descends
  <1>4. LeadsDown(s)
    BY <1>0 DEF LeadsDown, Elements
  <1> QED BY <1>2, <1>3, <1>4

\* The instance knows the sizes that its configurations reach.
SizesReached == \A c \in Configs : 1 .. 1 + c.max_size \subseteq Sizes

\* S generates values of D only.
Generates(S, D) == \A k \in Sizes : S.gen[k] \subseteq D

\* The candidates for a value of D are smaller values of D.
ShrinksWithin(S, D, W) ==
    \A v \in D :
        /\ W[v] \in Nat
        /\ S.shrink[v] \in Seq(D)
        /\ \A c \in Elements(S.shrink[v]) : W[c] < W[v]

\* Besides, one candidate is smaller by one, unless no value of D is smaller.
\* Where every part of a strategy shrinks by units, so does the whole.
ShrinksByUnits(S, D, W) ==
    /\ ShrinksWithin(S, D, W)
    /\ \A v \in D :
          (\E u \in D : W[u] < W[v]) => \E c \in Elements(S.shrink[v]) : W[c] = W[v] - 1

\* The runner's values are those of all its subjects: a subject acts as a
\* strategy where it generates and shrinks its own values as the strategy does.
ActsAs(S, T, D) == (\A k \in Sizes : S.gen[k] = T.gen[k]) /\ (\A v \in D : S.shrink[v] = T.shrink[v])

\* A subject that acts as a strategy of which both hold, with its weights.
UnitSubject(s) ==
    /\ s.strays = {}
    /\ \E S : /\ ActsAs(s.strategy, S, s.domain)
              /\ Generates(S, s.domain) /\ ShrinksByUnits(S, s.domain, s.weight)

LEMMA SeqOfElements ==
  ASSUME NEW X, NEW s \in Seq(X), NEW D, Elements(s) \subseteq D
  PROVE  s \in Seq(D)
  <1>1. Len(s) \in Nat /\ s \in [1 .. Len(s) -> X]
    OBVIOUS
  <1>2. \A i \in 1 .. Len(s) : s[i] \in D
    BY <1>1 DEF Elements
  <1> QED BY <1>1, <1>2

LEMMA ElementsOfSeq ==
  ASSUME NEW D, NEW s \in Seq(D)
  PROVE  Elements(s) \subseteq D
  BY DEF Elements

LEMMA UnitBehaves ==
  ASSUME SizesReached, NEW s, UnitSubject(s), s.exact \subseteq Nat
  PROVE  StaysInDomain(s) /\ Descends(s) /\ LeadsDown(s)
  <1>0. Generates(s.strategy, s.domain) /\ ShrinksByUnits(s.strategy, s.domain, s.weight)
    <2>1. PICK S : /\ ActsAs(s.strategy, S, s.domain)
                   /\ Generates(S, s.domain) /\ ShrinksByUnits(S, s.domain, s.weight)
      BY Zenon DEF UnitSubject
    <2>2. \A k \in Sizes : s.strategy.gen[k] = S.gen[k]
      BY <2>1 DEF ActsAs
    <2>3. \A v \in s.domain : s.strategy.shrink[v] = S.shrink[v]
      BY <2>1 DEF ActsAs
    <2> QED BY <2>1, <2>2, <2>3 DEF Generates, ShrinksByUnits, ShrinksWithin
  <1>1. \A c \in Configs : \A k \in 1 .. 1 + c.max_size : s.strategy.gen[k] \subseteq s.domain
    BY <1>0 DEF SizesReached, Generates
  <1>2. \A v \in s.domain : \A c \in Elements(s.strategy.shrink[v]) :
           c \in s.domain /\ s.weight[c] < s.weight[v]
    BY <1>0, ElementsOfSeq DEF ShrinksByUnits, ShrinksWithin
  <1>3. ASSUME NEW f \in s.exact, NEW u \in s.domain, NEW v \in s.domain,
               f <= s.weight[u], s.weight[u] < s.weight[v]
        PROVE  \E c \in Elements(s.strategy.shrink[v]) : f <= s.weight[c]
    <2>1. PICK c \in Elements(s.strategy.shrink[v]) : s.weight[c] = s.weight[v] - 1
      BY <1>0, <1>3 DEF ShrinksByUnits
    <2>2. s.weight[u] \in Nat /\ s.weight[v] \in Nat /\ f \in Nat
      BY <1>0 DEF ShrinksByUnits, ShrinksWithin
    <2>3. f <= s.weight[v] - 1
      BY <1>3, <2>2
    <2> QED BY <2>1, <2>3
  <1>4. s.strays = {}
    BY DEF UnitSubject
  <1> QED BY <1>1, <1>2, <1>3, <1>4, BehavesByElements

\* int_range(lo .. hi) leads toward its target from any number, in the range or not.
LEMMA RangeWithin ==
  ASSUME NEW T, NEW lo \in Int, NEW hi \in Int, lo < hi,
         NEW D, lo .. hi - 1 \subseteq D, D \subseteq T.of, D \subseteq Int, NEW W,
         \A v \in D : W[v] = Abs(v - TargetOf(lo, hi))
  PROVE  ShrinksWithin(IntRange(T, lo, hi), D, W)
  <1> DEFINE t == TargetOf(lo, hi)
             range == lo .. hi - 1
             cs(v) == IntRange(T, lo, hi).shrink[v]
  <1>1. t \in range
    BY DEF TargetOf
  <1>2. ASSUME NEW v \in D
        PROVE  /\ cs(v) \in Seq(Int)
               /\ v = t => Elements(cs(v)) = {}
               /\ v # t => Elements(cs(v)) = {t} \cup (Elements(Approach(v, t)) \cap range)
    BY IntRangeElements
  <1> HIDE DEF t, cs, range
  <1>3. \A v \in D : v \in Int /\ W[v] = Abs(v - t) /\ t \in D
    BY <1>1 DEF t, range
  <1>4. ASSUME NEW v \in D, NEW c \in Elements(cs(v)) PROVE c \in D /\ W[c] < W[v]
    <2>1. v # t /\ (c = t \/ (c \in Elements(Approach(v, t)) /\ c \in range))
      BY <1>2
    <2>2. c \in D
      BY <2>1, <1>3 DEF range
    <2>3. v \in Int /\ c \in Int /\ t \in Int
      BY <2>2, <1>3
    <2>4. c = t \/ (t < c /\ c < v) \/ (v < c /\ c < t)
      BY <2>1, <2>3, ApproachFacts
    <2>5. W[v] = Abs(v - t) /\ W[c] = Abs(c - t)
      BY <2>2, <1>3
    <2>6. Abs(c - t) < Abs(v - t)
      BY <2>1, <2>3, <2>4 DEF Abs, Greater
    <2> QED BY <2>2, <2>5, <2>6
  <1>5. ASSUME NEW v \in D PROVE cs(v) \in Seq(D)
    <2>1. Elements(cs(v)) \subseteq D
      BY <1>4
    <2> QED BY <2>1, <1>2, SeqOfElements
  <1>6. ASSUME NEW v \in D PROVE W[v] \in Nat
    <2>1. v \in Int /\ t \in Int /\ W[v] = Abs(v - t)
      BY <1>3
    <2> QED BY <2>1, AbsFacts
  <1> QED BY <1>4, <1>5, <1>6 DEF ShrinksWithin, cs

\* int_range(lo .. hi) stays in its range, and shrinks toward 0 or lo by units:
\* a number is as large as it is far from the target.
THEOREM RangeByUnits ==
  ASSUME NEW T, NEW lo \in Int, NEW hi \in Int, lo < hi, lo .. hi - 1 \subseteq T.of, NEW W,
         \A v \in lo .. hi - 1 : W[v] = Abs(v - TargetOf(lo, hi))
  PROVE  /\ Generates(IntRange(T, lo, hi), lo .. hi - 1)
         /\ ShrinksByUnits(IntRange(T, lo, hi), lo .. hi - 1, W)
  <1> DEFINE t == TargetOf(lo, hi)
             D == lo .. hi - 1
             cs(v) == IntRange(T, lo, hi).shrink[v]
  <1>1. Generates(IntRange(T, lo, hi), D)
    BY DEF Generates, IntRange, Strategy, any, Impl, gen_range
  <1>2. t \in D
    BY DEF TargetOf
  <1>3. ASSUME NEW v \in D
        PROVE  /\ v = t => Elements(cs(v)) = {}
               /\ v # t => Elements(cs(v)) = {t} \cup (Elements(Approach(v, t)) \cap D)
    <2>1. v \in Int /\ v \in T.of
      OBVIOUS
    <2> QED BY <2>1, IntRangeElements
  <1> HIDE DEF t, cs
  <1>4. \A v \in D : v \in Int /\ W[v] = Abs(v - t) /\ t \in Int
    BY <1>2 DEF t
  <1>5. ShrinksWithin(IntRange(T, lo, hi), D, W)
    <2>1. D \subseteq Int
      OBVIOUS
    <2> QED BY <2>1, RangeWithin
  <1>6. ASSUME NEW v \in D, v # t
        PROVE  \E c \in Elements(cs(v)) : W[c] = W[v] - 1
    <2>1. v \in Int /\ t \in Int /\ W[v] = Abs(v - t)
      BY <1>4
    <2>2. CASE v >= t + 2
      <3>1. v - 1 \in D
        BY <2>1, <2>2, <1>2
      <3>2. v - 1 \in Elements(Approach(v, t))
        BY <2>1, <2>2, ApproachFacts
      <3>3. W[v - 1] = Abs(v - 1 - t)
        BY <3>1, <1>4
      <3>4. W[v - 1] = W[v] - 1
        BY <2>1, <2>2, <3>3 DEF Abs, Greater
      <3> HIDE DEF D
      <3> QED BY <3>1, <3>2, <3>4, <1>3, <1>6
    <2>3. CASE v <= t - 2
      <3>1. v + 1 \in D
        BY <2>1, <2>3, <1>2
      <3>2. v + 1 \in Elements(Approach(v, t))
        BY <2>1, <2>3, ApproachFacts
      <3>3. W[v + 1] = Abs(v + 1 - t)
        BY <3>1, <1>4
      <3>4. W[v + 1] = W[v] - 1
        BY <2>1, <2>3, <3>3 DEF Abs, Greater
      <3> HIDE DEF D
      <3> QED BY <3>1, <3>2, <3>4, <1>3, <1>6
    <2>4. CASE v \in {t - 1, t + 1}
      <3>1. W[t] = Abs(t - t)
        BY <1>2, <1>4
      <3>2. W[t] = W[v] - 1
        BY <2>1, <2>4, <3>1 DEF Abs, Greater
      <3> QED BY <3>2, <1>3, <1>6
    <2> QED BY <2>1, <2>2, <2>3, <2>4, <1>6
  <1>7. \A v \in D : W[v] \in Nat
    BY <1>4, AbsFacts
  <1>8. ASSUME NEW v \in D, NEW u \in D, W[u] < W[v] PROVE v # t
    <2>1. W[t] = Abs(t - t) /\ t \in Int
      BY <1>2, <1>4
    <2>2. Abs(t - t) = 0
      <3> DEFINE z == t - t
      <3>1. z = 0 /\ z \in Int
        BY <2>1
      <3> HIDE DEF z
      <3>2. Abs(z) = 0
        BY <3>1, AbsFacts
      <3> QED BY <3>2 DEF z
    <2>3. W[u] \in Nat
      BY <1>7
    <2>4. CASE v = t
      <3>1. W[v] = 0
        BY <2>1, <2>2, <2>4
      <3> QED BY <3>1, <2>3, <1>8
    <2> QED BY <2>4
  <1>9. ShrinksByUnits(IntRange(T, lo, hi), D, W)
    BY <1>5, <1>6, <1>8 DEF ShrinksByUnits, cs
  <1> QED BY <1>1, <1>9

LEMMA TowardZeroElements ==
  ASSUME NEW n \in Int
  PROVE  /\ shrink_toward_zero(n) \in Seq(Int)
         /\ n = 0 => Elements(shrink_toward_zero(n)) = {}
         /\ n # 0 => Elements(shrink_toward_zero(n)) = {0} \cup Elements(Approach(n, 0))
  <1> DEFINE a == Approach(n, 0)
             t == 0
  <1>1. a \in Seq(Int) /\ t \in Int /\ (n # t) \in BOOLEAN
    BY ApproachFacts
  <1>2. shrink_toward_zero(n) = When(n # t, <<t>> \o a)
    BY DEF shrink_toward_zero
  <1> HIDE DEF a, t
  <1>3. /\ When(n # t, <<t>> \o a) \in Seq(Int)
        /\ n = t => Elements(When(n # t, <<t>> \o a)) = {}
        /\ n # t => Elements(When(n # t, <<t>> \o a)) = {t} \cup Elements(a)
    BY <1>1, FirstThenElements
  <1> QED BY <1>2, <1>3 DEF a, t

\* p doubles from 1 on.
Doubled(p, n) == p = [i \in 0 .. n |-> IF i = 0 THEN 1 ELSE 2 * p[i - 1]]

LEMMA DoubledExists ==
  ASSUME NEW m \in Nat
  PROVE  \E p : Doubled(p, m)
  <1> DEFINE S == {n \in Nat : \E p : Doubled(p, n)}
  <1>1. 0 \in S
    <2>1. Doubled([i \in 0 .. 0 |-> 1], 0)
      BY DEF Doubled
    <2> QED BY <2>1
  <1>2. ASSUME NEW n \in Nat, n \in S PROVE n + 1 \in S
    <2>1. PICK p : Doubled(p, n)
      BY <1>2
    <2> DEFINE h == [i \in 0 .. n + 1 |-> IF i = n + 1 THEN 2 * p[n] ELSE p[i]]
    <2>2. \A i \in 0 .. n : h[i] = p[i] /\ i \in 0 .. n + 1
      OBVIOUS
    <2>3. h[n + 1] = 2 * p[n]
      OBVIOUS
    <2>4. ASSUME NEW i \in 0 .. n + 1 PROVE h[i] = IF i = 0 THEN 1 ELSE 2 * h[i - 1]
      <3>1. CASE i = n + 1
        <4>1. h[i - 1] = p[n] /\ i # 0
          BY <3>1, <2>2
        <4> QED BY <3>1, <4>1, <2>3
      <3>2. CASE i = 0
        BY <3>2, <2>1, <2>2 DEF Doubled
      <3>3. CASE i # 0 /\ i # n + 1
        <4>1. i \in 0 .. n /\ i - 1 \in 0 .. n
          BY <3>3
        <4>2. p[i] = 2 * p[i - 1]
          BY <4>1, <3>3, <2>1 DEF Doubled
        <4> QED BY <3>3, <4>1, <4>2, <2>2
      <3> QED BY <3>1, <3>2, <3>3
    <2>5. DOMAIN h = 0 .. n + 1 /\ h = [i \in 0 .. n + 1 |-> h[i]]
      OBVIOUS
    <2> HIDE DEF h
    <2>6. Doubled(h, n + 1)
      BY <2>4, <2>5 DEF Doubled
    <2> QED BY <2>6
  <1>3. \A n \in Nat : n \in S
    <2> HIDE DEF S
    <2> QED BY <1>1, <1>2, Induction
  <1> QED BY <1>3

\* There is one such p, on whatever domain.
LEMMA DoubledAgree ==
  ASSUME NEW m \in Nat, NEW n \in Nat, m <= n, NEW p, NEW q, Doubled(p, m), Doubled(q, n)
  PROVE  p[m] = q[m]
  <1> DEFINE S == {i \in Nat : i <= m => p[i] = q[i]}
  <1>1. 0 \in S
    BY DEF Doubled
  <1>2. ASSUME NEW i \in Nat, i \in S PROVE i + 1 \in S
    <2>1. SUFFICES ASSUME i + 1 <= m PROVE p[i + 1] = q[i + 1]
      OBVIOUS
    <2>2. i + 1 \in 0 .. m /\ i + 1 \in 0 .. n /\ i + 1 # 0 /\ (i + 1) - 1 = i
      BY <2>1
    <2>3. p[i + 1] = 2 * p[i] /\ q[i + 1] = 2 * q[i]
      BY <2>2 DEF Doubled
    <2>4. p[i] = q[i]
      BY <2>1, <1>2
    <2> QED BY <2>3, <2>4
  <1>3. \A i \in Nat : i \in S
    <2> HIDE DEF S
    <2> QED BY <1>1, <1>2, Induction
  <1> QED BY <1>3

LEMMA ShiftedNext ==
  ASSUME NEW n \in Nat
  PROVE  Shifted(0) = 1 /\ Shifted(n + 1) = 2 * Shifted(n)
  <1> DEFINE p(k) == CHOOSE p : Doubled(p, k)
  <1>1. \A k \in Nat : Doubled(p(k), k)
    BY DoubledExists
  <1>2. \A k \in Nat : Shifted(k) = p(k)[k]
    BY DEF Shifted, Doubled
  <1> HIDE DEF p
  <1>3. p(0)[0] = 1
    BY <1>1 DEF Doubled
  <1>4. p(n + 1)[n + 1] = 2 * p(n + 1)[n]
    <2>1. Doubled(p(n + 1), n + 1)
      BY <1>1
    <2>2. n + 1 \in 0 .. n + 1 /\ n + 1 # 0 /\ (n + 1) - 1 = n
      OBVIOUS
    <2> QED BY <2>1, <2>2 DEF Doubled
  <1>5. p(n)[n] = p(n + 1)[n]
    BY <1>1, DoubledAgree
  <1> QED BY <1>2, <1>3, <1>4, <1>5

\* Powers of two are positive and increase.
LEMMA ShiftedFacts ==
  ASSUME NEW m \in Nat, NEW n \in Nat, m <= n
  PROVE  Shifted(m) \in Nat \ {0} /\ Shifted(m) <= Shifted(n)
  <1> DEFINE S == {i \in Nat : Shifted(i) \in Nat \ {0}}
             T == {i \in Nat : m <= i => Shifted(m) <= Shifted(i)}
  <1>1. 0 \in S /\ \A i \in Nat : i \in S => i + 1 \in S
    BY ShiftedNext
  <1>2. \A i \in Nat : i \in S
    <2> HIDE DEF S
    <2> QED BY <1>1, Induction
  <1>3. 0 \in T
    BY <1>2
  <1>4. ASSUME NEW i \in Nat, i \in T PROVE i + 1 \in T
    <2>1. Shifted(i + 1) = 2 * Shifted(i) /\ Shifted(i) \in Nat /\ Shifted(m) \in Nat /\ Shifted(i + 1) \in Nat
      BY <1>2, ShiftedNext
    <2>2. CASE m = i + 1
      BY <2>1, <2>2
    <2>3. CASE m # i + 1
      BY <2>1, <2>3, <1>4
    <2> QED BY <2>2, <2>3
  <1>5. \A i \in Nat : i \in T
    <2> HIDE DEF T
    <2> QED BY <1>3, <1>4, Induction
  <1> QED BY <1>2, <1>5

\* No type is drawn wider than it is.
LEMMA WidthFacts ==
  ASSUME NEW bits \in Nat \ {0}, NEW k \in Sizes
  PROVE  Width(bits, k) \in Nat \ {0} /\ Width(bits, k) <= bits
  BY ArbitraryAssumption DEF Width, Lesser, Greater

\* any::<u8>() and the other unsigned types, of every width: what they draw and
\* what they offer is a number of the type, and they shrink by units toward 0.
THEOREM UnsignedByUnits ==
  ASSUME NEW bits \in Nat \ {0}, NEW W, \A v \in Unsigned(bits).of : W[v] = v
  PROVE  /\ Generates(any(Unsigned(bits)), Unsigned(bits).of)
         /\ ShrinksByUnits(any(Unsigned(bits)), Unsigned(bits).of, W)
  <1> DEFINE m == Shifted(bits) - 1
             D == 0 .. m
             cs(v) == any(Unsigned(bits)).shrink[v]
  <1>1. m \in Nat
    BY ShiftedFacts
  <1>2. Unsigned(bits).of = D /\ \A v \in D : cs(v) = shrink_toward_zero(v)
    BY DEF Unsigned, any, Impl
  <1>3. ASSUME NEW k \in Sizes PROVE any(Unsigned(bits)).gen[k] \subseteq D
    <2> DEFINE w == Width(bits, k)
    <2>1. any(Unsigned(bits)).gen[k] = 0 .. Shifted(w) - 1
      BY DEF Unsigned, any, Impl
    <2>2. w \in Nat /\ w <= bits
      BY WidthFacts
    <2> HIDE DEF w
    <2>3. Shifted(w) \in Nat /\ Shifted(bits) \in Nat /\ Shifted(w) <= Shifted(bits)
      BY <2>2, ShiftedFacts
    <2> QED BY <2>1, <2>3
  <1> HIDE DEF m, cs
  <1>4. \A v \in D : v \in Int /\ v >= 0 /\ W[v] = v
    BY <1>1, <1>2
  <1>5. ASSUME NEW v \in D
        PROVE  /\ v = 0 => Elements(cs(v)) = {}
               /\ v # 0 => Elements(cs(v)) = {0} \cup Elements(Approach(v, 0))
    BY <1>2, <1>4, TowardZeroElements
  <1>6. ASSUME NEW v \in D, NEW c \in Elements(cs(v)) PROVE c \in D /\ W[c] < W[v]
    <2>1. v # 0 /\ (c = 0 \/ c \in Elements(Approach(v, 0)))
      BY <1>5
    <2>2. c = 0 \/ (0 < c /\ c < v) \/ (v < c /\ c < 0)
      <3>1. v \in Int /\ 0 \in Int
        BY <1>4
      <3>2. \A e \in Elements(Approach(v, 0)) : (0 < e /\ e < v) \/ (v < e /\ e < 0)
        BY <3>1, ApproachFacts, Zenon
      <3> QED BY <2>1, <3>2
    <2>3. c \in Int
      <3> DEFINE a == Approach(v, 0)
      <3>1. v \in Int /\ 0 \in Int
        BY <1>4
      <3>2. a \in Seq(Int)
        BY <3>1, ApproachFacts, Zenon
      <3>3. c = 0 \/ c \in Elements(a)
        BY <2>1
      <3> HIDE DEF a
      <3>4. c = 0 \/ \E i \in 1 .. Len(a) : c = a[i]
        BY <3>2, <3>3 DEF Elements
      <3> QED BY <3>2, <3>4
    <2>4. c \in D /\ c < v
      BY <2>1, <2>2, <2>3, <1>1, <1>4
    <2> QED BY <2>4, <1>4
  <1>7. ASSUME NEW v \in D, v # 0 PROVE \E c \in Elements(cs(v)) : W[c] = W[v] - 1
    <2>1. CASE v >= 2
      <3>1. v - 1 \in Elements(Approach(v, 0))
        BY <2>1, <1>4, ApproachFacts
      <3>2. v - 1 \in D
        BY <2>1, <1>1, <1>4
      <3>3. W[v - 1] = W[v] - 1
        BY <3>2, <1>4
      <3> HIDE DEF D
      <3> QED BY <3>1, <3>3, <1>5, <1>7
    <2>2. CASE v = 1
      <3>1. 0 \in D
        BY <1>1
      <3>2. W[0] = W[v] - 1
        BY <2>2, <3>1, <1>4
      <3> HIDE DEF D
      <3> QED BY <3>2, <1>5, <1>7
    <2> QED BY <2>1, <2>2, <1>4, <1>7
  <1>8. ASSUME NEW v \in D, NEW u \in D, W[u] < W[v] PROVE v # 0
    BY <1>4, <1>8
  <1>9. ShrinksByUnits(any(Unsigned(bits)), D, W)
    <2>1. \A v \in D : W[v] \in Nat
      BY <1>4
    <2>2. ASSUME NEW v \in D PROVE cs(v) \in Seq(D)
      <3>1. cs(v) \in Seq(Int)
        BY <1>2, <1>4, TowardZeroElements
      <3>2. Elements(cs(v)) \subseteq D
        BY <1>6
      <3> QED BY <3>1, <3>2, SeqOfElements
    <2> HIDE DEF D
    <2> QED BY <2>1, <2>2, <1>6, <1>7, <1>8 DEF ShrinksByUnits, ShrinksWithin, cs
  <1> QED BY <1>2, <1>3, <1>9 DEF Generates

\* 0, then the absolute value, then the way to 0.
LEMMA SignedElements ==
  ASSUME NEW n \in Int
  PROVE  /\ shrink_signed(n) \in Seq(Int)
         /\ n = 0 => Elements(shrink_signed(n)) = {}
         /\ n # 0 => /\ {0} \cup Elements(Approach(n, 0)) \subseteq Elements(shrink_signed(n))
                     /\ \A c \in Elements(shrink_signed(n)) :
                           c = 0 \/ (n < 0 /\ c = -n) \/ c \in Elements(Approach(n, 0))
                     /\ n < 0 /\ n # MinOf(WideBits) => -n \in Elements(shrink_signed(n))
  <1> DEFINE a == Approach(n, 0)
             neg == n < 0 /\ n # MinOf(WideBits)
             one == <<0>>
             abs == When(neg, <<-n>>)
             all == (one \o abs) \o a
  <1>1. a \in Seq(Int)
    BY ApproachFacts
  <1>2. one \in Seq(Int) /\ Elements(one) = {0}
    BY DEF Elements
  <1>3. abs \in Seq(Int) /\ Elements(abs) = IF neg THEN {-n} ELSE {}
    <2> DEFINE m == -n
               s == <<m>>
    <2>1. s \in Seq(Int) /\ Elements(s) = {m}
      <3>1. m \in Int
        OBVIOUS
      <3> HIDE DEF m
      <3> QED BY <3>1, OneElement
    <2>2. neg \in BOOLEAN
      OBVIOUS
    <2> HIDE DEF s, neg
    <2>3. When(neg, s) \in Seq(Int) /\ Elements(When(neg, s)) = IF neg THEN Elements(s) ELSE {}
      BY <2>1, <2>2, WhenElements
    <2> QED BY <2>1, <2>3 DEF s
  <1>4. shrink_signed(n) = When(n # 0, all)
    BY DEF shrink_signed
  <1>5. neg => n < 0
    OBVIOUS
  <1> HIDE DEF a, one, abs, neg
  <1>6. one \o abs \in Seq(Int) /\ Elements(one \o abs) = {0} \cup Elements(abs)
    BY <1>2, <1>3, ConcatElements
  <1>7. all \in Seq(Int) /\ Elements(all) = {0} \cup Elements(abs) \cup Elements(a)
    <2> DEFINE b == one \o abs
    <2> HIDE DEF b
    <2>1. b \in Seq(Int) /\ Elements(b) = {0} \cup Elements(abs)
      BY <1>6 DEF b
    <2>2. b \o a \in Seq(Int) /\ Elements(b \o a) = Elements(b) \cup Elements(a)
      BY <1>1, <2>1, ConcatElements
    <2> QED BY <2>1, <2>2 DEF b
  <1> HIDE DEF all
  <1>8. /\ When(n # 0, all) \in Seq(Int)
        /\ n # 0 => When(n # 0, all) = all
        /\ n = 0 => Elements(When(n # 0, all)) = {}
    BY <1>7 DEF When, Elements
  <1>9. neg <=> n < 0 /\ n # MinOf(WideBits)
    BY DEF neg
  <1>10. a = Approach(n, 0)
    BY DEF a
  <1> QED BY <1>3, <1>4, <1>5, <1>7, <1>8, <1>9, <1>10

\* A subject that is any::<i8>() or another signed type; the property fails far
\* from 0, on both sides of it.  Of a number and its negation the negative one
\* counts as larger; only then there is one smallest failing value.
SignedSubject(s) ==
    \E bits \in 1 .. WideBits :
        /\ s.domain = Signed(bits).of /\ ActsAs(s.strategy, any(Signed(bits)), s.domain)
        /\ \A v \in s.domain : s.weight[v] = 2 * Abs(v) + (IF v < 0 THEN 1 ELSE 0)
        /\ s.strays = {} /\ \A f \in s.exact : \E half \in Nat : f = 2 * half

\* any::<i8>() and the other signed types, of every width: although shrinking
\* computes with WideBits bits and offers the absolute value first, no candidate
\* leaves the type, and none is as large as the number it was made of.
THEOREM SignedBehaves ==
  ASSUME SizesReached, NEW s, SignedSubject(s), s.exact \subseteq Nat
  PROVE  StaysInDomain(s) /\ Descends(s) /\ LeadsDown(s)
  <1>1. PICK bits \in 1 .. WideBits :
            /\ s.domain = Signed(bits).of /\ ActsAs(s.strategy, any(Signed(bits)), s.domain)
            /\ \A v \in s.domain : s.weight[v] = 2 * Abs(v) + (IF v < 0 THEN 1 ELSE 0)
            /\ s.strays = {} /\ \A f \in s.exact : \E half \in Nat : f = 2 * half
    BY Zenon DEF SignedSubject
  <1> DEFINE K == Shifted(bits - 1)
             D == -K .. K - 1
             cs(v) == s.strategy.shrink[v]
             E(v) == Elements(shrink_signed(v))
  <1>2. bits \in Nat \ {0} /\ bits - 1 \in Nat /\ WideBits - 1 \in Nat /\ bits - 1 <= WideBits - 1
    BY ArbitraryAssumption
  <1>3. K \in Nat \ {0} /\ Shifted(WideBits - 1) \in Nat /\ K <= Shifted(WideBits - 1)
    BY <1>2, ShiftedFacts
  <1>4. s.domain = D /\ \A v \in D : cs(v) = Within(shrink_signed(v), D)
    BY <1>1 DEF ActsAs, Signed, any, Impl, MinOf, MaxOf
  <1>5. \A c \in Configs : \A k \in 1 .. 1 + c.max_size : s.strategy.gen[k] \subseteq s.domain
    <2> SUFFICES ASSUME NEW c \in Configs, NEW k \in 1 .. 1 + c.max_size
                 PROVE  s.strategy.gen[k] \subseteq s.domain
      OBVIOUS
    <2>1. k \in Sizes
      BY DEF SizesReached
    <2> DEFINE w == Width(bits, k)
               H == Shifted(w - 1)
    <2>2. s.strategy.gen[k] = {IF v >= H THEN v - Shifted(w) ELSE v : v \in 0 .. Shifted(w) - 1}
      BY <2>1, <1>1 DEF ActsAs, Signed, any, Impl
    <2>3. w \in Nat \ {0} /\ w <= bits
      BY <2>1, <1>2, WidthFacts
    <2> HIDE DEF w
    <2>4. w - 1 \in Nat /\ w - 1 <= bits - 1 /\ (w - 1) + 1 = w
      BY <2>3, <1>2
    <2>5. H \in Nat /\ H <= K /\ Shifted(w) = 2 * H
      BY <2>4, <1>2, ShiftedFacts, ShiftedNext
    <2> HIDE DEF H, K
    <2>6. \A v \in 0 .. Shifted(w) - 1 : (IF v >= H THEN v - Shifted(w) ELSE v) \in D
      BY <2>5, <1>3
    <2> HIDE DEF D
    <2> QED BY <2>2, <2>6, <1>4
  <1> HIDE DEF cs
  <1>6. \A v \in D : v \in Int /\ s.weight[v] = 2 * Abs(v) + (IF v < 0 THEN 1 ELSE 0)
    BY <1>1, <1>4
  <1>7. \A v \in D : -v \in D => v # MinOf(WideBits)
    BY <1>3 DEF MinOf
  <1> HIDE DEF K
  <1>8. ASSUME NEW v \in D PROVE Elements(cs(v)) = E(v) \cap D
    <2>1. shrink_signed(v) \in Seq(Int)
      BY <1>6, SignedElements
    <2> DEFINE all == shrink_signed(v)
    <2>2. cs(v) = Within(all, D)
      BY <1>4
    <2> HIDE DEF all, D
    <2>3. Elements(Within(all, D)) = Elements(all) \cap D
      BY <2>1, WithinElements DEF all
    <2> QED BY <2>2, <2>3 DEF all
  <1>9. ASSUME NEW v \in D
        PROVE  /\ v = 0 => E(v) = {}
               /\ v # 0 => 0 \in E(v)
               /\ \A c \in E(v) : c = 0 \/ (v < 0 /\ c = -v) \/ (0 < c /\ c < v) \/ (v < c /\ c < 0)
               /\ v >= 2 => v - 1 \in E(v)
               /\ v <= -2 => v + 1 \in E(v)
               /\ v < 0 /\ -v \in D => -v \in E(v)
    <2>1. v \in Int /\ 0 \in Int /\ 0 + 2 = 2 /\ 0 - 2 = -2
      BY <1>6
    <2>2. /\ \A c \in Elements(Approach(v, 0)) : (0 < c /\ c < v) \/ (v < c /\ c < 0)
          /\ v >= 0 + 2 => v - 1 \in Elements(Approach(v, 0))
          /\ v <= 0 - 2 => v + 1 \in Elements(Approach(v, 0))
      BY <2>1, ApproachFacts, Zenon
    <2>3. v # MinOf(WideBits) \/ ~(-v \in D)
      BY <1>7
    <2>4. /\ v = 0 => E(v) = {}
          /\ v # 0 => /\ {0} \cup Elements(Approach(v, 0)) \subseteq E(v)
                      /\ \A c \in E(v) :
                            c = 0 \/ (v < 0 /\ c = -v) \/ c \in Elements(Approach(v, 0))
                      /\ v < 0 /\ v # MinOf(WideBits) => -v \in E(v)
      BY <2>1, SignedElements, Zenon
    <2> HIDE DEF D, E
    <2>5. v # 0 => 0 \in E(v)
      BY <2>4
    <2>6. \A c \in E(v) : c = 0 \/ (v < 0 /\ c = -v) \/ (0 < c /\ c < v) \/ (v < c /\ c < 0)
      BY <2>2, <2>4
    <2>7. (v >= 2 => v - 1 \in E(v)) /\ (v <= -2 => v + 1 \in E(v))
      BY <2>1, <2>2, <2>4
    <2>8. v < 0 /\ -v \in D => -v \in E(v)
      BY <2>1, <2>3, <2>4
    <2> QED BY <2>4, <2>5, <2>6, <2>7, <2>8
  <1> HIDE DEF E
  <1>10. ASSUME NEW v \in D, NEW c \in Elements(cs(v)) PROVE c \in D /\ s.weight[c] < s.weight[v]
    <2>1. c \in E(v) /\ c \in D /\ v # 0
      BY <1>8, <1>9
    <2>2. v \in Int /\ c \in Int
      BY <2>1, <1>6
    <2>3. c = 0 \/ (v < 0 /\ c = -v) \/ (0 < c /\ c < v) \/ (v < c /\ c < 0)
      BY <2>1, <1>9
    <2>4. 2 * Abs(c) + (IF c < 0 THEN 1 ELSE 0) < 2 * Abs(v) + (IF v < 0 THEN 1 ELSE 0)
      BY <2>1, <2>2, <2>3 DEF Abs, Greater
    <2> QED BY <2>1, <2>4, <1>6
  <1>11. ASSUME NEW f \in s.exact, NEW u \in D, NEW v \in D,
                f <= s.weight[u], s.weight[u] < s.weight[v]
         PROVE  \E c \in Elements(cs(v)) : f <= s.weight[c]
    <2>1. PICK half \in Nat : f = 2 * half
      BY <1>1, <1>11
    <2> DEFINE W(x) == 2 * Abs(x) + (IF x < 0 THEN 1 ELSE 0)
    <2>2. \A x \in D : x \in Int /\ s.weight[x] = W(x)
      BY <1>6
    <2>3. f <= W(u) /\ W(u) < W(v) /\ u \in Int /\ v \in Int /\ f \in Nat
      BY <2>1, <2>2, <1>11
    <2>4. SUFFICES ASSUME TRUE PROVE \E c \in E(v) \cap D : f <= W(c)
      BY <2>2, <1>8
    <2>5. 0 \in D /\ v # 0
      BY <2>3, <1>3 DEF Abs, Greater
    <2>6. CASE v >= 2
      <3>1. v - 1 \in D /\ f <= W(v - 1)
        BY <2>1, <2>3, <2>6, <1>3 DEF Abs, Greater
      <3> HIDE DEF D, W
      <3> QED BY <2>6, <3>1, <1>9
    <2>7. CASE v < 0 /\ -v \in D
      <3>1. f <= W(-v)
        BY <2>1, <2>3, <2>7 DEF Abs, Greater
      <3> HIDE DEF D, W
      <3> QED BY <2>7, <3>1, <1>9
    <2>8. CASE v <= -2 /\ ~(-v \in D)
      <3>1. v = -K /\ v + 1 \in D
        BY <2>8, <1>3
      <3>2. f <= W(v + 1)
        <4>1. u > v /\ u < -v
          <5>1. u # v
            BY <2>3 DEF Abs, Greater
          <5>2. u >= -K /\ u <= K - 1
            OBVIOUS
          <5> QED BY <2>3, <3>1, <5>1, <5>2, <1>3
        <4>2. W(u) <= 2 * (-v - 1) + 1
          BY <2>3, <4>1 DEF Abs, Greater
        <4>3. W(v + 1) = 2 * (-v - 1) + 1
          BY <2>3, <2>8 DEF Abs, Greater
        <4> QED BY <2>3, <4>2, <4>3 DEF Abs, Greater
      <3> HIDE DEF D, W
      <3> QED BY <2>8, <3>1, <3>2, <1>9
    <2>9. CASE v = 1
      <3>1. f <= W(0)
        BY <2>1, <2>3, <2>9 DEF Abs, Greater
      <3> HIDE DEF D, W
      <3> QED BY <2>5, <3>1, <1>9
    <2>10. CASE v = -1 /\ ~(-v \in D)
      <3>1. K = 1 /\ u = 0
        BY <2>3, <2>10, <1>3 DEF Abs, Greater
      <3>2. f <= W(0)
        BY <2>3, <3>1
      <3> HIDE DEF D, W
      <3> QED BY <2>5, <3>2, <1>9
    <2> QED BY <2>3, <2>5, <2>6, <2>7, <2>8, <2>9, <2>10
  <1> QED BY <1>1, <1>4, <1>5, <1>10, <1>11, BehavesByElements DEF cs

-----------------------------------------------------------------------------
(* Strategies made of strategies.                                          *)

\* One of several: every branch shrinks every value without leaving the
\* domain, and one branch shrinks by units.
THEOREM OneOfByUnits ==
  ASSUME NEW D, NEW W, NEW N \in Nat \ {0}, NEW Ss, DOMAIN Ss = 1 .. N,
         \A i \in 1 .. N :
            D \subseteq Ss[i].of /\ Generates(Ss[i], D) /\ ShrinksWithin(Ss[i], D, W),
         \E i \in 1 .. N : ShrinksByUnits(Ss[i], D, W)
  PROVE  Generates(OneOf(Ss), D) /\ ShrinksByUnits(OneOf(Ss), D, W)
  <1> DEFINE cs(v) == OneOf(Ss).shrink[v]
             ss(v) == [i \in 1 .. N |-> Ss[i].shrink[v]]
  <1>1. Generates(OneOf(Ss), D)
    <2>1. \A k \in Sizes : OneOf(Ss).gen[k] = UNION {Ss[i].gen[k] : i \in 1 .. N}
      BY DEF OneOf, Strategy, any, Impl
    <2> QED BY <2>1 DEF Generates
  <1>2. ASSUME NEW v \in D PROVE cs(v) = FlattenSeq(ss(v))
    <2>1. v \in UNION {Ss[i].of : i \in DOMAIN Ss}
      OBVIOUS
    <2> QED BY <2>1 DEF OneOf, Strategy, any, Impl, Flat, Mapped
  <1> HIDE DEF cs
  <1>3. ASSUME NEW v \in D
        PROVE  cs(v) \in Seq(D) /\ Elements(cs(v)) = UNION {Elements(Ss[i].shrink[v]) : i \in 1 .. N}
    <2>1. \A i \in 1 .. N : Ss[i].shrink[v] \in Seq(D)
      BY DEF ShrinksWithin
    <2>2. ss(v) \in Seq(Seq(D)) /\ DOMAIN ss(v) = 1 .. N
      BY <2>1
    <2>3. \A i \in 1 .. N : ss(v)[i] = Ss[i].shrink[v]
      OBVIOUS
    <2> DEFINE t == ss(v)
    <2>4. cs(v) = FlattenSeq(t)
      BY <1>2
    <2>5. t \in Seq(Seq(D)) /\ DOMAIN t = 1 .. N /\ \A i \in 1 .. N : t[i] = Ss[i].shrink[v]
      BY <2>2, <2>3
    <2> HIDE DEF t
    <2>6. FlattenSeq(t) \in Seq(D) /\ Elements(FlattenSeq(t)) = UNION {Elements(t[i]) : i \in DOMAIN t}
      BY <2>5, FlattenElements
    <2> QED BY <2>4, <2>5, <2>6
  <1>4. ShrinksWithin(OneOf(Ss), D, W)
    <2>1. ASSUME NEW v \in D, NEW c \in Elements(cs(v)) PROVE W[c] < W[v]
      BY <1>3, <2>1 DEF ShrinksWithin
    <2>2. \A v \in D : W[v] \in Nat
      BY DEF ShrinksWithin
    <2> QED BY <1>3, <2>1, <2>2 DEF ShrinksWithin, cs
  <1>5. PICK i \in 1 .. N : ShrinksByUnits(Ss[i], D, W)
    OBVIOUS
  <1>6. ASSUME NEW v \in D, \E u \in D : W[u] < W[v]
        PROVE  \E c \in Elements(cs(v)) : W[c] = W[v] - 1
    <2>1. PICK c \in Elements(Ss[i].shrink[v]) : W[c] = W[v] - 1
      BY <1>5, <1>6 DEF ShrinksByUnits
    <2>2. c \in Elements(cs(v))
      BY <1>3
    <2> QED BY <2>1, <2>2
  <1> QED BY <1>1, <1>4, <1>6 DEF ShrinksByUnits, cs

\* The same with weights: a branch that is never drawn shrinks all the same.
THEOREM WeightedOneOfByUnits ==
  ASSUME NEW D, NEW W, NEW N \in Nat \ {0}, NEW ws, NEW Ss, DOMAIN Ss = 1 .. N,
         \A i \in 1 .. N :
            D \subseteq Ss[i].of /\ Generates(Ss[i], D) /\ ShrinksWithin(Ss[i], D, W),
         \E i \in 1 .. N : ShrinksByUnits(Ss[i], D, W)
  PROVE  Generates(WeightedOneOf(ws, Ss), D) /\ ShrinksByUnits(WeightedOneOf(ws, Ss), D, W)
  <1> DEFINE S == WeightedOneOf(ws, Ss)
             T == OneOf(Ss)
  <1>1. Generates(T, D) /\ ShrinksByUnits(T, D, W)
    BY OneOfByUnits
  <1>2. S.shrink = T.shrink
    BY DEF WeightedOneOf, OneOf, Strategy, any, Impl
  <1>3. \A k \in Sizes : S.gen[k] \subseteq T.gen[k]
    <2>1. \A k \in Sizes : S.gen[k] = UNION {Ss[i].gen[k] : i \in {j \in DOMAIN Ss : ws[j] > 0}}
      BY DEF WeightedOneOf, OneOf, Strategy, any, Impl
    <2>2. \A k \in Sizes : T.gen[k] = UNION {Ss[i].gen[k] : i \in DOMAIN Ss}
      BY DEF OneOf, Strategy, any, Impl
    <2> HIDE DEF S, T
    <2> QED BY <2>1, <2>2
  <1> HIDE DEF S, T
  <1>4. Generates(S, D) /\ ShrinksByUnits(S, D, W)
    BY <1>1, <1>2, <1>3 DEF Generates, ShrinksByUnits, ShrinksWithin
  <1> QED BY <1>4 DEF S

\* t adds up w.
Summed(t, w, n) == t = [i \in 0 .. n |-> IF i = 0 THEN 0 ELSE t[i - 1] + w[i]]

Total(w, n) == LET t[i \in 0 .. n] == IF i = 0 THEN 0 ELSE t[i - 1] + w[i] IN t[n]

LEMMA SummedExists ==
  ASSUME NEW w, NEW m \in Nat
  PROVE  \E t : Summed(t, w, m)
  <1> DEFINE S == {n \in Nat : \E t : Summed(t, w, n)}
  <1>1. 0 \in S
    <2>1. Summed([i \in 0 .. 0 |-> 0], w, 0)
      BY DEF Summed
    <2> QED BY <2>1
  <1>2. ASSUME NEW n \in Nat, n \in S PROVE n + 1 \in S
    <2>1. PICK t : Summed(t, w, n)
      BY <1>2
    <2> DEFINE h == [i \in 0 .. n + 1 |-> IF i = n + 1 THEN t[n] + w[n + 1] ELSE t[i]]
    <2>2. \A i \in 0 .. n : h[i] = t[i] /\ i \in 0 .. n + 1
      OBVIOUS
    <2>3. h[n + 1] = t[n] + w[n + 1]
      OBVIOUS
    <2>4. ASSUME NEW i \in 0 .. n + 1 PROVE h[i] = IF i = 0 THEN 0 ELSE h[i - 1] + w[i]
      <3>1. CASE i = n + 1
        <4>1. h[i - 1] = t[n] /\ i # 0
          BY <3>1, <2>2
        <4> QED BY <3>1, <4>1, <2>3
      <3>2. CASE i = 0
        BY <3>2, <2>1, <2>2 DEF Summed
      <3>3. CASE i # 0 /\ i # n + 1
        <4>1. i \in 0 .. n /\ i - 1 \in 0 .. n
          BY <3>3
        <4>2. t[i] = t[i - 1] + w[i]
          BY <4>1, <3>3, <2>1 DEF Summed
        <4> QED BY <3>3, <4>1, <4>2, <2>2
      <3> QED BY <3>1, <3>2, <3>3
    <2>5. DOMAIN h = 0 .. n + 1 /\ h = [i \in 0 .. n + 1 |-> h[i]]
      OBVIOUS
    <2> HIDE DEF h
    <2>6. Summed(h, w, n + 1)
      BY <2>4, <2>5 DEF Summed
    <2> QED BY <2>6
  <1>3. \A n \in Nat : n \in S
    <2> HIDE DEF S
    <2> QED BY <1>1, <1>2, Induction
  <1> QED BY <1>3

\* A sum looks at the first n numbers only.
LEMMA SummedAgree ==
  ASSUME NEW m \in Nat, NEW n \in Nat, m <= n, NEW w, NEW x, \A i \in 1 .. m : w[i] = x[i],
         NEW p, NEW q, Summed(p, w, m), Summed(q, x, n)
  PROVE  p[m] = q[m]
  <1> DEFINE S == {i \in Nat : i <= m => p[i] = q[i]}
  <1>1. 0 \in S
    BY DEF Summed
  <1>2. ASSUME NEW i \in Nat, i \in S PROVE i + 1 \in S
    <2>1. SUFFICES ASSUME i + 1 <= m PROVE p[i + 1] = q[i + 1]
      OBVIOUS
    <2>2. i + 1 \in 0 .. m /\ i + 1 \in 0 .. n /\ i + 1 # 0 /\ (i + 1) - 1 = i /\ i + 1 \in 1 .. m
      BY <2>1
    <2>3. p[i + 1] = p[i] + w[i + 1]
      BY <2>2 DEF Summed
    <2>4. q[i + 1] = q[i] + x[i + 1]
      BY <2>2 DEF Summed
    <2>5. p[i] = q[i] /\ w[i + 1] = x[i + 1]
      BY <1>2, <2>1, <2>2
    <2> QED BY <2>3, <2>4, <2>5
  <1>3. \A i \in Nat : i \in S
    <2> HIDE DEF S
    <2> QED BY <1>1, <1>2, Induction
  <1> QED BY <1>3

LEMMA SumIsSummed ==
  ASSUME NEW w, NEW n \in Nat
  PROVE  \E t : Summed(t, w, n) /\ Total(w, n) = t[n]
  <1> DEFINE t == CHOOSE t : Summed(t, w, n)
  <1>1. Summed(t, w, n)
    BY SummedExists
  <1>2. Total(w, n) = t[n]
    BY <1>1 DEF Total, Summed
  <1> QED BY <1>1, <1>2

LEMMA SumSame ==
  ASSUME NEW n \in Nat, NEW w, NEW x, \A i \in 1 .. n : w[i] = x[i]
  PROVE  Total(w, n) = Total(x, n)
  <1>1. PICK p : Summed(p, w, n) /\ Total(w, n) = p[n]
    BY SumIsSummed
  <1>2. PICK q : Summed(q, x, n) /\ Total(x, n) = q[n]
    BY SumIsSummed
  <1> QED BY <1>1, <1>2, SummedAgree

LEMMA SumNext ==
  ASSUME NEW w
  PROVE  Total(w, 0) = 0 /\ \A n \in Nat : Total(w, n + 1) = Total(w, n) + w[n + 1]
  <1>1. Total(w, 0) = 0
    <2>1. PICK t : Summed(t, w, 0) /\ Total(w, 0) = t[0]
      BY SumIsSummed
    <2> QED BY <2>1 DEF Summed
  <1>2. ASSUME NEW n \in Nat PROVE Total(w, n + 1) = Total(w, n) + w[n + 1]
    <2>1. PICK p : Summed(p, w, n) /\ Total(w, n) = p[n]
      BY SumIsSummed
    <2>2. PICK q : Summed(q, w, n + 1) /\ Total(w, n + 1) = q[n + 1]
      BY SumIsSummed
    <2>3. p[n] = q[n]
      <3> DEFINE k == n + 1
                 x == w
      <3>1. k \in Nat /\ n <= k /\ (\A i \in 1 .. n : w[i] = x[i]) /\ Summed(q, x, k)
        BY <2>2
      <3> HIDE DEF k, x
      <3>2. Summed(p, w, n)
        BY <2>1
      <3> QED BY <3>1, <3>2, SummedAgree
    <2>4. q[n + 1] = q[n] + w[n + 1]
      <3>1. n + 1 \in 0 .. n + 1 /\ n + 1 # 0 /\ (n + 1) - 1 = n
        OBVIOUS
      <3> QED BY <3>1, <2>2 DEF Summed
    <2> QED BY <2>1, <2>2, <2>3, <2>4
  <1> QED BY <1>1, <1>2

\* Sums of natural numbers grow.
LEMMA SumGrows ==
  ASSUME NEW w, NEW n \in Nat, \A i \in 1 .. n : w[i] \in Nat
  PROVE  \A m \in 0 .. n : Total(w, m) \in Nat /\ Total(w, m) <= Total(w, n)
  <1> DEFINE S == {k \in Nat : k <= n => \A m \in 0 .. k : Total(w, m) \in Nat /\ Total(w, m) <= Total(w, k)}
  <1>1. 0 \in S
    <2>1. Total(w, 0) = 0
      BY SumNext
    <2> QED BY <2>1
  <1>2. ASSUME NEW k \in Nat, k \in S PROVE k + 1 \in S
    <2>1. SUFFICES ASSUME k + 1 <= n
                   PROVE  \A m \in 0 .. k + 1 : Total(w, m) \in Nat /\ Total(w, m) <= Total(w, k + 1)
      OBVIOUS
    <2>2. Total(w, k) \in Nat /\ w[k + 1] \in Nat /\ \A m \in 0 .. k : Total(w, m) \in Nat /\ Total(w, m) <= Total(w, k)
      BY <1>2, <2>1
    <2>3. Total(w, k + 1) = Total(w, k) + w[k + 1]
      BY SumNext
    <2>4. Total(w, k + 1) \in Nat /\ Total(w, k) <= Total(w, k + 1)
      BY <2>2, <2>3
    <2>5. \A m \in 0 .. k : Total(w, m) \in Nat /\ Total(w, m) <= Total(w, k + 1)
      BY <2>2, <2>4
    <2> QED BY <2>4, <2>5
  <1>3. \A k \in Nat : k \in S
    <2> HIDE DEF S
    <2> QED BY <1>1, <1>2, Induction
  <1> QED BY <1>3

\* One number less: those after it move to the front.
LEMMA SumRemove ==
  ASSUME NEW n \in Nat, NEW w \in [1 .. n + 1 -> Nat], NEW k \in 1 .. n + 1,
         NEW x \in [1 .. n -> Nat],
         \A i \in 1 .. n : (i < k => x[i] = w[i]) /\ (i >= k => x[i] = w[i + 1])
  PROVE  Total(w, n + 1) = Total(x, n) + w[k] /\ Total(x, n) \in Nat
  <1> DEFINE S == {m \in Nat : k - 1 <= m /\ m <= n => Total(w, m + 1) = Total(x, m) + w[k]}
  <1>0. \A m \in 0 .. n : Total(x, m) \in Nat
    <2>1. \A i \in 1 .. n : x[i] \in Nat
      OBVIOUS
    <2> QED BY <2>1, SumGrows
  <1>1. \A m \in Nat : m = k - 1 => Total(w, m + 1) = Total(x, m) + w[k]
    <2> SUFFICES ASSUME NEW m \in Nat, m = k - 1 PROVE Total(w, m + 1) = Total(x, m) + w[k]
      OBVIOUS
    <2>1. m + 1 = k /\ \A i \in 1 .. m : w[i] = x[i]
      <3>1. m + 1 = k /\ \A i \in 1 .. m : i \in 1 .. n /\ i < k
        OBVIOUS
      <3> QED BY <3>1
    <2>2. Total(w, m) = Total(x, m)
      BY <2>1, SumSame
    <2>3. Total(w, m + 1) = Total(w, m) + w[m + 1]
      BY SumNext
    <2> QED BY <2>1, <2>2, <2>3
  <1>2. 0 \in S
    <2>1. 0 >= k - 1 => 0 = k - 1
      OBVIOUS
    <2> QED BY <1>1, <2>1
  <1>3. ASSUME NEW m \in Nat, m \in S PROVE m + 1 \in S
    <2>1. SUFFICES ASSUME k - 1 <= m + 1, m + 1 <= n
                   PROVE  Total(w, m + 1 + 1) = Total(x, m + 1) + w[k]
      OBVIOUS
    <2>2. CASE m + 1 = k - 1
      BY <2>2, <1>1
    <2>3. CASE m + 1 # k - 1
      <3>1. k - 1 <= m /\ m <= n /\ m + 1 \in 1 .. n /\ m + 1 >= k /\ m + 1 \in Nat
        BY <2>1, <2>3
      <3>2. Total(w, m + 1) = Total(x, m) + w[k]
        BY <3>1, <1>3
      <3>3. Total(x, m + 1) = Total(x, m) + x[m + 1]
        BY SumNext
      <3>4. Total(w, m + 1 + 1) = Total(w, m + 1) + w[m + 1 + 1]
        BY <3>1, SumNext
      <3>5. x[m + 1] = w[m + 1 + 1] /\ w[m + 1 + 1] \in Nat
        BY <3>1
      <3>6. Total(x, m) \in Nat /\ w[k] \in Nat
        BY <3>1, <1>0
      <3> HIDE DEF S
      <3> DEFINE a == Total(w, m + 1 + 1)
                 b == Total(w, m + 1)
                 c == Total(x, m + 1)
                 d == Total(x, m)
                 e == w[m + 1 + 1]
                 g == x[m + 1]
      <3>7. b = d + w[k] /\ c = d + g /\ a = b + e /\ g = e /\ d \in Nat /\ w[k] \in Nat /\ e \in Nat
        BY <3>2, <3>3, <3>4, <3>5, <3>6
      <3> HIDE DEF a, b, c, d, e, g
      <3>8. a = c + w[k]
        BY <3>7
      <3> QED BY <3>8 DEF a, c
    <2> QED BY <2>2, <2>3
  <1>4. \A m \in Nat : m \in S
    <2> HIDE DEF S
    <2> QED BY <1>2, <1>3, Induction
  <1>5. k - 1 <= n
    OBVIOUS
  <1> QED BY <1>0, <1>4, <1>5

\* One number replaced.
LEMMA SumReplace ==
  ASSUME NEW n \in Nat, NEW w \in [1 .. n -> Nat], NEW x \in [1 .. n -> Nat], NEW k \in 1 .. n,
         \A i \in 1 .. n : i # k => x[i] = w[i]
  PROVE  Total(w, n) - w[k] = Total(x, n) - x[k]
  <1> DEFINE m == n - 1
             y == [i \in 1 .. m |-> IF i < k THEN w[i] ELSE w[i + 1]]
  <1>1. m \in Nat /\ m + 1 = n
    OBVIOUS
  <1>2. \A i \in 1 .. m : (i < k => y[i] = w[i]) /\ (i >= k => y[i] = w[i + 1])
    OBVIOUS
  <1>3. \A i \in 1 .. m : (i < k => y[i] = x[i]) /\ (i >= k => y[i] = x[i + 1])
    <2> SUFFICES ASSUME NEW i \in 1 .. m PROVE (i < k => y[i] = x[i]) /\ (i >= k => y[i] = x[i + 1])
      OBVIOUS
    <2>1. i \in 1 .. n /\ i + 1 \in 1 .. n
      OBVIOUS
    <2>2. i < k => x[i] = w[i]
      BY <2>1
    <2>3. i >= k => x[i + 1] = w[i + 1]
      BY <2>1
    <2> QED BY <2>2, <2>3, <1>2
  <1>7. /\ y \in [1 .. m -> Nat] /\ w \in [1 .. m + 1 -> Nat] /\ x \in [1 .. m + 1 -> Nat]
        /\ k \in 1 .. m + 1
    <2>1. \A i \in 1 .. m : y[i] \in Nat
      <3> SUFFICES ASSUME NEW i \in 1 .. m PROVE y[i] \in Nat
        OBVIOUS
      <3>1. i \in 1 .. n /\ i + 1 \in 1 .. n
        OBVIOUS
      <3> QED BY <3>1
    <2>2. y = [i \in 1 .. m |-> y[i]]
      OBVIOUS
    <2> HIDE DEF y
    <2> QED BY <2>1, <2>2, <1>1
  <1> HIDE DEF y, m
  <1>4. Total(w, n) = Total(y, m) + w[k] /\ Total(y, m) \in Nat
    <2>1. Total(w, m + 1) = Total(y, m) + w[k] /\ Total(y, m) \in Nat
      BY <1>1, <1>2, <1>7, SumRemove
    <2> QED BY <2>1, <1>1
  <1>5. Total(x, n) = Total(y, m) + x[k]
    <2>1. Total(x, m + 1) = Total(y, m) + x[k]
      BY <1>1, <1>3, <1>7, SumRemove
    <2> QED BY <2>1, <1>1
  <1>6. w[k] \in Nat /\ x[k] \in Nat
    OBVIOUS
  <1> QED BY <1>4, <1>5, <1>6

\* A sequence is as large as its elements are together, and counts one for each.
SizeOf(v, W) == Total([i \in 1 .. Len(v) |-> 1 + W[v[i]]], Len(v))

\* Only a sequence of smallest elements is as large as it is long.
LEMMA SizeFacts ==
  ASSUME NEW D, NEW W, \A x \in D : W[x] \in Nat, NEW v \in Seq(D)
  PROVE  /\ SizeOf(v, W) \in Nat /\ Len(v) <= SizeOf(v, W)
         /\ (\A i \in 1 .. Len(v) : W[v[i]] = 0) => SizeOf(v, W) = Len(v)
  <1> DEFINE n == Len(v)
             w == [i \in 1 .. n |-> 1 + W[v[i]]]
             S == {m \in Nat : m <= n => /\ m <= Total(w, m)
                                         /\ (\A i \in 1 .. n : w[i] = 1) => Total(w, m) = m}
  <1>1. n \in Nat /\ \A i \in 1 .. n : v[i] \in D
    OBVIOUS
  <1>2. \A i \in 1 .. n : w[i] \in Nat /\ w[i] >= 1 /\ (W[v[i]] = 0 => w[i] = 1)
    BY <1>1
  <1> HIDE DEF w, n
  <1>3. \A m \in 0 .. n : Total(w, m) \in Nat
    BY <1>1, <1>2, SumGrows
  <1>4. 0 \in S
    <2>1. Total(w, 0) = 0
      BY SumNext
    <2> QED BY <2>1
  <1>5. ASSUME NEW m \in Nat, m \in S PROVE m + 1 \in S
    <2>1. SUFFICES ASSUME m + 1 <= n
                   PROVE  /\ m + 1 <= Total(w, m + 1)
                          /\ (\A i \in 1 .. n : w[i] = 1) => Total(w, m + 1) = m + 1
      OBVIOUS
    <2>2. m \in 0 .. n /\ m + 1 \in 1 .. n
      BY <2>1, <1>1
    <2>3. Total(w, m + 1) = Total(w, m) + w[m + 1]
      BY SumNext
    <2>4. Total(w, m) \in Nat /\ w[m + 1] \in Nat /\ w[m + 1] >= 1
      BY <2>2, <1>2, <1>3
    <2>5. m <= Total(w, m) /\ ((\A i \in 1 .. n : w[i] = 1) => Total(w, m) = m)
      BY <1>5, <2>1, <1>1
    <2> QED BY <2>2, <2>3, <2>4, <2>5
  <1>6. \A m \in Nat : m \in S
    <2> HIDE DEF S
    <2> QED BY <1>4, <1>5, Induction
  <1>7. /\ n <= Total(w, n) /\ Total(w, n) \in Nat
        /\ (\A i \in 1 .. n : w[i] = 1) => Total(w, n) = n
    BY <1>1, <1>3, <1>6
  <1>8. SizeOf(v, W) = Total(w, n)
    BY DEF SizeOf, w, n
  <1> QED BY <1>2, <1>7, <1>8 DEF n

LEMMA SizeRemove ==
  ASSUME NEW D, NEW W, \A x \in D : W[x] \in Nat, NEW v \in Seq(D), NEW k \in 1 .. Len(v)
  PROVE  /\ RemoveAt(v, k) \in Seq(D) /\ Len(RemoveAt(v, k)) = Len(v) - 1
         /\ SizeOf(v, W) = SizeOf(RemoveAt(v, k), W) + 1 + W[v[k]]
  <1> DEFINE m == Len(v) - 1
             r == RemoveAt(v, k)
             w == [i \in 1 .. Len(v) |-> 1 + W[v[i]]]
             x == [i \in 1 .. Len(r) |-> 1 + W[r[i]]]
  <1>1. m \in Nat /\ Len(v) = m + 1 /\ Len(v) \in Nat
    OBVIOUS
  <1>2. r \in Seq(D) /\ Len(r) = m
        /\ \A i \in 1 .. m : (i < k => r[i] = v[i]) /\ (i >= k => r[i] = v[i + 1])
    <2> DEFINE a == SubSeq(v, 1, k - 1)
               b == SubSeq(v, k + 1, Len(v))
    <2>1. a \in Seq(D) /\ Len(a) = k - 1 /\ \A i \in 1 .. k - 1 : a[i] = v[i]
      OBVIOUS
    <2>2. b \in Seq(D) /\ Len(b) = Len(v) - k /\ \A i \in 1 .. Len(v) - k : b[i] = v[i + k]
      OBVIOUS
    <2>3. r = a \o b
      BY DEF RemoveAt
    <2> HIDE DEF a, b, r
    <2>4. r \in Seq(D) /\ Len(r) = m
      BY <2>1, <2>2, <2>3
    <2>5. ASSUME NEW i \in 1 .. m PROVE (i < k => r[i] = v[i]) /\ (i >= k => r[i] = v[i + 1])
      <3>1. r[i] = IF i <= k - 1 THEN a[i] ELSE b[i - (k - 1)]
        BY <2>1, <2>2, <2>3
      <3>2. i < k => i \in 1 .. k - 1 /\ i <= k - 1
        OBVIOUS
      <3>3. i >= k => i - (k - 1) \in 1 .. Len(v) - k /\ i - (k - 1) + k = i + 1 /\ ~(i <= k - 1)
        OBVIOUS
      <3> QED BY <2>1, <2>2, <3>1, <3>2, <3>3
    <2> QED BY <2>4, <2>5
  <1> HIDE DEF r, m
  <1>3. w \in [1 .. m + 1 -> Nat] /\ k \in 1 .. m + 1
    BY <1>1
  <1>4. x \in [1 .. m -> Nat]
    BY <1>2
  <1>5. \A i \in 1 .. m : (i < k => x[i] = w[i]) /\ (i >= k => x[i] = w[i + 1])
    <2> SUFFICES ASSUME NEW i \in 1 .. m
                 PROVE  (i < k => x[i] = w[i]) /\ (i >= k => x[i] = w[i + 1])
      OBVIOUS
    <2>1. i \in 1 .. Len(v) /\ i + 1 \in 1 .. Len(v) /\ i \in 1 .. Len(r)
      BY <1>1, <1>2
    <2> QED BY <2>1, <1>2
  <1>6. w[k] = 1 + W[v[k]] /\ W[v[k]] \in Nat
    OBVIOUS
  <1> HIDE DEF w, x
  <1>7. Total(w, m + 1) = Total(x, m) + w[k] /\ Total(x, m) \in Nat
    BY <1>1, <1>3, <1>4, <1>5, SumRemove
  <1>8. SizeOf(v, W) = Total(w, m + 1) /\ SizeOf(r, W) = Total(x, m)
    BY <1>1, <1>2 DEF SizeOf, w, x
  <1>9. SizeOf(v, W) = SizeOf(r, W) + 1 + W[v[k]]
    BY <1>6, <1>7, <1>8
  <1> QED BY <1>1, <1>2, <1>9 DEF r

LEMMA SizeReplace ==
  ASSUME NEW D, NEW W, \A x \in D : W[x] \in Nat, NEW v \in Seq(D), NEW k \in 1 .. Len(v),
         NEW e \in D
  PROVE  /\ ReplaceAt(v, k, e) \in Seq(D) /\ Len(ReplaceAt(v, k, e)) = Len(v)
         /\ SizeOf(v, W) - W[v[k]] = SizeOf(ReplaceAt(v, k, e), W) - W[e]
  <1> DEFINE n == Len(v)
             r == ReplaceAt(v, k, e)
             w == [i \in 1 .. n |-> 1 + W[v[i]]]
             x == [i \in 1 .. n |-> 1 + W[r[i]]]
  <1>1. n \in Nat /\ k \in 1 .. n
    OBVIOUS
  <1>2. r \in Seq(D) /\ Len(r) = n /\ r[k] = e /\ \A i \in 1 .. n : i # k => r[i] = v[i]
    BY DEF ReplaceAt
  <1> HIDE DEF r
  <1>3. w \in [1 .. n -> Nat] /\ x \in [1 .. n -> Nat]
    BY <1>2
  <1>4. \A i \in 1 .. n : i # k => x[i] = w[i]
    BY <1>2
  <1>5. w[k] = 1 + W[v[k]] /\ x[k] = 1 + W[e] /\ W[v[k]] \in Nat /\ W[e] \in Nat
    BY <1>2
  <1>6. SizeOf(v, W) = Total(w, n) /\ SizeOf(r, W) = Total(x, n)
    BY <1>2 DEF SizeOf
  <1>7. SizeOf(v, W) \in Nat /\ SizeOf(r, W) \in Nat
    BY <1>2, SizeFacts
  <1> HIDE DEF w, x, n
  <1>8. Total(w, n) - w[k] = Total(x, n) - x[k]
    BY <1>1, <1>3, <1>4, SumReplace
  <1>9. SizeOf(v, W) - W[v[k]] = SizeOf(r, W) - W[e]
    <2> DEFINE a == SizeOf(v, W)
               b == SizeOf(r, W)
               c == W[v[k]]
               d == W[e]
    <2>1. a \in Nat /\ b \in Nat /\ c \in Nat /\ d \in Nat
      BY <1>5, <1>7
    <2>2. a - (1 + c) = b - (1 + d)
      BY <1>5, <1>6, <1>8
    <2> HIDE DEF a, b, c, d
    <2>3. a - c = b - d
      BY <2>1, <2>2
    <2> QED BY <2>3 DEF a, b, c, d
  <1> QED BY <1>2, <1>9 DEF r, n

LEMMA SizePrefix ==
  ASSUME NEW D, NEW W, \A x \in D : W[x] \in Nat, NEW v \in Seq(D), NEW k \in 0 .. Len(v) - 1
  PROVE  /\ SubSeq(v, 1, k) \in Seq(D) /\ Len(SubSeq(v, 1, k)) = k
         /\ SizeOf(SubSeq(v, 1, k), W) < SizeOf(v, W)
  <1> DEFINE n == Len(v)
             r == SubSeq(v, 1, k)
             w == [i \in 1 .. n |-> 1 + W[v[i]]]
             x == [i \in 1 .. k |-> 1 + W[r[i]]]
  <1>1. n \in Nat /\ k \in Nat /\ k + 1 \in 0 .. n /\ k \in 0 .. n /\ k + 1 \in 1 .. n
    OBVIOUS
  <1>2. r \in Seq(D) /\ Len(r) = k /\ \A i \in 1 .. k : r[i] = v[i]
    OBVIOUS
  <1> HIDE DEF r
  <1>3. \A i \in 1 .. n : w[i] \in Nat /\ w[i] >= 1
    OBVIOUS
  <1>4. \A i \in 1 .. k : x[i] = w[i]
    BY <1>1, <1>2
  <1>5. SizeOf(v, W) = Total(w, n) /\ SizeOf(r, W) = Total(x, k)
    BY <1>2 DEF SizeOf
  <1> HIDE DEF w, x, n
  <1>6. Total(x, k) = Total(w, k)
    BY <1>1, <1>4, SumSame
  <1>7. Total(w, k + 1) = Total(w, k) + w[k + 1]
    BY <1>1, SumNext
  <1>8. \A m \in 0 .. n : Total(w, m) \in Nat /\ Total(w, m) <= Total(w, n)
    BY <1>1, <1>3, SumGrows
  <1>9. Total(w, k + 1) <= Total(w, n) /\ Total(w, k) \in Nat /\ w[k + 1] \in Nat /\ w[k + 1] >= 1 /\ Total(w, n) \in Nat
    <2>1. Total(w, n) \in Nat
      <3>1. n \in 0 .. n
        BY <1>1
      <3> QED BY <3>1, <1>8
    <2> QED BY <2>1, <1>1, <1>3, <1>8
  <1>10. Total(x, k) < Total(w, n)
    BY <1>6, <1>7, <1>9
  <1> QED BY <1>2, <1>5, <1>10 DEF r

VectorsOf(D, lengths) == {v \in Seq(D) : Len(v) \in lengths}

\* Every element in turn is replaced by its candidates.
Each(S, v) ==
    FlattenSeq([i \in 1 .. Len(v) |-> Mapped(S.shrink[v[i]], LAMBDA x : ReplaceAt(v, i, x))])

LEMMA EachElements ==
  ASSUME NEW S, NEW D, NEW W, ShrinksWithin(S, D, W), NEW v \in Seq(D)
  PROVE  /\ Each(S, v) \in Seq(Seq(D))
         /\ \A c \in Elements(Each(S, v)) :
               \E i \in 1 .. Len(v) : \E x \in Elements(S.shrink[v[i]]) : c = ReplaceAt(v, i, x)
         /\ \A i \in 1 .. Len(v) : \A x \in Elements(S.shrink[v[i]]) :
               ReplaceAt(v, i, x) \in Elements(Each(S, v))
  <1> DEFINE one(i) == [j \in DOMAIN S.shrink[v[i]] |-> ReplaceAt(v, i, S.shrink[v[i]][j])]
             ss == [i \in 1 .. Len(v) |-> one(i)]
  <1>1. Each(S, v) = FlattenSeq(ss)
    BY DEF Each, Mapped
  <1>2. ASSUME NEW i \in 1 .. Len(v)
        PROVE  /\ one(i) \in Seq(Seq(D))
               /\ Elements(one(i)) = {ReplaceAt(v, i, x) : x \in Elements(S.shrink[v[i]])}
    <2> DEFINE s == S.shrink[v[i]]
    <2>1. s \in Seq(D)
      <3>1. v[i] \in D
        OBVIOUS
      <3> QED BY <3>1 DEF ShrinksWithin
    <2>2. one(i) = [j \in DOMAIN s |-> ReplaceAt(v, i, s[j])]
      OBVIOUS
    <2> HIDE DEF s
    <2>3. DOMAIN s = 1 .. Len(s) /\ Len(s) \in Nat /\ \A j \in 1 .. Len(s) : s[j] \in D
      BY <2>1
    <2>4. \A x \in D : ReplaceAt(v, i, x) \in Seq(D)
      BY DEF ReplaceAt
    <2> DEFINE t == [j \in 1 .. Len(s) |-> ReplaceAt(v, i, s[j])]
    <2>5. one(i) = t
      BY <2>2, <2>3
    <2>6. t \in Seq(Seq(D))
      BY <2>3, <2>4
    <2>7. Elements(t) = {ReplaceAt(v, i, s[j]) : j \in 1 .. Len(s)}
      BY DEF Elements
    <2>8. Elements(t) = {ReplaceAt(v, i, x) : x \in Elements(s)}
      BY <2>3, <2>7 DEF Elements
    <2> HIDE DEF t, one
    <2> QED BY <2>5, <2>6, <2>8 DEF s
  <1>3. ss \in Seq(Seq(Seq(D))) /\ DOMAIN ss = 1 .. Len(v) /\ \A i \in 1 .. Len(v) : ss[i] = one(i)
    <2>1. Len(v) \in Nat
      OBVIOUS
    <2> HIDE DEF one
    <2> QED BY <2>1, <1>2
  <1> HIDE DEF ss
  <1> DEFINE X == Seq(D)
  <1>4. ss \in Seq(Seq(X))
    BY <1>3
  <1> HIDE DEF X
  <1>5. /\ FlattenSeq(ss) \in Seq(X)
        /\ Elements(FlattenSeq(ss)) = UNION {Elements(ss[i]) : i \in DOMAIN ss}
    BY <1>4, FlattenElements
  <1> DEFINE at(i) == {ReplaceAt(v, i, x) : x \in Elements(S.shrink[v[i]])}
  <1>6. \A i \in 1 .. Len(v) : Elements(ss[i]) = at(i)
    BY <1>2, <1>3
  <1> HIDE DEF one
  <1>7. Elements(FlattenSeq(ss)) = UNION {at(i) : i \in 1 .. Len(v)}
    BY <1>3, <1>5, <1>6
  <1> DEFINE A == Elements(FlattenSeq(ss))
  <1>8. ASSUME NEW c \in A
        PROVE  \E i \in 1 .. Len(v) : \E x \in Elements(S.shrink[v[i]]) : c = ReplaceAt(v, i, x)
    <2>1. PICK i \in 1 .. Len(v) : c \in at(i)
      BY <1>7
    <2> QED BY <2>1
  <1>9. ASSUME NEW i \in 1 .. Len(v), NEW x \in Elements(S.shrink[v[i]])
        PROVE  ReplaceAt(v, i, x) \in A
    <2>1. ReplaceAt(v, i, x) \in at(i)
      OBVIOUS
    <2> HIDE DEF at, A
    <2>2. A = UNION {at(j) : j \in 1 .. Len(v)}
      BY <1>7 DEF A
    <2> QED BY <2>1, <2>2
  <1> HIDE DEF A
  <1>10. A = Elements(Each(S, v)) /\ Each(S, v) \in Seq(Seq(D))
    BY <1>1, <1>5 DEF A, X
  <1> QED BY <1>8, <1>9, <1>10

\* Every removal of one element.
Shorter(v) == [i \in 1 .. Len(v) |-> RemoveAt(v, i)]

LEMMA ShorterElements ==
  ASSUME NEW D, NEW v \in Seq(D)
  PROVE  /\ Shorter(v) \in Seq(Seq(D))
         /\ Elements(Shorter(v)) = {RemoveAt(v, i) : i \in 1 .. Len(v)}
  <1> DEFINE W == [x \in D |-> 0]
  <1>1. \A x \in D : W[x] \in Nat
    OBVIOUS
  <1>2. \A i \in 1 .. Len(v) : RemoveAt(v, i) \in Seq(D)
    <2> HIDE DEF W
    <2> QED BY <1>1, SizeRemove
  <1>3. Len(v) \in Nat
    OBVIOUS
  <1> DEFINE t == Shorter(v)
             X == Seq(D)
  <1>4. t = [i \in 1 .. Len(v) |-> RemoveAt(v, i)]
    BY DEF Shorter
  <1>5. DOMAIN t = 1 .. Len(v) /\ \A i \in 1 .. Len(v) : t[i] = RemoveAt(v, i)
    BY <1>4
  <1>6. \A i \in 1 .. Len(v) : RemoveAt(v, i) \in X
    BY <1>2
  <1> HIDE DEF X
  <1>7. t \in Seq(X)
    BY <1>3, <1>4, <1>6
  <1> HIDE DEF t
  <1>8. Elements(t) = {RemoveAt(v, i) : i \in 1 .. Len(v)}
    BY <1>5 DEF Elements
  <1> QED BY <1>7, <1>8 DEF t, X

\* The one element that can shrink does, or all are smallest.
LEMMA EachByUnits ==
  ASSUME NEW S, NEW D, NEW W, ShrinksByUnits(S, D, W), \E z \in D : W[z] = 0, NEW v \in Seq(D)
  PROVE  /\ \A c \in Elements(Each(S, v)) :
               c \in Seq(D) /\ Len(c) = Len(v) /\ SizeOf(c, W) < SizeOf(v, W)
         /\ \/ \E c \in Elements(Each(S, v)) : SizeOf(c, W) = SizeOf(v, W) - 1
            \/ SizeOf(v, W) = Len(v) /\ \A i \in 1 .. Len(v) : W[v[i]] = 0
  <1>1. ShrinksWithin(S, D, W) /\ \A x \in D : W[x] \in Nat
    BY DEF ShrinksByUnits, ShrinksWithin
  <1>2. \A i \in 1 .. Len(v) : v[i] \in D
    OBVIOUS
  <1>3. ASSUME NEW i \in 1 .. Len(v), NEW x \in Elements(S.shrink[v[i]])
        PROVE  /\ ReplaceAt(v, i, x) \in Seq(D) /\ Len(ReplaceAt(v, i, x)) = Len(v)
               /\ SizeOf(ReplaceAt(v, i, x), W) \in Nat /\ SizeOf(v, W) \in Nat
               /\ SizeOf(v, W) - W[v[i]] = SizeOf(ReplaceAt(v, i, x), W) - W[x]
               /\ W[x] \in Nat /\ W[v[i]] \in Nat /\ W[x] < W[v[i]]
    <2>1. v[i] \in D /\ W[v[i]] \in Nat /\ W[x] < W[v[i]] /\ S.shrink[v[i]] \in Seq(D)
      BY <1>1, <1>2 DEF ShrinksWithin
    <2>2. x \in D
      BY <2>1, ElementsOfSeq
    <2>3. W[x] \in Nat
      BY <2>2, <1>1
    <2> DEFINE r == ReplaceAt(v, i, x)
    <2>4. /\ r \in Seq(D) /\ Len(r) = Len(v)
          /\ SizeOf(v, W) - W[v[i]] = SizeOf(r, W) - W[x]
      <3>1. \A y \in D : W[y] \in Nat
        BY <1>1
      <3>2. /\ ReplaceAt(v, i, x) \in Seq(D) /\ Len(ReplaceAt(v, i, x)) = Len(v)
            /\ SizeOf(v, W) - W[v[i]] = SizeOf(ReplaceAt(v, i, x), W) - W[x]
        BY <3>1, <2>2, SizeReplace
      <3> QED BY <3>2
    <2> HIDE DEF r
    <2>5. SizeOf(r, W) \in Nat /\ SizeOf(v, W) \in Nat
      BY <2>4, <1>1, SizeFacts
    <2> QED BY <2>1, <2>3, <2>4, <2>5 DEF r
  <1>4. ASSUME NEW c \in Elements(Each(S, v))
        PROVE  c \in Seq(D) /\ Len(c) = Len(v) /\ SizeOf(c, W) < SizeOf(v, W)
    <2>1. PICK i \in 1 .. Len(v) : \E x \in Elements(S.shrink[v[i]]) : c = ReplaceAt(v, i, x)
      BY <1>1, EachElements
    <2>2. PICK x \in Elements(S.shrink[v[i]]) : c = ReplaceAt(v, i, x)
      BY <2>1
    <2>3. /\ c \in Seq(D) /\ Len(c) = Len(v) /\ SizeOf(c, W) \in Nat /\ SizeOf(v, W) \in Nat
          /\ SizeOf(v, W) - W[v[i]] = SizeOf(c, W) - W[x]
          /\ W[x] \in Nat /\ W[v[i]] \in Nat /\ W[x] < W[v[i]]
      BY <2>2, <1>3
    <2> QED BY <2>3
  <1>5. CASE \A i \in 1 .. Len(v) : W[v[i]] = 0
    BY <1>1, <1>4, <1>5, SizeFacts
  <1>6. CASE \E i \in 1 .. Len(v) : W[v[i]] # 0
    <2>1. PICK i \in 1 .. Len(v) : W[v[i]] # 0
      BY <1>6
    <2>2. PICK z \in D : W[z] = 0
      OBVIOUS
    <2>3. v[i] \in D /\ W[z] < W[v[i]]
      BY <2>1, <2>2, <1>1, <1>2
    <2>4. PICK x \in Elements(S.shrink[v[i]]) : W[x] = W[v[i]] - 1
      BY <2>2, <2>3 DEF ShrinksByUnits
    <2> DEFINE c == ReplaceAt(v, i, x)
    <2>5. /\ SizeOf(c, W) \in Nat /\ SizeOf(v, W) \in Nat
          /\ SizeOf(v, W) - W[v[i]] = SizeOf(c, W) - W[x]
          /\ W[x] \in Nat /\ W[v[i]] \in Nat
      BY <1>3
    <2>6. c \in Elements(Each(S, v))
      BY <1>1, EachElements
    <2> HIDE DEF c
    <2>7. SizeOf(c, W) = SizeOf(v, W) - 1
      BY <2>4, <2>5
    <2> QED BY <1>4, <2>6, <2>7
  <1> QED BY <1>5, <1>6

\* vec_of(S, min .. max): a vector of elements that shrink by units does so too.
THEOREM VecOfByUnits ==
  ASSUME NEW S, NEW D, NEW W, D \subseteq S.of, Generates(S, D), ShrinksByUnits(S, D, W),
         \E z \in D : W[z] = 0,
         NEW min \in Nat, NEW max \in Nat, NEW n \in Nat, LengthsOf(min, max) \subseteq 0 .. n,
         NEW V, \A v \in VectorsOf(D, LengthsOf(min, max)) : V[v] = SizeOf(v, W)
  PROVE  /\ Generates(VecOf(S, min, max, n), VectorsOf(D, LengthsOf(min, max)))
         /\ ShrinksByUnits(VecOf(S, min, max, n), VectorsOf(D, LengthsOf(min, max)), V)
  <1> DEFINE L == LengthsOf(min, max)
             Vs == VectorsOf(D, L)
             cs(v) == VecOf(S, min, max, n).shrink[v]
             empty == When(min = 0, << <<>> >>)
             first(v) == When(Len(v) > min, empty \o Shorter(v))
  <1>1. \A l \in L : l \in Nat /\ l >= min /\ \A m \in Nat : min <= m /\ m <= l => m \in L
    BY DEF LengthsOf, gen_range
  <1> HIDE DEF L
  <1>2. \A v \in Vs : v \in Seq(D) /\ Len(v) \in L /\ V[v] = SizeOf(v, W)
    BY DEF VectorsOf, L
  <1>3. \A v : v \in Seq(D) /\ Len(v) \in L => v \in Vs
    BY DEF VectorsOf
  <1>4. Generates(VecOf(S, min, max, n), Vs)
    <2> SUFFICES ASSUME NEW k \in Sizes, NEW v \in VecOf(S, min, max, n).gen[k] PROVE v \in Vs
      BY DEF Generates
    <2>1. VecOf(S, min, max, n).gen[k] = UNION {[1 .. l -> S.gen[k]] : l \in L}
      BY DEF VecOf, Strategy, any, Impl, SeqsOf, L
    <2>2. PICK l \in L : v \in [1 .. l -> S.gen[k]]
      BY <2>1
    <2>3. S.gen[k] \subseteq D /\ l \in Nat
      BY <1>1 DEF Generates
    <2>4. v \in [1 .. l -> D]
      BY <2>2, <2>3
    <2>5. v \in Seq(D) /\ Len(v) = l
      BY <2>3, <2>4
    <2> QED BY <2>5, <1>3
  <1>5. ASSUME NEW v \in Vs PROVE cs(v) = first(v) \o Each(S, v)
    <2>1. v \in SeqOf(S.of, n)
      <3>1. v \in Seq(D) /\ Len(v) \in 0 .. n
        BY <1>2 DEF L
      <3>2. v \in [1 .. Len(v) -> S.of]
        BY <3>1
      <3> QED BY <3>1, <3>2 DEF SeqOf
    <2> QED BY <2>1 DEF VecOf, Strategy, any, Impl, Each, Shorter
  <1> HIDE DEF cs, Vs
  <1>6. ASSUME NEW v \in Vs
        PROVE  /\ first(v) \in Seq(Seq(D))
               /\ Len(v) > min => \A i \in 1 .. Len(v) : RemoveAt(v, i) \in Elements(first(v))
               /\ \A c \in Elements(first(v)) :
                     /\ Len(v) > min
                     /\ (min = 0 /\ c = <<>>) \/ \E i \in 1 .. Len(v) : c = RemoveAt(v, i)
    <2> DEFINE X == Seq(D)
               none == <<>>
               short == Shorter(v)
               both == empty \o short
               cond == Len(v) > min
    <2>1. v \in Seq(D) /\ none \in X /\ cond \in BOOLEAN
      BY <1>2
    <2>2. short \in Seq(X) /\ Elements(short) = {RemoveAt(v, i) : i \in 1 .. Len(v)}
      BY <2>1, ShorterElements
    <2>3. empty = When(min = 0, <<none>>) /\ (min = 0) \in BOOLEAN
      OBVIOUS
    <2> HIDE DEF X, none, short, empty, cond
    <2>4. empty \in Seq(X) /\ \A c \in Elements(empty) : min = 0 /\ c = none
      BY <2>1, <2>3 DEF When, Elements
    <2>5. both \in Seq(X) /\ Elements(both) = Elements(empty) \cup Elements(short)
      BY <2>2, <2>4, ConcatElements
    <2> HIDE DEF both
    <2>6. When(cond, both) \in Seq(X) /\ Elements(When(cond, both)) = IF cond THEN Elements(both) ELSE {}
      BY <2>1, <2>5, WhenElements
    <2>7. first(v) = When(cond, both)
      BY DEF cond, both, short
    <2> DEFINE f == first(v)
    <2>8. f \in Seq(X)
      BY <2>6, <2>7
    <2>9. cond => \A i \in 1 .. Len(v) : RemoveAt(v, i) \in Elements(f)
      <3> HIDE DEF f
      <3>1. cond => Elements(f) = Elements(empty) \cup Elements(short)
        BY <2>5, <2>6, <2>7 DEF f
      <3> QED BY <3>1, <2>2
    <2>10. ASSUME NEW c \in Elements(f)
           PROVE  cond /\ ((min = 0 /\ c = none) \/ \E i \in 1 .. Len(v) : c = RemoveAt(v, i))
      <3> HIDE DEF f
      <3>1. cond /\ c \in Elements(empty) \cup Elements(short)
        BY <2>5, <2>6, <2>7, <2>10 DEF f
      <3> QED BY <3>1, <2>2, <2>4
    <2> HIDE DEF f
    <2>11. f = first(v)
      BY DEF f
    <2> QED BY <2>8, <2>9, <2>10, <2>11 DEF X, cond, none
  <1>7. ShrinksWithin(S, D, W) /\ \A x \in D : W[x] \in Nat
    BY DEF ShrinksByUnits, ShrinksWithin
  <1> HIDE DEF first
  <1>8. ASSUME NEW v \in Vs
        PROVE  /\ cs(v) \in Seq(Seq(D))
               /\ Elements(cs(v)) = Elements(first(v)) \cup Elements(Each(S, v))
    <2> DEFINE X == Seq(D)
               a == first(v)
               b == Each(S, v)
    <2>1. a \in Seq(X)
      BY <1>6
    <2>2. b \in Seq(X)
      BY <1>2, <1>7, EachElements
    <2>3. cs(v) = a \o b
      BY <1>5
    <2> HIDE DEF X, a, b
    <2>4. a \o b \in Seq(X) /\ Elements(a \o b) = Elements(a) \cup Elements(b)
      BY <2>1, <2>2, ConcatElements
    <2> QED BY <2>3, <2>4 DEF X, a, b
  <1>9. ASSUME NEW v \in Vs, NEW i \in 1 .. Len(v), Len(v) > min
        PROVE  /\ RemoveAt(v, i) \in Vs
               /\ SizeOf(v, W) = SizeOf(RemoveAt(v, i), W) + 1 + W[v[i]]
               /\ SizeOf(RemoveAt(v, i), W) \in Nat /\ W[v[i]] \in Nat
    <2> DEFINE r == RemoveAt(v, i)
    <2>1. v \in Seq(D) /\ Len(v) \in L
      BY <1>2
    <2>2. r \in Seq(D) /\ Len(r) = Len(v) - 1 /\ SizeOf(v, W) = SizeOf(r, W) + 1 + W[v[i]]
      BY <2>1, <1>7, SizeRemove
    <2>3. W[v[i]] \in Nat
      BY <2>1, <1>7
    <2> HIDE DEF r
    <2>4. SizeOf(r, W) \in Nat
      BY <2>2, <1>7, SizeFacts
    <2>5. Len(v) - 1 \in L
      <3>1. Len(v) \in Nat /\ Len(v) - 1 \in Nat /\ min <= Len(v) - 1 /\ Len(v) - 1 <= Len(v)
        BY <2>1, <1>1, <1>9
      <3> QED BY <2>1, <3>1, <1>1
    <2> QED BY <2>2, <2>3, <2>4, <2>5, <1>3 DEF r
  <1>10. ASSUME NEW v \in Vs, NEW c \in Elements(cs(v)) PROVE c \in Vs /\ V[c] < V[v]
    <2>1. v \in Seq(D) /\ Len(v) \in L /\ SizeOf(v, W) \in Nat
      BY <1>2, <1>7, SizeFacts
    <2>2. c \in Vs /\ SizeOf(c, W) < SizeOf(v, W)
      <3>1. CASE c \in Elements(Each(S, v))
        <4>1. c \in Seq(D) /\ Len(c) = Len(v) /\ SizeOf(c, W) < SizeOf(v, W)
          BY <3>1, <2>1, EachByUnits
        <4> QED BY <4>1, <2>1, <1>3
      <3>2. CASE c \in Elements(first(v)) /\ min = 0 /\ c = <<>>
        <4> DEFINE none == <<>>
        <4>1. none \in Seq(D) /\ Len(none) = 0 /\ \A i \in 1 .. Len(none) : W[none[i]] = 0
          OBVIOUS
        <4> HIDE DEF none
        <4>2. SizeOf(none, W) = 0
          BY <4>1, <1>7, SizeFacts
        <4>3. Len(v) > min /\ Len(v) \in Nat
          BY <3>2, <2>1, <1>6
        <4>4. Len(v) <= SizeOf(v, W)
          BY <2>1, <1>7, SizeFacts
        <4>5. 0 \in L
          BY <4>3, <3>2, <2>1, <1>1
        <4>6. none \in Vs
          <5>1. none \in Seq(D) /\ Len(none) \in L
            BY <4>1, <4>5
          <5> QED BY <5>1, <1>3
        <4>7. SizeOf(none, W) < SizeOf(v, W)
          BY <3>2, <4>2, <4>3, <4>4, <2>1
        <4> QED BY <3>2, <4>6, <4>7 DEF none
      <3>3. CASE c \in Elements(first(v)) /\ \E i \in 1 .. Len(v) : c = RemoveAt(v, i)
        <4>1. PICK i \in 1 .. Len(v) : c = RemoveAt(v, i)
          BY <3>3
        <4>2. Len(v) > min
          BY <3>3, <1>6
        <4>3. /\ c \in Vs /\ SizeOf(v, W) = SizeOf(c, W) + 1 + W[v[i]]
              /\ SizeOf(c, W) \in Nat /\ W[v[i]] \in Nat
          BY <4>1, <4>2, <1>9
        <4> QED BY <4>3, <2>1
      <3> QED BY <3>1, <3>2, <3>3, <1>6, <1>8
    <2> QED BY <2>2, <1>2
  <1>11. ASSUME NEW v \in Vs PROVE cs(v) \in Seq(Vs) /\ V[v] \in Nat
    <2>1. Elements(cs(v)) \subseteq Vs
      BY <1>10
    <2>2. cs(v) \in Seq(Vs)
      BY <2>1, <1>8, SeqOfElements
    <2>3. SizeOf(v, W) \in Nat
      BY <1>2, <1>7, SizeFacts
    <2> QED BY <2>2, <2>3, <1>2
  <1>12. ASSUME NEW v \in Vs, NEW u \in Vs, V[u] < V[v]
         PROVE  \E c \in Elements(cs(v)) : V[c] = V[v] - 1
    <2>1. /\ v \in Seq(D) /\ Len(v) \in L /\ V[v] = SizeOf(v, W) /\ SizeOf(v, W) \in Nat
          /\ u \in Seq(D) /\ Len(u) \in L /\ V[u] = SizeOf(u, W) /\ SizeOf(u, W) \in Nat
          /\ Len(u) <= SizeOf(u, W)
      BY <1>2, <1>7, SizeFacts
    <2>2. CASE \E c \in Elements(Each(S, v)) : SizeOf(c, W) = SizeOf(v, W) - 1
      <3>1. PICK c \in Elements(Each(S, v)) : SizeOf(c, W) = SizeOf(v, W) - 1
        BY <2>2
      <3>2. c \in Elements(cs(v))
        BY <1>8
      <3>3. c \in Vs
        BY <3>2, <1>10
      <3> QED BY <3>1, <3>2, <3>3, <2>1, <1>2
    <2>3. CASE SizeOf(v, W) = Len(v) /\ \A i \in 1 .. Len(v) : W[v[i]] = 0
      <3>1. Len(v) > min /\ 1 \in 1 .. Len(v)
        BY <2>1, <2>3, <1>1, <1>12
      <3> DEFINE one == 1
                 c == RemoveAt(v, one)
      <3>2. one \in 1 .. Len(v)
        BY <3>1
      <3> HIDE DEF one
      <3>3. /\ c \in Vs /\ SizeOf(v, W) = SizeOf(c, W) + 1 + W[v[one]]
            /\ SizeOf(c, W) \in Nat
        BY <3>1, <3>2, <1>9
      <3>4. c \in Elements(cs(v))
        BY <3>1, <3>2, <1>6, <1>8
      <3>5. W[v[one]] = 0
        BY <2>3, <3>2
      <3>6. V[c] = V[v] - 1
        BY <3>3, <3>5, <2>1, <1>2
      <3> QED BY <3>4, <3>6
    <2> QED BY <2>1, <2>2, <2>3, EachByUnits
  <1> QED BY <1>4, <1>10, <1>11, <1>12 DEF ShrinksByUnits, ShrinksWithin, cs, Vs, L

\* The prefixes that lose a half, a quarter, ... of a vector.
HalvedPrefixes(v) == Mapped(Approach(Len(v), 0), LAMBDA k : SubSeq(v, 1, k))

LEMMA PrefixElements ==
  ASSUME NEW D, NEW W, \A x \in D : W[x] \in Nat, NEW v \in Seq(D)
  PROVE  /\ HalvedPrefixes(v) \in Seq(Seq(D))
         /\ \A c \in Elements(HalvedPrefixes(v)) : Len(c) < Len(v) /\ SizeOf(c, W) < SizeOf(v, W)
  <1> DEFINE n == Len(v)
             a == Approach(n, 0)
             X == Seq(D)
             t == [i \in 1 .. Len(a) |-> SubSeq(v, 1, a[i])]
  <1>1. n \in Nat /\ n \in Int /\ 0 \in Int
    OBVIOUS
  <1>2. a \in Seq(Int) /\ \A k \in Elements(a) : (0 < k /\ k < n) \/ (n < k /\ k < 0)
    BY <1>1, ApproachFacts, Zenon
  <1> HIDE DEF a
  <1>3. Len(a) \in Nat /\ DOMAIN a = 1 .. Len(a) /\ \A i \in 1 .. Len(a) : a[i] \in Int
    BY <1>2
  <1>4. \A i \in 1 .. Len(a) : a[i] \in 0 .. n - 1
    <2>1. \A i \in 1 .. Len(a) : a[i] \in Elements(a) /\ a[i] \in Int
      BY <1>3 DEF Elements
    <2> QED BY <2>1, <1>1, <1>2
  <1>5. \A k \in 0 .. n - 1 : /\ SubSeq(v, 1, k) \in Seq(D) /\ Len(SubSeq(v, 1, k)) = k
                              /\ SizeOf(SubSeq(v, 1, k), W) < SizeOf(v, W)
    BY SizePrefix
  <1>6. HalvedPrefixes(v) = t
    BY <1>3 DEF HalvedPrefixes, Mapped, a
  <1>7. ASSUME NEW i \in 1 .. Len(a)
        PROVE  t[i] \in X /\ Len(t[i]) < n /\ SizeOf(t[i], W) < SizeOf(v, W)
    <2> DEFINE k == a[i]
               r == SubSeq(v, 1, k)
    <2>1. k \in 0 .. n - 1
      BY <1>4
    <2> HIDE DEF k
    <2>2. r \in Seq(D) /\ Len(r) = k /\ SizeOf(r, W) < SizeOf(v, W)
      BY <2>1, <1>5
    <2>3. t[i] = r
      BY DEF k
    <2> HIDE DEF r, t
    <2> QED BY <2>1, <2>2, <2>3, <1>1
  <1> HIDE DEF X
  <1>8. t \in Seq(X)
    <2>1. \A i \in 1 .. Len(a) : SubSeq(v, 1, a[i]) \in X
      BY <1>7
    <2> QED BY <2>1, <1>3
  <1>9. DOMAIN t = 1 .. Len(a)
    OBVIOUS
  <1> HIDE DEF t
  <1>10. \A c \in Elements(t) : Len(c) < n /\ SizeOf(c, W) < SizeOf(v, W)
    BY <1>7, <1>9 DEF Elements
  <1> QED BY <1>6, <1>8, <1>10 DEF X, n

\* any::<Vec<T>>(): likewise, of every length up to the largest.
THEOREM VecByUnits ==
  ASSUME NEW T, NEW D, NEW W, D \subseteq T.of, Generates(T, D), ShrinksByUnits(T, D, W),
         \E z \in D : W[z] = 0,
         NEW n \in Nat, NEW V, \A v \in VectorsOf(D, 0 .. n) : V[v] = SizeOf(v, W)
  PROVE  /\ Generates(any(Vec(T, n)), VectorsOf(D, 0 .. n))
         /\ ShrinksByUnits(any(Vec(T, n)), VectorsOf(D, 0 .. n), V)
  <1> DEFINE L == 0 .. n
             Vs == VectorsOf(D, L)
             none == <<>>
             head == << none >>
             short(v) == When(Len(v) > 1, Shorter(v))
             all(v) == head \o HalvedPrefixes(v) \o short(v) \o Each(T, v)
             cs(v) == any(Vec(T, n)).shrink[v]
  <1>1. \A l \in L : l \in Nat /\ \A m \in Nat : m <= l => m \in L
    OBVIOUS
  <1>2. \A v \in Vs : v \in Seq(D) /\ Len(v) \in L /\ Len(v) \in Nat /\ V[v] = SizeOf(v, W)
    BY DEF VectorsOf
  <1>3. \A v : v \in Seq(D) /\ Len(v) \in L => v \in Vs
    BY DEF VectorsOf
  <1>4. Generates(any(Vec(T, n)), Vs)
    <2> SUFFICES ASSUME NEW k \in Sizes, NEW v \in any(Vec(T, n)).gen[k] PROVE v \in Vs
      BY DEF Generates
    <2> DEFINE most == Lesser(n, Greater(k, 1))
    <2>1. any(Vec(T, n)).gen[k] = UNION {[1 .. l -> T.gen[k]] : l \in 0 .. most}
      BY DEF Vec, any, Impl, SeqOf
    <2>2. most \in Nat /\ most <= n
      BY ArbitraryAssumption DEF Lesser, Greater
    <2> HIDE DEF most
    <2>3. PICK l \in 0 .. most : v \in [1 .. l -> T.gen[k]]
      BY <2>1
    <2>4. T.gen[k] \subseteq D /\ l \in Nat /\ l \in L
      BY <2>2 DEF Generates
    <2>5. v \in [1 .. l -> D]
      BY <2>3, <2>4
    <2> HIDE DEF L
    <2>6. v \in Seq(D) /\ Len(v) = l
      BY <2>4, <2>5
    <2> QED BY <2>4, <2>6, <1>3
  <1>5. ASSUME NEW v \in Vs PROVE cs(v) = When(Len(v) > 0, all(v))
    <2>1. v \in SeqOf(T.of, n)
      <3>1. v \in Seq(D) /\ Len(v) \in 0 .. n
        BY <1>2
      <3>2. v \in [1 .. Len(v) -> T.of]
        BY <3>1
      <3> QED BY <3>1, <3>2 DEF SeqOf
    <2> QED BY <2>1 DEF Vec, any, Impl, Each, Shorter, HalvedPrefixes
  <1>6. ShrinksWithin(T, D, W) /\ \A x \in D : W[x] \in Nat
    BY DEF ShrinksByUnits, ShrinksWithin
  <1>7. none \in Seq(D) /\ Len(none) = 0 /\ none \in Vs /\ SizeOf(none, W) = 0
    <2>1. none \in Seq(D) /\ Len(none) = 0 /\ \A i \in 1 .. Len(none) : W[none[i]] = 0
      OBVIOUS
    <2>2. 0 \in L
      OBVIOUS
    <2> HIDE DEF none, Vs, L
    <2>3. SizeOf(none, W) = 0
      BY <2>1, <1>6, SizeFacts
    <2>4. Len(none) \in L
      BY <2>1, <2>2
    <2> QED BY <2>1, <2>3, <2>4, <1>3
  <1> HIDE DEF cs, Vs, none
  <1>8. ASSUME NEW v \in Vs, Len(v) > 0
        PROVE  /\ all(v) \in Seq(Seq(D))
               /\ Elements(all(v)) = {none} \cup Elements(HalvedPrefixes(v)) \cup Elements(short(v))
                                     \cup Elements(Each(T, v))
               /\ short(v) \in Seq(Seq(D))
               /\ Len(v) > 1 => Elements(short(v)) = {RemoveAt(v, i) : i \in 1 .. Len(v)}
               /\ ~(Len(v) > 1) => Elements(short(v)) = {}
    <2> DEFINE X == Seq(D)
               p == HalvedPrefixes(v)
               q == Shorter(v)
               s == short(v)
               e == Each(T, v)
               cond == Len(v) > 1
    <2>1. v \in Seq(D) /\ cond \in BOOLEAN
      BY <1>2
    <2>2. head \in Seq(X) /\ Elements(head) = {none}
      <3>1. none \in X
        BY <1>7
      <3> HIDE DEF X
      <3> QED BY <3>1, OneElement
    <2>3. p \in Seq(X)
      BY <2>1, <1>6, PrefixElements
    <2>4. q \in Seq(X) /\ Elements(q) = {RemoveAt(v, i) : i \in 1 .. Len(v)}
      BY <2>1, ShorterElements
    <2>5. e \in Seq(X)
      BY <2>1, <1>6, EachElements
    <2>6. s = When(cond, q)
      OBVIOUS
    <2> HIDE DEF X, p, q, s, e, head, cond
    <2>7. s \in Seq(X) /\ (cond => Elements(s) = Elements(q)) /\ (~cond => Elements(s) = {})
      <3>1. When(cond, q) \in Seq(X) /\ Elements(When(cond, q)) = IF cond THEN Elements(q) ELSE {}
        BY <2>1, <2>4, WhenElements
      <3> QED BY <3>1, <2>6
    <2> DEFINE hp == head \o p
               hps == hp \o s
               hpse == hps \o e
    <2>8. hp \in Seq(X) /\ Elements(hp) = Elements(head) \cup Elements(p)
      BY <2>2, <2>3, ConcatElements
    <2> HIDE DEF hp
    <2>9. hps \in Seq(X) /\ Elements(hps) = Elements(hp) \cup Elements(s)
      BY <2>7, <2>8, ConcatElements
    <2> HIDE DEF hps
    <2>10. hpse \in Seq(X) /\ Elements(hpse) = Elements(hps) \cup Elements(e)
      BY <2>5, <2>9, ConcatElements
    <2> DEFINE all4 == ((head \o p) \o s) \o e
    <2>11. hpse = all4
      BY DEF hp, hps
    <2> HIDE DEF hpse
    <2>12. all4 = all(v)
      BY DEF head, p, s, e, none
    <2> HIDE DEF all4
    <2>13. Elements(all4) = {none} \cup Elements(p) \cup Elements(s) \cup Elements(e) /\ all4 \in Seq(X)
      BY <2>2, <2>8, <2>9, <2>10, <2>11
    <2> DEFINE a == all(v)
    <2>14. a = all4
      BY <2>12
    <2> HIDE DEF a
    <2>15. Elements(a) = {none} \cup Elements(p) \cup Elements(s) \cup Elements(e) /\ a \in Seq(X)
      BY <2>13, <2>14
    <2> QED BY <2>4, <2>7, <2>15 DEF a, X, p, s, e, cond
  <1> HIDE DEF all, short
  <1>9. ASSUME NEW v \in Vs, ~(Len(v) > 0) PROVE cs(v) = <<>> /\ Elements(cs(v)) = {}
    BY <1>5, <1>9 DEF When, Elements
  <1>10. ASSUME NEW v \in Vs, Len(v) > 0 PROVE cs(v) = all(v)
    BY <1>5, <1>10 DEF When
  <1>11. ASSUME NEW v \in Vs, NEW i \in 1 .. Len(v)
         PROVE  /\ RemoveAt(v, i) \in Vs
                /\ SizeOf(v, W) = SizeOf(RemoveAt(v, i), W) + 1 + W[v[i]]
                /\ SizeOf(RemoveAt(v, i), W) \in Nat /\ W[v[i]] \in Nat
    <2> DEFINE r == RemoveAt(v, i)
    <2>1. v \in Seq(D) /\ Len(v) \in L
      BY <1>2
    <2>2. r \in Seq(D) /\ Len(r) = Len(v) - 1 /\ SizeOf(v, W) = SizeOf(r, W) + 1 + W[v[i]]
      BY <2>1, <1>6, SizeRemove
    <2>3. W[v[i]] \in Nat
      BY <2>1, <1>6
    <2> HIDE DEF r
    <2>4. SizeOf(r, W) \in Nat
      BY <2>2, <1>6, SizeFacts
    <2>5. Len(v) - 1 \in L
      BY <2>1
    <2> QED BY <2>2, <2>3, <2>4, <2>5, <1>3 DEF r
  <1>12. ASSUME NEW v \in Vs, NEW c \in Elements(cs(v)) PROVE c \in Vs /\ V[c] < V[v]
    <2>1. v \in Seq(D) /\ Len(v) \in L /\ Len(v) \in Nat /\ SizeOf(v, W) \in Nat /\ Len(v) <= SizeOf(v, W)
      BY <1>2, <1>6, SizeFacts
    <2>2. Len(v) > 0
      BY <1>9, <1>12
    <2>3. c \in Elements(all(v))
      BY <2>2, <1>10, <1>12
    <2>4. c \in Vs /\ SizeOf(c, W) < SizeOf(v, W)
      <3>1. CASE c \in Elements(Each(T, v))
        <4>1. c \in Seq(D) /\ Len(c) = Len(v) /\ SizeOf(c, W) < SizeOf(v, W)
          BY <3>1, <2>1, EachByUnits
        <4> QED BY <4>1, <2>1, <1>3
      <3>2. CASE c = none
        BY <3>2, <2>1, <2>2, <1>7
      <3>3. CASE c \in Elements(HalvedPrefixes(v))
        <4>1. HalvedPrefixes(v) \in Seq(Seq(D)) /\ Len(c) < Len(v) /\ SizeOf(c, W) < SizeOf(v, W)
          BY <3>3, <2>1, <1>6, PrefixElements
        <4>2. c \in Seq(D)
          BY <3>3, <4>1, ElementsOfSeq
        <4>3. Len(c) \in L
          <5>1. Len(c) \in Nat /\ Len(c) <= Len(v)
            BY <4>1, <4>2, <2>1
          <5> QED BY <5>1, <2>1
        <4> QED BY <4>1, <4>2, <4>3, <1>3
      <3>4. CASE c \in Elements(short(v))
        <4>1. Len(v) > 1 /\ \E i \in 1 .. Len(v) : c = RemoveAt(v, i)
          BY <3>4, <2>2, <1>8
        <4>2. PICK i \in 1 .. Len(v) : c = RemoveAt(v, i)
          BY <4>1
        <4>3. /\ c \in Vs /\ SizeOf(v, W) = SizeOf(c, W) + 1 + W[v[i]]
              /\ SizeOf(c, W) \in Nat /\ W[v[i]] \in Nat
          BY <4>2, <1>11
        <4> QED BY <4>3, <2>1
      <3> QED BY <3>1, <3>2, <3>3, <3>4, <2>2, <2>3, <1>8
    <2> QED BY <2>4, <1>2
  <1>13. ASSUME NEW v \in Vs PROVE cs(v) \in Seq(Vs) /\ V[v] \in Nat
    <2>1. Elements(cs(v)) \subseteq Vs
      BY <1>12
    <2>2. CASE Len(v) > 0
      <3>1. cs(v) \in Seq(Seq(D))
        BY <2>2, <1>8, <1>10
      <3> QED BY <3>1, <2>1, <1>2, <1>6, SeqOfElements, SizeFacts
    <2>3. CASE ~(Len(v) > 0)
      <3>1. cs(v) = <<>>
        BY <2>3, <1>9
      <3>2. SizeOf(v, W) \in Nat
        BY <1>2, <1>6, SizeFacts
      <3> QED BY <3>1, <3>2, <1>2
    <2> QED BY <2>2, <2>3
  <1>14. ASSUME NEW v \in Vs, NEW u \in Vs, V[u] < V[v]
         PROVE  \E c \in Elements(cs(v)) : V[c] = V[v] - 1
    <2>1. /\ v \in Seq(D) /\ Len(v) \in Nat /\ V[v] = SizeOf(v, W) /\ SizeOf(v, W) \in Nat
          /\ V[u] = SizeOf(u, W) /\ SizeOf(u, W) \in Nat
          /\ Len(v) = 0 => SizeOf(v, W) = 0
      <3>1. /\ v \in Seq(D) /\ Len(v) \in Nat /\ V[v] = SizeOf(v, W) /\ SizeOf(v, W) \in Nat
            /\ V[u] = SizeOf(u, W) /\ SizeOf(u, W) \in Nat
            /\ (\A i \in 1 .. Len(v) : W[v[i]] = 0) => SizeOf(v, W) = Len(v)
        BY <1>2, <1>6, SizeFacts
      <3> QED BY <3>1
    <2>2. Len(v) > 0
      BY <2>1, <1>14
    <2>3. CASE \E c \in Elements(Each(T, v)) : SizeOf(c, W) = SizeOf(v, W) - 1
      <3>1. PICK c \in Elements(Each(T, v)) : SizeOf(c, W) = SizeOf(v, W) - 1
        BY <2>3
      <3>2. c \in Elements(cs(v))
        BY <2>2, <1>8, <1>10
      <3>3. c \in Vs
        BY <3>2, <1>12
      <3> QED BY <3>1, <3>2, <3>3, <2>1, <1>2
    <2>4. CASE SizeOf(v, W) = Len(v) /\ Len(v) > 1 /\ \A i \in 1 .. Len(v) : W[v[i]] = 0
      <3> DEFINE one == 1
                 c == RemoveAt(v, one)
      <3>1. one \in 1 .. Len(v)
        BY <2>1, <2>4
      <3> HIDE DEF one
      <3>2. c \in Vs /\ SizeOf(v, W) = SizeOf(c, W) + 1 + W[v[one]] /\ SizeOf(c, W) \in Nat
        BY <3>1, <1>11
      <3>3. c \in Elements(cs(v))
        <4>1. c \in Elements(short(v))
          BY <3>1, <2>2, <2>4, <1>8
        <4> QED BY <4>1, <2>2, <1>8, <1>10
      <3>4. W[v[one]] = 0
        BY <2>4, <3>1
      <3>5. V[c] = V[v] - 1
        BY <3>2, <3>4, <2>1, <1>2
      <3> QED BY <3>3, <3>5
    <2>5. CASE SizeOf(v, W) = Len(v) /\ Len(v) = 1
      <3>1. none \in Elements(cs(v))
        BY <2>2, <1>8, <1>10
      <3>2. V[none] = V[v] - 1
        BY <2>1, <2>5, <1>2, <1>7
      <3> QED BY <3>1, <3>2
    <2>6. \/ \E c \in Elements(Each(T, v)) : SizeOf(c, W) = SizeOf(v, W) - 1
          \/ SizeOf(v, W) = Len(v) /\ \A i \in 1 .. Len(v) : W[v[i]] = 0
      BY <2>1, EachByUnits
    <2>7. Len(v) = 1 \/ Len(v) > 1
      BY <2>1, <2>2
    <2> QED BY <2>3, <2>4, <2>5, <2>6, <2>7, Zenon
  <1> QED BY <1>4, <1>12, <1>13, <1>14 DEF ShrinksByUnits, ShrinksWithin, cs, Vs

-----------------------------------------------------------------------------
(* The runner with such strategies.                                        *)

\* Subjects whose strategies shrink by units, and signed integers, meet the
\* three conditions: nothing is left to assume of them.
LEMMA ByUnitsWellBehaved ==
  ASSUME SizesReached, \A n \in Names : UnitSubject(Subjects[n]) \/ SignedSubject(Subjects[n])
  PROVE  WellBehaved
  <1>1. ASSUME NEW n \in Names
        PROVE  StaysInDomain(Subjects[n]) /\ Descends(Subjects[n]) /\ LeadsDown(Subjects[n])
    <2> DEFINE s == Subjects[n]
    <2>1. s.exact \subseteq Nat
      BY StrategyRunnerAssumption
    <2>2. UnitSubject(s) \/ SignedSubject(s)
      OBVIOUS
    <2> HIDE DEF s
    <2>3. StaysInDomain(s) /\ Descends(s) /\ LeadsDown(s)
      BY <2>1, <2>2, UnitBehaves, SignedBehaves
    <2> QED BY <2>3 DEF s
  <1> QED BY <1>1 DEF WellBehaved

\* With integers of every width, int_range() of every range, any one of several
\* such strategies, and vectors of them, vectors of vectors included, a failing
\* test of crates/pbt/src/strategy_runner.rs reports a value of the documented
\* domain; every counterexample adopted is smaller than the one before; and with
\* shrinking budget left the reported value is the smallest one that fails.
THEOREM UnitsReachMinimum ==
  ASSUME SizesReached, \A n \in Names : UnitSubject(Subjects[n]) \/ SignedSubject(Subjects[n])
  PROVE  /\ Spec => []InDomain
         /\ Spec => StrictlySmaller
         /\ Spec => []ExactMinimum
  BY ByUnitsWellBehaved, RunStaysInDomain, AdoptsSmaller, ReachesMinimum
-----------------------------------------------------------------------------
(* The runner with integers, of which nothing is assumed but what the      *)
(* operators of Arbitrary and Strategies compute.                          *)

\* any::<u8>() or another unsigned type; a number is as large as it is.
UnsignedSubject(s) ==
    \E bits \in Nat \ {0} :
        /\ s.domain = Unsigned(bits).of /\ ActsAs(s.strategy, any(Unsigned(bits)), s.domain)
        /\ \A v \in s.domain : s.weight[v] = v

\* How far the numbers of a range are from the number they shrink to.
Distances(lo, hi) == [v \in lo .. hi - 1 |-> Abs(v - TargetOf(lo, hi))]

\* int_range(lo .. hi), of a type that holds the range.
RangeSubject(s) ==
    \E T : \E lo, hi \in Int :
        /\ lo < hi /\ lo .. hi - 1 \subseteq T.of /\ s.domain = lo .. hi - 1
        /\ ActsAs(s.strategy, IntRange(T, lo, hi), s.domain)
        /\ \A v \in s.domain : s.weight[v] = Distances(lo, hi)[v]

\* vec_of(int_range(lo .. hi), min .. max); n bounds the lengths.
VectorSubject(s) ==
    \E T : \E lo, hi \in Int, min, max, n \in Nat :
        /\ lo < hi /\ lo .. hi - 1 \subseteq T.of /\ LengthsOf(min, max) \subseteq 0 .. n
        /\ s.domain = VectorsOf(lo .. hi - 1, LengthsOf(min, max))
        /\ ActsAs(s.strategy, VecOf(IntRange(T, lo, hi), min, max, n), s.domain)
        /\ \A v \in s.domain : s.weight[v] = SizeOf(v, Distances(lo, hi))

LEMMA UnsignedIsUnit ==
  ASSUME NEW s, s.strays = {}, UnsignedSubject(s)
  PROVE  UnitSubject(s)
  <1>1. PICK bits \in Nat \ {0} :
            /\ s.domain = Unsigned(bits).of /\ ActsAs(s.strategy, any(Unsigned(bits)), s.domain)
            /\ \A v \in s.domain : s.weight[v] = v
    BY Zenon DEF UnsignedSubject
  <1> DEFINE S == any(Unsigned(bits))
             D == Unsigned(bits).of
  <1>2. Generates(S, D) /\ ShrinksByUnits(S, D, s.weight)
    BY <1>1, UnsignedByUnits
  <1> HIDE DEF S, D
  <1>3. s.domain = D /\ ActsAs(s.strategy, S, s.domain)
    BY <1>1 DEF S, D
  <1> QED BY <1>2, <1>3, Zenon DEF UnitSubject

LEMMA RangeIsUnit ==
  ASSUME NEW s, s.strays = {}, RangeSubject(s)
  PROVE  UnitSubject(s)
  <1>1. PICK T : \E lo, hi \in Int :
            /\ lo < hi /\ lo .. hi - 1 \subseteq T.of /\ s.domain = lo .. hi - 1
            /\ ActsAs(s.strategy, IntRange(T, lo, hi), s.domain)
            /\ \A v \in s.domain : s.weight[v] = Distances(lo, hi)[v]
    BY Zenon DEF RangeSubject
  <1>2. PICK lo \in Int, hi \in Int :
            /\ lo < hi /\ lo .. hi - 1 \subseteq T.of /\ s.domain = lo .. hi - 1
            /\ ActsAs(s.strategy, IntRange(T, lo, hi), s.domain)
            /\ \A v \in s.domain : s.weight[v] = Distances(lo, hi)[v]
    BY <1>1, Zenon
  <1> DEFINE S == IntRange(T, lo, hi)
             D == lo .. hi - 1
  <1>3. \A v \in D : s.weight[v] = Abs(v - TargetOf(lo, hi))
    BY <1>2 DEF Distances
  <1>4. Generates(S, D) /\ ShrinksByUnits(S, D, s.weight)
    BY <1>2, <1>3, RangeByUnits
  <1> HIDE DEF S, D
  <1>5. s.domain = D /\ ActsAs(s.strategy, S, s.domain)
    BY <1>2 DEF S, D
  <1> QED BY <1>4, <1>5, Zenon DEF UnitSubject

\* What a range shrinks to is in the range.
LEMMA TargetInRange ==
  ASSUME NEW lo \in Int, NEW hi \in Int, lo < hi
  PROVE  TargetOf(lo, hi) \in lo .. hi - 1 /\ TargetOf(lo, hi) \in Int
  BY DEF TargetOf

LEMMA VectorIsUnit ==
  ASSUME NEW s, s.strays = {}, VectorSubject(s)
  PROVE  UnitSubject(s)
  <1>1. PICK T : \E lo, hi \in Int, min, max, n \in Nat :
            /\ lo < hi /\ lo .. hi - 1 \subseteq T.of /\ LengthsOf(min, max) \subseteq 0 .. n
            /\ s.domain = VectorsOf(lo .. hi - 1, LengthsOf(min, max))
            /\ ActsAs(s.strategy, VecOf(IntRange(T, lo, hi), min, max, n), s.domain)
            /\ \A v \in s.domain : s.weight[v] = SizeOf(v, Distances(lo, hi))
    BY Zenon DEF VectorSubject
  <1>2. PICK lo \in Int, hi \in Int, min \in Nat, max \in Nat, n \in Nat :
            /\ lo < hi /\ lo .. hi - 1 \subseteq T.of /\ LengthsOf(min, max) \subseteq 0 .. n
            /\ s.domain = VectorsOf(lo .. hi - 1, LengthsOf(min, max))
            /\ ActsAs(s.strategy, VecOf(IntRange(T, lo, hi), min, max, n), s.domain)
            /\ \A v \in s.domain : s.weight[v] = SizeOf(v, Distances(lo, hi))
    BY <1>1, Zenon
  <1> DEFINE E == IntRange(T, lo, hi)
             X == lo .. hi - 1
             W == Distances(lo, hi)
             t == TargetOf(lo, hi)
             S == VecOf(E, min, max, n)
             D == VectorsOf(X, LengthsOf(min, max))
  <1>3. \A x \in X : W[x] = Abs(x - t)
    BY DEF Distances
  <1>4. t \in X /\ Abs(t - t) = 0
    <2>0. lo \in Int /\ hi \in Int /\ lo < hi
      BY <1>2
    <2>1. t \in X /\ t \in Int
      BY <2>0, TargetInRange
    <2> HIDE DEF t, X
    <2> DEFINE d == t - t
    <2>2. d \in Int /\ d = 0
      BY <2>1
    <2> HIDE DEF d
    <2>3. Abs(d) = 0
      BY <2>2, AbsFacts
    <2> QED BY <2>1, <2>3 DEF d
  <1>5. Generates(E, X) /\ ShrinksByUnits(E, X, W)
    BY <1>2, <1>3, RangeByUnits
  <1>6. X \subseteq E.of
    BY <1>2 DEF IntRange, Strategy, any, Impl
  <1>7. \E z \in X : W[z] = 0
    BY <1>3, <1>4
  <1>8. s.domain = D /\ \A v \in D : s.weight[v] = SizeOf(v, W)
    BY <1>2
  <1>9. LengthsOf(min, max) \subseteq 0 .. n
    BY <1>2
  <1>10. ActsAs(s.strategy, S, s.domain)
    BY <1>2
  <1> HIDE DEF E, X, W, t
  <1>11. Generates(S, D) /\ ShrinksByUnits(S, D, s.weight)
    BY <1>5, <1>6, <1>7, <1>8, <1>9, VecOfByUnits
  <1> HIDE DEF S, D
  <1> QED BY <1>8, <1>10, <1>11, Zenon DEF UnitSubject

\* When every test draws from an unsigned or a signed integer type of any width,
\* from int_range() or from vec_of(int_range()), with any bounds and lengths,
\* then whatever the property and the budget are: each counterexample the runner
\* adopts is strictly smaller than the one before, all of them are values the
\* test could have drawn, and one reported with budget left is the smallest one
\* that fails.  No stray and no rise is admitted here.
THEOREM IntegersShrinkDown ==
  ASSUME SizesReached,
         \A n \in Names : LET s == Subjects[n] IN
            /\ s.strays = {} /\ s.rises = {}
            /\ UnsignedSubject(s) \/ SignedSubject(s) \/ RangeSubject(s) \/ VectorSubject(s)
  PROVE  /\ Spec => StrictlySmaller
         /\ Spec => []InDomain
         /\ Spec => []ExactMinimum
  <1>1. ASSUME NEW n \in Names PROVE UnitSubject(Subjects[n]) \/ SignedSubject(Subjects[n])
    <2> DEFINE s == Subjects[n]
    <2>1. /\ s.strays = {}
          /\ UnsignedSubject(s) \/ SignedSubject(s) \/ RangeSubject(s) \/ VectorSubject(s)
      OBVIOUS
    <2> HIDE DEF s
    <2>2. UnitSubject(s) \/ SignedSubject(s)
      BY <2>1, UnsignedIsUnit, RangeIsUnit, VectorIsUnit
    <2> QED BY <2>2 DEF s
  <1> QED BY <1>1, UnitsReachMinimum
=============================================================================
