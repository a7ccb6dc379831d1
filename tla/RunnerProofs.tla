---------------------------- MODULE RunnerProofs ----------------------------
(***************************************************************************)
(* The safety properties of Runner, proved for every property, shrinker,   *)
(* configuration and list of regression seeds.                             *)
(***************************************************************************)
EXTENDS Runner, TLAPS

\* The limits are exceeded by one step at most, by one counter at most, and
\* only while cases are still missing.
LimitsWatched ==
    /\ passed <= Target
    /\ \/ discarded <= cfg.max_discards /\ skipped <= cfg.max_skips
       \/ /\ discarded = cfg.max_discards + 1 /\ skipped <= cfg.max_skips
          /\ passed < Target /\ phase \in {"main", "done"}
       \/ /\ discarded <= cfg.max_discards /\ skipped = cfg.max_skips + 1
          /\ passed < Target /\ phase \in {"main", "done"}

\* What is known of the failing case once there is one, and of the counters
\* before: a replayed failure happens before anything was counted.
FailureKnown ==
    /\ phase = "replay" => passed = 0 /\ discarded = 0 /\ skipped = 0
    /\ phase \in {"replay", "main"} => failure = NoFailure /\ best = NoValue
    /\ failure # NoFailure =>
         /\ failure.original \in Values /\ "Fail" \in verdict[failure.original]
         /\ current \in Values /\ "Fail" \in verdict[current]
         /\ passed < Target
         /\ failure.attempt = IF failure.kept THEN passed + 1 ELSE 0
         /\ ~failure.kept => passed = 0
    /\ phase \in {"shrink", "round"} => failure # NoFailure
    /\ best # NoValue => "Fail" \in verdict[best]

\* While no candidate of the round has been remembered or adopted, none of
\* those tried always fails.
RoundTried ==
    phase = "round" =>
        /\ tried \in 0 .. Len(shrink[current])
        /\ cfg.shrink_mode = "Greedy" => best = NoValue
        /\ best = NoValue =>
             \A i \in 1 .. tried : verdict[shrink[current][i]] # {"Fail"}

\* The value returned is the one the state at that moment determines.
OutcomeOfState ==
    /\ phase # "done" => outcome = Running
    /\ phase = "done" =>
         \/ /\ outcome = PassedOutcome /\ failure = NoFailure
            /\ passed = Target /\ WithinLimits
         \/ /\ outcome = AbortedOutcome /\ failure = NoFailure
            /\ passed < Target /\ ~WithinLimits
         \/ /\ outcome = FailedOutcome /\ failure # NoFailure /\ WithinLimits
            /\ BudgetLeft => \A i \in DOMAIN shrink[current] :
                                verdict[shrink[current][i]] # {"Fail"}

IInv ==
    /\ TypeOK
    /\ LimitsWatched
    /\ FailureKnown
    /\ RoundTried
    /\ OutcomeOfState
    /\ ClassesCountCases
    /\ BudgetHeld
    /\ SizeInBounds

-----------------------------------------------------------------------------
(* Arithmetic of the size hint and of Classifications.                     *)

LEMMA TargetPositive == TypeOK => Target \in Nat /\ Target >= 1
  BY RunnerAssumption DEF TypeOK, ConfigType, Target, Larger

\* While cases are missing, the ramp has not passed max_size.
LEMMA RampBelowMaximum ==
  ASSUME NEW p \in Nat, NEW m \in Nat, NEW t \in Nat, p < t
  PROVE  /\ (p * m) \div t \in Nat
         /\ m # 0 => (p * m) \div t < m
         /\ m = 0 => (p * m) \div t = 0
  <1> DEFINE q == (p * m) \div t
  <1>1. p * m \in Nat /\ t > 0
    OBVIOUS
  <1>2. q \in Nat /\ q * t <= p * m
    BY <1>1, Z3
  <1>3. m # 0 => p * m < t * m
    BY Z3
  <1>4. m # 0 => q < m
    <2> SUFFICES ASSUME m # 0, q >= m PROVE FALSE
      BY <1>2
    <2>1. q * t >= m * t
      BY <1>2, Z3
    <2> QED BY <1>2, <1>3, <2>1, Z3
  <1>5. m = 0 => q = 0
    BY <1>1, Z3
  <1> QED BY <1>2, <1>4, <1>5

LEMMA RampSizeBounds ==
  ASSUME TypeOK, passed < Target
  PROVE  RampSize \in Nat /\ RampSize <= Larger(cfg.max_size, 1)
  <1>1. cfg.max_size \in Nat /\ passed \in Nat /\ Target \in Nat
    BY TargetPositive, RunnerAssumption DEF TypeOK, ConfigType
  <1> DEFINE q == (passed * cfg.max_size) \div Target
  <1>2. /\ q \in Nat
        /\ cfg.max_size # 0 => q < cfg.max_size
        /\ cfg.max_size = 0 => q = 0
    BY <1>1, RampBelowMaximum
  <1> HIDE DEF q
  <1>3. RampSize = 1 + Smaller(q, cfg.max_size)
    BY DEF RampSize, q
  <1> QED BY <1>1, <1>2, <1>3 DEF Smaller, Larger

LEMMA MergeCaseType ==
  ASSUME NEW c \in [total : Nat, count : [Labels -> Nat]], NEW ls
  PROVE  /\ MergeCase(c, ls) \in [total : Nat, count : [Labels -> Nat]]
         /\ MergeCase(c, ls).total = c.total + 1
         /\ \A l \in Labels : MergeCase(c, ls).count[l] <= c.count[l] + 1
  BY DEF MergeCase

-----------------------------------------------------------------------------

LEMMA InitIInv == Init => IInv
  <1> SUFFICES ASSUME Init PROVE IInv
    OBVIOUS
  <1> USE RunnerAssumption DEF Init
  <1>1. TypeOK
    BY DEF TypeOK, Phases, NoClasses, NoFailure
  <1>2. cfg \in ConfigType
    OBVIOUS
  <1>3. LimitsWatched /\ BudgetHeld /\ SizeInBounds
    BY <1>2 DEF LimitsWatched, BudgetHeld, SizeInBounds, Target, Larger, ConfigType
  <1>4. FailureKnown /\ RoundTried /\ OutcomeOfState
    BY DEF FailureKnown, RoundTried, OutcomeOfState
  <1>5. ClassesCountCases
    BY DEF ClassesCountCases, NoClasses, NoFailure
  <1> QED BY <1>1, <1>3, <1>4, <1>5 DEF IInv

-----------------------------------------------------------------------------
(* The types of the parameters, which no step changes.                     *)

LEMMA ParamTypes ==
  ASSUME TypeOK
  PROVE  /\ cfg \in ConfigType
         /\ \A v \in Values : shrink[v] \in Seq(Values)
         /\ \A v \in Values : verdict[v] \subseteq Outcomes
         /\ regressions \in Seq(Nat)
         /\ Target \in Nat /\ Target >= 1
  BY RunnerAssumption, TargetPositive DEF TypeOK

\* Every way to leave run_loop preserves the invariant.
LEMMA ReturnIInv ==
  ASSUME IInv, NEW o, Return(o), phase \in {"main", "shrink", "round"},
         \/ o = PassedOutcome /\ failure = NoFailure /\ passed = Target /\ WithinLimits
         \/ o = AbortedOutcome /\ failure = NoFailure /\ passed < Target /\ ~WithinLimits
         \/ /\ o = FailedOutcome /\ failure # NoFailure /\ WithinLimits
            /\ BudgetLeft => \A i \in DOMAIN shrink[current] :
                                verdict[shrink[current][i]] # {"Fail"}
  PROVE  IInv'
  <1> USE DEF Return, params, counts, locals
  <1>1. /\ phase' = "done" /\ outcome' = o
        /\ UNCHANGED <<cfg, shrink, verdict, regressions, replayed, size, passed,
                       discarded, skipped, classes, failure, current, attempts,
                       tried, best>>
    OBVIOUS
  <1>2. TypeOK'
    BY <1>1 DEF IInv, TypeOK, Phases
  <1>3. LimitsWatched'
    BY <1>1 DEF IInv, LimitsWatched, Target
  <1>4. FailureKnown'
    BY <1>1 DEF IInv, FailureKnown, Target
  <1>5. RoundTried'
    BY <1>1 DEF RoundTried
  <1>6. OutcomeOfState'
    BY <1>1 DEF OutcomeOfState, PassedOutcome, AbortedOutcome, FailedOutcome,
                Target, WithinLimits, BudgetLeft
  <1>7. ClassesCountCases' /\ BudgetHeld' /\ SizeInBounds'
    BY <1>1 DEF IInv, ClassesCountCases, BudgetHeld, SizeInBounds
  <1> QED BY <1>2, <1>3, <1>4, <1>5, <1>6, <1>7 DEF IInv

LEMMA GiveUpIInv == IInv /\ GiveUp => IInv'
  <1> SUFFICES ASSUME IInv, GiveUp PROVE IInv'
    OBVIOUS
  <1>1. failure = NoFailure
    BY DEF IInv, FailureKnown, GiveUp, InMain
  <1> QED BY <1>1, ReturnIInv DEF GiveUp, InMain

LEMMA AllPassedIInv == IInv /\ AllPassed => IInv'
  <1> SUFFICES ASSUME IInv, AllPassed PROVE IInv'
    OBVIOUS
  <1>1. failure = NoFailure
    BY DEF IInv, FailureKnown, AllPassed
  <1>2. passed = Target
    BY ParamTypes DEF IInv, LimitsWatched, AllPassed, TypeOK
  <1>3. WithinLimits
    BY <1>2, ParamTypes DEF IInv, LimitsWatched, WithinLimits
  <1> QED BY <1>1, <1>2, <1>3, ReturnIInv DEF AllPassed

\* Shrinking starts with both limits respected and never changes that.
LEMMA LimitsInShrink ==
  ASSUME IInv, phase \in {"shrink", "round"}
  PROVE  WithinLimits /\ failure # NoFailure
  BY DEF IInv, LimitsWatched, WithinLimits, FailureKnown

LEMMA NothingToShrinkIInv == IInv /\ NothingToShrink => IInv'
  <1> SUFFICES ASSUME IInv, NothingToShrink PROVE IInv'
    OBVIOUS
  <1>1. \A i \in DOMAIN shrink[current] : verdict[shrink[current][i]] # {"Fail"}
    BY DEF NothingToShrink
  <1> QED BY <1>1, LimitsInShrink, ReturnIInv DEF NothingToShrink

\* A round that ended with nothing remembered leaves a local minimum, or has
\* used up the budget.
LEMMA StopIInv ==
  ASSUME IInv, phase = "round", RoundOver, best = NoValue, Return(FailedOutcome)
  PROVE  IInv'
  <1>1. current \in Values /\ shrink[current] \in Seq(Values)
    BY LimitsInShrink, ParamTypes DEF IInv, FailureKnown
  <1>2. BudgetLeft => tried = Len(shrink[current])
    BY DEF RoundOver, AllTried
  <1>3. \A i \in 1 .. tried : verdict[shrink[current][i]] # {"Fail"}
    BY DEF IInv, RoundTried
  <1>4. DOMAIN shrink[current] = 1 .. Len(shrink[current])
    BY <1>1
  <1>5. BudgetLeft => \A i \in DOMAIN shrink[current] :
                         verdict[shrink[current][i]] # {"Fail"}
    BY <1>2, <1>3, <1>4
  <1> QED BY <1>5, LimitsInShrink, ReturnIInv

LEMMA GreedyStopIInv == IInv /\ GreedyStop => IInv'
  BY StopIInv DEF GreedyStop, InRound, IInv, RoundTried

LEMMA ExhaustiveStopIInv == IInv /\ ExhaustiveStop => IInv'
  BY StopIInv DEF ExhaustiveStop, InRound

LEMMA StartMainIInv == IInv /\ StartMain => IInv'
  <1> SUFFICES ASSUME IInv, StartMain PROVE IInv'
    OBVIOUS
  <1> USE DEF StartMain, params, counts, locals
  <1>1. TypeOK'
    BY DEF IInv, TypeOK, Phases
  <1>2. LimitsWatched'
    BY DEF IInv, LimitsWatched, Target
  <1>3. FailureKnown' /\ RoundTried' /\ OutcomeOfState'
    BY DEF IInv, FailureKnown, RoundTried, OutcomeOfState
  <1>4. ClassesCountCases' /\ BudgetHeld' /\ SizeInBounds'
    BY DEF IInv, ClassesCountCases, BudgetHeld, SizeInBounds
  <1> QED BY <1>1, <1>2, <1>3, <1>4 DEF IInv

LEMMA ReplaySeedIInv ==
  ASSUME IInv, NEW v \in Values, NEW o \in Outcomes, ReplaySeed(v, o)
  PROVE  IInv'
  <1> USE DEF ReplaySeed, ReplaySize, params, counts, locals
  <1> DEFINE seed == regressions[replayed + 1]
  <1>1. cfg \in ConfigType /\ seed \in Nat
    <2>1. cfg \in ConfigType /\ regressions \in Seq(Nat)
      BY ParamTypes DEF IInv
    <2>2. replayed \in Nat /\ replayed < Len(regressions)
      BY <2>1 DEF IInv, TypeOK
    <2> QED BY <2>1, <2>2
  <1>2. /\ passed = 0 /\ discarded = 0 /\ skipped = 0
        /\ failure = NoFailure /\ best = NoValue /\ outcome = Running
    BY DEF IInv, FailureKnown, OutcomeOfState
  <1>3. /\ size' \in Nat /\ size' <= Larger(cfg.max_size, 1)
        /\ replayed' \in 0 .. Len(regressions)
    <2>1. cfg.max_size \in Nat
      BY <1>1 DEF ConfigType
    <2>2. cfg.max_size \div 2 \in Nat /\ cfg.max_size \div 2 <= cfg.max_size
      BY <2>1, Z3
    <2>3. Len(regressions) \in Nat /\ replayed \in 0 .. Len(regressions)
      BY ParamTypes DEF IInv, TypeOK
    <2> QED BY <2>1, <2>2, <2>3 DEF Larger
  <1>4. /\ ClassesCountCases /\ classes.total = 0
        /\ \A l \in Labels : classes.count[l] <= classes.total
    BY <1>2 DEF IInv, ClassesCountCases, NoFailure
  <1>5. CASE o = "Fail"
    <2> USE <1>5 DEF StartShrink
    <2>1. /\ failure' = [original |-> v, seed |-> seed, attempt |-> 0, kept |-> FALSE]
          /\ current' = v /\ attempts' = 0 /\ tried' = 0 /\ best' = NoValue
          /\ phase' = "shrink"
      OBVIOUS
    <2>2. TypeOK'
      BY <1>1, <1>3, <2>1 DEF IInv, TypeOK, Phases
    <2>3. LimitsWatched'
      BY <1>1, <1>2, <2>1 DEF LimitsWatched, Target, ConfigType, Larger
    <2>4. FailureKnown'
      <3>1. Target' = Target /\ Target \in Nat /\ Target >= 1
        BY ParamTypes DEF IInv, Target
      <3>2. failure' # NoFailure
        BY <2>1, RunnerAssumption DEF NoFailure
      <3>3. passed' < Target' /\ "Fail" \in verdict'[v]
        BY <1>2, <3>1
      <3> QED BY <1>2, <2>1, <3>2, <3>3 DEF FailureKnown
    <2>5. RoundTried' /\ OutcomeOfState'
      BY <1>2, <2>1 DEF RoundTried, OutcomeOfState
    <2>6. ClassesCountCases' /\ BudgetHeld' /\ SizeInBounds'
      BY <1>1, <1>2, <1>3, <1>4, <2>1
         DEF ClassesCountCases, BudgetHeld, SizeInBounds, ConfigType
    <2> QED BY <2>2, <2>3, <2>4, <2>5, <2>6 DEF IInv
  <1>6. CASE o # "Fail"
    <2> USE <1>6
    <2>1. TypeOK'
      BY <1>3 DEF IInv, TypeOK
    <2>2. LimitsWatched'
      BY DEF IInv, LimitsWatched, Target
    <2>3. FailureKnown' /\ RoundTried' /\ OutcomeOfState'
      BY <1>2 DEF FailureKnown, RoundTried, OutcomeOfState
    <2>4. ClassesCountCases' /\ BudgetHeld' /\ SizeInBounds'
      BY <1>3 DEF IInv, ClassesCountCases, BudgetHeld, SizeInBounds
    <2> QED BY <2>1, <2>2, <2>3, <2>4 DEF IInv
  <1> QED BY <1>5, <1>6

LEMMA CaseIInv ==
  ASSUME IInv, NEW v \in Values, NEW o \in Outcomes, NEW ls \in SUBSET Labels,
         Case(v, o, ls)
  PROVE  IInv'
  <1> USE DEF Case, InMain, params, counts, locals
  <1>1. /\ cfg \in ConfigType /\ Target \in Nat /\ passed < Target
        /\ passed \in Nat /\ discarded \in Nat /\ skipped \in Nat
        /\ Target' = Target
    BY ParamTypes DEF IInv, TypeOK, Target
  <1>2. failure = NoFailure /\ best = NoValue /\ outcome = Running /\ failure.kept = FALSE
    BY DEF IInv, FailureKnown, OutcomeOfState, NoFailure
  <1>3. size' \in Nat /\ size' <= Larger(cfg.max_size, 1)
    BY RampSizeBounds DEF IInv
  <1>4. /\ passed' = passed + (IF o = "Pass" THEN 1 ELSE 0)
        /\ discarded' = discarded + (IF o = "Discard" THEN 1 ELSE 0)
        /\ skipped' = skipped + (IF o = "Skip" THEN 1 ELSE 0)
    BY DEF Tally
  <1>5. /\ classes' \in [total : Nat, count : [Labels -> Nat]]
        /\ classes'.total = passed + (IF o \in {"Pass", "Fail"} THEN 1 ELSE 0)
        /\ \A l \in Labels : classes'.count[l] <= classes'.total
    <2>1. /\ classes \in [total : Nat, count : [Labels -> Nat]]
          /\ classes.total = passed
          /\ \A l \in Labels : classes.count[l] <= classes.total
      BY <1>1, <1>2 DEF IInv, TypeOK, ClassesCountCases
    <2>2. /\ MergeCase(classes, ls) \in [total : Nat, count : [Labels -> Nat]]
          /\ MergeCase(classes, ls).total = classes.total + 1
          /\ \A l \in Labels : MergeCase(classes, ls).count[l] <= classes.count[l] + 1
      BY <2>1, MergeCaseType
    <2>3. CASE o \in {"Pass", "Fail"}
      <3>1. classes' = MergeCase(classes, ls)
        BY <2>3 DEF ClassesAfter
      <3>2. \A l \in Labels : classes.count[l] \in Nat /\ classes'.count[l] \in Nat
        BY <2>1, <2>2, <3>1
      <3> QED BY <1>1, <2>1, <2>2, <2>3, <3>1, <3>2
    <2>4. CASE o \notin {"Pass", "Fail"}
      BY <1>1, <2>1, <2>4 DEF ClassesAfter
    <2> QED BY <2>3, <2>4
  <1>6. LimitsWatched'
    <2>1. discarded <= cfg.max_discards /\ skipped <= cfg.max_skips
      BY DEF WithinLimits
    <2>2. cfg.max_discards \in Nat /\ cfg.max_skips \in Nat
      BY <1>1 DEF ConfigType
    <2>3. phase' = "main" \/ o = "Fail"
      OBVIOUS
    <2> QED BY <1>1, <1>4, <2>1, <2>2, <2>3 DEF LimitsWatched, Outcomes
  <1>7. BudgetHeld' /\ SizeInBounds'
    BY <1>1, <1>3 DEF IInv, BudgetHeld, SizeInBounds, StartShrink, ConfigType
  <1>8. CASE o = "Fail"
    <2> USE <1>8 DEF StartShrink
    <2>1. /\ failure' = [original |-> v, seed |-> cfg.seed, attempt |-> passed + 1,
                         kept |-> TRUE]
          /\ current' = v /\ attempts' = 0 /\ tried' = 0 /\ best' = NoValue
          /\ phase' = "shrink"
      OBVIOUS
    <2>2. TypeOK'
      <3>1. /\ cfg' \in Configs /\ shrink' \in Shrinkers /\ verdict' \in Verdicts
            /\ regressions' \in Regressions /\ replayed' \in 0 .. Len(regressions')
        BY DEF IInv, TypeOK
      <3>2. passed' \in Nat /\ discarded' \in Nat /\ skipped' \in Nat
        BY <1>1, <1>4
      <3>3. /\ failure' \in [original : Values \cup {NoValue}, seed : Nat,
                             attempt : Nat, kept : BOOLEAN]
            /\ phase' \in Phases
        BY <1>1, <2>1 DEF Phases, ConfigType
      <3> QED BY <1>3, <1>5, <2>1, <3>1, <3>2, <3>3 DEF TypeOK
    <2>3. FailureKnown'
      <3>1. failure' # NoFailure
        BY <2>1, RunnerAssumption DEF NoFailure
      <3> QED BY <1>1, <1>4, <2>1, <3>1 DEF FailureKnown
    <2>4. RoundTried' /\ OutcomeOfState'
      BY <1>2, <2>1 DEF RoundTried, OutcomeOfState
    <2>5. ClassesCountCases'
      BY <1>1, <1>4, <1>5, <2>1 DEF ClassesCountCases
    <2> QED BY <1>6, <1>7, <2>2, <2>3, <2>4, <2>5 DEF IInv
  <1>9. CASE o # "Fail"
    <2> USE <1>9
    <2>1. TypeOK'
      BY <1>1, <1>3, <1>4, <1>5 DEF IInv, TypeOK
    <2>2. FailureKnown' /\ RoundTried' /\ OutcomeOfState'
      BY <1>2 DEF FailureKnown, RoundTried, OutcomeOfState
    <2>3. ClassesCountCases'
      BY <1>1, <1>2, <1>4, <1>5 DEF ClassesCountCases
    <2> QED BY <1>6, <1>7, <2>1, <2>2, <2>3 DEF IInv
  <1> QED BY <1>8, <1>9

\* In the shrinking loop: the current value, its candidates, the failing case.
LEMMA ShrinkFacts ==
  ASSUME IInv, phase \in {"shrink", "round"}
  PROVE  /\ current \in Values /\ "Fail" \in verdict[current]
         /\ shrink[current] \in Seq(Values)
         /\ failure # NoFailure /\ outcome = Running
         /\ attempts \in Nat /\ tried \in Nat /\ cfg.max_shrinks \in Nat
         /\ WithinLimits
  <1>1. failure # NoFailure /\ WithinLimits
    BY LimitsInShrink
  <1>2. current \in Values /\ "Fail" \in verdict[current]
    BY <1>1 DEF IInv, FailureKnown
  <1>3. shrink[current] \in Seq(Values) /\ cfg.max_shrinks \in Nat
    BY <1>2, ParamTypes DEF IInv, ConfigType
  <1> QED BY <1>1, <1>2, <1>3 DEF IInv, TypeOK, OutcomeOfState

\* A step of the shrinking loop that stays in it leaves everything the main
\* loop decided alone.
LEMMA ShrinkStep ==
  ASSUME IInv, phase \in {"shrink", "round"}, phase' \in {"shrink", "round"},
         UNCHANGED <<params, replayed, size, counts, classes, failure, outcome>>,
         attempts' \in Nat, attempts' <= cfg.max_shrinks, tried' \in Nat,
         current' \in Values, "Fail" \in verdict[current'],
         best' \in Values \cup {NoValue}, best' # NoValue => "Fail" \in verdict[best'],
         RoundTried'
  PROVE  IInv'
  <1> USE ShrinkFacts DEF params, counts
  <1>1. TypeOK'
    BY DEF IInv, TypeOK, Phases
  <1>2. LimitsWatched'
    BY DEF IInv, LimitsWatched, WithinLimits, Target
  <1>3. FailureKnown'
    BY DEF IInv, FailureKnown, Target
  <1>4. OutcomeOfState'
    BY DEF OutcomeOfState
  <1>5. ClassesCountCases' /\ BudgetHeld' /\ SizeInBounds'
    BY DEF IInv, ClassesCountCases, BudgetHeld, SizeInBounds
  <1> QED BY <1>1, <1>2, <1>3, <1>4, <1>5 DEF IInv

LEMMA BeginRoundIInv == IInv /\ BeginRound => IInv'
  <1> SUFFICES ASSUME IInv, BeginRound PROVE IInv'
    OBVIOUS
  <1> USE DEF BeginRound, params, counts
  <1>1. RoundTried'
    BY ShrinkFacts DEF RoundTried
  <1>2. attempts <= cfg.max_shrinks
    BY DEF IInv, BudgetHeld
  <1> QED BY <1>1, <1>2, ShrinkFacts, ShrinkStep

\* The candidate tried next is a value, and its position is in the round.
LEMMA TryFacts ==
  ASSUME IInv, phase = "round", Try
  PROVE  /\ Candidate \in Values /\ tried' \in 0 .. Len(shrink[current])
         /\ attempts' \in Nat /\ attempts' <= cfg.max_shrinks
         /\ tried' = tried + 1
  <1>1. tried \in 0 .. Len(shrink[current]) /\ tried # Len(shrink[current])
    BY DEF IInv, RoundTried, Try, RoundOver, AllTried
  <1>2. attempts < cfg.max_shrinks
    BY DEF Try, RoundOver, BudgetLeft
  <1>3. tried + 1 \in 1 .. Len(shrink[current])
    BY <1>1, ShrinkFacts
  <1>4. Candidate \in Values
    BY <1>3, ShrinkFacts DEF Candidate
  <1> QED BY <1>1, <1>2, <1>3, <1>4, ShrinkFacts DEF Try

LEMMA GreedyTryIInv ==
  ASSUME IInv, NEW o \in Outcomes, GreedyTry(o)
  PROVE  IInv'
  <1> USE DEF GreedyTry, InRound, params, counts
  <1>1. /\ best = NoValue /\ best' = NoValue
        /\ \A i \in 1 .. tried : verdict[shrink[current][i]] # {"Fail"}
    BY DEF IInv, RoundTried
  <1>2. CASE Adopts(o)
    <2>1. /\ current' = Candidate /\ phase' = "shrink"
          /\ "Fail" \in verdict[Candidate]
      BY <1>2 DEF Adopts
    <2> QED BY <1>1, <2>1, TryFacts, ShrinkStep DEF RoundTried
  <1>3. CASE ~Adopts(o)
    <2>1. current' = current /\ phase' = "round" /\ verdict[Candidate] # {"Fail"}
      BY <1>3 DEF Adopts
    <2>2. \A i \in 1 .. tried' : verdict[shrink[current][i]] # {"Fail"}
      BY <1>1, <2>1, TryFacts, ShrinkFacts DEF Candidate
    <2>3. RoundTried'
      BY <1>1, <2>1, <2>2, TryFacts DEF RoundTried
    <2> QED BY <1>1, <2>1, <2>3, TryFacts, ShrinkFacts, ShrinkStep
  <1> QED BY <1>2, <1>3

LEMMA ExhaustiveTryIInv ==
  ASSUME IInv, NEW o \in Outcomes, ExhaustiveTry(o)
  PROVE  IInv'
  <1> USE DEF ExhaustiveTry, InRound, params, counts
  <1>1. current' = current /\ phase' = "round"
    OBVIOUS
  <1>2. /\ best' \in Values \cup {NoValue}
        /\ best' # NoValue => "Fail" \in verdict[best']
    BY TryFacts DEF IInv, TypeOK, FailureKnown, Adopts
  <1>3. best' = NoValue => \A i \in 1 .. tried' : verdict[shrink[current][i]] # {"Fail"}
    <2> SUFFICES ASSUME best' = NoValue
                 PROVE  \A i \in 1 .. tried' : verdict[shrink[current][i]] # {"Fail"}
      OBVIOUS
    <2>1. best = NoValue /\ ~Adopts(o)
      BY TryFacts, RunnerAssumption DEF Improves
    <2>2. verdict[Candidate] # {"Fail"}
      BY <2>1 DEF Adopts
    <2>3. \A i \in 1 .. tried : verdict[shrink[current][i]] # {"Fail"}
      BY <2>1 DEF IInv, RoundTried
    <2> QED BY <2>2, <2>3, TryFacts, ShrinkFacts DEF Candidate
  <1>4. RoundTried'
    BY <1>1, <1>3, TryFacts DEF RoundTried
  <1> QED BY <1>1, <1>2, <1>4, TryFacts, ShrinkFacts, ShrinkStep

LEMMA ExhaustiveAdoptIInv == IInv /\ ExhaustiveAdopt => IInv'
  <1> SUFFICES ASSUME IInv, ExhaustiveAdopt PROVE IInv'
    OBVIOUS
  <1> USE DEF ExhaustiveAdopt, InRound, params, counts
  <1>1. best \in Values /\ "Fail" \in verdict[best] /\ attempts <= cfg.max_shrinks
    BY DEF IInv, TypeOK, FailureKnown, BudgetHeld
  <1>2. RoundTried'
    BY DEF RoundTried
  <1> QED BY <1>1, <1>2, ShrinkFacts, ShrinkStep

LEMMA StutterIInv == IInv /\ UNCHANGED vars => IInv'
  <1> SUFFICES ASSUME IInv, UNCHANGED vars PROVE IInv'
    OBVIOUS
  <1> USE DEF vars, params, counts, locals
  <1>1. TypeOK' /\ ClassesCountCases' /\ BudgetHeld' /\ SizeInBounds'
    BY DEF IInv, TypeOK, ClassesCountCases, BudgetHeld, SizeInBounds
  <1>2. LimitsWatched' /\ FailureKnown' /\ RoundTried'
    BY DEF IInv, LimitsWatched, FailureKnown, RoundTried, Target
  <1>3. OutcomeOfState'
    BY DEF IInv, OutcomeOfState, PassedOutcome, AbortedOutcome, FailedOutcome,
           Target, WithinLimits, BudgetLeft
  <1> QED BY <1>1, <1>2, <1>3 DEF IInv

LEMMA NextIInv == IInv /\ [Next]_vars => IInv'
  <1> SUFFICES ASSUME IInv, [Next]_vars PROVE IInv'
    OBVIOUS
  <1>1. CASE Loop
    BY <1>1, ReplaySeedIInv, StartMainIInv, GiveUpIInv, CaseIInv, AllPassedIInv
       DEF Loop
  <1>2. CASE Shrink
    BY <1>2, NothingToShrinkIInv, BeginRoundIInv, GreedyTryIInv, GreedyStopIInv,
       ExhaustiveTryIInv, ExhaustiveAdoptIInv, ExhaustiveStopIInv DEF Shrink
  <1>3. CASE Returned \/ UNCHANGED vars
    BY <1>3, StutterIInv DEF Returned
  <1> QED BY <1>1, <1>2, <1>3 DEF Next

-----------------------------------------------------------------------------
(* What a run reports is justified by the invariant.                       *)

LEMMA VerdictFromIInv == IInv => VerdictJustified
  <1> SUFFICES ASSUME IInv, outcome.status # "Running" PROVE VerdictJustified
    BY DEF VerdictJustified
  <1> USE ParamTypes DEF IInv, OutcomeOfState
  <1>1. phase = "done"
    BY DEF Running
  <1>2. /\ passed \in Nat /\ discarded \in Nat /\ skipped \in Nat
        /\ cfg.max_discards \in Nat /\ cfg.max_skips \in Nat
    BY DEF TypeOK, ConfigType
  <1>3. CASE outcome = PassedOutcome /\ passed = Target /\ WithinLimits
    BY <1>3 DEF VerdictJustified, OutcomeCases, PassedOutcome, WithinLimits
  <1>4. CASE outcome = AbortedOutcome /\ passed < Target /\ ~WithinLimits
    <2>1. /\ outcome.status = "Aborted" /\ outcome.cases = passed
          /\ outcome.reason = IF discarded > cfg.max_discards THEN "discards"
                              ELSE "skips"
      BY <1>4 DEF AbortedOutcome
    <2>2. \/ discarded = cfg.max_discards + 1 /\ skipped <= cfg.max_skips
          \/ discarded <= cfg.max_discards /\ skipped = cfg.max_skips + 1
      BY <1>4 DEF LimitsWatched, WithinLimits
    <2> QED BY <1>2, <1>4, <2>1, <2>2 DEF VerdictJustified, OutcomeCases
  <1>5. CASE outcome = FailedOutcome /\ failure # NoFailure /\ WithinLimits
    <2>1. /\ outcome.status = "Failed" /\ outcome.attempt = failure.attempt
          /\ passed < Target
          /\ failure.attempt = IF failure.kept THEN passed + 1 ELSE 0
          /\ ~failure.kept => passed = 0
      BY <1>5 DEF FailedOutcome, FailureKnown
    <2>2. OutcomeCases = passed
      BY <1>2, <2>1 DEF OutcomeCases, Larger
    <2> QED BY <1>2, <1>5, <2>1, <2>2 DEF VerdictJustified, WithinLimits
  <1> QED BY <1>1, <1>3, <1>4, <1>5

LEMMA CounterexampleFromIInv == IInv => CounterexampleFails
  <1> SUFFICES ASSUME IInv PROVE CounterexampleFails
    OBVIOUS
  <1> USE DEF IInv, FailureKnown
  <1>1. outcome.status = "Failed" => outcome = FailedOutcome /\ failure # NoFailure
    BY DEF OutcomeOfState, Running, PassedOutcome, AbortedOutcome
  <1> QED BY <1>1 DEF CounterexampleFails, FailedOutcome

LEMMA MinimalFromIInv == IInv => LocallyMinimal
  BY DEF IInv, OutcomeOfState, LocallyMinimal, Running, PassedOutcome,
         AbortedOutcome, FailedOutcome

-----------------------------------------------------------------------------
(* Action properties: what no step of the loops may do.                    *)

\* A larger dividend has no smaller quotient.
LEMMA QuotientMonotonic ==
  ASSUME NEW a \in Nat, NEW b \in Nat, NEW t \in Nat, t > 0, a <= b
  PROVE  a \div t \in Nat /\ b \div t \in Nat /\ a \div t <= b \div t
  <1> DEFINE q == a \div t
             r == b \div t
  <1>1. q \in Nat /\ q * t <= a
    BY Z3
  <1>2. r \in Nat /\ b < (r + 1) * t
    BY Z3
  <1>3. q <= r
    <2> SUFFICES ASSUME q >= r + 1 PROVE FALSE
      BY <1>1, <1>2
    <2>1. q * t >= (r + 1) * t
      BY <1>1, <1>2, Z3
    <2> HIDE DEF q, r
    <2> QED BY <1>1, <1>2, <2>1
  <1> QED BY <1>1, <1>2, <1>3

\* One more passing case does not lower the ramp.
LEMMA RampMonotonic ==
  ASSUME NEW p \in Nat, NEW n \in {p, p + 1}, NEW m \in Nat, NEW t \in Nat, t > 0
  PROVE  1 + Smaller((p * m) \div t, m) <= 1 + Smaller((n * m) \div t, m)
  <1>1. p * m \in Nat /\ n * m \in Nat /\ p * m <= n * m
    BY Z3
  <1>2. /\ (p * m) \div t \in Nat /\ (n * m) \div t \in Nat
        /\ (p * m) \div t <= (n * m) \div t
    BY <1>1, QuotientMonotonic
  <1> QED BY <1>2 DEF Smaller

\* The size hint last given is one the ramp has reached, once there was a case.
SizeReached ==
    phase = "main" /\ passed + discarded + skipped > 0 => size <= RampSize

\* Only a case of the main loop leaves it in the main loop with cases counted.
LEMMA SizeReachedStep == IInv /\ SizeReached /\ [Next]_vars => SizeReached'
  <1> SUFFICES ASSUME IInv, SizeReached, [Next]_vars, phase' = "main"
               PROVE  SizeReached'
    BY DEF SizeReached
  <1>1. CASE UNCHANGED vars
    BY <1>1 DEF SizeReached, RampSize, Target, vars, params, counts
  <1>2. CASE Returned \/ Shrink \/ GiveUp \/ AllPassed
    BY <1>1, <1>2 DEF Returned, Shrink, NothingToShrink, BeginRound, GreedyTry, GreedyStop,
         ExhaustiveTry, ExhaustiveAdopt, ExhaustiveStop, InRound, GiveUp, AllPassed, Return
  <1>3. CASE StartMain \/ \E v \in Values, o \in Outcomes : ReplaySeed(v, o)
    <2>1. phase = "replay" /\ UNCHANGED counts
      BY <1>3 DEF StartMain, ReplaySeed
    <2>2. passed' = 0 /\ discarded' = 0 /\ skipped' = 0
      BY <2>1 DEF IInv, FailureKnown, counts
    <2> QED BY <2>2 DEF SizeReached
  <1>4. ASSUME NEW v \in Values, NEW o \in Outcomes, NEW ls \in SUBSET Labels, Case(v, o, ls)
        PROVE  SizeReached'
    <2>1. size' = RampSize /\ passed' \in {passed, passed + 1} /\ cfg' = cfg
      BY <1>4 DEF Case, Tally, params, IInv, TypeOK
    <2>2. passed \in Nat /\ cfg.max_size \in Nat /\ Target \in Nat /\ Target > 0 /\ Target' = Target
      BY <2>1, ParamTypes DEF IInv, TypeOK, ConfigType, Target
    <2>3. RampSize' = 1 + Smaller((passed' * cfg.max_size) \div Target, cfg.max_size)
      BY <2>1, <2>2 DEF RampSize
    <2>4. RampSize <= RampSize'
      BY <2>1, <2>2, <2>3, RampMonotonic DEF RampSize
    <2> QED BY <2>1, <2>4 DEF SizeReached
  <1> QED BY <1>1, <1>2, <1>3, <1>4 DEF Next, Loop

LEMMA SizeStepGrows ==
  IInv /\ SizeReached /\ [Next]_vars =>
      [phase = "main" /\ passed + discarded + skipped > 0 => size' >= size]_vars
  <1> SUFFICES ASSUME IInv, SizeReached, Next, phase = "main", passed + discarded + skipped > 0
               PROVE  size' >= size
    OBVIOUS
  <1>1. size \in Nat
    BY DEF IInv, TypeOK
  <1>2. size' = size \/ size' = RampSize
    BY DEF Next, Loop, Shrink, Returned, StartMain, ReplaySeed, NothingToShrink, BeginRound,
         GreedyTry, GreedyStop, ExhaustiveTry, ExhaustiveAdopt, ExhaustiveStop, InRound,
         GiveUp, AllPassed, Return, Case, vars
  <1> QED BY <1>1, <1>2 DEF SizeReached

\* The candidate remembered in an exhaustive round is no longer than any of
\* those tried that always fail.
ShortestSoFar ==
    phase = "round" /\ cfg.shrink_mode = "Exhaustive" =>
        \A i \in 1 .. tried : verdict[shrink[current][i]] = {"Fail"} =>
            best # NoValue /\ DebugLen[best] <= DebugLen[shrink[current][i]]

LEMMA ShortestStep == IInv /\ ShortestSoFar /\ [Next]_vars => ShortestSoFar'
  <1> SUFFICES ASSUME IInv, ShortestSoFar, [Next]_vars,
                      phase' = "round", cfg'.shrink_mode = "Exhaustive"
               PROVE  ShortestSoFar'
    BY DEF ShortestSoFar
  <1>1. CASE UNCHANGED vars
    BY <1>1 DEF ShortestSoFar, vars, params, locals
  <1>2. CASE BeginRound
    BY <1>2 DEF ShortestSoFar, BeginRound
  <1>3. ASSUME NEW o \in Outcomes, ExhaustiveTry(o)
        PROVE  ShortestSoFar'
    <2> DEFINE S == shrink[current]
    <2>1. /\ UNCHANGED <<cfg, shrink, verdict, current>> /\ phase = "round"
          /\ cfg.shrink_mode = "Exhaustive" /\ o \in verdict[Candidate]
          /\ best' = IF Adopts(o) /\ Improves(Candidate) THEN Candidate ELSE best
      BY <1>3 DEF ExhaustiveTry, InRound, params
    <2>2. Candidate \in Values /\ tried' = tried + 1 /\ tried' \in 1 .. Len(S)
      BY <1>3, TryFacts, ShrinkFacts, <2>1 DEF ExhaustiveTry
    <2>3. /\ \A i \in 1 .. tried : S[i] \in Values
          /\ \A v \in Values : v # NoValue /\ DebugLen[v] \in Nat
          /\ best \in Values \cup {NoValue}
      <3>1. S \in Seq(Values) /\ tried \in Nat
        BY <2>1, ShrinkFacts
      <3>2. 1 .. tried \subseteq DOMAIN S
        BY <2>2, <3>1
      <3>3. \A v \in Values : v # NoValue /\ DebugLen[v] \in Nat
        BY RunnerAssumption
      <3>4. best \in Values \cup {NoValue}
        BY DEF IInv, TypeOK
      <3> QED BY <3>1, <3>2, <3>3, <3>4
    <2>4. \A i \in 1 .. tried : verdict[S[i]] = {"Fail"} =>
              best # NoValue /\ DebugLen[best] <= DebugLen[S[i]]
      BY <2>1 DEF ShortestSoFar
    <2>5. best # NoValue => best' # NoValue /\ DebugLen[best'] <= DebugLen[best]
      BY <2>1, <2>2, <2>3 DEF Improves
    <2>6. verdict[Candidate] = {"Fail"} =>
              best' # NoValue /\ DebugLen[best'] <= DebugLen[Candidate]
      BY <2>1, <2>2, <2>3 DEF Improves, Adopts
    <2>7. best' \in Values \cup {NoValue}
      BY <2>1, <2>2, <2>3
    <2>8. ASSUME NEW i \in 1 .. tried', verdict[S[i]] = {"Fail"}
          PROVE  best' # NoValue /\ DebugLen[best'] <= DebugLen[S[i]]
      <3>1. CASE i \in 1 .. tried
        BY <2>3, <2>4, <2>5, <2>7, <2>8, <3>1
      <3>2. CASE i = tried + 1
        BY <2>6, <2>8, <3>2 DEF Candidate
      <3> QED BY <2>2, <2>8, <3>1, <3>2, ShrinkFacts, <2>1
    <2> QED BY <2>1, <2>8 DEF ShortestSoFar
  <1>4. CASE Loop \/ Returned
    BY <1>1, <1>4 DEF Loop, Returned, StartMain, ReplaySeed, GiveUp, AllPassed, Return, Case,
         InMain, StartShrink
  <1>5. CASE NothingToShrink \/ (\E o \in Outcomes : GreedyTry(o)) \/ GreedyStop
             \/ ExhaustiveAdopt \/ ExhaustiveStop
    BY <1>5 DEF NothingToShrink, GreedyTry, GreedyStop, ExhaustiveAdopt, ExhaustiveStop,
         InRound, Return, params
  <1> QED BY <1>1, <1>2, <1>3, <1>4, <1>5 DEF Next, Shrink

LEMMA AdoptsShortest ==
  IInv /\ ShortestSoFar /\ [Next]_vars =>
      [(InRound("Exhaustive") /\ phase' = "shrink" /\ AllTried) =>
          \A i \in DOMAIN shrink[current] :
              verdict[shrink[current][i]] = {"Fail"} =>
                  DebugLen[current'] <= DebugLen[shrink[current][i]]]_vars
  <1> SUFFICES ASSUME IInv, ShortestSoFar, Next, InRound("Exhaustive"), phase' = "shrink",
                      AllTried, NEW i \in DOMAIN shrink[current],
                      verdict[shrink[current][i]] = {"Fail"}
               PROVE  DebugLen[current'] <= DebugLen[shrink[current][i]]
    OBVIOUS
  <1>1. current' = best
    BY DEF Next, Loop, Shrink, Returned, StartMain, ReplaySeed, NothingToShrink, BeginRound,
         GreedyTry, GreedyStop, ExhaustiveTry, ExhaustiveAdopt, ExhaustiveStop, InRound,
         GiveUp, AllPassed, Return, Case, InMain, vars
  <1>2. phase = "round" /\ cfg.shrink_mode = "Exhaustive"
    BY DEF InRound
  <1>3. i \in 1 .. tried
    BY <1>2, ShrinkFacts DEF AllTried
  <1> QED BY <1>1, <1>2, <1>3 DEF ShortestSoFar

-----------------------------------------------------------------------------

\* The strengthened invariant holds in every state of a run.
THEOREM RunnerInvariant == Spec => []IInv
  BY InitIInv, NextIInv, PTL DEF Spec

\* Every variable keeps its type, whatever the property, the shrinker and the
\* limits.
THEOREM RunnerTypes == Spec => []TypeOK
  <1>1. IInv => TypeOK
    BY DEF IInv
  <1> QED BY <1>1, RunnerInvariant, PTL

\* The verdict a run returns is the one its counters justify, and cases()
\* is the number of passing cases.
THEOREM VerdictsJustified == Spec => []VerdictJustified
  BY VerdictFromIInv, RunnerInvariant, PTL

\* Classifications count each passing case and the failing one exactly once.
THEOREM ClassesExact == Spec => []ClassesCountCases
  <1>1. IInv => ClassesCountCases
    BY DEF IInv
  <1> QED BY <1>1, RunnerInvariant, PTL

\* What is reported as a counterexample can make the property fail.
THEOREM CounterexamplesFail == Spec => []CounterexampleFails
  BY CounterexampleFromIInv, RunnerInvariant, PTL

\* In both shrink modes, shrinking that did not run out of budget ends at a
\* local minimum of the shrinker.
THEOREM ShrunkLocallyMinimal == Spec => []LocallyMinimal
  BY MinimalFromIInv, RunnerInvariant, PTL

\* No shrinker, cyclic or endless, makes shrinking exceed max_shrinks.
THEOREM ShrinkBudget == Spec => []BudgetHeld
  <1>1. IInv => BudgetHeld
    BY DEF IInv
  <1> QED BY <1>1, RunnerInvariant, PTL

\* The size hints given to the generator stay within Config::max_size.
THEOREM SizesBounded == Spec => []SizeInBounds
  <1>1. IInv => SizeInBounds
    BY DEF IInv
  <1> QED BY <1>1, RunnerInvariant, PTL

\* The main loop never goes back to a smaller size hint, whatever passes,
\* discards or skips in between.
THEOREM SizesGrow == Spec => SizeGrows
  <1>1. Init => SizeReached
    BY DEF Init, SizeReached
  <1>2. Spec => []SizeReached
    BY <1>1, SizeReachedStep, RunnerInvariant, PTL DEF Spec
  <1> QED BY <1>2, SizeStepGrows, RunnerInvariant, PTL DEF Spec, SizeGrows

\* An exhaustive round that was not cut short adopts a candidate no longer
\* than any that always fails, in whatever order the shrinker lists them.
THEOREM ShortestIsAdopted == Spec => ShortestAdopted
  <1>1. Init => ShortestSoFar
    BY DEF Init, ShortestSoFar
  <1>2. Spec => []ShortestSoFar
    BY <1>1, ShortestStep, RunnerInvariant, PTL DEF Spec
  <1> QED BY <1>2, AdoptsShortest, RunnerInvariant, PTL DEF Spec, ShortestAdopted
=============================================================================
