------------------------------- MODULE Runner -------------------------------
(***************************************************************************)
(* The case loop of crates/pbt/src/lib.rs: run_loop, run_prop and          *)
(* shrink_failure_with_mode, as one call of forall_with or run_with        *)
(* executes them.  The thread is alone with its state, so one step is one  *)
(* execution of the property.                                              *)
(*                                                                         *)
(* Abstracted data: a generated value is a member of Values, what          *)
(* Arbitrary::shrink and Debug make of it are functions, and the property  *)
(* is the set of outcomes each value may have (a singleton unless the      *)
(* property is flaky).  The generator may return any value at any size.    *)
(***************************************************************************)
EXTENDS Integers, Sequences

CONSTANTS
    Values,        \* generated values
    NoValue,       \* Option::None for a value
    Shrinkers,     \* the shrink() functions considered, [Values -> Seq(Values)]
    DebugLen,      \* DebugLen[v]: the length of v's Debug form
    Verdicts,      \* the properties considered, [Values -> SUBSET Outcomes]
    Labels,        \* classify! labels
    Configs,       \* the Configs considered
    Regressions    \* the lists of regression seeds a run may find in its file

Outcomes == {"Pass", "Fail", "Discard", "Skip"}    \* CaseOutcome
Modes    == {"Greedy", "Exhaustive"}               \* ShrinkMode

ConfigType == [cases : Nat, seed : Nat, max_shrinks : Nat, max_size : Nat,
               max_discards : Nat, max_skips : Nat, shrink_mode : Modes]

ASSUME RunnerAssumption ==
    /\ NoValue \notin Values
    /\ Shrinkers \subseteq [Values -> Seq(Values)]
    /\ DebugLen \in [Values -> Nat]
    /\ Verdicts \subseteq [Values -> (SUBSET Outcomes) \ {{}}]
    /\ Configs \subseteq ConfigType
    /\ Regressions \subseteq Seq(Nat)

VARIABLES
    cfg, shrink, verdict, regressions,     \* parameters of the run
    phase,             \* "replay", "main", "shrink" (loop top), "round", "done"
    replayed,          \* regression seeds already replayed
    size,              \* the size hint last given to the generator (0: none)
    passed, discarded, skipped,
    classes,           \* Classifications: total, and a count per label
    failure,           \* what the loop knows of the failing case
    current, attempts, tried, best,        \* shrink_failure_with_mode's locals
    outcome            \* what run_loop returns

params == <<cfg, shrink, verdict, regressions>>
counts == <<passed, discarded, skipped>>
locals == <<current, attempts, tried, best>>
vars == <<params, phase, replayed, size, counts, classes, failure, locals, outcome>>

NoClasses == [total |-> 0, count |-> [l \in Labels |-> 0]]
NoFailure == [original |-> NoValue, seed |-> 0, attempt |-> 0, kept |-> FALSE]
Running   == [status |-> "Running"]

Smaller(a, b) == IF a < b THEN a ELSE b
Larger(a, b)  == IF a > b THEN a ELSE b

Target == Larger(cfg.cases, 1)

\* Classifications::merge_case: one case more, with the labels it recorded.
MergeCase(c, ls) ==
    [total |-> c.total + 1,
     count |-> [l \in Labels |-> c.count[l] + (IF l \in ls THEN 1 ELSE 0)]]

RampSizeRemaining ==            \* mutant: scaled by the cases still to pass
    1 + Smaller(((Target - passed) * cfg.max_size) \div Target, cfg.max_size)

\* The size hint grows with the passed cases, from 1 up.
RampSize == 1 + Smaller((passed * cfg.max_size) \div Target, cfg.max_size)

-----------------------------------------------------------------------------
Init ==
    /\ cfg \in Configs /\ shrink \in Shrinkers /\ verdict \in Verdicts
    /\ regressions \in Regressions
    /\ phase = "replay" /\ replayed = 0 /\ size = 0
    /\ passed = 0 /\ discarded = 0 /\ skipped = 0
    /\ classes = NoClasses
    /\ failure = NoFailure
    /\ current = NoValue /\ attempts = 0 /\ tried = 0 /\ best = NoValue
    /\ outcome = Running

\* The call of shrink_failure_with_mode on the failing value v.  A failure of
\* the main loop is kept in the counts and classes, that of a replay is not.
StartShrink(v, seed, attempt, kept) ==
    /\ failure' = [original |-> v, seed |-> seed, attempt |-> attempt, kept |-> kept]
    /\ current' = v /\ attempts' = 0 /\ tried' = 0 /\ best' = NoValue
    /\ phase' = "shrink"

ReplaySize == Larger(cfg.max_size \div 2, 1)

\* A regression seed contributes one case: the first value it generates, at
\* half the maximal size.  Only a failure matters, its labels do not.
ReplaySeed(v, o) ==
    /\ phase = "replay" /\ replayed < Len(regressions)
    /\ o \in verdict[v]
    /\ size' = ReplaySize
    /\ replayed' = replayed + 1
    /\ IF o = "Fail"
       THEN StartShrink(v, regressions[replayed + 1], 0, FALSE)
       ELSE UNCHANGED <<phase, failure, locals>>
    /\ UNCHANGED <<params, counts, classes, outcome>>

StartMainEarly ==               \* mutant: the last regression seed is not replayed
    /\ phase = "replay" /\ replayed + 1 >= Len(regressions)
    /\ phase' = "main"
    /\ UNCHANGED <<params, replayed, size, counts, classes, failure, locals, outcome>>

StartMain ==
    /\ phase = "replay" /\ replayed = Len(regressions)
    /\ phase' = "main"
    /\ UNCHANGED <<params, replayed, size, counts, classes, failure, locals, outcome>>

InMain == phase = "main" /\ passed < Target

WithinLimitsOffByOne ==         \* mutant: one discard too many before giving up
    discarded <= cfg.max_discards + 1 /\ skipped <= cfg.max_skips

WithinLimits == discarded <= cfg.max_discards /\ skipped <= cfg.max_skips

AbortedOutcome ==
    [status |-> "Aborted", cases |-> passed, discarded |-> discarded,
     skipped |-> skipped, seed |-> cfg.seed, classes |-> classes,
     reason |-> IF discarded > cfg.max_discards THEN "discards" ELSE "skips"]

PassedOutcome ==
    [status |-> "Passed", cases |-> passed, discarded |-> discarded,
     skipped |-> skipped, classes |-> classes]

\* A failure of a replayed seed is reported without counts and classes.
FailedOutcome ==
    [status |-> "Failed", original |-> failure.original, shrunk |-> current,
     seed |-> failure.seed, attempt |-> failure.attempt,
     discarded |-> IF failure.kept THEN discarded ELSE 0,
     skipped |-> IF failure.kept THEN skipped ELSE 0,
     classes |-> IF failure.kept THEN classes ELSE NoClasses]

Return(o) ==
    /\ outcome' = o /\ phase' = "done"
    /\ UNCHANGED <<params, replayed, size, counts, classes, failure, locals>>

GiveUp == InMain /\ ~WithinLimits /\ Return(AbortedOutcome)

TallyConsecutive(o) ==          \* mutant: a discard forgets the skips, a skip the discards
    /\ passed' = passed + (IF o = "Pass" THEN 1 ELSE 0)
    /\ discarded' = (IF o = "Skip" THEN 0 ELSE discarded) + (IF o = "Discard" THEN 1 ELSE 0)
    /\ skipped' = (IF o = "Discard" THEN 0 ELSE skipped) + (IF o = "Skip" THEN 1 ELSE 0)

Tally(o) ==
    /\ passed' = passed + (IF o = "Pass" THEN 1 ELSE 0)
    /\ discarded' = discarded + (IF o = "Discard" THEN 1 ELSE 0)
    /\ skipped' = skipped + (IF o = "Skip" THEN 1 ELSE 0)

ClassesAfterAny(o, ls) ==       \* mutant: discarded cases are classified too
    MergeCase(classes, ls)

ClassesAfter(o, ls) ==
    IF o \in {"Pass", "Fail"} THEN MergeCase(classes, ls) ELSE classes

\* One iteration of the main loop: generate v, run the property, count.
Case(v, o, ls) ==
    /\ InMain /\ WithinLimits
    /\ o \in verdict[v]
    /\ size' = RampSize
    /\ Tally(o)
    /\ classes' = ClassesAfter(o, ls)
    /\ IF o = "Fail" THEN StartShrink(v, cfg.seed, passed + 1, TRUE)
                     ELSE UNCHANGED <<phase, failure, locals>>
    /\ UNCHANGED <<params, replayed, outcome>>

AllPassed == phase = "main" /\ passed >= Target /\ Return(PassedOutcome)

-----------------------------------------------------------------------------
(* shrink_failure_with_mode; when it returns, run_loop returns Failed.     *)

NothingToShrink ==
    phase = "shrink" /\ shrink[current] = <<>> /\ Return(FailedOutcome)

BeginRound ==
    /\ phase = "shrink" /\ shrink[current] # <<>>
    /\ tried' = 0 /\ best' = NoValue
    /\ phase' = "round"
    /\ UNCHANGED <<params, replayed, size, counts, classes, failure, current,
                   attempts, outcome>>

InRound(mode) == phase = "round" /\ cfg.shrink_mode = mode

Candidate == shrink[current][tried + 1]
AllTried  == tried = Len(shrink[current])

BudgetLeftOffByOne == attempts <= cfg.max_shrinks   \* mutant

BudgetLeft == attempts < cfg.max_shrinks

RoundOverEarly ==               \* mutant: the last candidate is not tried
    tried + 1 >= Len(shrink[current]) \/ ~BudgetLeft

RoundOver == AllTried \/ ~BudgetLeft

\* One execution of the property on the next candidate.
Try == ~RoundOver /\ attempts' = attempts + 1 /\ tried' = tried + 1

AdoptsAny(o) == o # "Pass"      \* mutant: a discarded candidate is adopted

Adopts(o) == o = "Fail"

\* Greedy: the first candidate that fails becomes the current value.
GreedyTry(o) ==
    /\ InRound("Greedy") /\ Try
    /\ o \in verdict[Candidate]
    /\ IF Adopts(o) THEN current' = Candidate /\ phase' = "shrink"
                    ELSE UNCHANGED <<current, phase>>
    /\ UNCHANGED <<params, replayed, size, counts, classes, failure, best, outcome>>

\* Greedy: no candidate fails any more, or the budget ran out.
GreedyStop == InRound("Greedy") /\ RoundOver /\ Return(FailedOutcome)

ImprovesBackwards(c) ==         \* mutant: the comparison is turned around
    best = NoValue \/ DebugLen[c] > DebugLen[best]

Improves(c) == best = NoValue \/ DebugLen[c] < DebugLen[best]

\* Exhaustive: every candidate is tried, the shortest failing one remembered.
ExhaustiveTry(o) ==
    /\ InRound("Exhaustive") /\ Try
    /\ o \in verdict[Candidate]
    /\ best' = IF Adopts(o) /\ Improves(Candidate) THEN Candidate ELSE best
    /\ UNCHANGED <<params, phase, replayed, size, counts, classes, failure,
                   current, outcome>>

\* Exhaustive: the round is over (or cut short by the budget) with a winner.
ExhaustiveAdopt ==
    /\ InRound("Exhaustive") /\ RoundOver
    /\ best # NoValue
    /\ current' = best /\ phase' = "shrink"
    /\ UNCHANGED <<params, replayed, size, counts, classes, failure, attempts,
                   tried, best, outcome>>

ExhaustiveStop ==
    InRound("Exhaustive") /\ RoundOver /\ best = NoValue /\ Return(FailedOutcome)

Returned == phase = "done" /\ UNCHANGED vars

Loop == \/ \E v \in Values, o \in Outcomes : ReplaySeed(v, o)
        \/ StartMain
        \/ GiveUp
        \/ \E v \in Values, o \in Outcomes, ls \in SUBSET Labels : Case(v, o, ls)
        \/ AllPassed

Shrink == \/ NothingToShrink \/ BeginRound
          \/ (\E o \in Outcomes : GreedyTry(o)) \/ GreedyStop
          \/ (\E o \in Outcomes : ExhaustiveTry(o))
          \/ ExhaustiveAdopt \/ ExhaustiveStop

Next == Loop \/ Shrink \/ Returned

Spec == Init /\ [][Next]_vars

\* run_loop is a plain loop on a thread that keeps running.
Fairness == WF_vars(Loop \/ Shrink)
FairSpec == Spec /\ Fairness

-----------------------------------------------------------------------------
(* Properties.                                                             *)

Phases == {"replay", "main", "shrink", "round", "done"}

\* Every variable keeps its type.
TypeOK ==
    /\ cfg \in Configs /\ shrink \in Shrinkers /\ verdict \in Verdicts
    /\ regressions \in Regressions
    /\ phase \in Phases
    /\ replayed \in 0 .. Len(regressions)
    /\ size \in Nat
    /\ passed \in Nat /\ discarded \in Nat /\ skipped \in Nat
    /\ classes \in [total : Nat, count : [Labels -> Nat]]
    /\ failure \in [original : Values \cup {NoValue}, seed : Nat, attempt : Nat,
                    kept : BOOLEAN]
    /\ current \in Values \cup {NoValue} /\ best \in Values \cup {NoValue}
    /\ attempts \in Nat /\ tried \in Nat

\* Outcome::cases()
OutcomeCases ==
    IF outcome.status = "Failed" THEN Larger(outcome.attempt - 1, 0) ELSE outcome.cases

\* What the run reports is what happened: Passed only with the target number
\* of passing cases and both limits respected, Aborted only with one limit
\* exceeded by exactly one, and cases() is the number of cases that passed.
VerdictJustified ==
    outcome.status # "Running" =>
        /\ OutcomeCases = passed
        /\ (passed = Target) <=> (outcome.status = "Passed")
        /\ IF outcome.status = "Aborted"
           THEN \/ /\ outcome.reason = "discards" /\ skipped <= cfg.max_skips
                   /\ discarded = cfg.max_discards + 1
                \/ /\ outcome.reason = "skips" /\ skipped = cfg.max_skips + 1
                   /\ discarded <= cfg.max_discards
           ELSE discarded <= cfg.max_discards /\ skipped <= cfg.max_skips

\* Classifications count the passing cases and the failing case of the main
\* loop, once each: no discarded, skipped, replayed or shrinking execution.
ClassesCountCases ==
    /\ classes.total = passed + (IF failure.kept THEN 1 ELSE 0)
    /\ \A l \in Labels : classes.count[l] <= classes.total

\* The counterexample is one: at every moment of shrinking the current value,
\* and in the end the reported pair, are values for which the property can fail.
CounterexampleFails ==
    /\ phase \in {"shrink", "round"} => "Fail" \in verdict[current]
    /\ best # NoValue => "Fail" \in verdict[best]
    /\ outcome.status = "Failed" => /\ "Fail" \in verdict[outcome.original]
                                    /\ "Fail" \in verdict[outcome.shrunk]

\* A shrink that ended before its budget ended at a local minimum: every
\* candidate of the reported value was executed and did not fail.
LocallyMinimal ==
    (outcome.status = "Failed" /\ BudgetLeft) =>
        \A i \in DOMAIN shrink[outcome.shrunk] :
            verdict[shrink[outcome.shrunk][i]] # {"Fail"}

\* Shrinking executes the property max_shrinks times at most, whatever the
\* shrinker returns (it may cycle).
BudgetHeld == attempts <= cfg.max_shrinks

\* The size hint stays within Config::max_size (and is 1 when that is 0).
SizeInBounds == size <= Larger(cfg.max_size, 1)

\* The main loop never gives a smaller size hint than before.
SizeGrows == [][phase = "main" /\ passed + discarded + skipped > 0 => size' >= size]_vars

\* Exhaustive mode adopts a candidate no longer than any that always fails,
\* when the budget let the round finish.
ShortestAdopted ==
    [][(InRound("Exhaustive") /\ phase' = "shrink" /\ AllTried) =>
        \A i \in DOMAIN shrink[current] :
            verdict[shrink[current][i]] = {"Fail"} =>
                DebugLen[current'] <= DebugLen[shrink[current][i]]]_vars

\* The run returns: the limits bound the main loop and the budget bounds
\* shrinking, even when the shrinker never runs out of candidates.
Termination == <>(phase = "done")
=============================================================================
