------------------------- MODULE StateMachineRunner -------------------------
(***************************************************************************)
(* crates/pbt/src/state_machine.rs: run_sm_loop, simulate and              *)
(* shrink_sequence.  One step is one simulation of a sequence of           *)
(* operations.                                                             *)
(*                                                                         *)
(* A machine under test is deterministic: an initial state, a function     *)
(* execute, and the states its invariant accepts.  A panic of either, and  *)
(* an Err of the invariant, are the value Err; messages are left out.      *)
(* generate_sequence may return any sequence of the lengths it can have.   *)
(***************************************************************************)
EXTENDS Integers, SequencesExt

CONSTANTS
    Operations,    \* M::Operation
    States,        \* M::State
    Err,           \* what simulate and its caller see of any failure
    Machines,      \* the implementations of StateMachine considered
    Configs,       \* the Configs considered
    Regressions    \* the lists of regression seeds a run may find in its file

MachineType == [initial   : States \cup {Err},
                execute   : [States \X Operations -> States \cup {Err}],
                invariant : SUBSET States]

ConfigType == [cases : Nat, seed : Nat, max_shrinks : Nat, max_size : Nat]

ASSUME StateMachineAssumption ==
    /\ Err \notin States
    /\ Machines \subseteq MachineType
    /\ Configs \subseteq ConfigType
    /\ Regressions \subseteq Seq(Nat)

VARIABLES
    machine, cfg, regressions,        \* parameters of the run
    phase,          \* "replay", "main", "shrink" (loop top), "pass", "done"
    replayed,       \* regression seeds already replayed
    ran,            \* sequences of the main loop already simulated
    failure,        \* the failing sequence, its seed and its number
    current, steps, removed, next,    \* shrink_sequence's locals
    outcome         \* what run_sm_loop returns

params == <<machine, cfg, regressions>>
locals == <<current, steps, removed, next>>
vars == <<params, phase, replayed, ran, failure, locals, outcome>>

NoFailure == [original |-> <<>>, seed |-> 0, attempt |-> 0]
Running   == [status |-> "Running"]

Larger(a, b) == IF a > b THEN a ELSE b

Target == Larger(cfg.cases, 1)

\* simulate: the invariant is tested after every operation, not before the
\* first, and nothing is executed after a failure.
Simulate(m, sequence) ==
    LET Apply(state, op) ==
            IF state = Err THEN Err
            ELSE LET after == m.execute[state, op]
                 IN  IF after \in m.invariant THEN after ELSE Err
    IN  FoldLeft(Apply, m.initial, sequence)

Violates(sequence) == Simulate(machine, sequence) = Err

\* generate_sequence: gen_range_usize excludes its upper bound.
Generated ==
    UNION {[1 .. n -> Operations] : n \in 1 .. Larger(cfg.max_size, 2) - 1}

-----------------------------------------------------------------------------
Init ==
    /\ machine \in Machines /\ cfg \in Configs /\ regressions \in Regressions
    /\ phase = "replay" /\ replayed = 0 /\ ran = 0
    /\ failure = NoFailure
    /\ current = <<>> /\ steps = 0 /\ removed = FALSE /\ next = 1
    /\ outcome = Running

\* The call of shrink_sequence.
StartShrink(sequence, seed, attempt) ==
    /\ failure' = [original |-> sequence, seed |-> seed, attempt |-> attempt]
    /\ current' = sequence /\ steps' = 0 /\ removed' = FALSE /\ next' = 1
    /\ phase' = "shrink"

ReplaySeed(sequence) ==
    /\ phase = "replay" /\ replayed < Len(regressions)
    /\ replayed' = replayed + 1
    /\ IF Violates(sequence)
       THEN StartShrink(sequence, regressions[replayed + 1], 0)
       ELSE UNCHANGED <<phase, failure, locals>>
    /\ UNCHANGED <<params, ran, outcome>>

StartMain ==
    /\ phase = "replay" /\ replayed = Len(regressions)
    /\ phase' = "main"
    /\ UNCHANGED <<params, replayed, ran, failure, locals, outcome>>

RunSequence(sequence) ==
    /\ phase = "main" /\ ran < Target
    /\ ran' = ran + 1
    /\ IF Violates(sequence) THEN StartShrink(sequence, cfg.seed, ran + 1)
                             ELSE UNCHANGED <<phase, failure, locals>>
    /\ UNCHANGED <<params, replayed, outcome>>

Return(o) ==
    /\ outcome' = o /\ phase' = "done"
    /\ UNCHANGED <<params, replayed, ran, failure, locals>>

AllPassed ==
    phase = "main" /\ ran = Target /\ Return([status |-> "Passed", cases |-> Target])

FailedOutcome ==
    [status |-> "Failed", original |-> failure.original, shrunk |-> current,
     seed |-> failure.seed, attempt |-> failure.attempt]

-----------------------------------------------------------------------------
(* shrink_sequence: passes over the sequence that try to do without one    *)
(* operation after the other, until a pass removes nothing.                *)

NothingLeft == phase = "shrink" /\ current = <<>> /\ Return(FailedOutcome)

BeginPassKeepingFlag ==         \* mutant: the flag is not reset
    /\ phase = "shrink" /\ current # <<>>
    /\ removed' = removed /\ next' = 1
    /\ phase' = "pass"
    /\ UNCHANGED <<params, replayed, ran, failure, current, steps, outcome>>

BeginPass ==
    /\ phase = "shrink" /\ current # <<>>
    /\ removed' = FALSE /\ next' = 1
    /\ phase' = "pass"
    /\ UNCHANGED <<params, replayed, ran, failure, current, steps, outcome>>

InPass     == phase = "pass" /\ next <= Len(current)
BudgetLeft == steps < cfg.max_shrinks
Candidate  == RemoveAt(current, next)

OutOfBudget == InPass /\ ~BudgetLeft /\ Return(FailedOutcome)

\* The sequence fails without the operation; the one that moves up is next.
Drop ==
    /\ InPass /\ BudgetLeft /\ Violates(Candidate)
    /\ steps' = steps + 1
    /\ current' = Candidate /\ removed' = TRUE
    /\ UNCHANGED <<params, phase, replayed, ran, failure, next, outcome>>

KeepDropping ==                 \* mutant: the candidate is adopted though it passes
    /\ InPass /\ BudgetLeft /\ ~Violates(Candidate)
    /\ steps' = steps + 1
    /\ current' = Candidate
    /\ UNCHANGED <<params, phase, replayed, ran, failure, removed, next, outcome>>

\* The operation is needed.
Keep ==
    /\ InPass /\ BudgetLeft /\ ~Violates(Candidate)
    /\ steps' = steps + 1 /\ next' = next + 1
    /\ UNCHANGED <<params, phase, replayed, ran, failure, current, removed, outcome>>

PassEnded == phase = "pass" /\ next > Len(current)

NextPass ==
    /\ PassEnded /\ removed
    /\ phase' = "shrink"
    /\ UNCHANGED <<params, replayed, ran, failure, locals, outcome>>

StopAfterFirstPass == PassEnded /\ Return(FailedOutcome)     \* mutant

StopShrinking == PassEnded /\ ~removed /\ Return(FailedOutcome)

Returned == phase = "done" /\ UNCHANGED vars

Loop == \/ \E sequence \in Generated : ReplaySeed(sequence)
        \/ StartMain
        \/ \E sequence \in Generated : RunSequence(sequence)
        \/ AllPassed

Shrink == \/ NothingLeft \/ BeginPass \/ OutOfBudget
          \/ Drop \/ Keep \/ NextPass \/ StopShrinking

Next == Loop \/ Shrink \/ Returned

Spec == Init /\ [][Next]_vars

-----------------------------------------------------------------------------
(* Properties.                                                             *)

Sequences == Seq(Operations)

\* Every variable keeps its type; a pass stays within its sequence.
TypeOK ==
    /\ machine \in Machines /\ cfg \in Configs /\ regressions \in Regressions
    /\ phase \in {"replay", "main", "shrink", "pass", "done"}
    /\ replayed \in 0 .. Len(regressions)
    /\ ran \in 0 .. Target
    /\ failure \in [original : Sequences, seed : Nat, attempt : Nat]
    /\ current \in Sequences /\ steps \in Nat /\ removed \in BOOLEAN
    /\ next \in 1 .. Len(current) + 1

\* s is t without some of its operations, in the same order.
Thins(s, t) ==
    \E at \in [DOMAIN s -> DOMAIN t] :
        /\ \A i, j \in DOMAIN s : i < j => at[i] < at[j]
        /\ \A i \in DOMAIN s : s[i] = t[at[i]]

\* The report shows two failing sequences, and the second one is the first
\* with operations left out.
ReportedFails ==
    outcome.status = "Failed" =>
        /\ Violates(outcome.original) /\ Violates(outcome.shrunk)
        /\ Thins(outcome.shrunk, outcome.original)

\* Shrinking that ended before its budget ended at a sequence none of whose
\* operations can be left out, although later removals may have made earlier
\* operations superfluous.
OneMinimal ==
    (outcome.status = "Failed" /\ BudgetLeft) =>
        \A i \in DOMAIN outcome.shrunk : ~Violates(RemoveAt(outcome.shrunk, i))

\* The simulations spent on shrinking are bounded by max_shrinks and, even
\* without a budget, by the sum 1 + ... + n for n operations.
EffortBounded ==
    /\ steps <= cfg.max_shrinks
    /\ 2 * steps <= Len(failure.original) * (Len(failure.original) + 1)
=============================================================================
