------------------------- MODULE StateMachineProofs -------------------------
(***************************************************************************)
(* The properties of StateMachineRunner, proved for every machine,         *)
(* configuration and list of regression seeds.  Nothing is used of         *)
(* Violates but that it is a function of the sequence.                     *)
(***************************************************************************)
EXTENDS StateMachineRunner, SequenceTheorems, TLAPS

\* Who is in which phase: nothing shrinks without a failure.
FailureKnown ==
    /\ phase \in {"replay", "main"} => /\ failure = NoFailure /\ steps = 0
                                       /\ current = <<>>
    /\ phase \in {"shrink", "pass"} =>
         /\ Violates(failure.original) /\ Violates(current)
         /\ Thins(current, failure.original)

\* No operation passed over since the pass began can be left out, as long as
\* none has been left out.
PassTried ==
    phase = "pass" =>
        /\ ~removed => \A i \in 1 .. next - 1 : ~Violates(RemoveAt(current, i))
        /\ current = <<>> => removed

\* The effort of the passes still possible fits in what is left of the sum.
EffortLeft ==
    LET n == Len(failure.original)
        c == Len(current)
    IN  /\ phase = "shrink" => 2 * steps + c * (c + 1) <= n * (n + 1)
        /\ phase = "pass" =>
             2 * (steps - (next - 1)) + (IF removed THEN 2 * c ELSE 0) + c * (c + 1)
                <= n * (n + 1)

\* The value returned is the one the state determines.
OutcomeOfState ==
    /\ phase # "done" => outcome = Running
    /\ phase = "done" =>
         \/ outcome.status = "Passed"
         \/ /\ outcome = FailedOutcome
            /\ Violates(failure.original) /\ Violates(current)
            /\ Thins(current, failure.original)
            /\ BudgetLeft => \A i \in DOMAIN current : ~Violates(RemoveAt(current, i))

IInv ==
    /\ TypeOK
    /\ FailureKnown
    /\ PassTried
    /\ EffortLeft
    /\ OutcomeOfState
    /\ EffortBounded

-----------------------------------------------------------------------------
(* Sequences without one of their elements.                                *)

LEMMA RemoveAtProperties ==
  ASSUME NEW S, NEW s \in Seq(S), NEW i \in 1 .. Len(s)
  PROVE  /\ RemoveAt(s, i) \in Seq(S)
         /\ Len(RemoveAt(s, i)) = Len(s) - 1
         /\ \A j \in 1 .. Len(s) - 1 :
               RemoveAt(s, i)[j] = s[IF j < i THEN j ELSE j + 1]
  <1> DEFINE head == SubSeq(s, 1, i - 1)
             tail == SubSeq(s, i + 1, Len(s))
  <1>1. Len(s) \in Nat
    OBVIOUS
  <1>2. /\ head \in Seq(S) /\ Len(head) = i - 1
        /\ \A j \in 1 .. i - 1 : head[j] = s[j]
    BY <1>1
  <1>3. /\ tail \in Seq(S) /\ Len(tail) = Len(s) - i
        /\ \A j \in 1 .. Len(s) - i : tail[j] = s[i + j]
    BY <1>1
  <1> HIDE DEF head, tail
  <1>4. /\ head \o tail \in Seq(S) /\ Len(head \o tail) = Len(s) - 1
        /\ \A j \in 1 .. Len(s) - 1 :
              (head \o tail)[j] = IF j < i THEN head[j] ELSE tail[j - (i - 1)]
    <2>1. /\ head \o tail \in Seq(S) /\ Len(head \o tail) = Len(head) + Len(tail)
          /\ \A j \in 1 .. Len(head) + Len(tail) :
                (head \o tail)[j] = IF j <= Len(head) THEN head[j] ELSE tail[j - Len(head)]
      BY <1>2, <1>3, ConcatProperties
    <2>2. Len(head) + Len(tail) = Len(s) - 1
      BY <1>1, <1>2, <1>3
    <2>3. \A j \in 1 .. Len(s) - 1 : j <= Len(head) <=> j < i
      BY <1>1, <1>2
    <2> HIDE DEF tail
    <2> QED BY <2>1, <2>2, <2>3, <1>2
  <1>5. \A j \in 1 .. Len(s) - 1 :
           (head \o tail)[j] = s[IF j < i THEN j ELSE j + 1]
    <2> SUFFICES ASSUME NEW j \in 1 .. Len(s) - 1
                 PROVE  (head \o tail)[j] = s[IF j < i THEN j ELSE j + 1]
      OBVIOUS
    <2>1. CASE j < i
      BY <1>1, <1>2, <1>4, <2>1
    <2>2. CASE ~(j < i)
      <3>1. j - (i - 1) \in 1 .. Len(s) - i /\ i + (j - (i - 1)) = j + 1
        BY <1>1, <2>2
      <3> QED BY <1>1, <1>3, <1>4, <2>2, <3>1
    <2> QED BY <2>1, <2>2
  <1> QED BY <1>4, <1>5 DEF RemoveAt, head, tail

LEMMA ThinsReflexive ==
  ASSUME NEW S, NEW s \in Seq(S)
  PROVE  Thins(s, s)
  <1> DEFINE at == [i \in DOMAIN s |-> i]
  <1>1. /\ at \in [DOMAIN s -> DOMAIN s]
        /\ \A i, j \in DOMAIN s : i < j => at[i] < at[j]
        /\ \A i \in DOMAIN s : s[i] = s[at[i]]
    OBVIOUS
  <1> QED BY <1>1 DEF Thins

\* Leaving out one operation more.
LEMMA ThinsRemove ==
  ASSUME NEW S, NEW s \in Seq(S), NEW t \in Seq(S), Thins(s, t),
         NEW i \in 1 .. Len(s)
  PROVE  Thins(RemoveAt(s, i), t)
  <1> DEFINE r == RemoveAt(s, i)
             up(j) == IF j < i THEN j ELSE j + 1
  <1>1. PICK at \in [DOMAIN s -> DOMAIN t] :
           /\ \A k, j \in DOMAIN s : k < j => at[k] < at[j]
           /\ \A j \in DOMAIN s : s[j] = t[at[j]]
    BY DEF Thins
  <1>2. /\ DOMAIN s = 1 .. Len(s) /\ Len(s) \in Nat
        /\ DOMAIN r = 1 .. Len(s) - 1
        /\ \A j \in DOMAIN r : r[j] = s[up(j)]
    <2>1. /\ r \in Seq(S) /\ Len(r) = Len(s) - 1
          /\ \A j \in 1 .. Len(s) - 1 : r[j] = s[up(j)]
      BY RemoveAtProperties
    <2> HIDE DEF r
    <2>2. /\ DOMAIN s = 1 .. Len(s) /\ Len(s) \in Nat
          /\ DOMAIN r = 1 .. Len(r)
      BY <2>1
    <2> QED BY <2>1, <2>2
  <1>3. \A j \in DOMAIN r : up(j) \in DOMAIN s
    BY <1>2
  <1>4. \A k, j \in DOMAIN r : k < j => up(k) < up(j)
    BY <1>2
  <1> HIDE DEF r
  <1> DEFINE bt == [j \in DOMAIN r |-> at[up(j)]]
  <1>5. bt \in [DOMAIN r -> DOMAIN t]
    BY <1>1, <1>3
  <1>6. \A k, j \in DOMAIN r : k < j => bt[k] < bt[j]
    BY <1>1, <1>3, <1>4
  <1>7. \A j \in DOMAIN r : r[j] = t[bt[j]]
    BY <1>1, <1>2, <1>3
  <1> HIDE DEF bt
  <1>8. Thins(r, t)
    BY <1>5, <1>6, <1>7 DEF Thins
  <1> QED BY <1>8 DEF r

\* A sequence generate_sequence may return.
LEMMA GeneratedType == Generated \subseteq Sequences
  BY DEF Generated, Sequences

-----------------------------------------------------------------------------

LEMMA ConfigTypes ==
  ASSUME TypeOK
  PROVE  /\ cfg.cases \in Nat /\ cfg.seed \in Nat /\ cfg.max_shrinks \in Nat
         /\ Target \in Nat
         /\ \A i \in 1 .. Len(regressions) : regressions[i] \in Nat
         /\ Len(regressions) \in Nat
  <1>1. cfg \in ConfigType /\ regressions \in Seq(Nat)
    BY StateMachineAssumption DEF TypeOK
  <1>2. cfg.cases \in Nat /\ cfg.seed \in Nat /\ cfg.max_shrinks \in Nat
    BY <1>1 DEF ConfigType
  <1>3. Target \in Nat
    BY <1>2 DEF Target, Larger
  <1>4. /\ \A i \in 1 .. Len(regressions) : regressions[i] \in Nat
        /\ Len(regressions) \in Nat
    BY <1>1
  <1> QED BY <1>2, <1>3, <1>4

LEMMA InitIInv == Init => IInv
  <1> SUFFICES ASSUME Init PROVE IInv
    OBVIOUS
  <1> USE StateMachineAssumption DEF Init, NoFailure
  <1>1. cfg \in ConfigType
    OBVIOUS
  <1>2. TypeOK
    <2>1. Target \in Nat
      BY <1>1 DEF Target, Larger, ConfigType
    <2>2. /\ current \in Sequences /\ failure.original \in Sequences
          /\ next \in 1 .. Len(current) + 1 /\ Len(regressions) \in Nat
      BY DEF Sequences
    <2>3. failure \in [original : Sequences, seed : Nat, attempt : Nat]
      BY <2>2
    <2>4. replayed \in 0 .. Len(regressions) /\ ran \in 0 .. Target
      BY <2>1, <2>2
    <2>5. /\ machine \in Machines /\ cfg \in Configs /\ regressions \in Regressions
          /\ phase = "replay" /\ steps \in Nat /\ removed \in BOOLEAN
      OBVIOUS
    <2> HIDE DEF Init
    <2> QED BY <2>2, <2>3, <2>4, <2>5 DEF TypeOK
  <1>3. FailureKnown /\ PassTried /\ EffortLeft /\ OutcomeOfState
    BY DEF FailureKnown, PassTried, EffortLeft, OutcomeOfState
  <1>4. EffortBounded
    BY <1>1 DEF EffortBounded, ConfigType
  <1> QED BY <1>2, <1>3, <1>4 DEF IInv

\* Violates and the other parameters' operators do not change with a step.
LEMMA ParamsKept ==
  ASSUME [Next]_vars
  PROVE  /\ machine' = machine /\ cfg' = cfg /\ regressions' = regressions
         /\ Target' = Target
         /\ \A s : Violates(s)' = Violates(s)
  <1>1. params' = params
    BY DEF Next, Loop, Shrink, vars, ReplaySeed, StartMain, RunSequence, AllPassed,
           Return, NothingLeft, BeginPass, OutOfBudget, Drop, Keep, NextPass,
           StopShrinking, Returned
  <1>2. machine' = machine /\ cfg' = cfg /\ regressions' = regressions
    BY <1>1 DEF params
  <1>3. Target' = Target
    BY <1>2 DEF Target
  <1>4. \A s : Violates(s)' = Violates(s)
    BY <1>2 DEF Violates
  <1> QED BY <1>2, <1>3, <1>4

-----------------------------------------------------------------------------
(* One lemma per group of actions.                                         *)

\* The effort of shrinking n operations is bounded as long as a step is left.
LEMMA FreshEffort ==
  ASSUME NEW n \in Nat
  PROVE  n * (n + 1) \in Nat
  OBVIOUS

LEMMA StartShrinkIInv ==
  ASSUME IInv, [Next]_vars,
         NEW sequence \in Sequences, NEW seed \in Nat, NEW attempt \in Nat,
         Violates(sequence), StartShrink(sequence, seed, attempt),
         phase \in {"replay", "main"}, outcome' = outcome,
         replayed' \in 0 .. Len(regressions), ran' \in 0 .. Target
  PROVE  IInv'
  <1> USE DEF IInv
  <1>1. /\ failure' = [original |-> sequence, seed |-> seed, attempt |-> attempt]
        /\ current' = sequence /\ steps' = 0 /\ removed' = FALSE /\ next' = 1
        /\ phase' = "shrink"
    BY DEF StartShrink
  <1>2. Len(sequence) \in Nat
    BY DEF Sequences
  <1>3. TypeOK'
    <2>1. failure' \in [original : Sequences, seed : Nat, attempt : Nat]
      BY <1>1
    <2>2. /\ (machine \in Machines /\ cfg \in Configs /\ regressions \in Regressions)'
          /\ replayed' \in 0 .. Len(regressions)' /\ ran' \in 0 .. Target'
      BY ParamsKept DEF TypeOK
    <2>3. /\ current' \in Sequences /\ steps' \in Nat /\ removed' \in BOOLEAN
          /\ next' \in 1 .. Len(current') + 1 /\ phase' = "shrink"
      <3> HIDE DEF IInv
      <3>1. current' \in Sequences /\ Len(current') \in Nat
        BY <1>1 DEF Sequences
      <3>2. removed' \in BOOLEAN
        BY <1>1
      <3>3. next' \in 1 .. Len(current') + 1
        <4>1. next' = 1
          BY <1>1
        <4> QED BY <3>1, <4>1
      <3> QED BY <1>1, <3>1, <3>2, <3>3
    <2> HIDE DEF IInv
    <2> QED BY <2>1, <2>2, <2>3 DEF TypeOK
  <1>4. FailureKnown'
    <2>1. Violates(sequence)'
      BY ParamsKept
    <2>2. Thins(sequence, sequence)
      BY ThinsReflexive DEF Sequences
    <2> QED BY <1>1, <2>1, <2>2 DEF FailureKnown, Violates, Thins
  <1>5. PassTried' /\ EffortLeft'
    BY <1>1, <1>2, FreshEffort DEF PassTried, EffortLeft
  <1>6. OutcomeOfState'
    BY <1>1 DEF OutcomeOfState
  <1>7. EffortBounded'
    BY <1>1, <1>2, ParamsKept, ConfigTypes, FreshEffort DEF EffortBounded
  <1> QED BY <1>3, <1>4, <1>5, <1>6, <1>7

\* A step of the loop that finds no failure.
LEMMA LoopStepIInv ==
  ASSUME IInv, [Next]_vars,
         phase \in {"replay", "main"}, phase' \in {"replay", "main"},
         UNCHANGED <<failure, locals, outcome>>,
         replayed' \in 0 .. Len(regressions), ran' \in 0 .. Target
  PROVE  IInv'
  <1> USE DEF IInv, locals
  <1>1. TypeOK'
    BY ParamsKept DEF TypeOK
  <1>2. FailureKnown' /\ PassTried' /\ EffortLeft' /\ OutcomeOfState'
    BY DEF FailureKnown, PassTried, EffortLeft, OutcomeOfState
  <1>3. EffortBounded'
    BY ParamsKept DEF EffortBounded
  <1> QED BY <1>1, <1>2, <1>3

\* The end of shrinking: the budget has run out, or nothing can be left out.
LEMMA ReturnFailedIInv ==
  ASSUME IInv, [Next]_vars, phase \in {"shrink", "pass"}, Return(FailedOutcome),
         BudgetLeft => \A i \in DOMAIN current : ~Violates(RemoveAt(current, i))
  PROVE  IInv'
  <1> USE DEF IInv
  <1>1. /\ UNCHANGED <<replayed, ran, failure, locals>>
        /\ outcome' = FailedOutcome /\ phase' = "done"
    BY DEF Return
  <1>2. /\ UNCHANGED <<failure, current, steps, removed, next, cfg, machine>>
        /\ FailedOutcome' = FailedOutcome
    BY <1>1, ParamsKept DEF locals, FailedOutcome
  <1>3. TypeOK'
    BY <1>1, <1>2, ParamsKept DEF TypeOK
  <1>4. FailureKnown' /\ PassTried' /\ EffortLeft'
    BY <1>1 DEF FailureKnown, PassTried, EffortLeft
  <1>5. EffortBounded'
    BY <1>2 DEF EffortBounded
  <1>6. OutcomeOfState'
    <2>1. /\ Violates(failure.original) /\ Violates(current)
          /\ Thins(current, failure.original)
      BY DEF FailureKnown
    <2>2. BudgetLeft' = BudgetLeft
      BY <1>2 DEF BudgetLeft
    <2>3. (\A i \in DOMAIN current : ~Violates(RemoveAt(current, i)))' =
          (\A i \in DOMAIN current : ~Violates(RemoveAt(current, i)))
      BY <1>2 DEF Violates
    <2>4. (Violates(failure.original) /\ Violates(current)
              /\ Thins(current, failure.original))'
      BY <1>2, <2>1 DEF Violates, Thins
    <2> HIDE DEF IInv
    <2> QED BY <1>1, <1>2, <2>2, <2>3, <2>4 DEF OutcomeOfState
  <1> QED BY <1>3, <1>4, <1>5, <1>6

\* What EffortLeft leaves is enough for EffortBounded: the numbers of a pass
\* at position next of c operations, with N for n * (n + 1).
LEMMA EffortInPass ==
  ASSUME NEW N \in Nat, NEW c \in Nat, NEW st \in Nat, NEW nx \in 1 .. c + 1,
         NEW rm \in BOOLEAN, c = 0 => rm,
         2 * (st - (nx - 1)) + (IF rm THEN 2 * c ELSE 0) + c * (c + 1) <= N
  PROVE  2 * st <= N
  <1>1. c * (c + 1) = c * c + c /\ c * c \in Nat
    OBVIOUS
  <1>2. c # 0 => c * c >= c
    <2> SUFFICES ASSUME c >= 1 PROVE c * c >= c
      OBVIOUS
    <2> QED BY Z3
  <1> DEFINE sq == c * c
  <1>3. /\ sq \in Nat /\ c # 0 => sq >= c
        /\ 2 * (st - (nx - 1)) + (IF rm THEN 2 * c ELSE 0) + (sq + c) <= N
    BY <1>1, <1>2
  <1> HIDE DEF sq
  <1>4. CASE rm
    BY <1>1, <1>3, <1>4
  <1>5. CASE ~rm
    <2>1. c # 0 /\ sq >= c
      BY <1>1, <1>2, <1>5 DEF sq
    <2> QED BY <1>1, <1>3, <1>5, <2>1
  <1> QED BY <1>4, <1>5

\* Leaving one operation out makes room for the pass that follows.
LEMMA EffortOfDrop ==
  ASSUME NEW N \in Nat, NEW c \in Nat, NEW st \in Nat, NEW nx \in 1 .. c,
         NEW rm \in BOOLEAN,
         2 * (st - (nx - 1)) + (IF rm THEN 2 * c ELSE 0) + c * (c + 1) <= N
  PROVE  2 * ((st + 1) - (nx - 1)) + 2 * (c - 1) + (c - 1) * ((c - 1) + 1) <= N
  <1>1. /\ c * (c + 1) = c * c + c
        /\ (c - 1) * ((c - 1) + 1) = c * c - c
        /\ c * c \in Nat
    BY Z3
  <1> DEFINE sq == c * c
  <1>2. /\ sq \in Nat
        /\ 2 * (st - (nx - 1)) + (IF rm THEN 2 * c ELSE 0) + (sq + c) <= N
    BY <1>1
  <1> HIDE DEF sq
  <1>3. 2 * ((st + 1) - (nx - 1)) + 2 * (c - 1) + (sq - c) <= N
    BY <1>2
  <1> QED BY <1>1, <1>3 DEF sq

LEMMA DropIInv ==
  ASSUME IInv, [Next]_vars, Drop
  PROVE  IInv'
  <1> USE DEF IInv
  <1> DEFINE n == Len(failure.original)
             c == Len(current)
  <1>1. /\ phase = "pass" /\ phase' = "pass" /\ next <= c /\ steps < cfg.max_shrinks
        /\ Violates(Candidate)
        /\ steps' = steps + 1 /\ current' = Candidate /\ removed' = TRUE
        /\ UNCHANGED <<replayed, ran, failure, next, outcome>>
    BY DEF Drop, InPass, BudgetLeft
  <1>2. /\ current \in Seq(Operations) /\ c \in Nat /\ n \in Nat
        /\ next \in 1 .. c /\ steps \in Nat /\ removed \in BOOLEAN
        /\ failure.original \in Seq(Operations)
    BY <1>1 DEF TypeOK, Sequences
  <1>3. current' \in Sequences /\ Len(current') = c - 1
    BY <1>1, <1>2, RemoveAtProperties DEF Candidate, Sequences
  <1>4. TypeOK'
    <2>1. /\ (machine \in Machines /\ cfg \in Configs /\ regressions \in Regressions)'
          /\ replayed' \in 0 .. Len(regressions)' /\ ran' \in 0 .. Target'
          /\ failure' \in [original : Sequences, seed : Nat, attempt : Nat]
      BY <1>1, ParamsKept DEF TypeOK
    <2>2. steps' \in Nat /\ removed' \in BOOLEAN /\ next' \in 1 .. Len(current') + 1
      BY <1>1, <1>2, <1>3
    <2> HIDE DEF IInv
    <2> QED BY <1>1, <1>3, <2>1, <2>2 DEF TypeOK
  <1>5. FailureKnown'
    <2>1. Violates(failure.original) /\ Violates(Candidate)
          /\ Thins(current, failure.original)
      BY <1>1 DEF FailureKnown
    <2>2. Thins(Candidate, failure.original)
      BY <1>2, <2>1, ThinsRemove DEF Candidate
    <2>3. (Violates(failure.original) /\ Violates(current)
              /\ Thins(current, failure.original))'
      BY <1>1, <2>1, <2>2, ParamsKept DEF Violates, Thins
    <2> HIDE DEF IInv
    <2> QED BY <1>1, <2>3 DEF FailureKnown
  <1>6. PassTried' /\ OutcomeOfState'
    BY <1>1 DEF PassTried, OutcomeOfState
  <1>7. 2 * (steps' - (next' - 1)) + 2 * (c - 1) + (c - 1) * ((c - 1) + 1) <= n * (n + 1)
    <2>1. 2 * (steps - (next - 1)) + (IF removed THEN 2 * c ELSE 0) + c * (c + 1)
             <= n * (n + 1)
      BY <1>1 DEF EffortLeft
    <2>2. n * (n + 1) \in Nat
      BY <1>2, FreshEffort
    <2> HIDE DEF n, c
    <2> QED BY <1>1, <1>2, <2>1, <2>2, EffortOfDrop
  <1>8. EffortLeft'
    BY <1>1, <1>3, <1>7 DEF EffortLeft
  <1>9. EffortBounded'
    <2>1. n * (n + 1) \in Nat
      BY <1>2, FreshEffort
    <2>2. 2 * steps' <= n * (n + 1)
      <3> HIDE DEF n, c
      <3>1. steps' \in Nat /\ c - 1 \in Nat /\ next' \in 1 .. (c - 1) + 1
        BY <1>1, <1>2
      <3> QED BY <1>7, <2>1, <3>1, EffortInPass
    <2>3. steps' <= cfg.max_shrinks
      BY <1>1, <1>2, ConfigTypes
    <2> QED BY <1>1, <2>2, <2>3, ParamsKept DEF EffortBounded
  <1> QED BY <1>4, <1>5, <1>6, <1>8, <1>9

LEMMA KeepIInv ==
  ASSUME IInv, [Next]_vars, Keep
  PROVE  IInv'
  <1> USE DEF IInv
  <1> DEFINE n == Len(failure.original)
             c == Len(current)
  <1>1. /\ phase = "pass" /\ phase' = "pass" /\ next <= c /\ steps < cfg.max_shrinks
        /\ ~Violates(RemoveAt(current, next))
        /\ steps' = steps + 1 /\ next' = next + 1
        /\ UNCHANGED <<replayed, ran, failure, current, removed, outcome>>
    BY DEF Keep, InPass, BudgetLeft, Candidate
  <1>2. /\ c \in Nat /\ n \in Nat
        /\ next \in 1 .. c /\ steps \in Nat /\ removed \in BOOLEAN
    BY <1>1 DEF TypeOK, Sequences
  <1>3. TypeOK'
    BY <1>1, <1>2, ParamsKept DEF TypeOK
  <1>4. FailureKnown' /\ OutcomeOfState'
    <2>1. (Violates(failure.original) /\ Violates(current)
              /\ Thins(current, failure.original))'
      BY <1>1, ParamsKept DEF FailureKnown, Violates, Thins
    <2> QED BY <1>1, <2>1 DEF FailureKnown, OutcomeOfState
  <1>5. PassTried'
    <2>1. ~removed => \A i \in 1 .. next : ~Violates(RemoveAt(current, i))
      BY <1>1, <1>2 DEF PassTried
    <2>2. ~removed' => \A i \in 1 .. next' - 1 : ~Violates(RemoveAt(current, i))'
      BY <1>1, <1>2, <2>1, ParamsKept DEF Violates
    <2>3. current' # <<>>
      BY <1>1, <1>2
    <2> HIDE DEF IInv
    <2> QED BY <2>2, <2>3 DEF PassTried
  <1>6. 2 * (steps' - (next' - 1)) + (IF removed THEN 2 * c ELSE 0) + c * (c + 1)
           <= n * (n + 1)
    <2>1. 2 * (steps - (next - 1)) + (IF removed THEN 2 * c ELSE 0) + c * (c + 1)
             <= n * (n + 1)
      BY <1>1 DEF EffortLeft
    <2>2. steps' - (next' - 1) = steps - (next - 1)
      BY <1>1, <1>2
    <2> QED BY <2>1, <2>2
  <1>7. EffortLeft'
    BY <1>1, <1>6 DEF EffortLeft
  <1>8. EffortBounded'
    <2>1. n * (n + 1) \in Nat
      BY <1>2, FreshEffort
    <2>2. 2 * steps' <= n * (n + 1)
      <3> HIDE DEF n, c
      <3>1. steps' \in Nat /\ next' \in 1 .. c + 1 /\ c # 0
        BY <1>1, <1>2
      <3> QED BY <1>2, <1>6, <2>1, <3>1, EffortInPass
    <2>3. steps' <= cfg.max_shrinks
      BY <1>1, <1>2, ConfigTypes
    <2> QED BY <1>1, <2>2, <2>3, ParamsKept DEF EffortBounded
  <1> QED BY <1>3, <1>4, <1>5, <1>7, <1>8

\* The steps between passes change the phase and where the pass stands.
LEMMA BetweenPassesIInv ==
  ASSUME IInv, [Next]_vars, BeginPass \/ NextPass
  PROVE  IInv'
  <1> USE DEF IInv
  <1> DEFINE n == Len(failure.original)
             c == Len(current)
  <1>1. /\ c \in Nat /\ n \in Nat /\ steps \in Nat /\ removed \in BOOLEAN
        /\ next \in 1 .. c + 1
    BY DEF TypeOK, Sequences
  <1>2. /\ UNCHANGED <<replayed, ran, failure, current, steps, outcome>>
        /\ phase \in {"shrink", "pass"} /\ phase' \in {"shrink", "pass"}
    BY DEF BeginPass, NextPass, PassEnded, locals
  <1>3. next' \in 1 .. c + 1 /\ removed' \in BOOLEAN
    <2>1. \/ next' = 1 /\ removed' = FALSE
          \/ next' = next /\ removed' = removed
      BY DEF BeginPass, NextPass, locals
    <2>2. 1 \in 1 .. c + 1
      BY <1>1
    <2> HIDE DEF IInv
    <2> QED BY <1>1, <2>1, <2>2
  <1>4. TypeOK'
    BY <1>2, <1>3, ParamsKept DEF TypeOK
  <1>5. FailureKnown' /\ OutcomeOfState'
    <2>1. (Violates(failure.original) /\ Violates(current)
              /\ Thins(current, failure.original))'
      BY <1>2, ParamsKept DEF FailureKnown, Violates, Thins
    <2> QED BY <1>2, <2>1 DEF FailureKnown, OutcomeOfState
  <1>6. PassTried'
    BY <1>2 DEF PassTried, BeginPass, NextPass
  <1>7. EffortLeft'
    <2> DEFINE sum == c * (c + 1)
               N == n * (n + 1)
    <2>1. sum \in Nat /\ N \in Nat
      BY <1>1, FreshEffort
    <2>2. /\ phase = "shrink" => 2 * steps + sum <= N
          /\ phase = "pass" =>
               2 * (steps - (next - 1)) + (IF removed THEN 2 * c ELSE 0) + sum <= N
      BY DEF EffortLeft
    <2>3. CASE BeginPass
      <3>1. phase = "shrink" /\ phase' = "pass" /\ removed' = FALSE /\ next' = 1
        BY <2>3 DEF BeginPass
      <3>2. 2 * (steps' - (next' - 1)) + 0 + sum <= N
        <4> HIDE DEF sum, N
        <4> QED BY <1>1, <1>2, <2>1, <2>2, <3>1
      <3> QED BY <1>2, <3>1, <3>2 DEF EffortLeft
    <2>4. CASE NextPass
      <3>1. phase = "pass" /\ phase' = "shrink" /\ removed /\ next > c
        BY <2>4 DEF NextPass, PassEnded
      <3>2. 2 * steps' + sum <= N
        <4> HIDE DEF sum, N
        <4>1. next - 1 = c
          BY <1>1, <3>1
        <4> QED BY <1>1, <1>2, <2>1, <2>2, <3>1, <4>1
      <3> QED BY <1>2, <3>1, <3>2 DEF EffortLeft
    <2> QED BY <2>3, <2>4
  <1>8. EffortBounded'
    BY <1>2, ParamsKept DEF EffortBounded
  <1> QED BY <1>4, <1>5, <1>6, <1>7, <1>8

\* The loop's own steps: a sequence is run, or the loop moves on.
LEMMA LoopIInv ==
  ASSUME IInv, [Next]_vars, Loop
  PROVE  IInv'
  <1> USE DEF IInv
  <1>1. /\ ran \in 0 .. Target /\ replayed \in 0 .. Len(regressions)
        /\ Target \in Nat /\ Len(regressions) \in Nat /\ cfg.seed \in Nat
        /\ \A i \in 1 .. Len(regressions) : regressions[i] \in Nat
    BY ConfigTypes DEF TypeOK
  <1>2. ASSUME NEW sequence \in Generated, ReplaySeed(sequence)
        PROVE  IInv'
    <2>1. /\ phase = "replay" /\ replayed < Len(regressions)
          /\ replayed' = replayed + 1 /\ ran' = ran /\ outcome' = outcome
      BY <1>2 DEF ReplaySeed
    <2>2. replayed' \in 0 .. Len(regressions) /\ regressions[replayed + 1] \in Nat
      BY <1>1, <2>1
    <2>3. CASE Violates(sequence)
      <3>1. StartShrink(sequence, regressions[replayed + 1], 0)
        BY <1>2, <2>3 DEF ReplaySeed
      <3>2. sequence \in Sequences
        BY GeneratedType
      <3> HIDE DEF IInv
      <3> QED BY <1>1, <2>1, <2>2, <2>3, <3>1, <3>2, StartShrinkIInv
    <2>4. CASE ~Violates(sequence)
      <3>1. UNCHANGED <<phase, failure, locals, outcome>>
        BY <1>2, <2>4 DEF ReplaySeed
      <3> HIDE DEF IInv
      <3> QED BY <1>1, <2>1, <2>2, <3>1, LoopStepIInv
    <2> QED BY <2>3, <2>4
  <1>3. CASE StartMain
    <2>1. /\ phase = "replay" /\ phase' = "main"
          /\ UNCHANGED <<failure, locals, outcome, replayed, ran>>
      BY <1>3 DEF StartMain
    <2> HIDE DEF IInv
    <2> QED BY <1>1, <2>1, LoopStepIInv
  <1>4. ASSUME NEW sequence \in Generated, RunSequence(sequence)
        PROVE  IInv'
    <2>1. /\ phase = "main" /\ ran < Target
          /\ ran' = ran + 1 /\ replayed' = replayed /\ outcome' = outcome
      BY <1>4 DEF RunSequence
    <2>2. ran' \in 0 .. Target /\ ran + 1 \in Nat
      BY <1>1, <2>1
    <2>3. CASE Violates(sequence)
      <3>1. StartShrink(sequence, cfg.seed, ran + 1)
        BY <1>4, <2>3 DEF RunSequence
      <3>2. sequence \in Sequences
        BY GeneratedType
      <3> HIDE DEF IInv
      <3> QED BY <1>1, <2>1, <2>2, <2>3, <3>1, <3>2, StartShrinkIInv
    <2>4. CASE ~Violates(sequence)
      <3>1. UNCHANGED <<phase, failure, locals, outcome>>
        BY <1>4, <2>4 DEF RunSequence
      <3> HIDE DEF IInv
      <3> QED BY <1>1, <2>1, <2>2, <3>1, LoopStepIInv
    <2> QED BY <2>3, <2>4
  <1>5. CASE AllPassed
    <2>1. /\ phase = "main" /\ phase' = "done" /\ outcome'.status = "Passed"
          /\ UNCHANGED <<replayed, ran, failure, current, steps, removed, next>>
      BY <1>5 DEF AllPassed, Return, locals
    <2>2. TypeOK' /\ EffortBounded'
      BY <2>1, ParamsKept DEF TypeOK, EffortBounded
    <2>3. FailureKnown' /\ PassTried' /\ EffortLeft' /\ OutcomeOfState'
      BY <2>1 DEF FailureKnown, PassTried, EffortLeft, OutcomeOfState
    <2> QED BY <2>2, <2>3
  <1> HIDE DEF IInv
  <1> QED BY <1>2, <1>3, <1>4, <1>5 DEF Loop

LEMMA StepIInv == IInv /\ [Next]_vars => IInv'
  <1> SUFFICES ASSUME IInv, [Next]_vars PROVE IInv'
    OBVIOUS
  <1>1. CASE Loop
    BY <1>1, LoopIInv
  <1>2. CASE NothingLeft
    <2>1. phase = "shrink" /\ current = <<>> /\ Return(FailedOutcome)
      BY <1>2 DEF NothingLeft
    <2>2. DOMAIN current = {}
      BY <2>1
    <2> QED BY <2>1, <2>2, ReturnFailedIInv
  <1>3. CASE BeginPass \/ NextPass
    BY <1>3, BetweenPassesIInv
  <1>4. CASE OutOfBudget
    <2>1. phase = "pass" /\ ~BudgetLeft /\ Return(FailedOutcome)
      BY <1>4 DEF OutOfBudget, InPass
    <2> QED BY <2>1, ReturnFailedIInv
  <1>5. CASE Drop
    BY <1>5, DropIInv
  <1>6. CASE Keep
    BY <1>6, KeepIInv
  <1>7. CASE StopShrinking
    <2>1. /\ phase = "pass" /\ ~removed /\ next > Len(current)
          /\ Return(FailedOutcome)
      BY <1>7 DEF StopShrinking, PassEnded
    <2>2. next - 1 = Len(current) /\ DOMAIN current = 1 .. Len(current)
      BY <2>1 DEF IInv, TypeOK, Sequences
    <2>3. \A i \in DOMAIN current : ~Violates(RemoveAt(current, i))
      BY <2>1, <2>2 DEF IInv, PassTried
    <2> QED BY <2>1, <2>3, ReturnFailedIInv
  <1>8. CASE UNCHANGED vars
    <2>1. UNCHANGED <<machine, cfg, regressions, phase, replayed, ran, failure, current,
                      steps, removed, next, outcome>>
      BY <1>8 DEF vars, params, locals
    <2> QED BY <2>1 DEF IInv, TypeOK, FailureKnown, PassTried, EffortLeft, OutcomeOfState,
                        EffortBounded, Violates, Thins, Target, BudgetLeft, FailedOutcome
  <1> QED BY <1>1, <1>2, <1>3, <1>4, <1>5, <1>6, <1>7, <1>8 DEF Next, Shrink, Returned

\* run_sm_loop: the inductive invariant holds of every run.
THEOREM StateMachineInvariant == Spec => []IInv
  BY InitIInv, StepIInv, PTL DEF Spec

\* run_sm_loop: every variable keeps its type, a pass stays in its sequence.
THEOREM StateMachineTypes == Spec => []TypeOK
  <1>1. IInv => TypeOK
    BY DEF IInv
  <1> QED BY <1>1, StateMachineInvariant, PTL

\* run_sm_loop and shrink_sequence: both sequences of the report fail, and
\* the shrunk one is a subsequence of the original.
THEOREM ReportsFailures == Spec => []ReportedFails
  <1>1. IInv => ReportedFails
    BY DEF IInv, OutcomeOfState, ReportedFails, FailedOutcome, Running
  <1> QED BY <1>1, StateMachineInvariant, PTL

\* shrink_sequence: no operation of the shrunk sequence is superfluous, unless
\* the budget ran out.
THEOREM ShrunkOneMinimal == Spec => []OneMinimal
  <1>1. IInv => OneMinimal
    BY DEF IInv, OutcomeOfState, OneMinimal, FailedOutcome, Running
  <1> QED BY <1>1, StateMachineInvariant, PTL

\* shrink_sequence: max_shrinks simulations at most, and 1 + ... + n at most.
THEOREM ShrinkEffort == Spec => []EffortBounded
  <1>1. IInv => EffortBounded
    BY DEF IInv
  <1> QED BY <1>1, StateMachineInvariant, PTL
=============================================================================
