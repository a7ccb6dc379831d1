---------------------------- MODULE BenchProofs ----------------------------
(***************************************************************************)
(* What holds of every measurement of Bench, for every configuration, cost *)
(* of a call, preemption and resolution of the clock: how many samples it  *)
(* rests on, when it fails, how short a sampled batch can be, what the     *)
(* outlier filters keep and how the statistics fit together.  Those are    *)
(* proved for any number of samples: sorting is shown to rearrange them,   *)
(* the filter and the sum, which are folds, are followed from element to   *)
(* element, and the rest counts positions of the sorted samples.           *)
(***************************************************************************)
EXTENDS Bench, FiniteSetTheorems, WellFoundedInduction, TLAPS

-----------------------------------------------------------------------------
(* The inductive invariant, in parts. *)

BTypeOK ==
    /\ cfg \in Configs /\ cost \in Costs /\ busy \in BOOLEAN
    /\ pc \in {"warmup", "calibrate", "allocate", "sample", "done", "panicked"}
    /\ now \in Nat /\ start \in Nat /\ iters \in Nat
    /\ samples \in Seq(Nat)

\* Past the warm-up the target of a batch is defined.
DivisorChecked ==
    pc \in {"calibrate", "allocate", "sample", "done"} => Divisor # 0

\* While sampling there is room for the samples.
CapacityChecked ==
    pc \in {"sample", "done"} => cfg.max_samples <= MaxCapacity

\* Samples are taken only while sampling, and never too many.
SamplesCapped ==
    /\ Len(samples) <= cfg.max_samples
    /\ pc \in {"warmup", "calibrate", "allocate"} => samples = <<>>

\* A batch that calibration has chosen, not its cap, takes the target up to
\* one resolution of the clock.
BatchTimed ==
    (~busy /\ iters < MaxIters /\ pc \in {"allocate", "sample", "done"}) =>
        cost * iters + Quantum > TargetBatch

\* There are samples to report on.
SamplesTaken == pc = "done" => samples # <<>>

BInv == BTypeOK /\ DivisorChecked /\ CapacityChecked /\ SamplesCapped /\ BatchTimed
            /\ BatchLongEnough /\ EnoughSamples /\ SamplesTaken

-----------------------------------------------------------------------------
(* The clock and the parameters. *)

LEMMA DivisionFacts ==
  ASSUME NEW a \in Nat, NEW q \in Nat \ {0}
  PROVE  /\ a \div q \in Nat /\ a % q \in Nat
         /\ q * (a \div q) \in Nat
         /\ q * (a \div q) <= a /\ a < q * (a \div q) + q
  BY Z3

\* Two readings of the clock measure the time between them up to less than one
\* resolution, and never a negative time.
LEMMA ClockError ==
  ASSUME NEW a \in Nat, NEW b \in Nat, a <= b
  PROVE  /\ Elapsed(a, b) \in Nat
         /\ b - a < Elapsed(a, b) + Quantum
         /\ Elapsed(a, b) < (b - a) + Quantum
  <1> DEFINE qa == a \div Quantum
             qb == b \div Quantum
  <1>1. Quantum \in Nat \ {0}
    BY BenchAssumption
  <1>2. /\ qa \in Nat /\ Quantum * qa \in Nat
        /\ Quantum * qa <= a /\ a < Quantum * qa + Quantum
    BY <1>1, DivisionFacts
  <1>3. /\ qb \in Nat /\ Quantum * qb \in Nat
        /\ Quantum * qb <= b /\ b < Quantum * qb + Quantum
    BY <1>1, DivisionFacts
  <1>4. Elapsed(a, b) = Quantum * qb - Quantum * qa
    BY DEF Elapsed
  <1> HIDE DEF qa, qb
  <1>5. qa <= qb
    <2> SUFFICES ASSUME qb + 1 <= qa PROVE FALSE
      BY <1>2, <1>3
    <2>1. Quantum * (qb + 1) <= Quantum * qa
      BY <1>1, <1>2, <1>3
    <2>2. Quantum * (qb + 1) = Quantum * qb + Quantum
      BY <1>1, <1>3
    <2> QED BY <1>1, <1>2, <1>3, <2>1, <2>2
  <1>6. Quantum * qa <= Quantum * qb
    BY <1>1, <1>2, <1>3, <1>5
  <1> QED BY <1>1, <1>2, <1>3, <1>4, <1>6

LEMMA ConfigFacts ==
  ASSUME BTypeOK
  PROVE  /\ cfg.measurement_time \in Nat
         /\ cfg.min_samples \in Nat /\ cfg.max_samples \in Nat
         /\ cost \in Nat \ {0}
         /\ Quantum \in Nat \ {0} /\ TargetFloor \in Nat /\ MaxIters \in Nat
         /\ MaxCapacity \in Nat
  BY BenchAssumption DEF BTypeOK

LEMMA DelaysNat == \A d \in Delays : d \in Nat
  BY BenchAssumption

LEMMA TargetNat ==
  ASSUME BTypeOK, Divisor # 0
  PROVE  TargetBatch \in Nat
  <1>1. AtLeast(cfg.max_samples, 1) \in Nat
    BY ConfigFacts DEF AtLeast
  <1>2. Divisor \in Nat
    BY <1>1, DivisionFacts, BenchAssumption DEF Divisor
  <1>3. cfg.measurement_time \div Divisor \in Nat
    BY <1>2, DivisionFacts, ConfigFacts
  <1> QED BY <1>3, ConfigFacts DEF TargetBatch, AtLeast

\* The next batch to be tried has a number of iterations.
LEMMA FactorNat ==
  ASSUME TargetBatch \in Nat, NEW e \in Nat
  PROVE  Factor(e) \in Nat
  <1>1. CASE e = 0
    BY <1>1 DEF Factor
  <1>2. CASE e # 0
    <2>1. TargetBatch \div e \in Nat
      BY <1>2, DivisionFacts
    <2> QED BY <1>2, <2>1 DEF Factor, AtLeast
  <1> QED BY <1>1, <1>2

\* A batch that starts now takes a natural number of ticks.
LEMMA BatchTime ==
  ASSUME BTypeOK, NEW d \in Nat
  PROVE  /\ cost * iters \in Nat
         /\ now + cost * iters + d \in Nat
         /\ now <= now + cost * iters + d
  <1>1. cost * iters \in Nat
    BY ConfigFacts DEF BTypeOK
  <1> QED BY <1>1 DEF BTypeOK

-----------------------------------------------------------------------------
(* Each step keeps the invariant. *)

\* Definitions of the configuration alone keep their values with it.
LEMMA Kept ==
  ASSUME cfg' = cfg
  PROVE  Divisor' = Divisor /\ TargetBatch' = TargetBatch
  BY DEF Divisor, TargetBatch

LEMMA BInitInv == Init => BInv
  <1> SUFFICES ASSUME Init PROVE BInv
    OBVIOUS
  <1>1. BTypeOK
    BY BenchAssumption DEF Init, BTypeOK
  <1>2. SamplesCapped
    BY <1>1, ConfigFacts DEF Init, SamplesCapped
  <1> QED BY <1>1, <1>2 DEF Init, BInv, DivisorChecked, CapacityChecked, BatchTimed,
                            BatchLongEnough, EnoughSamples, SamplesTaken

LEMMA WarmUpInv == BInv /\ WarmUp => BInv'
  <1> SUFFICES ASSUME BInv, WarmUp PROVE BInv'
    OBVIOUS
  <1>1. BTypeOK'
    <2>1. now' \in Nat
      BY ConfigFacts, DelaysNat DEF BInv, BTypeOK, WarmUp
    <2> QED BY <2>1 DEF BInv, BTypeOK, WarmUp
  <1>2. SamplesCapped'
    BY DEF BInv, SamplesCapped, WarmUp
  <1> QED BY <1>1, <1>2 DEF WarmUp, BInv, DivisorChecked, CapacityChecked, BatchTimed,
                            BatchLongEnough, EnoughSamples, SamplesTaken

LEMMA WarmedUpInv == BInv /\ WarmedUp => BInv'
  <1> SUFFICES ASSUME BInv, WarmedUp PROVE BInv'
    OBVIOUS
  <1> USE DEF WarmedUp, GoTo
  <1>1. BTypeOK'
    BY DEF BInv, BTypeOK
  <1>2. SamplesCapped'
    BY DEF BInv, SamplesCapped
  <1>3. DivisorChecked' /\ CapacityChecked'
    BY Kept DEF DivisorChecked, CapacityChecked
  <1>4. BatchTimed' /\ BatchLongEnough'
    BY DEF BatchTimed, BatchLongEnough
  <1>5. EnoughSamples' /\ SamplesTaken'
    BY DEF EnoughSamples, SamplesTaken, Divisor
  <1> QED BY <1>1, <1>2, <1>3, <1>4, <1>5 DEF BInv

LEMMA CalibrateInv == BInv /\ Calibrate => BInv'
  <1> SUFFICES ASSUME BInv, Calibrate PROVE BInv'
    OBVIOUS
  <1>1. PICK d \in IF busy THEN Delays ELSE {0} :
          LET end     == now + cost * iters + d
              elapsed == Elapsed(now, end)
          IN  /\ now' = end % Quantum /\ start' = now'
              /\ IF elapsed >= TargetBatch \/ iters >= MaxIters
                   THEN pc' = "allocate" /\ UNCHANGED iters
                   ELSE iters' = iters * Factor(elapsed) /\ UNCHANGED pc
    BY Zenon DEF Calibrate
  <1> DEFINE end     == now + cost * iters + d
             elapsed == Elapsed(now, end)
  <1>2. UNCHANGED <<cfg, cost, busy, samples>> /\ pc = "calibrate"
    BY DEF Calibrate
  <1>3. d \in Nat /\ (~busy => d = 0)
    BY DelaysNat
  <1>4. BTypeOK /\ Divisor # 0 /\ samples = <<>>
    BY <1>2 DEF BInv, DivisorChecked, SamplesCapped
  <1>5. /\ TargetBatch \in Nat
        /\ cost * iters \in Nat /\ end \in Nat /\ now <= end
    BY <1>3, <1>4, TargetNat, BatchTime
  <1>6. elapsed \in Nat /\ elapsed < (end - now) + Quantum
    BY <1>4, <1>5, ClockError DEF BTypeOK
  <1>7. now' \in Nat /\ start' \in Nat
    BY <1>1, <1>4, <1>5, DivisionFacts, ConfigFacts
  <1>8. ~busy => end - now = cost * iters
    BY <1>3, <1>4, <1>5 DEF BTypeOK
  <1>9. /\ pc' \in {"calibrate", "allocate"}
        /\ pc' = "allocate" => iters' = iters /\ (elapsed >= TargetBatch \/ iters >= MaxIters)
        /\ iters' = iters \/ iters' = iters * Factor(elapsed)
    BY <1>1, <1>2
  <1> HIDE DEF end, elapsed
  <1>10. iters' \in Nat
    <2>1. Factor(elapsed) \in Nat
      BY <1>5, <1>6, FactorNat
    <2>2. iters \in Nat
      BY <1>4 DEF BTypeOK
    <2> QED BY <1>9, <2>1, <2>2
  <1>11. BTypeOK'
    BY <1>2, <1>4, <1>7, <1>9, <1>10 DEF BTypeOK
  <1>12. BatchTimed'
    <2> SUFFICES ASSUME ~busy', iters' < MaxIters, pc' = "allocate"
                 PROVE  (cost * iters)' + Quantum > TargetBatch'
      BY <1>9 DEF BatchTimed
    <2>1. ~busy /\ cost' = cost /\ iters' = iters /\ elapsed >= TargetBatch
      BY <1>2, <1>4, <1>9, ConfigFacts DEF BTypeOK
    <2>2. cost * iters + Quantum > TargetBatch
      <3> DEFINE batch == cost * iters
      <3>1. batch \in Nat /\ elapsed \in Nat /\ elapsed >= TargetBatch
        BY <1>5, <1>6, <2>1
      <3>2. Quantum \in Nat /\ TargetBatch \in Nat
        BY <1>4, <1>5, ConfigFacts
      <3>3. elapsed < batch + Quantum
        BY <1>6, <1>8, <2>1
      <3> HIDE DEF batch
      <3>4. batch + Quantum > TargetBatch
        BY <3>1, <3>2, <3>3
      <3> QED BY <3>4 DEF batch
    <2> QED BY <1>2, <2>1, <2>2, Kept
  <1>13. BatchLongEnough' /\ EnoughSamples' /\ SamplesTaken'
    BY <1>2, <1>4, <1>9 DEF BatchLongEnough, EnoughSamples, SamplesTaken
  <1>14. DivisorChecked' /\ CapacityChecked' /\ SamplesCapped'
    BY <1>2, <1>4, <1>9, Kept DEF BInv, DivisorChecked, CapacityChecked, SamplesCapped
  <1> QED BY <1>11, <1>12, <1>13, <1>14 DEF BInv

LEMMA AllocateInv == BInv /\ Allocate => BInv'
  <1> SUFFICES ASSUME BInv, Allocate PROVE BInv'
    OBVIOUS
  <1>1. /\ UNCHANGED <<cfg, cost, busy, now, start, iters, samples>>
        /\ pc = "allocate"
        /\ pc' = IF cfg.max_samples > MaxCapacity THEN "panicked" ELSE "sample"
    BY Zenon DEF Allocate, GoTo
  <1>2. BTypeOK' /\ samples = <<>>
    BY <1>1 DEF BInv, BTypeOK, SamplesCapped
  <1>3. SamplesCapped' /\ DivisorChecked' /\ BatchTimed'
    BY <1>1, Kept DEF BInv, SamplesCapped, DivisorChecked, BatchTimed
  <1>4. CapacityChecked'
    BY <1>1, ConfigFacts DEF BInv, CapacityChecked
  <1>5. BatchLongEnough'
    BY <1>1, <1>2 DEF BatchLongEnough
  <1>6. EnoughSamples' /\ SamplesTaken'
    BY <1>1 DEF EnoughSamples, SamplesTaken
  <1> QED BY <1>2, <1>3, <1>4, <1>5, <1>6 DEF BInv

LEMMA SampleInv == BInv /\ Sample => BInv'
  <1> SUFFICES ASSUME BInv, Sample PROVE BInv'
    OBVIOUS
  <1>1. PICK d \in Delays :
          LET end == now + cost * iters + d
          IN  now' = end /\ samples' = Append(samples, Elapsed(now, end))
    BY Zenon DEF Sample
  <1> DEFINE end     == now + cost * iters + d
             elapsed == Elapsed(now, end)
  <1>2. /\ UNCHANGED <<cfg, cost, busy, pc, start, iters>>
        /\ pc = "sample" /\ Len(samples) < cfg.max_samples
    BY DEF Sample, WantsSample
  <1>3. BTypeOK /\ Divisor # 0 /\ d \in Nat
    BY <1>2, DelaysNat DEF BInv, DivisorChecked
  <1>4. /\ TargetBatch \in Nat
        /\ cost * iters \in Nat /\ end \in Nat /\ now <= end
    BY <1>3, TargetNat, BatchTime
  <1>5. elapsed \in Nat /\ end - now < elapsed + Quantum
    BY <1>3, <1>4, ClockError DEF BTypeOK
  <1>6. end - now >= cost * iters
    BY <1>3, <1>4 DEF BTypeOK
  <1>7. now' = end /\ samples' = Append(samples, elapsed)
    BY <1>1
  <1> HIDE DEF end, elapsed
  <1>8. samples \in Seq(Nat)
    BY <1>3 DEF BTypeOK
  <1>9. /\ samples' \in Seq(Nat) /\ Len(samples') = Len(samples) + 1
        /\ \A i \in DOMAIN samples' :
              samples'[i] = elapsed \/ (i \in DOMAIN samples /\ samples'[i] = samples[i])
    BY <1>5, <1>7, <1>8
  <1>10. BTypeOK'
    BY <1>2, <1>3, <1>4, <1>7, <1>9 DEF BTypeOK
  <1>11. SamplesCapped'
    BY <1>2, <1>3, <1>8, <1>9, ConfigFacts DEF SamplesCapped
  <1>12. BatchTimed' /\ DivisorChecked' /\ CapacityChecked'
    BY <1>2, Kept DEF BInv, BatchTimed, DivisorChecked, CapacityChecked
  <1>13. BatchLongEnough'
    <2> SUFFICES ASSUME ~busy, iters < MaxIters, NEW i \in DOMAIN samples'
                 PROVE  samples'[i] + 2 * Quantum > TargetBatch
      BY <1>2, Kept DEF BatchLongEnough
    <2>1. cost * iters + Quantum > TargetBatch
      BY <1>2 DEF BInv, BatchTimed
    <2>2. elapsed + 2 * Quantum > TargetBatch
      <3> DEFINE batch == cost * iters
                 took  == end - now
      <3>1. batch \in Nat /\ took \in Int /\ elapsed \in Nat
        BY <1>3, <1>4, <1>5 DEF BTypeOK
      <3>2. Quantum \in Nat /\ TargetBatch \in Nat
        BY <1>3, <1>4, ConfigFacts
      <3>3. batch + Quantum > TargetBatch /\ took >= batch /\ took < elapsed + Quantum
        BY <1>5, <1>6, <2>1
      <3> HIDE DEF batch, took
      <3> QED BY <3>1, <3>2, <3>3
    <2>3. \A j \in DOMAIN samples : samples[j] + 2 * Quantum > TargetBatch
      BY <1>2 DEF BInv, BatchLongEnough
    <2> QED BY <1>9, <2>2, <2>3
  <1>14. EnoughSamples' /\ SamplesTaken'
    BY <1>2 DEF EnoughSamples, SamplesTaken
  <1> QED BY <1>10, <1>11, <1>12, <1>13, <1>14 DEF BInv

\* When sampling stops there are samples, unless none were asked for.
LEMMA StopSampling ==
  ASSUME BInv, pc = "sample", ~WantsSample
  PROVE  /\ Len(samples) <= cfg.max_samples
         /\ Len(samples) < cfg.max_samples =>
              /\ Len(samples) >= cfg.min_samples
              /\ Elapsed(start, now) >= cfg.measurement_time
         /\ samples = <<>> => cfg.max_samples = 0 \/ cfg.min_samples = 0
  <1>1. samples \in Seq(Nat) /\ Len(samples) <= cfg.max_samples
    BY DEF BInv, BTypeOK, SamplesCapped
  <1>2. Elapsed(start, now) \in Int
    BY ConfigFacts, DivisionFacts DEF BInv, BTypeOK, Elapsed
  <1>3. Len(samples) < cfg.max_samples =>
          /\ Len(samples) >= cfg.min_samples
          /\ Elapsed(start, now) >= cfg.measurement_time
    BY <1>1, <1>2, ConfigFacts DEF BInv, WantsSample
  <1>4. samples = <<>> => Len(samples) = 0
    OBVIOUS
  <1> QED BY <1>1, <1>3, <1>4, ConfigFacts DEF BInv

LEMMA SummarizeInv == BInv /\ Summarize => BInv'
  <1> SUFFICES ASSUME BInv, Summarize PROVE BInv'
    OBVIOUS
  <1>1. /\ UNCHANGED <<cfg, cost, busy, now, start, iters, samples>>
        /\ pc = "sample" /\ ~WantsSample
        /\ pc' = IF samples = <<>> THEN "panicked" ELSE "done"
    BY Zenon DEF Summarize, GoTo
  <1>2. BTypeOK'
    BY <1>1 DEF BInv, BTypeOK
  <1>3. SamplesCapped' /\ DivisorChecked' /\ CapacityChecked'
    BY <1>1, Kept DEF BInv, SamplesCapped, DivisorChecked, CapacityChecked
  <1>4. BatchTimed' /\ BatchLongEnough'
    BY <1>1, Kept DEF BInv, BatchTimed, BatchLongEnough
  <1>5. EnoughSamples' /\ SamplesTaken'
    <2>1. CASE samples = <<>>
      BY <1>1, <2>1, StopSampling DEF EnoughSamples, SamplesTaken
    <2>2. CASE samples # <<>>
      <3>1. Len(samples) \in Nat \ {0} /\ samples' = samples /\ pc' = "done" /\ cfg' = cfg
        BY <1>1, <2>2 DEF BInv, BTypeOK
      <3>2. AtLeast(cfg.max_samples, 1) % U32 # 0
        BY <1>1 DEF BInv, DivisorChecked, Divisor
      <3>3. ~(cfg.max_samples > MaxCapacity)
        BY <1>1, ConfigFacts DEF BInv, CapacityChecked
      <3>4. Len(samples) \in 1 .. cfg.max_samples
        BY <1>1, <3>1, StopSampling, ConfigFacts DEF BInv
      <3>5. Len(samples) < cfg.max_samples =>
              /\ Len(samples) >= cfg.min_samples
              /\ Elapsed(start, now) >= cfg.measurement_time
        BY <1>1, StopSampling
      <3>6. EnoughSamples'
        BY <1>1, <3>1, <3>2, <3>3, <3>4, <3>5 DEF EnoughSamples, Elapsed
      <3> QED BY <2>2, <3>1, <3>6 DEF SamplesTaken
    <2> QED BY <2>1, <2>2
  <1> QED BY <1>2, <1>3, <1>4, <1>5 DEF BInv

LEMMA FinishedInv == BInv /\ UNCHANGED vars => BInv'
  BY DEF vars, BInv, BTypeOK, DivisorChecked, CapacityChecked, SamplesCapped, BatchTimed,
         BatchLongEnough, EnoughSamples, SamplesTaken, Divisor, TargetBatch, Elapsed

LEMMA BNextInv == BInv /\ [Next]_vars => BInv'
  BY WarmUpInv, WarmedUpInv, CalibrateInv, AllocateInv, SampleInv, SummarizeInv,
     FinishedInv DEF Next, Finished

\* The inductive invariant holds in every reachable state of measure_with.
THEOREM BenchInvariant == Spec => []BInv
  BY BInitInv, BNextInv, PTL DEF Spec

-----------------------------------------------------------------------------

\* Whatever the clock does and however long a call takes: measure_with fails
\* only for a configuration without samples, with a max_samples that truncates
\* to 0 or with one that cannot be allocated; the latter two never get a report;
\* and a report rests on at least one sample, and on as many as the smaller of
\* min_samples and max_samples.
THEOREM EnoughSamplesTaken == Spec => []EnoughSamples
  BY BenchInvariant, PTL DEF BInv

\* For every resolution of the clock and every target: a batch that calibrate
\* timed undisturbed is, whenever it is sampled, less than two resolutions short
\* of its target, unless it has the maximum of iterations.
THEOREM BatchesLongEnough == Spec => []BatchLongEnough
  BY BenchInvariant, PTL DEF BInv

-----------------------------------------------------------------------------
(* Induction over the naturals, for a set of numbers.                      *)

LEMMA LeastNatural ==
  ASSUME NEW T \in SUBSET Nat, T # {}
  PROVE  \E x \in T : \A y \in T : x <= y
  <1> DEFINE R == OpToRel(<, Nat)
  <1>1. IsWellFoundedOn(R, Nat)
    BY NatLessThanWellFounded
  <1>2. \A x, y \in Nat : x < y => <<x, y>> \in R
    BY DEF OpToRel
  <1> HIDE DEF R
  <1>3. PICK x \in T : \A y \in T : ~ (<<y, x>> \in R)
    <2>1. T \subseteq Nat
      OBVIOUS
    <2> QED BY <1>1, <2>1, WFMin, Zenon
  <1>4. \A y \in T : ~(y < x)
    BY <1>2, <1>3
  <1>5. \A y \in T : x <= y
    BY <1>4
  <1> QED BY <1>5

LEMMA Induction ==
  ASSUME NEW S, 0 \in S, \A n \in Nat : n \in S => n + 1 \in S
  PROVE  \A n \in Nat : n \in S
  <1> DEFINE T == Nat \ S
  <1>1. CASE T = {}
    BY <1>1
  <1>2. CASE T # {}
    <2>1. PICK x \in T : \A y \in T : x <= y
      BY <1>2, LeastNatural
    <2>2. x - 1 \in Nat /\ x - 1 \notin T
      BY <2>1
    <2> QED BY <2>1, <2>2
  <1> QED BY <1>1, <1>2

-----------------------------------------------------------------------------
(* Positions. *)

\* The positions of the elements of xs that are in K.
Places(xs, K) == {i \in DOMAIN xs : xs[i] \in K}

Ascending(xs) == \A i, j \in DOMAIN xs : i <= j => xs[i] <= xs[j]

LEMMA PlacesFinite ==
  ASSUME NEW n \in Nat, NEW xs, DOMAIN xs = 1 .. n, NEW K
  PROVE  /\ IsFiniteSet(Places(xs, K)) /\ Cardinality(Places(xs, K)) \in Nat
         /\ Cardinality(Places(xs, K)) <= n
  <1>1. IsFiniteSet(1 .. n) /\ Cardinality(1 .. n) = n
    BY FS_Interval
  <1>2. Places(xs, K) \in SUBSET (1 .. n)
    BY DEF Places
  <1> QED BY <1>1, <1>2, FS_Subset, FS_CardinalityType

\* A part of the positions counts no more than all of them.
LEMMA PlacesInterval ==
  ASSUME NEW n \in Nat, NEW xs, DOMAIN xs = 1 .. n, NEW K,
         NEW a \in 1 .. n + 1, NEW b \in 0 .. n, \A i \in a .. b : xs[i] \in K
  PROVE  b - a + 1 <= Cardinality(Places(xs, K))
  <1>1. a .. b \in SUBSET Places(xs, K)
    BY DEF Places
  <1>2. IsFiniteSet(Places(xs, K)) /\ Cardinality(Places(xs, K)) \in Nat
    BY PlacesFinite
  <1>3. Cardinality(a .. b) <= Cardinality(Places(xs, K))
    BY <1>1, <1>2, FS_Subset
  <1>4. Cardinality(a .. b) = IF a > b THEN 0 ELSE b - a + 1
    BY FS_Interval
  <1> QED BY <1>2, <1>3, <1>4

-----------------------------------------------------------------------------
(* Sorting. *)

LEMMA RankInRange ==
  ASSUME NEW n \in Nat, NEW xs \in [1 .. n -> Int], NEW i \in 1 .. n
  PROVE  Rank(xs, i) \in 1 .. n
  <1> DEFINE before == {j \in 1 .. n : xs[j] < xs[i] \/ (xs[j] = xs[i] /\ j <= i)}
  <1>1. Rank(xs, i) = Cardinality(before)
    BY DEF Rank
  <1>2. IsFiniteSet(1 .. n) /\ Cardinality(1 .. n) = n
    BY FS_Interval
  <1>3. before \in SUBSET (1 .. n) /\ i \in before
    OBVIOUS
  <1> HIDE DEF before
  <1>4. IsFiniteSet(before) /\ Cardinality(before) <= n
    <2>1. IsFiniteSet(before) /\ Cardinality(before) <= Cardinality(1 .. n)
      BY <1>2, <1>3, FS_Subset
    <2> QED BY <1>2, <2>1
  <1>5. Cardinality(before) \in Nat /\ Cardinality(before) # 0
    BY <1>3, <1>4, FS_CardinalityType, FS_EmptySet
  <1> QED BY <1>1, <1>4, <1>5

LEMMA RankOrders ==
  ASSUME NEW n \in Nat, NEW xs \in [1 .. n -> Int],
         NEW i \in 1 .. n, NEW k \in 1 .. n,
         xs[i] < xs[k] \/ (xs[i] = xs[k] /\ i < k)
  PROVE  Rank(xs, i) < Rank(xs, k)
  <1> DEFINE bi == {j \in 1 .. n : xs[j] < xs[i] \/ (xs[j] = xs[i] /\ j <= i)}
             bk == {j \in 1 .. n : xs[j] < xs[k] \/ (xs[j] = xs[k] /\ j <= k)}
  <1>1. Rank(xs, i) = Cardinality(bi) /\ Rank(xs, k) = Cardinality(bk)
    BY DEF Rank
  <1>2. bi \in SUBSET bk
    OBVIOUS
  <1>3. k \in bk /\ k \notin bi
    OBVIOUS
  <1>4. bk \in SUBSET (1 .. n) /\ IsFiniteSet(1 .. n)
    BY FS_Interval
  <1> HIDE DEF bi, bk
  <1>5. IsFiniteSet(bk)
    BY <1>4, FS_Subset
  <1>6. IsFiniteSet(bi) /\ Cardinality(bi) <= Cardinality(bk) /\ Cardinality(bi) # Cardinality(bk)
    BY <1>2, <1>3, <1>5, FS_Subset
  <1>7. Cardinality(bi) \in Nat /\ Cardinality(bk) \in Nat
    BY <1>5, <1>6, FS_CardinalityType
  <1> QED BY <1>1, <1>6, <1>7

\* Sorted only rearranges, and it puts in order.
LEMMA SortedRearranges ==
  ASSUME NEW n \in Nat, NEW xs \in [1 .. n -> Int]
  PROVE  /\ Ascending(Sorted(xs))
         /\ \E p \in Bijection(1 .. n, 1 .. n) : Sorted(xs) = [k \in 1 .. n |-> xs[p[k]]]
  <1> DEFINE rank == [i \in 1 .. n |-> Rank(xs, i)]
             p    == [k \in 1 .. n |-> CHOOSE i \in 1 .. n : Rank(xs, i) = k]
  <1>1. rank \in [1 .. n -> 1 .. n]
    BY RankInRange
  <1>2. ASSUME NEW i \in 1 .. n, NEW k \in 1 .. n, Rank(xs, i) = Rank(xs, k) PROVE i = k
    <2>1. Rank(xs, i) \in 1 .. n
      BY RankInRange
    <2>2. CASE xs[i] < xs[k] \/ (xs[i] = xs[k] /\ i < k)
      BY <1>2, <2>1, <2>2, RankOrders
    <2>3. CASE xs[k] < xs[i] \/ (xs[k] = xs[i] /\ k < i)
      BY <1>2, <2>1, <2>3, RankOrders
    <2> QED BY <2>2, <2>3
  <1>3. rank \in Injection(1 .. n, 1 .. n)
    BY <1>1, <1>2 DEF Injection, IsInjective
  <1>4. IsFiniteSet(1 .. n)
    BY FS_Interval
  <1>5. rank \in Surjection(1 .. n, 1 .. n)
    BY <1>3, <1>4, FS_Injection
  <1>6. \A k \in 1 .. n : \E i \in 1 .. n : Rank(xs, i) = k
    BY <1>5 DEF Surjection
  <1>7. \A k \in 1 .. n : p[k] \in 1 .. n /\ Rank(xs, p[k]) = k
    BY <1>6
  <1>8. Sorted(xs) = [k \in 1 .. n |-> xs[p[k]]]
    BY DEF Sorted
  <1> HIDE DEF p, rank
  <1>9. p \in [1 .. n -> 1 .. n]
    BY <1>7 DEF p
  <1>10. p \in Injection(1 .. n, 1 .. n)
    BY <1>7, <1>9 DEF Injection, IsInjective
  <1>11. p \in Surjection(1 .. n, 1 .. n)
    BY <1>4, <1>10, FS_Injection
  <1>12. Ascending(Sorted(xs))
    <2> SUFFICES ASSUME NEW k \in 1 .. n, NEW m \in 1 .. n, k <= m
                 PROVE  xs[p[k]] <= xs[p[m]]
      BY <1>8 DEF Ascending
    <2>1. p[k] \in 1 .. n /\ p[m] \in 1 .. n /\ xs[p[k]] \in Int /\ xs[p[m]] \in Int
      BY <1>7
    <2>2. SUFFICES ASSUME xs[p[m]] < xs[p[k]] PROVE FALSE
      BY <2>1
    <2>3. Rank(xs, p[m]) < Rank(xs, p[k])
      BY <2>1, <2>2, RankOrders
    <2> QED BY <1>7, <2>3
  <1> QED BY <1>8, <1>10, <1>11, <1>12 DEF Bijection

\* What is rearranged has as many elements in K as before.
LEMMA RearrangedCount ==
  ASSUME NEW n \in Nat, NEW xs, DOMAIN xs = 1 .. n, NEW K,
         NEW p \in Bijection(1 .. n, 1 .. n)
  PROVE  Cardinality(Places([k \in 1 .. n |-> xs[p[k]]], K)) = Cardinality(Places(xs, K))
  <1> DEFINE zs == [k \in 1 .. n |-> xs[p[k]]]
             A  == Places(zs, K)
             B  == Places(xs, K)
             f  == [k \in A |-> p[k]]
  <1>1. /\ p \in [1 .. n -> 1 .. n]
        /\ \A a, b \in 1 .. n : p[a] = p[b] => a = b
        /\ \A b \in 1 .. n : \E a \in 1 .. n : p[a] = b
    BY DEF Bijection, Injection, Surjection, IsInjective
  <1>2. \A k \in 1 .. n : k \in A <=> p[k] \in B
    BY <1>1 DEF Places
  <1>3. A \subseteq 1 .. n /\ B \subseteq 1 .. n
    BY DEF Places
  <1>4. IsFiniteSet(A)
    BY PlacesFinite
  <1> HIDE DEF A, B, zs
  <1>5. f \in [A -> B]
    BY <1>2, <1>3
  <1>6. f \in Injection(A, B)
    BY <1>1, <1>3, <1>5 DEF Injection, IsInjective
  <1>7. f \in Surjection(A, B)
    BY <1>1, <1>2, <1>3, <1>5 DEF Surjection
  <1>8. ExistsBijection(A, B)
    BY <1>6, <1>7 DEF ExistsBijection, Bijection
  <1>9. Cardinality(A) = Cardinality(B)
    BY <1>4, <1>8, FS_Bijection
  <1> QED BY <1>9 DEF A, B, zs

LEMMA SortedFacts ==
  ASSUME NEW S \in SUBSET Int, NEW n \in Nat, NEW xs \in [1 .. n -> S]
  PROVE  /\ Sorted(xs) \in [1 .. n -> S] /\ Ascending(Sorted(xs))
         /\ \A K : Cardinality(Places(Sorted(xs), K)) = Cardinality(Places(xs, K))
  <1>1. xs \in [1 .. n -> Int]
    OBVIOUS
  <1>2. PICK p \in Bijection(1 .. n, 1 .. n) : Sorted(xs) = [k \in 1 .. n |-> xs[p[k]]]
    BY <1>1, SortedRearranges
  <1>3. p \in [1 .. n -> 1 .. n]
    BY DEF Bijection, Injection
  <1>4. Sorted(xs) \in [1 .. n -> S]
    BY <1>2, <1>3
  <1>5. \A K : Cardinality(Places(Sorted(xs), K)) = Cardinality(Places(xs, K))
    BY <1>2, RearrangedCount
  <1> QED BY <1>1, <1>4, <1>5, SortedRearranges

-----------------------------------------------------------------------------
(* Folds. *)

LEMMA MaxOfSet ==
  ASSUME NEW n \in Nat, NEW s \in SUBSET (1 .. n + 1), n + 1 \in s
  PROVE  Max(s) = n + 1
  <1>1. \A y \in s : n + 1 >= y
    OBVIOUS
  <1>2. \A x \in s : (\A y \in s : x >= y) => x = n + 1
    OBVIOUS
  <1> QED BY <1>1, <1>2 DEF Max


\* One sample of the filter: it stays if it is in K.
WithinStep(K, acc, x) == IF x \in K THEN Append(acc, x) ELSE acc

\* g folds ss over the sets of its first n positions.
WithinFold(g, K, ss, n) ==
    g = [s \in SUBSET (1 .. n) |->
            IF s = {} THEN <<>> ELSE WithinStep(K, g[s \ {Max(s)}], ss[Max(s)])]

LEMMA WithinFoldExists ==
  ASSUME NEW K, NEW ss
  PROVE  \A n \in Nat : \E g : WithinFold(g, K, ss, n)
  <1> DEFINE T == {n \in Nat : \E g : WithinFold(g, K, ss, n)}
  <1>1. 0 \in T
    <2> DEFINE g == [s \in SUBSET (1 .. 0) |-> <<>>]
    <2>1. \A s \in SUBSET (1 .. 0) : s = {}
      OBVIOUS
    <2>2. WithinFold(g, K, ss, 0)
      BY <2>1 DEF WithinFold
    <2> QED BY <2>2
  <1>2. ASSUME NEW n \in Nat, n \in T PROVE n + 1 \in T
    <2>1. PICK g : WithinFold(g, K, ss, n)
      BY <1>2
    <2> DEFINE h == [s \in SUBSET (1 .. n + 1) |->
                       IF n + 1 \in s THEN WithinStep(K, g[s \ {n + 1}], ss[n + 1]) ELSE g[s]]
    <2>2. ASSUME NEW s \in SUBSET (1 .. n + 1)
          PROVE  h[s] = IF s = {} THEN <<>> ELSE WithinStep(K, h[s \ {Max(s)}], ss[Max(s)])
      <3>1. CASE n + 1 \in s
        <4>1. s \ {n + 1} \in SUBSET (1 .. n + 1) /\ n + 1 \notin s \ {n + 1} /\ s # {}
          BY <3>1
        <4>2. h[s \ {n + 1}] = g[s \ {n + 1}]
          BY <4>1
        <4>3. h[s] = WithinStep(K, g[s \ {n + 1}], ss[n + 1])
          BY <3>1
        <4>4. Max(s) = n + 1
          BY <3>1, MaxOfSet
        <4> HIDE DEF h
        <4> QED BY <4>1, <4>2, <4>3, <4>4
      <3>2. CASE n + 1 \notin s
        <4>1. s \in SUBSET (1 .. n)
          BY <3>2
        <4>2. s \ {Max(s)} \in SUBSET (1 .. n + 1) /\ n + 1 \notin s \ {Max(s)}
          BY <3>2
        <4>3. h[s] = g[s] /\ h[s \ {Max(s)}] = g[s \ {Max(s)}]
          BY <3>2, <4>2
        <4> HIDE DEF h
        <4> QED BY <2>1, <4>1, <4>3 DEF WithinFold
      <3> QED BY <3>1, <3>2
    <2>3. WithinFold(h, K, ss, n + 1)
      BY <2>2 DEF WithinFold
    <2> QED BY <2>3
  <1> HIDE DEF T
  <1>3. \A n \in Nat : n \in T
    BY <1>1, <1>2, Induction
  <1> QED BY <1>3 DEF T

\* The filter goes from sample to sample.
LEMMA WithinByElement ==
  ASSUME NEW S, NEW ss \in Seq(S), NEW K
  PROVE  \E out : /\ out[0] = <<>>
                  /\ \A k \in 0 .. Len(ss) - 1 : out[k + 1] = WithinStep(K, out[k], ss[k + 1])
                  /\ Within(ss, K) = out[Len(ss)]
  <1> DEFINE n == Len(ss)
  <1>0. n \in Nat /\ DOMAIN ss = 1 .. n
    OBVIOUS
  <1> HIDE DEF n
  <1> DEFINE g == CHOOSE g : WithinFold(g, K, ss, n)
  <1>1. WithinFold(g, K, ss, n)
    BY <1>0, WithinFoldExists
  <1>2. Within(ss, K) = g[1 .. n]
    BY <1>0 DEF Within, FoldLeft, MapThenFoldSet, WithinFold, WithinStep
  <1> HIDE DEF g
  <1> DEFINE out == [k \in 0 .. n |-> g[1 .. k]]
  <1>3. out[0] = <<>>
    <2>1. 1 .. 0 = {} /\ {} \in SUBSET (1 .. n)
      BY <1>0
    <2>2. g[{}] = <<>>
      BY <1>0, <1>1, <2>1 DEF WithinFold
    <2> QED BY <1>0, <2>1, <2>2
  <1>4. ASSUME NEW k \in 0 .. n - 1 PROVE out[k + 1] = WithinStep(K, out[k], ss[k + 1])
    <2>0. k \in Nat /\ k + 1 <= n
      BY <1>0
    <2>1. k \in Nat /\ k + 1 \in 1 .. k + 1 /\ 1 .. k + 1 \in SUBSET (1 .. n) /\ 1 .. k + 1 # {}
      <3>1. \A i \in 1 .. k + 1 : i \in 1 .. n
        BY <1>0, <2>0
      <3>2. k + 1 \in 1 .. k + 1
        BY <2>0
      <3> QED BY <2>0, <3>1, <3>2
    <2>2. Max(1 .. k + 1) = k + 1
      BY <2>1, MaxOfSet
    <2>3. (1 .. k + 1) \ {k + 1} = 1 .. k
      BY <2>1
    <2>4. g[1 .. k + 1] = WithinStep(K, g[1 .. k], ss[k + 1])
      BY <1>1, <2>1, <2>2, <2>3 DEF WithinFold
    <2> QED BY <1>0, <2>0, <2>1, <2>4
  <1>5. Within(ss, K) = out[n]
    BY <1>0, <1>2
  <1> HIDE DEF out
  <1> QED BY <1>3, <1>4, <1>5 DEF n

\* One summand.
TotalStep(acc, x) == acc + x

\* g folds ss over the sets of its first n positions.
TotalFold(g, ss, n) ==
    g = [s \in SUBSET (1 .. n) |->
            IF s = {} THEN 0 ELSE TotalStep(g[s \ {Max(s)}], ss[Max(s)])]

LEMMA TotalFoldExists ==
  ASSUME NEW ss
  PROVE  \A n \in Nat : \E g : TotalFold(g, ss, n)
  <1> DEFINE T == {n \in Nat : \E g : TotalFold(g, ss, n)}
  <1>1. 0 \in T
    <2> DEFINE g == [s \in SUBSET (1 .. 0) |-> 0]
    <2>1. \A s \in SUBSET (1 .. 0) : s = {}
      OBVIOUS
    <2>2. TotalFold(g, ss, 0)
      BY <2>1 DEF TotalFold
    <2> QED BY <2>2
  <1>2. ASSUME NEW n \in Nat, n \in T PROVE n + 1 \in T
    <2>1. PICK g : TotalFold(g, ss, n)
      BY <1>2
    <2> DEFINE h == [s \in SUBSET (1 .. n + 1) |->
                       IF n + 1 \in s THEN TotalStep(g[s \ {n + 1}], ss[n + 1]) ELSE g[s]]
    <2>2. ASSUME NEW s \in SUBSET (1 .. n + 1)
          PROVE  h[s] = IF s = {} THEN 0 ELSE TotalStep(h[s \ {Max(s)}], ss[Max(s)])
      <3>1. CASE n + 1 \in s
        <4>1. s \ {n + 1} \in SUBSET (1 .. n + 1) /\ n + 1 \notin s \ {n + 1} /\ s # {}
          BY <3>1
        <4>2. h[s \ {n + 1}] = g[s \ {n + 1}]
          BY <4>1
        <4>3. h[s] = TotalStep(g[s \ {n + 1}], ss[n + 1])
          BY <3>1
        <4>4. Max(s) = n + 1
          BY <3>1, MaxOfSet
        <4> HIDE DEF h
        <4> QED BY <4>1, <4>2, <4>3, <4>4
      <3>2. CASE n + 1 \notin s
        <4>1. s \in SUBSET (1 .. n)
          BY <3>2
        <4>2. s \ {Max(s)} \in SUBSET (1 .. n + 1) /\ n + 1 \notin s \ {Max(s)}
          BY <3>2
        <4>3. h[s] = g[s] /\ h[s \ {Max(s)}] = g[s \ {Max(s)}]
          BY <3>2, <4>2
        <4> HIDE DEF h
        <4> QED BY <2>1, <4>1, <4>3 DEF TotalFold
      <3> QED BY <3>1, <3>2
    <2>3. TotalFold(h, ss, n + 1)
      BY <2>2 DEF TotalFold
    <2> QED BY <2>3
  <1> HIDE DEF T
  <1>3. \A n \in Nat : n \in T
    BY <1>1, <1>2, Induction
  <1> QED BY <1>3 DEF T

\* The sum is taken from element to element.
LEMMA TotalByElement ==
  ASSUME NEW n \in Nat, NEW ss, DOMAIN ss = 1 .. n
  PROVE  \E out : /\ out[0] = 0
                  /\ \A k \in 0 .. n - 1 : out[k + 1] = TotalStep(out[k], ss[k + 1])
                  /\ Total(ss) = out[n]
  <1> DEFINE g == CHOOSE g : TotalFold(g, ss, n)
  <1>1. TotalFold(g, ss, n)
    BY TotalFoldExists
  <1>2. Total(ss) = g[1 .. n]
    BY DEF Total, FoldLeft, MapThenFoldSet, TotalFold, TotalStep
  <1> HIDE DEF g
  <1> DEFINE out == [k \in 0 .. n |-> g[1 .. k]]
  <1>3. out[0] = 0
    <2>1. 1 .. 0 = {} /\ {} \in SUBSET (1 .. n)
      OBVIOUS
    <2>2. g[{}] = 0
      BY <1>1, <2>1 DEF TotalFold
    <2> QED BY <2>1, <2>2
  <1>4. ASSUME NEW k \in 0 .. n - 1 PROVE out[k + 1] = TotalStep(out[k], ss[k + 1])
    <2>0. k \in Nat /\ k + 1 <= n
      OBVIOUS
    <2>1. k \in Nat /\ k + 1 \in 1 .. k + 1 /\ 1 .. k + 1 \in SUBSET (1 .. n) /\ 1 .. k + 1 # {}
      <3>1. \A i \in 1 .. k + 1 : i \in 1 .. n
        BY <2>0
      <3>2. k + 1 \in 1 .. k + 1
        BY <2>0
      <3> QED BY <2>0, <3>1, <3>2
    <2>2. Max(1 .. k + 1) = k + 1
      BY <2>1, MaxOfSet
    <2>3. (1 .. k + 1) \ {k + 1} = 1 .. k
      BY <2>1
    <2>4. g[1 .. k + 1] = TotalStep(g[1 .. k], ss[k + 1])
      BY <1>1, <2>1, <2>2, <2>3 DEF TotalFold
    <2> QED BY <2>1, <2>4
  <1>5. Total(ss) = out[n]
    BY <1>2
  <1> HIDE DEF out
  <1> QED BY <1>3, <1>4, <1>5

-----------------------------------------------------------------------------
(* The filter. *)

LEMMA WithinFacts ==
  ASSUME NEW S, NEW ss \in Seq(S), NEW K
  PROVE  /\ Within(ss, K) \in Seq(S)
         /\ Len(Within(ss, K)) = Cardinality(Places(ss, K))
         /\ \A x : x \in ToSet(Within(ss, K)) <=> x \in ToSet(ss) /\ x \in K
  <1> DEFINE n == Len(ss)
             met(k) == {i \in 1 .. k : ss[i] \in K}
  <1>1. n \in Nat /\ DOMAIN ss = 1 .. n /\ \A i \in 1 .. n : ss[i] \in S
    OBVIOUS
  <1>2. PICK out : /\ out[0] = <<>>
                   /\ \A k \in 0 .. n - 1 : out[k + 1] = WithinStep(K, out[k], ss[k + 1])
                   /\ Within(ss, K) = out[n]
    BY WithinByElement
  <1> DEFINE good(k) == /\ out[k] \in Seq(S)
                        /\ IsFiniteSet(met(k)) /\ Len(out[k]) = Cardinality(met(k))
                        /\ \A x : (\E j \in 1 .. Len(out[k]) : out[k][j] = x)
                                     <=> (\E i \in 1 .. k : ss[i] = x /\ x \in K)
             T == {k \in Nat : k <= n => good(k)}
  <1> HIDE DEF n
  <1>3. 0 \in T
    <2>1. met(0) = {} /\ out[0] \in Seq(S) /\ Len(out[0]) = 0
      BY <1>2
    <2>2. IsFiniteSet(met(0)) /\ Cardinality(met(0)) = 0
      BY <2>1, FS_EmptySet
    <2> QED BY <2>1, <2>2
  <1>4. ASSUME NEW k \in Nat, k \in T PROVE k + 1 \in T
    <2> SUFFICES ASSUME k + 1 <= n PROVE good(k + 1)
      OBVIOUS
    <2>1. good(k) /\ k + 1 \in 1 .. n /\ k \in 0 .. n - 1
      BY <1>1, <1>4
    <2> DEFINE x == ss[k + 1]
               s == out[k]
               t == out[k + 1]
    <2>2. x \in S /\ t = WithinStep(K, s, x) /\ s \in Seq(S)
      BY <1>1, <1>2, <2>1
    <2>3. CASE x \in K
      <3>1. met(k + 1) = met(k) \cup {k + 1} /\ k + 1 \notin met(k)
        BY <2>3
      <3>2. IsFiniteSet(met(k + 1)) /\ Cardinality(met(k + 1)) = Cardinality(met(k)) + 1
        <4> DEFINE old == met(k)
                   new == met(k + 1)
        <4>1. IsFiniteSet(old) /\ k + 1 \notin old /\ new = old \cup {k + 1}
          BY <2>1, <3>1
        <4> HIDE DEF old, new
        <4>2. IsFiniteSet(new) /\ Cardinality(new) = Cardinality(old) + 1
          BY <4>1, FS_AddElement
        <4> QED BY <4>2 DEF old, new
      <3>3. t = Append(s, x)
        BY <2>2, <2>3 DEF WithinStep
      <3>4. t \in Seq(S) /\ Len(t) = Len(s) + 1 /\ t[Len(s) + 1] = x
              /\ \A j \in 1 .. Len(s) : t[j] = s[j]
        BY <2>2, <3>3
      <3>5. Len(s) \in Nat
        BY <2>2
      <3> HIDE DEF s, t
      <3>6. \A y : (\E j \in 1 .. Len(t) : t[j] = y) <=> (\E j \in 1 .. Len(s) : s[j] = y) \/ y = x
        BY <3>4, <3>5
      <3>7. \A y : (\E i \in 1 .. k + 1 : ss[i] = y /\ y \in K)
                     <=> (\E i \in 1 .. k : ss[i] = y /\ y \in K) \/ y = x
        BY <2>3
      <3>8. \A y : (\E j \in 1 .. Len(s) : s[j] = y) <=> (\E i \in 1 .. k : ss[i] = y /\ y \in K)
        BY <2>1 DEF s
      <3>9. Len(t) = Cardinality(met(k + 1))
        BY <2>1, <3>2, <3>4 DEF s
      <3>10. \A y : (\E j \in 1 .. Len(t) : t[j] = y)
                     <=> (\E i \in 1 .. k + 1 : ss[i] = y /\ y \in K)
        BY <3>6, <3>7, <3>8
      <3> HIDE DEF met
      <3> QED BY <3>2, <3>4, <3>9, <3>10 DEF t
    <2>4. CASE x \notin K
      <3>1. met(k + 1) = met(k)
        BY <2>4
      <3>2. t = s
        BY <2>2, <2>4 DEF WithinStep
      <3>3. \A y : (\E i \in 1 .. k + 1 : ss[i] = y /\ y \in K)
                     <=> (\E i \in 1 .. k : ss[i] = y /\ y \in K)
        BY <2>4
      <3> HIDE DEF met
      <3> QED BY <2>1, <3>1, <3>2, <3>3
    <2> QED BY <2>3, <2>4
  <1> HIDE DEF T, good
  <1>5. n \in T
    BY <1>1, <1>3, <1>4, Induction
  <1>6. good(n)
    BY <1>1, <1>5 DEF T
  <1>7. Places(ss, K) = met(n)
    BY <1>1 DEF Places
  <1> HIDE DEF met
  <1>8. /\ out[n] \in Seq(S) /\ Len(out[n]) = Cardinality(met(n))
        /\ \A x : (\E j \in 1 .. Len(out[n]) : out[n][j] = x)
                     <=> (\E i \in 1 .. n : ss[i] = x /\ x \in K)
    BY <1>6 DEF good
  <1>9. DOMAIN out[n] = 1 .. Len(out[n])
    BY <1>8
  <1>10. \A x : x \in ToSet(out[n]) <=> x \in ToSet(ss) /\ x \in K
    BY <1>1, <1>8, <1>9 DEF ToSet
  <1> QED BY <1>2, <1>7, <1>8, <1>10

-----------------------------------------------------------------------------
(* Sums. *)

LEMMA LenOf ==
  ASSUME NEW n \in Nat, NEW S, NEW xs \in [1 .. n -> S]
  PROVE  xs \in Seq(S) /\ Len(xs) = n /\ DOMAIN xs = 1 .. n
  OBVIOUS

LEMMA TotalFacts ==
  ASSUME NEW n \in Nat, NEW xs \in [1 .. n -> Int]
  PROVE  \E sum \in [0 .. n -> Int] :
            /\ sum[0] = 0
            /\ \A k \in 0 .. n - 1 : sum[k + 1] = sum[k] + xs[k + 1]
            /\ Total(xs) = sum[n]
  <1>1. PICK out : /\ out[0] = 0
                   /\ \A k \in 0 .. n - 1 : out[k + 1] = TotalStep(out[k], xs[k + 1])
                   /\ Total(xs) = out[n]
    BY TotalByElement
  <1> DEFINE T == {k \in Nat : k <= n => out[k] \in Int}
             sum == [k \in 0 .. n |-> out[k]]
  <1>2. 0 \in T
    BY <1>1
  <1>3. ASSUME NEW k \in Nat, k \in T PROVE k + 1 \in T
    <2> SUFFICES ASSUME k + 1 <= n PROVE out[k + 1] \in Int
      OBVIOUS
    <2>1. k \in 0 .. n - 1 /\ k + 1 \in 1 .. n /\ out[k] \in Int
      BY <1>3
    <2> QED BY <1>1, <2>1 DEF TotalStep
  <1> HIDE DEF T
  <1>4. \A k \in Nat : k \in T
    BY <1>2, <1>3, Induction
  <1>5. sum \in [0 .. n -> Int]
    BY <1>4 DEF T
  <1>6. sum[0] = 0 /\ Total(xs) = sum[n]
    BY <1>1
  <1>7. ASSUME NEW k \in 0 .. n - 1 PROVE sum[k + 1] = sum[k] + xs[k + 1]
    <2>1. k \in 0 .. n /\ k + 1 \in 0 .. n
      OBVIOUS
    <2>2. out[k + 1] = out[k] + xs[k + 1]
      BY <1>1 DEF TotalStep
    <2> QED BY <2>1, <2>2
  <1> HIDE DEF sum
  <1> QED BY <1>5, <1>6, <1>7

-----------------------------------------------------------------------------
(* Percentiles of a sorted sequence. *)

\* The value at the rank r / 4 of xs, in quarters.
Interpolated(xs, r) ==
    4 * xs[r \div 4 + 1] + (xs[(r + 3) \div 4 + 1] - xs[r \div 4 + 1]) * (r % 4)

LEMMA DivFour ==
  ASSUME NEW r \in Nat
  PROVE  r \div 4 \in Nat /\ r % 4 \in 0 .. 3 /\ r = 4 * (r \div 4) + (r % 4)
  <1>1. r \div 4 \in Nat
    BY Z3
  <1>2. r % 4 \in 0 .. 3
    BY Z3
  <1>3. r = 4 * (r \div 4) + (r % 4)
    BY Z3
  <1> QED BY <1>1, <1>2, <1>3

LEMMA Quarters ==
  ASSUME NEW r \in Nat
  PROVE  /\ r \div 4 \in Nat /\ r % 4 \in 0 .. 3 /\ r = 4 * (r \div 4) + (r % 4)
         /\ (r + 3) \div 4 = IF r % 4 = 0 THEN r \div 4 ELSE r \div 4 + 1
  <1> DEFINE a == r \div 4
             f == r % 4
             b == (r + 3) \div 4
             g == (r + 3) % 4
  <1>1. a \in Nat /\ f \in 0 .. 3 /\ r = 4 * a + f
    BY DivFour
  <1>2. b \in Nat /\ g \in 0 .. 3 /\ r + 3 = 4 * b + g
    BY DivFour
  <1> HIDE DEF a, b, f, g
  <1>3. b = IF f = 0 THEN a ELSE a + 1
    <2>1. CASE f = 0
      BY <1>1, <1>2, <2>1
    <2>2. CASE f # 0
      BY <1>1, <1>2, <2>2
    <2> QED BY <2>1, <2>2
  <1> QED BY <1>1, <1>3 DEF a, b, f

LEMMA PercentileInterpolates ==
  ASSUME NEW n \in Nat, NEW S, NEW xs \in [1 .. n -> S], NEW q \in Nat
  PROVE  Percentile(xs, q) = Interpolated(xs, q * (n - 1))
  <1>1. Len(xs) = n
    BY LenOf
  <1> QED BY <1>1 DEF Percentile, Interpolated

\* It lies between the elements around its rank.
LEMMA InterpolatedBetween ==
  ASSUME NEW n \in Nat, NEW xs \in [1 .. n -> Nat], Ascending(xs),
         NEW r \in Nat, r <= 4 * (n - 1)
  PROVE  LET lo == r \div 4 + 1
             hi == (r + 3) \div 4 + 1
         IN  /\ lo \in 1 .. n /\ hi \in 1 .. n
             /\ hi = (IF r % 4 = 0 THEN lo ELSE lo + 1)
             /\ Interpolated(xs, r) \in Nat
             /\ 4 * xs[lo] <= Interpolated(xs, r) /\ Interpolated(xs, r) <= 4 * xs[hi]
             /\ Interpolated(xs, r) = 4 * xs[lo] + (xs[hi] - xs[lo]) * (r % 4)
  <1> DEFINE lo == r \div 4 + 1
             hi == (r + 3) \div 4 + 1
             f  == r % 4
             I  == Interpolated(xs, r)
             a  == xs[lo]
             b  == xs[hi]
  <1>1. /\ lo \in Nat /\ lo >= 1 /\ f \in 0 .. 3 /\ r = 4 * (lo - 1) + f
        /\ hi = IF f = 0 THEN lo ELSE lo + 1
    BY Quarters
  <1>2. I = 4 * a + (b - a) * f
    BY DEF Interpolated
  <1> HIDE DEF lo, hi, f
  <1>3. lo \in 1 .. n /\ hi \in 1 .. n /\ lo <= hi
    BY <1>1
  <1>4. a \in Nat /\ b \in Nat /\ a <= b /\ (f = 0 => a = b)
    BY <1>1, <1>3 DEF Ascending
  <1> HIDE DEF a, b, I
  <1>5. I \in Nat /\ 4 * a <= I /\ I <= 4 * b
    <2>1. CASE f = 0
      BY <1>2, <1>4, <2>1
    <2>2. CASE f = 1
      BY <1>2, <1>4, <2>2
    <2>3. CASE f = 2
      BY <1>2, <1>4, <2>3
    <2>4. CASE f = 3
      BY <1>2, <1>4, <2>4
    <2> QED BY <1>1, <2>1, <2>2, <2>3, <2>4
  <1> QED BY <1>1, <1>2, <1>3, <1>5 DEF lo, hi, f, a, b, I

\* A higher rank has no lower value.
LEMMA InterpolatedMonotone ==
  ASSUME NEW n \in Nat, NEW xs \in [1 .. n -> Nat], Ascending(xs),
         NEW r \in Nat, NEW s \in Nat, r <= s, s <= 4 * (n - 1)
  PROVE  Interpolated(xs, r) <= Interpolated(xs, s)
  <1> DEFINE lr == r \div 4 + 1
             hr == (r + 3) \div 4 + 1
             fr == r % 4
             Ir == Interpolated(xs, r)
             ls == s \div 4 + 1
             hs == (s + 3) \div 4 + 1
             fs == s % 4
             Is == Interpolated(xs, s)
  <1>1. /\ lr \in Nat /\ fr \in 0 .. 3 /\ r = 4 * (lr - 1) + fr
        /\ ls \in Nat /\ fs \in 0 .. 3 /\ s = 4 * (ls - 1) + fs
    BY Quarters
  <1>2. r <= 4 * (n - 1)
    OBVIOUS
  <1>3. /\ lr \in 1 .. n /\ hr \in 1 .. n /\ hr = (IF fr = 0 THEN lr ELSE lr + 1)
        /\ Ir \in Nat /\ 4 * xs[lr] <= Ir /\ Ir <= 4 * xs[hr]
        /\ Ir = 4 * xs[lr] + (xs[hr] - xs[lr]) * fr
    BY <1>2, InterpolatedBetween
  <1>4. /\ ls \in 1 .. n /\ hs \in 1 .. n /\ hs = (IF fs = 0 THEN ls ELSE ls + 1)
        /\ Is \in Nat /\ 4 * xs[ls] <= Is /\ Is <= 4 * xs[hs]
        /\ Is = 4 * xs[ls] + (xs[hs] - xs[ls]) * fs
    BY InterpolatedBetween
  <1> HIDE DEF lr, hr, fr, Ir, ls, hs, fs, Is
  <1>5. \A i \in 1 .. n : xs[i] \in Nat
    OBVIOUS
  <1>6. \A i, j \in 1 .. n : i <= j => xs[i] <= xs[j]
    BY DEF Ascending
  <1>7. CASE lr < ls
    <2>1. hr <= ls
      BY <1>1, <1>3, <1>7
    <2>2. xs[hr] <= xs[ls] /\ xs[hr] \in Nat /\ xs[ls] \in Nat
      BY <1>3, <1>4, <1>5, <1>6, <2>1
    <2> QED BY <1>3, <1>4, <2>2 DEF Ir, Is
  <1>8. CASE lr >= ls
    <2>1. lr = ls /\ fr <= fs
      BY <1>1, <1>8
    <2>2. CASE fr = 0
      <3>1. hr = ls /\ xs[ls] \in Nat
        BY <1>3, <1>4, <1>5, <2>1, <2>2
      <3> QED BY <1>3, <1>4, <3>1 DEF Ir, Is
    <2>3. CASE fr # 0
      <3> DEFINE a == xs[ls]
                 b == xs[hs]
      <3>1. fs # 0 /\ hr = hs /\ ls <= hs
        BY <1>1, <1>3, <1>4, <2>1, <2>3
      <3>2. a \in Nat /\ b \in Nat /\ a <= b
        BY <1>4, <1>5, <1>6, <3>1
      <3>3. Ir = 4 * a + (b - a) * fr /\ Is = 4 * a + (b - a) * fs
        BY <1>3, <1>4, <2>1, <3>1
      <3> DEFINE c == b - a
                 d == fs - fr
      <3>4. c \in Nat /\ d \in Nat /\ fs = fr + d
        BY <1>1, <2>1, <3>2
      <3>5. c * fs = c * fr + c * d /\ c * d \in Nat /\ c * fr \in Nat
        BY <1>1, <3>4
      <3> HIDE DEF a, b, c, d
      <3> DEFINE cr == c * fr
                 cs == c * fs
                 cd == c * d
      <3>6. Ir = 4 * a + cr /\ Is = 4 * a + cs
        BY <3>3 DEF c
      <3>7. cs = cr + cd /\ cd \in Nat /\ cr \in Nat
        BY <3>5
      <3> HIDE DEF cr, cs, cd
      <3> QED BY <3>2, <3>6, <3>7 DEF Ir, Is
    <2> QED BY <2>2, <2>3
  <1> QED BY <1>1, <1>7, <1>8

\* The percentiles come in their order, between the extremes.
LEMMA PercentilesOrdered ==
  ASSUME NEW n \in Nat \ {0}, NEW xs \in [1 .. n -> Nat], Ascending(xs)
  PROVE  /\ Percentile(xs, 1) \in Nat /\ Percentile(xs, 2) \in Nat /\ Percentile(xs, 3) \in Nat
         /\ 4 * xs[1] <= Percentile(xs, 1) /\ Percentile(xs, 1) <= Percentile(xs, 2)
         /\ Percentile(xs, 2) <= Percentile(xs, 3) /\ Percentile(xs, 3) <= 4 * xs[n]
  <1> DEFINE I(r) == Interpolated(xs, r)
  <1>1. \A q \in {1, 2, 3} : Percentile(xs, q) = I(q * (n - 1))
    BY PercentileInterpolates
  <1>2. \A q \in {0, 1, 2, 3, 4} : q * (n - 1) \in Nat /\ q * (n - 1) <= 4 * (n - 1)
    OBVIOUS
  <1>3. \A q \in {1, 2, 3} : I(q * (n - 1)) \in Nat
    BY <1>2, InterpolatedBetween
  <1>4. I(1 * (n - 1)) <= I(2 * (n - 1)) /\ I(2 * (n - 1)) <= I(3 * (n - 1))
    <2>1. 1 * (n - 1) <= 2 * (n - 1) /\ 2 * (n - 1) <= 3 * (n - 1)
      OBVIOUS
    <2> QED BY <1>2, <2>1, InterpolatedMonotone
  <1>5. 4 * xs[1] <= I(1 * (n - 1))
    <2> DEFINE lo == (1 * (n - 1)) \div 4 + 1
    <2>1. lo \in 1 .. n /\ 4 * xs[lo] <= I(1 * (n - 1))
      BY <1>2, InterpolatedBetween
    <2> HIDE DEF lo
    <2>2. xs[1] <= xs[lo] /\ xs[1] \in Nat /\ xs[lo] \in Nat
      BY <2>1 DEF Ascending
    <2> QED BY <1>3, <2>1, <2>2
  <1>6. I(3 * (n - 1)) <= 4 * xs[n]
    <2> DEFINE hi == (3 * (n - 1) + 3) \div 4 + 1
    <2>1. hi \in 1 .. n /\ I(3 * (n - 1)) <= 4 * xs[hi]
      BY <1>2, InterpolatedBetween
    <2> HIDE DEF hi
    <2>2. xs[hi] <= xs[n] /\ xs[n] \in Nat /\ xs[hi] \in Nat
      BY <2>1 DEF Ascending
    <2> QED BY <1>3, <2>1, <2>2
  <1> HIDE DEF I
  <1> QED BY <1>1, <1>3, <1>4, <1>5, <1>6

\* At least half of the elements are at most the median, and at least half are
\* at least the median: those up to and those from its rank.
LEMMA MedianHalves ==
  ASSUME NEW n \in Nat \ {0}, NEW xs \in [1 .. n -> Nat], Ascending(xs)
  PROVE  \E lo, hi \in 1 .. n :
            /\ 2 * lo >= n /\ 2 * (n - hi + 1) >= n
            /\ \A i \in 1 .. lo : 4 * xs[i] <= Percentile(xs, 2)
            /\ \A i \in hi .. n : 4 * xs[i] >= Percentile(xs, 2)
  <1> DEFINE r  == 2 * (n - 1)
             M  == Interpolated(xs, r)
             lo == r \div 4 + 1
             hi == (r + 3) \div 4 + 1
  <1>1. Percentile(xs, 2) = M
    BY PercentileInterpolates
  <1>2. r \in Nat /\ r <= 4 * (n - 1)
    OBVIOUS
  <1>3. /\ lo \in 1 .. n /\ hi \in 1 .. n /\ hi = (IF r % 4 = 0 THEN lo ELSE lo + 1)
        /\ M \in Nat /\ 4 * xs[lo] <= M /\ M <= 4 * xs[hi]
    BY <1>2, InterpolatedBetween
  <1>4. r % 4 \in 0 .. 3 /\ r = 4 * (lo - 1) + (r % 4)
    BY <1>2, Quarters
  <1> DEFINE f == r % 4
  <1> HIDE DEF M, lo, hi, f
  <1>5. 2 * lo >= n /\ 2 * (n - hi + 1) >= n
    <2>1. f \in 0 .. 3 /\ 2 * (n - 1) = 4 * (lo - 1) + f /\ hi = (IF f = 0 THEN lo ELSE lo + 1)
      BY <1>3, <1>4 DEF f
    <2>2. n \in Nat /\ lo \in Nat
      BY <1>3
    <2>3. f = 0 \/ f = 2
      BY <2>1, <2>2
    <2>4. CASE f = 0
      BY <2>1, <2>2, <2>4
    <2>5. CASE f = 2
      BY <2>1, <2>2, <2>5
    <2> QED BY <2>3, <2>4, <2>5
  <1>6. \A i \in 1 .. lo : 4 * xs[i] <= M
    BY <1>3 DEF Ascending
  <1>7. \A i \in hi .. n : 4 * xs[i] >= M
    BY <1>3 DEF Ascending
  <1> QED BY <1>1, <1>3, <1>5, <1>6, <1>7

-----------------------------------------------------------------------------
(* What the filters keep. *)

LEMMA DistanceNat ==
  ASSUME NEW x \in Nat, NEW y \in Nat
  PROVE  Distance(x, y) \in Nat
  BY DEF Distance

\* What lies within one MAD of the median.
Near(xs) == {x \in Nat : 4 * Distance(4 * x, Percentile(xs, 2)) <= Mad(xs)}

\* At least half of a sample lies within one MAD of its median.
LEMMA HalfNear ==
  ASSUME NEW n \in Nat \ {0}, NEW xs \in [1 .. n -> Nat], Ascending(xs)
  PROVE  Mad(xs) \in Nat /\ n <= 2 * Cardinality(Places(xs, Near(xs)))
  <1> DEFINE median == Percentile(xs, 2)
             devs   == [i \in DOMAIN xs |-> Distance(4 * xs[i], median)]
             sorted == Sorted(devs)
             K      == {d \in Nat : 4 * d <= Mad(xs)}
  <1>1. median \in Nat
    BY PercentilesOrdered
  <1>2. Mad(xs) = Percentile(sorted, 2)
    BY DEF Mad
  <1> HIDE DEF median
  <1>3. devs \in [1 .. n -> Nat]
    <2>1. \A i \in 1 .. n : 4 * xs[i] \in Nat
      OBVIOUS
    <2>2. \A i \in 1 .. n : Distance(4 * xs[i], median) \in Nat
      BY <1>1, <2>1, DistanceNat
    <2> QED BY <2>2
  <1> HIDE DEF devs
  <1>4. /\ sorted \in [1 .. n -> Nat] /\ Ascending(sorted)
        /\ Cardinality(Places(sorted, K)) = Cardinality(Places(devs, K))
    <2>1. Nat \in SUBSET Int
      OBVIOUS
    <2> QED BY <1>3, <2>1, SortedFacts
  <1> HIDE DEF sorted
  <1>5. Mad(xs) \in Nat
    BY <1>2, <1>4, PercentilesOrdered
  <1>6. PICK lo \in 1 .. n : 2 * lo >= n /\ \A i \in 1 .. lo : 4 * sorted[i] <= Mad(xs)
    BY <1>2, <1>4, MedianHalves
  <1>7. lo <= Cardinality(Places(sorted, K))
    <2>1. DOMAIN sorted = 1 .. n /\ 1 \in 1 .. n + 1 /\ lo \in 0 .. n
      BY <1>4
    <2>2. \A i \in 1 .. lo : sorted[i] \in K
      BY <1>4, <1>6
    <2> HIDE DEF K
    <2>3. lo - 1 + 1 <= Cardinality(Places(sorted, K))
      BY <2>1, <2>2, PlacesInterval
    <2> QED BY <2>3
  <1>8. Places(devs, K) = Places(xs, Near(xs))
    <2>1. DOMAIN devs = 1 .. n /\ DOMAIN xs = 1 .. n
      BY <1>3
    <2>2. \A i \in 1 .. n : devs[i] = Distance(4 * xs[i], median) /\ devs[i] \in Nat
      BY <1>3 DEF devs
    <2>3. \A i \in 1 .. n : devs[i] \in K <=> xs[i] \in Near(xs)
      BY <2>2 DEF Near, median
    <2> QED BY <2>1, <2>3 DEF Places
  <1>9. Cardinality(Places(sorted, K)) \in Nat
    <2>1. DOMAIN sorted = 1 .. n
      BY <1>4
    <2> QED BY <2>1, PlacesFinite
  <1>10. n <= 2 * Cardinality(Places(sorted, K))
    BY <1>6, <1>7, <1>9
  <1> QED BY <1>4, <1>5, <1>8, <1>10

\* What the fences let through.
InFences(xs) == {x \in Nat : 8 * x \in Fences(xs)}

LEMMA FencesOutside ==
  ASSUME NEW n \in Nat \ {0}, NEW xs \in [1 .. n -> Nat], Ascending(xs), NEW x \in Nat
  PROVE  x \in InFences(xs) <=>
           /\ 5 * Percentile(xs, 1) - 3 * Percentile(xs, 3) <= 8 * x
           /\ 8 * x <= 5 * Percentile(xs, 3) - 3 * Percentile(xs, 1)
  <1>1. Percentile(xs, 1) \in Nat /\ Percentile(xs, 3) \in Nat
    BY PercentilesOrdered
  <1> QED BY <1>1 DEF InFences, Fences

\* The fences keep at least half of the samples: those between the quartiles'
\* ranks, with the one just below when the lower quartile lies nearer to it.
LEMMA HalfInFences ==
  ASSUME NEW n \in Nat \ {0}, NEW xs \in [1 .. n -> Nat], Ascending(xs)
  PROVE  n <= 2 * Cardinality(Places(xs, InFences(xs)))
  <1> DEFINE m  == n - 1
             a  == m \div 4
             b  == m % 4
             c  == (3 * m) \div 4
             g  == (3 * m) % 4
             q1 == Percentile(xs, 1)
             q3 == Percentile(xs, 3)
             lo1 == a + 1
             hi1 == (m + 3) \div 4 + 1
             lo3 == c + 1
             hi3 == (3 * m + 3) \div 4 + 1
  <1>1. m \in Nat /\ 3 * m \in Nat /\ m <= 4 * (n - 1) /\ 3 * m <= 4 * (n - 1)
    OBVIOUS
  <1>2. /\ a \in Nat /\ b \in 0 .. 3 /\ m = 4 * a + b
        /\ c \in Nat /\ g \in 0 .. 3 /\ 3 * m = 4 * c + g
    BY <1>1, DivFour
  <1>3. q1 = Interpolated(xs, m) /\ q3 = Interpolated(xs, 3 * m)
    <2>1. 1 * (n - 1) = m
      OBVIOUS
    <2> QED BY <2>1, PercentileInterpolates
  <1>4. /\ lo1 \in 1 .. n /\ hi1 \in 1 .. n /\ hi1 = (IF b = 0 THEN lo1 ELSE lo1 + 1)
        /\ q1 <= 4 * xs[hi1] /\ q1 = 4 * xs[lo1] + (xs[hi1] - xs[lo1]) * b
    BY <1>1, <1>3, InterpolatedBetween
  <1>5. /\ lo3 \in 1 .. n /\ hi3 \in 1 .. n /\ hi3 = (IF g = 0 THEN lo3 ELSE lo3 + 1)
        /\ 4 * xs[lo3] <= q3 /\ q3 = 4 * xs[lo3] + (xs[hi3] - xs[lo3]) * g
    BY <1>1, <1>3, InterpolatedBetween
  <1>6. q1 \in Nat /\ q3 \in Nat /\ q1 <= q3
    BY PercentilesOrdered
  <1>7. \A i \in 1 .. n : xs[i] \in Nat
    OBVIOUS
  <1>8. \A i, j \in 1 .. n : i <= j => xs[i] <= xs[j]
    BY DEF Ascending
  <1>9. \A i \in 1 .. n : i \in Places(xs, InFences(xs)) <=>
            5 * q1 - 3 * q3 <= 8 * xs[i] /\ 8 * xs[i] <= 5 * q3 - 3 * q1
    BY FencesOutside DEF Places
  <1>10. n = m + 1
    OBVIOUS
  <1> HIDE DEF m, a, b, c, g, q1, q3, hi1, hi3
  <1>11. \A i \in 1 .. lo3 : i \in 1 .. n /\ 8 * xs[i] <= 5 * q3 - 3 * q1
    <2> SUFFICES ASSUME NEW i \in 1 .. lo3 PROVE i \in 1 .. n /\ 8 * xs[i] <= 5 * q3 - 3 * q1
      OBVIOUS
    <2>1. i \in 1 .. n /\ i <= lo3
      BY <1>5
    <2>2. xs[i] <= xs[lo3] /\ xs[i] \in Nat /\ xs[lo3] \in Nat
      BY <1>5, <1>7, <1>8, <2>1
    <2> QED BY <1>5, <1>6, <2>1, <2>2
  <1>12. ASSUME NEW k \in 1 .. n, 5 * q1 - 3 * q3 <= 8 * xs[k], 2 * (lo3 - k + 1) >= n
         PROVE  n <= 2 * Cardinality(Places(xs, InFences(xs)))
    <2>1. \A i \in k .. lo3 : xs[i] \in InFences(xs)
      <3> SUFFICES ASSUME NEW i \in k .. lo3 PROVE xs[i] \in InFences(xs)
        OBVIOUS
      <3>1. i \in 1 .. lo3 /\ k <= i /\ i \in 1 .. n
        BY <1>5
      <3>2. xs[k] <= xs[i] /\ xs[k] \in Nat /\ xs[i] \in Nat
        BY <1>7, <1>8, <3>1
      <3>3. 8 * xs[i] <= 5 * q3 - 3 * q1
        BY <1>11, <3>1
      <3>4. 5 * q1 - 3 * q3 <= 8 * xs[i]
        BY <1>6, <1>12, <3>2
      <3>5. i \in Places(xs, InFences(xs))
        BY <1>9, <3>1, <3>3, <3>4
      <3> QED BY <3>5 DEF Places
    <2>2. lo3 \in 0 .. n /\ k \in 1 .. n + 1 /\ DOMAIN xs = 1 .. n
      BY <1>5
    <2> HIDE DEF lo3
    <2> DEFINE K == InFences(xs)
    <2> HIDE DEF K
    <2>3. lo3 - k + 1 <= Cardinality(Places(xs, K))
      BY <2>1, <2>2, PlacesInterval DEF K
    <2>4. Cardinality(Places(xs, K)) \in Nat
      BY <2>2, PlacesFinite
    <2>5. n <= 2 * Cardinality(Places(xs, K))
      BY <1>12, <2>2, <2>3, <2>4
    <2> QED BY <2>5 DEF K
  <1>13. CASE b \in {0, 3}
    <2>1. 2 * (lo3 - hi1 + 1) >= n
      <3>1. CASE b = 0
        BY <1>2, <1>4, <1>10, <3>1
      <3>2. CASE b = 3
        BY <1>2, <1>4, <1>10, <3>2
      <3> QED BY <1>13, <3>1, <3>2
    <2>2. 5 * q1 - 3 * q3 <= 8 * xs[hi1]
      <3> DEFINE y == xs[hi1]
      <3>1. y \in Nat /\ q1 <= 4 * y
        BY <1>4, <1>7
      <3> HIDE DEF y
      <3>2. 5 * q1 - 3 * q3 <= 8 * y
        BY <1>6, <3>1
      <3> QED BY <3>2 DEF y
    <2> QED BY <1>4, <1>12, <2>1, <2>2
  <1>14. CASE b = 1
    <2>1. c = 3 * a /\ g = 3 /\ n = 4 * a + 2
      BY <1>2, <1>10, <1>14
    <2>2. 2 * (lo3 - lo1 + 1) >= n /\ lo1 <= lo3 /\ hi1 = lo1 + 1 /\ hi3 = lo3 + 1
      BY <1>2, <1>4, <1>5, <1>14, <2>1
    <2> HIDE DEF lo1, lo3
    <2> DEFINE x == xs[lo1]
               y == xs[hi1]
               u == xs[lo3]
               v == xs[hi3]
    <2>3. x \in Nat /\ y \in Nat /\ u \in Nat /\ v \in Nat
      BY <1>4, <1>5, <1>7
    <2>4. x <= u /\ y <= v /\ x <= y
      BY <1>4, <1>5, <1>8, <2>2
    <2>5. q1 = 4 * x + (y - x) * 1 /\ q3 = 4 * u + (v - u) * 3
      BY <1>4, <1>5, <1>14, <2>1
    <2> HIDE DEF x, y, u, v
    <2>6. 5 * q1 - 3 * q3 <= 8 * x
      BY <2>3, <2>4, <2>5
    <2> QED BY <1>4, <1>12, <2>2, <2>6 DEF x
  <1>15. CASE b = 2
    <2>1. c = 3 * a + 1 /\ g = 2 /\ n = 4 * a + 3
      BY <1>2, <1>10, <1>15
    <2>2. 2 * (lo3 - lo1 + 1) >= n /\ hi1 = lo1 + 1 /\ hi1 <= lo3
      BY <1>2, <1>4, <1>5, <1>15, <2>1
    <2> HIDE DEF lo1, lo3
    <2> DEFINE x == xs[lo1]
               y == xs[hi1]
               u == xs[lo3]
    <2>3. x \in Nat /\ y \in Nat /\ u \in Nat
      BY <1>4, <1>5, <1>7
    <2>4. y <= u /\ x <= y
      BY <1>4, <1>5, <1>8, <2>2
    <2>5. q1 = 4 * x + (y - x) * 2 /\ 4 * u <= q3
      BY <1>4, <1>5, <1>15
    <2> HIDE DEF x, y, u
    <2>6. 5 * q1 - 3 * q3 <= 8 * x
      BY <1>6, <2>3, <2>4, <2>5
    <2> QED BY <1>4, <1>12, <2>2, <2>6 DEF x
  <1> QED BY <1>2, <1>13, <1>14, <1>15

LEMMA SortedSeq ==
  ASSUME NEW ss \in Seq(Nat)
  PROVE  /\ Len(ss) \in Nat /\ ss \in [1 .. Len(ss) -> Nat] /\ DOMAIN ss = 1 .. Len(ss)
         /\ Sorted(ss) \in [1 .. Len(ss) -> Nat] /\ Ascending(Sorted(ss))
         /\ \A K : Cardinality(Places(Sorted(ss), K)) = Cardinality(Places(ss, K))
  <1> DEFINE n == Len(ss)
  <1>1. n \in Nat /\ ss \in [1 .. n -> Nat] /\ DOMAIN ss = 1 .. n
    OBVIOUS
  <1>2. Nat \in SUBSET Int
    OBVIOUS
  <1> HIDE DEF n
  <1>3. /\ Sorted(ss) \in [1 .. n -> Nat] /\ Ascending(Sorted(ss))
        /\ \A K : Cardinality(Places(Sorted(ss), K)) = Cardinality(Places(ss, K))
    BY <1>1, <1>2, SortedFacts
  <1> QED BY <1>1, <1>3 DEF n

\* A filter that lets through what lies in K, half of the sample, keeps half.
LEMMA WithinHalf ==
  ASSUME NEW ss \in Seq(Nat), ss # <<>>, NEW K, NEW L,
         Len(ss) <= 2 * Cardinality(Places(Sorted(ss), K)),
         \A x \in ToSet(ss) : x \in K => x \in L
  PROVE  /\ Within(ss, L) \in Seq(Nat) /\ Within(ss, L) # <<>>
         /\ Len(ss) <= 2 * Len(Within(ss, L))
         /\ \A x : x \in ToSet(Within(ss, L)) <=> x \in ToSet(ss) /\ x \in L
  <1> DEFINE n == Len(ss)
             A == Places(ss, K)
             B == Places(ss, L)
             w == Within(ss, L)
  <1>1. n \in Nat /\ DOMAIN ss = 1 .. n /\ n >= 1
    OBVIOUS
  <1>2. Cardinality(Places(Sorted(ss), K)) = Cardinality(A)
    BY SortedSeq
  <1>3. A \in SUBSET B
    BY DEF Places, ToSet
  <1>4. /\ w \in Seq(Nat) /\ Len(w) = Cardinality(B)
        /\ \A x : x \in ToSet(w) <=> x \in ToSet(ss) /\ x \in L
    BY WithinFacts
  <1>5. n <= 2 * Cardinality(A)
    BY <1>2
  <1> HIDE DEF n
  <1>6. IsFiniteSet(B) /\ Cardinality(B) \in Nat /\ Cardinality(A) \in Nat
    BY <1>1, PlacesFinite
  <1> HIDE DEF A, B, w
  <1>7. Cardinality(A) <= Cardinality(B)
    BY <1>3, <1>6, FS_Subset
  <1>8. n <= 2 * Len(w) /\ Len(w) # 0
    BY <1>1, <1>4, <1>5, <1>6, <1>7
  <1>9. w # <<>>
    BY <1>8
  <1> QED BY <1>4, <1>8, <1>9 DEF n, w

\* What goes: nothing, or what Tukey's fences or the MAD exclude.
Excluded(xs, filter) ==
    CASE filter = "None"  -> {}
      [] filter = "Tukey" -> {x \in Nat : x \notin InFences(xs)}
      [] filter = "Mad"   -> {x \in Nat : Mad(xs) # 0
                                /\ 40000 * Distance(4 * x, Percentile(xs, 2)) > 3 * 14826 * Mad(xs)}

\* Filtered lets through what is not excluded, and never falls back to all
\* samples.
LEMMA FilteredKeeps ==
  ASSUME NEW ss \in Seq(Nat), ss # <<>>, NEW filter \in {"None", "Tukey", "Mad"}
  PROVE  /\ Filtered(ss, filter) \in Seq(Nat) /\ Filtered(ss, filter) # <<>>
         /\ Len(ss) <= 2 * Len(Filtered(ss, filter))
         /\ \A x : x \in ToSet(Filtered(ss, filter)) <=>
                      x \in ToSet(ss) /\ x \notin Excluded(Sorted(ss), filter)
  <1> DEFINE n  == Len(ss)
             xs == Sorted(ss)
  <1>1. n \in Nat \ {0} /\ xs \in [1 .. n -> Nat] /\ Ascending(xs)
    <2>1. Len(ss) # 0
      OBVIOUS
    <2> QED BY <2>1, SortedSeq
  <1>2. \A x \in ToSet(ss) : x \in Nat
    BY DEF ToSet
  <1>3. CASE filter = "None"
    <2>1. Filtered(ss, filter) = ss
      BY <1>3 DEF Filtered
    <2>2. Len(ss) \in Nat /\ Excluded(xs, filter) = {}
      BY <1>3 DEF Excluded
    <2> QED BY <2>1, <2>2
  <1>4. CASE filter = "Tukey"
    <2> DEFINE L == {x \in ToSet(ss) : 8 * x \in Fences(xs)}
    <2>1. n <= 2 * Cardinality(Places(xs, InFences(xs)))
      BY <1>1, HalfInFences
    <2>2. \A x \in ToSet(ss) : x \in InFences(xs) <=> x \in L
      BY <1>2 DEF InFences
    <2>3. Filtered(ss, filter) = IF Within(ss, L) = <<>> THEN ss ELSE Within(ss, L)
      BY <1>4 DEF Filtered
    <2>4. \A x \in ToSet(ss) : x \notin Excluded(xs, filter) <=> x \in L
      BY <1>2, <1>4, <2>2 DEF Excluded
    <2> HIDE DEF L
    <2>5. /\ Within(ss, L) \in Seq(Nat) /\ Within(ss, L) # <<>>
          /\ Len(ss) <= 2 * Len(Within(ss, L))
          /\ \A x : x \in ToSet(Within(ss, L)) <=> x \in ToSet(ss) /\ x \in L
      BY <2>1, <2>2, WithinHalf
    <2> QED BY <2>3, <2>4, <2>5
  <1>5. CASE filter = "Mad"
    <2> DEFINE mad    == Mad(xs)
               median == Percentile(xs, 2)
               L      == {x \in ToSet(ss) : mad = 0 \/ 40000 * Distance(4 * x, median) <= 3 * 14826 * mad}
    <2>1. mad \in Nat /\ n <= 2 * Cardinality(Places(xs, Near(xs)))
      BY <1>1, HalfNear
    <2>2. median \in Nat
      BY <1>1, PercentilesOrdered
    <2>3. \A x \in ToSet(ss) : Distance(4 * x, median) \in Nat
      BY <1>2, <2>2 DEF Distance
    <2>4. \A x \in ToSet(ss) : x \in Near(xs) => x \in L
      <3> SUFFICES ASSUME NEW x \in ToSet(ss), x \in Near(xs) PROVE x \in L
        OBVIOUS
      <3> DEFINE d == Distance(4 * x, median)
      <3>1. d \in Nat /\ 4 * d <= mad
        BY <2>3 DEF Near
      <3> HIDE DEF d, mad
      <3>2. 40000 * d <= 3 * 14826 * mad
        BY <2>1, <3>1
      <3> QED BY <3>2 DEF d
    <2>5. Filtered(ss, filter) = IF Within(ss, L) = <<>> THEN ss ELSE Within(ss, L)
      BY <1>5 DEF Filtered
    <2>6. \A x \in ToSet(ss) : x \notin Excluded(xs, filter) <=> x \in L
      <3> SUFFICES ASSUME NEW x \in ToSet(ss) PROVE x \notin Excluded(xs, filter) <=> x \in L
        OBVIOUS
      <3> DEFINE e == 40000 * Distance(4 * x, median)
                 f == 3 * 14826 * mad
      <3>1. e \in Nat /\ f \in Nat
        BY <2>1, <2>3
      <3>2. x \in L <=> mad = 0 \/ e <= f
        OBVIOUS
      <3>3. x \in Excluded(xs, filter) <=> mad # 0 /\ e > f
        BY <1>2, <1>5 DEF Excluded
      <3> HIDE DEF e, f, L, mad
      <3> QED BY <3>1, <3>2, <3>3
    <2> HIDE DEF L
    <2>7. /\ Within(ss, L) \in Seq(Nat) /\ Within(ss, L) # <<>>
          /\ Len(ss) <= 2 * Len(Within(ss, L))
          /\ \A x : x \in ToSet(Within(ss, L)) <=> x \in ToSet(ss) /\ x \in L
      BY <2>1, <2>4, WithinHalf
    <2> QED BY <2>5, <2>6, <2>7
  <1> QED BY <1>3, <1>4, <1>5

\* What is excluded lies outside of what stays, and beyond the quartiles or the
\* MAD.
LEMMA ExcludedOutside ==
  ASSUME NEW n \in Nat \ {0}, NEW xs \in [1 .. n -> Nat], Ascending(xs),
         NEW filter \in {"None", "Tukey", "Mad"},
         NEW x \in Excluded(xs, filter), x \in Nat
  PROVE  /\ \A y, z \in Nat : y <= x /\ x <= z =>
               y \in Excluded(xs, filter) \/ z \in Excluded(xs, filter)
         /\ \/ filter = "Tukey" /\ (4 * x < Percentile(xs, 1) \/ 4 * x > Percentile(xs, 3))
            \/ filter = "Mad" /\ 4 * Distance(4 * x, Percentile(xs, 2)) > Mad(xs)
  <1>1. filter # "None"
    BY DEF Excluded
  <1>2. CASE filter = "Tukey"
    <2> DEFINE q1 == Percentile(xs, 1)
               q3 == Percentile(xs, 3)
    <2>1. q1 \in Nat /\ q3 \in Nat /\ q1 <= q3
      BY PercentilesOrdered
    <2>2. \A y \in Nat : y \in Excluded(xs, filter) <=>
             ~(5 * q1 - 3 * q3 <= 8 * y /\ 8 * y <= 5 * q3 - 3 * q1)
      BY <1>2, FencesOutside DEF Excluded
    <2> HIDE DEF q1, q3
    <2>3. 5 * q1 - 3 * q3 > 8 * x \/ 8 * x > 5 * q3 - 3 * q1
      BY <2>1, <2>2
    <2>4. ASSUME NEW y \in Nat, NEW z \in Nat, y <= x, x <= z
          PROVE  y \in Excluded(xs, filter) \/ z \in Excluded(xs, filter)
      <3>1. CASE 5 * q1 - 3 * q3 > 8 * x
        <4>1. ~(5 * q1 - 3 * q3 <= 8 * y)
          BY <2>1, <2>4, <3>1
        <4> QED BY <2>2, <4>1
      <3>2. CASE 8 * x > 5 * q3 - 3 * q1
        <4>1. ~(8 * z <= 5 * q3 - 3 * q1)
          BY <2>1, <2>4, <3>2
        <4> QED BY <2>2, <4>1
      <3> QED BY <2>3, <3>1, <3>2
    <2>5. 4 * x < q1 \/ 4 * x > q3
      BY <2>1, <2>3
    <2> QED BY <1>2, <2>4, <2>5 DEF q1, q3
  <1>3. CASE filter = "Mad"
    <2> DEFINE mad    == Mad(xs)
               median == Percentile(xs, 2)
               far(y) == 40000 * Distance(4 * y, median)
    <2>1. mad \in Nat /\ median \in Nat
      BY HalfNear, PercentilesOrdered
    <2>2. \A y \in Nat : y \in Excluded(xs, filter) <=> mad # 0 /\ far(y) > 3 * 14826 * mad
      BY <1>3 DEF Excluded
    <2> HIDE DEF mad, median
    <2>3. \A y \in Nat : Distance(4 * y, median) = IF 4 * y < median THEN median - 4 * y ELSE 4 * y - median
      BY DEF Distance
    <2>4. mad # 0 /\ far(x) > 3 * 14826 * mad
      BY <2>2
    <2>5. ASSUME NEW y \in Nat, NEW z \in Nat, y <= x, x <= z
          PROVE  y \in Excluded(xs, filter) \/ z \in Excluded(xs, filter)
      <3>1. CASE 4 * x < median
        <4>1. far(y) > 3 * 14826 * mad
          BY <2>1, <2>3, <2>4, <2>5, <3>1
        <4> QED BY <2>2, <2>4, <4>1
      <3>2. CASE 4 * x >= median
        <4>1. far(z) > 3 * 14826 * mad
          BY <2>1, <2>3, <2>4, <2>5, <3>2
        <4> QED BY <2>2, <2>4, <4>1
      <3> QED BY <2>1, <3>1, <3>2
    <2>6. 4 * Distance(4 * x, median) > mad
      <3> DEFINE d == Distance(4 * x, median)
      <3>1. d \in Nat /\ 40000 * d > 3 * 14826 * mad
        BY <2>1, <2>3, <2>4
      <3> HIDE DEF d
      <3>2. 4 * d > mad
        BY <2>1, <3>1
      <3> QED BY <3>2 DEF d
    <2> QED BY <1>3, <2>5, <2>6 DEF mad, median
  <1> QED BY <1>1, <1>2, <1>3

-----------------------------------------------------------------------------
(* The mean, the median and the standard deviation. *)

LEMMA SquareNat ==
  ASSUME NEW t \in Int
  PROVE  t * t \in Nat
  <1>1. CASE t >= 0
    BY <1>1
  <1>2. CASE t < 0
    <2>1. 0 - t \in Nat /\ t * t = (0 - t) * (0 - t)
      BY <1>2
    <2> QED BY <2>1
  <1> QED BY <1>1, <1>2

LEMMA SquareMonotone ==
  ASSUME NEW w \in Int, NEW t \in Int,
         (t >= 0 /\ w >= 2 * t) \/ (t <= 0 /\ w <= 2 * t)
  PROVE  4 * (t * t) <= w * w
  <1>1. CASE t >= 0 /\ w >= 2 * t
    <2> DEFINE r == w - 2 * t
    <2>1. r \in Nat /\ w = r + 2 * t /\ t \in Nat
      BY <1>1
    <2> HIDE DEF r
    <2>2. w * w = r * r + 4 * (r * t) + 4 * (t * t)
      BY <2>1
    <2>3. r * r \in Nat /\ r * t \in Nat /\ t * t \in Nat
      BY <2>1
    <2> QED BY <2>2, <2>3
  <1>2. CASE t <= 0 /\ w <= 2 * t
    <2> DEFINE r == 2 * t - w
               s == 0 - t
    <2>1. r \in Nat /\ s \in Nat /\ w = 0 - (r + 2 * s) /\ t = 0 - s
      BY <1>2
    <2> HIDE DEF r, s
    <2>2. w * w = r * r + 4 * (r * s) + 4 * (s * s) /\ t * t = s * s
      BY <2>1
    <2>3. r * r \in Nat /\ r * s \in Nat /\ s * s \in Nat
      BY <2>1
    <2> QED BY <2>2, <2>3
  <1> QED BY <1>1, <1>2

\* Deviations d that sum up to 0, of which half (those from a to b) lie at
\* least t off on t's side, have squares that sum up to n * t * t or more, in
\* sixteenths.
LEMMA DeviationsBound ==
  ASSUME NEW n \in Nat \ {0}, NEW d \in [1 .. n -> Int], NEW t \in Int,
         NEW u \in [0 .. n -> Int], NEW q \in [0 .. n -> Int],
         u[0] = 0, q[0] = 0, u[n] = 0,
         \A k \in 0 .. n - 1 : u[k + 1] = u[k] + d[k + 1]
                                 /\ q[k + 1] = q[k] + d[k + 1] * d[k + 1],
         NEW a \in 1 .. n, NEW b \in 1 .. n, 2 * (b - a + 1) >= n,
         \A i \in a .. b : 4 * (t * t) <= (4 * d[i] + t) * (4 * d[i] + t)
  PROVE  n * (t * t) <= 16 * q[n]
  <1> DEFINE tt   == t * t
             C(k) == IF k < a THEN 0 ELSE IF k <= b THEN k - a + 1 ELSE b - a + 1
             P(k) == 16 * q[k] + 8 * (t * u[k]) + k * tt
             T    == {k \in Nat : k <= n => 4 * (C(k) * tt) <= P(k)}
  <1>1. tt \in Nat
    BY SquareNat
  <1>2. a <= b
    OBVIOUS
  <1>3. 0 \in T
    <2>1. C(0) = 0 /\ P(0) = 0
      <3>1. C(0) = 0
        OBVIOUS
      <3> DEFINE tu == t * u[0]
                 zt == 0 * tt
      <3>2. tu = 0 /\ zt = 0 /\ q[0] = 0
        <4> HIDE DEF tt
        <4> QED BY <1>1
      <3>3. P(0) = 16 * q[0] + 8 * tu + zt
        <4> HIDE DEF tt
        <4> QED OBVIOUS
      <3> HIDE DEF tu, zt, P
      <3> QED BY <3>1, <3>2, <3>3
    <2>2. C(0) * tt = 0
      BY <1>1, <2>1
    <2>3. 4 * (C(0) * tt) <= P(0)
      <3> HIDE DEF C, P, tt
      <3> QED BY <2>1, <2>2
    <2> HIDE DEF C, P, tt
    <2> QED BY <2>3
  <1>4. ASSUME NEW k \in Nat, k \in T PROVE k + 1 \in T
    <2> SUFFICES ASSUME k + 1 <= n PROVE 4 * (C(k + 1) * tt) <= P(k + 1)
      OBVIOUS
    <2>0. k \in 0 .. n - 1 /\ k + 1 \in 1 .. n /\ k \in 0 .. n /\ k + 1 \in 0 .. n
      OBVIOUS
    <2> DEFINE x  == d[k + 1]
               w  == 4 * x + t
               uk == u[k]
               qk == q[k]
    <2>1. x \in Int /\ uk \in Int /\ qk \in Int /\ w \in Int
      BY <2>0
    <2>2. u[k + 1] = uk + x /\ q[k + 1] = qk + x * x
      BY <2>0
    <2>3. 4 * (C(k) * tt) <= P(k)
      BY <1>4
    <2> DEFINE ck == C(k)
               cn == C(k + 1)
    <2>4. /\ ck \in Nat /\ cn \in Nat
          /\ cn = ck \/ (cn = ck + 1 /\ k + 1 \in a .. b)
      BY <1>2
    <2>5. P(k) = 16 * qk + 8 * (t * uk) + k * tt
      OBVIOUS
    <2>6. P(k + 1) = 16 * (qk + x * x) + 8 * (t * (uk + x)) + (k + 1) * tt
      BY <2>2
    <2>7. k + 1 \in a .. b => 4 * tt <= w * w
      OBVIOUS
    <2>8. 4 * (ck * tt) <= P(k)
      BY <2>3
    <2> DEFINE Pk == P(k)
               Pn == P(k + 1)
    <2>9. 4 * (ck * tt) <= Pk /\ Pk = 16 * qk + 8 * (t * uk) + k * tt
            /\ Pn = 16 * (qk + x * x) + 8 * (t * (uk + x)) + (k + 1) * tt
      BY <2>5, <2>6, <2>8
    <2> HIDE DEF Pk, Pn, P, C, ck, cn, uk, qk
    <2>10. Pn = Pk + w * w
      <3> HIDE DEF x
      <3>1. w * w = 16 * (x * x) + 8 * (t * x) + tt
        BY <2>1
      <3>2. t * (uk + x) = t * uk + t * x
        BY <2>1
      <3> HIDE DEF w, tt
      <3>3. (k + 1) * tt = k * tt + tt
        BY <1>1
      <3> DEFINE ww == w * w
                 xx == x * x
                 tx == t * x
                 tu == t * uk
                 ts == t * (uk + x)
                 kt == k * tt
                 kn == (k + 1) * tt
      <3>4. /\ ww = 16 * xx + 8 * tx + tt /\ ts = tu + tx /\ kn = kt + tt
            /\ Pk = 16 * qk + 8 * tu + kt /\ Pn = 16 * (qk + xx) + 8 * ts + kn
        BY <2>9, <3>1, <3>2, <3>3
      <3>5. xx \in Int /\ tx \in Int /\ tu \in Int /\ kt \in Int
        BY <1>1, <2>1
      <3> HIDE DEF ww, xx, tx, tu, ts, kt, kn
      <3>6. Pn = Pk + ww
        BY <1>1, <2>1, <3>4, <3>5
      <3> QED BY <3>6 DEF ww
    <2>11. w * w \in Nat
      <3> HIDE DEF w
      <3> QED BY <2>1, SquareNat
    <2> DEFINE ww == w * w
               ct == ck * tt
               nt == cn * tt
    <2>12. Pn = Pk + ww /\ ww \in Nat /\ 4 * ct <= Pk /\ (k + 1 \in a .. b => 4 * tt <= ww)
      BY <2>7, <2>9, <2>10, <2>11
    <2>13. ct \in Nat /\ (cn = ck => nt = ct) /\ (cn = ck + 1 => nt = ct + tt)
      <3> HIDE DEF tt
      <3> QED BY <1>1, <2>4
    <2>14. Pk \in Int
      <3> HIDE DEF tt
      <3> QED BY <1>1, <2>1, <2>9
    <2> HIDE DEF ww, ct, nt, tt, w
    <2>15. 4 * nt <= Pn
      BY <1>1, <2>4, <2>12, <2>13, <2>14
    <2> QED BY <2>15 DEF nt, cn, Pn
  <1>5. n \in T
    <2> HIDE DEF T
    <2> QED BY <1>3, <1>4, Induction
  <1> DEFINE cn == C(n)
  <1>6. 4 * (cn * tt) <= P(n) /\ cn = b - a + 1
    <2>1. cn = b - a + 1
      BY <1>2
    <2>2. 4 * (C(n) * tt) <= P(n)
      <3> HIDE DEF P, C, tt
      <3> QED BY <1>5
    <2> QED BY <2>1, <2>2
  <1>7. P(n) = 16 * q[n] + n * tt
    <2> DEFINE tu == t * u[n]
               nt == n * tt
    <2>1. tu = 0 /\ q[n] \in Int /\ P(n) = 16 * q[n] + 8 * tu + nt
      OBVIOUS
    <2>2. nt \in Int
      <3> HIDE DEF tt
      <3> QED BY <1>1
    <2> HIDE DEF tu, nt, P
    <2>3. P(n) = 16 * q[n] + nt
      BY <2>1, <2>2
    <2> QED BY <2>3 DEF nt
  <1> DEFINE ct == cn * tt
             nt == n * tt
             Q  == q[n]
             m  == 2 * cn - n
  <1>8. m \in Nat /\ cn \in Nat /\ 2 * cn = n + m
    BY <1>2, <1>6
  <1> HIDE DEF cn, tt, P
  <1>9. 2 * ct = nt + m * tt /\ m * tt \in Nat /\ nt \in Nat /\ ct \in Nat
    <2> HIDE DEF m
    <2>1. (2 * cn) * tt = (n + m) * tt
      BY <1>8
    <2>2. (2 * cn) * tt = 2 * (cn * tt) /\ (n + m) * tt = n * tt + m * tt
      BY <1>1, <1>8
    <2> QED BY <1>1, <1>8, <2>1, <2>2
  <1> DEFINE mt == m * tt
  <1>10. 4 * ct <= 16 * Q + nt /\ Q \in Int
    BY <1>6, <1>7
  <1>11. 2 * ct = nt + mt /\ mt \in Nat
    BY <1>9
  <1> HIDE DEF ct, nt, Q, m, mt
  <1>12. nt <= 16 * Q
    BY <1>9, <1>10, <1>11
  <1> QED BY <1>12 DEF nt, tt, Q

\* The mean lies within the extremes.
LEMMA TotalBetween ==
  ASSUME NEW n \in Nat \ {0}, NEW xs \in [1 .. n -> Nat], Ascending(xs)
  PROVE  Total(xs) \in Nat /\ n * xs[1] <= Total(xs) /\ Total(xs) <= n * xs[n]
  <1>1. xs \in [1 .. n -> Int] /\ n \in Nat
    OBVIOUS
  <1>2. PICK sum \in [0 .. n -> Int] :
            /\ sum[0] = 0
            /\ \A k \in 0 .. n - 1 : sum[k + 1] = sum[k] + xs[k + 1]
            /\ Total(xs) = sum[n]
    BY <1>1, TotalFacts
  <1> DEFINE a == xs[1]
             z == xs[n]
             T == {k \in Nat : k <= n => k * a <= sum[k] /\ sum[k] <= k * z}
  <1>3. a \in Nat /\ z \in Nat
    OBVIOUS
  <1>4. \A i \in 1 .. n : xs[i] \in Nat /\ a <= xs[i] /\ xs[i] <= z
    BY DEF Ascending
  <1> HIDE DEF a, z
  <1>5. 0 \in T
    BY <1>2, <1>3
  <1>6. ASSUME NEW k \in Nat, k \in T PROVE k + 1 \in T
    <2> SUFFICES ASSUME k + 1 <= n PROVE (k + 1) * a <= sum[k + 1] /\ sum[k + 1] <= (k + 1) * z
      OBVIOUS
    <2>1. k \in 0 .. n - 1 /\ k + 1 \in 1 .. n /\ k \in 0 .. n /\ k <= n
      OBVIOUS
    <2>2. k * a <= sum[k] /\ sum[k] <= k * z
      BY <1>6, <2>1
    <2> DEFINE s  == sum[k]
               x  == xs[k + 1]
               ka == k * a
               kz == k * z
    <2>3. s \in Int /\ sum[k + 1] = s + x /\ x \in Nat /\ a <= x /\ x <= z
      BY <1>2, <1>4, <2>1
    <2>4. ka \in Nat /\ kz \in Nat /\ (k + 1) * a = ka + a /\ (k + 1) * z = kz + z
      BY <1>3
    <2>5. ka <= s /\ s <= kz
      BY <2>2
    <2> HIDE DEF s, x, ka, kz
    <2> QED BY <1>3, <2>3, <2>4, <2>5
  <1>7. n \in T
    <2> HIDE DEF T
    <2> QED BY <1>5, <1>6, Induction
  <1>8. n * a <= sum[n] /\ sum[n] <= n * z /\ sum[n] \in Int /\ n * a \in Nat
    BY <1>3, <1>7
  <1> QED BY <1>2, <1>8 DEF a, z

\* Multiplying by a natural number keeps the order.
LEMMA FourTimes ==
  ASSUME NEW n \in Nat, NEW x \in Int, NEW m \in Int
  PROVE  /\ 4 * x >= m => 4 * (n * x) >= n * m
         /\ 4 * x <= m => 4 * (n * x) <= n * m
  <1>1. n * (4 * x) = 4 * (n * x) /\ n * (4 * x - m) = n * (4 * x) - n * m
    BY Z3
  <1>2. ASSUME 4 * x >= m PROVE 4 * (n * x) >= n * m
    <2> DEFINE e == 4 * x - m
    <2>1. e \in Nat
      BY <1>2
    <2> HIDE DEF e
    <2>2. n * e \in Nat
      BY <2>1
    <2> DEFINE p == n * e
               nx == n * x
               nm == n * m
    <2>3. p = 4 * nx - nm /\ nx \in Int /\ nm \in Int
      BY <1>1 DEF e
    <2> HIDE DEF p, nx, nm
    <2>4. p \in Nat
      BY <2>2 DEF p
    <2>5. 4 * nx >= nm
      BY <2>3, <2>4
    <2> QED BY <2>5 DEF nx, nm
  <1>3. ASSUME 4 * x <= m PROVE 4 * (n * x) <= n * m
    <2> DEFINE e == m - 4 * x
    <2>1. e \in Nat
      BY <1>3
    <2> HIDE DEF e
    <2>2. n * e \in Nat
      BY <2>1
    <2> DEFINE p == n * e
               nx == n * x
               nm == n * m
    <2>3. n * (m - 4 * x) = n * m - n * (4 * x)
      BY Z3
    <2>4. p = nm - 4 * nx /\ nx \in Int /\ nm \in Int
      BY <1>1, <2>3 DEF e
    <2> HIDE DEF p, nx, nm
    <2>5. p \in Nat
      BY <2>2 DEF p
    <2>6. 4 * nx <= nm
      BY <2>4, <2>5
    <2> QED BY <2>6 DEF nx, nm
  <1> QED BY <1>2, <1>3

\* The median lies within one standard deviation of the mean.
LEMMA MedianNearMean ==
  ASSUME NEW n \in Nat \ {0}, NEW xs \in [1 .. n -> Nat], Ascending(xs)
  PROVE  LET gap == n * Percentile(xs, 2) - 4 * Total(xs)
         IN  /\ gap \in Int /\ SquaredDeviations(xs) \in Int
             /\ n * (gap * gap) <= 16 * SquaredDeviations(xs)
  <1> DEFINE S  == Total(xs)
             M  == Percentile(xs, 2)
             t  == n * M - 4 * S
             d  == [i \in 1 .. n |-> n * xs[i] - S]
             sq == [i \in 1 .. n |-> d[i] * d[i]]
  <1>1. xs \in [1 .. n -> Int] /\ n \in Nat
    OBVIOUS
  <1>2. PICK sum \in [0 .. n -> Int] :
            /\ sum[0] = 0
            /\ \A k \in 0 .. n - 1 : sum[k + 1] = sum[k] + xs[k + 1]
            /\ S = sum[n]
    BY <1>1, TotalFacts
  <1>3. S \in Int
    BY <1>2
  <1>4. M \in Nat
    BY PercentilesOrdered
  <1>5. SquaredDeviations(xs) = Total(sq)
    <2>1. Len(xs) = n /\ DOMAIN xs = 1 .. n
      BY LenOf
    <2>2. SquaredDeviations(xs) = Total([i \in DOMAIN xs |-> (n * xs[i] - S) * (n * xs[i] - S)])
      BY <2>1 DEF SquaredDeviations
    <2>3. sq = [i \in 1 .. n |-> (n * xs[i] - S) * (n * xs[i] - S)]
      OBVIOUS
    <2> QED BY <2>1, <2>2, <2>3
  <1> HIDE DEF S, M
  <1>6. d \in [1 .. n -> Int] /\ t \in Int
    BY <1>3, <1>4
  <1> HIDE DEF t, d
  <1>7. sq \in [1 .. n -> Int]
    BY <1>6
  <1>8. PICK q \in [0 .. n -> Int] :
            /\ q[0] = 0
            /\ \A k \in 0 .. n - 1 : q[k + 1] = q[k] + sq[k + 1]
            /\ Total(sq) = q[n]
    <2> HIDE DEF sq
    <2> QED BY <1>1, <1>7, TotalFacts
  <1> DEFINE u == [k \in 0 .. n |-> n * sum[k] - k * S]
  <1>9. u \in [0 .. n -> Int] /\ u[0] = 0 /\ u[n] = 0
    <2>1. u \in [0 .. n -> Int]
      BY <1>2, <1>3
    <2>2. n * sum[0] = 0 /\ 0 * S = 0
      BY <1>2, <1>3
    <2>3. n * sum[n] \in Int /\ n * sum[n] = n * S
      BY <1>2, <1>3
    <2> QED BY <2>1, <2>2, <2>3
  <1>10. ASSUME NEW k \in 0 .. n - 1
         PROVE  u[k + 1] = u[k] + d[k + 1] /\ q[k + 1] = q[k] + d[k + 1] * d[k + 1]
    <2>1. k \in 0 .. n /\ k + 1 \in 0 .. n /\ k + 1 \in 1 .. n /\ k \in Nat
      OBVIOUS
    <2>2. q[k + 1] = q[k] + d[k + 1] * d[k + 1]
      <3>1. sq[k + 1] = d[k + 1] * d[k + 1]
        BY <2>1
      <3>2. q[k + 1] = q[k] + sq[k + 1]
        BY <1>8
      <3> HIDE DEF sq
      <3> QED BY <3>1, <3>2
    <2> DEFINE s == sum[k]
               x == xs[k + 1]
    <2>3. s \in Int /\ x \in Int /\ sum[k + 1] = s + x
      BY <1>1, <1>2, <2>1
    <2>4. u[k + 1] = n * (s + x) - (k + 1) * S /\ u[k] = n * s - k * S /\ d[k + 1] = n * x - S
      BY <2>1, <2>3 DEF d
    <2> HIDE DEF s, x, u
    <2>5. n * (s + x) = n * s + n * x /\ (k + 1) * S = k * S + S
      BY <1>3, <2>1, <2>3
    <2> DEFINE ns == n * s
               nx == n * x
               kS == k * S
    <2>6. ns \in Int /\ nx \in Int /\ kS \in Int
      BY <1>3, <2>1, <2>3
    <2> DEFINE nn == n * (s + x)
               kn == (k + 1) * S
    <2>7. /\ u[k + 1] = nn - kn /\ u[k] = ns - kS /\ d[k + 1] = nx - S
          /\ nn = ns + nx /\ kn = kS + S
      BY <2>4, <2>5
    <2> HIDE DEF ns, nx, kS, nn, kn
    <2>8. u[k + 1] = u[k] + d[k + 1]
      BY <1>3, <2>6, <2>7
    <2> QED BY <2>2, <2>8
  <1> HIDE DEF u
  <1>11. PICK lo \in 1 .. n, hi \in 1 .. n :
            /\ 2 * lo >= n /\ 2 * (n - hi + 1) >= n
            /\ \A i \in 1 .. lo : 4 * xs[i] <= M
            /\ \A i \in hi .. n : 4 * xs[i] >= M
    BY MedianHalves DEF M
  <1>12. ASSUME NEW i \in 1 .. n
         PROVE  /\ d[i] \in Int
                /\ 4 * xs[i] >= M => 4 * d[i] + t >= 2 * t
                /\ 4 * xs[i] <= M => 4 * d[i] + t <= 2 * t
    <2> DEFINE x  == xs[i]
               nx == n * x
               nM == n * M
    <2>1. x \in Nat /\ d[i] = nx - S /\ t = nM - 4 * S
      BY DEF d, t
    <2>2. 4 * x >= M => 4 * nx >= nM
      <3> HIDE DEF x
      <3> QED BY <1>1, <1>4, <2>1, FourTimes
    <2>3. 4 * x <= M => 4 * nx <= nM
      <3> HIDE DEF x
      <3> QED BY <1>1, <1>4, <2>1, FourTimes
    <2>4. nx \in Int /\ nM \in Int
      BY <1>1, <1>4, <2>1
    <2> HIDE DEF nx, nM
    <2> QED BY <1>3, <2>1, <2>2, <2>3, <2>4
  <1>13. n * (t * t) <= 16 * q[n]
    <2>1. CASE t >= 0
      <3>1. \A i \in hi .. n : 4 * (t * t) <= (4 * d[i] + t) * (4 * d[i] + t)
        <4> SUFFICES ASSUME NEW i \in hi .. n PROVE 4 * (t * t) <= (4 * d[i] + t) * (4 * d[i] + t)
          OBVIOUS
        <4>1. i \in 1 .. n /\ 4 * xs[i] >= M
          BY <1>11
        <4> DEFINE e == d[i]
                   w == 4 * e + t
        <4>2. e \in Int /\ w >= 2 * t
          BY <1>12, <4>1, Zenon
        <4> HIDE DEF e
        <4>4. w \in Int
          BY <1>6, <4>2
        <4>5. w = 4 * d[i] + t
          BY DEF e
        <4> HIDE DEF w
        <4>3. 4 * (t * t) <= w * w
          BY <1>6, <2>1, <4>2, <4>4, SquareMonotone
        <4> QED BY <4>3, <4>5
      <3>2. n \in 1 .. n
        OBVIOUS
      <3> QED BY <1>6, <1>8, <1>9, <1>10, <1>11, <3>1, <3>2, DeviationsBound
    <2>2. CASE t <= 0
      <3>1. \A i \in 1 .. lo : 4 * (t * t) <= (4 * d[i] + t) * (4 * d[i] + t)
        <4> SUFFICES ASSUME NEW i \in 1 .. lo PROVE 4 * (t * t) <= (4 * d[i] + t) * (4 * d[i] + t)
          OBVIOUS
        <4>1. i \in 1 .. n /\ 4 * xs[i] <= M
          BY <1>11
        <4> DEFINE e == d[i]
                   w == 4 * e + t
        <4>2. e \in Int /\ w <= 2 * t
          BY <1>12, <4>1, Zenon
        <4> HIDE DEF e
        <4>4. w \in Int
          BY <1>6, <4>2
        <4>5. w = 4 * d[i] + t
          BY DEF e
        <4> HIDE DEF w
        <4>3. 4 * (t * t) <= w * w
          BY <1>6, <2>2, <4>2, <4>4, SquareMonotone
        <4> QED BY <4>3, <4>5
      <3>2. 1 \in 1 .. n /\ 2 * (lo - 1 + 1) >= n
        BY <1>11
      <3> QED BY <1>6, <1>8, <1>9, <1>10, <1>11, <3>1, <3>2, DeviationsBound
    <2> QED BY <1>6, <2>1, <2>2
  <1>14. q[n] \in Int
    BY <1>1
  <1> QED BY <1>5, <1>6, <1>8, <1>13, <1>14 DEF t, S, M

-----------------------------------------------------------------------------

\* What the filter keeps of the samples of a finished measurement.
LEMMA FilterKeepsMiddle ==
  ASSUME samples \in Seq(Nat), samples # <<>>,
         cfg.outlier_filter \in {"None", "Tukey", "Mad"}
  PROVE  MiddleKept
  <1> DEFINE n    == Len(samples)
             xs   == Sorted(samples)
             F    == cfg.outlier_filter
             keep == Filtered(samples, F)
             out  == Excluded(xs, F)
  <1>1. n \in Nat \ {0} /\ xs \in [1 .. n -> Nat] /\ Ascending(xs)
    <2>1. Len(samples) # 0
      OBVIOUS
    <2> QED BY <2>1, SortedSeq
  <1>2. /\ keep \in Seq(Nat) /\ n <= 2 * Len(keep)
        /\ \A x : x \in ToSet(keep) <=> x \in ToSet(samples) /\ x \notin out
    BY FilteredKeeps
  <1>3. \A x \in ToSet(samples) : x \in Nat
    BY DEF ToSet
  <1>4. BenchResult.kept = keep /\ BenchResult.outliers_removed = n - Len(keep)
    BY DEF BenchResult
  <1>5. Len(keep) \in Nat
    BY <1>2
  <1>6. ASSUME NEW x \in ToSet(samples) \ ToSet(keep)
        PROVE  /\ ~(\E y, z \in ToSet(keep) : y <= x /\ x <= z)
               /\ \/ F = "Tukey" /\ (4 * x < Percentile(xs, 1) \/ 4 * x > Percentile(xs, 3))
                  \/ F = "Mad" /\ 4 * Distance(4 * x, Percentile(xs, 2)) > Mad(xs)
    <2>1. x \in out /\ x \in Nat
      BY <1>2, <1>3
    <2>2. \A y \in ToSet(keep) : y \in Nat /\ y \notin out
      BY <1>2, <1>3
    <2> HIDE DEF n, xs, keep
    <2> QED BY <1>1, <2>1, <2>2, ExcludedOutside
  <1>7. 2 * Len(keep) >= n /\ Len(keep) + (n - Len(keep)) = n
    BY <1>1, <1>2, <1>5
  <1> HIDE DEF n, keep
  <1> QED BY <1>4, <1>6, <1>7 DEF MiddleKept, n

\* The statistics of any samples.
LEMMA StatisticsFacts ==
  ASSUME NEW ss \in Seq(Nat), ss # <<>>
  PROVE  LET s    == FromSamples(ss)
             near == {i \in DOMAIN ss : 4 * Distance(4 * ss[i], s.median) <= s.mad}
             gap  == s.n * s.median - 4 * s.sum
         IN  /\ 4 * s.min <= s.p25 /\ s.p25 <= s.median
             /\ s.median <= s.p75 /\ s.p75 <= 4 * s.max
             /\ s.n * s.min <= s.sum /\ s.sum <= s.n * s.max
             /\ 2 * Cardinality(near) >= s.n
             /\ s.n > 1 => (s.n - 1) * gap * gap <= 16 * s.squares
  <1> DEFINE n  == Len(ss)
             xs == Sorted(ss)
             s  == FromSamples(ss)
             M  == Percentile(xs, 2)
             t  == n * M - 4 * Total(xs)
             Q  == SquaredDeviations(xs)
             near == {i \in DOMAIN ss : 4 * Distance(4 * ss[i], s.median) <= s.mad}
  <1>1. /\ n \in Nat \ {0} /\ xs \in [1 .. n -> Nat] /\ Ascending(xs)
        /\ Cardinality(Places(xs, Near(xs))) = Cardinality(Places(ss, Near(xs)))
    <2>1. Len(ss) # 0
      OBVIOUS
    <2> QED BY <2>1, SortedSeq
  <1>2. Len(xs) = n /\ DOMAIN xs = 1 .. n /\ xs \in Seq(Nat)
    <2> HIDE DEF xs, n
    <2> QED BY <1>1, LenOf
  <1>3. Head(xs) = xs[1] /\ Last(xs) = xs[n]
    <2> HIDE DEF xs
    <2> QED BY <1>1, <1>2 DEF Last
  <1>4. /\ s.n = n /\ s.sum = Total(xs) /\ s.min = xs[1] /\ s.max = xs[n]
        /\ s.p25 = Percentile(xs, 1) /\ s.median = M /\ s.p75 = Percentile(xs, 3)
        /\ s.mad = Mad(xs) /\ s.squares = Q
    BY <1>2, <1>3 DEF FromSamples
  <1> HIDE DEF s
  <1>5. near = Places(ss, Near(xs))
    <2>1. \A i \in DOMAIN ss : ss[i] \in Nat
      OBVIOUS
    <2> QED BY <1>4, <2>1 DEF Places, Near
  <1> HIDE DEF xs, near
  <1>6. n <= 2 * Cardinality(near) /\ Cardinality(near) \in Nat
    <2>1. IsFiniteSet(Places(ss, Near(xs))) /\ Cardinality(Places(ss, Near(xs))) \in Nat
      <3>1. DOMAIN ss = 1 .. n
        OBVIOUS
      <3> HIDE DEF n
      <3> QED BY <1>1, <3>1, PlacesFinite
    <2>2. n <= 2 * Cardinality(Places(xs, Near(xs)))
      <3> HIDE DEF n
      <3> QED BY <1>1, HalfNear
    <2> QED BY <1>1, <1>5, <2>1, <2>2
  <1> HIDE DEF n
  <1>7. /\ 4 * xs[1] <= Percentile(xs, 1) /\ Percentile(xs, 1) <= M
        /\ M <= Percentile(xs, 3) /\ Percentile(xs, 3) <= 4 * xs[n]
    BY <1>1, PercentilesOrdered
  <1>8. n * xs[1] <= Total(xs) /\ Total(xs) <= n * xs[n]
    BY <1>1, TotalBetween
  <1>9. t \in Int /\ Q \in Int /\ n * (t * t) <= 16 * Q
    BY <1>1, MedianNearMean
  <1> HIDE DEF t, Q
  <1>10. (n - 1) * t * t <= 16 * Q
    <2> DEFINE tt == t * t
    <2>1. tt \in Nat
      BY <1>9, SquareNat
    <2>2. (n - 1) * t * t = (n - 1) * tt
      BY <1>1, <1>9
    <2> HIDE DEF tt
    <2>3. (n - 1) * tt = n * tt - tt /\ n * tt \in Int
      BY <1>1, <2>1
    <2> DEFINE nt == n * tt
    <2>4. nt <= 16 * Q
      BY <1>9 DEF tt
    <2>5. (n - 1) * tt = nt - tt /\ nt \in Int
      BY <2>3
    <2> HIDE DEF nt
    <2>6. (n - 1) * tt <= 16 * Q
      BY <1>9, <2>1, <2>4, <2>5
    <2> QED BY <2>2, <2>6
  <1>11. s.n * s.median - 4 * s.sum = t
    BY <1>4 DEF t
  <1>12. s.n > 1 => (s.n - 1) * t * t <= 16 * s.squares
    BY <1>4, <1>10
  <1>13. 2 * Cardinality(near) >= s.n
    BY <1>1, <1>4, <1>6
  <1> QED BY <1>4, <1>7, <1>8, <1>11, <1>12, <1>13 DEF near, s

LEMMA StatisticsOfKept ==
  ASSUME samples \in Seq(Nat), samples # <<>>,
         cfg.outlier_filter \in {"None", "Tukey", "Mad"}
  PROVE  StatisticsAgree
  <1> DEFINE keep == Filtered(samples, cfg.outlier_filter)
  <1>1. keep \in Seq(Nat) /\ keep # <<>>
    BY FilteredKeeps
  <1>2. BenchResult.kept = keep /\ BenchResult.stats = FromSamples(keep)
    BY DEF BenchResult
  <1> HIDE DEF keep
  <1> QED BY <1>1, <1>2, StatisticsFacts DEF StatisticsAgree

-----------------------------------------------------------------------------

LEMMA SamplesReported ==
  ASSUME BInv, pc = "done"
  PROVE  /\ samples \in Seq(Nat) /\ samples # <<>>
         /\ cfg.outlier_filter \in {"None", "Tukey", "Mad"}
  BY BenchAssumption DEF BInv, BTypeOK, SamplesTaken

\* For every number of samples and every clock: each filter of filter_outliers
\* keeps at least half of them, all between two that it keeps, and removes none
\* between the quartiles (Tukey) or within one MAD of the median (Mad).
THEOREM MiddleAlwaysKept == Spec => []MiddleKept
  <1>1. BInv => MiddleKept
    <2>1. CASE pc = "done"
      BY <2>1, SamplesReported, FilterKeepsMiddle
    <2>2. CASE pc # "done"
      BY <2>2 DEF MiddleKept
    <2> QED BY <2>1, <2>2
  <1> QED BY <1>1, BenchInvariant, PTL

\* Whatever was measured, Statistics::from_samples describes one distribution:
\* the quartiles in order between the extremes, the mean, too, half of the
\* samples within a MAD of the median, and the median within one standard
\* deviation of the mean.
THEOREM StatisticsAlwaysAgree == Spec => []StatisticsAgree
  <1>1. BInv => StatisticsAgree
    <2>1. CASE pc = "done"
      BY <2>1, SamplesReported, StatisticsOfKept
    <2>2. CASE pc # "done"
      BY <2>2 DEF StatisticsAgree
    <2> QED BY <2>1, <2>2
  <1> QED BY <1>1, BenchInvariant, PTL
=============================================================================
