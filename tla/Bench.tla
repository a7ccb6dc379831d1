------------------------------- MODULE Bench -------------------------------
(***************************************************************************)
(* The benchmark harness: bench/src/lib.rs (measure_with: warm-up,         *)
(* calibration of the batch, sampling) and bench/src/stats.rs (the outlier *)
(* filters and the descriptive statistics).                                *)
(*                                                                         *)
(* Time is a count of ticks.  The clock the program reads is coarser: an   *)
(* Instant is the time rounded down to a multiple of Quantum, so that a    *)
(* short batch may measure 0 and one batch measures differently at         *)
(* different moments.  A call of the closure takes `cost` ticks; a batch   *)
(* may be preempted for some of Delays more.                               *)
(*                                                                         *)
(* All samples of one measurement divide their time by the same            *)
(* iters_per_sample.  The division scales every statistic alike and        *)
(* changes no comparison, so that a sample is kept as the time of its      *)
(* batch.  Quartiles are kept in quarters of a tick, the MAD in            *)
(* sixteenths: the interpolation is then exact.  The f64 rounding of the   *)
(* program is not modelled.                                                *)
(***************************************************************************)
EXTENDS Integers, Sequences, FiniteSets, SequencesExt

CONSTANTS
    Configs,        \* the BenchConfig records measured with
    Costs,          \* ticks one call of the closure may take
    Delays,         \* ticks a batch may be preempted for
    Quantum,        \* the resolution of the clock, in ticks
    TargetFloor,    \* the lower bound of the batch's target time (1 us)
    MaxIters,       \* MAX_ITERS of calibrate
    U32,            \* the number of values of a u32
    MaxCapacity     \* the most samples a Vec can be allocated for: isize::MAX / 8
                    \* at most, less where the allocator refuses earlier

ASSUME BenchAssumption ==
    /\ Costs \subseteq Nat \ {0} /\ Delays \subseteq Nat /\ 0 \in Delays
    /\ {Quantum, TargetFloor, MaxIters, U32} \subseteq Nat \ {0} /\ MaxCapacity \in Nat
    /\ \A c \in Configs :
         /\ {c.warmup_time, c.measurement_time,
             c.min_samples, c.max_samples} \subseteq Nat
         /\ c.outlier_filter \in {"None", "Tukey", "Mad"}

VARIABLES
    cfg,        \* the configuration of this measurement
    cost,       \* ticks a call of this closure takes
    busy,       \* whether other work preempts the calibration, too
    pc,         \* "warmup", "calibrate", "allocate", "sample", "done" or "panicked"
    now,        \* the time, in ticks
    start,      \* warm_start or m_start: when the phase started
    iters,      \* the batch: tried by calibrate, then iters_per_sample
    samples     \* the measured time of each batch, in order

vars == <<cfg, cost, busy, pc, now, start, iters, samples>>

-----------------------------------------------------------------------------
(* stats.rs *)

\* How many samples go before the one at position i when they are sorted, it
\* included: sort_by is stable.
Rank(xs, i) ==
    Cardinality({j \in DOMAIN xs : xs[j] < xs[i] \/ (xs[j] = xs[i] /\ j <= i)})

Sorted(xs) ==
    [k \in DOMAIN xs |-> xs[CHOOSE i \in DOMAIN xs : Rank(xs, i) = k]]

\* The samples in K, in their order.
Within(ss, K) ==
    FoldLeft(LAMBDA kept, x : IF x \in K THEN Append(kept, x) ELSE kept, <<>>, ss)

\* percentile_sorted at 25 * q percent, in quarters: linear interpolation
\* between the two samples around rank q * (n - 1) / 4.
Percentile(xs, q) ==
    LET rank == q * (Len(xs) - 1)
        lo   == xs[rank \div 4 + 1]
        hi   == xs[(rank + 3) \div 4 + 1]
    IN  4 * lo + (hi - lo) * (rank % 4)

Distance(x, y) == IF x < y THEN y - x ELSE x - y

\* mad_sorted, in sixteenths.
Mad(xs) ==
    LET median == Percentile(xs, 2)
        devs   == Sorted([i \in DOMAIN xs |-> Distance(4 * xs[i], median)])
    IN  Percentile(devs, 2)

FencesInside(xs) ==              \* mutant: the fences lie between the quartiles
    LET q1  == Percentile(xs, 1)
        q3  == Percentile(xs, 3)
    IN  2 * q1 + (q3 - q1) .. 2 * q3 - (q3 - q1)

\* Tukey's fences in eighths: 1.5 interquartile ranges outside of the
\* quartiles.
Fences(xs) ==
    LET q1  == Percentile(xs, 1)
        q3  == Percentile(xs, 3)
    IN  2 * q1 - 3 * (q3 - q1) .. 2 * q3 + 3 * (q3 - q1)

\* filter_outliers: the samples kept, in their order.  The MAD keeps what is
\* at most 3 scaled (1.4826) MADs from the median, and all if there is no
\* spread.
Filtered(ss, filter) ==
    LET xs     == Sorted(ss)
        fences == Fences(xs)
        median == Percentile(xs, 2)
        mad    == Mad(xs)
        near(x) == mad = 0 \/ 40000 * Distance(4 * x, median) <= 3 * 14826 * mad
        keep   == CASE filter = "None"  -> ss
                    [] filter = "Tukey" -> Within(ss, {x \in ToSet(ss) : 8 * x \in fences})
                    [] filter = "Mad"   -> Within(ss, {x \in ToSet(ss) : near(x)})
    IN  IF keep = <<>> THEN ss ELSE keep

Total(ss) == FoldLeft(+, 0, ss)

\* n * sum of squared deviations from the mean, times n: what std_dev takes
\* the root of, times n * n * (n - 1).
SquaredDeviations(ss) ==
    LET n    == Len(ss)
        mean == Total(ss)
        of(x) == (n * x - mean) * (n * x - mean)
    IN  Total([i \in DOMAIN ss |-> of(ss[i])])

FromSamplesUnsorted(ss) ==       \* mutant: order statistics without sorting
    [n |-> Len(ss), sum |-> Total(ss), min |-> Head(ss), max |-> Last(ss),
     p25 |-> Percentile(ss, 1), median |-> Percentile(ss, 2),
     p75 |-> Percentile(ss, 3), mad |-> Mad(ss),
     squares |-> SquaredDeviations(ss)]

\* Statistics::from_samples: the mean as sum and n.
FromSamples(ss) ==
    LET xs == Sorted(ss) IN
    [n |-> Len(xs), sum |-> Total(xs), min |-> Head(xs), max |-> Last(xs),
     p25 |-> Percentile(xs, 1), median |-> Percentile(xs, 2),
     p75 |-> Percentile(xs, 3), mad |-> Mad(xs),
     squares |-> SquaredDeviations(xs)]

-----------------------------------------------------------------------------
(* lib.rs *)

\* What the clock says has passed since `from`, at the time `to`.
Elapsed(from, to) == Quantum * (to \div Quantum) - Quantum * (from \div Quantum)

AtLeast(x, y) == IF x >= y THEN x ELSE y

\* max_samples.max(1) as u32: the divisor of the measurement time.
Divisor == AtLeast(cfg.max_samples, 1) % U32

TargetBatch == AtLeast(cfg.measurement_time \div Divisor, TargetFloor)

GoTo(phase) == pc' = phase /\ UNCHANGED <<cfg, cost, busy, now, start, iters, samples>>

\* One call of the closure while the warm-up time is not over.
WarmUp ==
    /\ pc = "warmup" /\ cfg.warmup_time > 0
    /\ Elapsed(start, now) < cfg.warmup_time
    /\ \E d \in Delays : now' = now + cost + d
    /\ UNCHANGED <<cfg, cost, busy, pc, start, iters, samples>>

\* The target of a batch is computed: a divisor of 0 panics.
WarmedUp ==
    /\ pc = "warmup"
    /\ cfg.warmup_time = 0 \/ Elapsed(start, now) >= cfg.warmup_time
    /\ GoTo(IF Divisor = 0 THEN "panicked" ELSE "calibrate")

FactorUnbounded(elapsed) ==      \* mutant: without the lower bound
    IF elapsed = 0 THEN 2 ELSE TargetBatch \div elapsed

\* The factor the measured time asks for, at least 2.  The product stays below
\* 2^64 for any realistic target: saturating_mul is a multiplication here.
Factor(elapsed) ==
    IF elapsed = 0 THEN 2 ELSE AtLeast(TargetBatch \div elapsed, 2)

CalibrateTrusting ==             \* mutant: the estimate is not timed
    /\ pc = "calibrate"
    /\ \E d \in IF busy THEN Delays ELSE {0} :
         LET end     == now + cost * iters + d
             elapsed == Elapsed(now, end)
         IN  /\ now' = end % Quantum /\ start' = now' /\ pc' = "allocate"
             /\ iters' = iters * Factor(elapsed)
    /\ UNCHANGED <<cfg, cost, busy, samples>>

\* One round of calibrate: a batch is timed and either it is long enough (or
\* the cap is reached) and calibration is over, or a larger one is tried.  Of the
\* time between two batches only the clock's phase matters.
Calibrate ==
    /\ pc = "calibrate"
    /\ \E d \in IF busy THEN Delays ELSE {0} :
         LET end     == now + cost * iters + d
             elapsed == Elapsed(now, end)
         IN  /\ now' = end % Quantum /\ start' = now'
             /\ IF elapsed >= TargetBatch \/ iters >= MaxIters
                  THEN pc' = "allocate" /\ UNCHANGED iters
                  ELSE iters' = iters * Factor(elapsed) /\ UNCHANGED pc
    /\ UNCHANGED <<cfg, cost, busy, samples>>

\* Vec::with_capacity(max_samples), before the first sample and after all of the
\* calibration: more than a Vec can hold panics ("capacity overflow"), more than
\* the allocator grants aborts the process.  There is no report either way.
Allocate ==
    /\ pc = "allocate"
    /\ GoTo(IF cfg.max_samples > MaxCapacity THEN "panicked" ELSE "sample")

WantsSampleInTime ==             \* mutant: the clock goes before the minimum
    /\ Len(samples) < cfg.max_samples
    /\ Elapsed(start, now) < cfg.measurement_time

\* The condition of the sampling loop.
WantsSample ==
    /\ Len(samples) < cfg.max_samples
    /\ \/ Len(samples) < cfg.min_samples
       \/ Elapsed(start, now) < cfg.measurement_time

\* time_batch and the push of its time.
Sample ==
    /\ pc = "sample" /\ WantsSample
    /\ \E d \in Delays :
         LET end == now + cost * iters + d
         IN  now' = end /\ samples' = Append(samples, Elapsed(now, end))
    /\ UNCHANGED <<cfg, cost, busy, pc, start, iters>>

\* What measure_with returns from the samples: the filter and the statistics.
BenchResult ==
    LET kept == Filtered(samples, cfg.outlier_filter) IN
    [kept             |-> kept,
     outliers_removed |-> Len(samples) - Len(kept),
     total_iterations |-> Len(samples) * iters,
     stats            |-> FromSamples(kept)]

\* The sampling is over and the BenchResult is returned; without a sample the
\* expect of the statistics panics.
Summarize ==
    /\ pc = "sample" /\ ~WantsSample
    /\ GoTo(IF samples = <<>> THEN "panicked" ELSE "done")

Init ==
    /\ cfg \in Configs /\ cost \in Costs /\ busy \in BOOLEAN
    /\ pc = "warmup" /\ now \in 0 .. Quantum - 1 /\ start = now
    /\ iters = 1 /\ samples = <<>>

Over == pc \in {"done", "panicked"}

\* A finished measurement stutters.
Finished == Over /\ UNCHANGED vars

Next == WarmUp \/ WarmedUp \/ Calibrate \/ Allocate \/ Sample \/ Summarize \/ Finished

Spec == Init /\ [][Next]_vars

\* The harness is one thread that only computes: it keeps running.
FairSpec == Spec /\ WF_vars(Next)

-----------------------------------------------------------------------------
(* Properties *)

\* A measurement fails only by its configuration, and then before it reports
\* anything.  Four configurations panic, none of which the documentation rules
\* out: a max_samples that is a multiple of 2^32 (a division by zero), one no
\* Vec can be allocated for, max_samples = 0, and min_samples = 0 when the time
\* is over at once (the expect of the statistics).  Any other is reported on,
\* whatever the clock does, from at most max_samples samples, and from fewer
\* only if the time was used up and there are min_samples.  Where min_samples
\* exceeds max_samples the maximum decides, which lib.rs:55-56 does not say: of
\* the two numbers a report rests on the smaller one at least.
EnoughSamples ==
    LET truncated == AtLeast(cfg.max_samples, 1) % U32 = 0
        oversized == cfg.max_samples > MaxCapacity
    IN  /\ pc = "panicked" =>
             truncated \/ oversized \/ cfg.max_samples = 0 \/ cfg.min_samples = 0
        /\ pc = "done" =>
             /\ ~truncated /\ ~oversized
             /\ Len(samples) \in 1 .. cfg.max_samples
             /\ Len(samples) < cfg.max_samples =>
                  /\ Len(samples) >= cfg.min_samples
                  /\ Elapsed(start, now) >= cfg.measurement_time

\* What calibration is for: unless other work inflated its timing, no batch
\* sampled later is shorter than the target by more than the clock's
\* resolution at both of its ends, except at the cap of iterations.
BatchLongEnough ==
    (~busy /\ iters < MaxIters /\ pc \in {"sample", "done"}) =>
        \A i \in DOMAIN samples : samples[i] + 2 * Quantum > TargetBatch

\* The filters remove only extremes: at least half of the samples stay, none
\* that goes lies between two that stay, and none goes that is between the
\* quartiles (for Tukey's fences) or within one MAD of the median (for the
\* MAD, which may drop a sample between the quartiles).
MiddleKept ==
    pc = "done" =>
        LET report == BenchResult
            kept   == ToSet(report.kept)
            xs     == Sorted(samples)
            gone   == ToSet(samples) \ kept
        IN  /\ 2 * Len(report.kept) >= Len(samples)
            /\ Len(report.kept) + report.outliers_removed = Len(samples)
            /\ \A x \in gone :
                 /\ ~(\E y, z \in kept : y <= x /\ x <= z)
                 /\ \/ /\ cfg.outlier_filter = "Tukey"
                       /\ 4 * x < Percentile(xs, 1) \/ 4 * x > Percentile(xs, 3)
                    \/ /\ cfg.outlier_filter = "Mad"
                       /\ 4 * Distance(4 * x, Percentile(xs, 2)) > Mad(xs)

\* The statistics describe one distribution: they come in their order, the
\* mean lies within the extremes, half of the samples lie within a MAD of
\* the median, and the median lies within one standard deviation of the
\* mean: (median - mean)^2 <= std_dev^2.
StatisticsAgree ==
    pc = "done" =>
        LET report == BenchResult
            s      == report.stats
            near   == {i \in DOMAIN report.kept :
                         4 * Distance(4 * report.kept[i], s.median) <= s.mad}
            gap    == s.n * s.median - 4 * s.sum
        IN  /\ 4 * s.min <= s.p25 /\ s.p25 <= s.median
            /\ s.median <= s.p75 /\ s.p75 <= 4 * s.max
            /\ s.n * s.min <= s.sum /\ s.sum <= s.n * s.max
            /\ 2 * Cardinality(near) >= s.n
            /\ s.n > 1 => (s.n - 1) * gap * gap <= 16 * s.squares

\* Every measurement comes to an end: calibration finds its batch although
\* the clock may measure nothing, and sampling stops.
Finishes == <>Over
=============================================================================
