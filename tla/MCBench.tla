------------------------------ MODULE MCBench ------------------------------
(***************************************************************************)
(* Small measurements: a clock of 4 ticks, calls of 1 and 3 ticks, a cap  *)
(* of 6 calls (which a short batch of 1-tick calls reaches, and the last   *)
(* factor exceeds), preemptions of 0, 5 and 90 ticks, a u32 of 8 values,   *)
(* so that max_samples = 8 truncates to 0, and room for 9 samples, so that *)
(* 10 cannot be allocated, nor 16, which truncates to 0 before that.       *)
(***************************************************************************)
EXTENDS Bench

Config(warmup, time, min, max, filter) ==
    [warmup_time |-> warmup, measurement_time |-> time, min_samples |-> min,
     max_samples |-> max, outlier_filter |-> filter]

MCConfigs ==
    {Config(0, 60, 2, 5, "Tukey"), Config(0, 60, 5, 5, "Mad")}
        \cup {Config(5, 30, 3, 4, "None")}
        \cup {Config(9, t, m, 3, "Mad") : t \in {0, 12}, m \in {0, 3}}
        \cup {Config(0, 12, 2, m, "Tukey") : m \in {0, 1, 8, 9, 10, 16}}
=============================================================================
