------------------------------ MODULE SeedLog ------------------------------
(***************************************************************************)
(* What the seed file of a test is for: a bounded log of failing seeds.  A *)
(* failure adds its seed unless it is there; only the oldest seed of a     *)
(* full log is ever forgotten, or all of them when the log may be wiped.   *)
(***************************************************************************)
EXTENDS Sequences, Integers

CONSTANTS
    Seeds,      \* the seeds a run may fail with
    MaxSeeds,   \* the capacity of the log
    MayWipe     \* whether all seeds may be lost at once

VARIABLE log

LogInit == log \in Seq(Seeds)

Add(seed) ==
    /\ \A i \in DOMAIN log : log[i] # seed
    /\ IF Len(log) < MaxSeeds THEN log' = Append(log, seed)
       ELSE \* A log edited by hand may be longer than its capacity.
            /\ Len(log') = MaxSeeds /\ log'[MaxSeeds] = seed
            /\ \A i \in 1 .. MaxSeeds - 1 : log'[i] = log[i + Len(log) - (MaxSeeds - 1)]

Wipe == MayWipe /\ log' = <<>>

LogNext == Wipe \/ \E seed \in Seeds : Add(seed)

LogSpec == LogInit /\ [][LogNext]_log
=============================================================================
