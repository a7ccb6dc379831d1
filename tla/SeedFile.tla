----------------------------- MODULE SeedFile ------------------------------
(***************************************************************************)
(* What crates/pbt/src/regression.rs makes of the contents of a seed file. *)
(* A file is the sequence of the seeds on its lines; comments, blank lines *)
(* and lines that are no u64 are left out, and a file that is missing or   *)
(* cannot be read counts as an empty one, as read_seeds has it.            *)
(***************************************************************************)
EXTENDS Integers, Sequences, SequencesExt

CONSTANT MaxSeeds      \* MAX_SEEDS_PER_FILE

ASSUME MaxSeedsAssumption == MaxSeeds \in Nat \ {0}

\* read_seeds: the seeds in file order, each at its first occurrence.
ReadSeeds(file) ==
    FoldLeft(LAMBDA out, seed : IF Contains(out, seed) THEN out ELSE Append(out, seed),
             <<>>, file)

\* append_seed: seeds.drain(..excess), the oldest go.
Capped(seeds) ==
    SubSeq(seeds, IF Len(seeds) > MaxSeeds THEN Len(seeds) - MaxSeeds + 1 ELSE 1, Len(seeds))

AddSeedInFront(seeds, seed) ==  \* mutant: the newest seed is the first to go
    IF Contains(seeds, seed) THEN seeds ELSE Capped(<<seed>> \o seeds)

\* append_seed: what is written after seed has failed, given what was read.
AddSeed(seeds, seed) ==
    IF Contains(seeds, seed) THEN seeds ELSE Capped(Append(seeds, seed))
=============================================================================
