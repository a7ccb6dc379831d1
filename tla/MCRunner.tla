------------------------------ MODULE MCRunner ------------------------------
(***************************************************************************)
(* Instances of Runner for TLC.  A run either varies the limits and the    *)
(* regression seeds, over one value that may have every outcome; or it     *)
(* varies the property, the shrinker and the budget, without seeds.        *)
(***************************************************************************)
EXTENDS Runner

Config(cases, max_size, max_discards, max_skips, max_shrinks, mode) ==
    [cases |-> cases, seed |-> 9, max_size |-> max_size,
     max_discards |-> max_discards, max_skips |-> max_skips,
     max_shrinks |-> max_shrinks, shrink_mode |-> mode]

LoopConfigs   == {Config(c, z, d, s, 0, "Greedy") :
                    c \in 0..3, z \in {0, 1, 2, 5}, d \in 0..2, s \in 0..1}
ShrinkConfigs == {Config(1, 2, 0, 0, n, m) : n \in {1, 3, 6}, m \in Modes}
MCConfigs     == LoopConfigs \cup ShrinkConfigs

MCRegressions == {<<>>, <<1>>, <<1, 2>>}

\* What the unsigned integer shrinker returns for 0..3, a shrinker that
\* returns the value itself, and one that goes round in a circle.
MCValues == 0..3
Lists ==
    {<<  <<>>, <<0>>,       <<0, 1>>, <<0, 2>>    >>,
     <<  <<>>, <<1, 0>>,    <<1, 2>>, <<3>>       >>,
     <<  <<>>, <<3, 2>>,    <<1, 3>>, <<2, 0, 1>> >>}
MCShrinkers == {[v \in MCValues |-> f[v + 1]] : f \in Lists}
MCLen       == [v \in MCValues |-> <<1, 3, 2, 2>>[v + 1]]

\* One value that may do anything (the others pass), or every value with a behaviour of its own.
AnyOutcome == [v \in MCValues |-> IF v = 0 THEN Outcomes ELSE {"Pass"}]
MCVerdicts == {AnyOutcome} \cup
              [MCValues -> {{"Pass"}, {"Fail"}, {"Discard"}, {"Fail", "Skip"}}]

Chosen ==
    IF cfg \in LoopConfigs THEN verdict = AnyOutcome /\ shrink[1] = <<0>>
                           ELSE verdict # AnyOutcome /\ regressions = <<>>

MCInit == Init /\ Chosen

MCSpec == MCInit /\ [][Next]_vars /\ Fairness
=============================================================================
