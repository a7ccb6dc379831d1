----------------------------- MODULE MCRunWith -----------------------------
(* Three seeds, a file with room for two of them, values that depend on    *)
(* seed, position and size; every deterministic property of three values.  *)
EXTENDS RunWith

MCValues == 0..2
MCSeeds  == {1, 2, 5}
MCDraw(seed, k, hint) == (seed * (k + 1) + hint) % 3

MCShrinkers == {[v \in MCValues |-> IF v = 0 THEN <<>> ELSE <<v - 1>>]}
MCDebugLen  == [v \in MCValues |-> 1]
MCVerdicts  == [MCValues -> {{"Pass"}, {"Fail"}, {"Discard"}}]
MCConfigs   == {[cases |-> 3, seed |-> s, max_size |-> 4, max_discards |-> 1,
                 max_skips |-> 0, max_shrinks |-> 2, shrink_mode |-> m] :
                    s \in MCSeeds, m \in Modes}
MCRegressions == {<<>>} \cup {<<s>> : s \in MCSeeds} \cup (MCSeeds \X MCSeeds)
=============================================================================
