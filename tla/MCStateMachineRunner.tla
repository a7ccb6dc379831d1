------------------------ MODULE MCStateMachineRunner ------------------------
(* Machines with three states and three operations: c fails unless the      *)
(* state is 2, a and b lead from the initial state to 1 and 2 and otherwise *)
(* in every possible way.  So b may protect from c, and a may take that     *)
(* protection away.  Further, an invariant that the untested initial state  *)
(* violates, and a panic in initial_state.                                  *)
EXTENDS StateMachineRunner

CONSTANTS a, b, c

MCStates     == 0..2
MCOperations == {a, b, c}

Execute(f) ==
    [x \in MCStates \X MCOperations |->
        IF x[2] = c THEN IF x[1] = 2 THEN 2 ELSE Err
                    ELSE f[x[1], x[2]]]

Machine(initial, f, invariant) ==
    [initial |-> initial, execute |-> Execute(f), invariant |-> invariant]

Moves == {f \in [MCStates \X {a, b} -> MCStates] : f[0, a] = 1 /\ f[0, b] = 2}
Stay  == [x \in MCStates \X {a, b} |-> x[1]]

MCMachines ==
    {Machine(0, f, MCStates) : f \in Moves}
        \cup {Machine(0, f, {1, 2}) : f \in {g \in Moves : g[1, a] = 1 /\ g[2, b] = 2}}
        \cup {Machine(Err, Stay, MCStates)}

Config(cases, max_size, max_shrinks) ==
    [cases |-> cases, seed |-> 9, max_size |-> max_size, max_shrinks |-> max_shrinks]

MCConfigs == {Config(0, 4, 20), Config(2, 4, 2), Config(1, 0, 0)}
MCRegressions == {<<>>, <<1>>}
=============================================================================
