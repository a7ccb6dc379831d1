----------------------------- MODULE ParkToken -----------------------------
(***************************************************************************)
(* What Parker of crates/pbt/src/async_exec.rs promises to block_on: a     *)
(* single token.  unpark leaves it (leaving it twice is leaving it once),  *)
(* park waits for it and takes it.                                         *)
(***************************************************************************)
VARIABLES
    token,      \* an unpark has not been taken yet
    parked      \* the executor is inside park

vars == <<token, parked>>

TokenInit == token = FALSE /\ parked = FALSE

Leave == token' = TRUE /\ UNCHANGED parked
Enter == ~parked /\ parked' = TRUE /\ UNCHANGED token
Take  == parked /\ token /\ token' = FALSE /\ parked' = FALSE

TokenNext == Leave \/ Enter \/ Take

TokenSpec == TokenInit /\ [][TokenNext]_vars
=============================================================================
