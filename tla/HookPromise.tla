---------------------------- MODULE HookPromise ----------------------------
(***************************************************************************)
(* What crates/pbt/src/panic_hook.rs promises in its module comment: the   *)
(* process-wide panic hook is replaced when the first silencing guard      *)
(* appears and is put back when the last one is dropped; in between panic  *)
(* output stays suppressed.  Acquiring and releasing are atomic here;      *)
(* PanicHook shows what the code makes of them.                            *)
(***************************************************************************)
CONSTANT Runs      \* the runner invocations that may hold a guard

VARIABLES guards,  \* the runs whose guard exists
          visible  \* TRUE while the original hook is the installed one

promiseVars == <<guards, visible>>

PromiseInit == guards = {} /\ visible = TRUE

Acquire(r) ==
    /\ r \notin guards
    /\ guards' = guards \cup {r}
    /\ visible' = FALSE

Release(r) ==
    /\ r \in guards
    /\ guards' = guards \ {r}
    /\ visible' = (guards' = {})

PromiseNext == \E r \in Runs : Acquire(r) \/ Release(r)

PromiseSpec == PromiseInit /\ [][PromiseNext]_promiseVars
=============================================================================
