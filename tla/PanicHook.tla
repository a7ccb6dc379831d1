----------------------------- MODULE PanicHook -----------------------------
(***************************************************************************)
(* The reference-counted panic-hook silencer of                            *)
(* crates/pbt/src/panic_hook.rs, at the granularity of its atomic          *)
(* operations.  An actor is one run: one call of forall_with, run_with,    *)
(* forall_strategy_with, run_strategy_with or run_state_machine, which     *)
(* owns one SilentPanicHook guard from install to drop.  Top-level runs    *)
(* are on threads of their own; a nested run is made by the property body  *)
(* of its Outer run, on the same thread.                                   *)
(***************************************************************************)
EXTENDS Integers, FiniteSets

CONSTANTS
    Runs,     \* runner invocations, each reusable after it finished
    NoRun,    \* "not nested"
    Outer     \* Outer[r]: the run whose property body makes run r, or NoRun

ASSUME RunsAssumption ==
    /\ IsFiniteSet(Runs)
    /\ NoRun \notin Runs
    /\ Outer \in [Runs -> Runs \cup {NoRun}]

VARIABLES
    hook,       \* the process-wide hook: "original", "silent" or std's "default"
    saved,      \* the contents of SAVED
    refcount,   \* REFCOUNT
    pc,         \* where each run is in SilentPanicHook::install / drop
    hand,       \* the hook a run has taken out and not yet stored
    unwinding,  \* the runs whose guard is being dropped by a panic
    aborted,    \* the process has aborted
    overlap     \* parameter: FALSE if no two runs are between fetch_add or
                \* fetch_sub and the end of install or drop at the same time

vars == <<hook, saved, refcount, pc, hand, unwinding, aborted, overlap>>

Hooks == {"original", "silent", "default"}
Slot  == Hooks \cup {"none"}
Steps == {"idle", "take", "save", "silence", "live", "lock", "restore"}

Counted    == {r \in Runs : pc[r] \in {"take", "save", "silence", "live"}}
Installing == {r \in Runs : pc[r] \in {"take", "save", "silence"}}
Pending    == {r \in Runs : pc[r] = "lock"}
Restoring  == {r \in Runs : pc[r] = "restore"}  \* holds the SAVED mutex
Settled    == \A r \in Runs : pc[r] \in {"idle", "live"}

Nested(r)  == {s \in Runs : Outer[s] = r}

\* A nested run is called by the body its outer run is executing; a thread
\* executes one nested run at a time.
MayStart(r) ==
    Outer[r] # NoRun => /\ pc[Outer[r]] = "live"
                        /\ \A s \in Nested(Outer[r]) : pc[s] = "idle"

-----------------------------------------------------------------------------
Init ==
    /\ hook = "original"
    /\ saved = "none"
    /\ refcount = 0
    /\ pc = [r \in Runs |-> "idle"]
    /\ hand = [r \in Runs |-> "none"]
    /\ unwinding = {}
    /\ aborted = FALSE
    /\ overlap \in BOOLEAN

MayTransit == ~aborted /\ (overlap \/ Settled)

FetchAddOffByOne(r) ==          \* mutant: the second guard installs too
    /\ MayTransit
    /\ pc[r] = "idle" /\ MayStart(r)
    /\ refcount' = refcount + 1
    /\ pc' = [pc EXCEPT ![r] = IF refcount <= 1 THEN "take" ELSE "live"]
    /\ UNCHANGED <<hook, saved, hand, unwinding, aborted>>

\* install: REFCOUNT.fetch_add(1); only the run that saw 0 goes on.
FetchAdd(r) ==
    /\ MayTransit
    /\ pc[r] = "idle" /\ MayStart(r)
    /\ refcount' = refcount + 1
    /\ pc' = [pc EXCEPT ![r] = IF refcount = 0 THEN "take" ELSE "live"]
    /\ UNCHANGED <<hook, saved, hand, unwinding, aborted>>

\* install: panic::take_hook() leaves std's default hook behind.
TakeHook(r) ==
    /\ ~aborted
    /\ pc[r] = "take"
    /\ hand' = [hand EXCEPT ![r] = hook]
    /\ hook' = "default"
    /\ pc' = [pc EXCEPT ![r] = "save"]
    /\ UNCHANGED <<saved, refcount, unwinding, aborted>>

SavePreviousForgotten(r) ==     \* mutant: the previous hook is not stored
    /\ ~aborted
    /\ pc[r] = "save" /\ Restoring = {}
    /\ hand' = [hand EXCEPT ![r] = "none"]
    /\ pc' = [pc EXCEPT ![r] = "silence"]
    /\ UNCHANGED <<hook, saved, refcount, unwinding, aborted>>

\* install: *SAVED.lock() = Some(prev), dropping what was there.  The mutex is
\* never poisoned: the only panic under it ends the process.
SavePrevious(r) ==
    /\ ~aborted
    /\ pc[r] = "save" /\ Restoring = {}
    /\ saved' = hand[r]
    /\ hand' = [hand EXCEPT ![r] = "none"]
    /\ pc' = [pc EXCEPT ![r] = "silence"]
    /\ UNCHANGED <<hook, refcount, unwinding, aborted>>

\* install: panic::set_hook(Box::new(|_info| {})), dropping the current hook.
Silence(r) ==
    /\ ~aborted
    /\ pc[r] = "silence"
    /\ hook' = "silent"
    /\ pc' = [pc EXCEPT ![r] = "live"]
    /\ UNCHANGED <<saved, refcount, hand, unwinding, aborted>>

FetchSubEarly(r, panics) ==     \* mutant: the last but one guard restores
    /\ MayTransit
    /\ pc[r] = "live" /\ \A s \in Nested(r) : pc[s] = "idle"
    /\ refcount' = refcount - 1
    /\ pc' = [pc EXCEPT ![r] = IF refcount <= 2 THEN "lock" ELSE "idle"]
    /\ unwinding' = unwinding
    /\ UNCHANGED <<hook, saved, hand, aborted>>

FetchSubTwice(r, panics) ==     \* mutant: a guard that is gone is dropped again
    /\ MayTransit
    /\ pc[r] \in {"live", "lock"} /\ \A s \in Nested(r) : pc[s] = "idle"
    /\ refcount' = refcount - 1
    /\ pc' = [pc EXCEPT ![r] = IF refcount <= 1 THEN "lock" ELSE "idle"]
    /\ unwinding' = unwinding
    /\ UNCHANGED <<hook, saved, hand, aborted>>

\* drop: REFCOUNT.fetch_sub(1); only the run that saw 1 goes on.  The guard is
\* dropped when the run returns, or by a panic no catch_unwind of the run stops
\* (a generator that panics); an outer run's run_prop or the test harness then
\* catches it, at the end of the drop.
FetchSub(r, panics) ==
    /\ MayTransit
    /\ pc[r] = "live" /\ \A s \in Nested(r) : pc[s] = "idle"
    /\ refcount' = refcount - 1
    /\ IF refcount = 1
       THEN /\ pc' = [pc EXCEPT ![r] = "lock"]
            /\ unwinding' = IF panics THEN unwinding \cup {r} ELSE unwinding
       ELSE /\ pc' = [pc EXCEPT ![r] = "idle"]
            /\ unwinding' = unwinding
    /\ UNCHANGED <<hook, saved, hand, aborted>>

LockUnlessPanicking(r) ==       \* mutant: drop returns early while unwinding
    /\ ~aborted
    /\ pc[r] = "lock" /\ Restoring = {}
    /\ IF saved = "none" \/ r \in unwinding
       THEN /\ pc' = [pc EXCEPT ![r] = "idle"]
            /\ unwinding' = unwinding \ {r}
            /\ UNCHANGED <<saved, hand>>
       ELSE /\ pc' = [pc EXCEPT ![r] = "restore"]
            /\ saved' = "none" /\ hand' = [hand EXCEPT ![r] = saved]
            /\ unwinding' = unwinding
    /\ UNCHANGED <<hook, refcount, aborted>>

\* drop: SAVED.lock(), slot.take(); nothing to restore if the slot is empty.
LockAndTake(r) ==
    /\ ~aborted
    /\ pc[r] = "lock" /\ Restoring = {}
    /\ saved' = "none"
    /\ hand' = [hand EXCEPT ![r] = saved]
    /\ IF saved = "none"
       THEN /\ pc' = [pc EXCEPT ![r] = "idle"]
            /\ unwinding' = unwinding \ {r}
       ELSE /\ pc' = [pc EXCEPT ![r] = "restore"]
            /\ unwinding' = unwinding
    /\ UNCHANGED <<hook, refcount, aborted>>

\* drop: panic::set_hook(prev) with the mutex held, then unlock.
Restore(r) ==
    /\ ~aborted
    /\ pc[r] = "restore" /\ r \notin unwinding
    /\ hook' = hand[r]
    /\ hand' = [hand EXCEPT ![r] = "none"]
    /\ pc' = [pc EXCEPT ![r] = "idle"]
    /\ UNCHANGED <<saved, refcount, unwinding, aborted>>

\* drop: std's set_hook panics on a panicking thread; a panic out of a
\* destructor that runs during unwinding aborts the process.
RestoreWhileUnwinding(r) ==
    /\ ~aborted
    /\ pc[r] = "restore" /\ r \in unwinding
    /\ aborted' = TRUE
    /\ UNCHANGED <<hook, saved, refcount, pc, hand, unwinding>>

\* Nothing runs in a process that has aborted.
ProcessDead == aborted /\ UNCHANGED vars

Install(r) == FetchAdd(r) \/ TakeHook(r) \/ SavePrevious(r) \/ Silence(r)
Drop(r)    == \/ \E panics \in BOOLEAN : FetchSub(r, panics)
              \/ LockAndTake(r)
              \/ Restore(r)
              \/ RestoreWhileUnwinding(r)

Next == /\ (\E r \in Runs : Install(r) \/ Drop(r)) \/ ProcessDead
        /\ UNCHANGED overlap

Spec == Init /\ [][Next]_vars

-----------------------------------------------------------------------------
(* Properties that hold however the runs interleave.                       *)

\* Every variable keeps its type; in particular REFCOUNT never wraps below 0.
TypeOK ==
    /\ hook \in Hooks
    /\ saved \in Slot
    /\ refcount \in Nat
    /\ pc \in [Runs -> Steps]
    /\ hand \in [Runs -> Slot]
    /\ unwinding \in SUBSET Runs
    /\ aborted \in BOOLEAN

\* install's slow path is entered by one run at a time: the mutex does not
\* cover take_hook .. set_hook, the reference count has to.
OneInstaller == \A r, s \in Installing : r = s

\* Once the dust has settled, a live guard means silence: whatever races the
\* last drop and the next install had, no restore is left over that could
\* undo the silencing of a guard that is alive.
SettledSilence == (Settled /\ refcount > 0) => hook = "silent"

\* What a race of a last drop and an install can leave behind, at worst.  The
\* original hook may be lost (RestoredAtRest below), but once the last guard is
\* gone and every drop has finished, SAVED is empty, so that no stale hook waits
\* for a later drop to install it, and std's default hook, which take_hook leaves
\* behind for a moment, has not taken the place of the program's: what remains
\* is the original hook or silence.
LeftAtRest ==
    (Settled /\ refcount = 0) => saved = "none" /\ hook \in {"original", "silent"}

-----------------------------------------------------------------------------
(* Properties the documentation promises; they hold as long as no install   *)
(* or drop overlaps another, and not beyond.                               *)

\* panic_hook.rs:6-7: the guard dropped last restores the original hook.
RestoredAtRest == (Settled /\ refcount = 0 /\ ~aborted) => hook = "original"

\* A panic of the generator is an ordinary panic for the caller (the docs of
\* StrategyExt::prop_filter announce one), never the end of the process.
NeverAborted == ~aborted

\* The run acquires its guard when the hook leaves the process (or when it
\* joins those that hold one) and releases it when the hook is back.
Promise == INSTANCE HookPromise WITH
    guards  <- {r \in Runs : pc[r] \in {"save", "silence", "live", "lock", "restore"}},
    visible <- (hook = "original")

\* Without overlap install and drop look atomic, first in and last out, and
\* a guard that is alive means silence: panic_hook.rs:3-7 and 18.
ImplementsPromise ==
    /\ Promise!PromiseInit
    /\ [][overlap \/ Promise!PromiseNext]_(Promise!promiseVars)
=============================================================================
