------------------------------ MODULE BlockOn ------------------------------
(***************************************************************************)
(* block_on of crates/pbt/src/async_exec.rs: one executor thread that      *)
(* polls a future and parks on a Mutex<bool> and a Condvar, and the        *)
(* threads that wake it, at the granularity of lock, flag, notify, unlock. *)
(*                                                                         *)
(* The future is external.  It waits for Sources, each with work of its    *)
(* own, and is ready when it has seen Enough of them finished (one: a      *)
(* select, all: a join).  It keeps the contract of Future::poll: a poll    *)
(* looks at the sources one by one and leaves the waker with every one it  *)
(* finds unfinished, and a source that makes progress calls the waker it   *)
(* was left.                                                               *)
(***************************************************************************)
EXTENDS Integers, FiniteSets

CONSTANTS
    Sources,    \* what the future waits for
    Inline,     \* the sources that progress inside poll, on the executor's thread
    Work,       \* Work[s]: how often source s makes progress before it is finished
    Enough,     \* how many finished sources make the future ready
    Executor,   \* the thread that called block_on
    Nobody      \* the holder of a free mutex

ASSUME BlockOnAssumption ==
    /\ IsFiniteSet(Sources) /\ Inline \subseteq Sources
    /\ Work \in [Sources -> Nat]
    /\ Enough \in Nat /\ Enough <= Cardinality(Sources)
    /\ Executor \notin Sources /\ Nobody \notin Sources \cup {Executor}

VARIABLES
    left,       \* left[s]: progress source s has still to make
    registered, \* the sources that hold a waker they have not called
    polled,     \* the sources this poll has looked at ...
    observed,   \* ... and those of them it found finished
    exec,       \* where the executor is
    waker,      \* where each source is in Wake::wake
    owner,      \* the holder of Parker's mutex
    flag        \* Parker's state: an unpark that park has not consumed

vars == <<left, registered, polled, observed, exec, waker, owner, flag>>

\* "woken": the condvar wait has ended, the mutex is not yet reacquired.
ExecSteps  == {"poll", "lock", "test", "asleep", "woken", "returned"}
WakerSteps == {"idle", "lock", "set", "notify"}

Parked   == exec \in {"lock", "test", "asleep", "woken"}
Finished == {s \in Sources : left[s] = 0}
Ready    == Cardinality(Finished) >= Enough
Waking   == {s \in Sources : waker[s] \in {"lock", "set"}}

-----------------------------------------------------------------------------
Init ==
    /\ left = Work /\ registered = {}
    /\ polled = {} /\ observed = {}
    /\ exec = "poll" /\ waker = [s \in Sources |-> "idle"]
    /\ owner = Nobody /\ flag = FALSE

\* The executor's thread is not inside a wake call of its own.
Polling == exec = "poll" /\ \A s \in Inline : waker[s] = "idle"

\* The future looks at one source; an unfinished one is left the waker, and an
\* inline one calls it at once.
PollSource(s) ==
    /\ Polling /\ s \notin polled
    /\ polled' = polled \cup {s}
    /\ IF left[s] = 0
       THEN observed' = observed \cup {s} /\ UNCHANGED <<left, registered, waker>>
       ELSE /\ observed' = observed
            /\ IF s \in Inline
               THEN /\ left' = [left EXCEPT ![s] = @ - 1]
                    /\ waker' = [waker EXCEPT ![s] = "lock"]
                    /\ registered' = registered
               ELSE registered' = registered \cup {s} /\ UNCHANGED <<left, waker>>
    /\ UNCHANGED <<exec, owner, flag>>

\* Poll::Ready(v): block_on returns v.
PollReady ==
    /\ Polling /\ Cardinality(observed) >= Enough
    /\ exec' = "returned"
    /\ UNCHANGED <<left, registered, polled, observed, waker, owner, flag>>

\* Poll::Pending: block_on calls park.
PollPending ==
    /\ Polling /\ polled = Sources /\ Cardinality(observed) < Enough
    /\ exec' = "lock"
    /\ UNCHANGED <<left, registered, polled, observed, waker, owner, flag>>

\* park: state.lock(), at its start or when the condvar wait has ended.
ParkLock ==
    /\ exec \in {"lock", "woken"} /\ owner = Nobody
    /\ exec' = "test" /\ owner' = Executor
    /\ UNCHANGED <<left, registered, polled, observed, waker, flag>>

ParkConsumeUntested ==          \* mutant: "if" for "while" around cv.wait
    /\ exec = "test"
    /\ flag' = FALSE
    /\ exec' = "poll" /\ owner' = Nobody
    /\ polled' = {} /\ observed' = {}
    /\ UNCHANGED <<left, registered, waker>>

\* park: *state is set; clear it, unlock, return to the next poll.
ParkConsume ==
    /\ exec = "test" /\ flag
    /\ flag' = FALSE
    /\ exec' = "poll" /\ owner' = Nobody
    /\ polled' = {} /\ observed' = {}
    /\ UNCHANGED <<left, registered, waker>>

\* park: cv.wait(state) unlocks and sleeps in one step.
ParkWait ==
    /\ exec = "test" /\ ~flag
    /\ exec' = "asleep" /\ owner' = Nobody
    /\ UNCHANGED <<left, registered, polled, observed, waker, flag>>

\* A condvar may wake its waiter without a notification.
SpuriousWakeup ==
    /\ exec = "asleep" /\ exec' = "woken"
    /\ UNCHANGED <<left, registered, polled, observed, waker, owner, flag>>

\* A source on a thread of its own makes progress and calls the waker it holds.
Progress(s) ==
    /\ s \notin Inline /\ left[s] > 0 /\ waker[s] = "idle"
    /\ left' = [left EXCEPT ![s] = @ - 1]
    /\ registered' = registered \ {s}
    /\ waker' = [waker EXCEPT ![s] = IF s \in registered THEN "lock" ELSE "idle"]
    /\ UNCHANGED <<polled, observed, exec, owner, flag>>

\* unpark: state.lock().
UnparkLock(s) ==
    /\ waker[s] = "lock" /\ owner = Nobody
    /\ owner' = s
    /\ waker' = [waker EXCEPT ![s] = "set"]
    /\ UNCHANGED <<left, registered, polled, observed, exec, flag>>

UnparkWithoutFlag(s) ==         \* mutant: unpark only notifies
    /\ waker[s] = "set"
    /\ waker' = [waker EXCEPT ![s] = "notify"]
    /\ UNCHANGED <<left, registered, polled, observed, exec, owner, flag>>

\* unpark: *state = true.
UnparkSet(s) ==
    /\ waker[s] = "set"
    /\ flag' = TRUE
    /\ waker' = [waker EXCEPT ![s] = "notify"]
    /\ UNCHANGED <<left, registered, polled, observed, exec, owner>>

UnparkWithoutNotify(s) ==       \* mutant: unpark only sets the flag
    /\ waker[s] = "notify"
    /\ waker' = [waker EXCEPT ![s] = "idle"] /\ owner' = Nobody
    /\ UNCHANGED <<left, registered, polled, observed, exec, flag>>

\* unpark: cv.notify_one() under the mutex, then unlock.
UnparkNotify(s) ==
    /\ waker[s] = "notify"
    /\ exec' = IF exec = "asleep" THEN "woken" ELSE exec
    /\ waker' = [waker EXCEPT ![s] = "idle"] /\ owner' = Nobody
    /\ UNCHANGED <<left, registered, polled, observed, flag>>

\* block_on has returned; late wakers touch a Parker nobody waits on.
Returned == exec = "returned" /\ UNCHANGED vars

Execute == \/ (\E s \in Sources : PollSource(s)) \/ PollReady \/ PollPending
           \/ ParkLock \/ ParkConsume \/ ParkWait

Next == \/ Execute \/ SpuriousWakeup \/ Returned
        \/ \E s \in Sources : \/ Progress(s) \/ UnparkLock(s)
                              \/ UnparkSet(s) \/ UnparkNotify(s)

Spec == Init /\ [][Next]_vars

\* Threads that can run do, and a thread blocked on the mutex gets it if it
\* is free time and again.  Nothing makes a source progress.
Fairness ==
    /\ WF_vars(Execute)
    /\ \A s \in Sources : /\ SF_vars(UnparkLock(s))
                          /\ WF_vars(UnparkSet(s)) /\ WF_vars(UnparkNotify(s))

FairSpec == Spec /\ Fairness

-----------------------------------------------------------------------------
(* Properties.                                                             *)

\* Every variable keeps its type, and the mutex belongs to the one thread
\* that is between lock and unlock.
TypeOK ==
    /\ left \in [Sources -> Nat]
    /\ registered \in SUBSET Sources
    /\ polled \in SUBSET Sources /\ observed \in SUBSET polled
    /\ exec \in ExecSteps
    /\ waker \in [Sources -> WakerSteps]
    /\ flag \in BOOLEAN
    /\ owner \in Sources \cup {Executor, Nobody}
    /\ owner = Executor <=> exec = "test"
    /\ \A s \in Sources : owner = s <=> waker[s] \in {"set", "notify"}

\* The executor does not sleep on an unpark it has been given: when the flag
\* is set while it sleeps, the source that set it is about to notify it.
NoSleepOnToken ==
    (exec = "asleep" /\ flag) => \E s \in Sources : waker[s] = "notify"

\* No wake-up is lost between a poll that returned Pending and the sleep: as
\* long as the executor is parked although the future has become ready, the
\* flag is set or a wake call that will set it is under way.
ReadyIsNoticed == (Parked /\ Ready) => (flag \/ Waking # {})

\* block_on returns once the future is ready, whatever the sources that have
\* not finished do.
ReadyReturns == Ready ~> (exec = "returned")

Token == INSTANCE ParkToken WITH token <- flag, parked <- Parked

\* Mutex, flag and condvar make park and unpark a token: no poll without an
\* unpark since the last one (no busy loop), however many spurious wake-ups,
\* and two unparks count as one.
ImplementsToken == Token!TokenSpec
=============================================================================
