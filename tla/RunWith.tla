------------------------------ MODULE RunWith ------------------------------
(***************************************************************************)
(* run_with of crates/pbt/src/lib.rs, called again and again for one test: *)
(* it reads the seed file, executes the loop of Runner and writes a        *)
(* failing seed back.  Here the generator is what it is in the code, a     *)
(* function of the seed, of the position in the random stream and of the   *)
(* size hint.  The test, its shrinker and the limits do not change between *)
(* the runs; the seed does (TESTRS_PBT_SEED or the clock).                 *)
(***************************************************************************)
EXTENDS Runner, SeedFile

CONSTANT Draw(_, _, _)  \* Draw(seed, k, size): the value generated after k others

VARIABLES
    seed_file,  \* the seed file of the test
    replay,     \* Config::regression_replay (and a directory for the file)
    active,     \* run_with has read the file and not yet written it
    reported    \* history: the seeds reported by failed runs

runVars == <<vars, seed_file, replay, active, reported>>

-----------------------------------------------------------------------------
RunInit ==
    /\ Init /\ regressions = <<>>
    /\ seed_file = <<>> /\ replay = FALSE /\ active = FALSE /\ reported = {}

\* The next run: a configuration, the seeds of the file, run_loop as Init has it.
ReadFile ==
    /\ ~active /\ active' = TRUE
    /\ replay' \in BOOLEAN
    /\ cfg' \in Configs
    /\ regressions' = IF replay' THEN ReadSeeds(seed_file) ELSE <<>>
    /\ phase' = "replay" /\ replayed' = 0 /\ size' = 0
    /\ passed' = 0 /\ discarded' = 0 /\ skipped' = 0
    /\ classes' = NoClasses /\ failure' = NoFailure
    /\ current' = NoValue /\ attempts' = 0 /\ tried' = 0 /\ best' = NoValue
    /\ outcome' = Running
    /\ UNCHANGED <<shrink, verdict, seed_file, reported>>

\* Every replayed seed starts a random stream of its own.
ReplayValue == Draw(regressions[replayed + 1], 0, ReplaySize)

MainValueShared ==              \* mutant: replaying advances the main stream
    Draw(cfg.seed, passed + discarded + skipped + replayed, RampSize)

\* The main loop's stream starts from the configured seed.
MainValue == Draw(cfg.seed, passed + discarded + skipped, RampSize)

\* A step of run_loop, on the value the generator returns.
Execute ==
    /\ active
    /\ \/ \E o \in Outcomes :
            replayed < Len(regressions) /\ ReplaySeed(ReplayValue, o)
       \/ StartMain
       \/ GiveUp
       \/ \E o \in Outcomes : InMain /\ Case(MainValue, o, {})
       \/ AllPassed
       \/ Shrink
    /\ UNCHANGED <<seed_file, replay, active, reported>>

\* run_loop has returned: append_seed if the run failed, report, and be done.
WriteFile ==
    /\ active /\ phase = "done"
    /\ active' = FALSE
    /\ IF outcome.status = "Failed"
       THEN /\ reported' = reported \cup {outcome.seed}
            /\ seed_file' = IF replay /\ ~Contains(ReadSeeds(seed_file), outcome.seed)
                            THEN AddSeed(ReadSeeds(seed_file), outcome.seed) ELSE seed_file
       ELSE UNCHANGED <<reported, seed_file>>
    /\ UNCHANGED <<vars, replay>>

RunNext == ReadFile \/ Execute \/ WriteFile

RunSpec == RunInit /\ [][RunNext]_runVars

-----------------------------------------------------------------------------
(* Properties.                                                             *)

\* The value a regression seed stands for.
Replayed(seed) == Draw(seed, 0, ReplaySize)

\* A seed in the file whose value still fails decides the run before the main
\* loop: the first such seed is the one reported, as case 0.
ReplayDecides ==
    (active /\ phase = "done") =>
        LET failing == {i \in DOMAIN regressions :
                            verdict[Replayed(regressions[i])] = {"Fail"}}
        IN  IF failing = {} THEN outcome.status = "Failed" => outcome.attempt > 0
            ELSE /\ outcome.status = "Failed" /\ outcome.attempt = 0
                 /\ \E i \in failing : /\ outcome.seed = regressions[i]
                                       /\ \A j \in failing : i <= j

\* The seed of a failed run is in the file afterwards, even when it is full.
FailureSaved ==
    (~active /\ replay /\ outcome.status = "Failed") => Contains(seed_file, outcome.seed)

\* crates/pbt/README.md:446: a run given a reported seed as TESTRS_PBT_SEED
\* fails again, whatever is in the file by now.
EnvSeedReproduces ==
    (active /\ phase = "done" /\ cfg.seed \in reported) => outcome.status = "Failed"

\* crates/pbt/README.md:442-445, tests/regression_replay.rs:8: running the test
\* again is enough, the seed in the file reproduces the failure.
RerunReproduces ==
    (active /\ phase = "done" /\ \E i \in DOMAIN regressions : regressions[i] \in reported)
        => outcome.status = "Failed"
=============================================================================
