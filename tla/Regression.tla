----------------------------- MODULE Regression ----------------------------
(***************************************************************************)
(* The seed file of one test, shared by the runs that use it: read_seeds   *)
(* and append_seed of crates/pbt/src/regression.rs as run_with and         *)
(* run_strategy_with call them.  Runs are concurrent when two test         *)
(* binaries, or two threads, use the same test name; they may be killed.   *)
(* fs::write truncates the file when it opens it and writes from the start *)
(* afterwards.                                                             *)
(***************************************************************************)
EXTENDS SeedFile, FiniteSets

CONSTANTS
    Runs,           \* the runs of the test, each starts again when it ended
    Seeds,          \* the seeds runs may fail with
    Torn,           \* a number made of the tail of an overwritten line
    InitialFiles,   \* the files a run may find, edited by hand or not
    Interrupts      \* FALSE: no run is killed, no write fails

ASSUME RegressionAssumption ==
    /\ IsFiniteSet(Seeds) /\ Torn \notin Seeds
    /\ InitialFiles \subseteq Seq(Seeds)
    /\ Interrupts \in BOOLEAN

VARIABLES
    overlap,    \* whether runs may read while another is about to write
    file,       \* the seeds in the file
    pc,         \* where each run is
    seeds,      \* the local vector of each run: what it replays or writes
    failed,     \* the seed each run has failed with
    settled     \* history: the file when last no run was about to write

fileVars == <<overlap, file, pc, seeds, failed, settled>>

Steps   == {"idle", "running", "append", "open", "write"}
Writing == {r \in Runs : pc[r] = "write"}

Settle == settled' = IF Writing' = {} THEN file' ELSE settled

-----------------------------------------------------------------------------
FileInit ==
    /\ overlap \in BOOLEAN
    /\ file \in InitialFiles
    /\ pc = [r \in Runs |-> "idle"]
    /\ seeds = [r \in Runs |-> <<>>]
    /\ failed = [r \in Runs |-> Torn]
    /\ settled = file

\* run_with: read_seeds before the run.
Start(r) ==
    /\ pc[r] = "idle"
    /\ seeds' = [seeds EXCEPT ![r] = ReadSeeds(file)]
    /\ pc' = [pc EXCEPT ![r] = "running"]
    /\ UNCHANGED <<file, failed, settled>>

\* The run ends without a failing case.
Finish(r) ==
    /\ pc[r] = "running"
    /\ pc' = [pc EXCEPT ![r] = "idle"]
    /\ UNCHANGED <<file, seeds, failed, settled>>

\* The run ends with Outcome::Failed, by its own seed or by a replayed one.
Fail(r, seed) ==
    /\ pc[r] = "running"
    /\ failed' = [failed EXCEPT ![r] = seed]
    /\ pc' = [pc EXCEPT ![r] = "append"]
    /\ UNCHANGED <<file, seeds, settled>>

\* append_seed: read the file again; nothing to write if the seed is there.
ReadAgain(r) ==
    /\ pc[r] = "append"
    /\ overlap \/ \A q \in Runs : pc[q] \notin {"open", "write"}
    /\ seeds' = [seeds EXCEPT ![r] = AddSeed(ReadSeeds(file), failed[r])]
    /\ pc' = [pc EXCEPT ![r] = IF Contains(ReadSeeds(file), failed[r]) THEN "idle"
                                                                      ELSE "open"]
    /\ UNCHANGED <<file, failed, settled>>

OpenOnly(r) ==                  \* mutant: the file is opened without truncation
    /\ pc[r] = "open"
    /\ pc' = [pc EXCEPT ![r] = "write"]
    /\ UNCHANGED <<file, seeds, failed>> /\ Settle

\* fs::write: open with truncation.
Truncate(r) ==
    /\ pc[r] = "open"
    /\ file' = <<>>
    /\ pc' = [pc EXCEPT ![r] = "write"]
    /\ UNCHANGED <<seeds, failed>> /\ Settle

\* What is left of the old contents behind the new ones.  Seeds have close to
\* the same number of digits, so the cut is in the first line left over.
Leftovers(old, new) ==
    LET rest == SubSeq(old, Len(new) + 1, Len(old))
    IN  {rest} \cup (IF rest = <<>> THEN {} ELSE {<<Torn>> \o Tail(rest)})

\* fs::write: the contents, from the start of the file.
Write(r) ==
    /\ pc[r] = "write"
    /\ \E rest \in Leftovers(file, seeds[r]) : file' = seeds[r] \o rest
    /\ pc' = [pc EXCEPT ![r] = "idle"]
    /\ UNCHANGED <<seeds, failed>> /\ Settle

\* The process is killed, or a file operation fails and its error is dropped.
Interrupt(r) ==
    /\ Interrupts /\ pc[r] # "idle"
    /\ pc' = [pc EXCEPT ![r] = "idle"]
    /\ UNCHANGED <<file, seeds, failed>> /\ Settle

Step(r) ==
    \/ Start(r) \/ Finish(r)
    \/ \E seed \in Seeds \cup ToSet(seeds[r]) : Fail(r, seed)
    \/ ReadAgain(r) \/ Truncate(r) \/ Write(r) \/ Interrupt(r)

FileNext == UNCHANGED overlap /\ \E r \in Runs : Step(r)

FileSpec == FileInit /\ [][FileNext]_fileVars

-----------------------------------------------------------------------------
(* Properties.                                                             *)

Numbers == Seeds \cup {Torn}

\* Whatever overlaps and whatever is killed, the file never holds more than
\* MAX_SEEDS_PER_FILE seeds, unless it was edited to and nothing was written
\* since; the seed a run is about to write is the one it will keep longest.
CapHeld ==
    /\ Len(file) <= MaxSeeds \/ file \in InitialFiles
    /\ ToSet(file) \subseteq Numbers
    /\ \A r \in Runs : pc[r] \in {"open", "write"} =>
          Len(seeds[r]) \in 1 .. MaxSeeds /\ Last(seeds[r]) = failed[r]

Promise == INSTANCE SeedLog WITH log <- ReadSeeds(settled), MayWipe <- Interrupts

\* regression.rs:75-76, a seed is appended and the most recent are kept:
\* without overlap the file is a bounded log, a failure adds its seed as the
\* newest one and costs the oldest at most, and a kill loses nothing or all.
\* (With overlap the run that writes last drops what the other has written.)
ImplementsLog ==
    /\ Promise!LogInit
    /\ [][overlap \/ Promise!LogNext]_(ReadSeeds(settled))
=============================================================================
