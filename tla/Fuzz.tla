-------------------------------- MODULE Fuzz --------------------------------
(***************************************************************************)
(* The in-process fuzzer of crates/fuzz/src/lib.rs: run_fuzz with its      *)
(* mutations, minimize, and the files of corpus_dir and crash_dir, which   *)
(* survive the process.  The process may be killed at any step and is then *)
(* started again on the same directories; a write may be cut short.        *)
(*                                                                         *)
(* The target is a function of the input, as fuzz_typed's is: it returns   *)
(* or panics with a message.  Random numbers are free choices.             *)
(***************************************************************************)
EXTENDS Integers, Sequences, FiniteSets, SequencesExt

CONSTANTS
    Bits,          \* bits of a byte (8 in the code)
    CorpusCap,     \* entries up to which the corpus grows (1024 in the code)
    KeepEvery,     \* every so many iterations an input may be kept (16 in the code)
    Messages,      \* panic messages
    Targets,       \* the targets considered: functions from inputs to Results
    Configs,       \* the FuzzConfigs considered
    MaxRuns        \* bound on the number of processes started

Bytes   == 0 .. 2^Bits - 1
Results == Messages \cup {"ok"}

ASSUME FuzzAssumption ==
    /\ Bits \in Nat \ {0} /\ CorpusCap \in Nat /\ KeepEvery \in Nat \ {0}
    /\ MaxRuns \in Nat /\ "ok" \notin Messages
    /\ Configs \subseteq
         [iterations : Nat, max_input_len : Nat, initial_corpus : Seq(Seq(Bytes)),
          minimize_steps : Nat, continue_after_crash : BOOLEAN, dedup_by_message : BOOLEAN,
          dictionary : SUBSET Seq(Bytes), corpus_dir : BOOLEAN, crash_dir : BOOLEAN]

VARIABLES
    cfg, target,   \* the arguments of fuzz
    corpus_files,  \* what corpus_dir holds: from the named input to the content
    crash_bin,     \* the .bin files of crash_dir: from the message to the content
    crash_txt,     \* the .txt files: the messages that have one
    runs,          \* processes started
    phase,         \* "main", "save_input", "remove", "zero", "save_bin", "save_txt", "done"
    corpus, persisted_hashes, seen_crash_messages, failures, completed,
    input,         \* the input being saved or minimized
    current, i, steps, shrunk      \* minimize's locals

disk     == <<corpus_files, crash_bin, crash_txt>>
loop     == <<corpus, persisted_hashes, seen_crash_messages, failures, completed, input>>
minimize == <<current, i, steps, shrunk>>
vars     == <<cfg, target, disk, runs, phase, loop, minimize>>

Panics(x) == target[x] # "ok"
-----------------------------------------------------------------------------
(* mutate: the outcomes of each strategy on x; Declined when it does       *)
(* nothing.                                                                *)

Declined == <<-1>>           \* not an input
IfAny(cond, outcomes) == IF cond THEN outcomes ELSE {Declined}
Truncate(x) == SubSeq(x, 1, IF Len(x) > cfg.max_input_len THEN cfg.max_input_len ELSE Len(x))

FlipBit(x) ==
    IfAny(x # <<>>, {ReplaceAt(x, k, IF (x[k] \div 2^b) % 2 = 1 THEN x[k] - 2^b ELSE x[k] + 2^b) :
                        k \in DOMAIN x, b \in 0 .. Bits - 1})

\* A random byte, or one of the interesting ones.
SetByte(x) == IfAny(x # <<>>, {ReplaceAt(x, k, b) : k \in DOMAIN x, b \in Bytes})

InsertByte(x) ==
    IfAny(Len(x) < cfg.max_input_len,
          {InsertAt(x, k, b) : k \in 1 .. Len(x) + 1, b \in Bytes})

RemoveByte(x) == IfAny(x # <<>>, {RemoveAt(x, k) : k \in DOMAIN x})

\* A head of x and a tail of another corpus entry.
Splice(x) ==
    IfAny(x # <<>>, UNION {
        LET other == corpus[e] IN
        IfAny(other # <<>>, {Truncate(SubSeq(x, 1, a) \o SubSeq(other, b, Len(other))) :
                                a \in 0 .. Len(x), b \in DOMAIN other}) : e \in DOMAIN corpus})

SwapBytes(x) ==
    IfAny(Len(x) > 1, {[x EXCEPT ![a] = x[b], ![b] = x[a]] : a, b \in DOMAIN x})

InsertEntryUntruncated(x) ==         \* mutant: the result may be too long
    IfAny(Len(x) < cfg.max_input_len,
          {SubSeq(x, 1, a) \o d \o SubSeq(x, a + 1, Len(x)) :
                a \in 0 .. Len(x), d \in cfg.dictionary})

InsertEntry(x) ==
    IfAny(Len(x) < cfg.max_input_len,
          {Truncate(SubSeq(x, 1, a) \o d \o SubSeq(x, a + 1, Len(x))) :
                a \in 0 .. Len(x), d \in cfg.dictionary})

OverwriteWithEntry(x) ==
    IfAny(x # <<>>, UNION {
        IfAny(d # <<>>, {[k \in DOMAIN x |-> IF k - a \in DOMAIN d THEN d[k - a] ELSE x[k]] :
                            a \in 0 .. Len(x) - 1}) : d \in cfg.dictionary})

\* Three tries; if all decline, a byte is appended if there is room.
Mutate(x) ==
    LET outcomes == FlipBit(x) \cup SetByte(x) \cup InsertByte(x) \cup RemoveByte(x)
                    \cup Splice(x) \cup SwapBytes(x)
                    \cup (IF cfg.dictionary = {} THEN {}
                          ELSE InsertEntry(x) \cup OverwriteWithEntry(x))
        appended == IF Len(x) < cfg.max_input_len THEN {Append(x, b) : b \in Bytes} ELSE {x}
    IN  (outcomes \ {Declined}) \cup (IF Declined \in outcomes THEN appended ELSE {})

\* One to four mutations of a corpus entry.
MutatedInputs ==
    LET Next_(xs) == UNION {Mutate(x) : x \in xs}
        once == Next_({corpus[e] : e \in DOMAIN corpus})
        twice == Next_(once)
        thrice == Next_(twice)
    IN  once \cup twice \cup thrice \cup Next_(thrice)
-----------------------------------------------------------------------------
(* run_fuzz                                                                *)

Put(f, k, v) == [q \in DOMAIN f \cup {k} |-> IF q = k THEN v ELSE f[q]]
NoFiles == [k \in {} |-> <<>>]

\* The initial corpus and every file of corpus_dir, whatever its name.
LoadCorpus ==
    LET names == IF cfg.corpus_dir THEN SetToSeq(DOMAIN corpus_files) ELSE <<>>
        all == cfg.initial_corpus \o [k \in DOMAIN names |-> corpus_files[names[k]]]
    IN  IF all = <<>> THEN << <<>> >> ELSE all

Init ==
    /\ cfg \in Configs /\ target \in Targets
    /\ corpus_files = NoFiles /\ crash_bin = NoFiles /\ crash_txt = {}
    /\ runs = 1
    /\ phase = "main"
    /\ corpus = LoadCorpus /\ persisted_hashes = ToSet(corpus)
    /\ seen_crash_messages = {} /\ failures = <<>> /\ completed = 0
    /\ input = <<>> /\ current = <<>> /\ i = 1 /\ steps = 0 /\ shrunk = FALSE

\* The process ends, killed or finished, and is started again (without files
\* that is another first run).
Restart ==
    /\ runs < MaxRuns /\ (cfg.corpus_dir \/ cfg.crash_dir)
    /\ runs' = runs + 1
    /\ phase' = "main"
    /\ corpus' = LoadCorpus /\ persisted_hashes' = ToSet(corpus')
    /\ seen_crash_messages' = {} /\ failures' = <<>> /\ completed' = 0
    /\ input' = <<>> /\ current' = <<>> /\ i' = 1 /\ steps' = 0 /\ shrunk' = FALSE
    /\ UNCHANGED <<cfg, target, disk>>

InMain == phase = "main" /\ completed < cfg.iterations

Kept(x) ==
    /\ Len(corpus) < CorpusCap /\ completed % KeepEvery = 0
    /\ x \notin persisted_hashes

ExecuteKeeping(x) ==             \* mutant: an input that panics may be kept, too
    /\ InMain /\ Kept(x)
    /\ completed' = completed + 1
    /\ persisted_hashes' = persisted_hashes \cup {x} /\ corpus' = Append(corpus, x)
    /\ UNCHANGED <<cfg, target, disk, runs, seen_crash_messages, failures, minimize, phase, input>>

\* The target returned: some of the inputs join the corpus.
ExecuteOk(x) ==
    /\ InMain /\ ~Panics(x)
    /\ completed' = completed + 1
    /\ IF Kept(x)
       THEN /\ persisted_hashes' = persisted_hashes \cup {x}
            /\ IF cfg.corpus_dir
               THEN phase' = "save_input" /\ input' = x /\ UNCHANGED corpus
               ELSE corpus' = Append(corpus, x) /\ UNCHANGED <<phase, input>>
       ELSE UNCHANGED <<persisted_hashes, corpus, phase, input>>
    /\ UNCHANGED <<cfg, target, disk, runs, seen_crash_messages, failures, minimize>>

\* What a file can hold after an attempt to write it that did not succeed.
Torn(files, k, x) == {files} \cup {Put(files, k, p) : p \in Prefixes(x) \ {x}}

\* save_input leaves a file that exists alone; its errors are ignored.
SaveInput ==
    /\ phase = "save_input"
    /\ corpus_files' \in IF input \in DOMAIN corpus_files THEN {corpus_files}
                         ELSE {Put(corpus_files, input, input)}
                              \cup Torn(corpus_files, input, input)
    /\ corpus' = Append(corpus, input)
    /\ phase' = "main" /\ input' = <<>>
    /\ UNCHANGED <<cfg, target, crash_bin, crash_txt, runs, persisted_hashes,
                   seen_crash_messages, failures, completed, minimize>>

IsDuplicateIgnored(x) == FALSE   \* mutant: every crash is reported

IsDuplicate(x) == cfg.dedup_by_message /\ target[x] \in seen_crash_messages

\* The target panicked: a new message is remembered and the input minimized.
ExecuteCrash(x) ==
    /\ InMain /\ Panics(x)
    /\ completed' = completed + 1
    /\ seen_crash_messages' = seen_crash_messages \cup {target[x]}
    /\ IF IsDuplicate(x)
       THEN UNCHANGED <<phase, input, current>>
       ELSE phase' = "remove" /\ input' = x /\ current' = x
    /\ UNCHANGED <<i, steps, shrunk>>
    /\ UNCHANGED <<cfg, target, disk, runs, corpus, persisted_hashes, failures>>

\* The iterations are used up.
Finish ==
    /\ phase = "main" /\ completed = cfg.iterations
    /\ phase' = "done"
    /\ UNCHANGED <<cfg, target, disk, runs, loop, minimize>>
-----------------------------------------------------------------------------
(* minimize: bytes are removed in rounds until a round removes none, then  *)
(* each byte is zeroed once.                                               *)

BudgetLeft == steps < cfg.minimize_steps

TryRemoveUnchecked ==            \* mutant: the candidate replaces current whatever it does
    /\ phase = "remove" /\ i <= Len(current) /\ BudgetLeft
    /\ steps' = steps + 1
    /\ current' = RemoveAt(current, i) /\ shrunk' = TRUE
    /\ UNCHANGED <<cfg, target, disk, runs, phase, loop, i>>

TryRemove ==
    /\ phase = "remove" /\ i <= Len(current) /\ BudgetLeft
    /\ steps' = steps + 1
    /\ IF Panics(RemoveAt(current, i))
       THEN current' = RemoveAt(current, i) /\ shrunk' = TRUE /\ UNCHANGED i
       ELSE i' = i + 1 /\ UNCHANGED <<current, shrunk>>
    /\ UNCHANGED <<cfg, target, disk, runs, phase, loop>>

NextRoundOnce ==                 \* mutant: one round only
    /\ phase = "remove" /\ i > Len(current) /\ current # <<>>
    /\ i' = 1 /\ shrunk' = FALSE /\ phase' = "zero"
    /\ UNCHANGED <<cfg, target, disk, runs, loop, current, steps>>

NextRound ==
    /\ phase = "remove" /\ i > Len(current) /\ current # <<>>
    /\ i' = 1 /\ shrunk' = FALSE
    /\ phase' = IF shrunk THEN "remove" ELSE "zero"
    /\ UNCHANGED <<cfg, target, disk, runs, loop, current, steps>>

TryZero ==
    /\ phase = "zero" /\ i <= Len(current) /\ BudgetLeft
    /\ steps' = steps + 1 /\ i' = i + 1
    /\ LET candidate == ReplaceAt(current, i, 0)
       IN  current' = IF Panics(candidate) THEN candidate ELSE current
    /\ UNCHANGED <<cfg, target, disk, runs, phase, loop, shrunk>>

\* minimize returns when nothing is left to remove, or the budget is used up
\* before the next candidate, or all bytes have been zeroed.
Minimized ==
    \/ phase = "remove" /\ (current = <<>> \/ (i <= Len(current) /\ ~BudgetLeft))
    \/ phase = "zero" /\ (i > Len(current) \/ ~BudgetLeft)

message == target[input]         \* of the input before it was minimized

\* The failure joins the report; the loop goes on, or ends.
Report ==
    /\ failures' = Append(failures, [input |-> current, message |-> message,
                                     iteration |-> completed])
    /\ input' = <<>> /\ current' = <<>> /\ i' = 1 /\ steps' = 0 /\ shrunk' = FALSE
    /\ phase' = IF cfg.continue_after_crash THEN "main" ELSE "done"
    /\ UNCHANGED <<cfg, target, runs, corpus, persisted_hashes, seen_crash_messages, completed>>

StartSaveTxtFirst ==             \* mutant: the description is written before the input
    /\ Minimized /\ cfg.crash_dir /\ message \notin DOMAIN crash_bin
    /\ crash_txt' = crash_txt \cup {message}
    /\ phase' = "save_bin"
    /\ UNCHANGED <<cfg, target, corpus_files, crash_bin, runs, loop, minimize>>

ReportUnsaved ==
    /\ Minimized /\ (cfg.crash_dir => message \in DOMAIN crash_bin)
    /\ UNCHANGED disk /\ Report

\* save_crash: only if the message has no file yet.
StartSave ==
    /\ Minimized /\ cfg.crash_dir /\ message \notin DOMAIN crash_bin
    /\ phase' = "save_bin"
    /\ UNCHANGED <<cfg, target, disk, runs, loop, minimize>>

SaveBin ==
    /\ phase = "save_bin"
    /\ crash_bin' = Put(crash_bin, message, current)
    /\ phase' = "save_txt"
    /\ UNCHANGED <<cfg, target, corpus_files, crash_txt, runs, loop, minimize>>

\* The first write fails: save_crash returns, its error is ignored.
SaveBinFails ==
    /\ phase = "save_bin"
    /\ crash_bin' \in Torn(crash_bin, message, current)
    /\ UNCHANGED <<corpus_files, crash_txt>>
    /\ Report

\* A failed write can leave the file, too.
SaveTxt ==
    /\ phase = "save_txt"
    /\ crash_txt' \in {crash_txt, crash_txt \cup {message}}
    /\ UNCHANGED <<corpus_files, crash_bin>>
    /\ Report
-----------------------------------------------------------------------------
Returned == phase = "done" /\ UNCHANGED vars

Next == \/ InMain /\ \E x \in MutatedInputs : ExecuteOk(x) \/ ExecuteCrash(x)
        \/ SaveInput \/ Finish
        \/ TryRemove \/ NextRound \/ TryZero
        \/ ReportUnsaved \/ StartSave \/ SaveBin \/ SaveBinFails \/ SaveTxt
        \/ Restart \/ Returned

Spec == Init /\ [][Next]_vars
-----------------------------------------------------------------------------
(* Properties.                                                             *)

\* x is y with bytes removed and zeroed.
Reduced(x, y) ==
    \E at \in [DOMAIN x -> DOMAIN y] :
        /\ \A a, b \in DOMAIN x : a < b => at[a] < at[b]
        /\ \A a \in DOMAIN x : x[a] \in {0, y[at[a]]}

\* Whatever the budget cuts short, minimize holds an input that panics and is
\* the crashing input with bytes removed or zeroed, and so does the report.
CrashKept ==
    /\ phase \in {"remove", "zero", "save_bin", "save_txt"} =>
            Panics(current) /\ Reduced(current, input)
    /\ \A k \in DOMAIN failures : Panics(failures[k].input)

\* When the removal rounds end with budget left, no single byte can be
\* removed: bytes that became removable only later in a round are not missed.
RemovalMinimal ==
    [][phase = "remove" /\ phase' = "zero" =>
        \A k \in DOMAIN current : ~Panics(RemoveAt(current, k))]_vars

\* The report accounts for every crash message met: each has its failure, and
\* only one under dedup_by_message; without continue_after_crash the run stops
\* at the first crash, otherwise it does all iterations (lib.rs:112-117).
ReportAccounts ==
    phase \in {"main", "done"} =>
        /\ seen_crash_messages = {failures[k].message : k \in DOMAIN failures}
        /\ cfg.dedup_by_message => Len(failures) = Cardinality(seen_crash_messages)
        /\ \A k \in DOMAIN failures : failures[k].iteration \in 1 .. completed
        /\ IF failures # <<>> /\ ~cfg.continue_after_crash
           THEN phase = "done" /\ Len(failures) = 1 /\ completed = failures[1].iteration
           ELSE phase = "done" => completed = cfg.iterations

Longest(c) == {c.max_input_len} \cup {Len(c.initial_corpus[k]) : k \in DOMAIN c.initial_corpus}

\* No sequence of mutations and splices, over any number of processes, makes
\* an input longer than max_input_len and the longest initial corpus entry.
InputsBounded ==
    \A x \in {input} \cup ToSet(corpus) : \E n \in Longest(cfg) : Len(x) <= n

\* The corpus grows by inputs the target survived, each once, up to the cap;
\* what is loaded at the start (torn files included) is not checked.
CorpusGrowsBySurvivors ==
    [][runs' = runs /\ corpus' # corpus =>
        /\ Len(corpus') = Len(corpus) + 1 /\ Len(corpus') <= CorpusCap
        /\ ~Panics(Last(corpus')) /\ Last(corpus') \notin ToSet(corpus)]_vars

\* The .txt file is written last: where there is one, the .bin file is a
\* complete input that panics, whatever was killed or failed before, and in
\* whichever of the processes.
DescribedCrashReplays ==
    \A m \in crash_txt : m \in DOMAIN crash_bin /\ Panics(crash_bin[m])
=============================================================================
