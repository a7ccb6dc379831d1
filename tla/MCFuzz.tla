------------------------------- MODULE MCFuzz -------------------------------
(* The targets and FuzzConfigs that TLC runs under Fuzz: bytes of one bit. *)
EXTENDS Fuzz

CONSTANTS MaxLen

Inputs == SeqOf(Bytes, MaxLen)

Ones(x) == Len(SelectSeq(x, LAMBDA b : b = 1))

\* Two targets: the message depends on the number of ones and on the length;
\* a panic on equal ends, where bytes become removable only after others have
\* been removed.
MCTargets ==
    {[x \in Inputs |-> IF Ones(x) > 1 THEN "b" ELSE IF Len(x) = 1 THEN "a" ELSE "ok"],
     [x \in Inputs |-> IF Len(x) > 1 /\ (x[1] = Last(x) \/ Len(x) = 3)
                       THEN IF x[1] = 1 THEN "a" ELSE "b" ELSE "ok"]}

Config(corpora, dictionaries, budgets, continues, dedups, dirs) ==
    [iterations : {2}, max_input_len : {2}, initial_corpus : corpora,
     minimize_steps : budgets, continue_after_crash : continues, dedup_by_message : dedups,
     dictionary : dictionaries, corpus_dir : dirs, crash_dir : dirs]

\* Without directories every option, with them those that matter for the files.
MCConfigs ==
    Config({<<>>, << <<0, 1, 1>> >>}, {{}, {<<1, 1>>}}, {2, 10}, BOOLEAN, BOOLEAN, {FALSE})
    \cup Config({<< <<0, 1, 1>> >>}, {{}}, {10}, {TRUE}, {TRUE}, {TRUE})
=============================================================================
