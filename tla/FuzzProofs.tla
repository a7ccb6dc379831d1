----------------------------- MODULE FuzzProofs -----------------------------
(***************************************************************************)
(* Theorems about Fuzz: what the files of crash_dir hold after any number  *)
(* of kills and failed writes, what the report accounts for, how long the  *)
(* inputs get, what minimize keeps, and how the corpus grows.              *)
(***************************************************************************)
EXTENDS Fuzz, FiniteSetTheorems, SequenceTheorems, TLAPS

Minimizing == {"remove", "zero", "save_bin", "save_txt"}

-----------------------------------------------------------------------------
(* The files.                                                              *)

\* From the crash to the report, minimize holds an input that panics.
PanicsWhileMinimized == phase \in Minimizing => Panics(current)

\* A .bin file is written only for a message that has none, and has the
\* minimized input in it when the .txt file follows.
FileOfMessage ==
    /\ phase = "save_bin" => message \notin DOMAIN crash_bin
    /\ phase = "save_txt" => message \in DOMAIN crash_bin /\ crash_bin[message] = current

FilesInv == PanicsWhileMinimized /\ FileOfMessage /\ DescribedCrashReplays

LEMMA FilesInit == Init => FilesInv
  BY DEF Init, FilesInv, PanicsWhileMinimized, FileOfMessage, DescribedCrashReplays, Minimizing

LEMMA FilesStep == FilesInv /\ [Next]_vars => FilesInv'
<1> SUFFICES ASSUME FilesInv, [Next]_vars PROVE FilesInv'
  OBVIOUS
<1> USE DEF FilesInv, PanicsWhileMinimized, FileOfMessage, DescribedCrashReplays, Minimizing,
            Panics, message, disk
<1>1. CASE UNCHANGED vars
  BY <1>1 DEF vars, loop, minimize
<1>2. CASE InMain /\ \E x \in MutatedInputs : ExecuteOk(x) \/ ExecuteCrash(x)
  BY <1>2 DEF InMain, ExecuteOk, ExecuteCrash, minimize
<1>3. CASE SaveInput \/ Finish
  BY <1>3 DEF SaveInput, Finish, loop, minimize
<1>4. CASE TryRemove \/ NextRound \/ TryZero
  BY <1>4 DEF TryRemove, NextRound, TryZero, loop, minimize
<1>5. CASE ReportUnsaved \/ SaveTxt
  BY <1>5 DEF ReportUnsaved, SaveTxt, Report, Minimized
<1>6. CASE StartSave
  BY <1>6 DEF StartSave, Minimized, loop, minimize
<1>7. CASE SaveBin
  <2> USE <1>7 DEF SaveBin
  <2>1. UNCHANGED <<target, input, current, crash_txt>> /\ phase = "save_bin" /\ phase' = "save_txt"
    BY DEF loop, minimize
  <2>2. crash_bin' = Put(crash_bin, message, current)
    OBVIOUS
  <2>3. /\ DOMAIN crash_bin' = DOMAIN crash_bin \cup {message}
        /\ crash_bin'[message] = current
        /\ \A q \in DOMAIN crash_bin : q # message => crash_bin'[q] = crash_bin[q]
    BY <2>2 DEF Put
  <2> QED
    BY <2>1, <2>3
<1>8. CASE SaveBinFails
  <2> USE <1>8 DEF SaveBinFails
  <2>1. UNCHANGED <<target, crash_txt>> /\ phase = "save_bin" /\ phase' \in {"main", "done"}
    BY DEF Report
  <2>2. \A m \in DOMAIN crash_bin : m \in DOMAIN crash_bin' /\ crash_bin'[m] = crash_bin[m]
    <3>1. CASE crash_bin' = crash_bin
      BY <3>1
    <3>2. ASSUME NEW p, crash_bin' = Put(crash_bin, message, p)
          PROVE  \A m \in DOMAIN crash_bin : m \in DOMAIN crash_bin' /\ crash_bin'[m] = crash_bin[m]
      BY <2>1, <3>2 DEF Put
    <3> QED
      BY <3>1, <3>2 DEF Torn
  <2> QED
    BY <2>1, <2>2
<1>9. CASE Restart
  BY <1>9 DEF Restart
<1>10. CASE Returned
  BY <1>10 DEF Returned, vars, loop, minimize
<1> QED
  BY <1>1, <1>2, <1>3, <1>4, <1>5, <1>6, <1>7, <1>8, <1>9, <1>10 DEF Next

\* Where crash_dir has a description, the file next to it holds a complete
\* input that panics, after any kills, restarts and failed writes.
THEOREM DescribedReplays == Spec => []DescribedCrashReplays
<1>1. FilesInv => DescribedCrashReplays
  BY DEF FilesInv
<1> QED
  BY <1>1, FilesInit, FilesStep, PTL DEF Spec
-----------------------------------------------------------------------------
(* The report.                                                             *)

Reported == {failures[k].message : k \in DOMAIN failures}

\* The failures so far: a list, of earlier iterations; without
\* continue_after_crash there is none before the end.
FailuresSoFar ==
    /\ completed \in Nat
    /\ \E S : failures \in Seq(S)
    /\ \A k \in DOMAIN failures : failures[k].iteration \in 1 .. completed
    /\ ~cfg.continue_after_crash => phase = "done" \/ failures = <<>>

\* Between crashes each message met has its failure; while a crash is
\* minimized and saved, that of its message is still missing.
MessagesMet ==
    /\ IsFiniteSet(seen_crash_messages)
    /\ phase \in Minimizing =>
        /\ completed > 0
        /\ seen_crash_messages = Reported \cup {message}
        /\ cfg.dedup_by_message =>
              message \notin Reported /\ Len(failures) = Cardinality(Reported)
    /\ phase \notin Minimizing =>
        /\ seen_crash_messages = Reported
        /\ cfg.dedup_by_message => Len(failures) = Cardinality(Reported)

WhereItEnds ==
    phase = "done" =>
        IF failures # <<>> /\ ~cfg.continue_after_crash
        THEN Len(failures) = 1 /\ completed = failures[1].iteration
        ELSE completed = cfg.iterations

ReportInv == FailuresSoFar /\ MessagesMet /\ WhereItEnds

LEMMA ReportInit == Init => ReportInv
<1> SUFFICES ASSUME Init PROVE ReportInv
  OBVIOUS
<1>1. failures = <<>> /\ seen_crash_messages = {} /\ completed = 0 /\ phase = "main"
  BY DEF Init
<1>2. failures \in Seq({}) /\ Reported = {} /\ Len(failures) = 0
  BY <1>1 DEF Reported
<1> QED
  BY <1>1, <1>2, FS_EmptySet DEF ReportInv, FailuresSoFar, MessagesMet, WhereItEnds, Minimizing

\* The failure that joins the report is the missing one.
LEMMA ReportAppends ==
    ASSUME ReportInv, phase \in Minimizing, Report
    PROVE  ReportInv'
<1> DEFINE e == [input |-> current, message |-> message, iteration |-> completed]
<1>1. /\ failures' = Append(failures, e)
      /\ phase' = IF cfg.continue_after_crash THEN "main" ELSE "done"
      /\ UNCHANGED <<cfg, seen_crash_messages, completed>>
  BY DEF Report
<1>2. PICK S : failures \in Seq(S)
  BY DEF ReportInv, FailuresSoFar
<1>3. /\ failures' \in Seq(S \cup {e})
      /\ Len(failures') = Len(failures) + 1 /\ Len(failures) \in Nat
      /\ DOMAIN failures' = 1 .. Len(failures) + 1 /\ DOMAIN failures = 1 .. Len(failures)
      /\ \A k \in DOMAIN failures : failures'[k] = failures[k]
      /\ failures'[Len(failures) + 1] = e
  <2>1. failures \in Seq(S \cup {e})
    BY <1>2
  <2> QED
    BY <1>1, <2>1
<1>4. Reported' = Reported \cup {message}
  <2>1. \A k \in DOMAIN failures' : k \in DOMAIN failures \/ k = Len(failures) + 1
    BY <1>3
  <2>2. Reported' \subseteq Reported \cup {message}
    BY <1>3, <2>1 DEF Reported
  <2>3. Len(failures) + 1 \in DOMAIN failures' /\ DOMAIN failures \subseteq DOMAIN failures'
    BY <1>3
  <2>4. Reported \cup {message} \subseteq Reported'
    BY <1>3, <2>3 DEF Reported
  <2> QED
    BY <2>2, <2>4
<1>5. FailuresSoFar'
  <2>1. completed \in Nat /\ completed > 0 /\ (~cfg.continue_after_crash => failures = <<>>)
    BY DEF ReportInv, FailuresSoFar, MessagesMet, Minimizing
  <2>2. \A k \in DOMAIN failures' : failures'[k].iteration \in 1 .. completed
    BY <1>3, <2>1 DEF ReportInv, FailuresSoFar
  <2> QED
    BY <1>1, <1>3, <2>1, <2>2 DEF FailuresSoFar
<1>6. MessagesMet'
  <2>1. IsFiniteSet(Reported)
    BY FS_Subset DEF ReportInv, MessagesMet
  <2>2. cfg.dedup_by_message => Len(failures') = Cardinality(Reported')
    BY <1>3, <1>4, <2>1, FS_AddElement DEF ReportInv, MessagesMet
  <2> QED
    BY <1>1, <1>4, <2>2 DEF ReportInv, MessagesMet, Minimizing
<1>7. WhereItEnds'
  <2>1. CASE cfg.continue_after_crash
    BY <1>1, <2>1 DEF WhereItEnds
  <2>2. CASE ~cfg.continue_after_crash
    <3>1. failures = <<>>
      BY <2>2 DEF ReportInv, FailuresSoFar, Minimizing
    <3>2. Len(failures') = 1 /\ failures'[1] = e /\ failures' # <<>>
      BY <1>3, <3>1
    <3> QED
      BY <1>1, <2>2, <3>2 DEF WhereItEnds
  <2> QED
    BY <2>1, <2>2
<1> QED
  BY <1>5, <1>6, <1>7 DEF ReportInv

\* A crash that is no duplicate under dedup_by_message is a new message.
LEMMA CrashCounted ==
    ASSUME ReportInv, NEW x, ExecuteCrash(x)
    PROVE  ReportInv'
<1>1. /\ phase = "main" /\ completed' = completed + 1
      /\ seen_crash_messages' = seen_crash_messages \cup {target[x]}
      /\ UNCHANGED <<cfg, target, failures>>
  BY DEF ExecuteCrash, InMain
<1>2. IsFiniteSet(seen_crash_messages')
  BY <1>1, FS_AddElement DEF ReportInv, MessagesMet
<1>3. FailuresSoFar'
  BY <1>1 DEF ReportInv, FailuresSoFar
<1>4. Reported' = Reported /\ seen_crash_messages = Reported
  BY <1>1 DEF ReportInv, MessagesMet, Reported, Minimizing
<1>5. CASE IsDuplicate(x)
  <2>1. seen_crash_messages' = seen_crash_messages /\ phase' = phase
    BY <1>1, <1>5 DEF IsDuplicate, ExecuteCrash
  <2> QED
    BY <1>1, <1>3, <1>4, <2>1 DEF ReportInv, MessagesMet, WhereItEnds, Minimizing
<1>6. CASE ~IsDuplicate(x)
  <2>1. phase' = "remove" /\ message' = target[x]
    BY <1>1, <1>6 DEF ExecuteCrash, message
  <2>2. cfg.dedup_by_message => target[x] \notin Reported
    BY <1>4, <1>6 DEF IsDuplicate
  <2>3. MessagesMet'
    BY <1>1, <1>2, <1>4, <2>1, <2>2 DEF ReportInv, FailuresSoFar, MessagesMet, Minimizing
  <2> QED
    BY <1>3, <2>1, <2>3 DEF ReportInv, WhereItEnds
<1> QED
  BY <1>5, <1>6

LEMMA ReportStep == ReportInv /\ [Next]_vars => ReportInv'
<1> SUFFICES ASSUME ReportInv, [Next]_vars PROVE ReportInv'
  OBVIOUS
<1>0. ASSUME UNCHANGED <<cfg, target, input, seen_crash_messages, failures, completed>>,
             phase' = phase \/ (phase \in Minimizing /\ phase' \in Minimizing)
                            \/ (phase = "save_input" /\ phase' = "main")
      PROVE  ReportInv'
  BY <1>0 DEF ReportInv, FailuresSoFar, MessagesMet, WhereItEnds, Minimizing, Reported, message
<1>1. CASE UNCHANGED vars
  BY <1>0, <1>1 DEF vars, loop
<1>2. ASSUME NEW x, ExecuteOk(x) PROVE ReportInv'
  <2>1. /\ phase = "main" /\ phase' \in {"main", "save_input"}
        /\ completed' = completed + 1
        /\ UNCHANGED <<cfg, failures, seen_crash_messages>>
    BY <1>2 DEF ExecuteOk, InMain
  <2>2. FailuresSoFar'
    BY <2>1 DEF ReportInv, FailuresSoFar
  <2>3. MessagesMet' /\ WhereItEnds'
    BY <2>1 DEF ReportInv, MessagesMet, WhereItEnds, Minimizing, Reported
  <2> QED
    BY <2>2, <2>3 DEF ReportInv
<1>3. CASE InMain /\ \E x \in MutatedInputs : ExecuteOk(x) \/ ExecuteCrash(x)
  BY <1>2, <1>3, CrashCounted
<1>4. CASE SaveInput
  <2>1. /\ phase = "save_input" /\ phase' = "main"
        /\ UNCHANGED <<cfg, seen_crash_messages, failures, completed>>
    BY <1>4 DEF SaveInput
  <2> QED
    BY <2>1 DEF ReportInv, FailuresSoFar, MessagesMet, WhereItEnds, Minimizing, Reported
<1>5. CASE Finish
  <2>1. /\ phase = "main" /\ phase' = "done" /\ completed = cfg.iterations
        /\ UNCHANGED <<cfg, seen_crash_messages, failures, completed>>
    BY <1>5 DEF Finish, loop
  <2> QED
    BY <2>1 DEF ReportInv, FailuresSoFar, MessagesMet, WhereItEnds, Minimizing, Reported
<1>6. CASE TryRemove \/ NextRound \/ TryZero
  BY <1>0, <1>6 DEF TryRemove, NextRound, TryZero, loop, Minimizing
<1>7. CASE StartSave \/ SaveBin
  BY <1>0, <1>7 DEF StartSave, SaveBin, Minimized, loop, Minimizing
<1>8. CASE ReportUnsaved \/ SaveBinFails \/ SaveTxt
  <2>1. phase \in Minimizing /\ Report
    BY <1>8 DEF ReportUnsaved, SaveBinFails, SaveTxt, Minimized, Minimizing
  <2> QED
    BY <2>1, ReportAppends
<1>9. CASE Restart
  <2>1. failures' = <<>> /\ seen_crash_messages' = {} /\ completed' = 0 /\ phase' = "main"
    BY <1>9 DEF Restart
  <2>2. failures' \in Seq({}) /\ Reported' = {} /\ Len(failures') = 0
    BY <2>1 DEF Reported
  <2> QED
    BY <2>1, <2>2, FS_EmptySet DEF ReportInv, FailuresSoFar, MessagesMet, WhereItEnds, Minimizing
<1>10. CASE Returned
  BY <1>1, <1>10 DEF Returned
<1> QED
  BY <1>1, <1>3, <1>4, <1>5, <1>6, <1>7, <1>8, <1>9, <1>10 DEF Next

LEMMA AccountsFromInv == ReportInv => ReportAccounts
<1> SUFFICES ASSUME ReportInv, phase \in {"main", "done"} PROVE ReportAccounts
  BY DEF ReportAccounts
<1>1. phase \notin Minimizing
  BY DEF Minimizing
<1> QED
  BY <1>1 DEF ReportInv, FailuresSoFar, MessagesMet, WhereItEnds, ReportAccounts, Reported

\* The report accounts for every crash message met, whatever the target, the
\* mutations and the minimizer do, and through failed writes and restarts.
THEOREM ReportComplete == Spec => []ReportAccounts
  BY ReportInit, ReportStep, AccountsFromInv, PTL DEF Spec
-----------------------------------------------------------------------------
(* Inputs: how long they get.                                              *)

\* An input the fuzzer may hold: no longer than max_input_len, or than the
\* longest entry of the initial corpus.
Fits(x) == x \in Seq(Int) /\ \E n \in Longest(cfg) : Len(x) <= n

LEMMA ConfigTypes ==
    ASSUME cfg \in Configs
    PROVE  /\ cfg.max_input_len \in Nat /\ cfg.initial_corpus \in Seq(Seq(Int))
           /\ \A d \in cfg.dictionary : d \in Seq(Int)
           /\ \A n \in Longest(cfg) : n \in Nat
<1>1. Bytes \subseteq Int
  BY DEF Bytes
<1>2. /\ cfg.max_input_len \in Nat /\ cfg.initial_corpus \in Seq(Seq(Bytes))
      /\ cfg.dictionary \subseteq Seq(Bytes)
  BY FuzzAssumption
<1>3. Seq(Bytes) \subseteq Seq(Int)
  BY <1>1, SeqMonotonic
<1>4. cfg.initial_corpus \in Seq(Seq(Int))
  BY <1>2, <1>3, SeqMonotonic
<1>5. \A k \in DOMAIN cfg.initial_corpus : Len(cfg.initial_corpus[k]) \in Nat
  BY <1>4, LenProperties
<1> QED
  BY <1>2, <1>3, <1>4, <1>5 DEF Longest

\* What is short enough fits.
LEMMA ShortFits ==
    ASSUME cfg \in Configs, NEW y \in Seq(Int)
    PROVE  /\ Len(y) <= cfg.max_input_len => Fits(y)
           /\ \A x : Fits(x) /\ Len(y) <= Len(x) => Fits(y)
<1>1. Len(y) \in Nat
  BY LenProperties
<1>2. Len(y) <= cfg.max_input_len => Fits(y)
  BY DEF Fits, Longest
<1>3. ASSUME NEW x, Fits(x), Len(y) <= Len(x)
      PROVE  Fits(y)
  <2>1. PICK n \in Longest(cfg) : Len(x) <= n
    BY <1>3 DEF Fits
  <2>2. Len(x) \in Nat /\ n \in Nat
    BY <1>3, <2>1, ConfigTypes, LenProperties DEF Fits
  <2>3. Len(y) <= n
    BY <1>1, <1>3, <2>1, <2>2
  <2> QED
    BY <2>3 DEF Fits
<1> QED
  BY <1>2, <1>3

\* Head and tail of a sequence, and what lies between two positions.
LEMMA Slices ==
    ASSUME NEW S, NEW x \in Seq(S), NEW m \in 1 .. Len(x) + 1, NEW n \in 0 .. Len(x), m <= n + 1
    PROVE  /\ SubSeq(x, m, n) \in Seq(S) /\ Len(SubSeq(x, m, n)) = n - m + 1
           /\ \A k \in 1 .. n - m + 1 : SubSeq(x, m, n)[k] = x[m + k - 1]
<1>1. Len(x) \in Nat /\ \A k \in 1 .. Len(x) : x[k] \in S
  BY LenProperties, ElementOfSeq
<1>2. \A k \in m .. n : x[k] \in S
  BY <1>1
<1>3. m \in Int /\ n \in Int
  BY <1>1
<1> QED
  BY <1>1, <1>2, <1>3, SubSeqProperties

LEMMA TruncateFits ==
    ASSUME cfg \in Configs, NEW x \in Seq(Int)
    PROVE  Fits(Truncate(x))
<1> DEFINE n == IF Len(x) > cfg.max_input_len THEN cfg.max_input_len ELSE Len(x)
<1>1. Len(x) \in Nat /\ cfg.max_input_len \in Nat
  BY LenProperties, ConfigTypes
<1>2. n \in 0 .. Len(x) /\ n <= cfg.max_input_len
  BY <1>1
<1>3. 1 \in 1 .. Len(x) + 1
  BY <1>1
<1> HIDE DEF n
<1>4. SubSeq(x, 1, n) \in Seq(Int) /\ Len(SubSeq(x, 1, n)) = n
  BY <1>1, <1>2, <1>3, Slices
<1>5. Truncate(x) = SubSeq(x, 1, n)
  BY DEF Truncate, n
<1> QED
  BY <1>2, <1>4, <1>5, ShortFits

\* What SequencesExt does at a position of a sequence.
LEMMA RemoveAtFacts ==
    ASSUME NEW S, NEW x \in Seq(S), NEW k \in 1 .. Len(x)
    PROVE  /\ RemoveAt(x, k) \in Seq(S) /\ Len(RemoveAt(x, k)) = Len(x) - 1
           /\ \A j \in 1 .. Len(x) - 1 : RemoveAt(x, k)[j] = x[IF j < k THEN j ELSE j + 1]
<1> DEFINE s == SubSeq(x, 1, k - 1)
           t == SubSeq(x, k + 1, Len(x))
<1>1. Len(x) \in Nat
  BY LenProperties
<1>2. /\ s \in Seq(S) /\ Len(s) = k - 1
      /\ \A j \in 1 .. k - 1 : s[j] = x[j]
  BY <1>1, Slices
<1>3. /\ t \in Seq(S) /\ Len(t) = Len(x) - k
      /\ \A j \in 1 .. Len(x) - k : t[j] = x[k + j]
  <2>1. k + 1 \in 1 .. Len(x) + 1 /\ Len(x) \in 0 .. Len(x) /\ k + 1 <= Len(x) + 1
    BY <1>1
  <2>2. /\ t \in Seq(S) /\ Len(t) = Len(x) - (k + 1) + 1
        /\ \A j \in 1 .. Len(x) - (k + 1) + 1 : t[j] = x[(k + 1) + j - 1]
    BY <2>1, Slices
  <2> QED
    BY <1>1, <2>2
<1> HIDE DEF s, t
<1>4. /\ s \o t \in Seq(S) /\ Len(s \o t) = Len(s) + Len(t)
      /\ \A j \in 1 .. Len(s) + Len(t) :
            (s \o t)[j] = IF j <= Len(s) THEN s[j] ELSE t[j - Len(s)]
  BY <1>2, <1>3, ConcatProperties
<1>5. RemoveAt(x, k) = s \o t
  BY DEF RemoveAt, s, t
<1>6. ASSUME NEW j \in 1 .. Len(x) - 1
      PROVE  RemoveAt(x, k)[j] = x[IF j < k THEN j ELSE j + 1]
  <2>1. j \in 1 .. Len(s) + Len(t)
    BY <1>1, <1>2, <1>3
  <2>2. CASE j < k
    BY <1>1, <1>2, <1>4, <1>5, <2>1, <2>2
  <2>3. CASE j >= k
    <3>1. j - Len(s) \in 1 .. Len(x) - k /\ ~(j <= Len(s)) /\ k + (j - Len(s)) = j + 1
      BY <1>1, <1>2, <2>3
    <3> QED
      BY <1>1, <1>3, <1>4, <1>5, <2>1, <2>3, <3>1
  <2> QED
    BY <1>1, <2>2, <2>3
<1>7. RemoveAt(x, k) \in Seq(S) /\ Len(RemoveAt(x, k)) = Len(x) - 1
  BY <1>1, <1>2, <1>3, <1>4, <1>5
<1> QED
  BY <1>6, <1>7

LEMMA ReplaceAtFacts ==
    ASSUME NEW S, NEW x \in Seq(S), NEW k \in 1 .. Len(x), NEW e \in S
    PROVE  /\ ReplaceAt(x, k, e) \in Seq(S) /\ Len(ReplaceAt(x, k, e)) = Len(x)
           /\ \A j \in 1 .. Len(x) : ReplaceAt(x, k, e)[j] = IF j = k THEN e ELSE x[j]
  BY ExceptSeq DEF ReplaceAt

\* Something put between the head and the tail of an input.
LEMMA InsertedFits ==
    ASSUME NEW S, NEW x \in Seq(S), NEW d \in Seq(S), NEW a \in 0 .. Len(x)
    PROVE  /\ SubSeq(x, 1, a) \o d \o SubSeq(x, a + 1, Len(x)) \in Seq(S)
           /\ Len(SubSeq(x, 1, a) \o d \o SubSeq(x, a + 1, Len(x))) = Len(x) + Len(d)
<1> DEFINE s == SubSeq(x, 1, a)
           t == SubSeq(x, a + 1, Len(x))
<1>1. Len(x) \in Nat /\ Len(d) \in Nat
  BY LenProperties
<1>2. s \in Seq(S) /\ Len(s) = a
  BY <1>1, Slices
<1>3. t \in Seq(S) /\ Len(t) = Len(x) - a
  <2>1. a + 1 \in 1 .. Len(x) + 1 /\ Len(x) \in 0 .. Len(x) /\ a + 1 <= Len(x) + 1
    BY <1>1
  <2>2. t \in Seq(S) /\ Len(t) = Len(x) - (a + 1) + 1
    BY <2>1, Slices
  <2> QED
    BY <1>1, <2>2
<1> HIDE DEF s, t
<1>4. s \o d \in Seq(S) /\ Len(s \o d) = a + Len(d)
  BY <1>2, ConcatProperties
<1>5. s \o d \o t \in Seq(S) /\ Len(s \o d \o t) = a + Len(d) + (Len(x) - a)
  <2> DEFINE u == s \o d
  <2>1. u \in Seq(S) /\ Len(u) = a + Len(d)
    BY <1>4
  <2> HIDE DEF u
  <2>2. u \o t \in Seq(S) /\ Len(u \o t) = Len(u) + Len(t)
    BY <1>3, <2>1, ConcatProperties
  <2> QED
    BY <1>3, <2>1, <2>2 DEF u
<1>6. s \o d \o t \in Seq(S) /\ Len(s \o d \o t) = Len(x) + Len(d)
  BY <1>1, <1>5
<1> QED
  BY <1>6 DEF s, t

-----------------------------------------------------------------------------
(* The mutations.                                                          *)

\* The corpus that Splice draws from.
CorpusFits == corpus \in Seq(Seq(Int)) /\ \A e \in DOMAIN corpus : Fits(corpus[e])

\* An input changed in place fits if it did before.
LEMMA InPlaceFits ==
    ASSUME cfg \in Configs, NEW x, Fits(x), NEW k \in DOMAIN x, NEW b \in Int
    PROVE  Fits(ReplaceAt(x, k, b))
<1>1. x \in Seq(Int) /\ k \in 1 .. Len(x) /\ Len(x) \in Nat
  BY LenProperties DEF Fits
<1> DEFINE y == ReplaceAt(x, k, b)
<1>2. y \in Seq(Int) /\ Len(y) = Len(x)
  BY <1>1, ExceptSeq DEF ReplaceAt
<1> HIDE DEF y
<1>3. Fits(y)
  BY <1>1, <1>2, ShortFits
<1> QED
  BY <1>3 DEF y

LEMMA FlipBitFits ==
    ASSUME cfg \in Configs, NEW x, Fits(x), NEW y \in FlipBit(x), y # Declined
    PROVE  Fits(y)
<1>1. PICK k \in DOMAIN x, b \in 0 .. Bits - 1 :
        y = ReplaceAt(x, k, IF (x[k] \div 2^b) % 2 = 1 THEN x[k] - 2^b ELSE x[k] + 2^b)
  BY DEF FlipBit, IfAny
<1>2. x[k] \in Int
  BY ElementOfSeq, LenProperties DEF Fits
<1>3. b \in Nat
  BY FuzzAssumption
<1>4. 2^b \in Int
  BY <1>3
<1> QED
  BY <1>1, <1>2, <1>4, InPlaceFits

LEMMA SetByteFits ==
    ASSUME cfg \in Configs, NEW x, Fits(x), NEW y \in SetByte(x), y # Declined
    PROVE  Fits(y)
<1>1. PICK k \in DOMAIN x, b \in Bytes : y = ReplaceAt(x, k, b)
  BY DEF SetByte, IfAny
<1>2. b \in Int
  BY DEF Bytes
<1> QED
  BY <1>1, <1>2, InPlaceFits

LEMMA InsertByteFits ==
    ASSUME cfg \in Configs, NEW x, Fits(x), NEW y \in InsertByte(x), y # Declined
    PROVE  Fits(y)
<1>1. /\ Len(x) < cfg.max_input_len
      /\ \E k \in 1 .. Len(x) + 1, b \in Bytes : y = InsertAt(x, k, b)
  BY DEF InsertByte, IfAny
<1>2. PICK k \in 1 .. Len(x) + 1, b \in Bytes : y = InsertAt(x, k, b)
  BY <1>1
<1>3. x \in Seq(Int) /\ Len(x) \in Nat /\ <<b>> \in Seq(Int) /\ Len(<<b>>) = 1
  BY LenProperties DEF Fits, Bytes
<1>4. k - 1 \in 0 .. Len(x) /\ (k - 1) + 1 = k
  BY <1>3
<1>5. y = SubSeq(x, 1, k - 1) \o <<b>> \o SubSeq(x, (k - 1) + 1, Len(x))
  BY <1>2, <1>4 DEF InsertAt
<1>6. y \in Seq(Int) /\ Len(y) = Len(x) + 1
  BY <1>3, <1>4, <1>5, InsertedFits
<1>7. Len(y) <= cfg.max_input_len
  BY <1>1, <1>3, <1>6, ConfigTypes
<1> QED
  BY <1>6, <1>7, ShortFits

LEMMA RemoveByteFits ==
    ASSUME cfg \in Configs, NEW x, Fits(x), NEW y \in RemoveByte(x), y # Declined
    PROVE  Fits(y)
<1>1. PICK k \in DOMAIN x : y = RemoveAt(x, k)
  BY DEF RemoveByte, IfAny
<1>2. x \in Seq(Int) /\ k \in 1 .. Len(x) /\ Len(x) \in Nat
  BY LenProperties DEF Fits
<1>3. y \in Seq(Int) /\ Len(y) = Len(x) - 1
  BY <1>1, <1>2, RemoveAtFacts
<1> QED
  BY <1>2, <1>3, ShortFits

LEMMA SpliceFits ==
    ASSUME cfg \in Configs, CorpusFits, NEW x, Fits(x), NEW y \in Splice(x), y # Declined
    PROVE  Fits(y)
<1>1. PICK e \in DOMAIN corpus :
        y \in IfAny(corpus[e] # <<>>,
                    {Truncate(SubSeq(x, 1, a) \o SubSeq(corpus[e], b, Len(corpus[e]))) :
                        a \in 0 .. Len(x), b \in DOMAIN corpus[e]})
  BY DEF Splice, IfAny
<1>2. PICK a \in 0 .. Len(x), b \in DOMAIN corpus[e] :
        y = Truncate(SubSeq(x, 1, a) \o SubSeq(corpus[e], b, Len(corpus[e])))
  BY <1>1 DEF IfAny
<1>3. x \in Seq(Int) /\ Len(x) \in Nat /\ 1 \in 1 .. Len(x) + 1
  BY LenProperties DEF Fits
<1>4. SubSeq(x, 1, a) \in Seq(Int)
  BY <1>3, Slices
<1> DEFINE other == corpus[e]
<1>5. other \in Seq(Int) /\ Len(other) \in Nat /\ b \in 1 .. Len(other)
  BY LenProperties DEF CorpusFits, Fits
<1>6. b \in 1 .. Len(other) + 1 /\ Len(other) \in 0 .. Len(other) /\ b <= Len(other) + 1
  BY <1>5
<1>7. SubSeq(other, b, Len(other)) \in Seq(Int)
  BY <1>5, <1>6, Slices
<1> QED
  BY <1>2, <1>4, <1>7, ConcatProperties, TruncateFits

LEMMA SwapBytesFits ==
    ASSUME cfg \in Configs, NEW x, Fits(x), NEW y \in SwapBytes(x), y # Declined
    PROVE  Fits(y)
<1>1. PICK a \in DOMAIN x, b \in DOMAIN x : y = [x EXCEPT ![a] = x[b], ![b] = x[a]]
  BY DEF SwapBytes, IfAny
<1>2. /\ x \in Seq(Int) /\ a \in 1 .. Len(x) /\ b \in 1 .. Len(x) /\ Len(x) \in Nat
      /\ x[a] \in Int /\ x[b] \in Int
  BY LenProperties, ElementOfSeq DEF Fits
<1> DEFINE z == [x EXCEPT ![a] = x[b]]
<1>3. z \in Seq(Int) /\ Len(z) = Len(x)
  BY <1>2, ExceptSeq
<1>4. y = [z EXCEPT ![b] = x[a]]
  BY <1>1
<1> HIDE DEF z
<1>5. y \in Seq(Int) /\ Len(y) = Len(x)
  BY <1>2, <1>3, <1>4, ExceptSeq
<1> QED
  BY <1>2, <1>5, ShortFits

LEMMA InsertEntryFits ==
    ASSUME cfg \in Configs, NEW x, Fits(x), NEW y \in InsertEntry(x), y # Declined
    PROVE  Fits(y)
<1>1. PICK a \in 0 .. Len(x), d \in cfg.dictionary :
        y = Truncate(SubSeq(x, 1, a) \o d \o SubSeq(x, a + 1, Len(x)))
  BY DEF InsertEntry, IfAny
<1>2. x \in Seq(Int) /\ d \in Seq(Int)
  BY ConfigTypes DEF Fits
<1>3. SubSeq(x, 1, a) \o d \o SubSeq(x, a + 1, Len(x)) \in Seq(Int)
  BY <1>2, InsertedFits
<1> QED
  BY <1>1, <1>3, TruncateFits

LEMMA OverwriteWithEntryFits ==
    ASSUME cfg \in Configs, NEW x, Fits(x), NEW y \in OverwriteWithEntry(x), y # Declined
    PROVE  Fits(y)
<1>1. PICK d \in cfg.dictionary :
        y \in IfAny(d # <<>>, {[k \in DOMAIN x |-> IF k - a \in DOMAIN d THEN d[k - a] ELSE x[k]] :
                                  a \in 0 .. Len(x) - 1})
  BY DEF OverwriteWithEntry, IfAny
<1>2. PICK a \in 0 .. Len(x) - 1 :
        y = [k \in DOMAIN x |-> IF k - a \in DOMAIN d THEN d[k - a] ELSE x[k]]
  BY <1>1 DEF IfAny
<1>3. /\ x \in Seq(Int) /\ Len(x) \in Nat /\ DOMAIN x = 1 .. Len(x)
      /\ \A k \in DOMAIN x : x[k] \in Int
  BY LenProperties, ElementOfSeq DEF Fits
<1>4. \A k \in DOMAIN d : d[k] \in Int
  BY ConfigTypes, LenProperties, ElementOfSeq
<1>5. y \in [1 .. Len(x) -> Int]
  BY <1>2, <1>3, <1>4
<1>6. y \in Seq(Int) /\ Len(y) = Len(x)
  BY <1>3, <1>5
<1> QED
  BY <1>3, <1>6, ShortFits

LEMMA MutateFits ==
    ASSUME cfg \in Configs, CorpusFits, NEW x, Fits(x), NEW y \in Mutate(x)
    PROVE  Fits(y)
<1> DEFINE outcomes == FlipBit(x) \cup SetByte(x) \cup InsertByte(x) \cup RemoveByte(x)
                       \cup Splice(x) \cup SwapBytes(x)
                       \cup (IF cfg.dictionary = {} THEN {}
                             ELSE InsertEntry(x) \cup OverwriteWithEntry(x))
           appended == IF Len(x) < cfg.max_input_len THEN {Append(x, b) : b \in Bytes} ELSE {x}
<1>1. y \in outcomes \ {Declined} \/ y \in appended
  BY DEF Mutate
<1>2. CASE y \in outcomes \ {Declined}
  BY <1>2, FlipBitFits, SetByteFits, InsertByteFits, RemoveByteFits, SpliceFits, SwapBytesFits,
     InsertEntryFits, OverwriteWithEntryFits
<1>3. CASE y \in appended
  <2>1. CASE y = x
    BY <2>1
  <2>2. ASSUME Len(x) < cfg.max_input_len, NEW b \in Bytes, y = Append(x, b)
        PROVE  Fits(y)
    <3>1. x \in Seq(Int) /\ Len(x) \in Nat /\ b \in Int
      BY LenProperties DEF Fits, Bytes
    <3>2. y \in Seq(Int) /\ Len(y) = Len(x) + 1
      BY <2>2, <3>1, AppendProperties
    <3>3. Len(y) <= cfg.max_input_len
      BY <2>2, <3>1, <3>2, ConfigTypes
    <3> QED
      BY <3>2, <3>3, ShortFits
  <2> QED
    BY <1>3, <2>1, <2>2
<1> QED
  BY <1>1, <1>2, <1>3

LEMMA MutatedFits ==
    ASSUME cfg \in Configs, CorpusFits
    PROVE  \A x \in MutatedInputs : Fits(x)
<1> DEFINE Step(xs) == UNION {Mutate(x) : x \in xs}
           once == Step({corpus[e] : e \in DOMAIN corpus})
           twice == Step(once)
           thrice == Step(twice)
<1>1. ASSUME NEW xs, \A x \in xs : Fits(x)
      PROVE  \A y \in Step(xs) : Fits(y)
  BY <1>1, MutateFits
<1>2. \A x \in {corpus[e] : e \in DOMAIN corpus} : Fits(x)
  BY DEF CorpusFits
<1>3. MutatedInputs = once \cup twice \cup thrice \cup Step(thrice)
  BY DEF MutatedInputs
<1> HIDE DEF Step
<1>4. \A x \in once : Fits(x)
  BY <1>1, <1>2
<1>5. \A x \in twice : Fits(x)
  BY <1>1, <1>4
<1>6. \A x \in thrice : Fits(x)
  BY <1>1, <1>5
<1> QED
  BY <1>1, <1>3, <1>4, <1>5, <1>6

-----------------------------------------------------------------------------
(* The inputs the processes hold and leave on the disk.                    *)

InputsInv ==
    /\ cfg \in Configs
    /\ CorpusFits /\ Fits(input)
    /\ current \in Seq(Int) /\ i \in Nat \ {0}
    /\ IsFiniteSet(DOMAIN corpus_files)
    /\ \A k \in DOMAIN corpus_files : Fits(corpus_files[k])

\* The files of a directory, in some order.
LEMMA ListOfFinite ==
    ASSUME NEW S, IsFiniteSet(S)
    PROVE  SetToSeq(S) \in Seq(S)
<1>1. Cardinality(S) \in Nat /\ ExistsBijection(1 .. Cardinality(S), S)
  BY FS_CardinalityType
<1>2. PICK f \in Bijection(1 .. Cardinality(S), S) : TRUE
  BY <1>1 DEF ExistsBijection
<1>3. f \in [1 .. Cardinality(S) -> S] /\ IsInjective(f)
  BY <1>2 DEF Bijection, Injection, IsInjective
<1>4. SetToSeq(S) \in [1 .. Cardinality(S) -> S]
  BY <1>3 DEF SetToSeq
<1> QED
  BY <1>1, <1>4

LEMMA EmptyFits ==
    ASSUME cfg \in Configs
    PROVE  <<>> \in Seq(Int) /\ Fits(<<>>)
<1>1. <<>> \in Seq(Int) /\ Len(<<>>) = 0
  OBVIOUS
<1>2. cfg.max_input_len \in Longest(cfg) /\ 0 <= cfg.max_input_len
  BY ConfigTypes DEF Longest
<1> QED
  BY <1>1, <1>2 DEF Fits

\* The corpus a process starts with fits if the files of corpus_dir do.
LEMMA LoadedFits ==
    ASSUME cfg \in Configs, IsFiniteSet(DOMAIN corpus_files),
           \A k \in DOMAIN corpus_files : Fits(corpus_files[k])
    PROVE  /\ LoadCorpus \in Seq(Seq(Int))
           /\ \A e \in DOMAIN LoadCorpus : Fits(LoadCorpus[e])
<1> DEFINE names == IF cfg.corpus_dir THEN SetToSeq(DOMAIN corpus_files) ELSE <<>>
           loaded == [k \in DOMAIN names |-> corpus_files[names[k]]]
           first == cfg.initial_corpus
           all == first \o loaded
<1>1. names \in Seq(DOMAIN corpus_files)
  <2>1. SetToSeq(DOMAIN corpus_files) \in Seq(DOMAIN corpus_files)
    BY ListOfFinite
  <2>2. <<>> \in Seq(DOMAIN corpus_files)
    OBVIOUS
  <2> QED
    BY <2>1, <2>2
<1>2. /\ Len(names) \in Nat /\ DOMAIN names = 1 .. Len(names)
      /\ \A k \in DOMAIN names : Fits(corpus_files[names[k]])
  BY <1>1, LenProperties, ElementOfSeq
<1>3. /\ loaded \in Seq(Seq(Int)) /\ Len(loaded) = Len(names)
      /\ \A k \in 1 .. Len(loaded) : Fits(loaded[k])
  <2>1. loaded \in [1 .. Len(names) -> Seq(Int)]
    BY <1>2 DEF Fits
  <2> QED
    BY <1>2, <2>1
<1>4. /\ first \in Seq(Seq(Int)) /\ Len(first) \in Nat
      /\ \A k \in 1 .. Len(first) : Fits(first[k])
  <2>1. first \in Seq(Seq(Int)) /\ Len(first) \in Nat /\ DOMAIN first = 1 .. Len(first)
    BY ConfigTypes, LenProperties
  <2>2. ASSUME NEW k \in 1 .. Len(first)
        PROVE  Fits(first[k])
    <3>1. first[k] \in Seq(Int) /\ Len(first[k]) \in Nat
      BY <2>1, ElementOfSeq, LenProperties
    <3>2. Len(first[k]) \in Longest(cfg)
      BY <2>1 DEF Longest
    <3> QED
      BY <3>1, <3>2 DEF Fits
  <2> QED
    BY <2>1, <2>2
<1> HIDE DEF names, loaded, first
<1>5. /\ all \in Seq(Seq(Int)) /\ Len(all) = Len(first) + Len(loaded)
      /\ \A e \in 1 .. Len(all) : Fits(all[e])
  <2>1. /\ all \in Seq(Seq(Int)) /\ Len(all) = Len(first) + Len(loaded)
        /\ \A e \in 1 .. Len(first) + Len(loaded) :
              all[e] = IF e <= Len(first) THEN first[e] ELSE loaded[e - Len(first)]
    BY <1>3, <1>4, ConcatProperties
  <2>2. Len(loaded) \in Nat
    BY <1>2, <1>3
  <2>3. ASSUME NEW e \in 1 .. Len(all)
        PROVE  Fits(all[e])
    <3>1. CASE e <= Len(first)
      BY <1>4, <2>1, <2>2, <3>1
    <3>2. CASE e > Len(first)
      <4>1. e - Len(first) \in 1 .. Len(loaded) /\ ~(e <= Len(first))
        BY <1>4, <2>1, <2>2, <3>2
      <4> QED
        BY <1>3, <2>1, <4>1
    <3> QED
      BY <1>4, <2>1, <2>2, <3>1, <3>2
  <2> QED
    BY <2>1, <2>3
<1>6. LoadCorpus = IF all = <<>> THEN << <<>> >> ELSE all
  BY DEF LoadCorpus, names, loaded, first
<1>7. CASE all = <<>>
  <2>1. LoadCorpus \in Seq(Seq(Int)) /\ DOMAIN LoadCorpus = {1} /\ LoadCorpus[1] = <<>>
    BY <1>6, <1>7, EmptyFits
  <2> QED
    BY <2>1, EmptyFits
<1>8. CASE all # <<>>
  <2>1. LoadCorpus = all /\ DOMAIN all = 1 .. Len(all)
    BY <1>5, <1>6, <1>8, LenProperties
  <2> QED
    BY <1>5, <2>1
<1> QED
  BY <1>7, <1>8

LEMMA InputsInit == Init => InputsInv
<1> SUFFICES ASSUME Init PROVE InputsInv
  OBVIOUS
<1>1. /\ cfg \in Configs /\ corpus = LoadCorpus /\ input = <<>> /\ current = <<>> /\ i = 1
      /\ DOMAIN corpus_files = {}
  BY DEF Init, NoFiles
<1>2. IsFiniteSet(DOMAIN corpus_files)
  BY <1>1, FS_EmptySet
<1> QED
  BY <1>1, <1>2, LoadedFits, EmptyFits DEF InputsInv, CorpusFits

\* The corpus keeps fitting when an input that fits joins it.
LEMMA AppendedFits ==
    ASSUME CorpusFits, NEW x, Fits(x), cfg' = cfg, corpus' = Append(corpus, x)
    PROVE  CorpusFits'
<1>1. corpus \in Seq(Seq(Int)) /\ Len(corpus) \in Nat /\ x \in Seq(Int)
  BY LenProperties DEF CorpusFits, Fits
<1>2. /\ corpus' \in Seq(Seq(Int)) /\ Len(corpus') = Len(corpus) + 1
      /\ \A e \in 1 .. Len(corpus) : corpus'[e] = corpus[e]
      /\ corpus'[Len(corpus) + 1] = x
  BY <1>1, AppendProperties
<1>3. DOMAIN corpus = 1 .. Len(corpus) /\ DOMAIN corpus' = 1 .. Len(corpus) + 1
  BY <1>1, <1>2, LenProperties
<1>4. \A e \in DOMAIN corpus' : e \in DOMAIN corpus \/ e = Len(corpus) + 1
  BY <1>1, <1>3
<1>5. \A e \in DOMAIN corpus' : Fits(corpus'[e])
  BY <1>2, <1>3, <1>4 DEF CorpusFits
<1>6. \A y : Fits(y) => Fits(y)'
  BY DEF Fits
<1> QED
  BY <1>2, <1>5 DEF CorpusFits, Fits

LEMMA InputsStep == InputsInv /\ [Next]_vars => InputsInv'
<1> SUFFICES ASSUME InputsInv, [Next]_vars PROVE InputsInv'
  OBVIOUS
<1>0. cfg' = cfg /\ cfg \in Configs
  BY DEF InputsInv, Next, vars, ExecuteOk, ExecuteCrash, SaveInput, Finish, TryRemove, NextRound,
     TryZero, ReportUnsaved, StartSave, SaveBin, SaveBinFails, SaveTxt, Report, Restart, Returned
<1>a. ASSUME UNCHANGED <<corpus, corpus_files>>, Fits(input'), current' \in Seq(Int), i' \in Nat \ {0}
      PROVE  InputsInv'
  BY <1>0, <1>a DEF InputsInv, CorpusFits, Fits
<1>1. CASE UNCHANGED vars
  BY <1>a, <1>1 DEF vars, disk, loop, minimize, InputsInv
<1>2. ASSUME NEW x \in MutatedInputs, ExecuteOk(x) PROVE InputsInv'
  <2>1. Fits(x)
    BY MutatedFits DEF InputsInv
  <2>2. UNCHANGED <<corpus_files, current, i>> /\ (input' = x \/ input' = input)
    BY <1>2 DEF ExecuteOk, disk, minimize
  <2>3. CASE corpus' = corpus
    BY <1>a, <2>1, <2>2, <2>3 DEF InputsInv
  <2>4. CASE corpus' = Append(corpus, x)
    <3>1. CorpusFits'
      BY <1>0, <2>1, <2>4, AppendedFits DEF InputsInv
    <3> QED
      BY <1>0, <2>1, <2>2, <3>1 DEF InputsInv, Fits
  <2> QED
    BY <1>2, <2>3, <2>4 DEF ExecuteOk
<1>3. ASSUME NEW x \in MutatedInputs, ExecuteCrash(x) PROVE InputsInv'
  <2>1. Fits(x) /\ x \in Seq(Int)
    BY MutatedFits DEF InputsInv, Fits
  <2>2. /\ UNCHANGED <<corpus, corpus_files>> /\ (input' = x \/ input' = input)
        /\ current' = x \/ current' = current
        /\ i' = i
    BY <1>3 DEF ExecuteCrash, disk
  <2> QED
    BY <1>a, <2>1, <2>2 DEF InputsInv
<1>4. CASE SaveInput
  <2>1. corpus' = Append(corpus, input) /\ input' = <<>> /\ current' = current /\ i' = i
    BY <1>4 DEF SaveInput, minimize
  <2>2. CorpusFits'
    BY <1>0, <2>1, AppendedFits DEF InputsInv
  <2>3. Fits(input') /\ current' \in Seq(Int) /\ i' \in Nat \ {0}
    BY <1>0, <2>1, EmptyFits DEF InputsInv
  <2>4. \A p \in Prefixes(input) : Fits(p)
    <3> SUFFICES ASSUME NEW l \in 0 .. Len(input) PROVE Fits(SubSeq(input, 1, l))
      BY DEF Prefixes
    <3>1. input \in Seq(Int) /\ Len(input) \in Nat
      BY LenProperties DEF InputsInv, Fits
    <3>2. SubSeq(input, 1, l) \in Seq(Int) /\ Len(SubSeq(input, 1, l)) = l /\ l <= Len(input)
      BY <3>1, Slices
    <3> QED
      BY <1>0, <3>2, ShortFits DEF InputsInv
  <2>5. ASSUME NEW p, Fits(p), corpus_files' = Put(corpus_files, input, p)
        PROVE  /\ IsFiniteSet(DOMAIN corpus_files')
               /\ \A k \in DOMAIN corpus_files' : Fits(corpus_files'[k])
    <3>1. DOMAIN corpus_files' = DOMAIN corpus_files \cup {input}
      BY <2>5 DEF Put
    <3>2. IsFiniteSet(DOMAIN corpus_files')
      BY <3>1, FS_AddElement DEF InputsInv
    <3>3. \A k \in DOMAIN corpus_files' : corpus_files'[k] = IF k = input THEN p ELSE corpus_files[k]
      BY <2>5 DEF Put
    <3>4. \A k \in DOMAIN corpus_files' : Fits(corpus_files'[k])
      BY <2>5, <3>1, <3>3 DEF InputsInv
    <3> QED
      BY <3>2, <3>4
  <2>6. \/ corpus_files' = corpus_files
        \/ \E p \in {input} \cup Prefixes(input) : corpus_files' = Put(corpus_files, input, p)
    BY <1>4 DEF SaveInput, Torn
  <2>7. /\ IsFiniteSet(DOMAIN corpus_files')
        /\ \A k \in DOMAIN corpus_files' : Fits(corpus_files'[k])
    BY <2>4, <2>5, <2>6 DEF InputsInv
  <2> QED
    BY <1>0, <2>2, <2>3, <2>7 DEF InputsInv, Fits
<1>5. CASE Finish \/ StartSave \/ SaveBin
  <2>1. UNCHANGED <<corpus, corpus_files, input, current, i>>
    BY <1>5 DEF Finish, StartSave, SaveBin, disk, loop, minimize
  <2> QED
    BY <1>a, <2>1 DEF InputsInv
<1>6. CASE TryRemove \/ NextRound \/ TryZero
  <2>1. UNCHANGED <<corpus, corpus_files, input>>
    BY <1>6 DEF TryRemove, NextRound, TryZero, disk, loop
  <2>0. i' \in Nat \ {0}
    BY <1>6 DEF TryRemove, NextRound, TryZero, InputsInv
  <2>2. CASE current' = current
    BY <1>a, <2>0, <2>1, <2>2 DEF InputsInv
  <2>3. CASE current' # current
    <3>1. i \in 1 .. Len(current) /\ current \in Seq(Int)
      BY <1>6, <2>3, LenProperties DEF TryRemove, NextRound, TryZero, InputsInv
    <3>2. current' \in {RemoveAt(current, i), ReplaceAt(current, i, 0)}
      BY <1>6, <2>3 DEF TryRemove, NextRound, TryZero
    <3>3. RemoveAt(current, i) \in Seq(Int)
      BY <3>1, RemoveAtFacts
    <3>4. ReplaceAt(current, i, 0) \in Seq(Int)
      BY <3>1, ExceptSeq DEF ReplaceAt
    <3> QED
      BY <1>a, <2>0, <2>1, <3>2, <3>3, <3>4 DEF InputsInv
  <2> QED
    BY <2>2, <2>3
<1>7. CASE ReportUnsaved \/ SaveBinFails \/ SaveTxt
  <2>1. UNCHANGED <<corpus, corpus_files>> /\ input' = <<>> /\ current' = <<>> /\ i' = 1
    BY <1>7 DEF ReportUnsaved, SaveBinFails, SaveTxt, Report, disk
  <2> QED
    BY <1>0, <1>a, <2>1, EmptyFits
<1>8. CASE Restart
  <2>1. /\ UNCHANGED corpus_files /\ corpus' = LoadCorpus /\ input' = <<>> /\ current' = <<>> /\ i' = 1
    BY <1>8 DEF Restart, disk
  <2>2. CorpusFits'
    BY <1>0, <2>1, LoadedFits DEF InputsInv, CorpusFits, Fits
  <2> QED
    BY <1>0, <2>1, <2>2, EmptyFits DEF InputsInv, Fits
<1>9. CASE Returned
  BY <1>1, <1>9 DEF Returned
<1> QED
  BY <1>1, <1>2, <1>3, <1>4, <1>5, <1>6, <1>7, <1>8, <1>9 DEF Next

-----------------------------------------------------------------------------
(* minimize.                                                               *)

\* Between crashes the minimizer's position is where a round starts.
Idle == phase \notin Minimizing => i = 1 /\ ~shrunk

\* While a round has removed nothing, the bytes before its position cannot be
\* removed.
RoundTried ==
    phase = "remove" /\ ~shrunk =>
        \A k \in DOMAIN current : k < i => ~Panics(RemoveAt(current, k))

\* What minimize holds is the crashing input with bytes removed or zeroed, and
\* the failures reported hold inputs that panic.
CrashHeld ==
    /\ phase \in Minimizing => Panics(current) /\ Reduced(current, input)
    /\ \E S : failures \in Seq(S)
    /\ \A k \in DOMAIN failures : Panics(failures[k].input)

MinimizeInv == Idle /\ RoundTried /\ CrashHeld

LEMMA ReducedSelf == \A x : Reduced(x, x)
<1> SUFFICES ASSUME NEW x PROVE Reduced(x, x)
  OBVIOUS
<1> DEFINE at == [a \in DOMAIN x |-> a]
<1>1. at \in [DOMAIN x -> DOMAIN x]
  OBVIOUS
<1> QED
  BY <1>1 DEF Reduced

\* Removing a byte keeps the embedding into the crashing input.
LEMMA ReducedRemoveAt ==
    ASSUME NEW S, NEW x \in Seq(S), NEW y, Reduced(x, y), NEW k \in 1 .. Len(x)
    PROVE  Reduced(RemoveAt(x, k), y)
<1>1. Len(x) \in Nat /\ DOMAIN x = 1 .. Len(x)
  BY LenProperties
<1> DEFINE r == RemoveAt(x, k)
           up(j) == IF j < k THEN j ELSE j + 1
<1>2. /\ r \in Seq(S) /\ Len(r) = Len(x) - 1
      /\ \A j \in 1 .. Len(x) - 1 : r[j] = x[up(j)]
  BY RemoveAtFacts
<1> HIDE DEF r
<1>3. DOMAIN r = 1 .. Len(x) - 1
  BY <1>2, LenProperties
<1>4. PICK at \in [DOMAIN x -> DOMAIN y] :
        /\ \A a, b \in DOMAIN x : a < b => at[a] < at[b]
        /\ \A a \in DOMAIN x : x[a] \in {0, y[at[a]]}
  BY DEF Reduced
<1>5. \A j \in DOMAIN r : up(j) \in DOMAIN x
  BY <1>1, <1>3
<1>6. \A a, b \in DOMAIN r : a < b => up(a) < up(b)
  BY <1>1, <1>3
<1> HIDE DEF up
<1> DEFINE new == [j \in DOMAIN r |-> at[up(j)]]
<1>7. new \in [DOMAIN r -> DOMAIN y]
  BY <1>4, <1>5
<1>8. \A a, b \in DOMAIN r : a < b => new[a] < new[b]
  BY <1>4, <1>5, <1>6
<1>9. \A a \in DOMAIN r : r[a] \in {0, y[new[a]]}
  BY <1>2, <1>3, <1>4, <1>5
<1> HIDE DEF new
<1>10. Reduced(r, y)
  BY <1>7, <1>8, <1>9 DEF Reduced
<1> QED
  BY <1>10 DEF r

LEMMA ReducedZeroed ==
    ASSUME NEW x, NEW y, Reduced(x, y), NEW k \in DOMAIN x
    PROVE  Reduced(ReplaceAt(x, k, 0), y)
<1> DEFINE r == ReplaceAt(x, k, 0)
<1>1. DOMAIN r = DOMAIN x /\ \A j \in DOMAIN x : r[j] = IF j = k THEN 0 ELSE x[j]
  BY DEF ReplaceAt
<1>2. PICK at \in [DOMAIN x -> DOMAIN y] :
        /\ \A a, b \in DOMAIN x : a < b => at[a] < at[b]
        /\ \A a \in DOMAIN x : x[a] \in {0, y[at[a]]}
  BY DEF Reduced
<1> HIDE DEF r
<1>3. Reduced(r, y)
  BY <1>1, <1>2 DEF Reduced
<1> QED
  BY <1>3 DEF r

LEMMA MinimizeInit == Init => MinimizeInv
<1> SUFFICES ASSUME Init PROVE MinimizeInv
  OBVIOUS
<1>1. failures \in Seq({}) /\ DOMAIN failures = {}
  BY DEF Init
<1> QED
  BY <1>1 DEF Init, MinimizeInv, Idle, RoundTried, CrashHeld, Minimizing

\* The minimized input joins the report, and the minimizer is reset.
LEMMA ReportMinimize ==
    ASSUME MinimizeInv, Report, phase \in Minimizing
    PROVE  MinimizeInv'
<1> DEFINE e == [input |-> current, message |-> message, iteration |-> completed]
<1>1. /\ failures' = Append(failures, e) /\ i' = 1 /\ ~shrunk'
      /\ phase' \in {"main", "done"} /\ target' = target
  BY DEF Report
<1>2. PICK S : failures \in Seq(S)
  BY DEF MinimizeInv, CrashHeld
<1>3. /\ failures' \in Seq(S \cup {e})
      /\ \A k \in DOMAIN failures' : \/ k \in DOMAIN failures /\ failures'[k] = failures[k]
                                     \/ failures'[k] = e
  <2>1. failures \in Seq(S \cup {e})
    BY <1>2
  <2> QED
    BY <1>1, <2>1
<1>4. \A k \in DOMAIN failures' : Panics(failures'[k].input)
  BY <1>3 DEF MinimizeInv, CrashHeld
<1> QED
  BY <1>1, <1>3, <1>4 DEF MinimizeInv, Idle, RoundTried, CrashHeld, Minimizing, Panics

LEMMA MinimizeStep == InputsInv /\ MinimizeInv /\ [Next]_vars => MinimizeInv'
<1> SUFFICES ASSUME InputsInv, MinimizeInv, [Next]_vars PROVE MinimizeInv'
  OBVIOUS
<1> USE DEF MinimizeInv
<1>0. current \in Seq(Int) /\ Len(current) \in Nat /\ DOMAIN current = 1 .. Len(current)
      /\ i \in Nat \ {0}
  BY LenProperties DEF InputsInv
<1>a. ASSUME UNCHANGED <<target, failures, i, shrunk, current, input>>,
             \/ phase' = phase
             \/ phase \notin Minimizing /\ phase' \notin Minimizing
             \/ phase \in Minimizing /\ phase' \in Minimizing \ {"remove"}
      PROVE  MinimizeInv'
  BY <1>a DEF Idle, RoundTried, CrashHeld, Minimizing, Panics
<1>1. CASE UNCHANGED vars
  BY <1>a, <1>1 DEF vars, loop, minimize
<1>2. ASSUME NEW x, ExecuteOk(x) PROVE MinimizeInv'
  <2>1. /\ phase = "main" /\ phase' \in {"main", "save_input"}
        /\ UNCHANGED <<target, failures, i, shrunk, current>>
    BY <1>2 DEF ExecuteOk, InMain, minimize
  <2> QED
    BY <2>1 DEF Idle, RoundTried, CrashHeld, Minimizing, Panics
<1>3. ASSUME NEW x \in MutatedInputs, ExecuteCrash(x) PROVE MinimizeInv'
  <2>1. /\ phase = "main" /\ Panics(x) /\ UNCHANGED <<target, failures, i, shrunk>>
        /\ \/ phase' = phase /\ UNCHANGED <<input, current>>
           \/ phase' = "remove" /\ input' = x /\ current' = x
    BY <1>3 DEF ExecuteCrash, InMain
  <2>2. i = 1 /\ ~shrunk
    BY <2>1 DEF Idle, Minimizing
  <2>3. CASE phase' = phase /\ UNCHANGED <<input, current>>
    BY <1>a, <2>1, <2>3
  <2>4. CASE phase' = "remove" /\ input' = x /\ current' = x
    <3>1. Idle' /\ CrashHeld'
      BY <2>1, <2>4, ReducedSelf DEF Idle, CrashHeld, Minimizing, Panics
    <3>2. RoundTried'
      <4>1. x \in Seq(Int)
        BY MutatedFits DEF InputsInv, Fits
      <4>2. \A k \in DOMAIN x : ~(k < 1)
        BY <4>1, LenProperties
      <4> QED
        BY <2>1, <2>2, <2>4, <4>2 DEF RoundTried
    <3> QED
      BY <3>1, <3>2
  <2> QED
    BY <2>1, <2>3, <2>4
<1>4. CASE SaveInput
  <2>1. /\ phase = "save_input" /\ phase' = "main"
        /\ UNCHANGED <<target, failures, i, shrunk, current>>
    BY <1>4 DEF SaveInput, minimize
  <2> QED
    BY <2>1 DEF Idle, RoundTried, CrashHeld, Minimizing, Panics
<1>5. CASE Finish \/ StartSave \/ SaveBin
  BY <1>a, <1>5 DEF Finish, StartSave, SaveBin, Minimized, loop, minimize, Minimizing
<1>6. CASE TryRemove
  <2>1. /\ phase = "remove" /\ phase' = "remove" /\ i \in 1 .. Len(current)
        /\ UNCHANGED <<target, failures, input>>
    BY <1>0, <1>6 DEF TryRemove, loop
  <2>2. Panics(current) /\ Reduced(current, input)
    BY <2>1 DEF CrashHeld, Minimizing
  <2>3. CASE Panics(RemoveAt(current, i))
    <3>1. current' = RemoveAt(current, i) /\ shrunk'
      BY <1>6, <2>3 DEF TryRemove
    <3>2. Reduced(current', input)
      BY <1>0, <2>1, <2>2, <3>1, ReducedRemoveAt
    <3> QED
      BY <2>1, <2>3, <3>1, <3>2 DEF Idle, RoundTried, CrashHeld, Minimizing, Panics
  <2>4. CASE ~Panics(RemoveAt(current, i))
    <3>1. i' = i + 1 /\ UNCHANGED <<current, shrunk>>
      BY <1>6, <2>4 DEF TryRemove
    <3>2. ASSUME ~shrunk, NEW k \in DOMAIN current, k < i + 1
          PROVE  ~Panics(RemoveAt(current, k))
      <4>1. k < i \/ k = i
        BY <1>0, <3>2
      <4> QED
        BY <2>1, <2>4, <3>2, <4>1 DEF RoundTried
    <3> QED
      BY <2>1, <2>2, <3>1, <3>2 DEF Idle, RoundTried, CrashHeld, Minimizing, Panics
  <2> QED
    BY <2>3, <2>4
<1>7. CASE NextRound
  <2>1. /\ phase = "remove" /\ phase' \in {"remove", "zero"} /\ i' = 1
        /\ UNCHANGED <<target, failures, input, current>>
    BY <1>7 DEF NextRound, loop
  <2>2. \A k \in DOMAIN current : ~(k < 1)
    BY <1>0
  <2> QED
    BY <2>1, <2>2 DEF Idle, RoundTried, CrashHeld, Minimizing, Panics
<1>8. CASE TryZero
  <2>1. /\ phase = "zero" /\ phase' = "zero" /\ i \in DOMAIN current
        /\ UNCHANGED <<target, failures, input>>
        /\ \/ current' = current
           \/ Panics(current') /\ current' = ReplaceAt(current, i, 0)
    BY <1>0, <1>8 DEF TryZero, loop, Panics
  <2>2. Reduced(current, input)
    BY <2>1 DEF CrashHeld, Minimizing
  <2>3. Reduced(current', input)
    BY <2>1, <2>2, ReducedZeroed
  <2> QED
    BY <2>1, <2>3 DEF Idle, RoundTried, CrashHeld, Minimizing, Panics
<1>9. CASE ReportUnsaved \/ SaveBinFails \/ SaveTxt
  <2>1. phase \in Minimizing /\ Report
    BY <1>9 DEF ReportUnsaved, SaveBinFails, SaveTxt, Minimized, Minimizing
  <2> QED
    BY <2>1, ReportMinimize
<1>10. CASE Restart
  <2>1. /\ phase' = "main" /\ i' = 1 /\ ~shrunk' /\ failures' = <<>>
    BY <1>10 DEF Restart
  <2>2. failures' \in Seq({}) /\ DOMAIN failures' = {}
    BY <2>1
  <2> QED
    BY <2>1, <2>2 DEF Idle, RoundTried, CrashHeld, Minimizing
<1>11. CASE Returned
  BY <1>1, <1>11 DEF Returned
<1>12. CASE InMain /\ \E x \in MutatedInputs : ExecuteOk(x) \/ ExecuteCrash(x)
  BY <1>2, <1>3, <1>12
<1> QED
  BY <1>1, <1>4, <1>5, <1>6, <1>7, <1>8, <1>9, <1>10, <1>11, <1>12 DEF Next

\* The removal rounds end with a whole round that removed nothing.
LEMMA RoundsEnd ==
    InputsInv /\ MinimizeInv /\ [Next]_vars =>
        [phase = "remove" /\ phase' = "zero" =>
            \A k \in DOMAIN current : ~Panics(RemoveAt(current, k))]_vars
<1> SUFFICES ASSUME InputsInv, MinimizeInv, Next, phase = "remove", phase' = "zero",
                    NEW k \in DOMAIN current
             PROVE  ~Panics(RemoveAt(current, k))
  OBVIOUS
<1>1. NextRound /\ ~shrunk
  BY DEF Next, InMain, SaveInput, Finish, TryRemove, NextRound, TryZero, ReportUnsaved, StartSave,
     SaveBin, SaveBinFails, SaveTxt, Report, Restart, Returned, vars
<1>2. i > Len(current)
  BY <1>1 DEF NextRound
<1>3. k < i
  BY <1>2, LenProperties DEF InputsInv
<1> QED
  BY <1>1, <1>3 DEF MinimizeInv, RoundTried

-----------------------------------------------------------------------------
(* The corpus.                                                             *)

\* What is in the corpus is in the set of hashes; the input waiting to be
\* saved survived, is new, and there is room for it.
CorpusInv ==
    /\ runs \in Nat
    /\ ToSet(corpus) \subseteq persisted_hashes
    /\ phase = "save_input" =>
         /\ ~Panics(input) /\ Len(corpus) < CorpusCap
         /\ input \in persisted_hashes /\ input \notin ToSet(corpus)

LEMMA CorpusInit == Init => CorpusInv
  BY DEF Init, CorpusInv

\* Appending adds one element, the last.
LEMMA AppendedSet ==
    ASSUME NEW S, NEW s \in Seq(S), NEW e \in S
    PROVE  /\ ToSet(Append(s, e)) = ToSet(s) \cup {e}
           /\ Len(Append(s, e)) = Len(s) + 1 /\ Last(Append(s, e)) = e
<1>1. /\ Append(s, e) \in Seq(S) /\ Len(Append(s, e)) = Len(s) + 1
      /\ \A k \in 1 .. Len(s) : Append(s, e)[k] = s[k]
      /\ Append(s, e)[Len(s) + 1] = e
  BY AppendProperties
<1>2. Len(s) \in Nat /\ DOMAIN s = 1 .. Len(s) /\ DOMAIN Append(s, e) = 1 .. Len(s) + 1
  BY <1>1, LenProperties
<1>3. \A k \in DOMAIN Append(s, e) : k \in DOMAIN s \/ k = Len(s) + 1
  BY <1>2
<1>4. DOMAIN s \subseteq DOMAIN Append(s, e) /\ Len(s) + 1 \in DOMAIN Append(s, e)
  BY <1>2
<1>5. ToSet(Append(s, e)) \subseteq ToSet(s) \cup {e}
  BY <1>1, <1>2, <1>3 DEF ToSet
<1>6. ToSet(s) \cup {e} \subseteq ToSet(Append(s, e))
  BY <1>1, <1>2, <1>4 DEF ToSet
<1> QED
  BY <1>1, <1>5, <1>6 DEF Last

LEMMA CorpusStep == InputsInv /\ CorpusInv /\ [Next]_vars => CorpusInv'
<1> SUFFICES ASSUME InputsInv, CorpusInv, [Next]_vars PROVE CorpusInv'
  OBVIOUS
<1>0. corpus \in Seq(Seq(Int)) /\ Len(corpus) \in Nat
  BY LenProperties DEF InputsInv, CorpusFits
<1>a. ASSUME UNCHANGED <<runs, corpus, persisted_hashes>>, phase' # "save_input"
      PROVE  CorpusInv'
  BY <1>a DEF CorpusInv
<1>1. CASE UNCHANGED vars
  BY <1>1 DEF CorpusInv, Panics, vars, loop
<1>2. ASSUME NEW x \in MutatedInputs, ExecuteOk(x) PROVE CorpusInv'
  <2>1. phase = "main" /\ ~Panics(x) /\ runs' = runs /\ target' = target
    BY <1>2 DEF ExecuteOk, InMain
  <2>2. CASE ~Kept(x)
    BY <1>2, <1>a, <2>1, <2>2 DEF ExecuteOk
  <2>3. CASE Kept(x)
    <3>1. /\ x \notin ToSet(corpus) /\ Len(corpus) < CorpusCap
          /\ persisted_hashes' = persisted_hashes \cup {x}
      BY <1>2, <2>3 DEF Kept, CorpusInv, ExecuteOk
    <3>2. CASE cfg.corpus_dir
      <4>1. phase' = "save_input" /\ input' = x /\ corpus' = corpus
        BY <1>2, <2>3, <3>2 DEF ExecuteOk
      <4> QED
        BY <2>1, <3>1, <4>1 DEF CorpusInv, Panics
    <3>3. CASE ~cfg.corpus_dir
      <4>1. phase' = phase /\ corpus' = Append(corpus, x)
        BY <1>2, <2>3, <3>3 DEF ExecuteOk
      <4>2. x \in Seq(Int)
        BY MutatedFits DEF InputsInv, Fits
      <4>3. ToSet(corpus') = ToSet(corpus) \cup {x}
        BY <1>0, <4>1, <4>2, AppendedSet
      <4> QED
        BY <2>1, <3>1, <4>1, <4>3 DEF CorpusInv
    <3> QED
      BY <3>2, <3>3
  <2> QED
    BY <2>2, <2>3
<1>3. ASSUME NEW x, ExecuteCrash(x) PROVE CorpusInv'
  BY <1>3, <1>a DEF ExecuteCrash, InMain
<1>4. ASSUME SaveInput PROVE CorpusInv'
  <2>1. /\ corpus' = Append(corpus, input) /\ phase = "save_input" /\ phase' = "main"
        /\ UNCHANGED <<runs, persisted_hashes>>
    BY <1>4 DEF SaveInput
  <2>2. ToSet(corpus') = ToSet(corpus) \cup {input}
    BY <1>0, <2>1, AppendedSet DEF InputsInv, Fits
  <2> QED
    BY <2>1, <2>2 DEF CorpusInv
<1>5. CASE Finish \/ StartSave \/ SaveBin
  BY <1>5, <1>a DEF Finish, StartSave, SaveBin, loop
<1>6. CASE TryRemove \/ NextRound \/ TryZero
  BY <1>6, <1>a DEF TryRemove, NextRound, TryZero, loop
<1>7. CASE ReportUnsaved \/ SaveBinFails \/ SaveTxt
  BY <1>7, <1>a DEF ReportUnsaved, SaveBinFails, SaveTxt, Report
<1>8. CASE Restart
  BY <1>8 DEF Restart, CorpusInv
<1>9. CASE Returned
  BY <1>1, <1>9 DEF Returned
<1>10. CASE InMain /\ \E x \in MutatedInputs : ExecuteOk(x) \/ ExecuteCrash(x)
  BY <1>2, <1>3, <1>10
<1> QED
  BY <1>1, <1>4, <1>5, <1>6, <1>7, <1>8, <1>9, <1>10 DEF Next

\* A step of the corpus within one process: a survivor, new, within the cap.
GrowsBySurvivor ==
    /\ Len(corpus') = Len(corpus) + 1 /\ Len(corpus') <= CorpusCap
    /\ ~Panics(Last(corpus')) /\ Last(corpus') \notin ToSet(corpus)

LEMMA CorpusGrows ==
    InputsInv /\ CorpusInv /\ [Next]_vars =>
        [runs' = runs /\ corpus' # corpus => GrowsBySurvivor]_vars
<1> SUFFICES ASSUME InputsInv, CorpusInv, Next, runs' = runs, corpus' # corpus
             PROVE  GrowsBySurvivor
  OBVIOUS
<1>1. corpus \in Seq(Seq(Int)) /\ Len(corpus) \in Nat
  BY LenProperties DEF InputsInv, CorpusFits
<1>2. ASSUME NEW x \in Seq(Int), corpus' = Append(corpus, x), ~Panics(x),
             x \notin ToSet(corpus), Len(corpus) < CorpusCap
      PROVE  GrowsBySurvivor
  <2>1. Len(corpus') = Len(corpus) + 1 /\ Last(corpus') = x
    BY <1>1, <1>2, AppendedSet
  <2> QED
    BY <1>1, <1>2, <2>1, FuzzAssumption DEF GrowsBySurvivor
<1>3. ~Restart
  BY DEF Restart, CorpusInv
<1>4. CASE SaveInput
  BY <1>2, <1>4 DEF SaveInput, CorpusInv, InputsInv, Fits
<1>5. ASSUME NEW x \in MutatedInputs, ExecuteOk(x) PROVE GrowsBySurvivor
  <2>1. Kept(x) /\ corpus' = Append(corpus, x) /\ ~Panics(x)
    BY <1>5 DEF ExecuteOk
  <2>2. x \in Seq(Int)
    BY MutatedFits DEF InputsInv, Fits
  <2>3. x \notin ToSet(corpus) /\ Len(corpus) < CorpusCap
    BY <2>1 DEF Kept, CorpusInv
  <2> QED
    BY <1>2, <2>1, <2>2, <2>3
<1>6. SaveInput \/ \E x \in MutatedInputs : ExecuteOk(x)
  BY <1>3 DEF Next, ExecuteCrash, Finish, TryRemove, NextRound, TryZero, ReportUnsaved, StartSave,
     SaveBin, SaveBinFails, SaveTxt, Report, Returned, vars, loop
<1> QED
  BY <1>4, <1>5, <1>6

-----------------------------------------------------------------------------

LEMMA InputsAlways == Spec => []InputsInv
  BY InputsInit, InputsStep, PTL DEF Spec

LEMMA MinimizeAlways == Spec => []MinimizeInv
  BY MinimizeInit, MinimizeStep, InputsAlways, PTL DEF Spec

\* No sequence of mutations, splices and dictionary entries, over any number
\* of processes, corpus files (torn ones, too) and configurations, makes an
\* input longer than max_input_len and the longest initial corpus entry.
THEOREM LengthsBounded == Spec => []InputsBounded
<1>1. InputsInv => InputsBounded
  BY DEF InputsInv, CorpusFits, Fits, InputsBounded, ToSet
<1> QED
  BY <1>1, InputsAlways, PTL

\* Whatever the budget cuts short, minimize holds an input that panics and is
\* the crashing input with bytes removed or zeroed; every failure reported
\* holds an input that panics.
THEOREM CrashIsKept == Spec => []CrashKept
<1>1. MinimizeInv => CrashKept
  BY DEF MinimizeInv, CrashHeld, CrashKept, Minimizing
<1> QED
  BY <1>1, MinimizeAlways, PTL

\* When the removal rounds end with budget left, no single byte can be removed
\* without losing the crash, for every target.
THEOREM RemovalIsMinimal == Spec => RemovalMinimal
  BY RoundsEnd, InputsAlways, MinimizeAlways, PTL DEF Spec, RemovalMinimal

\* Within a process the corpus grows only by inputs the target survived, each
\* new to it, up to the cap, whether or not corpus_dir is written in between.
THEOREM CorpusOfSurvivors == Spec => CorpusGrowsBySurvivors
<1>1. Spec => []CorpusInv
  BY CorpusInit, CorpusStep, InputsAlways, PTL DEF Spec
<1>2. InputsInv /\ CorpusInv /\ [Next]_vars =>
        [runs' = runs /\ corpus' # corpus =>
            /\ Len(corpus') = Len(corpus) + 1 /\ Len(corpus') <= CorpusCap
            /\ ~Panics(Last(corpus')) /\ Last(corpus') \notin ToSet(corpus)]_vars
  BY CorpusGrows DEF GrowsBySurvivor
<1> QED
  BY <1>1, <1>2, InputsAlways, PTL DEF Spec, CorpusGrowsBySurvivors
=============================================================================
