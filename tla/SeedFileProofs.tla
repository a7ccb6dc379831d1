--------------------------- MODULE SeedFileProofs ---------------------------
(***************************************************************************)
(* Theorems about the seed file: what read_seeds and append_seed make of   *)
(* it, for every file (SeedFile); what it holds when any number of runs    *)
(* share it (Regression); and what that gives the runs of one test that    *)
(* follow each other (RunWith).  ReadSeeds is a fold; its facts are proved *)
(* by induction over the file, with induction itself derived from the      *)
(* well-foundedness of < on Nat.                                           *)
(***************************************************************************)
EXTENDS Regression, RunWith, SequenceTheorems, WellFoundedInduction, TLAPS

-----------------------------------------------------------------------------
(* Induction over the naturals, for a set of numbers.                      *)

LEMMA LeastNatural ==
  ASSUME NEW T \in SUBSET Nat, T # {}
  PROVE  \E x \in T : \A y \in T : x <= y
  <1> DEFINE R == OpToRel(<, Nat)
  <1>1. IsWellFoundedOn(R, Nat)
    BY NatLessThanWellFounded
  <1>2. \A x, y \in Nat : x < y => <<x, y>> \in R
    BY DEF OpToRel
  <1> HIDE DEF R
  <1>3. PICK x \in T : \A y \in T : ~ (<<y, x>> \in R)
    <2>1. T \subseteq Nat
      OBVIOUS
    <2> QED BY <1>1, <2>1, WFMin, Zenon
  <1>4. \A y \in T : ~(y < x)
    BY <1>2, <1>3
  <1>5. \A y \in T : x <= y
    BY <1>4
  <1> QED BY <1>5

LEMMA Induction ==
  ASSUME NEW S, 0 \in S, \A n \in Nat : n \in S => n + 1 \in S
  PROVE  \A n \in Nat : n \in S
  <1> DEFINE T == Nat \ S
  <1>1. CASE T = {}
    BY <1>1
  <1>2. CASE T # {}
    <2>1. PICK x \in T : \A y \in T : x <= y
      BY <1>2, LeastNatural
    <2>2. x - 1 \in Nat /\ x - 1 \notin T
      BY <2>1
    <2> QED BY <2>1, <2>2
  <1> QED BY <1>1, <1>2

-----------------------------------------------------------------------------
(* The fold.                                                               *)

\* One line of the file: its seed, unless it has been read before.
ReadLine(out, seed) == IF Contains(out, seed) THEN out ELSE Append(out, seed)

\* g folds the lines of the file over the sets of its first n lines.
Folds(g, lines, n) ==
    g = [s \in SUBSET (1 .. n) |->
            IF s = {} THEN <<>> ELSE ReadLine(g[s \ {Max(s)}], lines[Max(s)])]

LEMMA MaxOfSet ==
  ASSUME NEW n \in Nat, NEW s \in SUBSET (1 .. n + 1), n + 1 \in s
  PROVE  Max(s) = n + 1
  <1>1. \A y \in s : n + 1 >= y
    OBVIOUS
  <1>2. \A x \in s : (\A y \in s : x >= y) => x = n + 1
    OBVIOUS
  <1> QED BY <1>1, <1>2 DEF Max

LEMMA FoldExists ==
  ASSUME NEW lines
  PROVE  \A n \in Nat : \E g : Folds(g, lines, n)
  <1> DEFINE T == {n \in Nat : \E g : Folds(g, lines, n)}
  <1>1. 0 \in T
    <2> DEFINE g == [s \in SUBSET (1 .. 0) |-> <<>>]
    <2>1. Folds(g, lines, 0)
      <3>1. \A s \in SUBSET (1 .. 0) : s = {}
        OBVIOUS
      <3> QED BY <3>1 DEF Folds
    <2> QED BY <2>1
  <1>2. ASSUME NEW n \in Nat, n \in T PROVE n + 1 \in T
    <2>1. PICK g : Folds(g, lines, n)
      BY <1>2
    <2> DEFINE h == [s \in SUBSET (1 .. n + 1) |->
                       IF n + 1 \in s THEN ReadLine(g[s \ {n + 1}], lines[n + 1]) ELSE g[s]]
    <2>2. ASSUME NEW s \in SUBSET (1 .. n + 1)
          PROVE  h[s] = IF s = {} THEN <<>> ELSE ReadLine(h[s \ {Max(s)}], lines[Max(s)])
      <3>1. CASE n + 1 \in s
        <4>1. s \ {n + 1} \in SUBSET (1 .. n + 1) /\ n + 1 \notin s \ {n + 1} /\ s # {}
          BY <3>1
        <4>2. h[s \ {n + 1}] = g[s \ {n + 1}]
          BY <4>1
        <4>3. h[s] = ReadLine(g[s \ {n + 1}], lines[n + 1])
          BY <3>1
        <4>4. Max(s) = n + 1
          BY <3>1, MaxOfSet
        <4> HIDE DEF h
        <4> QED BY <4>1, <4>2, <4>3, <4>4
      <3>2. CASE n + 1 \notin s
        <4>1. s \in SUBSET (1 .. n)
          BY <3>2
        <4>2. s \ {Max(s)} \in SUBSET (1 .. n + 1) /\ n + 1 \notin s \ {Max(s)}
          BY <3>2
        <4>3. h[s] = g[s] /\ h[s \ {Max(s)}] = g[s \ {Max(s)}]
          BY <3>2, <4>2
        <4> HIDE DEF h
        <4> QED BY <2>1, <4>1, <4>3 DEF Folds
      <3> QED BY <3>1, <3>2
    <2>3. Folds(h, lines, n + 1)
      BY <2>2 DEF Folds
    <2> QED BY <2>3
  <1> HIDE DEF T
  <1>3. \A n \in Nat : n \in T
    BY <1>1, <1>2, Induction
  <1> QED BY <1>3 DEF T

\* ReadSeeds reads line after line.
LEMMA ReadSeedsByLine ==
  ASSUME NEW S, NEW lines \in Seq(S)
  PROVE  \E out : /\ out[0] = <<>>
                  /\ \A n \in 0 .. Len(lines) - 1 : out[n + 1] = ReadLine(out[n], lines[n + 1])
                  /\ ReadSeeds(lines) = out[Len(lines)]
  <1> DEFINE N == Len(lines)
             g == CHOOSE g : Folds(g, lines, N)
  <1>0. N \in Nat /\ DOMAIN lines = 1 .. N
    OBVIOUS
  <1>1. Folds(g, lines, N)
    BY <1>0, FoldExists
  <1>2. ReadSeeds(lines) = g[1 .. N]
    BY <1>0 DEF ReadSeeds, FoldLeft, MapThenFoldSet, Folds, ReadLine
  <1> HIDE DEF g, N
  <1> DEFINE out == [n \in 0 .. N |-> g[1 .. n]]
  <1>3. g[{}] = <<>>
    BY <1>1 DEF Folds
  <1>4. out[0] = <<>>
    <2>1. 1 .. 0 = {}
      OBVIOUS
    <2> QED BY <1>0, <1>3, <2>1
  <1>5. ASSUME NEW n \in 0 .. N - 1 PROVE out[n + 1] = ReadLine(out[n], lines[n + 1])
    <2>1. n \in Nat /\ n + 1 \in 1 .. n + 1 /\ 1 .. n + 1 \in SUBSET (1 .. N) /\ 1 .. n + 1 # {}
      BY <1>0
    <2>2. Max(1 .. n + 1) = n + 1
      BY <2>1, MaxOfSet
    <2>3. (1 .. n + 1) \ {n + 1} = 1 .. n
      BY <2>1
    <2>4. g[1 .. n + 1] = ReadLine(g[1 .. n], lines[n + 1])
      BY <1>1, <2>1, <2>2, <2>3 DEF Folds
    <2> QED BY <1>0, <2>1, <2>4
  <1>6. ReadSeeds(lines) = out[N]
    BY <1>0, <1>2
  <1> HIDE DEF out
  <1> QED BY <1>4, <1>5, <1>6 DEF N

-----------------------------------------------------------------------------
(* What is read.                                                           *)

\* No seed is there twice.
Distinct(s) == \A i, j \in 1 .. Len(s) : s[i] = s[j] => i = j

\* After n lines: the seeds of these lines, each once.
ReadSoFar(out, lines, n) ==
    /\ Distinct(out)
    /\ \A seed : Contains(out, seed) <=> \E i \in 1 .. n : lines[i] = seed

LEMMA ReadLineFacts ==
  ASSUME NEW S, NEW out \in Seq(S), NEW seed \in S, Distinct(out)
  PROVE  /\ ReadLine(out, seed) \in Seq(S) /\ Distinct(ReadLine(out, seed))
         /\ \A x : Contains(ReadLine(out, seed), x) <=> Contains(out, x) \/ x = seed
  <1>1. CASE Contains(out, seed)
    BY <1>1 DEF ReadLine, Contains
  <1>2. CASE ~Contains(out, seed)
    <2> DEFINE new == Append(out, seed)
    <2>1. new \in Seq(S) /\ Len(new) = Len(out) + 1 /\ Len(out) \in Nat /\ new[Len(new)] = seed
      OBVIOUS
    <2>2. \A i \in 1 .. Len(out) : new[i] = out[i] /\ out[i] # seed
      BY <1>2 DEF Contains
    <2>3. ReadLine(out, seed) = new
      BY <1>2 DEF ReadLine
    <2> HIDE DEF new
    <2>4. Distinct(new)
      BY <2>1, <2>2 DEF Distinct
    <2>5. \A x : Contains(new, x) <=> Contains(out, x) \/ x = seed
      BY <2>1, <2>2 DEF Contains
    <2> QED BY <2>1, <2>3, <2>4, <2>5
  <1> QED BY <1>1, <1>2

\* The seeds read are those on the lines of the file, each once.
LEMMA ReadSeedsFacts ==
  ASSUME NEW S, NEW lines \in Seq(S)
  PROVE  /\ ReadSeeds(lines) \in Seq(S) /\ Distinct(ReadSeeds(lines))
         /\ \A seed : Contains(ReadSeeds(lines), seed) <=> Contains(lines, seed)
  <1>1. PICK out : /\ out[0] = <<>>
                   /\ \A n \in 0 .. Len(lines) - 1 : out[n + 1] = ReadLine(out[n], lines[n + 1])
                   /\ ReadSeeds(lines) = out[Len(lines)]
    BY ReadSeedsByLine
  <1> DEFINE T == {n \in Nat : n <= Len(lines) =>
                                 out[n] \in Seq(S) /\ ReadSoFar(out[n], lines, n)}
  <1>2. Len(lines) \in Nat /\ \A n \in 1 .. Len(lines) : lines[n] \in S
    OBVIOUS
  <1>3. 0 \in T
    <2>1. <<>> \in Seq(S) /\ ReadSoFar(<<>>, lines, 0)
      BY DEF ReadSoFar, Distinct, Contains
    <2> QED BY <1>1, <2>1
  <1>4. ASSUME NEW n \in Nat, n \in T PROVE n + 1 \in T
    <2> SUFFICES ASSUME n + 1 <= Len(lines)
                 PROVE  out[n + 1] \in Seq(S) /\ ReadSoFar(out[n + 1], lines, n + 1)
      OBVIOUS
    <2>1. out[n] \in Seq(S) /\ ReadSoFar(out[n], lines, n)
      BY <1>4, <1>2
    <2>2. lines[n + 1] \in S /\ out[n + 1] = ReadLine(out[n], lines[n + 1])
      BY <1>1, <1>2
    <2>3. Distinct(out[n])
      BY <2>1 DEF ReadSoFar
    <2>4. /\ out[n + 1] \in Seq(S) /\ Distinct(out[n + 1])
          /\ \A x : Contains(out[n + 1], x) <=> Contains(out[n], x) \/ x = lines[n + 1]
      BY <2>1, <2>2, <2>3, ReadLineFacts
    <2>5. \A x : (\E i \in 1 .. n + 1 : lines[i] = x)
                   <=> (\E i \in 1 .. n : lines[i] = x) \/ x = lines[n + 1]
      <3>1. 1 .. n + 1 = (1 .. n) \cup {n + 1}
        OBVIOUS
      <3> QED BY <3>1
    <2> QED BY <2>1, <2>4, <2>5 DEF ReadSoFar
  <1> HIDE DEF T
  <1>5. \A n \in Nat : n \in T
    BY <1>3, <1>4, Induction
  <1>6. ReadSeeds(lines) \in Seq(S) /\ ReadSoFar(ReadSeeds(lines), lines, Len(lines))
    BY <1>1, <1>2, <1>5 DEF T
  <1> QED BY <1>6 DEF ReadSoFar, Contains

\* A file without repetitions is read as it is.
LEMMA DistinctFileRead ==
  ASSUME NEW S, NEW lines \in Seq(S), Distinct(lines)
  PROVE  ReadSeeds(lines) = lines
  <1>1. PICK out : /\ out[0] = <<>>
                   /\ \A n \in 0 .. Len(lines) - 1 : out[n + 1] = ReadLine(out[n], lines[n + 1])
                   /\ ReadSeeds(lines) = out[Len(lines)]
    BY ReadSeedsByLine
  <1> DEFINE T == {n \in Nat : n <= Len(lines) => out[n] = SubSeq(lines, 1, n)}
  <1>2. Len(lines) \in Nat /\ \A n \in 1 .. Len(lines) : lines[n] \in S
    OBVIOUS
  <1>3. 0 \in T
    <2>1. SubSeq(lines, 1, 0) = <<>>
      OBVIOUS
    <2> QED BY <1>1, <2>1
  <1>4. ASSUME NEW n \in Nat, n \in T PROVE n + 1 \in T
    <2> SUFFICES ASSUME n + 1 <= Len(lines) PROVE out[n + 1] = SubSeq(lines, 1, n + 1)
      OBVIOUS
    <2> DEFINE front == SubSeq(lines, 1, n)
    <2>0. out[n] = front /\ n \in 0 .. Len(lines) - 1
      BY <1>2, <1>4
    <2> HIDE DEF front
    <2>1. out[n + 1] = ReadLine(front, lines[n + 1])
      BY <1>1, <2>0
    <2>2. front \in Seq(S) /\ Len(front) = n /\ \A i \in 1 .. n : front[i] = lines[i]
      BY <1>2, <2>0 DEF front
    <2>3. ~Contains(front, lines[n + 1])
      BY <1>2, <2>2 DEF Contains, Distinct
    <2>4. out[n + 1] = Append(front, lines[n + 1])
      BY <2>1, <2>3 DEF ReadLine
    <2>5. SubSeq(lines, 1, n + 1) = Append(front, lines[n + 1])
      BY <1>2 DEF front
    <2> QED BY <2>4, <2>5
  <1> HIDE DEF T
  <1>5. \A n \in Nat : n \in T
    BY <1>3, <1>4, Induction
  <1>6. ReadSeeds(lines) = SubSeq(lines, 1, Len(lines))
    BY <1>1, <1>2, <1>5 DEF T
  <1> QED BY <1>6

-----------------------------------------------------------------------------
(* What is written.                                                        *)

\* How many of the oldest seeds go when one is added.
Lost(list) == IF Len(list) < MaxSeeds THEN 0 ELSE Len(list) + 1 - MaxSeeds

\* A failing seed that is not in the file becomes its newest one; what is
\* written fits, and apart from the oldest seeds nothing is lost.
LEMMA AddSeedFacts ==
  ASSUME NEW S, NEW list \in Seq(S), NEW seed \in S, ~Contains(list, seed)
  PROVE  /\ AddSeed(list, seed) \in Seq(S)
         /\ Lost(list) \in 0 .. Len(list)
         /\ Len(AddSeed(list, seed)) = Len(list) + 1 - Lost(list)
         /\ Len(AddSeed(list, seed)) \in 1 .. MaxSeeds
         /\ AddSeed(list, seed)[Len(AddSeed(list, seed))] = seed
         /\ \A i \in 1 .. Len(AddSeed(list, seed)) - 1 :
               AddSeed(list, seed)[i] = list[Lost(list) + i]
  <1> DEFINE all == Append(list, seed)
             lost == Lost(list)
             new == SubSeq(all, lost + 1, Len(all))
  <1>1. /\ all \in Seq(S) /\ Len(all) = Len(list) + 1 /\ all[Len(list) + 1] = seed
        /\ \A i \in 1 .. Len(list) : all[i] = list[i]
    OBVIOUS
  <1>2. MaxSeeds \in Nat /\ MaxSeeds >= 1 /\ Len(list) \in Nat
    BY MaxSeedsAssumption
  <1>3. lost \in 0 .. Len(list) /\ Len(list) + 1 - lost \in 1 .. MaxSeeds
    BY <1>2 DEF Lost
  <1> HIDE DEF all, lost
  <1>4. AddSeed(list, seed) = new
    <2>1. AddSeed(list, seed) = Capped(all)
      BY DEF AddSeed, all
    <2>2. CASE Len(list) < MaxSeeds
      <3>1. lost = 0 /\ ~(Len(all) > MaxSeeds)
        BY <2>2, <1>1, <1>2 DEF Lost, lost
      <3>2. Capped(all) = SubSeq(all, 1, Len(all))
        BY <3>1 DEF Capped
      <3> QED BY <2>1, <3>1, <3>2
    <2>3. CASE ~(Len(list) < MaxSeeds)
      <3>0. Len(all) > MaxSeeds
        BY <2>3, <1>1, <1>2
      <3>1. Capped(all) = SubSeq(all, Len(all) - MaxSeeds + 1, Len(all))
        BY <3>0 DEF Capped
      <3>2. Len(all) - MaxSeeds + 1 = lost + 1
        BY <2>3, <1>1, <1>2 DEF Lost, lost
      <3> QED BY <2>1, <3>1, <3>2
    <2> QED BY <2>2, <2>3
  <1>5. /\ new \in Seq(S) /\ Len(new) = Len(all) - lost
        /\ \A i \in 1 .. Len(new) : new[i] = all[lost + i]
    BY <1>1, <1>2, <1>3
  <1> HIDE DEF new
  <1>6. Len(new) = Len(list) + 1 - lost /\ Len(new) \in 1 .. MaxSeeds
    BY <1>1, <1>2, <1>3, <1>5
  <1>7. new[Len(new)] = seed
    <2>1. lost + Len(new) = Len(list) + 1 /\ Len(new) \in 1 .. Len(new)
      BY <1>2, <1>3, <1>6
    <2> QED BY <1>1, <1>5, <2>1
  <1>8. ASSUME NEW i \in 1 .. Len(new) - 1 PROVE new[i] = list[lost + i]
    <2>1. i \in 1 .. Len(new) /\ lost + i \in 1 .. Len(list)
      BY <1>2, <1>3, <1>6
    <2> QED BY <1>1, <1>5, <2>1
  <1>9. /\ new \in Seq(S) /\ lost \in 0 .. Len(list) /\ Len(new) = Len(list) + 1 - lost
        /\ Len(new) \in 1 .. MaxSeeds /\ new[Len(new)] = seed
        /\ \A i \in 1 .. Len(new) - 1 : new[i] = list[lost + i]
    BY <1>3, <1>5, <1>6, <1>7, <1>8
  <1> QED BY <1>4, <1>9 DEF lost

LEMMA AddSeedDistinct ==
  ASSUME NEW S, NEW list \in Seq(S), NEW seed \in S, ~Contains(list, seed), Distinct(list)
  PROVE  Distinct(AddSeed(list, seed)) /\ Contains(AddSeed(list, seed), seed)
  <1> DEFINE new == AddSeed(list, seed)
             lost == Lost(list)
  <1>1. /\ new \in Seq(S) /\ Len(new) = Len(list) + 1 - lost /\ lost \in 0 .. Len(list)
        /\ Len(new) \in 1 .. MaxSeeds /\ new[Len(new)] = seed
        /\ \A i \in 1 .. Len(new) - 1 : new[i] = list[lost + i]
    BY AddSeedFacts
  <1>2. Len(new) \in Nat /\ Len(list) \in Nat /\ Len(new) >= 1
    BY <1>1, MaxSeedsAssumption
  <1> HIDE DEF new, lost
  <1>3. ASSUME NEW i \in 1 .. Len(new) - 1
        PROVE  lost + i \in 1 .. Len(list) /\ new[i] = list[lost + i] /\ new[i] # seed
    <2>1. lost + i \in 1 .. Len(list)
      BY <1>1, <1>2
    <2> QED BY <2>1, <1>1 DEF Contains
  <1>4. Distinct(new)
    <2> SUFFICES ASSUME NEW i \in 1 .. Len(new), NEW j \in 1 .. Len(new), new[i] = new[j]
                 PROVE  i = j
      BY DEF Distinct
    <2>1. CASE i \in 1 .. Len(new) - 1 /\ j \in 1 .. Len(new) - 1
      <3>1. lost + i \in 1 .. Len(list) /\ lost + j \in 1 .. Len(list)
        BY <2>1, <1>3
      <3>2. list[lost + i] = list[lost + j]
        BY <2>1, <1>3
      <3>3. lost + i = lost + j
        BY <3>1, <3>2 DEF Distinct
      <3> QED BY <1>1, <3>3
    <2>2. CASE i = Len(new) \/ j = Len(new)
      <3>1. i # j => i \in 1 .. Len(new) - 1 \/ j \in 1 .. Len(new) - 1
        BY <2>2, <1>2
      <3> QED BY <2>2, <3>1, <1>1, <1>3
    <2> QED BY <2>1, <2>2, <1>2
  <1>5. Contains(new, seed)
    BY <1>1, <1>2 DEF Contains
  <1> QED BY <1>4, <1>5 DEF new

\* Into a file with room nothing but the new seed is added.
LEMMA AddSeedFits ==
  ASSUME NEW S, NEW list \in Seq(S), NEW seed \in S, ~Contains(list, seed),
         Len(list) < MaxSeeds
  PROVE  AddSeed(list, seed) = Append(list, seed)
  <1> DEFINE all == Append(list, seed)
  <1>1. all \in Seq(S) /\ Len(all) = Len(list) + 1
    OBVIOUS
  <1>2. ~(Len(all) > MaxSeeds)
    BY <1>1, MaxSeedsAssumption
  <1>3. AddSeed(list, seed) = Capped(all)
    BY DEF AddSeed
  <1> HIDE DEF all
  <1>4. Capped(all) = SubSeq(all, 1, Len(all))
    BY <1>2 DEF Capped
  <1> QED BY <1>1, <1>3, <1>4 DEF all

\* Nothing else gets into the file.
LEMMA AddSeedElements ==
  ASSUME NEW S, NEW list \in Seq(S), NEW seed \in S, ~Contains(list, seed),
         NEW x, Contains(AddSeed(list, seed), x)
  PROVE  Contains(list, x) \/ x = seed
  <1> DEFINE new == AddSeed(list, seed)
             lost == Lost(list)
  <1>1. /\ Len(new) = Len(list) + 1 - lost /\ lost \in 0 .. Len(list)
        /\ new[Len(new)] = seed
        /\ \A i \in 1 .. Len(new) - 1 : new[i] = list[lost + i]
    BY AddSeedFacts
  <1>2. PICK i \in 1 .. Len(new) : new[i] = x
    BY DEF Contains
  <1> HIDE DEF new, lost
  <1>3. Len(list) \in Nat /\ Len(new) \in Int
    BY <1>1
  <1>4. CASE i = Len(new)
    BY <1>1, <1>2, <1>4
  <1>5. CASE i # Len(new)
    <2>1. i \in 1 .. Len(new) - 1 /\ lost + i \in 1 .. Len(list)
      BY <1>1, <1>2, <1>3, <1>5
    <2> QED BY <1>1, <1>2, <2>1 DEF Contains
  <1> QED BY <1>4, <1>5

-----------------------------------------------------------------------------
(* Regression: what the seed file holds, for every number of runs, every   *)
(* capacity and every file found at the start.                             *)

\* The file and the vectors hold seeds and numbers made of torn lines; a run
\* about to write holds no more than fits, its own failing seed last; and a
\* file that is being written has been truncated since it was last found.
IInv ==
    /\ overlap \in BOOLEAN
    /\ file \in Seq(Numbers) /\ settled \in Seq(Numbers)
    /\ pc \in [Runs -> Steps]
    /\ seeds \in [Runs -> Seq(Numbers)] /\ failed \in [Runs -> Numbers]
    /\ Len(file) <= MaxSeeds \/ file \in InitialFiles
    /\ \A r \in Runs : pc[r] \in {"open", "write"} =>
          Len(seeds[r]) \in 1 .. MaxSeeds /\ seeds[r][Len(seeds[r])] = failed[r]
    /\ Writing # {} => Len(file) <= MaxSeeds
    /\ Writing = {} => settled = file

LEMMA InitIInv == FileInit => IInv
  <1> SUFFICES ASSUME FileInit PROVE IInv
    OBVIOUS
  <1>1. file \in Seq(Seeds) /\ file \in Seq(Numbers)
    <2>1. file \in Seq(Seeds)
      BY RegressionAssumption DEF FileInit
    <2>2. Seq(Seeds) \subseteq Seq(Numbers)
      BY DEF Numbers
    <2> QED BY <2>1, <2>2
  <1>2. Writing = {}
    BY DEF FileInit, Writing
  <1>3. <<>> \in Seq(Numbers)
    OBVIOUS
  <1> QED BY <1>1, <1>2, <1>3 DEF FileInit, IInv, Steps, Numbers

\* What a run reads and what it makes of it.
LEMMA ReadAndAdded ==
  ASSUME IInv, NEW r \in Runs
  PROVE  LET read == ReadSeeds(file)
             new  == AddSeed(ReadSeeds(file), failed[r])
         IN  /\ read \in Seq(Numbers) /\ Distinct(read)
             /\ ~Contains(read, failed[r]) =>
                  /\ new \in Seq(Numbers) /\ Len(new) \in 1 .. MaxSeeds
                  /\ new[Len(new)] = failed[r]
             /\ Contains(read, failed[r]) => new = read
  <1> DEFINE read == ReadSeeds(file)
             new  == AddSeed(read, failed[r])
  <1>1. read \in Seq(Numbers) /\ Distinct(read)
    BY ReadSeedsFacts DEF IInv
  <1>2. failed[r] \in Numbers
    BY DEF IInv
  <1> HIDE DEF read
  <1>3. ~Contains(read, failed[r]) =>
          /\ new \in Seq(Numbers) /\ Len(new) \in 1 .. MaxSeeds /\ new[Len(new)] = failed[r]
    BY <1>1, <1>2, AddSeedFacts
  <1>4. Contains(read, failed[r]) => new = read
    BY DEF AddSeed
  <1> QED BY <1>1, <1>3, <1>4 DEF read

\* Writing over the old contents leaves the longer of the two lengths.
LEMMA WrittenOver ==
  ASSUME NEW old \in Seq(Numbers), NEW new \in Seq(Numbers), NEW rest \in Leftovers(old, new)
  PROVE  /\ rest \in Seq(Numbers) /\ new \o rest \in Seq(Numbers)
         /\ Len(new \o rest) = IF Len(old) < Len(new) THEN Len(new) ELSE Len(old)
         /\ old = <<>> => new \o rest = new
  <1> DEFINE tail == SubSeq(old, Len(new) + 1, Len(old))
  <1>1. Len(new) \in Nat /\ Len(old) \in Nat /\ Torn \in Numbers
    BY DEF Numbers
  <1>2. /\ tail \in Seq(Numbers)
        /\ Len(tail) = IF Len(old) < Len(new) THEN 0 ELSE Len(old) - Len(new)
    <2>1. Len(new) + 1 \in Nat \ {0}
      BY <1>1
    <2>2. CASE Len(old) < Len(new) + 1
      <3>1. tail = <<>>
        BY <1>1, <2>2
      <3> HIDE DEF tail
      <3> QED BY <1>1, <2>2, <3>1
    <2>3. CASE Len(new) + 1 <= Len(old)
      BY <1>1, <2>3
    <2> QED BY <1>1, <2>2, <2>3
  <1> HIDE DEF tail
  <1>3. rest = tail \/ (tail # <<>> /\ rest = <<Torn>> \o Tail(tail))
    BY DEF Leftovers, tail
  <1>4. rest \in Seq(Numbers) /\ Len(rest) = Len(tail)
    <2>1. CASE rest = tail
      BY <2>1, <1>2
    <2>2. CASE tail # <<>> /\ rest = <<Torn>> \o Tail(tail)
      <3>1. Tail(tail) \in Seq(Numbers) /\ Len(Tail(tail)) = Len(tail) - 1
        BY <1>2, <2>2
      <3>2. <<Torn>> \in Seq(Numbers) /\ Len(<<Torn>>) = 1
        BY <1>1
      <3> DEFINE t == Tail(tail)
      <3> HIDE DEF t
      <3>3. <<Torn>> \o t \in Seq(Numbers) /\ Len(<<Torn>> \o t) = 1 + Len(t)
        BY <3>1, <3>2, ConcatProperties DEF t
      <3>4. Len(tail) \in Nat
        BY <1>2
      <3> QED BY <2>2, <3>1, <3>3, <3>4 DEF t
    <2> QED BY <1>3, <2>1, <2>2
  <1>5. new \o rest \in Seq(Numbers) /\ Len(new \o rest) = Len(new) + Len(rest)
    BY <1>4, ConcatProperties
  <1>6. ASSUME old = <<>> PROVE new \o rest = new
    <2>1. Len(tail) = 0
      <3>1. Len(old) = 0
        BY <1>6
      <3> QED BY <1>1, <1>2, <3>1
    <2>2. tail = <<>>
      BY <1>2, <2>1
    <2>3. rest = <<>>
      BY <1>3, <2>2
    <2> QED BY <2>3
  <1> HIDE DEF Leftovers
  <1>7. Len(new \o rest) = IF Len(old) < Len(new) THEN Len(new) ELSE Len(old)
    BY <1>1, <1>2, <1>4, <1>5
  <1> QED BY <1>4, <1>5, <1>6, <1>7

\* One run moves at a time: the set of those that write changes by it only.
LEMMA WritingMoves ==
  ASSUME IInv, NEW r \in Runs, NEW step \in Steps, pc' = [pc EXCEPT ![r] = step]
  PROVE  /\ Writing' = IF step = "write" THEN Writing \cup {r} ELSE Writing \ {r}
         /\ pc' \in [Runs -> Steps] /\ pc'[r] = step
         /\ \A q \in Runs \ {r} : pc'[q] = pc[q]
  <1>1. pc \in [Runs -> Steps]
    BY DEF IInv
  <1> QED BY <1>1 DEF Writing

\* A step that only moves a run on, and not into the writing of the file.
LEMMA MoveKeepsIInv ==
  ASSUME IInv, NEW r \in Runs, NEW step \in Steps, pc' = [pc EXCEPT ![r] = step],
         UNCHANGED <<overlap, file>>,
         seeds' \in [Runs -> Seq(Numbers)], failed' \in [Runs -> Numbers],
         \A q \in Runs \ {r} : seeds'[q] = seeds[q] /\ failed'[q] = failed[q],
         step \in {"open", "write"} =>
             Len(seeds'[r]) \in 1 .. MaxSeeds /\ seeds'[r][Len(seeds'[r])] = failed'[r],
         step # "write", settled' = IF Writing' = {} THEN file' ELSE settled
  PROVE  IInv'
  <1>1. /\ Writing' = Writing \ {r} /\ pc' \in [Runs -> Steps] /\ pc'[r] = step
        /\ \A q \in Runs \ {r} : pc'[q] = pc[q]
    BY WritingMoves
  <1>2. settled' \in Seq(Numbers) /\ (Writing' = {} => settled' = file')
    BY DEF IInv
  <1>3. Writing' # {} => Len(file') <= MaxSeeds
    BY <1>1 DEF IInv
  <1>4. \A q \in Runs : pc'[q] \in {"open", "write"} =>
           Len(seeds'[q]) \in 1 .. MaxSeeds /\ seeds'[q][Len(seeds'[q])] = failed'[q]
    BY <1>1 DEF IInv
  <1>5. overlap' \in BOOLEAN /\ file' \in Seq(Numbers)
        /\ (Len(file') <= MaxSeeds \/ file' \in InitialFiles)
    BY DEF IInv
  <1> QED BY <1>1, <1>2, <1>3, <1>4, <1>5 DEF IInv

LEMMA NextIInv == IInv /\ [FileNext]_fileVars => IInv'
  <1> SUFFICES ASSUME IInv, [FileNext]_fileVars PROVE IInv'
    OBVIOUS
  <1>1. CASE UNCHANGED fileVars
    BY <1>1 DEF fileVars, IInv, Writing
  <1>2. ASSUME NEW r \in Runs, UNCHANGED overlap, Step(r) PROVE IInv'
    <2>0. /\ file \in Seq(Numbers) /\ pc \in [Runs -> Steps]
          /\ seeds \in [Runs -> Seq(Numbers)] /\ failed \in [Runs -> Numbers]
      BY DEF IInv
    <2>1. CASE Start(r) \/ Finish(r) \/ \E seed \in Seeds \cup ToSet(seeds[r]) : Fail(r, seed)
      <3>1. PICK step \in {"idle", "running", "append"} : pc' = [pc EXCEPT ![r] = step]
        BY <2>1 DEF Start, Finish, Fail
      <3>2. UNCHANGED <<overlap, file, settled>> /\ pc[r] # "write"
        BY <1>2, <2>1 DEF Start, Finish, Fail
      <3>3. ReadSeeds(file) \in Seq(Numbers)
        BY ReadAndAdded, <2>0
      <3>4. seeds' \in [Runs -> Seq(Numbers)] /\ \A q \in Runs \ {r} : seeds'[q] = seeds[q]
        <4>1. CASE seeds' = [seeds EXCEPT ![r] = ReadSeeds(file)]
          BY <4>1, <2>0, <3>3
        <4>2. CASE seeds' = seeds
          BY <4>2, <2>0
        <4> QED BY <4>1, <4>2, <2>1 DEF Start, Finish, Fail
      <3>5. failed' \in [Runs -> Numbers] /\ \A q \in Runs \ {r} : failed'[q] = failed[q]
        <4>1. CASE failed' = failed
          BY <4>1, <2>0
        <4>2. CASE \E seed \in Seeds \cup ToSet(seeds[r]) : failed' = [failed EXCEPT ![r] = seed]
          <5>1. seeds[r] \in Seq(Numbers)
            BY <2>0
          <5>2. ToSet(seeds[r]) \subseteq Numbers
            BY <5>1 DEF ToSet
          <5> QED BY <4>2, <5>2, <2>0 DEF Numbers
        <4> QED BY <4>1, <4>2, <2>1 DEF Start, Finish, Fail
      <3>6. Writing' = Writing /\ settled' = IF Writing' = {} THEN file' ELSE settled
        <4>1. Writing' = Writing \ {r} /\ r \notin Writing
          BY <3>1, <3>2, WritingMoves DEF Steps, Writing
        <4> QED BY <4>1, <3>2 DEF IInv
      <3> QED BY <3>1, <3>2, <3>4, <3>5, <3>6, MoveKeepsIInv DEF Steps
    <2>2. CASE ReadAgain(r)
      <3> DEFINE read == ReadSeeds(file)
                 new  == AddSeed(read, failed[r])
                 step == IF Contains(read, failed[r]) THEN "idle" ELSE "open"
      <3>1. /\ new \in Seq(Numbers)
            /\ ~Contains(read, failed[r]) =>
                 Len(new) \in 1 .. MaxSeeds /\ new[Len(new)] = failed[r]
        BY ReadAndAdded
      <3>2. /\ pc' = [pc EXCEPT ![r] = step] /\ seeds' = [seeds EXCEPT ![r] = new]
            /\ UNCHANGED <<file, failed, settled>> /\ pc[r] = "append"
        BY <2>2 DEF ReadAgain
      <3>3. step \in Steps /\ step # "write" /\ (step = "open" => ~Contains(read, failed[r]))
            /\ step \in {"idle", "open"}
        BY DEF Steps
      <3> HIDE DEF new, step, read
      <3>4. seeds' \in [Runs -> Seq(Numbers)] /\ seeds'[r] = new
            /\ \A q \in Runs \ {r} : seeds'[q] = seeds[q]
        BY <3>1, <3>2, <2>0
      <3>5. Writing' = Writing
        <4>1. Writing' = Writing \ {r} /\ r \notin Writing
          BY <3>2, <3>3, WritingMoves DEF Writing
        <4> QED BY <4>1
      <3>6. settled' = IF Writing' = {} THEN file' ELSE settled
        BY <3>2, <3>5 DEF IInv
      <3> QED BY <1>2, <2>0, <3>1, <3>2, <3>3, <3>4, <3>6, MoveKeepsIInv
    <2>3. CASE Interrupt(r)
      <3>1. pc' = [pc EXCEPT ![r] = "idle"] /\ UNCHANGED <<overlap, file, seeds, failed>>
            /\ settled' = IF Writing' = {} THEN file' ELSE settled
        BY <1>2, <2>3 DEF Interrupt, Settle
      <3> QED BY <2>0, <3>1, MoveKeepsIInv DEF Steps
    <2>4. CASE Truncate(r)
      <3>1. pc' = [pc EXCEPT ![r] = "write"] /\ file' = <<>> /\ pc[r] = "open"
            /\ UNCHANGED <<overlap, seeds, failed>>
            /\ settled' = IF Writing' = {} THEN file' ELSE settled
        BY <1>2, <2>4 DEF Truncate, Settle
      <3>2. /\ Writing' = Writing \cup {r} /\ pc' \in [Runs -> Steps]
            /\ \A q \in Runs \ {r} : pc'[q] = pc[q]
        BY <3>1, WritingMoves DEF Steps
      <3>3. <<>> \in Seq(Numbers) /\ Len(<<>>) <= MaxSeeds
        BY MaxSeedsAssumption
      <3>4. \A q \in Runs : pc'[q] \in {"open", "write"} =>
               Len(seeds'[q]) \in 1 .. MaxSeeds /\ seeds'[q][Len(seeds'[q])] = failed'[q]
        BY <3>1, <3>2 DEF IInv
      <3> QED BY <3>1, <3>2, <3>3, <3>4 DEF IInv
    <2>5. CASE Write(r)
      <3>1. /\ pc' = [pc EXCEPT ![r] = "idle"] /\ pc[r] = "write"
            /\ UNCHANGED <<overlap, seeds, failed>>
            /\ settled' = IF Writing' = {} THEN file' ELSE settled
        BY <1>2, <2>5 DEF Write, Settle
      <3>2. PICK rest \in Leftovers(file, seeds[r]) : file' = seeds[r] \o rest
        BY <2>5 DEF Write
      <3>3. seeds[r] \in Seq(Numbers) /\ Len(seeds[r]) \in 1 .. MaxSeeds /\ Len(file) <= MaxSeeds
        BY <3>1 DEF IInv, Writing
      <3>4. file' \in Seq(Numbers)
            /\ Len(file') = IF Len(file) < Len(seeds[r]) THEN Len(seeds[r]) ELSE Len(file)
        BY <2>0, <3>2, <3>3, WrittenOver
      <3>5. Len(file') <= MaxSeeds
        BY <3>3, <3>4
      <3>6. pc' \in [Runs -> Steps] /\ \A q \in Runs \ {r} : pc'[q] = pc[q]
            /\ pc'[r] = "idle"
        BY <3>1, WritingMoves DEF Steps
      <3>7. \A q \in Runs : pc'[q] \in {"open", "write"} =>
               Len(seeds'[q]) \in 1 .. MaxSeeds /\ seeds'[q][Len(seeds'[q])] = failed'[q]
        BY <3>1, <3>6 DEF IInv
      <3> QED BY <3>1, <3>4, <3>5, <3>6, <3>7 DEF IInv
    <2> QED BY <1>2, <2>1, <2>2, <2>3, <2>4, <2>5 DEF Step
  <1> QED BY <1>1, <1>2 DEF FileNext

\* The capacity invariant holds under every interleaving, kill and failed write.
THEOREM RegressionInvariant == FileSpec => []IInv
  BY InitIInv, NextIInv, PTL DEF FileSpec

\* The seed file never outgrows its capacity, however many runs overlap in it
\* and wherever they are killed, and a run about to write will write its own
\* failing seed as the newest.
THEOREM FileCapped == FileSpec => []CapHeld
  <1>1. IInv => CapHeld
    <2> SUFFICES ASSUME IInv PROVE CapHeld
      OBVIOUS
    <2>1. ToSet(file) \subseteq Numbers
      BY DEF IInv, ToSet
    <2> QED BY <2>1 DEF IInv, CapHeld, Last
  <1> QED BY <1>1, RegressionInvariant, PTL

-----------------------------------------------------------------------------
(* The refinement of SeedLog.                                              *)

\* Without overlap one run at a time is between its second read and the end
\* of its write, and what it writes is the log with its failing seed added;
\* meanwhile the file is as last settled, or empty.  No line is ever torn.
RInv ==
    ~overlap =>
        /\ file \in Seq(Seeds) /\ settled \in Seq(Seeds)
        /\ seeds \in [Runs -> Seq(Seeds)]
        /\ \A r \in Runs : pc[r] \in {"append", "open", "write"} => failed[r] \in Seeds
        /\ \A q, r \in Runs :
              pc[q] \in {"open", "write"} /\ pc[r] \in {"open", "write"} => q = r
        /\ \A r \in Runs : pc[r] \in {"open", "write"} =>
              /\ ~Contains(ReadSeeds(settled), failed[r])
              /\ seeds[r] = AddSeed(ReadSeeds(settled), failed[r])
        /\ Writing # {} => file = <<>>

LEMMA InitRInv == FileInit => RInv
  <1> SUFFICES ASSUME FileInit PROVE RInv
    OBVIOUS
  <1>1. file \in Seq(Seeds) /\ settled \in Seq(Seeds) /\ Writing = {}
    BY RegressionAssumption DEF FileInit, Writing
  <1>2. <<>> \in Seq(Seeds)
    OBVIOUS
  <1> QED BY <1>1, <1>2 DEF FileInit, RInv

\* What is read of the log is the log.
LEMMA ReadOfSeeds ==
  ASSUME NEW f \in Seq(Seeds)
  PROVE  ReadSeeds(f) \in Seq(Seeds) /\ Distinct(ReadSeeds(f))
  BY ReadSeedsFacts

\* The end of a write, and what settles then.
LEMMA WriteSettles ==
  ASSUME IInv, RInv, ~overlap, UNCHANGED overlap, NEW r \in Runs, Write(r)
  PROVE  /\ settled' = file' /\ file' = seeds[r] /\ Writing' = {}
         /\ failed[r] \in Seeds /\ seeds[r] \in Seq(Seeds)
         /\ ~Contains(ReadSeeds(settled), failed[r])
         /\ seeds[r] = AddSeed(ReadSeeds(settled), failed[r])
  <1>1. pc[r] = "write" /\ pc' = [pc EXCEPT ![r] = "idle"]
    BY DEF Write
  <1>2. file = <<>> /\ Writing = {r}
    BY <1>1 DEF RInv, Writing
  <1>3. Writing' = {}
    BY <1>1, <1>2, WritingMoves DEF Steps
  <1>4. PICK rest \in Leftovers(file, seeds[r]) : file' = seeds[r] \o rest
    BY DEF Write
  <1>5. seeds[r] \in Seq(Numbers) /\ file \in Seq(Numbers)
    BY DEF IInv
  <1>6. file' = seeds[r]
    BY <1>2, <1>4, <1>5, WrittenOver
  <1>7. settled' = file'
    BY <1>3 DEF Write, Settle
  <1> QED BY <1>1, <1>3, <1>6, <1>7 DEF RInv

LEMMA NextRInv == IInv /\ RInv /\ [FileNext]_fileVars => RInv'
  <1> SUFFICES ASSUME IInv, RInv, [FileNext]_fileVars, ~overlap' PROVE RInv'
    BY DEF RInv
  <1>0. ~overlap
    BY DEF FileNext, fileVars
  <1>1. CASE UNCHANGED fileVars
    BY <1>1, <1>0 DEF fileVars, RInv, Writing
  <1>2. ASSUME NEW r \in Runs, UNCHANGED overlap, Step(r) PROVE RInv'
    <2>0. /\ file \in Seq(Seeds) /\ settled \in Seq(Seeds) /\ seeds \in [Runs -> Seq(Seeds)]
          /\ pc \in [Runs -> Steps] /\ failed \in [Runs -> Numbers]
      BY <1>0 DEF IInv, RInv
    <2>1. CASE Start(r) \/ Finish(r) \/ \E seed \in Seeds \cup ToSet(seeds[r]) : Fail(r, seed)
      <3>1. PICK step \in {"idle", "running", "append"} : pc' = [pc EXCEPT ![r] = step]
        BY <2>1 DEF Start, Finish, Fail
      <3>2. UNCHANGED <<file, settled>> /\ pc[r] \in {"idle", "running"}
        BY <2>1 DEF Start, Finish, Fail
      <3>3. Writing' = Writing /\ pc'[r] = step /\ \A q \in Runs \ {r} : pc'[q] = pc[q]
        <4>1. Writing' = Writing \ {r} /\ r \notin Writing
          BY <3>1, <3>2, WritingMoves DEF Steps, Writing
        <4>2. pc'[r] = step /\ \A q \in Runs \ {r} : pc'[q] = pc[q]
          BY <2>0, <3>1
        <4> QED BY <4>1, <4>2
      <3>4. seeds' \in [Runs -> Seq(Seeds)] /\ \A q \in Runs \ {r} : seeds'[q] = seeds[q]
        <4>1. CASE seeds' = [seeds EXCEPT ![r] = ReadSeeds(file)]
          <5>1. ReadSeeds(file) \in Seq(Seeds)
            BY <2>0, ReadOfSeeds
          <5> QED BY <4>1, <5>1, <2>0
        <4>2. CASE seeds' = seeds
          BY <4>2, <2>0
        <4> QED BY <4>1, <4>2, <2>1 DEF Start, Finish, Fail
      <3>5. /\ \A q \in Runs \ {r} : failed'[q] = failed[q]
            /\ step = "append" => failed'[r] \in Seeds
        <4>1. CASE Start(r) \/ Finish(r)
          BY <4>1, <3>1, <2>0 DEF Start, Finish
        <4>2. CASE \E seed \in Seeds \cup ToSet(seeds[r]) : Fail(r, seed)
          <5>1. seeds[r] \in Seq(Seeds)
            BY <2>0
          <5>2. ToSet(seeds[r]) \subseteq Seeds
            BY <5>1 DEF ToSet
          <5> QED BY <4>2, <5>2, <2>0 DEF Fail
        <4> QED BY <4>1, <4>2, <2>1
      <3> QED BY <1>0, <2>0, <3>2, <3>3, <3>4, <3>5 DEF RInv
    <2>2. CASE ReadAgain(r)
      <3> DEFINE read == ReadSeeds(file)
                 new  == AddSeed(read, failed[r])
                 step == IF Contains(read, failed[r]) THEN "idle" ELSE "open"
      <3>1. \A q \in Runs : pc[q] \notin {"open", "write"}
        BY <2>2, <1>0 DEF ReadAgain
      <3>2. /\ pc' = [pc EXCEPT ![r] = step] /\ seeds' = [seeds EXCEPT ![r] = new]
            /\ UNCHANGED <<file, failed, settled>> /\ pc[r] = "append"
        BY <2>2 DEF ReadAgain
      <3>3. Writing = {} /\ settled = file
        BY <3>1 DEF Writing, IInv
      <3>4. failed[r] \in Seeds /\ read \in Seq(Seeds)
        BY <1>0, <2>0, <3>2, ReadOfSeeds DEF RInv
      <3>5. new \in Seq(Seeds)
        <4>1. CASE Contains(read, failed[r])
          BY <4>1, <3>4 DEF AddSeed
        <4>2. CASE ~Contains(read, failed[r])
          <5> HIDE DEF read
          <5> QED BY <4>2, <3>4, AddSeedFacts
        <4> QED BY <4>1, <4>2
      <3>6. step \in {"idle", "open"} /\ (step = "open" => ~Contains(read, failed[r]))
        OBVIOUS
      <3> HIDE DEF new, step
      <3>7. /\ Writing' = {} /\ pc'[r] = step /\ \A q \in Runs \ {r} : pc'[q] = pc[q]
        BY <3>2, <3>3, <3>6, WritingMoves DEF Steps
      <3>8. seeds' \in [Runs -> Seq(Seeds)] /\ seeds'[r] = new
        BY <2>0, <3>2, <3>5
      <3>9. ReadSeeds(settled') = read
        BY <3>2, <3>3
      <3>10. new = AddSeed(read, failed[r])
        BY DEF new
      <3> HIDE DEF read
      <3> QED BY <1>0, <2>0, <3>1, <3>2, <3>3, <3>6, <3>7, <3>8, <3>9, <3>10 DEF RInv
    <2>3. CASE Interrupt(r)
      <3>1. /\ pc' = [pc EXCEPT ![r] = "idle"] /\ UNCHANGED <<file, seeds, failed>>
            /\ settled' = IF Writing' = {} THEN file ELSE settled
        BY <2>3 DEF Interrupt, Settle
      <3>2. /\ Writing' = Writing \ {r} /\ pc'[r] = "idle"
            /\ \A q \in Runs \ {r} : pc'[q] = pc[q]
        BY <3>1, WritingMoves DEF Steps
      <3>3. settled' \in Seq(Seeds)
        BY <2>0, <3>1
      <3>4. ASSUME NEW q \in Runs, pc'[q] \in {"open", "write"}
            PROVE  /\ settled' = settled /\ q # r /\ pc'[q] = pc[q]
                   /\ seeds'[q] = seeds[q] /\ failed'[q] = failed[q]
        <4>1. q # r /\ pc[q] = pc'[q]
          BY <3>2, <3>4
        <4>2. r \notin Writing
          BY <1>0, <3>4, <4>1 DEF RInv, Writing
        <4>3. Writing' = Writing
          BY <3>2, <4>2
        <4> QED BY <3>1, <4>1, <4>3 DEF IInv
      <3>5. \A q \in Runs : pc'[q] \in {"append", "open", "write"} => failed'[q] \in Seeds
        BY <1>0, <3>1, <3>2 DEF RInv
      <3>6. Writing' # {} => file' = <<>>
        BY <1>0, <3>1, <3>2 DEF RInv
      <3>7. \A q, t \in Runs :
               pc'[q] \in {"open", "write"} /\ pc'[t] \in {"open", "write"} => q = t
        BY <1>0, <3>4 DEF RInv
      <3>8. \A q \in Runs : pc'[q] \in {"open", "write"} =>
               /\ ~Contains(ReadSeeds(settled'), failed'[q])
               /\ seeds'[q] = AddSeed(ReadSeeds(settled'), failed'[q])
        BY <1>0, <3>4 DEF RInv
      <3> QED BY <2>0, <3>1, <3>3, <3>5, <3>6, <3>7, <3>8 DEF RInv
    <2>4. CASE Truncate(r)
      <3>1. pc' = [pc EXCEPT ![r] = "write"] /\ file' = <<>> /\ pc[r] = "open"
            /\ UNCHANGED <<seeds, failed>>
        BY <2>4 DEF Truncate
      <3>2. /\ Writing' = Writing \cup {r} /\ pc'[r] = "write"
            /\ \A q \in Runs \ {r} : pc'[q] = pc[q]
        BY <3>1, WritingMoves DEF Steps
      <3>3. settled' = settled
        BY <2>4, <3>2 DEF Truncate, Settle
      <3>4. <<>> \in Seq(Seeds)
        OBVIOUS
      <3> QED BY <1>0, <2>0, <3>1, <3>2, <3>3, <3>4 DEF RInv
    <2>5. CASE Write(r)
      <3>1. settled' = file' /\ file' = seeds[r] /\ Writing' = {} /\ seeds[r] \in Seq(Seeds)
        BY <1>0, <1>2, <2>5, WriteSettles
      <3>2. pc[r] = "write" /\ pc' = [pc EXCEPT ![r] = "idle"] /\ UNCHANGED <<seeds, failed>>
        BY <2>5 DEF Write
      <3>3. pc'[r] = "idle" /\ \A q \in Runs \ {r} : pc'[q] = pc[q]
        BY <3>2, WritingMoves DEF Steps
      <3>4. \A q \in Runs : pc'[q] \notin {"open", "write"}
        BY <1>0, <3>2, <3>3 DEF RInv
      <3>5. \A q \in Runs : pc'[q] = "append" => failed'[q] \in Seeds
        BY <1>0, <3>2, <3>3 DEF RInv
      <3> QED BY <2>0, <3>1, <3>2, <3>4, <3>5 DEF RInv
    <2> QED BY <1>2, <2>1, <2>2, <2>3, <2>4, <2>5 DEF Step
  <1> QED BY <1>1, <1>2 DEF FileNext

\* A completed write adds a seed to the log.
LEMMA WriteAdds ==
  ASSUME IInv, RInv, ~overlap, UNCHANGED overlap, NEW r \in Runs, Write(r)
  PROVE  Promise!LogNext
  <1> DEFINE log  == ReadSeeds(settled)
             seed == failed[r]
             new  == AddSeed(log, seed)
  <1>1. /\ settled' = seeds[r] /\ seeds[r] \in Seq(Seeds) /\ seed \in Seeds
        /\ ~Contains(log, seed) /\ seeds[r] = new
    BY WriteSettles
  <1>2. log \in Seq(Seeds) /\ Distinct(log)
    BY <1>1, ReadOfSeeds DEF RInv
  <1>3. ReadSeeds(settled') = new
    <2>1. Distinct(new)
      <3> HIDE DEF log, seed
      <3> QED BY <1>1, <1>2, AddSeedDistinct
    <2> HIDE DEF new
    <2> QED BY <1>1, <2>1, DistinctFileRead
  <1> HIDE DEF log, seed
  <1>4. \A i \in DOMAIN log : log[i] # seed
    BY <1>1, <1>2 DEF Contains
  <1>5. CASE Len(log) < MaxSeeds
    <2>1. new = Append(log, seed)
      BY <1>1, <1>2, <1>5, AddSeedFits
    <2>2. Promise!Add(seed)
      BY <1>3, <1>4, <1>5, <2>1 DEF Promise!Add, log
    <2> QED BY <1>1, <2>2 DEF Promise!LogNext
  <1>6. CASE ~(Len(log) < MaxSeeds)
    <2>1. /\ Lost(log) \in 0 .. Len(log) /\ Len(new) = Len(log) + 1 - Lost(log)
          /\ new[Len(new)] = seed
          /\ \A i \in 1 .. Len(new) - 1 : new[i] = log[Lost(log) + i]
      BY <1>1, <1>2, AddSeedFacts
    <2>2. Len(log) \in Nat /\ MaxSeeds \in Nat /\ Lost(log) = Len(log) + 1 - MaxSeeds
      BY <1>2, <1>6, MaxSeedsAssumption DEF Lost
    <2> HIDE DEF new
    <2>3. Len(new) = MaxSeeds
      BY <2>1, <2>2
    <2>4. new[MaxSeeds] = seed
      BY <2>1, <2>3
    <2>5. ASSUME NEW i \in 1 .. MaxSeeds - 1 PROVE new[i] = log[i + Len(log) - (MaxSeeds - 1)]
      <3>1. Lost(log) + i = i + Len(log) - (MaxSeeds - 1)
        BY <2>2
      <3> QED BY <2>1, <2>3, <3>1
    <2>6. Promise!Add(seed)
      BY <1>3, <1>4, <1>6, <2>3, <2>4, <2>5 DEF Promise!Add, log
    <2> QED BY <1>1, <2>6 DEF Promise!LogNext
  <1> QED BY <1>5, <1>6

\* Without overlap, for every number of runs, every capacity and every file
\* found at the start, the seed file is the bounded log that SeedLog promises:
\* a failure adds its seed as the newest and costs the oldest at most, and a
\* kill at any point loses nothing or, after the truncation, all.
THEOREM LogImplemented == FileSpec => ImplementsLog
  <1>1. FileInit => Promise!LogInit
    <2> SUFFICES ASSUME FileInit PROVE Promise!LogInit
      OBVIOUS
    <2>1. settled \in Seq(Seeds)
      BY RegressionAssumption DEF FileInit
    <2> QED BY <2>1, ReadOfSeeds DEF Promise!LogInit
  <1>2. IInv /\ RInv /\ [FileNext]_fileVars => [overlap \/ Promise!LogNext]_(ReadSeeds(settled))
    <2> SUFFICES ASSUME IInv, RInv, [FileNext]_fileVars, ~overlap, settled' # settled
                 PROVE  Promise!LogNext \/ ReadSeeds(settled') = ReadSeeds(settled)
      OBVIOUS
    <2>1. PICK r \in Runs : UNCHANGED overlap /\ Step(r)
      BY DEF FileNext, fileVars
    <2>2. Truncate(r) \/ Write(r) \/ Interrupt(r)
      BY <2>1 DEF Step, Start, Finish, Fail, ReadAgain
    <2>3. CASE Write(r)
      BY <2>1, <2>3, WriteAdds
    <2>4. CASE Truncate(r)
      <3>1. r \in Writing'
        BY <2>4, WritingMoves DEF Truncate, Steps
      <3> QED BY <2>4, <3>1 DEF Truncate, Settle
    <2>5. CASE Interrupt(r)
      <3>1. Interrupts /\ file' = file /\ settled' = file
        BY <2>5 DEF Interrupt, Settle
      <3>2. Writing # {}
        BY <3>1 DEF IInv
      <3>3. settled' = <<>>
        BY <3>1, <3>2 DEF RInv
      <3>4. ReadSeeds(<<>>) = <<>>
        <4>1. <<>> \in Seq(Seeds) /\ Distinct(<<>>)
          BY DEF Distinct
        <4> QED BY <4>1, DistinctFileRead
      <3> QED BY <3>1, <3>3, <3>4 DEF Promise!LogNext, Promise!Wipe
    <2> QED BY <2>2, <2>3, <2>4, <2>5
  <1>3. FileSpec => []IInv
    BY RegressionInvariant
  <1>4. IInv /\ RInv /\ [FileNext]_fileVars => RInv'
    BY NextRInv
  <1> QED BY <1>1, <1>2, <1>3, <1>4, InitRInv, PTL DEF FileSpec, ImplementsLog

-----------------------------------------------------------------------------
(* RunWith: run_with called again and again.                               *)

\* The property under test gives one outcome for each value.
Deterministic == \A p \in Verdicts : \A v \in Values : \E o \in Outcomes : p[v] = {o}

\* The generator makes a value of every seed, position and size.
DrawsValues == \A seed, k, hint \in Nat : Draw(seed, k, hint) \in Values

\* The configurations differ in the seed and the shrink mode only.
OneLimit == \A c, d \in Configs :
    /\ c.cases = d.cases /\ c.max_size = d.max_size
    /\ c.max_discards = d.max_discards /\ c.max_skips = d.max_skips

\* Where a run stands, and that its failing seed is the one it reports.
WBase ==
    /\ cfg \in Configs /\ verdict \in Verdicts
    /\ seed_file \in Seq(Nat) /\ regressions \in Seq(Nat)
    /\ replayed \in 0 .. Len(regressions)
    /\ passed \in Nat /\ discarded \in Nat /\ skipped \in Nat
    /\ phase \in Phases
    /\ failure.seed \in Nat /\ failure.attempt \in Nat
    /\ phase # "done" => outcome = Running
    /\ phase = "done" =>
         \/ /\ outcome.status = "Failed"
            /\ outcome.seed = failure.seed /\ outcome.attempt = failure.attempt
         \/ outcome.status \in {"Passed", "Aborted"}

\* A seed of the file that does not always fail when it is replayed.
Spared(i) == verdict[Replayed(regressions[i])] # {"Fail"}

ReplayFailed ==
    (phase \in {"shrink", "round"} \/ outcome.status = "Failed") /\ failure.attempt = 0

\* The seeds replayed so far are spared, up to the one that ends the run.
WReplay ==
    /\ phase = "replay" => \A i \in 1 .. replayed : Spared(i)
    /\ phase # "replay" /\ ~ReplayFailed => \A i \in 1 .. Len(regressions) : Spared(i)
    /\ ReplayFailed =>
         /\ replayed >= 1 /\ failure.seed = regressions[replayed]
         /\ ~Spared(replayed) /\ \A i \in 1 .. replayed - 1 : Spared(i)

\* Between two runs the failing seed of the last one is in the file.
WSaved == ~active /\ replay /\ outcome.status = "Failed" => Contains(seed_file, outcome.seed)

LEMMA ConfigNat ==
  ASSUME cfg \in Configs
  PROVE  /\ cfg.cases \in Nat /\ cfg.seed \in Nat /\ cfg.max_size \in Nat
         /\ cfg.max_discards \in Nat /\ cfg.max_skips \in Nat
         /\ Target \in Nat /\ Target >= 1 /\ ReplaySize \in Nat
  <1>1. /\ cfg.cases \in Nat /\ cfg.seed \in Nat /\ cfg.max_size \in Nat
        /\ cfg.max_discards \in Nat /\ cfg.max_skips \in Nat
    BY RunnerAssumption DEF ConfigType
  <1>2. Target \in Nat /\ Target >= 1
    BY <1>1 DEF Target, Larger
  <1>3. cfg.max_size \div 2 \in Nat
    BY <1>1
  <1> QED BY <1>1, <1>2, <1>3 DEF ReplaySize, Larger

\* What shrinking leaves alone, and how it ends.
LEMMA ShrinkKeeps ==
  ASSUME Shrink
  PROVE  /\ UNCHANGED <<params, replayed, counts, failure>>
         /\ phase \in {"shrink", "round"}
         /\ \/ phase' \in {"shrink", "round"} /\ outcome' = outcome
            \/ phase' = "done" /\ outcome' = FailedOutcome
  BY DEF Shrink, NothingToShrink, BeginRound, GreedyTry, GreedyStop, ExhaustiveTry,
         ExhaustiveAdopt, ExhaustiveStop, InRound, Return

\* The end of the main loop.
LEMMA MainEnds ==
  ASSUME GiveUp \/ AllPassed
  PROVE  /\ UNCHANGED <<params, replayed, counts, failure>> /\ phase = "main" /\ phase' = "done"
         /\ outcome'.status \in {"Passed", "Aborted"}
  BY DEF GiveUp, AllPassed, Return, InMain, PassedOutcome, AbortedOutcome

LEMMA InitW == RunInit => WBase /\ WReplay /\ WSaved
  <1> SUFFICES ASSUME RunInit PROVE WBase /\ WReplay /\ WSaved
    OBVIOUS
  <1>1. <<>> \in Seq(Nat) /\ Len(<<>>) = 0
    OBVIOUS
  <1>2. WBase
    BY <1>1 DEF RunInit, Init, WBase, Phases, NoFailure
  <1>3. WReplay
    BY <1>1 DEF RunInit, Init, WReplay, ReplayFailed, Running
  <1>4. WSaved
    BY DEF RunInit, Init, WSaved, Running
  <1> QED BY <1>2, <1>3, <1>4

LEMMA ReadFileW ==
  ASSUME WBase, ReadFile
  PROVE  WBase' /\ WReplay' /\ WSaved'
  <1>1. regressions' \in Seq(Nat)
    <2>1. ReadSeeds(seed_file) \in Seq(Nat)
      BY ReadSeedsFacts DEF WBase
    <2>2. <<>> \in Seq(Nat)
      OBVIOUS
    <2> QED BY <2>1, <2>2 DEF ReadFile
  <1>2. Len(regressions') \in Nat
    BY <1>1
  <1>3. WBase'
    BY <1>1, <1>2 DEF WBase, ReadFile, Phases, NoFailure
  <1>4. WReplay'
    BY DEF ReadFile, WReplay, ReplayFailed, Running
  <1> QED BY <1>3, <1>4 DEF ReadFile, WSaved

LEMMA WriteFileW ==
  ASSUME WBase, WReplay, WriteFile
  PROVE  WBase' /\ WReplay' /\ WSaved'
  <1> DEFINE seed == outcome.seed
             read == ReadSeeds(seed_file)
  <1>1. UNCHANGED vars /\ UNCHANGED replay
    BY DEF WriteFile
  <1>2. /\ read \in Seq(Nat) /\ Distinct(read)
        /\ \A x : Contains(read, x) <=> Contains(seed_file, x)
    BY ReadSeedsFacts DEF WBase
  <1>3. outcome.status = "Failed" => seed \in Nat
    BY DEF WBase, Running, WriteFile
  <1>4. seed_file' \in Seq(Nat)
        /\ (outcome.status = "Failed" /\ replay => Contains(seed_file', seed))
    <2>1. CASE outcome.status = "Failed" /\ replay /\ ~Contains(read, seed)
      <3>1. seed_file' = AddSeed(read, seed)
        BY <2>1 DEF WriteFile
      <3> HIDE DEF read, seed
      <3> QED BY <1>2, <1>3, <2>1, <3>1, AddSeedFacts, AddSeedDistinct
    <2>2. CASE ~(outcome.status = "Failed" /\ replay /\ ~Contains(read, seed))
      <3>1. seed_file' = seed_file
        BY <2>2 DEF WriteFile
      <3> QED BY <1>2, <2>2, <3>1 DEF WBase
    <2> QED BY <2>1, <2>2
  <1>5. WBase' /\ WReplay'
    BY <1>1, <1>4 DEF vars, params, counts, WBase, WReplay, ReplayFailed, Spared, Replayed,
                     ReplaySize
  <1>6. WSaved'
    BY <1>1, <1>4 DEF WSaved, vars
  <1> QED BY <1>5, <1>6

\* A seed of the file is replayed.
LEMMA ReplayW ==
  ASSUME Deterministic, DrawsValues, WBase, WReplay, NEW o \in Outcomes,
         replayed < Len(regressions), ReplaySeed(ReplayValue, o), seed_file' = seed_file
  PROVE  WBase' /\ WReplay'
  <1> DEFINE next == replayed + 1
  <1>1. /\ next \in 1 .. Len(regressions) /\ regressions[next] \in Nat
        /\ Len(regressions) \in Nat
    BY DEF WBase
  <1>2. ReplayValue \in Values /\ ReplayValue = Replayed(regressions[next])
    BY <1>1, ConfigNat DEF WBase, DrawsValues, ReplayValue, Replayed
  <1>3. (o = "Fail") <=> ~Spared(next)
    BY <1>2 DEF Deterministic, WBase, ReplaySeed, Spared
  <1>4. /\ phase = "replay" /\ replayed' = next
        /\ UNCHANGED <<cfg, verdict, regressions, passed, discarded, skipped, outcome>>
    BY DEF ReplaySeed, params, counts
  <1>5. \A i : (Spared(i) <=> Spared(i)')
    BY <1>4 DEF Spared, Replayed, ReplaySize
  <1>6. \A i \in 1 .. replayed : Spared(i)
    BY <1>4 DEF WReplay
  <1>7. outcome = Running /\ replayed \in Nat
    BY <1>4 DEF WBase
  <1> HIDE DEF Spared
  <1>8. CASE o = "Fail"
    <2>1. phase' = "shrink" /\ failure'.seed = regressions[next] /\ failure'.attempt = 0
      BY <1>8 DEF ReplaySeed, StartShrink
    <2>2. WBase'
      BY <1>1, <1>4, <1>7, <2>1 DEF WBase, Phases
    <2>3. ~Spared(next) /\ \A i \in 1 .. next - 1 : Spared(i)
      BY <1>3, <1>6, <1>7, <1>8
    <2>4. WReplay'
      BY <1>1, <1>4, <1>5, <2>1, <2>3 DEF WReplay, ReplayFailed
    <2> QED BY <2>2, <2>4
  <1>9. CASE o # "Fail"
    <2>1. phase' = "replay" /\ failure' = failure
      BY <1>4, <1>9 DEF ReplaySeed
    <2>2. WBase'
      BY <1>1, <1>4, <1>7, <2>1 DEF WBase
    <2>3. \A i \in 1 .. next : Spared(i)
      BY <1>3, <1>6, <1>7, <1>9
    <2>4. WReplay'
      BY <1>4, <1>5, <1>7, <2>1, <2>3 DEF WReplay, ReplayFailed, Running
    <2> QED BY <2>2, <2>4
  <1> QED BY <1>8, <1>9

\* A case of the main loop, on any value.
LEMMA CaseW ==
  ASSUME WBase, WReplay, NEW v, NEW o \in Outcomes, Case(v, o, {}), seed_file' = seed_file
  PROVE  WBase' /\ WReplay'
  <1>1. /\ phase = "main" /\ UNCHANGED <<cfg, verdict, regressions, replayed, outcome>>
        /\ passed' \in Nat /\ discarded' \in Nat /\ skipped' \in Nat
    BY DEF WBase, Case, InMain, params, Tally
  <1>2. outcome = Running /\ cfg.seed \in Nat /\ passed + 1 \in Nat
    BY <1>1, ConfigNat DEF WBase
  <1>3. \A i : (Spared(i) <=> Spared(i)')
    BY <1>1 DEF Spared, Replayed, ReplaySize
  <1>4. \A i \in 1 .. Len(regressions) : Spared(i)
    BY <1>1, <1>2 DEF WReplay, ReplayFailed, Running
  <1>5. \/ phase' = "main" /\ failure' = failure
        \/ phase' = "shrink" /\ failure'.seed = cfg.seed /\ failure'.attempt = passed + 1
    BY <1>1 DEF Case, StartShrink
  <1>6. WBase'
    BY <1>1, <1>2, <1>5 DEF WBase, Phases
  <1>7. ~ReplayFailed' /\ phase' # "replay"
    <2>1. passed + 1 # 0
      BY DEF WBase
    <2> QED BY <1>1, <1>2, <1>5, <2>1 DEF ReplayFailed, Running
  <1> HIDE DEF Spared
  <1>8. WReplay'
    BY <1>1, <1>3, <1>4, <1>7 DEF WReplay
  <1> QED BY <1>6, <1>8

LEMMA OtherStepsW ==
  ASSUME WBase, WReplay, StartMain \/ GiveUp \/ AllPassed \/ Shrink, seed_file' = seed_file
  PROVE  WBase' /\ WReplay'
  <1>0. UNCHANGED <<cfg, verdict, regressions, replayed, passed, discarded, skipped, failure>>
    BY ShrinkKeeps, MainEnds DEF StartMain, params, counts
  <1>1. \A i : (Spared(i) <=> Spared(i)')
    BY <1>0 DEF Spared, Replayed, ReplaySize
  <1> HIDE DEF Spared
  <1>2. CASE StartMain
    <2>1. phase = "replay" /\ phase' = "main" /\ replayed = Len(regressions)
          /\ outcome' = outcome /\ outcome = Running
      BY <1>2 DEF StartMain, WBase
    <2>2. WBase'
      BY <1>0, <2>1 DEF WBase, Phases
    <2>3. WReplay'
      BY <1>0, <1>1, <2>1 DEF WReplay, ReplayFailed, Running
    <2> QED BY <2>2, <2>3
  <1>3. CASE GiveUp \/ AllPassed
    <2>1. phase = "main" /\ phase' = "done" /\ outcome'.status \in {"Passed", "Aborted"}
          /\ outcome = Running
      BY <1>3, MainEnds DEF WBase
    <2>2. WBase'
      BY <1>0, <2>1 DEF WBase, Phases
    <2>3. WReplay'
      BY <1>0, <1>1, <2>1 DEF WReplay, ReplayFailed, Running
    <2> QED BY <2>2, <2>3
  <1>4. CASE Shrink
    <2>1. phase \in {"shrink", "round"} /\ outcome = Running
      BY <1>4, ShrinkKeeps DEF WBase
    <2>2. \/ phase' \in {"shrink", "round"} /\ outcome' = outcome
          \/ phase' = "done" /\ outcome' = FailedOutcome
      BY <1>4, ShrinkKeeps
    <2>3. /\ FailedOutcome.status = "Failed" /\ FailedOutcome.seed = failure.seed
          /\ FailedOutcome.attempt = failure.attempt
      BY DEF FailedOutcome
    <2> HIDE DEF FailedOutcome
    <2>4. WBase'
      BY <1>0, <2>1, <2>2, <2>3 DEF WBase, Phases
    <2>5. ReplayFailed' <=> ReplayFailed
      BY <1>0, <2>1, <2>2, <2>3 DEF ReplayFailed
    <2>6. WReplay'
      BY <1>0, <1>1, <2>1, <2>2, <2>5 DEF WReplay
    <2> QED BY <2>4, <2>6
  <1> QED BY <1>2, <1>3, <1>4

LEMMA StutterW ==
  ASSUME WBase, WReplay, WSaved, UNCHANGED runVars
  PROVE  WBase' /\ WReplay' /\ WSaved'
  BY DEF WBase, WReplay, WSaved, runVars, vars, params, counts, ReplayFailed, Spared, Replayed,
         ReplaySize

LEMMA ExecuteW ==
  ASSUME Deterministic, DrawsValues, WBase, WReplay, WSaved, Execute
  PROVE  WBase' /\ WReplay' /\ WSaved'
  <1>1. active /\ UNCHANGED <<seed_file, active>>
    BY DEF Execute
  <1>2. WSaved'
    BY <1>1 DEF WSaved
  <1>3. WBase' /\ WReplay'
    BY <1>1, ReplayW, CaseW, OtherStepsW DEF Execute
  <1> QED BY <1>2, <1>3

LEMMA NextW ==
  ASSUME Deterministic, DrawsValues, WBase, WReplay, WSaved, [RunNext]_runVars
  PROVE  WBase' /\ WReplay' /\ WSaved'
  BY ReadFileW, WriteFileW, ExecuteW, StutterW DEF RunNext

LEMMA RunWithInvariant ==
  ASSUME Deterministic, DrawsValues
  PROVE  RunSpec => [](WBase /\ WReplay /\ WSaved)
  <1>1. WBase /\ WReplay /\ WSaved /\ [RunNext]_runVars => (WBase /\ WReplay /\ WSaved)'
    BY NextW
  <1> QED BY <1>1, InitW, PTL DEF RunSpec

\* For every deterministic property: a seed in the file whose value still
\* fails decides the run before the main loop, and the first such seed is the
\* one reported, as case 0; without one a failure is of the main loop.
THEOREM ReplaysDecide == ASSUME Deterministic, DrawsValues PROVE RunSpec => []ReplayDecides
  <1>1. WBase /\ WReplay => ReplayDecides
    <2> SUFFICES ASSUME WBase, WReplay, phase = "done" PROVE ReplayDecides
      BY DEF ReplayDecides
    <2> DEFINE failing == {i \in DOMAIN regressions : verdict[Replayed(regressions[i])] = {"Fail"}}
    <2>1. \A i : i \in failing <=> i \in 1 .. Len(regressions) /\ ~Spared(i)
      BY DEF Spared, WBase
    <2> HIDE DEF failing
    <2>2. CASE ReplayFailed
      <3>1. /\ replayed \in 1 .. Len(regressions) /\ ~Spared(replayed)
            /\ \A i \in 1 .. replayed - 1 : Spared(i)
            /\ failure.seed = regressions[replayed]
        BY <2>2 DEF WReplay, WBase
      <3>2. outcome.status = "Failed" /\ outcome.attempt = 0 /\ outcome.seed = regressions[replayed]
        BY <2>2, <3>1 DEF ReplayFailed, WBase
      <3>3. replayed \in failing /\ \A j \in failing : replayed <= j
        BY <2>1, <3>1
      <3> QED BY <3>2, <3>3 DEF ReplayDecides, failing
    <2>3. CASE ~ReplayFailed
      <3>1. failing = {}
        BY <2>1, <2>3 DEF WReplay
      <3>2. outcome.status = "Failed" => outcome.attempt > 0
        BY <2>3 DEF ReplayFailed, WBase
      <3> QED BY <3>1, <3>2 DEF ReplayDecides, failing
    <2> QED BY <2>2, <2>3
  <1> QED BY <1>1, RunWithInvariant, PTL

\* After a failed run its seed is in the file, whatever was in it before and
\* even when it was full.
THEOREM FailuresSaved == ASSUME Deterministic, DrawsValues PROVE RunSpec => []FailureSaved
  <1>1. WSaved => FailureSaved
    BY DEF WSaved, FailureSaved
  <1> QED BY <1>1, RunWithInvariant, PTL

-----------------------------------------------------------------------------
(* A seed alone decides how the main loop goes.  A position of the loop is *)
(* the record of its counters; the next position follows from the seed.    *)

Zero == [passed |-> 0, discarded |-> 0, skipped |-> 0]
Here == [passed |-> passed, discarded |-> discarded, skipped |-> skipped]

\* The main loop under configuration c generates a case at position t.
OnWay(c, t) ==
    /\ t.passed < Larger(c.cases, 1)
    /\ t.discarded <= c.max_discards /\ t.skipped <= c.max_skips

\* The value it generates there.
DrawnAt(c, t) ==
    Draw(c.seed, t.passed + t.discarded + t.skipped,
         1 + Smaller((t.passed * c.max_size) \div Larger(c.cases, 1), c.max_size))

FailsAt(c, t) == OnWay(c, t) /\ verdict[DrawnAt(c, t)] = {"Fail"}

\* The position after a case with outcome o.
Counted(t, o) ==
    [passed    |-> t.passed + (IF o = "Pass" THEN 1 ELSE 0),
     discarded |-> t.discarded + (IF o = "Discard" THEN 1 ELSE 0),
     skipped   |-> t.skipped + (IF o = "Skip" THEN 1 ELSE 0)]

Closed(c, S) ==
    \A t \in S : \A o \in {"Pass", "Discard", "Skip"} :
        OnWay(c, t) /\ verdict[DrawnAt(c, t)] = {o} => Counted(t, o) \in S

\* The loop comes from position a to position b: b is in every set that has a
\* and is closed under its cases.
Reaches(c, a, b) == \A S : a \in S /\ Closed(c, S) => b \in S

\* The main loop started from this seed comes to a case that fails.
MainFails(s) == \E c \in Configs : \E t : c.seed = s /\ Reaches(c, Zero, t) /\ FailsAt(c, t)

\* Every seed that gets reported, and hence into the file, makes the main loop
\* fail.  The loop is on the way its seed prescribes, and not past the failing
\* case if there is one; it never ends in another way then.
WEnv ==
    /\ \A s \in reported : MainFails(s)
    /\ \A x : Contains(seed_file, x) \/ Contains(regressions, x) => x \in reported
    /\ phase = "replay" => Here = Zero
    /\ phase = "main" => Reaches(cfg, Zero, Here)
    /\ phase = "main" =>
         \A c \in Configs : \A t :
            c.seed = cfg.seed /\ Reaches(c, Zero, t) /\ FailsAt(c, t) => Reaches(cfg, Here, t)
    /\ phase \in {"shrink", "round"} \/ outcome.status = "Failed" => MainFails(failure.seed)
    /\ phase = "done" /\ outcome.status # "Failed" => ~MainFails(cfg.seed)

LEMMA RampNat ==
  ASSUME cfg \in Configs, passed \in Nat
  PROVE  RampSize \in Nat
  <1>1. cfg.max_size \in Nat /\ Target \in Nat /\ Target > 0
    BY ConfigNat
  <1>2. passed * cfg.max_size \in Nat
    BY <1>1
  <1>3. \A a, t \in Nat : t > 0 => a \div t \in Nat
    BY Z3
  <1>4. (passed * cfg.max_size) \div Target \in Nat
    BY <1>1, <1>2, <1>3
  <1> QED BY <1>1, <1>4 DEF RampSize, Smaller

\* Two configurations with the same seed go the same way.
LEMMA SameWay ==
  ASSUME OneLimit, NEW c \in Configs, NEW d \in Configs, c.seed = d.seed
  PROVE  /\ \A t : (OnWay(c, t) <=> OnWay(d, t)) /\ DrawnAt(c, t) = DrawnAt(d, t)
         /\ \A t : FailsAt(c, t) <=> FailsAt(d, t)
         /\ \A a, b : Reaches(c, a, b) <=> Reaches(d, a, b)
  <1>1. \A t : (OnWay(c, t) <=> OnWay(d, t)) /\ DrawnAt(c, t) = DrawnAt(d, t)
    BY DEF OneLimit, OnWay, DrawnAt
  <1> HIDE DEF OneLimit
  <1>2. \A t : FailsAt(c, t) <=> FailsAt(d, t)
    BY <1>1 DEF FailsAt
  <1>3. \A S : Closed(c, S) <=> Closed(d, S)
    BY <1>1 DEF Closed
  <1> QED BY <1>1, <1>2, <1>3 DEF Reaches

\* A case leads one position further.
LEMMA OneFurther ==
  ASSUME NEW c, NEW a, NEW b, NEW o \in {"Pass", "Discard", "Skip"}, Reaches(c, a, b),
         OnWay(c, b), verdict[DrawnAt(c, b)] = {o}
  PROVE  Reaches(c, a, Counted(b, o))
  <1> SUFFICES ASSUME NEW S, a \in S, Closed(c, S) PROVE Counted(b, o) \in S
    BY DEF Reaches
  <1>1. b \in S
    BY DEF Reaches
  <1> QED BY <1>1 DEF Closed

\* What lies ahead still does after a case that does not fail.
LEMMA StillAhead ==
  ASSUME NEW c, NEW a, NEW b, NEW o \in {"Pass", "Discard", "Skip"}, Reaches(c, a, b),
         FailsAt(c, b), verdict[DrawnAt(c, a)] = {o}
  PROVE  Reaches(c, Counted(a, o), b)
  <1> SUFFICES ASSUME NEW S, Counted(a, o) \in S, Closed(c, S) PROVE b \in S
    BY DEF Reaches
  <1>1. \A x : verdict[DrawnAt(c, a)] = {x} => x = o
    OBVIOUS
  <1>2. Closed(c, S \cup {a})
    BY <1>1 DEF Closed
  <1>3. b \in S \cup {a}
    BY <1>2 DEF Reaches
  <1>4. b # a
    BY <1>1 DEF FailsAt
  <1> QED BY <1>3, <1>4

\* A loop that ends without a failure has none ahead.
LEMMA NothingAhead ==
  ASSUME NEW c, NEW a, NEW b, ~OnWay(c, a), Reaches(c, a, b)
  PROVE  ~FailsAt(c, b)
  <1>1. Closed(c, {a})
    BY DEF Closed
  <1>2. b = a
    BY <1>1 DEF Reaches
  <1> QED BY <1>2 DEF FailsAt

\* The notions above depend on the property under test only.
LEMMA SameVerdict ==
  ASSUME verdict' = verdict
  PROVE  /\ \A s : MainFails(s)' <=> MainFails(s)
         /\ \A c, t : FailsAt(c, t)' <=> FailsAt(c, t)
         /\ \A c, a, b : Reaches(c, a, b)' <=> Reaches(c, a, b)
  BY DEF MainFails, FailsAt, Reaches, Closed, OnWay, DrawnAt

LEMMA InitEnv == RunInit => WEnv
  <1>1. ASSUME NEW x PROVE ~Contains(<<>>, x)
    BY DEF Contains
  <1> QED BY <1>1 DEF RunInit, Init, WEnv, Here, Zero, Running

LEMMA ReadFileEnv ==
  ASSUME WBase, WEnv, ReadFile
  PROVE  WEnv'
  <1>1. verdict' = verdict /\ reported' = reported /\ seed_file' = seed_file
    BY DEF ReadFile
  <1>2. \A s : MainFails(s)' <=> MainFails(s)
    BY <1>1, SameVerdict
  <1>3. \A x : Contains(regressions', x) => Contains(seed_file, x)
    <2>1. ASSUME NEW x PROVE ~Contains(<<>>, x)
      BY DEF Contains
    <2>2. \A x : Contains(ReadSeeds(seed_file), x) => Contains(seed_file, x)
      BY ReadSeedsFacts DEF WBase
    <2> QED BY <2>1, <2>2 DEF ReadFile
  <1>4. /\ phase' = "replay" /\ outcome' = Running
        /\ passed' = 0 /\ discarded' = 0 /\ skipped' = 0
    BY DEF ReadFile
  <1> HIDE DEF MainFails
  <1> QED BY <1>1, <1>2, <1>3, <1>4 DEF WEnv, Here, Zero, Running

LEMMA WriteFileEnv ==
  ASSUME WBase, WEnv, WriteFile
  PROVE  WEnv'
  <1> DEFINE seed == outcome.seed
             read == ReadSeeds(seed_file)
  <1>1. UNCHANGED vars /\ phase = "done"
    BY DEF WriteFile
  <1>2. verdict' = verdict /\ cfg' = cfg /\ regressions' = regressions /\ phase' = phase
        /\ outcome' = outcome /\ failure' = failure
    BY <1>1 DEF vars, params
  <1>3. \A s : MainFails(s)' <=> MainFails(s)
    BY <1>2, SameVerdict
  <1>4. outcome.status = "Failed" => seed \in Nat /\ MainFails(seed)
    BY <1>1 DEF WBase, WEnv
  <1>5. /\ read \in Seq(Nat)
        /\ \A x : Contains(read, x) <=> Contains(seed_file, x)
    BY ReadSeedsFacts DEF WBase
  <1>6. /\ reported' \subseteq reported \cup {seed} /\ reported \subseteq reported'
        /\ \A s \in reported' : MainFails(s)
    BY <1>4 DEF WriteFile, WEnv
  <1>7. \A x : Contains(seed_file', x) => x \in reported'
    <2>1. CASE outcome.status = "Failed" /\ replay /\ ~Contains(read, seed)
      <3>1. seed_file' = AddSeed(read, seed) /\ seed \in reported'
        BY <2>1 DEF WriteFile
      <3> HIDE DEF read, seed
      <3>2. \A x : Contains(seed_file', x) => Contains(read, x) \/ x = seed
        BY <1>4, <1>5, <2>1, <3>1, AddSeedElements
      <3> QED BY <1>5, <1>6, <3>1, <3>2 DEF WEnv
    <2>2. CASE ~(outcome.status = "Failed" /\ replay /\ ~Contains(read, seed))
      <3>1. seed_file' = seed_file
        BY <2>2 DEF WriteFile
      <3> QED BY <1>6, <3>1 DEF WEnv
    <2> QED BY <2>1, <2>2
  <1>8. \A x : Contains(regressions', x) => x \in reported'
    BY <1>2, <1>6 DEF WEnv
  <1> HIDE DEF MainFails
  <1> QED BY <1>1, <1>2, <1>3, <1>6, <1>7, <1>8 DEF WEnv

\* A replayed seed that fails is one that was reported before.
LEMMA ReplayEnv ==
  ASSUME WBase, WEnv, NEW o \in Outcomes,
         replayed < Len(regressions), ReplaySeed(ReplayValue, o),
         UNCHANGED <<seed_file, reported>>
  PROVE  WEnv'
  <1>1. /\ phase = "replay"
        /\ UNCHANGED <<cfg, verdict, regressions, passed, discarded, skipped, outcome>>
    BY DEF ReplaySeed, params, counts
  <1>2. \A s : MainFails(s)' <=> MainFails(s)
    BY <1>1, SameVerdict
  <1>3. outcome = Running /\ Here = Zero /\ Here' = Zero
    BY <1>1 DEF WBase, WEnv, Here
  <1>4. replayed + 1 \in 1 .. Len(regressions)
    BY DEF WBase
  <1>5. MainFails(regressions[replayed + 1])
    BY <1>4 DEF WEnv, Contains
  <1>6. \/ phase' = "shrink" /\ failure'.seed = regressions[replayed + 1]
        \/ phase' = "replay"
    BY <1>1 DEF ReplaySeed, StartShrink
  <1> HIDE DEF MainFails
  <1> QED BY <1>1, <1>2, <1>3, <1>5, <1>6 DEF WEnv, Running

\* The main loop starts where every way does.
LEMMA StartMainEnv ==
  ASSUME OneLimit, WBase, WEnv, StartMain, UNCHANGED <<seed_file, reported>>
  PROVE  WEnv'
  <1>1. /\ phase = "replay" /\ phase' = "main" /\ outcome = Running
        /\ UNCHANGED <<cfg, verdict, regressions, passed, discarded, skipped, outcome, failure>>
    BY DEF StartMain, params, counts, WBase
  <1>2. /\ \A s : MainFails(s)' <=> MainFails(s)
        /\ \A c, t : FailsAt(c, t)' <=> FailsAt(c, t)
        /\ \A c, a, b : Reaches(c, a, b)' <=> Reaches(c, a, b)
    BY <1>1, SameVerdict
  <1>3. Here = Zero /\ Here' = Zero
    BY <1>1 DEF WEnv, Here
  <1>4. Reaches(cfg, Zero, Zero)
    BY DEF Reaches
  <1>5. ASSUME NEW c \in Configs, NEW t, c.seed = cfg.seed, Reaches(c, Zero, t)
        PROVE  Reaches(cfg, Zero, t)
    BY <1>5, SameWay DEF WBase
  <1> HIDE DEF MainFails, FailsAt, Reaches
  <1> QED BY <1>1, <1>2, <1>3, <1>4, <1>5 DEF WEnv, Running

\* The loop generates the next value of its way.
LEMMA CaseEnv ==
  ASSUME Deterministic, DrawsValues, OneLimit, WBase, WEnv, NEW o \in Outcomes,
         Case(MainValue, o, {}), UNCHANGED <<seed_file, reported>>
  PROVE  WEnv'
  <1>1. /\ phase = "main" /\ outcome = Running
        /\ UNCHANGED <<cfg, verdict, regressions, outcome>>
    BY DEF Case, InMain, params, WBase
  <1>2. /\ \A s : MainFails(s)' <=> MainFails(s)
        /\ \A c, t : FailsAt(c, t)' <=> FailsAt(c, t)
        /\ \A c, a, b : Reaches(c, a, b)' <=> Reaches(c, a, b)
    BY <1>1, SameVerdict
  <1>3. OnWay(cfg, Here)
    BY DEF Case, InMain, WithinLimits, OnWay, Here, Target
  <1>4. MainValue = DrawnAt(cfg, Here)
    BY DEF MainValue, DrawnAt, Here, RampSize, Target
  <1>5. verdict[DrawnAt(cfg, Here)] = {o}
    <2>1. MainValue \in Values
      <3>1. cfg.seed \in Nat /\ passed + discarded + skipped \in Nat
        BY ConfigNat DEF WBase
      <3> QED BY <3>1, RampNat DEF WBase, MainValue, DrawsValues
    <2> QED BY <1>4, <2>1 DEF Deterministic, WBase, Case
  <1>6. Reaches(cfg, Zero, Here)
    BY <1>1 DEF WEnv
  <1> HIDE DEF MainFails, Reaches, OnWay, DrawnAt
  <1>7. CASE o = "Fail"
    <2>1. phase' = "shrink" /\ failure'.seed = cfg.seed
      BY <1>7 DEF Case, StartShrink
    <2>2. MainFails(cfg.seed)
      BY <1>3, <1>5, <1>6, <1>7 DEF MainFails, FailsAt, WBase
    <2> QED BY <1>1, <1>2, <2>1, <2>2 DEF WEnv, Running
  <1>8. CASE o # "Fail"
    <2>1. phase' = "main" /\ Here' = Counted(Here, o)
      BY <1>1, <1>8 DEF Case, Tally, Here, Counted
    <2>2. o \in {"Pass", "Discard", "Skip"}
      BY <1>8 DEF Outcomes
    <2>3. Reaches(cfg, Zero, Counted(Here, o))
      BY <1>3, <1>5, <1>6, <2>2, OneFurther
    <2>4. ASSUME NEW c \in Configs, NEW t, c.seed = cfg.seed, Reaches(c, Zero, t), FailsAt(c, t)
          PROVE  Reaches(cfg, Counted(Here, o), t)
      <3>1. Reaches(cfg, Here, t)
        BY <1>1, <2>4 DEF WEnv
      <3>2. FailsAt(cfg, t)
        BY <2>4, SameWay DEF WBase
      <3> QED BY <1>5, <2>2, <3>1, <3>2, StillAhead
    <2> HIDE DEF FailsAt
    <2> QED BY <1>1, <1>2, <2>1, <2>3, <2>4 DEF WEnv, Running
  <1> QED BY <1>7, <1>8

\* The loop ends without a failure only if its way has none.
LEMMA MainEndsEnv ==
  ASSUME OneLimit, WBase, WEnv, GiveUp \/ AllPassed, UNCHANGED <<seed_file, reported>>
  PROVE  WEnv'
  <1>1. /\ phase = "main" /\ phase' = "done" /\ outcome'.status \in {"Passed", "Aborted"}
        /\ UNCHANGED <<cfg, verdict, regressions, passed, discarded, skipped, failure>>
    BY MainEnds DEF params, counts
  <1>2. \A s : MainFails(s)' <=> MainFails(s)
    BY <1>1, SameVerdict
  <1>3. ~OnWay(cfg, Here)
    <2>1. Target \in Nat /\ passed \in Nat
      BY ConfigNat DEF WBase
    <2> QED BY <2>1 DEF GiveUp, AllPassed, InMain, WithinLimits, OnWay, Here, Target
  <1>4. ASSUME NEW c \in Configs, NEW t, c.seed = cfg.seed, Reaches(c, Zero, t), FailsAt(c, t)
        PROVE  FALSE
    <2>1. Reaches(cfg, Here, t)
      BY <1>1, <1>4 DEF WEnv
    <2>2. FailsAt(cfg, t)
      BY <1>4, SameWay DEF WBase
    <2> QED BY <1>3, <2>1, <2>2, NothingAhead
  <1>5. ~MainFails(cfg.seed)
    BY <1>4 DEF MainFails
  <1> HIDE DEF MainFails
  <1> QED BY <1>1, <1>2, <1>5 DEF WEnv

LEMMA ShrinkEnv ==
  ASSUME WBase, WEnv, Shrink, UNCHANGED <<seed_file, reported>>
  PROVE  WEnv'
  <1>1. /\ phase \in {"shrink", "round"}
        /\ UNCHANGED <<cfg, verdict, regressions, passed, discarded, skipped, failure>>
    BY ShrinkKeeps DEF params, counts
  <1>2. \A s : MainFails(s)' <=> MainFails(s)
    BY <1>1, SameVerdict
  <1>3. \/ phase' \in {"shrink", "round"} /\ outcome' = outcome
        \/ phase' = "done" /\ outcome' = FailedOutcome
    BY ShrinkKeeps
  <1>4. FailedOutcome.status = "Failed"
    BY DEF FailedOutcome
  <1> HIDE DEF MainFails, FailedOutcome
  <1> QED BY <1>1, <1>2, <1>3, <1>4 DEF WEnv

LEMMA StutterEnv ==
  ASSUME WEnv, UNCHANGED runVars
  PROVE  WEnv'
  <1>1. UNCHANGED <<cfg, verdict, regressions, phase, passed, discarded, skipped, failure,
                    outcome, seed_file, reported>>
    BY DEF runVars, vars, params, counts
  <1>2. /\ \A s : MainFails(s)' <=> MainFails(s)
        /\ \A c, t : FailsAt(c, t)' <=> FailsAt(c, t)
        /\ \A c, a, b : Reaches(c, a, b)' <=> Reaches(c, a, b)
    BY <1>1, SameVerdict
  <1>3. Here' = Here
    BY <1>1 DEF Here
  <1> HIDE DEF MainFails, FailsAt, Reaches, Here
  <1> QED BY <1>1, <1>2, <1>3 DEF WEnv

LEMMA NextEnv ==
  ASSUME Deterministic, DrawsValues, OneLimit, WBase, WEnv, [RunNext]_runVars
  PROVE  WEnv'
  <1>1. CASE Execute
    BY <1>1, ReplayEnv, StartMainEnv, CaseEnv, MainEndsEnv, ShrinkEnv DEF Execute
  <1> QED BY <1>1, ReadFileEnv, WriteFileEnv, StutterEnv DEF RunNext

\* A run given a reported seed fails again, whatever is in the file by then:
\* for every deterministic property and generator, and any way the limits are
\* set as long as they stay the same between the runs.
THEOREM ReportedSeedsFail ==
  ASSUME Deterministic, DrawsValues, OneLimit
  PROVE  RunSpec => []EnvSeedReproduces
  <1>1. WBase /\ WEnv /\ [RunNext]_runVars => WEnv'
    BY NextEnv
  <1>2. WEnv => EnvSeedReproduces
    BY DEF WEnv, EnvSeedReproduces
  <1> QED BY <1>1, <1>2, InitEnv, RunWithInvariant, PTL DEF RunSpec
=============================================================================
