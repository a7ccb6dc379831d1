----------------------------- MODULE Strategies -----------------------------
(***************************************************************************)
(* The strategies of crates/core/src/strategy.rs, strategy_str.rs and      *)
(* strategy_domain.rs, and of the macros of crates/pbt/src/                *)
(* strategy_runner.rs.  A strategy is a record like an Arbitrary           *)
(* implementation: "gen" is what new_value() can return, "shrink" what     *)
(* shrink_value() returns for ANY value of the value type (OneOf passes    *)
(* values on that a strategy did not generate), and "panics" says whether  *)
(* new_value() may panic.  any::<T>() is the implementation T itself, and  *)
(* boxed() does not change a strategy.                                     *)
(***************************************************************************)
EXTENDS Collections

CONSTANTS MaxWord     \* the longest word of an *_like string (9 in the code)

Never == [s \in Sizes |-> FALSE]

\* any::<T>()
any(T) == [of |-> T.of, gen |-> T.gen, shrink |-> T.shrink, panics |-> Never]

Strategy(of, gen(_), shrink(_)) == any(Impl(of, gen, shrink))

NoneShrunk(v) == <<>>

NoShrink(S) == [S EXCEPT !.shrink = [v \in S.of |-> <<>>]]

Just(T, x) == Strategy(T.of, LAMBDA s : {x}, NoneShrunk)

\* What Rng::gen_range draws from [lo, hi); with an empty range it panics.
gen_range(lo, hi) == lo .. hi - 1

TargetOfLow(lo, hi) ==          \* mutant: shrinks toward lo even across 0
    lo

TargetOf(lo, hi) == IF lo <= 0 /\ 0 < hi THEN 0 ELSE lo

\* Shrinks toward 0 when the range holds it, else toward lo.
IntRange(T, lo, hi) ==
    [Strategy(T.of, LAMBDA s : gen_range(lo, hi),
              LAMBDA v : LET target == TargetOf(lo, hi) IN
                  When(v # target,
                       <<target>> \o Within(Approach(v, target), lo .. hi - 1)))
     EXCEPT !.panics = [s \in Sizes |-> lo >= hi]]

\* Surrogates are drawn again, up to 32 times; then, and for an empty range, lo.
CharRange(lo, hi) ==
    Strategy(Scalars, LAMBDA s : {lo} \cup (gen_range(lo, hi) \cap Scalars),
             LAMBDA c : When(c # lo,
                 <<lo>> \o When(c > lo, Within(Approach(c, lo), Scalars))))

\* The deltas d/2, d/4, ... until they cannot be told from the value.
FloatDeltas(v, d) ==
    LET halved[i \in 0 .. WideBits] == IF i = 0 THEN d ELSE HalveF(halved[i - 1])
        Negligible(i) == Abs(halved[i]) * Unit < Greater(Abs(v), Unit)
        first == CHOOSE i \in 1 .. WideBits :
                    Negligible(i) /\ \A j \in 1 .. i - 1 : ~Negligible(j)
    IN  [i \in 1 .. first - 1 |-> halved[i]]

\* The fraction bits / u64::MAX rounds to 1.0 for the largest bits: hi is drawn.
FloatRange(lo, hi) ==
    Strategy(Finite, LAMBDA s : IF lo >= hi THEN {lo} ELSE lo .. hi,
             LAMBDA v : LET target == TargetOf(lo, hi) IN
                 When(v # target,
                      <<target>> \o Within(Mapped(FloatDeltas(v, v - target),
                                                  LAMBDA d : v - d),
                                           (lo .. hi - 1) \ {v})))

\* The branch that generated a value is forgotten: every branch shrinks it.
OneOf(Ss) ==
    [Strategy(UNION {Ss[i].of : i \in DOMAIN Ss},
              LAMBDA s : UNION {Ss[i].gen[s] : i \in DOMAIN Ss},
              LAMBDA v : Flat(Ss, LAMBDA S : S.shrink[v]))
     EXCEPT !.panics = [s \in Sizes |-> \E i \in DOMAIN Ss : Ss[i].panics[s]]]

\* A branch of weight 0 is never drawn, but it shrinks.
WeightedOneOf(ws, Ss) ==
    LET Drawn == {i \in DOMAIN Ss : ws[i] > 0} IN
    [OneOf(Ss) EXCEPT
        !.gen    = [s \in Sizes |-> UNION {Ss[i].gen[s] : i \in Drawn}],
        !.panics = [s \in Sizes |-> \E i \in Drawn : Ss[i].panics[s]]]

\* Lengths in [min, max), or min when that is empty.
LengthsOf(min, max) == IF max > min THEN gen_range(min, max) ELSE {min}

SeqsOf(S, lengths) == UNION {[1 .. l -> S] : l \in lengths}

\* The empty vector if it is allowed, one element less if that is, then one
\* element shrunk in place.
VecOf(S, min, max, n) ==
    [Strategy(SeqOf(S.of, n), LAMBDA s : SeqsOf(S.gen[s], LengthsOf(min, max)),
              LAMBDA v : LET len == Len(v) IN
                  When(len > min,
                       When(min = 0, << <<>> >>) \o [i \in 1 .. len |-> RemoveAt(v, i)])
                  \o FlattenSeq([i \in 1 .. len |->
                       Mapped(S.shrink[v[i]], LAMBDA x : ReplaceAt(v, i, x))]))
     EXCEPT !.panics = [s \in Sizes |-> S.panics[s] /\ LengthsOf(min, max) # {0}]]

\* Strings over a list of characters, the first of which is the simplest one.
CharSetString(chars, min, max, n) ==
    LET Chars == {chars[i] : i \in DOMAIN chars} IN
    Strategy(SeqOf(Chars, n), LAMBDA s : SeqsOf(Chars, LengthsOf(min, max)),
             LAMBDA v : LET len == Len(v) IN
                 When(len > min,
                      When(min = 0, << <<>> >>)
                      \o Mapped(Within(Approach(len, 0), min .. len),
                                LAMBDA k : SubSeq(v, 1, k))
                      \o [i \in 1 .. len |-> RemoveAt(v, i)])
                 \o Mapped(Within([i \in 1 .. len |-> i], {i \in 1 .. len : v[i] # chars[1]}),
                           LAMBDA i : ReplaceAt(v, i, chars[1])))

Tuple2(A, B) ==
    [any(Tuple(<<A, B>>)) EXCEPT !.panics = [s \in Sizes |-> A.panics[s] \/ B.panics[s]]]

\* f is a function on what S generates.
Map(S, f) ==
    [Strategy({f[x] : x \in S.of}, LAMBDA s : {f[x] : x \in S.gen[s]}, NoneShrunk)
     EXCEPT !.panics = S.panics]

\* f turns what S generates into a strategy.
FlatMap(S, f) ==
    [Strategy(UNION {f[x].of : x \in S.of},
              LAMBDA s : UNION {f[x].gen[s] : x \in S.gen[s]}, NoneShrunk)
     EXCEPT !.panics = [s \in Sizes |->
                           S.panics[s] \/ \E x \in S.gen[s] : f[x].panics[s]]]

\* Panics after max_tries values that are not among the accepted ones.
Filter(S, accepted, max_tries) ==
    [S EXCEPT
        !.gen    = [s \in Sizes |-> IF max_tries > 0 THEN S.gen[s] \cap accepted ELSE {}],
        !.shrink = [v \in S.of |-> Within(S.shrink[v], accepted)],
        !.panics = [s \in Sizes |->
                       S.panics[s] \/ max_tries = 0 \/ S.gen[s] \ accepted # {}]]

\* inner stacked max_depth times on leaf.
Recursive(leaf, inner(_), max_depth) ==
    FoldLeft(LAMBDA current, depth : inner(current), leaf, [d \in 1 .. max_depth |-> d])

\* prop_compose!: the body applied to one value of each field.
Composed(fields, body) ==
    Map(any(Tuple(fields)), body)

-----------------------------------------------------------------------------
(* strategy_domain.rs: texts of a certain shape, as the list of their      *)
(* parts.  None of them shrinks.  Of a range of numbers the corners stand  *)
(* for the rest.                                                           *)

Corners(lo, hi) == {lo, hi - 1}
Letters == <<"a">>
Word    == CharSetString(Letters, 1, MaxWord + 1, MaxWord).gen
TLDs    == {"com", "org", "net", "io"}
Texts(gen(_)) == Strategy(UNION {gen(s) : s \in Sizes}, gen, NoneShrunk)

EmailLike ==
    Texts(LAMBDA s : {<<local, "@", domain, ".", tld>> :
                        local \in Word[s], domain \in Word[s], tld \in TLDs})

\* ports is the port range [lo, hi), or <<>> for none.
UrlLike(schemes, ports) ==
    LET Port == IF ports = <<>> THEN {<<>>}
                ELSE {<<":", p>> : p \in Corners(ports[1], ports[2])}
        Path(s) == {<<>>} \cup {<<"/", w>> : w \in Word[s]}
    IN  [Texts(LAMBDA s : {<<scheme, "://", host, ".", tld>> \o port \o path :
                             scheme \in schemes, host \in Word[s], tld \in TLDs,
                             port \in Port, path \in Path(s)})
         EXCEPT !.panics = [s \in Sizes |-> \/ schemes = {}
                                            \/ ports # <<>> /\ ports[1] >= ports[2]]]

Hex(digits) == CharSetString(<<"0">>, digits, digits + 1, digits).gen

UuidLike ==
    Texts(LAMBDA s : {<<a, "-", b, "-", c, "-", d, "-", e>> :
                        a \in Hex(8)[s], b \in Hex(4)[s], c \in Hex(4)[s],
                        d \in Hex(4)[s], e \in Hex(12)[s]})

Ipv4Dotted ==
    LET Octet == Corners(0, 256)
    IN  Texts(LAMBDA s : {<<a, ".", b, ".", c, ".", d>> :
                            a \in Octet, b \in Octet, c \in Octet, d \in Octet})

Iso8601Date ==
    Texts(LAMBDA s : {<<year, "-", month, "-", day, "T", hour, ":", minute, ":", second, "Z">> :
                        year \in Corners(0, 10000), month \in Corners(1, 13),
                        day \in Corners(1, 29), hour \in Corners(0, 24),
                        minute \in Corners(0, 60), second \in Corners(0, 60)})
=============================================================================
