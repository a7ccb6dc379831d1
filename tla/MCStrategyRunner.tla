-------------------------- MODULE MCStrategyRunner --------------------------
(***************************************************************************)
(* The strategies that TLC runs under StrategyRunner.  TLC compares values *)
(* of one kind only: a value stands by its number in a list of the values  *)
(* of its strategy.                                                        *)
(***************************************************************************)
EXTENDS StrategyRunner, DeriveParser

MCValues  == 1 .. 64
MaxWeight == 100                 \* of what should not occur

\* The function, computed: TLC computes [x \in S |-> e] where it is applied.
Computed(f) == f @@ <<>>

Numbered(S, list) ==
    LET NumberOf(v) == CHOOSE i \in DOMAIN list : list[i] = v
        Numbers(V) == {NumberOf(v) : v \in V}
    IN  [of |-> Numbers(S.of), panics |-> Computed(S.panics),
         gen |-> Computed([s \in Sizes |-> Numbers(S.gen[s])]),
         shrink |-> Computed([i \in MCValues |->
            IF i \in DOMAIN list THEN Mapped(S.shrink[list[i]], NumberOf) \o <<>> ELSE <<>>])]

\* A subject of which Astray are the values outside of D that the code yields,
\* and Rising pairs of a value and a candidate that it may offer although it is
\* not smaller.  The property may fail from any weight.
SubjectBut(S, D, W(_), Astray, Rising) ==
    LET list == FoldSet(LAMBDA v, l : Append(l, v), <<>>, S.of)
        Numbers(V) == {i \in DOMAIN list : list[i] \in V}
    IN  [strategy |-> Numbered(S, list),
         domain |-> Numbers(D), strays |-> Numbers(Astray),
         rises  |-> {<<i, j>> \in (DOMAIN list) \X (DOMAIN list) :
                        <<list[i], list[j]>> \in Rising /\ W(list[j]) >= W(list[i])},
         weight |-> Computed([i \in MCValues |->
            IF i \in DOMAIN list /\ list[i] \in D \cup Astray THEN W(list[i]) ELSE MaxWeight]),
         floors |-> {W(v) : v \in D}, exact |-> {W(v) : v \in D}]

Subject(S, D, W(_)) == SubjectBut(S, D, W, {}, {})

\* For some of the weights shrinking may end above the smallest failing value:
\* floats in a range (halving stops before the last unit), floats (round() leads
\* upward, infinities and NaN lead nowhere), characters (the surrogates are a gap
\* in front of the larger ones, those below 'a' do not shrink among themselves),
\* a filter (nothing takes the place of the candidates that it drops), and what
\* fails for a negative number but for none of its positive neighbours.
Inexact(subj, weights) == [subj EXCEPT !.exact = @ \ weights]
Odd == {2 * k + 1 : k \in 0 .. MaxWeight}

N2 == Unsigned(2)
N3 == Unsigned(3)
I3 == Signed(3)
I4 == Signed(WideBits)

WNat(v)  == v
WOne(v)  == 1
WBool(b) == IF b THEN 1 ELSE 0
WInt(v)  == 2 * Abs(v) + (IF v < 0 THEN 1 ELSE 0)
WChar(c) == IF c < LowerA THEN 1 ELSE IF c = LowerA THEN 0 ELSE 1 + c - LowerA
WSum(v, w(_)) == FoldLeft(LAMBDA n, x : n + w(x), 0, v)
WSeq(v)  == WSum(v, LAMBDA x : 1 + x)
WPlain(v) == WSum(v, WNat)
WSet(s)  == MapThenSumSet(LAMBDA x : 1 + x, s)
WMap(m)  == MapThenSumSet(LAMBDA p : 1 + p[1] + p[2], m)
WRange(r) == IF r[1] = r[2] THEN 0 ELSE r[1] + r[2]
WText(v) == WSum(v, LAMBDA c : IF c = "a" THEN 1 ELSE 2)
WTagged(r) == r[2]

Chars == <<"a", "b">>

A == <<"a">>
Zeros(n) == [i \in 1 .. n |-> "0"]

Leaf == IntRange(N3, 0, 2)
Tree == Recursive(Leaf, LAMBDA child : OneOf(<<child, IntRange(N3, 0, 8)>>), 2)

\* Items with the derive and test attributes, as the macros are given them.
\*   pub struct Point { #[doc] pub x: u2, #[arbitrary(strategy = "small")] pub(crate) y: u3 }
\*   enum Shape { Full(u2, bool), Empty, #[doc] Half { side: u2 } }
\*   struct Both<T: From<bool>, const N: u3> where T: Copy { both: Result<T, bool>, last: T }
\*   struct Borrowed<'a>(&'a bool);
\*   pub async unsafe extern "C" fn prop(x: u2, y: Result<u2, bool>) -> Result<u2, bool> { .. }
Words(ws)  == Mapped(ws, Ident)
Doc        == <<Punct("#"), Group("[", Words(<<"doc">>))>>
Colon      == <<Punct(":")>>
Comma      == <<Punct(",")>>
ResultOf(t) == Words(<<"Result">>) \o <<Punct("<")>> \o Words(<<t>>) \o Comma
               \o Words(<<"bool">>) \o <<Punct(">")>>
StrategyAttr == <<Punct("#"), Group("[", <<Ident("arbitrary"),
                    Group("(", <<Ident("strategy"), Punct("="), Quoted(Words(<<"small">>))>>)>>)>>

PointItem == Words(<<"pub", "struct", "Point">>) \o
    <<Group("{", Doc \o Words(<<"pub", "x">>) \o Colon \o Words(<<"u2">>) \o Comma
                 \o StrategyAttr \o <<Ident("pub"), Group("(", Words(<<"crate">>)), Ident("y")>>
                 \o Colon \o Words(<<"u3">>))>>

ShapeItem == Words(<<"enum", "Shape">>) \o
    <<Group("{", <<Ident("Full"), Group("(", Words(<<"u2">>) \o Comma \o Words(<<"bool">>))>>
                 \o Comma \o Words(<<"Empty">>) \o Comma \o Doc
                 \o <<Ident("Half"), Group("{", Words(<<"side">>) \o Colon \o Words(<<"u2">>))>>)>>

BothItem == Words(<<"struct", "Both">>)
    \o <<Punct("<"), Ident("T"), Punct(":"), Ident("From"), Punct("<"), Ident("bool"), Punct(">"),
         Punct(","), Ident("const"), Ident("N"), Punct(":"), Ident("u3"), Punct(">")>>
    \o Words(<<"where", "T">>) \o Colon \o Words(<<"Copy">>)
    \o <<Group("{", Words(<<"both">>) \o Colon \o ResultOf("T") \o Comma
                    \o Words(<<"last">>) \o Colon \o Words(<<"T">>) \o Comma)>>

BorrowedItem == Words(<<"struct", "Borrowed">>)
    \o <<Punct("<"), Punct("'"), Ident("a"), Punct(">"),
         Group("(", <<Punct("&"), Punct("'"), Ident("a"), Ident("bool")>>), Punct(";")>>

TestItem == Words(<<"pub", "async", "unsafe", "extern">>) \o <<Quoted(<<Ident("C")>>)>>
    \o Words(<<"fn", "prop">>) \o <<Group("(", Words(<<"x">>) \o Colon \o Words(<<"u2">>) \o Comma
                    \o Words(<<"y">>) \o Colon \o ResultOf("u2") \o Comma),
         Punct("-"), Punct(">")>> \o ResultOf("u2") \o <<Group("{", <<>>)>>

\* #[pbt(cases = 2, max_shrinks = 20)]
TestAttr == <<Ident("cases"), Punct("="), Number(2), Punct(","),
              Ident("max_shrinks"), Punct("="), Number(20)>>

\* #[pbt(cases = 2, max_shrinks)]: a value is missing
BrokenAttr == SubSeq(TestAttr, 1, 5)

Small == IntRange(N3, 1, 4)
Known == (Words(<<"u2">>) :> any(N2)) @@ (Words(<<"u3">>) :> any(N3))
         @@ (Words(<<"bool">>) :> any(bool)) @@ (Words(<<"small">>) :> Small)
         @@ (ResultOf("u2") :> any(Result(N2, bool))) @@ (ResultOf("T") :> any(Result(N2, bool)))
Items == [point |-> PointItem, shape |-> ShapeItem, both |-> BothItem, borrowed |-> BorrowedItem]
ResolvedItems == [n \in DOMAIN Items |-> Resolved(parse_input(Items[n]), Known, [t \in {"T"} |-> any(N2)])]
Derive(n) == derive_arbitrary(ResolvedItems[n])

ResultValues == {<<"Ok", x>> : x \in 0 .. 3} \cup {<<"Err", b>> : b \in BOOLEAN}
WResult(r) == IF r[1] = "Err" THEN WBool(r[2]) ELSE r[2]
WShape(v) == IF v[1] = 2 THEN 0
             ELSE 1 + v[2][1] + (IF v[1] = 1 /\ v[2][2] THEN 1 ELSE 0)

\* Branches of one_of() and weighted_one_of(): ranges with one target, a range
\* that is never drawn, and a constant.  In the last three subjects a branch
\* shrinks what it cannot have generated: a range leads a smaller number up to
\* its own target, 5; a range of characters halves the way to a constant far from
\* it (2, 3, 4, 7 stray); a vector that may be empty cuts one that has two elements
\* at least down to one.
Nested == <<IntRange(N3, 0, 3), IntRange(N3, 0, 7)>>
Undrawn == <<IntRange(N3, 0, 8), IntRange(N3, 0, 4)>>
Mixed  == <<Just(N3, 4), NoShrink(IntRange(N3, 0, 3)), any(N3)>>
Gap    == <<IntRange(N3, 0, 4), IntRange(N3, 5, 8)>>
Apart  == <<CharRange(0, 2), Just(char, 8)>>
Short  == VecOf(IntRange(N2, 0, 2), 0, 1, 2)
Long   == VecOf(IntRange(N2, 0, 2), 2, 3, 2)

MCSubjects ==
    [bool    |-> Subject(any(bool), BOOLEAN, WBool),
     u       |-> Subject(any(N3), 0 .. 7, WNat),
     i       |-> Inexact(Subject(any(I3), -4 .. 3, WInt), Odd),
     wide    |-> Inexact(Subject(any(I4), -8 .. 7, WInt), Odd),
     f32     |-> Inexact(SubjectBut(any(Float), Float.of, WInt, {},
                                  {<<x, RoundF(x)>> : x \in {y \in Finite : RoundF(y) # y}}), Nat),
     char    |-> Inexact(Subject(any(char), Scalars, WChar), {1, 2}),
     vec     |-> Subject(any(Vec(N2, 2)), SeqOf(0 .. 3, 2), WSeq),
     string  |-> Inexact(Subject(any(String(1)), SeqOf(Scalars, 1),
                                 LAMBDA v : WSum(v, LAMBDA c : 1 + WChar(c))), {2, 3}),
     option  |-> Subject(any(Option(N2)), Option(N2).of, WSeq),
     result  |-> Subject(any(Result(N2, N2)), Result(N2, N2).of, WTagged),
     tuple   |-> Subject(any(Tuple(<<N2, N3>>)), (0 .. 3) \X (0 .. 7), WPlain),
     heap    |-> Subject(any(SequenceLike(N2, 2).BinaryHeap),
                         {v \in SeqOf(0 .. 3, 2) : Len(v) = 2 => v[1] >= v[2]}, WSeq),
     bset    |-> Subject(any(SetLike(N2, 2).BTreeSet),
                         {S \in SUBSET (0 .. 3) : Cardinality(S) <= 2}, WSet),
     bmap    |-> Subject(any(MapLike(Unsigned(1), Unsigned(1), 2).BTreeMap),
                         {m \in SUBSET ((0 .. 1) \X (0 .. 1)) :
                            \A p, q \in m : p[1] = q[1] => p = q}, WMap),
     range   |-> SubjectBut(any(Range_(N2)), {r \in (0 .. 3) \X (0 .. 3) : r[1] <= r[2]},
                            WRange, {}, {<<<<x, x>>, <<x, x>>>> : x \in 0 .. 3}),
     nonzero |-> Inexact(Subject(any(NonZero(I3)), (-4 .. 3) \ {0}, WInt), Odd),
     int_range |-> Subject(IntRange(I4, -3, 6), -3 .. 5, Abs),
     above   |-> Subject(IntRange(N3, 2, 7), 2 .. 6, WNat),
     chars   |-> Subject(CharRange(7, 9), 7 .. 8, WChar),
     one_of  |-> Subject(OneOf(Nested), 0 .. 6, WNat),
     weighted |-> Subject(WeightedOneOf(<<0, 2>>, Undrawn), 0 .. 3, WNat),
     vec_of  |-> Subject(VecOf(IntRange(N2, 0, 3), 1, 3, 2), {v \in SeqOf(0 .. 2, 2) : v # <<>>},
                         WSeq),
     text    |-> Subject(CharSetString(Chars, 1, 4, 3), {v \in SeqOf({"a", "b"}, 3) : v # <<>>},
                         WText),
     filter  |-> Inexact(Subject(Filter(any(N3), {0, 2, 4, 6}, 3), {0, 2, 4, 6}, WNat), {2, 4}),
     tree    |-> Subject(Tree, 0 .. 7, WNat),
     composed |-> Subject(Composed(<<any(N2), Small>>, [p \in (0 .. 3) \X Small.of |-> p[1] * p[2]]),
                          {x * y : x \in 0 .. 3, y \in 1 .. 3},
                          WOne),
     flat_map |-> Subject(FlatMap(IntRange(N3, 1, 4), [n \in 0 .. 7 |-> IntRange(N3, n, 2 * n)]),
                          1 .. 5, WOne),
     point   |-> Subject(Derive("point"), (0 .. 3) \X (1 .. 3), WPlain),
     shape   |-> Subject(Derive("shape"),
                         {<<1, <<x, b>>>> : x \in 0 .. 3, b \in BOOLEAN}
                         \cup {<<2, <<>>>>} \cup {<<3, <<x>>>> : x \in 0 .. 3},
                         WShape),
     both    |-> Subject(Derive("both"), ResultValues \X (0 .. 3),
                         LAMBDA v : WResult(v[1]) + v[2]),
     borrowed |-> Subject(Derive("borrowed"), CompileError.of, WOne),
     prop    |-> Subject(generate_test_wrapper(parse_attr_args(TestAttr), TestItem, Known),
                         (0 .. 3) \X ResultValues, LAMBDA v : v[1] + WResult(v[2])),
     broken  |-> Subject(generate_test_wrapper(parse_attr_args(BrokenAttr), TestItem, Known),
                         CompileError.of, WOne),
     deque   |-> Subject(any(SequenceLike(N2, 2).VecDeque), SeqOf(0 .. 3, 2), WSeq),
     list    |-> Subject(any(SequenceLike(N2, 2).LinkedList), SeqOf(0 .. 3, 2), WSeq),
     hset    |-> Subject(any(SetLike(N2, 2).HashSet),
                         {S \in SUBSET (0 .. 3) : Cardinality(S) <= 2}, WSet),
     hmap    |-> Subject(any(MapLike(Unsigned(1), Unsigned(1), 2).HashMap),
                         {m \in SUBSET ((0 .. 1) \X (0 .. 1)) :
                            \A p, q \in m : p[1] = q[1] => p = q}, WMap),
     array   |-> Subject(any(Array(N2, 2)), [1 .. 2 -> 0 .. 3], WPlain),
     duration |-> Subject(any(Duration(N2)), (0 .. 3) \X (0 .. 1), WPlain),
     rc      |-> Subject(any(Holding(N2)), [inner : 0 .. 3], LAMBDA v : v.inner),
     ip      |-> Subject(any(Net(N2, N2).IpAddr),
                         {<<a, <<x>>>> : a \in {"V4", "V6"}, x \in 0 .. 3},
                         LAMBDA v : v[2][1]),
     socket  |-> Subject(any(Net(Unsigned(1), N2).SocketAddr),
                         {<<"V4", <<<<x>>, p>>>> : x \in 0 .. 1, p \in 0 .. 3}
                         \cup {<<"V6", <<<<x>>, p, 0, 0>>>> : x \in 0 .. 1, p \in 0 .. 3},
                         LAMBDA v : v[2][1][1] + v[2][2]),
     wrapping |-> Inexact(Subject(any(Wrapping(I3)), {<<x>> : x \in -4 .. 3},
                                  LAMBDA w : WInt(w[1])), Odd),
     ordering |-> Subject(any(Ordering), {"Less", "Equal", "Greater"},
                          LAMBDA o : IF o = "Equal" THEN 0 ELSE 1),
     f64_range |-> Inexact(SubjectBut(FloatRange(-2, 5), -2 .. 4, Abs, {5}, {}), Nat \ {0}),
     just    |-> Subject(OneOf(Mixed), 0 .. 7, WNat),
     gap     |-> SubjectBut(OneOf(Gap), (0 .. 3) \cup (5 .. 7), WNat, {}, (0 .. 3) \X {5}),
     apart   |-> SubjectBut(OneOf(Apart), {0, 1, 8}, WNat, {2, 3, 4, 7}, {}),
     lengths |-> SubjectBut(WeightedOneOf(<<1, 1>>, <<Short, Long>>), {<<>>} \cup [1 .. 2 -> 0 .. 1],
                            WSeq, [1 .. 1 -> 0 .. 1], {}),
     pair    |-> Subject(Tuple2(IntRange(N2, 1, 4), any(bool)), (1 .. 3) \X BOOLEAN,
                         LAMBDA p : p[1] + WBool(p[2])),
     email   |-> Subject(EmailLike, {<<A, "@", A, ".", t>> : t \in TLDs}, WOne),
     url     |-> Subject(UrlLike({"http"}, <<80, 82>>),
                         {<<"http", "://", A, ".", t>> \o <<":", p>> \o path :
                            t \in TLDs, p \in 80 .. 81, path \in {<<>>, <<"/", A>>}}, WOne),
     uuid    |-> Subject(UuidLike, {<<Zeros(8), "-", Zeros(4), "-", Zeros(4), "-", Zeros(4), "-", Zeros(12)>>},
                          WOne),
     ipv4    |-> Subject(Ipv4Dotted, {<<a, ".", b, ".", c, ".", d>> : a, b, c, d \in {0, 255}}, WOne),
     date    |-> Subject(Iso8601Date, 
                         {<<y, "-", mo, "-", d, "T", h, ":", mi, ":", sec, "Z">> :
                            y \in {0, 9999}, mo \in {1, 12}, d \in {1, 28}, h \in {0, 23},
                            mi \in {0, 59}, sec \in {0, 59}}, WOne)]

MCConfig(cases, shrinks) ==
    [cases |-> cases, seed |-> 1, max_shrinks |-> shrinks, max_size |-> 2,
     max_discards |-> 1, max_skips |-> 0, shrink_mode |-> "Exhaustive"]

MCConfigs == {MCConfig(0, 2)} \cup
    UNION {TestConfigs(parse_attr_args(attr), MCConfig(0, 2)) : attr \in {TestAttr, BrokenAttr}}
=============================================================================
