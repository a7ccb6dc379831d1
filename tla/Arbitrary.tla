----------------------------- MODULE Arbitrary -----------------------------
(***************************************************************************)
(* The Arbitrary implementations of crates/core/src/arbitrary.rs.          *)
(*                                                                         *)
(* An implementation is a record: "of" are the values of the Rust type,    *)
(* "gen" maps a size hint to the values arbitrary() can return with it     *)
(* (whatever the random numbers are), and "shrink" maps a value to the     *)
(* list of candidates shrink() returns, in the order it returns them.      *)
(*                                                                         *)
(* Abstracted data: integers of a few bits instead of 8 to 128, a floating *)
(* point format whose numbers are the multiples of 1/Unit up to FloatMax,  *)
(* an alphabet of MaxCode + 1 code points.                                 *)
(***************************************************************************)
EXTENDS Integers, Sequences, FiniteSets, SequencesExt

CONSTANTS
    Sizes,         \* size hints
    MinBits,       \* the narrowest width integers are drawn with (8 in the code)
    WideBits,      \* the width shrinking computes with (128 in the code)
    Unit,          \* units in the last place of the float 1.0
    FloatMax,      \* the largest finite float, in those units
    MaxCode,       \* the last code point
    Surrogates,    \* code points that are not a char
    LowerA         \* the code point of 'a'

ASSUME ArbitraryAssumption ==
    /\ Sizes \subseteq Nat /\ {MinBits, WideBits, Unit, FloatMax} \subseteq Nat \ {0}
    /\ Surrogates \subseteq 0 .. MaxCode /\ LowerA \in (0 .. MaxCode) \ Surrogates

Greater(a, b) == IF a > b THEN a ELSE b
Lesser(a, b)  == IF a < b THEN a ELSE b
Abs(n)        == Greater(n, -n)

Impl(of, gen(_), shrink(_)) ==
    [of |-> of, gen |-> [s \in Sizes |-> gen(s)], shrink |-> [v \in of |-> shrink(v)]]

\* s.map(f).collect(), and s.flat_map(f).collect()
Mapped(s, f(_))  == [i \in DOMAIN s |-> f(s[i])]
Flat(s, f(_))    == FlattenSeq(Mapped(s, f))
When(cond, s)    == IF cond THEN s ELSE <<>>

\* s.filter(|x| K holds x).collect()
Within(s, K)     == Flat(s, LAMBDA x : When(x \in K, <<x>>))

bool == Impl(BOOLEAN, LAMBDA s : BOOLEAN, LAMBDA b : When(b, <<FALSE>>))

-----------------------------------------------------------------------------
(* Integers.                                                               *)

\* 1 << n
Shifted(n) == LET p[i \in 0 .. n] == IF i = 0 THEN 1 ELSE 2 * p[i - 1] IN p[n]

\* d, d/2, d/4, ... until it is 0.
Halvings(d) ==
    LET delta[i \in 0 .. d] == IF i = 0 THEN d ELSE delta[i - 1] \div 2
        halvings == Cardinality({i \in 1 .. d : delta[i] # 0})
    IN  [i \in 1 .. halvings |-> delta[i]]

ApproachFromTarget(n, target) ==     \* mutant: halves the value, not the distance
    Mapped(Halvings(Abs(n - target)),
           LAMBDA delta : IF n > target THEN target + delta ELSE target - delta)

\* The candidates n - delta for delta = d/2, d/4, ... as long as delta # 0,
\* where d = n - target and the division truncates toward zero.
Approach(n, target) ==
    Mapped(Halvings(Abs(n - target)),
           LAMBDA delta : IF n > target THEN n - delta ELSE n + delta)

shrink_toward_zero(n) == When(n # 0, <<0>> \o Approach(n, 0))

\* Early sizes draw narrow integers.
Width(bits, size) == Lesser(bits, Greater(2 * size, MinBits))

Unsigned(bits) ==
    Impl(0 .. Shifted(bits) - 1, LAMBDA s : 0 .. Shifted(Width(bits, s)) - 1,
         shrink_toward_zero)

MinOf(bits) == -Shifted(bits - 1)
MaxOf(bits) == Shifted(bits - 1) - 1

\* The absolute value is tried first, unless it overflows.
shrink_signed(n) ==
    When(n # 0, <<0>> \o When(n < 0 /\ n # MinOf(WideBits), <<-n>>) \o Approach(n, 0))

\* Width(..) random bits, sign-extended; candidates outside the type are dropped
\* (the absolute value of the smallest number of a type narrower than WideBits).
Signed(bits) ==
    Impl(MinOf(bits) .. MaxOf(bits),
         LAMBDA s : LET w == Width(bits, s)
                    IN  {IF v >= Shifted(w - 1) THEN v - Shifted(w) ELSE v :
                            v \in 0 .. Shifted(w) - 1},
         LAMBDA n : Within(shrink_signed(n), MinOf(bits) .. MaxOf(bits)))

-----------------------------------------------------------------------------
(* Floating point numbers; -0.0 and 0.0 are not told apart.                *)

Infinity == FloatMax + 1
NaN      == FloatMax + 2
Finite   == -FloatMax .. FloatMax
Sign(x)  == IF x < 0 THEN -1 ELSE 1

Trunc(x)  == Sign(x) * Unit * (Abs(x) \div Unit)
RoundF(x) == Sign(x) * Unit * ((2 * Abs(x) + Unit) \div (2 * Unit))  \* half away from zero
HalveF(x) ==                                                     \* ties to even
    LET h == Abs(x) \div 2
    IN  Sign(x) * (IF Abs(x) % 2 = 1 /\ h % 2 = 1 THEN h + 1 ELSE h)

shrink_float(x) ==
    IF x = 0 \/ x = NaN THEN <<>>
    ELSE <<0>> \o When(x \in Finite,
             When(x < 0, <<-x>>)
          \o When(Trunc(x) # x, <<Trunc(x)>>)
          \o When(RoundF(x) \notin {x, Trunc(x)}, <<RoundF(x)>>)
          \o When(HalveF(x) \notin {x, 0}, <<HalveF(x)>>)
          \o <<x - Sign(x)>>)                                    \* one ULP toward zero

Interesting ==
    {0, Unit, -Unit, Unit \div 2, -(Unit \div 2), Infinity, -Infinity, NaN,
     1, -1, FloatMax, -FloatMax}

\* An interesting value, or random bits modulo the size (0.0 when not finite).
Float ==
    Impl(Finite \cup {Infinity, -Infinity, NaN},
         LAMBDA s : Interesting \cup {x \in Finite : Abs(x) < Unit * Greater(s, 1)},
         shrink_float)

-----------------------------------------------------------------------------
Scalars == (0 .. MaxCode) \ Surrogates

\* 'a' first, then from above 'a' toward it, skipping surrogates.
char ==
    Impl(Scalars, LAMBDA s : Scalars,
         LAMBDA c : When(c # LowerA, <<LowerA>>)
                    \o When(c > LowerA, Within(Approach(c, LowerA), Scalars)))

\* Lengths up to the size (at least 1): n bounds the sizes of the instance.
\* The empty vector first, then prefixes that lose a half, a quarter, ..., then
\* one element less, then one element shrunk in place.
Vec(T, n) ==
    Impl(SeqOf(T.of, n),
         LAMBDA s : SeqOf(T.gen[s], Lesser(n, Greater(s, 1))),
         LAMBDA v :
            LET len == Len(v) IN
            When(len > 0,
                 <<  <<>>  >>
              \o Mapped(Approach(len, 0), LAMBDA k : SubSeq(v, 1, k))
              \o When(len > 1, [i \in 1 .. len |-> RemoveAt(v, i)])
              \o FlattenSeq([i \in 1 .. len |->
                    Mapped(T.shrink[v[i]], LAMBDA x : ReplaceAt(v, i, x))])))

String(n) == Vec(char, n)

None    == <<>>
Some(x) == <<x>>

Option(T) ==
    Impl({None} \cup {Some(x) : x \in T.of},
         LAMBDA s : {None} \cup {Some(x) : x \in T.gen[s]},
         LAMBDA o : When(o # None, <<None>> \o Mapped(T.shrink[o[1]], Some)))

\* Two variants, each shrunk within itself: Result, and the enums of std::net.
Either(a, A, b, B) ==
    Impl({<<a, x>> : x \in A.of} \cup {<<b, x>> : x \in B.of},
         LAMBDA s : {<<a, x>> : x \in A.gen[s]} \cup {<<b, x>> : x \in B.gen[s]},
         LAMBDA r : IF r[1] = a THEN Mapped(A.shrink[r[2]], LAMBDA x : <<a, x>>)
                                ELSE Mapped(B.shrink[r[2]], LAMBDA x : <<b, x>>))

Result(T, E) == Either("Ok", T, "Err", E)

Product(sets) ==
    FoldLeft(LAMBDA ts, S : {Append(t, x) : t \in ts, x \in S}, {<<>>}, sets)

\* Each component shrunk in place, from the first to the last; () has none.
Tuple(Ts) ==
    Impl(Product(Mapped(Ts, LAMBDA T : T.of)),
         LAMBDA s : Product(Mapped(Ts, LAMBDA T : T.gen[s])),
         LAMBDA t : FlattenSeq([i \in DOMAIN Ts |->
                        Mapped(Ts[i].shrink[t[i]], LAMBDA x : ReplaceAt(t, i, x))]))
=============================================================================
