---------------------------- MODULE DeriveParser ----------------------------
(***************************************************************************)
(* The hand-written parsers of crates/pbt-derive/src/lib.rs: from the      *)
(* tokens of a type or a function to what #[derive(Arbitrary)] and #[pbt]  *)
(* generate for it.  A loop over an iterator is defined by the positions   *)
(* where it stops.                                                         *)
(*                                                                         *)
(* Spans, messages and the text of the generated code are left out; a type *)
(* or a strategy expression is its tokens, looked up in an environment.    *)
(***************************************************************************)
EXTENDS Derived

Token(kind, text, stream) == [kind |-> kind, text |-> text, stream |-> stream]
Ident(word)     == Token("ident", word, <<>>)
Punct(c)        == Token("punct", c, <<>>)
Group(open, ts) == Token("group", open, ts)        \* open is "(", "[" or "{"
Quoted(ts)      == Token("string", "", ts)         \* a string literal and the tokens in it
Number(n)       == Token("number", ToString(n), <<>>)
End             == Token("end", "", <<>>)

At(ts, p)   == IF p \in DOMAIN ts THEN ts[p] ELSE End       \* peek
First(ps)   == CHOOSE p \in ps : \A q \in ps : p <= q
Missing     == <<>>                              \* Option::None
Bad         == [bad |-> TRUE]       \* an Err; of a field or variant, in the list of them

IsGroup(t, opens) == t.kind = "group" /\ t.text \in opens
IsLiteral(t)      == t.kind \in {"string", "number"}

-----------------------------------------------------------------------------
\* The first position from p on that belongs to no #[...], pub or pub(...).
skip_attrs_and_visibility(ts, p) ==
    LET Ignored(q) == \/ ts[q] \in {Punct("#"), Ident("pub")}
                      \/ q > p /\ ts[q].kind = "group" /\ ts[q - 1] = Punct("#")
                      \/ q > p /\ IsGroup(ts[q], {"("}) /\ ts[q - 1] = Ident("pub")
    IN  First({q \in p .. Len(ts) : ~Ignored(q)} \cup {Len(ts) + 1})

\* The expression of arbitrary(strategy = ...), Missing for other attributes.
try_parse_arbitrary_attr(attr) ==
    LET inner == At(attr, 2).stream
        expr  == SubSeq(inner, 3, Len(inner))
    IN  IF /\ At(attr, 1) = Ident("arbitrary") /\ IsGroup(At(attr, 2), {"("})
           /\ At(inner, 1) = Ident("strategy") /\ At(inner, 2) = Punct("=")
        THEN IF Len(expr) = 1 /\ expr[1].kind = "string" THEN expr[1].stream ELSE expr
        ELSE Missing

\* The strategy of the last such attribute among those skipped at the start.
collect_field_attrs(ts) ==
    LET ignored == SubSeq(ts, 1, skip_attrs_and_visibility(ts, 1) - 1)
        found == SelectSeq(Mapped(ignored, LAMBDA t : try_parse_arbitrary_attr(t.stream)),
                           LAMBDA expr : expr # Missing)
    IN  IF found = <<>> THEN Missing ELSE Last(found)

\* How deep in <...> position q is: the > of -> closes one, too.
Depth(ts, q) ==
    LET count(c) == Cardinality({r \in 1 .. q - 1 : ts[r] = Punct(c)})
    IN  count("<") - count(">")

Split(ts, cuts) ==
    LET ends == SetToSortSeq(cuts \cup {0, Len(ts) + 1}, <)
    IN  [k \in 1 .. Len(ends) - 1 |-> SubSeq(ts, ends[k] + 1, ends[k + 1] - 1)]

Commas(ts) == {q \in DOMAIN ts : ts[q] = Punct(",")}

split_at_every_comma(ts) ==      \* mutant: commas inside <...> end the type
    Split(ts, Commas(ts))

\* What collect_until_top_comma collects, again and again; a trailing comma is
\* allowed.
split_at_top_commas(ts) ==
    LET pieces == Split(ts, {q \in Commas(ts) : Depth(ts, q) = 0})
    IN  IF Last(pieces) = <<>> THEN Front(pieces) ELSE pieces

FieldInfo(strategy, ident, ty) == [name |-> ident, ty |-> ty, strategy |-> strategy]

parse_named_fields(ts) ==
    Mapped(split_at_top_commas(ts), LAMBDA f :
        LET n == skip_attrs_and_visibility(f, 1)
        IN  IF At(f, n).kind = "ident" /\ At(f, n + 1) = Punct(":")
            THEN FieldInfo(collect_field_attrs(f), f[n].text, SubSeq(f, n + 2, Len(f)))
            ELSE Bad)

parse_tuple_fields(ts) ==
    Mapped(split_at_top_commas(ts), LAMBDA f :
        FieldInfo(collect_field_attrs(f), "",
                  SubSeq(f, skip_attrs_and_visibility(f, 1), Len(f))))

HasBody(t) == IsGroup(t, {"{", "("})

\* The fields in the group t; there are none, and it is a unit, without one.
Body(t) ==
    [unit |-> ~HasBody(t),
     fields |-> CASE IsGroup(t, {"{"}) -> parse_named_fields(t.stream)
                  [] IsGroup(t, {"("}) -> parse_tuple_fields(t.stream)
                  [] OTHER -> <<>>]

\* From where the last variant ended: the comma behind it may be missing, but
\* nothing else may stand before the next name (discriminants are no names).
parse_enum_variants(ts) ==
    LET variants[p \in 1 .. Len(ts) + 1] ==
            LET ident == skip_attrs_and_visibility(ts, p)
                body  == At(ts, ident + 1)
                end   == IF HasBody(body) THEN ident + 2 ELSE ident + 1
                rest  == IF At(ts, end) = Punct(",") THEN end + 1 ELSE end
            IN  CASE At(ts, ident) = End -> <<>>
                  [] At(ts, ident).kind = "ident" -> <<Body(body)>> \o variants[rest]
                  [] OTHER -> <<Bad>>
    IN  variants[1]

\* The position after the <...> at p, 0 when it does not end; the type
\* parameters and the lifetimes among the generics.
parse_generics(ts, p) ==
    LET inside(q) == Depth(ts, q) - Depth(ts, p)
        ends   == {q \in p + 1 .. Len(ts) : ts[q] = Punct(">") /\ inside(q) = 1}
        last   == First(ends)
        heads  == {q + 1 : q \in {p} \cup {r \in Commas(ts) : r \in p .. last /\ inside(r) = 1}}
    IN  CASE At(ts, p) # Punct("<") -> [stop |-> p, type_params |-> {}, lifetimes |-> {}]
          [] ends = {} -> [stop |-> 0, type_params |-> {}, lifetimes |-> {}]
          [] OTHER ->
                [stop |-> last + 1,
                 type_params |-> {ts[q].text : q \in {r \in heads :
                                    ts[r].kind = "ident" /\ ts[r] # Ident("const")}},
                 lifetimes |-> {ts[q + 1].text : q \in {r \in heads :
                                    ts[r] = Punct("'") /\ At(ts, r + 1).kind = "ident"}}]

\* A where clause ends at the first {...} or (...) or semicolon.
parse_optional_where(ts, p) ==
    IF At(ts, p) # Ident("where") THEN p
    ELSE First({q \in p + 1 .. Len(ts) : HasBody(ts[q]) \/ ts[q] = Punct(";")} \cup {Len(ts) + 1})

Bodies(kind, t) == IF kind = Ident("struct") THEN <<Body(t)>> ELSE parse_enum_variants(t.stream)

\* Where the macro reports an error; lifetimes by reject_lifetimes.
Rejected(kind, ident, generics, body, bodies) ==
    \/ kind \notin {Ident("struct"), Ident("enum")} \/ ident.kind # "ident"
    \/ generics.stop = 0 \/ generics.lifetimes # {}
    \/ kind = Ident("struct") /\ ~HasBody(body) /\ body # Punct(";")
    \/ kind = Ident("enum") /\ ~IsGroup(body, {"{"})
    \/ bodies = <<>> \/ Bad \in ToSet(bodies)
    \/ \E b \in ToSet(bodies) \ {Bad} : Bad \in ToSet(b.fields)

Item(kind, ident, generics, body, bodies) ==
    IF Rejected(kind, ident, generics, body, bodies)
    THEN [kind |-> "error", type_params |-> {}, bodies |-> <<>>]
    ELSE [kind |-> kind.text, type_params |-> generics.type_params, bodies |-> bodies]

\* The kind of the item, "error" when the macro reports an error, its type
\* parameters, and its bodies: one for a struct, one per variant for an enum.
parse_input(ts) ==
    LET p == skip_attrs_and_visibility(ts, 1)
        generics == parse_generics(ts, p + 2)
        body == At(ts, parse_optional_where(ts, generics.stop))
    IN  Item(At(ts, p), At(ts, p + 1), generics, body, Bodies(At(ts, p), body))
-----------------------------------------------------------------------------
(* #[derive(Arbitrary)]                                                    *)

\* What stands for a program that does not compile.
CompileError == Strategy({<<-1>>}, LAMBDA s : {<<-1>>}, LAMBDA v : <<>>)

\* The strategy of a type or an expression: "known" has those in scope,
\* "arguments" those of the names of type parameters, which are in scope if
\* the parser found them.
Found(ty, type_params, known, arguments) ==
    CASE ty \in DOMAIN known -> known[ty]
      [] \E t \in type_params \cap DOMAIN arguments : ty = <<Ident(t)>> -> arguments[ty[1].text]
      [] OTHER -> CompileError

\* An item with the strategies of its fields.
Resolved(item, known, arguments) ==
    [kind |-> item.kind,
     bodies |-> Mapped(item.bodies, LAMBDA b :
        [unit |-> b.unit,
         fields |-> Mapped(b.fields, LAMBDA f :
            Found(IF f.strategy # Missing THEN f.strategy ELSE f.ty,
                  item.type_params, known, arguments))])]

\* The implementation for such an item.
derive_arbitrary(item) ==
    CASE item.kind = "error" -> CompileError
      [] item.kind = "struct" -> DerivedStruct(item.bodies[1].fields)
      [] item.kind = "enum" -> DerivedEnum(item.bodies)
-----------------------------------------------------------------------------
(* #[pbt]                                                                  *)

AttrArgs == {"cases", "seed", "max_shrinks", "max_size", "max_discards", "max_skips"}
MaxLiteral == 99                 \* bound on the literals of the instance

\* key = value triples as a function, Bad unless the tokens are such triples;
\* the last value of a key counts, a comma after a triple may be missing, a
\* literal with a suffix is no integer.
parse_attr_args(ts) ==
    LET Value(t) == {n \in 0 .. MaxLiteral : t = Number(n)}
        start == [at |-> "key", key |-> "", args |-> [k \in {} |-> 0]]
        Step(s, t) ==
            CASE s.at \in {"key", "comma"} /\ t.kind = "ident" /\ t.text \in AttrArgs ->
                    [s EXCEPT !.at = "=", !.key = t.text]
              [] s.at = "=" /\ t = Punct("=") -> [s EXCEPT !.at = "value"]
              [] s.at = "value" /\ Value(t) # {} ->
                    [s EXCEPT !.at = "comma",
                              !.args = [k \in DOMAIN @ \cup {s.key} |->
                                            IF k = s.key THEN First(Value(t)) ELSE @[k]]]
              [] s.at = "comma" /\ t = Punct(",") -> [s EXCEPT !.at = "key"]
              [] OTHER -> [s EXCEPT !.at = "error"]
        end == FoldLeft(Step, start, ts)
    IN  IF end.at \in {"key", "comma"} THEN end.args ELSE Bad

\* The parameters of the function; <<Bad>> for an error.  Modifiers in front of
\* fn are words; only extern may have a literal behind it.
parse_fn(ts) ==
    LET start == skip_attrs_and_visibility(ts, 1)
        Modifier(q) == \/ ts[q].kind = "ident" /\ ts[q] # Ident("fn")
                       \/ q > start /\ IsLiteral(ts[q]) /\ ts[q - 1] = Ident("extern")
        f == First({q \in start .. Len(ts) : ~Modifier(q)} \cup {Len(ts) + 1})
        arrow == At(ts, f + 3) = Punct("-")
        body == IF arrow THEN First({q \in f + 5 .. Len(ts) : IsGroup(ts[q], {"{"})} \cup {Len(ts) + 1})
                ELSE f + 3
    IN  IF /\ At(ts, f) = Ident("fn") /\ At(ts, f + 1).kind = "ident"
           /\ IsGroup(At(ts, f + 2), {"("})
           /\ arrow => At(ts, f + 4) = Punct(">")
           /\ IsGroup(At(ts, body), {"{"})
        THEN parse_named_fields(ts[f + 2].stream) ELSE <<Bad>>

\* The values the generated test gives to its body: (), the parameter, or a
\* tuple of the parameters; pbt() has reported an error in args or ts by then.
generate_test_wrapper(args, ts, known) ==
    LET params == parse_fn(ts)
        Parameter(f) == Found(f.ty, {}, known, <<>>)
    IN  CASE args = Bad \/ Bad \in ToSet(params) -> CompileError
          [] Len(params) = 1 -> Parameter(params[1])
          [] OTHER -> any(Tuple(Mapped(params, Parameter)))

\* The Config of the generated test, if there is one: what the arguments set,
\* and else the default.
TestConfigs(args, default) ==
    {[k \in DOMAIN default |-> IF k \in DOMAIN a THEN a[k] ELSE default[k]] : a \in {args} \ {Bad}}
=============================================================================
