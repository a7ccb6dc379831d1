------------------------------ MODULE Derived ------------------------------
(***************************************************************************)
(* What the code generated by #[derive(Arbitrary)] does (crates/pbt-derive *)
(* src/lib.rs).  A field is a strategy: any(T), or the strategy of its     *)
(* #[arbitrary(strategy = ...)] attribute.                                 *)
(***************************************************************************)
EXTENDS Strategies

FieldsPanic(fields) == [s \in Sizes |-> \E i \in DOMAIN fields : fields[i].panics[s]]
FieldValues(fields) == Product(Mapped(fields, LAMBDA f : f.of))
FieldsDrawn(fields, s) == Product(Mapped(fields, LAMBDA f : f.gen[s]))

\* One field shrunk, the others cloned, from the first field to the last.
FieldShrinks(fields, t) ==
    FlattenSeq([i \in DOMAIN fields |->
        Mapped(fields[i].shrink[t[i]], LAMBDA x : ReplaceAt(t, i, x))])

\* A unit struct has no fields, and no shrinks.
DerivedStruct(fields) ==
    [Strategy(FieldValues(fields), LAMBDA s : FieldsDrawn(fields, s),
              LAMBDA t : FieldShrinks(fields, t))
     EXCEPT !.panics = FieldsPanic(fields)]

Unit_ == [unit |-> TRUE, fields |-> <<>>]
Variant(fields) == [unit |-> FALSE, fields |-> fields]

\* The first variant of the least complexity.
SimplestOf(variants) ==
    LET Key(i) == IF variants[i].unit THEN 0 ELSE 1 + 2 * Len(variants[i].fields)
        Keys == {Key(i) : i \in DOMAIN variants}
    IN  CHOOSE i \in DOMAIN variants :
            /\ \A k \in Keys : Key(i) <= k
            /\ \A j \in DOMAIN variants : Key(j) = Key(i) => i <= j

\* Values are <<variant, fields>>.  A variant is drawn uniformly.  The first
\* candidate is the simplest variant when it is a unit and not the current
\* one; then the fields shrink.
DerivedEnum(variants) ==
    LET simplest == SimplestOf(variants)
        ValuesOf(vals(_)) == UNION {{<<i, t>> : t \in vals(variants[i].fields)} :
                                    i \in DOMAIN variants}
    IN  [Strategy(ValuesOf(FieldValues),
                  LAMBDA s : ValuesOf(LAMBDA fields : FieldsDrawn(fields, s)),
                  LAMBDA v :
                      When(variants[simplest].unit /\ v[1] # simplest,
                           << <<simplest, <<>> >> >>)
                      \o Mapped(FieldShrinks(variants[v[1]].fields, v[2]),
                                LAMBDA t : <<v[1], t>>))
         EXCEPT !.panics = [s \in Sizes |->
                    \E i \in DOMAIN variants : FieldsPanic(variants[i].fields)[s]]]
=============================================================================
