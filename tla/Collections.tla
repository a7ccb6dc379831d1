---------------------------- MODULE Collections ----------------------------
(***************************************************************************)
(* The Arbitrary implementations of crates/core/src/collections.rs, most   *)
(* of them through the ones of Arbitrary.                                  *)
(***************************************************************************)
EXTENDS Arbitrary

CONSTANTS NanosPerSec, Octets     \* 1_000_000_000, and 4 or 16 in the code

\* collect() into the collection whose elements iter() lists with list(_).
Collected(T, collect(_), list(_)) ==
    Impl({collect(v) : v \in T.of},
         LAMBDA s : {collect(v) : v \in T.gen[s]},
         LAMBDA c : Mapped(T.shrink[list(c)], collect))

Same(v) == v
Descending(v) == SortSeq(v, LAMBDA a, b : a > b)

\* A heap is denoted by the array it keeps its elements in; of the arrays that
\* are heaps, heapify yields the descending one.
SequenceLike(T, n) ==
    [VecDeque   |-> Collected(Vec(T, n), Same, Same),
     LinkedList |-> Collected(Vec(T, n), Same, Same),
     BinaryHeap |-> Collected(Vec(T, n), Descending, Same)]

Elements(v) == {v[i] : i \in DOMAIN v}

\* Duplicates collapse, so that a candidate may be smaller than the vector it
\* comes from.  BTreeSet iterates upward; HashSet in some order, here downward.
SetLike(T, n) ==
    [BTreeSet |-> Collected(Vec(T, n), Elements, LAMBDA S : SetToSortSeq(S, <)),
     HashSet  |-> Collected(Vec(T, n), Elements, LAMBDA S : SetToSortSeq(S, >))]

\* A map is the set of its entries; of two pairs with a key the later stays.
Entries(pairs) ==
    {pairs[i] : i \in {j \in DOMAIN pairs :
                          \A k \in DOMAIN pairs : pairs[k][1] = pairs[j][1] => k <= j}}

MapLike(K, V, n) ==
    [BTreeMap |-> Collected(Vec(Tuple(<<K, V>>), n), Entries,
                            LAMBDA M : SetToSortSeq(M, LAMBDA p, q : p[1] < q[1])),
     HashMap  |-> Collected(Vec(Tuple(<<K, V>>), n), Entries,
                            LAMBDA M : SetToSortSeq(M, LAMBDA p, q : p[1] > q[1]))]

\* Of fixed length: only the elements shrink.
Array(T, n) == Tuple([i \in 1 .. n |-> T])

\* <<seconds, nanoseconds>>; the nanoseconds shrink to 0 at once or not at all.
Duration(Secs) ==
    Impl(Secs.of \X (0 .. NanosPerSec - 1),
         LAMBDA s : Secs.gen[s] \X (0 .. NanosPerSec - 1),
         LAMBDA d : When(d # <<0, 0>>, << <<0, 0>> >>)
                    \o Mapped(Secs.shrink[d[1]], LAMBDA x : <<x, d[2]>>)
                    \o When(d[2] > 0, << <<d[1], 0>> >>))

\* Half-open ranges <<start, end>>, ordered after drawing the two ends.
Range_(T) ==
    Impl(T.of \X T.of,
         LAMBDA s : {<<Lesser(a, b), Greater(a, b)>> : a \in T.gen[s], b \in T.gen[s]},
         LAMBDA r : LET start == r[1]  end == r[2] IN
              << <<start, start>> >>
              \o Mapped(Within(T.shrink[start], {x \in T.of : x <= end}), LAMBDA x : <<x, end>>)
              \o Mapped(Within(T.shrink[end], {x \in T.of : start <= x}), LAMBDA x : <<start, x>>))

\* A type that holds one value of T and shrinks it: Rc, Arc, Cow (always Owned),
\* Cell, RefCell, and PathBuf and OsString, which hold a String.
Holding(T) ==
    Impl({[inner |-> x] : x \in T.of},
         LAMBDA s : {[inner |-> x] : x \in T.gen[s]},
         LAMBDA v : Mapped(T.shrink[v.inner], LAMBDA x : [inner |-> x]))

\* Internet addresses.  A socket address shrinks its address, then its port;
\* a V6 one is always built with flow information and scope 0.
Net(Byte, Port) ==
    LET A == Array(Byte, Octets)
        Address == [A EXCEPT !.gen = [s \in Sizes |-> A.of]]     \* fill_bytes
        V4 == Tuple(<<Address, Port>>)
        V6 == Impl({<<a, p, 0, 0>> : a \in Address.of, p \in Port.of},
                   LAMBDA s : {<<a, p, 0, 0>> : a \in Address.of, p \in Port.gen[s]},
                   LAMBDA v : Mapped(Address.shrink[v[1]], LAMBDA a : <<a, v[2], 0, 0>>)
                              \o Mapped(Port.shrink[v[2]], LAMBDA p : <<v[1], p, 0, 0>>))
    IN  [IpAddr |-> Either("V4", Address, "V6", Address),
         SocketAddr |-> Either("V4", V4, "V6", V6)]

\* Up to 32 draws may all be 0: then it is 1.
NonZero(T) ==
    Impl(T.of \ {0},
         LAMBDA s : (T.gen[s] \ {0}) \cup {1},
         LAMBDA n : Within(T.shrink[n], T.of \ {0}))

\* Wrapping, Saturating
Wrapping(T) ==
    Impl({<<x>> : x \in T.of}, LAMBDA s : {<<x>> : x \in T.gen[s]},
         LAMBDA w : Mapped(T.shrink[w[1]], LAMBDA x : <<x>>))

Ordering ==
    Impl({"Less", "Equal", "Greater"}, LAMBDA s : {"Less", "Equal", "Greater"},
         LAMBDA o : When(o # "Equal", <<"Equal">>))
=============================================================================
