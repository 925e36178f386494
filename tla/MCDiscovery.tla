----------------------------- MODULE MCDiscovery ------------------------------
(* Discovery over small trees: two targets t and u, the headers a, b and e,   *)
(* the source c beside b, a source d, and the units m, p and q of a module.   *)
EXTENDS Discovery

F(n) == <<".", n>>
Num(n) == <<"num", n>>
Id(x) == <<"id", x>>
If(c) == [t |-> "if", c |-> c]
Ifdef(n) == [t |-> "ifdef", n |-> n]
Ifndef(n) == [t |-> "ifndef", n |-> n]
Endif == [t |-> "endif"]
Def(n, b) == [t |-> "define", n |-> n, b |-> b]
Fn(n, p) == [t |-> "define", n |-> n, b |-> Num(1), p |-> p]
Inc(h) == [t |-> "include", h |-> h]
Code(c) == [t |-> "code", c |-> c]
Flag(k, v) == [t |-> "magic", k |-> k, v |-> v]
Call(n) == <<"call", n, <<Num(1)>>>>

World(t, u, a, b, A, B) ==
  [files   |-> (F("t") :> t) @@ (F("u") :> u) @@ (F("a") :> a) @@ (F("b") :> b)
               @@ (F("c") :> <<Ifndef("X"), Inc("e"), Endif, Inc("b"), Code(Id("B"))>>)
               @@ (F("e") :> <<Ifdef("X"), Def("Z", Num(5)), Def("X", Num(7)), Endif>>) @@ (F("d") :> <<Code(Id("d"))>>)
               @@ (F("m") :> <<[t |-> "export", n |-> <<"m">>]>>)
               @@ (F("p") :> <<[t |-> "implement", n |-> <<"m">>], [t |-> "import", n |-> <<"", "q">>]>>)
               @@ (F("q") :> <<[t |-> "export", n |-> <<"m", "q">>]>>),
   sorted  |-> <<F("a"), F("b"), F("c"), F("d"), F("e"), F("m"), F("p"), F("q"), F("t"), F("u")>>,
   include |-> <<".">>,
   core    |-> ("A" :> A) @@ ("B" :> B) @@ ("CC" :> Num(9)),
   cmdline |-> {"A", "B"},
   sources |-> {F(n) : n \in {"c", "d", "m", "p", "q", "t", "u"}},
   targets |-> {F("t"), F("u")},
   implied |-> F("b") :> F("c"),
   magic_in_headers |-> FALSE, separate |-> FALSE, pkg |-> << >>, std |-> << >>, context |-> "gcc"]

\* Tops of a unit, and what a header does.
Tops == {<< >>, <<Def("X", Num(5))>>, <<Fn("X", <<"x">>)>>, <<Fn("X", <<"x", "y">>)>>,
         <<Flag("CPPFLAGS", <<"-D", "X", Num(6)>>)>>, <<Flag("READMACROS", F("e"))>>}
Others == {<<Flag("SOURCE", F("d"))>>, <<[t |-> "import", n |-> <<"m">>]>>}
Headers == {<<Ifdef("X"), Inc("b"), Flag("LDFLAGS", <<"-l", "x">>), Endif, Code(Id("A"))>>,
            <<If(<<"==", Id("A"), Num(1)>>), Inc("b"), Flag("LDFLAGS", <<"-l", "x">>), Endif>>,
            <<If(Call("X")), Flag("LDFLAGS", <<"-l", "x">>), Endif, Inc("b")>>,
            <<Inc("b"), Ifdef("Y"), Flag("SOURCE", F("d")), Flag("LDFLAGS", <<"-l", "y">>), Endif>>}
Bottoms == {<<[t |-> "once"], Code(Id("b"))>>,
            <<Ifndef("G"), Def("G", Num(8)), Def("Y", Id("A")), Code(Id("Y")), Endif>>}

Unit(top, name) == top \o <<Inc("a"), Code(Id(name))>>

\* A unit that has both macros, or one that stands for the other.
Pairs == {World(<<Inc("a"), Code(Id("A")), Code(Id("B"))>>, Unit(<< >>, "u"), a, b, A, Num(1)) :
            a \in Headers, b \in Bottoms, A \in {Num(1), Num(3), Id("B")}}
         \cup {World(<<Inc("a"), Code(Id("A"))>>, Unit(<< >>, "u"), a, b, Id("B"), Num(1)) :
            a \in Headers, b \in Bottoms}

MCTrees == Pairs \cup {World(Unit(t, "t"), Unit(u, "u"), a, b, Num(1), Num(3)) :
              t \in Tops, u \in {<< >>, <<Fn("X", <<"x", "y">>)>>} \cup Others, a \in Headers, b \in Bottoms}

\* Another build gives one of the command line's macros another value, or both
\* one, or each the other's.
Values(A, B) == {<<A, B>>, <<Num(2), B>>, <<A, Num(4)>>, <<Num(2), Num(2)>>, <<B, A>>}
MCEdits(tree) == {[tree EXCEPT !.core = ("A" :> v[1]) @@ ("B" :> v[2]) @@ @] :
                    v \in Values(tree.core["A"], tree.core["B"])} \ {tree}
==============================================================================
