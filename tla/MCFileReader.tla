----------------------------- MODULE MCFileReader -----------------------------
(* FileReader over every well-nested file of at most Longest lines drawn   *)
(* from an alphabet that has each kind of directive.                       *)
EXTENDS FileReader

CONSTANT Longest

N(n) == <<"num", n>>
A == <<"id", "A">>
Alphabet ==
  {[t |-> "ifdef", n |-> "A"], [t |-> "if", c |-> <<"&&", A, <<"call", "F", <<N(1)>>>>>>],
   [t |-> "ifndef", n |-> "B"],
   [t |-> "elif", c |-> <<"==", <<"id", "B">>, N(1)>>],
   [t |-> "else"], [t |-> "endif"],
   [t |-> "define", n |-> "A", b |-> N(0)], [t |-> "undef", n |-> "A"],
   [t |-> "define", n |-> "F", b |-> <<"+", <<"id", "x">>, N(1)>>, p |-> <<"x">>],
   [t |-> "magic", k |-> "LDFLAGS", v |-> "x"]}

Nested(s) == /\ Depth(s, Len(s)) = 0
             /\ \A i \in DOMAIN s : /\ Depth(s, i) >= 0
                                    /\ s[i].t \in {"elif", "else"} => Depth(s, i) > 0
Short == {s \in UNION {[1..n -> Alphabet] : n \in 1..Longest} : Nested(s)}

\* One group with every kind of arm, and tests of every kind: a call with too many
\* arguments, __has_include of a name, division by zero, a shift, a comparison.
Tests == {<<"call", "F", <<A, N(1)>>>>, <<"has", A>>, <<"==", <<"/", A, N(0)>>, N(0)>>,
          <<"<", <<"<<", N(1), A>>, <<"?", <<"defined", "B">>, N(2), N(1)>>>>,
          <<"call", "A", <<N(1)>>>>}
Plains == {l \in Alphabet : l.t \in {"define", "undef"}}
          \cup {[t |-> "include", c |-> A], [t |-> "include", h |-> "h"]}
Chains == {<<[t |-> "if", c |-> c], p, [t |-> "elif", c |-> d], q, [t |-> "elif", c |-> A], p,
             [t |-> "else"], q, [t |-> "endif"]>> :
             c \in Tests, d \in {<<"has", A>>, <<"call", "F", <<A, N(1)>>>>},
             p \in Plains, q \in {l \in Plains : l.t \in {"define", "undef"} /\ l.n = "A"}}

\* A file within an include guard, or with #pragma once.
Guard == [t |-> "define", n |-> "G", b |-> N(1)]
Guarded == {<<[t |-> "ifndef", n |-> "G"], Guard, [t |-> "if", c |-> c], p, [t |-> "endif"],
              [t |-> "endif"]>> : c \in Tests, p \in Plains \cup {Guard}}
           \cup {<<[t |-> "once"], Guard, [t |-> "ifdef", n |-> "G"], p, [t |-> "endif"]>> : p \in Plains}

MCTexts == Short \cup Chains \cup Guarded

With(v, p) == MacroState("C" :> N(1), v, p)
MCStates == {With(<< >>, << >>), With("A" :> N(1), << >>), With("A" :> N(0) @@ "B" :> N(1), << >>),
             With("A" :> <<"file", "h">>, << >>),
             With("A" :> N(1) @@ "F" :> <<"id", "y">>, "F" :> <<"y">>)}
===============================================================================
