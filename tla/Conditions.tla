------------------------------ MODULE Conditions ------------------------------
(***************************************************************************)
(* What simple_preprocessor.py makes of the condition of an #if or #elif:  *)
(* it expands the macros of the text pass by pass, then evaluates it.      *)
(*                                                                         *)
(* A condition is a tree: <<"num", n>>, <<"id", x>>, <<"file", h>> (a      *)
(* header's name), <<"defined", x>>, <<"has", e>> (__has_include(e)),      *)
(* <<"call", f, args>>, or an operator's name and its operands.  A macro's *)
(* body is such a tree, taken as if in parentheses: how an unparenthesised *)
(* body regroups around its neighbours is left out, and so are the bitwise *)
(* operators.  Macros are a function mac from names to bodies; par gives   *)
(* the function-like ones their parameters.                                *)
(***************************************************************************)
EXTENDS Integers, Sequences, SequencesExt, FiniteSets

CONSTANTS HasInclude,  \* headers the compiler says it has
          MaxPasses    \* expansion passes before a cycle is suspected: 10

Leaves == {"num", "id", "file", "defined", "has"}
Operands(e) == 2..Len(e)

\* Identifiers of a condition's text, but not of what they expand to.
RECURSIVE Identifiers(_)
Identifiers(e) ==
  CASE e[1] \in {"id", "defined"} -> {e[2]}
    [] e[1] \in {"num", "file"}   -> {}
    [] e[1] = "call" -> {e[2]} \cup UNION {Identifiers(a) : a \in Range(e[3])}
    [] OTHER         -> UNION {Identifiers(e[i]) : i \in Operands(e)}
------------------------------------------------------------------------------
RECURSIVE Substitute(_, _)
\* body with its parameters replaced: sub maps names to trees.
Substitute(body, sub) ==
  CASE body[1] = "id" -> IF body[2] \in DOMAIN sub THEN sub[body[2]] ELSE body
    [] body[1] \in Leaves -> body
    [] body[1] = "call" ->
         <<"call", body[2], [i \in DOMAIN body[3] |-> Substitute(body[3][i], sub)]>>
    [] OTHER -> [i \in DOMAIN body |-> IF i = 1 THEN body[1] ELSE Substitute(body[i], sub)]

Binding(params, args) ==
  [x \in Range(params) |-> args[CHOOSE i \in DOMAIN params : params[i] = x]]

\* An invocation the program does not take on.
Refused(call, par, active) ==
  LET params == par[call[2]]
  IN  \/ call[2] \in active
      \/ "..." \in Range(params)
      \/ Len(call[3]) # Len(params)

RECURSIVE Calls(_, _, _, _)
\* Every invocation of a function-like macro replaced by its body.
Calls(e, mac, par, active) ==
  LET Deeper(s) == [i \in DOMAIN s |-> Calls(s[i], mac, par, active)]
  IN  CASE e[1] \in Leaves -> e
        [] e[1] = "call" /\ (e[2] \notin DOMAIN par \/ e[2] \in active) ->
             <<"call", e[2], Deeper(e[3])>>
        [] e[1] = "call" /\ e[2] \in DOMAIN par /\ e[2] \notin active ->
             IF Refused(e, par, active) THEN e
             ELSE Calls(Substitute(mac[e[2]], Binding(par[e[2]], Deeper(e[3]))),
                        mac, par, active \cup {e[2]})
        [] OTHER -> <<e[1]>> \o Deeper(Tail(e))

RECURSIVE Noted(_, _, _, _)
\* Calls(e) meets an invocation it refuses, and notes it.
Noted(e, mac, par, active) ==
  LET Among(s) == \E i \in DOMAIN s : Noted(s[i], mac, par, active)
  IN  CASE e[1] \in Leaves -> FALSE
        [] e[1] = "call" /\ e[2] \notin DOMAIN par -> Among(e[3])
        [] e[1] = "call" /\ e[2] \in DOMAIN par ->
             \/ Refused(e, par, active)
             \/ Among(e[3])
             \/ LET args == [i \in DOMAIN e[3] |-> Calls(e[3][i], mac, par, active)]
                IN  Noted(Substitute(mac[e[2]], Binding(par[e[2]], args)),
                          mac, par, active \cup {e[2]})
        [] OTHER -> Among(Tail(e))

RECURSIVE Objects(_, _, _)
\* Every name of an object-like macro replaced once by its body, unexpanded.
\* What is called then may be no name at all.
Objects(e, mac, par) ==
  LET plain  == DOMAIN mac \ DOMAIN par
      Each(s) == [i \in DOMAIN s |-> Objects(s[i], mac, par)]
  IN  CASE e[1] = "id"     -> IF e[2] \in plain THEN mac[e[2]] ELSE e
        [] e[1] \in Leaves -> e
        [] e[1] = "call"   ->
             IF e[2] \notin plain THEN <<"call", e[2], Each(e[3])>>
             ELSE IF mac[e[2]][1] = "id" THEN <<"call", mac[e[2]][2], Each(e[3])>>
             ELSE <<"call", "", <<mac[e[2]]>> \o Each(e[3])>>
        [] OTHER -> <<e[1]>> \o Each(Tail(e))

RECURSIVE ObjectPasses(_, _, _, _)
\* The operand of __has_include, expanded until it stays as it is.
ObjectPasses(e, mac, par, n) ==
  LET next == Objects(e, mac, par)
  IN  IF n = 0 \/ next = e THEN e ELSE ObjectPasses(next, mac, par, n - 1)

RECURSIVE Queries(_, _, _)
\* defined(x) and __has_include(h) replaced by 1 or 0.
Queries(e, mac, par) ==
  LET Truth(b) == <<"num", IF b THEN 1 ELSE 0>>
      Each(s)  == [i \in DOMAIN s |-> Queries(s[i], mac, par)]
  IN  CASE e[1] = "defined" -> Truth(e[2] \in DOMAIN mac)
        [] e[1] = "has"     -> Truth(ObjectPasses(e[2], mac, par, MaxPasses)
                                       \in {<<"file", h>> : h \in HasInclude})
        [] e[1] \in Leaves  -> e
        [] e[1] = "call"    -> <<"call", e[2], Each(e[3])>>
        [] OTHER            -> <<e[1]>> \o Each(Tail(e))
------------------------------------------------------------------------------
Pass(e, mac, par) == Objects(Calls(Queries(e, mac, par), mac, par, {}), mac, par)

RECURSIVE Passes(_, _, _, _, _)
\* Passes until nothing changes or MaxPasses have run: the tree they end with and
\* whether a pass noted an invocation.
Passes(e, mac, par, n, noted) ==
  LET After(next, bad) == IF n = 1 \/ next = e THEN [tree |-> next, noted |-> bad]
                          ELSE Passes(next, mac, par, n - 1, bad)
  IN  After(Pass(e, mac, par), noted \/ Noted(Queries(e, mac, par), mac, par, {}))

Expanded(e, mac, par) == Passes(e, mac, par, MaxPasses, FALSE)
------------------------------------------------------------------------------
\* Integer division truncates toward zero.
TruncDiv(l, r) ==
  LET Abs(n) == IF n < 0 THEN -n ELSE n
      q      == Abs(l) \div Abs(r)
  IN  IF (l < 0) # (r < 0) THEN -q ELSE q

\* A negative count shifts the other way, and 64 places leave nothing.
ShiftLeft(v, n) == IF n >= 64 THEN 0 ELSE IF n >= 0 THEN v * 2^n ELSE v \div 2^(-n)

Bool(b) == IF b THEN 1 ELSE 0

Arithmetic(op, l, r) ==
  CASE op = "==" -> Bool(l = r)
    [] op = "!=" -> Bool(l # r)
    [] op = "<"  -> Bool(l < r)
    [] op = "<=" -> Bool(l <= r)
    [] op = ">"  -> Bool(l > r)
    [] op = ">=" -> Bool(l >= r)
    [] op = "+"  -> l + r
    [] op = "-"  -> l - r
    [] op = "*"  -> l * r
    [] op = "<<" -> ShiftLeft(l, r)
    [] op = ">>" -> ShiftLeft(l, -r)
    [] op = "/"  -> IF r = 0 THEN 0 ELSE TruncDiv(l, r)
    [] op = "%"  -> IF r = 0 THEN 0 ELSE l - TruncDiv(l, r) * r

Unary(op, v) == CASE op = "!" -> Bool(v = 0)
                  [] op = "-" -> -v
                  [] op = "~" -> -v - 1

RECURSIVE Value(_)
\* What is left after expansion: a name counts as 0.
Value(e) ==
  CASE e[1] = "num"  -> e[2]
    [] e[1] = "id"   -> 0
    [] e[1] = "&&"   -> Bool((Value(e[2]) # 0) /\ (Value(e[3]) # 0))
    [] e[1] = "||"   -> Bool((Value(e[2]) # 0) \/ (Value(e[3]) # 0))
    [] e[1] = "?"    -> IF Value(e[2]) # 0 THEN Value(e[3]) ELSE Value(e[4])
    [] Len(e) = 2    -> Unary(e[1], Value(e[2]))
    [] OTHER         -> Arithmetic(e[1], Value(e[2]), Value(e[3]))

RECURSIVE Nodes(_)
Nodes(e) == {e} \cup UNION {Nodes(a) : a \in Range(IF e[1] = "call" THEN e[3]
                                                   ELSE IF e[1] \in Leaves THEN << >> ELSE Tail(e))}

RECURSIVE Adjacent(_)
\* A number followed by a number in parentheses is their product.
Adjacent(e) ==
  LET Each(s) == [i \in DOMAIN s |-> Adjacent(s[i])]
  IN  CASE e[1] \in Leaves -> e
        [] e[1] = "call" /\ e[2] = "" /\ [i \in DOMAIN e[3] |-> e[3][i][1]] = <<"num", "num">> ->
             <<"*">> \o e[3]
        [] e[1] = "call" /\ (e[2] # "" \/ [i \in DOMAIN e[3] |-> e[3][i][1]] # <<"num", "num">>) ->
             <<"call", e[2], Each(e[3])>>
        [] OTHER -> <<e[1]>> \o Each(Tail(e))

\* A syntax error: an argument after what is no function-like macro.
Malformed(e) == \E n \in Nodes(e) : n[1] = "call"

\* Text that is no arithmetic at all: a header's name, the comma between arguments.
Unsafe(e) ==
  \E n \in Nodes(e) :
    \/ n[1] = "file"
    \/ n[1] = "call" /\ Len(n[3]) > (IF n[2] = "" THEN 2 ELSE 1)

RECURSIVE Divides(_)
\* A division by zero in an operand that is evaluated.
Divides(e) ==
  CASE e[1] \in {"num", "id"} -> FALSE
    [] e[1] = "&&" -> Divides(e[2]) \/ (Value(e[2]) # 0 /\ Divides(e[3]))
    [] e[1] = "||" -> Divides(e[2]) \/ (Value(e[2]) = 0 /\ Divides(e[3]))
    [] e[1] = "?"  -> Divides(e[2]) \/ Divides(IF Value(e[2]) # 0 THEN e[3] ELSE e[4])
    [] OTHER       -> \/ \E i \in Operands(e) : Divides(e[i])
                      \/ (e[1] \in {"/", "%"} /\ Value(e[3]) = 0)

\* Both kinds of error count as a condition that is false.
SafeEval(e) == IF Malformed(e) THEN 0 ELSE IF Divides(e) THEN 0 ELSE Value(e)

Evaluated(left) ==
  IF Unsafe(left) THEN "unevaluable" ELSE IF SafeEval(left) # 0 THEN "true" ELSE "false"

Judged(x) == IF x.noted THEN "unevaluable" ELSE Evaluated(Adjacent(x.tree))

\* The verdict on a condition: true, false, or none at all.
Verdict(e, mac, par) == Judged(Expanded(e, mac, par))
==============================================================================
