----------------------------- MODULE Preprocessor -----------------------------
(***************************************************************************)
(* One file under one set of macros: simple_preprocessor.py's walk over    *)
(* its lines, file_analyzer.py's summary of it, and preprocessing_cache.py *)
(* which remembers the walk's result.                                      *)
(*                                                                         *)
(* A file is a sequence of lines.  A line is a record whose t says what it *)
(* is: "if", "elif" (condition c), "ifdef", "ifndef" (name n), "else",     *)
(* "endif", "define" (name n, body b and, when function-like, parameters   *)
(* p), "undef" (n), "include" (header h, or a condition c that names it),  *)
(* "once" (#pragma once), "magic" (key k and value v), "import", "export", *)
(* "implement" (a C++ module n), and "code" (names c it mentions).         *)
(***************************************************************************)
EXTENDS Conditions, Functions, TLC

NoGuard == "no guard"
Without(f, S) == Restrict(f, DOMAIN f \ S)
------------------------------------------------------------------------------
(* What the analyzer says of a file. *)

IsDirective(l) == l.t \notin {"magic", "import", "export", "implement", "code"}
Directives(lines) == SelectSeq(lines, IsDirective)
Opens(l) == l.t \in {"if", "ifdef", "ifndef"}
Arms == {"if", "ifdef", "ifndef", "elif", "else", "endif"}

\* Nesting after the first i directives.
Depth(ds, i) == Cardinality({j \in 1..i : Opens(ds[j])})
                - Cardinality({j \in 1..i : ds[j].t = "endif"})

\* #pragma once among the first three directives, or an #ifndef around the whole
\* file whose name is among the next five directives' defines.
IncludeGuard(lines) ==
  LET ds   == Directives(lines)
      Wraps == /\ Len(ds) >= 3
               /\ ds[1].t = "ifndef"
               /\ ds[Len(ds)].t = "endif"
               /\ Depth(ds, Len(ds)) = 0
               /\ \A i \in 1..Len(ds) - 1 : ds[i].t = "endif" => Depth(ds, i) # 0
               /\ \E j \in 2..Len(ds) : j <= 6 /\ ds[j].t = "define" /\ ds[j].n = ds[1].n
  IN  CASE \E j \in DOMAIN ds : j <= 3 /\ ds[j].t = "once" -> "pragma_once"
        [] OTHER -> IF Wraps THEN ds[1].n ELSE NoGuard

\* Names that conditionals and computed includes mention.  The words of a plain
\* include's header are among them too; no macro here has such a name.
ConditionalMacros(lines) ==
  UNION {IF l.t \in {"ifdef", "ifndef"} THEN {l.n}
         ELSE IF l.t \in {"if", "elif"} \/ (l.t = "include" /\ "c" \in DOMAIN l) THEN Identifiers(l.c) ELSE {} : l \in Range(lines)}
------------------------------------------------------------------------------
(* The walk.  A level of the condition stack: is this arm active, was      *)
(* there an #else, was any arm taken.                                      *)

Level(active, else, any) == [active |-> active, else |-> else, any |-> any]

Start(guard, mac, par) ==
  [stack |-> <<Level(TRUE, FALSE, FALSE)>>, mac |-> mac, par |-> par, guard |-> guard,
   on |-> {}, occ |-> <<>>, line |-> 0]

Live(p) == Last(p.stack).active
Push(p, level) == [p EXCEPT !.stack = Append(@, level)]
Replace(p, level) == [p EXCEPT !.stack = Append(Front(@), level)]
ParentLive(p) == p.stack[Len(p.stack) - 1].active

\* What became of a condition: a verdict, or that it was not reached.
Occurs(p, kind) == [p EXCEPT !.occ = Append(@, <<kind, p.line>>)]

\* A condition that is looked at: v is what it comes to, or "unreached".
HandleIf(p, v) == Push(Occurs(p, v), Level(v = "true", FALSE, v = "true"))

HandleIfdef(p, l) ==
  LET is_active == Live(p) /\ ((l.n \in DOMAIN p.mac) <=> (l.t = "ifdef"))
  IN  Push(p, Level(is_active, FALSE, is_active))

\* Mutant: an #elif after a taken arm is evaluated too.
ReachedAfterTaken(p, l) ==
  IF l.t = "if" THEN Live(p) ELSE Len(p.stack) > 1 /\ ~ Last(p.stack).else /\ ParentLive(p)

\* The condition of an #if or of an #elif is evaluated.
Reached(p, l) ==
  IF l.t = "if" THEN Live(p)
  ELSE Len(p.stack) > 1 /\ ~ Last(p.stack).else /\ ~ Last(p.stack).any /\ ParentLive(p)

\* A condition that cannot be evaluated leaves the later arms open.
HandleElif(p, v) ==
  LET top == Last(p.stack)
  IN  CASE Len(p.stack) = 1 -> p
        [] Len(p.stack) > 1 /\ v = "unreached" ->
             Replace(Occurs(p, v), Level(FALSE, top.else, top.any))
        [] OTHER -> Replace(Occurs(p, v), Level(v = "true", FALSE, v = "true"))

HandleElse(p) ==
  LET top   == Last(p.stack)
      taken == ~ top.else /\ ~ top.any /\ ParentLive(p)
  IN  IF Len(p.stack) = 1 THEN p ELSE Replace(p, Level(taken, TRUE, top.any \/ taken))

HandleEndif(p) == IF Len(p.stack) = 1 THEN p ELSE [p EXCEPT !.stack = Front(@)]

HandleDefine(p, l) ==
  IF ~ Live(p) \/ l.n = p.guard THEN p
  ELSE [p EXCEPT !.mac = (l.n :> l.b) @@ @,
                 !.par = IF "p" \in DOMAIN l THEN (l.n :> l.p) @@ @ ELSE Without(@, {l.n})]

HandleUndef(p, l) ==
  IF Live(p) THEN [p EXCEPT !.mac = Without(@, {l.n}), !.par = Without(@, {l.n})] ELSE p

\* Lines of arms that are not taken are not among the active ones, and neither
\* are the directives that open and close arms.
Handle(p, l, v) ==
  CASE l.t = "if"     -> HandleIf(p, v)
    [] l.t \in {"ifdef", "ifndef"} -> HandleIfdef(p, l)
    [] l.t = "elif"   -> HandleElif(p, v)
    [] l.t = "else"   -> HandleElse(p)
    [] l.t = "endif"  -> HandleEndif(p)
    [] l.t = "define" -> HandleDefine(p, l)
    [] l.t = "undef"  -> HandleUndef(p, l)
    [] OTHER          -> p

ProcessLine(p, l) ==
  LET Shown(next) == IF Live(next) /\ l.t \notin Arms THEN [next EXCEPT !.on = @ \cup {next.line}] ELSE next
  IN  Shown(Handle([p EXCEPT !.line = @ + 1], l,
                   IF l.t \in {"if", "elif"} /\ Reached(p, l) THEN Verdict(l.c, p.mac, p.par) ELSE "unreached"))

Processed(lines, mac, par) ==
  FoldLeft(ProcessLine, Start(IncludeGuard(lines), mac, par), lines)

\* The header a computed include names once its macros are expanded.
ComputedHeader(p, l) == Expanded(l.c, p.mac, p.par).tree
==============================================================================
