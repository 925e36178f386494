-------------------------------- MODULE Naming --------------------------------
(***************************************************************************)
(* The name of an object file: namer.py's object_name, the macro hash      *)
(* hunter.py and preprocessing_cache.py put in it, and                     *)
(* cmdline_macro_index.py, which leaves out of the hash the -D macros that *)
(* the unit and its headers never mention.                                 *)
(*                                                                         *)
(* The tree w also has cmdline (the names the command line defines, among  *)
(* core) and context (the compiler, its identity and the other flags).  A  *)
(* hash of one text is taken to tell texts apart; how hashes are combined  *)
(* is kept.                                                                *)
(***************************************************************************)
EXTENDS Hunter

\* Names that occur in a line, wherever they occur.
Mentioned(l) ==
  (IF l.t \in {"define", "undef", "ifdef", "ifndef"} THEN {l.n} ELSE {})
  \cup (IF "c" \in DOMAIN l THEN Identifiers(l.c) ELSE {})
  \cup (IF "b" \in DOMAIN l THEN Identifiers(l.b) ELSE {})
  \cup (IF "p" \in DOMAIN l THEN Range(l.p) ELSE {})
  \cup (IF l.t = "magic" /\ l.v[1] = "-D" THEN {l.v[2]} \cup Identifiers(l.v[3]) ELSE {})

is_referenced(w, f, name) == \E l \in Range(w.files[f]) : name \in Mentioned(l)

\* Mutant: the headers are not searched.
ReferencedByUnit(w, f, headers) == {n \in w.cmdline : is_referenced(w, f, n)}

tu_referenced_macros(w, f, headers) ==
  {n \in w.cmdline : \E g \in {f} \cup Range(headers) : is_referenced(w, g, n)}
------------------------------------------------------------------------------
(* Hashes are combined by exclusive or: what is there twice is not there.  *)

ParamText(ps) == IF Len(ps) = 1 THEN <<"id", ps[1]>> ELSE <<"list">> \o ps

\* A name and a value are hashed as the texts they are.
Hashed(pair) == <<<<"id", pair[1]>>, pair[2]>>

Xor(pairs) ==
  LET texts == UNION {{p[1], p[2]} : p \in pairs}
      Times(t) == Cardinality({p \in pairs : p[1] = t}) + Cardinality({p \in pairs : p[2] = t})
  IN  {t \in texts : Times(t) % 2 = 1}

\* The macros that count, and their parameters.
items_to_hash(w, ms, scope) ==
  LET core   == {x \in DOMAIN ms.core : x \notin w.cmdline \/ x \in scope}
      items  == Items(ms.core, core) \cup Items(ms.variable, DOMAIN ms.variable)
      params == {<<<<"parameters of", x>>, ParamText(ms.params[x])>> : x \in DOMAIN ms.params}
  IN  {Hashed(p) : p \in items} \cup params

compute_full_hash(w, ms, scope) ==
  [macros |-> Xor(items_to_hash(w, ms, scope)), context |-> w.context]

\* The headers of a unit under the macros it settled with.
header_dependencies(w, s, f) == process(w, s, f, macro_state_key(s, f))

macro_state_hash(w, s, f, headers) ==
  compute_full_hash(w, s.fin[f], tu_referenced_macros(w, f, headers))

compute_dep_hash(w, headers) == {w.files[g] : g \in Range(headers)}

\* The name of a hunted unit's object.
object_name(w, s, f) ==
  LET Name(headers) == [stem |-> f[2], content |-> w.files[f], deps |-> compute_dep_hash(w, headers),
                        macros |-> macro_state_hash(w, s, f, headers)]
  IN  Name(header_dependencies(w, s, f).headers)
------------------------------------------------------------------------------
(* What a compiler makes of the unit: the text its active code lines come  *)
(* to, each include in its place.  It knows guards for the macros they are.*)

RECURSIVE CompileLines(_, _, _, _)
\* t has p, a walk over the lines of f up to line i, once, the files not to be read
\* again, text, what has come out, and seen, the files read.
CompileLines(w, t, f, i) ==
  LET l == w.files[f][i]
      Target(tree) == IF tree[1] = "file" THEN find_include(w, tree[2], f[1]) ELSE Nowhere
      Inside(g) == CompileLines(w, [t EXCEPT !.p = Start(NoGuard, t.p.mac, t.p.par), !.seen = @ \cup {g}], g, 1)
      Back(p, inner) == [inner EXCEPT !.p = [p EXCEPT !.mac = inner.p.mac, !.par = inner.p.par]]
      Include(p, g) == IF g = Nowhere \/ g \in t.once THEN [t EXCEPT !.p = p] ELSE Back(p, Inside(g))
      Line(p) == CASE i \in p.on /\ l.t = "once" -> [t EXCEPT !.p = p, !.once = @ \cup {f}]
                   [] i \in p.on /\ l.t = "code" ->
                        [t EXCEPT !.p = p, !.text = Append(@, Expanded(l.c, p.mac, p.par).tree)]
                   [] i \in p.on /\ l.t = "include" ->
                        Include(p, Target(IF "h" \in DOMAIN l THEN <<"file", l.h>> ELSE ComputedHeader(p, l)))
                   [] OTHER -> [t EXCEPT !.p = p]
  IN  IF i > Len(w.files[f]) THEN t ELSE CompileLines(w, Line(ProcessLine(t.p, l)), f, i + 1)

\* The compile command of unit f with the macros given on it.
Compiled(w, f, given) ==
  CompileLines(w, [p |-> Start(NoGuard, given @@ w.core, << >>), once |-> {}, text |-> << >>,
                   seen |-> {f}], f, 1)
==============================================================================
