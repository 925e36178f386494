------------------------------ MODULE HeaderDeps ------------------------------
(***************************************************************************)
(* headerdeps.py's DirectHeaderDeps: the headers of a file, found by       *)
(* walking its active includes under the macros the walk gathers.          *)
(*                                                                         *)
(* A tree of files is a record w: files maps <<directory, name>> to lines, *)
(* include is the sequence of include directories, core the macros of the  *)
(* command line.  What one process remembers is a record s: pre (readings, *)
(* PreprocessingCache), inc (include lists), walks (whole walks), ms, the  *)
(* macros of the walk in progress, and the verdicts below.                 *)
(***************************************************************************)
EXTENDS PreprocessingCache

(***************************************************************************)
(* What simple_preprocessor.py and build_context.py remember about         *)
(* conditions while macros are still settling: a target whose walk could   *)
(* not evaluate one leaves it pending, and a later walk of the same target *)
(* that can evaluate it, or no longer reaches it, takes it back.           *)
(*                                                                         *)
(* The state s has root (the target being walked, or NoRoot), pend (pairs  *)
(* <<root, place>> that are pending) and res (the value a root last found  *)
(* at a place).  A place is <<file, line>>.                                *)
(***************************************************************************)

NoRoot == <<"no", "root">>
NoVerdicts == [root |-> NoRoot, pend |-> {}, res |-> << >>]

\* Mutant: what another root resolved is taken back too.
NoteForAll(s, f, event) ==
  LET here == <<s.root, <<f, event[2]>>>>
  IN  CASE event[1] = "unevaluable" ->
             IF here \in DOMAIN s.res THEN s ELSE [s EXCEPT !.pend = @ \cup {here}]
        [] event[1] = "unreached" -> [s EXCEPT !.pend = {k \in @ : k[2] # here[2]}]
        [] OTHER -> [s EXCEPT !.pend = {k \in @ : k[2] # here[2]},
                              !.res = (here :> (event[1] = "true")) @@ @]

\* One condition of one walk, live or replayed from a cache.
Note(s, f, event) ==
  LET here == <<s.root, <<f, event[2]>>>>
  IN  CASE event[1] = "unevaluable" ->
             IF here \in DOMAIN s.res THEN s ELSE [s EXCEPT !.pend = @ \cup {here}]
        [] event[1] = "unreached" -> [s EXCEPT !.pend = @ \ {here}]
        [] OTHER -> [s EXCEPT !.pend = @ \ {here},
                              !.res = (here :> (event[1] = "true")) @@ @]

NoteAll(s, f, occ) == FoldLeft(LAMBDA acc, event : Note(acc, f, event), s, occ)

verdict_root(s, root) == [s EXCEPT !.root = root]
------------------------------------------------------------------------------
\* Pending places of named roots that another named root found of this value.
Clashes(s, value) ==
  {k \in s.pend : /\ k[1] # NoRoot
                  /\ \E r \in DOMAIN s.res : /\ r[1] \notin {k[1], NoRoot}
                                             /\ r[2] = k[2]
                                             /\ s.res[r] = value}

\* check_verdict_conflicts: a place that is true for one target and cannot be
\* evaluated for another stops the build; one that is false for it is reported.
check_verdict_conflicts(s) ==
  LET divergent == Clashes(s, TRUE)
      other     == Clashes(s, FALSE)
  IN  [conflict |-> divergent # {},
       told |-> {k[2] : k \in divergent \cup other},
       s |-> [s EXCEPT !.pend = @ \ (divergent \cup other)]]

\* The end of the session: the places reported, those of no target only if no
\* target resolved them, and everything is forgotten.
flush_pending_warnings(s) ==
  LET settled  == {r[2] : r \in {r \in DOMAIN s.res : r[1] # NoRoot}}
      reported == {k[2] : k \in {k \in s.pend : k[1] # NoRoot \/ k[2] \notin settled}}
  IN  [reported |-> reported, s |-> [s EXCEPT !.pend = {}, !.res = << >>]]
------------------------------------------------------------------------------

Nowhere == <<"no", "file">>

\* The includer's directory first, then the include directories in order.
find_include(w, h, dir) ==
  LET places == <<dir>> \o w.include
      hits   == {i \in DOMAIN places : <<places[i], h>> \in DOMAIN w.files}
  IN  IF hits = {} THEN Nowhere
      ELSE <<places[CHOOSE i \in hits : \A j \in hits : i <= j], h>>

\* The files an unconditional reader of f would go on to.
IncludedBy(w, f, includes) ==
  SelectSeq([i \in DOMAIN includes |-> find_include(w, includes[i], f[1])],
            LAMBDA g : g # Nowhere)
------------------------------------------------------------------------------
\* A file's include list, and what reading it does to the macros.
create_include_list(w, s, f) ==
  LET lines == w.files[f]
      at    == IF is_permanently_invariant(lines) THEN <<"inv", lines>>
               ELSE <<"var", lines, get_relevant_key(s.ms, ConditionalMacros(lines))>>
      Read(got) == [list |-> got.reading.includes,
                    s |-> [NoteAll(s, f, got.reading.effects.occ) EXCEPT
                             !.pre = got.ctx, !.ms = got.reading.after,
                             !.inc = (at :> [list |-> got.reading.includes,
                                             effects |-> got.reading.effects]) @@ @]]
  IN  IF at \in DOMAIN s.inc
      THEN [list |-> s.inc[at].list,
            s |-> [NoteAll(s, f, s.inc[at].effects.occ) EXCEPT
                     !.ms = Apply(s.inc[at].effects, @)]]
      ELSE Read(get_or_compute_preprocessing(s.pre, lines, s.ms))

RECURSIVE Visit(_, _, _)
\* Depth first, each file once, a file after what it includes.
Visit(w, walk, f) ==
  IF f \in walk.seen THEN walk
  ELSE LET Below(made) == FoldLeft(LAMBDA acc, g : Visit(w, acc, g),
                                   [walk EXCEPT !.seen = @ \cup {f}, !.s = made.s],
                                   IncludedBy(w, f, made.list))
       IN  [Below(create_include_list(w, walk.s, f)) EXCEPT !.order = Append(@, f)]

\* Mutant: a walk is remembered for the file alone.
WalkKeyByFile(f, key) == <<f>>

WalkKey(f, key) == <<f, key>>

\* The headers of f under the macros of key.
process(w, s, f, key) ==
  LET fresh == [s EXCEPT !.ms = decode_macro_cache_key(w.core, key)]
      at    == WalkKey(f, get_cache_key(fresh.ms))
      Found(walk) == LET found == SelectSeq(walk.order, LAMBDA g : g # f)
                     IN  [headers |-> found, s |-> [walk.s EXCEPT !.walks = (at :> found) @@ @]]
  IN  IF at \in DOMAIN s.walks THEN [headers |-> s.walks[at], s |-> fresh]
      ELSE Found(Visit(w, [seen |-> {}, order |-> << >>, s |-> fresh], f))
------------------------------------------------------------------------------
RECURSIVE Blind(_, _, _)
\* process_conditional_blind: every include of every file, active or not; a file
\* is listed when it is first seen.
Blind(w, seen, f) ==
  LET lines    == w.files[f]
      named    == SelectSeq(lines, LAMBDA l : l.t = "include" /\ "h" \in DOMAIN l)
      includes == IncludedBy(w, f, [i \in DOMAIN named |-> named[i].h])
  IN  FoldLeft(LAMBDA acc, g : IF g \in Range(acc) THEN acc ELSE Blind(w, Append(acc, g), g),
               seen, includes)

process_conditional_blind(w, f) == Tail(Blind(w, <<f>>, f))
==============================================================================
