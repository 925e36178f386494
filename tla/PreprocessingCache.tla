-------------------------- MODULE PreprocessingCache ---------------------------
(***************************************************************************)
(* preprocessing_cache.py: the macros a file is read under (MacroState),   *)
(* what reading it does to them (FileEffects), and the two caches that     *)
(* hand a file's earlier reading to a later reader.                        *)
(*                                                                         *)
(* A macro state has the command line's and the compiler's macros (core),  *)
(* those of the files read so far (variable), and the parameters of the    *)
(* function-like ones among these (params).  The caches are a record ctx:  *)
(* inv and var map keys to readings.  A file's content stands for its      *)
(* content hash.                                                           *)
(***************************************************************************)
EXTENDS Preprocessor

MacroState(core, variable, params) == [core |-> core, variable |-> variable, params |-> params]

all_macros(ms) == ms.variable @@ ms.core

with_updates(ms, new, newparams) ==
  [ms EXCEPT !.variable = new @@ @,
             !.params = Restrict(newparams, DOMAIN newparams \cap DOMAIN new)
                        @@ Without(@, DOMAIN new)]

\* Only a name of the variable macros takes its parameters with it.
without_keys(ms, keys) ==
  LET gone == keys \cap DOMAIN ms.variable
  IN  [ms EXCEPT !.variable = Without(@, gone), !.params = Without(@, gone)]

Items(f, names) == {<<x, f[x]>> : x \in DOMAIN f \cap names}

\* The pairs of a state that say which macros it holds, and its parameter lists.
get_relevant_key(ms, names) ==
  [values |-> Items(ms.variable, names), params |-> Items(ms.params, names)]

get_cache_key(ms) ==
  IF ms.variable = << >> THEN [values |-> {}, params |-> {}]
  ELSE get_relevant_key(ms, DOMAIN ms.variable \cup DOMAIN ms.params)

FromItems(S) == [x \in {p[1] : p \in S} |-> (CHOOSE p \in S : p[1] = x)[2]]

decode_macro_cache_key(core, key) ==
  MacroState(core, FromItems(key.values), FromItems(key.params))

is_permanently_invariant(lines) == ConditionalMacros(lines) = {}
is_macro_invariant(lines, ms) == ConditionalMacros(lines) \cap DOMAIN ms.variable = {}
------------------------------------------------------------------------------
\* What reading a file does: first its #undefs, then its #defines.
Apply(effects, ms) ==
  with_updates(without_keys(ms, effects.undefs), effects.defines, effects.params)

\* Mutant: a definition that changes nothing for this reader is left out.
DeltaDefines(before, after, defined, undefs) ==
  Restrict(after, {x \in DOMAIN after : x \notin DOMAIN before \/ before[x] # after[x]})

\* Every name an active line defines, whatever it was before, and every other
\* name whose value changed.
file_defines(before, after, defined, undefs) ==
  Restrict(after, {x \in DOMAIN after : \/ x \in defined \cup undefs
                                        \/ x \notin DOMAIN before
                                        \/ before[x] # after[x]})

\* The lines of kind t that a walk found active, in order.
ActiveLines(lines, on, t) ==
  LET at == SelectSeq([i \in DOMAIN lines |-> i], LAMBDA i : i \in on /\ lines[i].t = t)
  IN  [i \in DOMAIN at |-> lines[at[i]]]

\* Plain includes come first, then what the computed ones name under the macros
\* the file ends with.
ActiveIncludes(lines, p) ==
  LET found == ActiveLines(lines, p.on, "include")
      plain == SelectSeq(found, LAMBDA l : "h" \in DOMAIN l)
      computed == SelectSeq(found, LAMBDA l : "c" \in DOMAIN l)
      Named(trees) == SelectSeq(trees, LAMBDA e : e[1] = "file")
      Names(trees) == [i \in DOMAIN trees |-> trees[i][2]]
  IN  [i \in DOMAIN plain |-> plain[i].h]
      \o Names(Named([i \in DOMAIN computed |-> ComputedHeader(p, computed[i])]))

\* What a walk p of the file that began under ms found and did.
compute_preprocessing(lines, ms, p) ==
  LET after   == Without(p.mac, DOMAIN ms.core)
      defined == {l.n : l \in Range(ActiveLines(lines, p.on, "define"))} \ {p.guard}
      undefs  == {l.n : l \in Range(ActiveLines(lines, p.on, "undef"))}
      defines == file_defines(ms.variable, after, defined, undefs)
      params  == Restrict(p.par, DOMAIN p.par \cap DOMAIN after)
  IN  [on       |-> p.on,
       includes |-> ActiveIncludes(lines, p),
       after    |-> MacroState(ms.core, after, params),
       effects  |-> [defines |-> defines, undefs |-> undefs, occ |-> p.occ,
                     params  |-> Restrict(params, DOMAIN params \cap DOMAIN defines)]]

Reading(lines, ms) ==
  compute_preprocessing(lines, ms, Processed(lines, all_macros(ms), ms.params))

\* Which cache serves a file under these macros, and under which key.
Where(lines, ms) ==
  IF is_macro_invariant(lines, ms) THEN <<"inv", lines>>
  ELSE <<"var", lines, get_relevant_key(ms, ConditionalMacros(lines))>>

\* The reading a reader is given, and the caches after it.
get_or_compute_preprocessing(ctx, lines, ms) ==
  LET at == Where(lines, ms)
      Fresh(made) == [ctx |-> (at :> made) @@ ctx, hit |-> FALSE, reading |-> made]
  IN  IF at \in DOMAIN ctx
      THEN [ctx |-> ctx, hit |-> TRUE,
            reading |-> [ctx[at] EXCEPT !.after = Apply(ctx[at].effects, ms)]]
      ELSE Fresh(Reading(lines, ms))

\* Before a second pass the variant entries go.
clear_variant_cache(ctx) == Restrict(ctx, {at \in DOMAIN ctx : at[1] = "inv"})
===============================================================================
