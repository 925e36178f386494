------------------------------ MODULE MagicFlags ------------------------------
(***************************************************************************)
(* magicflags.py's DirectMagicFlags: the flags a translation unit's active *)
(* //#KEY=value lines ask for, found by reading the unit and its headers   *)
(* again and again until the macros they define settle.                    *)
(*                                                                         *)
(* A magic line has a key k and a value v: <<"-D", name, body>> for a flag *)
(* that defines a macro, the file meant for SOURCE and READMACROS, a flag  *)
(* otherwise.  A process remembers, besides what HeaderDeps keeps: files   *)
(* (what a file did under a key), data (a unit's flags under a key) and    *)
(* fin (each unit's settled macros).  No two files have the same content:  *)
(* global_hash_registry refuses a tree that has.                           *)
(***************************************************************************)
EXTENDS HeaderDeps

Fresh == [pre |-> << >>, inc |-> << >>, walks |-> << >>, files |-> << >>, data |-> << >>,
          fin |-> << >>, parsed |-> << >>, deps |-> << >>, required |-> << >>,
          ms |-> MacroState(<< >>, << >>, << >>)] @@ NoVerdicts

Budget == 5   \* passes that may change the macros
Initial(w) == MacroState(w.core, << >>, << >>)
ForgetVariants(s) == [s EXCEPT !.inc = clear_variant_cache(@), !.pre = clear_variant_cache(@)]

\* The later of two definitions wins; a dictionary built from a sequence of pairs.
Dict(pairs) == FoldLeft(LAMBDA d, p : (p[1] :> p[2]) @@ d, << >>, pairs)
Bodies(ls) == Dict([i \in DOMAIN ls |-> <<ls[i].n, ls[i].b>>])
Params(ls) == LET fs == SelectSeq(ls, LAMBDA l : "p" \in DOMAIN l)
              IN  Dict([i \in DOMAIN fs |-> <<fs[i].n, fs[i].p>>])

\* file_analyzer leaves the include guard out of a file's defines.
Defines(lines, on) == SelectSeq(ActiveLines(lines, on, "define"),
                                LAMBDA l : l.n # IncludeGuard(lines))
------------------------------------------------------------------------------
\* -D macros of the active CPPFLAGS lines, then of the CXXFLAGS lines.
MagicMacros(flags) ==
  LET of(k) == SelectSeq(flags, LAMBDA l : l.k = k /\ l.v[1] = "-D")
      all   == of("CPPFLAGS") \o of("CXXFLAGS")
  IN  Dict([i \in DOMAIN all |-> <<all[i].v[2], all[i].v[3]>>])

\* The defines that are left when a file's #undefs are taken out.
Effects(kept, undefs) ==
  [defines |-> Bodies(kept), params |-> Params(kept), undefs |-> undefs \ DOMAIN Bodies(kept)]

Did(lines, r) ==
  LET gone  == r.effects.undefs \ DOMAIN r.after.variable
      flags == ActiveLines(lines, r.on, "magic")
  IN  [flags |-> flags, macros |-> MagicMacros(flags),
       effects |-> Effects(SelectSeq(Defines(lines, r.on), LAMBDA l : l.n \notin gone), r.effects.undefs)]

Result(lines, got) ==
  [pre |-> got.ctx, occ |-> got.reading.effects.occ, did |-> Did(lines, got.reading)]

\* A file's active flags and what its directives do, read under the macros ms.
compute_file_processing_result(pre, lines, ms) ==
  Result(lines, get_or_compute_preprocessing(pre, lines, ms))

\* One file of a pass.  c is a convergence in progress: the macros ms it has
\* reached, the active flags stored for each file, the macros each file was last
\* read under, and whether this pass has moved the macros.  What a file did
\* is remembered under the macros its pass began with, and it is read under those
\* the pass has reached.
process_file_for_macros(w, c, f, passkey) ==
  LET at == <<f, passkey>>
      Done(s, did) ==
        LET with  == with_updates(c.ms, did.macros, << >>)
            bare  == without_keys(with, did.effects.undefs)
            after == with_updates(bare, did.effects.defines, did.effects.params)
        IN  [c EXCEPT !.s = s, !.ms = after, !.stored = (f :> did.flags) @@ @, !.last = (f :> passkey) @@ @,
                      !.moved = @ \/ with # c.ms \/ bare # with \/ after # bare]
      New(new) == Done([NoteAll(c.s, f, new.occ) EXCEPT !.files = (at :> new.did) @@ @, !.pre = new.pre],
                       new.did)
  IN  IF at \in DOMAIN c.s.files THEN Done(c.s, c.s.files[at])
      ELSE New(compute_file_processing_result(c.s.pre, w.files[f], c.ms))

RECURSIVE converge_macro_state(_, _, _, _)
\* Passes over the files whose last reading was under other macros, until no file
\* is left, a pass changes nothing, or the budget is spent.
converge_macro_state(w, c, files, changing) ==
  LET key  == get_cache_key(c.ms)
      todo == SelectSeq(files, LAMBDA f : ~ (f \in DOMAIN c.last /\ c.last[f] = key))
      After(pass) == CASE ~ pass.moved -> [pass EXCEPT !.settled = TRUE]
                       [] pass.moved /\ changing = Budget -> [pass EXCEPT !.settled = FALSE]
                       [] OTHER -> converge_macro_state(w, pass, files, changing + 1)
  IN  IF todo = << >> THEN [c EXCEPT !.settled = TRUE]
      ELSE After(FoldLeft(LAMBDA acc, f : process_file_for_macros(w, acc, f, key),
                          [c EXCEPT !.moved = FALSE], todo))
------------------------------------------------------------------------------
\* Files a READMACROS line of any file names, active or not.  Trees have at most
\* one: of several the program takes them in the order of a set.
collect_explicit_macro_files(w, files) ==
  {l.v : l \in UNION {{l \in Range(w.files[f]) : l.t = "magic" /\ l.k = "READMACROS"} :
                      f \in Range(files)}}

\* Every #define of such a file counts, whatever encloses it.
extract_macros_from_file(w, ms, f) ==
  LET ds == Defines(w.files[f], DOMAIN w.files[f])
  IN  with_updates(ms, Bodies(ds), Params(ds))

ReadExplicit(w, ms, explicit) ==
  FoldLeft(LAMBDA acc, f : extract_macros_from_file(w, acc, f), ms, SetToSeq(explicit))

build_all_files_list(f, headers, explicit) ==
  LET first == SetToSeq(explicit)
  IN  first \o SelectSeq(<<f>> \o headers, LAMBDA g : g \notin explicit)

\* Mutant: the unit itself does not count.
DataKeyByDeps(w, f, headers, explicit) == {w.files[g] : g \in Range(headers) \cup explicit}

\* The unit's content, the macros it started from and its dependencies' contents.
DataKey(w, f, headers, explicit) ==
  <<w.files[f], {w.files[g] : g \in Range(headers) \cup explicit}>>

\* Convergence from the macros ms over the unit, its headers and what they name.
Settle(w, hd, ms, f, stored) ==
  LET explicit == collect_explicit_macro_files(w, <<f>> \o hd.headers)
      files    == build_all_files_list(f, hd.headers, explicit)
      start    == [s |-> hd.s, ms |-> ReadExplicit(w, ms, explicit), last |-> << >>,
                   stored |-> stored, moved |-> FALSE, settled |-> FALSE]
      Into(c)  == [explicit |-> explicit, files |-> files, headers |-> hd.headers, c |-> c]
  IN  Into(converge_macro_state(w, start, files, 0))

\* Mutant: the headers found before the macros settled are kept.
SecondPassSkipped(w, one, f) == one

\* The headers are looked for again under the macros the first pass ended with.
SecondPass(w, one, f) ==
  LET key == get_cache_key(one.c.ms)
  IN  IF key = get_cache_key(Initial(w)) THEN one
      ELSE Settle(w, process(w, ForgetVariants(one.c.s), f, key), one.c.ms, f, one.c.stored)

\* The flags that both passes end with, and what is remembered of them.
Remembered(w, f, end) ==
  LET final == DataKey(w, f, end.headers, end.explicit)
      flags == [i \in DOMAIN end.files |-> <<end.files[i], end.c.stored[end.files[i]]>>]
  IN  [flags |-> flags, settled |-> end.c.settled,
       s |-> [end.c.s EXCEPT !.data = (final :> flags) @@ @, !.fin = (f :> end.c.ms) @@ @]]

FlagsUnder(w, hd, f) ==
  LET seen == DataKey(w, f, hd.headers, collect_explicit_macro_files(w, <<f>> \o hd.headers))
  IN  IF seen \in DOMAIN hd.s.data
      THEN [s |-> hd.s, flags |-> hd.s.data[seen], settled |-> f \in DOMAIN hd.s.fin]
      ELSE Remembered(w, f, SecondPass(w, Settle(w, hd, Initial(w), f, << >>), f))

\* A unit's active flags, file by file; settled is FALSE when the macros never
\* stopped changing, or the flags are remembered without the unit's macros: both
\* end the program.
get_structured_data(w, s, f) == FlagsUnder(w, process(w, s, f, get_cache_key(Initial(w))), f)
===============================================================================
