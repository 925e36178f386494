-------------------------------- MODULE Hunter --------------------------------
(***************************************************************************)
(* hunter.py: which files a target needs.  From a source it goes to its    *)
(* headers, to the sources its SOURCE flags name, to the source beside     *)
(* each of its headers, to the units of the modules it imports, and on.    *)
(*                                                                         *)
(* The tree w also has: sorted (its files in the order of their paths),    *)
(* sources (those a compiler is run on), implied (the source beside a      *)
(* file), magic_in_headers (SOURCE flags of headers count by themselves),  *)
(* separate (CPPFLAGS and CXXFLAGS stay apart), pkg (what pkg-config says  *)
(* of a package) and std (the compiler's own modules).  Module names are   *)
(* <<module>> and <<module, partition>>; an import may leave the module    *)
(* out: <<"", partition>>.                                                 *)
(***************************************************************************)
EXTENDS MagicFlags

Unique(seq) == FoldLeft(LAMBDA acc, x : IF x \in Range(acc) THEN acc ELSE Append(acc, x),
                        << >>, seq)
Concat(seqs) == FoldLeft(LAMBDA acc, x : acc \o x, << >>, seqs)
------------------------------------------------------------------------------
(* A unit's flags, from its active magic lines.                            *)

\* What one line adds to which lists.
_process_magic_flag(w, l) ==
  LET ForAll(vs) == Concat([i \in DOMAIN vs |-> <<<<"CPPFLAGS", vs[i]>>, <<"CFLAGS", vs[i]>>,
                                                 <<"CXXFLAGS", vs[i]>>>>])
      ToLink(vs) == [i \in DOMAIN vs |-> <<"LDFLAGS", vs[i]>>]
      own        == <<<<l.k, l.v>>>>
  IN  CASE l.k = "READMACROS" -> << >>
        [] l.k = "INCLUDE"    -> ForAll(<<l.v>>) \o own
        [] l.k = "PKG-CONFIG" -> ForAll(w.pkg[l.v].cflags) \o ToLink(w.pkg[l.v].libs) \o own
        [] OTHER -> own

\* The list of key k: CPPFLAGS and CXXFLAGS count as one unless they are to stay
\* apart, and LINKFLAGS are LDFLAGS.
FlagsFor(w, flags, k) ==
  LET lines   == Concat([i \in DOMAIN flags |-> flags[i][2]])
      adds    == Concat([i \in DOMAIN lines |-> _process_magic_flag(w, lines[i])])
      only(j) == LET ps == SelectSeq(adds, LAMBDA p : p[1] = j) IN [i \in DOMAIN ps |-> ps[i][2]]
  IN  Unique(CASE k = "LDFLAGS" -> only("LDFLAGS") \o only("LINKFLAGS")
               [] k \in {"CPPFLAGS", "CXXFLAGS"} /\ ~ w.separate ->
                    only("CPPFLAGS") \o only("CXXFLAGS")
               [] OTHER -> only(k))

\* The first library of each package of one line comes before the next one's.
HardOrderings(w, l) ==
  LET libs == SelectSeq(w.pkg[l.v].libs, LAMBDA t : t[1] = "-l")
  IN  IF l.k = "PKG-CONFIG" THEN {<<libs[i], libs[i + 1]>> : i \in 1..Len(libs) - 1} ELSE {}

\* magicflags.parse, remembered for the file.  It throws when the macros of the
\* file never settled: then nothing is remembered.
_parse(w, s, f) ==
  LET Parsed(got) == [flags |-> got.flags, settled |-> got.settled,
                      s |-> LET back == verdict_root(got.s, s.root)
                            IN  IF got.settled THEN [back EXCEPT !.parsed = (f :> got.flags) @@ @] ELSE back]
  IN  IF f \in DOMAIN s.parsed THEN [s |-> s, flags |-> s.parsed[f], settled |-> TRUE]
      ELSE Parsed(get_structured_data(w, process(w, verdict_root(s, f), f, get_cache_key(Initial(w))).s, f))

macro_state_key(s, f) == get_cache_key(s.fin[f])
------------------------------------------------------------------------------
(* Modules.                                                                *)

Named(lines, t) == LET ls == SelectSeq(lines, LAMBDA l : l.t = t) IN [i \in DOMAIN ls |-> ls[i].n]
Exporters(w, m) == SelectSeq(w.sorted, LAMBDA f : f \in w.sources /\ m \in Range(Named(w.files[f], "export")))
Implementers(w, m) ==
  SelectSeq(w.sorted, LAMBDA f : f \in w.sources /\ m \in Range(Named(w.files[f], "implement")))

\* The first exporter by path; the compiler's own modules last.
Interface(w, m) ==
  IF Exporters(w, m) # << >> THEN <<Exporters(w, m)[1]>>
  ELSE IF m \in DOMAIN w.std THEN <<w.std[m]>> ELSE << >>

_resolve_module_import(w, f, m) ==
  LET owned == SelectSeq(Named(w.files[f], "export") \o Named(w.files[f], "implement"),
                         LAMBDA n : n[1] # "")
  IN  CASE m[1] # "" -> <<m>>
        [] OTHER -> IF owned = << >> THEN << >> ELSE <<<<owned[1][1], m[2]>>>>

Partitions(w, m) ==
  Unique(Concat([i \in DOMAIN w.sorted |->
                   SelectSeq(Named(w.files[w.sorted[i]], "export"),
                             LAMBDA n : Len(n) = 2 /\ n[1] = m[1])]))

\* An imported module brings its interface and its implementations, and a whole
\* module those of its partitions.
_module_interface_sources_for(w, f) ==
  LET imports == Named(w.files[f], "import")
      names   == Concat([i \in DOMAIN imports |-> _resolve_module_import(w, f, imports[i])])
      of(m)   == Interface(w, m) \o Implementers(w, m)
      all(m)  == of(m) \o (IF Len(m) = 2 THEN << >>
                           ELSE LET ps == Partitions(w, m)
                                IN  Concat([i \in DOMAIN ps |-> of(ps[i])]))
  IN  SelectSeq(Unique(Concat([i \in DOMAIN names |-> all(names[i])])), LAMBDA g : g # f)

\* Two files export what f imports: the hunt throws.
DuplicateExport(w, f) ==
  LET imports == Named(w.files[f], "import")
  IN  \E i \in DOMAIN imports :
        \E j \in DOMAIN _resolve_module_import(w, f, imports[i]) :
          Len(Exporters(w, _resolve_module_import(w, f, imports[i])[j])) > 1
------------------------------------------------------------------------------
(* The closure.  A hunt in progress h has the process memory s, the files  *)
(* processed so far in order, and failed, once something has thrown.       *)

_extractSOURCE(flags) ==
  UNION {{l.v : l \in {l \in Range(fl[2]) : l.k = "SOURCE"}} : fl \in Range(flags)}

\* Mutant: every file is walked under the key of whoever led to it.
KeyInherited(w, s, f, inherited) == [s |-> s, settled |-> TRUE, key |-> inherited]

\* The key files below a source are walked under is its own; a header's is that
\* of whoever led to it.
_walk_macro_state_key(w, s, f, inherited) ==
  LET Own(got) == [s |-> got.s, settled |-> got.settled,
                   key |-> IF got.settled THEN macro_state_key(got.s, f) ELSE inherited]
  IN  IF f \in w.sources THEN Own(_parse(w, s, f)) ELSE [s |-> s, key |-> inherited, settled |-> TRUE]

\* The source beside f, and its headers under its own key.
WithHeaders(w, own, g) ==
  LET And(below) == [s |-> below.s, headers |-> <<g>> \o below.headers, settled |-> own.settled]
  IN  And(process(w, own.s, g, own.key))

Implied(w, s, f, key) ==
  IF f \in DOMAIN w.implied
  THEN WithHeaders(w, _walk_macro_state_key(w, s, w.implied[f], key), w.implied[f])
  ELSE [s |-> s, headers |-> << >>, settled |-> TRUE]

\* What f leads to, gathered in turn: its headers, the sources its flags name, the
\* source beside it, the interfaces of what it imports.
AndFlags(w, hd, f) ==
  LET And(magic) == [s |-> magic.s, deps |-> hd.headers, named |-> SetToSeq(_extractSOURCE(magic.flags)),
                     settled |-> magic.settled]
  IN  And(IF w.magic_in_headers \/ f \in w.sources THEN _parse(w, hd.s, f)
          ELSE [s |-> hd.s, flags |-> << >>, settled |-> TRUE])

AndImplied(w, so_far, f, key) ==
  LET And(beside) == [s |-> beside.s, settled |-> so_far.settled /\ beside.settled,
                      deps |-> so_far.deps \o beside.headers \o so_far.named]
  IN  And(Implied(w, so_far.s, f, key))

AndImports(w, so_far, f, key) ==
  LET deps == so_far.deps \o _module_interface_sources_for(w, f)
  IN  [s |-> [so_far.s EXCEPT !.deps = (<<f, key>> :> deps) @@ @], deps |-> deps,
       failed |-> ~ so_far.settled \/ DuplicateExport(w, f)]

_get_immediate_deps(w, s, f, key) ==
  IF <<f, key>> \in DOMAIN s.deps THEN [s |-> s, deps |-> s.deps[<<f, key>>], failed |-> FALSE]
  ELSE AndImports(w, AndImplied(w, AndFlags(w, process(w, s, f, key), f), f, key), f, key)

RECURSIVE _expand_deps_recursive(_, _, _, _)
\* Each file once, before what it leads to.
_expand_deps_recursive(w, h, f, key) ==
  LET Below(acc, g, walk) ==
        _expand_deps_recursive(w, [acc EXCEPT !.s = walk.s, !.failed = ~ walk.settled], g, walk.key)
      Each(got) ==
        FoldLeft(LAMBDA acc, g : IF g \in Range(acc.processed) \/ acc.failed THEN acc
                                 ELSE Below(acc, g, _walk_macro_state_key(w, acc.s, g, key)),
                 [h EXCEPT !.s = got.s, !.processed = Append(@, f), !.failed = got.failed], got.deps)
  IN  IF f \in Range(h.processed) \/ h.failed THEN h ELSE Each(_get_immediate_deps(w, h.s, f, key))

\* required_files of a target, which ends the program when something throws.
RequiredUnder(w, s, f, key) ==
  LET Ran(run) == [s |-> [run.s EXCEPT !.required = (<<f, key>> :> run.processed) @@ @],
                   files |-> run.processed, failed |-> run.failed]
  IN  IF <<f, key>> \in DOMAIN s.required
      THEN [s |-> s, files |-> s.required[<<f, key>>], failed |-> FALSE]
      ELSE Ran(_expand_deps_recursive(w, [s |-> s, processed |-> << >>, failed |-> FALSE], f, key))

RequiredFrom(w, got, f) ==
  IF got.settled THEN RequiredUnder(w, got.s, f, macro_state_key(got.s, f))
  ELSE [s |-> got.s, files |-> << >>, failed |-> TRUE]

required_files(w, s, f) == RequiredFrom(w, _parse(w, s, f), f)

required_source_files(w, files) == Unique(SelectSeq(files, LAMBDA f : f \in w.sources))
==============================================================================
