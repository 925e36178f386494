-------------------------------- MODULE Flags ---------------------------------
(***************************************************************************)
(* A ct tool turns its configuration into flags and names, more than once: *)
(* after the first parse, after each parse over again when targets that it *)
(* discovered bring conf files of their own, and once more when it has     *)
(* discovered targets or fetched externals that widen the include path     *)
(* (build_inputs.py, build_apply.py, apptools.py, cake.py).  In between it *)
(* keeps the environment it changed, the answers of pkg-config, and what   *)
(* it wrote to its namespace.                                              *)
(*                                                                         *)
(* A world also has packages, the directories with .pc files and what each *)
(* says of a package, path, the user's PKG_CONFIG_PATH, externals, the     *)
(* checkouts that a fetch resolves, and dirs, the directories there.       *)
(***************************************************************************)
EXTENDS Settings

(***************************************************************************)
(* What a build compiles and links with, and where its caches lie, as a    *)
(* function of what was gathered (build_state.py).                         *)
(*                                                                         *)
(* A word of a command line is a sequence: a flag <<"-O2">>, a flag with   *)
(* its argument <<"-I", "p", "a">>, or an argument by itself, a path       *)
(* <<"p", "a">>.  A cache is a path and the names put under it.            *)
(***************************************************************************)

WithArgs == {"-I", "-isystem", "-D", "-L", "-l"}  \* FLAG_WITH_ARGS, those that occur here

\* A line's flags, each with its argument: what makes it the same as another, and its words.
Units(words) ==
  LET Closed(acc, key, ws) == [units |-> Append(acc.units, [key |-> key, words |-> ws]), open |-> << >>]
      Read(acc, x) == CASE acc.open # << >> -> Closed(acc, acc.open \o x, <<acc.open, x>>)
                        [] acc.open = << >> /\ Len(x) = 1 /\ x[1] \in WithArgs -> [acc EXCEPT !.open = x]
                        [] OTHER -> Closed(acc, x, <<x>>)
      Ended(all) == IF all.open = << >> THEN all.units ELSE Closed(all, all.open, <<all.open>>).units
  IN  Ended(FoldLeft(Read, [units |-> << >>, open |-> << >>], words))

\* deduplicate_compiler_flags: the first of each is kept.
dedup_tokens(words) ==
  LET Once(acc, u) == IF \E i \in DOMAIN acc : acc[i].key = u.key THEN acc ELSE Append(acc, u)
      Flat(units)  == FlattenSeq([i \in DOMAIN units |-> units[i].words])
  IN  Flat(FoldLeft(Once, << >>, Units(words)))

\* The detached pairs of the paths that no -I names yet.
dedup_include_paths_to_append(words, paths) ==
  LET Pairs(seen, new) == FlattenSeq([i \in DOMAIN new |-> IF new[i] \in seen THEN << >> ELSE <<<<"-I">>, new[i]>>])
  IN  Pairs({Tail(u.key) : u \in {u \in ToSet(Units(words)) : u.key[1] = "-I"}}, Distinct(paths))

has_prefix_map_token(words) == \E i \in DOMAIN words : words[i][1] = "-ffile-prefix-map="
------------------------------------------------------------------------------
Slots == {"cpp", "c", "cxx", "ld"}

\* Slots nobody gave: the preprocessor's and the linker's are the C++ compiler's.
stage_defaults(i) ==
  [s \in Slots |-> CASE s \in DOMAIN i.raw -> i.raw[s]
                     [] s \notin DOMAIN i.raw /\ s \in {"cpp", "ld"} /\ "cxx" \in DOMAIN i.raw -> i.raw["cxx"]
                     [] OTHER -> << >>]

\* Word by word, and none that is there already.
stage_xxpend(i, ts) ==
  [s \in Slots |-> LET New(ws) == SelectSeq(ws, LAMBDA x : ~ Contains(ts[s], x))
                   IN  New(i.prepend[s]) \o ts[s] \o New(i.append[s])]

stage_include_paths(i, ts) ==
  [s \in Slots |-> IF s = "ld" THEN ts[s] ELSE ts[s] \o dedup_include_paths_to_append(ts[s], i.include_paths)]

stage_project_macros(i, ts) ==
  [s \in Slots |-> IF s = "ld" THEN ts[s] ELSE ts[s] \o SelectSeq(i.macros, LAMBDA x : ~ Contains(ts[s], x))]

stage_pkg_config_flags(i, ts) ==
  [s \in Slots |-> ts[s] \o FlattenSeq([k \in DOMAIN i.results |->
                                          IF s = "ld" THEN i.results[k].libs ELSE i.results[k].cflags])]

stage_unify(i, ts) ==
  LET Both(unified) == [ts EXCEPT !["cpp"] = unified, !["cxx"] = unified]
  IN  IF i.separate_flags THEN ts ELSE Both(dedup_tokens(ts["cpp"] \o ts["cxx"]))

stage_prefix_map(i, ts) ==
  [s \in Slots |-> IF s \in {"c", "cxx"} /\ ~ has_prefix_map_token(ts[s])
                   THEN Append(ts[s], <<"-ffile-prefix-map=">> \o i.gitroot) ELSE ts[s]]

\* clang selects the wild linker with a flag of its own; else a directory with a link to it may be searched first.
stage_wild_linker(i, ts) ==
  LET named(x) == IF i.link_driver_is_clang /\ x = <<"-fuse-ld=wild">> THEN <<"--ld-path=wild">> ELSE x
      search   == IF i.wild_b_selected THEN <<<<"-B">> \o i.gitroot>> ELSE << >>
  IN  [ts EXCEPT !["ld"] = [k \in DOMAIN @ |-> named(@[k])] \o search]

stage_dedup(ts) == [s \in Slots |-> dedup_tokens(ts[s])]

_with_variant_suffix(raw, variant) ==
  IF raw.under # << >> /\ Last(raw.under) = variant THEN raw ELSE [raw EXCEPT !.under = Append(@, variant)]

NotGiven == << >>
cas_dir_name(raw, kind, variant, gitroot) ==
  _with_variant_suffix(IF raw = NotGiven THEN [path |-> Append(gitroot, kind), under |-> << >>] ELSE raw, variant)

canonical_variant_name(i) == canonicalize_variant_tokens(i.variant_raw, i.canonical_order)

stage_resolve_names(i) ==
  LET Named(variant) ==
        [variant    |-> variant,
         bindir     |-> IF i.bindir_raw = NotGiven THEN [path |-> <<"bin">>, under |-> <<variant>>] ELSE i.bindir_raw,
         cas_objdir |-> cas_dir_name(i.cas_objdir_raw, "cas-objdir", variant, i.gitroot)]
  IN  Named(canonical_variant_name(i))

\* What was asked for goes in first, then what the project and its packages need.
Requested(i) ==
  stage_pkg_config_flags(i, stage_project_macros(i, stage_include_paths(i, stage_xxpend(i, stage_defaults(i)))))

compute_build_state(i) ==
  [names           |-> stage_resolve_names(i),
   flags           |-> stage_dedup(stage_wild_linker(i, stage_unify(i, stage_prefix_map(i, stage_unify(i, Requested(i)))))),
   pkg_config_path |-> i.pkg_config_path]
------------------------------------------------------------------------------

VARIABLE proc  \* the process: phase, env, saved, the two memories of pkg-config, and what is in args

flagvars == <<vars, proc>>

ExternalsDir == <<"ext">>

NoState == << >>
Fresh(v) == [phase |-> "parsing", env |-> v.path, saved |-> {}, memo |-> << >>, cache |-> << >>,
             include |-> << >>, names |-> NoState, state |-> NoState]

\* What the conf files say of a key.
Value(got, key) == IF key \in DOMAIN got THEN got[key] ELSE << >>

\* A function with more keys; it keeps what it has.
More(f, keys, value(_)) == [k \in DOMAIN f \cup keys |-> IF k \in DOMAIN f THEN f[k] ELSE value(k)]
------------------------------------------------------------------------------
\* pkg-config: the first directory of the path that has the package.
Having(v, path, pkg) == SelectSeq(path, LAMBDA d : d \in DOMAIN v.packages /\ pkg \in DOMAIN v.packages[d])
Exists(v, path, pkg) == Having(v, path, pkg) # << >>
Answer(v, path, pkg) ==
  LET Of(dirs) == IF dirs = << >> THEN [cflags |-> << >>, libs |-> << >>] ELSE v.packages[dirs[1]][pkg]
  IN  Of(Having(v, path, pkg))

\* -I becomes -isystem, and the compiler's own directory goes.
filter_pkg_config_cflags(words) ==
  LET Renamed(kept) == [i \in DOMAIN kept |-> IF kept[i][1] = "-I" THEN <<"-isystem">> \o Tail(kept[i]) ELSE kept[i]]
  IN  Renamed(SelectSeq(words, LAMBDA x : x # <<"-I", "usr", "include">>))

Filtered(answer) == [answer EXCEPT !.cflags = filter_pkg_config_cflags(@)]

\* Mutant: answers are remembered by package alone.
ByPackage(v, path, packages, p) ==
  LET got == More(p.cache, ToSet(packages) \X {<< >>}, LAMBDA k : Filtered(Answer(v, path, k[1])))
  IN  [p EXCEPT !.cache = More(got, ToSet(packages) \X {path}, LAMBDA k : got[<<k[1], << >>>>])]

\* What a process has been told of a package one by one, whatever the path was.
cached_pkg_config(v, path, memo, pkg) == IF pkg \in DOMAIN memo THEN memo[pkg] ELSE Answer(v, path, pkg)

\* Those not asked yet under this path are asked together, and one by one, from
\* memory, when one of them is missing.
_batch_pkg_config(v, path, new, p) ==
  IF \A k \in new : Exists(v, path, k)
  THEN [p EXCEPT !.cache = More(@, new \X {path}, LAMBDA k : Filtered(Answer(v, path, k[1])))]
  ELSE [p EXCEPT !.cache = More(@, new \X {path}, LAMBDA k : Filtered(cached_pkg_config(v, path, p.memo, k[1]))),
                 !.memo = More(@, new, LAMBDA k : Answer(v, path, k))]

Unasked(packages, path, p) == {k \in ToSet(packages) : <<k, path>> \notin DOMAIN p.cache}

_query_pkg_config(v, path, packages, p) == _batch_pkg_config(v, path, Unasked(packages, path, p), p)
------------------------------------------------------------------------------
\* Highest priority first; a directory asked for is moved where it was asked to be.
compute_pkg_config_path(existing, prepend, append, candidates) ==
  Distinct(Reverse(prepend) \o candidates \o SelectSeq(existing, LAMBDA d : ~ Contains(append, d)) \o Reverse(append))

_compute_pkg_config_path(v, got, p) ==
  LET dirs == <<v.cwd \o ConfD \o <<"pkgconfig">>, find_git_root(v) \o ConfD \o <<"pkgconfig">>>>
  IN  compute_pkg_config_path(p.env, Value(got, "prepend-PKG_CONFIG_PATH"), Value(got, "append-PKG_CONFIG_PATH"),
                              SelectSeq(dirs, LAMBDA d : d \in v.dirs))

_merged_pkg_config_specs(got) == Value(got, "pkg-config") \o SelectSeq(Value(got, "append-pkg-config"),
                                                                       LAMBDA k : ~ Contains(Value(got, "pkg-config"), k))

\* What is appended is dropped when INCLUDE has it, be it as a part of another path.
Within(e, path) == \E i \in 1..Len(path) : SubSeq(path, i, i + Len(e) - 1) = e
_include_paths_with_gitroots(v, c, got, p) ==
  LET Rooted(paths) == IF c.git_root /\ ~ Contains(paths, find_git_root(v)) THEN Append(paths, find_git_root(v)) ELSE paths
      Merged(include) == include \o SelectSeq(Value(got, "append-INCLUDE"),
                                              LAMBDA e : ~ \E i \in DOMAIN include : Within(e, include[i]))
  IN  Rooted(Merged(Value(got, "INCLUDE") \o p.include))

SlotNames == [cpp |-> "CPPFLAGS", c |-> "CFLAGS", cxx |-> "CXXFLAGS", ld |-> "LDFLAGS"]
_slot_tokens(got) == [s \in {s \in Slots : SlotNames[s] \in DOMAIN got} |-> got[SlotNames[s]]]

Macro == <<"-D", "CT_PROJECT_VERSION">>
_flag_name_already_present(got) == \E s \in Slots \ {"ld"} : Contains(Value(got, SlotNames[s]), Macro)

\* The variant and directories as args has them: those of an earlier pass, if there was one.
NamesInArgs(r, got, p) ==
  IF p.names # NoState THEN p.names
  ELSE [variant |-> r.args.variant, bindir |-> Value(got, "bindir"), cas_objdir |-> Value(got, "cas-objdir")]

\* What a pass reads, but for the answers of pkg-config, which p has already.
gather_inputs(v, c, r, p, got, path, packages) ==
  [raw             |-> _slot_tokens(got),
   prepend         |-> [s \in Slots |-> Value(got, "prepend-" \o SlotNames[s])],
   append          |-> [s \in Slots |-> Value(got, "append-" \o SlotNames[s])],
   include_paths   |-> _include_paths_with_gitroots(v, c, got, p),
   results         |-> [i \in DOMAIN packages |-> p.cache[<<packages[i], path>>]],
   separate_flags  |-> "separate-flags-CPP-CXX" \in DOMAIN got,
   gitroot         |-> find_git_root(v),
   macros          |-> IF "project-version" \in DOMAIN got /\ ~ _flag_name_already_present(got) THEN <<Macro>> ELSE << >>,
   link_driver_is_clang |-> Value(got, "LD") = "clang",
   wild_b_selected |-> Contains(r.args.variant, "wild-B"),
   variant_raw     |-> NamesInArgs(r, got, p).variant,
   canonical_order |-> get_canonical_order(v, c),
   bindir_raw      |-> NamesInArgs(r, got, p).bindir,
   cas_objdir_raw  |-> NamesInArgs(r, got, p).cas_objdir,
   pkg_config_path |-> path]

\* The environment before the first change is kept to be put back.
apply_effects(p, state) ==
  IF state.pkg_config_path = p.env THEN p
  ELSE [p EXCEPT !.saved = IF @ = {} THEN {p.env} ELSE @, !.env = state.pkg_config_path]

populate_args(p, state) == [p EXCEPT !.state = state, !.names = state.names]

restore_pkg_config_path(p) == [p EXCEPT !.env = IF p.saved = {} THEN @ ELSE CHOOSE e \in p.saved : TRUE, !.saved = {}]

Applied(p, state) == populate_args(apply_effects(p, state), state)
Computed(v, c, r, p, got, path, packages) ==
  Applied(p, compute_build_state(gather_inputs(v, c, r, p, got, path, packages)))

\* With --pkg-config-errors=error a package that is missing ends the process.
Missing(v, got, path, packages, p) ==
  "pkg-config-errors" \in DOMAIN got /\ \E k \in Unasked(packages, path, p) : ~ Exists(v, path, k)

PassUnder(v, c, r, p, got, path, packages) ==
  IF Missing(v, got, path, packages, p) THEN [p EXCEPT !.phase = "failed"]
  ELSE Computed(v, c, r, _query_pkg_config(v, path, packages, p), got, path, packages)

PassOf(v, c, r, p, got) == PassUnder(v, c, r, p, got, _compute_pkg_config_path(v, got, p), _merged_pkg_config_specs(got))

\* One pass: gather, compute, apply, populate.
Pass(v, c, r, p) == PassOf(v, c, r, p, _effective_layer_values(v, r.files))

Next1(p, phase) == IF p.phase = "failed" THEN p ELSE [p EXCEPT !.phase = phase]
------------------------------------------------------------------------------
FlagsInit == Init /\ proc = Fresh(w)

\* A parse over again starts with a new namespace, in the environment of old.
Anew(p) == [restore_pkg_config_path(p) EXCEPT !.include = << >>, !.names = NoState]

\* What a step of the configuration, from old to new, is followed by.
AfterStep(v, c, old, new, p) ==
  CASE new.phase \in {"contradiction", "unresolved"} -> [p EXCEPT !.phase = "failed"]
    [] old.phase = "explicit" /\ new.phase = "discover" -> Pass(v, c, new, p)
    [] old.phase = "explicit" /\ new.phase = "settled" -> Next1(Pass(v, c, new, p), "fetching")
    [] old.phase = "reanchor" /\ new.phase = "explicit" -> Anew(p)
    [] old.phase = "reanchor" /\ new.phase = "settled" -> [p EXCEPT !.phase = "fetching"]
    [] OTHER -> p

parseargs == /\ proc.phase = "parsing"
             /\ Settle
             /\ proc' = AfterStep(w, cmd, run, run', proc)

\* Each external's directory, its include directory if there is one, and the one that all are in.
ExternalDirs == FlattenSeq([i \in DOMAIN w.externals |->
                              <<w.externals[i]>> \o SelectSeq(<<Append(w.externals[i], "include")>>, LAMBDA d : d \in w.dirs)])
                \o <<ExternalsDir>>

_fetch_and_register_externals ==
  LET got   == _effective_layer_values(w, run.files)
      named == _collect_explicit_target_files(run.args) # << >> /\ w.externals # << >>
      new   == IF named THEN SelectSeq(Distinct(ExternalDirs), LAMBDA d : ~ Contains(Value(got, "INCLUDE"), d)) ELSE << >>
  IN  /\ proc.phase = "fetching"
      /\ proc' = [proc EXCEPT !.include = new,
                              !.phase = IF new # << >> \/ run.discovering THEN "changed" ELSE "building"]
      /\ UNCHANGED vars

\* Another pass, over what was changed in args.
resubstitute == /\ proc.phase = "changed"
                /\ proc' = Next1(Pass(w, cmd, run, proc), "building")
                /\ UNCHANGED vars

\* The process ends, and leaves the environment as it was.
pkg_config_path_restored == /\ proc.phase \in {"building", "failed"}
                            /\ proc' = [restore_pkg_config_path(proc) EXCEPT !.phase = "done"]
                            /\ UNCHANGED vars

Ended == proc.phase = "done" /\ UNCHANGED flagvars

Reconfigure == parseargs \/ _fetch_and_register_externals \/ resubstitute
------------------------------------------------------------------------------
(* However often a process went over its configuration, what it builds with *)
(* and where is what a process computes that is told all of it at once, and *)
(* the environment is the user's again when it ends (resubstitute: "a fixed *)
(* point BY CONSTRUCTION"; reanchor_config_for_discovered_targets: "a       *)
(* function of the widened conf set alone rather than of how many times     *)
(* parseargs has run").  But for a package that pkg-config was asked for by *)
(* itself under a path that the configuration then changed: the first       *)
(* answer is kept.                                                          *)
ToldOtherwise == \E pkg \in DOMAIN proc.memo :
  proc.memo[pkg] # Answer(w, proc.state.pkg_config_path, pkg)

Converges ==
  /\ proc.phase = "building" =>
       \/ proc.state = Pass(w, cmd, run, [Fresh(w) EXCEPT !.include = proc.include]).state
       \/ ToldOtherwise
  /\ proc.phase = "done" => proc.env = w.path
==============================================================================
