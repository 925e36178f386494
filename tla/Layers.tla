-------------------------------- MODULE Layers --------------------------------
(***************************************************************************)
(* The conf files of the subprojects that targets lie in (configutils.py,  *)
(* apptools.py): each target brings the nearest directory above it that    *)
(* has some, layers of one rank may not set a key differently, and when    *)
(* they do the user is told how to build them one by one.                  *)
(*                                                                         *)
(* A target is a path.  A world has also sorted, its directories in order, *)
(* and mains and tests, the sources with a main function; a command line   *)
(* has filename, tests, auto and git_root.                                 *)
(***************************************************************************)
EXTENDS Variants

CONSTANT Registered  \* the keys the tool has an argument for

\* append-* and prepend-* keys add up along the conf files (those that occur here); of another the last value counts.
Accumulating == {"append-CXXFLAGS", "append-INCLUDE", "append-pkg-config",
                 "prepend-PKG_CONFIG_PATH", "append-PKG_CONFIG_PATH"}
Scalar(key) == key \notin Accumulating

\* utils.to_bool for an argument that is a flag.
Canonical(key, value) == IF key = "disable-tests" /\ value = "1" THEN "true" ELSE value

\* One layer's files: the last value of a key wins, appended values add up.
_effective_layer_values(w, files) ==
  LET all(k) == FlattenSeq([i \in DOMAIN files |-> IF k \in DOMAIN w.files[files[i]] THEN w.files[files[i]][k] ELSE << >>])
  IN  [k \in UNION {DOMAIN w.files[f] : f \in ToSet(files)} |-> IF Scalar(k) THEN Last1(w, files, k) ELSE all(k)]

\* What the parser makes of conf values and a command line, which overrides them.
Parsed(w, cmd, got) ==
  LET conf(k) == IF k \in DOMAIN got THEN got[k] ELSE << >>
      without == "disable-tests" \in DOMAIN got /\ Canonical("disable-tests", got["disable-tests"]) = "true"
  IN  [variant  |-> FirstOf(<<cmd.variant, w.env.variant, conf("variant"), extract_variant(w, cmd)>>),
       filename |-> cmd.filename,
       tests    |-> FirstOf(<<cmd.tests, conf("tests")>>),
       exclude  |-> conf("auto-exclude"),
       without  |-> without]

parse_args(w, cmd, files) == Parsed(w, cmd, _effective_layer_values(w, files))

_collect_explicit_target_files(args) == args.filename \o args.tests

_target_conf_filenames(w, cmd, variant) ==
  LET Names(got) == <<Ct>> \o [i \in DOMAIN got.axes |-> <<got.axes[i].name>>]
                    \o (IF Len(got.name) > 1 THEN <<got.name>> ELSE << >>)
  IN  Distinct(Names(resolve_variant(w, cmd, variant)))

_conf_paths_in_dir(w, dir, names) ==
  LET places == FlattenSeq([i \in DOMAIN names |-> <<<<dir \o ConfD, names[i]>>, <<dir, names[i]>>>>])
  IN  SelectSeq(places, LAMBDA f : f \in DOMAIN w.files)

\* The nearest directory above a target that has conf files, below the project's
\* own when the walk is bounded by it.
Anchors(w, cmd, names, target) ==
  LET above   == {SubSeq(target, 1, n) : n \in 0..Len(target) - 1}
      bounded == w.git /\ cmd.git_root
      having  == {d \in above : /\ _conf_paths_in_dir(w, d, names) # << >>
                                /\ bounded => IsStrictPrefix(w.root, d)}
  IN  {d \in having : \A e \in having : Len(e) <= Len(d)}

walk_target_conf_layers(w, cmd, targets, names) ==
  LET dirs == SelectSeq(w.sorted, LAMBDA d : \E t \in ToSet(targets) : d \in Anchors(w, cmd, names, t))
  IN  [i \in DOMAIN dirs |-> [dir |-> dirs[i], files |-> _conf_paths_in_dir(w, dirs[i], names)]]

\* The files of the directory the tool is run in, when it is a subproject's.
CwdLayer(w, files) ==
  IF w.cwd = find_git_root(w) THEN << >>
  ELSE SelectSeq(files, LAMBDA f : f[1] \in {w.cwd, w.cwd \o ConfD})

\* Mutant: the directory the tool is run in is not compared with the others.
TargetsOnly(w, cmd, layers, cwd, variant) ==
  {k \in Registered : \E a, b \in ToSet(layers) :
     LET x == _effective_layer_values(w, a.files) y == _effective_layer_values(w, b.files)
     IN  k \in DOMAIN x /\ k \in DOMAIN y /\ Canonical(k, x[k]) # Canonical(k, y[k])}

\* The keys that layers of one rank set differently, or the variant.
validate_no_conf_contradictions(w, cmd, layers, cwd, variant) ==
  LET Set(k, all) == {Canonical(k, v[k]) : v \in {v \in all : k \in DOMAIN v}}
      canon(tokens) == canonicalize_variant_input(w, cmd, tokens)
      Clash(tier, own) == {k \in Registered : Cardinality(Set(k, tier \cup {own})) > 1}
                          \cup {k \in {"variant"} : \E v \in tier : k \in DOMAIN v /\ canon(v[k]) # canon(variant)}
  IN  Clash({_effective_layer_values(w, l.files) : l \in ToSet(layers)}, _effective_layer_values(w, cwd))

\* Mutant: a command keeps the targets of the other subprojects.
KeepsAll(w, cmd, layers, targets, cwd, auto) == {[cwd |-> l.dir, cmd |-> cmd] : l \in ToSet(layers)}

\* One command for each layer in the conflict, each to build its own targets.
build_separate_build_commands(w, cmd, layers, targets, cwd, auto) ==
  LET dirs     == {l.dir : l \in ToSet(layers)} \cup (IF cwd = << >> THEN {} ELSE {w.cwd})
      owners(t) == {d \in dirs : IsStrictPrefix(d, t)}
      Owner(t) == {d \in owners(t) : \A e \in owners(t) : Len(e) <= Len(d)}
      Only(S)  == [cmd EXCEPT !.filename = SelectSeq(@, LAMBDA t : t \in S),
                              !.tests = SelectSeq(@, LAMBDA t : t \in S)]
      kept(d)  == {t \in ToSet(targets) : Owner(t) \subseteq {d}}
      here(d)  == \E t \in ToSet(targets) : Owner(t) = {d}
  IN  {CASE auto -> [cwd |-> d, cmd |-> [Only({}) EXCEPT !.auto = TRUE]]
         [] ~ auto /\ cwd # << >> /\ here(d) -> [cwd |-> d, cmd |-> Only(kept(d))]
         [] ~ auto /\ cwd # << >> /\ ~ here(d) -> [cwd |-> d, cmd |-> [Only({}) EXCEPT !.auto = TRUE]]
         [] OTHER -> [cwd |-> w.cwd, cmd |-> Only(kept(d))] : d \in dirs}

\* The files of the layers found that are not loaded.
Unloaded(found, files) ==
  SelectSeq([i \in DOMAIN found |->
               [found[i] EXCEPT !.files = SelectSeq(@, LAMBDA f : ~ Contains(files, f))]],
            LAMBDA l : l.files # << >>)

\* One round: the layers that the targets bring and that are not loaded.
ApplyRound(w, cmd, auto, run) ==
  LET targets == _collect_explicit_target_files(run.args)
      cwd     == CwdLayer(w, run.files)
      Applied(fresh, layers) ==
        [fresh    |-> fresh,
         layers   |-> layers,
         files    |-> run.files \o FlattenSeq([i \in DOMAIN fresh |-> fresh[i].files]),
         clash    |-> validate_no_conf_contradictions(w, cmd, layers, cwd, run.args.variant),
         remedies |-> build_separate_build_commands(w, cmd, layers, targets, cwd, auto)]
      Taken(fresh) == Applied(fresh, run.layers \o fresh)
  IN  Taken(Unloaded(walk_target_conf_layers(w, cmd, targets, _target_conf_filenames(w, cmd, run.args.variant)),
                     run.files))
------------------------------------------------------------------------------
\* A pattern without a separator names any directory, another a path in the project.
is_auto_excluded(w, target, pattern) ==
  LET root     == find_git_root(w)
      relative == IF IsPrefix(root, target) THEN SubSeq(target, Len(root) + 1, Len(target)) ELSE <<Last(target)>>
  IN  CASE pattern = << >> -> FALSE
        [] Len(pattern) = 1 -> Contains(relative, pattern[1])
        [] OTHER -> IsPrefix(pattern, relative)

\* FindTargets: the sources under the current directory that have a main function.
Found(w, args, sources) ==
  SelectSeq(sources, LAMBDA t : IsPrefix(w.cwd, t) /\ ~ is_auto_excluded(w, t, args.exclude))

Discovered(w, args) ==
  [args EXCEPT !.filename = Distinct(@ \o Found(w, args, w.mains)),
               !.tests = IF args.without THEN @ ELSE Distinct(@ \o Found(w, args, w.tests))]
==============================================================================
