------------------------------- MODULE Variants -------------------------------
(***************************************************************************)
(* Configuration files and what a --variant means (configutils.py).        *)
(*                                                                         *)
(* A variant is a sequence of tokens, and so is the name of a conf file:   *)
(* gcc.debug.conf is <<"gcc", "debug">>, and ct.conf is <<"ct">>.  A       *)
(* directory is a path of names, a file a directory with a name.  What a   *)
(* tool sees is a record w:                                                *)
(*   files  conf files, each with its keys and values                      *)
(*   root   the project's directory       git   it is a git repository     *)
(*   cwd    where the tool is run         env   variant and order, or << >>*)
(* and a command line has variant, canon and config, each << >> when it    *)
(* was not given, beside its targets.                                      *)
(***************************************************************************)
EXTENDS SequencesExt, Integers

CONSTANT DefaultOrder  \* _DEFAULT_VARIANT_CANONICAL_ORDER

ConfD == <<"ct.conf.d">>
Ct == <<"ct">>

Distinct(seq) == FoldLeft(LAMBDA acc, x : IF Contains(acc, x) THEN acc ELSE Append(acc, x), << >>, seq)

\* The first that is not empty.
FirstOf(seqs) == LET given == SelectSeq(seqs, LAMBDA s : s # << >>)
                 IN  IF given = << >> THEN << >> ELSE given[1]

find_git_root(w) == IF w.git THEN w.root ELSE w.cwd

\* The highest priority first.
default_config_directories(w) ==
  LET root == find_git_root(w)
  IN  Distinct(<<w.cwd, root, root \o ConfD, root \o <<"src", "compiletools", "ct.conf.d">>,
                 w.cwd \o ConfD, <<"user">>, <<"bundled">>, <<"venv">>, <<"site">>, <<"exe">>>>)

\* The lowest priority first.
get_existing_config_files(w, name) ==
  LET dirs == Reverse(default_config_directories(w))
  IN  SelectSeq([i \in DOMAIN dirs |-> <<dirs[i], name>>], LAMBDA f : f \in DOMAIN w.files)

\* The value of the last file that has the key.
Last1(w, files, key) ==
  FoldLeft(LAMBDA v, f : IF key \in DOMAIN w.files[f] THEN w.files[f][key] ELSE v, << >>, files)

extract_item_from_ct_conf(w, key) == Last1(w, get_existing_config_files(w, Ct), key)

get_canonical_order(w, cmd) ==
  FirstOf(<<cmd.canon, w.env.canon, extract_item_from_ct_conf(w, "canon"), DefaultOrder>>)

\* Mutant: a token given twice is kept twice.
KeepRepeats(tokens, order) ==
  SelectSeq(order, LAMBDA t : Contains(tokens, t)) \o SelectSeq(tokens, LAMBDA t : ~ Contains(order, t))

\* Known tokens in their order, and then the others as they were given.
canonicalize_variant_tokens(tokens, order) ==
  LET once == Distinct(tokens)
  IN  SelectSeq(Distinct(order), LAMBDA t : Contains(once, t)) \o SelectSeq(once, LAMBDA t : ~ Contains(order, t))

canonicalize_variant_input(w, cmd, tokens) == canonicalize_variant_tokens(tokens, get_canonical_order(w, cmd))

\* --config implies a variant of its own name, which is taken as it is.
extract_variant(w, cmd) ==
  IF cmd.config # << >> THEN cmd.config[2]
  ELSE canonicalize_variant_input(w, cmd,
         FirstOf(<<cmd.variant, w.env.variant, extract_item_from_ct_conf(w, "variant"), <<"debug">>>>))
------------------------------------------------------------------------------
_parse_extends_directive(w, file) == IF "extends" \in DOMAIN w.files[file] THEN w.files[file].extends ELSE << >>

_find_axis_confs(w, name) == get_existing_config_files(w, name)

\* An axis and, before it, what it extends: depth first, each once.  seen has the
\* axes emitted, known those resolved.
RECURSIVE _resolve_axis(_, _, _, _)
_resolve_axis(w, tok, on_path, st) ==
  LET paths   == _find_axis_confs(w, <<tok>>)
      extends == FirstOf(Reverse([i \in DOMAIN paths |-> _parse_extends_directive(w, paths[i])]))
      emit(s) == [s EXCEPT !.seen = @ \cup {tok}, !.out = Append(@, [name |-> tok, paths |-> paths])]
      after(s) == IF s.cycle \/ tok \in s.seen THEN s ELSE emit(s)
      resolved(s) == IF s.cycle THEN s ELSE after([s EXCEPT !.known = @ \cup {tok}])
  IN  CASE tok \in st.known -> after(st)
        [] tok \notin st.known /\ tok \in on_path -> [st EXCEPT !.cycle = TRUE]
        [] tok \notin st.known \cup on_path /\ paths = << >> -> [st EXCEPT !.missing = @ \cup {tok}]
        [] OTHER -> resolved(FoldLeft(LAMBDA s, p : IF s.cycle THEN s
                                                    ELSE _resolve_axis(w, p, on_path \cup {tok}, s),
                                      st, extends))

Nothing == [seen |-> {}, known |-> {}, out |-> << >>, cycle |-> FALSE, missing |-> {}]

\* The axes of a canonical name, unless a conf file of the whole name says which.
ResolveAxes(w, cmd, canonical, composites) ==
  LET own  == IF composites = << >> THEN << >> ELSE _parse_extends_directive(w, Last(composites))
      seed == IF own # << >> THEN own ELSE canonical
  IN  IF cmd.config # << >> /\ composites = << >> THEN Nothing
      ELSE FoldLeft(LAMBDA s, t : IF s.cycle THEN s ELSE _resolve_axis(w, t, {}, s), Nothing, seed)

ResolveCanonical(w, cmd, canonical) ==
  LET composites == IF Len(canonical) > 1 THEN _find_axis_confs(w, canonical) ELSE << >>
      Resolved(st) ==
        [name  |-> canonical,
         ok    |-> ~ st.cycle /\ st.missing = {},
         axes  |-> st.out,
         files |-> get_existing_config_files(w, Ct)
                   \o FlattenSeq([i \in DOMAIN st.out |-> st.out[i].paths])
                   \o composites
                   \o (IF cmd.config # << >> THEN <<cmd.config>> ELSE << >>)]
  IN  Resolved(ResolveAxes(w, cmd, canonical, composites))

\* The conf files of a variant, the lowest priority first, or why there are none.
resolve_variant(w, cmd, variant) == ResolveCanonical(w, cmd, canonicalize_variant_input(w, cmd, variant))
==============================================================================
