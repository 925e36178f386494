------------------------------- MODULE Settings -------------------------------
(***************************************************************************)
(* A ct tool settles its configuration: the variant's conf files, then     *)
(* those of the subprojects its targets lie in, round by round, for a file *)
(* may name more targets; with --auto the targets are discovered under     *)
(* what is loaded, and whatever that loads starts all again                *)
(* (apptools.parseargs, findtargets.discover_targets_and_reanchor).        *)
(***************************************************************************)
EXTENDS Layers

CONSTANT Invocations  \* pairs of a world and a command line

VARIABLES w,    \* what the tool sees
          cmd,  \* its command line
          run   \* its parser and namespace: phase, files, layers, args, remedies

vars == <<w, cmd, run>>

Begun == [phase |-> "start", files |-> << >>, layers |-> << >>, args |-> << >>, discovering |-> FALSE,
          remedies |-> {}, clash |-> {}]

Init == /\ \E i \in Invocations : w = i[1] /\ cmd = i[2]
        /\ run = Begun
------------------------------------------------------------------------------
\* create_parser, and the first parse.
Create(v, c, r) ==
  LET With(got) == IF got.ok THEN [r EXCEPT !.phase = "explicit", !.files = got.files,
                                           !.args = parse_args(v, c, got.files)]
                   ELSE [r EXCEPT !.phase = "unresolved"]
  IN  With(resolve_variant(v, c, extract_variant(v, c)))

\* What a round leads to, where a round that finds nothing leads on to next.
Round(v, c, r, auto, next) ==
  LET With(got) ==
        CASE got.fresh = << >> -> [r EXCEPT !.phase = next]
          [] got.fresh # << >> /\ got.clash # {} ->
               [r EXCEPT !.phase = "contradiction", !.remedies = got.remedies, !.clash = got.clash]
          [] OTHER -> [r EXCEPT !.phase = "explicit", !.files = got.files, !.layers = got.layers,
                                !.args = parse_args(v, c, got.files)]
  IN  With(ApplyRound(v, c, auto, r))

\* Cake._discover_targets looks for targets when none is named, and once it
\* began to, again after each widening.
_apply_target_conf_layers(v, c, r) ==
  LET named == _collect_explicit_target_files(r.args) # << >>
      auto  == r.discovering \/ (c.auto /\ ~ named)
  IN  Round(v, c, r, FALSE, IF auto THEN "discover" ELSE "settled")

_discover_targets(v, c, r) ==
  [r EXCEPT !.phase = "reanchor", !.discovering = TRUE, !.args = Discovered(v, @)]

reanchor_config_for_discovered_targets(v, c, r) == Round(v, c, r, TRUE, "settled")

Ends == {"settled", "contradiction", "unresolved"}

StepOf(v, c, r) == CASE r.phase = "start"    -> Create(v, c, r)
                     [] r.phase = "explicit" -> _apply_target_conf_layers(v, c, r)
                     [] r.phase = "discover" -> _discover_targets(v, c, r)
                     [] r.phase = "reanchor" -> reanchor_config_for_discovered_targets(v, c, r)

Settle == /\ run.phase \notin Ends
          /\ run' = StepOf(w, cmd, run)
          /\ UNCHANGED <<w, cmd>>

RECURSIVE Outcome(_, _, _)
Outcome(v, c, r) == IF r.phase \in Ends THEN r ELSE Outcome(v, c, StepOf(v, c, r))
------------------------------------------------------------------------------
(* A key that a subproject sets, one the tool is run in or one of a target, *)
(* has in the whole invocation the value it would have were it the only one *)
(* there: nothing of another's leaks into it                                *)
(* (validate_no_conf_contradictions: "applying both would leak each         *)
(* subproject's flags onto the other's translation units").  But for a key  *)
(* of the directory the tool is run in that the variant's files override.   *)
Subprojects == {l.files : l \in ToSet(run.layers)} \cup {CwdLayer(w, run.files)}

Same(k, x, y) == IF Scalar(k) THEN Canonical(k, x) = Canonical(k, y) ELSE ToSet(x) = ToSet(y)

TogetherAsApart ==
  run.phase = "settled" =>
    LET all == _effective_layer_values(w, run.files)
    IN  \A files \in Subprojects :
          LET others == UNION {ToSet(fs) : fs \in Subprojects \ {files}}
              alone  == _effective_layer_values(w, SelectSeq(run.files, LAMBDA f : f \notin others))
              own    == _effective_layer_values(w, files)
          IN  \A k \in DOMAIN own \cap Registered :
                \/ Same(k, all[k], alone[k])
                \/ files = CwdLayer(w, run.files) /\ Scalar(k) /\ alone[k] # own[k]
------------------------------------------------------------------------------
(* The commands a user is given for a conflict do not meet it again         *)
(* (build_separate_build_commands: "Each returned command builds only its   *)
(* own subproject, so the two commands differ and neither reproduces the    *)
(* conflicting invocation").  Three conflicts they do meet again: one over  *)
(* the variant, which no command changes; one that comes of a subproject    *)
(* whose conf file names tests of another; and that of a subproject with    *)
(* one inside it, when the command discovers its targets.                   *)
NamesTests == \E f \in DOMAIN w.files : "tests" \in DOMAIN w.files[f]

Encloses(dir) == \E f \in DOMAIN w.files : IsStrictPrefix(dir, f[1])

RemediesWork ==
  run.phase = "contradiction" =>
    \A r \in run.remedies :
      \/ Outcome([w EXCEPT !.cwd = r.cwd], r.cmd, Begun).phase # "contradiction"
      \/ "variant" \in run.clash
      \/ NamesTests
      \/ r.cmd.auto /\ Encloses(r.cwd)

==============================================================================
