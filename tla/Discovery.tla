------------------------------- MODULE Discovery -------------------------------
(***************************************************************************)
(* A build finds out what it is made of: the targets are hunted one after  *)
(* the other in one process (hunter.py, build_backend.py), whose caches    *)
(* each hunt leaves to the next; then the conditions that targets disagree *)
(* about are looked at (build_context.py), and each unit's object is named *)
(* (namer.py).  A later build of another tree starts from nothing but the  *)
(* objects under their names.                                              *)
(***************************************************************************)
EXTENDS Naming

CONSTANTS Trees,     \* the trees of files that a run may start from
          Edits(_),  \* the trees that may be built after one
          Builds     \* builds of one run, at most

VARIABLES w,        \* the tree (HeaderDeps, Hunter and Naming say what it has)
          s,        \* what the process remembers
          phase,    \* "hunt", "verdicts", "name", "built", or how it ended
          answers,  \* what each target hunted so far needs
          told,     \* conditions the user was told of
          objects,  \* names of objects, each with what was compiled under it and the
                  \* macros that were hashed, which only properties read
          build     \* builds begun

vars == <<w, s, phase, answers, told, objects, build>>

Init == /\ w \in Trees
        /\ s = Fresh
        /\ phase = "hunt"
        /\ answers = << >>
        /\ told = {}
        /\ objects = {}
        /\ build = 1

\* A target's files, and the flags of its units.
Answer(tree, got) ==
  LET units == required_source_files(tree, got.files)
  IN  [files |-> Range(got.files),
       flags |-> [f \in Range(units) |-> got.s.parsed[f]]]

\* The targets are hunted in the order they were named in.
Hunt(t) ==
  /\ phase = "hunt"
  /\ t \in w.targets \ DOMAIN answers
  /\ \E got \in {required_files(w, s, t)} :
       /\ s' = got.s
       /\ phase' = IF got.failed THEN "failed" ELSE "hunt"
       /\ answers' = IF got.failed THEN answers ELSE (t :> Answer(w, got)) @@ answers
  /\ UNCHANGED <<w, told, objects, build>>

\* Before anything is compiled.
CheckVerdicts ==
  LET got == check_verdict_conflicts(s)
  IN  /\ phase = "hunt"
      /\ DOMAIN answers = w.targets
      /\ s' = got.s
      /\ told' = got.told
      /\ phase' = IF got.conflict THEN "conflict" ELSE "name"
      /\ UNCHANGED <<w, answers, objects, build>>

Units == UNION {DOMAIN answers[t].flags : t \in DOMAIN answers}

\* The macros a unit's own flags give its compiler, and what that makes of it.
Compile(f) == Compiled(w, f, MagicMacros(Concat([i \in DOMAIN s.parsed[f] |-> s.parsed[f][i][2]]))).text

\* The macros that are hashed into the name of a unit's object.
MacrosOf(f) ==
  items_to_hash(w, s.fin[f], tu_referenced_macros(w, f, header_dependencies(w, s, f).headers))

NameObjects ==
  /\ phase = "name"
  /\ objects' = objects \cup {[name   |-> object_name(w, s, f), text |-> Compile(f),
                              macros |-> MacrosOf(f)] : f \in Units}
  /\ phase' = "built"
  /\ UNCHANGED <<w, s, answers, told, build>>

\* The end of the session.
EndSession ==
  LET got == flush_pending_warnings(s)
  IN  /\ phase \in {"built", "conflict", "failed"}
      /\ told' = told \cup got.reported
      /\ s' = got.s
      /\ phase' = "ended"
      /\ UNCHANGED <<w, answers, objects, build>>

\* A build of a tree that differs a little.
BuildAgain ==
  /\ phase = "ended"
  /\ build < Builds
  /\ w' \in Edits(w)
  /\ s' = Fresh
  /\ phase' = "hunt"
  /\ answers' = << >>
  /\ told' = {}
  /\ build' = build + 1
  /\ UNCHANGED objects

Done == /\ phase = "ended"
        /\ build = Builds
        /\ UNCHANGED vars

Next == (\E t \in w.targets : Hunt(t)) \/ CheckVerdicts \/ NameObjects \/ EndSession \/ BuildAgain
        \/ Done
Spec == Init /\ [][Next]_vars
------------------------------------------------------------------------------
(* What a target needs does not depend on the targets hunted before it.    *)
(* That is so while no file tests a name that some file it does not        *)
(* include settles before it in a unit: what a header is read as in one    *)
(* unit is remembered for all.                                             *)

\* The names f settles.
Sets(tree, f) ==
  {l.n : l \in {l \in Range(tree.files[f]) : l.t \in {"define", "undef"}}}
  \cup {l.v[2] : l \in {l \in Range(tree.files[f]) : l.t = "magic" /\ l.v[1] = "-D"}}

Below(tree, f) == {f} \cup Range(process_conditional_blind(tree, f))

SelfContained(tree) ==
  \A unit \in DOMAIN tree.files : \A f, g \in Below(tree, unit) :
    g \notin Below(tree, f) => Sets(tree, g) \cap ConditionalMacros(tree.files[f]) = {}

AnsweredAlone ==
  LET Agrees(t, got) == IF t \in DOMAIN answers THEN answers[t] = Answer(w, got) ELSE ~ got.failed
  IN  \E differ \in {{t \in IF phase = "failed" THEN w.targets ELSE DOMAIN answers :
                        ~ Agrees(t, required_files(w, Fresh, t))}} :
        differ \cap DOMAIN answers = {} /\ (phase = "failed" => differ # {})

AsAlone == SelfContained(w) => AnsweredAlone
------------------------------------------------------------------------------
(* The first unit a process reads has the headers it has under the macros  *)
(* it settled with, and the flags its files have under them.               *)
Settled ==
  \A f \in w.targets :
    DOMAIN answers = {f} =>
      LET end  == s.fin[f]
          kept == Range(s.parsed[f])
          Kept(found) == /\ found \subseteq {fl[1] : fl \in kept}
                         /\ \A fl \in kept :
                              fl[1] \in found =>
                                compute_file_processing_result(<< >>, w.files[fl[1]], end).did.flags = fl[2]
      IN  Kept({f} \cup Range(process(w, Fresh, f, get_cache_key(end)).headers))
------------------------------------------------------------------------------
(* The files of a target are closed: with a unit come the headers it is    *)
(* compiled with, the sources its flags name and the units of what it      *)
(* imports; with a header the source beside it.                            *)
HuntClosed ==
  \A t \in DOMAIN answers :
    LET files == answers[t].files
    IN  /\ \A f \in files \cap DOMAIN w.implied : w.implied[f] \in files
        /\ \A f \in files :
             LET names == {_resolve_module_import(w, f, m) : m \in Range(Named(w.files[f], "import"))}
             IN  \A n \in names : \A g \in w.sources :
                   n # << >> /\ (n[1] \in Range(Named(w.files[g], "export"))
                                 \/ n[1] \in Range(Named(w.files[g], "implement"))) => g \in files
        /\ \A f \in DOMAIN answers[t].flags :
             /\ _extractSOURCE(answers[t].flags[f]) \subseteq files
             /\ SelfContained(w) =>
                  Compiled(w, f, MagicMacros(Concat([i \in DOMAIN answers[t].flags[f] |->
                                                       answers[t].flags[f][i][2]]))).seen \subseteq files
------------------------------------------------------------------------------
(* The build stops over a condition exactly when, each unit taken by       *)
(* itself, one cannot evaluate it and another finds it true; and by its    *)
(* end the user has been told of every condition some unit cannot          *)
(* evaluate, and of no other.                                              *)
Alone(f) == _parse(w, Fresh, f).s

ConditionsTold ==
  LET units == DOMAIN s.parsed
      Told(alone) ==
        /\ phase \in {"conflict", "name"} =>
             ((phase = "conflict") <=>
                \E f, g \in units : \E k \in alone[f].pend, r \in DOMAIN alone[g].res :
                  k[2] = r[2] /\ alone[g].res[r])
        /\ phase = "ended" => told = UNION {{k[2] : k \in alone[f].pend} : f \in units}
  IN  phase \in {"conflict", "name", "ended"} => Told([f \in units |-> Alone(f)])
------------------------------------------------------------------------------
(* Two units whose objects have one name compile to one text, but for two  *)
(* cases.  Names and values are hashed apart and combined by exclusive or, *)
(* so A=1 B=3 is told from A=2 B=3, and not from A=3 B=1.  And of a macro  *)
(* that is hashed the value is, but not that of another it stands for.     *)

\* Among the macros in which they differ a value comes twice, or as a name.
Cancelling(a, b) ==
  \E p, q \in SymDiff(a.macros, b.macros) : p[2] = q[1] \/ (p # q /\ p[2] = q[2])

\* A macro stands for one that is not hashed.
Unsaid(a) == \E p \in a.macros, n \in w.cmdline :
               p[2] = <<"id", n>> /\ p[2] \notin {q[1] : q \in a.macros}

NameTells ==
  \A a, b \in objects : a.name = b.name => a.text = b.text \/ Cancelling(a, b) \/ Unsaid(a)
==============================================================================
