------------------------------ MODULE Externals ------------------------------
(***************************************************************************)
(* The //#GIT= declarations of a project: which files a round of the scan  *)
(* reads, and what it makes of the declarations in them.                   *)
(*                                                                         *)
(* A file is [decls, defs, incs]: its declarations in order, the macros it *)
(* defines, and its #includes in order, each [to, when, root]: the file    *)
(* named, the macro state it stands under, and whether the name resolves   *)
(* only inside an external's own root (<e.h> in E/ or E/include/) or from  *)
(* the directory of the externals (<E/e.h>).  The header of an external is *)
(* called by the external's name; what it says depends on the tree there.  *)
(***************************************************************************)
EXTENDS Checkout, FiniteSets, SequencesExt

CONSTANTS Names,   \* the names externals are declared under
          Lower,   \* [Names -> the name in lower case]
          Always,  \* an #include under no condition
          MaxDecls \* bound: declarations in one file

\* An #include is active under the macros known where its file is entered.
Active(when, macros) ==
  \/ when = Always
  \/ when[1] = "def" /\ when[2] \in macros
  \/ when[1] = "ndef" /\ when[2] \notin macros

\* The include search: the project, the resolved roots, and externals_dir last.
Found(tree, roots, inc) ==
  \/ inc.to \notin Names
  \/ tree[inc.to].is # "absent" /\ ~Part(tree[inc.to]) /\ (inc.root => inc.to \in roots)

\* A file is read by its hash, and the registry of hashes asks the disk for a path
\* once: what a header of an external first said is what the process knows of it.
Said(w, tree, n) == w.repo[tree[n].url][tree[n].head]
Content(w, tree, texts, f) ==
  IF f \notin Names THEN w.files[f] ELSE IF f \in DOMAIN texts THEN texts[f] ELSE Said(w, tree, f)

Files(w) == DOMAIN w.files \cup Names

\* Depth first, each file once: entered(seen, f) are the includes followed from f
\* once the files of seen have been entered.
DepthFirst(w, entered(_, _), target) ==
  LET enter[seen \in Seq(Files(w)), f \in Files(w)] ==
        IF f \in Range(seen) THEN seen
        ELSE FoldLeft(LAMBDA a, i : enter[a, i.to], Append(seen, f), entered(Append(seen, f), f))
  IN  enter[<< >>, target]

\* headerdeps.process: the includes whose conditions hold; the macros of a header
\* are known to the files entered after it.
Evaluated(w, tree, texts, roots, target) ==
  LET macros(seen) == UNION {Content(w, tree, texts, f).defs : f \in Range(seen)}
      live(seen, f) == SelectSeq(Content(w, tree, texts, f).incs,
                                 LAMBDA i : Active(i.when, macros(seen)) /\ Found(tree, roots, i))
  IN  DepthFirst(w, live, target)

\* process_conditional_blind: every include of every branch.
Blind(w, tree, texts, roots, target) ==
  LET every(seen, f) == SelectSeq(Content(w, tree, texts, f).incs, LAMBDA i : Found(tree, roots, i))
  IN  DepthFirst(w, every, target)

\* Every evaluated file comes first; what only the blind walk finds comes after.
_reachable_sources(w, tree, texts, roots, target) ==
  LET evaluated == Evaluated(w, tree, texts, roots, target)
      blind     == SelectSeq(Blind(w, tree, texts, roots, target), LAMBDA f : f \notin Range(evaluated))
  IN  [files |-> evaluated \o blind, blind_only |-> Range(blind)]
------------------------------------------------------------------------------
_classify_blind_declaration(ext, is_blind, prior, name_is_declared_blind) ==
  IF is_blind /\ prior # ext THEN "drop"
  ELSE IF ~is_blind /\ name_is_declared_blind THEN "displace"
  ELSE "not_applicable"

\* What a scan knows; `new` are the externals this round has to resolve, `texts`
\* what the headers of externals said when they were first read.
NothingDeclared ==
  [texts |-> << >>, declared |-> << >>, declared_blind |-> {}, forced_reclone |-> {}, forced_update |-> {},
   new |-> << >>, error |-> FALSE]

Declare(s, ext, is_blind) ==
  IF \E n \in DOMAIN s.declared : n # ext.name /\ Lower[n] = Lower[ext.name]
  THEN [s EXCEPT !.error = TRUE]
  ELSE [s EXCEPT !.declared = [n \in DOMAIN s.declared \cup {ext.name} |->
                                 IF n = ext.name THEN ext ELSE s.declared[n]],
                 !.declared_blind = IF is_blind THEN @ \cup {ext.name} ELSE @,
                 !.new = Append(@, ext.name)]

Displace(s, ext) ==
  LET prior == s.declared[ext.name]
      s1    == [s EXCEPT !.declared_blind = @ \ {ext.name}]
  IN  IF prior = ext THEN s1
      ELSE [s1 EXCEPT !.declared[ext.name] = ext,
                      !.forced_reclone = IF prior.url # ext.url THEN @ \cup {ext.name} ELSE @,
                      !.forced_update  = IF prior.url = ext.url THEN @ \cup {ext.name} ELSE @,
                      !.new = Append(@, ext.name)]

\* One declaration, read in a file that is or is not reached only blindly.
Record(s, ext, is_blind) ==
  IF s.error THEN s
  ELSE IF ext.name \notin DOMAIN s.declared THEN Declare(s, ext, is_blind)
  ELSE LET prior   == s.declared[ext.name]
           verdict == _classify_blind_declaration(ext, is_blind, prior, ext.name \in s.declared_blind)
       IN  CASE verdict = "drop"     -> s
             [] verdict = "displace" -> Displace(s, ext)
             [] OTHER                -> [s EXCEPT !.error = prior # ext]

\* The declarations of every reachable file, in order, with how each file is reached.
Declarations(w, tree, texts, reach) ==
  FlattenSeq([k \in DOMAIN reach.files |->
    LET f == reach.files[k]
    IN  [i \in DOMAIN Content(w, tree, texts, f).decls |->
           [ext |-> Content(w, tree, texts, f).decls[i], is_blind |-> f \in reach.blind_only]]])
MostDeclared(w) == Cardinality(Files(w)) * MaxDecls

\* _scan_round: each of them is recorded.
_scan_round(w, tree, roots, target, s) ==
  LET reach == _reachable_sources(w, tree, s.texts, roots, target)
      read  == Declarations(w, tree, s.texts, reach)
      texts == [n \in DOMAIN s.texts \cup (Range(reach.files) \cap Names) |->
                  Content(w, tree, s.texts, n)]
      after[k \in 0..MostDeclared(w)] ==
        IF k = 0 THEN [s EXCEPT !.new = << >>, !.texts = texts]
        ELSE IF k \in DOMAIN read THEN Record(after[k - 1], read[k].ext, read[k].is_blind)
        ELSE after[k - 1]
  IN  after[MostDeclared(w)]
------------------------------------------------------------------------------
\* The report of ct-fetch --status: it never raises, so the first declaration of
\* two that disagree is kept.
StatusRecord(s, ext, is_blind) ==
  LET s1 == Record(s, ext, is_blind) IN IF s1.error THEN s ELSE s1

\* Mutant: the declaration read first is reported, blind or not.
StatusFirst(s, ext, is_blind) ==
  IF ext.name \in DOMAIN s.declared THEN s
  ELSE [s EXCEPT !.declared = (ext.name :> ext) @@ @, !.new = Append(@, ext.name)]

\* A status does not look at the case of a name.
StatusDeclare(s, ext, is_blind) ==
  IF ext.name \in DOMAIN s.declared THEN StatusRecord(s, ext, is_blind)
  ELSE [s EXCEPT !.declared = (ext.name :> ext) @@ @,
                 !.declared_blind = IF is_blind THEN @ \cup {ext.name} ELSE @,
                 !.new = Append(@, ext.name)]

\* _status_for: an external is there when a git work tree is.
Present(t) == _is_git_work_tree(t)

\* The declarations that --status reports: rounds like those of a fetch, reaching
\* only into the externals that are there already, until one finds no new name.  It
\* changes no file, so what it remembers of one is what the file says.
gather_external_status(w, tree, target, max_rounds) ==
  LET roots(s) == {n \in DOMAIN s.declared : Present(tree[n])}
      reach(s) == _reachable_sources(w, tree, << >>, roots(s), target)
      once(s)  == FoldLeft(LAMBDA a, d : StatusDeclare(a, d.ext, d.is_blind), [s EXCEPT !.new = << >>],
                           Declarations(w, tree, << >>, reach(s)))
      after[k \in 0..max_rounds] == \* what k rounds know, and whether the last found a name
        IF k = 0 THEN [known |-> NothingDeclared, found |-> TRUE]
        ELSE LET before == after[k - 1]
                 now    == once(before.known)
             IN  IF ~before.found THEN before
                 ELSE [known |-> now, found |-> DOMAIN now.declared # DOMAIN before.known.declared]
  IN  [after[max_rounds].known EXCEPT !.error = @ \/ after[max_rounds].found]
==============================================================================
