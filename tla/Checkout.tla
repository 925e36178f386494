------------------------------- MODULE Checkout -------------------------------
(***************************************************************************)
(* The directory of one external, and what ct-fetch decides to do with it. *)
(* git itself is modelled from how fetch.py uses it: a repository is a     *)
(* line of commits 1, 2, ... on its branch "main", of which upstream has   *)
(* published the first `tip`; tag "vK" names commit K, "cK" is its SHA.    *)
(* A decision is the sequence of commands still to run; each is one step   *)
(* of Fetch, and may fail.                                                 *)
(***************************************************************************)
EXTENDS Naturals, Sequences

CONSTANTS Tags,    \* [tag -> the commit it names]
          Shas,    \* [SHA -> its commit]
          Branch,  \* the default branch of every repository
          NoRef,   \* a declaration without @ref
          None     \* no process, a detached HEAD

\* Nothing at the managed location.
NoTree == [is |-> "absent"]

\* `git clone`: the branch at upstream's tip, with the tags that lead there.
Cloned(url, tip, by) ==
  [is |-> "clone", url |-> url, head |-> tip, on |-> Branch, main |-> tip, seen |-> tip,
   objs |-> tip, tags |-> tip, dirty |-> FALSE, half |-> FALSE, by |-> by]

\* The run of a process that cloned a tree, or the user who put it there.
ByUser == <<"user", 0>>

\* What shutil.rmtree leaves of a clone when it ends half way: files are missing,
\* the header among them, and the repository may be there or not.
Part(t) == t.is \in {"clone", "plain"} /\ t.half
Remains(t) == {[t EXCEPT !.is = k, !.half = TRUE, !.dirty = TRUE] : k \in {"clone", "plain"}}

\* What an unknown ref leads to.
NoCommit == 0

_is_git_work_tree(t) == t.is \in {"clone", "worktree"}
_is_linked_git_worktree(t) == t.is = "worktree"
_is_dirty(t) == t.dirty
_current_commit(t) == t.head
_current_branch(t) == t.on

IsTag(t, ref)    == ref \in DOMAIN Tags /\ Tags[ref] <= t.tags
IsBranch(t, ref) == ref = Branch

\* _rev_parse_verify: the commit a ref names here, if it is known here.
Resolved(t, ref) ==
  IF IsTag(t, ref) THEN Tags[ref]
  ELSE IF IsBranch(t, ref) THEN t.main
  ELSE IF ref \in DOMAIN Shas /\ Shas[ref] <= t.objs THEN Shas[ref]
  ELSE NoCommit

CommitOf(ref, tip) == IF ref \in DOMAIN Tags THEN Tags[ref]
                      ELSE IF ref \in DOMAIN Shas THEN Shas[ref] ELSE tip

\* `git fetch origin <ref>`: the objects come; the tracking branch moves when the
\* branch is what was asked for, and no tag is made.
GitFetch(t, ref, tip) ==
  [t EXCEPT !.objs = IF @ < CommitOf(ref, tip) THEN CommitOf(ref, tip) ELSE @,
            !.seen = IF ref = Branch THEN tip ELSE @]

GitCheckout(t, ref) == [t EXCEPT !.head = Resolved(t, ref),
                                 !.on = IF IsTag(t, ref) \/ ~IsBranch(t, ref) THEN None ELSE Branch]

\* `git merge --ff-only origin/<branch>`
GitMerge(t) == [t EXCEPT !.head = t.seen, !.main = t.seen]

\* `git pull --ff-only`: fetch and fast-forward, and tags follow the branch.
GitPull(t, tip) == [t EXCEPT !.head = tip, !.main = tip, !.seen = tip, !.objs = tip, !.tags = tip]

\* Whether a command can succeed at all.
Possible(cmd, t, ref, tip) ==
  CASE cmd = "fetch"    -> CommitOf(ref, tip) <= tip
    [] cmd = "checkout" -> Resolved(t, ref) # NoCommit
    [] OTHER            -> TRUE

AfterCommand(cmd, t, ref, tip) ==
  CASE cmd = "fetch"    -> GitFetch(t, ref, tip)
    [] cmd = "checkout" -> GitCheckout(t, ref)
    [] cmd = "merge"    -> GitMerge(t)
    [] cmd = "pull"     -> GitPull(t, tip)
------------------------------------------------------------------------------
\* What a handler decides: commands to run, or an error.
Do(cmds) == [ok |-> TRUE, cmds |-> cmds]
Refuse   == [ok |-> FALSE, cmds |-> << >>]

_checkout_immutable(t, ref, no_fetch) ==
  LET known == Resolved(t, ref)
  IN  IF known # NoCommit /\ known = _current_commit(t) THEN Do(<< >>)
      ELSE IF _is_dirty(t) THEN Refuse
      ELSE IF known # NoCommit THEN Do(<<"checkout">>)
      ELSE IF no_fetch THEN Refuse
      ELSE Do(<<"fetch", "checkout">>)

_handle_branch(t, no_fetch, update) ==
  IF ~update THEN Do(<< >>)
  ELSE IF no_fetch \/ _is_dirty(t) THEN Refuse
  ELSE Do(<<"fetch", "checkout", "merge">>)

_handle_no_ref(t, no_fetch, update) ==
  IF ~update THEN Do(<< >>)
  ELSE IF no_fetch \/ _current_branch(t) = None \/ _is_dirty(t) THEN Refuse
  ELSE Do(<<"pull">>)

\* A linked worktree is used when it satisfies the declaration, never touched.
LinkedWorktree(t, ref, update) ==
  IF ~update /\ (ref = NoRef \/ (Resolved(t, ref) # NoCommit /\ Resolved(t, ref) = _current_commit(t)))
  THEN Do(<< >>) ELSE Refuse

_handle_present(t, ref, no_fetch, update) ==
  IF ~_is_git_work_tree(t) THEN IF update THEN Refuse ELSE Do(<< >>)
  ELSE IF _is_linked_git_worktree(t) THEN LinkedWorktree(t, ref, update)
  ELSE IF ref = NoRef THEN _handle_no_ref(t, no_fetch, update)
  ELSE IF IsTag(t, ref) \/ ~IsBranch(t, ref) THEN _checkout_immutable(t, ref, no_fetch)
  ELSE _handle_branch(t, no_fetch, update)

_clone_missing(no_fetch) == IF no_fetch THEN Refuse ELSE Do(<<"clone">>)

\* Mutant: the clone is moved into place before its ref is checked out.
RenamedFirst(t, ref) ==
  <<"rename">> \o (IF ref = NoRef THEN << >>
                  ELSE IF Resolved(t, ref) = NoCommit THEN <<"fetch", "checkout">> ELSE <<"checkout">>)

\* What follows a clone into the temporary sibling.
AfterClone(t, ref) ==
  (IF ref = NoRef THEN << >>
   ELSE IF Resolved(t, ref) = NoCommit THEN <<"fetch", "checkout">> ELSE <<"checkout">>)
  \o <<"rename">>

resolve_external(t, ref, no_fetch, update) ==
  IF t.is = "absent" THEN _clone_missing(no_fetch)
  ELSE _handle_present(t, ref, no_fetch, update)

\* Whether a tree is what a declaration asks for.
Satisfies(t, decl) ==
  /\ _is_git_work_tree(t) /\ t.url = decl.url
  /\ decl.ref \in DOMAIN Tags => t.head = Tags[decl.ref]
  /\ decl.ref \in DOMAIN Shas => t.head = Shas[decl.ref]
  /\ decl.ref \in {Branch, NoRef} => t.on = Branch
==============================================================================
