----------------------------- MODULE Fetch_proofs -----------------------------
(***************************************************************************)
(* For any number of processes and externals, and whatever is declared,    *)
(* published, failing or killed: what comes to a managed location is what  *)
(* was declared, and only a run that makes its own clone anew leaves parts *)
(* there; a run touches nothing but clean clones, and removes only its     *)
(* own.  The invariant follows a worker through its commands (Working) and *)
(* keeps a run's record of its clones true (Owned).                        *)
(***************************************************************************)
EXTENDS Fetch, FiniteSetTheorems, WellFoundedInduction, TLAPS

RunFields == {"pc", "round", "runs", "resolved", "fresh", "alone"}
WorkFields == {"at", "cmds", "existed"}

\* The commands still to run in a temporary sibling, and in a managed tree.
TmpCmds == {<<"fetch", "checkout", "rename">>, <<"checkout", "rename">>, <<"rename">>}
TreeCmds == {<< >>, <<"checkout">>, <<"fetch", "checkout">>, <<"fetch", "checkout", "merge">>,
             <<"checkout", "merge">>, <<"merge">>, <<"pull">>}

Clean(t) == t.is = "clone" /\ DOMAIN t = TreeFields /\ ~t.dirty /\ ~t.half
Mine(t, p) == Clean(t) /\ t.by = <<p, proc[p].runs>>

Base ==
  /\ DOMAIN tree = Names /\ DOMAIN lock = Names
  /\ DOMAIN proc = Procs /\ DOMAIN work = Procs /\ DOMAIN tmp = Procs /\ DOMAIN scan = Procs
  /\ \A p \in Procs : DOMAIN proc[p] = RunFields /\ DOMAIN work[p] = Names /\ DOMAIN tmp[p] = Names
  /\ \A p \in Procs, n \in Names : DOMAIN work[p][n] = WorkFields
  /\ \A n \in Names : /\ tree[n].is \in {"absent", "plain", "worktree", "clone"}
                      /\ tree[n].is = "clone" => DOMAIN tree[n] = TreeFields /\ (tree[n].half => tree[n].dirty)

\* What is left to do in a clone leads to what its declaration asks for.
OnTheWay(t, cmds, decl) ==
  /\ t.url = decl.url /\ cmds # <<"pull">>
  /\ cmds \in {<< >>, <<"rename">>} => Satisfies(t, decl)
  /\ cmds \in {<<"fetch", "checkout", "merge">>, <<"checkout", "merge">>, <<"merge">>} => decl.ref = Branch
  /\ cmds = <<"merge">> => t.on = Branch

\* A worker has the lock; it removes what is left of a clone of the run's, clones
\* beside an empty place, or works in a clean clone, which is the run's own when the
\* run found nothing there.
Working(p, n) ==
  /\ lock[n] = p /\ proc[p].pc = "resolve"
  /\ \/ /\ work[p][n].cmds = <<"rmtree">> /\ tmp[p][n].is = "absent"
        /\ Part(tree[n]) /\ tree[n].by = <<p, proc[p].runs>>
     \/ work[p][n].cmds = <<"clone">> /\ tree[n].is = "absent" /\ tmp[p][n].is = "absent"
     \/ /\ work[p][n].cmds \in TmpCmds /\ tree[n].is = "absent" /\ Mine(tmp[p][n], p)
        /\ OnTheWay(tmp[p][n], work[p][n].cmds, scan[p].declared[n])
     \/ /\ work[p][n].cmds \in TreeCmds /\ tmp[p][n].is = "absent"
        /\ work[p][n].cmds # << >> => Clean(tree[n])
        /\ n \in proc[p].fresh \/ ~work[p][n].existed => Mine(tree[n], p)

\* A run's clones are its own, but for those it is making anew or has failed to.
Owned(p, n) ==
  n \in proc[p].fresh =>
    /\ proc[p].pc = "scan" => Mine(tree[n], p)
    /\ proc[p].pc = "resolve" /\ work[p][n].at \notin {"running", "failed"} => Mine(tree[n], p)

WorkInv(p, n) ==
  /\ work[p][n].at = "running" => Working(p, n)
  /\ work[p][n].at # "running" /\ Running(p) => tmp[p][n].is = "absent"
  /\ proc[p].pc = "resolve" /\ work[p][n].at # "none" => n \in Range(scan[p].new)
  /\ Owned(p, n)

FetchInv == Base /\ \A p \in Procs, n \in Names : WorkInv(p, n)

------------------------------------------------------------------------------
(* What the handlers decide, and what git does                              *)

LEMMA HeadsAndTails ==
  /\ Head(<<"rename">>) = "rename" /\ Tail(<<"rename">>) = << >>
  /\ Head(<<"checkout", "rename">>) = "checkout" /\ Tail(<<"checkout", "rename">>) = <<"rename">>
  /\ Head(<<"fetch", "checkout", "rename">>) = "fetch" /\ Tail(<<"fetch", "checkout", "rename">>) = <<"checkout", "rename">>
  /\ Head(<<"checkout">>) = "checkout" /\ Tail(<<"checkout">>) = << >>
  /\ Head(<<"merge">>) = "merge" /\ Tail(<<"merge">>) = << >>
  /\ Head(<<"pull">>) = "pull" /\ Tail(<<"pull">>) = << >>
  /\ Head(<<"checkout", "merge">>) = "checkout" /\ Tail(<<"checkout", "merge">>) = <<"merge">>
  /\ Head(<<"fetch", "checkout">>) = "fetch" /\ Tail(<<"fetch", "checkout">>) = <<"checkout">>
  /\ Head(<<"fetch", "checkout", "merge">>) = "fetch" /\ Tail(<<"fetch", "checkout", "merge">>) = <<"checkout", "merge">>
  OBVIOUS

LEMMA NoneIsDone ==
  /\ <<"rename">> # << >> /\ <<"checkout", "rename">> # << >> /\ <<"fetch", "checkout", "rename">> # << >>
  OBVIOUS

LEMMA TmpTail ==
  ASSUME NEW c \in TmpCmds
  PROVE  /\ c # << >> /\ Head(c) \in {"fetch", "checkout", "rename"}
         /\ Head(c) = "rename" => Tail(c) = << >>
         /\ Head(c) # "rename" => Tail(c) \in TmpCmds
  <1>1. CASE c = <<"rename">>
    BY <1>1, HeadsAndTails, NoneIsDone
  <1>2. CASE c = <<"checkout", "rename">>
    BY <1>2, HeadsAndTails, NoneIsDone DEF TmpCmds
  <1>3. CASE c = <<"fetch", "checkout", "rename">>
    BY <1>3, HeadsAndTails, NoneIsDone DEF TmpCmds
  <1> QED  BY <1>1, <1>2, <1>3 DEF TmpCmds

LEMMA TreeTail ==
  ASSUME NEW c \in TreeCmds, c # << >>
  PROVE  Head(c) \in {"fetch", "checkout", "merge", "pull"} /\ Tail(c) \in TreeCmds
  <1>1. CASE c \in {<<"checkout">>, <<"merge">>, <<"pull">>}
    <2>1. Tail(c) = << >> /\ Head(c) \in {"checkout", "merge", "pull"}
      BY <1>1, HeadsAndTails
    <2> QED  BY <2>1 DEF TreeCmds
  <1>2. CASE c = <<"fetch", "checkout">>
    BY <1>2, HeadsAndTails DEF TreeCmds
  <1>3. CASE c = <<"checkout", "merge">>
    BY <1>3, HeadsAndTails DEF TreeCmds
  <1>4. CASE c = <<"fetch", "checkout", "merge">>
    BY <1>4, HeadsAndTails DEF TreeCmds
  <1> QED  BY <1>1, <1>2, <1>3, <1>4 DEF TreeCmds

LEMMA CloneHead ==
  /\ <<"clone">> # << >> /\ Head(<<"clone">>) = "clone"
  /\ <<"rmtree">> # << >> /\ Head(<<"rmtree">>) = "rmtree"
  OBVIOUS

\* What is left of a clone is no clean one, whoever's.
LEMMA PartIsNone ==
  ASSUME NEW t, Clean(t), NEW part \in Remains(t)
  PROVE  /\ Part(part) /\ part.by = t.by /\ part.is \in {"plain", "clone"}
         /\ DOMAIN part = TreeFields /\ part.dirty /\ ~Clean(part) /\ ~Part(t)
  BY DEF Remains, Part, Clean, TreeFields

\* The handlers touch a clean clone, clone what is absent, and nothing else.
LEMMA Decided ==
  ASSUME NEW t, NEW ref, NEW no_fetch \in BOOLEAN, NEW update \in BOOLEAN,
         t.is \in {"absent", "plain", "worktree", "clone"},
         t.is = "clone" => DOMAIN t = TreeFields /\ (t.half => t.dirty),
         NEW plan, plan = resolve_external(t, ref, no_fetch, update), plan.ok
  PROVE  IF t.is = "absent" THEN plan.cmds = <<"clone">>
         ELSE plan.cmds \in TreeCmds /\ (plan.cmds # << >> => Clean(t))
  <1> USE DEF Do, Refuse, TreeCmds, Clean
  <1>1. CASE t.is = "absent"
    BY <1>1 DEF resolve_external, _clone_missing
  <1>2. CASE t.is # "absent"
    <2>1. plan = _handle_present(t, ref, no_fetch, update)
      BY <1>2 DEF resolve_external
    <2>2. CASE t.is = "clone"
      <3>1. \/ plan = _handle_no_ref(t, no_fetch, update)
            \/ plan = _checkout_immutable(t, ref, no_fetch)
            \/ plan = _handle_branch(t, no_fetch, update)
        BY <2>1, <2>2 DEF _handle_present, _is_git_work_tree, _is_linked_git_worktree
      <3>2. CASE plan = _handle_no_ref(t, no_fetch, update)
        BY <2>2, <3>2 DEF _handle_no_ref, _is_dirty
      <3>3. CASE plan = _checkout_immutable(t, ref, no_fetch)
        BY <2>2, <3>3 DEF _checkout_immutable, _is_dirty
      <3>4. CASE plan = _handle_branch(t, no_fetch, update)
        BY <2>2, <3>4 DEF _handle_branch, _is_dirty
      <3> QED  BY <3>1, <3>2, <3>3, <3>4
    <2>3. CASE t.is = "worktree"
      BY <2>1, <2>3 DEF _handle_present, _is_git_work_tree, _is_linked_git_worktree, LinkedWorktree
    <2>4. CASE t.is = "plain"
      BY <2>1, <2>4 DEF _handle_present, _is_git_work_tree
    <2> QED  BY <1>2, <2>2, <2>3, <2>4
  <1> QED  BY <1>1, <1>2

LEMMA AfterCloneCmds ==
  ASSUME NEW t, NEW ref  PROVE AfterClone(t, ref) \in TmpCmds
  <1>1. AfterClone(t, ref) \in {<< >> \o <<"rename">>, <<"fetch", "checkout">> \o <<"rename">>, <<"checkout">> \o <<"rename">>}
    BY DEF AfterClone
  <1> QED  BY <1>1 DEF TmpCmds

\* A command changes neither what a tree is, nor whose, nor whether it is whole.
LEMMA CommandKeeps ==
  ASSUME NEW t, t.is = "clone", DOMAIN t = TreeFields, NEW cmd \in {"fetch", "checkout", "merge", "pull"},
         NEW ref, NEW now, NEW t2, t2 = AfterCommand(cmd, t, ref, now)
  PROVE  /\ t2.is = "clone" /\ DOMAIN t2 = TreeFields
         /\ t2.dirty = t.dirty /\ t2.half = t.half /\ t2.by = t.by
  <1> USE DEF TreeFields
  <1>1. CASE cmd = "fetch"
    BY <1>1 DEF AfterCommand, GitFetch
  <1>2. CASE cmd = "checkout"
    BY <1>2 DEF AfterCommand, GitCheckout
  <1>3. CASE cmd = "merge"
    BY <1>3 DEF AfterCommand, GitMerge
  <1>4. CASE cmd = "pull"
    BY <1>4 DEF AfterCommand, GitPull
  <1> QED  BY <1>1, <1>2, <1>3, <1>4

LEMMA Lists ==
  /\ <<"checkout">> \notin {<< >>, <<"rename">>, <<"merge">>, <<"pull">>, <<"checkout", "merge">>, <<"fetch", "checkout", "merge">>}
  /\ <<"checkout", "rename">> \notin {<< >>, <<"rename">>, <<"merge">>, <<"pull">>, <<"checkout", "merge">>, <<"fetch", "checkout", "merge">>}
  /\ <<"fetch", "checkout">> \notin {<< >>, <<"rename">>, <<"merge">>, <<"pull">>, <<"checkout", "merge">>, <<"fetch", "checkout", "merge">>}
  /\ <<"fetch", "checkout", "rename">> \notin {<< >>, <<"rename">>, <<"merge">>, <<"pull">>, <<"checkout", "merge">>, <<"fetch", "checkout", "merge">>}
  /\ <<"checkout", "merge">> \notin {<< >>, <<"rename">>, <<"merge">>, <<"pull">>}
  /\ <<"fetch", "checkout", "merge">> \notin {<< >>, <<"rename">>, <<"merge">>, <<"pull">>}
  /\ << >> \notin {<<"merge">>, <<"pull">>, <<"rename">>, <<"checkout", "merge">>, <<"fetch", "checkout", "merge">>}
  /\ <<"rename">> \notin {<<"merge">>, <<"pull">>, << >>, <<"checkout", "merge">>, <<"fetch", "checkout", "merge">>}
  /\ <<"merge">> \notin {<< >>, <<"pull">>, <<"rename">>}
  /\ <<"clone">> \notin TmpCmds \cup TreeCmds /\ <<"rmtree">> \notin TmpCmds \cup TreeCmds \cup {<<"clone">>}
  /\ TmpCmds \cap TreeCmds = {}
<1>1. \A c \in TmpCmds \cup TreeCmds : c # << >> => Head(c) \notin {"clone", "rmtree"}
  BY CloneHead, TmpTail, TreeTail
<1>2. TmpCmds \cap TreeCmds = {}
  BY DEF TmpCmds, TreeCmds
<1>3. <<"clone">> \notin TmpCmds \cup TreeCmds /\ <<"rmtree">> \notin TmpCmds \cup TreeCmds \cup {<<"clone">>}
  BY <1>1, CloneHead
<1> QED  BY <1>2, <1>3

\* A commit that a tag or SHA of a declaration leads to is the one it names, and only
\* the branch leaves HEAD on the branch.
LEMMA CheckedOut ==
  ASSUME NEW t, t.is = "clone", NEW decl, t.url = decl.url, Resolved(t, decl.ref) # NoCommit,
         decl.ref = NoRef \/ decl.ref = Branch => t.on = Branch,
         decl.ref # Branch => t.head = Resolved(t, decl.ref)
  PROVE  Satisfies(t, decl)
<1>1. decl.ref \in DOMAIN Tags => Resolved(t, decl.ref) = Tags[decl.ref]
  BY RefsAssumption DEF Resolved, IsTag, IsBranch
<1>2. decl.ref \in DOMAIN Shas => Resolved(t, decl.ref) = Shas[decl.ref]
  BY RefsAssumption DEF Resolved, IsTag, IsBranch
<1> QED  BY <1>1, <1>2, RefsAssumption DEF Satisfies, _is_git_work_tree

LEMMA CheckoutLeads ==
  ASSUME NEW t, t.is = "clone", DOMAIN t = TreeFields, NEW decl, t.url = decl.url,
         Possible("checkout", t, decl.ref, 0), NEW t2, t2 = GitCheckout(t, decl.ref)
  PROVE  Satisfies(t2, decl) /\ (decl.ref = Branch => t2.on = Branch)
<1>1. Resolved(t, decl.ref) # NoCommit
  BY DEF Possible
<1>2. /\ t2.is = "clone" /\ t2.url = t.url /\ t2.head = Resolved(t, decl.ref)
      /\ t2.on = IF IsTag(t, decl.ref) \/ ~IsBranch(t, decl.ref) THEN None ELSE Branch
      /\ t2.tags = t.tags /\ t2.main = t.main /\ t2.objs = t.objs
  BY DEF GitCheckout, TreeFields
<1>3. Resolved(t2, decl.ref) = Resolved(t, decl.ref)
  BY <1>2 DEF Resolved, IsTag, IsBranch
<1>4. decl.ref = Branch => t2.on = Branch
  BY <1>2, RefsAssumption DEF IsTag, IsBranch
<1>5. decl.ref = NoRef => decl.ref = Branch
  BY <1>1, RefsAssumption DEF Resolved, IsTag, IsBranch
<1> QED  BY <1>1, <1>2, <1>3, <1>4, <1>5, CheckedOut

\* Each command takes a clone one step further.
LEMMA CommandLeads ==
  ASSUME NEW t, t.is = "clone", DOMAIN t = TreeFields, NEW cmds \in TmpCmds \cup TreeCmds, cmds # << >>,
         Head(cmds) # "rename", NEW decl, OnTheWay(t, cmds, decl), NEW now,
         Possible(Head(cmds), t, decl.ref, now), NEW t2, t2 = AfterCommand(Head(cmds), t, decl.ref, now)
  PROVE  OnTheWay(t2, Tail(cmds), decl)
<1>1. CASE cmds \in {<<"fetch", "checkout", "rename">>, <<"fetch", "checkout">>, <<"fetch", "checkout", "merge">>}
  <2>1. Head(cmds) = "fetch" /\ t2 = GitFetch(t, decl.ref, now)
    BY <1>1, HeadsAndTails DEF AfterCommand
  <2>2. t2.url = decl.url
    BY <2>1 DEF GitFetch, OnTheWay, TreeFields
  <2>3. Tail(cmds) \in {<<"checkout", "rename">>, <<"checkout">>, <<"checkout", "merge">>}
    BY <1>1, HeadsAndTails
  <2>4. Tail(cmds) = <<"checkout", "merge">> => decl.ref = Branch
    BY <1>1, HeadsAndTails, Lists DEF OnTheWay
  <2> QED  BY <2>2, <2>3, <2>4, Lists DEF OnTheWay
<1>2. CASE cmds \in {<<"checkout", "rename">>, <<"checkout">>, <<"checkout", "merge">>}
  <2>1. Head(cmds) = "checkout" /\ t2 = GitCheckout(t, decl.ref)
    BY <1>2, HeadsAndTails DEF AfterCommand
  <2>2. Satisfies(t2, decl) /\ (decl.ref = Branch => t2.on = Branch) /\ t2.url = decl.url
    <3>1. Possible("checkout", t, decl.ref, 0)
      BY <2>1 DEF Possible
    <3>2. Satisfies(t2, decl) /\ (decl.ref = Branch => t2.on = Branch)
      BY <2>1, <3>1, CheckoutLeads DEF OnTheWay
    <3> QED  BY <3>2 DEF Satisfies
  <2>3. Tail(cmds) \in {<<"rename">>, << >>, <<"merge">>}
    BY <1>2, HeadsAndTails
  <2>4. Tail(cmds) = <<"merge">> => decl.ref = Branch
    BY <1>2, HeadsAndTails, Lists DEF OnTheWay
  <2> QED  BY <2>2, <2>3, <2>4, Lists DEF OnTheWay
<1>3. CASE cmds = <<"merge">>
  <2>1. t2 = GitMerge(t) /\ Tail(cmds) = << >>
    BY <1>3, HeadsAndTails DEF AfterCommand
  <2>2. t2.is = "clone" /\ t2.url = t.url /\ t2.on = t.on
    BY <2>1 DEF GitMerge, TreeFields
  <2>3. decl.ref = Branch /\ t.on = Branch
    BY <1>3 DEF OnTheWay
  <2>4. Satisfies(t2, decl) /\ t2.url = decl.url
    BY <2>2, <2>3, RefsAssumption DEF Satisfies, _is_git_work_tree, OnTheWay
  <2> QED  BY <2>1, <2>4, Lists DEF OnTheWay
<1>4. cmds # <<"pull">> /\ cmds # <<"rename">>
  BY HeadsAndTails DEF OnTheWay
<1> QED  BY <1>1, <1>2, <1>3, <1>4 DEF TmpCmds, TreeCmds

------------------------------------------------------------------------------
LEMMA InitFetch == Init => FetchInv
  <1> SUFFICES ASSUME Init  PROVE FetchInv
    OBVIOUS
  <1>1. Base
    BY WorldsAssumption DEF Init, Base, Idle, NoWork, RunFields, WorkFields
  <1>2. ASSUME NEW p \in Procs, NEW n \in Names  PROVE WorkInv(p, n)
    BY DEF Init, Idle, NoWork, WorkInv, Owned, Running, NoTree
  <1> QED  BY <1>1, <1>2 DEF FetchInv

------------------------------------------------------------------------------
(* Workers                                                                  *)

\* What a worker leaves alone: other places and other workers; and a run's own
\* clones stay its own under another's commands.
Local(p, n) ==
  /\ UNCHANGED scan /\ lock[n] \in {None, p}
  /\ \A m \in Names \ {n} : tree'[m] = tree[m] /\ lock'[m] = lock[m]
  /\ \A q \in Procs, m \in Names :
       q # p \/ m # n => /\ work'[q][m] = work[q][m] /\ tmp'[q][m] = tmp[q][m]
                         /\ m \in proc'[q].fresh <=> m \in proc[q].fresh
  /\ \A q \in Procs : proc'[q].pc = proc[q].pc /\ proc'[q].runs = proc[q].runs
  /\ \A q \in Procs \ {p} : Mine(tree[n], q) => Clean(tree'[n]) /\ tree'[n].by = tree[n].by

LEMMA OthersWork ==
  ASSUME FetchInv, NEW p \in Procs, NEW n \in Names, Local(p, n),
         NEW q \in Procs, NEW m \in Names, q # p \/ m # n
  PROVE  WorkInv(q, m)'
  <1>1. CASE m # n
    BY <1>1 DEF FetchInv, WorkInv, Owned, Working, Mine, Running, Local
  <1>2. CASE m = n /\ q # p
    <2>1. work[q][n].at # "running"
      BY <1>2, ProcsAssumption DEF FetchInv, WorkInv, Working, Local
    <2> QED  BY <1>2, <2>1 DEF FetchInv, WorkInv, Owned, Mine, Running, Local
  <1> QED  BY <1>1, <1>2

\* The process that works on a place.
LEMMA Worker1 ==
  ASSUME FetchInv, NEW p \in Procs, NEW n \in Names, Base', WorkInv(p, n)', Local(p, n)
  PROVE  FetchInv'
  BY OthersWork DEF FetchInv

LEMMA LockStep ==
  ASSUME FetchInv, NEW p \in Procs, NEW n \in Names, Lock(p, n)  PROVE FetchInv' /\ Local(p, n)
  <1> DEFINE mode == world.mode[p]
             plan == resolve_external(tree[n], Ref(p, n), mode = "no_fetch", mode = "update" \/ ForceUpdate(p, n))
  <1>1. /\ proc[p].pc = "resolve" /\ work[p][n].at = "queued" /\ lock[n] = None
        /\ lock' = [lock EXCEPT ![n] = IF plan.ok THEN p ELSE None]
        /\ work' = [work EXCEPT ![p][n] = [at |-> IF plan.ok THEN "running" ELSE "failed",
                                           cmds |-> plan.cmds, existed |-> ExistedBefore(p, n)]]
        /\ UNCHANGED <<tree, tmp, proc, scan>>
    BY DEF Lock, CanLock, Decide
  <1>2. n \in proc[p].fresh => Mine(tree[n], p)
    BY <1>1 DEF FetchInv, WorkInv, Owned
  <1>3. plan.ok => IF tree[n].is = "absent" THEN plan.cmds = <<"clone">>
                   ELSE plan.cmds \in TreeCmds /\ (plan.cmds # << >> => Clean(tree[n]))
    <2> HIDE DEF plan
    <2>1. PICK m, u \in BOOLEAN : m \in BOOLEAN /\ plan = resolve_external(tree[n], Ref(p, n), m, u)
      BY DEF plan
    <2>2. tree[n].is \in {"absent", "plain", "worktree", "clone"}
          /\ (tree[n].is = "clone" => DOMAIN tree[n] = TreeFields /\ (tree[n].half => tree[n].dirty))
      BY DEF FetchInv, Base
    <2> QED BY <2>1, <2>2, Decided
  <1>4. ExistedBefore(p, n) = (tree[n].is # "absent")
    BY DEF ExistedBefore
  <1> HIDE DEF plan, mode
  <1>5. Base'
    BY <1>1 DEF FetchInv, Base, WorkFields
  <1>6. WorkInv(p, n)'
    <2>1. tmp[p][n].is = "absent" /\ n \in Range(scan'[p].new)
      BY <1>1 DEF FetchInv, Base, WorkInv, Running
    <2>2. /\ work'[p][n].at = IF plan.ok THEN "running" ELSE "failed"
          /\ work'[p][n].cmds = plan.cmds /\ work'[p][n].existed = (tree[n].is # "absent")
          /\ lock'[n] = IF plan.ok THEN p ELSE None
      BY <1>1, <1>4 DEF FetchInv, Base
    <2>3. plan.ok => Working(p, n)'
      <3>1. CASE tree[n].is = "absent"
        BY <1>1, <1>3, <2>1, <2>2, <3>1 DEF Working
      <3>2. CASE tree[n].is # "absent"
        <4>1. (n \in proc[p].fresh => Mine(tree[n], p))'
          BY <1>1, <1>2 DEF Mine
        <4> QED  BY <1>1, <1>3, <2>1, <2>2, <3>2, <4>1 DEF Working
      <3> QED  BY <3>1, <3>2
    <2> QED  BY <1>1, <2>1, <2>2, <2>3 DEF WorkInv, Owned, Running
  <1>7. Local(p, n)
    BY <1>1 DEF Local, FetchInv, Base, Mine
  <1> QED  BY <1>5, <1>6, <1>7, Worker1

LEMMA LockToRemoveStep ==
  ASSUME FetchInv, NEW p \in Procs, NEW n \in Names, LockToRemove(p, n)  PROVE FetchInv' /\ Local(p, n)
  <1>1. /\ proc[p].pc = "resolve" /\ work[p][n].at = "queued" /\ lock[n] = None /\ n \in proc[p].fresh
        /\ lock' = [lock EXCEPT ![n] = p]
        /\ work' = [work EXCEPT ![p][n] = [at |-> "running", cmds |-> <<"rmtree">>, existed |-> TRUE]]
        /\ UNCHANGED <<tmp, proc, scan>>
    BY DEF LockToRemove, CanLock, ForceReclone
  <1>2. PICK part \in Remains(tree[n]) : tree' = [tree EXCEPT ![n] = part]
    BY DEF LockToRemove
  <1>3. Mine(tree[n], p)
    BY <1>1 DEF FetchInv, WorkInv, Owned
  <1>4. /\ Part(part) /\ part.by = <<p, proc[p].runs>> /\ part.is \in {"plain", "clone"}
        /\ DOMAIN part = TreeFields /\ part.dirty
    BY <1>3, PartIsNone DEF Mine
  <1>5. tree'[n] = part /\ \A m \in Names \ {n} : tree'[m] = tree[m]
    BY <1>2 DEF FetchInv, Base
  <1>6. Base'
    BY <1>1, <1>2, <1>4 DEF FetchInv, Base, WorkFields
  <1>7. WorkInv(p, n)'
    <2>1. tmp[p][n].is = "absent" /\ n \in Range(scan[p].new)
      BY <1>1 DEF FetchInv, Base, WorkInv, Running
    <2>2. work'[p][n].at = "running" /\ work'[p][n].cmds = <<"rmtree">> /\ lock'[n] = p
      BY <1>1 DEF FetchInv, Base
    <2>3. Working(p, n)'
      BY <1>1, <1>4, <1>5, <2>1, <2>2 DEF Working
    <2> QED  BY <1>1, <2>1, <2>2, <2>3 DEF WorkInv, Owned
  <1>8. Local(p, n)
    <2>1. \A q \in Procs \ {p} : ~Mine(tree[n], q)
      BY <1>3 DEF Mine
    <2> QED  BY <1>1, <1>5, <2>1 DEF Local, FetchInv, Base
  <1> QED  BY <1>6, <1>7, <1>8, Worker1

\* What a busy worker is about to do, and where.
LEMMA BusyAt ==
  ASSUME FetchInv, NEW p \in Procs, NEW n \in Names, Busy(p, n)
  PROVE  /\ work[p][n].at = "running" /\ Working(p, n) /\ work[p][n].cmds # << >>
         /\ \/ /\ Next1(p, n) = "rmtree" /\ Part(tree[n]) /\ tree[n].by = <<p, proc[p].runs>>
               /\ tmp[p][n].is = "absent"
            \/ Next1(p, n) = "clone" /\ tree[n].is = "absent" /\ tmp[p][n].is = "absent"
            \/ /\ work[p][n].cmds \in TmpCmds /\ Mine(tmp[p][n], p) /\ tree[n].is = "absent"
               /\ OnTheWay(tmp[p][n], work[p][n].cmds, scan[p].declared[n])
               /\ Next1(p, n) \notin {"rmtree", "clone"}
            \/ /\ work[p][n].cmds \in TreeCmds /\ Clean(tree[n]) /\ tmp[p][n].is = "absent"
               /\ Next1(p, n) \notin {"rmtree", "clone", "rename"}
  <1>1. work[p][n].at = "running" /\ Working(p, n) /\ work[p][n].cmds # << >>
    BY DEF Busy, FetchInv, WorkInv
  <1>2. work[p][n].cmds \in TmpCmds => Next1(p, n) \in {"fetch", "checkout", "rename"}
    BY TmpTail DEF Next1
  <1>3. work[p][n].cmds \in TreeCmds => Next1(p, n) \in {"fetch", "checkout", "merge", "pull"}
    BY <1>1, TreeTail DEF Next1
  <1>4. /\ work[p][n].cmds = <<"clone">> => Next1(p, n) = "clone"
        /\ work[p][n].cmds = <<"rmtree">> => Next1(p, n) = "rmtree"
    BY CloneHead DEF Next1
  <1> QED  BY <1>1, <1>2, <1>3, <1>4 DEF Working

LEMMA RemovedStep ==
  ASSUME FetchInv, NEW p \in Procs, NEW n \in Names, Removed(p, n)  PROVE FetchInv' /\ Local(p, n)
  <1> DEFINE mode == world.mode[p]
             plan == resolve_external(NoTree, Ref(p, n), mode = "no_fetch", mode = "update" \/ ForceUpdate(p, n))
  <1>1. /\ Busy(p, n) /\ Next1(p, n) = "rmtree" /\ UNCHANGED <<tmp, proc, scan>>
        /\ tree' = [tree EXCEPT ![n] = NoTree] /\ lock' = [lock EXCEPT ![n] = IF plan.ok THEN p ELSE None]
        /\ work' = [work EXCEPT ![p][n] = [at |-> IF plan.ok THEN "running" ELSE "failed",
                                           cmds |-> plan.cmds, existed |-> TRUE]]
    BY DEF Removed, Decide
  <1>2. plan.ok => plan.cmds = <<"clone">>
    BY DEF resolve_external, _clone_missing, NoTree, Do, Refuse
  <1> HIDE DEF plan, mode
  <1>3. /\ work[p][n].at = "running" /\ lock[n] = p /\ proc[p].pc = "resolve"
        /\ Part(tree[n]) /\ tmp[p][n].is = "absent"
    <2>1. work[p][n].at = "running" /\ Working(p, n)
      BY <1>1, BusyAt
    <2>2. Part(tree[n]) /\ tmp[p][n].is = "absent"
      BY <1>1, BusyAt
    <2> QED  BY <2>1, <2>2 DEF Working
  <1>4. tree'[n] = NoTree /\ \A m \in Names \ {n} : tree'[m] = tree[m]
    BY <1>1 DEF FetchInv, Base
  <1>5. Base'
    BY <1>1, <1>4 DEF FetchInv, Base, WorkFields, NoTree
  <1>6. WorkInv(p, n)'
    <2>1. /\ work'[p][n].at = IF plan.ok THEN "running" ELSE "failed"
          /\ work'[p][n].cmds = plan.cmds /\ lock'[n] = IF plan.ok THEN p ELSE None
      BY <1>1 DEF FetchInv, Base
    <2>2. plan.ok => Working(p, n)'
      BY <1>1, <1>2, <1>3, <1>4, <2>1 DEF Working, NoTree
    <2>3. n \in Range(scan[p].new)
      BY <1>3 DEF FetchInv, WorkInv
    <2> QED  BY <1>1, <1>3, <2>1, <2>2, <2>3 DEF WorkInv, Owned
  <1>7. Local(p, n)
    <2>1. \A q \in Procs : ~Mine(tree[n], q)
      BY <1>3 DEF Mine, Clean, Part
    <2> QED  BY <1>1, <1>3, <1>4, <2>1 DEF Local, FetchInv, Base
  <1> QED  BY <1>5, <1>6, <1>7, Worker1

\* A clone has what its declaration asks for when nothing more is to be done in it.
LEMMA CloneLeads ==
  ASSUME NEW decl, NEW upto, NEW by, NEW made, made = Cloned(decl.url, upto, by)
  PROVE  OnTheWay(made, AfterClone(made, decl.ref), decl)
<1>1. made.is = "clone" /\ made.url = decl.url /\ made.on = Branch
  BY DEF Cloned
<1>2. AfterClone(made, decl.ref) = <<"rename">> => decl.ref = NoRef
  <2>1. decl.ref # NoRef => \E c \in {<<"fetch", "checkout">>, <<"checkout">>} :
                              AfterClone(made, decl.ref) = c \o <<"rename">>
    BY DEF AfterClone
  <2>2. \A c \in {<<"fetch", "checkout">>, <<"checkout">>} : Len(c \o <<"rename">>) # 1
    OBVIOUS
  <2> QED  BY <2>1, <2>2
<1>3. decl.ref = NoRef => Satisfies(made, decl)
  BY <1>1, RefsAssumption DEF Satisfies, _is_git_work_tree
<1>4. AfterClone(made, decl.ref) \in TmpCmds
  BY AfterCloneCmds
<1> HIDE DEF AfterClone
<1> QED  BY <1>1, <1>2, <1>3, <1>4, Lists DEF OnTheWay, TmpCmds

LEMMA CloneStep ==
  ASSUME FetchInv, NEW p \in Procs, NEW n \in Names, Clone(p, n)  PROVE FetchInv' /\ Local(p, n)
  <1>1. PICK made : /\ made = Cloned(Url(p, n), tip[Url(p, n)], <<p, proc[p].runs>>)
                    /\ tmp' = [tmp EXCEPT ![p][n] = made]
                    /\ work' = [work EXCEPT ![p][n].cmds = AfterClone(made, Ref(p, n))]
    BY DEF Clone
  <1>2. Busy(p, n) /\ Next1(p, n) = "clone" /\ UNCHANGED <<tree, lock, proc, scan>>
    BY DEF Clone
  <1>3. work[p][n].at = "running" /\ Working(p, n) /\ tree[n].is = "absent"
    BY <1>2, BusyAt DEF Mine
  <1>4. /\ Mine(made, p) /\ AfterClone(made, Ref(p, n)) \in TmpCmds
        /\ OnTheWay(made, AfterClone(made, Ref(p, n)), scan[p].declared[n])
    <2>1. Mine(made, p) /\ AfterClone(made, Ref(p, n)) \in TmpCmds
      BY <1>1, AfterCloneCmds DEF Mine, Clean, Cloned, TreeFields
    <2> QED  BY <1>1, <2>1, CloneLeads DEF Url, Ref
  <1>5. Base'
    BY <1>1, <1>2 DEF FetchInv, Base, WorkFields
  <1>6. WorkInv(p, n)'
    <2>1. /\ tmp'[p][n] = made /\ work'[p][n].at = "running"
          /\ work'[p][n].cmds = AfterClone(made, Ref(p, n))
      BY <1>1, <1>3 DEF FetchInv, Base, WorkFields
    <2>2. Working(p, n)'
      BY <1>2, <1>3, <1>4, <2>1 DEF Working, Mine
    <2> QED  BY <1>2, <1>3, <2>1, <2>2 DEF FetchInv, WorkInv, Owned, Working
  <1>7. Local(p, n)
    BY <1>1, <1>2, <1>3 DEF Local, FetchInv, Base, Working, Mine
  <1> QED  BY <1>5, <1>6, <1>7, Worker1

LEMMA RenameStep ==
  ASSUME FetchInv, NEW p \in Procs, NEW n \in Names, Rename(p, n)  PROVE FetchInv' /\ Local(p, n)
  <1>1. /\ Busy(p, n) /\ Next1(p, n) = "rename" /\ UNCHANGED <<lock, proc, scan>>
        /\ tree' = [tree EXCEPT ![n] = Site(p, n)]
        /\ tmp' = [tmp EXCEPT ![p][n] = NoTree] /\ work' = [work EXCEPT ![p][n].cmds = Tail(@)]
    BY DEF Rename
  <1>2. /\ work[p][n].at = "running" /\ Working(p, n) /\ tree[n].is = "absent"
        /\ work[p][n].cmds \in TmpCmds /\ Mine(tmp[p][n], p)
    BY <1>1, BusyAt
  <1>3. Tail(work[p][n].cmds) = << >>
    BY <1>1, <1>2, TmpTail DEF Next1
  <1>4. PICK made : made = tmp[p][n] /\ tree' = [tree EXCEPT ![n] = made]
    BY <1>1, <1>2 DEF Site, Mine, Clean
  <1>5. Mine(made, p)
    BY <1>2, <1>4
  <1>6. /\ \A m \in Names : tree'[m] = IF m = n THEN made ELSE tree[m]
        /\ DOMAIN tree' = Names
    BY <1>4 DEF FetchInv, Base
  <1>7. /\ tmp'[p][n] = NoTree /\ work'[p][n].at = "running" /\ work'[p][n].cmds = << >>
        /\ DOMAIN tmp' = Procs /\ DOMAIN work' = Procs
        /\ \A q \in Procs : DOMAIN tmp'[q] = Names /\ DOMAIN work'[q] = Names
        /\ \A q \in Procs, m \in Names : DOMAIN work'[q][m] = WorkFields
        /\ \A q \in Procs, m \in Names : q # p \/ m # n => work'[q][m] = work[q][m] /\ tmp'[q][m] = tmp[q][m]
    BY <1>1, <1>2, <1>3 DEF FetchInv, Base, WorkFields
  <1>8. lock' = lock /\ proc' = proc /\ scan' = scan
    BY <1>1
  <1>9. Base'
    BY <1>5, <1>6, <1>7, <1>8 DEF FetchInv, Base, Mine, Clean
  <1>10. WorkInv(p, n)'
    <2>1. Mine(tree[n], p)'
      BY <1>5, <1>6, <1>8 DEF Mine
    <2>2. Working(p, n)'
      BY <1>2, <1>7, <1>8, <2>1 DEF Working, NoTree, TreeCmds
    <2> QED  BY <1>7, <1>8, <2>1, <2>2, <1>2 DEF FetchInv, WorkInv, Owned
  <1>11. Local(p, n)
    BY <1>2, <1>6, <1>7, <1>8 DEF Local, Working, Mine, Clean
  <1> QED  BY <1>9, <1>10, <1>11, Worker1

LEMMA RunGitStep ==
  ASSUME FetchInv, NEW p \in Procs, NEW n \in Names, RunGit(p, n)  PROVE FetchInv' /\ Local(p, n)
  <1> DEFINE now == tip[Site(p, n).url]
  <1>1. PICK after :
          /\ after = AfterCommand(Next1(p, n), Site(p, n), Ref(p, n), now)
          /\ IF tmp[p][n].is # "absent"
             THEN tmp' = [tmp EXCEPT ![p][n] = after] /\ tree' = tree
             ELSE tree' = [tree EXCEPT ![n] = after] /\ tmp' = tmp
    BY DEF RunGit
  <1> HIDE DEF now
  <1>2. /\ Busy(p, n) /\ Next1(p, n) \notin {"rmtree", "clone", "rename"} /\ UNCHANGED <<lock, proc, scan>>
        /\ work' = [work EXCEPT ![p][n].cmds = Tail(@)]
    BY DEF RunGit
  <1>3. /\ work[p][n].at = "running" /\ Working(p, n) /\ work[p][n].cmds # << >>
        /\ \/ /\ work[p][n].cmds \in TmpCmds /\ Mine(tmp[p][n], p) /\ tree[n].is = "absent"
              /\ OnTheWay(tmp[p][n], work[p][n].cmds, scan[p].declared[n])
           \/ work[p][n].cmds \in TreeCmds /\ Clean(tree[n]) /\ tmp[p][n].is = "absent"
    BY <1>2, BusyAt
  <1>4. /\ work'[p][n].at = "running" /\ work'[p][n].cmds = Tail(work[p][n].cmds)
        /\ work'[p][n].existed = work[p][n].existed
    BY <1>2, <1>3 DEF FetchInv, Base, WorkFields
  <1>5. CASE /\ work[p][n].cmds \in TmpCmds /\ Mine(tmp[p][n], p) /\ tree[n].is = "absent"
             /\ OnTheWay(tmp[p][n], work[p][n].cmds, scan[p].declared[n])
    <2>1. /\ Tail(work[p][n].cmds) \in TmpCmds /\ tmp' = [tmp EXCEPT ![p][n] = after] /\ tree' = tree
          /\ Mine(after, p)
      <3>1. Next1(p, n) \in {"fetch", "checkout"} /\ Tail(work[p][n].cmds) \in TmpCmds
        BY <1>2, <1>5, TmpTail DEF Next1
      <3>2. tmp' = [tmp EXCEPT ![p][n] = after] /\ tree' = tree  BY <1>1, <1>5 DEF Mine, Clean
      <3>3. after = AfterCommand(Next1(p, n), tmp[p][n], Ref(p, n), now)
        BY <1>1, <1>5 DEF Site, Mine, Clean
      <3> QED  BY <1>5, <3>1, <3>2, <3>3, CommandKeeps DEF Mine, Clean
    <2>5. OnTheWay(after, Tail(work[p][n].cmds), scan[p].declared[n])
      <3>1. Possible(Next1(p, n), tmp[p][n], Ref(p, n), now)
        BY <1>5 DEF RunGit, Site, Mine, Clean, now
      <3>2. after = AfterCommand(Next1(p, n), tmp[p][n], Ref(p, n), now)
        BY <1>1, <1>5 DEF Site, Mine, Clean
      <3> QED  BY <1>2, <1>3, <1>5, <3>1, <3>2, CommandLeads DEF Next1, Ref, Mine, Clean
    <2>2. Base'
      BY <1>2, <2>1 DEF FetchInv, Base, WorkFields
    <2>3. WorkInv(p, n)'
      <3>1. tmp'[p][n] = after
        BY <2>1 DEF FetchInv, Base
      <3>2. Working(p, n)'
        BY <1>2, <1>3, <1>4, <1>5, <2>1, <2>5, <3>1 DEF Working, Mine
      <3> QED  BY <1>2, <1>3, <1>4, <3>2 DEF FetchInv, WorkInv, Owned, Working
    <2>4. Local(p, n)
      BY <1>2, <1>3, <2>1 DEF Local, FetchInv, Base, Working, Mine
    <2> QED  BY <2>2, <2>3, <2>4, Worker1
  <1>6. CASE work[p][n].cmds \in TreeCmds /\ Clean(tree[n]) /\ tmp[p][n].is = "absent"
    <2>1. /\ Tail(work[p][n].cmds) \in TreeCmds /\ Next1(p, n) \in {"fetch", "checkout", "merge", "pull"}
          /\ tree' = [tree EXCEPT ![n] = after] /\ tmp' = tmp
      BY <1>1, <1>2, <1>3, <1>6, TreeTail DEF Next1
    <2>2. Clean(after) /\ after.by = tree[n].by /\ after.half = tree[n].half
      BY <1>1, <1>6, <2>1, CommandKeeps DEF Site, Clean
    <2>3. Base'
      BY <1>2, <1>6, <2>1, <2>2 DEF FetchInv, Base, WorkFields, Clean
    <2>4. tree'[n] = after
      BY <2>1 DEF FetchInv, Base
    <2>5. WorkInv(p, n)'
      <3>1. n \in proc[p].fresh \/ ~work[p][n].existed => Mine(tree[n], p)
        BY <1>3, <1>6, Lists DEF Working
      <3>2. (n \in proc[p].fresh \/ ~work[p][n].existed => Mine(tree[n], p))'
        BY <1>2, <1>4, <2>2, <2>4, <3>1 DEF Mine
      <3>3. lock[n] = p /\ proc[p].pc = "resolve"
        BY <1>3 DEF Working
      <3> QED  BY <1>2, <1>3, <1>4, <1>6, <2>1, <2>2, <2>4, <3>2, <3>3 DEF FetchInv, WorkInv, Owned, Working
    <2>6. Local(p, n)
      BY <1>2, <1>3, <2>1, <2>2, <2>4 DEF Local, FetchInv, Base, Working
    <2> QED  BY <2>3, <2>5, <2>6, Worker1
  <1> QED  BY <1>3, <1>5, <1>6

LEMMA GitFailsStep ==
  ASSUME FetchInv, NEW p \in Procs, NEW n \in Names, GitFails(p, n)  PROVE FetchInv' /\ Local(p, n)
  <1>1. /\ Busy(p, n) /\ UNCHANGED <<tree, proc, scan>>
        /\ tmp' = [tmp EXCEPT ![p][n] = NoTree] /\ lock' = [lock EXCEPT ![n] = None]
        /\ work' = [work EXCEPT ![p][n] = [NoWork EXCEPT !.at = "failed"]]
    BY DEF GitFails
  <1>2. work[p][n].at = "running" /\ Working(p, n)
    BY <1>1, BusyAt
  <1>3. Base'
    BY <1>1 DEF FetchInv, Base, NoWork, WorkFields
  <1>4. tmp'[p][n].is = "absent" /\ work'[p][n].at = "failed"
    BY <1>1 DEF FetchInv, Base, NoWork, NoTree
  <1>5. WorkInv(p, n)'
    BY <1>1, <1>2, <1>4 DEF FetchInv, WorkInv, Owned, Working
  <1>6. Local(p, n)
    BY <1>1, <1>2 DEF Local, FetchInv, Base, Working, Mine
  <1> QED  BY <1>3, <1>5, <1>6, Worker1

LEMMA UnlockStep ==
  ASSUME FetchInv, NEW p \in Procs, NEW n \in Names, Unlock(p, n)  PROVE FetchInv' /\ Local(p, n)
  <1>1. /\ work[p][n].at = "running" /\ work[p][n].cmds = << >> /\ UNCHANGED <<tree, tmp, scan>>
        /\ lock' = [lock EXCEPT ![n] = None] /\ work' = [work EXCEPT ![p][n].at = "ok"]
        /\ proc' = [proc EXCEPT ![p].fresh = IF work[p][n].existed THEN @ ELSE @ \cup {n}]
    BY DEF Unlock
  <1>2. lock[n] = p /\ proc[p].pc = "resolve" /\ tmp[p][n].is = "absent"
        /\ (n \in proc[p].fresh \/ ~work[p][n].existed => Mine(tree[n], p))
    <2>1. Working(p, n)
      BY <1>1 DEF FetchInv, WorkInv
    <2>2. work[p][n].cmds \notin {<<"rmtree">>, <<"clone">>} /\ work[p][n].cmds \notin TmpCmds
      BY <1>1, TmpTail, CloneHead
    <2> QED  BY <2>1, <2>2 DEF Working
  <1>3. Base'
    BY <1>1 DEF FetchInv, Base, RunFields, WorkFields
  <1>4. /\ work'[p][n].at = "ok" /\ proc'[p].pc = "resolve" /\ proc'[p].runs = proc[p].runs
        /\ n \in proc'[p].fresh <=> n \in proc[p].fresh \/ ~work[p][n].existed
    BY <1>1, <1>2 DEF FetchInv, Base, RunFields, WorkFields
  <1>5. WorkInv(p, n)'
    BY <1>1, <1>2, <1>4 DEF FetchInv, WorkInv, Owned, Mine, Running
  <1>6. Local(p, n)
    <2>1. /\ \A q \in Procs : proc'[q].pc = proc[q].pc /\ proc'[q].runs = proc[q].runs
          /\ \A q \in Procs, m \in Names : q # p \/ m # n => (m \in proc'[q].fresh <=> m \in proc[q].fresh)
      BY <1>1 DEF FetchInv, Base, RunFields
    <2> QED  BY <1>1, <1>2, <2>1 DEF Local, FetchInv, Base, Mine
  <1> QED  BY <1>3, <1>5, <1>6, Worker1

------------------------------------------------------------------------------
(* Runs                                                                     *)

\* A step of one run that leaves the places, and the other runs, alone.
LEMMA RunStep ==
  ASSUME FetchInv, NEW p \in Procs, Base', UNCHANGED tree,
         \A n \in Names : WorkInv(p, n)',
         \A q \in Procs \ {p} : /\ work'[q] = work[q] /\ tmp'[q] = tmp[q] /\ scan'[q] = scan[q]
                                /\ proc'[q].pc = proc[q].pc /\ proc'[q].runs = proc[q].runs
                                /\ proc'[q].fresh = proc[q].fresh
                                /\ \A n \in Names : lock[n] = q => lock'[n] = q
  PROVE  FetchInv'
  <1>1. ASSUME NEW q \in Procs \ {p}, NEW n \in Names  PROVE WorkInv(q, n)'
    BY DEF FetchInv, WorkInv, Owned, Working, Mine, Running
  <1> QED  BY <1>1 DEF FetchInv

LEMMA StartStep ==
  ASSUME FetchInv, NEW p \in Procs, Start(p)  PROVE FetchInv'
  <1>1. /\ ~Running(p) /\ UNCHANGED <<tree, lock, work>>
        /\ scan' = [scan EXCEPT ![p] = NothingDeclared] /\ tmp' = [tmp EXCEPT ![p] = [n \in Names |-> NoTree]]
    BY DEF Start
  <1>2. /\ DOMAIN proc' = Procs /\ \A q \in Procs : DOMAIN proc'[q] = RunFields
        /\ proc'[p].pc = "scan" /\ proc'[p].fresh = {}
        /\ \A q \in Procs \ {p} : /\ proc'[q].pc = proc[q].pc /\ proc'[q].runs = proc[q].runs
                                  /\ proc'[q].fresh = proc[q].fresh
    BY DEF Start, FetchInv, Base, RunFields, Idle
  <1>3. Base'
    BY <1>1, <1>2 DEF FetchInv, Base
  <1>4. ASSUME NEW n \in Names  PROVE WorkInv(p, n)'
    <2>1. work'[p][n].at # "running"
      BY <1>1 DEF FetchInv, WorkInv, Working, Running
    <2>2. tmp'[p][n].is = "absent"
      BY <1>1 DEF FetchInv, Base, NoTree
    <2> QED  BY <1>2, <2>1, <2>2 DEF WorkInv, Owned
  <1> QED  BY <1>1, <1>2, <1>3, <1>4, RunStep DEF FetchInv, Base

LEMMA ScanStep ==
  ASSUME FetchInv, NEW p \in Procs, Scan(p)  PROVE FetchInv'
  <1>1. PICK s :
          /\ scan' = [scan EXCEPT ![p] = s]
          /\ proc' = [proc EXCEPT ![p].pc = IF s.error THEN "failed" ELSE IF s.new = << >> THEN "done" ELSE "resolve"]
          /\ work' = [work EXCEPT ![p] = [n \in Names |-> IF ~s.error /\ n \in Range(s.new)
                                                          THEN [NoWork EXCEPT !.at = "queued"] ELSE NoWork]]
    BY DEF Scan
  <1>2. proc[p].pc = "scan" /\ UNCHANGED <<tree, lock, tmp>>
    BY DEF Scan
  <1>3. /\ \A n \in Names : /\ work'[p][n].at = IF ~s.error /\ n \in Range(s.new) THEN "queued" ELSE "none"
                            /\ DOMAIN work'[p][n] = WorkFields
        /\ DOMAIN work' = Procs /\ \A q \in Procs : DOMAIN work'[q] = Names
        /\ \A q \in Procs \ {p} : work'[q] = work[q] /\ scan'[q] = scan[q]
        /\ DOMAIN scan' = Procs /\ scan'[p] = s
    BY <1>1 DEF FetchInv, Base, NoWork, WorkFields
  <1>4. /\ DOMAIN proc' = Procs /\ \A q \in Procs : DOMAIN proc'[q] = RunFields
        /\ proc'[p].pc \in {"failed", "done", "resolve"} /\ proc'[p].runs = proc[p].runs
        /\ proc'[p].fresh = proc[p].fresh /\ \A q \in Procs \ {p} : proc'[q] = proc[q]
    BY <1>1 DEF FetchInv, Base, RunFields
  <1>5. Base'
    BY <1>2, <1>3, <1>4 DEF FetchInv, Base
  <1>6. ASSUME NEW n \in Names  PROVE WorkInv(p, n)'
    <2>1. work[p][n].at # "running" /\ tmp[p][n].is = "absent"
      BY <1>2 DEF FetchInv, WorkInv, Working, Running
    <2>2. n \in proc[p].fresh => Mine(tree[n], p)
      BY <1>2 DEF FetchInv, WorkInv, Owned
    <2> QED  BY <1>2, <1>3, <1>4, <2>1, <2>2 DEF WorkInv, Owned, Mine
  <1> QED  BY <1>2, <1>3, <1>4, <1>5, <1>6, RunStep

LEMMA CancelStep ==
  ASSUME FetchInv, NEW p \in Procs, CancelQueued(p)  PROVE FetchInv'
  <1>1. /\ UNCHANGED <<tree, lock, tmp, proc, scan>>
        /\ work' = [work EXCEPT ![p] = [n \in Names |-> IF work[p][n].at = "queued"
                                           THEN [NoWork EXCEPT !.at = "cancelled"] ELSE work[p][n]]]
    BY DEF CancelQueued, FetchInv, Base
  <1>2. /\ \A n \in Names : work'[p][n] = work[p][n] \/ (work[p][n].at = "queued" /\ work'[p][n].at = "cancelled")
        /\ \A n \in Names : DOMAIN work'[p][n] = WorkFields
        /\ DOMAIN work' = Procs /\ \A q \in Procs : DOMAIN work'[q] = Names
        /\ \A q \in Procs \ {p} : work'[q] = work[q]
    BY <1>1 DEF FetchInv, Base, NoWork, WorkFields
  <1>3. Base'
    BY <1>1, <1>2 DEF FetchInv, Base
  <1>4. ASSUME NEW n \in Names  PROVE WorkInv(p, n)'
    BY <1>1, <1>2 DEF FetchInv, WorkInv, Owned, Working, Mine, Running
  <1> QED  BY <1>1, <1>2, <1>3, <1>4, RunStep

LEMMA EndRoundStep ==
  ASSUME FetchInv, NEW p \in Procs, EndRound(p)  PROVE FetchInv'
  <1> DEFINE failed == \E n \in Range(scan[p].new) : work[p][n].at # "ok"
  <1>1. /\ proc[p].pc = "resolve" /\ \A n \in Range(scan[p].new) : Ended(p, n)
        /\ UNCHANGED <<tree, lock, tmp, scan, work>>
    BY DEF EndRound
  <1>2. /\ DOMAIN proc' = Procs /\ \A q \in Procs : DOMAIN proc'[q] = RunFields
        /\ proc'[p].pc \in {"failed", "scan"} /\ (failed => proc'[p].pc = "failed")
        /\ proc'[p].runs = proc[p].runs /\ proc'[p].fresh = proc[p].fresh
        /\ \A q \in Procs \ {p} : proc'[q] = proc[q]
    <2>1. \E a, b, c : proc' = [proc EXCEPT ![p].pc = a, ![p].round = b, ![p].resolved = c]
                       /\ a \in {"failed", "scan"} /\ (failed => a = "failed")
      BY DEF EndRound
    <2>2. DOMAIN proc = Procs /\ \A q \in Procs : DOMAIN proc[q] = RunFields
      BY DEF FetchInv, Base
    <2> HIDE DEF failed
    <2> QED BY <2>1, <2>2 DEF RunFields
  <1>3. Base'
    BY <1>1, <1>2 DEF FetchInv, Base
  <1>4. ASSUME NEW n \in Names  PROVE WorkInv(p, n)'
    <2>1. work[p][n].at # "running" /\ (work[p][n].at # "none" => n \in Range(scan[p].new))
      BY <1>1 DEF FetchInv, WorkInv, Ended
    <2>2. tmp[p][n].is = "absent"
      BY <1>1, <2>1 DEF FetchInv, WorkInv, Running
    <2>3. n \in proc[p].fresh /\ ~failed => Mine(tree[n], p)
      BY <1>1, <2>1 DEF FetchInv, WorkInv, Owned
    <2> QED  BY <1>1, <1>2, <2>1, <2>2, <2>3 DEF WorkInv, Owned, Mine
  <1> QED  BY <1>1, <1>2, <1>3, <1>4, RunStep

LEMMA KillStep ==
  ASSUME FetchInv, NEW p \in Procs, Kill(p)  PROVE FetchInv'
  <1>1. /\ proc' = [proc EXCEPT ![p].pc = "killed"] /\ UNCHANGED <<tree, tmp, scan>>
        /\ lock' = [n \in Names |-> IF lock[n] = p THEN None ELSE lock[n]]
        /\ work' = [work EXCEPT ![p] = [n \in Names |-> NoWork]]
    BY DEF Kill
  <1>2. Base'
    BY <1>1 DEF FetchInv, Base, RunFields, WorkFields, NoWork
  <1>3. proc'[p].pc = "killed" /\ \A n \in Names : work'[p][n].at = "none"
    BY <1>1 DEF FetchInv, Base, RunFields, NoWork
  <1>4. ASSUME NEW n \in Names  PROVE WorkInv(p, n)'
    BY <1>3 DEF WorkInv, Owned, Running
  <1>5. \A q \in Procs \ {p} : work'[q] = work[q] /\ proc'[q] = proc[q]
    BY <1>1 DEF FetchInv, Base
  <1> QED  BY <1>1, <1>2, <1>4, <1>5, RunStep

THEOREM FetchInvariant == Spec => []FetchInv
  <1>1. FetchInv /\ [Next]_vars => FetchInv'
    <2> SUFFICES ASSUME FetchInv, [Next]_vars  PROVE FetchInv'
      OBVIOUS
    <2>1. ASSUME NEW p \in Procs, Start(p) \/ Step(p) \/ Kill(p)  PROVE FetchInv'
      BY <2>1, StartStep, ScanStep, CancelStep, EndRoundStep, KillStep DEF Step
    <2>2. ASSUME NEW p \in Procs, NEW n \in Names, Worker(p, n) \/ GitFails(p, n)  PROVE FetchInv'
      BY <2>2, LockStep, LockToRemoveStep, RemovedStep, CloneStep, RenameStep, RunGitStep, UnlockStep, GitFailsStep DEF Worker
    <2>3. CASE UNCHANGED <<tree, lock, tmp, proc, scan, work>>
      <3>1. Base'
        BY <2>3 DEF FetchInv, Base
      <3>2. ASSUME NEW p \in Procs, NEW n \in Names  PROVE WorkInv(p, n)'
        BY <2>3 DEF FetchInv, WorkInv, Owned, Working, Mine, Running
      <3> QED  BY <3>1, <3>2 DEF FetchInv
    <2>4. CASE \E u \in Urls : Publish(u)
      BY <2>3, <2>4 DEF Publish
    <2>5. CASE UNCHANGED vars
      BY <2>3, <2>5 DEF vars
    <2> QED  BY <2>1, <2>2, <2>4, <2>5 DEF Next
  <1> QED  BY InitFetch, <1>1, PTL DEF Spec

\* The steps that change what stands at a managed location.
LEMMA TreeSteps ==
  ASSUME FetchInv, [Next]_vars, NEW n \in Names, tree'[n] # tree[n]
  PROVE  \E p \in Procs : LockToRemove(p, n) \/ Removed(p, n) \/ Rename(p, n) \/ RunGit(p, n)
  <1>1. PICK p \in Procs, m \in Names : LockToRemove(p, m) \/ Removed(p, m) \/ Rename(p, m) \/ RunGit(p, m)
    <2>1. \A p \in Procs : Start(p) \/ Scan(p) \/ CancelQueued(p) \/ EndRound(p) \/ Kill(p) => UNCHANGED tree
      BY DEF Start, Scan, CancelQueued, EndRound, Kill
    <2>2. \A p \in Procs, m \in Names : Lock(p, m) \/ Clone(p, m) \/ Unlock(p, m) \/ GitFails(p, m) => UNCHANGED tree
      BY DEF Lock, Clone, Unlock, GitFails
    <2>3. \A u \in Urls : Publish(u) => UNCHANGED tree
      BY DEF Publish
    <2> QED  BY <2>1, <2>2, <2>3 DEF Next, Step, Worker, vars
  <1>2. m = n
    <2>1. Local(p, m)
      BY <1>1, LockToRemoveStep, RemovedStep, RenameStep, RunGitStep
    <2> QED  BY <2>1 DEF Local
  <1> QED  BY <1>1, <1>2

\* A removal begins in a clean clone of the run's own, and leaves parts of it.
LEMMA RemovalBegins ==
  ASSUME FetchInv, NEW p \in Procs, NEW n \in Names, LockToRemove(p, n)
  PROVE  /\ Mine(tree[n], p) /\ ForceReclone(p, n) /\ lock'[n] = p
         /\ proc[p].pc = "resolve" /\ Part(tree'[n])
  <1>1. /\ ForceReclone(p, n) /\ n \in proc[p].fresh /\ proc[p].pc = "resolve" /\ work[p][n].at = "queued"
        /\ lock'[n] = p
    BY DEF LockToRemove, CanLock, ForceReclone, FetchInv, Base
  <1>2. Mine(tree[n], p)
    BY <1>1 DEF FetchInv, WorkInv, Owned
  <1>3. PICK part \in Remains(tree[n]) : tree' = [tree EXCEPT ![n] = part]
    BY DEF LockToRemove
  <1>4. tree'[n] = part
    BY <1>3 DEF FetchInv, Base
  <1> QED  BY <1>1, <1>2, <1>4, PartIsNone DEF Mine

LEMMA RemovalEnds ==
  ASSUME FetchInv, NEW p \in Procs, NEW n \in Names, Removed(p, n)
  PROVE  /\ Part(tree[n]) /\ tree[n].by = <<p, proc[p].runs>> /\ proc[p].pc = "resolve"
         /\ tree'[n].is = "absent"
  <1>1. Busy(p, n) /\ Next1(p, n) = "rmtree" /\ tree' = [tree EXCEPT ![n] = NoTree]
    BY DEF Removed
  <1>2. Part(tree[n]) /\ tree[n].by = <<p, proc[p].runs>> /\ Working(p, n)
    BY <1>1, BusyAt
  <1> QED  BY <1>1, <1>2 DEF FetchInv, Base, NoTree, Working

\* What is renamed into place is what the declaration asks for.
LEMMA RenamedIsDeclared ==
  ASSUME FetchInv, NEW p \in Procs, NEW n \in Names, Rename(p, n)
  PROVE  /\ lock[n] = p /\ tree[n].is = "absent" /\ ~Part(tree'[n])
         /\ Satisfies(tree'[n], scan[p].declared[n])
  <1>1. Busy(p, n) /\ Next1(p, n) = "rename" /\ tree' = [tree EXCEPT ![n] = Site(p, n)]
    BY DEF Rename
  <1>2. /\ Working(p, n) /\ work[p][n].cmds \in TmpCmds /\ Mine(tmp[p][n], p) /\ tree[n].is = "absent"
        /\ OnTheWay(tmp[p][n], work[p][n].cmds, scan[p].declared[n])
    BY <1>1, BusyAt
  <1>3. work[p][n].cmds = <<"rename">>
    BY <1>1, <1>2, HeadsAndTails DEF TmpCmds, Next1
  <1>4. tree'[n] = tmp[p][n]
    BY <1>1, <1>2 DEF Site, Mine, Clean, FetchInv, Base
  <1>5. Satisfies(tmp[p][n], scan[p].declared[n])
    BY <1>2, <1>3 DEF OnTheWay
  <1> QED  BY <1>2, <1>4, <1>5 DEF Working, Mine, Clean, Part

\* A command leaves a clean clone a clean clone.
LEMMA CommandInPlace ==
  ASSUME FetchInv, NEW p \in Procs, NEW n \in Names, RunGit(p, n), tree'[n] # tree[n]
  PROVE  /\ Clean(tree[n]) /\ tree'[n].is = "clone" /\ ~Part(tree'[n])
  <1>1. Busy(p, n) /\ tmp[p][n].is = "absent" /\ Next1(p, n) \notin {"rmtree", "clone", "rename"}
    BY DEF RunGit
  <1>2. Clean(tree[n]) /\ work[p][n].cmds \in TreeCmds /\ work[p][n].cmds # << >>
    <2>1. ~Mine(tmp[p][n], p)
      BY <1>1 DEF Mine, Clean
    <2> QED  BY <1>1, <2>1, BusyAt
  <1>3. Next1(p, n) \in {"fetch", "checkout", "merge", "pull"}
    BY <1>2, TreeTail DEF Next1
  <1>4. tree'[n] = AfterCommand(Next1(p, n), tree[n], Ref(p, n), tip[tree[n].url])
    BY <1>1 DEF RunGit, Site, FetchInv, Base
  <1>5. tree'[n].is = "clone" /\ tree'[n].half = tree[n].half
    BY <1>2, <1>3, <1>4, CommandKeeps DEF Clean
  <1> QED  BY <1>2, <1>5 DEF Clean, Part

\* Whatever fails and whoever is killed, a clone comes to its managed location with
\* its url and ref as declared; and only a run that makes its own clone anew leaves
\* parts of one there.
THEOREM FetchWholeOrAbsent == Spec => WholeOrAbsent
  <1>1. ASSUME FetchInv, [Next]_vars, NEW n \in Names
        PROVE  /\ tree[n].is = "absent" /\ tree'[n].is # "absent" =>
                    \E p \in Procs : lock[n] = p /\ Satisfies(tree'[n], scan[p].declared[n]) /\ ~Part(tree'[n])
               /\ Part(tree'[n]) /\ ~Part(tree[n]) =>
                    \E p \in Procs : ForceReclone(p, n) /\ lock'[n] = p
    <2>1. CASE tree'[n] = tree[n]
      BY <2>1
    <2>2. CASE tree'[n] # tree[n]
      <3>1. PICK p \in Procs : LockToRemove(p, n) \/ Removed(p, n) \/ Rename(p, n) \/ RunGit(p, n)
        BY <1>1, <2>2, TreeSteps
      <3>2. CASE LockToRemove(p, n)
        BY <1>1, <3>2, RemovalBegins DEF Mine, Clean
      <3>3. CASE Removed(p, n)
        BY <1>1, <3>3, RemovalEnds DEF Part
      <3>4. CASE Rename(p, n)
        BY <1>1, <3>4, RenamedIsDeclared
      <3>5. CASE RunGit(p, n)
        BY <1>1, <2>2, <3>5, CommandInPlace DEF Clean
      <3> QED  BY <3>1, <3>2, <3>3, <3>4, <3>5
    <2> QED  BY <2>1, <2>2
  <1>2. FetchInv /\ [Next]_vars =>
          [\A n \in Names :
             /\ tree[n].is = "absent" /\ tree'[n].is # "absent" =>
                  \E p \in Procs : lock[n] = p /\ Satisfies(tree'[n], scan[p].declared[n]) /\ ~Part(tree'[n])
             /\ Part(tree'[n]) /\ ~Part(tree[n]) =>
                  \E p \in Procs : ForceReclone(p, n) /\ lock'[n] = p]_vars
    BY <1>1
  <1> QED  BY <1>2, FetchInvariant, PTL DEF Spec, WholeOrAbsent

\* Two runs may both work on a place, a clone be made anew, and its maker fail or be
\* killed half way: what a run removes is its own clone all the same, and it touches
\* nothing that is not a clean one.
THEOREM FetchKeepsOthers == Spec => KeepsOthers
  <1>1. ASSUME FetchInv, [Next]_vars, NEW n \in Names, tree[n].is # "absent", tree'[n] # tree[n]
        PROVE  /\ Part(tree[n]) \/ (tree[n].is = "clone" /\ ~tree[n].dirty)
               /\ tree'[n].is = "absent" \/ Part(tree'[n]) =>
                    \E p \in Procs : proc[p].pc = "resolve" /\ tree[n].by = <<p, proc[p].runs>>
    <2>1. PICK p \in Procs : LockToRemove(p, n) \/ Removed(p, n) \/ Rename(p, n) \/ RunGit(p, n)
      BY <1>1, TreeSteps
    <2>2. CASE LockToRemove(p, n)
      BY <1>1, <2>2, RemovalBegins DEF Mine, Clean
    <2>3. CASE Removed(p, n)
      BY <1>1, <2>3, RemovalEnds
    <2>4. CASE Rename(p, n)
      BY <1>1, <2>4, RenamedIsDeclared
    <2>5. CASE RunGit(p, n)
      BY <1>1, <2>5, CommandInPlace DEF Clean
    <2> QED  BY <2>1, <2>2, <2>3, <2>4, <2>5
  <1>2. FetchInv /\ [Next]_vars =>
          [\A n \in Names : tree[n].is # "absent" /\ tree'[n] # tree[n] =>
             /\ Part(tree[n]) \/ (tree[n].is = "clone" /\ ~tree[n].dirty)
             /\ tree'[n].is = "absent" \/ Part(tree'[n]) =>
                  \E p \in Procs : proc[p].pc = "resolve" /\ tree[n].by = <<p, proc[p].runs>>]_vars
    BY <1>1
  <1> QED  BY <1>2, FetchInvariant, PTL DEF Spec, KeepsOthers

------------------------------------------------------------------------------
(* What a round makes of the declarations it reads                          *)

ScanFields == {"texts", "declared", "declared_blind", "forced_reclone", "forced_update", "new", "error"}
ScanOk(c) ==
  /\ DOMAIN c = ScanFields /\ c.new \in Seq(Range(c.new)) /\ Range(c.new) \subseteq DOMAIN c.declared

\* What has become, in c, of what s had declared: another declaration is new work,
\* and forced; and only a clone to be made anew has another url.
Since(s, c) ==
  \A n \in DOMAIN s.declared :
    /\ n \in DOMAIN c.declared
    /\ n \notin c.forced_reclone => c.declared[n].url = s.declared[n].url
    /\ IF n \in Range(c.new) THEN n \in c.forced_reclone \cup c.forced_update
       ELSE c.declared[n] = s.declared[n]

LEMMA AppendRange ==
  ASSUME NEW s, s \in Seq(Range(s)), NEW e
  PROVE  Append(s, e) \in Seq(Range(Append(s, e))) /\ Range(Append(s, e)) = Range(s) \cup {e}
<1>1. DOMAIN Append(s, e) = 1..Len(s) + 1 /\ Len(s) \in Nat /\ DOMAIN s = 1..Len(s)  OBVIOUS
<1>2. /\ \A i \in 1..Len(s) : Append(s, e)[i] = s[i]
      /\ Append(s, e)[Len(s) + 1] = e
  OBVIOUS
<1>3. Range(Append(s, e)) = Range(s) \cup {e}
  BY <1>1, <1>2 DEF Range
<1>4. Append(s, e) \in Seq(Range(s) \cup {e})
  <2>1. s \in Seq(Range(s) \cup {e})  OBVIOUS
  <2> QED  BY <2>1
<1> QED  BY <1>3, <1>4

\* One declaration more, whatever it says and however it is reached.
LEMMA RecordSince ==
  ASSUME NEW s, NEW c, ScanOk(c), Since(s, c), NEW ext, NEW blind, NEW r, r = Record(c, ext, blind)
  PROVE  ScanOk(r) /\ Since(s, r)
<1> DEFINE n == ext.name
           prior == c.declared[n]
<1>1. CASE r = c
  BY <1>1
<1>2. CASE \E e : r = [c EXCEPT !.error = e]
  <2>1. DOMAIN r = DOMAIN c /\ r.declared = c.declared /\ r.new = c.new
        /\ r.forced_reclone = c.forced_reclone /\ r.forced_update = c.forced_update
    BY <1>2 DEF ScanOk, ScanFields
  <2> QED  BY <2>1 DEF ScanOk, Since
<1>3. CASE n \notin DOMAIN c.declared /\ r = [c EXCEPT
               !.declared = [m \in DOMAIN c.declared \cup {n} |-> IF m = n THEN ext ELSE c.declared[m]],
               !.declared_blind = IF blind THEN @ \cup {n} ELSE @, !.new = Append(@, n)]
  <2>1. /\ DOMAIN r = ScanFields /\ r.new = Append(c.new, n)
        /\ r.declared = [m \in DOMAIN c.declared \cup {n} |-> IF m = n THEN ext ELSE c.declared[m]]
        /\ r.forced_reclone = c.forced_reclone /\ r.forced_update = c.forced_update
    BY <1>3 DEF ScanOk, ScanFields
  <2>2. /\ DOMAIN r.declared = DOMAIN c.declared \cup {n}
        /\ \A m \in DOMAIN c.declared : r.declared[m] = c.declared[m]
    BY <1>3, <2>1
  <2>3. r.new \in Seq(Range(r.new)) /\ Range(r.new) = Range(c.new) \cup {n}
    BY <2>1, AppendRange DEF ScanOk
  <2> QED  BY <1>3, <2>1, <2>2, <2>3 DEF ScanOk, Since
<1>4. CASE n \in DOMAIN c.declared /\ r = Displace(c, ext)
  <2>1. CASE prior = ext
    <3>1. r = [c EXCEPT !.declared_blind = @ \ {n}]
      BY <1>4, <2>1 DEF Displace
    <3>2. DOMAIN r = DOMAIN c /\ r.declared = c.declared /\ r.new = c.new
          /\ r.forced_reclone = c.forced_reclone /\ r.forced_update = c.forced_update
      BY <3>1 DEF ScanOk, ScanFields
    <3> QED  BY <3>2 DEF ScanOk, Since
  <2>2. CASE prior # ext
    <3> DEFINE reclone == IF prior.url # ext.url THEN c.forced_reclone \cup {n} ELSE c.forced_reclone
               update == IF prior.url = ext.url THEN c.forced_update \cup {n} ELSE c.forced_update
    <3>1. r = [[c EXCEPT !.declared_blind = @ \ {n}] EXCEPT !.declared[n] = ext,
                 !.forced_reclone = reclone, !.forced_update = update, !.new = Append(@, n)]
      BY <1>4, <2>2 DEF Displace, ScanOk, ScanFields
    <3>2. /\ DOMAIN r = ScanFields /\ r.declared = [c.declared EXCEPT ![n] = ext] /\ r.new = Append(c.new, n)
          /\ r.forced_reclone = reclone /\ r.forced_update = update
      <4> HIDE DEF reclone, update, prior
      <4> QED  BY <3>1 DEF ScanOk, ScanFields
    <3>3. r.new \in Seq(Range(r.new)) /\ Range(r.new) = Range(c.new) \cup {n}
      BY <3>2, AppendRange DEF ScanOk
    <3>4. ScanOk(r)
      BY <1>4, <3>2, <3>3 DEF ScanOk
    <3>5. \A m \in DOMAIN s.declared : m # n =>
            /\ m \in DOMAIN r.declared
            /\ m \notin r.forced_reclone => r.declared[m].url = s.declared[m].url
            /\ IF m \in Range(r.new) THEN m \in r.forced_reclone \cup r.forced_update
               ELSE r.declared[m] = s.declared[m]
      BY <3>2, <3>3 DEF Since
    <3>6. n \in Range(r.new) /\ n \in DOMAIN r.declared /\ n \in r.forced_reclone \cup r.forced_update
      BY <1>4, <3>2, <3>3
    <3>7. n \in DOMAIN s.declared /\ n \notin r.forced_reclone => r.declared[n].url = s.declared[n].url
      BY <1>4, <3>2 DEF Since
    <3> QED  BY <3>4, <3>5, <3>6, <3>7 DEF Since
  <2> QED  BY <2>1, <2>2
<1> QED  BY <1>1, <1>2, <1>3, <1>4 DEF Record, Declare

LEMMA LeastNatural ==
  ASSUME NEW T \in SUBSET Nat, T # {}
  PROVE  \E m \in T : \A k \in T : ~ k < m
<1>1. \E m \in T : \A k \in T : <<k, m>> \notin OpToRel(<, Nat)
  BY WFMin, NatLessThanWellFounded, Zenon
<1> QED  BY <1>1, Zenon DEF OpToRel

\* Whatever the files say, and however many there are.
LEMMA RoundSince ==
  ASSUME NEW v \in Worlds, NEW t, NEW roots, NEW target, NEW s, ScanOk(s),
         NEW r, r = _scan_round(v, t, roots, target, s)
  PROVE  ScanOk(r) /\ Since(s, r)
<1> DEFINE reach == _reachable_sources(v, t, s.texts, roots, target)
           read == Declarations(v, t, s.texts, reach)
           texts == [n \in DOMAIN s.texts \cup (Range(reach.files) \cap Names) |-> Content(v, t, s.texts, n)]
           N == MostDeclared(v)
           from == [s EXCEPT !.new = << >>, !.texts = texts]
           Heard(c, k) == IF k \in DOMAIN read THEN Record(c, read[k].ext, read[k].is_blind) ELSE c
           Upto(n, f) == f = [k \in 0..n |-> IF k = 0 THEN from ELSE Heard(f[k - 1], k)]
           Good(c) == ScanOk(c) /\ Since(s, c)
<1>1. N \in Nat
  <2>1. MaxDecls \in Nat /\ IsFiniteSet(Names) /\ IsFiniteSet(DOMAIN v.files)
    BY DeclsAssumption
  <2>2. Cardinality(Files(v)) \in Nat
    BY <2>1, FS_Union, FS_CardinalityType DEF Files
  <2> QED  BY <2>1, <2>2 DEF MostDeclared
<1> HIDE DEF texts, reach, read
<1>2. Good(from)
  <2>1. DOMAIN from = ScanFields /\ from.declared = s.declared /\ from.new = << >>
    BY DEF ScanOk, ScanFields
  <2>2. Range(from.new) = {}
    BY <2>1 DEF Range
  <2>3. from.new \in Seq(Range(from.new))
    BY <2>1
  <2> QED  BY <2>1, <2>2, <2>3 DEF ScanOk, Since
<1>3. ASSUME NEW c, NEW k, Good(c)  PROVE Good(Heard(c, k))
  BY <1>3, RecordSince
<1> HIDE DEF Heard, from, N, Good
<1>4. \E f : Upto(N, f)
  <2> DEFINE Unmet == {n \in Nat : ~ \E f : Upto(n, f)}
  <2> SUFFICES ASSUME Unmet # {}  PROVE FALSE
    BY <1>1
  <2>1. PICK m \in Unmet : \A k \in Unmet : ~ k < m
    <3>1. Unmet \in SUBSET Nat  OBVIOUS
    <3> HIDE DEF Unmet
    <3> QED  BY <3>1, LeastNatural
  <2>2. Upto(0, [k \in 0..0 |-> from])  OBVIOUS
  <2>3. m # 0  BY <2>1, <2>2
  <2>4. m - 1 \in Nat /\ m - 1 < m  BY <2>3
  <2>5. PICK f : Upto(m - 1, f)  BY <2>1, <2>4
  <2> DEFINE e == [k \in 0..m |-> IF k = m THEN Heard(f[m - 1], m) ELSE f[k]]
  <2>6. \A k \in 0..m : e[k] = IF k = 0 THEN from ELSE Heard(e[k - 1], k)
    <3> SUFFICES ASSUME NEW k \in 0..m  PROVE e[k] = IF k = 0 THEN from ELSE Heard(e[k - 1], k)
      OBVIOUS
    <3>1. CASE k = m
      <4>1. m - 1 \in 0..m /\ m - 1 # m  BY <2>4
      <4> QED  BY <2>3, <3>1, <4>1
    <3>2. CASE k # m
      <4>1. k \in 0..m - 1 /\ e[k] = f[k]  BY <2>4, <3>2
      <4>2. f[k] = IF k = 0 THEN from ELSE Heard(f[k - 1], k)  BY <2>5, <4>1
      <4>3. k # 0 => k - 1 \in 0..m /\ k - 1 # m  BY <4>1, <2>4
      <4>4. k # 0 => e[k - 1] = f[k - 1]  BY <4>3
      <4> QED  BY <4>1, <4>2, <4>4
    <3> QED  BY <3>1, <3>2
  <2>7. Upto(m, e)
    <3>1. e = [k \in 0..m |-> e[k]]  OBVIOUS
    <3> HIDE DEF e
    <3> QED  BY <2>6, <3>1
  <2> QED  BY <2>1, <2>7
<1> DEFINE after == CHOOSE f : Upto(N, f)
<1>5. Upto(N, after)
  <2> HIDE DEF Upto
  <2> QED  BY <1>4
<1>6. r = after[N]
  BY DEF _scan_round, Heard, from, N, texts, reach, read
<1> HIDE DEF after
<1>7. \A k \in 0..N : after[k] = IF k = 0 THEN from ELSE Heard(after[k - 1], k)
  BY <1>5
<1>8. Good(after[N])
  <2> DEFINE Bad1 == {k \in 0..N : ~ Good(after[k])}
  <2> SUFFICES ASSUME Bad1 # {}  PROVE FALSE
    BY <1>1
  <2>1. PICK m \in Bad1 : \A k \in Bad1 : ~ k < m
    <3>1. Bad1 \in SUBSET Nat  BY <1>1
    <3> HIDE DEF Bad1
    <3> QED  BY <3>1, LeastNatural
  <2>2. m # 0  BY <1>2, <1>7, <2>1
  <2>3. m - 1 \in 0..N /\ m - 1 < m  BY <1>1, <2>1, <2>2
  <2>4. Good(after[m - 1])  BY <2>1, <2>3
  <2> QED  BY <1>3, <1>7, <2>1, <2>2, <2>4
<1> QED  BY <1>6, <1>8 DEF Good
------------------------------------------------------------------------------
(* A run's own clones                                                       *)

Own(p, n) ==
  n \in proc[p].fresh =>
    /\ n \in DOMAIN scan[p].declared
    /\ proc[p].pc = "scan" \/ work[p][n].at \in {"none", "ok"} => Satisfies(tree[n], scan[p].declared[n])
    /\ proc[p].pc = "resolve" /\ work[p][n].at = "queued" =>
         \/ n \in scan[p].forced_reclone
         \/ n \in scan[p].forced_update /\ tree[n].url = Url(p, n)

Making(p, n) ==
  /\ work[p][n].at = "running" /\ work[p][n].cmds \notin {<<"rmtree">>, <<"clone">>}
  /\ n \in proc[p].fresh \/ ~work[p][n].existed
  => OnTheWay(Site(p, n), work[p][n].cmds, scan[p].declared[n])

Undisturbed(p) == proc[p].alone /\ Running(p)

AloneInv ==
  \A p \in Procs :
    /\ ScanOk(scan[p])
    /\ Undisturbed(p) => /\ \A q \in Procs \ {p} : ~Running(q)
                         /\ \A n \in Names : Own(p, n) /\ Making(p, n)

\* What a run knows of one of its clones stays true while nobody touches it.
LEMMA OwnKept ==
  ASSUME NEW p \in Procs, NEW n \in Names, Own(p, n), Making(p, n), scan'[p] = scan[p],
         proc'[p].pc = proc[p].pc, n \in proc'[p].fresh <=> n \in proc[p].fresh,
         work'[p][n] = work[p][n], tmp'[p][n] = tmp[p][n], tree'[n] = tree[n]
  PROVE  Own(p, n)' /\ Making(p, n)'
<1>1. Own(p, n)'
  BY DEF Own, Url
<1>2. Making(p, n)'
  BY DEF Making, Site
<1> QED  BY <1>1, <1>2

\* A worker's step disturbs the work on its own place only.
LEMMA WorkerOwn ==
  ASSUME AloneInv, NEW p \in Procs, NEW n \in Names, Local(p, n), proc[p].pc = "resolve",
         \A q \in Procs : proc'[q].alone = proc[q].alone,
         Undisturbed(p) => Own(p, n)' /\ Making(p, n)'
  PROVE  AloneInv'
<1>1. \A q \in Procs : ScanOk(scan'[q])
  BY DEF AloneInv, Local
<1>2. \A q \in Procs : Running(q)' <=> Running(q)
  BY DEF Running, Local
<1>3. ASSUME NEW q \in Procs, Undisturbed(q)'
      PROVE  /\ \A r \in Procs \ {q} : ~Running(r)'
             /\ \A m \in Names : Own(q, m)' /\ Making(q, m)'
  <2>1. Undisturbed(q) /\ \A r \in Procs \ {q} : ~Running(r)
    BY <1>2, <1>3 DEF Undisturbed, AloneInv
  <2>2. q = p
    BY <2>1 DEF Running
  <2>3. ASSUME NEW m \in Names \ {n}  PROVE Own(p, m)' /\ Making(p, m)'
    <3>1. Own(p, m) /\ Making(p, m)
      BY <2>1, <2>2 DEF AloneInv
    <3>2. /\ scan'[p] = scan[p] /\ proc'[p].pc = proc[p].pc
          /\ m \in proc'[p].fresh <=> m \in proc[p].fresh
          /\ work'[p][m] = work[p][m] /\ tmp'[p][m] = tmp[p][m] /\ tree'[m] = tree[m]
      BY DEF Local
    <3> QED  BY <3>1, <3>2, OwnKept
  <2> QED  BY <1>2, <2>1, <2>2, <2>3
<1> QED  BY <1>1, <1>3 DEF AloneInv

\* What is decided for a clone of this run's that another declaration has displaced.
LEMMA UpdateLeads ==
  ASSUME NEW t, Clean(t), NEW decl, t.url = decl.url, decl.ref # NoRef, NEW no_fetch \in BOOLEAN,
         NEW plan, plan = resolve_external(t, decl.ref, no_fetch, TRUE), plan.ok
  PROVE  OnTheWay(t, plan.cmds, decl)
<1>1. plan = IF IsTag(t, decl.ref) \/ ~IsBranch(t, decl.ref) THEN _checkout_immutable(t, decl.ref, no_fetch)
             ELSE _handle_branch(t, no_fetch, TRUE)
  BY DEF resolve_external, _handle_present, _is_git_work_tree, _is_linked_git_worktree, Clean
<1>2. CASE decl.ref = Branch
  <2>1. plan = _handle_branch(t, no_fetch, TRUE)
    BY <1>1, <1>2, RefsAssumption DEF IsTag, IsBranch
  <2>2. plan.cmds = <<"fetch", "checkout", "merge">>
    <3>1. plan = Refuse \/ plan = Do(<<"fetch", "checkout", "merge">>)
      BY <2>1 DEF _handle_branch
    <3>2. ~Refuse.ok /\ \A c : Do(c).cmds = c
      BY DEF Do, Refuse
    <3> QED  BY <3>1, <3>2
  <2> QED  BY <1>2, <2>2, Lists DEF OnTheWay
<1>3. CASE decl.ref # Branch
  <2>1. plan = _checkout_immutable(t, decl.ref, no_fetch)
    BY <1>1, <1>3 DEF IsBranch
  <2>2. \/ plan.cmds = << >> /\ Resolved(t, decl.ref) # NoCommit /\ Resolved(t, decl.ref) = t.head
        \/ plan.cmds \in {<<"checkout">>, <<"fetch", "checkout">>}
    <3>1. \/ plan = Do(<< >>) /\ Resolved(t, decl.ref) # NoCommit /\ Resolved(t, decl.ref) = t.head
          \/ plan \in {Refuse, Do(<<"checkout">>), Do(<<"fetch", "checkout">>)}
      BY <2>1 DEF _checkout_immutable, _current_commit
    <3>2. ~Refuse.ok /\ \A c : Do(c).cmds = c
      BY DEF Do, Refuse
    <3> QED  BY <3>1, <3>2
  <2>3. plan.cmds = << >> => Satisfies(t, decl)
    BY <1>3, <2>2, Lists, CheckedOut DEF Clean
  <2> QED  BY <2>2, <2>3, Lists DEF OnTheWay
<1> QED  BY <1>2, <1>3

LEMMA LockOwn ==
  ASSUME FetchInv, AloneInv, NEW p \in Procs, NEW n \in Names, Lock(p, n)  PROVE AloneInv'
<1> DEFINE no_fetch == world.mode[p] = "no_fetch"
           update == world.mode[p] = "update" \/ ForceUpdate(p, n)
           plan == resolve_external(tree[n], Ref(p, n), no_fetch, update)
<1>1. /\ proc[p].pc = "resolve" /\ work[p][n].at = "queued" /\ ~(ForceReclone(p, n) /\ ExistedBefore(p, n))
      /\ work' = [work EXCEPT ![p][n] = [at |-> IF plan.ok THEN "running" ELSE "failed",
                                         cmds |-> plan.cmds, existed |-> ExistedBefore(p, n)]]
      /\ UNCHANGED <<tree, tmp, proc, scan>>
  BY DEF Lock, CanLock, Decide
<1>2. Local(p, n)
  BY LockStep
<1>3. n \in proc[p].fresh => Mine(tree[n], p)
  BY <1>1 DEF FetchInv, WorkInv, Owned
<1>4. tmp[p][n].is = "absent" /\ n \in Range(scan[p].new) /\ n \in DOMAIN scan[p].declared
  <2>1. tmp[p][n].is = "absent" /\ n \in Range(scan[p].new)
    BY <1>1 DEF FetchInv, WorkInv, Running
  <2> QED  BY <2>1 DEF AloneInv, ScanOk
<1>5. ASSUME plan.ok, tree[n].is = "absent"  PROVE plan.cmds = <<"clone">>
  BY <1>5 DEF resolve_external, _clone_missing, Do, Refuse
<1>6. ASSUME plan.ok, n \in proc[p].fresh, Undisturbed(p)
      PROVE  OnTheWay(tree[n], plan.cmds, scan[p].declared[n])
  <2>1. Clean(tree[n]) /\ ~ForceReclone(p, n)
    BY <1>1, <1>3, <1>6 DEF ExistedBefore, Mine, Clean
  <2>2. n \in scan[p].forced_reclone \/ (n \in scan[p].forced_update /\ tree[n].url = Url(p, n))
    BY <1>1, <1>6 DEF AloneInv, Own
  <2>3. n \in scan[p].forced_update /\ tree[n].url = Url(p, n) /\ Ref(p, n) # NoRef
    BY <1>6, <2>1, <2>2 DEF ForceReclone
  <2>4. update = TRUE
    BY <1>6, <2>3 DEF ForceUpdate
  <2>5. plan = resolve_external(tree[n], Ref(p, n), no_fetch, TRUE) /\ no_fetch \in BOOLEAN
    BY <2>4
  <2> HIDE DEF plan, no_fetch, update
  <2> QED  BY <1>6, <2>1, <2>3, <2>5, UpdateLeads DEF Ref, Url
<1>7. ExistedBefore(p, n) = (tree[n].is # "absent")
  BY DEF ExistedBefore
<1> HIDE DEF plan
<1>8. ASSUME Undisturbed(p)  PROVE Own(p, n)' /\ Making(p, n)'
  <2>1. /\ work'[p][n].at = IF plan.ok THEN "running" ELSE "failed"
        /\ work'[p][n].cmds = plan.cmds /\ work'[p][n].existed = (tree[n].is # "absent")
    BY <1>1, <1>7 DEF FetchInv, Base
  <2>2. Own(p, n)'
    BY <1>1, <1>4, <2>1 DEF Own
  <2>3. Making(p, n)'
    <3> SUFFICES ASSUME plan.ok, plan.cmds \notin {<<"rmtree">>, <<"clone">>},
                        n \in proc[p].fresh \/ tree[n].is = "absent"
                 PROVE  OnTheWay(tree[n], plan.cmds, scan[p].declared[n])
      <4>1. Site(p, n)' = tree[n] /\ scan' = scan /\ proc' = proc
        BY <1>1, <1>4 DEF Site
      <4>2. work'[p][n].at = "running" => plan.ok
        BY <2>1
      <4> QED  BY <2>1, <4>1, <4>2 DEF Making
    <3> QED  BY <1>5, <1>6, <1>8
  <2> QED  BY <2>2, <2>3
<1> QED  BY <1>1, <1>2, <1>8, WorkerOwn

\* While a clone is being removed nothing is said of it, nor when the clone that is to
\* replace it has not been made.
LEMMA RemovalOwn ==
  ASSUME FetchInv, AloneInv, NEW p \in Procs, NEW n \in Names, LockToRemove(p, n) \/ Removed(p, n)
  PROVE  AloneInv'
<1>1. CASE LockToRemove(p, n)
  <2>1. /\ work' = [work EXCEPT ![p][n] = [at |-> "running", cmds |-> <<"rmtree">>, existed |-> TRUE]]
        /\ proc[p].pc = "resolve" /\ UNCHANGED <<proc, scan>>
    BY <1>1 DEF LockToRemove, CanLock
  <2>2. work'[p][n].at = "running" /\ work'[p][n].cmds = <<"rmtree">>
    BY <2>1 DEF FetchInv, Base
  <2>3. Undisturbed(p) => Own(p, n)' /\ Making(p, n)'
    BY <2>1, <2>2 DEF AloneInv, Own, Making
  <2> QED  BY <1>1, <2>1, <2>3, LockToRemoveStep, WorkerOwn
<1>2. CASE Removed(p, n)
  <2> DEFINE mode == world.mode[p]
             plan == resolve_external(NoTree, Ref(p, n), mode = "no_fetch", mode = "update" \/ ForceUpdate(p, n))
  <2>1. /\ work' = [work EXCEPT ![p][n] = [at |-> IF plan.ok THEN "running" ELSE "failed",
                                           cmds |-> plan.cmds, existed |-> TRUE]]
        /\ Busy(p, n) /\ Next1(p, n) = "rmtree" /\ UNCHANGED <<proc, scan>>
    BY <1>2 DEF Removed, Decide
  <2>2. plan.ok => plan.cmds = <<"clone">>
    BY DEF resolve_external, _clone_missing, NoTree, Do, Refuse
  <2> HIDE DEF plan, mode
  <2>3. work[p][n].at = "running" /\ proc[p].pc = "resolve"
    BY <1>2, <2>1, RemovalEnds, BusyAt
  <2>4. work'[p][n].at = "failed" \/ (work'[p][n].at = "running" /\ work'[p][n].cmds = <<"clone">>)
    BY <2>1, <2>2 DEF FetchInv, Base
  <2>5. Undisturbed(p) => Own(p, n)' /\ Making(p, n)'
    BY <2>1, <2>3, <2>4 DEF AloneInv, Own, Making
  <2> QED  BY <1>2, <2>1, <2>3, <2>5, RemovedStep, WorkerOwn
<1> QED  BY <1>1, <1>2

LEMMA CloneOwn ==
  ASSUME FetchInv, AloneInv, NEW p \in Procs, NEW n \in Names, Clone(p, n)  PROVE AloneInv'
<1>1. PICK made : /\ made = Cloned(Url(p, n), tip[Url(p, n)], <<p, proc[p].runs>>)
                  /\ tmp' = [tmp EXCEPT ![p][n] = made]
                  /\ work' = [work EXCEPT ![p][n].cmds = AfterClone(made, Ref(p, n))]
  BY DEF Clone
<1>2. Busy(p, n) /\ UNCHANGED <<tree, proc, scan>>
  BY DEF Clone
<1>3. work[p][n].at = "running" /\ proc[p].pc = "resolve"
  BY <1>2, BusyAt DEF Working
<1>4. Local(p, n)
  BY CloneStep
<1>5. OnTheWay(made, AfterClone(made, Ref(p, n)), scan[p].declared[n])
  BY <1>1, CloneLeads DEF Url, Ref
<1>6. ASSUME Undisturbed(p)  PROVE Own(p, n)' /\ Making(p, n)'
  <2>1. /\ tmp'[p][n] = made /\ work'[p][n].at = "running"
        /\ work'[p][n].cmds = AfterClone(made, Ref(p, n))
    BY <1>1, <1>3 DEF FetchInv, Base, WorkFields
  <2>2. made.is = "clone"
    BY <1>1 DEF Cloned
  <2>3. Own(p, n)'
    BY <1>2, <1>3, <1>6, <2>1 DEF AloneInv, Own
  <2> QED  BY <1>2, <1>5, <2>1, <2>2, <2>3 DEF Making, Site
<1> QED  BY <1>2, <1>3, <1>4, <1>6, WorkerOwn

LEMMA RenameOwn ==
  ASSUME FetchInv, AloneInv, NEW p \in Procs, NEW n \in Names, Rename(p, n)  PROVE AloneInv'
<1>1. /\ Busy(p, n) /\ Next1(p, n) = "rename" /\ UNCHANGED <<proc, scan>>
      /\ tree' = [tree EXCEPT ![n] = Site(p, n)]
      /\ tmp' = [tmp EXCEPT ![p][n] = NoTree] /\ work' = [work EXCEPT ![p][n].cmds = Tail(@)]
  BY DEF Rename
<1>2. /\ work[p][n].at = "running" /\ proc[p].pc = "resolve" /\ work[p][n].cmds \in TmpCmds /\ Mine(tmp[p][n], p)
  BY <1>1, BusyAt DEF Working
<1>3. Local(p, n)
  BY RenameStep
<1>4. work[p][n].cmds = <<"rename">> /\ Tail(work[p][n].cmds) = << >>
  BY <1>1, <1>2, HeadsAndTails DEF TmpCmds, Next1
<1>5. Site(p, n) = tmp[p][n]
  BY <1>2 DEF Site, Mine, Clean
<1>6. ASSUME Undisturbed(p)  PROVE Own(p, n)' /\ Making(p, n)'
  <2> DEFINE made == tmp[p][n]
  <2>1. /\ tmp'[p][n] = NoTree /\ work'[p][n].at = "running" /\ work'[p][n].cmds = << >>
        /\ work'[p][n].existed = work[p][n].existed /\ tree'[n] = made
    BY <1>1, <1>2, <1>4, <1>5 DEF FetchInv, Base, WorkFields
  <2>3. Own(p, n)'
    BY <1>1, <1>2, <1>6, <2>1 DEF AloneInv, Own
  <2>4. n \in proc[p].fresh \/ ~work[p][n].existed => Satisfies(tmp[p][n], scan[p].declared[n])
    BY <1>2, <1>4, <1>5, <1>6, Lists DEF AloneInv, Making, OnTheWay
  <2>5. n \in proc[p].fresh \/ ~work[p][n].existed => OnTheWay(made, << >>, scan[p].declared[n])
    BY <2>4, Lists DEF OnTheWay, Satisfies
  <2> HIDE DEF made
  <2>6. (Site(p, n) = tree[n])'
    BY <2>1 DEF Site, NoTree
  <2> QED  BY <1>1, <2>1, <2>3, <2>5, <2>6 DEF Making
<1> QED  BY <1>1, <1>2, <1>3, <1>6, WorkerOwn

LEMMA RunGitOwn ==
  ASSUME FetchInv, AloneInv, NEW p \in Procs, NEW n \in Names, RunGit(p, n)  PROVE AloneInv'
<1> DEFINE now == tip[Site(p, n).url]
<1>1. PICK after :
        /\ after = AfterCommand(Next1(p, n), Site(p, n), Ref(p, n), now)
        /\ Possible(Next1(p, n), Site(p, n), Ref(p, n), now)
        /\ IF tmp[p][n].is # "absent"
           THEN tmp' = [tmp EXCEPT ![p][n] = after] /\ tree' = tree
           ELSE tree' = [tree EXCEPT ![n] = after] /\ tmp' = tmp
  BY DEF RunGit
<1> HIDE DEF now
<1>2. /\ Busy(p, n) /\ Next1(p, n) \notin {"rmtree", "clone", "rename"} /\ UNCHANGED <<proc, scan>>
      /\ work' = [work EXCEPT ![p][n].cmds = Tail(@)]
  BY DEF RunGit
<1>3. /\ work[p][n].at = "running" /\ proc[p].pc = "resolve" /\ work[p][n].cmds # << >>
      /\ work[p][n].cmds \in TmpCmds \cup TreeCmds /\ Clean(Site(p, n))
  <2>1. /\ Busy(p, n) /\ Working(p, n) /\ Next1(p, n) \notin {"rmtree", "clone", "rename"}
    BY <1>2, BusyAt
  <2> QED  BY <2>1, BusyAt DEF Working, Site, Mine, Clean
<1>4. Local(p, n)
  BY RunGitStep
<1>5. /\ work'[p][n].at = "running" /\ work'[p][n].cmds = Tail(work[p][n].cmds)
      /\ work'[p][n].existed = work[p][n].existed
  BY <1>2, <1>3 DEF FetchInv, Base, WorkFields
<1>6. after.is = "clone"
  <2>1. Next1(p, n) \in {"fetch", "checkout", "merge", "pull"}
    BY <1>2, <1>3, TmpTail, TreeTail DEF Next1
  <2> QED  BY <1>1, <1>3, <2>1, CommandKeeps DEF Clean
<1>7. Site(p, n)' = after
  <2>1. CASE tmp[p][n].is # "absent"
    <3>1. tmp'[p][n] = after
      BY <1>1, <2>1 DEF FetchInv, Base
    <3> QED  BY <1>6, <3>1 DEF Site
  <2>2. CASE tmp[p][n].is = "absent"
    <3>1. tmp'[p][n].is = "absent" /\ tree'[n] = after
      BY <1>1, <2>2 DEF FetchInv, Base
    <3> QED  BY <3>1 DEF Site
  <2> QED  BY <2>1, <2>2
<1>8. ASSUME Undisturbed(p)  PROVE Own(p, n)' /\ Making(p, n)'
  <2>1. Own(p, n)'
    BY <1>2, <1>3, <1>5, <1>8 DEF AloneInv, Own
  <2>2. ASSUME n \in proc[p].fresh \/ ~work[p][n].existed
        PROVE  OnTheWay(after, Tail(work[p][n].cmds), scan[p].declared[n])
    <3>1. OnTheWay(Site(p, n), work[p][n].cmds, scan[p].declared[n])
      BY <1>3, <1>8, <2>2, Lists DEF AloneInv, Making
    <3> QED  BY <1>1, <1>2, <1>3, <3>1, CommandLeads DEF Next1, Ref, Clean
  <2> QED  BY <1>2, <1>5, <1>7, <2>1, <2>2 DEF Making
<1> QED  BY <1>2, <1>3, <1>4, <1>8, WorkerOwn
LEMMA GitFailsOwn ==
  ASSUME FetchInv, AloneInv, NEW p \in Procs, NEW n \in Names, GitFails(p, n)  PROVE AloneInv'
<1>1. /\ Busy(p, n) /\ UNCHANGED <<tree, proc, scan>>
      /\ work' = [work EXCEPT ![p][n] = [NoWork EXCEPT !.at = "failed"]]
  BY DEF GitFails
<1>2. proc[p].pc = "resolve"
  BY <1>1, BusyAt DEF Working
<1>3. Local(p, n)
  BY GitFailsStep
<1>4. work'[p][n].at = "failed"
  BY <1>1 DEF FetchInv, Base, NoWork
<1>5. ASSUME Undisturbed(p)  PROVE Own(p, n)' /\ Making(p, n)'
  BY <1>1, <1>2, <1>4, <1>5 DEF AloneInv, Own, Making
<1> QED  BY <1>1, <1>2, <1>3, <1>5, WorkerOwn

LEMMA UnlockOwn ==
  ASSUME FetchInv, AloneInv, NEW p \in Procs, NEW n \in Names, Unlock(p, n)  PROVE AloneInv'
<1>1. /\ work[p][n].at = "running" /\ work[p][n].cmds = << >> /\ UNCHANGED <<tree, tmp, scan>>
      /\ work' = [work EXCEPT ![p][n].at = "ok"]
      /\ proc' = [proc EXCEPT ![p].fresh = IF work[p][n].existed THEN @ ELSE @ \cup {n}]
  BY DEF Unlock
<1>2. proc[p].pc = "resolve" /\ tmp[p][n].is = "absent"
  <2>1. Working(p, n)
    BY <1>1 DEF FetchInv, WorkInv
  <2>2. work[p][n].cmds \notin {<<"rmtree">>, <<"clone">>} /\ work[p][n].cmds \notin TmpCmds
    BY <1>1, TmpTail, CloneHead
  <2> QED  BY <2>1, <2>2 DEF Working
<1>3. Local(p, n)
  BY UnlockStep
<1>4. /\ work'[p][n].at = "ok" /\ proc'[p].pc = "resolve"
      /\ n \in proc'[p].fresh <=> n \in proc[p].fresh \/ ~work[p][n].existed
      /\ \A q \in Procs : proc'[q].alone = proc[q].alone
  BY <1>1, <1>2 DEF FetchInv, Base, RunFields, WorkFields
<1>5. n \in DOMAIN scan[p].declared
  BY <1>1, <1>2 DEF FetchInv, WorkInv, AloneInv, ScanOk
<1>6. ASSUME Undisturbed(p)  PROVE Own(p, n)' /\ Making(p, n)'
  <2>1. n \in proc[p].fresh \/ ~work[p][n].existed => Satisfies(tree[n], scan[p].declared[n])
    <3>1. Site(p, n) = tree[n]
      BY <1>2 DEF Site
    <3>2. work[p][n].cmds \notin {<<"rmtree">>, <<"clone">>}
      BY <1>1, CloneHead
    <3> QED  BY <1>1, <1>6, <3>1, <3>2 DEF AloneInv, Making, OnTheWay
  <2> QED  BY <1>1, <1>4, <1>5, <2>1 DEF Own, Making
<1> QED  BY <1>2, <1>3, <1>4, <1>6, WorkerOwn

------------------------------------------------------------------------------
\* A step of one run that leaves the places alone, and that begins none.
LEMMA RunOwn ==
  ASSUME AloneInv, NEW p \in Procs, Running(p), UNCHANGED tree, ScanOk(scan'[p]),
         \A q \in Procs \ {p} : scan'[q] = scan[q] /\ proc'[q].pc = proc[q].pc /\ proc'[q].alone = proc[q].alone,
         Undisturbed(p)' => Undisturbed(p) /\ \A n \in Names : Own(p, n)' /\ Making(p, n)'
  PROVE  AloneInv'
<1>1. \A q \in Procs : ScanOk(scan'[q])
  BY DEF AloneInv
<1>2. \A q \in Procs \ {p} : Running(q)' <=> Running(q)
  BY DEF Running
<1>3. ASSUME NEW q \in Procs \ {p}  PROVE ~Undisturbed(q)'
  BY <1>2 DEF Undisturbed, AloneInv
<1>4. ASSUME Undisturbed(p)'  PROVE \A r \in Procs \ {p} : ~Running(r)'
  BY <1>2, <1>4 DEF AloneInv
<1> QED  BY <1>1, <1>3, <1>4 DEF AloneInv

LEMMA StartOwn ==
  ASSUME FetchInv, AloneInv, NEW p \in Procs, Start(p)  PROVE AloneInv'
<1> DEFINE others == {q \in Procs \ {p} : Running(q)}
<1>1. /\ ~Running(p) /\ UNCHANGED <<tree, work>>
      /\ scan' = [scan EXCEPT ![p] = NothingDeclared] /\ tmp' = [tmp EXCEPT ![p] = [n \in Names |-> NoTree]]
  BY DEF Start
<1>2. /\ proc'[p].pc = "scan" /\ proc'[p].fresh = {} /\ proc'[p].alone = (others = {})
      /\ \A q \in Procs \ {p} : proc'[q].pc = proc[q].pc /\ proc'[q].alone = (proc[q].alone /\ q \notin others)
  BY DEF Start, FetchInv, Base, RunFields, Idle
<1>3. \A q \in Procs : ScanOk(scan'[q])
  <2>1. scan'[p] = NothingDeclared /\ \A q \in Procs \ {p} : scan'[q] = scan[q]
    BY <1>1 DEF FetchInv, Base
  <2>2. ScanOk(NothingDeclared)
    <3>1. << >> \in Seq({}) /\ Range(<< >>) = {} /\ DOMAIN << >> = {}
      BY DEF Range
    <3> QED  BY <3>1 DEF ScanOk, ScanFields, NothingDeclared
  <2> QED  BY <2>1, <2>2 DEF AloneInv
<1>4. ASSUME NEW q \in Procs \ {p}  PROVE ~Undisturbed(q)'
  <2>1. Running(q)' <=> Running(q)
    BY <1>2 DEF Running
  <2> QED  BY <1>2, <2>1 DEF Undisturbed
<1>5. ASSUME Undisturbed(p)'
      PROVE  /\ \A q \in Procs \ {p} : ~Running(q)'
             /\ \A n \in Names : Own(p, n)' /\ Making(p, n)'
  <2>1. \A q \in Procs \ {p} : ~Running(q)'
    BY <1>2, <1>5 DEF Undisturbed, Running
  <2>2. ASSUME NEW n \in Names  PROVE Own(p, n)' /\ Making(p, n)'
    <3>1. work'[p][n].at # "running"
      BY <1>1 DEF FetchInv, WorkInv, Working, Running
    <3> QED  BY <1>2, <3>1 DEF Own, Making
  <2> QED  BY <2>1, <2>2
<1> QED  BY <1>3, <1>4, <1>5 DEF AloneInv

LEMMA ScanOwn ==
  ASSUME world \in Worlds, FetchInv, AloneInv, NEW p \in Procs, Scan(p)  PROVE AloneInv'
<1>1. PICK s :
        /\ s = _scan_round(world, tree, proc[p].resolved, Target(p), scan[p])
        /\ scan' = [scan EXCEPT ![p] = s]
        /\ proc' = [proc EXCEPT ![p].pc = IF s.error THEN "failed" ELSE IF s.new = << >> THEN "done" ELSE "resolve"]
        /\ work' = [work EXCEPT ![p] = [n \in Names |-> IF ~s.error /\ n \in Range(s.new)
                                                        THEN [NoWork EXCEPT !.at = "queued"] ELSE NoWork]]
  BY DEF Scan
<1>2. proc[p].pc = "scan" /\ UNCHANGED <<tree, tmp>>
  BY DEF Scan
<1>3. ScanOk(s) /\ Since(scan[p], s)
  <2>1. ScanOk(scan[p])
    BY DEF AloneInv
  <2>2. PICK t, roots, target : s = _scan_round(world, t, roots, target, scan[p])
    BY <1>1
  <2> QED  BY <2>1, <2>2, RoundSince
<1>4. /\ scan'[p] = s /\ \A q \in Procs \ {p} : scan'[q] = scan[q]
      /\ \A n \in Names : work'[p][n] = IF ~s.error /\ n \in Range(s.new)
                                        THEN [NoWork EXCEPT !.at = "queued"] ELSE NoWork
      /\ proc'[p].pc = IF s.error THEN "failed" ELSE IF s.new = << >> THEN "done" ELSE "resolve"
      /\ proc'[p].fresh = proc[p].fresh /\ proc'[p].alone = proc[p].alone
      /\ \A q \in Procs \ {p} : proc'[q] = proc[q]
  BY <1>1 DEF FetchInv, Base, RunFields
<1>5. ASSUME Undisturbed(p)', NEW n \in Names  PROVE Undisturbed(p) /\ Own(p, n)' /\ Making(p, n)'
  <2>1. ~s.error /\ proc'[p].pc = "resolve"
    BY <1>4, <1>5 DEF Undisturbed, Running
  <2>2. Undisturbed(p)
    BY <1>2, <1>4, <1>5 DEF Undisturbed, Running
  <2>3. work'[p][n].at = IF n \in Range(s.new) THEN "queued" ELSE "none"
    BY <1>4, <2>1 DEF NoWork
  <2>4. n \in proc[p].fresh => n \in DOMAIN scan[p].declared /\ Satisfies(tree[n], scan[p].declared[n])
    BY <1>2, <2>2 DEF AloneInv, Own
  <2>5. n \in proc[p].fresh =>
          /\ n \in DOMAIN s.declared
          /\ n \notin Range(s.new) => s.declared[n] = scan[p].declared[n]
          /\ n \in Range(s.new) => \/ n \in s.forced_reclone
                                   \/ n \in s.forced_update /\ tree[n].url = s.declared[n].url
    BY <1>3, <2>4 DEF Since, Satisfies
  <2>6. Own(p, n)'
    BY <1>2, <1>4, <2>1, <2>3, <2>4, <2>5 DEF Own, Url
  <2> QED  BY <2>2, <2>3, <2>6 DEF Making
<1>6. Undisturbed(p)' => Undisturbed(p)
  BY <1>2, <1>4 DEF Undisturbed, Running
<1> QED  BY <1>2, <1>3, <1>4, <1>5, <1>6, RunOwn DEF Running

LEMMA CancelOwn ==
  ASSUME FetchInv, AloneInv, NEW p \in Procs, CancelQueued(p)  PROVE AloneInv'
<1>1. /\ proc[p].pc = "resolve" /\ UNCHANGED <<tree, tmp, proc, scan>>
      /\ work' = [work EXCEPT ![p] = [n \in Names |-> IF work[p][n].at = "queued"
                                         THEN [NoWork EXCEPT !.at = "cancelled"] ELSE work[p][n]]]
  BY DEF CancelQueued, FetchInv, Base
<1>2. \A n \in Names : work'[p][n] = work[p][n] \/ work'[p][n].at = "cancelled"
  BY <1>1 DEF FetchInv, Base, NoWork
<1>3. ASSUME Undisturbed(p), NEW n \in Names  PROVE Own(p, n)' /\ Making(p, n)'
  <2>1. Own(p, n) /\ Making(p, n)
    BY <1>3 DEF AloneInv
  <2>2. CASE work'[p][n] = work[p][n]
    BY <1>1, <2>1, <2>2, OwnKept
  <2>3. CASE work'[p][n].at = "cancelled"
    BY <1>1, <2>1, <2>3 DEF Own, Making
  <2> QED  BY <1>2, <2>2, <2>3
<1>4. Undisturbed(p)' <=> Undisturbed(p)
  BY <1>1 DEF Undisturbed, Running
<1>5. ScanOk(scan'[p])
  BY <1>1 DEF AloneInv
<1> QED  BY <1>1, <1>3, <1>4, <1>5, RunOwn DEF Running

LEMMA EndRoundOwn ==
  ASSUME FetchInv, AloneInv, NEW p \in Procs, EndRound(p)  PROVE AloneInv'
<1> DEFINE failed == \E n \in Range(scan[p].new) : work[p][n].at # "ok"
<1>1. /\ proc[p].pc = "resolve" /\ \A n \in Range(scan[p].new) : Ended(p, n)
      /\ UNCHANGED <<tree, tmp, scan, work>>
  BY DEF EndRound
<1>2. /\ proc'[p].pc \in {"failed", "scan"} /\ (failed => proc'[p].pc = "failed")
      /\ proc'[p].fresh = proc[p].fresh /\ proc'[p].alone = proc[p].alone
      /\ \A q \in Procs \ {p} : proc'[q] = proc[q]
  <2>1. \E a, b, c : proc' = [proc EXCEPT ![p].pc = a, ![p].round = b, ![p].resolved = c]
                     /\ a \in {"failed", "scan"} /\ (failed => a = "failed")
    BY DEF EndRound
  <2>2. DOMAIN proc = Procs /\ \A q \in Procs : DOMAIN proc[q] = RunFields
    BY DEF FetchInv, Base
  <2> HIDE DEF failed
  <2> QED  BY <2>1, <2>2 DEF RunFields
<1>3. ASSUME Undisturbed(p)', NEW n \in Names  PROVE Own(p, n)' /\ Making(p, n)'
  <2>1. Undisturbed(p) /\ ~failed /\ proc'[p].pc = "scan"
    BY <1>1, <1>2, <1>3 DEF Undisturbed, Running
  <2>2. work[p][n].at \in {"none", "ok"}
    BY <1>1, <2>1 DEF FetchInv, WorkInv
  <2>3. Own(p, n)
    BY <2>1 DEF AloneInv
  <2> QED  BY <1>1, <1>2, <2>1, <2>2, <2>3 DEF Own, Making
<1>4. Undisturbed(p)' => Undisturbed(p)
  BY <1>1, <1>2 DEF Undisturbed, Running
<1>5. ScanOk(scan'[p])
  BY <1>1 DEF AloneInv
<1> QED  BY <1>1, <1>2, <1>3, <1>4, <1>5, RunOwn DEF Running

LEMMA KillOwn ==
  ASSUME FetchInv, AloneInv, NEW p \in Procs, Kill(p)  PROVE AloneInv'
<1>1. /\ Running(p) /\ UNCHANGED <<tree, scan>> /\ proc' = [proc EXCEPT ![p].pc = "killed"]
  BY DEF Kill
<1>2. ~Running(p)' /\ \A q \in Procs \ {p} : proc'[q] = proc[q]
  BY <1>1 DEF FetchInv, Base, RunFields, Running
<1>3. ScanOk(scan'[p]) /\ ~Undisturbed(p)'
  BY <1>1, <1>2 DEF AloneInv, Undisturbed
<1> QED  BY <1>1, <1>2, <1>3, RunOwn

LEMMA AloneStep ==
  ASSUME world \in Worlds, FetchInv, AloneInv, [Next]_vars  PROVE AloneInv'
<1>1. ASSUME NEW p \in Procs, Start(p) \/ Step(p) \/ Kill(p)  PROVE AloneInv'
  BY <1>1, StartOwn, ScanOwn, CancelOwn, EndRoundOwn, KillOwn DEF Step
<1>2. ASSUME NEW p \in Procs, NEW n \in Names, Worker(p, n) \/ GitFails(p, n)  PROVE AloneInv'
  BY <1>2, LockOwn, RemovalOwn, CloneOwn, RenameOwn, RunGitOwn, UnlockOwn, GitFailsOwn DEF Worker
<1>3. CASE UNCHANGED <<tree, tmp, proc, scan, work>>
  <2>1. ASSUME NEW p \in Procs, Undisturbed(p)
        PROVE  /\ \A q \in Procs \ {p} : ~Running(q)'
               /\ \A n \in Names : Own(p, n)' /\ Making(p, n)'
    BY <1>3, <2>1, OwnKept DEF AloneInv, Running
  <2>2. \A p \in Procs : ScanOk(scan'[p]) /\ (Undisturbed(p)' => Undisturbed(p))
    BY <1>3 DEF AloneInv, Undisturbed, Running
  <2> QED  BY <2>1, <2>2 DEF AloneInv
<1>4. CASE (\E u \in Urls : Publish(u)) \/ UNCHANGED vars
  BY <1>3, <1>4 DEF Publish, vars
<1> QED  BY <1>1, <1>2, <1>4 DEF Next

\* Only Unlock adds to what a run has made.
FreshNames == \A p \in Procs : proc[p].fresh \subseteq Names

LEMMA FreshStep ==
  ASSUME FetchInv, FreshNames, [Next]_vars  PROVE FreshNames' /\ UNCHANGED world
<1> USE DEF FreshNames
<1>1. ASSUME NEW p \in Procs, Start(p)  PROVE FreshNames' /\ UNCHANGED world
  <2>1. proc'[p].fresh = {} /\ \A q \in Procs \ {p} : proc'[q].fresh = proc[q].fresh
    BY <1>1 DEF Start, FetchInv, Base, RunFields, Idle
  <2> QED  BY <1>1, <2>1 DEF Start
<1>2. ASSUME NEW p \in Procs, Scan(p) \/ Kill(p) \/ EndRound(p) PROVE FreshNames' /\ UNCHANGED world
  <2>1. (\A q \in Procs : proc'[q].fresh = proc[q].fresh) /\ UNCHANGED world
    <3>1. CASE Scan(p)
      BY <3>1 DEF Scan, FetchInv, Base, RunFields
    <3>2. CASE Kill(p)
      BY <3>2 DEF Kill, FetchInv, Base, RunFields
    <3>3. CASE EndRound(p)
      <4>1. world' = world /\ \A q \in Procs \ {p} : proc'[q] = proc[q]
        BY <3>3 DEF EndRound, FetchInv, Base
      <4>2. proc'[p].fresh = proc[p].fresh
        BY <3>3 DEF EndRound, FetchInv, Base, RunFields
      <4> QED  BY <4>1, <4>2
    <3> QED  BY <1>2, <3>1, <3>2, <3>3
  <2> QED  BY <2>1
<1>3. ASSUME NEW p \in Procs, NEW n \in Names, Unlock(p, n)  PROVE FreshNames' /\ UNCHANGED world
  <2>1. \A q \in Procs : proc'[q].fresh \subseteq proc[q].fresh \cup {n}
    BY <1>3 DEF Unlock, FetchInv, Base, RunFields
  <2> QED  BY <1>3, <2>1 DEF Unlock
<1>4. ASSUME NEW p \in Procs, NEW n \in Names,
             \/ Lock(p, n) \/ LockToRemove(p, n) \/ Removed(p, n)
             \/ Clone(p, n) \/ Rename(p, n) \/ RunGit(p, n) \/ GitFails(p, n)
      PROVE  FreshNames' /\ UNCHANGED world
  BY <1>4 DEF Lock, LockToRemove, Removed, Clone, Rename, RunGit, GitFails
<1>5. CASE UNCHANGED <<proc, world>>
  BY <1>5
<1>6. CASE (\E u \in Urls : Publish(u)) \/ (\E p \in Procs : CancelQueued(p)) \/ UNCHANGED vars
  BY <1>5, <1>6 DEF Publish, CancelQueued, vars
<1> QED  BY <1>1, <1>2, <1>3, <1>4, <1>6 DEF Next, Step, Worker

OwnInv == world \in Worlds /\ FreshNames /\ AloneInv

LEMMA OwnInvariant == Spec => [](FetchInv /\ OwnInv)
<1>1. Init => OwnInv
  <2> SUFFICES ASSUME Init  PROVE AloneInv /\ FreshNames
    BY DEF Init, OwnInv
  <2>1. \A p \in Procs : scan[p] = NothingDeclared /\ ~Running(p) /\ proc[p].fresh = {}
    BY DEF Init, Idle, Running
  <2>2. ScanOk(NothingDeclared)
    <3>1. << >> \in Seq({}) /\ Range(<< >>) = {} /\ DOMAIN << >> = {}
      BY DEF Range
    <3> QED  BY <3>1 DEF ScanOk, ScanFields, NothingDeclared
  <2> QED  BY <2>1, <2>2 DEF AloneInv, Undisturbed, FreshNames
<1>2. OwnInv /\ FetchInv /\ [Next]_vars => OwnInv'
  BY FreshStep, AloneStep DEF OwnInv
<1> QED  BY <1>1, <1>2, FetchInvariant, PTL DEF Spec

\* Which of two declarations a run reads first is chance: the order of the walk, and
\* what it can reach yet.  Whichever it cloned for, a run that nobody else overlaps
\* ends with each of its own clones at the url and the ref of the one that counts.
THEOREM FetchOwnClonesAsDeclared == Spec => OwnClonesAsDeclared
<1>1. ASSUME OwnInv, FetchInv, [Next]_vars, NEW p \in Procs, Finishes(p), proc[p].alone,
             NEW n \in proc[p].fresh
      PROVE  Satisfies(tree[n], scan[p].declared[n])
  <2>1. ASSUME NEW q \in Procs, ~Scan(q), Start(q) \/ Step(q) \/ Kill(q)  PROVE FALSE
    <3>1. CASE Start(q)
      <4>1. proc'[p].pc \in {proc[p].pc, "scan"}
        <5>1. q # p => proc'[p] = [proc[p] EXCEPT !.alone = @ /\ p \notin {r \in Procs \ {q} : Running(r)}]
          BY <3>1 DEF Start
        <5>2. q = p => proc'[p].pc = "scan"
          BY <3>1 DEF Start, Idle
        <5>3. DOMAIN proc[p] = RunFields
          BY <1>1 DEF FetchInv, Base
        <5> QED  BY <5>1, <5>2, <5>3 DEF RunFields
      <4> QED  BY <1>1, <4>1 DEF Finishes
    <3>2. CASE CancelQueued(q)
      BY <1>1, <3>2 DEF CancelQueued, Finishes
    <3>3. CASE EndRound(q)
      <4>1. proc'[p].pc \in {proc[p].pc, "scan", "failed"}
        <5>1. \E a, b, c : proc' = [proc EXCEPT ![q].pc = a, ![q].round = b, ![q].resolved = c]
                           /\ a \in {"failed", "scan"}
          BY <3>3 DEF EndRound
        <5>2. DOMAIN proc = Procs /\ DOMAIN proc[p] = RunFields
          BY <1>1 DEF FetchInv, Base
        <5> QED  BY <5>1, <5>2 DEF RunFields
      <4> QED  BY <1>1, <4>1 DEF Finishes
    <3>4. CASE Kill(q)
      <4>1. proc'[p].pc \in {proc[p].pc, "killed"}
        BY <1>1, <3>4 DEF Kill, FetchInv, Base, RunFields
      <4> QED  BY <1>1, <4>1 DEF Finishes
    <3> QED  BY <2>1, <3>1, <3>2, <3>3, <3>4 DEF Step
  <2>2. ASSUME NEW q \in Procs, NEW m \in Names, Worker(q, m) \/ GitFails(q, m)  PROVE proc'[p].pc = proc[p].pc
    <3>1. Unlock(q, m) => proc'[p].pc = proc[p].pc
      BY <1>1 DEF Unlock, FetchInv, Base, RunFields
    <3>2. Lock(q, m) \/ LockToRemove(q, m) \/ Removed(q, m) \/ Clone(q, m) \/ Rename(q, m) \/ RunGit(q, m) \/ GitFails(q, m) => UNCHANGED proc
      BY DEF Lock, LockToRemove, Removed, Clone, Rename, RunGit, GitFails
    <3> QED  BY <2>2, <3>1, <3>2 DEF Worker
  <2>3. (\E u \in Urls : Publish(u)) \/ UNCHANGED vars => UNCHANGED proc
    BY DEF Publish, vars
  <2>4. PICK q \in Procs : Scan(q)
    BY <1>1, <2>1, <2>2, <2>3 DEF Next, Finishes
  <2>5. proc[p].pc = "scan"
    <3>1. q # p => proc'[p].pc = proc[p].pc
      BY <1>1, <2>4 DEF Scan, FetchInv, Base, RunFields
    <3> QED  BY <1>1, <2>4, <3>1 DEF Scan, Finishes
  <2>6. Undisturbed(p) /\ n \in Names
    BY <1>1, <2>5 DEF Undisturbed, Running, OwnInv, FreshNames
  <2>7. Own(p, n)
    BY <1>1, <2>6 DEF OwnInv, AloneInv
  <2> QED  BY <1>1, <2>5, <2>7 DEF Own
<1>2. OwnInv /\ FetchInv /\ [Next]_vars =>
        [\A p \in Procs : Finishes(p) /\ proc[p].alone =>
           \A n \in proc[p].fresh : Satisfies(tree[n], scan[p].declared[n])]_vars
  BY <1>1
<1> QED  BY <1>2, OwnInvariant, PTL DEF Spec, OwnClonesAsDeclared

===============================================================================
