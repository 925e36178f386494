-------------------------------- MODULE Fetch --------------------------------
(***************************************************************************)
(* fetch_externals: processes (ct-fetch, and the fetch step of ct-cake)    *)
(* that share a directory of externals.  A run goes round by round: it     *)
(* scans the files it can reach, and a pool of workers resolves what the   *)
(* round declared, each under the FileLock of its external.  Upstream      *)
(* publishes meanwhile, git commands fail and processes are killed.        *)
(*                                                                         *)
(* world is the project: which files declare and include what, which trees *)
(* the user has put in place, and how each process is run.                 *)
(***************************************************************************)
EXTENDS Externals, TLC

CONSTANTS Procs, Worlds, Urls,
          MaxTip,     \* commits upstream ever publishes
          MaxRounds,  \* _MAX_FIXPOINT_ROUNDS
          MaxRuns,    \* runs of one process, one after the other
          MaxFaults   \* failing git commands and kills

ASSUME ProcsAssumption == None \notin Procs

ASSUME DeclsAssumption ==
  /\ MaxDecls \in Nat /\ IsFiniteSet(Names)
  /\ \A w \in Worlds :
       /\ IsFiniteSet(DOMAIN w.files)
       /\ \A f \in DOMAIN w.files : Len(w.files[f].decls) <= MaxDecls
       /\ \A u \in Urls : \A c \in DOMAIN w.repo[u] : Len(w.repo[u][c].decls) <= MaxDecls

\* A tag is no commit's name, nor is the branch, nor what stands for no ref.
ASSUME RefsAssumption ==
  /\ DOMAIN Tags \cap DOMAIN Shas = {}
  /\ Branch \notin DOMAIN Tags \cup DOMAIN Shas /\ NoRef \notin DOMAIN Tags \cup DOMAIN Shas

\* What the user has put in place is a directory, a linked worktree or a whole clone.
TreeFields == {"is", "url", "head", "on", "main", "seen", "objs", "tags", "dirty", "half", "by"}
ASSUME WorldsAssumption ==
  \A w \in Worlds :
    /\ DOMAIN w.tree = Names
    /\ \A n \in Names : /\ w.tree[n].is \in {"absent", "plain", "worktree", "clone"}
                        /\ w.tree[n].is \in {"clone", "plain"} => DOMAIN w.tree[n] = TreeFields /\ ~w.tree[n].half

VARIABLES world,
          tip,      \* [Urls -> the last commit published]
          tree,     \* [Names -> what is at the managed location]
          lock,     \* [Names -> the process whose worker holds <target>.lock, or None]
          tmp,      \* [Procs -> [Names -> the temporary sibling]]
          proc,     \* [Procs -> the run: pc, round, runs, resolved, fresh, alone]
          scan,     \* [Procs -> what the run's scan has recorded]
          work,     \* [Procs -> [Names -> the worker that resolves the name]]
          faults

vars == <<world, tip, tree, lock, tmp, proc, scan, work, faults>>

NoWork == [at |-> "none", cmds |-> << >>, existed |-> FALSE]
Idle   == [pc |-> "idle", round |-> 0, runs |-> 0, resolved |-> {}, fresh |-> {}, alone |-> TRUE]

Running(p) == proc[p].pc \in {"scan", "resolve"}

Init == /\ world \in Worlds
        /\ tip = world.tip
        /\ tree = world.tree
        /\ lock = [n \in Names |-> None]
        /\ tmp = [p \in Procs |-> [n \in Names |-> NoTree]]
        /\ proc = [p \in Procs |-> Idle]
        /\ scan = [p \in Procs |-> NothingDeclared]
        /\ work = [p \in Procs |-> [n \in Names |-> NoWork]]
        /\ faults = 0

Ref(p, n) == scan[p].declared[n].ref
Url(p, n) == scan[p].declared[n].url
Target(p) == world.targets[p][proc[p].runs]
------------------------------------------------------------------------------
\* A run begins, under a new pid: a temporary sibling left by a kill is nobody's.
Start(p) ==
  /\ ~Running(p) /\ proc[p].runs < Len(world.targets[p]) /\ proc[p].runs < MaxRuns
  /\ LET others == {q \in Procs \ {p} : Running(q)}
     IN  proc' = [q \in Procs |->
                    IF q = p THEN [Idle EXCEPT !.pc = "scan", !.round = 1,
                                               !.runs = proc[p].runs + 1, !.alone = others = {}]
                    ELSE [proc[q] EXCEPT !.alone = @ /\ q \notin others]]
  /\ scan' = [scan EXCEPT ![p] = NothingDeclared]
  /\ tmp' = [tmp EXCEPT ![p] = [n \in Names |-> NoTree]]
  /\ UNCHANGED <<world, tip, tree, lock, work, faults>>

\* One round of _fixpoint_scan up to the work it finds.
Scan(p) ==
  /\ proc[p].pc = "scan"
  /\ LET s == _scan_round(world, tree, proc[p].resolved, Target(p), scan[p])
     IN  /\ scan' = [scan EXCEPT ![p] = s]
         /\ proc' = [proc EXCEPT ![p].pc = IF s.error THEN "failed"
                                           ELSE IF s.new = << >> THEN "done" ELSE "resolve"]
         /\ work' = [work EXCEPT ![p] =
                       [n \in Names |-> IF ~s.error /\ n \in Range(s.new)
                                        THEN [NoWork EXCEPT !.at = "queued"] ELSE NoWork]]
  /\ UNCHANGED <<world, tip, tree, lock, tmp, faults>>

\* Mutant: the clone of whoever made it goes.
RecloneAny(p, n) == n \in scan[p].forced_reclone \/ (n \in scan[p].forced_update /\ Ref(p, n) = NoRef)

\* A clone of this run's that a displaced declaration left at the wrong url, or
\* detached for a declaration without a ref, is made anew.
ForceReclone(p, n) ==
  /\ n \in proc[p].fresh
  /\ n \in scan[p].forced_reclone \/ (n \in scan[p].forced_update /\ Ref(p, n) = NoRef)

\* Mutant: a branch is left where it is, as for a tree the run did not make.
UpdatePinned(p, n) ==
  n \in scan[p].forced_update /\ n \in proc[p].fresh /\ Ref(p, n) \notin {NoRef, Branch}

\* One that it left at the wrong ref is moved as under --update.
ForceUpdate(p, n) ==
  n \in scan[p].forced_update /\ n \in proc[p].fresh /\ Ref(p, n) # NoRef

\* existed_before is sampled under the lock.
ExistedBefore(p, n) == tree[n].is # "absent"

\* The handlers decide what a worker is to do with a tree; a refusal is raised, and
\* the lock goes with it.
Decide(p, n, t, existed) ==
  LET mode == world.mode[p]
      plan == resolve_external(t, Ref(p, n), mode = "no_fetch", mode = "update" \/ ForceUpdate(p, n))
  IN  /\ lock' = [lock EXCEPT ![n] = IF plan.ok THEN p ELSE None]
      /\ work' = [work EXCEPT ![p][n] = [at |-> IF plan.ok THEN "running" ELSE "failed",
                                         cmds |-> plan.cmds, existed |-> existed]]

CanLock(p, n) == proc[p].pc = "resolve" /\ work[p][n].at = "queued" /\ lock[n] = None

\* _resolve_one takes the lock, and there is nothing to remove.
Lock(p, n) ==
  /\ CanLock(p, n) /\ ~(ForceReclone(p, n) /\ ExistedBefore(p, n))
  /\ Decide(p, n, tree[n], ExistedBefore(p, n))
  /\ UNCHANGED <<world, tip, tree, tmp, proc, scan, faults>>

\* It takes the lock and begins to remove the clone that is to be made anew ...
LockToRemove(p, n) ==
  /\ CanLock(p, n) /\ ForceReclone(p, n) /\ ExistedBefore(p, n)
  /\ \E part \in Remains(tree[n]) : tree' = [tree EXCEPT ![n] = part]
  /\ lock' = [lock EXCEPT ![n] = p]
  /\ work' = [work EXCEPT ![p][n] = [at |-> "running", cmds |-> <<"rmtree">>, existed |-> TRUE]]
  /\ UNCHANGED <<world, tip, tmp, proc, scan, faults>>

Busy(p, n) == work[p][n].at = "running" /\ work[p][n].cmds # << >>
Next1(p, n) == Head(work[p][n].cmds)

\* ... and the last of it goes, before the handlers decide.
Removed(p, n) ==
  /\ Busy(p, n) /\ Next1(p, n) = "rmtree"
  /\ tree' = [tree EXCEPT ![n] = NoTree]
  /\ Decide(p, n, NoTree, TRUE)
  /\ UNCHANGED <<world, tip, tmp, proc, scan, faults>>

\* git works in the temporary sibling while there is one.
Site(p, n) == IF tmp[p][n].is # "absent" THEN tmp[p][n] ELSE tree[n]

\* git clone into <target>.ct-fetch.tmp.<pid>
Clone(p, n) ==
  /\ Busy(p, n) /\ Next1(p, n) = "clone"
  /\ LET made == Cloned(Url(p, n), tip[Url(p, n)], <<p, proc[p].runs>>)
     IN  /\ tmp' = [tmp EXCEPT ![p][n] = made]
         /\ work' = [work EXCEPT ![p][n].cmds = AfterClone(made, Ref(p, n))]
  /\ UNCHANGED <<world, tip, tree, lock, proc, scan, faults>>

\* os.rename(tmp, target)
Rename(p, n) ==
  /\ Busy(p, n) /\ Next1(p, n) = "rename"
  /\ tree' = [tree EXCEPT ![n] = Site(p, n)]
  /\ tmp' = [tmp EXCEPT ![p][n] = NoTree]
  /\ work' = [work EXCEPT ![p][n].cmds = Tail(@)]
  /\ UNCHANGED <<world, tip, lock, proc, scan, faults>>

\* Any other git command, in the temporary sibling or in the managed tree.
RunGit(p, n) ==
  /\ Busy(p, n) /\ Next1(p, n) \notin {"rmtree", "clone", "rename"}
  /\ LET site  == Site(p, n)
         now   == tip[site.url]
         after == AfterCommand(Next1(p, n), site, Ref(p, n), now)
     IN  /\ Possible(Next1(p, n), site, Ref(p, n), now)
         /\ IF tmp[p][n].is # "absent"
            THEN tmp' = [tmp EXCEPT ![p][n] = after] /\ UNCHANGED tree
            ELSE tree' = [tree EXCEPT ![n] = after] /\ UNCHANGED tmp
  /\ work' = [work EXCEPT ![p][n].cmds = Tail(@)]
  /\ UNCHANGED <<world, tip, lock, proc, scan, faults>>

\* A git command fails: what it asks for is not there, or the network is not; or the
\* removal of a clone does, and leaves the rest of it.  The temporary sibling goes,
\* then the lock, and the error is raised.
GitFails(p, n) ==
  /\ Busy(p, n) /\ Next1(p, n) # "rename"
  /\ \/ /\ Next1(p, n) # "clone"
        /\ ~Possible(Next1(p, n), Site(p, n), Ref(p, n), tip[Site(p, n).url])
        /\ UNCHANGED faults
     \/ faults < MaxFaults /\ faults' = faults + 1
  /\ tmp' = [tmp EXCEPT ![p][n] = NoTree]
  /\ lock' = [lock EXCEPT ![n] = None]
  /\ work' = [work EXCEPT ![p][n] = [NoWork EXCEPT !.at = "failed"]]
  /\ UNCHANGED <<world, tip, tree, proc, scan>>

\* The worker has its result: the clone it made is this run's own.
Unlock(p, n) ==
  /\ work[p][n].at = "running" /\ work[p][n].cmds = << >>
  /\ lock' = [lock EXCEPT ![n] = None]
  /\ proc' = [proc EXCEPT ![p].fresh = IF work[p][n].existed THEN @ ELSE @ \cup {n}]
  /\ work' = [work EXCEPT ![p][n].at = "ok"]
  /\ UNCHANGED <<world, tip, tree, tmp, scan, faults>>

Ended(p, n) == work[p][n].at \in {"ok", "failed", "cancelled"}

\* The main thread reads the results in order of declaration; at the first error
\* it cancels the workers that have not begun.
CancelQueued(p) ==
  /\ proc[p].pc = "resolve"
  /\ \E i \in DOMAIN scan[p].new : /\ \A j \in 1..i : Ended(p, scan[p].new[j])
                                   /\ work[p][scan[p].new[i]].at = "failed"
  /\ \E n \in Names : work[p][n].at = "queued"
  /\ work' = [work EXCEPT ![p] = [n \in Names |-> IF @[n].at = "queued"
                                                  THEN [NoWork EXCEPT !.at = "cancelled"] ELSE @[n]]]
  /\ UNCHANGED <<world, tip, tree, lock, tmp, proc, scan, faults>>

\* _resolve_new returns or raises, and the driver takes the next round.
EndRound(p) ==
  /\ proc[p].pc = "resolve" /\ \A n \in Range(scan[p].new) : Ended(p, n)
  /\ LET failed == \E n \in Range(scan[p].new) : work[p][n].at # "ok"
         last   == proc[p].round = MaxRounds
     IN  proc' = [proc EXCEPT ![p].pc = IF failed \/ last THEN "failed" ELSE "scan",
                              ![p].round = IF last THEN @ ELSE @ + 1,
                              ![p].resolved = IF failed THEN @ ELSE @ \cup Range(scan[p].new)]
  /\ UNCHANGED <<world, tip, tree, lock, tmp, scan, work, faults>>

\* SIGKILL: the kernel drops the locks, and the temporary sibling stays.
Kill(p) ==
  /\ Running(p) /\ faults < MaxFaults
  /\ proc' = [proc EXCEPT ![p].pc = "killed"]
  /\ lock' = [n \in Names |-> IF lock[n] = p THEN None ELSE lock[n]]
  /\ work' = [work EXCEPT ![p] = [n \in Names |-> NoWork]]
  /\ faults' = faults + 1
  /\ UNCHANGED <<world, tip, tree, tmp, scan>>

\* Upstream publishes a commit, with its tag.
Publish(u) == /\ tip[u] < MaxTip /\ u \in world.moving
              /\ tip' = [tip EXCEPT ![u] = @ + 1]
              /\ UNCHANGED <<world, tree, lock, tmp, proc, scan, work, faults>>

Worker(p, n) == \/ Lock(p, n) \/ LockToRemove(p, n) \/ Removed(p, n)
                \/ Clone(p, n) \/ Rename(p, n) \/ RunGit(p, n) \/ Unlock(p, n)
Step(p) == Scan(p) \/ CancelQueued(p) \/ EndRound(p)

Next == \/ \E p \in Procs : Start(p) \/ Step(p) \/ Kill(p)
        \/ \E p \in Procs, n \in Names : Worker(p, n) \/ GitFails(p, n)
        \/ \E u \in Urls : Publish(u)

Spec == Init /\ [][Next]_vars
------------------------------------------------------------------------------
\* No run removes what it did not clone itself, and none changes a directory that
\* is no clone, a linked worktree or a tree with local edits ("only ever a clone
\* THIS run created", "a pre-existing tree keeps leave-as-is semantics").
KeepsOthers ==
  [][\A n \in Names : tree[n].is # "absent" /\ tree'[n] # tree[n] =>
       /\ Part(tree[n]) \/ (tree[n].is = "clone" /\ ~tree[n].dirty)
       /\ tree'[n].is = "absent" \/ Part(tree'[n]) =>
            \E p \in Procs : proc[p].pc = "resolve" /\ tree[n].by = <<p, proc[p].runs>>]_vars

\* A clone comes to its managed location complete, at the url and ref of the
\* declaration it was made for, under the lock, whatever fails and whoever is killed
\* ("renamed into place only on full success"); and nothing there is ever left in
\* parts but by a run that has begun to remove its own clone to make it anew, under
\* the lock: if it is killed there, the parts stay.
WholeOrAbsent ==
  [][\A n \in Names :
       /\ tree[n].is = "absent" /\ tree'[n].is # "absent" =>
            \E p \in Procs : lock[n] = p /\ Satisfies(tree'[n], scan[p].declared[n]) /\ ~Part(tree'[n])
       /\ Part(tree'[n]) /\ ~Part(tree[n]) =>
            \E p \in Procs : ForceReclone(p, n) /\ lock'[n] = p]_vars

Finishes(p) == proc[p].pc # "done" /\ proc'[p].pc = "done"

\* A run that nobody else overlaps ends with each of its own clones at the url and
\* ref of the declaration that counts, whichever declaration was read first.
OwnClonesAsDeclared ==
  [][\A p \in Procs : Finishes(p) /\ proc[p].alone =>
       \A n \in proc[p].fresh : Satisfies(tree[n], scan[p].declared[n])]_vars

\* The run has read a header that says something else now, moved by the run itself.
ReadBefore(p) == \E n \in DOMAIN scan'[p].texts : scan'[p].texts[n] # Said(world, tree, n)

\* The run has reached into a directory that is no git work tree.
ReachedPlain(p) == \E n \in DOMAIN scan'[p].declared : ~Present(tree[n])

\* The report that --status makes of the tree a run leaves names the declarations the
\* run acted on ("keeping --status's answer identical to what a build resolves"),
\* unless the run read a header that it moved afterwards, or used a directory that
\* --status reports missing.
StatusAgrees ==
  [][\A p \in Procs : Finishes(p) /\ proc[p].alone /\ ~ReadBefore(p) /\ ~ReachedPlain(p) =>
       gather_external_status(world, tree, Target(p), MaxRounds).declared
         = scan'[p].declared]_vars

==============================================================================
