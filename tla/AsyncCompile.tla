----------------------------- MODULE AsyncCompile -----------------------------
(***************************************************************************)
(* locking.atomic_compile_async (and atomic_link_async) in one event loop: *)
(* each task takes its target's lock, at once or on a thread of the        *)
(* default executor that nothing can interrupt, awaits a compiler, and may *)
(* be cancelled at every await: by a failed sibling, by Ctrl-C, and again  *)
(* by asyncio.run on its way out.  Only one task compiles a target (the    *)
(* scheduler's memo), so a lock is contended by other processes only.      *)
(***************************************************************************)
EXTENDS Naturals, FiniteSets

CONSTANTS Tasks,
          Workers,     \* threads of the default executor
          NonBlocking, \* tasks whose lock has acquire_nonblocking (fcntl, flock)
          MaxCancels   \* bound on the times a task is cancelled

ASSUME WorkersAssumption == Workers \in Nat \ {0}
ASSUME CancelsAssumption == MaxCancels \in Nat
ASSUME NonBlockingAssumption == NonBlocking \subseteq Tasks

VARIABLES pc,        \* what each task does or awaits
          work,      \* its work item in the executor
          abandoned, \* state["abandoned"]
          acquired,  \* state["acquired"]
          lock,      \* who holds the target's lock
          child,     \* its compiler, as the kernel sees it
          pending,   \* a cancellation is to be delivered at the await
          cancels    \* cancellations so far (bounded)

vars == <<pc, work, abandoned, acquired, lock, child, pending, cancels>>

TypeOK ==
  /\ pc \in [Tasks -> {"start", "acquiring", "owner", "compiling", "killing",
                       "cleanup", "ended"}]
  /\ work \in [Tasks -> {"none", "queued", "blocking", "locked", "releasing",
                         "over", "dropped"}]
  /\ abandoned \in [Tasks -> BOOLEAN]
  /\ acquired \in [Tasks -> BOOLEAN]
  /\ lock \in [Tasks -> {"free", "peer", "us"}]
  /\ child \in [Tasks -> {"none", "running", "dying", "exited"}]
  /\ pending \in [Tasks -> BOOLEAN]
  /\ cancels \in [Tasks -> 0..MaxCancels]

Init == /\ pc = [t \in Tasks |-> "start"]
        /\ work = [t \in Tasks |-> "none"]
        /\ abandoned = [t \in Tasks |-> FALSE]
        /\ acquired = [t \in Tasks |-> FALSE]
        /\ lock = [t \in Tasks |-> "free"]
        /\ child = [t \in Tasks |-> "none"]
        /\ pending = [t \in Tasks |-> FALSE]
        /\ cancels = [t \in Tasks |-> 0]

Goto(t, l) == pc' = [pc EXCEPT ![t] = l]
Work(t, w) == work' = [work EXCEPT ![t] = w]
Lock(t, o) == lock' = [lock EXCEPT ![t] = o]
------------------------------------------------------------------------------
(* _async_acquire: the task's side *)

\* Mutant: acquire_nonblocking's answer is not looked at.
AcquireUnchecked(t) ==
  /\ pc[t] = "start" /\ t \in NonBlocking
  /\ Lock(t, IF lock[t] = "free" THEN "us" ELSE lock[t])
  /\ Goto(t, "owner")
  /\ UNCHANGED <<work, abandoned, acquired, child, pending, cancels>>

AcquireNow(t) == /\ pc[t] = "start"
                 /\ t \in NonBlocking /\ lock[t] = "free"
                 /\ Lock(t, "us")
                 /\ Goto(t, "owner")
                 /\ UNCHANGED <<work, abandoned, acquired, child, pending, cancels>>

Submit(t) == /\ pc[t] = "start"
             /\ ~ (t \in NonBlocking /\ lock[t] = "free")
             /\ Work(t, "queued")
             /\ Goto(t, "acquiring")
             /\ UNCHANGED <<abandoned, acquired, lock, child, pending, cancels>>

Resume(t) == /\ pc[t] = "acquiring" /\ acquired[t] /\ ~ pending[t]
             /\ Goto(t, "owner")
             /\ UNCHANGED <<work, abandoned, acquired, lock, child, pending, cancels>>

\* Mutant: the flag is not raised when the thread has not got the lock yet.
AbandonUnmarked(t) ==
  /\ pc[t] = "acquiring" /\ pending[t]
  /\ pending' = [pending EXCEPT ![t] = FALSE]
  /\ Work(t, IF work[t] = "queued" THEN "dropped" ELSE work[t])
  /\ Lock(t, IF acquired[t] THEN "free" ELSE lock[t])
  /\ Goto(t, "ended")
  /\ UNCHANGED <<abandoned, acquired, child, cancels>>

\* A work item no thread has picked up is dropped; one that runs is abandoned,
\* and the lock it has recorded already is given back here.
Abandon(t) ==
  /\ pc[t] = "acquiring" /\ pending[t]
  /\ pending' = [pending EXCEPT ![t] = FALSE]
  /\ abandoned' = [abandoned EXCEPT ![t] = TRUE]
  /\ Work(t, IF work[t] = "queued" THEN "dropped" ELSE work[t])
  /\ Lock(t, IF acquired[t] THEN "free" ELSE lock[t])
  /\ Goto(t, "ended")
  /\ UNCHANGED <<acquired, child, cancels>>
------------------------------------------------------------------------------
(* _async_acquire: the thread's side *)

Busy == {t \in Tasks : work[t] \in {"blocking", "locked", "releasing"}}

PickUp(t) == /\ work[t] = "queued" /\ Cardinality(Busy) < Workers
             /\ Work(t, "blocking")
             /\ UNCHANGED <<pc, abandoned, acquired, lock, child, pending, cancels>>

ThreadAcquires(t) == /\ work[t] = "blocking" /\ lock[t] = "free"
                     /\ Lock(t, "us")
                     /\ Work(t, "locked")
                     /\ UNCHANGED <<pc, abandoned, acquired, child, pending, cancels>>

\* Mutant: the thread does not look at the flag.
ThreadRecords(t) == /\ work[t] = "locked"
                    /\ acquired' = [acquired EXCEPT ![t] = TRUE]
                    /\ Work(t, "over")
                    /\ UNCHANGED <<pc, abandoned, lock, child, pending, cancels>>

\* Under the guard: the lock is for the task, or for nobody.
ThreadDecides(t) == /\ work[t] = "locked"
                    /\ acquired' = [acquired EXCEPT ![t] = ~ abandoned[t]]
                    /\ Work(t, IF abandoned[t] THEN "releasing" ELSE "over")
                    /\ UNCHANGED <<pc, abandoned, lock, child, pending, cancels>>

ThreadReleases(t) == /\ work[t] = "releasing"
                     /\ Lock(t, "free")
                     /\ Work(t, "over")
                     /\ UNCHANGED <<pc, abandoned, acquired, child, pending, cancels>>
------------------------------------------------------------------------------
(* atomic_compile_async and _run_child_async *)

\* skip_if_exists: a peer has produced the target.
Skip(t) == /\ pc[t] = "owner"
           /\ Goto(t, "cleanup")
           /\ UNCHANGED <<work, abandoned, acquired, lock, child, pending, cancels>>

Spawn(t) == /\ pc[t] = "owner"
            /\ child' = [child EXCEPT ![t] = "running"]
            /\ Goto(t, "compiling")
            /\ UNCHANGED <<work, abandoned, acquired, lock, pending, cancels>>

\* await proc.wait() returns; the child has been reaped.
Reap(t) == /\ pc[t] \in {"compiling", "killing"} /\ child[t] = "exited" /\ ~ pending[t]
           /\ child' = [child EXCEPT ![t] = "none"]
           /\ Goto(t, "cleanup")
           /\ UNCHANGED <<work, abandoned, acquired, lock, pending, cancels>>

\* Mutant: the compiler is killed and not waited for.
KillUnreaped(t) ==
  /\ pc[t] = "compiling" /\ pending[t]
  /\ pending' = [pending EXCEPT ![t] = FALSE]
  /\ child' = [child EXCEPT ![t] = IF @ = "running" THEN "dying" ELSE @]
  /\ Goto(t, "cleanup")
  /\ UNCHANGED <<work, abandoned, acquired, lock, cancels>>

\* except CancelledError: SIGKILL to the process group, then proc.wait() again.
Kill(t) == /\ pc[t] = "compiling" /\ pending[t]
           /\ pending' = [pending EXCEPT ![t] = FALSE]
           /\ child' = [child EXCEPT ![t] = IF @ = "running" THEN "dying" ELSE @]
           /\ Goto(t, "killing")
           /\ UNCHANGED <<work, abandoned, acquired, lock, cancels>>

\* suppress(Exception) does not stop a second CancelledError, a BaseException.
CancelledAgain(t) == /\ pc[t] = "killing" /\ pending[t]
                     /\ pending' = [pending EXCEPT ![t] = FALSE]
                     /\ Goto(t, "cleanup")
                     /\ UNCHANGED <<work, abandoned, acquired, lock, child, cancels>>

\* The finally clause: the temp file, then the lock.
Cleanup(t) == /\ pc[t] = "cleanup"
              /\ Lock(t, "free")
              /\ Goto(t, "ended")
              /\ UNCHANGED <<work, abandoned, acquired, child, pending, cancels>>
------------------------------------------------------------------------------
(* Around the task *)

\* Task.cancel() of a task that is suspended at an await.
Cancel(t) == /\ pc[t] \in {"acquiring", "compiling", "killing"}
             /\ ~ pending[t] /\ cancels[t] < MaxCancels
             /\ pending' = [pending EXCEPT ![t] = TRUE]
             /\ cancels' = [cancels EXCEPT ![t] = @ + 1]
             /\ UNCHANGED <<pc, work, abandoned, acquired, lock, child>>

ChildExits(t) == /\ child[t] \in {"running", "dying"}
                 /\ child' = [child EXCEPT ![t] = "exited"]
                 /\ UNCHANGED <<pc, work, abandoned, acquired, lock, pending, cancels>>

PeerTakes(t) == /\ lock[t] = "free"
                /\ Lock(t, "peer")
                /\ UNCHANGED <<pc, work, abandoned, acquired, child, pending, cancels>>

PeerLets(t) == /\ lock[t] = "peer"
               /\ Lock(t, "free")
               /\ UNCHANGED <<pc, work, abandoned, acquired, child, pending, cancels>>

TaskStep(t) == \/ AcquireNow(t) \/ Submit(t) \/ Resume(t) \/ Abandon(t)
               \/ Skip(t) \/ Spawn(t) \/ Reap(t) \/ Kill(t) \/ CancelledAgain(t)
               \/ Cleanup(t)

ThreadStep(t) == PickUp(t) \/ ThreadAcquires(t) \/ ThreadDecides(t) \/ ThreadReleases(t)

Next == \E t \in Tasks : \/ TaskStep(t) \/ ThreadStep(t)
                         \/ Cancel(t) \/ ChildExits(t)
                         \/ PeerTakes(t) \/ PeerLets(t)

Spec == Init /\ [][Next]_vars

\* The loop and its threads run on, compilers end, peers let go of the lock,
\* and whoever waits for a lock that is free again and again gets it.
FairSpec == /\ Spec
            /\ \A t \in Tasks : /\ WF_vars(TaskStep(t)) /\ WF_vars(ThreadStep(t))
                                /\ WF_vars(ChildExits(t)) /\ WF_vars(PeerLets(t))
                                /\ SF_vars(ThreadAcquires(t)) /\ SF_vars(PickUp(t))
------------------------------------------------------------------------------
Finished(t) == pc[t] = "ended" /\ work[t] \in {"none", "over", "dropped"}

\* However a cancellation interleaves with the thread, the lock is not left held
\* for the life of the process (_async_acquire: "exactly one side releases").
NoLockLeaked == \A t \in Tasks : Finished(t) => lock[t] # "us"

\* ... and not released twice: the second release would take a peer's lock away
\* (LockdirLock.release removes whatever lockdir it finds).
PeersKeepTheirLock ==
  [][\A t \in Tasks : lock[t] = "peer" /\ lock'[t] # "peer" => UNCHANGED <<pc, work>>]_vars

\* A task touches its target under its lock only.
CompilesUnderLock ==
  \A t \in Tasks : pc[t] \in {"owner", "compiling", "killing", "cleanup"} => lock[t] = "us"

\* The compiler of a task cancelled at most once has been reaped when the task
\* ends, however the cancellation falls between the compiler's end and its
\* reaping, and whatever happens to the other tasks (_run_child_async, except
\* CancelledError).
ReapedUnlessCancelledAgain ==
  \A t \in Tasks : pc[t] = "ended" /\ child[t] # "none" => cancels[t] > 1

\* The loop comes to its end, threads included (asyncio.run joins the executor),
\* and all locks are free for others then and afterwards.
LoopEnds == <>[](\A t \in Tasks : Finished(t) /\ lock[t] # "us")
==============================================================================
