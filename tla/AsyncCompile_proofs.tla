-------------------------- MODULE AsyncCompile_proofs --------------------------
(***************************************************************************)
(* The handshake of _async_acquire, for any number of tasks and threads:   *)
(* exactly one side releases.  Each task has a state of its own, so the    *)
(* inductive invariant is one formula per task, TaskInv.                   *)
(***************************************************************************)
EXTENDS AsyncCompile, TLAPS

\* Where the lock is, from what the task and its work item are doing.
LockInv(t) ==
  /\ pc[t] = "start" => work[t] = "none" /\ lock[t] # "us"
  /\ pc[t] = "acquiring" => work[t] \in {"queued", "blocking", "locked", "over"}
  /\ pc[t] \in {"owner", "compiling", "killing", "cleanup"} =>
       work[t] \in {"none", "over"} /\ lock[t] = "us"
  /\ pc[t] = "ended" => work[t] # "queued"
  /\ pc[t] = "ended" /\ work[t] \in {"none", "over", "dropped"} => lock[t] # "us"
  /\ work[t] \in {"queued", "blocking"} => lock[t] # "us"
  /\ work[t] \in {"locked", "releasing"} => lock[t] = "us"
  /\ pc[t] = "acquiring" /\ work[t] = "over" => lock[t] = "us"

\* What the two flags of the handshake say.
FlagInv(t) ==
  /\ acquired[t] => work[t] = "over"
  /\ pc[t] = "start" => ~ acquired[t] /\ ~ abandoned[t]
  /\ pc[t] = "acquiring" => ~ abandoned[t] /\ (acquired[t] <=> work[t] = "over")
  /\ work[t] = "releasing" => pc[t] = "ended"
  /\ pc[t] = "ended" /\ work[t] \in {"blocking", "locked"} => abandoned[t]

\* A compiler that was killed has used up one cancellation.
ChildInv(t) ==
  /\ pending[t] => pc[t] \in {"acquiring", "compiling", "killing"} /\ cancels[t] > 0
  /\ pc[t] = "killing" => cancels[t] > 0 /\ (pending[t] => cancels[t] > 1)
  /\ cancels[t] <= 1 /\ child[t] # "none" => pc[t] \in {"compiling", "killing"}

TaskInv(t) == LockInv(t) /\ FlagInv(t) /\ ChildInv(t)

IInv == TypeOK /\ \A t \in Tasks : TaskInv(t)

\* The states the module starts in satisfy the invariant.
LEMMA InitInv == Init => IInv
  BY CancelsAssumption DEF Init, IInv, TypeOK, TaskInv, LockInv, FlagInv, ChildInv

\* No step of a task or a thread, no cancellation and no peer breaks it.
LEMMA NextInv == IInv /\ [Next]_vars => IInv'
<1> SUFFICES ASSUME IInv, [Next]_vars PROVE IInv'
  OBVIOUS
<1> USE CancelsAssumption DEF Goto, Work, Lock
<1>1. CASE UNCHANGED vars
  BY <1>1 DEF IInv, TypeOK, TaskInv, LockInv, FlagInv, ChildInv, vars
<1>2. ASSUME NEW u \in Tasks, TaskStep(u) PROVE IInv'
  <2>0. TypeOK /\ TaskInv(u) /\ (\A t \in Tasks : TaskInv(t))
    BY DEF IInv
  <2>1. TypeOK'
    <3>1. pc' \in [Tasks -> {"start", "acquiring", "owner", "compiling", "killing", "cleanup", "ended"}]
      BY <1>2, <2>0 DEF TypeOK, TaskStep, AcquireNow, Submit, Resume, Abandon, Skip,
         Spawn, Reap, Kill, CancelledAgain, Cleanup
    <3>2. /\ work' \in [Tasks -> {"none", "queued", "blocking", "locked", "releasing",
                                  "over", "dropped"}]
          /\ lock' \in [Tasks -> {"free", "peer", "us"}]
      BY <1>2, <2>0 DEF TypeOK, TaskStep, AcquireNow, Submit, Resume, Abandon, Skip,
         Spawn, Reap, Kill, CancelledAgain, Cleanup
    <3>3. /\ abandoned' \in [Tasks -> BOOLEAN] /\ acquired' \in [Tasks -> BOOLEAN]
          /\ pending' \in [Tasks -> BOOLEAN]
      BY <1>2, <2>0 DEF TypeOK, TaskStep, AcquireNow, Submit, Resume, Abandon, Skip,
         Spawn, Reap, Kill, CancelledAgain, Cleanup
    <3>4. /\ child' \in [Tasks -> {"none", "running", "dying", "exited"}]
          /\ cancels' \in [Tasks -> 0..MaxCancels]
      BY <1>2, <2>0 DEF TypeOK, TaskStep, AcquireNow, Submit, Resume, Abandon, Skip,
         Spawn, Reap, Kill, CancelledAgain, Cleanup
    <3> QED BY <3>1, <3>2, <3>3, <3>4 DEF TypeOK
  <2>2. ASSUME NEW t \in Tasks, t # u PROVE TaskInv(t)'
    BY <1>2, <2>0, <2>2 DEF TypeOK, TaskStep, AcquireNow, Submit, Resume, Abandon, Skip, Spawn,
       Reap, Kill, CancelledAgain, Cleanup, TaskInv, LockInv, FlagInv, ChildInv
  <2>3. TaskInv(u)'
    <3>1. CASE AcquireNow(u)
      BY <2>0, <3>1 DEF TypeOK, AcquireNow, TaskInv, LockInv, FlagInv, ChildInv
    <3>2. CASE Submit(u)
      BY <2>0, <3>2 DEF TypeOK, Submit, TaskInv, LockInv, FlagInv, ChildInv
    <3>3. CASE Resume(u)
      BY <2>0, <3>3 DEF TypeOK, Resume, TaskInv, LockInv, FlagInv, ChildInv
    <3>4. CASE Abandon(u)
      BY <2>0, <3>4 DEF TypeOK, Abandon, TaskInv, LockInv, FlagInv, ChildInv
    <3>5. CASE Skip(u)
      BY <2>0, <3>5 DEF TypeOK, Skip, TaskInv, LockInv, FlagInv, ChildInv
    <3>6. CASE Spawn(u)
      BY <2>0, <3>6 DEF TypeOK, Spawn, TaskInv, LockInv, FlagInv, ChildInv
    <3>7. CASE Reap(u)
      BY <2>0, <3>7 DEF TypeOK, Reap, TaskInv, LockInv, FlagInv, ChildInv
    <3>8. CASE Kill(u)
      BY <2>0, <3>8 DEF TypeOK, Kill, TaskInv, LockInv, FlagInv, ChildInv
    <3>9. CASE CancelledAgain(u)
      BY <2>0, <3>9 DEF TypeOK, CancelledAgain, TaskInv, LockInv, FlagInv, ChildInv
    <3>10. CASE Cleanup(u)
      BY <2>0, <3>10 DEF TypeOK, Cleanup, TaskInv, LockInv, FlagInv, ChildInv
    <3> QED BY <1>2, <3>1, <3>2, <3>3, <3>4, <3>5, <3>6, <3>7, <3>8, <3>9, <3>10 DEF TaskStep
  <2> QED BY <2>1, <2>2, <2>3 DEF IInv
<1>3. ASSUME NEW u \in Tasks, ThreadStep(u) PROVE IInv'
  <2>0. TypeOK /\ TaskInv(u) /\ (\A t \in Tasks : TaskInv(t))
    BY DEF IInv
  <2>1. TypeOK'
    BY <1>3, <2>0 DEF TypeOK, ThreadStep, PickUp, ThreadAcquires, ThreadDecides, ThreadReleases
  <2>2. ASSUME NEW t \in Tasks, t # u PROVE TaskInv(t)'
    BY <1>3, <2>0, <2>2 DEF TypeOK, ThreadStep, PickUp, ThreadAcquires, ThreadDecides,
       ThreadReleases, TaskInv, LockInv, FlagInv, ChildInv
  <2>3. TaskInv(u)'
    <3>1. CASE PickUp(u)
      BY <2>0, <3>1 DEF TypeOK, PickUp, TaskInv, LockInv, FlagInv, ChildInv
    <3>2. CASE ThreadAcquires(u)
      BY <2>0, <3>2 DEF TypeOK, ThreadAcquires, TaskInv, LockInv, FlagInv, ChildInv
    <3>3. CASE ThreadDecides(u)
      BY <2>0, <3>3 DEF TypeOK, ThreadDecides, TaskInv, LockInv, FlagInv, ChildInv
    <3>4. CASE ThreadReleases(u)
      BY <2>0, <3>4 DEF TypeOK, ThreadReleases, TaskInv, LockInv, FlagInv, ChildInv
    <3> QED BY <1>3, <3>1, <3>2, <3>3, <3>4 DEF ThreadStep
  <2> QED BY <2>1, <2>2, <2>3 DEF IInv
<1>4. ASSUME NEW u \in Tasks, Cancel(u) \/ ChildExits(u) \/ PeerTakes(u) \/ PeerLets(u)
      PROVE IInv'
  <2>0. TypeOK /\ (\A t \in Tasks : TaskInv(t))
    BY DEF IInv
  <2>1. TypeOK'
    <3>1. CASE Cancel(u)
      BY <2>0, <3>1 DEF TypeOK, Cancel
    <3>2. CASE ChildExits(u)
      BY <2>0, <3>2 DEF TypeOK, ChildExits
    <3>3. CASE PeerTakes(u) \/ PeerLets(u)
      BY <2>0, <3>3 DEF TypeOK, PeerTakes, PeerLets
    <3> QED BY <1>4, <3>1, <3>2, <3>3
  <2>2. ASSUME NEW t \in Tasks PROVE TaskInv(t)'
    <3>1. CASE Cancel(u)
      BY <2>0, <2>2, <3>1 DEF TypeOK, Cancel, TaskInv, LockInv, FlagInv, ChildInv
    <3>2. CASE ChildExits(u)
      BY <2>0, <2>2, <3>2 DEF TypeOK, ChildExits, TaskInv, LockInv, FlagInv, ChildInv
    <3>3. CASE PeerTakes(u) \/ PeerLets(u)
      BY <2>0, <2>2, <3>3 DEF TypeOK, PeerTakes, PeerLets, TaskInv, LockInv, FlagInv, ChildInv
    <3> QED BY <1>4, <3>1, <3>2, <3>3
  <2> QED BY <2>1, <2>2 DEF IInv
<1> QED BY <1>1, <1>2, <1>3, <1>4 DEF Next

\* Every reachable state of an event loop's tasks satisfies the invariant.
THEOREM AsyncInvariant == Spec => []IInv
  BY InitInv, NextInv, PTL DEF Spec

\* The handshake between task and thread leaves no lock held by a task that is
\* gone, however many tasks, threads and cancellations there are.
THEOREM AsyncNoLockLeaked == Spec => []NoLockLeaked
<1>1. IInv => NoLockLeaked
  BY DEF IInv, TaskInv, LockInv, NoLockLeaked, Finished
<1> QED BY <1>1, AsyncInvariant, PTL

\* No compiler is spawned by a task that does not hold its target's lock.
THEOREM AsyncCompilesUnderLock == Spec => []CompilesUnderLock
<1>1. IInv => CompilesUnderLock
  BY DEF IInv, TaskInv, LockInv, CompilesUnderLock
<1> QED BY <1>1, AsyncInvariant, PTL

\* Neither side releases a lock that is not the task's any more.
THEOREM AsyncPeersKeepTheirLock == Spec => PeersKeepTheirLock
<1> DEFINE Kept == \A t \in Tasks : lock[t] = "peer" /\ lock'[t] # "peer" => UNCHANGED <<pc, work>>
<1>1. IInv /\ [Next]_vars => [Kept]_vars
  <2> SUFFICES ASSUME IInv, Next, NEW t \in Tasks, lock[t] = "peer", lock'[t] # "peer"
               PROVE UNCHANGED <<pc, work>>
    BY DEF vars
  <2>0. TypeOK /\ LockInv(t) /\ FlagInv(t)
    BY DEF IInv, TaskInv
  <2>1. PICK u \in Tasks : \/ TaskStep(u) \/ ThreadStep(u) \/ Cancel(u) \/ ChildExits(u)
                           \/ PeerTakes(u) \/ PeerLets(u)
    BY DEF Next
  <2>2. CASE TaskStep(u)
    BY <2>0, <2>2 DEF TaskStep, AcquireNow, Submit, Resume, Abandon, Skip, Spawn, Reap, Kill,
       CancelledAgain, Cleanup, Lock, Goto, Work, TypeOK, LockInv, FlagInv
  <2>3. CASE ThreadStep(u)
    BY <2>0, <2>3 DEF ThreadStep, PickUp, ThreadAcquires, ThreadDecides, ThreadReleases,
       Lock, Goto, Work, TypeOK, LockInv, FlagInv
  <2>4. CASE Cancel(u) \/ ChildExits(u) \/ PeerTakes(u) \/ PeerLets(u)
    BY <2>4 DEF Cancel, ChildExits, PeerTakes, PeerLets, Lock
  <2> QED BY <2>1, <2>2, <2>3, <2>4
<1> QED BY <1>1, AsyncInvariant, PTL DEF Spec, PeersKeepTheirLock

\* A task that is cancelled once at most has reaped its compiler before the lock
\* goes: the second cancellation is the only way an orphan comes about.
THEOREM AsyncReaped == Spec => []ReapedUnlessCancelledAgain
<1>1. IInv => ReapedUnlessCancelledAgain
  BY CancelsAssumption DEF IInv, TypeOK, TaskInv, ChildInv, ReapedUnlessCancelledAgain
<1> QED BY <1>1, AsyncInvariant, PTL
==============================================================================
