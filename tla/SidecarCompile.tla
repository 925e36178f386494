---------------------------- MODULE SidecarCompile ----------------------------
(***************************************************************************)
(* CasCompile under the real kernel-lock strategies: FcntlLock, FlockLock  *)
(* and the native `flock` command lock the inode that <target>.lock leads  *)
(* to when they open it, and never unlink the name.  Beside them,          *)
(* ct-trim-cache reaps the sidecar of an evicted entry: it probes the      *)
(* lock without blocking, gives it back, and unlinks the name.             *)
(***************************************************************************)
EXTENDS CasCompile

CONSTANTS Reaping  \* ct-trim-cache runs beside the builds

ASSUME ReapingAssumption == Reaping \in BOOLEAN

VARIABLES sidecar, \* the inode <target>.lock leads to
          fd,      \* the sidecar inode each process has open
          reaper   \* "idle", "unheld" (the probe succeeded) or "done"

lockVars == <<sidecar, fd, reaper>>
allVars == <<vars, lockVars>>

\* The sidecar left by an earlier build, older than the reaper's floor of a day.
Old == "old"
\* The sidecar that trimming creates.
Trims == "trims"

SidecarTypeOK == /\ sidecar \in Procs \cup {Old, Trims, None}
                 /\ fd \in [Procs -> Procs \cup {Old, Trims, None}]
                 /\ reaper \in {"idle", "unheld", "done"}

SidecarInit == /\ Init
               /\ sidecar = Old
               /\ fd = [p \in Procs |-> None]
               /\ reaper = "idle"

Unlocked(i) == \A p \in holders : fd[p] # i
------------------------------------------------------------------------------
\* os.open(lockfile, O_CREAT | O_RDWR): the inode behind the name, or a new one.
OpenSidecar(p) == /\ pc[p] = "start" /\ fd[p] = None
                  /\ sidecar' = IF sidecar = None THEN p ELSE sidecar
                  /\ fd' = [fd EXCEPT ![p] = sidecar']
                  /\ UNCHANGED <<vars, reaper>>

\* Mutant: the lock is granted as soon as the file is open.
LockUnqueued(p) == /\ fd[p] # None
                   /\ Acquire(p)
                   /\ UNCHANGED lockVars

\* lockf/flock(LOCK_EX) returns when nobody holds that inode.
LockSidecar(p) == /\ fd[p] # None /\ Unlocked(fd[p])
                  /\ Acquire(p)
                  /\ UNCHANGED lockVars

\* _lock_unheld: the entry is gone, its sidecar is old, and LOCK_NB succeeds.
Probe == /\ Reaping /\ reaper = "idle"
         /\ target = None /\ sidecar = Old /\ Unlocked(Old)
         /\ reaper' = "unheld"
         /\ UNCHANGED <<vars, sidecar, fd>>

\* _reap_sidecars_in: os.remove of the name, the probe's lock long released.
Reap1 == /\ reaper = "unheld"
         /\ sidecar' = None
         /\ reaper' = "done"
         /\ UNCHANGED <<vars, fd>>

CompileStep(p) == Step(p) \/ ChildFail(p) \/ Crash(p)

\* _safe_locked_unlink of the entry takes the same sidecar lock, and leaves a
\* sidecar of its own when there was none.
EvictLocked == /\ sidecar' = IF sidecar = None THEN Trims ELSE sidecar
               /\ Unlocked(sidecar')
               /\ Evict
               /\ UNCHANGED <<fd, reaper>>

SidecarNext ==
  \/ \E p \in Procs : OpenSidecar(p) \/ LockSidecar(p)
  \/ \E p \in Procs : CompileStep(p) /\ UNCHANGED lockVars
  \/ EvictLocked
  \/ \E r \in Readers : (Open(r) \/ Close(r)) /\ UNCHANGED lockVars
  \/ Probe
  \/ Reap1

SidecarSpec == SidecarInit /\ [][SidecarNext]_allVars

\* Compilers end, a parent runs on, and the kernel queues lockers: whoever waits
\* for an inode that is free again and again gets it.
SidecarFairSpec ==
  SidecarSpec /\ \A p \in Procs : /\ WF_allVars(OpenSidecar(p)) /\ SF_allVars(LockSidecar(p))
                                 /\ WF_allVars(Step(p) /\ UNCHANGED lockVars)
------------------------------------------------------------------------------
\* One process at a time builds the entry, but for what a reaped sidecar lets in:
\* a second one, and only beside the holder of the inode that lost its name
\* (FcntlLock: "Cross-node mutual exclusion via kernel-managed record locks";
\* _lock_unheld: "has no live holder and is therefore safe to unlink").
OneHolder == \A p, q \in holders :
               p # q => reaper = "done" /\ sidecar # Old /\ {fd[p], fd[q]} = {Old, sidecar}

\* Readers and the entry see whole files, whoever dies, is evicted or holds the
\* lock beside whom, until two native commands hold two inodes after a reaping:
\* they write the one temp name, and one renames what the other is writing
\* (wrap_compile_with_lock: "Without temp+rename a peer linker could mmap-read a
\* half-written .o").
TornOnlyByTwoNatives ==
  \/ NeverTorn
  \/ reaper = "done" /\ \E p, q \in Natives : p # q /\ pc[p] # "start" /\ pc[q] # "start"
==============================================================================
