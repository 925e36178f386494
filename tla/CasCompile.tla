------------------------------ MODULE CasCompile ------------------------------
(***************************************************************************)
(* Processes that produce one cache entry: locking.atomic_compile (and the *)
(* rewritten atomic_link), and the native `flock` command of               *)
(* backend_locking.wrap_compile_with_lock.  A compiler writes its output   *)
(* in chunks to a temp file; the parent renames it over the target.        *)
(* Linkers read the target without any lock; trimming unlinks it.          *)
(*                                                                         *)
(* Files are inodes: an open name follows its inode through renames and    *)
(* unlinks, and opening an existing temp name truncates its inode.  The    *)
(* inode a process's compiler creates is named after the process.  What a  *)
(* lock strategy guarantees is a parameter: see LockdirLock and            *)
(* SidecarCompile for when two processes do hold "the" lock at once.       *)
(***************************************************************************)
EXTENDS FiniteSets

CONSTANTS Procs,      \* processes that compile this entry, each once
          Readers,    \* linkers that read it
          Chunks,     \* the pieces a compiler writes its output in
          None,       \* no inode, no name
          Exclusive,  \* the lock admits one holder at a time
          Natives,    \* those that run the native flock command
          Rechecks    \* those that look for the entry again under the lock

ASSUME ExclusiveAssumption == Exclusive \in BOOLEAN
ASSUME ProcsAssumption == /\ None \notin Procs /\ "shared" \notin Procs
                          /\ Natives \cup Rechecks \subseteq Procs
                          /\ Natives \cap Rechecks = {}
ASSUME ChunksAssumption == Chunks # {}

VARIABLES pc,      \* what each process is doing
          holders, \* processes that hold the lock
          child,   \* each process's compiler: none, writing, ok or failed (not reaped)
          out,     \* the inode each compiler has open
          data,    \* the chunks each inode contains
          temp,    \* the inode each temp name leads to
          target,  \* the inode the entry's name leads to
          rd       \* the inode each reader has open

vars == <<pc, holders, child, out, data, temp, target, rd>>

\* atomic_compile: <target>.<pid>.<random>.tmp; native: <target>.compiletools.tmp.
TempOf(p) == IF p \in Natives THEN "shared" ELSE p
TempNames == {TempOf(p) : p \in Procs}

Inode == Procs
Whole(i) == data[i] = Chunks

TypeOK ==
  /\ pc \in [Procs -> {"start", "locked", "waiting", "rename", "cleanup",
                       "release", "done", "dead"}]
  /\ holders \subseteq Procs
  /\ child \in [Procs -> {"none", "writing", "ok", "failed"}]
  /\ out \in [Procs -> Inode \cup {None}]
  /\ data \in [Inode -> SUBSET Chunks]
  /\ temp \in [TempNames -> Inode \cup {None}]
  /\ target \in Inode \cup {None}
  /\ rd \in [Readers -> Inode \cup {None}]

Init == /\ pc = [p \in Procs |-> "start"]
        /\ holders = {}
        /\ child = [p \in Procs |-> "none"]
        /\ out = [p \in Procs |-> None]
        /\ data = [i \in Inode |-> {}]
        /\ temp = [n \in TempNames |-> None]
        /\ target = None
        /\ rd = [r \in Readers |-> None]

Goto(p, l) == pc' = [pc EXCEPT ![p] = l]
------------------------------------------------------------------------------
Acquire(p) == /\ pc[p] = "start"
              /\ Exclusive => holders = {}
              /\ holders' = holders \cup {p}
              /\ Goto(p, "locked")
              /\ UNCHANGED <<child, out, data, temp, target, rd>>

\* skip_if_exists: a peer already produced the entry.
Skip(p) == /\ pc[p] = "locked"
           /\ p \in Rechecks /\ target # None
           /\ Goto(p, "cleanup")
           /\ UNCHANGED <<holders, child, out, data, temp, target, rd>>

Spawn(p) == /\ pc[p] = "locked"
            /\ ~ (p \in Rechecks /\ target # None)
            /\ child' = [child EXCEPT ![p] = "writing"]
            /\ Goto(p, "waiting")
            /\ UNCHANGED <<holders, out, data, temp, target, rd>>

\* The compiler opens its output: a fresh inode, or the one the name leads to, emptied.
ChildOpen(p) ==
  /\ child[p] = "writing" /\ out[p] = None
  /\ LET i == IF temp[TempOf(p)] = None THEN p ELSE temp[TempOf(p)]
     IN  /\ out' = [out EXCEPT ![p] = i]
         /\ temp' = [temp EXCEPT ![TempOf(p)] = i]
         /\ data' = [data EXCEPT ![i] = {}]
  /\ UNCHANGED <<pc, holders, child, target, rd>>

ChildWrite(p) ==
  /\ child[p] = "writing" /\ out[p] # None
  /\ \E c \in Chunks \ data[out[p]] :
       data' = [data EXCEPT ![out[p]] = @ \cup {c}]
  /\ UNCHANGED <<pc, holders, child, out, temp, target, rd>>

\* A compiler that exits with status 0 has written all of its output.
ChildExit(p) ==
  /\ child[p] = "writing" /\ out[p] # None /\ Whole(out[p])
  /\ child' = [child EXCEPT ![p] = "ok"]
  /\ out' = [out EXCEPT ![p] = None]
  /\ UNCHANGED <<pc, holders, data, temp, target, rd>>

\* A diagnostic, or a signal forwarded to its process group.
ChildFail(p) ==
  /\ child[p] = "writing"
  /\ child' = [child EXCEPT ![p] = "failed"]
  /\ out' = [out EXCEPT ![p] = None]
  /\ UNCHANGED <<pc, holders, data, temp, target, rd>>

\* Mutant: the parent does not wait for its compiler.
ReapEarly(p) == /\ pc[p] = "waiting" /\ out[p] # None
                /\ Goto(p, "rename")
                /\ UNCHANGED <<holders, child, out, data, temp, target, rd>>

\* proc.wait() returns: the child is reaped before anything else happens.
Reap(p) == /\ pc[p] = "waiting" /\ child[p] \in {"ok", "failed"}
           /\ Goto(p, IF child[p] = "ok" THEN "rename" ELSE "cleanup")
           /\ child' = [child EXCEPT ![p] = "none"]
           /\ UNCHANGED <<holders, out, data, temp, target, rd>>

\* os.replace(temp, target), or mv -f; a temp that is gone makes it fail.
Rename(p) ==
  /\ pc[p] = "rename"
  /\ IF temp[TempOf(p)] # None
     THEN /\ target' = temp[TempOf(p)]
          /\ temp' = [temp EXCEPT ![TempOf(p)] = None]
     ELSE UNCHANGED <<target, temp>>
  /\ Goto(p, "cleanup")
  /\ UNCHANGED <<holders, child, out, data, rd>>

\* _temp_under_lock's finally: the temp file goes before the lock does.
Cleanup(p) == /\ pc[p] = "cleanup"
              /\ temp' = [temp EXCEPT ![TempOf(p)] = None]
              /\ Goto(p, "release")
              /\ UNCHANGED <<holders, child, out, data, target, rd>>

\* Mutant: the lock is never given back.
ReleaseForgotten(p) == /\ pc[p] = "release"
                       /\ Goto(p, "done")
                       /\ UNCHANGED <<holders, child, out, data, temp, target, rd>>

Release(p) == /\ pc[p] = "release"
              /\ holders' = holders \ {p}
              /\ Goto(p, "done")
              /\ UNCHANGED <<child, out, data, temp, target, rd>>

\* SIGKILL of the parent.  Its compiler runs in a session of its own and goes
\* on writing.  The helper's lock fd is not inherited, so the kernel lock is
\* gone at once; the native command's fd is, so its lock lasts until OrphanEnds.
Crash(p) == /\ pc[p] \notin {"start", "done", "dead"}
            /\ Goto(p, "dead")
            /\ holders' = IF p \in Natives /\ child[p] # "none" THEN holders ELSE holders \ {p}
            /\ UNCHANGED <<child, out, data, temp, target, rd>>

OrphanEnds(p) == /\ pc[p] = "dead" /\ child[p] \in {"ok", "failed"}
                 /\ child' = [child EXCEPT ![p] = "none"]
                 /\ holders' = holders \ {p}
                 /\ UNCHANGED <<pc, out, data, temp, target, rd>>

\* trim_cache._safe_locked_unlink of the entry.
Evict == /\ target # None
         /\ Exclusive => holders = {}
         /\ target' = None
         /\ UNCHANGED <<pc, holders, child, out, data, temp, rd>>

\* A link rule opens its inputs without any lock.
Open(r) == /\ rd[r] = None /\ target # None
           /\ rd' = [rd EXCEPT ![r] = target]
           /\ UNCHANGED <<pc, holders, child, out, data, temp, target>>

Close(r) == /\ rd[r] # None
            /\ rd' = [rd EXCEPT ![r] = None]
            /\ UNCHANGED <<pc, holders, child, out, data, temp, target>>

Step(p) == \/ Skip(p) \/ Spawn(p)
           \/ ChildOpen(p) \/ ChildWrite(p) \/ ChildExit(p)
           \/ Reap(p) \/ Rename(p) \/ Cleanup(p) \/ Release(p)
           \/ OrphanEnds(p)

Next == \/ \E p \in Procs : Acquire(p) \/ Step(p) \/ ChildFail(p) \/ Crash(p)
        \/ Evict
        \/ \E r \in Readers : Open(r) \/ Close(r)

Spec == Init /\ [][Next]_vars

------------------------------------------------------------------------------
\* A reader has a whole file open, and the entry is whole when it exists,
\* whatever the lock does and whoever dies (atomic_compile: "Readers always see
\* either the previous good .o (old inode) or the new one (new inode)").
NeverTorn == /\ target # None => Whole(target)
             /\ \A r \in Readers : rd[r] # None => Whole(rd[r])

\* No temp file and no running compiler outlives a lock its process released
\* ("the temp file must be removed BEFORE lock.release()", "the lock is held
\* until the child has been reaped").
ReleasedClean ==
  \A p \in Procs : pc[p] = "done" =>
    /\ child[p] = "none" /\ p \notin holders
    /\ p \notin Natives => temp[TempOf(p)] = None

\* Every process ends, and a process that ended or died blocks nobody.
EveryProcEnds == \A p \in Procs : <>(pc[p] \in {"done", "dead"})

\* The files implement an entry that is absent or whole.
Shape(i) == IF Whole(i) THEN "whole" ELSE "torn"

Entry == INSTANCE CasEntry WITH
           entry <- IF target = None THEN "absent" ELSE Shape(target),
           reading <- [r \in Readers |-> IF rd[r] = None THEN "none" ELSE Shape(rd[r])]

ImplementsEntry == Entry!Spec
==============================================================================
