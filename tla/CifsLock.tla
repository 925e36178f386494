------------------------------ MODULE CifsLock -------------------------------
(***************************************************************************)
(* locking.CIFSLock, beside LockdirLock and in its terms: whoever creates  *)
(* <target>.lock.excl with O_EXCL holds the lock, and writes into it who   *)
(* it is.  A waiter judges the file by what it says and by its age, and    *)
(* unlinks it by name.  Here `exists`, `maker`, `pidfile` and `age` speak  *)
(* of that file: whom it names, None while it is empty.  The base file     *)
(* <target>.lock locks nothing and is left out.                            *)
(***************************************************************************)
EXTENDS LockdirLock

Unlink == IF exists THEN /\ exists' = FALSE /\ maker' = None /\ pidfile' = None /\ age' = "fresh"
                         /\ UNCHANGED tmps
          ELSE UNCHANGED dir
------------------------------------------------------------------------------
(* CIFSLock.acquire: no attempt is the last. *)

Create(p) == /\ At(p, "mkdir") /\ ~ exists
             /\ exists' = TRUE /\ maker' = p /\ pidfile' = None /\ age' = "fresh"
             /\ Goto(p, "opentmp")
             /\ UNCHANGED <<world, tmps, seen, attempt>>

Taken(p) == /\ At(p, "mkdir") /\ exists
            /\ Goto(p, "readpid")
            /\ UNCHANGED <<world, dir, seen, attempt>>

\* The write goes to the file it created, which may have lost its name: nobody looks.
WritePayload(p) == /\ At(p, "opentmp")
                   /\ IF maker = p
                      THEN pidfile' = p /\ age' = "fresh" /\ UNCHANGED <<exists, maker, tmps>>
                      ELSE UNCHANGED dir
                   /\ Goto(p, "holding")
                   /\ UNCHANGED <<world, seen, attempt>>

\* _is_excl_stale: a holder on another host counts as active...
ReadHolder(p) == /\ At(p, "readpid")
                 /\ seen' = [seen EXCEPT ![p] = pidfile]
                 /\ Goto(p, IF pidfile = None THEN "readage"
                            ELSE IF world.host[pidfile] = world.host[p] THEN "alive" ELSE "mkdir")
                 /\ UNCHANGED <<world, dir, attempt>>

\* Mutant: no grace for a holder that has not written yet.
ReadNoMtime(p) == /\ At(p, "readage")
                  /\ Goto(p, IF exists THEN "rmdir" ELSE "mkdir")
                  /\ UNCHANGED <<world, dir, seen, attempt>>

\* ... a file that names nobody, or is gone, is stale past the timeout only...
ReadMtime(p) == /\ At(p, "readage")
                /\ Goto(p, IF exists /\ age = "old" THEN "rmdir" ELSE "mkdir")
                /\ UNCHANGED <<world, dir, seen, attempt>>

\* ... and on this host the process must be alive.
HolderAlive(p) == /\ At(p, "alive")
                  /\ Goto(p, IF Alive(seen[p]) THEN "mkdir" ELSE "rmdir")
                  /\ UNCHANGED <<world, dir, seen, attempt>>

UnlinkStale(p) == /\ At(p, "rmdir")
                  /\ Unlink
                  /\ Goto(p, "mkdir")
                  /\ UNCHANGED <<world, seen, attempt>>
------------------------------------------------------------------------------
(* CIFSLock.release *)

CheckExcl(p) == /\ At(p, "checkpid")
                /\ Goto(p, IF exists THEN "releasedir" ELSE "done")
                /\ UNCHANGED <<world, dir, seen, attempt>>

UnlinkExcl(p) == /\ At(p, "releasedir")
                 /\ Unlink
                 /\ Goto(p, "done")
                 /\ UNCHANGED <<world, seen, attempt>>
------------------------------------------------------------------------------
CifsAcquire(p) == \/ Create(p) \/ Taken(p) \/ WritePayload(p)
                  \/ ReadHolder(p) \/ ReadMtime(p) \/ HolderAlive(p) \/ UnlinkStale(p)

CifsStep(p) == /\ world.strategy = "cifs"
               /\ CifsAcquire(p) \/ Work(p) \/ CheckExcl(p) \/ UnlinkExcl(p)

\* Either lock, with the same deaths, exits and clock.
LocksNext == Next \/ \E p \in Procs : CifsStep(p)

LocksSpec == /\ Init /\ [][LocksNext]_vars
             /\ Fairness /\ \A p \in Procs : WF_vars(CifsStep(p))
==============================================================================
