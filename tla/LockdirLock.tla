----------------------------- MODULE LockdirLock -----------------------------
(***************************************************************************)
(* locking.LockdirLock, the lock of NFS and Lustre: whoever makes          *)
(* <target>.lockdir holds it, and a pid file inside names the holder.      *)
(* There is no kernel to give the lock of a dead holder back: waiters and  *)
(* ct-cleanup-locks judge a lockdir stale and remove it.  One action is    *)
(* one file-system call, so everything read may have changed when it is    *)
(* acted upon.                                                             *)
(***************************************************************************)
EXTENDS Naturals

CONSTANTS Procs,     \* processes that take the lock, each once
          Cleaners,  \* ct-cleanup-locks processes
          Worlds,    \* circumstances: see below
          None       \* no process

Actors == Procs \cup Cleaners

ASSUME ActorsAssumption == Procs \cap Cleaners = {} /\ None \notin Actors

\* What a behaviour takes place among: the lock it is about ("lockdir", or "cifs":
\* see CifsLock); who takes part, on which host and as which user; who may be killed
\* at any point; whether a process may exit when it has released the lock, and stall
\* past cross_host_timeout in mid-call.
ASSUME WorldsAssumption ==
  Worlds \subseteq [strategy : {"lockdir", "cifs"},
                    actors : SUBSET Actors, host : [Actors -> STRING], user : [Actors -> STRING],
                    mortal : SUBSET Procs, exits : BOOLEAN, stalls : BOOLEAN]

Attempts == 3  \* acquire's outer loop

VARIABLES world,   \* the circumstances, fixed from the start
          exists,  \* the lockdir is there
          maker,   \* who made it (nobody reads this: the properties do)
          pidfile, \* whom its pid file names
          tmps,    \* pid files still under their temp name
          age,     \* its mtime: within the grace period, in between, past the timeout
          pc,      \* what each actor does next
          seen,    \* the holder each actor read last
          attempt  \* acquire's attempt counter

dir == <<exists, maker, pidfile, tmps, age>>
vars == <<world, dir, pc, seen, attempt>>

Labels == {"mkdir", "opentmp", "rename", "holding",
           "readpid", "readage", "alive", "empty", "rmdir", "verify", "reverify", "tidy",
           "checkpid", "unlinkpid", "releasedir",
           "done", "exited", "dead", "permission_error", "runtime_error", "scan", "absent"}

TypeOK == /\ world \in Worlds
          /\ exists \in BOOLEAN
          /\ maker \in Procs \cup {None}
          /\ pidfile \in Procs \cup {None}
          /\ tmps \subseteq Procs
          /\ age \in {"fresh", "middling", "old"}
          /\ pc \in [Actors -> Labels]
          /\ seen \in [Actors -> Procs \cup {None}]
          /\ attempt \in [Procs -> 1..Attempts]

Init == /\ world \in Worlds
        /\ exists = FALSE /\ maker = None /\ pidfile = None /\ tmps = {} /\ age = "fresh"
        /\ pc = [a \in Actors |-> IF a \notin world.actors THEN "absent"
                                  ELSE IF a \in Procs THEN "mkdir" ELSE "scan"]
        /\ seen = [a \in Actors |-> None]
        /\ attempt = [p \in Procs |-> 1]

Empty == pidfile = None /\ tmps = {}
Alive(p) == pc[p] \notin {"dead", "exited"}

At(a, l) == pc[a] = l
Goto(a, l) == pc' = [pc EXCEPT ![a] = l]

\* os.rmdir when the lockdir is empty; otherwise the call fails.
RemoveDir == IF exists /\ Empty
             THEN /\ exists' = FALSE /\ maker' = None /\ age' = "fresh"
                  /\ UNCHANGED <<pidfile, tmps>>
             ELSE UNCHANGED dir
------------------------------------------------------------------------------
(* LockdirLock.acquire *)

\* Mutant: mkdir -p, which succeeds on a lockdir that is already there.
MkdirExistOk(p) == /\ At(p, "mkdir")
                   /\ exists' = TRUE /\ maker' = p /\ age' = "fresh"
                   /\ Goto(p, "opentmp")
                   /\ UNCHANGED <<world, pidfile, tmps, seen, attempt>>

Mkdir(p) == /\ At(p, "mkdir") /\ ~ exists
            /\ exists' = TRUE /\ maker' = p /\ pidfile' = None /\ tmps' = {} /\ age' = "fresh"
            /\ Goto(p, "opentmp")
            /\ UNCHANGED <<world, seen, attempt>>

\* FileExistsError: go and see whether the lock is stale.
Occupied(p) == /\ At(p, "mkdir") /\ exists
               /\ Goto(p, "readpid")
               /\ UNCHANGED <<world, dir, seen, attempt>>

\* _write_pid_file: open the temp name inside whatever lockdir is there now...
OpenTmp(p) == /\ At(p, "opentmp")
              /\ IF exists
                 THEN /\ tmps' = tmps \cup {p} /\ age' = "fresh"
                      /\ Goto(p, "rename")
                      /\ UNCHANGED <<exists, maker, pidfile>>
                 ELSE Goto(p, "tidy") /\ UNCHANGED dir
              /\ UNCHANGED <<world, seen, attempt>>

\* ... and rename it; either call raises FileNotFoundError when it is gone.
RenamePid(p) == /\ At(p, "rename")
                /\ IF exists /\ p \in tmps
                   THEN /\ tmps' = tmps \ {p} /\ pidfile' = p /\ age' = "fresh"
                        /\ Goto(p, "holding")
                        /\ UNCHANGED <<exists, maker>>
                   ELSE Goto(p, "tidy") /\ UNCHANGED dir
                /\ UNCHANGED <<world, seen, attempt>>

\* Best-effort rmdir, then the next of three attempts.
Tidy(p) == /\ At(p, "tidy")
           /\ RemoveDir
           /\ IF attempt[p] = Attempts
              THEN Goto(p, "runtime_error") /\ UNCHANGED attempt
              ELSE /\ attempt' = [attempt EXCEPT ![p] = @ + 1]
                   /\ Goto(p, "mkdir")
           /\ UNCHANGED <<world, seen>>

\* _is_lock_stale, step by step: the pid file...
ReadPid(p) == /\ At(p, "readpid")
              /\ seen' = [seen EXCEPT ![p] = IF exists THEN pidfile ELSE None]
              /\ Goto(p, IF seen'[p] = None THEN "readage"
                         ELSE IF world.host[seen'[p]] = world.host[p] THEN "alive" ELSE "mkdir")
              /\ UNCHANGED <<world, dir, attempt>>

\* Mutant: no grace, a lockdir without a pid file is stale.
ReadNoAge(p) == /\ At(p, "readage")
                /\ Goto(p, IF exists THEN "empty" ELSE "mkdir")
                /\ UNCHANGED <<world, dir, seen, attempt>>

\* ... without one, only a lockdir past the timeout is abandoned...
ReadAge(p) == /\ At(p, "readage")
              /\ Goto(p, IF exists /\ age = "old" THEN "empty" ELSE "mkdir")
              /\ UNCHANGED <<world, dir, seen, attempt>>

\* Mutant: the holder counts as alive whatever os.kill says.
NeverDead(p) == /\ At(p, "alive")
                /\ Goto(p, "mkdir")
                /\ UNCHANGED <<world, dir, seen, attempt>>

\* ... and on the same host the process it names must be alive.
CheckAlive(p) == /\ At(p, "alive")
                 /\ Goto(p, IF Alive(seen[p]) THEN "mkdir" ELSE "empty")
                 /\ UNCHANGED <<world, dir, seen, attempt>>

\* shutil.rmtree(ignore_errors): the entries of the lockdir that is there now...
EmptyDir(a) == /\ At(a, "empty")
               /\ IF exists
                  THEN /\ pidfile' = None /\ tmps' = {}
                       /\ age' = IF Empty THEN age ELSE "fresh"
                       /\ UNCHANGED <<exists, maker>>
                  ELSE UNCHANGED dir
               /\ Goto(a, "rmdir")
               /\ UNCHANGED <<world, seen, attempt>>

\* ... then the directory.
RmdirStale(a) == /\ At(a, "rmdir")
                 /\ RemoveDir
                 /\ Goto(a, IF a \in Procs THEN "verify" ELSE "scan")
                 /\ UNCHANGED <<world, seen, attempt>>

\* _remove_stale_lock: os.path.exists afterwards is taken for a permission problem,
\* unless the handler that looks once more finds it gone.
Verify(p) == /\ pc[p] \in {"verify", "reverify"}
             /\ Goto(p, IF ~ exists THEN "mkdir"
                        ELSE IF At(p, "verify") THEN "reverify" ELSE "permission_error")
             /\ UNCHANGED <<world, dir, seen, attempt>>
------------------------------------------------------------------------------
(* LockdirLock.release: existence check, unlink, rmdir; an error ends it. *)

Work(p) == /\ At(p, "holding")
           /\ Goto(p, "checkpid")
           /\ UNCHANGED <<world, dir, seen, attempt>>

CheckPid(p) == /\ At(p, "checkpid")
               /\ Goto(p, IF exists /\ pidfile # None THEN "unlinkpid" ELSE "releasedir")
               /\ UNCHANGED <<world, dir, seen, attempt>>

UnlinkPid(p) == /\ At(p, "unlinkpid")
                /\ IF exists /\ pidfile # None
                   THEN /\ pidfile' = None /\ age' = "fresh"
                        /\ Goto(p, "releasedir")
                        /\ UNCHANGED <<exists, maker, tmps>>
                   ELSE Goto(p, "done") /\ UNCHANGED dir
                /\ UNCHANGED <<world, seen, attempt>>

ReleaseDir(p) == /\ At(p, "releasedir")
                 /\ RemoveDir
                 /\ Goto(p, "done")
                 /\ UNCHANGED <<world, seen, attempt>>
------------------------------------------------------------------------------
(* LockCleaner.scan_and_cleanup: locks past the age threshold only. *)

Scan(c) == /\ At(c, "scan") /\ exists /\ age = "old"
           /\ Goto(c, "readpid")
           /\ UNCHANGED <<world, dir, seen, attempt>>

CleanerReadsPid(c) ==
  /\ At(c, "readpid")
  /\ seen' = [seen EXCEPT ![c] = IF exists THEN pidfile ELSE None]
  /\ Goto(c, IF seen'[c] = None THEN "empty" ELSE "alive")
  /\ UNCHANGED <<world, dir, attempt>>

\* os.kill on this host; elsewhere `ssh host kill -0 pid`, which fails for a dead
\* process and for a live one of another user alike...
CleanerHearsBack(c) ==
  /\ At(c, "alive")
  /\ LET h == seen[c]
         answers == Alive(h) /\ (world.host[h] = world.host[c] \/ world.user[h] = world.user[c])
     IN  Goto(c, IF answers THEN "scan" ELSE "empty")
  /\ UNCHANGED <<world, dir, seen, attempt>>

\* ... or does not connect at all, and the lock is left alone.
SshFails(c) == /\ At(c, "alive") /\ world.host[seen[c]] # world.host[c]
               /\ Goto(c, "scan")
               /\ UNCHANGED <<world, dir, seen, attempt>>
------------------------------------------------------------------------------
Rest == {"done", "exited", "dead", "permission_error", "runtime_error", "absent"}

Die(p) == /\ p \in world.mortal
          /\ pc[p] \notin Rest
          /\ Goto(p, "dead")
          /\ UNCHANGED <<world, dir, seen, attempt>>

Exit(p) == /\ world.exits /\ At(p, "done")
           /\ Goto(p, "exited")
           /\ UNCHANGED <<world, dir, seen, attempt>>

\* Somebody alive is between two file-system calls.
Between == \E a \in Actors : pc[a] \notin Rest \cup {"mkdir", "holding", "scan"}

\* Time passes.  Ten minutes do not pass between two calls of a process that
\* does not stall; a crossing of the threshold in mid-call is one before it.
Tick == /\ exists /\ age # "old"
        /\ age' = IF age = "fresh" THEN "middling" ELSE "old"
        /\ age' = "old" => world.stalls \/ ~ Between
        /\ UNCHANGED <<world, exists, maker, pidfile, tmps, pc, seen, attempt>>

Acquire(p) == \/ Mkdir(p) \/ Occupied(p) \/ OpenTmp(p) \/ RenamePid(p) \/ Tidy(p)
              \/ ReadPid(p) \/ ReadAge(p) \/ CheckAlive(p)
              \/ EmptyDir(p) \/ RmdirStale(p) \/ Verify(p)

Release(p) == CheckPid(p) \/ UnlinkPid(p) \/ ReleaseDir(p)

Step(p) == world.strategy = "lockdir" /\ (Acquire(p) \/ Work(p) \/ Release(p))

Clean(c) == \/ Scan(c) \/ CleanerReadsPid(c) \/ CleanerHearsBack(c) \/ SshFails(c)
            \/ EmptyDir(c) \/ RmdirStale(c)

Next == \/ \E p \in Procs : Step(p) \/ Die(p) \/ Exit(p)
        \/ \E c \in Cleaners : Clean(c)
        \/ Tick

\* A live process goes on, time passes, and ssh gets through now and again.
Fairness == /\ \A p \in Procs : WF_vars(Step(p))
            /\ \A c \in Cleaners : WF_vars(Clean(c)) /\ SF_vars(CleanerHearsBack(c))
            /\ SF_vars(Tick)
------------------------------------------------------------------------------
Holding == {p \in Procs : pc[p] \in {"holding", "checkpid", "unlinkpid", "releasedir"}}

\* Where the lock can be trusted: nobody stalls, no cleaner runs ("Only run when
\* no builds are actively running"), and either nobody dies or exits, or there is
\* one waiter only.
Sheltered == /\ ~ world.stalls /\ world.actors \subseteq Procs
             /\ \/ world.mortal = {} /\ ~ world.exits
                \/ \E p, q \in Procs : world.actors \subseteq {p, q}

\* No two processes believe they hold the lock.
Exclusion == \A p, q \in Holding : p = q

\* Of its lockdir, only a process that is gone is deprived ("Automatic cleanup of
\* locks from dead processes").
HolderRobbed == \E p \in Procs : At(p, "holding") /\ maker = p /\ Alive(p) /\ maker' # p

\* In a sheltered world the lock excludes, and a holder's lockdir names it.
MutualExclusion ==
  Sheltered => Exclusion /\ \A p \in Procs : At(p, "holding") => maker = p /\ pidfile = p

\* In a sheltered world waiters rob the dead only.
OnlyTheDeadAreRobbed == [][Sheltered => ~ HolderRobbed]_vars

\* With permissions in order nobody fails with "Cannot remove stale lock", and
\* nobody runs out of attempts.
NoFalseAlarm == Sheltered => \A p \in Procs : ~ At(p, "permission_error") /\ ~ At(p, "runtime_error")

\* A process gets the lock and lets it go, or is killed, however its peers died:
\* by itself, and with ct-cleanup-locks when the holder died on another host.  It
\* may fail where processes stall; it never waits for ever.
EveryoneServed ==
  \A p \in Procs : <>(pc[p] \in IF world.stalls THEN Rest ELSE {"done", "exited", "dead", "absent"})

==============================================================================
