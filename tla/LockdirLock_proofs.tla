-------------------------- MODULE LockdirLock_proofs ---------------------------
(***************************************************************************)
(* What the two locks without a kernel promise in a sheltered world, for   *)
(* any number of processes: they exclude, waiters rob the dead only, and   *)
(* nobody fails.  Nothing serialises the calls of a waiter with those of   *)
(* the holder; the argument is that a waiter which goes as far as removing *)
(* a lock has seen its maker gone, and is then alone in the world.         *)
(***************************************************************************)
EXTENDS CifsLock, TLAPS

\* Where a process stands from the creation of its lock to its removal.
Owning == {"opentmp", "rename", "holding", "checkpid", "unlinkpid", "releasedir"}

\* Where a waiter stands that has found the lock stale.
Removing == {"empty", "rmdir", "verify"}

\* What the lock's maker has put into it.
Contents(p) ==
  /\ At(p, "opentmp") => pidfile = None /\ tmps = {}
  /\ At(p, "rename") => pidfile = None /\ tmps = {p}
  /\ pc[p] \in {"holding", "checkpid", "unlinkpid"} => pidfile = p /\ tmps = {}
  /\ At(p, "releasedir") => tmps = {} /\ (world.strategy = "lockdir" => pidfile = None)

\* The lock is there exactly while its maker, alive or dead, owns it ...
LockInv ==
  /\ ~ exists => maker = None /\ pidfile = None /\ tmps = {} /\ age = "fresh"
  /\ exists => maker \in world.actors \cap Procs /\ pc[maker] \in Owning \cup {"dead"}
  /\ pidfile # None => pidfile = maker
  /\ world.strategy = "cifs" => tmps = {}
  /\ \* ... and is old only when it names its holder, or nobody who lives.
     age = "old" => pidfile # None \/ pc[maker] = "dead"

\* What a process can rely on at each point.
ProcInv(p) ==
  /\ pc[p] \in Owning => exists /\ maker = p /\ Contents(p)
  /\ At(p, "alive") => seen[p] \in (world.actors \cap Procs) \ {p}
  /\ At(p, "readage") /\ age = "old" => pc[maker] = "dead"
  /\ pc[p] \in Removing => \A q \in (world.actors \cap Procs) \ {p} : ~ Alive(q)
  /\ At(p, "rmdir") /\ world.strategy = "lockdir" => Empty
  /\ At(p, "verify") => ~ exists
  /\ pc[p] \notin {"tidy", "reverify", "permission_error", "runtime_error", "scan"}
  /\ world.mortal = {} /\ ~ world.exits => Alive(p)
  /\ p \notin world.actors => At(p, "absent")

\* The inductive invariant.
Orderly == /\ LockInv
           /\ \A p \in Procs : ProcInv(p)
           /\ \A c \in Cleaners : At(c, "absent")
IInv == TypeOK /\ (Sheltered => Orderly)

LEMMA InitInv == Init => IInv
<1> SUFFICES ASSUME Init PROVE IInv
  OBVIOUS
<1>1. world \in Worlds /\ world.actors \subseteq Actors
  BY WorldsAssumption DEF Init
<1>2. TypeOK
  <2>1. pc \in [Actors -> Labels]
    BY DEF Init, Actors, Labels
  <2>2. attempt \in [Procs -> 1..Attempts]
    BY DEF Init, Attempts
  <2> QED BY <1>1, <2>1, <2>2 DEF Init, TypeOK
<1>3. LockInv
  BY DEF Init, LockInv
<1>4. ASSUME NEW p \in Procs PROVE ProcInv(p)
  <2>1. pc[p] \in {"mkdir", "absent"} /\ (p \notin world.actors => pc[p] = "absent")
    BY DEF Init, Actors
  <2> QED BY <2>1 DEF ProcInv, At, Owning, Removing, Alive
<1>5. ASSUME Sheltered, NEW c \in Cleaners PROVE At(c, "absent")
  BY <1>5, ActorsAssumption DEF Init, Sheltered, At, Actors
<1> QED BY <1>2, <1>3, <1>4, <1>5 DEF IInv, Orderly

LEMMA StepType == TypeOK /\ [LocksNext]_vars => TypeOK'
<1> SUFFICES ASSUME TypeOK, [LocksNext]_vars PROVE TypeOK'
  OBVIOUS
<1> USE DEF TypeOK, Actors, Labels, At, Goto, Attempts, dir, Empty
<1>1. CASE UNCHANGED vars
  BY <1>1 DEF vars
<1>2. ASSUME NEW p \in Procs, Acquire(p) PROVE TypeOK'
  <2>0. CASE Mkdir(p) \/ Occupied(p)
    BY <2>0 DEF Mkdir, Occupied
  <2>1. CASE OpenTmp(p) \/ RenamePid(p)
    BY <2>1 DEF OpenTmp, RenamePid
  <2>2. CASE Tidy(p)
    <3>1. /\ exists' \in BOOLEAN /\ maker' \in Procs \cup {None} /\ pidfile' \in Procs \cup {None}
          /\ tmps' \subseteq Procs /\ age' \in {"fresh", "middling", "old"}
      BY <2>2 DEF Tidy, RemoveDir
    <3>2. pc' \in [Actors -> Labels] /\ attempt' \in [Procs -> 1..Attempts]
      BY <2>2 DEF Tidy
    <3> QED BY <2>2, <3>1, <3>2 DEF Tidy
  <2>3. CASE ReadPid(p) \/ ReadAge(p) \/ CheckAlive(p)
    BY <2>3 DEF ReadPid, ReadAge, CheckAlive
  <2>4. CASE EmptyDir(p) \/ RmdirStale(p) \/ Verify(p)
    BY <2>4 DEF EmptyDir, RmdirStale, RemoveDir, Verify
  <2> QED BY <1>2, <2>0, <2>1, <2>2, <2>3, <2>4 DEF Acquire
<1>3. ASSUME NEW p \in Procs, Work(p) \/ Release(p) PROVE TypeOK'
  BY <1>3 DEF Work, Release, CheckPid, UnlinkPid, ReleaseDir, RemoveDir
<1>4. ASSUME NEW p \in Procs, CifsAcquire(p) PROVE TypeOK'
  <2>1. CASE Create(p) \/ Taken(p) \/ WritePayload(p)
    BY <2>1 DEF Create, Taken, WritePayload
  <2>2. CASE ReadHolder(p) \/ ReadMtime(p) \/ HolderAlive(p)
    BY <2>2 DEF ReadHolder, ReadMtime, HolderAlive
  <2>3. CASE UnlinkStale(p)
    BY <2>3 DEF UnlinkStale, Unlink
  <2> QED BY <1>4, <2>1, <2>2, <2>3 DEF CifsAcquire
<1>5. ASSUME NEW p \in Procs, CheckExcl(p) \/ UnlinkExcl(p) PROVE TypeOK'
  BY <1>5 DEF CheckExcl, UnlinkExcl, Unlink
<1>6. ASSUME NEW p \in Procs, Die(p) \/ Exit(p) PROVE TypeOK'
  BY <1>6 DEF Die, Exit
<1>7. ASSUME NEW c \in Cleaners, Clean(c) PROVE TypeOK'
  <2>1. CASE Scan(c) \/ CleanerReadsPid(c) \/ CleanerHearsBack(c) \/ SshFails(c)
    BY <2>1 DEF Scan, CleanerReadsPid, CleanerHearsBack, SshFails
  <2>2. CASE EmptyDir(c)
    BY <2>2 DEF EmptyDir
  <2>3. CASE RmdirStale(c)
    BY <2>3 DEF RmdirStale, RemoveDir
  <2> QED BY <1>7, <2>1, <2>2, <2>3 DEF Clean
<1>8. CASE Tick
  BY <1>8 DEF Tick
<1> QED BY <1>1, <1>2, <1>3, <1>4, <1>5, <1>6, <1>7, <1>8 DEF LocksNext, Next, Step, CifsStep

\* A step of a process in a sheltered world.
LEMMA StepOrderly ==
  ASSUME TypeOK, Orderly, Sheltered, NEW p \in Procs, Step(p) \/ CifsStep(p) \/ Die(p) \/ Exit(p)
  PROVE  Orderly'
<1> USE ActorsAssumption DEF TypeOK, Actors, At, Goto, dir, Empty, Alive, Owning, Removing
<1>0. /\ LockInv /\ ProcInv(p) /\ (\A q \in Procs : ProcInv(q)) /\ (\A c \in Cleaners : At(c, "absent"))
      /\ \A c \in Cleaners : c # p
  BY DEF Orderly
<1>1. ASSUME world.strategy = "lockdir", Mkdir(p) PROVE Orderly'
  <2>1. LockInv'
    BY <1>0, <1>1 DEF Mkdir, LockInv, ProcInv, Contents, Sheltered
  <2>2. ProcInv(p)'
    BY <1>0, <1>1 DEF Mkdir, LockInv, ProcInv, Contents, Sheltered
  <2>3. ASSUME NEW q \in Procs, q # p PROVE ProcInv(q)'
    BY <1>0, <1>1, <2>3 DEF Mkdir, LockInv, ProcInv, Contents, Sheltered
  <2>4. ASSUME NEW c \in Cleaners PROVE At(c, "absent")'
    BY <1>0, <1>1, <2>4 DEF Mkdir
  <2> QED BY <2>1, <2>2, <2>3, <2>4 DEF Orderly
<1>2. ASSUME world.strategy = "lockdir", Occupied(p) PROVE Orderly'
  <2>1. LockInv'
    BY <1>0, <1>2 DEF Occupied, LockInv, ProcInv, Contents, Sheltered
  <2>2. ProcInv(p)'
    BY <1>0, <1>2 DEF Occupied, LockInv, ProcInv, Contents, Sheltered
  <2>3. ASSUME NEW q \in Procs, q # p PROVE ProcInv(q)'
    BY <1>0, <1>2, <2>3 DEF Occupied, LockInv, ProcInv, Contents, Sheltered
  <2>4. ASSUME NEW c \in Cleaners PROVE At(c, "absent")'
    BY <1>0, <1>2, <2>4 DEF Occupied
  <2> QED BY <2>1, <2>2, <2>3, <2>4 DEF Orderly
<1>3. ASSUME world.strategy = "lockdir", OpenTmp(p) PROVE Orderly'
  <2>1. LockInv'
    BY <1>0, <1>3 DEF OpenTmp, LockInv, ProcInv, Contents, Sheltered
  <2>2. ProcInv(p)'
    BY <1>0, <1>3 DEF OpenTmp, LockInv, ProcInv, Contents, Sheltered
  <2>3. ASSUME NEW q \in Procs, q # p PROVE ProcInv(q)'
    BY <1>0, <1>3, <2>3 DEF OpenTmp, LockInv, ProcInv, Contents, Sheltered
  <2>4. ASSUME NEW c \in Cleaners PROVE At(c, "absent")'
    BY <1>0, <1>3, <2>4 DEF OpenTmp
  <2> QED BY <2>1, <2>2, <2>3, <2>4 DEF Orderly
<1>4. ASSUME world.strategy = "lockdir", RenamePid(p) PROVE Orderly'
  <2>0. /\ exists /\ maker = p /\ pc[p] = "rename" /\ tmps' = {} /\ pidfile' = p /\ age' = "fresh"
        /\ Goto(p, "holding") /\ UNCHANGED <<world, exists, maker, seen, attempt>>
    <3>1. At(p, "rename") /\ pc[p] = "rename"
      BY <1>4 DEF RenamePid, At
    <3>2. exists /\ maker = p /\ pidfile = None /\ tmps = {p}
      BY <1>0, <3>1 DEF ProcInv, Contents
    <3> QED BY <1>4, <3>1, <3>2 DEF RenamePid
  <2>1. LockInv'
    BY <1>0, <2>0 DEF LockInv, ProcInv, Contents, Sheltered
  <2>2. ProcInv(p)'
    BY <1>0, <2>0 DEF LockInv, ProcInv, Contents, Sheltered
  <2>3. ASSUME NEW q \in Procs, q # p PROVE ProcInv(q)'
    BY <1>0, <2>0, <2>3 DEF LockInv, ProcInv, Contents, Sheltered
  <2>4. ASSUME NEW c \in Cleaners PROVE At(c, "absent")'
    BY <1>0, <2>0, <2>4
  <2> QED BY <2>1, <2>2, <2>3, <2>4 DEF Orderly
<1>5. ASSUME world.strategy = "lockdir", Tidy(p) PROVE Orderly'
  <2>1. LockInv'
    BY <1>0, <1>5 DEF Tidy, LockInv, ProcInv, Contents, Sheltered
  <2>2. ProcInv(p)'
    BY <1>0, <1>5 DEF Tidy, LockInv, ProcInv, Contents, Sheltered
  <2>3. ASSUME NEW q \in Procs, q # p PROVE ProcInv(q)'
    BY <1>0, <1>5, <2>3 DEF Tidy, LockInv, ProcInv, Contents, Sheltered
  <2>4. ASSUME NEW c \in Cleaners PROVE At(c, "absent")'
    BY <1>0, <1>5, <2>4 DEF Tidy
  <2> QED BY <2>1, <2>2, <2>3, <2>4 DEF Orderly
<1>6. ASSUME world.strategy = "lockdir", ReadPid(p) PROVE Orderly'
  <2>1. LockInv'
    BY <1>0, <1>6 DEF ReadPid, LockInv, ProcInv, Contents, Sheltered
  <2>2. ProcInv(p)'
    BY <1>0, <1>6 DEF ReadPid, LockInv, ProcInv, Contents, Sheltered
  <2>3. ASSUME NEW q \in Procs, q # p PROVE ProcInv(q)'
    BY <1>0, <1>6, <2>3 DEF ReadPid, LockInv, ProcInv, Contents, Sheltered
  <2>4. ASSUME NEW c \in Cleaners PROVE At(c, "absent")'
    BY <1>0, <1>6, <2>4 DEF ReadPid
  <2> QED BY <2>1, <2>2, <2>3, <2>4 DEF Orderly
<1>7. ASSUME world.strategy = "lockdir", ReadAge(p) PROVE Orderly'
  <2>1. LockInv'
    BY <1>0, <1>7 DEF ReadAge, LockInv, ProcInv, Contents, Sheltered
  <2>2. ProcInv(p)'
    BY <1>0, <1>7 DEF ReadAge, LockInv, ProcInv, Contents, Sheltered
  <2>3. ASSUME NEW q \in Procs, q # p PROVE ProcInv(q)'
    BY <1>0, <1>7, <2>3 DEF ReadAge, LockInv, ProcInv, Contents, Sheltered
  <2>4. ASSUME NEW c \in Cleaners PROVE At(c, "absent")'
    BY <1>0, <1>7, <2>4 DEF ReadAge
  <2> QED BY <2>1, <2>2, <2>3, <2>4 DEF Orderly
<1>8. ASSUME world.strategy = "lockdir", CheckAlive(p) PROVE Orderly'
  <2>1. LockInv'
    BY <1>0, <1>8 DEF CheckAlive, LockInv, ProcInv, Contents, Sheltered
  <2>2. ProcInv(p)'
    BY <1>0, <1>8 DEF CheckAlive, LockInv, ProcInv, Contents, Sheltered
  <2>3. ASSUME NEW q \in Procs, q # p PROVE ProcInv(q)'
    BY <1>0, <1>8, <2>3 DEF CheckAlive, LockInv, ProcInv, Contents, Sheltered
  <2>4. ASSUME NEW c \in Cleaners PROVE At(c, "absent")'
    BY <1>0, <1>8, <2>4 DEF CheckAlive
  <2> QED BY <2>1, <2>2, <2>3, <2>4 DEF Orderly
<1>9. ASSUME world.strategy = "lockdir", EmptyDir(p) PROVE Orderly'
  <2>1. LockInv'
    BY <1>0, <1>9 DEF EmptyDir, LockInv, ProcInv, Contents, Sheltered
  <2>2. ProcInv(p)'
    BY <1>0, <1>9 DEF EmptyDir, LockInv, ProcInv, Contents, Sheltered
  <2>3. ASSUME NEW q \in Procs, q # p PROVE ProcInv(q)'
    BY <1>0, <1>9, <2>3 DEF EmptyDir, LockInv, ProcInv, Contents, Sheltered
  <2>4. ASSUME NEW c \in Cleaners PROVE At(c, "absent")'
    BY <1>0, <1>9, <2>4 DEF EmptyDir
  <2> QED BY <2>1, <2>2, <2>3, <2>4 DEF Orderly
<1>10. ASSUME world.strategy = "lockdir", RmdirStale(p) PROVE Orderly'
  <2>1. LockInv'
    BY <1>0, <1>10 DEF RmdirStale, RemoveDir, LockInv, ProcInv, Contents, Sheltered
  <2>2. ProcInv(p)'
    BY <1>0, <1>10 DEF RmdirStale, RemoveDir, LockInv, ProcInv, Contents, Sheltered
  <2>3. ASSUME NEW q \in Procs, q # p PROVE ProcInv(q)'
    BY <1>0, <1>10, <2>3 DEF RmdirStale, RemoveDir, LockInv, ProcInv, Contents, Sheltered
  <2>4. ASSUME NEW c \in Cleaners PROVE At(c, "absent")'
    BY <1>0, <1>10, <2>4 DEF RmdirStale, RemoveDir
  <2> QED BY <2>1, <2>2, <2>3, <2>4 DEF Orderly
<1>11. ASSUME world.strategy = "lockdir", Verify(p) PROVE Orderly'
  <2>1. LockInv'
    BY <1>0, <1>11 DEF Verify, LockInv, ProcInv, Contents, Sheltered
  <2>2. ProcInv(p)'
    BY <1>0, <1>11 DEF Verify, LockInv, ProcInv, Contents, Sheltered
  <2>3. ASSUME NEW q \in Procs, q # p PROVE ProcInv(q)'
    BY <1>0, <1>11, <2>3 DEF Verify, LockInv, ProcInv, Contents, Sheltered
  <2>4. ASSUME NEW c \in Cleaners PROVE At(c, "absent")'
    BY <1>0, <1>11, <2>4 DEF Verify
  <2> QED BY <2>1, <2>2, <2>3, <2>4 DEF Orderly
<1>12. ASSUME Work(p) PROVE Orderly'
  <2>1. LockInv'
    BY <1>0, <1>12 DEF Work, LockInv, ProcInv, Contents, Sheltered
  <2>2. ProcInv(p)'
    BY <1>0, <1>12 DEF Work, LockInv, ProcInv, Contents, Sheltered
  <2>3. ASSUME NEW q \in Procs, q # p PROVE ProcInv(q)'
    BY <1>0, <1>12, <2>3 DEF Work, LockInv, ProcInv, Contents, Sheltered
  <2>4. ASSUME NEW c \in Cleaners PROVE At(c, "absent")'
    BY <1>0, <1>12, <2>4 DEF Work
  <2> QED BY <2>1, <2>2, <2>3, <2>4 DEF Orderly
<1>13. ASSUME world.strategy = "lockdir", CheckPid(p) PROVE Orderly'
  <2>1. LockInv'
    BY <1>0, <1>13 DEF CheckPid, LockInv, ProcInv, Contents, Sheltered
  <2>2. ProcInv(p)'
    BY <1>0, <1>13 DEF CheckPid, LockInv, ProcInv, Contents, Sheltered
  <2>3. ASSUME NEW q \in Procs, q # p PROVE ProcInv(q)'
    BY <1>0, <1>13, <2>3 DEF CheckPid, LockInv, ProcInv, Contents, Sheltered
  <2>4. ASSUME NEW c \in Cleaners PROVE At(c, "absent")'
    BY <1>0, <1>13, <2>4 DEF CheckPid
  <2> QED BY <2>1, <2>2, <2>3, <2>4 DEF Orderly
<1>14. ASSUME world.strategy = "lockdir", UnlinkPid(p) PROVE Orderly'
  <2>0. /\ exists /\ maker = p /\ pc[p] = "unlinkpid" /\ pidfile' = None /\ tmps = {} /\ age' = "fresh"
        /\ Goto(p, "releasedir") /\ UNCHANGED <<world, exists, maker, tmps, seen, attempt>>
    <3>1. exists /\ maker = p /\ pc[p] = "unlinkpid" /\ pidfile = p /\ p # None /\ tmps = {}
      BY <1>0, <1>14 DEF UnlinkPid, ProcInv, Contents
    <3> QED BY <1>14, <3>1 DEF UnlinkPid
  <2>1. LockInv'
    BY <1>0, <2>0 DEF LockInv, ProcInv, Contents, Sheltered
  <2>2. ProcInv(p)'
    BY <1>0, <2>0 DEF LockInv, ProcInv, Contents, Sheltered
  <2>3. ASSUME NEW q \in Procs, q # p PROVE ProcInv(q)'
    BY <1>0, <2>0, <2>3 DEF LockInv, ProcInv, Contents, Sheltered
  <2>4. ASSUME NEW c \in Cleaners PROVE At(c, "absent")'
    BY <1>0, <2>0, <2>4
  <2> QED BY <2>1, <2>2, <2>3, <2>4 DEF Orderly
<1>15. ASSUME world.strategy = "lockdir", ReleaseDir(p) PROVE Orderly'
  <2>1. LockInv'
    BY <1>0, <1>15 DEF ReleaseDir, RemoveDir, LockInv, ProcInv, Contents, Sheltered
  <2>2. ProcInv(p)'
    BY <1>0, <1>15 DEF ReleaseDir, RemoveDir, LockInv, ProcInv, Contents, Sheltered
  <2>3. ASSUME NEW q \in Procs, q # p PROVE ProcInv(q)'
    BY <1>0, <1>15, <2>3 DEF ReleaseDir, RemoveDir, LockInv, ProcInv, Contents, Sheltered
  <2>4. ASSUME NEW c \in Cleaners PROVE At(c, "absent")'
    BY <1>0, <1>15, <2>4 DEF ReleaseDir, RemoveDir
  <2> QED BY <2>1, <2>2, <2>3, <2>4 DEF Orderly
<1>16. ASSUME world.strategy = "cifs", Create(p) PROVE Orderly'
  <2>1. LockInv'
    BY <1>0, <1>16 DEF Create, LockInv, ProcInv, Contents, Sheltered
  <2>2. ProcInv(p)'
    BY <1>0, <1>16 DEF Create, LockInv, ProcInv, Contents, Sheltered
  <2>3. ASSUME NEW q \in Procs, q # p PROVE ProcInv(q)'
    BY <1>0, <1>16, <2>3 DEF Create, LockInv, ProcInv, Contents, Sheltered
  <2>4. ASSUME NEW c \in Cleaners PROVE At(c, "absent")'
    BY <1>0, <1>16, <2>4 DEF Create
  <2> QED BY <2>1, <2>2, <2>3, <2>4 DEF Orderly
<1>17. ASSUME world.strategy = "cifs", Taken(p) PROVE Orderly'
  <2>1. LockInv'
    BY <1>0, <1>17 DEF Taken, LockInv, ProcInv, Contents, Sheltered
  <2>2. ProcInv(p)'
    BY <1>0, <1>17 DEF Taken, LockInv, ProcInv, Contents, Sheltered
  <2>3. ASSUME NEW q \in Procs, q # p PROVE ProcInv(q)'
    BY <1>0, <1>17, <2>3 DEF Taken, LockInv, ProcInv, Contents, Sheltered
  <2>4. ASSUME NEW c \in Cleaners PROVE At(c, "absent")'
    BY <1>0, <1>17, <2>4 DEF Taken
  <2> QED BY <2>1, <2>2, <2>3, <2>4 DEF Orderly
<1>18. ASSUME world.strategy = "cifs", WritePayload(p) PROVE Orderly'
  <2>1. LockInv'
    BY <1>0, <1>18 DEF WritePayload, LockInv, ProcInv, Contents, Sheltered
  <2>2. ProcInv(p)'
    BY <1>0, <1>18 DEF WritePayload, LockInv, ProcInv, Contents, Sheltered
  <2>3. ASSUME NEW q \in Procs, q # p PROVE ProcInv(q)'
    BY <1>0, <1>18, <2>3 DEF WritePayload, LockInv, ProcInv, Contents, Sheltered
  <2>4. ASSUME NEW c \in Cleaners PROVE At(c, "absent")'
    BY <1>0, <1>18, <2>4 DEF WritePayload
  <2> QED BY <2>1, <2>2, <2>3, <2>4 DEF Orderly
<1>19. ASSUME world.strategy = "cifs", ReadHolder(p) PROVE Orderly'
  <2>1. LockInv'
    BY <1>0, <1>19 DEF ReadHolder, LockInv, ProcInv, Contents, Sheltered
  <2>2. ProcInv(p)'
    BY <1>0, <1>19 DEF ReadHolder, LockInv, ProcInv, Contents, Sheltered
  <2>3. ASSUME NEW q \in Procs, q # p PROVE ProcInv(q)'
    BY <1>0, <1>19, <2>3 DEF ReadHolder, LockInv, ProcInv, Contents, Sheltered
  <2>4. ASSUME NEW c \in Cleaners PROVE At(c, "absent")'
    BY <1>0, <1>19, <2>4 DEF ReadHolder
  <2> QED BY <2>1, <2>2, <2>3, <2>4 DEF Orderly
<1>20. ASSUME world.strategy = "cifs", ReadMtime(p) PROVE Orderly'
  <2>1. LockInv'
    BY <1>0, <1>20 DEF ReadMtime, LockInv, ProcInv, Contents, Sheltered
  <2>2. ProcInv(p)'
    BY <1>0, <1>20 DEF ReadMtime, LockInv, ProcInv, Contents, Sheltered
  <2>3. ASSUME NEW q \in Procs, q # p PROVE ProcInv(q)'
    BY <1>0, <1>20, <2>3 DEF ReadMtime, LockInv, ProcInv, Contents, Sheltered
  <2>4. ASSUME NEW c \in Cleaners PROVE At(c, "absent")'
    BY <1>0, <1>20, <2>4 DEF ReadMtime
  <2> QED BY <2>1, <2>2, <2>3, <2>4 DEF Orderly
<1>21. ASSUME world.strategy = "cifs", HolderAlive(p) PROVE Orderly'
  <2>1. LockInv'
    BY <1>0, <1>21 DEF HolderAlive, LockInv, ProcInv, Contents, Sheltered
  <2>2. ProcInv(p)'
    BY <1>0, <1>21 DEF HolderAlive, LockInv, ProcInv, Contents, Sheltered
  <2>3. ASSUME NEW q \in Procs, q # p PROVE ProcInv(q)'
    BY <1>0, <1>21, <2>3 DEF HolderAlive, LockInv, ProcInv, Contents, Sheltered
  <2>4. ASSUME NEW c \in Cleaners PROVE At(c, "absent")'
    BY <1>0, <1>21, <2>4 DEF HolderAlive
  <2> QED BY <2>1, <2>2, <2>3, <2>4 DEF Orderly
<1>22. ASSUME world.strategy = "cifs", UnlinkStale(p) PROVE Orderly'
  <2>1. LockInv'
    BY <1>0, <1>22 DEF UnlinkStale, Unlink, LockInv, ProcInv, Contents, Sheltered
  <2>2. ProcInv(p)'
    BY <1>0, <1>22 DEF UnlinkStale, Unlink, LockInv, ProcInv, Contents, Sheltered
  <2>3. ASSUME NEW q \in Procs, q # p PROVE ProcInv(q)'
    BY <1>0, <1>22, <2>3 DEF UnlinkStale, Unlink, LockInv, ProcInv, Contents, Sheltered
  <2>4. ASSUME NEW c \in Cleaners PROVE At(c, "absent")'
    BY <1>0, <1>22, <2>4 DEF UnlinkStale, Unlink
  <2> QED BY <2>1, <2>2, <2>3, <2>4 DEF Orderly
<1>23. ASSUME world.strategy = "cifs", CheckExcl(p) PROVE Orderly'
  <2>1. LockInv'
    BY <1>0, <1>23 DEF CheckExcl, LockInv, ProcInv, Contents, Sheltered
  <2>2. ProcInv(p)'
    BY <1>0, <1>23 DEF CheckExcl, LockInv, ProcInv, Contents, Sheltered
  <2>3. ASSUME NEW q \in Procs, q # p PROVE ProcInv(q)'
    BY <1>0, <1>23, <2>3 DEF CheckExcl, LockInv, ProcInv, Contents, Sheltered
  <2>4. ASSUME NEW c \in Cleaners PROVE At(c, "absent")'
    BY <1>0, <1>23, <2>4 DEF CheckExcl
  <2> QED BY <2>1, <2>2, <2>3, <2>4 DEF Orderly
<1>24. ASSUME world.strategy = "cifs", UnlinkExcl(p) PROVE Orderly'
  <2>1. LockInv'
    BY <1>0, <1>24 DEF UnlinkExcl, Unlink, LockInv, ProcInv, Contents, Sheltered
  <2>2. ProcInv(p)'
    BY <1>0, <1>24 DEF UnlinkExcl, Unlink, LockInv, ProcInv, Contents, Sheltered
  <2>3. ASSUME NEW q \in Procs, q # p PROVE ProcInv(q)'
    BY <1>0, <1>24, <2>3 DEF UnlinkExcl, Unlink, LockInv, ProcInv, Contents, Sheltered
  <2>4. ASSUME NEW c \in Cleaners PROVE At(c, "absent")'
    BY <1>0, <1>24, <2>4 DEF UnlinkExcl, Unlink
  <2> QED BY <2>1, <2>2, <2>3, <2>4 DEF Orderly
<1>25. ASSUME Die(p) PROVE Orderly'
  <2>1. LockInv'
    BY <1>0, <1>25 DEF Die, Rest, LockInv, ProcInv, Contents, Sheltered
  <2>2. ProcInv(p)'
    BY <1>0, <1>25 DEF Die, Rest, LockInv, ProcInv, Contents, Sheltered
  <2>3. ASSUME NEW q \in Procs, q # p PROVE ProcInv(q)'
    BY <1>0, <1>25, <2>3 DEF Die, LockInv, ProcInv, Contents, Sheltered
  <2>4. ASSUME NEW c \in Cleaners PROVE At(c, "absent")'
    BY <1>0, <1>25, <2>4 DEF Die
  <2> QED BY <2>1, <2>2, <2>3, <2>4 DEF Orderly
<1>26. ASSUME Exit(p) PROVE Orderly'
  <2>1. LockInv'
    BY <1>0, <1>26 DEF Exit, LockInv, ProcInv, Contents, Sheltered
  <2>2. ProcInv(p)'
    BY <1>0, <1>26 DEF Exit, LockInv, ProcInv, Contents, Sheltered
  <2>3. ASSUME NEW q \in Procs, q # p PROVE ProcInv(q)'
    BY <1>0, <1>26, <2>3 DEF Exit, LockInv, ProcInv, Contents, Sheltered
  <2>4. ASSUME NEW c \in Cleaners PROVE At(c, "absent")'
    BY <1>0, <1>26, <2>4 DEF Exit
  <2> QED BY <2>1, <2>2, <2>3, <2>4 DEF Orderly
<1> QED BY <1>1, <1>2, <1>3, <1>4, <1>5, <1>6, <1>7, <1>8, <1>9, <1>10, <1>11, <1>12, <1>13, <1>14, <1>15, <1>16, <1>17, <1>18, <1>19, <1>20, <1>21, <1>22, <1>23, <1>24, <1>25, <1>26 DEF Step, Acquire, Release, CifsStep, CifsAcquire

\* Time passes in a sheltered world.
LEMMA TickOrderly == TypeOK /\ Orderly /\ Sheltered /\ Tick => Orderly'
<1> SUFFICES ASSUME TypeOK, Orderly, Sheltered, Tick PROVE Orderly'
  OBVIOUS
<1>1. age' = "old" => \A a \in Actors : pc[a] \in Rest \cup {"mkdir", "holding", "scan"}
  BY DEF Tick, Sheltered, Between
<1>2. LockInv'
  <2>1. age' = "old" => pidfile # None \/ pc[maker] = "dead"
    BY <1>1, ActorsAssumption DEF Orderly, LockInv, ProcInv, Contents, Owning, Actors, Rest, At, Tick
  <2> QED BY <2>1 DEF Tick, Orderly, LockInv
<1>3. ASSUME NEW p \in Procs PROVE ProcInv(p)'
  <2>1. ProcInv(p) /\ (age' = "old" => pc[p] # "readage")
    BY <1>1 DEF Orderly, Actors, Rest
  <2> QED BY <2>1 DEF Tick, ProcInv, Contents, At, Alive, Empty
<1>4. \A c \in Cleaners : At(c, "absent")'
  BY DEF Tick, Orderly, At
<1> QED BY <1>2, <1>3, <1>4 DEF Orderly

\* A cleaner that is absent takes no step.
LEMMA NoCleaner == Orderly => \A c \in Cleaners : ~ Clean(c)
BY DEF Orderly, At, Clean, Scan, CleanerReadsPid, CleanerHearsBack, SshFails, EmptyDir, RmdirStale

\* Circumstances do not change.
LEMMA SameWorld == [LocksNext]_vars => UNCHANGED world
<1> USE DEF dir
<1>1. ASSUME NEW p \in Procs, Acquire(p) \/ Work(p) \/ Release(p) PROVE UNCHANGED world
  BY <1>1 DEF Acquire, Mkdir, Occupied, OpenTmp, RenamePid, Tidy, ReadPid, ReadAge, CheckAlive,
     EmptyDir, RmdirStale, Verify, Work, Release, CheckPid, UnlinkPid, ReleaseDir
<1>2. ASSUME NEW p \in Procs, CifsStep(p) PROVE UNCHANGED world
  BY <1>2 DEF CifsStep, CifsAcquire, Create, Taken, WritePayload, ReadHolder, ReadMtime, HolderAlive,
     UnlinkStale, Work, CheckExcl, UnlinkExcl
<1>3. ASSUME NEW c \in Cleaners, Clean(c) PROVE UNCHANGED world
  BY <1>3 DEF Clean, Scan, CleanerReadsPid, CleanerHearsBack, SshFails, EmptyDir, RmdirStale
<1> QED BY <1>1, <1>2, <1>3 DEF LocksNext, Next, Step, Die, Exit, Tick, vars

LEMMA StepInv == IInv /\ [LocksNext]_vars => IInv'
<1> SUFFICES ASSUME IInv, [LocksNext]_vars PROVE IInv'
  OBVIOUS
<1>1. TypeOK'
  BY StepType DEF IInv
<1>2. ASSUME Sheltered' PROVE Orderly'
  <2>1. Sheltered /\ Orderly /\ TypeOK
    BY <1>2, SameWorld DEF Sheltered, IInv
  <2>2. CASE UNCHANGED vars
    BY <2>1, <2>2 DEF vars, dir, Orderly, LockInv, ProcInv, Contents, At, Alive, Empty
  <2>3. CASE LocksNext
    BY <2>1, <2>3, StepOrderly, TickOrderly, NoCleaner DEF LocksNext, Next
  <2> QED BY <2>2, <2>3
<1> QED BY <1>1, <1>2 DEF IInv

LEMMA LocksInvariant == LocksSpec => []IInv
BY InitInv, StepInv, PTL DEF LocksSpec
------------------------------------------------------------------------------
\* Every variable of the two locks keeps its type, in every world.
THEOREM LocksTypeOK == LocksSpec => []TypeOK
BY LocksInvariant, PTL DEF IInv

\* LockdirLock and CIFSLock: in a sheltered world no two processes believe they
\* hold the lock, and what a holder made is still there and names it.
THEOREM LocksExclude == LocksSpec => []MutualExclusion
<1>1. IInv => MutualExclusion
  BY DEF IInv, MutualExclusion, Exclusion, Holding, Orderly, ProcInv, Contents, Owning, At
<1> QED BY <1>1, LocksInvariant, PTL

\* _remove_stale_lock and acquire: in a sheltered world no waiter takes somebody
\* else's new lockdir for a permission problem, and nobody runs out of attempts.
THEOREM LocksNoFalseAlarm == LocksSpec => []NoFalseAlarm
<1>1. IInv => NoFalseAlarm
  BY DEF IInv, NoFalseAlarm, Orderly, ProcInv, At
<1> QED BY <1>1, LocksInvariant, PTL

\* _is_lock_stale and _is_excl_stale: in a sheltered world whoever is deprived of
\* the lock it holds is gone.
THEOREM LocksRobOnlyTheDead == LocksSpec => OnlyTheDeadAreRobbed
<1>1. ASSUME IInv, Sheltered, LocksNext PROVE ~ HolderRobbed
  <2> SUFFICES ASSUME NEW p \in Procs, At(p, "holding"), maker = p, Alive(p) PROVE maker' = p
    BY DEF HolderRobbed
  <2>1. /\ exists /\ p # None /\ p \in world.actors
        /\ \A q \in Procs : ProcInv(q)
    BY <1>1, ActorsAssumption DEF IInv, Orderly, LockInv, ProcInv, Owning, At, Actors
  <2>2. ASSUME NEW q \in Procs PROVE pc[q] \notin Removing /\ ~ At(q, "tidy") /\ ~ At(q, "releasedir")
    BY <2>1, <2>2 DEF ProcInv, Removing, Owning, At
  <2>3. ASSUME NEW q \in Procs, Step(q) \/ CifsStep(q) \/ Die(q) \/ Exit(q) PROVE maker' = p
    <3>1. CASE Acquire(q)
      BY <2>1, <2>2, <3>1 DEF Acquire, Mkdir, Occupied, OpenTmp, RenamePid, Tidy, ReadPid, ReadAge,
         CheckAlive, EmptyDir, RmdirStale, Verify, dir, At, Removing
    <3>2. CASE Work(q) \/ Release(q) \/ Die(q) \/ Exit(q)
      BY <2>2, <3>2 DEF Work, Release, CheckPid, UnlinkPid, ReleaseDir, Die, Exit, dir, At
    <3>3. CASE CifsStep(q)
      BY <2>1, <2>2, <3>3 DEF CifsStep, CifsAcquire, Create, Taken, WritePayload, ReadHolder, ReadMtime,
         HolderAlive, UnlinkStale, Work, CheckExcl, UnlinkExcl, dir, At, Removing
    <3> QED BY <2>3, <3>1, <3>2, <3>3 DEF Step
  <2> QED BY <1>1, <2>3, NoCleaner DEF LocksNext, Next, Tick, IInv
<1>2. IInv /\ [LocksNext]_vars => [Sheltered => ~ HolderRobbed]_vars
  BY <1>1
<1> QED BY <1>2, LocksInvariant, PTL DEF LocksSpec, OnlyTheDeadAreRobbed
==============================================================================
