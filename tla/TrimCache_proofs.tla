-------------------------- MODULE TrimCache_proofs ---------------------------
(***************************************************************************)
(* What no trim takes away, for any pool and any number of trims and       *)
(* builds: an object of a file the checkout has now, the last name of an   *)
(* executable that somebody has linked, the temp file of a build that      *)
(* holds its lock.  A trim acts upon a scan that may be long out of date;  *)
(* the argument is about what it looks at again once it has the lock, and  *)
(* who could still change that before it unlinks.  And a name that had an  *)
(* object or an executable keeps one, with two trims at most: there it is  *)
(* about what a scan finds while another trim still removes what it has    *)
(* listed.                                                                 *)
(***************************************************************************)
EXTENDS TrimCache, FiniteSetTheorems, WellFoundedInduction, TLAPS

TrimFields == {"pc", "pass", "scan", "todo", "job", "seen", "total", "unmet", "retry"}
Passes == {"siblings", "trim", "temps", "budget", "orphandirs", "retry", "buckets"}
BuildFields == {"pc", "want", "user"}

\* The removals a trim may attempt.
Jobs ==
  {j \in [unit : Units, file : {"main", "orphan", "dir"}, by : Passes, real : Units] :
     /\ j.file = "dir" => Dir
     /\ Kind = "obj" /\ j.file = "main" => j.unit \notin world.current
     /\ j.real # j.unit => world.purge /\ j.file = "main" /\ j.real = world.real[j.unit]}

Busy == {"lock", "stat", "remove", "credit", "lockall", "rmtree", "rmdir"}

\* What a trim intends, at any time.
Plan(t) ==
  /\ DOMAIN tr[t] = TrimFields
  /\ tr[t].pass \in Passes /\ tr[t].todo \subseteq Units /\ tr[t].retry \in Seq(Jobs)
  /\ "found" \in DOMAIN tr[t].scan /\ tr[t].scan.found \subseteq Units
  /\ tr[t].pc \in Busy => tr[t].job \in Jobs
  /\ tr[t].pc \in {"stat", "remove"} => tr[t].job.file # "dir"
  /\ tr[t].pc \in {"lockall", "rmtree", "rmdir"} => tr[t].job.file = "dir"
  /\ tr[t].pass = "siblings" /\ tr[t].todo # {} => world.purge
  /\ Kind = "obj" /\ tr[t].pass \notin {"temps", "buckets"} => tr[t].todo \cap world.current = {}

\* The locks behind what it does.
Held(t) ==
  /\ tr[t].pc \in {"stat", "remove"} => lock[<<tr[t].job.unit, tr[t].job.file>>] = t
  /\ tr[t].pc = "rmtree" => \A f \in tr[t].seen \cap Leaf : lock[<<tr[t].job.unit, f>>] = t

\* No other name leads to the inode of u.
Sole(u) == /\ \A v \in Units \ {u} : ~ (Here(v) /\ ino[v] = ino[u])
           /\ \A b \in Builds : bd[b].user # <<"hard", ino[u]>>

\* What it saw under the lock is still so when it unlinks.
Expendable(u, r) == Here(u) /\ IF r = u THEN Sole(u) ELSE Here(r) /\ ino[r] = ino[u]
Checked(t) == Exe /\ tr[t].pc = "remove" /\ tr[t].job.file = "main" =>
                Expendable(tr[t].job.unit, tr[t].job.real)

BuildInv(b) ==
  /\ DOMAIN bd[b] = BuildFields /\ bd[b].want \in Units
  /\ bd[b].pc \in {"open", "rename", "link", "manifest"} => lock[MainLock(b)] = b
  /\ \* An entry that a build overwrites was made by another.
     world.purge /\ bd[b].pc \in {"lock", "open", "rename"} /\ Here(Want(b)) => ino[Want(b)] \in Builds

\* The inductive invariant.
Base == /\ world \in Worlds /\ DOMAIN tr = Trims /\ DOMAIN bd = Builds
        /\ leaves \in [Units -> SUBSET Leaf] /\ ino \in [Units -> Inode]
        /\ DOMAIN lock = Units \X Leaf
        /\ dirs \subseteq Units
        /\ \A v \in Units : ino[v] \in Builds => Want(ino[v]) = v
IInv == /\ Base
        /\ \A t \in Trims : Plan(t) /\ Held(t) /\ Checked(t)
        /\ \A b \in Builds : BuildInv(b)

USE DEF Leaf, Free
------------------------------------------------------------------------------
(* Counting links. *)

LEMMA LinksSole ==
  ASSUME NEW u \in Units, Here(u), DOMAIN bd = Builds
  PROVE  /\ Sole(u) => Links(ino[u]) = 1
         /\ ~ Links(ino[u]) > 1 => Sole(u)
<1> DEFINE N == {v \in Units : Here(v) /\ ino[v] = ino[u]}
           H == {b \in Builds : bd[b].user = <<"hard", ino[u]>>}
<1>1. /\ IsFiniteSet(N) /\ IsFiniteSet(H) /\ u \in N
      /\ Cardinality(N) \in Nat /\ Cardinality(H) \in Nat
  BY UnitsAssumption, ActorsAssumption, FS_Subset, FS_CardinalityType
<1>2. Links(ino[u]) = Cardinality(N) + Cardinality(H)
  BY DEF Links
<1>3. Sole(u) <=> N = {u} /\ H = {}
  BY <1>1 DEF Sole
<1>4. ASSUME Sole(u) PROVE Links(ino[u]) = 1
  <2>1. Cardinality({u}) = 1 /\ Cardinality({}) = 0
    BY FS_Singleton, FS_EmptySet
  <2>2. N = {u} /\ H = {}
    BY <1>3, <1>4
  <2> QED BY <1>2, <2>1, <2>2
<1>5. ASSUME ~ Links(ino[u]) > 1 PROVE Sole(u)
  <2>1. Cardinality(N) # 0
    BY <1>1, FS_EmptySet
  <2>2. Cardinality(N) = 1 /\ Cardinality(H) = 0
    BY <1>1, <1>2, <1>5, <2>1
  <2>3. (\E x : N = {x}) /\ H = {}
    BY <1>1, <2>2, FS_Singleton, FS_EmptySet
  <2> QED BY <1>1, <1>3, <2>3
<1> QED BY <1>4, <1>5
------------------------------------------------------------------------------
LEMMA InitInv == Init => IInv
<1> SUFFICES ASSUME Init PROVE IInv
  OBVIOUS
<1>1. world \in Worlds
  BY DEF Init
<1>2. Base
  <2>1. leaves \in [Units -> SUBSET Leaf]
    BY <1>1, WorldsAssumption DEF Init
  <2>2. ino \in [Units -> Units]
    BY <1>1, WorldsAssumption DEF Init
  <2>3. \A v \in Units : ino[v] \notin Builds
    BY <2>2, ActorsAssumption
  <2> QED BY <1>1, <2>1, <2>2, <2>3 DEF Init, Base, Inode
<1>3. ASSUME NEW t \in Trims PROVE Plan(t) /\ Held(t) /\ Checked(t)
  <2>1. /\ tr[t].pc \in {"scan", "done"} /\ tr[t].pass = "siblings" /\ tr[t].todo = {}
        /\ tr[t].scan = [found |-> {}] /\ tr[t].retry = <<>> /\ DOMAIN tr[t] = TrimFields
    BY DEF Init, TrimFields
  <2>2. "found" \in DOMAIN tr[t].scan /\ tr[t].scan.found \subseteq Units
    BY <2>1
  <2>3. tr[t].retry \in Seq(Jobs)
    BY <2>1
  <2>4. Plan(t)
    <3>1. tr[t].pass \in Passes /\ tr[t].todo \subseteq Units
      BY <2>1 DEF Passes
    <3>2. tr[t].pc \notin Busy
      BY <2>1 DEF Busy
    <3>3. tr[t].todo \cap world.current = {}
      BY <2>1
    <3> QED BY <2>1, <2>2, <2>3, <3>1, <3>2, <3>3 DEF Plan
  <2> QED BY <2>1, <2>4 DEF Held, Checked
<1>4. ASSUME NEW b \in Builds PROVE BuildInv(b)
  <2>1. world.start \subseteq {"idle", "lock"} /\ world.wanted \subseteq Units
        /\ (world.purge => world.start = {"idle"})
    BY <1>1, WorldsAssumption
  <2> QED BY <2>1 DEF Init, BuildInv, BuildFields
<1> QED BY <1>2, <1>3, <1>4 DEF IInv
------------------------------------------------------------------------------
(* What a trim intends. *)

\* The pool and the options do not change.
LEMMA SameWorld == [Next]_vars => UNCHANGED world
<1>1. ASSUME NEW t \in Trims, Step(t) PROVE UNCHANGED world
  <2>1. CASE LockFile(t) \/ LockFails(t) \/ Restat(t) \/ Remove(t) \/ Credit(t) \/ ListDir(t)
    BY <2>1 DEF LockFile, LockFails, Restat, Remove, Credit, ListDir
  <2>2. CASE LockNext(t) \/ Rescan(t) \/ RemoveFiles(t) \/ RemoveDir(t) \/ ScanPool(t)
    BY <2>2 DEF LockNext, Rescan, RemoveFiles, RemoveDir, ScanPool
  <2>3. CASE SelectRemovals(t) \/ SelectTemps(t) \/ SelectBudget(t) \/ SelectOrphanDirs(t) \/ StartRetry(t)
    BY <2>3 DEF SelectRemovals, SelectTemps, SelectBudget, SelectOrphanDirs, StartRetry
  <2>4. CASE StartBuckets(t) \/ ReapBucket(t) \/ Finish(t) \/ TakeItem(t) \/ BudgetMet(t) \/ TakeRetry(t)
    BY <2>4 DEF StartBuckets, ReapBucket, Finish, TakeItem, BudgetMet, TakeRetry
  <2> QED BY <1>1, <2>1, <2>2, <2>3, <2>4 DEF Step
<1>2. ASSUME NEW b \in Builds, Build(b) PROVE UNCHANGED world
  BY <1>2 DEF Build, Mkdir, Check, Acquire, Skip, Open, Rename, PublishLink, PublishManifest
<1> QED BY <1>1, <1>2 DEF Next, vars

\* An entry put off to the retry pass joins the list of those already there.
LEMMA Appended ==
  ASSUME NEW S, NEW q \in Seq(S), NEW e \in S
  PROVE  Append(q, e) \in Seq(S)
OBVIOUS

\* The end of an attempt leaves a trim with what it had planned.
LEMMA OutcomePlan ==
  ASSUME NEW t \in Trims, DOMAIN tr = Trims, Plan(t), tr[t].pc \in Busy, NEW ok \in BOOLEAN,
         tr' = [tr EXCEPT ![t] = Outcome(t, ok)], UNCHANGED world
  PROVE  Plan(t)' /\ tr'[t].pc \in {"credit", "next"}
<1> DEFINE o == Outcome(t, ok)
<1>1. tr'[t] = o
  OBVIOUS
<1>2. /\ DOMAIN o = TrimFields /\ o.pass = tr[t].pass /\ o.todo = tr[t].todo /\ o.job = tr[t].job
      /\ o.pc \in {"credit", "next"}
  BY DEF Plan, Outcome, TrimFields
<1>3. o.retry \in Seq(Jobs)
  <2>1. o.retry = tr[t].retry \/ o.retry = Append(tr[t].retry, tr[t].job)
    BY DEF Plan, Outcome, TrimFields
  <2>2. tr[t].retry \in Seq(Jobs) /\ tr[t].job \in Jobs
    BY DEF Plan
  <2> QED BY <2>1, <2>2, Appended
<1>4. "found" \in DOMAIN o.scan /\ o.scan.found = tr[t].scan.found
  <2>1. o.scan = tr[t].scan \/ o.scan = DropRecordedLink(tr[t].scan, tr[t].job.real)
    BY DEF Plan, Outcome, TrimFields
  <2> QED BY <2>1 DEF Plan, DropRecordedLink
<1>5. Jobs' = Jobs
  BY DEF Jobs, Kind, Dir
<1> QED BY <1>1, <1>2, <1>3, <1>4, <1>5 DEF Plan, Kind, Busy

\* Each policy selects among what the scan found, and spares the checkout's objects.
LEMMA RemovalsFound ==
  ASSUME world \in Worlds, NEW scan
  PROVE  /\ Removals(scan) \subseteq scan.found
         /\ Kind = "obj" => Removals(scan) \cap world.current = {}
<1>1. Kind \in {"obj", "exe", "dir"}
  BY WorldsAssumption DEF Kind
<1> QED BY <1>1 DEF Removals, Dir, ObjectRemovals, ExeRemovals, DirRemovals

LEMMA PlanStep ==
  ASSUME NEW t \in Trims, world \in Worlds, dirs \subseteq Units, DOMAIN tr = Trims, Plan(t), Step(t)
  PROVE  Plan(t)'
<1> USE DEF Goto, Ends, Job, Idle, Begin
<1>0. Jobs' = Jobs /\ Kind' = Kind /\ UNCHANGED world
  BY SameWorld DEF Next, Jobs, Kind, Dir
<1>1. CASE LockFile(t) \/ Credit(t) \/ LockNext(t) \/ RemoveFiles(t)
  BY <1>0, <1>1 DEF LockFile, Credit, LockNext, RemoveFiles, Plan, TrimFields, Busy
<1>2. CASE LockFails(t) \/ Remove(t) \/ RemoveDir(t)
  BY <1>0, <1>2, OutcomePlan DEF LockFails, Remove, RemoveDir, Busy
<1>3. CASE Restat(t)
  <2>1. CASE tr' = [tr EXCEPT ![t].pc = "remove"]
    BY <1>0, <1>3, <2>1 DEF Restat, Plan, TrimFields, Busy
  <2>2. CASE \E ok \in BOOLEAN : tr' = [tr EXCEPT ![t] = Outcome(t, ok)]
    BY <1>0, <1>3, <2>2, OutcomePlan DEF Restat, Busy
  <2> QED BY <1>3, <2>1, <2>2 DEF Restat
<1>4. CASE ListDir(t)
  <2>1. CASE Job(t).unit \in dirs
    BY <1>0, <1>4, <2>1 DEF ListDir, Plan, TrimFields, Busy
  <2>2. CASE Job(t).unit \notin dirs
    BY <1>0, <1>4, <2>2, OutcomePlan DEF ListDir, Busy
  <2> QED BY <2>1, <2>2
<1>5. CASE Rescan(t)
  <2>1. CASE tr' = [tr EXCEPT ![t].pc = "rmtree"]
    BY <1>0, <1>5, <2>1 DEF Rescan, Plan, TrimFields, Busy
  <2>2. CASE \E ok \in BOOLEAN : tr' = [tr EXCEPT ![t] = Outcome(t, ok)]
    BY <1>0, <1>5, <2>2, OutcomePlan DEF Rescan, Busy
  <2> QED BY <1>5, <2>1, <2>2 DEF Rescan
<1>6. CASE ScanPool(t)
  <2> DEFINE scan == ScanOf(Found)
             sibs == IF world.purge THEN ColdSiblings(scan, world.real, world.age) ELSE {}
  <2>1. "found" \in DOMAIN scan /\ scan.found \subseteq Units /\ sibs \subseteq Units
        /\ (sibs # {} => world.purge) /\ (Kind = "obj" => sibs = {})
    BY WorldsAssumption DEF ScanOf, Found, ColdSiblings, Kind
  <2>2. tr' = [tr EXCEPT ![t].pc = "next", ![t].todo = sibs,
                         ![t].scan = [scan EXCEPT !.found = @ \ sibs]]
    BY <1>6 DEF ScanPool
  <2> HIDE DEF scan, sibs
  <2>3. /\ DOMAIN tr'[t] = TrimFields /\ tr'[t].pc = "next" /\ tr'[t].todo = sibs
        /\ tr'[t].scan = [scan EXCEPT !.found = @ \ sibs]
        /\ tr'[t].pass = tr[t].pass /\ tr'[t].retry = tr[t].retry
    BY <2>2 DEF Plan, TrimFields
  <2>4. "found" \in DOMAIN tr'[t].scan /\ tr'[t].scan.found \subseteq Units
    BY <2>1, <2>3
  <2> QED BY <1>0, <2>1, <2>3, <2>4 DEF Plan, Busy
<1>7. CASE SelectRemovals(t)
  BY <1>0, <1>7, RemovalsFound DEF SelectRemovals, Plan, TrimFields, Passes, Busy
<1>8. CASE SelectTemps(t) \/ SelectOrphanDirs(t) \/ StartRetry(t) \/ StartBuckets(t)
  BY <1>0, <1>8 DEF SelectTemps, SelectOrphanDirs, StartRetry, StartBuckets, Plan, TrimFields, Passes, Busy, Dir
<1>9. CASE SelectBudget(t)
  <2> DEFINE scan  == ScanOf(IF Dir THEN dirs ELSE Found)
             total == IF world.max >= 0 THEN TotalSize(scan) ELSE 0
             todo  == IF world.max >= 0 /\ TotalSize(scan) > world.max
                      THEN scan.found \ Protected(scan, Kind, world.current) ELSE {}
  <2>1. /\ tr' = [tr EXCEPT ![t].pass = "budget", ![t].scan = scan, ![t].total = total, ![t].todo = todo]
        /\ tr[t].pc = "next"
        /\ scan \in {ScanOf(dirs), ScanOf(Found)}
        /\ todo \subseteq scan.found \ Protected(scan, Kind, world.current)
    BY <1>9 DEF SelectBudget
  <2> HIDE DEF scan, total, todo
  <2>2. "found" \in DOMAIN scan /\ scan.found \subseteq Units
    BY <2>1 DEF ScanOf, Found
  <2>3. todo \subseteq Units /\ (Kind = "obj" => todo \cap world.current = {})
    BY <2>1, <2>2 DEF Protected
  <2>4. /\ DOMAIN tr'[t] = TrimFields /\ tr'[t].pc = "next" /\ tr'[t].pass = "budget"
        /\ tr'[t].scan = scan /\ tr'[t].todo = todo /\ tr'[t].retry = tr[t].retry
    BY <2>1 DEF Plan, TrimFields
  <2> QED BY <1>0, <2>2, <2>3, <2>4 DEF Plan, Busy, Passes
<1>10. CASE ReapBucket(t)
  <2>1. PICK u \in tr[t].todo : tr' = [tr EXCEPT ![t].todo = @ \ {u}]
    BY <1>10 DEF ReapBucket
  <2> QED BY <1>0, <2>1 DEF Plan, TrimFields, Busy
<1>11. CASE TakeItem(t)
  <2>1. PICK u \in tr[t].todo :
          tr' = [tr EXCEPT ![t].pc = "lock", ![t].todo = @ \ {u},
                   ![t].job = [unit |-> u, file |-> FileOf(tr[t].pass), by |-> tr[t].pass,
                               real |-> IF tr[t].pass = "siblings" THEN world.real[u] ELSE u]]
    BY <1>11 DEF TakeItem
  <2> DEFINE j == [unit |-> u, file |-> FileOf(tr[t].pass), by |-> tr[t].pass,
                   real |-> IF tr[t].pass = "siblings" THEN world.real[u] ELSE u]
  <2>2. tr[t].pass # "buckets" /\ u \in Units
    BY <1>11 DEF TakeItem, Plan
  <2>3. j \in Jobs
    <3>1. world.real[u] \in Units /\ (world.purge => ~ Dir)
      BY <2>2, WorldsAssumption DEF Dir, Kind
    <3>2. /\ FileOf(tr[t].pass) \in {"main", "orphan", "dir"}
          /\ FileOf(tr[t].pass) = "dir" => Dir
          /\ FileOf(tr[t].pass) = "main" => tr[t].pass # "temps"
          /\ tr[t].pass = "siblings" /\ ~ Dir => FileOf(tr[t].pass) = "main"
      BY DEF FileOf
    <3>3. /\ tr[t].pass \in Passes
          /\ tr[t].pass = "siblings" => world.purge
          /\ Kind = "obj" /\ tr[t].pass # "temps" => u \notin world.current
      BY <2>2 DEF Plan
    <3> QED BY <2>2, <3>1, <3>2, <3>3 DEF Jobs
  <2> HIDE DEF j
  <2>4. tr' = [tr EXCEPT ![t].pc = "lock", ![t].todo = @ \ {u}, ![t].job = j]
    BY <2>1 DEF j
  <2> QED BY <1>0, <2>3, <2>4 DEF Plan, TrimFields, Busy
<1>13. CASE Finish(t) \/ BudgetMet(t)
  BY <1>0, <1>13 DEF Finish, BudgetMet, Plan, TrimFields, Busy
<1>12. CASE TakeRetry(t)
  BY <1>0, <1>12 DEF TakeRetry, Plan, TrimFields, Busy
<1> QED BY <1>1, <1>2, <1>3, <1>4, <1>5, <1>6, <1>7, <1>8, <1>9, <1>10, <1>11, <1>12, <1>13 DEF Step
------------------------------------------------------------------------------
(* Who holds which lock. *)

\* Nobody takes or frees a lock that another holds.
LEMMA TrimLocks ==
  ASSUME DOMAIN lock = Units \X Leaf, NEW t \in Trims, Step(t)
  PROVE  /\ DOMAIN lock' = Units \X Leaf
         /\ \A f \in Units \X Leaf : lock[f] \notin {t, Free} => lock'[f] = lock[f]
<1> USE DEF Ends, Unlocked
<1>1. CASE LockFile(t) \/ LockFails(t) \/ Restat(t) \/ Remove(t) \/ Credit(t) \/ ListDir(t)
  BY <1>1 DEF LockFile, LockFails, Restat, Remove, Credit, ListDir
<1>2. CASE LockNext(t) \/ Rescan(t) \/ RemoveFiles(t) \/ RemoveDir(t) \/ ScanPool(t)
  BY <1>2 DEF LockNext, Rescan, RemoveFiles, RemoveDir, ScanPool
<1>3. CASE SelectRemovals(t) \/ SelectTemps(t) \/ SelectBudget(t) \/ SelectOrphanDirs(t) \/ StartRetry(t)
  BY <1>3 DEF SelectRemovals, SelectTemps, SelectBudget, SelectOrphanDirs, StartRetry
<1>4. CASE StartBuckets(t) \/ ReapBucket(t) \/ Finish(t) \/ TakeItem(t) \/ BudgetMet(t) \/ TakeRetry(t)
  BY <1>4 DEF StartBuckets, ReapBucket, Finish, TakeItem, BudgetMet, TakeRetry
<1> QED BY <1>1, <1>2, <1>3, <1>4 DEF Step

LEMMA BuildLocks ==
  ASSUME DOMAIN lock = Units \X Leaf, NEW b \in Builds, Build(b)
  PROVE  /\ DOMAIN lock' = Units \X Leaf
         /\ \A f \in Units \X Leaf : lock[f] \notin {b, Free} => lock'[f] = lock[f]
<1> USE DEF Unlocked
<1>1. CASE Mkdir(b) \/ Check(b) \/ Acquire(b) \/ Skip(b)
  BY <1>1 DEF Mkdir, Check, Acquire, Skip
<1>2. CASE Open(b) \/ Rename(b) \/ PublishLink(b) \/ PublishManifest(b)
  BY <1>2 DEF Open, Rename, PublishLink, PublishManifest
<1> QED BY <1>1, <1>2 DEF Build

\* Only these steps lead to the states in which a trim relies on its locks.
LEMMA Grasp ==
  ASSUME NEW t \in Trims, DOMAIN tr = Trims, Plan(t), Step(t)
  PROVE  /\ tr'[t].pc = "stat" => LockFile(t)
         /\ tr'[t].pc = "remove" =>
              /\ tr[t].pc = "stat" /\ tr' = [tr EXCEPT ![t].pc = "remove"] /\ UNCHANGED <<lock, leaves, ino, bd>>
              /\ LET u == Job(t).unit
                     r == Job(t).real
                 IN  /\ Job(t).file \in leaves[u]
                     /\ r # u => Here(r) /\ ino[r] = ino[u]
                     /\ Exe /\ Job(t).file = "main" /\ r = u => ~ Links(ino[u]) > 1
         /\ tr'[t].pc = "rmtree" =>
              /\ tr' = [tr EXCEPT ![t].pc = "rmtree"] /\ UNCHANGED lock /\ Unheld(t) = {}
<1>0. UNCHANGED world
  BY SameWorld DEF Next
<1> USE DEF Goto, Idle, Begin
<1>1. ASSUME tr[t].pc \in Busy, NEW ok \in BOOLEAN, tr' = [tr EXCEPT ![t] = Outcome(t, ok)]
      PROVE  tr'[t].pc \notin {"stat", "remove", "rmtree"}
  BY <1>0, <1>1, OutcomePlan
<1>2. CASE LockFile(t)
  BY <1>2 DEF LockFile, Plan, TrimFields
<1>3. CASE Restat(t)
  <2>1. CASE \E ok \in BOOLEAN : tr' = [tr EXCEPT ![t] = Outcome(t, ok)]
    BY <1>1, <1>3, <2>1 DEF Restat, Busy
  <2>2. CASE Goto(t, "remove")
    <3>1. tr'[t].pc = "remove"
      BY <2>2 DEF Plan, TrimFields
    <3>2. /\ tr[t].pc = "stat" /\ UNCHANGED <<lock, leaves, ino, bd>>
          /\ LET u == Job(t).unit
                 r == Job(t).real
             IN  /\ Job(t).file \in leaves[u]
                 /\ r # u => Here(r) /\ ino[r] = ino[u]
                 /\ Exe /\ Job(t).file = "main" /\ r = u => ~ Links(ino[u]) > 1
      BY <1>1, <1>3, <3>1 DEF Restat, Ends, Busy
    <3> QED BY <2>2, <3>1, <3>2
  <2> QED BY <1>3, <2>1, <2>2 DEF Restat, Ends
<1>4. CASE Rescan(t)
  BY <1>1, <1>4 DEF Rescan, Ends, Plan, TrimFields, Busy
<1>5. CASE LockFails(t) \/ Remove(t) \/ RemoveDir(t)
  BY <1>1, <1>5 DEF LockFails, Remove, RemoveDir, Ends, Busy
<1>6. CASE ListDir(t)
  <2>1. CASE Ends(t, TRUE)
    BY <1>1, <1>6, <2>1 DEF ListDir, Ends, Busy
  <2>2. CASE tr' = [tr EXCEPT ![t].pc = "lockall", ![t].seen = leaves[Job(t).unit]]
    BY <2>2 DEF Plan, TrimFields
  <2> QED BY <1>6, <2>1, <2>2 DEF ListDir
<1>7. CASE Credit(t) \/ LockNext(t) \/ RemoveFiles(t) \/ ScanPool(t) \/ Finish(t)
  BY <1>7 DEF Credit, LockNext, RemoveFiles, ScanPool, Finish, Plan, TrimFields
<1>8. CASE SelectRemovals(t) \/ SelectTemps(t) \/ SelectBudget(t) \/ SelectOrphanDirs(t) \/ StartRetry(t)
  BY <1>8 DEF SelectRemovals, SelectTemps, SelectBudget, SelectOrphanDirs, StartRetry, Plan, TrimFields
<1>9. CASE StartBuckets(t) \/ BudgetMet(t) \/ TakeRetry(t)
  BY <1>9 DEF StartBuckets, BudgetMet, TakeRetry, Plan, TrimFields
<1>10. CASE ReapBucket(t)
  <2>1. PICK u \in tr[t].todo : tr' = [tr EXCEPT ![t].todo = @ \ {u}]
    BY <1>10 DEF ReapBucket
  <2> QED BY <1>10, <2>1 DEF ReapBucket, Plan, TrimFields
<1>11. CASE TakeItem(t)
  <2>1. PICK u \in tr[t].todo :
          tr' = [tr EXCEPT ![t].pc = "lock", ![t].todo = @ \ {u},
                   ![t].job = [unit |-> u, file |-> FileOf(tr[t].pass), by |-> tr[t].pass,
                               real |-> IF tr[t].pass = "siblings" THEN world.real[u] ELSE u]]
    BY <1>11 DEF TakeItem
  <2> QED BY <2>1 DEF Plan, TrimFields
<1> QED BY <1>2, <1>3, <1>4, <1>5, <1>6, <1>7, <1>8, <1>9, <1>10, <1>11 DEF Step

\* A trim unlinks under the lock it took, and empties a directory under all of them.
LEMMA HeldStep ==
  ASSUME IInv, NEW t \in Trims, Step(t)
  PROVE  Held(t)'
<1>0. DOMAIN tr = Trims /\ DOMAIN lock = Units \X Leaf /\ Plan(t) /\ Held(t)
  BY DEF IInv, Base
<1>1. ASSUME tr'[t].pc = "stat" PROVE Held(t)'
  <2>1. LockFile(t)
    BY <1>0, <1>1, Grasp
  <2>2. tr[t].job.unit \in Units /\ tr[t].job.file \in Leaf
    BY <1>0, <2>1 DEF LockFile, Job, Plan, Jobs, Busy
  <2> QED BY <1>0, <2>1, <2>2 DEF LockFile, Job, Goto, Held, Plan, TrimFields
<1>2. ASSUME tr'[t].pc = "remove" PROVE Held(t)'
  BY <1>0, <1>2, Grasp DEF Held, Plan, TrimFields
<1>3. ASSUME tr'[t].pc = "rmtree" PROVE Held(t)'
  <2>1. tr' = [tr EXCEPT ![t].pc = "rmtree"] /\ UNCHANGED lock /\ Unheld(t) = {}
    BY <1>0, <1>3, Grasp
  <2>2. ASSUME NEW f \in tr[t].seen \cap Leaf PROVE lock[<<tr[t].job.unit, f>>] = t
    <3>1. PICK n \in 1..Len(Order) : Order[n] = f
      BY OrderAssumption
    <3> QED BY <2>1, <3>1 DEF Unheld, Job
  <2> QED BY <1>0, <2>1, <2>2 DEF Held, Plan, TrimFields
<1> QED BY <1>1, <1>2, <1>3 DEF Held
------------------------------------------------------------------------------
(* What a step leaves alone. *)

LEMMA TrimFrame ==
  ASSUME NEW t \in Trims, DOMAIN tr = Trims, Step(t)
  PROVE  /\ UNCHANGED <<world, ino, mtime, bd>> /\ DOMAIN tr' = Trims
         /\ \A x \in Trims \ {t} : tr'[x] = tr[x]
         /\ UNCHANGED leaves \/ Remove(t) \/ RemoveFiles(t)
         /\ dirs' \subseteq dirs
<1> USE DEF Ends, Goto, Begin
<1>1. CASE LockFile(t) \/ LockFails(t) \/ Restat(t) \/ Remove(t) \/ Credit(t) \/ ListDir(t)
  BY <1>1 DEF LockFile, LockFails, Restat, Remove, Credit, ListDir
<1>2. CASE LockNext(t) \/ Rescan(t) \/ RemoveFiles(t) \/ RemoveDir(t) \/ ScanPool(t)
  BY <1>2 DEF LockNext, Rescan, RemoveFiles, RemoveDir, ScanPool
<1>3. CASE SelectRemovals(t) \/ SelectTemps(t) \/ SelectBudget(t) \/ SelectOrphanDirs(t) \/ StartRetry(t)
  BY <1>3 DEF SelectRemovals, SelectTemps, SelectBudget, SelectOrphanDirs, StartRetry
<1>4. CASE StartBuckets(t) \/ ReapBucket(t) \/ Finish(t) \/ TakeItem(t) \/ BudgetMet(t) \/ TakeRetry(t)
  BY <1>4 DEF StartBuckets, ReapBucket, Finish, TakeItem, BudgetMet, TakeRetry
<1> QED BY <1>1, <1>2, <1>3, <1>4 DEF Step

\* A trim takes away the files it holds the locks of, and adds none.
LEMMA TrimLeaves ==
  ASSUME IInv, NEW t \in Trims, Step(t)
  PROVE  /\ leaves' \in [Units -> SUBSET Leaf]
         /\ \A u \in Units : leaves'[u] \subseteq leaves[u]
         /\ ~ Dir => \A u \in Units : Here(u) => Here(u)' \/ /\ tr[t].pc = "remove" /\ tr[t].job.unit = u
                                                             /\ tr[t].job.file = "main"
<1>1. DOMAIN tr = Trims /\ Plan(t) /\ leaves \in [Units -> SUBSET Leaf]
  BY DEF IInv, Base
<1>2. CASE UNCHANGED leaves
  BY <1>1, <1>2 DEF Here
<1>3. CASE Remove(t)
  BY <1>1, <1>3 DEF Remove, Job, Here
<1>4. CASE RemoveFiles(t)
  <2>1. Dir
    BY <1>1, <1>4 DEF RemoveFiles, Plan, Jobs, Busy
  <2> QED BY <1>1, <1>4, <2>1 DEF RemoveFiles
<1> QED BY <1>1, <1>2, <1>3, <1>4, TrimFrame

LEMMA BuildFrame ==
  ASSUME NEW b \in Builds, DOMAIN bd = Builds, DOMAIN bd[b] = BuildFields, Build(b)
  PROVE  /\ UNCHANGED <<world, tr>> /\ DOMAIN bd' = Builds
         /\ \A x \in Builds \ {b} : bd'[x] = bd[x]
         /\ DOMAIN bd'[b] = BuildFields /\ bd'[b].want = bd[b].want
         /\ UNCHANGED <<leaves, ino>> \/ Open(b) \/ Rename(b)
         /\ bd'[b].user = bd[b].user \/ PublishLink(b)
<1> USE DEF BGoto, BuildFields
<1>1. CASE Mkdir(b) \/ Check(b) \/ Acquire(b) \/ Skip(b)
  BY <1>1 DEF Mkdir, Check, Acquire, Skip
<1>2. CASE Open(b) \/ Rename(b)
  BY <1>2 DEF Open, Rename
<1>3. CASE PublishLink(b) \/ PublishManifest(b)
  BY <1>3 DEF PublishLink, PublishManifest
<1> QED BY <1>1, <1>2, <1>3 DEF Build
------------------------------------------------------------------------------
(* What was checked under the lock stays so. *)

LEMMA CheckedOwn ==
  ASSUME IInv, NEW t \in Trims, Step(t)
  PROVE  Checked(t)'
<1> SUFFICES ASSUME NEW u, NEW r, u = tr'[t].job.unit, r = tr'[t].job.real,
                    Exe', tr'[t].pc = "remove", tr'[t].job.file = "main"
             PROVE  Expendable(u, r)'
  BY DEF Checked
<1>1. DOMAIN tr = Trims /\ Plan(t) /\ DOMAIN bd = Builds /\ UNCHANGED world
  BY SameWorld DEF IInv, Base, Next
<1>2. /\ tr[t].pc = "stat" /\ tr' = [tr EXCEPT ![t].pc = "remove"] /\ UNCHANGED <<leaves, ino, bd>>
      /\ Job(t).file \in leaves[Job(t).unit]
      /\ Job(t).real # Job(t).unit => Here(Job(t).real) /\ ino[Job(t).real] = ino[Job(t).unit]
      /\ Exe /\ Job(t).file = "main" /\ Job(t).real = Job(t).unit => ~ Links(ino[Job(t).unit]) > 1
  BY <1>1, Grasp
<1>3. /\ Job(t).unit = u /\ Job(t).real = r /\ Job(t).file = "main" /\ Exe
      /\ tr[t].job.unit = u /\ tr[t].job.real = r
  BY <1>1, <1>2 DEF Plan, TrimFields, Exe, Kind, Job
<1>4. u \in Units /\ r \in Units
  BY <1>1, <1>2, <1>3 DEF Plan, Jobs, Busy
<1>5. Here(u)
  BY <1>2, <1>3 DEF Here
<1>6. r = u => Sole(u)
  BY <1>1, <1>2, <1>3, <1>4, <1>5, LinksSole
<1> QED BY <1>2, <1>3, <1>5, <1>6 DEF Expendable, Here, Sole

\* Another trim does not undo it: it would need the lock, or a link count of one.
LEMMA CheckedTrim ==
  ASSUME IInv, NEW t \in Trims, NEW x \in Trims \ {t}, Step(x)
  PROVE  Checked(t)'
<1> SUFFICES ASSUME NEW u, NEW r, u = tr'[t].job.unit, r = tr'[t].job.real,
                    Exe', tr'[t].pc = "remove", tr'[t].job.file = "main"
             PROVE  Expendable(u, r)'
  BY DEF Checked
<1> USE DEF Expendable
<1>1. /\ DOMAIN tr = Trims /\ world \in Worlds
      /\ Plan(t) /\ Held(t) /\ Checked(t) /\ Plan(x) /\ Held(x) /\ Checked(x)
  BY DEF IInv, Base
<1>2. UNCHANGED <<world, ino, bd>> /\ tr'[t] = tr[t]
  BY <1>1, TrimFrame
<1>3. Exe /\ ~ Dir
  BY <1>2 DEF Exe, Dir, Kind
<1>4. u \in Units /\ r \in Units /\ (r # u => world.purge /\ r = world.real[u])
  BY <1>1, <1>2 DEF Plan, Jobs, Busy
<1>5. Expendable(u, r)
  BY <1>1, <1>2, <1>3 DEF Checked
<1>6. Here(u)'
  <2>1. CASE ~ Here(u)'
    <3>1. tr[x].pc = "remove" /\ tr[x].job.unit = u /\ tr[x].job.file = "main"
      BY <1>3, <1>4, <1>5, <2>1, TrimLeaves
    <3> QED BY <1>1, <1>2, <3>1 DEF Held
  <2> QED BY <2>1
<1>7. r = u => Sole(u)'
  BY <1>2, <1>4, <1>5, TrimLeaves DEF Sole, Here
<1>8. ASSUME r # u PROVE Here(r)'
  <2>1. CASE ~ Here(r)'
    <3>1. tr[x].pc = "remove" /\ tr[x].job.unit = r /\ tr[x].job.file = "main"
      BY <1>3, <1>4, <1>5, <1>8, <2>1, TrimLeaves
    <3>2. ~ Sole(r)
      BY <1>4, <1>5, <1>8 DEF Sole
    <3>3. tr[x].job.real # r /\ tr[x].job.real = world.real[r]
      BY <1>1, <1>3, <3>1, <3>2 DEF Checked, Plan, Jobs, Busy
    <3>4. world.real[r] = r
      BY <1>1, <1>4, <1>8, WorldsAssumption
    <3> QED BY <3>3, <3>4
  <2> QED BY <2>1
<1> QED BY <1>2, <1>5, <1>6, <1>7, <1>8

\* Nor does a build: it would need the lock, or an inode that only its own entry has.
LEMMA CheckedBuild ==
  ASSUME IInv, NEW t \in Trims, NEW b \in Builds, Build(b)
  PROVE  Checked(t)'
<1> SUFFICES ASSUME NEW u, NEW r, u = tr'[t].job.unit, r = tr'[t].job.real, NEW w, w = Want(b),
                    Exe', tr'[t].pc = "remove", tr'[t].job.file = "main"
             PROVE  Expendable(u, r)'
  BY DEF Checked
<1> USE DEF Expendable
<1>1. /\ DOMAIN tr = Trims /\ world \in Worlds /\ DOMAIN bd = Builds /\ w \in Units
      /\ leaves \in [Units -> SUBSET Leaf] /\ ino \in [Units -> Inode]
      /\ \A v \in Units : ino[v] \in Builds => Want(ino[v]) = v
      /\ Plan(t) /\ Held(t) /\ Checked(t) /\ BuildInv(b)
  BY DEF IInv, Base, BuildInv, Want
<1>2. UNCHANGED <<world, tr>> /\ (UNCHANGED <<leaves, ino>> \/ Open(b) \/ Rename(b))
      /\ (\A x \in Builds \ {b} : bd'[x] = bd[x]) /\ (bd'[b].user = bd[b].user \/ PublishLink(b))
  BY <1>1, BuildFrame DEF BuildInv
<1>3. /\ Exe /\ tr[t].pc = "remove" /\ tr[t].job.file = "main"
      /\ tr[t].job.unit = u /\ tr[t].job.real = r
  BY <1>2 DEF Exe, Kind
<1>4. u \in Units /\ r \in Units /\ (r # u => world.purge /\ r = world.real[u]) /\ lock[<<u, "main">>] = t
  BY <1>1, <1>3 DEF Plan, Jobs, Busy, Held
<1>5. Expendable(u, r)
  BY <1>1, <1>2, <1>3 DEF Checked
<1>6. bd[b].pc \in {"open", "rename", "link", "manifest"} => w # u
  BY <1>1, <1>4, ActorsAssumption DEF BuildInv, MainLock
<1>7. CASE Rename(b)
  <2>1. w # u /\ bd[b].pc = "rename"
    BY <1>6, <1>7 DEF Rename
  <2>2. \A v \in Units \ {w} : leaves'[v] = leaves[v] /\ ino'[v] = ino[v]
    BY <1>1, <1>7 DEF Rename
  <2>3. Here(u)' /\ ino'[u] = ino[u] /\ ino[u] # b
    BY <1>1, <1>4, <1>5, <2>1, <2>2 DEF Here
  <2>4. ASSUME r = u PROVE Sole(u)'
    <3>1. Here(w)' => ino'[w] = b \/ UNCHANGED <<leaves, ino>>
      BY <1>1, <1>7 DEF Rename
    <3>2. bd'[b].user = bd[b].user
      BY <1>2, <2>1 DEF PublishLink
    <3> QED BY <1>2, <1>5, <2>2, <2>3, <2>4, <3>1, <3>2 DEF Sole, Here
  <2>5. ASSUME r # u PROVE Here(r)' /\ ino'[r] = ino[r]
    <3>1. w # r
      BY <1>1, <1>4, <1>5, <2>1, <2>5 DEF BuildInv
    <3> QED BY <1>4, <1>5, <2>2, <2>5, <3>1 DEF Here
  <2> QED BY <1>2, <1>5, <2>3, <2>4, <2>5
<1>8. CASE Open(b)
  <2>1. /\ \A v \in Units : Here(v)' <=> Here(v)
        /\ UNCHANGED ino /\ bd'[b].user = bd[b].user
    BY <1>1, <1>2, <1>8 DEF Open, Here, PublishLink
  <2> QED BY <1>2, <1>4, <1>5, <2>1 DEF Sole
<1>9. CASE PublishLink(b)
  <2>1. UNCHANGED <<leaves, ino>> /\ w # u
    BY <1>6, <1>9 DEF PublishLink
  <2>2. r = u => bd'[b].user # <<"hard", ino[u]>>
    <3>1. CASE Here(w)
      BY <1>1, <1>5, <1>9, <2>1, <3>1 DEF PublishLink, Sole, BuildInv, BuildFields
    <3>2. CASE ~ Here(w)
      BY <1>1, <1>5, <1>9, <3>2 DEF PublishLink, Sole, BuildInv, BuildFields, BGoto
    <3> QED BY <3>1, <3>2
  <2> QED BY <1>2, <1>4, <1>5, <2>1, <2>2 DEF Sole, Here
<1>10. CASE UNCHANGED <<leaves, ino>> /\ bd'[b].user = bd[b].user
  BY <1>2, <1>4, <1>5, <1>10 DEF Sole, Here
<1> QED BY <1>2, <1>7, <1>8, <1>9, <1>10
------------------------------------------------------------------------------
(* Builds, and the invariant as a whole. *)

LEMMA BuildOwn ==
  ASSUME IInv, NEW b \in Builds, Build(b)
  PROVE  BuildInv(b)'
<1>1. /\ DOMAIN bd = Builds /\ DOMAIN bd[b] = BuildFields /\ bd[b].want \in Units
      /\ DOMAIN lock = Units \X Leaf /\ leaves \in [Units -> SUBSET Leaf]
      /\ BuildInv(b) /\ world \in Worlds
  BY DEF IInv, Base, BuildInv
<1>2. DOMAIN bd'[b] = BuildFields /\ bd'[b].want = bd[b].want /\ UNCHANGED world
  BY <1>1, BuildFrame
<1> USE DEF BGoto, BuildFields, Want, MainLock
<1>3. bd'[b].pc \in {"open", "rename", "link", "manifest"} => lock'[<<bd[b].want, "main">>] = b
  <2>1. CASE Mkdir(b) \/ Check(b) \/ Acquire(b)
    BY <1>1, <2>1 DEF Mkdir, Check, Acquire, BuildInv, After
  <2>2. CASE Skip(b) \/ Open(b) \/ Rename(b)
    BY <1>1, <2>2 DEF Skip, Open, Rename, BuildInv, After
  <2>3. CASE PublishLink(b) \/ PublishManifest(b)
    BY <1>1, <2>3 DEF PublishLink, PublishManifest, BuildInv
  <2> QED BY <2>1, <2>2, <2>3 DEF Build
<1>4. ASSUME world.purge, bd'[b].pc \in {"lock", "open", "rename"}, "main" \in leaves'[bd[b].want]
      PROVE  ino'[bd[b].want] \in Builds
  <2>1. CASE Mkdir(b) \/ Check(b) \/ Acquire(b)
    BY <1>1, <1>4, <2>1 DEF Mkdir, Check, Acquire, BuildInv, After, Here
  <2>2. CASE Skip(b) \/ Open(b) \/ Rename(b)
    BY <1>1, <1>4, <2>2 DEF Skip, Open, Rename, BuildInv, After, Here
  <2>3. CASE PublishLink(b) \/ PublishManifest(b)
    BY <1>1, <1>4, <2>3 DEF PublishLink, PublishManifest, BuildInv
  <2> QED BY <2>1, <2>2, <2>3 DEF Build
<1> QED BY <1>1, <1>2, <1>3, <1>4 DEF BuildInv, Here

\* A build names its entry by an inode of its own.
LEMMA BuildBase ==
  ASSUME IInv, NEW b \in Builds, Build(b)
  PROVE  /\ Base'
         /\ \A v \in Units : leaves'[v] \cap {"main"} \subseteq leaves[v] \/ ino'[v] = b
         /\ \A v \in Units : ino'[v] = ino[v] \/ ino'[v] = b
<1>1. /\ DOMAIN bd = Builds /\ DOMAIN bd[b] = BuildFields /\ bd[b].want \in Units
      /\ Base /\ DOMAIN lock = Units \X Leaf
  BY DEF IInv, Base, BuildInv
<1>2. /\ UNCHANGED <<world, tr>> /\ DOMAIN bd' = Builds
      /\ \A x \in Builds : bd'[x].want = bd[x].want
  BY <1>1, BuildFrame
<1>3. DOMAIN lock' = Units \X Leaf
  BY <1>1, BuildLocks
<1>4. dirs' \subseteq Units
  BY <1>1 DEF Base, Build, Mkdir, Check, Acquire, Skip, Open, Rename, PublishLink, PublishManifest, Want
<1>5. CASE UNCHANGED <<leaves, ino>>
  BY <1>1, <1>2, <1>3, <1>4, <1>5 DEF Base, Want
<1>6. CASE Open(b)
  <2>1. leaves' \in [Units -> SUBSET Leaf] /\ UNCHANGED ino
        /\ \A v \in Units : leaves'[v] \cap {"main"} \subseteq leaves[v]
    BY <1>1, <1>6 DEF Open, Base, Want
  <2> QED BY <1>1, <1>2, <1>3, <1>4, <2>1 DEF Base, Want
<1>7. CASE Rename(b)
  <2>1. /\ leaves' \in [Units -> SUBSET Leaf] /\ ino' \in [Units -> Inode]
        /\ \A v \in Units : leaves'[v] \cap {"main"} \subseteq leaves[v] \/ ino'[v] = b
        /\ \A v \in Units : ino'[v] = ino[v] \/ (ino'[v] = b /\ v = bd[b].want)
    <3>1. CASE "tmp" \notin leaves[Want(b)]
      <4>1. UNCHANGED <<leaves, ino>>
        BY <1>7, <3>1 DEF Rename
      <4>2. ino \in [Units -> Inode] /\ leaves \in [Units -> SUBSET Leaf]
        BY <1>1 DEF Base
      <4>3. \A v \in Units : leaves'[v] \cap {"main"} \subseteq leaves[v] /\ ino'[v] = ino[v]
        BY <4>1
      <4> QED BY <4>1, <4>2, <4>3
    <3>2. CASE "tmp" \in leaves[Want(b)]
      <4>1. leaves' = [leaves EXCEPT ![bd[b].want] = (@ \ {"tmp"}) \cup {"main"}]
            /\ ino' = [ino EXCEPT ![bd[b].want] = b]
        BY <1>7, <3>2 DEF Rename, Want
      <4>2. b \in Inode /\ ino \in [Units -> Inode] /\ leaves \in [Units -> SUBSET Leaf]
        BY <1>1 DEF Inode, Base
      <4>3. ino' \in [Units -> Inode] /\ leaves' \in [Units -> SUBSET Leaf]
        BY <1>1, <4>1, <4>2
      <4>4. ASSUME NEW v \in Units PROVE leaves'[v] \cap {"main"} \subseteq leaves[v] \/ ino'[v] = b
        BY <4>1, <4>2
      <4>5. ASSUME NEW v \in Units PROVE ino'[v] = ino[v] \/ (ino'[v] = b /\ v = bd[b].want)
        <5>1. ino' = [ino EXCEPT ![bd[b].want] = b] /\ DOMAIN ino = Units
          BY <4>1, <4>2
        <5> QED BY <1>1, <5>1
      <4> QED BY <4>3, <4>4, <4>5
    <3> QED BY <3>1, <3>2
  <2> QED BY <1>1, <1>2, <1>3, <1>4, <2>1 DEF Base, Want
<1> QED BY <1>1, <1>5, <1>6, <1>7, BuildFrame

LEMMA BuildStep == ASSUME IInv, NEW b \in Builds, Build(b) PROVE IInv'
<1>1. /\ DOMAIN bd = Builds /\ DOMAIN bd[b] = BuildFields /\ DOMAIN lock = Units \X Leaf
      /\ \A t \in Trims : Plan(t) /\ Held(t)
  BY DEF IInv, Base, BuildInv
<1>2. UNCHANGED <<world, tr>> /\ \A x \in Builds \ {b} : bd'[x] = bd[x]
  BY <1>1, BuildFrame
<1>3. \A f \in Units \X Leaf : lock[f] \notin {b, Free} => lock'[f] = lock[f]
  BY <1>1, BuildLocks
<1>4. ASSUME NEW t \in Trims PROVE Plan(t)' /\ Held(t)' /\ Checked(t)'
  <2>1. t \notin {b, Free}
    BY ActorsAssumption
  <2>2. Plan(t)'
    BY <1>1, <1>2 DEF Plan, Jobs, Kind, Dir
  <2>3. tr[t].pc \in Busy => tr[t].job.unit \in Units
    BY <1>1 DEF Plan, Jobs
  <2>4. tr[t].pc \in {"stat", "remove"} => tr[t].job.file \in Leaf
    BY <1>1 DEF Plan, Jobs, Busy
  <2>5. Held(t)'
    BY <1>1, <1>2, <1>3, <2>1, <2>3, <2>4 DEF Held, Busy
  <2> QED BY <2>2, <2>5, CheckedBuild
<1>5. ASSUME NEW x \in Builds \ {b} PROVE BuildInv(x)'
  <2>1. BuildInv(x) /\ <<bd[x].want, "main">> \in Units \X Leaf /\ x # Free
    BY ActorsAssumption DEF IInv, BuildInv
  <2>2. ino'[bd[x].want] = ino[bd[x].want] \/ ino'[bd[x].want] = b
    BY <2>1, BuildBase
  <2>3. "main" \in leaves'[bd[x].want] => "main" \in leaves[bd[x].want] \/ ino'[bd[x].want] = b
    BY <2>1, BuildBase
  <2> QED BY <1>2, <1>3, <2>1, <2>2, <2>3 DEF BuildInv, Want, MainLock, Here
<1> QED BY <1>4, <1>5, BuildOwn, BuildBase DEF IInv

LEMMA TrimStep == ASSUME IInv, NEW t \in Trims, Step(t) PROVE IInv'
<1>1. DOMAIN tr = Trims /\ DOMAIN lock = Units \X Leaf /\ Base
  BY DEF IInv, Base
<1>2. /\ UNCHANGED <<world, ino, bd>> /\ DOMAIN tr' = Trims /\ dirs' \subseteq dirs
      /\ \A x \in Trims \ {t} : tr'[x] = tr[x]
  BY <1>1, TrimFrame
<1>3. /\ DOMAIN lock' = Units \X Leaf
      /\ \A f \in Units \X Leaf : lock[f] \notin {t, Free} => lock'[f] = lock[f]
  BY <1>1, TrimLocks
<1>4. Base'
  BY <1>1, <1>2, <1>3, TrimLeaves DEF Base, Want
<1>5. Plan(t)' /\ Held(t)' /\ Checked(t)'
  BY PlanStep, HeldStep, CheckedOwn DEF IInv, Base
<1>6. ASSUME NEW x \in Trims \ {t} PROVE Plan(x)' /\ Held(x)' /\ Checked(x)'
  <2>1. Plan(x) /\ Held(x) /\ x \notin {t, Free}
    BY ActorsAssumption DEF IInv
  <2>2. Plan(x)'
    BY <1>2, <2>1 DEF Plan, Jobs, Kind, Dir
  <2>3. tr[x].pc \in Busy => tr[x].job.unit \in Units
    BY <2>1 DEF Plan, Jobs
  <2>4. tr[x].pc \in {"stat", "remove"} => tr[x].job.file \in Leaf
    BY <2>1 DEF Plan, Jobs, Busy
  <2>5. Held(x)'
    BY <1>2, <1>3, <2>1, <2>3, <2>4 DEF Held, Busy
  <2> QED BY <2>2, <2>5, CheckedTrim
<1>7. ASSUME NEW b \in Builds PROVE BuildInv(b)'
  <2>1. BuildInv(b) /\ <<bd[b].want, "main">> \in Units \X Leaf /\ b \notin {t, Free}
    BY ActorsAssumption DEF IInv, BuildInv
  <2>2. "main" \in leaves'[bd[b].want] => "main" \in leaves[bd[b].want]
    BY <2>1, TrimLeaves
  <2> QED BY <1>2, <1>3, <2>1, <2>2 DEF BuildInv, Want, MainLock, Here
<1> QED BY <1>4, <1>5, <1>6, <1>7 DEF IInv

LEMMA StepInv == IInv /\ [Next]_vars => IInv'
<1>1. ASSUME IInv, UNCHANGED vars PROVE IInv'
  <2>1. Base'
    BY <1>1 DEF vars, IInv, Base, Want
  <2>2. ASSUME NEW t \in Trims PROVE Plan(t)' /\ Held(t)' /\ Checked(t)'
    <3>1. Plan(t) /\ Held(t) /\ Checked(t)
      BY <1>1 DEF IInv
    <3>2. Plan(t)' /\ Held(t)'
      BY <1>1, <3>1 DEF vars, Plan, Jobs, Kind, Dir, Held
    <3> QED BY <1>1, <3>1, <3>2 DEF vars, Checked, Expendable, Sole, Here, Exe, Kind
  <2>3. ASSUME NEW b \in Builds PROVE BuildInv(b)'
    BY <1>1 DEF vars, IInv, BuildInv, Here, Want, MainLock
  <2> QED BY <2>1, <2>2, <2>3 DEF IInv
<1> QED BY <1>1, TrimStep, BuildStep DEF Next

LEMMA Invariance == Spec => []IInv
BY InitInv, StepInv, PTL DEF Spec
------------------------------------------------------------------------------
\* trim_objdir and trim_exedir with _safe_locked_unlink: however old the scan that
\* selected an entry, no step of any trim or build removes an object of a file the
\* checkout has, nor the last name in the pool of an executable that is linked to.
THEOREM TrimSparesProtected == Spec => ProtectedNeverRemoved
<1> DEFINE Spared(u) == /\ Kind = "obj" => u \notin world.current
                        /\ Exe => \/ Links(ino[u]) = 1
                                  \/ \E v \in Units \ {u} : Here(v) /\ ino[v] = ino[u]
<1>1. ASSUME IInv, Next, NEW u \in Units, Removed(u) PROVE Spared(u)
  <2>0. DOMAIN tr = Trims /\ DOMAIN bd = Builds /\ world \in Worlds /\ Here(u) /\ ~ Here(u)'
    BY <1>1 DEF IInv, Base, Removed, Here
  <2>1. ASSUME NEW b \in Builds, Build(b) PROVE FALSE
    <3>1. BuildInv(b) /\ leaves \in [Units -> SUBSET Leaf]
      BY <1>1 DEF IInv, Base
    <3> QED BY <2>0, <2>1, <3>1, BuildFrame DEF BuildInv, Open, Rename, Here
  <2>2. ASSUME NEW t \in Trims, Step(t), ~ Dir PROVE Spared(u)
    <3>1. Plan(t) /\ Checked(t)
      BY <1>1 DEF IInv
    <3>2. tr[t].pc = "remove" /\ tr[t].job.unit = u /\ tr[t].job.file = "main"
      BY <1>1, <2>0, <2>2, TrimLeaves
    <3>3. Kind = "obj" => u \notin world.current
      BY <3>1, <3>2 DEF Plan, Jobs, Busy
    <3>4. ASSUME Exe PROVE Links(ino[u]) = 1 \/ \E v \in Units \ {u} : Here(v) /\ ino[v] = ino[u]
      <4>1. Expendable(u, tr[t].job.real) /\ tr[t].job.real \in Units
        BY <3>1, <3>2, <3>4 DEF Checked, Plan, Jobs, Busy
      <4> QED BY <2>0, <4>1, LinksSole DEF Expendable
    <3> QED BY <3>3, <3>4
  <2>3. Dir => Spared(u)
    BY DEF Dir, Exe
  <2> QED BY <1>1, <2>1, <2>2, <2>3 DEF Next
<1>2. IInv /\ [Next]_vars =>
        [\A u \in Units : Removed(u) =>
           /\ Kind = "obj" => u \notin world.current
           /\ Exe => \/ Links(ino[u]) = 1
                     \/ \E v \in Units \ {u} : Here(v) /\ ino[v] = ino[u]]_vars
  BY <1>1
<1> QED BY <1>2, Invariance, PTL DEF Spec, ProtectedNeverRemoved

\* _safe_locked_rmtree: while a build holds its entry's lock, nobody takes its temp
\* file away but a trim that emptied a directory in which it had listed no artefact.
THEOREM TrimSparesLocked == Spec => LockedIsSpared
<1>1. ASSUME IInv, Next, NEW b \in Builds, Robbed(b)
      PROVE  \E t \in Trims : tr[t].pc = "rmtree" /\ "main" \notin tr[t].seen
  <2>0. /\ DOMAIN tr = Trims /\ DOMAIN bd = Builds /\ bd[b].want \in Units /\ DOMAIN bd[b] = BuildFields
        /\ leaves \in [Units -> SUBSET Leaf]
        /\ bd[b].pc = "rename" /\ bd'[b].pc = "rename" /\ lock[<<bd[b].want, "main">>] = b
        /\ "tmp" \in leaves[bd[b].want] /\ "tmp" \notin leaves'[bd[b].want]
    BY <1>1 DEF IInv, Base, BuildInv, Robbed, Want, MainLock
  <2>1. ASSUME NEW x \in Builds, Build(x) PROVE FALSE
    <3>1. BuildInv(x)
      BY <1>1 DEF IInv
    <3>2. ~ Open(x)
      BY <2>0, <3>1 DEF BuildInv, Open, Want
    <3>3. Rename(x) /\ bd[x].want = bd[b].want
      BY <2>0, <2>1, <3>1, <3>2, BuildFrame DEF BuildInv, Rename, Want
    <3>4. x = b
      BY <2>0, <3>1, <3>3 DEF BuildInv, Rename, MainLock, Want
    <3> QED BY <2>0, <3>3, <3>4 DEF Rename, BGoto, After, BuildFields, Want
  <2>2. ASSUME NEW t \in Trims, Step(t) PROVE tr[t].pc = "rmtree" /\ "main" \notin tr[t].seen
    <3>1. Plan(t) /\ Held(t) /\ t # b
      BY <1>1, ActorsAssumption DEF IInv
    <3>2. ASSUME Remove(t) PROVE FALSE
      <4>1. tr[t].job.file # "tmp"
        BY <3>1, <3>2 DEF Remove, Plan, Jobs, Busy
      <4> QED BY <2>0, <3>2, <4>1 DEF Remove, Job
    <3>3. RemoveFiles(t)
      BY <2>0, <2>2, <3>2, TrimFrame
    <3>4. tr[t].pc = "rmtree" /\ tr[t].job.unit = bd[b].want
      BY <2>0, <3>3 DEF RemoveFiles, Job
    <3> QED BY <2>0, <3>1, <3>4 DEF Held
  <2> QED BY <1>1, <2>1, <2>2 DEF Next
<1>2. IInv /\ [Next]_vars => [\A b \in Builds : Robbed(b) =>
                                \E t \in Trims : tr[t].pc = "rmtree" /\ "main" \notin tr[t].seen]_vars
  BY <1>1
<1> QED BY <1>2, Invariance, PTL DEF Spec, LockedIsSpared
------------------------------------------------------------------------------
(* What keeps a name in the pool, for objects and executables.             *)

\* What a trim may still remove of the entries it has selected.
Removing(t) == tr[t].pc \in {"lock", "stat", "remove"} /\ tr[t].job.file = "main"
Queued(t)   == {i \in DOMAIN tr[t].retry : tr[t].retry[i].file = "main"}
Selected(t) == CASE tr[t].pass = "siblings" -> Removals(tr[t].scan)
                 [] tr[t].pass = "trim"     -> tr[t].todo
                 [] OTHER                   -> {}
Listed(t)   == Selected(t) \cup {u \in Units : Removing(t) /\ u = tr[t].job.unit}
               \cup {tr[t].retry[i].unit : i \in Queued(t)}

\* How a scan ranks k and u now.
Ahead(k, u) == mtime[k] > mtime[u] \/ (mtime[k] = mtime[u] /\ k < u)

\* Nobody writes the entry again, and a build has linked it for good.
Making(b) == bd[b].pc \in {"lock", "open", "rename"}
Firm(v)   == /\ \E b \in Builds : bd[b].pc \in {"manifest", "done"} /\ bd[b].user = <<"hard", ino[v]>>
             /\ \A b \in Builds : Making(b) => Want(b) # v
Anchor(v) == Here(v) /\ (Exe => Firm(v)) /\ (~ Exe => v \in world.current)

\* No trim will remove k, and while one has yet to scan, it will find k ahead of all of
\* its name that another has listed.
Lead(k) == /\ Here(k) /\ \A t \in Trims : k \notin Listed(t)
           /\ (\E t \in Trims : tr[t].pc = "scan") =>
                \A t \in Trims : \A u \in Listed(t) : Name(u) = Name(k) => Here(u) /\ Ahead(k, u)
Kept(n) == \E v \in Units : Name(v) = n /\ (Anchor(v) \/ Lead(v))

\* A trim lists an entry once.
Once(t) ==
  /\ tr[t].pass = "siblings" => tr[t].pc \in {"scan", "next", "done"} /\ tr[t].todo = {} /\ tr[t].retry = << >>
  /\ tr[t].pc = "scan" => tr[t].pass = "siblings" /\ tr[t].scan.found = {}
  /\ tr[t].pass \in {"budget", "retry"} => tr[t].todo = {}
  /\ tr[t].pass # "orphandirs"
  /\ tr[t].pass = "trim" =>
       \A u \in tr[t].todo : /\ Removing(t) => tr[t].job.unit # u
                             /\ \A i \in Queued(t) : tr[t].retry[i].unit # u
  /\ \A i \in Queued(t) : /\ Removing(t) => tr[t].retry[i].unit # tr[t].job.unit
                          /\ \A j \in Queued(t) : i # j => tr[t].retry[i].unit # tr[t].retry[j].unit
  /\ t \notin world.trims => tr[t].pc = "done" /\ tr[t].scan.found = {} /\ tr[t].pass = "siblings"

\* Who writes an entry that is there writes one of this moment.
Newly(b) == /\ Making(b) /\ Here(Want(b)) => mtime[Want(b)] = Now
            /\ bd[b].pc \in {"publish", "link", "manifest"} => Exe

\* Where NewestKept is about objects, or about executables with a keep_count.
Concerned == /\ world.max < 0 /\ Cardinality(world.trims) <= 2 /\ NothingRenewed
             /\ ~ Dir /\ ~ world.purge /\ (Exe => world.keep > 0)
KeptInv ==
  Concerned => /\ mtime \in [Units -> 0..Now]
               /\ \A t \in Trims : Once(t)
               /\ \A b \in Builds : Newly(b)
               /\ \A u \in Units \ world.absent : "main" \in world.files[u] => Kept(Name(u))

LEMMA LeastNatural ==
  ASSUME NEW T \in SUBSET Nat, T # {}
  PROVE  \E m \in T : \A k \in T : ~ k < m
<1>1. \E m \in T : \A k \in T : <<k, m>> \notin OpToRel(<, Nat)
  BY WFMin, NatLessThanWellFounded, Zenon
<1> QED  BY <1>1, Zenon DEF OpToRel

\* A scan ranks one entry before all others.
LEMMA Latest ==
  ASSUME mtime \in [Units -> 0..Now], NEW S \in SUBSET Units, S # {}
  PROVE  \E k \in S : \A u \in S : u # k => Ahead(k, u)
<1> DEFINE ages == {Now - mtime[u] : u \in S}
<1>1. ages \in SUBSET Nat /\ ages # {}  BY DEF Now
<1>2. PICK d \in ages : \A a \in ages : ~ a < d  BY <1>1, LeastNatural
<1> DEFINE first == {u \in S : Now - mtime[u] = d}
<1>3. first \in SUBSET Nat /\ first # {}  BY <1>2, UnitsAssumption
<1>4. PICK k \in first : \A u \in first : ~ u < k  BY <1>3, LeastNatural
<1>5. ASSUME NEW u \in S, u # k PROVE Ahead(k, u)
  <2>1. /\ k \in S /\ mtime[k] \in 0..Now /\ mtime[u] \in 0..Now /\ Now \in Nat
        /\ k \in Nat /\ u \in Nat /\ Now - mtime[k] = d
    BY <1>3, <1>4, <1>5, UnitsAssumption DEF Now
  <2>2. ~ (Now - mtime[u] < Now - mtime[k])  BY <1>2, <2>1
  <2>3. mtime[u] = mtime[k] => ~ u < k  BY <1>4, <2>1
  <2> QED  BY <1>5, <2>1, <2>2, <2>3 DEF Ahead
<1> QED  BY <1>4, <1>5

\* What is ahead of the rest of its bucket is kept.
LEMMA FirstIsKept ==
  ASSUME mtime \in [Units -> 0..Now], NEW s, s.mt = mtime, NEW S \in SUBSET Units, NEW n \in Nat, n > 0,
         NEW k \in S, \A u \in S : u # k /\ s.bucket[u] = s.bucket[k] => Ahead(k, u)
  PROVE  k \in NewestPerBucket(s, S, n)
<1>1. Group(s, S, k) \subseteq S /\ k \in Group(s, S, k)  BY DEF Group
<1>2. ASSUME NEW v \in Group(s, S, k), Newer(s, v, k) PROVE FALSE
  <2>1. mtime[k] \in 0..Now /\ mtime[v] \in 0..Now /\ k \in Nat /\ v \in Nat
    BY <1>1, <1>2, UnitsAssumption
  <2>2. v # k => Ahead(k, v)  BY <1>1, <1>2 DEF Group
  <2> QED  BY <1>2, <2>1, <2>2 DEF Newer, Ahead, Now
<1>3. {v \in Group(s, S, k) : Newer(s, v, k)} = {}  BY <1>2
<1>4. k \in Newest(s, Group(s, S, k), n)  BY <1>1, <1>3, FS_EmptySet DEF Newest
<1> QED  BY <1>4 DEF NewestPerBucket

\* A scan that has an entry of a name finds one ahead of all others of it, and spares it.
LEMMA ScanSpares ==
  ASSUME IInv, Concerned, mtime \in [Units -> 0..Now], NEW t \in Trims, Once(t), ScanPool(t),
         NEW w \in Units, Here(w), \A c \in Units : Name(c) = Name(w) => ~ (Kind = "obj" /\ Anchor(c))
  PROVE  \E k \in Units : /\ Name(k) = Name(w) /\ Here(k) /\ k \notin Listed(t)' /\ Listed(t)' \subseteq Found
                          /\ \A u \in Units : Name(u) = Name(w) /\ Here(u) /\ u # k => Ahead(k, u)
<1> DEFINE s == tr'[t].scan
           S == {u \in Units : Here(u) /\ Name(u) = Name(w)}
<1>1. /\ DOMAIN tr = Trims /\ Plan(t) /\ world \in Worlds /\ ~ world.purge /\ ~ Dir
      /\ Kind \in {"obj", "exe"} /\ world.keep \in Nat
  BY WorldsAssumption DEF IInv, Base, Concerned, Kind, Dir
<1>2. tr' = [tr EXCEPT ![t].pc = "next", ![t].todo = {},
                       ![t].scan = [ScanOf(Found) EXCEPT !.found = @ \ {}]]
  BY <1>1, <1>1 DEF ScanPool
<1>3. /\ tr'[t].pc = "next" /\ tr'[t].pass = tr[t].pass /\ tr'[t].retry = tr[t].retry
      /\ s = [ScanOf(Found) EXCEPT !.found = @ \ {}]
  BY <1>1, <1>2 DEF Plan, TrimFields
<1>4. s.found = Found /\ s.mt = mtime /\ s.bucket = [u \in Units |-> BucketOf(u)]
  BY <1>3 DEF ScanOf
<1>5. tr[t].pass = "siblings" /\ tr[t].retry = << >>  BY DEF Once, ScanPool
<1>6. Listed(t)' = Removals(s)
  <2>1. ~ Removing(t)' /\ Queued(t)' = {}  BY <1>3, <1>5 DEF Removing, Queued
  <2>2. Removals(tr[t].scan)' = Removals(s)
    BY SameWorld DEF Next, ScanPool, Removals, Kind, Dir
  <2>3. Selected(t)' = Removals(s)  BY <1>3, <1>5, <2>2 DEF Selected
  <2> QED  BY <2>1, <2>3 DEF Listed
<1>7. PICK k \in S : \A u \in S : u # k => Ahead(k, u)
  <2>1. S \in SUBSET Units /\ w \in S  OBVIOUS
  <2> QED  BY <2>1, Latest
<1> HIDE DEF s
<1>11. Listed(t)' \subseteq Found  BY <1>1, <1>4, <1>6, RemovalsFound
<1>8. k \in Found /\ Found \subseteq Units  BY DEF Found
<1>9. CASE Kind = "exe"
  <2>1. Exe /\ world.keep > 0  BY <1>9 DEF Exe, Concerned
  <2>2. \A u \in Found : u \in S  BY <2>1 DEF Found, Name
  <2>3. k \in NewestPerBucket(s, s.found, world.keep)
    BY <1>1, <1>4, <1>7, <1>8, <2>1, <2>2, FirstIsKept
  <2>4. k \notin Removals(s)  BY <1>9, <2>3 DEF Removals, ExeRemovals, Dir
  <2> QED  BY <1>6, <1>7, <1>11, <2>4
<1>10. CASE Kind = "obj"
  <2>1. ~ Exe  BY <1>10 DEF Exe
  <2>2. \A u \in Units : BucketOf(u) = Name(u)  BY <2>1 DEF BucketOf, Name
  <2>3. S \cap world.current = {}  BY <1>10, <2>1 DEF Anchor
  <2>4. \A u \in Found : s.bucket[u] = s.bucket[k] => u \in S
    BY <1>4, <1>8, <2>2 DEF Found
  <2> DEFINE rest == s.found \ world.current
  <2>5. rest \in SUBSET Units /\ k \in rest  BY <1>4, <1>8, <2>3
  <2>6. \A u \in rest : u # k /\ s.bucket[u] = s.bucket[k] => Ahead(k, u)  BY <1>4, <1>7, <2>4
  <2>7. Group(s, s.found, k) \cap world.current = {}  BY <1>4, <2>3, <2>4 DEF Group
  <2> HIDE DEF rest
  <2>8. /\ k \in NewestPerBucket(s, rest, 1)
        /\ world.keep > 0 => k \in NewestPerBucket(s, rest, world.keep)
    BY <1>1, <1>4, <2>5, <2>6, FirstIsKept
  <2>9. k \in KeptObjects(s, world.current, world.keep)
    <3>1. CASE world.keep > 0  BY <1>1, <2>8, <3>1 DEF KeptObjects, rest
    <3>2. CASE ~ world.keep > 0
      <4>1. world.keep = 0  BY <1>1, <3>2
      <4>2. k \in NewestPerBucket(s, s.found \ world.current, 1)  BY <2>8 DEF rest
      <4> QED  BY <2>7, <4>1, <4>2 DEF KeptObjects
    <3> QED  BY <3>1, <3>2
  <2>10. k \notin ObjectRemovals(s, world.current, world.keep, world.age)  BY <2>9 DEF ObjectRemovals
  <2>11. k \notin Removals(s)  BY <1>10, <2>10 DEF Removals, Dir
  <2> QED  BY <1>6, <1>7, <1>11, <2>11
<1> QED  BY <1>1, <1>9, <1>10

\* An attempt that ends leaves its entry listed once, or no more.
LEMMA EndsOnce ==
  ASSUME DOMAIN tr = Trims, world' = world, NEW t \in Trims, Plan(t), Once(t), ~ Dir,
         tr[t].pc \in {"lock", "stat", "remove"},
         NEW ok \in BOOLEAN, tr' = [tr EXCEPT ![t] = Outcome(t, ok)]
  PROVE  /\ Once(t)' /\ Listed(t)' \subseteq Listed(t)
         /\ ok /\ tr[t].job.file = "main" => tr[t].job.unit \notin Listed(t)'
<1> DEFINE o == Outcome(t, ok)
           q == tr[t].retry
           j == tr[t].job
<1>1. tr'[t] = o  OBVIOUS
<1>2. tr[t].pass # "siblings" /\ tr[t].pass # "orphandirs" /\ t \in world.trims  BY DEF Once
<1>3. /\ o.pass = tr[t].pass /\ o.todo = tr[t].todo /\ o.job = j /\ o.pc \in {"credit", "next"}
      /\ o.scan = tr[t].scan
      /\ o.retry = q \/ (o.retry = Append(q, j) /\ ~ ok)
  BY <1>2 DEF Plan, Outcome, TrimFields, Job
<1>4. q \in Seq(Jobs) /\ j \in Jobs /\ j.unit \in Units  BY DEF Plan, Busy, Jobs
<1> HIDE DEF o
<1>5. ~ Removing(t)' /\ tr[t].pc # "scan"  BY <1>1, <1>3 DEF Removing
<1>6. Selected(t)' = Selected(t)  BY <1>1, <1>2, <1>3 DEF Selected
<1>7. Removing(t) <=> j.file = "main"  BY DEF Removing
<1>8. CASE o.retry = q
  <2>1. tr'[t].retry = q /\ Queued(t)' = Queued(t)  BY <1>1, <1>8 DEF Queued
  <2>2. Once(t)'  BY <1>1, <1>2, <1>3, <1>5, <2>1 DEF Once
  <2>3. Listed(t)' = Selected(t) \cup {q[i].unit : i \in Queued(t)}  BY <1>5, <1>6, <2>1 DEF Listed
  <2>4. j.file = "main" => j.unit \notin Listed(t)'
    BY <1>2, <1>7, <2>3 DEF Once, Selected
  <2> QED  BY <2>2, <2>3, <2>4 DEF Listed
<1>9. CASE o.retry = Append(q, j) /\ ~ ok
  <2>1. /\ tr'[t].retry = Append(q, j) /\ DOMAIN tr'[t].retry = 1..Len(q) + 1 /\ DOMAIN q = 1..Len(q)
        /\ \A i \in 1..Len(q) : tr'[t].retry[i] = q[i]
        /\ tr'[t].retry[Len(q) + 1] = j /\ Len(q) \in Nat /\ Len(q) + 1 \notin 1..Len(q)
    BY <1>1, <1>4, <1>9
  <2>2. Queued(t)' = Queued(t) \cup (IF Removing(t) THEN {Len(q) + 1} ELSE {})
    BY <1>7, <2>1 DEF Queued
  <2>3. Queued(t) \subseteq 1..Len(q)  BY <2>1 DEF Queued
  <2>4. \A i \in Queued(t)' : \/ i \in Queued(t) /\ tr'[t].retry[i] = q[i]
                              \/ i = Len(q) + 1 /\ tr'[t].retry[i] = j /\ Removing(t)
    BY <2>1, <2>2, <2>3
  <2>5. \A i \in Queued(t)' : \A k \in Queued(t)' : i # k => tr'[t].retry[i].unit # tr'[t].retry[k].unit
    BY <2>4 DEF Once
  <2>6. tr[t].pass = "trim" => \A u \in tr[t].todo : \A i \in Queued(t)' : tr'[t].retry[i].unit # u
    BY <2>4 DEF Once
  <2>7. Once(t)'  BY <1>1, <1>2, <1>3, <1>5, <2>5, <2>6 DEF Once
  <2>8. Listed(t)' \subseteq Listed(t)
    <3>1. ASSUME NEW i \in Queued(t)' PROVE tr'[t].retry[i].unit \in Listed(t)
      BY <1>4, <2>4 DEF Listed
    <3>2. Listed(t)' = Selected(t) \cup {tr'[t].retry[i].unit : i \in Queued(t)'}
      BY <1>5, <1>6 DEF Listed
    <3> QED  BY <3>1, <3>2 DEF Listed
  <2> QED  BY <1>9, <2>7, <2>8
<1> QED  BY <1>3, <1>8, <1>9

\* The list of a trim that has scanned only gets shorter, and what it removes leaves it.
LEMMA Shrinks ==
  ASSUME IInv, Concerned, NEW t \in Trims, Once(t), Step(t)
  PROVE  /\ Once(t)'
         /\ ~ ScanPool(t) => Listed(t)' \subseteq Listed(t)
         /\ Remove(t) /\ tr[t].job.file = "main" => tr[t].job.unit \notin Listed(t)'
<1> USE DEF Goto, Ends, Job, Idle, Begin
<1>1. /\ DOMAIN tr = Trims /\ DOMAIN tr[t] = TrimFields /\ Plan(t) /\ world \in Worlds /\ ~ Dir /\ ~ world.purge
      /\ world.max < 0 /\ world.max \in Int
  BY WorldsAssumption DEF IInv, Base, Plan, Concerned
<1>2. world' = world  BY SameWorld DEF Next
<1>3. \A s : Removals(s)' = Removals(s)
  BY <1>2 DEF Removals, Kind, Dir
<1>4. tr[t].pc # "done" /\ t \in world.trims
  <2>1. tr[t].pc # "done"
    BY DEF Step, LockFile, LockFails, Restat, Remove, Credit, ListDir, LockNext, Rescan, RemoveFiles, RemoveDir,
           ScanPool, SelectRemovals, SelectTemps, SelectBudget, SelectOrphanDirs, StartRetry, StartBuckets,
           ReapBucket, Finish, TakeItem, BudgetMet, TakeRetry
  <2> QED  BY <2>1 DEF Once
<1>5. tr[t].pc \in {"lock", "stat", "remove"} => tr[t].job.file # "dir"
  BY <1>1 DEF Plan, Jobs, Busy
<1>6. tr[t].pc \notin {"lockall", "rmtree", "rmdir"}
  BY <1>1 DEF Plan, Jobs, Busy
<1>7. CASE LockFile(t) \/ (Restat(t) /\ tr' = [tr EXCEPT ![t].pc = "remove"])
  <2>1. /\ tr[t].pc \in {"lock", "stat", "remove"} /\ tr'[t].pc \in {"stat", "remove"}
        /\ tr'[t].pass = tr[t].pass /\ tr'[t].todo = tr[t].todo /\ tr'[t].job = tr[t].job
        /\ tr'[t].retry = tr[t].retry /\ tr'[t].scan = tr[t].scan
    BY <1>1, <1>7 DEF LockFile, Restat, TrimFields
  <2>2. Removing(t)' = Removing(t) /\ Queued(t)' = Queued(t) /\ Selected(t)' = Selected(t)
    BY <1>3, <2>1 DEF Removing, Queued, Selected
  <2>3. Once(t)'  BY <1>2, <1>4, <2>1, <2>2 DEF Once
  <2> QED  BY <1>7, <2>1, <2>2, <2>3 DEF Listed, Remove, LockFile, Restat
<1>8. CASE LockFails(t) \/ Remove(t) \/ (Restat(t) /\ ~ tr' = [tr EXCEPT ![t].pc = "remove"])
  <2>1. tr[t].pc \in {"lock", "stat", "remove"}
    BY <1>6, <1>8 DEF LockFails, Remove, Restat
  <2>2. PICK ok \in BOOLEAN : tr' = [tr EXCEPT ![t] = Outcome(t, ok)] /\ (Remove(t) => ok)
    BY <1>8 DEF LockFails, Remove, Restat
  <2> QED  BY <1>1, <1>2, <2>1, <2>2, EndsOnce
<1>9. CASE Credit(t) \/ SelectTemps(t) \/ SelectBudget(t) \/ StartRetry(t) \/ StartBuckets(t)
           \/ ReapBucket(t) \/ Finish(t) \/ BudgetMet(t)
  <2>1. /\ tr[t].pc \in {"credit", "next"} /\ tr'[t].pc \in {"next", "done"} /\ tr'[t].retry = tr[t].retry
        /\ tr[t].pass # "siblings" => tr'[t].pass # "siblings"
        /\ tr'[t].pass \in {"budget", "retry"} => tr'[t].todo = {}
        /\ tr'[t].pass # "orphandirs"
        /\ (tr'[t].pass = tr[t].pass /\ tr'[t].todo \subseteq tr[t].todo) \/ tr'[t].pass \notin {"siblings", "trim"}
        /\ tr'[t].pass = "siblings" => tr'[t].scan = tr[t].scan
    <3>1. CASE Credit(t) \/ Finish(t)
      BY <1>1, <3>1 DEF Credit, Finish, Once, TrimFields
    <3>2. CASE SelectTemps(t) \/ StartRetry(t) \/ StartBuckets(t)
      BY <1>1, <3>2 DEF SelectTemps, StartRetry, StartBuckets, Once, TrimFields
    <3>3. CASE SelectBudget(t)
      BY <1>1, <3>3 DEF SelectBudget, Once, TrimFields
    <3>4. CASE ReapBucket(t) \/ BudgetMet(t)
      BY <1>1, <3>4 DEF ReapBucket, BudgetMet, Once, TrimFields
    <3> QED  BY <1>9, <3>1, <3>2, <3>3, <3>4
  <2>2. ~ Removing(t) /\ ~ Removing(t)' /\ Queued(t)' = Queued(t)
    BY <2>1 DEF Removing, Queued
  <2>3. Selected(t)' \subseteq Selected(t)  BY <1>3, <2>1 DEF Selected
  <2>4. Once(t)'
    BY <1>2, <1>4, <2>1, <2>2 DEF Once
  <2> QED  BY <2>1, <2>2, <2>3, <2>4 DEF Listed, Remove
<1>10. CASE SelectRemovals(t)
  <2>1. /\ tr[t].pc = "next" /\ tr'[t].pc = "next" /\ tr'[t].retry = tr[t].retry /\ tr[t].pass = "siblings"
        /\ tr'[t].pass = "trim" /\ tr'[t].todo = Removals(tr[t].scan)
    BY <1>1, <1>10 DEF SelectRemovals, TrimFields
  <2>2. ~ Removing(t) /\ ~ Removing(t)' /\ Queued(t)' = {} /\ tr[t].retry = << >> /\ Queued(t) = {}
    BY <2>1 DEF Removing, Queued, Once
  <2>3. Selected(t)' = Selected(t)  BY <2>1 DEF Selected
  <2>4. Once(t)'  BY <1>2, <1>4, <2>1, <2>2 DEF Once
  <2> QED  BY <2>1, <2>2, <2>3, <2>4 DEF Listed, Remove
<1>11. CASE TakeItem(t)
  <2>1. PICK u \in tr[t].todo :
          tr' = [tr EXCEPT ![t].pc = "lock", ![t].todo = @ \ {u},
                   ![t].job = [unit |-> u, file |-> FileOf(tr[t].pass), by |-> tr[t].pass,
                               real |-> IF tr[t].pass = "siblings" THEN world.real[u] ELSE u]]
    BY <1>11 DEF TakeItem
  <2>2. /\ tr[t].pc = "next" /\ tr'[t].pc = "lock" /\ tr'[t].todo = tr[t].todo \ {u} /\ tr'[t].pass = tr[t].pass
        /\ tr'[t].retry = tr[t].retry /\ tr'[t].job.unit = u /\ tr'[t].job.file = FileOf(tr[t].pass)
    BY <1>1, <1>11, <2>1 DEF TakeItem, TrimFields
  <2>3. tr[t].pass \in {"trim", "temps"} /\ (tr[t].pass = "temps" => tr'[t].job.file = "orphan")
    BY <1>1, <1>11, <2>1, <2>2 DEF TakeItem, Once, Plan, Passes, FileOf
  <2>4. /\ ~ Removing(t) /\ Queued(t)' = Queued(t) /\ (Removing(t)' => tr[t].pass = "trim" /\ u \in Selected(t))
        /\ Selected(t)' \subseteq Selected(t)
    BY <2>2, <2>3 DEF Removing, Queued, Selected
  <2>5. Once(t)'
    <3>1. /\ tr'[t].pass \in {"trim", "temps"} /\ tr'[t].pc = "lock" /\ (Removing(t)' => tr[t].pass = "trim")
          /\ \A i : tr'[t].retry[i] = tr[t].retry[i]
      BY <2>2, <2>3, <2>4
    <3> QED  BY <1>2, <1>4, <2>2, <2>4, <3>1 DEF Once
  <2> QED  BY <2>2, <2>4, <2>5 DEF Listed, Remove
<1>12. CASE TakeRetry(t)
  <2> DEFINE q == tr[t].retry
  <2>1. /\ tr[t].pc = "next" /\ tr'[t].pc = "lock" /\ tr'[t].todo = tr[t].todo /\ tr'[t].pass = tr[t].pass
        /\ tr[t].pass = "retry" /\ tr[t].todo = {}
        /\ tr'[t].retry = Tail(q) /\ tr'[t].job = Head(q) /\ q # << >> /\ q \in Seq(Jobs)
    BY <1>1, <1>12 DEF TakeRetry, TrimFields, Plan
  <2>2. /\ Head(q) = q[1] /\ 1 \in DOMAIN q /\ Head(q).unit \in Units
        /\ DOMAIN Tail(q) = 1..Len(q) - 1 /\ DOMAIN q = 1..Len(q) /\ Len(q) \in Nat
        /\ \A i \in DOMAIN Tail(q) : i \in Nat /\ i + 1 \in DOMAIN q /\ i + 1 # 1 /\ Tail(q)[i] = q[i + 1]
    BY <2>1 DEF Jobs
  <2>3. \A i \in Queued(t)' : i \in Nat /\ i + 1 \in Queued(t) /\ i + 1 # 1 /\ tr'[t].retry[i] = q[i + 1]
    BY <2>1, <2>2 DEF Queued
  <2>4. Removing(t)' => 1 \in Queued(t) /\ tr'[t].job.unit = q[1].unit
    BY <2>1, <2>2 DEF Removing, Queued
  <2>5. ~ Removing(t) /\ Selected(t)' = {} /\ Selected(t) = {}  BY <2>1 DEF Removing, Selected
  <2>6. Once(t)'
    <3>1. \A i \in Queued(t)' : Removing(t)' => tr'[t].retry[i].unit # tr'[t].job.unit
      BY <2>3, <2>4 DEF Once
    <3>2. ASSUME NEW i \in Queued(t)', NEW j \in Queued(t)', i # j
          PROVE  tr'[t].retry[i].unit # tr'[t].retry[j].unit
      <4>1. i + 1 # j + 1  BY <2>3, <3>2
      <4> QED  BY <2>3, <4>1 DEF Once
    <3> QED  BY <1>2, <1>4, <2>1, <3>1, <3>2 DEF Once
  <2>7. Listed(t)' \subseteq Listed(t)
    <3>1. \A u \in Units : Removing(t)' /\ u = tr'[t].job.unit => u \in Listed(t)  BY <2>4 DEF Listed
    <3>2. ASSUME NEW i \in Queued(t)' PROVE tr'[t].retry[i].unit \in Listed(t)  BY <2>3 DEF Listed
    <3> QED  BY <2>5, <3>1, <3>2 DEF Listed
  <2> QED  BY <2>1, <2>6, <2>7 DEF Remove
<1>13. CASE ScanPool(t)
  <2>1. /\ tr[t].pc = "scan" /\ tr'[t].pc = "next" /\ tr'[t].pass = tr[t].pass /\ tr'[t].retry = tr[t].retry
        /\ tr'[t].todo = {}
    BY <1>1, <1>13 DEF ScanPool, TrimFields
  <2>2. tr[t].pass = "siblings" /\ tr[t].retry = << >>  BY <2>1 DEF Once
  <2>3. ~ Removing(t)' /\ Queued(t)' = {}  BY <2>1, <2>2 DEF Removing, Queued
  <2> QED  BY <1>2, <1>4, <1>13, <2>1, <2>2, <2>3 DEF Once, Remove
<1>14. ~ (ListDir(t) \/ LockNext(t) \/ Rescan(t) \/ RemoveFiles(t) \/ RemoveDir(t) \/ SelectOrphanDirs(t))
  BY <1>1, <1>5, <1>6 DEF ListDir, LockNext, Rescan, RemoveFiles, RemoveDir, SelectOrphanDirs
<1>15. CASE LockFile(t) \/ LockFails(t) \/ Restat(t) \/ Remove(t)  BY <1>7, <1>8, <1>15
<1>16. CASE SelectRemovals(t) \/ TakeItem(t) \/ TakeRetry(t) \/ ScanPool(t)
  BY <1>10, <1>11, <1>12, <1>13, <1>16
<1> QED  BY <1>9, <1>14, <1>15, <1>16 DEF Step

\* Who has not scanned has listed nothing.
LEMMA Unlisted ==
  ASSUME world \in Worlds, NEW t \in Trims, Once(t), tr[t].pc = "scan" \/ t \notin world.trims
  PROVE  Listed(t) = {}
<1>1. /\ tr[t].pass = "siblings" /\ tr[t].scan.found = {} /\ tr[t].retry = << >>
      /\ tr[t].pc \in {"scan", "done"}
  BY DEF Once
<1>2. Removals(tr[t].scan) = {}  BY <1>1, RemovalsFound
<1> QED  BY <1>1, <1>2 DEF Listed, Selected, Removing, Queued

LEMMA TwoTrims ==
  ASSUME world \in Worlds, Concerned, NEW a \in world.trims, NEW b \in world.trims, NEW c \in world.trims,
         a # b, a # c, b # c
  PROVE  FALSE
<1>1. IsFiniteSet(world.trims) /\ Cardinality(world.trims) <= 2  BY WorldsAssumption DEF Concerned
<1>2. Cardinality({a}) = 1 /\ IsFiniteSet({a})  BY FS_Singleton
<1>3. Cardinality({a} \cup {b}) = 2 /\ IsFiniteSet({a} \cup {b})  BY <1>2, FS_AddElement
<1>4. Cardinality(({a} \cup {b}) \cup {c}) = 3  BY <1>3, FS_AddElement
<1>5. ({a} \cup {b}) \cup {c} \subseteq world.trims  OBVIOUS
<1>6. Cardinality(({a} \cup {b}) \cup {c}) <= Cardinality(world.trims)  BY <1>1, <1>5, FS_Subset
<1>7. Cardinality(world.trims) \in Nat  BY <1>1, FS_CardinalityType
<1> QED  BY <1>1, <1>4, <1>6, <1>7

\* A build renews what it makes and publishes, and takes nothing away.
LEMMA BuildTimes ==
  ASSUME IInv, Concerned, mtime \in [Units -> 0..Now], NEW b \in Builds, Build(b)
  PROVE  /\ mtime' \in [Units -> 0..Now]
         /\ \A u \in Units : \/ mtime'[u] = mtime[u]
                             \/ mtime'[u] = Now /\ u = Want(b) /\ (Rename(b) \/ PublishLink(b))
         /\ \A u \in Units : Here(u) => Here(u)'
         /\ \A u \in Units : Here(u)' /\ ~ Here(u) => mtime'[u] = Now /\ Rename(b) /\ u = Want(b)
<1>1. /\ leaves \in [Units -> SUBSET Leaf] /\ bd[b].want \in Units /\ Now \in 0..Now /\ ~ Dir
  BY DEF IInv, Base, BuildInv, Now, Concerned
<1> USE DEF Want
<1>2. CASE Mkdir(b) \/ Check(b) \/ Acquire(b) \/ Skip(b) \/ PublishManifest(b)
  <2>1. mtime' = mtime /\ leaves' = leaves
    BY <1>1, <1>2 DEF Mkdir, Check, Acquire, Skip, PublishManifest
  <2> QED  BY <2>1 DEF Here
<1>3. CASE Open(b)
  <2>1. mtime' = mtime /\ \A u \in Units : Here(u)' <=> Here(u)
    BY <1>1, <1>3 DEF Open, Here
  <2> QED  BY <2>1
<1>4. CASE Rename(b)
  <2>1. CASE "tmp" \in leaves[bd[b].want]
    <3>1. /\ mtime' = [mtime EXCEPT ![bd[b].want] = Now]
          /\ leaves' = [leaves EXCEPT ![bd[b].want] = (@ \ {"tmp"}) \cup {"main"}]
      BY <1>4, <2>1 DEF Rename
    <3>2. mtime' \in [Units -> 0..Now]  BY <1>1, <3>1
    <3>3. \A u \in Units : u # bd[b].want => leaves'[u] = leaves[u] /\ mtime'[u] = mtime[u]  BY <1>1, <3>1
    <3>4. "main" \in leaves'[bd[b].want] /\ mtime'[bd[b].want] = Now  BY <1>1, <3>1
    <3> QED  BY <1>4, <3>2, <3>3, <3>4 DEF Here
  <2>2. CASE "tmp" \notin leaves[bd[b].want]
    BY <1>4, <2>2 DEF Rename, Here
  <2> QED  BY <2>1, <2>2
<1>5. CASE PublishLink(b)
  <2>1. leaves' = leaves /\ (mtime' = mtime \/ mtime' = [mtime EXCEPT ![bd[b].want] = Now])
    BY <1>5 DEF PublishLink
  <2> QED  BY <1>1, <1>5, <2>1 DEF Here
<1> QED  BY <1>2, <1>3, <1>4, <1>5 DEF Build

LEMMA NewlyStep ==
  ASSUME IInv, Concerned, mtime \in [Units -> 0..Now], \A x \in Builds : Newly(x), NEW b \in Builds, Build(b)
  PROVE  \A x \in Builds : Newly(x)'
<1> SUFFICES ASSUME NEW x \in Builds PROVE Newly(x)'  OBVIOUS
<1>1. /\ DOMAIN bd = Builds /\ DOMAIN bd[b] = BuildFields /\ bd[b].want \in Units /\ bd[x].want \in Units /\ Newly(b)
      /\ Newly(x)
  BY DEF IInv, Base, BuildInv
<1>2. /\ \A y \in Builds \ {b} : bd'[y] = bd[y]
      /\ bd'[b].want = bd[b].want /\ world' = world
  BY <1>1, BuildFrame
<1> USE DEF Want
<1>3. ASSUME Making(x), Here(Want(x))' PROVE mtime'[bd[x].want] = Now
  <2>1. bd[x].want \in Units /\ Want(x)' = bd[x].want  BY <1>1, <1>2
  <2>2. Here(bd[x].want)'  BY <1>3, <2>1
  <2>3. CASE Here(bd[x].want)
    <3>1. mtime[bd[x].want] = Now  BY <1>1, <1>3, <2>3 DEF Newly
    <3> QED  BY <2>1, <3>1, BuildTimes
  <2>4. CASE ~ Here(bd[x].want)  BY <2>1, <2>2, <2>4, BuildTimes
  <2> QED  BY <2>3, <2>4
<1>4. CASE x # b  BY <1>1, <1>2, <1>3, <1>4 DEF Newly, Making, Exe, Kind
<1>5. CASE x = b
  <2>1. Making(b)' => Making(b) \/ (Check(b) /\ ~ Here(Want(b)) /\ leaves' = leaves)
    BY <1>1 DEF Build, Mkdir, Check, Acquire, Skip, Open, Rename, PublishLink, PublishManifest, BGoto, After,
                Making, BuildFields
  <2>2. Making(b)' => ~ (Check(b) /\ ~ Here(Want(b)) /\ leaves' = leaves /\ Here(Want(b))')  BY <1>2 DEF Here
  <2>3. bd'[b].pc \in {"publish", "link", "manifest"} => Exe
    BY <1>1 DEF Build, Mkdir, Check, Acquire, Skip, Open, Rename, PublishLink, PublishManifest, BGoto, After,
                Newly, BuildFields
  <2> QED  BY <1>2, <1>3, <1>5, <2>1, <2>2, <2>3 DEF Newly, Exe, Kind
<1> QED  BY <1>4, <1>5

\* What is anchored stays.
LEMMA AnchorBuild ==
  ASSUME IInv, Concerned, mtime \in [Units -> 0..Now], NEW b \in Builds, Build(b), NEW v \in Units, Anchor(v)
  PROVE  Anchor(v)'
<1>1. /\ DOMAIN bd = Builds /\ DOMAIN bd[b] = BuildFields /\ bd[b].want \in Units
  BY DEF IInv, Base, BuildInv
<1>2. /\ \A y \in Builds \ {b} : bd'[y] = bd[y]
      /\ bd'[b].want = bd[b].want /\ world' = world
      /\ ino' = ino \/ Open(b) \/ (Rename(b) /\ bd'[b].user = bd[b].user) \/ PublishLink(b)
  BY <1>1, BuildFrame
<1>3. Here(v)'  BY BuildTimes DEF Anchor
<1> SUFFICES ASSUME Exe PROVE Firm(v)'  BY <1>2, <1>3 DEF Anchor, Exe, Kind
<1>4. Firm(v)  BY DEF Anchor
<1>5. ino'[v] = ino[v]
  BY <1>1, <1>4 DEF Build, Mkdir, Check, Acquire, Skip, Open, Rename, PublishLink, PublishManifest, Firm, Making,
                    Want, IInv, Base
<1>6. PICK x \in Builds : bd[x].pc \in {"manifest", "done"} /\ bd[x].user = <<"hard", ino[v]>>
  BY <1>4 DEF Firm
<1>7. bd'[x].pc \in {"manifest", "done"} /\ bd'[x].user = bd[x].user
  <2>1. CASE x # b  BY <1>2, <1>6, <2>1
  <2>2. CASE x = b
    BY <1>1, <1>6, <2>2 DEF Build, Mkdir, Check, Acquire, Skip, Open, Rename, PublishLink, PublishManifest, BGoto,
                            BuildFields
  <2> QED  BY <2>1, <2>2
<1>8. ASSUME NEW y \in Builds, Making(y)', Want(y)' = v PROVE FALSE
  <2>1. CASE y # b  BY <1>2, <1>4, <1>8, <2>1 DEF Firm, Making, Want
  <2>2. CASE y = b
    <3>1. Making(b) \/ (Check(b) /\ ~ Here(Want(b)))
      BY <1>1, <1>8, <2>2 DEF Build, Mkdir, Check, Acquire, Skip, Open, Rename, PublishLink, PublishManifest,
                              BGoto, After, Making, BuildFields, Want
    <3>2. Want(b) = v  BY <1>2, <1>8, <2>2 DEF Want
    <3> QED  BY <1>4, <3>1, <3>2 DEF Firm, Anchor
  <2> QED  BY <2>1, <2>2
<1> QED  BY <1>5, <1>6, <1>7, <1>8 DEF Firm

LEMMA AnchorTrim ==
  ASSUME IInv, Concerned, NEW t \in Trims, Step(t), NEW v \in Units, Anchor(v)
  PROVE  Anchor(v)'
<1>1. DOMAIN tr = Trims /\ world \in Worlds /\ Plan(t) /\ Checked(t) /\ ~ Dir /\ ~ world.purge
  BY DEF IInv, Base, Concerned
<1>2. UNCHANGED <<world, ino, bd>>  BY <1>1, TrimFrame
<1>3. Here(v)'
  <2> SUFFICES ASSUME tr[t].pc = "remove", tr[t].job.unit = v, tr[t].job.file = "main" PROVE FALSE
    BY <1>1, TrimLeaves DEF Anchor
  <2>1. tr[t].job \in Jobs  BY <1>1 DEF Plan, Busy
  <2>2. tr[t].job.real = v  BY <1>1, <2>1 DEF Jobs
  <2>3. CASE Exe
    <3>1. Sole(v)  BY <1>1, <2>2, <2>3 DEF Checked, Expendable
    <3> QED  BY <2>3, <3>1 DEF Sole, Anchor, Firm
  <2>4. CASE ~ Exe
    <3>1. Kind = "obj"  BY <1>1, <2>4, WorldsAssumption DEF Exe, Dir, Kind
    <3> QED  BY <2>1, <2>4, <3>1 DEF Jobs, Anchor
  <2> QED  BY <2>3, <2>4
<1> QED  BY <1>2, <1>3 DEF Anchor, Exe, Kind, Firm, Making, Want

LEMMA ListedUnits ==
  ASSUME IInv, NEW t \in Trims
  PROVE  Listed(t) \subseteq Units
<1>1. Plan(t) /\ world \in Worlds  BY DEF IInv, Base
<1>2. Removals(tr[t].scan) \subseteq Units  BY <1>1, RemovalsFound DEF Plan
<1>3. Selected(t) \subseteq Units  BY <1>1, <1>2 DEF Selected, Plan
<1>4. \A i \in Queued(t) : tr[t].retry[i].unit \in Units
  BY <1>1 DEF Plan, Jobs, Queued
<1> QED  BY <1>3, <1>4 DEF Listed

\* What a step of another leaves alone.
LEMMA ListedSame ==
  ASSUME UNCHANGED world, NEW t \in Trims, tr'[t] = tr[t]
  PROVE  Listed(t)' = Listed(t)
<1>1. \A s : Removals(s)' = Removals(s)  BY DEF Removals, Kind, Dir
<1>2. Removing(t)' = Removing(t) /\ Queued(t)' = Queued(t) /\ Selected(t)' = Selected(t)
  BY <1>1 DEF Removing, Queued, Selected
<1> QED  BY <1>2 DEF Listed

LEMMA NoNewScan ==
  ASSUME DOMAIN tr = Trims, NEW t \in Trims, DOMAIN tr[t] = TrimFields, Step(t)
  PROVE  tr'[t].pc # "scan"
<1> USE DEF Goto, Begin, Idle, TrimFields
<1>1. ASSUME NEW ok, Ends(t, ok) PROVE tr'[t].pc # "scan"
  <2>1. Outcome(t, ok).pc \in {"credit", "next"}  BY DEF Outcome
  <2> QED  BY <1>1, <2>1 DEF Ends
<1>2. CASE LockFile(t) \/ Credit(t) \/ LockNext(t) \/ RemoveFiles(t) \/ ScanPool(t)
  BY <1>2 DEF LockFile, Credit, LockNext, RemoveFiles, ScanPool
<1>3. CASE LockFails(t) \/ Remove(t) \/ RemoveDir(t)
  BY <1>1, <1>3 DEF LockFails, Remove, RemoveDir
<1>4. CASE Restat(t)  BY <1>1, <1>4 DEF Restat
<1>5. CASE ListDir(t) \/ Rescan(t)
  <2>1. CASE ListDir(t)  BY <1>1, <2>1 DEF ListDir
  <2>2. CASE Rescan(t)  BY <1>1, <2>2 DEF Rescan
  <2> QED  BY <1>5, <2>1, <2>2
<1>6. CASE SelectRemovals(t) \/ SelectTemps(t) \/ SelectBudget(t)
  BY <1>6 DEF SelectRemovals, SelectTemps, SelectBudget
<1>7. CASE SelectOrphanDirs(t) \/ StartRetry(t) \/ StartBuckets(t)
  BY <1>7 DEF SelectOrphanDirs, StartRetry, StartBuckets
<1>8. CASE ReapBucket(t) \/ Finish(t) \/ BudgetMet(t)
  BY <1>8 DEF ReapBucket, Finish, BudgetMet
<1>9. CASE TakeItem(t)  BY <1>9 DEF TakeItem
<1>10. CASE TakeRetry(t)  BY <1>10 DEF TakeRetry
<1> QED  BY <1>2, <1>3, <1>4, <1>5, <1>6, <1>7, <1>8, <1>9, <1>10 DEF Step

\* While a second trim has yet to scan, only the first removes what is on a list.
LEMMA LeadTrim ==
  ASSUME IInv, Concerned, \A s \in Trims : Once(s), NEW t \in Trims, Step(t), ~ ScanPool(t),
         NEW k \in Units, Lead(k)
  PROVE  Lead(k)'
<1>1. DOMAIN tr = Trims /\ world \in Worlds /\ Plan(t) /\ ~ Dir /\ DOMAIN tr[t] = TrimFields
  BY DEF IInv, Base, Concerned, Plan
<1>2. UNCHANGED <<world, mtime>> /\ \A s \in Trims \ {t} : tr'[s] = tr[s]
  BY <1>1, TrimFrame
<1>3. Listed(t)' \subseteq Listed(t)  BY Shrinks
<1>4. \A s \in Trims \ {t} : Listed(s)' = Listed(s)  BY <1>2, ListedSame
<1>5. ASSUME NEW u \in Units, Here(u), ~ Here(u)'
      PROVE  u \in Listed(t) /\ u \notin Listed(t)'
  <2>1. tr[t].pc = "remove" /\ tr[t].job.unit = u /\ tr[t].job.file = "main"
    BY <1>1, <1>5, TrimLeaves
  <2>2. Remove(t)
    <3>1. ~ UNCHANGED leaves  BY <1>5 DEF Here
    <3> QED  BY <1>1, <2>1, <3>1, TrimFrame DEF RemoveFiles
  <2>3. u \notin Listed(t)'  BY <2>1, <2>2, Shrinks
  <2> QED  BY <2>1, <2>3 DEF Listed, Removing
<1>6. Here(k)' /\ \A s \in Trims : k \notin Listed(s)'
  BY <1>3, <1>4, <1>5 DEF Lead
<1>7. ASSUME NEW x \in Trims, tr'[x].pc = "scan", NEW s \in Trims, NEW u \in Listed(s)', Name(u)' = Name(k)'
      PROVE  Here(u)' /\ Ahead(k, u)'
  <2>1. x # t /\ tr[x].pc = "scan"  BY <1>1, <1>2, <1>7, NoNewScan
  <2>2. u \in Listed(s)  BY <1>3, <1>4
  <2>3. Name(u) = Name(k)  BY <1>2, <1>7 DEF Name, Exe, Kind
  <2>4. Here(u) /\ Ahead(k, u) /\ u \in Units  BY <2>1, <2>2, <2>3, ListedUnits DEF Lead
  <2>5. Here(u)'
    <3> SUFFICES ASSUME ~ Here(u)' PROVE FALSE  OBVIOUS
    <3>1. u \in Listed(t) /\ s # t  BY <1>5, <2>4
    <3>2. s # x  BY <1>1, <2>1, <2>2, Unlisted
    <3>3. s \in world.trims /\ t \in world.trims /\ x \in world.trims
      BY <1>1, <2>1, <2>2, <3>1, Unlisted DEF Once
    <3> QED  BY <1>1, <2>1, <3>1, <3>2, <3>3, TwoTrims
  <2> QED  BY <1>2, <2>4, <2>5 DEF Ahead
<1> QED  BY <1>6, <1>7 DEF Lead

\* What a build renews was of this moment, or is anchored by the build's link.
LEMMA LeadBuild ==
  ASSUME IInv, Concerned, mtime \in [Units -> 0..Now], \A x \in Builds : Newly(x), NEW b \in Builds, Build(b),
         NEW k \in Units, Lead(k), \A v \in Units : Name(v) = Name(k) => ~ Anchor(v)'
  PROVE  Lead(k)'
<1>1. /\ DOMAIN bd = Builds /\ DOMAIN bd[b] = BuildFields /\ bd[b].want \in Units /\ world.hard
  BY DEF IInv, Base, BuildInv, Concerned, NothingRenewed
<1>2. /\ UNCHANGED <<world, tr>> /\ \A y \in Builds \ {b} : bd'[y] = bd[y]
  BY <1>1, BuildFrame
<1>3. \A t \in Trims : Listed(t)' = Listed(t)  BY <1>2, ListedSame
<1>4. Here(k)'  BY BuildTimes DEF Lead
<1>5. ASSUME NEW x \in Trims, tr'[x].pc = "scan", NEW s \in Trims, NEW u \in Listed(s)', Name(u)' = Name(k)'
      PROVE  Here(u)' /\ Ahead(k, u)'
  <2>1. u \in Listed(s) /\ Name(u) = Name(k) /\ u \in Units /\ tr[x].pc = "scan"
    BY <1>2, <1>3, <1>5, ListedUnits DEF Name, Exe, Kind
  <2>2. Here(u) /\ Ahead(k, u) /\ u # k  BY <2>1 DEF Lead
  <2>3. Here(u)'  BY <2>1, <2>2, BuildTimes
  <2>4. mtime[k] \in 0..Now /\ mtime[u] \in 0..Now /\ mtime'[k] \in {mtime[k], Now}  BY <2>1, BuildTimes
  <2>5. mtime'[u] = mtime[u]
    <3> SUFFICES ASSUME mtime'[u] # mtime[u] PROVE FALSE  OBVIOUS
    <3>1. mtime'[u] = Now /\ u = Want(b) /\ (Rename(b) \/ PublishLink(b))  BY <2>1, BuildTimes
    <3>2. mtime[u] # Now  BY <3>1
    <3>3. \A y \in Builds : Making(y) => Want(y) # u  BY <2>2, <3>2 DEF Newly
    <3>4. PublishLink(b)  BY <3>1, <3>3 DEF Rename, Making
    <3>5. bd' = [bd EXCEPT ![b].pc = "manifest", ![b].user = <<"hard", ino[u]>>] /\ ino' = ino /\ bd[b].pc = "link"
      BY <1>1, <2>2, <3>1, <3>4 DEF PublishLink
    <3>6. bd'[b].pc = "manifest" /\ bd'[b].user = <<"hard", ino'[u]>>  BY <1>1, <3>5 DEF BuildFields
    <3>7. \A y \in Builds : Making(y)' => Want(y)' # u
      BY <1>2, <3>3, <3>6 DEF Making, Want
    <3>8. Firm(u)'  BY <3>6, <3>7 DEF Firm
    <3>9. Exe'  BY <1>2, <3>5 DEF Newly, Exe, Kind
    <3> QED  BY <2>1, <2>3, <3>8, <3>9 DEF Anchor
  <2>6. Ahead(k, u)'
    <3>1. Now \in Nat  BY DEF Now
    <3>2. CASE mtime'[k] = mtime[k]  BY <2>2, <2>5, <3>2 DEF Ahead
    <3>3. CASE mtime'[k] = Now /\ mtime[k] # Now  BY <2>2, <2>4, <2>5, <3>1, <3>3 DEF Ahead, Now
    <3> QED  BY <2>4, <3>2, <3>3
  <2> QED  BY <2>3, <2>6
<1>6. \A t \in Trims : k \notin Listed(t)'  BY <1>3 DEF Lead
<1> QED  BY <1>4, <1>5, <1>6 DEF Lead

LEMMA KeptStep ==
  ASSUME IInv, Concerned, mtime \in [Units -> 0..Now], \A t \in Trims : Once(t), \A b \in Builds : Newly(b),
         Next, NEW n, Kept(n)
  PROVE  Kept(n)'
<1>1. world' = world  BY SameWorld
<1>2. \A u \in Units : Name(u)' = Name(u)  BY <1>1 DEF Name, Exe, Kind
<1>3. PICK v \in Units : Name(v) = n /\ (Anchor(v) \/ Lead(v))  BY DEF Kept
<1>4. ASSUME NEW b \in Builds, Build(b) PROVE Kept(n)'
  <2>1. CASE Anchor(v)  BY <1>2, <1>3, <1>4, <2>1, AnchorBuild DEF Kept
  <2>2. CASE \E u \in Units : Name(u) = n /\ Anchor(u)'  BY <1>2, <2>2 DEF Kept
  <2>3. CASE Lead(v) /\ \A u \in Units : Name(u) = n => ~ Anchor(u)'
    BY <1>2, <1>3, <1>4, <2>3, LeadBuild DEF Kept
  <2> QED  BY <1>3, <2>1, <2>2, <2>3
<1>5. ASSUME NEW t \in Trims, Step(t) PROVE Kept(n)'
  <2>1. CASE \E u \in Units : Name(u) = n /\ Anchor(u)  BY <1>2, <1>5, <2>1, AnchorTrim DEF Kept
  <2>2. CASE Lead(v) /\ ~ ScanPool(t)  BY <1>2, <1>3, <1>5, <2>2, LeadTrim DEF Kept
  <2>3. CASE /\ Lead(v) /\ ScanPool(t)
             /\ \A u \in Units : Name(u) = n => ~ Anchor(u)
    <3>1. PICK k \in Units : /\ Name(k) = Name(v) /\ Here(k) /\ k \notin Listed(t)' /\ Listed(t)' \subseteq Found
                             /\ \A u \in Units : Name(u) = Name(v) /\ Here(u) /\ u # k => Ahead(k, u)
      BY <1>3, <2>3, ScanSpares DEF Lead
    <3>2. /\ UNCHANGED <<leaves, mtime>> /\ tr[t].pc = "scan"
          /\ \A s \in Trims \ {t} : tr'[s] = tr[s]
      BY <1>5, <2>3, TrimFrame DEF ScanPool, IInv, Base
    <3>3. \A s \in Trims \ {t} : Listed(s)' = Listed(s)  BY <1>1, <3>2, ListedSame
    <3>4. \A u : Here(u)' = Here(u)  BY <3>2 DEF Here
    <3>5. ASSUME NEW s \in Trims \ {t}, k \in Listed(s) PROVE FALSE
      <4>1. Ahead(v, k) /\ v # k /\ Here(v)  BY <2>3, <3>1, <3>2, <3>5 DEF Lead
      <4>2. Ahead(k, v)  BY <3>1, <4>1
      <4>3. mtime[k] \in 0..Now /\ mtime[v] \in 0..Now /\ k \in Nat /\ v \in Nat  BY UnitsAssumption
      <4> QED  BY <4>1, <4>2, <4>3 DEF Ahead, Now
    <3>6. ASSUME NEW s \in Trims, NEW u \in Listed(s)', Name(u)' = Name(k)'
          PROVE  Here(u)' /\ Ahead(k, u)'
      <4>1. u \in Units /\ Here(u) /\ u # k
        <5>1. CASE s = t  BY <3>1, <5>1 DEF Found
        <5>2. CASE s # t
          <6>1. u \in Listed(s) /\ u \in Units  BY <3>3, <5>2, ListedUnits
          <6>2. Name(u) = Name(v)  BY <1>2, <3>1, <3>6, <6>1
          <6> QED  BY <2>3, <3>2, <3>5, <5>2, <6>1, <6>2 DEF Lead
        <5> QED  BY <5>1, <5>2
      <4>2. Ahead(k, u)  BY <1>2, <3>1, <3>6, <4>1
      <4> QED  BY <3>2, <3>4, <4>1, <4>2 DEF Ahead
    <3>7. Lead(k)'  BY <3>1, <3>3, <3>4, <3>5, <3>6 DEF Lead
    <3> QED  BY <1>2, <1>3, <3>1, <3>7 DEF Kept
  <2> QED  BY <1>3, <2>1, <2>2, <2>3
<1> QED  BY <1>4, <1>5 DEF Next

LEMMA InitKept == Init => KeptInv
<1> SUFFICES ASSUME Init, Concerned PROVE KeptInv  BY DEF KeptInv
<1>1. world \in Worlds /\ mtime \in [Units -> 0..Now] /\ world.start = {"idle"}
  BY WorldsAssumption DEF Init, Concerned, NothingRenewed
<1>2. ASSUME NEW t \in Trims
      PROVE  /\ tr[t].pass = "siblings" /\ tr[t].scan.found = {} /\ tr[t].todo = {} /\ tr[t].retry = << >>
             /\ tr[t].pc = IF t \in world.trims THEN "scan" ELSE "done"
  BY DEF Init
<1>3. \A t \in Trims : Once(t)
  <2> SUFFICES ASSUME NEW t \in Trims PROVE Once(t)  OBVIOUS
  <2>1. /\ tr[t].pass = "siblings" /\ tr[t].scan.found = {} /\ tr[t].todo = {} /\ tr[t].retry = << >>
        /\ tr[t].pc = IF t \in world.trims THEN "scan" ELSE "done"
    BY <1>2
  <2>2. Queued(t) = {} /\ ~ Removing(t)  BY <2>1 DEF Queued, Removing
  <2> QED  BY <2>1, <2>2 DEF Once
<1>4. \A t \in Trims : Listed(t) = {}
  <2>1. \A t \in Trims : tr[t].pc = "scan" \/ t \notin world.trims  BY <1>2
  <2> QED  BY <1>1, <1>3, <2>1, Unlisted
<1>5. \A b \in Builds : Newly(b)
  <2>1. \A b \in Builds : bd[b].pc \in {"idle", "done"}  BY <1>1 DEF Init
  <2> QED  BY <2>1 DEF Newly, Making
<1>6. ASSUME NEW u \in Units \ world.absent, "main" \in world.files[u] PROVE Kept(Name(u))
  <2>1. Here(u)  BY <1>6 DEF Init, Here
  <2>2. Lead(u)  BY <1>4, <2>1 DEF Lead
  <2> QED  BY <2>2 DEF Kept
<1> QED  BY <1>1, <1>3, <1>5, <1>6 DEF KeptInv

LEMMA StepKept == IInv /\ KeptInv /\ [Next]_vars => KeptInv'
<1> SUFFICES ASSUME IInv, KeptInv, [Next]_vars, Concerned' PROVE KeptInv'
  BY DEF KeptInv
<1>1. world' = world  BY SameWorld
<1>2. Concerned  BY <1>1 DEF Concerned, NothingRenewed, Dir, Exe, Kind
<1>3. /\ mtime \in [Units -> 0..Now]
      /\ \A t \in Trims : Once(t)
      /\ \A b \in Builds : Newly(b)
      /\ \A u \in Units \ world.absent : "main" \in world.files[u] => Kept(Name(u))
  BY <1>2 DEF KeptInv
<1>4. \A u \in Units : Name(u)' = Name(u)  BY <1>1 DEF Name, Exe, Kind
<1>5. CASE Next
  <2>1. ASSUME NEW n, Kept(n) PROVE Kept(n)'  BY <1>2, <1>3, <1>5, <2>1, KeptStep
  <2>2. ASSUME NEW u \in Units \ world.absent, "main" \in world.files[u] PROVE Kept(Name(u))'
    <3>1. PICK n : n = Name(u)  OBVIOUS
    <3>2. Name(u)' = n  BY <1>4, <3>1
    <3>3. Kept(n)  BY <1>3, <2>2, <3>1
    <3>4. \E v \in Units : Name(v)' = n /\ (Anchor(v)' \/ Lead(v)')  BY <2>1, <3>3 DEF Kept
    <3> QED  BY <3>2, <3>4 DEF Kept
  <2>3. ASSUME NEW t \in Trims, Step(t)
        PROVE  /\ mtime' = mtime
               /\ \A x \in Trims : Once(x)'
               /\ \A b \in Builds : Newly(b)'
    <3>1. /\ DOMAIN tr = Trims /\ leaves \in [Units -> SUBSET Leaf] /\ ~ Dir
          /\ \A b \in Builds : bd[b].want \in Units
      BY <1>2 DEF IInv, Base, BuildInv, Concerned
    <3>2. UNCHANGED <<mtime, bd>> /\ \A x \in Trims \ {t} : tr'[x] = tr[x]  BY <2>3, <3>1, TrimFrame
    <3>3. Once(t)'  BY <1>2, <1>3, <2>3, Shrinks
    <3>4. \A x \in Trims \ {t} : Once(x)'
      BY <1>1, <1>3, <3>2 DEF Once, Queued, Removing
    <3>5. \A u \in Units : Here(u)' => Here(u)  BY <2>3, TrimLeaves DEF Here
    <3>6. \A b \in Builds : Newly(b)'
      BY <1>1, <1>3, <3>1, <3>2, <3>5 DEF Newly, Making, Want, Exe, Kind
    <3> QED  BY <3>2, <3>3, <3>4, <3>6
  <2>4. ASSUME NEW b \in Builds, Build(b)
        PROVE  /\ mtime' \in [Units -> 0..Now]
               /\ \A x \in Trims : Once(x)'
               /\ \A y \in Builds : Newly(y)'
    <3>1. tr' = tr  BY <2>4, BuildFrame DEF IInv, Base, BuildInv
    <3>2. \A x \in Trims : Once(x)'  BY <1>1, <1>3, <3>1 DEF Once, Queued, Removing
    <3> QED  BY <1>2, <1>3, <2>4, <3>2, BuildTimes, NewlyStep
  <2>5. /\ mtime' \in [Units -> 0..Now]
        /\ \A x \in Trims : Once(x)'
        /\ \A y \in Builds : Newly(y)'
    BY <1>3, <1>5, <2>3, <2>4 DEF Next
  <2>6. \A u \in (Units \ world.absent)' : "main" \in world.files[u]' => Kept(Name(u))'
    BY <1>1, <2>2
  <2> QED  BY <2>5, <2>6 DEF KeptInv
<1>6. CASE UNCHANGED vars
  <2>1. \A t \in Trims : Listed(t)' = Listed(t)  BY <1>1, <1>6, ListedSame DEF vars
  <2>2. ASSUME NEW u \in Units PROVE Anchor(u)' = Anchor(u) /\ Lead(u)' = Lead(u)
    <3>1. Anchor(u)' = Anchor(u)
      BY <1>1, <1>6 DEF vars, Anchor, Firm, Making, Want, Here, Exe, Kind
    <3>2. ASSUME NEW v PROVE Here(v)' = Here(v) /\ Ahead(u, v)' = Ahead(u, v) /\ Name(v)' = Name(v)
      BY <1>1, <1>6 DEF vars, Here, Ahead, Name, Exe, Kind
    <3>3. (\E t \in Trims : tr'[t].pc = "scan") <=> \E t \in Trims : tr[t].pc = "scan"
      BY <1>6 DEF vars
    <3>4. Lead(u)' = Lead(u)  BY <2>1, <3>2, <3>3 DEF Lead
    <3> QED  BY <3>1, <3>4
  <2>3. \A u \in Units \ world.absent : "main" \in world.files[u] => Kept(Name(u))'
    BY <1>3, <1>4, <2>2 DEF Kept
  <2>4. \A u \in (Units \ world.absent)' : "main" \in world.files[u]' => Kept(Name(u))'  BY <1>1, <2>3
  <2>5. \A t \in Trims : Once(t)'  BY <1>3, <1>6 DEF vars, Once, Queued, Removing
  <2>6. \A b \in Builds : Newly(b)'  BY <1>3, <1>6 DEF vars, Newly, Making, Want, Here, Exe, Kind
  <2>7. mtime' \in [Units -> 0..Now]  BY <1>3, <1>6 DEF vars
  <2> QED  BY <2>4, <2>5, <2>6, <2>7 DEF KeptInv
<1> QED  BY <1>5, <1>6

\* keep_count (trim_objdir, trim_exedir), where no budget is set and nothing is renewed:
\* objects, and executables of which at least one is kept, never lose their last entry of a
\* name, however many builds publish meanwhile and whatever two trims have scanned.
THEOREM TrimKeepsNewest ==
  Spec => [](~ Dir /\ ~ world.purge /\ (Exe => world.keep > 0) => NewestKept)
<1>1. KeptInv => (~ Dir /\ ~ world.purge /\ (Exe => world.keep > 0) => NewestKept)
  <2> SUFFICES ASSUME KeptInv, ~ Dir, ~ world.purge, Exe => world.keep > 0, world.max < 0,
                      Cardinality(world.trims) <= 2, NothingRenewed,
                      NEW u \in Units \ world.absent, "main" \in world.files[u]
               PROVE  \E v \in Units : Name(v) = Name(u) /\ Here(v)
    BY DEF NewestKept
  <2>1. Kept(Name(u))  BY DEF KeptInv, Concerned
  <2> QED  BY <2>1 DEF Kept, Anchor, Lead
<1> QED  BY <1>1, Invariance, InitKept, StepKept, PTL DEF Spec
===============================================================================
