------------------------------ MODULE TrimCache -------------------------------
(***************************************************************************)
(* ct-trim-cache at work on one cache pool (trim_cache.trim_one_variant),  *)
(* beside other trims and beside builds that make entries and publish them *)
(* (locking.atomic_compile and link, cas_publish.publish).                 *)
(*                                                                         *)
(* A unit is an object or an executable with its bucket directory, or a    *)
(* cmd_hash directory.  Its files: "main" is the artefact, "tmp" what a    *)
(* build is writing, "orphan" what a killed build left a day ago.  Each    *)
(* file has a lock, given here by an ideal FileLock.                       *)
(*                                                                         *)
(* A world says which pool and options a behaviour is about; the functions *)
(* below say what each pass selects.                                       *)
(***************************************************************************)
EXTENDS Integers, FiniteSets, FiniteSetsExt, Sequences

(***************************************************************************)
(* What ct-trim-cache keeps and what it removes: trim_cache.py's passes    *)
(* over one cache pool, as functions of the scan each of them starts with. *)
(*                                                                         *)
(* A unit is an object file, a linker artefact or a cmd_hash directory.    *)
(* A scan is a record: the units it found (`found`), and for each of them  *)
(* its mtime (`mt`), its bucket (`bucket`), its size (`size`) and its link *)
(* count (`links`).  Units are numbered in the order a scan meets them.    *)
(***************************************************************************)

\* Python's sort is stable: of two units of one age the scan's first comes first.
Newer(scan, u, v) == \/ scan.mt[u] > scan.mt[v]
                     \/ scan.mt[u] = scan.mt[v] /\ u < v
Older(scan, u, v) == \/ scan.mt[u] < scan.mt[v]
                     \/ scan.mt[u] = scan.mt[v] /\ u < v

\* The n newest units of S.
Newest(scan, S, n) == {u \in S : Cardinality({v \in S : Newer(scan, v, u)}) < n}

Group(scan, S, u) == {v \in S : scan.bucket[v] = scan.bucket[u]}

\* The n newest units of every bucket.
NewestPerBucket(scan, S, n) == UNION {Newest(scan, Group(scan, S, u), n) : u \in S}

\* Younger than --max-age; an age of 0 stands for no --max-age.
Young(scan, age, u) == age > 0 /\ scan.mt[u] >= age
------------------------------------------------------------------------------
\* Mutant: keep_count alone decides.
KeptByRank(scan, current, keep) == NewestPerBucket(scan, scan.found \ current, keep)

\* Objects of files the checkout has now are kept and not counted; of the others
\* the keep newest of a basename, and one even if keep is 0 when nothing else is left.
KeptObjects(scan, current, keep) ==
  LET noncurrent == scan.found \ current
      Alone(u)   == Group(scan, scan.found, u) \cap current = {}
  IN  NewestPerBucket(scan, noncurrent, keep)
      \cup {u \in NewestPerBucket(scan, noncurrent, 1) : keep = 0 /\ Alone(u)}

ObjectRemovals(scan, current, keep, age) ==
  {u \in (scan.found \ current) \ KeptObjects(scan, current, keep) : ~ Young(scan, age, u)}

\* Precompiled headers and modules: kept by rank or by age, unless a header they
\* were made from has changed.
DirRemovals(scan, stale, keep, age) ==
  LET needed == NewestPerBucket(scan, scan.found, keep)
                \cup {u \in scan.found : Young(scan, age, u)}
  IN  scan.found \ (needed \ stale)

\* Linker artefacts: kept by rank, by age or by a second link.
ExeRemovals(scan, keep, age) ==
  {u \in scan.found \ NewestPerBucket(scan, scan.found, keep) :
     ~ Young(scan, age, u) /\ scan.links[u] <= 1}

\* --purge-ca-siblings: the cold names of an entry that another name leads to.
ColdSiblings(scan, real, age) ==
  {u \in scan.found : /\ real[u] \in scan.found \ {u}
                      /\ scan.ino[u] = scan.ino[real[u]]
                      /\ ~ Young(scan, age, u)}

\* A sibling that was removed no longer counts as a link of the real entry.
DropRecordedLink(scan, r) ==
  [scan EXCEPT !.links[r] = IF r \in scan.found THEN Max({1, @ - 1}) ELSE @]
------------------------------------------------------------------------------
\* --max-size: the whole pool counts, the protected units too.
TotalSize(scan) == MapThenSumSet(LAMBDA u : scan.size[u], scan.found)

\* Evictions are the unprotected units, oldest first.
NextEviction(scan, left) == CHOOSE u \in left : \A v \in left \ {u} : Older(scan, u, v)

Protected(scan, kind, current) ==
  CASE kind = "obj" -> scan.found \cap current
    [] kind = "exe" -> {u \in scan.found : scan.links[u] > 1}
    [] OTHER        -> {}
------------------------------------------------------------------------------

CONSTANTS Units,     \* entries, numbered in scan order
          Trims,     \* ct-trim-cache processes
          Builds,    \* builds, each wants one entry
          Worlds,    \* pools and options
          Order      \* the order a directory's files are listed in

ASSUME UnitsAssumption == Units \subseteq Nat /\ IsFiniteSet(Units)
ASSUME ActorsAssumption == /\ IsFiniteSet(Builds) /\ Builds \cap (Units \cup Trims) = {}
                           /\ "free" \notin Trims \cup Builds

Now == 9

\* What the proofs use of a world.  Only executables have siblings; the entry a sibling
\* belongs to is no sibling (_ca_sibling_real_entry parses the name); and a sibling is
\* reclaimed only when cold, so no build still waits that found the pair not yet made.
ASSUME WorldsAssumption ==
  \A w \in Worlds :
    /\ w.kind \in {"obj", "exe", "dir"} /\ w.known \subseteq Units
    /\ w.mtime \in [Units -> 0..Now] /\ w.keep \in Nat /\ w.max \in Int /\ IsFiniteSet(w.trims)
    /\ w.files \in [Units -> SUBSET {"main", "tmp", "orphan"}] /\ w.real \in [Units -> Units]
    /\ w.wanted \subseteq Units /\ w.start \subseteq {"idle", "lock"}
    /\ w.purge => /\ w.kind = "exe" /\ w.start = {"idle"}
                  /\ \A u \in Units : w.real[w.real[u]] = w.real[u]

\* Every file a directory may hold is listed.
ASSUME OrderAssumption == {"main", "tmp", "orphan"} \subseteq {Order[n] : n \in 1..Len(Order)}

VARIABLES world, \* the pool and the options of this behaviour
          dirs,  \* directories that exist
          leaves,\* files of each unit
          ino,   \* the inode each entry's name leads to
          mtime, \* when it was last written or freshened
          known, \* executables whose .manifest names their source
          lock,  \* who holds each file's lock
          tr,    \* the trims
          bd     \* the builds

vars == <<world, dirs, leaves, ino, mtime, known, lock, tr, bd>>

Leaf == {"main", "tmp", "orphan"}
Inode == Units \cup Builds
Free == "free"
Kind == world.kind
Dir == Kind = "dir"
Exe == Kind = "exe"
Here(u) == "main" \in leaves[u]

\* Names that lead to an inode: cache entries and hard links of builds.
Links(i) == Cardinality({u \in Units : Here(u) /\ ino[u] = i})
            + Cardinality({b \in Builds : bd[b].user = <<"hard", i>>})

\* Executables of one source, or of one name when no manifest says which.
BucketOf(u) == IF Exe /\ u \notin known THEN "name" ELSE world.bucket[u]

ScanOf(S) == [found  |-> S,
              mt     |-> mtime,
              bucket |-> [u \in Units |-> BucketOf(u)],
              size   |-> world.size,
              ino    |-> ino,
              links  |-> [u \in Units |-> Links(ino[u])]]

TypeOK ==
  /\ world \in Worlds /\ dirs \subseteq Units /\ known \subseteq Units
  /\ leaves \in [Units -> SUBSET Leaf]
  /\ ino \in [Units -> Inode] /\ mtime \in [Units -> 0..Now]
  /\ lock \in [Units \X Leaf -> Trims \cup Builds \cup {Free}]
  /\ \A t \in Trims : tr[t].todo \subseteq Units /\ tr[t].unmet \in Nat
  /\ \A b \in Builds : bd[b].want \in Units

Init ==
  /\ world \in Worlds
  /\ dirs = Units
  /\ leaves = [u \in Units |-> IF u \in world.absent THEN {} ELSE world.files[u]]
  /\ ino = [u \in Units |-> IF world.purge THEN world.real[u] ELSE u]
  /\ mtime = world.mtime
  /\ known = world.known
  /\ lock = [f \in Units \X Leaf |-> Free]
  /\ tr = [t \in Trims |->
             [pc |-> IF t \in world.trims THEN "scan" ELSE "done", pass |-> "siblings",
              scan |-> [found |-> {}], todo |-> {}, job |-> [by |-> "none"], seen |-> {},
              total |-> 0, unmet |-> 0, retry |-> <<>>]]
  /\ \E want \in [Builds -> world.wanted], user \in [Builds -> world.users], pc \in world.start :
       bd = [b \in Builds |-> [pc |-> IF b \in world.builds THEN pc ELSE "done",
                               want |-> want[b], user |-> user[b]]]
------------------------------------------------------------------------------
(* One removal: _safe_locked_unlink, _safe_locked_rmtree and their bookkeeping. *)

Job(t) == tr[t].job
Unlocked(p) == [f \in Units \X Leaf |-> IF lock[f] = p THEN Free ELSE lock[f]]

\* What follows an attempt.  A failed one is queued for retry_failed once; a budget
\* eviction that failed stays in the total and is taken out of the unmet when its
\* retry succeeds.  An artefact that went takes its sidecars with it ("credit").
Outcome(t, ok) ==
  LET r    == tr[t]
      size == world.size[r.job.unit]
  IN  [r EXCEPT
        !.pc    = IF ok /\ Exe /\ r.job.file = "main" THEN "credit" ELSE "next",
        !.seen  = {},
        !.total = IF ok /\ r.pass = "budget" THEN @ - size ELSE @,
        !.unmet = IF ok /\ r.pass = "retry" /\ r.job.by = "budget"
                  THEN Max({0, @ - size}) ELSE @,
        !.retry = IF ~ ok /\ r.pass # "retry" THEN Append(@, r.job) ELSE @,
        !.scan  = IF ok /\ r.pass = "siblings"
                  THEN DropRecordedLink(@, r.job.real) ELSE @]

\* Mutant: a removal that was refused keeps its locks.
EndsHolding(t, ok) == /\ tr' = [tr EXCEPT ![t] = Outcome(t, ok)]
                      /\ lock' = IF ok THEN Unlocked(t) ELSE lock

Ends(t, ok) == /\ tr' = [tr EXCEPT ![t] = Outcome(t, ok)]
               /\ lock' = Unlocked(t)

Goto(t, l) == tr' = [tr EXCEPT ![t].pc = l]

LockFile(t) ==
  /\ tr[t].pc = "lock" /\ Job(t).file # "dir"
  /\ lock[<<Job(t).unit, Job(t).file>>] = Free
  /\ lock' = [lock EXCEPT ![<<Job(t).unit, Job(t).file>>] = t]
  /\ Goto(t, "stat")
  /\ UNCHANGED <<world, dirs, leaves, ino, mtime, known, bd>>

\* The lock cannot be had: the file is left alone.
LockFails(t) ==
  /\ world.faults /\ tr[t].pc \in {"lock", "lockall"}
  /\ Ends(t, FALSE)
  /\ UNCHANGED <<world, dirs, leaves, ino, mtime, known, bd>>

\* Mutant: the link count of the scan is trusted.
RestatSkipped(t) == /\ tr[t].pc = "stat"
                    /\ Goto(t, "remove")
                    /\ UNCHANGED <<world, dirs, leaves, ino, mtime, known, lock, bd>>

\* Under the lock: is it still there, is it still the same inode as the real entry
\* (require_same_inode_as), does it still have one link (skip_if_nlink_above)?
Restat(t) ==
  /\ tr[t].pc = "stat"
  /\ LET u == Job(t).unit
         r == Job(t).real
         gone    == Job(t).file \notin leaves[u]
         refused == \/ r # u /\ ~ (Here(r) /\ ino[r] = ino[u])
                    \/ Exe /\ Job(t).file = "main" /\ r = u /\ Links(ino[u]) > 1
     IN  IF gone \/ refused THEN Ends(t, gone)
                            ELSE Goto(t, "remove") /\ UNCHANGED lock
  /\ UNCHANGED <<world, dirs, leaves, ino, mtime, known, bd>>

Remove(t) ==
  /\ tr[t].pc = "remove"
  /\ leaves' = [leaves EXCEPT ![Job(t).unit] = @ \ {Job(t).file}]
  /\ Ends(t, TRUE)
  /\ UNCHANGED <<world, dirs, ino, mtime, known, bd>>

\* credit_success: the sidecars of an artefact go after its lock was released.
Credit(t) ==
  /\ tr[t].pc = "credit"
  /\ known' = known \ {Job(t).unit}
  /\ Goto(t, "next")
  /\ UNCHANGED <<world, dirs, leaves, ino, mtime, lock, bd>>

\* _safe_locked_rmtree lists the directory's files ...
ListDir(t) ==
  /\ tr[t].pc = "lock" /\ Job(t).file = "dir"
  /\ IF Job(t).unit \in dirs
     THEN /\ tr' = [tr EXCEPT ![t].pc = "lockall", ![t].seen = leaves[Job(t).unit]]
          /\ UNCHANGED lock
     ELSE Ends(t, TRUE)
  /\ UNCHANGED <<world, dirs, leaves, ino, mtime, known, bd>>

\* Mutant: only the first file is locked.
UnheldFirst(t) == {n \in 1..Len(Order) : /\ Order[n] \in tr[t].seen
                                         /\ \A f \in Leaf : lock[<<Job(t).unit, f>>] # t}

\* ... locks them one after the other ...
Unheld(t) == {n \in 1..Len(Order) : /\ Order[n] \in tr[t].seen
                                    /\ lock[<<Job(t).unit, Order[n]>>] # t}
LockNext(t) ==
  /\ tr[t].pc = "lockall" /\ Unheld(t) # {}
  /\ LET f == <<Job(t).unit, Order[Min(Unheld(t))]>>
     IN  lock[f] = Free /\ lock' = [lock EXCEPT ![f] = t]
  /\ UNCHANGED <<world, dirs, leaves, ino, mtime, known, tr, bd>>

\* ... lists it again, and gives up if a file has appeared ...
Rescan(t) ==
  /\ tr[t].pc = "lockall" /\ Unheld(t) = {}
  /\ LET u == Job(t).unit
     IN  CASE u \notin dirs -> Ends(t, TRUE)
           [] u \in dirs /\ ~ leaves[u] \subseteq tr[t].seen -> Ends(t, FALSE)
           [] OTHER -> Goto(t, "rmtree") /\ UNCHANGED lock
  /\ UNCHANGED <<world, dirs, leaves, ino, mtime, known, bd>>

\* ... and removes what is there, then the directory if it is empty.
RemoveFiles(t) ==
  /\ tr[t].pc = "rmtree"
  /\ leaves' = [leaves EXCEPT ![Job(t).unit] = {}]
  /\ Goto(t, "rmdir")
  /\ UNCHANGED <<world, dirs, ino, mtime, known, lock, bd>>

RemoveDir(t) ==
  /\ tr[t].pc = "rmdir"
  /\ LET u == Job(t).unit
     IN  /\ dirs' = IF leaves[u] = {} THEN dirs \ {u} ELSE dirs
         /\ Ends(t, leaves[u] = {})
  /\ UNCHANGED <<world, leaves, ino, mtime, known, bd>>
------------------------------------------------------------------------------
(* The passes of trim_one_variant, each over what it finds when it starts. *)

Found == {u \in Units : Here(u)}
Idle(t, pass) == tr[t].pc = "next" /\ tr[t].pass = pass /\ tr[t].todo = {}

Begin(t, pass, todo) ==
  tr' = [tr EXCEPT ![t].pc = "next", ![t].pass = pass, ![t].todo = todo]

\* _reclaim_ca_siblings: their names leave the scan whether or not they can be removed.
ScanPool(t) ==
  /\ tr[t].pc = "scan"
  /\ LET scan == ScanOf(Found)
         sibs == IF world.purge THEN ColdSiblings(scan, world.real, world.age) ELSE {}
     IN  tr' = [tr EXCEPT ![t].pc = "next", ![t].todo = sibs,
                          ![t].scan = [scan EXCEPT !.found = @ \ sibs]]
  /\ UNCHANGED <<world, dirs, leaves, ino, mtime, known, lock, bd>>

Removals(scan) ==
  CASE Kind = "obj" -> ObjectRemovals(scan, world.current, world.keep, world.age)
    [] Kind = "exe" -> ExeRemovals(scan, world.keep, world.age)
    [] Dir          -> DirRemovals(scan, world.stale, world.keep, world.age)

SelectRemovals(t) ==
  /\ Idle(t, "siblings")
  /\ Begin(t, "trim", Removals(tr[t].scan))
  /\ UNCHANGED <<world, dirs, leaves, ino, mtime, known, lock, bd>>

\* reclaim_orphan_temps: a day old, so no build is writing them.
SelectTemps(t) ==
  /\ Idle(t, "trim")
  /\ Begin(t, "temps", {u \in Units : "orphan" \in leaves[u]})
  /\ UNCHANGED <<world, dirs, leaves, ino, mtime, known, lock, bd>>

\* enforce_budget: a cmd_hash directory counts whatever it holds.
SelectBudget(t) ==
  /\ Idle(t, "temps")
  /\ LET scan == ScanOf(IF Dir THEN dirs ELSE Found)
         over == world.max >= 0 /\ TotalSize(scan) > world.max
     IN  tr' = [tr EXCEPT ![t].pass = "budget",
                  ![t].scan  = scan,
                  ![t].total = IF world.max >= 0 THEN TotalSize(scan) ELSE 0,
                  ![t].todo  = IF over THEN scan.found \ Protected(scan, Kind, world.current)
                                       ELSE {}]
  /\ UNCHANGED <<world, dirs, leaves, ino, mtime, known, lock, bd>>

Overflow(t) == IF world.max >= 0 THEN Max({0, tr[t].total - world.max}) ELSE 0

\* reclaim_orphan_cmd_hash_dirs: no artefact, and nothing younger than a day.
SelectOrphanDirs(t) ==
  /\ Idle(t, "budget") /\ Dir
  /\ tr' = [tr EXCEPT ![t].pass = "orphandirs", ![t].unmet = Overflow(t),
              ![t].todo  = {u \in dirs : leaves[u] \subseteq {"orphan"} /\ mtime[u] = 0}]
  /\ UNCHANGED <<world, dirs, leaves, ino, mtime, known, lock, bd>>

StartRetry(t) ==
  /\ Idle(t, IF Dir THEN "orphandirs" ELSE "budget")
  /\ tr' = [tr EXCEPT ![t].pass = "retry", ![t].unmet = IF Dir THEN @ ELSE Overflow(t)]
  /\ UNCHANGED <<world, dirs, leaves, ino, mtime, known, lock, bd>>

StartBuckets(t) ==
  /\ Idle(t, "retry") /\ tr[t].retry = <<>> /\ ~ Dir
  /\ Begin(t, "buckets", dirs)
  /\ UNCHANGED <<world, dirs, leaves, ino, mtime, known, lock, bd>>

\* _reap_empty_buckets: rmdir fails when a file or a lock is in the bucket.
ReapBucket(t) ==
  /\ tr[t].pass = "buckets" /\ tr[t].pc = "next"
  /\ \E u \in tr[t].todo :
       /\ tr' = [tr EXCEPT ![t].todo = @ \ {u}]
       /\ dirs' = IF leaves[u] = {} /\ \A f \in Leaf : lock[<<u, f>>] = Free
                  THEN dirs \ {u} ELSE dirs
  /\ UNCHANGED <<world, leaves, ino, mtime, known, lock, bd>>

Finish(t) == /\ Idle(t, IF Dir THEN "retry" ELSE "buckets") /\ tr[t].retry = <<>>
             /\ Goto(t, "done")
             /\ UNCHANGED <<world, dirs, leaves, ino, mtime, known, lock, bd>>

FileOf(pass) == CASE pass = "temps" -> "orphan"
                  [] Dir            -> "dir"
                  [] OTHER          -> "main"

\* The budget pass takes the oldest and stops as soon as the total fits.
TakeItem(t) ==
  /\ tr[t].pc = "next" /\ tr[t].pass # "buckets"
  /\ \E u \in tr[t].todo :
       /\ tr[t].pass = "budget" => /\ tr[t].total > world.max
                                   /\ u = NextEviction(tr[t].scan, tr[t].todo)
       /\ tr' = [tr EXCEPT ![t].pc = "lock", ![t].todo = @ \ {u},
                  ![t].job = [unit |-> u, file |-> FileOf(tr[t].pass), by |-> tr[t].pass,
                              real |-> IF tr[t].pass = "siblings" THEN world.real[u] ELSE u]]
  /\ UNCHANGED <<world, dirs, leaves, ino, mtime, known, lock, bd>>

BudgetMet(t) ==
  /\ tr[t].pc = "next" /\ tr[t].pass = "budget" /\ tr[t].todo # {}
  /\ tr[t].total <= world.max
  /\ tr' = [tr EXCEPT ![t].todo = {}]
  /\ UNCHANGED <<world, dirs, leaves, ino, mtime, known, lock, bd>>

\* retry_failed: every queued removal once more.
TakeRetry(t) ==
  /\ Idle(t, "retry") /\ tr[t].retry # <<>>
  /\ tr' = [tr EXCEPT ![t].pc = "lock", ![t].job = Head(tr[t].retry),
                      ![t].retry = Tail(tr[t].retry)]
  /\ UNCHANGED <<world, dirs, leaves, ino, mtime, known, lock, bd>>
------------------------------------------------------------------------------
(* A build makes its entry and publishes it; when either fails it is run again. *)

Want(b) == bd[b].want
MainLock(b) == <<Want(b), "main">>
BGoto(b, l) == bd' = [bd EXCEPT ![b].pc = l]
After == IF Exe THEN "publish" ELSE "done"

\* The directory is an order-only prerequisite, made before the entry is looked for.
Mkdir(b) == /\ bd[b].pc = "idle"
            /\ dirs' = dirs \cup {Want(b)}
            /\ mtime' = IF Dir /\ Want(b) \notin dirs THEN [mtime EXCEPT ![Want(b)] = Now]
                                                     ELSE mtime
            /\ BGoto(b, "check")
            /\ UNCHANGED <<world, leaves, ino, known, lock, tr>>

Check(b) == /\ bd[b].pc = "check"
            /\ BGoto(b, IF Here(Want(b)) THEN After ELSE "lock")
            /\ UNCHANGED <<world, dirs, leaves, ino, mtime, known, lock, tr>>

\* The lock's own file is in the directory, which may be gone.
Acquire(b) ==
  /\ bd[b].pc \in {"lock", "publish"}
  /\ IF Want(b) \in dirs
     THEN /\ lock[MainLock(b)] = Free
          /\ lock' = [lock EXCEPT ![MainLock(b)] = b]
          /\ BGoto(b, IF bd[b].pc = "lock" THEN "open" ELSE "link")
     ELSE BGoto(b, "idle") /\ UNCHANGED lock
  /\ UNCHANGED <<world, dirs, leaves, ino, mtime, known, tr>>

\* skip_if_exists; the native command compiles all the same.
Skip(b) == /\ bd[b].pc = "open" /\ Here(Want(b))
           /\ lock' = Unlocked(b)
           /\ BGoto(b, After)
           /\ UNCHANGED <<world, dirs, leaves, ino, mtime, known, tr>>

Open(b) ==
  /\ bd[b].pc = "open"
  /\ IF Want(b) \in dirs
     THEN /\ leaves' = [leaves EXCEPT ![Want(b)] = @ \cup {"tmp"}]
          /\ mtime' = IF Dir THEN [mtime EXCEPT ![Want(b)] = Now] ELSE mtime
          /\ BGoto(b, "rename") /\ UNCHANGED lock
     ELSE BGoto(b, "idle") /\ lock' = Unlocked(b) /\ UNCHANGED <<leaves, mtime>>
  /\ UNCHANGED <<world, dirs, ino, known, tr>>

\* The temp file becomes the entry; the compile fails when it is gone.
Rename(b) ==
  /\ bd[b].pc = "rename"
  /\ IF "tmp" \in leaves[Want(b)]
     THEN /\ leaves' = [leaves EXCEPT ![Want(b)] = (@ \ {"tmp"}) \cup {"main"}]
          /\ ino' = [ino EXCEPT ![Want(b)] = b]
          /\ mtime' = [mtime EXCEPT ![Want(b)] = Now]
          /\ BGoto(b, After)
     ELSE BGoto(b, "idle") /\ UNCHANGED <<leaves, ino, mtime>>
  /\ lock' = Unlocked(b)
  /\ UNCHANGED <<world, dirs, known, tr>>

\* cas_publish.publish, under the entry's lock: ConcurrentTrimError when it is gone;
\* a hard link where the file system allows one, a symlink where it does not.
PublishLink(b) ==
  /\ bd[b].pc = "link"
  /\ IF Here(Want(b))
     THEN /\ mtime' = [mtime EXCEPT ![Want(b)] = Now]
          /\ bd' = [bd EXCEPT ![b].pc = "manifest",
                     ![b].user = IF world.hard THEN <<"hard", ino[Want(b)]>>
                                               ELSE <<"sym", Want(b)>>]
          /\ UNCHANGED lock
     ELSE BGoto(b, "idle") /\ lock' = Unlocked(b) /\ UNCHANGED mtime
  /\ UNCHANGED <<world, dirs, leaves, ino, known, tr>>

PublishManifest(b) ==
  /\ bd[b].pc = "manifest"
  /\ known' = known \cup {Want(b)}
  /\ lock' = Unlocked(b)
  /\ BGoto(b, "done")
  /\ UNCHANGED <<world, dirs, leaves, ino, mtime, tr>>

Step(t) == \/ LockFile(t) \/ LockFails(t) \/ Restat(t) \/ Remove(t) \/ Credit(t)
           \/ ListDir(t) \/ LockNext(t) \/ Rescan(t) \/ RemoveFiles(t) \/ RemoveDir(t)
           \/ ScanPool(t) \/ SelectRemovals(t) \/ SelectTemps(t) \/ SelectBudget(t)
           \/ SelectOrphanDirs(t) \/ StartRetry(t) \/ StartBuckets(t) \/ ReapBucket(t)
           \/ Finish(t) \/ TakeItem(t) \/ BudgetMet(t) \/ TakeRetry(t)

Build(b) == \/ Mkdir(b) \/ Check(b) \/ Acquire(b) \/ Skip(b) \/ Open(b) \/ Rename(b)
            \/ PublishLink(b) \/ PublishManifest(b)

Next == (\E t \in Trims : Step(t)) \/ (\E b \in Builds : Build(b))

Spec == Init /\ [][Next]_vars

\* A process that can take a step takes one: nobody steps in the way of a lock for ever.
FairSpec == /\ Spec
            /\ \A t \in Trims : WF_vars(Step(t))
            /\ \A b \in Builds : WF_vars(Build(b))
------------------------------------------------------------------------------
Removed(u) == Here(u) /\ "main" \notin leaves'[u]

\* However long a trim holds on to what it has scanned, it never removes an object of
\* a file this checkout has now, nor the last name in the pool of an executable that
\* is published by a hard link ("Hard-link safety", trim_exedir; "publish and trim
\* are totally ordered on any given CAS entry", cas_publish).
ProtectedNeverRemoved ==
  [][\A u \in Units : Removed(u) =>
       /\ Kind = "obj" => u \notin world.current
       /\ Exe => \/ Links(ino[u]) = 1
                 \/ \E v \in Units \ {u} : Here(v) /\ ino[v] = ino[u]]_vars

\* "to avoid deleting files that a concurrent build is currently writing"
\* (_safe_locked_rmtree): the temp file of a build that holds its entry's lock goes
\* only by the build's own rename ...
Robbed(b) == /\ bd[b].pc = "rename" /\ lock[MainLock(b)] = b
             /\ "tmp" \in leaves[Want(b)] /\ "tmp" \notin leaves'[Want(b)]
             /\ bd'[b].pc = "rename"

\* ... which holds of every file but those of a directory without an artefact: a trim
\* that listed an artefact has its lock, and the build is not writing.
LockedIsSpared ==
  [][\A b \in Builds : Robbed(b) =>
       \E t \in Trims : tr[t].pc = "rmtree" /\ "main" \notin tr[t].seen]_vars

\* keep_count: where no budget is set, every basename (every header, every executable
\* name) that had an entry still has one, whatever a trim or two and builds do meanwhile.
\* The age and rank a trim acts upon are those of its scan, so this asks that no build
\* renew an entry meanwhile, by writing it again or by a symlink to it; that no third
\* trim rank an entry by a rebuilt one that the first still has on its list; and that
\* no directory without an artefact outrank one that has it (README).
NothingRenewed == world.hard /\ world.start = {"idle"}
NoEmptyRival ==
  Dir => \A u, v \in Units \ world.absent :
           world.bucket[u] = world.bucket[v] /\ u # v => "main" \in world.files[u]
Name(u) == IF Exe THEN "name" ELSE world.bucket[u]
NewestKept ==
  /\ world.max < 0 /\ world.stale = {} /\ Cardinality(world.trims) <= 2
  /\ NothingRenewed /\ NoEmptyRival
  => \A u \in Units \ world.absent :
       "main" \in world.files[u] => \E v \in Units : Name(v) = Name(u) /\ Here(v)

\* Trims and builds wait for each other's locks and none waits for ever; a build that
\* lost its entry to a trim is run again and gets it in the end.
EveryoneEnds == <>(/\ \A t \in Trims : tr[t].pc = "done"
                   /\ \A b \in Builds : bd[b].pc = "done")
==============================================================================
