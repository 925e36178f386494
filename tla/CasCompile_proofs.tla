--------------------------- MODULE CasCompile_proofs ---------------------------
(***************************************************************************)
(* The property the cache rests on, for any number of processes, readers   *)
(* and chunks, and WHATEVER THE LOCK DOES: when no two processes share a   *)
(* temp name (atomic_compile, atomic_link, one native flock command), no   *)
(* reader ever sees a torn entry and no process leaves anything behind a   *)
(* lock it released.                                                       *)
(***************************************************************************)
EXTENDS SidecarCompile, TLAPS

\* Only one process uses the temp name the native commands share.
OneNative == \A p, q \in Natives : p = q

LEMMA OwnTemp ==
  ASSUME OneNative, NEW p \in Procs, NEW q \in Procs, TempOf(p) = TempOf(q)
  PROVE  p = q
  BY ProcsAssumption DEF OneNative, TempOf

LEMMA TempIsName == ASSUME NEW p \in Procs  PROVE TempOf(p) \in TempNames
  BY DEF TempNames

\* Inode i can be read: the entry leads to it, or a linker has it open.
Published(i) == target = i \/ \E r \in Readers : rd[r] = i

\* What a process may have in flight at each point of atomic_compile.
ProcInv(p) ==
  /\ temp[TempOf(p)] \in {None, p} /\ out[p] \in {None, p}
  /\ out[p] # None => child[p] = "writing"
  /\ child[p] # "none" => pc[p] \in {"waiting", "dead"}
  /\ child[p] = "ok" => Whole(p)
  /\ pc[p] = "rename" => Whole(p)
  /\ pc[p] \in {"start", "locked", "release", "done"} => temp[TempOf(p)] = None
  /\ pc[p] \in {"start", "done"} => p \notin holders
  /\ Published(p) => /\ Whole(p) /\ child[p] = "none"
                     /\ pc[p] \in {"cleanup", "release", "done", "dead"}

\* The inductive invariant.
CInv == TypeOK /\ \A p \in Procs : ProcInv(p)

LEMMA InitCInv == ASSUME OneNative  PROVE Init => CInv
  <1> USE ProcsAssumption, OwnTemp, TempIsName DEF Inode
  <1> QED  BY DEF Init, CInv, TypeOK, ProcInv, Published

LEMMA StepCInv == ASSUME OneNative, CInv, [Next]_vars  PROVE CInv'
  <1> USE ProcsAssumption, OwnTemp, TempIsName DEF Inode, Goto
  <1>1. ASSUME NEW p \in Procs, Acquire(p) \/ Skip(p) \/ Spawn(p)  PROVE CInv'
    BY <1>1 DEF CInv, TypeOK, ProcInv, Published, Whole, Acquire, Skip, Spawn
  <1>2. ASSUME NEW p \in Procs, ChildOpen(p)  PROVE CInv'
    <2>1. /\ temp' = [temp EXCEPT ![TempOf(p)] = p] /\ out' = [out EXCEPT ![p] = p]
          /\ data' = [data EXCEPT ![p] = {}]
      BY <1>2 DEF ChildOpen, CInv, ProcInv, TypeOK
    <2>2. TypeOK'
      BY <1>2, <2>1 DEF ChildOpen, CInv, TypeOK
    <2>3. ASSUME NEW q \in Procs  PROVE ProcInv(q)'
      BY <1>2, <2>1 DEF ChildOpen, CInv, TypeOK, ProcInv, Published, Whole
    <2> QED  BY <2>2, <2>3 DEF CInv
  <1>3. ASSUME NEW p \in Procs, ChildWrite(p)  PROVE CInv'
    <2>1. PICK c \in Chunks : data' = [data EXCEPT ![p] = @ \cup {c}]
      BY <1>3 DEF ChildWrite, CInv, ProcInv, TypeOK
    <2>2. TypeOK'
      BY <1>3, <2>1 DEF ChildWrite, CInv, TypeOK
    <2>3. ASSUME NEW q \in Procs  PROVE ProcInv(q)'
      BY <1>3, <2>1 DEF ChildWrite, CInv, TypeOK, ProcInv, Published, Whole
    <2> QED  BY <2>2, <2>3 DEF CInv
  <1>4. ASSUME NEW p \in Procs, ChildExit(p) \/ ChildFail(p)  PROVE CInv'
    BY <1>4 DEF CInv, TypeOK, ProcInv, Published, Whole, ChildExit, ChildFail
  <1>5. ASSUME NEW p \in Procs, Reap(p) \/ Cleanup(p) \/ Release(p)  PROVE CInv'
    BY <1>5 DEF CInv, TypeOK, ProcInv, Published, Whole, Reap, Cleanup, Release
  <1>6. ASSUME NEW p \in Procs, Rename(p)  PROVE CInv'
    <2>1. TypeOK'
      BY <1>6 DEF Rename, CInv, TypeOK
    <2>2. ASSUME NEW q \in Procs  PROVE ProcInv(q)'
      BY <1>6 DEF Rename, CInv, TypeOK, ProcInv, Published, Whole
    <2> QED  BY <2>1, <2>2 DEF CInv
  <1>7. ASSUME NEW p \in Procs, Crash(p) \/ OrphanEnds(p)  PROVE CInv'
    BY <1>7 DEF CInv, TypeOK, ProcInv, Published, Whole, Crash, OrphanEnds
  <1>8. CASE Evict
    BY <1>8 DEF CInv, TypeOK, ProcInv, Published, Whole, Evict
  <1>9. ASSUME NEW r \in Readers, Open(r) \/ Close(r)  PROVE CInv'
    <2>1. TypeOK'
      BY <1>9 DEF Open, Close, CInv, TypeOK
    <2>2. ASSUME NEW q \in Procs, Published(q)'  PROVE Published(q)
      BY <1>9, <2>2 DEF Open, Close, CInv, TypeOK, Published
    <2>3. ASSUME NEW q \in Procs  PROVE ProcInv(q)'
      BY <1>9, <2>2 DEF Open, Close, CInv, TypeOK, ProcInv, Whole
    <2> QED  BY <2>1, <2>3 DEF CInv
  <1>10. CASE UNCHANGED vars
    BY <1>10 DEF vars, CInv, TypeOK, ProcInv, Published, Whole
  <1> QED
    BY <1>1, <1>2, <1>3, <1>4, <1>5, <1>6, <1>7, <1>8, <1>9, <1>10 DEF Next, Step

\* The invariant of atomic_compile with unique temp names, under any lock.
THEOREM CompileInvariant == ASSUME OneNative  PROVE Spec => []CInv
  <1>1. Init => CInv
    BY InitCInv
  <1>2. CInv /\ [Next]_vars => CInv'
    BY StepCInv
  <1> QED  BY <1>1, <1>2, PTL DEF Spec

\* A reader sees a whole entry or none, whatever the lock does, whoever crashes,
\* and whatever is evicted meanwhile.
THEOREM CompileNeverTorn == ASSUME OneNative  PROVE Spec => []NeverTorn
  <1>1. CInv => NeverTorn
    BY ProcsAssumption DEF CInv, ProcInv, Published, NeverTorn, TypeOK, Inode, Whole
  <1> QED  BY <1>1, CompileInvariant, PTL

\* A process that released the lock has reaped its compiler and removed its
\* temp file.
THEOREM CompileReleasedClean == ASSUME OneNative  PROVE Spec => []ReleasedClean
  <1>1. CInv => ReleasedClean
    BY DEF CInv, ProcInv, ReleasedClean, TempOf, TypeOK
  <1> QED  BY <1>1, CompileInvariant, PTL

\* The files implement an entry that is absent or whole.
THEOREM CompileImplementsEntry == ASSUME OneNative  PROVE Spec => ImplementsEntry
  <1> USE ProcsAssumption DEF Inode
  <1> DEFINE E == IF target = None THEN "absent" ELSE Shape(target)
             R == [r \in Readers |-> IF rd[r] = None THEN "none" ELSE Shape(rd[r])]
  <1>1. Init => Entry!Init
    BY DEF Init, Entry!Init
  <1>2. ASSUME CInv, CInv', [Next]_vars  PROVE [Entry!Next]_(Entry!vars)
    <2>1. /\ E = IF target = None THEN "absent" ELSE "whole"
          /\ E' = IF target' = None THEN "absent" ELSE "whole"
          /\ R = [r \in Readers |-> IF rd[r] = None THEN "none" ELSE "whole"]
          /\ R' = [r \in Readers |-> IF rd'[r] = None THEN "none" ELSE "whole"]
      BY <1>2 DEF CInv, TypeOK, ProcInv, Published, Shape, Whole
    <2>2. CASE \E p \in Procs : Rename(p)
      <3>1. PICK p \in Procs : Rename(p)
        BY <2>2
      <3>2. R' = R
        BY <2>1, <3>1 DEF Rename
      <3>3. E' = "whole" \/ E' = E
        BY <2>1, <3>1 DEF Rename
      <3> QED  BY <3>2, <3>3 DEF Entry!Next, Entry!Publish, Entry!vars
    <2>3. CASE Evict
      <3>1. R' = R /\ E' = "absent"
        BY <2>1, <2>3 DEF Evict
      <3> QED  BY <3>1 DEF Entry!Next, Entry!Evict
    <2>4. ASSUME NEW r \in Readers, Open(r)  PROVE Entry!Next
      <3>1. target # None /\ target' = target /\ rd' = [rd EXCEPT ![r] = target] /\ DOMAIN rd = Readers
        BY <1>2, <2>4 DEF Open, CInv, TypeOK
      <3>2. E = "whole" /\ E' = E
        BY <2>1, <3>1
      <3>3. \A q \in Readers : rd'[q] = IF q = r THEN target ELSE rd[q]
        BY <3>1
      <3>4. R' = [R EXCEPT ![r] = "whole"]
        BY <2>1, <3>1, <3>3
      <3> QED  BY <3>2, <3>4 DEF Entry!Next, Entry!Open
    <2>5. ASSUME NEW r \in Readers, Close(r)  PROVE Entry!Next
      <3>1. E' = E /\ R' = [R EXCEPT ![r] = "none"]
        BY <1>2, <2>1, <2>5 DEF Close, CInv, TypeOK
      <3> QED  BY <3>1 DEF Entry!Next, Entry!Close
    <2>6. CASE UNCHANGED <<target, rd>>
      BY <2>1, <2>6 DEF Entry!vars
    <2> QED
      BY <1>2, <2>2, <2>3, <2>4, <2>5, <2>6
      DEF Next, Step, Acquire, Skip, Spawn, ChildOpen, ChildWrite, ChildExit, ChildFail,
          Reap, Cleanup, Release, Crash, OrphanEnds, vars
  <1> QED  BY <1>1, <1>2, CompileInvariant, PTL DEF Spec, Entry!Spec, ImplementsEntry

------------------------------------------------------------------------------
\* The processes of SidecarCompile are those of CasCompile, with less freedom.
LEMMA SidecarStep == ASSUME [SidecarNext]_allVars  PROVE [Next]_vars
  BY DEF SidecarNext, allVars, lockVars, vars, OpenSidecar, LockSidecar, CompileStep,
         EvictLocked, Probe, Reap1, Next, Step

\* Even while ct-trim-cache reaps sidecars under the builds' feet, and two of
\* them compile the same entry at once, nobody reads a torn entry.
THEOREM SidecarNeverTorn ==
  ASSUME OneNative  PROVE SidecarSpec => []NeverTorn
  <1>1. SidecarInit => Init
    BY DEF SidecarInit
  <1>2. [SidecarNext]_allVars => [Next]_vars
    BY SidecarStep
  <1>3. SidecarSpec => Spec
    BY <1>1, <1>2, PTL DEF SidecarSpec, Spec
  <1> QED  BY <1>3, CompileNeverTorn, PTL

\* Until it is reaped there is one sidecar inode; afterwards there are two at
\* most, the old one and the one made in its stead, and each has one holder.
HolderInv ==
  /\ holders \subseteq Procs /\ fd \in [Procs -> Procs \cup {Old, Trims, None}]
  /\ sidecar \in Procs \cup {Old, Trims, None} /\ reaper \in {"idle", "unheld", "done"}
  /\ reaper # "done" => sidecar = Old
  /\ \A p \in Procs : fd[p] \in {Old, sidecar, None}
  /\ \A p \in holders : fd[p] # None
  /\ \A p, q \in holders : fd[p] = fd[q] => p = q

LEMMA HolderStep == ASSUME None # Old, HolderInv, [SidecarNext]_allVars  PROVE HolderInv'
  <1>1. ASSUME NEW p \in Procs, OpenSidecar(p)  PROVE HolderInv'
    <2>1. holders' = holders /\ reaper' = reaper /\ p \notin holders
      BY <1>1 DEF OpenSidecar, HolderInv, vars
    <2>2. sidecar' \in {sidecar, p} /\ (sidecar # None => sidecar' = sidecar)
      BY <1>1 DEF OpenSidecar
    <2>3. fd' = [fd EXCEPT ![p] = sidecar']
      BY <1>1 DEF OpenSidecar
    <2>4. \A q \in Procs : fd'[q] = IF q = p THEN sidecar' ELSE fd[q]
      BY <2>3 DEF HolderInv
    <2>5. fd' \in [Procs -> Procs \cup {Old, Trims, None}] /\ sidecar' \in Procs \cup {Old, Trims, None}
      BY <2>2, <2>3 DEF HolderInv
    <2>6. \A q \in Procs : fd'[q] \in {Old, sidecar', None}
      BY <2>2, <2>4 DEF HolderInv
    <2>7. \A q \in holders : fd'[q] = fd[q]
      BY <2>1, <2>4 DEF HolderInv
    <2> QED  BY <2>1, <2>2, <2>5, <2>6, <2>7 DEF HolderInv
  <1>2. ASSUME NEW p \in Procs, LockSidecar(p)  PROVE HolderInv'
    BY <1>2 DEF LockSidecar, Acquire, Unlocked, HolderInv, lockVars
  <1>3. ASSUME NEW p \in Procs, CompileStep(p), UNCHANGED lockVars  PROVE HolderInv'
    <2>1. holders' \subseteq holders
      BY <1>3 DEF CompileStep, Step, Skip, Spawn, ChildOpen, ChildWrite, ChildExit, ChildFail,
                  Reap, Rename, Cleanup, Release, Crash, OrphanEnds
    <2> QED  BY <1>3, <2>1 DEF HolderInv, lockVars
  <1>4. CASE EvictLocked
    BY <1>4 DEF EvictLocked, Evict, HolderInv
  <1>5. CASE \/ Probe \/ Reap1
             \/ \E r \in Readers : (Open(r) \/ Close(r)) /\ UNCHANGED lockVars
             \/ UNCHANGED allVars
    BY <1>5 DEF Probe, Reap1, Open, Close, HolderInv, lockVars, vars, allVars
  <1> QED  BY <1>1, <1>2, <1>3, <1>4, <1>5 DEF SidecarNext

\* The kernel strategies are mutual exclusion: one holder at a time, and beside
\* the holder of a sidecar that was reaped under it one more.
THEOREM SidecarOneHolder ==
  ASSUME None # Old  PROVE SidecarSpec => []OneHolder
  <1>1. SidecarInit => HolderInv
    BY DEF SidecarInit, Init, HolderInv
  <1>2. HolderInv /\ [SidecarNext]_allVars => HolderInv'
    BY HolderStep
  <1>3. HolderInv => OneHolder
    BY DEF HolderInv, OneHolder
  <1> QED  BY <1>1, <1>2, <1>3, PTL DEF SidecarSpec
------------------------------------------------------------------------------
(* Several native commands, which share one temp name.                      *)

LEMMA SameTemp ==
  ASSUME NEW p \in Procs, NEW q \in Procs, TempOf(p) = TempOf(q)
  PROVE  p = q \/ (p \in Natives /\ q \in Natives)
  BY ProcsAssumption DEF TempOf

\* No two native commands have entered since a sidecar was reaped.
Calm == ~ (reaper = "done" /\ \E p, q \in Natives : p # q /\ pc[p] # "start" /\ pc[q] # "start")

\* The inode p would create is nowhere yet.
Unused(p) == ~ Published(p) /\ \A n \in TempNames : temp[n] # p

\* What the compiler of p wrote waits to become the entry.
Finished(p) == (child[p] = "ok" /\ pc[p] = "waiting") \/ pc[p] = "rename"

\* What each process has in flight, whoever made the inode it writes to.
FlightInv(p) ==
  /\ out[p] # None => child[p] = "writing" /\ temp[TempOf(p)] = out[p]
  /\ child[p] # "none" => pc[p] \in {"waiting", "dead"}
  /\ Finished(p) /\ temp[TempOf(p)] # None => Whole(temp[TempOf(p)])
  /\ pc[p] \in {"start", "locked"} \/ (child[p] = "writing" /\ out[p] = None) => Unused(p)
  /\ p \in Natives /\ (child[p] # "none" \/ pc[p] \in {"locked", "waiting", "rename", "cleanup"}) => p \in holders
  /\ p \in holders => pc[p] # "start"

\* While it is calm a temp file is in one place and not yet the entry.
FilesInv ==
  /\ TypeOK
  /\ \A n \in TempNames : temp[n] # None => ~ Published(temp[n])
  /\ \A m, n \in TempNames : temp[m] = temp[n] /\ temp[m] # None => m = n
  /\ \A i \in Procs : Published(i) => Whole(i)
  /\ \A p \in Procs : FlightInv(p)

LEMMA OneNativeHolder ==
  ASSUME HolderInv, FilesInv, Calm, NEW p \in Natives \cap holders, NEW q \in Natives \cap holders
  PROVE  p = q
  <1>1. CASE reaper # "done"
    BY <1>1 DEF HolderInv
  <1>2. CASE reaper = "done"
    BY <1>2 DEF Calm, FilesInv, FlightInv, HolderInv
  <1> QED  BY <1>1, <1>2

\* A process that writes or renames has its temp name to itself.
LEMMA TempToItself ==
  ASSUME HolderInv, FilesInv, Calm, NEW p \in Procs, NEW q \in Procs, TempOf(p) = TempOf(q),
         child[p] # "none" \/ pc[p] \in {"rename", "cleanup"},
         child[q] # "none" \/ pc[q] \in {"waiting", "rename"} \/ out[q] # None
  PROVE  p = q
  <1>1. CASE p \in Natives /\ q \in Natives
    <2>1. p \in holders /\ q \in holders
      BY <1>1 DEF FilesInv, FlightInv
    <2> QED  BY <1>1, <2>1, OneNativeHolder
  <1> QED  BY <1>1, SameTemp

LEMMA FilesStep == ASSUME HolderInv, FilesInv, Calm, [Next]_vars  PROVE FilesInv'
  <1> USE ProcsAssumption, TempIsName DEF Inode, Goto
  <1>1. ASSUME NEW p \in Procs, Acquire(p) \/ Skip(p) \/ Spawn(p)  PROVE FilesInv'
    <2>1. TypeOK'
      BY <1>1 DEF FilesInv, TypeOK, Acquire, Skip, Spawn
    <2>2. ASSUME NEW q \in Procs  PROVE FlightInv(q)'
      BY <1>1 DEF FilesInv, TypeOK, FlightInv, Finished, Unused, Published, Whole, Acquire, Skip, Spawn
    <2> QED  BY <1>1, <2>1, <2>2 DEF FilesInv, Published, Whole, Acquire, Skip, Spawn
  <1>2. ASSUME NEW p \in Procs, ChildOpen(p)  PROVE FilesInv'
    <2> DEFINE i == IF temp[TempOf(p)] = None THEN p ELSE temp[TempOf(p)]
    <2>1. /\ child[p] = "writing" /\ out[p] = None
          /\ out' = [out EXCEPT ![p] = i] /\ temp' = [temp EXCEPT ![TempOf(p)] = i]
          /\ data' = [data EXCEPT ![i] = {}] /\ UNCHANGED <<pc, holders, child, target, rd>>
      BY <1>2 DEF ChildOpen
    <2>2. i \in Procs /\ ~ Published(i) /\ \A n \in TempNames : temp[n] = i => n = TempOf(p)
      BY <2>1 DEF FilesInv, TypeOK, FlightInv, Finished, Unused
    <2>3. \A j : Published(j)' <=> Published(j)
      BY <2>1 DEF Published
    <2> HIDE DEF i
    <2>4. TypeOK'
      BY <2>1, <2>2 DEF FilesInv, TypeOK
    <2>5. /\ \A n \in TempNames : temp'[n] # None => ~ Published(temp'[n])
          /\ \A m, n \in TempNames : temp'[m] = temp'[n] /\ temp'[m] # None => m = n
      BY <2>1, <2>2 DEF FilesInv, TypeOK
    <2>6. \A j \in Procs : Published(j) => Whole(j)'
      BY <2>1, <2>2 DEF FilesInv, TypeOK, Whole
    <2>7. ASSUME NEW q \in Procs  PROVE FlightInv(q)'
      <3>1. CASE q = p
        BY <2>1, <2>2, <2>3, <3>1 DEF FilesInv, TypeOK, FlightInv, Finished
      <3>2. CASE q # p
        <4>1. out[q] # None => TempOf(q) # TempOf(p)
          BY <2>1, <3>2, TempToItself
        <4>2. Finished(q) => TempOf(q) # TempOf(p)
          BY <2>1, <3>2, TempToItself DEF Finished
        <4>3. Finished(q) /\ temp'[TempOf(q)] # None => data'[temp'[TempOf(q)]] = Chunks
          BY <2>1, <2>2, <4>2 DEF FilesInv, TypeOK, FlightInv, Finished, Whole
        <4>4. Unused(q) => Unused(q)' \/ i = q
          BY <2>1, <2>3 DEF Unused, FilesInv, TypeOK
        <4>5. i = q => ~ Unused(q)
          BY <2>1, <3>2 DEF i, Unused, FilesInv, TypeOK
        <4> QED  BY <2>1, <3>2, <4>1, <4>3, <4>4, <4>5 DEF FilesInv, TypeOK, FlightInv, Finished, Whole
      <3> QED  BY <3>1, <3>2
    <2> QED  BY <2>3, <2>4, <2>5, <2>6, <2>7 DEF FilesInv
  <1>3. ASSUME NEW p \in Procs, ChildWrite(p)  PROVE FilesInv'
    <2>1. /\ child[p] = "writing" /\ out[p] \in Procs /\ temp[TempOf(p)] = out[p] /\ ~ Published(out[p])
          /\ UNCHANGED <<pc, holders, child, out, temp, target, rd>>
      BY <1>3 DEF ChildWrite, FilesInv, TypeOK, FlightInv, Finished
    <2>2. PICK c \in Chunks \ data[out[p]] : data' = [data EXCEPT ![out[p]] = @ \cup {c}]
      BY <1>3 DEF ChildWrite
    <2>3. TypeOK'
      BY <2>1, <2>2 DEF FilesInv, TypeOK
    <2>4. \A j \in Procs : Whole(j) => Whole(j)'
      BY <2>1, <2>2 DEF FilesInv, TypeOK, Whole
    <2>5. ASSUME NEW q \in Procs  PROVE FlightInv(q)'
      BY <2>1, <2>4 DEF FilesInv, TypeOK, FlightInv, Finished, Unused, Published
    <2> QED  BY <2>1, <2>3, <2>4, <2>5 DEF FilesInv, Published
  <1>4. ASSUME NEW p \in Procs, ChildExit(p) \/ ChildFail(p)  PROVE FilesInv'
    <2>1. TypeOK'
      BY <1>4 DEF FilesInv, TypeOK, ChildExit, ChildFail
    <2>2. ASSUME NEW q \in Procs  PROVE FlightInv(q)'
      BY <1>4 DEF FilesInv, TypeOK, FlightInv, Finished, Unused, Published, Whole, ChildExit, ChildFail
    <2> QED  BY <1>4, <2>1, <2>2 DEF FilesInv, Published, Whole, ChildExit, ChildFail
  <1>5. ASSUME NEW p \in Procs, Reap(p) \/ Release(p)  PROVE FilesInv'
    <2>1. TypeOK'
      BY <1>5 DEF FilesInv, TypeOK, Reap, Release
    <2>2. ASSUME NEW q \in Procs  PROVE FlightInv(q)'
      BY <1>5 DEF FilesInv, TypeOK, FlightInv, Finished, Unused, Published, Whole, Reap, Release
    <2> QED  BY <1>5, <2>1, <2>2 DEF FilesInv, Published, Whole, Reap, Release
  <1>6. ASSUME NEW p \in Procs, Rename(p)  PROVE FilesInv'
    <2>1. CASE temp[TempOf(p)] = None
      BY <1>6, <2>1 DEF Rename, FilesInv, TypeOK, FlightInv, Finished, Unused, Published, Whole
    <2>2. CASE temp[TempOf(p)] # None
      <3>1. /\ pc[p] = "rename" /\ target' = temp[TempOf(p)] /\ temp' = [temp EXCEPT ![TempOf(p)] = None]
            /\ pc' = [pc EXCEPT ![p] = "cleanup"] /\ UNCHANGED <<holders, child, out, data, rd>>
        BY <1>6, <2>2 DEF Rename
      <3>2. TypeOK' /\ Whole(target')
        BY <2>2, <3>1 DEF FilesInv, TypeOK, FlightInv, Finished
      <3>3. \A j \in Procs : Published(j)' => Published(j) \/ j = temp[TempOf(p)]
        BY <3>1 DEF Published
      <3>4. /\ \A n \in TempNames : temp'[n] # None => ~ Published(temp'[n]) /\ temp'[n] # temp[TempOf(p)]
            /\ \A m, n \in TempNames : temp'[m] = temp'[n] /\ temp'[m] # None => m = n
        BY <2>2, <3>1 DEF FilesInv, TypeOK
      <3>5. ASSUME NEW q \in Procs  PROVE FlightInv(q)'
        <4>1. out[q] # None => TempOf(q) # TempOf(p)
          <5>1. ASSUME out[q] # None, TempOf(q) = TempOf(p)  PROVE FALSE
            <6>1. q = p
              BY <3>1, <5>1, TempToItself
            <6> QED  BY <3>1, <5>1, <6>1 DEF FilesInv, FlightInv, Finished
          <5> QED  BY <5>1
        <4>2. Unused(q) => Unused(q)'
          BY <2>2, <3>1, <3>3 DEF Unused, FilesInv, TypeOK
        <4> QED  BY <3>1, <4>1, <4>2 DEF FilesInv, TypeOK, FlightInv, Finished, Whole
      <3>6. (\A n \in TempNames : temp[n] # None => ~ Published(temp[n]))'
        BY <3>1, <3>4 DEF Published
      <3>7. (\A i \in Procs : Published(i) => Whole(i))'
        <4> SUFFICES ASSUME NEW i \in Procs, Published(i)'  PROVE Whole(i)'
          OBVIOUS
        <4>1. CASE i = temp[TempOf(p)]
          BY <3>1, <3>2, <4>1 DEF Whole
        <4>2. CASE Published(i)
          BY <3>1, <4>2 DEF FilesInv, Whole
        <4> QED  BY <3>3, <4>1, <4>2
      <3> QED  BY <3>2, <3>4, <3>5, <3>6, <3>7 DEF FilesInv
    <2> QED  BY <2>1, <2>2
  <1>7. ASSUME NEW p \in Procs, Cleanup(p)  PROVE FilesInv'
    <2>1. TypeOK'
      BY <1>7 DEF FilesInv, TypeOK, Cleanup
    <2>2. ASSUME NEW q \in Procs  PROVE FlightInv(q)'
      <3>1. out[q] # None => TempOf(q) # TempOf(p)
        <4>1. ASSUME out[q] # None, TempOf(q) = TempOf(p)  PROVE FALSE
          <5>1. q = p
            BY <1>7, <4>1, TempToItself DEF Cleanup
          <5> QED  BY <1>7, <4>1, <5>1 DEF Cleanup, FilesInv, FlightInv, Finished
        <4> QED  BY <4>1
      <3> QED  BY <1>7, <3>1 DEF FilesInv, TypeOK, FlightInv, Finished, Unused, Published, Whole, Cleanup
    <2> QED  BY <1>7, <2>1, <2>2 DEF FilesInv, TypeOK, Published, Whole, Cleanup
  <1>8. ASSUME NEW p \in Procs, Crash(p) \/ OrphanEnds(p)  PROVE FilesInv'
    <2>1. TypeOK'
      BY <1>8 DEF FilesInv, TypeOK, Crash, OrphanEnds
    <2>2. ASSUME NEW q \in Procs  PROVE FlightInv(q)'
      BY <1>8 DEF FilesInv, TypeOK, FlightInv, Finished, Unused, Published, Whole, Crash, OrphanEnds
    <2> QED  BY <1>8, <2>1, <2>2 DEF FilesInv, Published, Whole, Crash, OrphanEnds
  <1>9. CASE Evict
    BY <1>9 DEF FilesInv, TypeOK, FlightInv, Finished, Unused, Published, Whole, Evict
  <1>10. ASSUME NEW r \in Readers, Open(r) \/ Close(r)  PROVE FilesInv'
    <2>1. TypeOK'
      BY <1>10 DEF Open, Close, FilesInv, TypeOK
    <2>2. ASSUME NEW j \in Procs, Published(j)'  PROVE Published(j)
      BY <1>10, <2>2 DEF Open, Close, FilesInv, TypeOK, Published
    <2>3. ASSUME NEW q \in Procs  PROVE FlightInv(q)'
      BY <1>10, <2>2 DEF Open, Close, FilesInv, TypeOK, FlightInv, Finished, Unused, Whole
    <2>4. (\A n \in TempNames : temp[n] # None => ~ Published(temp[n]))'
      <3>1. /\ temp' = temp /\ target' = target
            /\ \A s \in Readers : rd'[s] \in {rd[s], target, None}
        BY <1>10 DEF Open, Close, FilesInv, TypeOK
      <3> QED  BY <3>1 DEF FilesInv, TypeOK, Published
    <2> QED  BY <1>10, <2>1, <2>2, <2>3, <2>4 DEF FilesInv, Open, Close, Whole
  <1>11. CASE UNCHANGED vars
    BY <1>11 DEF vars, FilesInv, TypeOK, FlightInv, Finished, Unused, Published, Whole
  <1> QED
    BY <1>1, <1>2, <1>3, <1>4, <1>5, <1>6, <1>7, <1>8, <1>9, <1>10, <1>11 DEF Next, Step

\* A process that entered has entered, and a reaped sidecar is reaped.
LEMMA CalmBefore ==
  ASSUME DOMAIN pc = Procs, [SidecarNext]_allVars  PROVE DOMAIN pc' = Procs /\ (Calm' => Calm)
  <1>1. reaper = "done" => reaper' = "done"
    BY DEF SidecarNext, allVars, lockVars, OpenSidecar, LockSidecar, EvictLocked, Probe, Reap1
  <1>2. pc' = pc \/ \E p \in Procs, l \in {"locked", "waiting", "rename", "cleanup", "release", "done", "dead"} :
                      pc' = [pc EXCEPT ![p] = l]
    <2>1. [Next]_vars
      BY SidecarStep
    <2> QED
      BY <2>1 DEF Goto, Next, Step, Acquire, Skip, Spawn, ChildOpen, ChildWrite, ChildExit,
         ChildFail, Reap, Rename, Cleanup, Release, Crash, OrphanEnds, Evict, Open, Close, vars
  <1>3. DOMAIN pc' = Procs /\ \A p \in Procs : pc[p] # "start" => pc'[p] # "start"
    BY <1>2
  <1> QED  BY <1>1, <1>3, ProcsAssumption DEF Calm

SidecarInv == HolderInv /\ DOMAIN pc = Procs /\ (Calm => FilesInv)

\* Any number of native commands, which share one temp name: the lock keeps
\* them apart, so every read is of a whole entry until a sidecar was reaped and
\* two of them entered.
THEOREM SidecarTornOnlyByTwoNatives ==
  ASSUME None # Old  PROVE SidecarSpec => []TornOnlyByTwoNatives
  <1>1. SidecarInit => SidecarInv
    BY ProcsAssumption DEF SidecarInit, Init, SidecarInv, HolderInv, FilesInv, FlightInv, Finished,
       Unused, Published, TypeOK, Inode
  <1>2. SidecarInv /\ [SidecarNext]_allVars => SidecarInv'
    BY HolderStep, CalmBefore, SidecarStep, FilesStep DEF SidecarInv
  <1>3. SidecarInv => TornOnlyByTwoNatives
    BY ProcsAssumption DEF SidecarInv, Calm, FilesInv, TypeOK, Inode, Published, NeverTorn, TornOnlyByTwoNatives
  <1> QED  BY <1>1, <1>2, <1>3, PTL DEF SidecarSpec
================================================================================
