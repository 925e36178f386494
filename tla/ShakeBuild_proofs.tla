--------------------------- MODULE ShakeBuild_proofs ---------------------------
(***************************************************************************)
(* For any graph, any number of versions, builds and slots, and whatever   *)
(* is interrupted, evicted or published by others: a target that is        *)
(* through is up to date or excused by a trace, and so is a test marker.   *)
(* The invariant follows a publish rule through its task (PublishInv), a   *)
(* test through its own (TestInv), and says what the registry may hold.    *)
(* When a build succeeds every test has passed (AllTested), and the next   *)
(* one, if nothing has changed, runs no command (NoOpRebuild).             *)
(***************************************************************************)
EXTENDS ShakeBuild, TLAPS

\* Until a published name is looked at nothing of it is cached; its trace is the
\* stored one until its command has run.
PublishInv(p) ==
  /\ resolved[p] \in Entries \cup {p, None}
  /\ task[p] \in {"none", "waiting"} => resolved[p] = None /\ hashes[p] = None
  /\ building /\ task[p] \in {"none", "waiting", "queued", "running"} => traces[p] = stored[p]
  /\ task[p] = "ran" => shown[p] = src
  /\ Stale(p) => Misled(p)

\* A test has what it depends on, and ran what its executable's name led to.
TestInv(t) ==
  /\ task[t] \in {"queued", "running", "ran"} => task[Input(t)] = "done"
  /\ task[t] = "ran" => saw[t] = shown[Input(t)]

\* The hash of a cache entry is the one in its name.
EntryInv == \A e \in Entries : hashes[e] \in {None, e[2]}

IdleInv == ~ building => \A r \in Rules : task[r] = "none"

IInv == /\ TypeOK /\ EntryInv /\ IdleInv
        /\ \A p \in Publishes : PublishInv(p)
        /\ \A t \in Tests : TestInv(t)

------------------------------------------------------------------------------
(* The graph *)

\* A published name has one input, an artifact, and a test one, a published name.
LEMMA InputType == /\ \A p \in Publishes : Input(p) \in Artifacts /\ Deps[p] = {Input(p)}
                   /\ \A t \in Tests : Input(t) \in Publishes /\ Deps[t] = {Input(t)}
  BY GraphAssumption DEF Input

\* No name is of two kinds.
LEMMA Kinds == /\ Publishes \subseteq Names /\ Entries \subseteq Names
               /\ \A p \in Publishes : p \notin Entries /\ p \notin Artifacts
                                       /\ p \notin Tests /\ p \notin Phonies
               /\ \A t \in Tests : t \notin Artifacts /\ t \notin Phonies /\ t \notin Publishes
               /\ None \notin Names /\ None \notin Versions
  BY NamesAssumption, GraphAssumption DEF Names, Entries

\* What a name can hold and what its real path can be.
LEMMA ReadType ==
  ASSUME TypeOK
  PROVE  /\ \A n \in Names : OnDisk(n) \in Known /\ Hash(n) \in Known
         /\ \A p \in Publishes : Real(p) \in Names
         /\ \A p \in Publishes : resolved[p] \in Entries \cup {p, None} => Real(p) \in Entries \cup {p}
<1>1. \A n \in Names : OnDisk(n) \in Known
  BY Kinds DEF TypeOK, OnDisk, Names, Entries, Known
<1>2. \A n \in Names : Hash(n) \in Known
  BY <1>1 DEF TypeOK, Hash
<1>3. \A p \in Publishes : resolved[p] \in Entries \cup {p, None} => Real(p) \in Entries \cup {p}
  BY InputType, Kinds DEF TypeOK, Real, Entries, Known
<1>4. \A p \in Publishes : Real(p) \in Names
  BY InputType, Kinds DEF TypeOK, Real, Names, Entries, Known
<1> QED BY <1>1, <1>2, <1>3, <1>4

------------------------------------------------------------------------------
(* Types *)

\* The initial states have the types and satisfy the invariant.
LEMMA InitInv == Init => IInv
<1> SUFFICES ASSUME Init PROVE IInv
  OBVIOUS
<1>1. TypeOK
  <2>1. stored \in [Publishes -> Traces] /\ traces \in [Publishes -> Traces]
    BY DEF Init, Traces
  <2>2. builds \in 0..MaxBuilds
    BY BoundsAssumption DEF Init
  <2>3. passed \in [Tests \X Versions -> Known] /\ hashes \in [Names -> Known]
    BY DEF Init, Known
  <2> QED BY <2>1, <2>2, <2>3 DEF Init, TypeOK, Known, Final
<1>2. EntryInv
  <2>1. \A e \in Entries : e \in Names
    BY DEF Names
  <2> QED BY <2>1 DEF Init, EntryInv
<1>3. IdleInv
  BY DEF Init, IdleInv
<1>4. ASSUME NEW p \in Publishes PROVE PublishInv(p)
  <2>1. resolved[p] = None /\ task[p] = "none" /\ traces[p] = stored[p]
    BY DEF Init, Rules
  <2>2. hashes[p] = None
    BY Kinds DEF Init
  <2> QED BY <2>1, <2>2 DEF PublishInv, Stale
<1>5. \A t \in Tests : TestInv(t)
  BY DEF Init, TestInv, Rules
<1> QED BY <1>1, <1>2, <1>3, <1>4, <1>5 DEF IInv

\* What Look leaves behind.
LEMMA LookType ==
  ASSUME TypeOK, NEW p \in Publishes, Look(p)
  PROVE  /\ resolved' \in [Publishes -> Names \cup {None}]
         /\ hashes' \in [Names -> Known]
  BY ReadType DEF Look, TypeOK

\* The types, for a step of a task.
LEMMA StepType ==
  ASSUME TypeOK, NEW r \in Rules, Step(r)
  PROVE  TypeOK'
<1> USE DEF Goto, Done, disk, Final
<1>1. CASE Start(r)
  BY <1>1 DEF TypeOK, Start
<1>2. CASE Propagate(r)
  BY <1>2 DEF TypeOK, Propagate
<1>3. CASE Run(r)
  BY <1>3 DEF TypeOK, Run
<1>4. CASE ResumePhony(r)
  BY <1>4 DEF TypeOK, ResumePhony, Rebuilt
<1>5. CASE ResumeArtifact(r)
  BY <1>5 DEF TypeOK, ResumeArtifact
<1>6. CASE ResumeTest(r)
  BY <1>6 DEF TypeOK, ResumeTest
<1>7. CASE ResumePublish(r)
  <2>1. r \in Publishes /\ Hash(Real(r)) \in Known
    BY <1>7, ReadType DEF ResumePublish
  <2>2. resolved' \in [Publishes -> Names \cup {None}] /\ hashes' \in [Names -> Known]
    BY <1>7, <2>1, LookType DEF ResumePublish, TypeOK
  <2>3. task' \in [Rules -> {"none", "waiting", "queued", "running", "ran"} \cup Final]
        /\ changed' \in [Rules -> BOOLEAN] /\ saw' \in [Rules -> Known]
    BY <1>7, <2>1 DEF ResumePublish, TypeOK, Known
  <2> QED BY <1>7, <2>2, <2>3 DEF ResumePublish, TypeOK
<1>8. CASE FinishArtifact(r)
  BY <1>8 DEF TypeOK, FinishArtifact, Entries
<1>9. CASE FailArtifact(r)
  BY <1>9 DEF TypeOK, FailArtifact
<1>10. CASE Publish(r)
  BY <1>10 DEF TypeOK, Publish, Known
<1>11. CASE FinishPublish(r)
  <2>1. r \in Publishes /\ Hash(Real(r)) \in Known
    BY <1>11, ReadType DEF FinishPublish
  <2>2. resolved' \in [Publishes -> Names \cup {None}] /\ hashes' \in [Names -> Known]
    BY <1>11, <2>1, LookType DEF FinishPublish
  <2>3. task' \in [Rules -> {"none", "waiting", "queued", "running", "ran"} \cup Final]
        /\ changed' \in [Rules -> BOOLEAN]
    BY <1>11, <2>1 DEF FinishPublish, TypeOK
  <2>4. traces' \in [Publishes -> Traces]
    BY <1>11, <2>1 DEF FinishPublish, TypeOK, Traces, Known
  <2> QED BY <1>11, <2>2, <2>3, <2>4 DEF FinishPublish, TypeOK
<1>12. CASE RunTest(r)
  <2>1. OnDisk(Input(r)) \in Known
    BY <1>12, InputType, Kinds, ReadType DEF RunTest
  <2> QED BY <1>12, <2>1 DEF TypeOK, RunTest
<1>13. CASE FinishTest(r)
  <2>1. passed' \in [Tests \X Versions -> Known]
    BY <1>13 DEF TypeOK, FinishTest, Mark, Known
  <2>2. duped' \subseteq Tests \X Versions
    BY <1>13 DEF TypeOK, FinishTest, Mark
  <2> QED BY <1>13, <2>1, <2>2 DEF TypeOK, FinishTest
<1> QED BY <1>1, <1>2, <1>3, <1>4, <1>5, <1>6, <1>7, <1>8, <1>9, <1>10, <1>11, <1>12, <1>13 DEF Step

\* The types, for what starts and ends a build and what goes on around them.
LEMMA OtherType ==
  ASSUME TypeOK,
         \/ StartBuild \/ EndBuild \/ Interrupt \/ Kill
         \/ \E e \in Entries : Evict(e)
         \/ \E p \in Publishes : Remove(p) \/ \E v \in Versions : PeerPublishes(p, v)
  PROVE  TypeOK'
<1> USE DEF disk, Final
<1>0. Fresh => /\ task' \in [Rules -> {"none", "waiting", "queued", "running", "ran"} \cup Final]
               /\ changed' \in [Rules -> BOOLEAN] /\ saw' \in [Rules -> Known]
               /\ resolved' \in [Publishes -> Names \cup {None}]
               /\ hashes' \in [Names -> Known] /\ failures' \subseteq Tests
  BY DEF Fresh, Known
<1>1. CASE StartBuild
  BY <1>0, <1>1, BoundsAssumption DEF TypeOK, StartBuild
<1>2. Over => /\ builds' = builds /\ building' = FALSE /\ Fresh /\ UNCHANGED <<disk, duped>>
              /\ traces' \in [Publishes -> Traces]
  BY DEF Over, Traces
<1>3. CASE EndBuild
  BY <1>0, <1>2, <1>3 DEF TypeOK, EndBuild
<1>4. CASE Interrupt
  BY <1>0, <1>2, <1>4 DEF TypeOK, Interrupt
<1>5. CASE Kill
  BY <1>0, <1>2, <1>5 DEF TypeOK, Kill
<1>6. ASSUME NEW e \in Entries, Evict(e) PROVE TypeOK'
  BY <1>6 DEF TypeOK, Evict, process, Known
<1>7. ASSUME NEW p \in Publishes, Remove(p) PROVE TypeOK'
  BY <1>7 DEF TypeOK, Remove, process, Known
<1>8. ASSUME NEW p \in Publishes, NEW v \in Versions, PeerPublishes(p, v) PROVE TypeOK'
  BY <1>8, InputType DEF TypeOK, PeerPublishes, process, Entries, Known
<1> QED BY <1>1, <1>3, <1>4, <1>5, <1>6, <1>7, <1>8

------------------------------------------------------------------------------
(* The registry *)

\* Looking at one name caches nothing of another, and nothing wrong of an entry.
LEMMA LookLocal ==
  ASSUME TypeOK, EntryInv, NEW p \in Publishes, PublishInv(p), Look(p)
  PROVE  /\ EntryInv'
         /\ resolved'[p] \in Entries \cup {p, None}
         /\ \A q \in Publishes \ {p} : resolved'[q] = resolved[q] /\ hashes'[q] = hashes[q]
<1>1. Real(p) \in Entries \cup {p}
  BY ReadType DEF PublishInv
<1>2. \A e \in Entries : Hash(e) \in {None, e[2]}
  BY Kinds DEF EntryInv, Hash, OnDisk
<1>3. EntryInv'
  BY <1>1, <1>2, Kinds DEF EntryInv, Look, TypeOK
<1> QED BY <1>1, <1>3, Kinds DEF Look, TypeOK

\* The first look at a published name sees what it leads to, or nothing.
LEMMA FirstLook ==
  ASSUME TypeOK, EntryInv, NEW p \in Publishes, PublishInv(p), task[p] = "waiting"
  PROVE  Hash(Real(p)) \in {None, shown[p]}
<1>1. resolved[p] = None /\ hashes[p] = None
  BY DEF PublishInv
<1>2. CASE p \in Symlinked /\ shown[p] # None
  <2>1. Real(p) = <<Input(p), shown[p]>> /\ Real(p) \in Entries
    BY <1>1, <1>2, InputType DEF Real, Entries, TypeOK, Known
  <2>2. hashes[Real(p)] \in {None, shown[p]} /\ OnDisk(Real(p)) \in {None, shown[p]}
    BY <2>1, Kinds DEF EntryInv, OnDisk
  <2> QED BY <2>2 DEF Hash
<1>3. CASE ~ (p \in Symlinked /\ shown[p] # None)
  BY <1>1, <1>3, Kinds DEF Real, Hash, OnDisk
<1> QED BY <1>2, <1>3

------------------------------------------------------------------------------
(* Steps of the tasks *)

\* A task steps only while a build is on, from a state it has not ended in.
LEMMA StepActive ==
  ASSUME IInv, NEW r \in Rules, Step(r)
  PROVE  /\ building /\ task[r] \notin Final
         /\ UNCHANGED <<src, stored, building>>
         /\ task' = [task EXCEPT ![r] = task'[r]]
<1> USE DEF Goto, Done, Ready, disk
<1>1. task[r] \notin Final /\ (task[r] = "none" => building)
  BY DEF Step, Start, Propagate, Run, ResumePhony, ResumeArtifact, ResumeTest, ResumePublish, FinishArtifact,
     FailArtifact, Publish, FinishPublish, RunTest, FinishTest, Final
<1>2. building
  BY <1>1 DEF IInv, IdleInv
<1>3. UNCHANGED <<src, stored, building>>
  BY DEF Step, Start, Propagate, Run, ResumePhony, ResumeArtifact, ResumeTest, ResumePublish, FinishArtifact,
     FailArtifact, Publish, FinishPublish, RunTest, FinishTest
<1>4. task' = [task EXCEPT ![r] = task'[r]]
  BY DEF IInv, TypeOK, Step, Start, Propagate, Run, ResumePhony, ResumeArtifact, ResumeTest, ResumePublish,
     FinishArtifact, FailArtifact, Publish, FinishPublish, RunTest, FinishTest
<1> QED BY <1>1, <1>2, <1>3, <1>4

\* The caches of the process change by a look at the stepping task's name.
LEMMA StepCaches ==
  ASSUME IInv, NEW r \in Rules, Step(r)
  PROVE  UNCHANGED <<resolved, hashes>> \/ (r \in Publishes /\ Look(r))
  BY DEF Step, Start, Propagate, Run, ResumePhony, ResumeArtifact, ResumeTest, ResumePublish, FinishArtifact,
     FailArtifact, Publish, FinishPublish, RunTest, FinishTest

\* A published name and its trace change by a step of their own task.
LEMMA StepNames ==
  ASSUME IInv, NEW r \in Rules, Step(r), NEW p \in Publishes, p # r
  PROVE  shown'[p] = shown[p] /\ traces'[p] = traces[p] /\ task'[p] = task[p]
<1>1. task'[p] = task[p]
  BY StepActive DEF IInv, TypeOK, Rules
<1>2. shown'[p] = shown[p]
  BY DEF IInv, TypeOK, disk, Step, Start, Propagate, Run, ResumePhony, ResumeArtifact, ResumeTest, ResumePublish,
     FinishArtifact, FailArtifact, Publish, FinishPublish, RunTest, FinishTest
<1>3. traces'[p] = traces[p]
  BY DEF IInv, TypeOK, Step, Start, Propagate, Run, ResumePhony, ResumeArtifact, ResumeTest, ResumePublish,
     FinishArtifact, FailArtifact, Publish, FinishPublish, RunTest, FinishTest
<1> QED BY <1>1, <1>2, <1>3

\* The publish rule that steps.
LEMMA PublishSteps ==
  ASSUME IInv, NEW p \in Publishes, Step(p)
  PROVE  PublishInv(p)'
<1>0. /\ PublishInv(p) /\ TypeOK /\ EntryInv /\ p \in Rules /\ building
      /\ UNCHANGED <<src, stored, building>>
  BY StepActive DEF IInv, Rules
<1>1. p \notin Artifacts /\ p \notin Tests /\ p \notin Phonies
  BY Kinds
<1>2. resolved'[p] \in Entries \cup {p, None}
  BY <1>0, StepCaches, LookLocal DEF PublishInv
<1> USE DEF Goto, Done, Ready, disk
<1>3. CASE Start(p)
  BY <1>0, <1>1, <1>2, <1>3 DEF Start, SameFile, PublishInv, Stale, TypeOK
<1>4. CASE Propagate(p)
  BY <1>0, <1>2, <1>4 DEF Propagate, PublishInv, Stale, TypeOK
<1>5. CASE Run(p)
  BY <1>0, <1>2, <1>5 DEF Run, PublishInv, Stale, TypeOK
<1>6. CASE ResumePublish(p)
  <2>1. /\ task[p] = "waiting" /\ UNCHANGED <<shown, traces, stored>>
        /\ task'[p] = "queued" \/ (task'[p] = "done" /\ Verified(p))
    BY <1>0, <1>6 DEF ResumePublish, TypeOK
  <2>2. traces[p] = stored[p] /\ Hash(Real(p)) \in {None, shown[p]}
    BY <1>0, <2>1, FirstLook DEF PublishInv
  <2>3. traces[p] # None => traces[p].out \in Versions
    BY <1>0 DEF TypeOK, Traces
  <2>4. Verified(p) => Misled(p)
    BY <1>0, <2>2, <2>3, Kinds DEF Verified, Misled, TypeOK
  <2> QED BY <1>0, <1>2, <2>1, <2>2, <2>4 DEF PublishInv, Stale, Misled
<1>7. CASE Publish(p)
  BY <1>0, <1>2, <1>7 DEF Publish, PublishInv, Stale, TypeOK
<1>8. CASE FinishPublish(p)
  BY <1>0, <1>2, <1>8 DEF FinishPublish, PublishInv, Stale, TypeOK
<1> QED BY <1>1, <1>3, <1>4, <1>5, <1>6, <1>7, <1>8 DEF Step, ResumePhony, ResumeArtifact, ResumeTest,
           FinishArtifact, FailArtifact, RunTest, FinishTest

\* A test, whichever task steps: what it depends on is through and stays so.
LEMMA TestSteps ==
  ASSUME IInv, NEW r \in Rules, Step(r), NEW t \in Tests
  PROVE  TestInv(t)'
<1>0. /\ TestInv(t) /\ TypeOK /\ t \in Rules /\ Input(t) \in Publishes /\ Input(t) \in Rules
      /\ Deps[t] = {Input(t)} /\ t # Input(t)
  BY InputType, Kinds DEF IInv, Rules
<1>1. task[Input(t)] = "done" =>
        task'[Input(t)] = "done" /\ shown'[Input(t)] = shown[Input(t)]
  BY <1>0, StepActive, StepNames DEF Final
<1>2. CASE r # t
  <2>1. task'[t] = task[t]
    BY <1>0, <1>2, StepActive DEF TypeOK
  <2>2. saw'[t] = saw[t]
    BY <1>0, <1>2 DEF TypeOK, Step, Start, Propagate, Run, ResumePhony, ResumeArtifact, ResumeTest,
       ResumePublish, FinishArtifact, FailArtifact, Publish, FinishPublish, RunTest, FinishTest
  <2> QED BY <1>0, <1>1, <2>1, <2>2 DEF TestInv
<1>3. CASE r = t
  <2>1. t \notin Artifacts /\ t \notin Publishes /\ t \notin Phonies
    BY Kinds
  <2> USE DEF Goto, Done, Ready
  <2>2. CASE Start(t)
    BY <1>0, <2>2 DEF Start, TypeOK, TestInv
  <2>3. CASE Propagate(t)
    BY <1>0, <2>3 DEF Propagate, TypeOK, TestInv
  <2>4. CASE Run(t)
    BY <1>0, <1>1, <2>4 DEF Run, TypeOK, TestInv
  <2>5. CASE ResumeTest(t)
    BY <1>0, <1>1, <2>5 DEF ResumeTest, TypeOK, TestInv
  <2>6. CASE RunTest(t)
    <3>1. task[Input(t)] = "done" /\ OnDisk(Input(t)) \in {None, shown[Input(t)]}
      BY <1>0, <2>6, Kinds DEF RunTest, TestInv, OnDisk
    <3>2. shown'[Input(t)] = shown[Input(t)] /\ task'[Input(t)] = "done"
      BY <1>1, <3>1
    <3>3. task'[t] = "ran" => saw'[t] = shown[Input(t)]
      BY <1>0, <2>6, <3>1 DEF RunTest, TypeOK
    <3> QED BY <3>2, <3>3 DEF TestInv
  <2>7. CASE FinishTest(t)
    BY <1>0, <2>7 DEF FinishTest, TypeOK, TestInv
  <2> QED BY <1>3, <2>1, <2>2, <2>3, <2>4, <2>5, <2>6, <2>7 DEF Step, ResumePhony, ResumeArtifact,
             ResumePublish, FinishArtifact, FailArtifact, Publish, FinishPublish
<1> QED BY <1>2, <1>3

\* A step of a task keeps the invariant.
LEMMA StepInv ==
  ASSUME IInv, NEW r \in Rules, Step(r)
  PROVE  IInv'
<1>1. TypeOK'
  BY StepType DEF IInv
<1>2. EntryInv'
  BY StepCaches, LookLocal DEF IInv, EntryInv
<1>3. IdleInv'
  BY StepActive DEF IdleInv
<1>4. ASSUME NEW p \in Publishes PROVE PublishInv(p)'
  <2>1. CASE p = r
    BY <2>1, PublishSteps
  <2>2. CASE p # r
    <3>1. PublishInv(p) /\ UNCHANGED <<src, stored, building>>
      BY StepActive DEF IInv
    <3>2. shown'[p] = shown[p] /\ traces'[p] = traces[p] /\ task'[p] = task[p]
      BY <2>2, StepNames
    <3>3. resolved'[p] = resolved[p] /\ hashes'[p] = hashes[p]
      BY <2>2, StepCaches, LookLocal DEF IInv
    <3> QED BY <3>1, <3>2, <3>3 DEF PublishInv, Stale, Misled
  <2> QED BY <2>1, <2>2
<1>5. \A t \in Tests : TestInv(t)'
  BY TestSteps
<1> QED BY <1>1, <1>2, <1>3, <1>4, <1>5 DEF IInv

\* So does everything around the tasks.
LEMMA OtherInv ==
  ASSUME IInv,
         \/ StartBuild \/ EndBuild \/ Interrupt \/ Kill
         \/ \E e \in Entries : Evict(e)
         \/ \E p \in Publishes : Remove(p) \/ \E v \in Versions : PeerPublishes(p, v)
  PROVE  IInv'
<1>1. TypeOK'
  BY OtherType DEF IInv
<1>2. CASE StartBuild \/ EndBuild \/ Interrupt \/ Kill
  <2>1. /\ Fresh
        /\ building' => traces' = stored /\ stored' = stored
    BY <1>2 DEF StartBuild, EndBuild, Interrupt, Kill, Over
  <2>2. EntryInv'
    <3>1. \A e \in Entries : e \in Names
      BY DEF Names
    <3> QED BY <2>1, <3>1 DEF Fresh, EntryInv
  <2>3. IdleInv'
    BY <2>1 DEF Fresh, IdleInv
  <2>4. ASSUME NEW p \in Publishes PROVE PublishInv(p)'
    <3>1. /\ resolved'[p] = None /\ task'[p] = "none"
          /\ building' => traces'[p] = stored'[p]
      BY <2>1 DEF Fresh, Rules
    <3>2. hashes'[p] = None
      BY <2>1, Kinds DEF Fresh
    <3> QED BY <3>1, <3>2 DEF PublishInv, Stale
  <2>5. ASSUME NEW t \in Tests PROVE TestInv(t)'
    BY <2>1 DEF Fresh, TestInv, Rules
  <2> QED BY <1>1, <2>2, <2>3, <2>4, <2>5 DEF IInv
<1>3. ASSUME NEW e \in Entries, Evict(e) PROVE IInv'
  BY <1>1, <1>3 DEF IInv, Evict, process, EntryInv, IdleInv, PublishInv, TestInv, Stale, Misled
<1>4. ASSUME NEW p \in Publishes, Remove(p) \/ \E v \in Versions : PeerPublishes(p, v) PROVE IInv'
  <2>1. ~ building /\ UNCHANGED <<src, stored, building, process>>
    BY <1>4 DEF Remove, PeerPublishes
  <2>2. \A r \in Rules : task[r] = "none" /\ task'[r] = "none"
    BY <2>1 DEF IInv, IdleInv, process
  <2>3. EntryInv' /\ IdleInv'
    BY <2>1, <2>2 DEF IInv, EntryInv, IdleInv, process
  <2>4. \A q \in Publishes : PublishInv(q)'
    BY <2>1, <2>2 DEF IInv, PublishInv, Stale, process, Rules
  <2>5. \A t \in Tests : TestInv(t)'
    BY <2>2 DEF TestInv, Rules
  <2> QED BY <1>1, <2>3, <2>4, <2>5 DEF IInv
<1> QED BY <1>2, <1>3, <1>4

LEMMA Stutter == ASSUME IInv, UNCHANGED vars  PROVE IInv'
<1> USE DEF vars, disk, process
<1>1. TypeOK' /\ EntryInv' /\ IdleInv'
  BY DEF IInv, TypeOK, EntryInv, IdleInv
<1>2. \A p \in Publishes : PublishInv(p)'
  BY DEF IInv, PublishInv, Stale, Misled
<1>3. \A t \in Tests : TestInv(t)'
  BY DEF IInv, TestInv
<1> QED BY <1>1, <1>2, <1>3 DEF IInv

\* The invariant holds in every state of every behaviour.
THEOREM ShakeInvariant == Spec => []IInv
<1>1. IInv /\ [Next]_vars => IInv'
  <2> SUFFICES ASSUME IInv, [Next]_vars PROVE IInv'
    OBVIOUS
  <2>1. CASE UNCHANGED vars
    BY <2>1, Stutter
  <2>2. CASE Next
    BY <2>2, StepInv, OtherInv DEF Next
  <2> QED BY <2>1, <2>2
<1> QED BY InitInv, <1>1, PTL DEF Spec

\* A target that is through is up to date, whatever happened before, unless a
\* stored trace pairs its command with the bytes its name leads to.
THEOREM ShakeStaleOnlyIfMisled == Spec => []StaleOnlyIfMisled
<1>1. IInv => StaleOnlyIfMisled
  BY DEF IInv, PublishInv, StaleOnlyIfMisled
<1> QED BY <1>1, ShakeInvariant, PTL

\* A success marker is touched after a run of the bytes in its name, or of those
\* that such a trace vouched for.
THEOREM ShakeMarkersHonest == Spec => MarkersHonest
<1>1. ASSUME IInv, [Next]_vars, NEW t \in Tests, passed'[<<t, src>>] \notin {passed[<<t, src>>], src, None}
      PROVE  Misled(Input(t))
  <2>0. /\ TypeOK /\ TestInv(t) /\ Input(t) \in Publishes /\ <<t, src>> \in Tests \X Versions
        /\ PublishInv(Input(t))
    BY <1>1, InputType DEF IInv, TypeOK
  <2>1. ASSUME NEW e \in Entries, Evict(e) PROVE FALSE
    <3>1. passed' = [m \in Tests \X Versions |-> IF EntryOf(m) = e THEN None ELSE passed[m]]
      BY <2>0, <2>1 DEF Evict, TypeOK
    <3>2. passed'[<<t, src>>] \in {None, passed[<<t, src>>]}
      BY <2>0, <3>1
    <3> QED BY <1>1, <3>2
  <2>2. CASE passed' = passed
    BY <1>1, <2>2
  <2>3. ASSUME NEW r \in Rules, FinishTest(r) PROVE Misled(Input(t))
    <3>1. r = t /\ task[t] = "ran" /\ passed'[<<t, src>>] = saw[t]
      BY <1>1, <2>0, <2>3 DEF FinishTest, Mark, TypeOK
    <3>2. task[Input(t)] = "done" /\ shown[Input(t)] # src
      BY <1>1, <2>0, <3>1 DEF TestInv
    <3> QED BY <2>0, <3>2 DEF PublishInv, Stale
  <2>4. passed' = passed \/ (\E r \in Rules : FinishTest(r)) \/ (\E e \in Entries : Evict(e))
    BY <1>1 DEF Next, vars, disk, Step, Start, Propagate, Run, ResumePhony, ResumeArtifact, ResumeTest,
       ResumePublish, FinishArtifact, FailArtifact, Publish, FinishPublish, RunTest,
       StartBuild, EndBuild, Interrupt, Kill, Over, Remove, PeerPublishes
  <2> QED BY <2>1, <2>2, <2>3, <2>4
<1>2. IInv /\ [Next]_vars =>
        [\A t \in Tests : passed'[<<t, src>>] \notin {passed[<<t, src>>], src, None} => Misled(Input(t))]_vars
  BY <1>1
<1> QED BY <1>2, ShakeInvariant, PTL DEF Spec, MarkersHonest

------------------------------------------------------------------------------
(* What a successful build has tested *)

Exe(t) == Input(Input(t))

\* A test that is through has a marker or has failed, unless its executable was
\* evicted; nothing builds the executable again behind it.
MarkInv(t) ==
  /\ \A v \in Versions : passed[<<t, v>>] # None => (v \notin Bad /\ passed[<<t, v>>] = v) \/ <<t, v>> \in duped
  /\ task[t] = "ran" => saw[t] # None
  /\ task[t] \in {"queued", "running", "ran", "done"} => task[Input(t)] = "done"
  /\ task[Input(t)] = "none" => task[Exe(t)] = "none"
  /\ task[Input(t)] \in {"queued", "running", "ran", "done"} => task[Exe(t)] \in {"none", "done"}
  /\ task[t] = "done" => \/ t \in Xml \cup failures \/ passed[<<t, src>>] # None
                         \/ EntryOf(<<t, src>>) \notin cas

PhonyInv == \A r \in Phonies : task[r] = "done" => \A d \in Deps[r] : task[d] = "done"

\* What the graph says of a test, its published name and its cache entry.
LEMMA TestType ==
  ASSUME NEW t \in Tests
  PROVE  /\ t \in Rules /\ Input(t) \in Rules /\ Exe(t) \in Rules
         /\ Input(t) \in Publishes /\ Exe(t) \in Artifacts
         /\ Deps[t] = {Input(t)} /\ Deps[Input(t)] = {Exe(t)}
         /\ t # Input(t) /\ t # Exe(t) /\ Input(t) # Exe(t) /\ Exe(t) # Root
  BY InputType, Kinds, GraphAssumption, NamesAssumption DEF Rules, Exe

\* A step changes nothing of another rule's task, and what is through stays so.
LEMMA StepOthers ==
  ASSUME IInv, NEW r \in Rules, Step(r), NEW q \in Rules
  PROVE  /\ q # r => task'[q] = task[q] /\ saw'[q] = saw[q]
         /\ task[q] = "done" => task'[q] = "done" /\ q # r
         /\ failures \subseteq failures'
<1>1. task'[q] = IF q = r THEN task'[r] ELSE task[q]
  BY StepActive DEF IInv, TypeOK
<1>2. q # r => saw'[q] = saw[q]
  BY DEF IInv, TypeOK, Step, Start, Propagate, Run, ResumePhony, ResumeArtifact, ResumeTest,
     ResumePublish, FinishArtifact, FailArtifact, Publish, FinishPublish, RunTest, FinishTest
<1>3. failures \subseteq failures'
  BY DEF Step, Start, Propagate, Run, ResumePhony, ResumeArtifact, ResumeTest,
     ResumePublish, FinishArtifact, FailArtifact, Publish, FinishPublish, RunTest, FinishTest
<1> QED BY <1>1, <1>2, <1>3, StepActive DEF Final

\* Markers change at the end of a test, and entries at the end of an artifact.
LEMMA StepDisk ==
  ASSUME IInv, NEW r \in Rules, Step(r)
  PROVE  /\ UNCHANGED <<passed, duped>> \/ FinishTest(r)
         /\ cas' = cas \/ (r \in Artifacts /\ task[r] = "running" /\ cas' = cas \cup {<<r, src>>})
  BY DEF disk, Step, Start, Propagate, Run, ResumePhony, ResumeArtifact, ResumeTest,
     ResumePublish, FinishArtifact, FailArtifact, Publish, FinishPublish, RunTest, FinishTest

\* The executable of a test starts for its publish rule alone.
LEMMA ExeSteps ==
  ASSUME IInv, NEW t \in Tests, MarkInv(t), NEW r \in Rules, Step(r)
  PROVE  /\ (task[Input(t)] = "none" => task[Exe(t)] = "none")'
         /\ (task[Input(t)] \in {"queued", "running", "ran", "done"} => task[Exe(t)] \in {"none", "done"})'
<1> USE TestType, StepOthers
<1> DEFINE p == Input(t)
           a == Exe(t)
<1>1. CASE r = a
  <2>1. task[a] = "none" => task[p] = "waiting"
    BY <1>1, TestsAssumption DEF Step, Start, Demanded, Propagate, Run, ResumePhony, ResumeArtifact, ResumeTest, Ready,
       ResumePublish, FinishArtifact, FailArtifact, Publish, FinishPublish, RunTest, FinishTest, Exe
  <2>2. task[a] # "done" /\ task'[p] = task[p]
    BY <1>1
  <2> QED BY <2>1, <2>2 DEF MarkInv
<1>2. CASE r = p
  <2>1. p \notin Artifacts /\ p \notin Tests /\ p \notin Phonies
    BY Kinds
  <2>2. /\ task'[p] # "none"
        /\ task[p] = "none" /\ task'[p] # "waiting" => task[a] = "none"
        /\ task[p] = "waiting" /\ task'[p] # "failed" => task[a] = "done"
        /\ task[p] \in {"none", "waiting", "queued", "running", "ran"}
    BY <1>2, <2>1 DEF IInv, TypeOK, Goto, Done, Step, Start, Propagate, Run, ResumePhony, ResumeArtifact, ResumeTest,
       Ready, ResumePublish, FinishArtifact, FailArtifact, Publish, FinishPublish, RunTest, FinishTest, MarkInv
  <2>3. task'[a] = task[a]
    BY <1>2
  <2>4. task[p] = "none" => task'[p] \in {"waiting", "done"}
    BY <1>2, <2>1 DEF IInv, TypeOK, Goto, Done, Step, Start, Propagate, Run, ResumePhony, ResumeArtifact, ResumeTest,
       Ready, ResumePublish, FinishArtifact, FailArtifact, Publish, FinishPublish, RunTest, FinishTest
  <2> QED BY <2>2, <2>3, <2>4 DEF MarkInv
<1>3. CASE r # a /\ r # p
  BY <1>3 DEF MarkInv
<1> QED BY <1>1, <1>2, <1>3

\* A step of a task keeps a test's marker true to its task.
LEMMA MarkSteps ==
  ASSUME IInv, NEW t \in Tests, \A u \in Tests : MarkInv(u), NEW r \in Rules, Step(r)
  PROVE  MarkInv(t)'
<1> USE TestType, StepOthers
<1>0. UNCHANGED src /\ src \in Versions
  BY StepActive DEF IInv, TypeOK
<1>1. \A v \in Versions : passed'[<<t, v>>] # None =>
                             (v \notin Bad /\ passed'[<<t, v>>] = v) \/ <<t, v>> \in duped'
  <2>1. UNCHANGED <<passed, duped>> =>
          \A v \in Versions : passed'[<<t, v>>] # None =>
                                 (v \notin Bad /\ passed'[<<t, v>>] = v) \/ <<t, v>> \in duped'
    BY DEF MarkInv
  <2>2. CASE FinishTest(r) /\ saw[r] \in Bad
    <3>1. UNCHANGED <<passed, duped>>
      BY <2>2 DEF FinishTest
    <3> QED BY <2>1, <3>1
  <2>3. CASE FinishTest(r) /\ saw[r] \notin Bad
    <3>1. /\ r \in Tests /\ task[r] = "ran" /\ TestInv(r) /\ PublishInv(Input(r))
      BY <2>3, InputType DEF FinishTest, IInv
    <3>2. saw[r] # src => Misled(Input(r))
      BY <3>1 DEF TestInv, PublishInv, Stale
    <3>3. /\ passed' = [passed EXCEPT ![<<r, src>>] = saw[r]]
          /\ duped' = IF saw[r] # src THEN duped \cup {<<r, src>>} ELSE duped \ {<<r, src>>}
      BY <2>3, <3>2 DEF FinishTest, Mark
    <3>4. ASSUME NEW v \in Versions, passed'[<<t, v>>] # None
          PROVE  (v \notin Bad /\ passed'[<<t, v>>] = v) \/ <<t, v>> \in duped'
      <4>1. CASE t = r /\ v = src
        BY <1>0, <2>3, <3>1, <3>3, <4>1 DEF IInv, TypeOK
      <4>2. CASE ~ (t = r /\ v = src)
        <5>1. <<t, v>> # <<r, src>>
          BY <4>2
        <5>2. passed'[<<t, v>>] = passed[<<t, v>>] /\ (<<t, v>> \in duped => <<t, v>> \in duped')
          BY <3>3, <5>1 DEF IInv, TypeOK
        <5> QED BY <3>4, <5>2 DEF MarkInv
      <4> QED BY <4>1, <4>2
    <3> QED BY <3>4
  <2> QED BY <2>1, <2>2, <2>3, StepDisk
<1>2. CASE r = t
  <2>1. t \notin Artifacts /\ t \notin Publishes /\ t \notin Phonies
    BY Kinds
  <2> USE DEF Goto, Done, Ready
  <2>2. task'[t] = "ran" => saw'[t] # None
    BY <1>2, <2>1 DEF IInv, TypeOK, Step, Start, Propagate, Run, ResumePhony, ResumeArtifact, ResumeTest,
       ResumePublish, FinishArtifact, FailArtifact, Publish, FinishPublish, RunTest, FinishTest
  <2>3. task'[t] \in {"queued", "running", "ran", "done"} => task[Input(t)] = "done"
    BY <1>2, <2>1 DEF IInv, TypeOK, Step, Start, Propagate, Run, ResumePhony, ResumeArtifact, ResumeTest,
       ResumePublish, FinishArtifact, FailArtifact, Publish, FinishPublish, RunTest, FinishTest, MarkInv
  <2>4. ASSUME task'[t] = "done"  PROVE t \in Xml \cup failures' \/ passed'[<<t, src>>] # None
    <3>1. (ResumeTest(t) /\ TestOutput(t)) \/ FinishTest(t)
      BY <1>2, <2>1, <2>4 DEF IInv, TypeOK, Step, Start, Propagate, Run, ResumePhony, ResumeArtifact, ResumeTest,
         ResumePublish, FinishArtifact, FailArtifact, Publish, FinishPublish, RunTest, FinishTest
    <3>2. CASE ResumeTest(t) /\ TestOutput(t)
      BY <3>2 DEF ResumeTest, TestOutput, disk
    <3>3. CASE FinishTest(t)
      BY <1>0, <3>3 DEF FinishTest, Mark, MarkInv, IInv, TypeOK
    <3> QED BY <3>1, <3>2, <3>3
  <2> QED BY <1>0, <1>1, <1>2, <2>2, <2>3, <2>4, ExeSteps DEF MarkInv
<1>3. CASE r # t
  <2>1. passed'[<<t, src>>] = passed[<<t, src>>]
    <3>1. CASE FinishTest(r)
      BY <1>0, <1>3, <3>1 DEF FinishTest, Mark, IInv, TypeOK
    <3> QED BY <3>1, StepDisk
  <2>2. task[t] = "done" /\ EntryOf(<<t, src>>) \notin cas => EntryOf(<<t, src>>) \notin cas'
    <3>1. EntryOf(<<t, src>>) = <<Exe(t), src>>
      BY DEF EntryOf, Exe
    <3>2. task[t] = "done" => task[Exe(t)] # "running"
      BY DEF MarkInv
    <3> QED BY <3>1, <3>2, StepDisk
  <2>3. EntryOf(<<t, src>>)' = EntryOf(<<t, src>>)
    BY <1>0 DEF EntryOf
  <2> QED BY <1>0, <1>1, <1>3, <2>1, <2>2, <2>3, ExeSteps DEF MarkInv
<1> QED BY <1>2, <1>3

LEMMA PhonySteps ==
  ASSUME IInv, PhonyInv, NEW r \in Rules, Step(r)
  PROVE  PhonyInv'
<1> SUFFICES ASSUME NEW q \in Phonies, task'[q] = "done", NEW d \in Deps[q]  PROVE task'[d] = "done"
  BY DEF PhonyInv
<1>1. q \in Rules /\ d \in Rules
  BY GraphAssumption DEF Rules
<1>2. CASE task[q] = "done"
  BY <1>1, <1>2, StepOthers DEF PhonyInv
<1>3. CASE task[q] # "done"
  <2>1. r = q /\ q \notin Artifacts /\ q \notin Tests /\ q \notin Publishes
    BY <1>1, <1>3, StepOthers, Kinds, NamesAssumption
  <2>2. ResumePhony(q)
    BY <1>1, <1>3, <2>1 DEF IInv, TypeOK, Goto, Done, Step, Start, Propagate, Run, ResumePhony, ResumeArtifact,
       ResumeTest, ResumePublish, FinishArtifact, FailArtifact, Publish, FinishPublish, RunTest, FinishTest
  <2> QED BY <1>1, <2>2, StepOthers DEF ResumePhony, Ready
<1> QED BY <1>2, <1>3

TestedInv == IInv /\ PhonyInv /\ \A t \in Tests : MarkInv(t)

\* Around the tasks, only an eviction touches a marker, and with it its entry.
LEMMA TestedOther ==
  ASSUME TestedInv,
         \/ StartBuild \/ EndBuild \/ Interrupt \/ Kill
         \/ \E e \in Entries : Evict(e)
         \/ \E p \in Publishes : Remove(p) \/ \E v \in Versions : PeerPublishes(p, v)
  PROVE  PhonyInv' /\ \A t \in Tests : MarkInv(t)'
<1> USE TestType
<1>1. ASSUME UNCHANGED <<passed, duped>>, \A r \in Rules : task'[r] = "none"
      PROVE  PhonyInv' /\ \A t \in Tests : MarkInv(t)'
  BY <1>1 DEF TestedInv, MarkInv, PhonyInv, Rules
<1>2. CASE StartBuild \/ EndBuild \/ Interrupt \/ Kill
  BY <1>1, <1>2 DEF StartBuild, EndBuild, Interrupt, Kill, Over, Fresh, disk
<1>3. ASSUME NEW p \in Publishes, Remove(p) \/ \E v \in Versions : PeerPublishes(p, v)
      PROVE  PhonyInv' /\ \A t \in Tests : MarkInv(t)'
  BY <1>1, <1>3 DEF Remove, PeerPublishes, process, TestedInv, IInv, IdleInv
<1>4. ASSUME NEW e \in Entries, Evict(e)  PROVE PhonyInv' /\ \A t \in Tests : MarkInv(t)'
  <2>1. UNCHANGED <<src, process>> /\ cas' = cas \ {e}
    BY <1>4 DEF Evict
  <2>2. PhonyInv'
    BY <2>1 DEF TestedInv, PhonyInv, process
  <2>3. ASSUME NEW t \in Tests  PROVE MarkInv(t)'
    <3>1. \A v \in Versions : passed'[<<t, v>>] = IF EntryOf(<<t, v>>) = e THEN None ELSE passed[<<t, v>>]
      BY <1>4 DEF Evict, TestedInv, IInv, TypeOK
    <3>3. \A v \in Versions : <<t, v>> \in duped /\ EntryOf(<<t, v>>) # e => <<t, v>> \in duped'
      BY <1>4 DEF Evict
    <3>2. src \in Versions /\ EntryOf(<<t, src>>)' = EntryOf(<<t, src>>)
      BY <2>1 DEF TestedInv, IInv, TypeOK, EntryOf
    <3> QED BY <2>1, <3>1, <3>2, <3>3 DEF TestedInv, MarkInv, process
  <2> QED BY <2>2, <2>3
<1> QED BY <1>2, <1>3, <1>4

\* When a build succeeds the bytes of its version have passed every test (but those whose
\* output is an XML file), however many builds were killed, peers published and entries
\* were evicted before and meanwhile; unless a stored trace passed off other bytes as
\* theirs, or the executable has been evicted with the marker since.
THEOREM ShakeAllTested == Spec => []AllTested
<1>1. Init => TestedInv
  BY InitInv, TestType DEF TestedInv, Init, PhonyInv, MarkInv, Rules
<1>2. TestedInv /\ [Next]_vars => TestedInv'
  <2> SUFFICES ASSUME TestedInv, [Next]_vars  PROVE TestedInv'
    OBVIOUS
  <2>1. CASE UNCHANGED vars
    <3>1. PhonyInv' /\ \A t \in Tests : MarkInv(t)'
      BY <2>1 DEF vars, disk, process, TestedInv, PhonyInv, MarkInv, EntryOf
    <3>2. IInv'
      BY <2>1, Stutter DEF TestedInv
    <3> QED BY <3>1, <3>2 DEF TestedInv
  <2>2. ASSUME NEW r \in Rules, Step(r)  PROVE TestedInv'
    BY <2>2, StepInv, PhonySteps, MarkSteps DEF TestedInv
  <2>3. CASE Next /\ ~ \E r \in Rules : Step(r)
    BY <2>3, OtherInv, TestedOther DEF TestedInv, Next
  <2> QED BY <2>1, <2>2, <2>3
<1>3. TestedInv => AllTested
  <2> SUFFICES ASSUME TestedInv, Succeeded, NEW t \in Tests \ Xml
               PROVE  \/ src \notin Bad /\ passed[<<t, src>>] = src
                      \/ <<t, src>> \in duped
                      \/ EntryOf(<<t, src>>) \notin cas
    BY DEF AllTested
  <2> DEFINE S == {r \in Rules : task[r] = "done"}
  <2>1. Root \in S
    BY GraphAssumption DEF Succeeded, Rules
  <2>2. \A r \in S \cap Phonies : Deps[r] \subseteq S
    BY GraphAssumption DEF TestedInv, PhonyInv
  <2>3. t \in S
    BY <2>1, <2>2, TestsAssumption
  <2> QED BY <2>3 DEF Succeeded, TestedInv, MarkInv, IInv, TypeOK
<1> QED BY <1>1, <1>2, <1>3, PTL DEF Spec

------------------------------------------------------------------------------
(* What the next build finds *)

\* A trace that verifies while nothing changes.
Vouched(p, trace) == /\ <<Input(p), src>> \in cas /\ OnDisk(p) # None
                     /\ trace = [out |-> shown[p], key |-> src]

\* A rule that needs no command, given the traces of a store.
Current(r, store) ==
  /\ r \in Artifacts => <<r, src>> \in cas
  /\ r \in Publishes => SameFile(r) \/ Vouched(r, store[r])
  /\ r \in Tests => TestOutput(r)

\* What a build has done stays done while nobody else changes a thing.
CalmInv ==
  building /\ calm # "no" =>
    /\ \A e \in Entries : hashes[e] # None => e \in cas
    /\ \A r \in Rules : task[r] = "done" => r \in failures \/ Current(r, traces)
    /\ \A p \in Publishes : task[p] = "ran" => SameFile(p)
    /\ \A t \in Tests : task[t] = "ran" => saw[t] # None /\ (t \in Xml => t \in xml)
    /\ \A r \in Phonies \cup Tests : task[r] = "done" => \A d \in Deps[r] : task[d] = "done"

\* What a step leaves of the disk and the traces.
LEMMA StepKeeps ==
  ASSUME IInv, NEW r \in Rules, Step(r)
  PROVE  /\ cas \subseteq cas' /\ xml \subseteq xml' /\ UNCHANGED <<src, stored, building, calm>>
         /\ \A p \in Publishes \ {r} : shown'[p] = shown[p] /\ traces'[p] = traces[p]
         /\ \A t \in Tests \ {r} : passed'[<<t, src>>] = passed[<<t, src>>]
<1>1. cas \subseteq cas'
  BY StepDisk
<1>2. xml \subseteq xml' /\ UNCHANGED calm
  BY DEF disk, Step, Start, Propagate, Run, ResumePhony, ResumeArtifact, ResumeTest,
     ResumePublish, FinishArtifact, FailArtifact, Publish, FinishPublish, RunTest, FinishTest
<1>3. ASSUME NEW t \in Tests \ {r}  PROVE passed'[<<t, src>>] = passed[<<t, src>>]
  BY StepDisk DEF FinishTest, Mark, IInv, TypeOK
<1> QED BY <1>1, <1>2, <1>3, StepActive, StepNames

\* The first look at a name that leads to a file sees that file.
LEMMA FirstLookSees ==
  ASSUME IInv, NEW p \in Publishes, task[p] = "waiting"
  PROVE  /\ OnDisk(p) # None => Hash(Real(p)) = shown[p]
         /\ (\A e \in Entries : hashes[e] # None => e \in cas) /\ Hash(Real(p)) # None => OnDisk(p) # None
<1>1. Hash(Real(p)) \in {None, shown[p]} /\ resolved[p] = None /\ hashes[p] = None
  BY FirstLook DEF IInv, PublishInv
<1>2. CASE p \in Symlinked /\ shown[p] # None
  <2>1. Real(p) = <<Input(p), shown[p]>> /\ Real(p) \in Entries /\ shown[p] \in Versions
    BY <1>1, <1>2, InputType DEF Real, Entries, IInv, TypeOK, Known
  <2>2. OnDisk(p) # None <=> Real(p) \in cas
    BY <1>2, <2>1, Kinds DEF OnDisk
  <2>3. Real(p) \in cas => OnDisk(Real(p)) = shown[p]
    BY <2>1 DEF OnDisk
  <2>4. Real(p) \notin cas => OnDisk(Real(p)) = None
    BY <2>1 DEF OnDisk
  <2> QED BY <1>1, <1>2, <2>1, <2>2, <2>3, <2>4 DEF Hash
<1>3. CASE ~ (p \in Symlinked /\ shown[p] # None)
  <2>1. Real(p) = p
    BY <1>1, <1>3 DEF Real
  <2>2. OnDisk(p) = shown[p] \/ OnDisk(p) = None
    BY Kinds DEF OnDisk
  <2> QED BY <1>1, <2>1, <2>2 DEF Hash
<1> QED BY <1>2, <1>3

\* A rule that is through needs no command, as long as the build is calm.
LEMMA CalmDone ==
  ASSUME IInv, CalmInv, building, calm # "no", NEW r \in Rules, Step(r), NEW q \in Rules, task'[q] = "done"
  PROVE  q \in failures' \/ Current(q, traces)'
<1> USE DEF Goto, Done, Ready, disk
<1>0. TypeOK /\ src \in Versions /\ UNCHANGED src
  BY StepActive DEF IInv, TypeOK
<1>1. CASE q # r
  <2>1. task[q] = "done" /\ (q \in failures \/ Current(q, traces)) /\ failures \subseteq failures'
    BY <1>1, StepOthers DEF CalmInv
  <2>2. ASSUME q \in Publishes  PROVE (SameFile(q) => SameFile(q)') /\ (Vouched(q, traces[q]) => Vouched(q, traces[q])')
    BY <1>0, <1>1, <2>2, StepKeeps, Kinds DEF SameFile, Vouched, OnDisk
  <2>3. ASSUME q \in Tests  PROVE TestOutput(q) => TestOutput(q)'
    BY <1>0, <1>1, <2>3, StepKeeps DEF TestOutput
  <2> QED BY <1>0, <2>1, <2>2, <2>3, StepKeeps DEF Current
<1>2. CASE q = r /\ r \in Publishes
  <2>1. r \notin Artifacts /\ r \notin Tests /\ r \notin Phonies
    BY <1>2, Kinds
  <2>2. \/ Start(r) /\ SameFile(r) /\ UNCHANGED disk
        \/ ResumePublish(r) /\ Verified(r) /\ task[r] = "waiting" /\ UNCHANGED <<disk, traces>>
        \/ FinishPublish(r) /\ task[r] = "ran" /\ UNCHANGED disk
    <3>1. \/ Start(r) \/ ResumePublish(r) \/ FinishPublish(r)
          \/ Propagate(r) \/ Run(r) \/ Publish(r)
      BY <2>1 DEF Step, ResumePhony, ResumeArtifact, ResumeTest, FinishArtifact, FailArtifact, RunTest, FinishTest
    <3>2. ~ (Propagate(r) \/ Run(r) \/ Publish(r))
      BY <1>0, <1>2 DEF TypeOK, Propagate, Run, Publish
    <3>3. CASE Start(r)
      BY <1>0, <1>2, <2>1, <3>3 DEF TypeOK, Start
    <3>4. CASE ResumePublish(r)
      BY <1>0, <1>2, <3>4 DEF TypeOK, ResumePublish
    <3>5. CASE FinishPublish(r)
      BY <3>5 DEF FinishPublish
    <3> QED BY <3>1, <3>2, <3>3, <3>4, <3>5
  <2>3. CASE UNCHANGED disk /\ SameFile(r)
    BY <1>2, <2>1, <2>3 DEF Current, SameFile
  <2>4. CASE Verified(r) /\ task[r] = "waiting" /\ UNCHANGED <<disk, traces>>
    <3>1. traces[r] = [out |-> Hash(Real(r)), key |-> src] /\ Hash(Real(r)) \in Versions
      BY <1>0, <1>2, <2>4 DEF Verified, TypeOK, Traces
    <3>2. OnDisk(r) # None /\ Hash(Real(r)) = shown[r]
      BY <1>2, <2>4, <3>1, FirstLookSees, Kinds DEF CalmInv
    <3>3. Vouched(r, traces[r])
      BY <2>4, <3>1, <3>2 DEF Vouched, Verified
    <3>4. Vouched(r, traces[r])'
      BY <2>4, <3>3 DEF Vouched, OnDisk
    <3> QED BY <1>2, <2>1, <3>4 DEF Current
  <2> QED BY <1>2, <2>2, <2>3, <2>4 DEF CalmInv
<1>3. CASE q = r /\ r \in Artifacts
  <2>1. r \notin Publishes /\ r \notin Tests /\ r \notin Phonies
    BY <1>3, NamesAssumption, Kinds
  <2>2. (<<r, src>> \in cas)'
    BY <1>0, <1>3, <2>1 DEF TypeOK, Step, Start, Propagate, Run, ResumePhony, ResumeArtifact, ResumeTest,
       ResumePublish, FinishArtifact, FailArtifact, Publish, FinishPublish, RunTest, FinishTest
  <2> QED BY <1>3, <2>1, <2>2 DEF Current
<1>4. CASE q = r /\ r \in Tests
  <2>1. r \notin Publishes /\ r \notin Artifacts /\ r \notin Phonies
    BY <1>4, Kinds
  <2>2. \/ TestOutput(r) /\ UNCHANGED disk
        \/ FinishTest(r) /\ task[r] = "ran"
    BY <1>0, <1>4, <2>1 DEF TypeOK, Step, Start, Propagate, Run, ResumePhony, ResumeArtifact, ResumeTest,
       ResumePublish, FinishArtifact, FailArtifact, Publish, FinishPublish, RunTest, FinishTest
  <2>3. CASE TestOutput(r) /\ UNCHANGED disk
    BY <1>4, <2>1, <2>3 DEF Current, TestOutput
  <2>4. CASE FinishTest(r) /\ task[r] = "ran"
    <3>1. saw[r] # None /\ (r \in Xml => r \in xml) /\ xml' = xml
      BY <1>4, <2>4 DEF CalmInv, FinishTest
    <3>2. r \in failures' \/ passed'[<<r, src>>] = saw[r]
      BY <1>0, <1>4, <2>4 DEF FinishTest, Mark, TypeOK
    <3> QED BY <1>0, <1>4, <2>1, <3>1, <3>2 DEF Current, TestOutput
  <2> QED BY <2>2, <2>3, <2>4
<1>5. CASE q = r /\ r \in Phonies
  BY <1>5, Kinds, NamesAssumption DEF Current
<1> QED BY <1>1, <1>2, <1>3, <1>4, <1>5 DEF Rules

\* A phony rule or a test is through after all it awaits.
LEMMA DoneAfterDeps ==
  ASSUME IInv, CalmInv, building, calm # "no", NEW r \in Rules, Step(r),
         NEW q \in Phonies \cup Tests, task'[q] = "done", NEW d \in Deps[q]
  PROVE  task'[d] = "done"
<1>1. q \in Rules /\ d \in Rules
  BY GraphAssumption DEF Rules
<1>2. CASE task[q] = "done"
  BY <1>1, <1>2, StepOthers DEF CalmInv
<1>3. CASE task[q] # "done"
  <2>1. r = q /\ q \notin Artifacts /\ q \notin Publishes
    BY <1>1, <1>3, StepOthers, Kinds, NamesAssumption
  <2>2. ResumePhony(q) \/ ResumeTest(q) \/ FinishTest(q)
    BY <1>1, <1>3, <2>1 DEF IInv, TypeOK, Goto, Done, Step, Start, Propagate, Run, ResumePhony, ResumeArtifact,
       ResumeTest, ResumePublish, FinishArtifact, FailArtifact, Publish, FinishPublish, RunTest, FinishTest
  <2>3. FinishTest(q) => task[d] = "done"
    BY InputType DEF FinishTest, IInv, TestInv
  <2> QED BY <1>1, <2>2, <2>3, StepOthers DEF ResumePhony, ResumeTest, Ready
<1> QED BY <1>2, <1>3

LEMMA CalmSteps ==
  ASSUME IInv, CalmInv, NEW r \in Rules, Step(r)
  PROVE  CalmInv'
<1> SUFFICES ASSUME building, calm # "no"  PROVE CalmInv'
  BY StepKeeps DEF CalmInv
<1> USE DEF Goto, Done, Ready, disk
<1>1. \A e \in Entries : hashes'[e] # None => e \in cas'
  <2>1. CASE r \in Publishes /\ Look(r)
    <3>1. \A e \in Entries : Hash(e) # None => e \in cas
      BY DEF CalmInv, Hash, OnDisk
    <3>2. \A e \in Entries : hashes'[e] \in {hashes[e], Hash(e)}
      BY <2>1, Kinds DEF Look, IInv, TypeOK
    <3> QED BY <3>1, <3>2, StepKeeps DEF CalmInv
  <2> QED BY <2>1, StepCaches, StepKeeps DEF CalmInv
<1>2. ASSUME NEW p \in Publishes, task'[p] = "ran"  PROVE SameFile(p)'
  <2>1. CASE p # r
    BY <1>2, <2>1, StepKeeps, StepNames DEF CalmInv, SameFile
  <2>2. CASE p = r
    <3>1. r \notin Artifacts /\ r \notin Tests /\ r \notin Phonies
      BY <2>2, Kinds
    <3>2. Publish(r) /\ shown'[r] = src /\ <<Input(r), src>> \in cas
      BY <1>2, <2>2, <3>1 DEF IInv, TypeOK, Step, Start, Propagate, Run, ResumePhony, ResumeArtifact, ResumeTest,
         ResumePublish, FinishArtifact, FailArtifact, Publish, FinishPublish, RunTest, FinishTest
    <3> QED BY <2>2, <3>2, StepKeeps DEF SameFile
  <2> QED BY <2>1, <2>2
<1>3. ASSUME NEW t \in Tests, task'[t] = "ran"  PROVE saw'[t] # None /\ (t \in Xml => t \in xml')
  <2>0. t \in Rules
    BY DEF Rules
  <2>1. CASE t # r
    BY <1>3, <2>0, <2>1, StepKeeps, StepOthers DEF CalmInv
  <2>2. CASE t = r
    <3>1. r \notin Artifacts /\ r \notin Publishes /\ r \notin Phonies
      BY <2>2, Kinds
    <3>2. RunTest(r)
      BY <1>3, <2>2, <3>1 DEF IInv, TypeOK, Step, Start, Propagate, Run, ResumePhony, ResumeArtifact, ResumeTest,
         ResumePublish, FinishArtifact, FailArtifact, Publish, FinishPublish, RunTest, FinishTest
    <3> QED BY <1>3, <2>2, <3>2 DEF RunTest, IInv, TypeOK
  <2> QED BY <2>1, <2>2
<1>4. \A q \in Rules : task'[q] = "done" => (q \in failures' \/ Current(q, traces)')
  BY CalmDone
<1>5. \A q \in Phonies \cup Tests : task'[q] = "done" => \A d \in Deps[q] : task'[d] = "done"
  BY DoneAfterDeps
<1> QED BY <1>1, <1>2, <1>3, <1>4, <1>5 DEF CalmInv

\* Rules that need no command, with all that a phony rule or a test among them awaits.
Settled(S) == /\ Root \in S
              /\ \A r \in S : Current(r, stored)
              /\ \A r \in S \cap (Phonies \cup Tests) : Deps[r] \subseteq S

\* A build that starts nothing, and asks only for such rules and their entries.
Quiet(S) ==
  \A r \in Rules :
    /\ ~ changed[r]
    /\ task[r] # "none" =>
         /\ r \in S \/ (r \in Artifacts /\ <<r, src>> \in cas)
         /\ task[r] = "done" \/ (task[r] = "waiting" /\ r \notin Artifacts /\ (r \in Publishes => ~ SameFile(r)))

NoOpInv == /\ ~ building => calm # "once"
           /\ calm = "twice" => \E S \in SUBSET Rules : Settled(S) /\ (building => Quiet(S))

LEMMA SettledSame ==
  ASSUME UNCHANGED <<disk, stored>>, NEW S \in SUBSET Rules, Settled(S)
  PROVE  Settled(S)' /\ \A p \in Publishes : SameFile(p)' <=> SameFile(p)
<1> USE DEF disk
<1>1. ASSUME NEW r \in Rules, Current(r, stored)  PROVE Current(r, stored)'
  <2>1. r \in Publishes => (SameFile(r) => SameFile(r)') /\ (Vouched(r, stored[r]) => Vouched(r, stored[r])')
    BY DEF SameFile, Vouched, OnDisk
  <2>2. TestOutput(r) => TestOutput(r)'
    BY DEF TestOutput
  <2> QED BY <1>1, <2>1, <2>2 DEF Current
<1>2. \A p \in Publishes : SameFile(p)' <=> SameFile(p)
  BY DEF SameFile
<1> QED BY <1>1, <1>2 DEF Settled

\* In such a build every task looks, waits and is through.
LEMMA QuietSteps ==
  ASSUME IInv, CalmInv, calm = "twice", building, NEW S \in SUBSET Rules, Settled(S), Quiet(S),
         NEW r \in Rules, Step(r)
  PROVE  Settled(S)' /\ Quiet(S)'
<1> USE DEF Goto, Done, Ready, disk
<1>0. /\ TypeOK /\ src \in Versions /\ Root \notin Artifacts
      /\ r \in Artifacts => r \notin Publishes /\ r \notin Tests /\ r \notin Phonies
  BY Kinds, GraphAssumption, NamesAssumption DEF IInv, TypeOK
<1>1. task[r] \in {"none", "waiting"}
  BY StepActive DEF Quiet, Final
<1>2. \A d \in Rules : task[d] # "failed" /\ (task[d] = "done" => ~ changed[d])
  BY DEF Quiet
<1>3. \A q \in Rules : task[q] = "waiting" => q \in S /\ Current(q, stored)
  BY DEF Quiet, Settled
<1>4. ~ Propagate(r)
  BY <1>2, GraphAssumption DEF Propagate
<1>5. Ready(r) => Rebuilt(r) = FALSE
  BY <1>2, GraphAssumption DEF Rebuilt
<1>6. CASE Start(r)
  <2>1. r \in S \/ (r \in Artifacts /\ <<r, src>> \in cas)
    <3>1. CASE r = Root
      BY <3>1 DEF Settled
    <3>2. ASSUME NEW q \in Rules, task[q] = "waiting", r \in Deps[q]  PROVE r \in S \/ (r \in Artifacts /\ <<r, src>> \in cas)
      <4>1. q \in S /\ q \notin Artifacts /\ (q \in Publishes => ~ SameFile(q) /\ Current(q, stored))
        BY <1>3, <3>2 DEF Quiet
      <4>2. CASE q \in Publishes
        BY <3>2, <4>1, <4>2, InputType DEF Current, Vouched
      <4>3. CASE q \in Phonies \cup Tests
        BY <3>2, <4>1, <4>3 DEF Settled
      <4> QED BY <4>1, <4>2, <4>3 DEF Rules
    <3> QED BY <1>6, <3>1, <3>2 DEF Start, Demanded
  <2>2. r \in Artifacts => <<r, src>> \in cas
    BY <2>1 DEF Settled, Current
  <2>3. UNCHANGED <<disk, stored>> /\ \A q \in Rules \ {r} : task'[q] = task[q] /\ changed'[q] = changed[q]
    BY <1>0, <1>6 DEF Start, TypeOK
  <2>4. /\ task'[r] = "done" \/ (task'[r] = "waiting" /\ r \notin Artifacts /\ (r \in Publishes => ~ SameFile(r)))
        /\ task'[r] = "done" => ~ changed'[r]
        /\ changed'[r] \in {changed[r], FALSE}
    BY <1>0, <1>6, <2>2 DEF Start, TypeOK
  <2>5. Settled(S)' /\ UNCHANGED <<src, cas>> /\ \A p \in Publishes : SameFile(p)' <=> SameFile(p)
    BY <2>3, SettledSame
  <2> HIDE DEF disk, Done, Goto
  <2> QED BY <2>1, <2>3, <2>4, <2>5 DEF Quiet
<1>7. CASE task[r] = "waiting"
  <2>1. r \in S /\ r \notin Artifacts /\ ~ changed[r] /\ Current(r, stored) /\ (r \in Publishes => ~ SameFile(r))
    BY <1>3, <1>7 DEF Quiet
  <2>2. r \in Publishes => Verified(r)
    <3> SUFFICES ASSUME r \in Publishes  PROVE Verified(r)
      OBVIOUS
    <3>1. Vouched(r, stored[r]) /\ traces[r] = stored[r]
      BY <1>7, <2>1 DEF Current, IInv, PublishInv
    <3>2. Hash(Real(r)) = shown[r]
      BY <1>7, <3>1, FirstLookSees DEF Vouched
    <3>3. traces[r] # None
      <4>1. shown[r] \in Versions
        BY <1>0, <3>1, <3>2, ReadType, Kinds DEF Vouched, TypeOK, OnDisk, Known
      <4> QED BY <1>0, <3>1, <4>1, NamesAssumption DEF Vouched
    <3> QED BY <3>1, <3>2, <3>3 DEF Verified, Vouched
  <2>3. /\ UNCHANGED <<disk, stored>> /\ task' = [task EXCEPT ![r] = "done"]
        /\ changed' = [changed EXCEPT ![r] = FALSE]
    <3>1. CASE ResumePhony(r)
      BY <1>5, <3>1 DEF ResumePhony
    <3>2. CASE ResumeTest(r)
      BY <2>1, <3>2 DEF ResumeTest, Current
    <3>3. CASE ResumePublish(r)
      BY <1>5, <2>2, <3>3 DEF ResumePublish
    <3> QED BY <1>4, <1>7, <2>1, <3>1, <3>2, <3>3 DEF Step, Start, Propagate, Run, ResumeArtifact,
               FinishArtifact, FailArtifact, Publish, FinishPublish, RunTest, FinishTest
  <2>4. Settled(S)' /\ UNCHANGED <<src, cas>> /\ \A p \in Publishes : SameFile(p)' <=> SameFile(p)
    BY <2>3, SettledSame
  <2>5. \A q \in Rules : IF q = r THEN task'[q] = "done" /\ ~ changed'[q]
                                  ELSE task'[q] = task[q] /\ changed'[q] = changed[q]
    BY <1>0, <2>3 DEF TypeOK
  <2> HIDE DEF disk
  <2> QED BY <2>1, <2>4, <2>5 DEF Quiet
<1> QED BY <1>1, <1>4, <1>6, <1>7 DEF Step, Start, Propagate, Run, ResumePhony, ResumeArtifact, ResumeTest,
           ResumePublish, FinishArtifact, FailArtifact, Publish, FinishPublish, RunTest, FinishTest

\* Around the tasks, whoever changes a thing disturbs the calm.
LEMMA NoOpOther ==
  ASSUME IInv, CalmInv, NoOpInv,
         \/ StartBuild \/ EndBuild \/ Interrupt \/ Kill
         \/ \E e \in Entries : Evict(e)
         \/ \E p \in Publishes : Remove(p) \/ \E v \in Versions : PeerPublishes(p, v)
  PROVE  CalmInv' /\ NoOpInv'
<1>1. CASE StartBuild
  <2>1. /\ building' /\ calm' \in {"once", "twice"} /\ UNCHANGED <<cas, shown, passed, xml, stored>>
        /\ calm' = "twice" => calm = "twice" /\ UNCHANGED src
        /\ \A r \in Rules : task'[r] = "none" /\ changed'[r] = FALSE
        /\ \A n \in Names : hashes'[n] = None
    BY <1>1 DEF StartBuild, Fresh
  <2>2. CalmInv'
    BY <2>1, Kinds DEF CalmInv, Rules
  <2>3. ASSUME calm' = "twice"  PROVE (\E S \in SUBSET Rules : Settled(S) /\ Quiet(S))'
    <3>1. PICK S \in SUBSET Rules : Settled(S)
      BY <2>1, <2>3 DEF NoOpInv
    <3>2. Settled(S)'
      BY <2>1, <2>3, <3>1, SettledSame DEF disk
    <3>3. Quiet(S)'
      BY <2>1 DEF Quiet
    <3> QED BY <3>2, <3>3
  <2> QED BY <2>1, <2>2, <2>3 DEF NoOpInv
<1>2. CASE EndBuild
  <2>1. building /\ ~ building' /\ stored' = traces /\ UNCHANGED disk
        /\ calm' = IF Succeeded /\ calm # "no" THEN "twice" ELSE "no"
    BY <1>2 DEF EndBuild, Over
  <2>2. ASSUME Succeeded, calm # "no"  PROVE \E S \in SUBSET Rules : Settled(S)'
    <3>0. PICK S \in SUBSET Rules : \A r \in Rules : r \in S <=> task[r] = "done"
      <4> WITNESS {r \in Rules : task[r] = "done"} \in SUBSET Rules
      <4> QED OBVIOUS
    <3>1. Root \in S
      BY <2>2, <3>0, GraphAssumption DEF Succeeded, Rules
    <3>2. ASSUME NEW r \in S  PROVE Current(r, stored)'
      <4>1. Current(r, traces)
        BY <2>1, <2>2, <3>0 DEF CalmInv, Succeeded
      <4>2. r \in Publishes => (SameFile(r) => SameFile(r)') /\ (Vouched(r, traces[r]) => Vouched(r, stored[r])')
        BY <2>1 DEF SameFile, Vouched, OnDisk, disk
      <4>3. TestOutput(r) => TestOutput(r)'
        BY <2>1 DEF TestOutput, disk
      <4> QED BY <2>1, <4>1, <4>2, <4>3 DEF Current, disk
    <3>3. \A r \in S \cap (Phonies \cup Tests) : Deps[r] \subseteq S
      BY <2>1, <2>2, <3>0, GraphAssumption DEF CalmInv
    <3> QED BY <3>1, <3>2, <3>3 DEF Settled
  <2> QED BY <2>1, <2>2 DEF CalmInv, NoOpInv
<1>3. CASE Interrupt \/ Kill
  BY <1>3 DEF Interrupt, Kill, Over, CalmInv, NoOpInv
<1>4. ASSUME NEW e \in Entries, Evict(e)  PROVE CalmInv' /\ NoOpInv'
  BY <1>4 DEF Evict, CalmInv, NoOpInv
<1>5. ASSUME NEW p \in Publishes, Remove(p) \/ \E v \in Versions : PeerPublishes(p, v)  PROVE CalmInv' /\ NoOpInv'
  BY <1>5 DEF Remove, PeerPublishes, CalmInv, NoOpInv
<1> QED BY <1>1, <1>2, <1>3, <1>4, <1>5

\* After a build that succeeded, undisturbed, the next one at the same version
\* runs no command, even with names that are out of date on the word of a trace.
THEOREM ShakeNoOpRebuild == Spec => []NoOpRebuild
<1> DEFINE N == CalmInv /\ NoOpInv
<1>1. Init => N
  BY DEF Init, CalmInv, NoOpInv
<1>2. IInv /\ N /\ [Next]_vars => N'
  <2> SUFFICES ASSUME IInv, CalmInv, NoOpInv, [Next]_vars  PROVE CalmInv' /\ NoOpInv'
    OBVIOUS
  <2>1. CASE UNCHANGED vars
    <3>1. UNCHANGED <<disk, stored, traces, building, calm, task, changed, saw, hashes, failures>>
      BY <2>1 DEF vars, process
    <3>2. CalmInv'
      BY <3>1 DEF disk, CalmInv, Current, SameFile, Vouched, OnDisk, TestOutput
    <3>3. ASSUME NEW S \in SUBSET Rules, Settled(S)  PROVE Settled(S)' /\ (Quiet(S) => Quiet(S)')
      BY <3>1, <3>3, SettledSame DEF Quiet, disk
    <3> QED BY <3>1, <3>2, <3>3 DEF NoOpInv
  <2>2. ASSUME NEW r \in Rules, Step(r)  PROVE CalmInv' /\ NoOpInv'
    <3>1. building /\ UNCHANGED <<building, calm>>
      BY <2>2, StepActive, StepKeeps
    <3>2. ASSUME calm = "twice"  PROVE \E S \in SUBSET Rules : Settled(S)' /\ Quiet(S)'
      BY <2>2, <3>1, <3>2, QuietSteps DEF NoOpInv
    <3> QED BY <2>2, <3>1, <3>2, CalmSteps DEF NoOpInv
  <2>3. CASE Next /\ ~ \E r \in Rules : Step(r)
    BY <2>3, NoOpOther DEF Next
  <2> QED BY <2>1, <2>2, <2>3
<1>3. N => NoOpRebuild
  BY DEF NoOpInv, Quiet, NoOpRebuild
<1> QED BY <1>1, <1>2, <1>3, ShakeInvariant, PTL DEF Spec
================================================================================
