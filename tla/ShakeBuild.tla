------------------------------ MODULE ShakeBuild ------------------------------
(***************************************************************************)
(* trace_backend.ShakeBackend: builds one after the other over one cache,  *)
(* one trace store and one bin directory.  Within a build every rule has   *)
(* one memoised task of the event loop; an action is what a task does      *)
(* between two awaits, or what its command does.                           *)
(*                                                                         *)
(* A file's bytes, and their hash, are the version of the sources they     *)
(* were built from.  Cache entries and test markers carry that version in  *)
(* their name; a published name (bin/foo) and a JUnit XML file do not.     *)
(***************************************************************************)
EXTENDS Naturals, FiniteSets

CONSTANTS Artifacts, Publishes, Tests, Phonies, \* rules by type (names)
          Deps,      \* the rules each rule awaits
          Root,      \* the target of execute()
          Versions,  \* of the sources
          Bad,       \* those whose tests fail
          Symlinked, \* published across file systems: EXDEV, so by symlink
          Xml,       \* tests with a framework, under --test-xml-dir
          Slots,     \* of the PriorityGate
          MaxBuilds, \* bound on the builds of a behaviour
          None

Rules == Artifacts \cup Publishes \cup Tests \cup Phonies

ASSUME GraphAssumption ==
  /\ Deps \in [Rules -> SUBSET Rules] /\ Root \in Phonies
  /\ \A p \in Publishes : \E a \in Artifacts : Deps[p] = {a}
  /\ \A t \in Tests : \E p \in Publishes : Deps[t] = {p}
  /\ None \notin Versions /\ Bad \subseteq Versions
  /\ Symlinked \subseteq Publishes /\ Xml \subseteq Tests
ASSUME NamesAssumption ==
  /\ \A r \in Publishes : r \notin Artifacts \cup Tests \cup Phonies \cup (Artifacts \X Versions)
  /\ \A r \in Tests : r \notin Artifacts \cup Phonies
  /\ \A r \in Artifacts : r \notin Phonies
  /\ None \notin Publishes \cup (Artifacts \X Versions)
  /\ None \notin [out : Versions, key : Versions]
ASSUME BoundsAssumption == Slots \in Nat \ {0} /\ MaxBuilds \in Nat

Input(r) == CHOOSE d \in Deps[r] : TRUE
EntryOf(m) == <<Input(Input(m[1])), m[2]>> \* of a test marker, beside its executable

ASSUME TestsAssumption ==
  \* from phony rule to phony rule ("all", "runtests") the root awaits every test
  /\ \A S \in SUBSET Rules :
       Root \in S /\ (\A r \in S \cap Phonies : Deps[r] \subseteq S) => Tests \subseteq S
  \* the cache entry of a tested executable is an input of its publish rule alone
  /\ \A t \in Tests : \A r \in Rules : Input(Input(t)) \in Deps[r] => r = Input(t)

VARIABLES src,      \* the version of the sources
          cas,      \* cache entries <<artifact, version>>
          shown,    \* the version each published name leads to
          passed,   \* success markers: the version that ran when they were touched
          xml,      \* tests whose XML file is there
          stored,   \* .ct-traces.json: [out, key] of each publish rule
          builds,   \* builds so far (bounded)
          building,
          task, changed, \* each rule's task and its result
          saw,      \* what a task holds on to: old_hash, or the bytes a test ran
          resolved, \* the process's cache of real paths
          hashes,   \* the process's hash registry, by real path
          traces,   \* the store in memory
          failures, \* _test_failures
          duped,    \* markers touched for bytes that a trace passed off (AllTested reads it)
          calm      \* nothing but this build, or a whole build and this one, has changed
                    \* a thing: "once" or "twice" (the properties read it)

disk == <<src, cas, shown, passed, xml>>
process == <<task, changed, saw, resolved, hashes, traces, failures>>
vars == <<disk, stored, builds, building, process, duped, calm>>

Entries == Artifacts \X Versions
Names == Entries \cup Publishes
Known == Versions \cup {None}
Traces == [out : Versions, key : Versions] \cup {None}
Final == {"done", "failed"}

TypeOK ==
  /\ src \in Versions /\ cas \subseteq Entries /\ xml \subseteq Tests
  /\ shown \in [Publishes -> Known] /\ passed \in [Tests \X Versions -> Known]
  /\ stored \in [Publishes -> Traces] /\ traces \in [Publishes -> Traces]
  /\ builds \in 0..MaxBuilds /\ building \in BOOLEAN /\ calm \in {"no", "once", "twice"}
  /\ duped \subseteq Tests \X Versions
  /\ task \in [Rules -> {"none", "waiting", "queued", "running", "ran"} \cup Final]
  /\ changed \in [Rules -> BOOLEAN] /\ saw \in [Rules -> Known]
  /\ resolved \in [Publishes -> Names \cup {None}]
  /\ hashes \in [Names -> Known] /\ failures \subseteq Tests

\* What a process starts with.
Fresh == /\ task' = [r \in Rules |-> "none"]
         /\ changed' = [r \in Rules |-> FALSE]
         /\ saw' = [r \in Rules |-> None]
         /\ resolved' = [p \in Publishes |-> None]
         /\ hashes' = [n \in Names |-> None]
         /\ failures' = {}

Init == /\ src \in Versions /\ cas = {} /\ xml = {}
        /\ shown = [p \in Publishes |-> None]
        /\ passed = [m \in Tests \X Versions |-> None] /\ duped = {}
        /\ stored = [p \in Publishes |-> None] /\ traces = stored
        /\ builds = 0 /\ building = FALSE /\ calm = "no"
        /\ task = [r \in Rules |-> "none"] /\ changed = [r \in Rules |-> FALSE]
        /\ saw = [r \in Rules |-> None] /\ resolved = [p \in Publishes |-> None]
        /\ hashes = [n \in Names |-> None]
        /\ failures = {}
------------------------------------------------------------------------------
(* Files, and global_hash_registry.get_file_hash *)

\* The bytes that opening a name finds.
OnDisk(n) == IF n \in Entries THEN IF n \in cas THEN n[2] ELSE None
             ELSE IF n \in Symlinked /\ <<Input(n), shown[n]>> \notin cas THEN None
             ELSE shown[n]

\* wrappedos.realpath answers from its cache; a hard link is a name of its own.
Real(p) == IF resolved[p] # None THEN resolved[p]
           ELSE IF p \in Symlinked /\ shown[p] # None THEN <<Input(p), shown[p]>>
           ELSE p

\* The registry answers for a path it has hashed before, whatever is there now.
Hash(n) == IF hashes[n] # None THEN hashes[n] ELSE OnDisk(n)
Look(p) == /\ resolved' = [resolved EXCEPT ![p] = Real(p)]
           /\ hashes' = [hashes EXCEPT ![Real(p)] = Hash(Real(p))]

\* Mutant: the short-circuit of a published name is lost.
NeverSame(p) == FALSE

\* os.path.samefile(target, input)
SameFile(p) == shown[p] = src /\ <<Input(p), src>> \in cas

TestOutput(t) == IF t \in Xml THEN t \in xml ELSE passed[<<t, src>>] # None

Goto(r, l) == task' = [task EXCEPT ![r] = l]
Done(r, result) == /\ Goto(r, "done")
                   /\ changed' = [changed EXCEPT ![r] = result]
------------------------------------------------------------------------------
(* _do_build *)

Demanded(r) == r = Root \/ \E q \in Rules : task[q] = "waiting" /\ r \in Deps[q]

\* The short-circuit for what is there already; otherwise SUSPEND.
Start(r) == /\ building /\ task[r] = "none" /\ Demanded(r)
            /\ IF \/ r \in Artifacts /\ <<r, src>> \in cas
                  \/ r \in Publishes /\ SameFile(r)
               THEN Done(r, FALSE)
               ELSE Goto(r, "waiting") /\ UNCHANGED changed
            /\ UNCHANGED <<disk, stored, builds, building, saw, resolved, hashes, traces, failures, duped, calm>>

Ready(r) == task[r] = "waiting" /\ \A d \in Deps[r] : task[d] = "done"
Rebuilt(r) == \E d \in Deps[r] : changed[d]

ResumePhony(r) == /\ r \in Phonies /\ Ready(r)
                  /\ Done(r, Rebuilt(r))
                  /\ UNCHANGED <<disk, stored, builds, building, saw, resolved, hashes, traces, failures, duped, calm>>

ResumeArtifact(r) == /\ r \in Artifacts /\ Ready(r)
                     /\ Goto(r, "queued")
                     /\ UNCHANGED <<disk, stored, builds, building, changed, saw, resolved, hashes, traces, failures, duped, calm>>

\* The rerun-skip predicate looks at rule.output alone.
ResumeTest(r) == /\ r \in Tests /\ Ready(r)
                 /\ IF TestOutput(r) THEN Done(r, FALSE)
                                     ELSE Goto(r, "queued") /\ UNCHANGED changed
                 /\ UNCHANGED <<disk, stored, builds, building, saw, resolved, hashes, traces, failures, duped, calm>>

\* Mutant: the command hash is not compared.
VerifiedAnyCommand(r) == /\ traces[r] # None /\ traces[r].out = Hash(Real(r))
                         /\ <<Input(r), src>> \in cas

\* VERIFY TRACE: same output hash, same command (its cas path) and inputs.
Verified(r) == /\ traces[r] # None
               /\ traces[r] = [out |-> Hash(Real(r)), key |-> src]
               /\ <<Input(r), src>> \in cas

\* VERIFY TRACE unless an input was rebuilt, else on to EXECUTE with old_hash.
ResumePublish(r) ==
  /\ r \in Publishes /\ Ready(r)
  /\ IF ~ Rebuilt(r) /\ Verified(r)
     THEN Done(r, FALSE) /\ UNCHANGED saw
     ELSE /\ Goto(r, "queued")
          /\ saw' = [saw EXCEPT ![r] = IF OnDisk(r) = None THEN None ELSE Hash(Real(r))]
          /\ UNCHANGED changed
  /\ IF OnDisk(r) # None \/ (~ Rebuilt(r) /\ traces[r] # None)
     THEN Look(r) ELSE UNCHANGED <<resolved, hashes>>
  /\ UNCHANGED <<disk, stored, builds, building, traces, failures, duped, calm>>

\* Mutant: a dependency's exception wakes nobody.
NeverPropagates(r) == FALSE /\ r \in Rules /\ UNCHANGED vars

\* gather: the first exception of a dependency is raised in whoever awaits it.
Propagate(r) == /\ task[r] = "waiting" /\ \E d \in Deps[r] : task[d] = "failed"
                /\ Goto(r, "failed")
                /\ UNCHANGED <<disk, stored, builds, building, changed, saw, resolved, hashes, traces, failures, duped, calm>>

\* A slot is held from the command's start to the task's next step (PriorityGate).
Running == {r \in Rules : task[r] \in {"running", "ran"}}

Run(r) == /\ task[r] = "queued" /\ Cardinality(Running) < Slots
          /\ Goto(r, "running")
          /\ UNCHANGED <<disk, stored, builds, building, changed, saw, resolved, hashes, traces, failures, duped, calm>>

\* A compiler or linker ends; the task renames its output into the cache.
FinishArtifact(r) ==
  /\ r \in Artifacts /\ task[r] = "running"
  /\ \A d \in Deps[r] \cap Artifacts : <<d, src>> \in cas
  /\ cas' = cas \cup {<<r, src>>}
  /\ Done(r, TRUE)
  /\ UNCHANGED <<src, shown, passed, xml, stored, builds, building, saw, resolved, hashes, traces, failures, duped, calm>>

\* A compile error, or a dependency that a trim took away.
FailArtifact(r) == /\ r \in Artifacts /\ task[r] = "running"
                   /\ Goto(r, "failed")
                   /\ UNCHANGED <<disk, stored, builds, building, changed, saw, resolved, hashes, traces, failures, duped, calm>>

\* ct-cas-publish, which fails when a trim took the entry away...
Publish(r) ==
  /\ r \in Publishes /\ task[r] = "running"
  /\ IF <<Input(r), src>> \in cas
     THEN shown' = [shown EXCEPT ![r] = src] /\ Goto(r, "ran")
     ELSE Goto(r, "failed") /\ UNCHANGED shown
  /\ UNCHANGED <<src, cas, passed, xml, stored, builds, building, changed, saw, resolved, hashes, traces, failures, duped, calm>>

\* ... and the task after it: new_hash, the trace, EARLY CUTOFF.  A trace without
\* its input (evicted meanwhile) verifies nothing.
FinishPublish(r) ==
  /\ r \in Publishes /\ task[r] = "ran"
  /\ LET new == Hash(Real(r))
     IN  IF new = None
         THEN Goto(r, "failed") /\ UNCHANGED <<changed, traces>>
         ELSE /\ Done(r, saw[r] # new)
              /\ traces' = [traces EXCEPT ![r] = IF <<Input(r), src>> \in cas
                                                 THEN [out |-> new, key |-> src] ELSE None]
  /\ Look(r)
  /\ UNCHANGED <<disk, stored, builds, building, saw, failures, duped, calm>>

\* The test executable runs, by its published name.
RunTest(r) ==
  /\ r \in Tests /\ task[r] = "running"
  /\ LET bytes == OnDisk(Input(r))
     IN  IF bytes = None
         THEN Goto(r, "failed") /\ UNCHANGED <<saw, xml>>
         ELSE /\ saw' = [saw EXCEPT ![r] = bytes]
              /\ xml' = IF r \in Xml THEN xml \cup {r} ELSE xml
              /\ Goto(r, "ran")
  /\ UNCHANGED <<src, cas, shown, passed, stored, builds, building, changed, resolved, hashes, traces, failures, duped, calm>>

\* A name that is not of this version, on the word of a trace: one that pairs this very
\* command with the bytes of another version (the registry's old hash).
Misled(p) == stored[p] = [out |-> shown[p], key |-> src]

\* _touch_result_marker
Mark(r) == /\ passed' = [passed EXCEPT ![<<r, src>>] = saw[r]]
           /\ duped' = IF saw[r] # src /\ Misled(Input(r)) THEN duped \cup {<<r, src>>}
                                                         ELSE duped \ {<<r, src>>}

\* Mutant: the exit status of a test is not looked at.
PassTest(r) == /\ r \in Tests /\ task[r] = "ran"
               /\ Mark(r)
               /\ Done(r, FALSE)
               /\ UNCHANGED <<src, cas, shown, xml, stored, builds, building, saw, resolved, hashes, traces, failures, calm>>

\* _record_test_outcome: touch the marker, or remember the failure and go on.
FinishTest(r) ==
  /\ r \in Tests /\ task[r] = "ran"
  /\ IF saw[r] \in Bad
     THEN failures' = failures \cup {r} /\ UNCHANGED <<passed, duped>>
     ELSE Mark(r) /\ UNCHANGED failures
  /\ Done(r, FALSE)
  /\ UNCHANGED <<src, cas, shown, xml, stored, builds, building, saw, resolved, hashes, traces, calm>>

Step(r) == \/ Start(r) \/ Propagate(r) \/ Run(r)
           \/ ResumePhony(r) \/ ResumeArtifact(r) \/ ResumeTest(r) \/ ResumePublish(r)
           \/ FinishArtifact(r) \/ FailArtifact(r) \/ Publish(r) \/ FinishPublish(r)
           \/ RunTest(r) \/ FinishTest(r)
------------------------------------------------------------------------------
(* execute *)

StartBuild == /\ ~ building /\ builds < MaxBuilds
              /\ src' \in Versions
              /\ building' = TRUE /\ builds' = builds + 1
              /\ traces' = stored
              /\ calm' = IF calm = "twice" /\ src' = src THEN calm ELSE "once"
              /\ Fresh
              /\ UNCHANGED <<cas, shown, passed, xml, stored, duped>>

Over == /\ building' = FALSE
        /\ Fresh
        /\ traces' = [p \in Publishes |-> None]
        /\ UNCHANGED <<disk, builds, duped>>

Succeeded == building /\ task[Root] = "done" /\ failures = {}

\* The root task is through, and so are all others or asyncio.run cancels them.
EndBuild == /\ building /\ task[Root] \in Final
            /\ stored' = traces
            /\ calm' = IF Succeeded /\ calm # "no" THEN "twice" ELSE "no"
            /\ Over

\* SIGINT or SIGTERM: the tasks are cancelled, and the traces saved.
Interrupt == /\ building
             /\ stored' = traces
             /\ calm' = "no"
             /\ Over

\* SIGKILL: they are not.
Kill == /\ building
        /\ calm' = "no"
        /\ Over /\ UNCHANGED stored
------------------------------------------------------------------------------
(* Around the builds *)

\* ct-trim-cache, at any time: an entry goes with its marker, and one published
\* by hard link is protected.
Evict(e) == /\ e \in cas
            /\ \A p \in Publishes \ Symlinked : e # <<Input(p), shown[p]>>
            /\ cas' = cas \ {e}
            /\ passed' = [m \in DOMAIN passed |-> IF EntryOf(m) = e THEN None ELSE passed[m]]
            /\ duped' = {m \in duped : EntryOf(m) # e}
            /\ calm' = "no"
            /\ UNCHANGED <<src, shown, xml, stored, builds, building, process>>

\* Another backend publishes to the same bin directory, between two builds.
PeerPublishes(p, v) ==
  /\ ~ building
  /\ cas' = cas \cup {<<Input(p), v>>}
  /\ shown' = [shown EXCEPT ![p] = v]
  /\ calm' = "no"
  /\ UNCHANGED <<src, passed, xml, stored, builds, building, process, duped>>

\* rm -rf bin
Remove(p) == /\ ~ building /\ shown[p] # None
             /\ shown' = [shown EXCEPT ![p] = None]
             /\ calm' = "no"
             /\ UNCHANGED <<src, cas, passed, xml, stored, builds, building, process, duped>>

Next == \/ \E r \in Rules : Step(r)
        \/ StartBuild \/ EndBuild \/ Interrupt \/ Kill
        \/ \E e \in Entries : Evict(e)
        \/ \E p \in Publishes : Remove(p) \/ \E v \in Versions : PeerPublishes(p, v)

Spec == Init /\ [][Next]_vars

\* The event loop runs what is ready, and commands end.
FairSpec == Spec /\ WF_vars(\E r \in Rules : Step(r)) /\ WF_vars(EndBuild)
------------------------------------------------------------------------------
(* Properties *)

Stale(p) == task[p] = "done" /\ shown[p] # src

\* Whatever is interrupted, evicted or published by others, a build lets a name
\* be out of date only on the word of a trace it found.
StaleOnlyIfMisled == \A p \in Publishes : Stale(p) => Misled(p)

\* A test passes for the executable it is named after: a success marker is
\* touched only after a run of the bytes in its name, unless their publication
\* was skipped on the word of such a trace.
MarkersHonest == [][\A t \in Tests : passed'[<<t, src>>] \notin {passed[<<t, src>>], src, None}
                                     => Misled(Input(t))]_vars

\* The comment in _do_build: what is there already "was tested before".  When a build
\* succeeds, the bytes of this very version have passed every test, unless a trace
\* passed off other bytes as theirs when the marker was touched, or the executable and
\* the marker with it have been trimmed since.  Not of a test under --test-xml-dir: an
\* XML file is there after any run, of any version, that passed or not.
AllTested == Succeeded =>
               \A t \in Tests \ Xml : \/ (src \notin Bad /\ passed[<<t, src>>] = src)
                                       \/ <<t, src>> \in duped
                                       \/ EntryOf(<<t, src>>) \notin cas

\* A build right after one that succeeded, with nothing changed between, runs no
\* command.
NoOpRebuild == building /\ calm = "twice" => \A r \in Rules : task[r] \notin {"queued", "running", "ran"}

\* Every build ends, whatever fails and however few slots there are.
BuildEnds == building ~> ~ building
==============================================================================
