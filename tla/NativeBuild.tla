----------------------------- MODULE NativeBuild -----------------------------
(***************************************************************************)
(* Builds of one tree, one after the other, by a native tool: ct-cake      *)
(* plans the graph, writes the tool's script unless the one there will do, *)
(* looks whether there is anything to do, and runs make or ninja, which    *)
(* see names, times and recipes only.  For cmake and bazel ("managed") the *)
(* builds that come before theirs are modelled.                            *)
(*                                                                         *)
(* A file on disk holds the <<source, version>> pairs it was made from and *)
(* how: from the "text", or "through" a precompiled header, a module or an *)
(* archive.  An entry and its hard link in bin share a node and its time.  *)
(***************************************************************************)
EXTENDS BuildPlan

CONSTANTS Worlds,    \* projects with their options, see MCNativeBuild
          Edits,     \* what an edit may be: "forth", "back" to an earlier version, or
                     \* of the linker's "environment"
          MaxVersion, MaxEvents, MaxFaults, \* bounds: on versions, on builds, edits and
                     \* faults, and on faults, which are trims and kills
          Jobs       \* make -j

\* A module has one interface among the sources of a build (Hunter raises where it does
\* not), and a source that clang precompiles is the interface of one module.
ASSUME ModulesAssumption ==
  \A x \in Worlds :
    LET sources == all_compile_sources(x.p, x.o)
    IN  /\ \A f, g \in sources : f # g => x.p.exports[f] \cap x.p.exports[g] = {}
        /\ x.o.kind = "clang" => \A f \in sources : \A m, n \in x.p.exports[f] : m = n

ASSUME TestsAssumption == \A x \in Worlds : x.o.tests \in Seq(Range(x.o.tests))

\* Sources and headers are files of the project.
ASSUME FilesAssumption ==
  \A x \in Worlds : LET files == DOMAIN x.p.deps
                     IN  /\ all_compile_sources(x.p, x.o) \subseteq files
                         /\ \A f \in files : x.p.deps[f] \subseteq files

ASSUME VersionsAssumption == MaxVersion \in Nat \ {0}

\* A plan has finitely many rules.
Versions(x) == [DOMAIN x.p.deps \cup {ENV} -> 1..MaxVersion]
ASSUME PlansAssumption ==
  \A x \in Worlds : \A v \in Versions(x) : IsFiniteSet(DOMAIN build_graph(x.p, x.o, v))

VARIABLES w, ver, clock, edited, trimmed, faults, \* the world, and what happens between builds
          back,    \* what was taken to an earlier version, and the environment if it
                   \* changed: a history that only properties read
          disk,    \* name -> [holds, id], made and not removed
          born,    \* mtimes of source files and nodes
          sigs,    \* link signature files
          log,     \* ninja's: what the command that made a name read
          script,  \* the Makefile or build.ninja: [g, token, born]
          graph, builds, \* of the last plan
          phase, queue, st, running, why \* of the build that runs

tree  == <<w, ver, edited, trimmed, faults, back>>
saved == <<disk, born, sigs, log>>
vars  == <<tree, clock, saved, script, graph, builds, phase, queue, st, running, why>>

p == w.p
o == w.o
NoScript == [g |-> << >>, token |-> <<"none">>, born |-> 0]
Sources == {f \in DOMAIN ver : f # ENV}

Init ==
  /\ w \in Worlds
  /\ ver = [f \in DOMAIN w.p.deps \cup {ENV} |-> 1]
  /\ clock = 1 /\ edited = DOMAIN w.p.deps /\ trimmed = {} /\ faults = 0 /\ back = {}
  /\ disk = << >> /\ born = [f \in {File(x) : x \in DOMAIN w.p.deps} |-> 1]
  /\ sigs = << >> /\ log = << >> /\ script = NoScript /\ graph = << >> /\ builds = 0
  /\ phase = "idle" /\ queue = << >> /\ st = << >> /\ running = {} /\ why = "none"
------------------------------------------------------------------------------
(* Files.                                                                  *)

Node(x)    == <<"node", x, clock>>
Present(x) == x[1] = "file" \/ x \in DOMAIN disk
Born(x)    == IF x[1] = "file" THEN born[x] ELSE born[disk[x].id]
Only(holds, how) == {<<c[1], c[2], how>> : c \in holds}
With(new, old) == [x \in DOMAIN new \cup DOMAIN old |-> IF x \in DOMAIN new THEN new[x] ELSE old[x]]

\* A precompiled header stands for the text of the headers it was made from.
Instead(r) == UNION {p.deps[x[2]] \cup {x[2]} : x \in {y \in r.reads : y[1] = "gch"}}

\* clang makes the object of an interface from its .pcm, which is named for the text.
OwnPcm(r, x) == r.out[1] = "o" /\ x[1] = "pcm" /\ x[2] \in p.exports[r.out[2]]

\* What the command of a rule leaves in what it writes.
Compiled(r) ==
  {<<x[2], ver[x[2]], "text">> : x \in {y \in r.reads : y[1] = "file" /\ y[2] \notin Instead(r)}}
  \cup UNION {IF OwnPcm(r, x) THEN disk[x].holds ELSE Only(disk[x].holds, "through")
               : x \in {y \in r.reads : y[1] # "file"}}
Archived(r) ==
  (UNION {disk[x].holds : x \in {y \in r.reads : y[1] = "o"}})
  \cup UNION {Only(disk[x].holds, "through") : x \in {y \in r.reads : y[1] = "bin" /\ y[2] = "a"}}
Image(r) ==
  CASE r.type = "compile"            -> Compiled(r)
    [] r.type = "static_library"     -> Archived(r)
    [] r.type \in {"link", "shared_library"} -> Archived(r) \cup {<<ENV, ver[ENV], "environment">>}
    [] r.type \in {"symlink", "test"} -> UNION {disk[x].holds : x \in r.reads}
    [] OTHER -> {}
------------------------------------------------------------------------------
(* Between builds.                                                         *)

Idle == phase = "idle" /\ running = {}
More == clock + faults <= MaxEvents

Edit(f) ==
  /\ Idle /\ builds > 0 /\ More
  /\ f = ENV => "environment" \in Edits
  /\ \E n \in {ver[f] + 1 : e \in Edits \ {"back"}} \cup {ver[f] - 1 : e \in Edits \cap {"back"}} :
       n \in 1..MaxVersion /\ ver' = [ver EXCEPT ![f] = n]
  /\ clock' = clock + 1
  /\ edited' = edited \cup {f}
  /\ back' = IF f = ENV \/ ver'[f] < ver[f] THEN back \cup {f} ELSE back
  /\ born' = IF f = ENV THEN born ELSE [born EXCEPT ![File(f)] = clock']
  /\ UNCHANGED <<w, trimmed, faults, disk, sigs, log, script, graph, builds, phase, queue, st, running, why>>

\* ct-trim-cache evicts an entry and a marker beside it; what is published stays.
Trim(x) ==
  /\ Idle /\ More /\ faults < MaxFaults
  /\ x[1] \in {"o", "exe", "a", "so", "gch"} \cup (IF o.cas_pcmdir THEN {"gcm", "pcm", "hu"} ELSE {})
  /\ disk' = Restrict(disk, DOMAIN disk \ {x, Beside(x)})
  /\ trimmed' = trimmed \cup {x} /\ faults' = faults + 1 /\ why' = "none"
  /\ UNCHANGED <<w, ver, back, clock, edited, born, sigs, log, script, graph, builds, phase, queue, st, running>>
------------------------------------------------------------------------------
(* generate(): the script.                                                 *)

\* --build-only-changed is given, once a build has ended well, what was edited since.
Selected == o.only /\ edited \ {ENV} # DOMAIN p.deps
_apply_build_only_changed(g) ==
  IF Selected THEN filter_to_changed(g, {File(f) : f \in edited}) ELSE g

\* The first line of the script holds the arguments.
_build_file_header_token == IF Selected THEN <<"only", edited>> ELSE <<"all">>

_build_file_uptodate(g) ==
  /\ script.token = _build_file_header_token
  /\ \A x \in DOMAIN g : g[x].type \in {"phony", "mkdir"} \/
       \A i \in g[x].ins \ DOMAIN g : ~ Present(i) \/ Born(i) < script.born

\* A line of the script: what its rule waits for, and what puts it out of date.
Line(r) == [r EXCEPT !.ins = Prerequisites(o, r), !.order = OrderOnly(o, r)]
_write_makefile(g) == [x \in DOMAIN g |-> Line(g[x])]

Generate ==
  /\ Idle /\ More
  /\ builds' = builds + 1 /\ clock' = clock + 1
  /\ IF _check_executable_collisions(p, o)
     THEN /\ why' = "collision"
          /\ UNCHANGED <<script, graph, phase, queue>>
     ELSE LET g == _apply_build_only_changed(build_graph(p, o, ver))
          IN  /\ graph' = g /\ phase' = "planned" /\ why' = "none"
              /\ script' = IF _build_file_uptodate(g) THEN script
                           ELSE [g |-> _write_makefile(g), token |-> _build_file_header_token, born |-> clock']
              /\ queue' = << >>
  /\ st' = << >>
  /\ UNCHANGED <<tree, saved, running>>
------------------------------------------------------------------------------
(* execute(): is there anything to do?                                     *)

RulesOf(g, types) == {g[x] : x \in {y \in DOMAIN g : g[y].type \in types}}

\* Entries an hour old are touched, the hard links in bin with them.
_published_cas_entries(g) == UNION {r.ins : r \in RulesOf(g, {"symlink"})}
Freshened(long) ==
  [x \in DOMAIN born |->
     IF long /\ ~ o.use_mtime
             /\ \E e \in _published_cas_entries(graph) \cap DOMAIN disk : disk[e].id = x
     THEN clock ELSE born[x]]

compute_link_signature(r) == r.ins

_all_outputs_current(g) ==
  LET built == RulesOf(g, {"compile", "symlink", "test"} \cup CAS_LINKED_TYPES)
  IN  /\ ~ o.use_mtime /\ ~ o.managed
      /\ built # {}
      /\ \A r \in built : r.out \in DOMAIN disk
      /\ \A r \in RulesOf(g, CAS_LINKED_TYPES) : r.out \in DOMAIN sigs /\ sigs[r.out] = compute_link_signature(r)
      /\ \A r \in RulesOf(g, {"test"}) : r.marker \in DOMAIN disk

\* What cmake and bazel find built: what takes part in modules, then the
\* precompiled headers and the header units.
TakesPart(r) ==
  \/ r.out[1] = "pcm"
  \/ r.out[1] = "o" /\ p.exports[r.out[2]] \cup p.implements[r.out[2]] # {}
PrebuildOrder(g) ==
  LET aux == {r \in RulesOf(g, {"compile", "header_unit"}) : r.out[1] \in {"gch", "hu"}}
  IN  _toposort_rules({r \in RulesOf(g, {"compile"}) : TakesPart(r)}) \o SetToSeq(aux)

Waits(r) == r.ins \cup r.order

\* A file that no rule makes and that is not there stops the build.
NoRule(g) == \E x \in DOMAIN g : \E i \in Waits(g[x]) : i \notin DOMAIN g /\ ~ Present(i)

Execute(long) ==
  /\ phase = "planned"
  /\ born' = Freshened(long)
  /\ IF _all_outputs_current(graph)
     THEN phase' = "idle" /\ why' = "ok" /\ queue' = << >> /\ edited' = {}
     ELSE /\ phase' = IF o.managed THEN "prebuild" ELSE "native"
          /\ queue' = IF o.managed THEN PrebuildOrder(graph) ELSE << >>
          /\ why' = IF ~ o.managed /\ NoRule(script.g) THEN "no rule" ELSE why
          /\ UNCHANGED edited
  /\ UNCHANGED <<w, ver, back, trimmed, faults, clock, disk, sigs, log, script, graph, builds, st, running>>
------------------------------------------------------------------------------
(* Commands.                                                               *)

Missing(r) == \E x \in r.reads : ~ Present(x)
Bad(r)     == r.type = "test" /\ \E c \in Image(r) : <<c[1], c[2]>> \in p.bad

\* Published by a hard link, of an entry whose time is set to now; the other
\* commands make a new file under each name they write.  A test that fails
\* leaves its report and touches no marker.
Leaves(r) == IF Bad(r) THEN Outputs(r) \ {r.marker} ELSE Outputs(r)
Made(r) ==
  IF r.type = "symlink" THEN [x \in {r.out} |-> disk[CHOOSE y \in r.ins : TRUE]]
  ELSE [x \in Leaves(r) |-> [holds |-> Image(r), id |-> Node(r.out)]]

\* A command has run.
Ran(r) ==
  IF Missing(r) THEN why' = "missing" /\ UNCHANGED <<disk, born>>
  ELSE /\ disk' = With(Made(r), disk)
       /\ born' = With([x \in {Made(r)[y].id : y \in DOMAIN Made(r)} |-> clock], born)
       /\ why' = IF Bad(r) THEN "test failed" ELSE why

\* A module's object without the .gcm its importers open is made again.
Skipped(r) == Outputs(r) \subseteq DOMAIN disk
Prebuild ==
  /\ phase = "prebuild" /\ why = "none" /\ queue # << >>
  /\ IF Skipped(Head(queue)) THEN UNCHANGED <<disk, born, why>> ELSE Ran(Head(queue))
  /\ queue' = Tail(queue)
  /\ UNCHANGED <<tree, clock, sigs, log, script, graph, builds, phase, st, running>>
------------------------------------------------------------------------------
(* make and ninja.                                                         *)

Rule(x)     == script.g[x]
Declared(r) == IF r.type = "test" THEN {r.out, r.marker} ELSE {r.out}
Going       == phase = "native" /\ why = "none"

Ready == {x \in DOMAIN script.g : x \notin DOMAIN st /\ x \notin running /\
            \A i \in Waits(Rule(x)) : i \in DOMAIN script.g => i \in DOMAIN st}

\* ninja runs a command it has not recorded, or recorded otherwise, and one
\* whose recorded headers are newer than what it made.
NinjaWants(r) ==
  \/ r.out \notin DOMAIN log
  \/ log[r.out] # r.reads
  \/ r.type = "compile" /\ \E i \in log[r.out] : i[1] = "file" /\ Born(i) > Born(r.out)

Newer(i, x) == IF i \in DOMAIN st /\ st[i] = "made" THEN TRUE ELSE Present(i) /\ Born(i) > Born(x)
OutOfDate(x) ==
  LET r == Rule(x)
  IN  IF r.type = "phony" THEN FALSE
      ELSE IF ~ Declared(r) \subseteq DOMAIN disk THEN TRUE
      ELSE \/ \E i \in r.ins : \E z \in Declared(r) : Newer(i, z)
           \/ o.tool = "ninja" /\ r.type # "mkdir" /\ NinjaWants(r)

\* The rules of xs are done.
Mark(xs, how) == [x \in DOMAIN st \cup xs |-> IF x \in xs THEN how ELSE st[x]]

\* What is up to date, is phony, or only makes a directory, at one go.
Settled == {x \in Ready : Rule(x).type = "mkdir" \/ ~ OutOfDate(x)}
Settle ==
  /\ Going /\ Settled # {}
  /\ LET dirs == {x \in Settled : Rule(x).type = "mkdir" /\ x \notin DOMAIN disk}
     IN  /\ disk' = With(disk, [x \in dirs |-> [holds |-> {}, id |-> Node(x)]])
         /\ born' = With(born, [n \in {Node(x) : x \in dirs} |-> clock])
  /\ st' = Mark(Settled, "kept")
  /\ UNCHANGED <<tree, clock, sigs, log, script, graph, builds, phase, queue, running, why>>

\* What is left to run when there is nothing to settle.
Runnable == IF \A x \in Ready : Rule(x).type # "mkdir" /\ OutOfDate(x) THEN Ready ELSE {}
Start(x) ==
  /\ Going /\ Cardinality(running) < Jobs
  /\ running' = running \cup {x}
  /\ UNCHANGED <<tree, clock, saved, script, graph, builds, phase, queue, st, why>>

Finish(x) ==
  /\ x \in running /\ running' = running \ {x}
  /\ Ran(Rule(x))
  /\ LET well == ~ Missing(Rule(x)) /\ ~ Bad(Rule(x))
     IN  /\ st' = IF well THEN Mark({x}, "made") ELSE st
         /\ log' = IF o.tool = "ninja" /\ well THEN With([y \in {x} |-> Rule(x).reads], log) ELSE log
  /\ UNCHANGED <<tree, clock, sigs, script, graph, builds, phase, queue>>
------------------------------------------------------------------------------
(* The end of a build.                                                     *)

_record_link_signatures(g) ==
  LET linked == {r \in RulesOf(g, CAS_LINKED_TYPES) : r.out \in DOMAIN disk}
  IN  With([x \in {r.out : r \in linked} |-> compute_link_signature(g[x])], sigs)

Succeed ==
  /\ why = "none"
  /\ \/ phase = "native" /\ DOMAIN st = DOMAIN script.g
     \/ phase = "prebuild" /\ queue = << >>
  /\ sigs' = IF o.managed THEN sigs ELSE _record_link_signatures(graph)
  /\ phase' = "idle" /\ why' = "ok" /\ edited' = {}
  /\ UNCHANGED <<w, ver, back, trimmed, faults, clock, disk, born, log, script, graph, builds, queue, st, running>>

\* Nothing is started any more, and what runs ends.
Fail ==
  /\ phase \in {"native", "prebuild"} /\ running = {} /\ why # "none"
  /\ phase' = "idle"
  /\ UNCHANGED <<tree, clock, saved, script, graph, builds, queue, st, running, why>>

\* The build is killed, with what it runs.
Interrupt ==
  /\ phase # "idle" /\ faults < MaxFaults
  /\ phase' = "idle" /\ why' = "interrupted" /\ running' = {} /\ faults' = faults + 1
  /\ UNCHANGED <<w, ver, back, edited, trimmed, clock, saved, script, graph, builds, queue, st>>

Proceed ==
  \/ \E long \in BOOLEAN : Execute(long)
  \/ Prebuild \/ Settle \/ Succeed \/ Fail
  \/ \E x \in Runnable : Start(x)
  \/ \E x \in running : Finish(x)
Next ==
  \/ \E f \in DOMAIN ver : Edit(f)
  \/ \E x \in DOMAIN disk : Trim(x)
  \/ Generate \/ Proceed \/ Interrupt
Spec == Init /\ [][Next]_vars
------------------------------------------------------------------------------
Ended == phase = "idle" /\ why = "ok" /\ edited = {}

\* A build finds what its commands open and a rule for what they wait for, unless
\* a .gcm that no rule makes was trimmed, or an entry that the part of the graph
\* that is kept does not make.
BuildsGoWell ==
  /\ why = "missing" => \E x \in trimmed : x[1] = "gcm"
  /\ why = "no rule" => script.token # <<"all">> /\ trimmed # {}

\* While a command runs, nothing it opens or writes is written by another command
\* that runs or is still to come.
ReadsSettled ==
  \A x \in running : \A y \in DOMAIN script.g \ (DOMAIN st \cup {x}) :
    Outputs(Rule(y)) \cap (Rule(x).reads \cup Outputs(Rule(x))) = {}

ExeOf(f) == disk[executable_pathname(p, f)].holds
Hidden(s) ==
  IF o.kind = "clang" /\ p.exports[s] # {} THEN {} ELSE UNION {{h} \cup p.deps[h] : h \in p.pch[s]}
TextOf(f) == UNION {({s} \cup p.deps[s]) \ Hidden(s) : s \in p.required[f]}

\* No edit took what f is made from back to an earlier version.
Onwards(f) == back \cap UNION {{s} \cup p.deps[s] : s \in p.required[f]} = {}

\* After a build that ended well every executable was made from the whole text
\* of its sources and their headers as it is in the tree, if none of it ever went
\* back: the entry of an earlier text is older than what replaced it in bin, and
\* then nothing links it again.
NamedIsFresh ==
  Ended /\ ~ o.managed => \A f \in {f \in Targets(o) : Onwards(f)} :
    {c \in ExeOf(f) : c[3] = "text"} = {<<x, ver[x], "text">> : x \in TextOf(f)}

\* After a build that ended well an executable was made from the tree alone.
FromTree ==
  Ended /\ ~ o.managed => \A f \in Targets(o) : \A c \in ExeOf(f) : c[2] = ver[c[1]]

\* After a build that ended well the very executable that is published for a
\* test has been run, and has passed, if nothing it is made from ever went back:
\* what is published may then be a version of which the test failed.
\* (--build-only-changed keeps no tests where their results are content addresses.)
TestedAsBuilt ==
  Ended /\ ~ o.managed /\ (o.only => o.use_mtime) => \A f \in {f \in Range(o.tests) : Onwards(f)} :
    \E x \in DOMAIN disk : x[1] = "result" /\ disk[x].holds = ExeOf(f)

===============================================================================
