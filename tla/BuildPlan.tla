------------------------------ MODULE BuildPlan ------------------------------
(***************************************************************************)
(* build_backend.py: the build graph of a project.  A project p has, as    *)
(* Hunter finds them, the headers below each file (deps), the sources a    *)
(* target needs (required), the modules a source exports and implements    *)
(* and a file imports (names <<module>> and <<module, partition>>), the    *)
(* system headers it imports as units and those it precompiles (pch), and  *)
(* the name a target is published under (stem).  v is the version of each  *)
(* file and of the linker's environment (ENV).  Options o: the sources of  *)
(* executables (filename), of tests, in the order of their paths (tests),  *)
(* of the static and of the shared library, the compiler (kind), whether   *)
(* there is a cache for precompiled headers (cas_pchdir) and for modules   *)
(* (cas_pcmdir), whether the native tool places executables itself         *)
(* (managed), use_mtime, serialisetests, test_xml_dir, and the tests of a  *)
(* framework that reports XML (framework).                                 *)
(*                                                                         *)
(* Names are content addresses: they hold the text they stand for, where   *)
(* the program holds its hash.                                             *)
(***************************************************************************)
EXTENDS Naturals, Sequences, FiniteSets, TLC, SequencesExt

(***************************************************************************)
(* build_graph.py: the rules of a build, by the file each makes.  The      *)
(* nodes are tuples that begin with their kind; a rule has its type, the   *)
(* files it waits for (ins: also those that make it out of date; order:    *)
(* only those that must be there first), the file a shell recipe touches   *)
(* when it went well (marker), and what its command opens (reads) and      *)
(* writes beside its output (beside), which is the command's text reduced  *)
(* to what matters here.                                                   *)
(***************************************************************************)

NoMarker == <<"no marker">>
File(f)   == <<"file", f>>
Dir(d)    == <<"dir", d>>

\* Names of one kind fall in one directory, as some of the program's hashes do.
Bucket(n) == <<"bucket", n[1]>>

BuildRule(type, out, ins, order, reads) ==
  [type |-> type, out |-> out, ins |-> ins, order |-> order, reads |-> reads,
   marker |-> NoMarker, beside |-> {}]
MkDir(d) == BuildRule("mkdir", d, {}, {}, {})

\* A later rule replaces an earlier one of the same output.
add_rules(rules) == [out \in {r.out : r \in rules} |-> CHOOSE r \in rules : r.out = out]

Outputs(r) == ({r.out, r.marker} \ {NoMarker}) \cup r.beside
------------------------------------------------------------------------------
(* --build-only-changed.                                                   *)

\* The outputs that depend, through inputs alone, on one of the changed files.
Affected(g, changed) ==
  LET round[n \in Nat] ==
        IF n = 0 THEN {}
        ELSE LET known == changed \cup round[n - 1]
             IN  {out \in DOMAIN g : g[out].ins \cap known # {}}
  IN  round[Cardinality(DOMAIN g)]

\* Only these are kept, and the phony rules, whose other inputs are dropped.
filter_to_changed(g, changed) ==
  LET targets == Affected(g, changed)
  IN  [out \in {x \in DOMAIN g : g[x].type = "phony" \/ x \in targets} |->
         IF g[out].type = "phony" THEN [g[out] EXCEPT !.ins = @ \cap targets] ELSE g[out]]
------------------------------------------------------------------------------
(* What the recipes of make and ninja wait for.                            *)

CAS_PRODUCER_TYPES == {"compile", "link", "static_library", "shared_library"}
CAS_LINKED_TYPES   == CAS_PRODUCER_TYPES \ {"compile"}

\* A compile keeps the artefacts other rules make, not its sources and headers.
ARTEFACTS == {"gch", "pcm", "gcm", "o", "hu"}
NothingDemoted(r) == {} \* mutant: a compile keeps none
cas_demoted_order_only(r) ==
  IF r.type = "compile" THEN {i \in r.ins : i[1] \in ARTEFACTS} ELSE r.ins

_cas_demotes_inputs(o, r) == ~ o.use_mtime /\ r.type \in CAS_PRODUCER_TYPES

Prerequisites(o, r) == IF _cas_demotes_inputs(o, r) THEN {} ELSE r.ins
OrderOnly(o, r) ==
  r.order \cup (IF _cas_demotes_inputs(o, r) THEN cas_demoted_order_only(r) ELSE {})
------------------------------------------------------------------------------
(* The order the builds before the native one run in.                      *)

\* A step of _toposort_rules takes a rule none of the others is an input of.
First(rules) == CHOOSE r \in rules : \A q \in rules : q.out \notin r.ins \/ q = r
_toposort_rules(rules) ==
  LET take[n \in 0..Cardinality(rules)] ==
        IF n = 0 THEN << >>
        ELSE LET before == take[n - 1]
             IN  Append(before, First(rules \ {before[i] : i \in DOMAIN before}))
  IN  take[Cardinality(rules)]
------------------------------------------------------------------------------

ENV == "environment"

Below(p, f)    == p.deps[f] \ {f}
Text(p, v, f)  == {<<x, v[x]>> : x \in {f} \cup p.deps[f]}
Files(p, f)    == {File(x) : x \in {f} \cup p.deps[f]}
Targets(o)     == o.filename \cup Range(o.tests)
Needed(p, fs)  == UNION {p.required[f] : f \in fs}
all_compile_sources(p, o) == Needed(p, Targets(o) \cup o.static \cup o.dynamic)
------------------------------------------------------------------------------
(* Names.                                                                  *)

\* Mutant: the headers are not part of an object's name.
ObjectByFile(p, v, f) == <<"o", f, {<<f, v[f]>>}>>

object_pathname(p, v, f) == <<"o", f, Text(p, v, f)>>
Objects(p, v, fs) == {object_pathname(p, v, f) : f \in fs}

\* A precompiled header is named for the command that makes it, without the text.
_gch_path(o, h) == <<"gch", h>>
pch_dir(o, h)   == IF o.cas_pchdir THEN Bucket(_gch_path(o, h)) ELSE Dir("objdir")

\* What a module's importers open: clang's .pcm, and the .gcm gcc writes beside
\* the object of the interface.
bmi_path(p, o, v, f, m) ==
  <<IF o.kind = "clang" THEN "pcm" ELSE "gcm", m, IF o.cas_pcmdir THEN Text(p, v, f) ELSE {}>>
bmi_dir(p, o, v, f, m) ==
  IF o.cas_pcmdir THEN Bucket(bmi_path(p, o, v, f, m)) ELSE Dir("bmi")

_header_unit_destination(o, t) == <<"hu", t, o.kind, o.cas_pcmdir>>
header_unit_dir(o, t) ==
  IF o.cas_pcmdir THEN Bucket(_header_unit_destination(o, t)) ELSE Dir("hu")

published(kind, p, f) == <<"bin", kind, p.stem[f]>>
executable_pathname(p, f) == published("exe", p, f)

Beside(exe)        == <<"result", exe>>
_xml_path_for(exe) == <<"xml", exe>>
------------------------------------------------------------------------------
(* Precompiled headers.                                                    *)

PchHeaders(p, sources) == UNION {p.pch[f] : f \in sources}
_plan_pch_rules(p, o, sources) ==
  {BuildRule("compile", _gch_path(o, h), Files(p, h), {pch_dir(o, h)}, Files(p, h))
     : h \in PchHeaders(p, sources)}
  \cup {MkDir(pch_dir(o, h)) : h \in PchHeaders(p, sources)}
------------------------------------------------------------------------------
(* Modules.                                                                *)

Exporters(p, sources, m) == {f \in sources : m \in p.exports[f]}
Exported(p, sources)     == UNION {p.exports[f] : f \in sources}
Exporter(p, sources, m)  == CHOOSE f \in Exporters(p, sources, m) : TRUE

\* What waits for a module waits for this file.
target_map(p, o, v, sources) ==
  [m \in Exported(p, sources) |->
     LET f == Exporter(p, sources, m)
     IN  IF o.kind = "clang" THEN bmi_path(p, o, v, f, m) ELSE object_pathname(p, v, f)]

_plan_module_prepass(p, o, v, sources) ==
  IF o.kind = "gcc" /\ ~ o.cas_pcmdir THEN {}
  ELSE {MkDir(bmi_dir(p, o, v, Exporter(p, sources, m), m)) : m \in Exported(p, sources)}

HeaderUnits(p, sources) == UNION {p.units[x] : x \in sources \cup UNION {p.deps[f] : f \in sources}}
_create_header_unit_precompile_rule(o, t) ==
  LET out == _header_unit_destination(o, t)
  IN  [BuildRule(IF o.kind = "clang" THEN "compile" ELSE "header_unit",
                 out, {}, {header_unit_dir(o, t)}, {})
         EXCEPT !.marker = IF o.kind = "clang" THEN NoMarker ELSE out]
_plan_header_unit_prepass(p, o, sources) ==
  {MkDir(header_unit_dir(o, t)) : t \in HeaderUnits(p, sources)}
  \cup {_create_header_unit_precompile_rule(o, t) : t \in HeaderUnits(p, sources)}

\* The modules a file names, and with a whole module its partitions.
Named(p, f) == p.imports[f] \cup p.implements[f]
WithPartitions(p, sources, ms) ==
  {m \in Exported(p, sources) : m \in ms \/ (Len(m) = 2 /\ <<m[1]>> \in ms)}

\* Mutant: what the headers of a unit import is left out.
WiredForFileOnly(p, o, v, sources, f) ==
  {target_map(p, o, v, sources)[m] : m \in WithPartitions(p, sources, Named(p, f))}
  \cup {_header_unit_destination(o, t) : t \in p.units[f]}

\* What the modules and header units that a unit and its headers name are waited for by.
_wire_module_inputs(p, o, v, sources, f) ==
  LET names == UNION {Named(p, x) : x \in {f} \cup Below(p, f)}
  IN  {target_map(p, o, v, sources)[m] : m \in WithPartitions(p, sources, names)}
      \cup {_header_unit_destination(o, t) : t \in UNION {p.units[x] : x \in {f} \cup Below(p, f)}}

\* A compiler that imports a module opens what that module imports too: the least set
\* that has what the file names, and with a module what the file of its interface names.
ImportClosure(p, sources, f) ==
  LET all == Exported(p, sources)
      Of(x) == all \cap UNION {Named(p, y) : y \in {x} \cup Below(p, x)}
      Closed(ms) == Of(f) \subseteq ms /\ \A m \in ms : Of(Exporter(p, sources, m)) \subseteq ms
  IN  {m \in all : \A ms \in SUBSET all : Closed(ms) => m \in ms} \ p.exports[f]
Opened(p, o, v, sources, f) ==
  LET ms == ImportClosure(p, sources, f)
      fs == {f} \cup {Exporter(p, sources, m) : m \in ms}
  IN  {bmi_path(p, o, v, Exporter(p, sources, m), m) : m \in ms}
      \cup {_header_unit_destination(o, t)
              : t \in UNION {p.units[x] : x \in UNION {{g} \cup Below(p, g) : g \in fs}}}
------------------------------------------------------------------------------
(* Compiles.                                                               *)

\* gcc writes the .gcm of what the unit exports beside its object.
_create_compile_rule(p, o, v, sources, f) ==
  LET out  == object_pathname(p, v, f)
      gchs == {_gch_path(o, h) : h \in p.pch[f]}
  IN  [BuildRule("compile", out,
                 (Files(p, f) \cup gchs \cup _wire_module_inputs(p, o, v, sources, f)) \ {out},
                 {Bucket(out)},
                 Files(p, f) \cup gchs \cup Opened(p, o, v, sources, f))
         EXCEPT !.beside = {bmi_path(p, o, v, f, m) : m \in p.exports[f]}]

\* clang makes the .pcm from the source and the object from the .pcm.
_create_clang_module_interface_rules(p, o, v, sources, f) ==
  LET m     == CHOOSE m \in p.exports[f] : TRUE
      pcm   == bmi_path(p, o, v, f, m)
      out   == object_pathname(p, v, f)
      wired == _wire_module_inputs(p, o, v, sources, f)
      opens == Opened(p, o, v, sources, f)
  IN  {BuildRule("compile", pcm, (Files(p, f) \cup wired) \ {pcm}, {bmi_dir(p, o, v, f, m)},
                 Files(p, f) \cup opens),
       BuildRule("compile", out, {pcm} \cup wired, {Bucket(out)}, {pcm} \cup opens)}

_plan_compile_rules(p, o, v, sources) ==
  {MkDir(Bucket(object_pathname(p, v, f))) : f \in sources}
  \cup UNION {IF o.kind = "clang" /\ p.exports[f] # {}
              THEN _create_clang_module_interface_rules(p, o, v, sources, f)
              ELSE {_create_compile_rule(p, o, v, sources, f)} : f \in sources}
------------------------------------------------------------------------------
(* Links and publications.                                                 *)

_build_publish_rule(cas, user) == BuildRule("symlink", user, {cas}, {Dir("bin")}, {cas})

\* The key of an executable: its objects and libraries by name, and the environment.
link_key(p, v, f, libs) == <<"exe", p.stem[f], Objects(p, v, p.required[f]), libs, v[ENV]>>

\* What makes an artefact and, unless the native tool places it, what publishes it.
ArtefactRules(o, type, cas, user, ins) ==
  IF o.managed THEN {BuildRule(type, user, ins, {Dir("bin")}, ins)}
  ELSE {BuildRule(type, cas, ins, {Bucket(cas)}, ins), MkDir(Bucket(cas)),
        _build_publish_rule(cas, user)}

_create_link_rule(p, o, v, f, libs) ==
  ArtefactRules(o, "link", link_key(p, v, f, libs), executable_pathname(p, f),
                Objects(p, v, p.required[f]) \cup libs)

Library(kind, p, fs) == published(kind, p, CHOOSE f \in fs : TRUE)
library_outputs(p, o) ==
  {Library(l[1], p, l[2]) : l \in {l \in {<<"a", o.static>>, <<"so", o.dynamic>>} : l[2] # {}}}

_create_static_library_rule(p, o, v) ==
  LET objs == Objects(p, v, Needed(p, o.static))
  IN  ArtefactRules(o, "static_library", <<"a", Library("a", p, o.static), objs>>,
                    Library("a", p, o.static), objs)
_create_shared_library_rule(p, o, v) ==
  LET objs == Objects(p, v, Needed(p, o.dynamic))
  IN  ArtefactRules(o, "shared_library", <<"so", Library("so", p, o.dynamic), objs, v[ENV]>>,
                    Library("so", p, o.dynamic), objs)

\* Two sources would be published under one name: the plan throws.
_check_executable_collisions(p, o) ==
  \E f, g \in Targets(o) : f # g /\ executable_pathname(p, f) = executable_pathname(p, g)

_plan_link_and_publish_rules(p, o, v) ==
  (IF o.static = {} THEN {} ELSE _create_static_library_rule(p, o, v))
  \cup (IF o.dynamic = {} THEN {} ELSE _create_shared_library_rule(p, o, v))
  \cup UNION {_create_link_rule(p, o, v, f, library_outputs(p, o)) : f \in Targets(o)}
------------------------------------------------------------------------------
(* Tests.                                                                  *)

Reported(o, f) == o.test_xml_dir /\ f \in o.framework

\* Mutant: a result is beside the name in bin.
MarkerByName(p, o, v, f) == Beside(executable_pathname(p, f))

\* Results are content addresses where times do not decide: beside the entry.
ByContent(o) == ~ o.use_mtime /\ ~ o.managed
_result_marker_path(p, o, v, f) ==
  Beside(IF ByContent(o) THEN link_key(p, v, f, library_outputs(p, o)) ELSE executable_pathname(p, f))

\* A test waits for its executable, which then does not put it out of date.
TestRule(p, o, v, f) ==
  LET exe  == executable_pathname(p, f)
      cas  == ByContent(o)
      mark == _result_marker_path(p, o, v, f)
      dirs == IF o.test_xml_dir THEN {Dir("xml")} ELSE {}
  IN  [BuildRule("test", IF Reported(o, f) THEN _xml_path_for(exe) ELSE mark,
                 IF cas THEN {} ELSE {exe}, (IF cas THEN {exe} ELSE {}) \cup dirs, {exe})
         EXCEPT !.marker = mark]

\* One at a time: each waits for the one before.
Chained(p, o, v, i) ==
  LET r      == TestRule(p, o, v, o.tests[i])
      before == {TestRule(p, o, v, o.tests[i - 1]).out}
  IN  IF ~ o.serialisetests \/ i = 1 THEN r
      ELSE IF o.use_mtime THEN [r EXCEPT !.ins = @ \cup before]
      ELSE [r EXCEPT !.order = @ \cup before]

Phony(name, ins) == BuildRule("phony", <<"phony", name>>, ins, {}, {})
_plan_test_rules(p, o, v) ==
  LET tests == {Chained(p, o, v, i) : i \in DOMAIN o.tests}
      exes  == {executable_pathname(p, f) : f \in Targets(o)}
      runs  == IF tests = {} THEN {} ELSE {Phony("runtests", {r.out : r \in tests})}
  IN  tests \cup runs
      \cup (IF o.test_xml_dir /\ tests # {} THEN {MkDir(Dir("xml"))} ELSE {})
      \cup {Phony("build", exes \cup library_outputs(p, o)),
            Phony("all", {<<"phony", "build">>} \cup {r.out : r \in runs})}
------------------------------------------------------------------------------
PlannedRules(p, o, v) ==
  LET sources == all_compile_sources(p, o)
  IN  {MkDir(Dir("objdir")), MkDir(Dir("bin"))}
      \cup _plan_pch_rules(p, o, sources)
      \cup _plan_module_prepass(p, o, v, sources)
      \cup _plan_header_unit_prepass(p, o, sources)
      \cup _plan_compile_rules(p, o, v, sources)
      \cup _plan_link_and_publish_rules(p, o, v)
      \cup _plan_test_rules(p, o, v)
build_graph(p, o, v) == add_rules(PlannedRules(p, o, v))
===============================================================================
