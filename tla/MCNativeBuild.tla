---------------------------- MODULE MCNativeBuild ----------------------------
(* NativeBuild over small projects.  a, b, t and u are sources of             *)
(* executables, h a header, m the interface of a module and q of its          *)
(* partition, g a header that imports it, l the source of a library.          *)
EXTENDS NativeBuild

Where(fs, given, default) == [f \in fs |-> IF f \in DOMAIN given THEN given[f] ELSE default]
Project(fs, deps, required, bad) ==
  [deps |-> Where(fs, deps, {}), required |-> Where(fs, required, {}), bad |-> bad,
   exports |-> Where(fs, << >>, {}), implements |-> Where(fs, << >>, {}),
   imports |-> Where(fs, << >>, {}), units |-> Where(fs, << >>, {}), pch |-> Where(fs, << >>, {}),
   stem |-> [f \in fs |-> f]]
Options(filename, tests) ==
  [filename |-> filename, tests |-> tests, static |-> {}, dynamic |-> {}, kind |-> "gcc",
   cas_pchdir |-> TRUE, cas_pcmdir |-> TRUE, managed |-> FALSE, use_mtime |-> FALSE,
   serialisetests |-> FALSE, test_xml_dir |-> FALSE, framework |-> {}, tool |-> "make", only |-> FALSE]
World(project, options) == [p |-> project, o |-> options]

\* An executable and a test that share a header; version 2 of t fails.
Plain == Project({"a", "t", "h"}, [a |-> {"h"}, t |-> {"h"}], [a |-> {"a"}, t |-> {"t"}], {<<"t", 2>>})
Mended == [Plain EXCEPT !.bad = {<<"t", 1>>}] \* version 1 fails
\* Two tests, one after the other, and a library.
Serial == Project({"t", "u", "l"}, << >>, [t |-> {"t"}, u |-> {"u"}, l |-> {"l"}], {})
\* a imports a module through a header; the module has a partition.
Modular ==
  [Project({"a", "g", "m", "q"}, [a |-> {"g"}], [a |-> {"a", "m", "q"}], {})
     EXCEPT !.exports["m"] = {<<"m">>}, !.exports["q"] = {<<"m", "q">>},
            !.imports["g"] = {<<"m">>}, !.imports["m"] = {<<"m", "q">>}]
WithUnit == [Modular EXCEPT !.units["g"] = {"vector"}]
Precompiled == [Project({"a", "h"}, [a |-> {"h"}], [a |-> {"a"}], {}) EXCEPT !.pch["a"] = {"h"}]
Colliding == [Project({"a", "b"}, << >>, [a |-> {"a"}, b |-> {"b"}], {}) EXCEPT !.stem["b"] = "a"]

On(tests) == Options({"a"}, tests)
Serialised == [Options({}, <<"t", "u">>) EXCEPT !.serialisetests = TRUE, !.dynamic = {"l"}]
NativeWorlds ==
  {World(Plain, On(<<"t">>)),
   World(Mended, [On(<<"t">>) EXCEPT !.tool = "ninja", !.test_xml_dir = TRUE, !.framework = {"t"}]),
   World(Plain, [On(<<"t">>) EXCEPT !.use_mtime = TRUE, !.only = TRUE, !.test_xml_dir = TRUE,
                                    !.framework = {"t"}]),
   World(Plain, [On(<<"t">>) EXCEPT !.only = TRUE]),
   World(Serial, Serialised),
   World(Serial, [Serialised EXCEPT !.use_mtime = TRUE, !.dynamic = {}, !.static = {"l"}]),
   World(WithUnit, On(<< >>)),
   World(Modular, [On(<< >>) EXCEPT !.cas_pcmdir = FALSE]),
   World(WithUnit, [On(<< >>) EXCEPT !.kind = "clang"]),
   World(Modular, [On(<< >>) EXCEPT !.managed = TRUE]),
   World(Precompiled, On(<< >>)),
   World(Colliding, Options({"a", "b"}, << >>))}

\* Two tests that are linked with a static library.
StaleWorlds == {World(Serial, [Serialised EXCEPT !.dynamic = {}, !.static = {"l"}])}
===============================================================================
