----------------------------- MODULE MCTrimCache ------------------------------
\* The pools and options TLC tries: every pool beside a build and a second trim,
\* and a budget over a pool whose locks may be refused.
EXTENDS TrimCache

CONSTANTS t1, t2, b1

MCUnits == 1..3
MCOrder == <<"orphan", "tmp", "main">>

Plain == [kind |-> "obj", keep |-> 1, age |-> 0, max |-> -1, purge |-> FALSE,
          faults |-> FALSE, hard |-> TRUE, trims |-> Trims, builds |-> Builds,
          bucket |-> [u \in Units |-> IF u = 3 THEN "n" ELSE "m"],
          size |-> [u \in Units |-> u], mtime |-> <<0, 1, 0>>, absent |-> {},
          files |-> [u \in Units |-> {"main"}], real |-> <<1, 2, 3>>,
          known |-> Units, wanted |-> Units, users |-> {<<"none", 0>>}, start |-> {"idle"},
          current |-> {}, stale |-> {}]

Objects == {[Plain EXCEPT !.current = c, !.keep = k] : c \in {{}, {1}}, k \in {0, 1}}

Exes == {[Plain EXCEPT !.kind = "exe", !.absent = a, !.wanted = {1},
                       !.users = {<<"none", 0>>, <<"hard", 1>>}, !.hard = a = {},
                       !.known = IF a = {} THEN Units ELSE {}] : a \in {{}, {3}}}

\* Executables of one source, and of one name that no manifest parts.
OneSource == {[Plain EXCEPT !.kind = "exe", !.bucket = [u \in Units |-> "m"], !.wanted = {1},
                            !.known = k] : k \in {{}, Units}}

Siblings == {[Plain EXCEPT !.kind = "exe", !.purge = TRUE, !.age = 1, !.real = <<2, 2, 3>>,
                           !.bucket = [u \in Units |-> "m"], !.mtime = m, !.wanted = {2}] :
               m \in {<<0, 0, 0>>, <<0, 0, 1>>}}

\* Without an artefact in one, the build may have looked for entry 1 before a peer made it.
Dirs == {[Plain EXCEPT !.kind = "dir", !.files = <<{"main"}, {"main"}, f>>, !.wanted = {1},
                       !.start = IF f = {} THEN {"idle", "lock"} ELSE {"idle"},
                       !.age = IF f = {} THEN 0 ELSE 1] : f \in {{}, {"main", "orphan"}}}

\* Nothing is renewed, and a build makes the older entry again.
CalmDirs == {[Plain EXCEPT !.kind = "dir", !.wanted = {1}]}

OneTrim == {CHOOSE t \in Trims : TRUE}
Budgets == {[Plain EXCEPT !.kind = k, !.max = m, !.faults = TRUE, !.trims = OneTrim,
                          !.builds = {}, !.current = {1}] :
              k \in {"obj", "exe", "dir"}, m \in {0, 2, 4}}

Tight == {[Plain EXCEPT !.kind = k, !.max = 4, !.builds = {}] : k \in {"obj", "exe", "dir"}}

MCWorlds == Objects \cup Exes \cup OneSource \cup Siblings \cup Dirs \cup CalmDirs \cup Budgets \cup Tight
===============================================================================
