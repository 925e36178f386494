------------------------------ MODULE FileReader ------------------------------
(***************************************************************************)
(* One process reads one file again and again, each time under the macros  *)
(* of another reader: the command that includes it, another unit, a later  *)
(* pass.  A reading is served from the caches, or it is a walk over the    *)
(* file, one line a step, whose result the caches keep                     *)
(* (preprocessing_cache.py, SimplePreprocessor.process_structured).        *)
(***************************************************************************)
EXTENDS PreprocessingCache

CONSTANTS Texts,    \* the files a run may read: sequences of lines
          States,   \* the macro states they may be read under
          Readers   \* readings of one run, at most

VARIABLES file,  \* the file
          ctx,   \* the caches
          ms,    \* the macros of the reading in progress, or of the last one
          walk,  \* the walk in progress, or NoWalk
          last,  \* the last reading served, or NoReading
          count  \* readings begun

vars == <<file, ctx, ms, walk, last, count>>

NoWalk == [line |-> -1]
NoReading == [on |-> {}, made |-> FALSE]

Init == /\ file \in Texts
        /\ ctx = << >>
        /\ ms = MacroState(<< >>, << >>, << >>)
        /\ walk = NoWalk
        /\ last = NoReading
        /\ count = 0

\* A reader the caches can serve.
Serve(m) ==
  /\ walk = NoWalk
  /\ count < Readers
  /\ Where(file, m) \in DOMAIN ctx
  /\ ms' = m
  /\ last' = get_or_compute_preprocessing(ctx, file, m).reading
  /\ count' = count + 1
  /\ UNCHANGED <<file, ctx, walk>>

\* A reader they cannot: the walk starts.
Begin(m) ==
  /\ walk = NoWalk
  /\ count < Readers
  /\ Where(file, m) \notin DOMAIN ctx
  /\ ms' = m
  /\ walk' = Start(IncludeGuard(file), all_macros(m), m.params)
  /\ last' = NoReading
  /\ count' = count + 1
  /\ UNCHANGED <<file, ctx>>

Step ==
  /\ walk # NoWalk
  /\ walk.line < Len(file)
  /\ walk' = ProcessLine(walk, file[walk.line + 1])
  /\ UNCHANGED <<file, ctx, ms, last, count>>

Finish ==
  /\ walk # NoWalk
  /\ walk.line = Len(file)
  /\ last' = compute_preprocessing(file, ms, walk)
  /\ ctx' = (Where(file, ms) :> last') @@ ctx
  /\ walk' = NoWalk
  /\ UNCHANGED <<file, ms, count>>

Done == walk = NoWalk /\ count = Readers /\ UNCHANGED vars

Next == (\E m \in States : Serve(m) \/ Begin(m)) \/ Step \/ Finish \/ Done
Spec == Init /\ [][Next]_vars
------------------------------------------------------------------------------
(* What C says of the same lines, by position and not by a stack.  A       *)
(* condition without a verdict counts as false, as it does here.           *)

\* The last line of an arm that encloses line i at any level: its arms open at
\* lines whose group is still open at i.
Openers(lines, i) ==
  {j \in 1..i - 1 : /\ Opens(lines[j])
                    /\ \A k \in j..i - 1 : Depth(lines, k) >= Depth(lines, j)}

\* The arms of the group opened at line j that begin before line i.
ArmsOf(lines, j, i) ==
  {j} \cup {k \in j + 1..i - 1 : /\ lines[k].t \in {"elif", "else"}
                                 /\ Depth(lines, k) = Depth(lines, j)
                                 /\ \A m \in j..k : Depth(lines, m) >= Depth(lines, j)}

Test(l, mac, par) == CASE l.t \in {"if", "elif"} -> Verdict(l.c, mac, par) = "true"
                       [] l.t = "ifdef"  -> l.n \in DOMAIN mac
                       [] l.t = "ifndef" -> l.n \notin DOMAIN mac
                       [] OTHER -> TRUE

\* For each line: the macros before it, and, where it begins an arm, whether it
\* is the arm its group takes.
Meaning(lines, mac, par, guard) ==
  LET m[i \in 0..Len(lines)] ==
        IF i = 0 THEN [mac |-> mac, par |-> par, takes |-> FALSE, on |-> TRUE]
        ELSE LET l     == lines[i]
                 was   == m[i - 1]
                 group == Openers(lines, i)
                 \* the arm of each enclosing group that holds line i was taken
                 held(js) == \A j \in js : LET a == ArmsOf(lines, j, i)
                                           IN  m[CHOOSE x \in a : \A y \in a : y <= x].takes
                 mine  == CHOOSE j \in group : \A k \in group : k <= j
                 free  == \A a \in ArmsOf(lines, mine, i) : ~ m[a].takes
                 takes == CASE Opens(l) -> held(group) /\ Test(l, was.mac, was.par)
                            [] l.t \in {"elif", "else"} ->
                                 held(group \ {mine}) /\ free /\ Test(l, was.mac, was.par)
                            [] OTHER -> FALSE
                 on    == held(group)
                 sets  == l.t = "define" /\ on /\ l.n # guard
                 drops == l.t = "undef" /\ on
             IN  [takes |-> takes, on |-> on,
                  mac |-> IF sets THEN (l.n :> l.b) @@ was.mac
                          ELSE IF drops THEN Without(was.mac, {l.n}) ELSE was.mac,
                  par |-> IF sets /\ "p" \in DOMAIN l THEN (l.n :> l.p) @@ was.par
                          ELSE IF sets \/ drops THEN Without(was.par, {l.n}) ELSE was.par]
  IN  m

\* A finished walk found active the lines C says are, and ended with its macros.
ActiveAsInC ==
  walk # NoWalk /\ walk.line = Len(file) =>
    LET Agrees(m) == /\ walk.on = {i \in DOMAIN file : file[i].t \notin Arms /\ m[i].on}
                     /\ walk.mac = m[Len(file)].mac
                     /\ walk.par = m[Len(file)].par
    IN  Agrees(Meaning(file, all_macros(ms), ms.params, walk.guard))
------------------------------------------------------------------------------
(* A reading served is the one its reader would have made: the same lines  *)
(* and headers, the same macros afterwards, the same effects on a third    *)
(* reader, although it was made under other macros.                        *)
ReuseIsRerun ==
  last # NoReading =>
    LET Agrees(own) == /\ last.on = own.on
                       /\ last.includes = own.includes
                       /\ last.after = own.after
                       /\ \A m \in States : Apply(last.effects, m) = Apply(own.effects, m)
    IN  Agrees(Reading(file, ms))
==============================================================================
