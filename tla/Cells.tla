-------------------------------- MODULE Cells ---------------------------------
(***************************************************************************)
(* The cells of a cache pool and their purge (trim_cache.py).  A build     *)
(* keeps its entries in <pool>/<variant>; ct-trim-cache                    *)
(* --purge-unresolvable, run in a checkout, lists the cells of the pool    *)
(* and takes away those that no variant of the checkout names and that     *)
(* nothing was written in for long, while builds go on.                    *)
(*                                                                         *)
(* A cell holds leaves: a file, the temporary it is compiled into or the   *)
(* lock beside it, in a bucket or, with bucket Top, in the cell itself.  A *)
(* world has also pool, the cells there at first, all cold; peers, the     *)
(* cells other checkouts build in; and told, the order of tokens that the  *)
(* purge's own command line gives, or << >>.                               *)
(***************************************************************************)
EXTENDS Flags

CONSTANTS Buckets,  \* directories named as those of a cache
          Hashed,   \* cells named as a command's hash
          Outputs   \* the files that builds make

VARIABLES pool,   \* the leaves of each cell
          warm,   \* files written since the cutoff, in their cells
          held,   \* files whose lock a build holds
          purge   \* the purging tool

cellvars == <<pool, warm, held, purge>>

Top == "top"
File(b, f) == [in |-> b, name |-> f, is |-> "file"]
Lock(l) == [l EXCEPT !.is = "lock"]
Temp(l) == [l EXCEPT !.is = "temp"]
Files(leaves) == {l \in leaves : l.is # "lock"}

Leaves(c) == IF c \in DOMAIN pool THEN pool[c] ELSE {}

\* A cell goes with its last leaf.
Put(c, leaves) == IF leaves = {} THEN [k \in DOMAIN pool \ {c} |-> pool[k]]
                  ELSE [k \in DOMAIN pool \cup {c} |-> IF k = c THEN leaves ELSE pool[k]]
------------------------------------------------------------------------------
\* The cell that a build of this checkout puts its objects in.
OwnCell == Last(proc.state.names.cas_objdir.under)

\* A call that passes no argv reads the order from the process's own.
NoArgv == [variant |-> << >>, canon |-> w.told, config |-> << >>]

_variant_resolvable(name) == resolve_variant(w, NoArgv, name).ok


_variant_canonical_name(name) == canonicalize_variant_input(w, NoArgv, name)

_is_flat_legacy_cmdhash_cell(c, leaves) == c \in Hashed /\ \E l \in Files(leaves) : l.in = Top

CellShapeOk(c, leaves) == (\E l \in leaves : l.in \in Buckets) \/ _is_flat_legacy_cmdhash_cell(c, leaves)

Label(c, leaves) ==
  IF _variant_resolvable(c)
  THEN IF c = _variant_canonical_name(c) THEN "RESOLVABLE" ELSE "NON_CANONICAL"
  ELSE IF CellShapeOk(c, leaves) THEN "UNRESOLVABLE" ELSE "UNKNOWN"
------------------------------------------------------------------------------
\* seen is what the cell held when its files were last looked for.
Idle == [phase |-> "idle", todo |-> {}, cold |-> {}, cell |-> << >>, left |-> {}, child |-> << >>,
         locked |-> {}, seen |-> {}]

CellsInit == FlagsInit /\ pool = w.pool /\ warm = {} /\ held = {} /\ purge = Idle

\* Builds that are configured go on beside the purge.
Pooled == proc.phase = "building" /\ w.pool # << >> /\ UNCHANGED flagvars

\* A build of this checkout or of another locks a file; the lock's own file is made with its directory.
BuildLocks == \E c \in {OwnCell} \cup w.peers, l \in Outputs :
  /\ <<c, l>> \notin held
  /\ <<c, l>> \notin purge.locked
  /\ held' = held \cup {<<c, l>>}
  /\ pool' = Put(c, Leaves(c) \cup {Lock(l)})
  /\ warm' = IF Lock(l) \in Leaves(c) THEN warm ELSE warm \cup {<<c, Lock(l)>>}
  /\ UNCHANGED purge

\* It compiles into a temporary, unless the file is there or its directory gone,
BuildWrites == \E h \in held :
  /\ h[2] \notin Leaves(h[1])
  /\ \E l \in Leaves(h[1]) : l.in = h[2].in
  /\ Temp(h[2]) \notin Leaves(h[1])
  /\ pool' = Put(h[1], Leaves(h[1]) \cup {Temp(h[2])})
  /\ warm' = warm \cup {<<h[1], Temp(h[2])>>}
  /\ UNCHANGED <<held, purge>>

\* and gives it the file's name, still under the lock.
BuildPublishes == \E h \in held :
  /\ Temp(h[2]) \in Leaves(h[1])
  /\ pool' = Put(h[1], (Leaves(h[1]) \ {Temp(h[2])}) \cup {h[2]})
  /\ warm' = (warm \ {<<h[1], Temp(h[2])>>}) \cup {h}
  /\ UNCHANGED <<held, purge>>

\* It releases the lock, and if the compiler failed the temporary goes before.
BuildReleases == \E h \in held :
  /\ held' = held \ {h}
  /\ pool' = Put(h[1], Leaves(h[1]) \ {Temp(h[2])})
  /\ warm' = warm \ {<<h[1], Temp(h[2])>>}
  /\ UNCHANGED purge

\* The pool's directory is read ...
Enumerate == /\ purge.phase = "idle"
             /\ purge' = [purge EXCEPT !.phase = "listing", !.todo = DOMAIN pool]
             /\ UNCHANGED <<pool, warm, held>>

\* Cells are taken in the order of their names, whichever that is.
FirstCell(cells) == CHOOSE c \in cells : TRUE

\* ... and each cell is walked, for its label and its newest file.
enumerate_cells ==
  LET c      == FirstCell(purge.todo)
      doomed == /\ Label(c, Leaves(c)) \in {"UNRESOLVABLE", "NON_CANONICAL"}
                /\ ~ \E l \in Leaves(c) : <<c, l>> \in warm
  IN  /\ purge.phase = "listing"
      /\ purge' = [purge EXCEPT !.todo = @ \ {c}, !.cold = IF doomed THEN @ \cup {c} ELSE @,
                                !.phase = IF purge.todo = {c} THEN "purging" ELSE @]
      /\ UNCHANGED <<pool, warm, held>>

\* A cell with files only is removed as one directory, another child by child.
_purge_one_cell ==
  LET c    == FirstCell(purge.cold)
      flat == \A l \in Leaves(c) : l.in = Top
      children == {<<l.in, "", "">> : l \in {l \in Leaves(c) : l.in # Top}}
                  \cup {<<Top, l.name, l.is>> : l \in {l \in Leaves(c) : l.in = Top}}
  IN  /\ purge.phase = "purging" /\ purge.cold # {}
      /\ purge' = [purge EXCEPT !.phase = "child", !.cold = @ \ {c}, !.cell = c,
                                !.left = IF flat THEN {<<Top, "", "">>} ELSE children]
      /\ UNCHANGED <<pool, warm, held>>

\* The leaves of a child: those of a directory, or a file of the cell itself.
Inside(k) == {l \in Leaves(purge.cell) : l.in = k[1] /\ (k[2] = "" \/ (l.name = k[2] /\ l.is = k[3]))}

\* _safe_locked_rmtree and _safe_locked_unlink wait for the locks of the files they found.
\* A lock is locked by a file that looks like one itself.
LockChild(k) ==
  LET wanted == {<<purge.cell, l>> : l \in Files(Inside(k))}
  IN  /\ purge.phase = "child"
      /\ wanted \cap held = {}
      /\ purge' = [purge EXCEPT !.phase = IF k[2] = "" THEN "rescan" ELSE "remove", !.child = k,
                                !.locked = wanted, !.seen = Leaves(purge.cell)]
      /\ pool' = IF wanted = {} THEN pool
                 ELSE Put(purge.cell, Leaves(purge.cell) \cup {Lock(h[2]) : h \in wanted})
      /\ UNCHANGED <<warm, held>>

LeaveChild(c) == [c EXCEPT !.phase = "child", !.left = @ \ {c.child}, !.child = << >>, !.locked = {}, !.seen = {}]

\* A directory is looked through again, and stays if a file has come to it.
RescanChild ==
  LET came == {<<purge.cell, l>> : l \in Files(Inside(purge.child))} \ purge.locked
  IN  /\ purge.phase = "rescan"
      /\ purge' = IF came = {} THEN [purge EXCEPT !.phase = "remove", !.seen = Leaves(purge.cell)]
                  ELSE LeaveChild(purge)
      /\ UNCHANGED <<pool, warm, held>>

\* A directory goes, or a whole cell, with all that is in it by now; of a file
\* its lock stays, and of a lock the lock's own.
RemoveChild ==
  LET k    == purge.child
      gone == CASE k[3] = "lock"             -> {}
                [] k = <<Top, "", "">>       -> Leaves(purge.cell)
                [] k[3] # "lock" /\ k[1] = Top /\ k[2] # "" -> Files(Inside(k))
                [] OTHER                     -> Inside(k)
  IN  /\ purge.phase = "remove"
      /\ pool' = IF gone = {} THEN pool ELSE Put(purge.cell, Leaves(purge.cell) \ gone)
      /\ warm' = warm \ {<<purge.cell, l>> : l \in gone}
      /\ purge' = LeaveChild(purge)
      /\ UNCHANGED held

\* os.rmdir has taken the cell if it was empty, and it is left to a later run if not.
EndCell == /\ purge.phase = "child" /\ purge.left = {}
           /\ purge' = [purge EXCEPT !.phase = "purging", !.cell = << >>]
           /\ UNCHANGED <<pool, warm, held>>

purge_unresolvable_cells == \/ Enumerate
                            \/ enumerate_cells
                            \/ _purge_one_cell
                            \/ \E k \in purge.left : LockChild(k)
                            \/ RescanChild
                            \/ RemoveChild
                            \/ EndCell

CellsNext == \/ Reconfigure /\ UNCHANGED cellvars
             \/ pkg_config_path_restored /\ UNCHANGED cellvars
             \/ Pooled /\ (BuildLocks \/ BuildWrites \/ BuildPublishes \/ BuildReleases
                           \/ purge_unresolvable_cells)
             \/ Ended /\ UNCHANGED cellvars

CellsSpec == CellsInit /\ [][CellsNext]_<<flagvars, cellvars>>
------------------------------------------------------------------------------
==============================================================================
