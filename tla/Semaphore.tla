------------------------------ MODULE Semaphore ------------------------------
(***************************************************************************)
(* What asyncio.Semaphore(n) promises, the primitive PriorityGate replaces *)
(* ("Drop-in replacement for asyncio.Semaphore(n) in ShakeBackend",        *)
(* priority_gate.py): at most Slots tasks are inside, a task enters and    *)
(* leaves once, and it may also leave without ever entering (cancelled).   *)
(***************************************************************************)
EXTENDS Naturals, FiniteSets

CONSTANTS Tasks,  \* the tasks of the build that share the semaphore
          Slots   \* how many of them may be inside at once

VARIABLES inside, \* tasks that own a slot
          gone    \* tasks that are through with the semaphore

vars == <<inside, gone>>

TypeOK == inside \subseteq Tasks /\ gone \subseteq Tasks

Init == inside = {} /\ gone = {}

Enter(t) == /\ t \notin inside \cup gone
            /\ Cardinality(inside) < Slots
            /\ inside' = inside \cup {t}
            /\ UNCHANGED gone

Leave(t) == /\ t \notin gone
            /\ inside' = inside \ {t}
            /\ gone' = gone \cup {t}

\* A task leaves and the slot it held goes straight to u.
HandOver(t, u) == /\ t \in inside
                  /\ u \notin inside \cup gone
                  /\ inside' = (inside \ {t}) \cup {u}
                  /\ gone' = gone \cup {t}

Next == \E t \in Tasks : Enter(t) \/ Leave(t) \/ \E u \in Tasks : HandOver(t, u)

Spec == Init /\ [][Next]_vars
==============================================================================
