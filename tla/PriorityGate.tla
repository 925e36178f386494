----------------------------- MODULE PriorityGate -----------------------------
(***************************************************************************)
(* priority_gate.py: the N-slot gate in front of the commands that         *)
(* ShakeBackend runs.  Everything runs on one asyncio event loop, so an    *)
(* action is what one task does between two awaits, or one Task.cancel().  *)
(*                                                                         *)
(* A future of the heap is resolved (the slot was handed over and its task *)
(* has not resumed yet), pending, or done by cancellation; the last kind   *)
(* stays in the heap until release() pops and skips it.                    *)
(***************************************************************************)
EXTENDS Integers, FiniteSets

CONSTANTS Tasks,       \* the tasks that call acquire(), each once
          N,           \* the worker count the gate is built with
          MaxPriority, \* bound on the priorities
          Priority     \* the priority each task acquires with (its critical time)

ASSUME TasksAssumption == IsFiniteSet(Tasks)
ASSUME NAssumption == N \in Int
ASSUME PriorityAssumption == MaxPriority \in Nat /\ Priority \in [Tasks -> 0..MaxPriority]

VARIABLES free,     \* self._free
          waiters,  \* self._waiters: entries [task, seq]; the priority is the task's
          seq,      \* the next value of self._seq
          pc,       \* what each task is doing
          fut,      \* the future a parked task awaits
          cancelReq \* tasks whose cancellation is pending delivery (_must_cancel)

vars == <<free, waiters, seq, pc, fut, cancelReq>>

Slots == IF N > 1 THEN N ELSE 1

Entry == [task : Tasks, seq : Nat]

TypeOK == /\ free \in 0..Slots
          /\ waiters \subseteq Entry
          /\ seq \in Nat
          /\ pc \in [Tasks -> {"new", "parked", "holding", "done"}]
          /\ fut \in [Tasks -> {"none", "pending", "resolved", "cancelled"}]
          /\ cancelReq \subseteq Tasks

Init == /\ free = Slots
        /\ waiters = {}
        /\ seq = 0
        /\ pc = [t \in Tasks |-> "new"]
        /\ fut = [t \in Tasks |-> "none"]
        /\ cancelReq = {}

\* The heap order: higher priority first, then the earlier arrival.
Before(e, f) == \/ Priority[e.task] > Priority[f.task]
                \/ Priority[e.task] = Priority[f.task] /\ e.seq < f.seq

Live(e) == fut[e.task] = "pending"

\* The entry release() stops at, and the entries it pops on the way: every
\* done future ahead of that entry is dropped.
First == {e \in waiters : Live(e) /\ \A f \in waiters \ {e} : Live(f) => Before(e, f)}
------------------------------------------------------------------------------
\* Mutant: a slot is taken without counting it.
AcquireUncounted(t) == /\ pc[t] = "new" /\ free > 0
                       /\ pc' = [pc EXCEPT ![t] = "holding"]
                       /\ UNCHANGED <<free, waiters, seq, fut, cancelReq>>

AcquireFree(t) == /\ pc[t] = "new" /\ free > 0
                  /\ free' = free - 1
                  /\ pc' = [pc EXCEPT ![t] = "holding"]
                  /\ UNCHANGED <<waiters, seq, fut, cancelReq>>

AcquirePark(t) == /\ pc[t] = "new" /\ free = 0
                  /\ waiters' = waiters \cup {[task |-> t, seq |-> seq]}
                  /\ seq' = seq + 1
                  /\ pc' = [pc EXCEPT ![t] = "parked"]
                  /\ fut' = [fut EXCEPT ![t] = "pending"]
                  /\ UNCHANGED <<free, cancelReq>>

\* Mutant: the slot goes back to the pool although a waiter is live.
ReleaseToPool == /\ free' = free + 1
                 /\ UNCHANGED <<waiters, fut>>

\* release(): hand the slot to the first live waiter, or put it back.
Release == \/ \E e \in First :
                /\ waiters' = {f \in waiters : Before(e, f)}
                /\ fut' = [fut EXCEPT ![e.task] = "resolved"]
                /\ UNCHANGED free
           \/ /\ First = {}
              /\ waiters' = {}
              /\ free' = free + 1
              /\ UNCHANGED fut

\* The awaited future is resolved and nobody cancelled the task: it runs.
Resume(t) == /\ pc[t] = "parked" /\ fut[t] = "resolved" /\ t \notin cancelReq
             /\ pc' = [pc EXCEPT ![t] = "holding"]
             /\ UNCHANGED <<free, waiters, seq, fut, cancelReq>>

\* The holder's finally clause.
Finish(t) == /\ pc[t] = "holding"
             /\ Release
             /\ pc' = [pc EXCEPT ![t] = "done"]
             /\ UNCHANGED <<seq, cancelReq>>

\* Task.cancel() on a parked task: a pending future is cancelled; a resolved
\* one cannot be, and the exception waits for the task to resume.
Cancel(t) == /\ pc[t] = "parked" /\ t \notin cancelReq
             /\ fut[t] \in {"pending", "resolved"}
             /\ fut' = [fut EXCEPT ![t] = IF @ = "pending" THEN "cancelled" ELSE @]
             /\ cancelReq' = cancelReq \cup {t}
             /\ UNCHANGED <<free, waiters, seq, pc>>

\* Mutant: a cancelled task ends without passing its resolved slot on.
CancelledKeepsSlot(t) == /\ pc[t] = "parked" /\ t \in cancelReq
                         /\ pc' = [pc EXCEPT ![t] = "done"]
                         /\ UNCHANGED <<free, waiters, seq, fut, cancelReq>>

\* CancelledError inside acquire(): pass a slot already handed over on.
Cancelled(t) == /\ pc[t] = "parked" /\ t \in cancelReq
                /\ IF fut[t] = "resolved"
                   THEN Release
                   ELSE UNCHANGED <<free, waiters, fut>>
                /\ pc' = [pc EXCEPT ![t] = "done"]
                /\ UNCHANGED <<seq, cancelReq>>

Step(t) == \/ AcquireFree(t)
           \/ AcquirePark(t)
           \/ Resume(t)
           \/ Finish(t)
           \/ Cancelled(t)

\* The build is over: nothing is left to schedule.
AllDone == (\A t \in Tasks : pc[t] = "done") /\ UNCHANGED vars

Next == \/ \E t \in Tasks : Step(t) \/ Cancel(t)
        \/ AllDone

Spec == Init /\ [][Next]_vars

\* Every ready callback of the event loop runs, and a command ends.
Fairness == \A t \in Tasks : WF_vars(Step(t))

FairSpec == Spec /\ Fairness
------------------------------------------------------------------------------
\* Tasks that own a slot: those running a command, and those a slot was handed
\* to that have not resumed yet (priority_gate.py, "direct hand-off").
Owners == {t \in Tasks : pc[t] = "holding" \/ (pc[t] = "parked" /\ fut[t] = "resolved")}

\* Slots are neither lost nor invented, whatever mix of hand-offs, stale heap
\* entries and cancellations happens (acquire's except clause, release).
SlotConservation == free + Cardinality(Owners) = Slots

\* No lost wake-up: a slot is never free while a live waiter is parked.
NoIdleSlot == free > 0 => \A t \in Tasks : pc[t] = "parked" => fut[t] # "pending"

\* A hand-off goes to a waiter no other live waiter outranks: never to a lower
\* priority, and among equals never to the later arrival.
HandOffOrder ==
  [][\A t \in Tasks : fut[t] = "pending" /\ fut'[t] = "resolved" =>
       \A e, f \in waiters : e.task = t /\ f.task # t /\ fut[f.task] = "pending"
          => /\ Priority[t] >= Priority[f.task]
             /\ Priority[t] = Priority[f.task] => e.seq < f.seq]_vars

\* Every task that calls acquire() gets through it, holding or cancelled.
EveryTaskEnds == \A t \in Tasks : <>(pc[t] = "done")

\* The gate implements the counting semaphore it replaces.
Sem == INSTANCE Semaphore WITH
         inside <- Owners,
         gone <- {t \in Tasks : pc[t] = "done" \/ (pc[t] = "parked" /\ fut[t] = "cancelled")}

ImplementsSemaphore == Sem!Spec
==============================================================================
