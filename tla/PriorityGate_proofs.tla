------------------------- MODULE PriorityGate_proofs -------------------------
(***************************************************************************)
(* For every set of tasks, every worker count and every priority: the gate *)
(* neither loses nor invents a slot, never leaves one idle in front of a   *)
(* live waiter, and implements the semaphore it replaces.                  *)
(***************************************************************************)
EXTENDS PriorityGate, FiniteSetTheorems, WellFoundedInduction, TLAPS

\* What the heap and the futures owe each other.
HeapInv ==
  /\ \A e \in waiters : e.seq < seq /\ pc[e.task] # "new"
  /\ \A e, f \in waiters : e.seq = f.seq \/ e.task = f.task => e = f
  /\ \A t \in Tasks : fut[t] = "pending" =>
       pc[t] = "parked" /\ t \notin cancelReq /\ \E e \in waiters : e.task = t
  /\ \A t \in Tasks : pc[t] = "new" => fut[t] = "none"
  /\ \A t \in Tasks : pc[t] = "holding" => fut[t] # "cancelled"
  /\ \A t \in Tasks : pc[t] = "parked" => fut[t] # "none"
  /\ \A t \in cancelReq : pc[t] # "new" /\ pc[t] # "holding"

\* The inductive invariant.
IInv == TypeOK /\ HeapInv /\ SlotConservation /\ NoIdleSlot

------------------------------------------------------------------------------
LEMMA SlotsType == Slots \in Nat /\ Slots >= 1
  BY NAssumption DEF Slots

\* The owners are finitely many.
LEMMA OwnersFinite == IsFiniteSet(Owners) /\ Cardinality(Owners) \in Nat
  <1>1. Owners \in SUBSET Tasks
    BY DEF Owners
  <1>2. IsFiniteSet(Owners)
    BY <1>1, TasksAssumption, FS_Subset
  <1> QED  BY <1>2, FS_CardinalityType

\* A non-empty set of naturals has a least element: the least initial segment.
LEMMA LeastNatural ==
  ASSUME NEW S \in SUBSET Nat, S # {}
  PROVE  \E n \in S : \A m \in S : n <= m
  <1> DEFINE T == {0..n : n \in S}
  <1>1. T \subseteq FiniteSubsetsOf(Nat)
    <2>1. ASSUME NEW n \in S  PROVE 0..n \in FiniteSubsetsOf(Nat)
      <3>1. 0..n \in SUBSET Nat /\ n \in Int
        OBVIOUS
      <3> QED  BY <3>1, FS_Interval DEF FiniteSubsetsOf
    <2> QED  BY <2>1
  <1>2. T # {}
    OBVIOUS
  <1>3. PICK x \in T : \A y \in T : ~ (<<y, x>> \in StrictSubsetOrdering(Nat))
    <2> HIDE DEF T
    <2> QED  BY <1>1, <1>2, FS_StrictSubsetOrderingWellFounded, WFMin
  <1>4. PICK n \in S : x = 0..n
    OBVIOUS
  <1>5. ASSUME NEW m \in S, m < n  PROVE FALSE
    <2>1. 0..m \in T
      OBVIOUS
    <2>2. 0..m \subseteq 0..n /\ 0..m # 0..n
      <3>1. n \in 0..n /\ n \notin 0..m
        BY <1>5
      <3>2. \A k \in 0..m : k \in 0..n
        BY <1>5
      <3> QED  BY <3>1, <3>2
    <2>3. 0..m \subseteq Nat /\ 0..n \subseteq Nat
      OBVIOUS
    <2>4. <<0..m, 0..n>> \in StrictSubsetOrdering(Nat)
      BY <2>2, <2>3 DEF StrictSubsetOrdering
    <2> QED  BY <1>3, <1>4, <2>1, <2>4
  <1>6. \A m \in S : n <= m
    BY <1>5
  <1> QED  BY <1>6

\* Some live entry means there is one that release() stops at.
LEMMA FirstExists ==
  ASSUME TypeOK, HeapInv, NEW w \in waiters, Live(w)
  PROVE  First # {}
  <1> DEFINE L == {e \in waiters : Live(e)}
             Rank(e) == MaxPriority - Priority[e.task]
  <1>a. \A e \in waiters : /\ e.task \in Tasks /\ e.seq \in Nat
                            /\ Priority[e.task] \in Nat /\ Rank(e) \in Nat
    BY PriorityAssumption DEF TypeOK, Entry
  <1>1. PICK r \in {Rank(e) : e \in L} : \A q \in {Rank(e) : e \in L} : r <= q
    <2>1. {Rank(e) : e \in L} \in SUBSET Nat
      BY <1>a
    <2>2. {Rank(e) : e \in L} # {}
      OBVIOUS
    <2> HIDE DEF L, Rank
    <2> QED  BY <2>1, <2>2, LeastNatural
  <1> DEFINE T == {e \in L : Rank(e) = r}
  <1>2. PICK n \in {e.seq : e \in T} : \A m \in {e.seq : e \in T} : n <= m
    <2>1. {e.seq : e \in T} \in SUBSET Nat
      BY <1>a
    <2>2. {e.seq : e \in T} # {}
      OBVIOUS
    <2> HIDE DEF T
    <2> QED  BY <2>1, <2>2, LeastNatural
  <1>3. PICK e \in T : e.seq = n
    OBVIOUS
  <1>4. ASSUME NEW f \in waiters \ {e}, Live(f)  PROVE Before(e, f)
    <2>1. Rank(e) <= Rank(f)
      BY <1>1, <1>4
    <2>2. CASE Rank(e) = Rank(f)
      <3>1. e.seq <= f.seq /\ e.seq # f.seq
        BY <1>2, <1>3, <1>4, <2>2 DEF HeapInv
      <3> QED  BY <1>a, <2>2, <3>1, PriorityAssumption DEF Before
    <2>3. CASE Rank(e) # Rank(f)
      BY <1>a, <2>1, <2>3, PriorityAssumption DEF Before
    <2> QED  BY <2>2, <2>3
  <1> QED  BY <1>3, <1>4 DEF First

\* What Release does, in the terms the invariant uses.  t is a task that gives
\* up a slot it owns.
LEMMA ReleaseStep ==
  ASSUME IInv, NEW t \in Owners, Release,
         pc' = [pc EXCEPT ![t] = "done"], UNCHANGED <<seq, cancelReq>>
  PROVE  IInv'
  <1>1. CASE \E e \in First :
               /\ waiters' = {f \in waiters : Before(e, f)}
               /\ fut' = [fut EXCEPT ![e.task] = "resolved"]
               /\ UNCHANGED free
    <2>1. PICK e \in First : /\ waiters' = {f \in waiters : Before(e, f)}
                             /\ fut' = [fut EXCEPT ![e.task] = "resolved"]
                             /\ UNCHANGED free
      BY <1>1
    <2> DEFINE u == e.task
    <2>2. /\ u \in Tasks /\ t \in Tasks /\ e \in waiters
          /\ fut[u] = "pending" /\ pc[u] = "parked" /\ u # t /\ u \notin Owners
          /\ \A f \in waiters \ {e} : Live(f) => Before(e, f)
      BY <2>1 DEF IInv, TypeOK, HeapInv, Entry, First, Live, Owners
    <2>3. TypeOK'
      BY <2>1, <2>2 DEF IInv, TypeOK
    <2>4. HeapInv'
      <3>1. ASSUME NEW v \in Tasks, fut'[v] = "pending"
            PROVE  pc'[v] = "parked" /\ v \notin cancelReq' /\ \E f \in waiters' : f.task = v
        <4>1. v # u /\ fut[v] = "pending"
          BY <2>1, <2>2, <3>1 DEF IInv, TypeOK
        <4>2. PICK f \in waiters : f.task = v
          BY <4>1 DEF IInv, HeapInv
        <4>3. f \in waiters'
          BY <2>1, <2>2, <4>1, <4>2 DEF Live
        <4> QED  BY <2>2, <4>1, <4>2, <4>3 DEF IInv, HeapInv, TypeOK, Owners
      <3>2. \A f \in waiters' : f \in waiters
        BY <2>1
      <3>3. /\ \A f \in waiters' : f.seq < seq' /\ pc'[f.task] # "new"
            /\ \A f, g \in waiters' : f.seq = g.seq \/ f.task = g.task => f = g
        BY <3>2 DEF IInv, HeapInv, TypeOK, Entry
      <3>4. /\ \A v \in Tasks : pc'[v] = "new" => fut'[v] = "none"
            /\ \A v \in Tasks : pc'[v] = "holding" => fut'[v] # "cancelled"
            /\ \A v \in Tasks : pc'[v] = "parked" => fut'[v] # "none"
            /\ \A v \in cancelReq' : pc'[v] # "new" /\ pc'[v] # "holding"
        BY <2>1, <2>2 DEF IInv, HeapInv, TypeOK
      <3> QED  BY <3>1, <3>3, <3>4 DEF HeapInv
    <2>5. Owners' = (Owners \ {t}) \cup {u}
      BY <2>1, <2>2 DEF IInv, TypeOK, HeapInv, Owners
    <2>6. Cardinality(Owners') = Cardinality(Owners)
      <3>1. IsFiniteSet(Owners \ {t}) /\ Cardinality(Owners \ {t}) = Cardinality(Owners) - 1
        BY OwnersFinite, FS_RemoveElement
      <3>2. Cardinality((Owners \ {t}) \cup {u}) = Cardinality(Owners \ {t}) + 1
        BY <2>2, <3>1, FS_AddElement
      <3> QED  BY <2>5, <3>1, <3>2, OwnersFinite
    <2>7. SlotConservation'
      BY <2>1, <2>6 DEF IInv, SlotConservation
    <2>8. NoIdleSlot'
      BY <2>1, <2>2 DEF IInv, NoIdleSlot, HeapInv, TypeOK
    <2> QED  BY <2>3, <2>4, <2>7, <2>8 DEF IInv
  <1>2. CASE First = {} /\ waiters' = {} /\ free' = free + 1 /\ UNCHANGED fut
    <2>1. t \in Tasks /\ \A v \in Tasks : fut[v] # "pending"
      <3>1. ASSUME NEW v \in Tasks, fut[v] = "pending"  PROVE FALSE
        <4>1. PICK w \in waiters : w.task = v
          BY <3>1 DEF IInv, HeapInv
        <4> QED  BY <1>2, <3>1, <4>1, FirstExists DEF IInv, Live
      <3> QED  BY <3>1 DEF Owners
    <2>2. Owners' = Owners \ {t}
      BY <1>2, <2>1 DEF IInv, TypeOK, Owners
    <2>3. Cardinality(Owners') = Cardinality(Owners) - 1
      BY <2>2, OwnersFinite, FS_RemoveElement
    <2>4. Cardinality(Owners) >= 1
      BY OwnersFinite, FS_EmptySet
    <2>5. SlotConservation'
      BY <1>2, <2>3, OwnersFinite, SlotsType DEF IInv, SlotConservation, TypeOK
    <2>6. TypeOK'
      BY <1>2, <2>1, <2>4, OwnersFinite, SlotsType DEF IInv, TypeOK, SlotConservation
    <2>7. HeapInv'
      BY <1>2, <2>1 DEF IInv, HeapInv, TypeOK
    <2>8. NoIdleSlot'
      BY <1>2, <2>1 DEF NoIdleSlot
    <2> QED  BY <2>5, <2>6, <2>7, <2>8 DEF IInv
  <1> QED  BY <1>1, <1>2 DEF Release

LEMMA InitIInv == Init => IInv
  <1> SUFFICES ASSUME Init  PROVE IInv
    OBVIOUS
  <1>1. Owners = {}
    BY DEF Init, Owners
  <1>2. Cardinality(Owners) = 0
    BY <1>1, FS_EmptySet
  <1> QED
    BY <1>2, SlotsType DEF Init, IInv, TypeOK, HeapInv, SlotConservation, NoIdleSlot

LEMMA StepIInv == IInv /\ [Next]_vars => IInv'
  <1> SUFFICES ASSUME IInv, [Next]_vars  PROVE IInv'
    OBVIOUS
  <1>1. ASSUME NEW t \in Tasks, AcquireFree(t)  PROVE IInv'
    <2>1. /\ TypeOK' /\ HeapInv' /\ NoIdleSlot'
      BY <1>1, SlotsType DEF AcquireFree, IInv, TypeOK, HeapInv, NoIdleSlot
    <2>2. Owners' = Owners \cup {t} /\ t \notin Owners
      BY <1>1 DEF AcquireFree, IInv, TypeOK, HeapInv, Owners
    <2>3. Cardinality(Owners') = Cardinality(Owners) + 1
      BY <2>2, OwnersFinite, FS_AddElement
    <2>4. SlotConservation'
      BY <1>1, <2>3, OwnersFinite, SlotsType
      DEF AcquireFree, IInv, TypeOK, SlotConservation
    <2> QED  BY <2>1, <2>4 DEF IInv
  <1>2. ASSUME NEW t \in Tasks, AcquirePark(t)  PROVE IInv'
    <2> DEFINE w == [task |-> t, seq |-> seq]
    <2>1. TypeOK'
      BY <1>2 DEF AcquirePark, IInv, TypeOK, Entry
    <2>2. HeapInv'
      <3>1. /\ \A e \in waiters' : e \in waiters \/ e = w
            /\ \A e \in waiters : e \in waiters' /\ e.seq \in Nat /\ e.seq < seq
            /\ w \in waiters' /\ w.task = t /\ w.seq = seq /\ seq \in Nat /\ seq' = seq + 1
        BY <1>2 DEF AcquirePark, IInv, TypeOK, HeapInv, Entry
      <3>2. /\ \A e \in waiters' : e.seq < seq' /\ pc'[e.task] # "new"
            /\ \A e, f \in waiters' : e.seq = f.seq \/ e.task = f.task => e = f
        <4> HIDE DEF w
        <4>1. \A e \in waiters' : e.seq < seq'
          BY <3>1
        <4>2. \A e \in waiters' : pc'[e.task] # "new"
          BY <1>2, <3>1 DEF AcquirePark, IInv, TypeOK, HeapInv, Entry
        <4>3. \A e, f \in waiters' : e.seq = f.seq \/ e.task = f.task => e = f
          BY <1>2, <3>1 DEF AcquirePark, IInv, HeapInv
        <4> QED  BY <4>1, <4>2, <4>3
      <3>3. ASSUME NEW v \in Tasks, fut'[v] = "pending"
            PROVE  pc'[v] = "parked" /\ v \notin cancelReq' /\ \E f \in waiters' : f.task = v
        <4>1. CASE v = t
          <5>1. pc'[v] = "parked"
            BY <1>2, <4>1 DEF AcquirePark, IInv, TypeOK
          <5>2. v \notin cancelReq'
            BY <1>2, <4>1 DEF AcquirePark, IInv, HeapInv
          <5>3. \E f \in waiters' : f.task = v
            BY <3>1, <4>1
          <5> QED  BY <5>1, <5>2, <5>3
        <4>2. CASE v # t
          <5>1. fut[v] = "pending"
            BY <1>2, <3>3, <4>2 DEF AcquirePark, IInv, TypeOK
          <5> QED  BY <1>2, <3>1, <4>2, <5>1 DEF AcquirePark, IInv, TypeOK, HeapInv
        <4> QED  BY <4>1, <4>2
      <3>4. /\ \A v \in Tasks : pc'[v] = "new" => fut'[v] = "none"
            /\ \A v \in Tasks : pc'[v] = "holding" => fut'[v] # "cancelled"
            /\ \A v \in Tasks : pc'[v] = "parked" => fut'[v] # "none"
            /\ \A v \in cancelReq' : pc'[v] # "new" /\ pc'[v] # "holding"
        BY <1>2 DEF AcquirePark, IInv, HeapInv, TypeOK
      <3> QED  BY <3>2, <3>3, <3>4 DEF HeapInv
    <2>3. Owners' = Owners
      BY <1>2 DEF AcquirePark, IInv, TypeOK, HeapInv, Owners
    <2>4. SlotConservation' /\ NoIdleSlot'
      BY <1>2, <2>3 DEF AcquirePark, IInv, SlotConservation, NoIdleSlot
    <2> QED  BY <2>1, <2>2, <2>4 DEF IInv
  <1>3. ASSUME NEW t \in Tasks, Resume(t)  PROVE IInv'
    <2>1. Owners' = Owners
      BY <1>3 DEF Resume, IInv, TypeOK, Owners
    <2>2. TypeOK' /\ HeapInv' /\ NoIdleSlot'
      BY <1>3 DEF Resume, IInv, TypeOK, HeapInv, NoIdleSlot
    <2> QED  BY <1>3, <2>1, <2>2 DEF Resume, IInv, SlotConservation
  <1>4. ASSUME NEW t \in Tasks, Finish(t)  PROVE IInv'
    BY <1>4, ReleaseStep DEF Finish, Owners
  <1>5. ASSUME NEW t \in Tasks, Cancel(t)  PROVE IInv'
    <2>1. TypeOK' /\ HeapInv' /\ NoIdleSlot'
      BY <1>5 DEF Cancel, IInv, TypeOK, HeapInv, NoIdleSlot
    <2>2. Owners' = Owners
      BY <1>5 DEF Cancel, IInv, TypeOK, Owners
    <2> QED  BY <1>5, <2>1, <2>2 DEF Cancel, IInv, SlotConservation
  <1>6. ASSUME NEW t \in Tasks, Cancelled(t)  PROVE IInv'
    <2>1. CASE fut[t] = "resolved"
      BY <1>6, <2>1, ReleaseStep DEF Cancelled, Owners
    <2>2. CASE fut[t] # "resolved"
      <3>1. Owners' = Owners
        BY <1>6, <2>2 DEF Cancelled, IInv, TypeOK, Owners
      <3>2. TypeOK' /\ HeapInv' /\ NoIdleSlot'
        BY <1>6, <2>2 DEF Cancelled, IInv, TypeOK, HeapInv, NoIdleSlot, Owners
      <3> QED  BY <1>6, <2>2, <3>1, <3>2 DEF Cancelled, IInv, SlotConservation
    <2> QED  BY <2>1, <2>2
  <1>7. CASE UNCHANGED vars
    BY <1>7 DEF vars, IInv, TypeOK, HeapInv, SlotConservation, NoIdleSlot, Owners
  <1> QED
    BY <1>1, <1>2, <1>3, <1>4, <1>5, <1>6, <1>7 DEF Next, Step, AllDone

\* The gate's state keeps its types, and the heap and the futures agree.
THEOREM GateInvariant == Spec => []IInv
  BY InitIInv, StepIInv, PTL DEF Spec

\* Every state is well typed: in particular free never exceeds the slots the
\* gate was built with, whatever is cancelled.
THEOREM GateTypeOK == Spec => []TypeOK
  <1>1. IInv => TypeOK
    BY DEF IInv
  <1> QED  BY <1>1, GateInvariant, PTL

\* acquire() and release() neither lose nor invent a slot.
THEOREM GateConservesSlots == Spec => []SlotConservation
  <1>1. IInv => SlotConservation
    BY DEF IInv
  <1> QED  BY <1>1, GateInvariant, PTL

\* No wake-up is lost: a slot is never left idle in front of a live waiter.
THEOREM GateLosesNoWakeup == Spec => []NoIdleSlot
  <1>1. IInv => NoIdleSlot
    BY DEF IInv
  <1> QED  BY <1>1, GateInvariant, PTL

\* A freed slot goes to a waiter no other live waiter outranks, first come
\* first served among equals (release, "direct hand-off").
THEOREM GateHandsOffInOrder == Spec => HandOffOrder
  <1> DEFINE InOrder ==
        \A t \in Tasks : fut[t] = "pending" /\ fut'[t] = "resolved" =>
          \A e, f \in waiters : e.task = t /\ f.task # t /\ fut[f.task] = "pending"
             => /\ Priority[t] >= Priority[f.task]
                /\ Priority[t] = Priority[f.task] => e.seq < f.seq
  <1>1. ASSUME IInv, IInv', [Next]_vars  PROVE InOrder
    <2> SUFFICES ASSUME NEW t \in Tasks, fut[t] = "pending", fut'[t] = "resolved",
                        NEW e \in waiters, NEW f \in waiters,
                        e.task = t, f.task # t, fut[f.task] = "pending"
                 PROVE  /\ Priority[t] >= Priority[f.task]
                        /\ Priority[t] = Priority[f.task] => e.seq < f.seq
      OBVIOUS
    <2>1. Release
      BY <1>1 DEF Next, Step, AllDone, AcquireFree, AcquirePark, Resume, Finish,
                  Cancel, Cancelled, vars, IInv, TypeOK
    <2>2. PICK g \in First : fut' = [fut EXCEPT ![g.task] = "resolved"]
      BY <2>1 DEF Release
    <2>3. g.task = t
      BY <1>1, <2>2 DEF IInv, TypeOK
    <2>4. e = g /\ Before(g, f)
      BY <1>1, <2>2, <2>3 DEF First, Live, IInv, HeapInv
    <2> QED  BY <1>1, <2>4, PriorityAssumption DEF Before, IInv, TypeOK, Entry
  <1> QED  BY <1>1, GateInvariant, PTL DEF Spec, HandOffOrder

\* The gate is a semaphore: every step enters, leaves or hands over one slot,
\* or changes nothing the semaphore shows.
THEOREM GateImplementsSemaphore == Spec => ImplementsSemaphore
  <1> DEFINE Gone == {t \in Tasks : \/ pc[t] = "done"
                                    \/ pc[t] = "parked" /\ fut[t] = "cancelled"}
  <1>1. Init => Sem!Init
    BY DEF Init, Sem!Init, Owners
  <1>2. ASSUME IInv, [Next]_vars  PROVE [Sem!Next]_(Sem!vars)
    <2>r. ASSUME NEW t \in Owners, Release, pc' = [pc EXCEPT ![t] = "done"]
          PROVE  Sem!Next
      <3>1. t \in Tasks /\ t \notin Gone
        BY <1>2, <2>r DEF Owners, IInv, TypeOK
      <3>2. CASE \E e \in First : fut' = [fut EXCEPT ![e.task] = "resolved"]
        <4>1. PICK e \in First : fut' = [fut EXCEPT ![e.task] = "resolved"]
          BY <3>2
        <4> DEFINE u == e.task
        <4>2. u \in Tasks /\ fut[u] = "pending" /\ pc[u] = "parked" /\ u # t
          BY <1>2, <2>r DEF First, Live, IInv, TypeOK, HeapInv, Entry, Owners
        <4>3. Owners' = (Owners \ {t}) \cup {u} /\ Gone' = Gone \cup {t}
          BY <1>2, <2>r, <4>1, <4>2 DEF Owners, IInv, TypeOK, HeapInv
        <4>4. u \notin Owners \cup Gone
          BY <4>2 DEF Owners
        <4>5. Sem!HandOver(t, u)
          BY <4>3, <4>4 DEF Sem!HandOver
        <4> QED  BY <3>1, <4>2, <4>5 DEF Sem!Next
      <3>3. CASE UNCHANGED fut
        <4>1. Owners' = Owners \ {t} /\ Gone' = Gone \cup {t}
          BY <1>2, <2>r, <3>3 DEF Owners, IInv, TypeOK
        <4>2. Sem!Leave(t)
          BY <3>1, <4>1 DEF Sem!Leave
        <4> QED  BY <3>1, <4>2 DEF Sem!Next
      <3> QED  BY <2>r, <3>2, <3>3 DEF Release
    <2>1. ASSUME NEW t \in Tasks, AcquireFree(t)  PROVE Sem!Next
      <3>1. Owners' = Owners \cup {t} /\ Gone' = Gone /\ t \notin Owners \cup Gone
        BY <1>2, <2>1 DEF AcquireFree, IInv, TypeOK, HeapInv, Owners
      <3>2. Cardinality(Owners) < Slots
        BY <1>2, <2>1, OwnersFinite, SlotsType
        DEF AcquireFree, IInv, TypeOK, SlotConservation
      <3>3. Sem!Enter(t)
        BY <3>1, <3>2 DEF Sem!Enter, Cardinality, Sem!Cardinality
      <3> QED  BY <3>3 DEF Sem!Next
    <2>2. ASSUME NEW t \in Tasks, AcquirePark(t) \/ Resume(t)  PROVE UNCHANGED Sem!vars
      <3>1. Owners' = Owners /\ Gone' = Gone
        BY <1>2, <2>2 DEF AcquirePark, Resume, IInv, TypeOK, HeapInv, Owners
      <3> QED  BY <3>1 DEF Sem!vars
    <2>3. ASSUME NEW t \in Tasks, Finish(t)  PROVE Sem!Next
      BY <2>3, <2>r DEF Finish, Owners
    <2>4. ASSUME NEW t \in Tasks, Cancel(t)  PROVE [Sem!Next]_(Sem!vars)
      <3>1. CASE fut[t] = "pending"
        <4>1. Owners' = Owners /\ Gone' = Gone \cup {t} /\ t \notin Owners \cup Gone
          BY <1>2, <2>4, <3>1 DEF Cancel, IInv, TypeOK, Owners
        <4>2. Sem!Leave(t)
          BY <4>1 DEF Sem!Leave
        <4> QED  BY <4>2 DEF Sem!Next
      <3>2. CASE fut[t] # "pending"
        <4>1. Owners' = Owners /\ Gone' = Gone
          BY <1>2, <2>4, <3>2 DEF Cancel, IInv, TypeOK, Owners
        <4> QED  BY <4>1 DEF Sem!vars
      <3> QED  BY <3>1, <3>2
    <2>5. ASSUME NEW t \in Tasks, Cancelled(t)  PROVE [Sem!Next]_(Sem!vars)
      <3>1. CASE fut[t] = "resolved"
        BY <2>5, <3>1, <2>r DEF Cancelled, Owners
      <3>2. CASE fut[t] # "resolved"
        <4>1. fut[t] = "cancelled"
          BY <1>2, <2>5, <3>2 DEF Cancelled, IInv, TypeOK, HeapInv
        <4>2. Owners' = Owners /\ Gone' = Gone
          BY <1>2, <2>5, <3>2, <4>1 DEF Cancelled, IInv, TypeOK, Owners
        <4> QED  BY <4>2 DEF Sem!vars
      <3> QED  BY <3>1, <3>2
    <2>6. CASE UNCHANGED vars
      BY <2>6 DEF vars, Owners, Sem!vars
    <2> QED
      BY <1>2, <2>1, <2>2, <2>3, <2>4, <2>5, <2>6 DEF Next, Step, AllDone
  <1> QED  BY <1>1, <1>2, GateInvariant, PTL DEF Spec, Sem!Spec, ImplementsSemaphore
==============================================================================
