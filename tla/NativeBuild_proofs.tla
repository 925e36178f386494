-------------------------- MODULE NativeBuild_proofs --------------------------
(***************************************************************************)
(* Native builds, for any projects, options, edits, trims, kills and jobs. *)
(*                                                                         *)
(* ReadsSettled: while make or ninja run a command, nothing that it opens  *)
(* or writes is written by another that runs or is still to come.  What    *)
(* the plan waits for is enough: whoever has settled a set of rules with   *)
(* all they wait for, and a rule's own waits, has settled all that makes   *)
(* what the rule opens (Sound).  And the tool settles a rule only after    *)
(* what it waits for (Orderly).                                            *)
(*                                                                         *)
(* BuildsGoWell: the script of a whole plan has a rule for all that its    *)
(* commands wait for, and what they open is made by what they wait for     *)
(* (Complete); what a build has done is there (Left).                      *)
(*                                                                         *)
(* NamedIsFresh: a file in the cache is of the text its name tells (Told), *)
(* and what is published under a name in bin is the entry of now or shows  *)
(* to be older than that (Traced).                                         *)
(*                                                                         *)
(* TestedAsBuilt: a marker beside a cache entry is of that entry, and what *)
(* is published is either joined to the entry of now or not yet done (by   *)
(* entry); where times decide, a marker that is as new as the executable   *)
(* is of it (Timed).                                                       *)
(***************************************************************************)
EXTENDS NativeBuild, FiniteSetTheorems, WellFoundedInduction, TLAPS

\* D is settled together with what it waits for: then nothing outside makes or
\* writes what x, whose waits are in D, opens or writes.
Sound(G) ==
  \A D \in SUBSET DOMAIN G : \A x \in DOMAIN G :
    (\A d \in D \cup {x} : Waits(G[d]) \cap DOMAIN G \subseteq D)
    => \A y \in DOMAIN G \ (D \cup {x}) :
         Outputs(G[y]) \cap (G[x].reads \cup Outputs(G[x])) = {}

Orderly ==
  /\ DOMAIN st \subseteq DOMAIN script.g /\ running \subseteq DOMAIN script.g
  /\ \A x \in DOMAIN st \cup running : Waits(Rule(x)) \cap DOMAIN script.g \subseteq DOMAIN st

PlanInv == w \in Worlds /\ ver \in Versions(w) /\ Sound(script.g) /\ Orderly

------------------------------------------------------------------------------
(* Repeating a function on sets that only adds                              *)

LEMMA LeastNatural ==
  ASSUME NEW T \in SUBSET Nat, T # {}
  PROVE  \E m \in T : \A k \in T : ~ k < m
<1>1. \E m \in T : \A k \in T : <<k, m>> \notin OpToRel(<, Nat)
  BY WFMin, NatLessThanWellFounded, Zenon
<1> QED  BY <1>1, Zenon DEF OpToRel

\* A function applied again and again: such a sequence of sets exists.
LEMMA Repetition ==
  ASSUME NEW S, NEW h \in [SUBSET S -> SUBSET S]
  PROVE  \E F \in [Nat -> SUBSET S] : F[0] = {} /\ \A n \in Nat \ {0} : F[n] = h[F[n - 1]]
<1> DEFINE Upto(n, f) == /\ f \in [0..n -> SUBSET S] /\ f[0] = {}
                         /\ \A i \in 1..n : f[i] = h[f[i - 1]]
           Unmet == {n \in Nat : ~ \E f : Upto(n, f)}
<1>1. \A n \in Nat : \E f : Upto(n, f)
  <2> SUFFICES ASSUME Unmet # {} PROVE FALSE  OBVIOUS
  <2>2. PICK m \in Unmet : \A k \in Unmet : ~ k < m
    <3> HIDE DEF Upto
    <3>1. Unmet \in SUBSET Nat  OBVIOUS
    <3> HIDE DEF Unmet
    <3> QED  BY <3>1, LeastNatural
  <2>3. Upto(0, [i \in 0..0 |-> {}])  OBVIOUS
  <2>4. m # 0  BY <2>3
  <2>5. m - 1 \in Nat /\ m - 1 < m  BY <2>4
  <2>6. PICK f : Upto(m - 1, f)  BY <2>2, <2>5
  <2>7. Upto(m, [i \in 0..m |-> IF i = m THEN h[f[m - 1]] ELSE f[i]])
    <3> DEFINE e == [i \in 0..m |-> IF i = m THEN h[f[m - 1]] ELSE f[i]]
    <3>1. f[m - 1] \in SUBSET S  BY <2>5, <2>6
    <3>2. \A i \in 0..m : i # m => i \in 0..m - 1  BY <2>5
    <3>3. e \in [0..m -> SUBSET S]  BY <3>1, <3>2, <2>6
    <3>4. e[0] = {}  BY <2>4, <2>5, <2>6
    <3>5. ASSUME NEW i \in 1..m PROVE e[i] = h[e[i - 1]]
      <4>1. i - 1 \in 0..m /\ i - 1 # m /\ i \in 0..m  BY <2>5
      <4>2. e[i - 1] = f[i - 1]  BY <4>1
      <4>3. CASE i = m  BY <4>1, <4>2, <4>3
      <4>4. CASE i # m
        <5>1. i \in 1..m - 1  BY <4>4, <2>5
        <5> QED  BY <5>1, <4>1, <4>2, <4>4, <2>6
      <4> QED  BY <4>3, <4>4
    <3> HIDE DEF e
    <3> QED  BY <3>3, <3>4, <3>5 DEF e
  <2> QED  BY <2>7
<1>2. ASSUME NEW n \in Nat, NEW m \in Nat, n <= m, NEW f, NEW g, Upto(n, f), Upto(m, g)
      PROVE  f[n] = g[n]
  <2> DEFINE Apart == {i \in Nat : i <= n /\ f[i] # g[i]}
  <2> SUFFICES ASSUME Apart # {} PROVE FALSE  OBVIOUS
  <2>2. PICK k \in Apart : \A i \in Apart : ~ i < k
    <3>1. Apart \in SUBSET Nat  OBVIOUS
    <3> HIDE DEF Apart
    <3> QED  BY <3>1, LeastNatural
  <2>3. k # 0  BY <1>2
  <2>4. k - 1 \in Nat /\ k - 1 < k /\ k - 1 <= n /\ k \in 1..n /\ k \in 1..m  BY <2>3, <1>2
  <2>5. f[k - 1] = g[k - 1]  BY <2>2, <2>4
  <2> QED  BY <2>4, <2>5, <1>2
<1> DEFINE F == [n \in Nat |-> (CHOOSE f : Upto(n, f))[n]]
<1>3. \A n \in Nat : Upto(n, CHOOSE f : Upto(n, f))  BY <1>1
<1>4. F \in [Nat -> SUBSET S]
  <2> SUFFICES ASSUME NEW n \in Nat PROVE (CHOOSE f : Upto(n, f))[n] \in SUBSET S  OBVIOUS
  <2>1. \A f : Upto(n, f) => f[n] \in SUBSET S  OBVIOUS
  <2> HIDE DEF Upto
  <2> QED  BY <1>3, <2>1
<1>5. F[0] = {}
  <2>1. PICK f : f = CHOOSE e : Upto(0, e)  OBVIOUS
  <2>2. Upto(0, f)  BY <1>3, <2>1
  <2> QED  BY <2>1, <2>2
<1>6. ASSUME NEW n \in Nat \ {0} PROVE F[n] = h[F[n - 1]]
  <2>1. PICK f : f = CHOOSE e : Upto(n, e)  OBVIOUS
  <2>2. PICK g : g = CHOOSE e : Upto(n - 1, e)  OBVIOUS
  <2>3. n - 1 \in Nat /\ n \in 1..n  OBVIOUS
  <2>4. Upto(n, f) /\ Upto(n - 1, g)
    <3> HIDE DEF Upto, F
    <3> QED  BY <1>3, <2>1, <2>2, <2>3
  <2>5. g[n - 1] = f[n - 1]  BY <1>2, <2>3, <2>4
  <2>6. F[n] = f[n] /\ F[n - 1] = g[n - 1]  BY <2>1, <2>2, <2>3
  <2> QED  BY <2>3, <2>4, <2>5, <2>6
<1> HIDE DEF F
<1> QED  BY <1>4, <1>5, <1>6

\* The rounds of filter_to_changed.
LEMMA AffectedRounds ==
  ASSUME NEW g, NEW changed
  PROVE  \E F \in [Nat -> SUBSET DOMAIN g] :
           /\ F[0] = {}
           /\ \A n \in Nat : F[n + 1] = {out \in DOMAIN g : g[out].ins \cap (changed \cup F[n]) # {}}
           /\ Affected(g, changed) = F[Cardinality(DOMAIN g)]
<1> DEFINE Touched(K) == {out \in DOMAIN g : g[out].ins \cap (changed \cup K) # {}}
           h == [K \in SUBSET DOMAIN g |-> Touched(K)]
           Rounds(F) == [n \in Nat |-> IF n = 0 THEN {} ELSE Touched(F[n - 1])]
<1>1. \E F \in [Nat -> SUBSET DOMAIN g] : F[0] = {} /\ \A n \in Nat \ {0} : F[n] = h[F[n - 1]]
  <2>1. h \in [SUBSET DOMAIN g -> SUBSET DOMAIN g]  OBVIOUS
  <2> HIDE DEF h
  <2> QED  BY <2>1, Repetition
<1>2. PICK E \in [Nat -> SUBSET DOMAIN g] : E[0] = {} /\ \A n \in Nat \ {0} : E[n] = h[E[n - 1]]
  BY <1>1
<1>3. \A n \in Nat \ {0} : E[n] = Touched(E[n - 1])
  <2> SUFFICES ASSUME NEW n \in Nat \ {0} PROVE E[n] = Touched(E[n - 1])  OBVIOUS
  <2>1. n - 1 \in Nat  OBVIOUS
  <2>2. E[n - 1] \in SUBSET DOMAIN g  BY <1>2, <2>1
  <2> HIDE DEF Touched
  <2> QED  BY <1>2, <2>2
<1>4. E = Rounds(E)
  <2> HIDE DEF Touched
  <2> QED  BY <1>2, <1>3
<1> DEFINE F == CHOOSE F : F = Rounds(F)
<1>5. F = Rounds(F)  BY <1>4
<1>6. F[0] = {} /\ \A n \in Nat : F[n + 1] = Touched(F[n])
  <2> HIDE DEF F, Touched
  <2>1. F[0] = {}  BY <1>5
  <2>2. ASSUME NEW n \in Nat PROVE F[n + 1] = Touched(F[n])
    <3>1. n + 1 \in Nat /\ n + 1 # 0 /\ (n + 1) - 1 = n  OBVIOUS
    <3> QED  BY <3>1, <1>5
  <2> QED  BY <2>1, <2>2
<1>7. F \in [Nat -> SUBSET DOMAIN g]
  <2>1. \A K : Touched(K) \in SUBSET DOMAIN g  OBVIOUS
  <2> HIDE DEF F, Touched
  <2>2. Rounds(F) \in [Nat -> SUBSET DOMAIN g]  BY <2>1
  <2> QED  BY <1>5, <2>2
<1>8. Affected(g, changed) = F[Cardinality(DOMAIN g)]
  BY DEF Affected
<1> HIDE DEF F
<1> QED  BY <1>6, <1>7, <1>8

\* They end: what depends on an affected output is affected.
LEMMA AffectedClosed ==
  ASSUME NEW g, NEW changed, IsFiniteSet(DOMAIN g)
  PROVE  /\ Affected(g, changed) \subseteq DOMAIN g
         /\ \A out \in DOMAIN g : g[out].ins \cap Affected(g, changed) # {} => out \in Affected(g, changed)
<1>1. PICK F \in [Nat -> SUBSET DOMAIN g] :
        /\ F[0] = {}
        /\ \A n \in Nat : F[n + 1] = {out \in DOMAIN g : g[out].ins \cap (changed \cup F[n]) # {}}
        /\ Affected(g, changed) = F[Cardinality(DOMAIN g)]
  BY AffectedRounds
<1> DEFINE N == Cardinality(DOMAIN g)
<1>2. N \in Nat  BY FS_CardinalityType
<1>3. \A n \in Nat : F[n] \subseteq F[n + 1]
  <2> DEFINE Amiss == {n \in Nat : ~ F[n] \subseteq F[n + 1]}
  <2> SUFFICES ASSUME Amiss # {} PROVE FALSE  OBVIOUS
  <2>1. PICK m \in Amiss : \A k \in Amiss : ~ k < m
    <3>1. Amiss \in SUBSET Nat  OBVIOUS
    <3> HIDE DEF Amiss
    <3> QED  BY <3>1, LeastNatural
  <2>2. m # 0  BY <1>1
  <2>3. m - 1 \in Nat /\ m - 1 < m /\ (m - 1) + 1 = m  BY <2>2
  <2>4. F[m - 1] \subseteq F[m]  BY <2>1, <2>3
  <2>5. F[m] = {out \in DOMAIN g : g[out].ins \cap (changed \cup F[m - 1]) # {}}  BY <1>1, <2>3
  <2>6. F[m + 1] = {out \in DOMAIN g : g[out].ins \cap (changed \cup F[m]) # {}}  BY <1>1
  <2> QED  BY <2>4, <2>5, <2>6
<1>4. \E n \in 0..N : F[n] = F[n + 1]
  <2> SUFFICES ASSUME \A n \in 0..N : F[n] # F[n + 1] PROVE FALSE  OBVIOUS
  <2>1. \A n \in Nat : IsFiniteSet(F[n]) /\ Cardinality(F[n]) \in Nat /\ Cardinality(F[n]) <= N
    BY <1>1, FS_Subset, FS_CardinalityType
  <2> DEFINE Amiss == {n \in Nat : n <= N + 1 /\ Cardinality(F[n]) < n}
  <2>2. Amiss = {}
    <3> SUFFICES ASSUME Amiss # {} PROVE FALSE  OBVIOUS
    <3>1. PICK m \in Amiss : \A k \in Amiss : ~ k < m
      <4>1. Amiss \in SUBSET Nat  OBVIOUS
      <4> HIDE DEF Amiss
      <4> QED  BY <4>1, LeastNatural
    <3>2. m # 0  BY <2>1
    <3>3. m - 1 \in 0..N /\ m - 1 < m /\ (m - 1) + 1 = m /\ m - 1 <= N + 1  BY <3>2, <1>2
    <3>4. Cardinality(F[m - 1]) >= m - 1
      <4>1. m - 1 \in Nat  BY <3>3
      <4> HIDE DEF N
      <4> QED  BY <3>1, <3>3, <4>1, <2>1
    <3>5. F[m - 1] \subseteq F[m] /\ F[m - 1] # F[m]  BY <1>3, <3>3
    <3>6. IsFiniteSet(F[m]) /\ F[m - 1] \in SUBSET F[m]  BY <2>1, <3>5
    <3>7. Cardinality(F[m - 1]) < Cardinality(F[m])
      <4>1. \A K \in SUBSET F[m] : Cardinality(K) = Cardinality(F[m]) => K = F[m]
        BY <3>6, FS_Subset
      <4>2. Cardinality(F[m - 1]) <= Cardinality(F[m])  BY <3>6, FS_Subset
      <4>3. Cardinality(F[m - 1]) # Cardinality(F[m])  BY <3>5, <3>6, <4>1
      <4> QED  BY <4>2, <4>3, <2>1, <3>3
    <3>8. Cardinality(F[m]) \in Nat /\ Cardinality(F[m - 1]) \in Nat /\ m \in Nat /\ Cardinality(F[m]) < m
      BY <2>1, <3>3
    <3> HIDE DEF N, Amiss
    <3> QED  BY <3>4, <3>7, <3>8
  <2>3. Cardinality(F[N + 1]) >= N + 1  BY <2>1, <2>2, <1>2
  <2>4. Cardinality(F[N + 1]) \in Nat /\ Cardinality(F[N + 1]) <= N  BY <2>1, <1>2
  <2> HIDE DEF N
  <2> QED  BY <2>3, <2>4, <1>2
<1>5. PICK n \in 0..N : F[n] = F[n + 1]  BY <1>4
<1>6. \A m \in Nat : m >= n => F[m] = F[n]
  <2> DEFINE Amiss == {m \in Nat : m >= n /\ F[m] # F[n]}
  <2> SUFFICES ASSUME Amiss # {} PROVE FALSE  OBVIOUS
  <2>1. PICK m \in Amiss : \A k \in Amiss : ~ k < m
    <3>1. Amiss \in SUBSET Nat  OBVIOUS
    <3> HIDE DEF Amiss
    <3> QED  BY <3>1, LeastNatural
  <2>2. m # n /\ n \in Nat  BY <1>2
  <2>3. m - 1 \in Nat /\ m - 1 < m /\ (m - 1) + 1 = m /\ m - 1 >= n  BY <2>2
  <2>4. F[m - 1] = F[n]  BY <2>1, <2>3
  <2>5. F[m] = {out \in DOMAIN g : g[out].ins \cap (changed \cup F[m - 1]) # {}}  BY <1>1, <2>3
  <2>6. F[n + 1] = {out \in DOMAIN g : g[out].ins \cap (changed \cup F[n]) # {}}  BY <1>1, <2>2
  <2> QED  BY <2>4, <2>5, <2>6, <1>5
<1>7. F[N] = F[N + 1]  BY <1>2, <1>6
<1>8. F[N + 1] = {out \in DOMAIN g : g[out].ins \cap (changed \cup F[N]) # {}}  BY <1>1, <1>2
<1> QED  BY <1>1, <1>2, <1>7, <1>8
------------------------------------------------------------------------------
(* The rules of a plan                                                      *)

src == all_compile_sources(p, o)

\* clang makes such a source in two steps.
TwoStep(f) == o.kind = "clang" /\ p.exports[f] # {}

Shaped(r) == DOMAIN r = {"type", "out", "ins", "order", "reads", "marker", "beside"}
Bare(r)   == r.marker = NoMarker /\ r.beside = {} /\ Shaped(r)
IsDir(r)          == r.type = "mkdir" /\ r.out[1] \in {"dir", "bucket"} /\ r.reads = {} /\ Bare(r)
IsHeader(r)       == r.type = "compile" /\ r.out[1] = "gch" /\ (\A z \in r.reads : z[1] = "file") /\ Bare(r)
IsUnit(r)         == /\ r.type \in {"compile", "header_unit"} /\ r.out[1] = "hu" /\ r.reads = {}
                     /\ r.beside = {} /\ r.marker \in {NoMarker, r.out} /\ Shaped(r)
IsObject(r, v)    == \E f \in src : ~ TwoStep(f) /\ r = _create_compile_rule(p, o, v, src, f)
IsInterface(r, v) == \E f \in src : TwoStep(f) /\ r \in _create_clang_module_interface_rules(p, o, v, src, f)
IsProduct(r)      == /\ r.type \in CAS_LINKED_TYPES \cup {"symlink"} /\ r.out[1] \in {"exe", "a", "so", "bin"}
                     /\ \A i \in r.ins : i[1] \in {"o", "exe", "a", "so", "bin"}
                     /\ r.reads = r.ins /\ Bare(r)
IsTest(r, v)      == \E i \in DOMAIN o.tests : r = Chained(p, o, v, i)
IsPhony(r)        == r.type = "phony" /\ r.out[1] = "phony" /\ r.reads = {} /\ Bare(r)

LEMMA Kinds ==
  ASSUME NEW v, NEW r \in PlannedRules(p, o, v)
  PROVE  \/ IsDir(r) \/ IsHeader(r) \/ IsUnit(r) \/ IsObject(r, v) \/ IsInterface(r, v)
         \/ IsProduct(r) \/ IsTest(r, v) \/ IsPhony(r)
<1>1. ASSUME NEW d, d[1] \in {"dir", "bucket"} PROVE IsDir(MkDir(d))
  BY <1>1 DEF IsDir, Bare, Shaped, MkDir, BuildRule
<1>2. ASSUME NEW d PROVE Dir(d)[1] = "dir" /\ Bucket(d)[1] = "bucket"
  BY DEF Dir, Bucket
<1>3. \/ r \in {MkDir(Dir("objdir")), MkDir(Dir("bin"))}
      \/ r \in _plan_pch_rules(p, o, src)
      \/ r \in _plan_module_prepass(p, o, v, src)
      \/ r \in _plan_header_unit_prepass(p, o, src)
      \/ r \in _plan_compile_rules(p, o, v, src)
      \/ r \in _plan_link_and_publish_rules(p, o, v)
      \/ r \in _plan_test_rules(p, o, v)
  BY DEF PlannedRules, src
<1>4. CASE r \in {MkDir(Dir("objdir")), MkDir(Dir("bin"))}
  BY <1>1, <1>2, <1>4
<1>5. CASE r \in _plan_pch_rules(p, o, src)
  <2>1. CASE \E h : r = BuildRule("compile", _gch_path(o, h), Files(p, h), {pch_dir(o, h)}, Files(p, h))
    BY <2>1 DEF IsHeader, Bare, Shaped, BuildRule, _gch_path, Files, File
  <2>2. CASE \E h : r = MkDir(pch_dir(o, h))
    <3>1. \A h : pch_dir(o, h)[1] \in {"dir", "bucket"}  BY <1>2 DEF pch_dir
    <3> QED  BY <1>1, <2>2, <3>1
  <2> QED  BY <1>5, <2>1, <2>2 DEF _plan_pch_rules
<1>6. CASE r \in _plan_module_prepass(p, o, v, src)
  <2>1. \A f, m : bmi_dir(p, o, v, f, m)[1] \in {"dir", "bucket"}  BY <1>2 DEF bmi_dir
  <2>2. \E d : r = MkDir(d) /\ d[1] \in {"dir", "bucket"}  BY <1>6, <2>1 DEF _plan_module_prepass
  <2> QED  BY <1>1, <2>2
<1>7. CASE r \in _plan_header_unit_prepass(p, o, src)
  <2>1. CASE \E t : r = MkDir(header_unit_dir(o, t))
    <3>1. \A t : header_unit_dir(o, t)[1] \in {"dir", "bucket"}  BY <1>2 DEF header_unit_dir
    <3> QED  BY <1>1, <2>1, <3>1
  <2>2. CASE \E t : r = _create_header_unit_precompile_rule(o, t)
    BY <2>2 DEF IsUnit, Shaped, BuildRule, _create_header_unit_precompile_rule, _header_unit_destination
  <2> QED  BY <1>7, <2>1, <2>2 DEF _plan_header_unit_prepass
<1>8. CASE r \in _plan_compile_rules(p, o, v, src)
  <2>1. CASE \E f \in src : r = MkDir(Bucket(object_pathname(p, v, f)))
    BY <1>1, <1>2, <2>1
  <2>2. CASE \E f \in src : r \in IF TwoStep(f) THEN _create_clang_module_interface_rules(p, o, v, src, f)
                                  ELSE {_create_compile_rule(p, o, v, src, f)}
    BY <2>2 DEF IsObject, IsInterface
  <2> QED  BY <1>8, <2>1, <2>2 DEF _plan_compile_rules, TwoStep
<1>9. CASE r \in _plan_link_and_publish_rules(p, o, v)
  <2>1. ASSUME NEW type \in CAS_LINKED_TYPES, NEW cas, NEW user, NEW ins, cas[1] \in {"exe", "a", "so"},
               user[1] = "bin", \A i \in ins : i[1] \in {"o", "bin"}, r \in ArtefactRules(o, type, cas, user, ins)
        PROVE  IsProduct(r) \/ IsDir(r)
    <3>1. CASE r = BuildRule(type, user, ins, {Dir("bin")}, ins)
      BY <2>1, <3>1 DEF IsProduct, Bare, Shaped, BuildRule
    <3>2. CASE r = BuildRule(type, cas, ins, {Bucket(cas)}, ins)
      BY <2>1, <3>2 DEF IsProduct, Bare, Shaped, BuildRule
    <3>3. CASE r = MkDir(Bucket(cas))
      BY <1>1, <1>2, <3>3
    <3>4. CASE r = _build_publish_rule(cas, user)
      BY <2>1, <3>4 DEF IsProduct, Bare, Shaped, BuildRule, _build_publish_rule
    <3> QED  BY <2>1, <3>1, <3>2, <3>3, <3>4 DEF ArtefactRules
  <2>2. \A kind, f : published(kind, p, f)[1] = "bin"  BY DEF published
  <2>6. \A fs : \A i \in Objects(p, v, fs) : i[1] = "o"  BY DEF Objects, object_pathname
  <2>7. \A i \in library_outputs(p, o) : i[1] = "bin"  BY <2>2 DEF library_outputs, Library
  <2>8. {"link", "static_library", "shared_library"} \subseteq CAS_LINKED_TYPES
    BY DEF CAS_LINKED_TYPES, CAS_PRODUCER_TYPES
  <2>3. CASE r \in _create_static_library_rule(p, o, v)
    BY <2>1, <2>2, <2>3, <2>6, <2>8 DEF _create_static_library_rule, Library
  <2>4. CASE r \in _create_shared_library_rule(p, o, v)
    BY <2>1, <2>2, <2>4, <2>6, <2>8 DEF _create_shared_library_rule, Library
  <2>5. CASE \E f : r \in _create_link_rule(p, o, v, f, library_outputs(p, o))
    BY <2>1, <2>2, <2>5, <2>6, <2>7, <2>8 DEF _create_link_rule, link_key, executable_pathname
  <2> QED  BY <1>9, <2>3, <2>4, <2>5 DEF _plan_link_and_publish_rules
<1>10. CASE r \in _plan_test_rules(p, o, v)
  <2>1. \A name, ins : IsPhony(Phony(name, ins))  BY DEF IsPhony, Bare, Shaped, Phony, BuildRule
  <2>2. \/ IsTest(r, v) \/ r = MkDir(Dir("xml")) \/ \E name, ins : r = Phony(name, ins)
    BY <1>10 DEF _plan_test_rules, IsTest
  <2> QED  BY <1>1, <1>2, <2>1, <2>2
<1> QED  BY <1>3, <1>4, <1>5, <1>6, <1>7, <1>8, <1>9, <1>10

LEMMA GraphRules ==
  ASSUME NEW v
  PROVE  LET g == build_graph(p, o, v)
         IN  /\ \A x \in DOMAIN g : g[x] \in PlannedRules(p, o, v) /\ g[x].out = x
             /\ \A r \in PlannedRules(p, o, v) : r.out \in DOMAIN g
  BY DEF build_graph, add_rules
------------------------------------------------------------------------------
(* What the rules write                                                     *)

\* Each name that a rule writes is its output, the .gcm beside an object, or the
\* result of a test.
WritesOut(r, z)     == z = r.out /\ z[1] \notin {"file", "gcm"}
WritesGcm(r, v, z)  == /\ o.kind # "clang"
                       /\ \E f \in src : /\ r = _create_compile_rule(p, o, v, src, f)
                                         /\ \E m \in p.exports[f] : z = bmi_path(p, o, v, f, m)
WritesMark(r, v, z) == \E i \in DOMAIN o.tests :
                         r = Chained(p, o, v, i) /\ z = _result_marker_path(p, o, v, o.tests[i])

LEMMA ChainedIs ==
  ASSUME NEW v, NEW i
  PROVE  LET r == Chained(p, o, v, i)
             f == o.tests[i]
         IN  /\ r.type = "test" /\ r.beside = {} /\ r.reads = {executable_pathname(p, f)}
             /\ r.marker = _result_marker_path(p, o, v, f)
             /\ r.out = IF Reported(o, f) THEN _xml_path_for(executable_pathname(p, f))
                        ELSE _result_marker_path(p, o, v, f)
             /\ executable_pathname(p, f) \in r.ins \cup r.order
<1>1. PICK f : f = o.tests[i]  OBVIOUS
<1>2. LET t == TestRule(p, o, v, f)
      IN  /\ t.type = "test" /\ t.beside = {} /\ t.reads = {executable_pathname(p, f)}
          /\ t.marker = _result_marker_path(p, o, v, f)
          /\ t.out = IF Reported(o, f) THEN _xml_path_for(executable_pathname(p, f))
                     ELSE _result_marker_path(p, o, v, f)
          /\ executable_pathname(p, f) \in t.ins \cup t.order
          /\ DOMAIN t = {"type", "out", "ins", "order", "reads", "marker", "beside"}
  BY DEF TestRule, BuildRule
<1>3. PICK t : t = TestRule(p, o, v, f)  OBVIOUS
<1>4. \E b : Chained(p, o, v, i) \in {t, [t EXCEPT !.ins = @ \cup b], [t EXCEPT !.order = @ \cup b]}
  BY <1>1, <1>3 DEF Chained
<1> QED  BY <1>1, <1>2, <1>3, <1>4

LEMMA Writes ==
  ASSUME NEW v, NEW r \in PlannedRules(p, o, v), NEW z \in Outputs(r)
  PROVE  WritesOut(r, z) \/ WritesGcm(r, v, z) \/ WritesMark(r, v, z)
<1>1. CASE Bare(r) /\ r.out[1] \notin {"file", "gcm"}
  BY <1>1 DEF Bare, Outputs, WritesOut
<1>2. CASE IsDir(r) \/ IsHeader(r) \/ IsProduct(r) \/ IsPhony(r)
  BY <1>1, <1>2 DEF IsDir, IsHeader, IsProduct, IsPhony
<1>3. CASE IsUnit(r)
  BY <1>3 DEF IsUnit, Outputs, WritesOut
<1>4. CASE IsObject(r, v)
  <2>1. PICK f \in src : ~ TwoStep(f) /\ r = _create_compile_rule(p, o, v, src, f)
    BY <1>4 DEF IsObject
  <2>2. /\ r.out = object_pathname(p, v, f) /\ r.marker = NoMarker
        /\ r.beside = {bmi_path(p, o, v, f, m) : m \in p.exports[f]}
    BY <2>1 DEF _create_compile_rule, BuildRule
  <2>3. r.out[1] = "o"  BY <2>2 DEF object_pathname
  <2>4. z = r.out \/ z \in r.beside  BY <2>2 DEF Outputs
  <2>5. CASE z = r.out  BY <2>3, <2>5 DEF WritesOut
  <2>6. CASE z \in r.beside
    <3>1. p.exports[f] # {}  BY <2>2, <2>6
    <3>2. o.kind # "clang"  BY <2>1, <3>1 DEF TwoStep
    <3> QED  BY <2>1, <2>2, <2>6, <3>2 DEF WritesGcm
  <2> QED  BY <2>4, <2>5, <2>6
<1>5. CASE IsInterface(r, v)
  <2>1. PICK f \in src : TwoStep(f) /\ r \in _create_clang_module_interface_rules(p, o, v, src, f)
    BY <1>5 DEF IsInterface
  <2>2. Bare(r)
    BY <2>1 DEF Bare, Shaped, _create_clang_module_interface_rules, BuildRule
  <2>3. r.out[1] \in {"o", "pcm"}
    <3>1. o.kind = "clang"  BY <2>1 DEF TwoStep
    <3>2. \A m : bmi_path(p, o, v, f, m)[1] = "pcm"  BY <3>1 DEF bmi_path
    <3>3. object_pathname(p, v, f)[1] = "o"  BY DEF object_pathname
    <3>4. \E m : r.out \in {bmi_path(p, o, v, f, m), object_pathname(p, v, f)}
      BY <2>1 DEF _create_clang_module_interface_rules, BuildRule
    <3> QED  BY <3>2, <3>3, <3>4
  <2> QED  BY <1>1, <2>2, <2>3
<1>6. CASE IsTest(r, v)
  <2>1. PICK i \in DOMAIN o.tests : r = Chained(p, o, v, i)  BY <1>6 DEF IsTest
  <2>2. z = r.out \/ z = r.marker  BY <2>1, ChainedIs DEF Outputs
  <2>3. CASE z = r.marker  BY <2>1, <2>3, ChainedIs DEF WritesMark
  <2>4. CASE z = r.out /\ z # r.marker
    <3>1. z = _xml_path_for(executable_pathname(p, o.tests[i]))
      BY <2>1, <2>4, ChainedIs
    <3>2. z[1] = "xml"  BY <3>1 DEF _xml_path_for
    <3> QED  BY <2>4, <3>2 DEF WritesOut
  <2> QED  BY <2>2, <2>3, <2>4
<1> QED  BY <1>2, <1>3, <1>4, <1>5, <1>6, Kinds

\* Two tests with one result are one test, unless the plan throws.
LEMMA ResultsDiffer ==
  ASSUME NEW v, ~ _check_executable_collisions(p, o), NEW i \in DOMAIN o.tests, NEW j \in DOMAIN o.tests,
         _result_marker_path(p, o, v, o.tests[i]) = _result_marker_path(p, o, v, o.tests[j])
  PROVE  Chained(p, o, v, i).out = Chained(p, o, v, j).out
<1>1. PICK f, h : f = o.tests[i] /\ h = o.tests[j]  OBVIOUS
<1>2. f \in Targets(o) /\ h \in Targets(o)  BY <1>1 DEF Targets, Range
<1>3. p.stem[f] = p.stem[h]
  <2>1. CASE ByContent(o)
    <3>1. link_key(p, v, f, library_outputs(p, o)) = link_key(p, v, h, library_outputs(p, o))
      BY <1>1, <2>1 DEF _result_marker_path, Beside
    <3> QED  BY <3>1 DEF link_key
  <2>2. CASE ~ ByContent(o)
    <3>1. executable_pathname(p, f) = executable_pathname(p, h)
      BY <1>1, <2>2 DEF _result_marker_path, Beside
    <3> QED  BY <3>1 DEF executable_pathname, published
  <2> QED  BY <2>1, <2>2
<1>4. executable_pathname(p, f) = executable_pathname(p, h)
  BY <1>3 DEF executable_pathname, published
<1>5. f = h  BY <1>2, <1>4 DEF _check_executable_collisions
<1> DEFINE Written(e) == IF Reported(o, e) THEN _xml_path_for(executable_pathname(p, e))
                         ELSE _result_marker_path(p, o, v, e)
<1>6. Chained(p, o, v, i).out = Written(f)  BY <1>1, ChainedIs
<1>7. Chained(p, o, v, j).out = Written(h)  BY <1>1, ChainedIs
<1> HIDE DEF Written
<1> QED  BY <1>5, <1>6, <1>7

\* What two rules of a plan write is apart.
OneExporter == \A f, h \in src : f # h => p.exports[f] \cap p.exports[h] = {}

LEMMA WritesApart ==
  ASSUME NEW v, OneExporter, ~ _check_executable_collisions(p, o),
         NEW r \in PlannedRules(p, o, v), NEW q \in PlannedRules(p, o, v), r.out # q.out
  PROVE  Outputs(r) \cap Outputs(q) = {}
<1> SUFFICES ASSUME NEW z \in Outputs(r), z \in Outputs(q) PROVE FALSE  OBVIOUS
<1>1. WritesOut(r, z) \/ WritesGcm(r, v, z) \/ WritesMark(r, v, z)  BY Writes
<1>2. WritesOut(q, z) \/ WritesGcm(q, v, z) \/ WritesMark(q, v, z)  BY Writes
<1>3. ASSUME NEW s, WritesGcm(s, v, z) PROVE z[1] = "gcm"
  BY <1>3 DEF WritesGcm, bmi_path
<1>4. ASSUME NEW s, WritesMark(s, v, z) PROVE z[1] = "result"
  BY <1>4 DEF WritesMark, _result_marker_path, Beside
<1>5. ASSUME NEW s \in PlannedRules(p, o, v), WritesOut(s, z), z[1] = "result"
      PROVE  WritesMark(s, v, z)
  <2>1. IsTest(s, v)
    <3>1. ~ IsObject(s, v)
      <4> SUFFICES ASSUME NEW f \in src, s = _create_compile_rule(p, o, v, src, f) PROVE FALSE
        BY DEF IsObject
      <4>1. s.out = object_pathname(p, v, f)  BY DEF _create_compile_rule, BuildRule
      <4>2. s.out[1] = "o"  BY <4>1 DEF object_pathname
      <4> QED  BY <1>5, <4>2 DEF WritesOut
    <3>2. ~ IsInterface(s, v)
      <4> SUFFICES ASSUME IsInterface(s, v) PROVE FALSE  OBVIOUS
      <4>1. PICK f \in src : TwoStep(f) /\ s \in _create_clang_module_interface_rules(p, o, v, src, f)
        BY DEF IsInterface
      <4>2. \E m : s.out \in {bmi_path(p, o, v, f, m), object_pathname(p, v, f)}
        BY <4>1 DEF _create_clang_module_interface_rules, BuildRule
      <4>3. \A m : bmi_path(p, o, v, f, m)[1] # "result"  BY DEF bmi_path
      <4>4. object_pathname(p, v, f)[1] # "result"  BY DEF object_pathname
      <4> QED  BY <1>5, <4>2, <4>3, <4>4 DEF WritesOut
    <3> QED  BY <1>5, <3>1, <3>2, Kinds DEF WritesOut, IsDir, IsHeader, IsUnit, IsProduct, IsPhony
  <2>2. PICK i \in DOMAIN o.tests : s = Chained(p, o, v, i)  BY <2>1 DEF IsTest
  <2>3. z = s.out  BY <1>5 DEF WritesOut
  <2>4. \A exe : _xml_path_for(exe)[1] = "xml"  BY DEF _xml_path_for
  <2>5. s.out = _result_marker_path(p, o, v, o.tests[i])  BY <1>5, <2>2, <2>3, <2>4, ChainedIs
  <2> QED  BY <2>2, <2>3, <2>5 DEF WritesMark
<1>6. CASE WritesMark(r, v, z) \/ WritesMark(q, v, z)
  <2>1. z[1] = "result"  BY <1>4, <1>6
  <2>2. WritesMark(r, v, z) /\ WritesMark(q, v, z)  BY <1>1, <1>2, <1>3, <1>5, <2>1
  <2>3. PICK i \in DOMAIN o.tests : r = Chained(p, o, v, i) /\ z = _result_marker_path(p, o, v, o.tests[i])
    BY <2>2 DEF WritesMark
  <2>4. PICK j \in DOMAIN o.tests : q = Chained(p, o, v, j) /\ z = _result_marker_path(p, o, v, o.tests[j])
    BY <2>2 DEF WritesMark
  <2> QED  BY <2>3, <2>4, ResultsDiffer
<1>7. CASE WritesGcm(r, v, z) \/ WritesGcm(q, v, z)
  <2>1. z[1] = "gcm"  BY <1>3, <1>7
  <2>2. WritesGcm(r, v, z) /\ WritesGcm(q, v, z)  BY <1>1, <1>2, <1>4, <2>1 DEF WritesOut
  <2>3. PICK f \in src : \E m \in p.exports[f] :
                  r = _create_compile_rule(p, o, v, src, f) /\ z = bmi_path(p, o, v, f, m)
    BY <2>2 DEF WritesGcm
  <2>4. PICK h \in src : \E n \in p.exports[h] :
                  q = _create_compile_rule(p, o, v, src, h) /\ z = bmi_path(p, o, v, h, n)
    BY <2>2 DEF WritesGcm
  <2>5. PICK m \in p.exports[f] : z = bmi_path(p, o, v, f, m)  BY <2>3
  <2>6. PICK n \in p.exports[h] : z = bmi_path(p, o, v, h, n)  BY <2>4
  <2>7. m = n  BY <2>5, <2>6 DEF bmi_path
  <2>8. f = h  BY <2>7 DEF OneExporter
  <2> QED  BY <2>3, <2>4, <2>8
<1>8. CASE WritesOut(r, z) /\ WritesOut(q, z)
  BY <1>8 DEF WritesOut
<1> QED  BY <1>1, <1>2, <1>6, <1>7, <1>8
------------------------------------------------------------------------------
(* What compiles open                                                       *)

\* The rule of a source, or one of its two.
CompileOf(r, v, f) ==
  \/ ~ TwoStep(f) /\ r = _create_compile_rule(p, o, v, src, f)
  \/ TwoStep(f) /\ r \in _create_clang_module_interface_rules(p, o, v, src, f)

Interface(f)  == CHOOSE m \in p.exports[f] : TRUE
Target(v, m)  == target_map(p, o, v, src)[m]
Wired(v, f)   == _wire_module_inputs(p, o, v, src, f)
OneInterface  == o.kind = "clang" => \A f \in src : \A m, n \in p.exports[f] : m = n

LEMMA CompileIs ==
  ASSUME NEW v, NEW f \in src, NEW r, CompileOf(r, v, f)
  PROVE  /\ r.type = "compile" /\ r.marker = NoMarker
         /\ \/ r.out = object_pathname(p, v, f)
            \/ TwoStep(f) /\ r.out = bmi_path(p, o, v, f, Interface(f)) /\ r.out[1] = "pcm"
         /\ Wired(v, f) \ {r.out} \subseteq r.ins
         /\ \A z \in r.reads : \/ z[1] = "file" \/ (z \in r.ins /\ z[1] \in {"gch", "pcm"})
                               \/ z \in Opened(p, o, v, src, f)
<1>1. CASE ~ TwoStep(f)
  <2>1. r = _create_compile_rule(p, o, v, src, f)  BY <1>1 DEF CompileOf
  <2> DEFINE gchs == {_gch_path(o, h) : h \in p.pch[f]}
  <2>2. /\ r.type = "compile" /\ r.marker = NoMarker /\ r.out = object_pathname(p, v, f)
        /\ r.ins = (Files(p, f) \cup gchs \cup Wired(v, f)) \ {r.out}
        /\ r.reads = Files(p, f) \cup gchs \cup Opened(p, o, v, src, f)
    BY <2>1 DEF _create_compile_rule, BuildRule, Wired
  <2>3. \A z \in Files(p, f) : z[1] = "file"  BY DEF Files, File
  <2>4. \A z \in gchs : z[1] = "gch"  BY DEF _gch_path
  <2>5. r.out[1] = "o"  BY <2>2 DEF object_pathname
  <2> QED  BY <2>2, <2>3, <2>4, <2>5
<1>2. CASE TwoStep(f)
  <2>1. r \in _create_clang_module_interface_rules(p, o, v, src, f)  BY <1>2 DEF CompileOf
  <2> DEFINE pcm == bmi_path(p, o, v, f, Interface(f))
  <2>2. /\ r.type = "compile" /\ r.marker = NoMarker
        /\ \/ /\ r.out = pcm /\ r.ins = (Files(p, f) \cup Wired(v, f)) \ {pcm}
              /\ r.reads = Files(p, f) \cup Opened(p, o, v, src, f)
           \/ /\ r.out = object_pathname(p, v, f) /\ r.ins = {pcm} \cup Wired(v, f)
              /\ r.reads = {pcm} \cup Opened(p, o, v, src, f)
    BY <2>1 DEF _create_clang_module_interface_rules, BuildRule, Wired, Interface
  <2>3. \A z \in Files(p, f) : z[1] = "file"  BY DEF Files, File
  <2>4. pcm[1] = "pcm"  BY <1>2 DEF bmi_path, TwoStep
  <2> QED  BY <1>2, <2>2, <2>3, <2>4
<1> QED  BY <1>1, <1>2

LEMMA Exports ==
  ASSUME NEW m \in Exported(p, src), OneExporter
  PROVE  LET f == Exporter(p, src, m)
         IN  f \in src /\ m \in p.exports[f] /\ \A h \in src : m \in p.exports[h] => h = f
<1>1. Exporters(p, src, m) # {}  BY DEF Exported, Exporters
<1>2. Exporter(p, src, m) \in Exporters(p, src, m)  BY <1>1 DEF Exporter
<1> QED  BY <1>2 DEF Exporters, OneExporter

\* What a module's importers wait for is made by the rule of its interface.
LEMMA TargetsMade ==
  ASSUME NEW v, OneExporter, OneInterface, NEW m \in Exported(p, src)
  PROVE  LET g == build_graph(p, o, v)
             x == Target(v, m)
             f == Exporter(p, src, m)
         IN  x \in DOMAIN g /\ CompileOf(g[x], v, f) /\ x[1] \in {"o", "pcm"}
<1>1. PICK f : f = Exporter(p, src, m)  OBVIOUS
<1>2. f \in src /\ m \in p.exports[f] /\ \A h \in src : m \in p.exports[h] => h = f
  BY <1>1, Exports
<1>3. PICK x : x = Target(v, m)  OBVIOUS
<1>4. x = IF o.kind = "clang" THEN bmi_path(p, o, v, f, m) ELSE object_pathname(p, v, f)
  BY <1>1, <1>3 DEF Target, target_map
<1>5. x[1] = IF o.kind = "clang" THEN "pcm" ELSE "o"
  BY <1>4 DEF bmi_path, object_pathname
<1>6. TwoStep(f) <=> o.kind = "clang"  BY <1>2 DEF TwoStep
<1>7. \E r \in PlannedRules(p, o, v) : r.out = x
  <2>1. ASSUME NEW r, r \in IF TwoStep(f) THEN _create_clang_module_interface_rules(p, o, v, src, f)
                                        ELSE {_create_compile_rule(p, o, v, src, f)}
        PROVE  r \in PlannedRules(p, o, v)
    BY <1>2, <2>1 DEF PlannedRules, _plan_compile_rules, src, TwoStep
  <2>2. CASE o.kind = "clang"
    <3>1. Interface(f) = m  BY <1>2, <2>2 DEF Interface, OneInterface
    <3>2. \E r \in _create_clang_module_interface_rules(p, o, v, src, f) : r.out = bmi_path(p, o, v, f, Interface(f))
      BY DEF _create_clang_module_interface_rules, BuildRule, Interface
    <3> QED  BY <1>4, <1>6, <2>1, <2>2, <3>1, <3>2
  <2>3. CASE o.kind # "clang"
    <3>1. _create_compile_rule(p, o, v, src, f).out = object_pathname(p, v, f)
      BY DEF _create_compile_rule, BuildRule
    <3> QED  BY <1>4, <1>6, <2>1, <2>3, <3>1
  <2> QED  BY <2>2, <2>3
<1>8. PICK g : g = build_graph(p, o, v)  OBVIOUS
<1>9. x \in DOMAIN g /\ g[x] \in PlannedRules(p, o, v) /\ g[x].out = x
  BY <1>7, <1>8, GraphRules
<1>10. CompileOf(g[x], v, f)
  <2>1. IsObject(g[x], v) \/ IsInterface(g[x], v)
    <3>1. ~ IsTest(g[x], v)
      <4> SUFFICES ASSUME IsTest(g[x], v) PROVE FALSE  OBVIOUS
      <4>1. PICK i \in DOMAIN o.tests : g[x] = Chained(p, o, v, i)  BY DEF IsTest
      <4>2. \A exe : _xml_path_for(exe)[1] = "xml"  BY DEF _xml_path_for
      <4>3. \A h : _result_marker_path(p, o, v, h)[1] = "result"  BY DEF _result_marker_path, Beside
      <4>4. x[1] \in {"xml", "result"}  BY <1>9, <4>1, <4>2, <4>3, ChainedIs
      <4> QED  BY <1>5, <4>4
    <3>2. x[1] \in {"o", "pcm"}  BY <1>5
    <3> QED  BY <1>9, <3>1, <3>2, Kinds DEF IsDir, IsHeader, IsUnit, IsProduct, IsPhony
  <2>2. PICK h \in src : CompileOf(g[x], v, h)
    BY <2>1 DEF IsObject, IsInterface, CompileOf
  <2>3. \/ x = object_pathname(p, v, h)
        \/ TwoStep(h) /\ x = bmi_path(p, o, v, h, Interface(h)) /\ x[1] = "pcm"
    BY <1>9, <2>2, CompileIs
  <2>4. h = f
    <3>1. CASE o.kind = "clang"
      <4>1. TwoStep(h) /\ x = bmi_path(p, o, v, h, Interface(h))
        BY <1>5, <2>3, <3>1 DEF object_pathname
      <4>2. Interface(h) = m  BY <1>4, <3>1, <4>1 DEF bmi_path
      <4>3. Interface(h) \in p.exports[h]  BY <4>1 DEF TwoStep, Interface
      <4> QED  BY <1>2, <4>2, <4>3
    <3>2. CASE o.kind # "clang"
      BY <1>4, <2>3, <3>2 DEF object_pathname, TwoStep
    <3> QED  BY <3>1, <3>2
  <2> QED  BY <2>2, <2>4
<1> QED  BY <1>1, <1>3, <1>5, <1>8, <1>9, <1>10

\* The modules and the header units that a source and its headers name.
Asked(f)   == Exported(p, src) \cap UNION {Named(p, y) : y \in {f} \cup Below(p, f)}
UnitsOf(f) == UNION {p.units[y] : y \in {f} \cup Below(p, f)}

LEMMA WiredHas ==
  ASSUME NEW v, NEW f
  PROVE  /\ \A m \in Asked(f) : Target(v, m) \in Wired(v, f)
         /\ \A t \in UnitsOf(f) : _header_unit_destination(o, t) \in Wired(v, f)
<1> DEFINE names == UNION {Named(p, y) : y \in {f} \cup Below(p, f)}
<1>1. Wired(v, f) = {Target(v, m) : m \in WithPartitions(p, src, names)}
                      \cup {_header_unit_destination(o, t) : t \in UnitsOf(f)}
  BY DEF Wired, _wire_module_inputs, Target, UnitsOf
<1>2. Asked(f) \subseteq WithPartitions(p, src, names)  BY DEF Asked, WithPartitions
<1> HIDE DEF names
<1> QED  BY <1>1, <1>2

LEMMA ClosureWithin ==
  ASSUME NEW f, NEW M \in SUBSET Exported(p, src), Asked(f) \subseteq M,
         \A m \in M : Asked(Exporter(p, src, m)) \subseteq M
  PROVE  ImportClosure(p, src, f) \subseteq M \ p.exports[f]
BY DEF ImportClosure, Asked

\* N is settled with the artefacts its compiles wait for, and so are those of x: then
\* what x opens of modules and header units is settled.
LEMMA OpensSettled ==
  ASSUME NEW v, OneExporter, OneInterface, NEW f \in src,
         NEW x \in DOMAIN build_graph(p, o, v), CompileOf(build_graph(p, o, v)[x], v, f),
         NEW N \in SUBSET DOMAIN build_graph(p, o, v),
         \A d \in N \cup {x} : \A i \in build_graph(p, o, v)[d].ins :
           build_graph(p, o, v)[d].type = "compile" /\ i[1] \in ARTEFACTS /\ i \in DOMAIN build_graph(p, o, v)
           => i \in N,
         NEW y \in DOMAIN build_graph(p, o, v) \ (N \cup {x})
  PROVE  Outputs(build_graph(p, o, v)[y]) \cap Opened(p, o, v, src, f) = {}
<1>1. PICK g : g = build_graph(p, o, v)  OBVIOUS
<1>2. /\ x \in DOMAIN g /\ CompileOf(g[x], v, f) /\ N \subseteq DOMAIN g /\ y \in DOMAIN g /\ y \notin N /\ y # x
      /\ \A d \in N \cup {x} : g[d].type = "compile" =>
           \A i \in g[d].ins : i[1] \in ARTEFACTS /\ i \in DOMAIN g => i \in N
      /\ \A d \in DOMAIN g : g[d] \in PlannedRules(p, o, v) /\ g[d].out = d
  BY <1>1, GraphRules
<1>3. \A m \in Exported(p, src) : Target(v, m) \in DOMAIN g /\ Target(v, m)[1] \in {"o", "pcm"}
                                  /\ CompileOf(g[Target(v, m)], v, Exporter(p, src, m))
  BY <1>1, TargetsMade
<1>4. \A m \in Exported(p, src) : Exporter(p, src, m) \in src /\ m \in p.exports[Exporter(p, src, m)]
                                  /\ \A h \in src : m \in p.exports[h] => h = Exporter(p, src, m)
  BY Exports
<1>5. \A t : _header_unit_destination(o, t)[1] = "hu"  BY DEF _header_unit_destination
<1> DEFINE Holds(h, d) == d \in N \cup {x} /\ h \in src /\ CompileOf(g[d], v, h)
\* A source whose rule is settled, or is x: so is what it names.
<1>6. ASSUME NEW h, NEW d, Holds(h, d), NEW i \in Wired(v, h), i # d, i[1] \in ARTEFACTS, i \in DOMAIN g
      PROVE  i \in N
  <2>1. g[d].type = "compile" /\ Wired(v, h) \ {g[d].out} \subseteq g[d].ins
    BY <1>6, CompileIs
  <2>2. g[d].out = d  BY <1>2, <1>6
  <2> QED  BY <1>2, <1>6, <2>1, <2>2
<1> DEFINE M == {m \in Exported(p, src) : Exporter(p, src, m) = f \/ Target(v, m) \in N}
<1>7. ASSUME NEW h, NEW d, Holds(h, d), h = f \/ d \in N PROVE Asked(h) \subseteq M
  <2> SUFFICES ASSUME NEW m \in Asked(h) PROVE m \in M  OBVIOUS
  <2>1. m \in Exported(p, src)  BY DEF Asked
  <2>2. PICK i : i = Target(v, m)  OBVIOUS
  <2>3. i \in DOMAIN g /\ i[1] \in ARTEFACTS /\ i \in Wired(v, h)
    BY <1>3, <2>1, <2>2, WiredHas DEF ARTEFACTS
  <2>4. CASE i # d  BY <1>6, <1>7, <2>1, <2>2, <2>3, <2>4
  <2>5. CASE i = d /\ d \in N  BY <2>1, <2>2, <2>5
  <2>6. CASE i = d /\ h = f
    <3>1. \/ d = object_pathname(p, v, f)
          \/ TwoStep(f) /\ d = bmi_path(p, o, v, f, Interface(f)) /\ d[1] = "pcm"
      <4>1. g[d].out = d  BY <1>2, <1>7
      <4> QED  BY <1>7, <2>6, <4>1, CompileIs
    <3>2. i = IF o.kind = "clang" THEN bmi_path(p, o, v, Exporter(p, src, m), m)
              ELSE object_pathname(p, v, Exporter(p, src, m))
      BY <2>1, <2>2 DEF Target, target_map
    <3>3. CASE o.kind = "clang"
      <4>1. TwoStep(f) /\ d = bmi_path(p, o, v, f, Interface(f))
        BY <2>6, <3>1, <3>2, <3>3 DEF object_pathname, bmi_path
      <4>4. \A e, n : bmi_path(p, o, v, e, n)[2] = n  BY DEF bmi_path
      <4>5. i = bmi_path(p, o, v, Exporter(p, src, m), m)  BY <3>2, <3>3
      <4>6. i[2] = m  BY <4>4, <4>5
      <4>7. i[2] = Interface(f)  BY <2>6, <4>1, <4>4
      <4>2. Interface(f) = m  BY <4>6, <4>7
      <4>3. Interface(f) \in p.exports[f]  BY <4>1 DEF TwoStep, Interface
      <4> QED  BY <1>4, <2>1, <4>2, <4>3
    <3>4. CASE o.kind # "clang"
      <4>1. Exporter(p, src, m) = f  BY <2>6, <3>1, <3>2, <3>4 DEF object_pathname, TwoStep
      <4> QED  BY <2>1, <4>1
    <3> QED  BY <3>3, <3>4
  <2> QED  BY <1>7, <2>4, <2>5, <2>6
<1>8. ImportClosure(p, src, f) \subseteq M \ p.exports[f]
  <2>1. Asked(f) \subseteq M  BY <1>2, <1>7
  <2>2. ASSUME NEW m \in M PROVE Asked(Exporter(p, src, m)) \subseteq M
    <3>1. CASE Exporter(p, src, m) = f  BY <2>1, <3>1
    <3>2. CASE Target(v, m) \in N
      <4>1. Holds(Exporter(p, src, m), Target(v, m))  BY <1>3, <1>4, <3>2
      <4> QED  BY <1>7, <3>2, <4>1
    <3> QED  BY <3>1, <3>2
  <2>3. M \subseteq Exported(p, src)  OBVIOUS
  <2> HIDE DEF M
  <2> QED  BY <2>1, <2>2, <2>3, ClosureWithin
<1>9. \A m \in ImportClosure(p, src, f) : m \in Exported(p, src) /\ Target(v, m) \in N
  BY <1>4, <1>8
<1> SUFFICES ASSUME NEW z \in Outputs(g[y]), z \in Opened(p, o, v, src, f) PROVE FALSE
  BY <1>1
<1>10. WritesOut(g[y], z) \/ WritesGcm(g[y], v, z) \/ WritesMark(g[y], v, z)
  BY <1>2, Writes
<1>11. \/ \E m \in ImportClosure(p, src, f) : z = bmi_path(p, o, v, Exporter(p, src, m), m)
       \/ \E h \in {f} \cup {Exporter(p, src, m) : m \in ImportClosure(p, src, f)} :
            \E t \in UnitsOf(h) : z = _header_unit_destination(o, t)
  BY DEF Opened, UnitsOf
<1>12. ~ WritesMark(g[y], v, z)
  <2>1. z[1] \in {"pcm", "gcm", "hu"}  BY <1>5, <1>11 DEF bmi_path
  <2> QED  BY <2>1 DEF WritesMark, _result_marker_path, Beside
<1>13. ASSUME NEW m \in ImportClosure(p, src, f), z = bmi_path(p, o, v, Exporter(p, src, m), m)
       PROVE  FALSE
  <2>1. m \in Exported(p, src) /\ Target(v, m) \in N  BY <1>9
  <2>2. CASE o.kind = "clang"
    <3>1. Target(v, m) = z  BY <1>13, <2>1, <2>2 DEF Target, target_map
    <3>2. WritesOut(g[y], z)  BY <1>10, <1>12, <2>2 DEF WritesGcm
    <3> QED  BY <1>2, <2>1, <3>1, <3>2 DEF WritesOut
  <2>3. CASE o.kind # "clang"
    <3>1. z[1] = "gcm"  BY <1>13, <2>3 DEF bmi_path
    <3>2. WritesGcm(g[y], v, z)  BY <1>10, <1>12, <3>1 DEF WritesOut
    <3>3. PICK h \in src : \E n \in p.exports[h] :
                    g[y] = _create_compile_rule(p, o, v, src, h) /\ z = bmi_path(p, o, v, h, n)
      BY <3>2 DEF WritesGcm
    <3>4. m \in p.exports[h]  BY <1>13, <3>3 DEF bmi_path
    <3>5. h = Exporter(p, src, m)  BY <1>4, <2>1, <3>4
    <3>6. y = object_pathname(p, v, h)  BY <1>2, <3>3 DEF _create_compile_rule, BuildRule
    <3>7. Target(v, m) = y  BY <2>1, <2>3, <3>5, <3>6 DEF Target, target_map
    <3> QED  BY <1>2, <2>1, <3>7
  <2> QED  BY <2>2, <2>3
<1>14. ASSUME NEW h \in {f} \cup {Exporter(p, src, m) : m \in ImportClosure(p, src, f)},
              NEW t \in UnitsOf(h), z = _header_unit_destination(o, t)
       PROVE  FALSE
  <2>1. z \in Wired(v, h) /\ z[1] = "hu"  BY <1>5, <1>14, WiredHas
  <2>2. z = y
    <3>1. ~ WritesGcm(g[y], v, z)  BY <2>1 DEF WritesGcm, bmi_path
    <3> QED  BY <1>2, <1>10, <1>12, <3>1 DEF WritesOut
  <2>3. \E d : Holds(h, d) /\ z # d
    <3>1. CASE h = f
      <4>1. Holds(f, x)  BY <1>2
      <4> QED  BY <1>2, <2>2, <3>1, <4>1
    <3>2. CASE h # f
      <4>1. PICK m \in ImportClosure(p, src, f) : h = Exporter(p, src, m)  BY <3>2
      <4>2. m \in Exported(p, src) /\ Target(v, m) \in N  BY <1>9
      <4>3. Holds(h, Target(v, m))  BY <1>3, <1>4, <4>1, <4>2
      <4>4. z # Target(v, m)  BY <1>2, <2>2, <4>2
      <4> QED  BY <4>3, <4>4
    <3> QED  BY <3>1, <3>2
  <2>4. "hu" \in ARTEFACTS  BY DEF ARTEFACTS
  <2>5. z \in N  BY <1>2, <1>6, <2>1, <2>2, <2>3, <2>4
  <2> QED  BY <1>2, <2>2, <2>5
<1> QED  BY <1>11, <1>13, <1>14
------------------------------------------------------------------------------
(* The lines of the script                                                  *)

LEMMA Shape ==
  ASSUME NEW v, NEW r \in PlannedRules(p, o, v)
  PROVE  Shaped(r)
<1>1. ASSUME NEW f, r = _create_compile_rule(p, o, v, src, f) PROVE Shaped(r)
  BY <1>1 DEF Shaped, _create_compile_rule, BuildRule
<1>2. ASSUME NEW f, r \in _create_clang_module_interface_rules(p, o, v, src, f) PROVE Shaped(r)
  BY <1>2 DEF Shaped, _create_clang_module_interface_rules, BuildRule
<1>3. ASSUME NEW i, r = Chained(p, o, v, i) PROVE Shaped(r)
  <2>1. PICK t : t = TestRule(p, o, v, o.tests[i])  OBVIOUS
  <2>2. Shaped(t)  BY <2>1 DEF Shaped, TestRule, BuildRule
  <2>3. \E b : r \in {t, [t EXCEPT !.ins = @ \cup b], [t EXCEPT !.order = @ \cup b]}
    BY <1>3, <2>1 DEF Chained
  <2> QED  BY <2>2, <2>3 DEF Shaped
<1>4. IsObject(r, v) \/ IsInterface(r, v) \/ IsTest(r, v) => Shaped(r)
  BY <1>1, <1>2, <1>3 DEF IsObject, IsInterface, IsTest
<1> QED  BY <1>4, Kinds DEF IsDir, IsHeader, IsUnit, IsProduct, IsPhony, Bare

\* A line waits for what its rule waits for, a compile for the artefacts.
LEMMA LineWaits ==
  ASSUME NEW r, Shaped(r)
  PROVE  /\ Line(r).out = r.out /\ Line(r).marker = r.marker /\ Line(r).beside = r.beside
         /\ Line(r).reads = r.reads /\ Outputs(Line(r)) = Outputs(r)
         /\ r.order \subseteq Waits(Line(r))
         /\ \A i \in r.ins : r.type # "compile" \/ i[1] \in ARTEFACTS => i \in Waits(Line(r))
<1>1. /\ Line(r).ins = Prerequisites(o, r) /\ Line(r).order = OrderOnly(o, r)
      /\ Line(r).out = r.out /\ Line(r).marker = r.marker /\ Line(r).beside = r.beside
      /\ Line(r).reads = r.reads
  BY DEF Line, Shaped
<1>2. Outputs(Line(r)) = Outputs(r)  BY <1>1 DEF Outputs
<1>3. Waits(Line(r)) = Prerequisites(o, r) \cup OrderOnly(o, r)  BY <1>1 DEF Waits
<1> QED  BY <1>1, <1>2, <1>3 DEF Prerequisites, OrderOnly, cas_demoted_order_only

\* The part h of a plan g that is kept: phony rules lose inputs, and what is left out
\* makes nothing from an artefact that is kept.
PartOf(h, g) ==
  /\ DOMAIN h \subseteq DOMAIN g
  /\ \A d \in DOMAIN h : h[d] = g[d] \/ (g[d].type = "phony" /\ \E b : h[d] = [g[d] EXCEPT !.ins = b])
  /\ \A d \in DOMAIN g \ DOMAIN h : \A i \in g[d].ins \cap DOMAIN h : i[1] \notin ARTEFACTS

LEMMA FilteredPart ==
  ASSUME NEW v, NEW changed, IsFiniteSet(DOMAIN build_graph(p, o, v))
  PROVE  PartOf(filter_to_changed(build_graph(p, o, v), changed), build_graph(p, o, v))
<1>1. PICK g : g = build_graph(p, o, v)  OBVIOUS
<1>2. PICK h : h = filter_to_changed(g, changed)  OBVIOUS
<1>3. PICK A : A = Affected(g, changed)  OBVIOUS
<1>4. h = [out \in {x \in DOMAIN g : g[x].type = "phony" \/ x \in A} |->
             IF g[out].type = "phony" THEN [g[out] EXCEPT !.ins = @ \cap A] ELSE g[out]]
  BY <1>2, <1>3 DEF filter_to_changed
<1>5. \A out \in DOMAIN g : g[out].ins \cap A # {} => out \in A
  BY <1>1, <1>3, AffectedClosed
<1>6. ASSUME NEW d \in DOMAIN g \ DOMAIN h, NEW i \in g[d].ins \cap DOMAIN h PROVE i[1] \notin ARTEFACTS
  <2>1. d \notin A  BY <1>4
  <2>2. i \notin A  BY <1>5, <2>1
  <2>3. i \in DOMAIN g /\ g[i].type = "phony"  BY <1>4, <2>2
  <2>4. g[i] \in PlannedRules(p, o, v) /\ g[i].out = i  BY <1>1, <2>3, GraphRules
  <2>5. ~ IsObject(g[i], v) /\ ~ IsInterface(g[i], v)
    <3>1. \A f : _create_compile_rule(p, o, v, src, f).type = "compile"
      BY DEF _create_compile_rule, BuildRule
    <3>2. \A f : \A r \in _create_clang_module_interface_rules(p, o, v, src, f) : r.type = "compile"
      BY DEF _create_clang_module_interface_rules, BuildRule
    <3> QED  BY <2>3, <3>1, <3>2 DEF IsObject, IsInterface
  <2>6. ~ IsTest(g[i], v)  BY <2>3, ChainedIs DEF IsTest
  <2>7. IsPhony(g[i])
    BY <2>3, <2>4, <2>5, <2>6, Kinds
       DEF IsDir, IsHeader, IsUnit, IsProduct, CAS_LINKED_TYPES, CAS_PRODUCER_TYPES
  <2> QED  BY <2>4, <2>7 DEF IsPhony, ARTEFACTS
<1>7. DOMAIN h \subseteq DOMAIN g  BY <1>4
<1>8. ASSUME NEW d \in DOMAIN h
      PROVE  h[d] = g[d] \/ (g[d].type = "phony" /\ \E b : h[d] = [g[d] EXCEPT !.ins = b])
  BY <1>4
<1>9. PartOf(h, g)  BY <1>6, <1>7, <1>8 DEF PartOf
<1> QED  BY <1>1, <1>2, <1>9

LEMMA PlanSound ==
  ASSUME NEW v, OneExporter, OneInterface, ~ _check_executable_collisions(p, o),
         NEW h, PartOf(h, build_graph(p, o, v))
  PROVE  Sound(_write_makefile(h))
<1>1. PICK g : g = build_graph(p, o, v)  OBVIOUS
<1>2. PICK G : G = _write_makefile(h)  OBVIOUS
<1>3. \A d \in DOMAIN g : g[d] \in PlannedRules(p, o, v) /\ g[d].out = d
  BY <1>1, GraphRules
<1>4. DOMAIN G = DOMAIN h /\ DOMAIN h \subseteq DOMAIN g /\ \A d \in DOMAIN G : G[d] = Line(h[d])
  BY <1>1, <1>2 DEF _write_makefile, PartOf
<1>5. ASSUME NEW d \in DOMAIN G
      PROVE  /\ Outputs(G[d]) = Outputs(g[d]) /\ G[d].reads = g[d].reads
             /\ g[d].type # "phony" =>
                  /\ g[d].order \subseteq Waits(G[d])
                  /\ \A i \in g[d].ins : g[d].type # "compile" \/ i[1] \in ARTEFACTS => i \in Waits(G[d])
  <2>1. Shaped(g[d])
    <3>1. g[d] \in PlannedRules(p, o, v)  BY <1>3, <1>4
    <3> QED  BY <3>1, Shape
  <2>2. h[d] = g[d] \/ (g[d].type = "phony" /\ \E b : h[d] = [g[d] EXCEPT !.ins = b])
    BY <1>1, <1>4 DEF PartOf
  <2>3. Shaped(h[d]) /\ Outputs(h[d]) = Outputs(g[d]) /\ h[d].reads = g[d].reads
    BY <2>1, <2>2 DEF Shaped, Outputs
  <2>4. G[d] = Line(h[d])  BY <1>4
  <2>5. CASE g[d].type = "phony"  BY <2>3, <2>4, <2>5, LineWaits
  <2>6. CASE g[d].type # "phony"
    <3>1. h[d] = g[d]  BY <2>2, <2>6
    <3> QED  BY <2>1, <2>4, <3>1, LineWaits
  <2> QED  BY <2>5, <2>6
<1>6. SUFFICES ASSUME NEW D \in SUBSET DOMAIN G, NEW x \in DOMAIN G,
                      \A d \in D \cup {x} : Waits(G[d]) \cap DOMAIN G \subseteq D,
                      NEW y \in DOMAIN G \ (D \cup {x}), NEW z \in Outputs(g[y])
               PROVE  z \notin g[x].reads /\ z \notin Outputs(g[x])
  BY <1>2, <1>5 DEF Sound
<1>7. /\ x \in DOMAIN g /\ y \in DOMAIN g /\ x # y /\ y \notin D
      /\ g[x] \in PlannedRules(p, o, v) /\ g[y] \in PlannedRules(p, o, v) /\ g[x].out = x /\ g[y].out = y
  BY <1>3, <1>4
<1>8. z \notin Outputs(g[x])  BY <1>7, WritesApart
<1>9. WritesOut(g[y], z) \/ WritesGcm(g[y], v, z) \/ WritesMark(g[y], v, z)
  BY <1>7, Writes
<1>10. z[1] # "file"
  BY <1>9 DEF WritesOut, WritesGcm, bmi_path, WritesMark, _result_marker_path, Beside
<1>11. ASSUME z[1] \notin {"gcm", "result"} PROVE z = y
  BY <1>7, <1>9, <1>11 DEF WritesOut, WritesGcm, bmi_path, WritesMark, _result_marker_path, Beside

\* What x waits for is settled.
<1>12. g[x].type # "phony" =>
         \A i \in g[x].ins \cup g[x].order :
           i \in g[x].order \/ g[x].type # "compile" \/ i[1] \in ARTEFACTS => i # y
  BY <1>5, <1>6, <1>7
<1>13. z \notin g[x].reads
  <2> SUFFICES ASSUME z \in g[x].reads PROVE FALSE  OBVIOUS
  <2>1. CASE IsDir(g[x]) \/ IsUnit(g[x]) \/ IsPhony(g[x])
    BY <2>1 DEF IsDir, IsUnit, IsPhony
  <2>2. CASE IsHeader(g[x])
    BY <1>10, <2>2 DEF IsHeader
  <2>3. CASE IsProduct(g[x])
    <3>1. g[x].type \notin {"phony", "compile"} /\ g[x].reads = g[x].ins
          /\ \A i \in g[x].ins : i[1] \in {"o", "exe", "a", "so", "bin"}
      BY <2>3 DEF IsProduct, CAS_LINKED_TYPES, CAS_PRODUCER_TYPES
    <3>2. z = y  BY <1>11, <3>1
    <3> QED  BY <1>12, <3>1, <3>2
  <2>4. CASE IsTest(g[x], v)
    <3>1. PICK i \in DOMAIN o.tests : g[x] = Chained(p, o, v, i)  BY <2>4 DEF IsTest
    <3>2. PICK exe : exe = executable_pathname(p, o.tests[i])  OBVIOUS
    <3>3. g[x].type = "test" /\ g[x].reads = {exe} /\ exe \in g[x].ins \cup g[x].order
      BY <3>1, <3>2, ChainedIs
    <3>4. exe[1] = "bin"  BY <3>2 DEF executable_pathname, published
    <3>5. exe = y  BY <1>11, <3>3, <3>4
    <3> QED  BY <1>12, <3>3, <3>5
  <2>5. CASE IsObject(g[x], v) \/ IsInterface(g[x], v)
    <3>1. PICK f \in src : CompileOf(g[x], v, f)
      BY <2>5 DEF IsObject, IsInterface, CompileOf
    <3>2. g[x].type = "compile"
          /\ (z[1] = "file" \/ (z \in g[x].ins /\ z[1] \in {"gch", "pcm"}) \/ z \in Opened(p, o, v, src, f))
      BY <3>1, CompileIs
    <3>3. CASE z \in g[x].ins /\ z[1] \in {"gch", "pcm"}
      <4>1. z = y  BY <1>11, <3>3
      <4>2. z[1] \in ARTEFACTS  BY <3>3 DEF ARTEFACTS
      <4> QED  BY <1>12, <3>2, <3>3, <4>1, <4>2
    <3>4. CASE z \in Opened(p, o, v, src, f)
      <4> DEFINE N == D \cup (DOMAIN g \ DOMAIN h)
      <4>1. ASSUME NEW d \in N \cup {x}, NEW i \in g[d].ins,
                   g[d].type = "compile", i[1] \in ARTEFACTS, i \in DOMAIN g
            PROVE  i \in N
        <5>1. CASE i \notin DOMAIN h  BY <4>1, <5>1
        <5>2. CASE i \in DOMAIN h /\ d \notin DOMAIN h
          <6>1. d \in DOMAIN g \ DOMAIN h  BY <1>4, <5>2
          <6> QED  BY <1>1, <4>1, <5>2, <6>1 DEF PartOf
        <5>3. CASE i \in DOMAIN h /\ d \in DOMAIN h
          <6>1. d \in D \cup {x} /\ d \in DOMAIN G  BY <1>4, <5>3
          <6>2. i \in Waits(G[d])  BY <1>5, <4>1, <6>1
          <6> QED  BY <1>4, <1>6, <5>3, <6>1, <6>2
        <5> QED  BY <5>1, <5>2, <5>3
      <4>2. N \in SUBSET DOMAIN g /\ y \in DOMAIN g \ (N \cup {x})  BY <1>4, <1>7
      <4> HIDE DEF N
      <4>3. Outputs(g[y]) \cap Opened(p, o, v, src, f) = {}
        BY <1>1, <1>7, <3>1, <4>1, <4>2, OpensSettled
      <4> QED  BY <3>4, <4>3
    <3> QED  BY <1>10, <3>2, <3>3, <3>4
  <2> QED  BY <1>7, <2>1, <2>2, <2>3, <2>4, <2>5, Kinds
<1> QED  BY <1>8, <1>13
------------------------------------------------------------------------------
(* The invariant                                                            *)

LEMMA InitPlanned ==
  ASSUME Init
  PROVE  PlanInv
<1>1. w \in Worlds /\ ver \in Versions(w)
  BY VersionsAssumption DEF Init, Versions
<1>2. script.g = << >> /\ st = << >> /\ running = {}  BY DEF Init, NoScript
<1>3. DOMAIN script.g = {} /\ DOMAIN st = {}  BY <1>2
<1>4. Sound(script.g)  BY <1>3 DEF Sound
<1>5. Orderly  BY <1>2, <1>3 DEF Orderly
<1> QED  BY <1>1, <1>4, <1>5 DEF PlanInv

LEMMA GeneratePlanned ==
  ASSUME PlanInv, Generate
  PROVE  PlanInv'
<1>1. w' = w /\ ver' = ver /\ st' = << >> /\ running' = {}
  BY DEF Generate, Idle, tree
<1>2. Orderly'
  <2>1. DOMAIN st' = {}  BY <1>1
  <2> QED  BY <1>1, <2>1 DEF Orderly
<1>3. Sound(script.g)'
  <2>1. CASE script' = script  BY <2>1 DEF PlanInv, Sound
  <2>2. CASE script' # script
    <3>1. /\ ~ _check_executable_collisions(p, o)
          /\ script'.g = _write_makefile(_apply_build_only_changed(build_graph(p, o, ver)))
      BY <2>2 DEF Generate
    <3>2. PICK g : g = build_graph(p, o, ver)  OBVIOUS
    <3>3. PICK h : h = _apply_build_only_changed(g)  OBVIOUS
    <3>4. PartOf(h, g)
      <4>1. IsFiniteSet(DOMAIN g)  BY <3>2, PlansAssumption DEF PlanInv, p, o
      <4>2. PICK changed : changed = {File(f) : f \in edited}  OBVIOUS
      <4>3. PartOf(filter_to_changed(g, changed), g)  BY <3>2, <4>1, FilteredPart
      <4>4. PartOf(g, g)  BY DEF PartOf
      <4> QED  BY <3>3, <4>2, <4>3, <4>4 DEF _apply_build_only_changed
    <3>5. OneExporter /\ OneInterface
      BY ModulesAssumption DEF PlanInv, OneExporter, OneInterface, src, p, o
    <3>6. PICK G : G = _write_makefile(h)  OBVIOUS
    <3>7. Sound(G)  BY <3>1, <3>2, <3>4, <3>5, <3>6, PlanSound
    <3>8. script'.g = G  BY <3>1, <3>2, <3>3, <3>6
    <3> QED  BY <3>7, <3>8 DEF Sound
  <2> QED  BY <2>1, <2>2
<1> QED  BY <1>1, <1>2, <1>3 DEF PlanInv

\* What leaves the script, what is done and the tree alone.
LEMMA Undisturbed ==
  ASSUME PlanInv, w' = w, ver' \in Versions(w), script' = script, st' = st,
         running' \subseteq running
  PROVE  PlanInv'
BY DEF PlanInv, Orderly, Sound, Rule

LEMMA SettlePlanned ==
  ASSUME PlanInv, Settle
  PROVE  PlanInv'
<1>1. w' = w /\ ver' = ver /\ script' = script /\ running' = running
      /\ DOMAIN st' = DOMAIN st \cup Settled
  BY DEF Settle, tree, Mark
<1>2. Settled \subseteq Ready  BY DEF Settled
<1>3. \A x \in Ready : x \in DOMAIN script.g /\ Waits(Rule(x)) \cap DOMAIN script.g \subseteq DOMAIN st
  BY DEF Ready
<1>4. Orderly'
  BY <1>1, <1>2, <1>3 DEF PlanInv, Orderly, Rule
<1> QED  BY <1>1, <1>4 DEF PlanInv, Sound

LEMMA StartPlanned ==
  ASSUME PlanInv, NEW x \in Runnable, Start(x)
  PROVE  PlanInv'
<1>1. w' = w /\ ver' = ver /\ script' = script /\ running' = running \cup {x} /\ st' = st
  BY DEF Start, tree
<1>2. x \in DOMAIN script.g /\ Waits(Rule(x)) \cap DOMAIN script.g \subseteq DOMAIN st
  BY DEF Runnable, Ready
<1>3. Orderly'
  BY <1>1, <1>2 DEF PlanInv, Orderly, Rule
<1> QED  BY <1>1, <1>3 DEF PlanInv, Sound

LEMMA FinishPlanned ==
  ASSUME PlanInv, NEW x \in running, Finish(x)
  PROVE  PlanInv'
<1>1. w' = w /\ ver' = ver /\ script' = script /\ running' = running \ {x}
      /\ (st' = st \/ DOMAIN st' = DOMAIN st \cup {x})
  BY DEF Finish, tree, Mark
<1>2. Orderly'
  BY <1>1 DEF PlanInv, Orderly, Rule
<1> QED  BY <1>1, <1>2 DEF PlanInv, Sound

LEMMA PlanStep ==
  ASSUME PlanInv, [Next]_vars
  PROVE  PlanInv'
<1>1. ASSUME NEW f \in DOMAIN ver, Edit(f) PROVE PlanInv'
  <2>1. ver' \in Versions(w)
    <3>1. PICK n \in 1..MaxVersion : ver' = [ver EXCEPT ![f] = n]  BY <1>1 DEF Edit
    <3> QED  BY <3>1 DEF PlanInv, Versions
  <2> QED  BY <1>1, <2>1, Undisturbed DEF Edit
<1>2. ASSUME NEW x \in DOMAIN disk, Trim(x) PROVE PlanInv'
  BY <1>2, Undisturbed DEF Trim, PlanInv
<1>3. CASE Generate  BY <1>3, GeneratePlanned
<1>4. ASSUME NEW long \in BOOLEAN, Execute(long) PROVE PlanInv'
  BY <1>4, Undisturbed DEF Execute, PlanInv
<1>5. CASE Prebuild  BY <1>5, Undisturbed DEF Prebuild, PlanInv, tree
<1>6. CASE Settle  BY <1>6, SettlePlanned
<1>7. CASE Succeed  BY <1>7, Undisturbed DEF Succeed, PlanInv
<1>8. CASE Fail  BY <1>8, Undisturbed DEF Fail, PlanInv, tree
<1>9. ASSUME NEW x \in Runnable, Start(x) PROVE PlanInv'  BY <1>9, StartPlanned
<1>10. ASSUME NEW x \in running, Finish(x) PROVE PlanInv'  BY <1>10, FinishPlanned
<1>11. CASE Interrupt  BY <1>11, Undisturbed DEF Interrupt, PlanInv
<1>12. CASE UNCHANGED vars  BY <1>12, Undisturbed DEF vars, tree, PlanInv
<1> QED
  BY <1>1, <1>2, <1>3, <1>4, <1>5, <1>6, <1>7, <1>8, <1>9, <1>10, <1>11, <1>12 DEF Next, Proceed

LEMMA PlannedSettled ==
  ASSUME PlanInv
  PROVE  ReadsSettled
<1> SUFFICES ASSUME NEW x \in running, NEW y \in DOMAIN script.g \ (DOMAIN st \cup {x})
             PROVE  Outputs(Rule(y)) \cap (Rule(x).reads \cup Outputs(Rule(x))) = {}
  BY DEF ReadsSettled
<1>1. x \in DOMAIN script.g /\ DOMAIN st \in SUBSET DOMAIN script.g
      /\ \A d \in DOMAIN st \cup {x} : Waits(script.g[d]) \cap DOMAIN script.g \subseteq DOMAIN st
  BY DEF PlanInv, Orderly, Rule
<1> QED  BY <1>1 DEF PlanInv, Sound, Rule

\* Of the plans that build_graph makes, whole or cut by --build-only-changed, make
\* and ninja run no command while another that runs or is still to come writes what
\* it opens or writes.
THEOREM NativeReadsSettled == Spec => []ReadsSettled
<1>1. Init => PlanInv  BY InitPlanned
<1>2. PlanInv /\ [Next]_vars => PlanInv'  BY PlanStep
<1>3. PlanInv => ReadsSettled  BY PlannedSettled
<1> QED  BY <1>1, <1>2, <1>3, PTL DEF Spec
------------------------------------------------------------------------------
(* A whole plan supplies itself                                             *)

\* There is such a file, or a rule that makes it.
Has(v, i) == i[1] = "file" \/ \E q \in PlannedRules(p, o, v) : q.out = i

LEMMA HasParts ==
  ASSUME NEW v
  PROVE  /\ Has(v, Dir("objdir")) /\ Has(v, Dir("bin"))
         /\ \A h \in PchHeaders(p, src) : Has(v, _gch_path(o, h)) /\ Has(v, pch_dir(o, h))
         /\ \A t \in HeaderUnits(p, src) : Has(v, _header_unit_destination(o, t)) /\ Has(v, header_unit_dir(o, t))
         /\ \A f \in src : Has(v, object_pathname(p, v, f)) /\ Has(v, Bucket(object_pathname(p, v, f)))
         /\ \A f \in src : TwoStep(f) => Has(v, bmi_path(p, o, v, f, Interface(f)))
<1>1. \A d : MkDir(d).out = d  BY DEF MkDir, BuildRule
<1>2. Has(v, Dir("objdir")) /\ Has(v, Dir("bin"))
  <2>1. MkDir(Dir("objdir")) \in PlannedRules(p, o, v) /\ MkDir(Dir("bin")) \in PlannedRules(p, o, v)
    BY DEF PlannedRules
  <2> QED  BY <1>1, <2>1 DEF Has
<1>3. ASSUME NEW h \in PchHeaders(p, src) PROVE Has(v, _gch_path(o, h)) /\ Has(v, pch_dir(o, h))
  <2>1. PICK r : r = BuildRule("compile", _gch_path(o, h), Files(p, h), {pch_dir(o, h)}, Files(p, h))
    OBVIOUS
  <2>2. r.out = _gch_path(o, h)  BY <2>1 DEF BuildRule
  <2>3. {r, MkDir(pch_dir(o, h))} \subseteq _plan_pch_rules(p, o, src)
    BY <2>1 DEF _plan_pch_rules
  <2>4. {r, MkDir(pch_dir(o, h))} \subseteq PlannedRules(p, o, v)
    BY <2>3 DEF PlannedRules, src
  <2> QED  BY <1>1, <2>2, <2>4 DEF Has
<1>4. ASSUME NEW t \in HeaderUnits(p, src)
      PROVE  Has(v, _header_unit_destination(o, t)) /\ Has(v, header_unit_dir(o, t))
  <2>1. PICK r : r = _create_header_unit_precompile_rule(o, t)  OBVIOUS
  <2>2. r.out = _header_unit_destination(o, t)
    BY <2>1 DEF _create_header_unit_precompile_rule, BuildRule
  <2>3. {r, MkDir(header_unit_dir(o, t))} \subseteq _plan_header_unit_prepass(p, o, src)
    BY <2>1 DEF _plan_header_unit_prepass
  <2>4. {r, MkDir(header_unit_dir(o, t))} \subseteq PlannedRules(p, o, v)
    BY <2>3 DEF PlannedRules, src
  <2> QED  BY <1>1, <2>2, <2>4 DEF Has
<1>5. ASSUME NEW f \in src, NEW r, CompileOf(r, v, f) PROVE r \in PlannedRules(p, o, v)
  <2>1. r \in _plan_compile_rules(p, o, v, src)
    BY <1>5 DEF CompileOf, _plan_compile_rules, TwoStep
  <2> QED  BY <2>1 DEF PlannedRules, src
<1>6. ASSUME NEW f \in src
      PROVE  Has(v, object_pathname(p, v, f)) /\ Has(v, Bucket(object_pathname(p, v, f)))
  <2>1. \E r : CompileOf(r, v, f) /\ r.out = object_pathname(p, v, f)
    <3>1. _create_compile_rule(p, o, v, src, f).out = object_pathname(p, v, f)
      BY DEF _create_compile_rule, BuildRule
    <3>2. \E r \in _create_clang_module_interface_rules(p, o, v, src, f) : r.out = object_pathname(p, v, f)
      BY DEF _create_clang_module_interface_rules, BuildRule
    <3> QED  BY <3>1, <3>2 DEF CompileOf
  <2>2. MkDir(Bucket(object_pathname(p, v, f))) \in _plan_compile_rules(p, o, v, src)
    BY DEF _plan_compile_rules
  <2>3. MkDir(Bucket(object_pathname(p, v, f))) \in PlannedRules(p, o, v)
    BY <2>2 DEF PlannedRules, src
  <2> QED  BY <1>1, <1>5, <2>1, <2>3 DEF Has
<1>7. ASSUME NEW f \in src, TwoStep(f) PROVE Has(v, bmi_path(p, o, v, f, Interface(f)))
  <2>1. \E r \in _create_clang_module_interface_rules(p, o, v, src, f) : r.out = bmi_path(p, o, v, f, Interface(f))
    BY DEF _create_clang_module_interface_rules, BuildRule, Interface
  <2> QED  BY <1>5, <1>7, <2>1 DEF Has, CompileOf
<1> QED  BY <1>2, <1>3, <1>4, <1>6, <1>7

\* An artefact and its publication are made, and wait for what is made.
LEMMA HasArtefact ==
  ASSUME NEW v, NEW type, NEW cas, NEW user, NEW ins,
         ArtefactRules(o, type, cas, user, ins) \subseteq PlannedRules(p, o, v), \A i \in ins : Has(v, i)
  PROVE  /\ Has(v, user)
         /\ \A r \in ArtefactRules(o, type, cas, user, ins) : \A i \in r.ins \cup r.order : Has(v, i)
<1>1. Has(v, Dir("bin"))  BY HasParts
<1>2. CASE o.managed
  <2>1. PICK r : r = BuildRule(type, user, ins, {Dir("bin")}, ins)  OBVIOUS
  <2>2. r.out = user /\ r.ins = ins /\ r.order = {Dir("bin")}  BY <2>1 DEF BuildRule
  <2>3. ArtefactRules(o, type, cas, user, ins) = {r}  BY <1>2, <2>1 DEF ArtefactRules
  <2> QED  BY <1>1, <2>2, <2>3 DEF Has
<1>3. CASE ~ o.managed
  <2>1. PICK r : r = BuildRule(type, cas, ins, {Bucket(cas)}, ins)  OBVIOUS
  <2>2. PICK q : q = _build_publish_rule(cas, user)  OBVIOUS
  <2>3. PICK d : d = MkDir(Bucket(cas))  OBVIOUS
  <2>4. r.out = cas /\ r.ins = ins /\ r.order = {Bucket(cas)}  BY <2>1 DEF BuildRule
  <2>5. q.out = user /\ q.ins = {cas} /\ q.order = {Dir("bin")}
    BY <2>2 DEF _build_publish_rule, BuildRule
  <2>6. d.out = Bucket(cas) /\ d.ins = {} /\ d.order = {}  BY <2>3 DEF MkDir, BuildRule
  <2>7. ArtefactRules(o, type, cas, user, ins) = {r, d, q}
    BY <1>3, <2>1, <2>2, <2>3 DEF ArtefactRules
  <2>8. Has(v, user) /\ Has(v, cas) /\ Has(v, Bucket(cas))
    BY <2>4, <2>5, <2>6, <2>7 DEF Has
  <2> QED  BY <1>1, <2>4, <2>5, <2>6, <2>7, <2>8
<1> QED  BY <1>2, <1>3

LEMMA HasLinks ==
  ASSUME NEW v
  PROVE  /\ \A f \in Targets(o) : Has(v, executable_pathname(p, f))
         /\ \A l \in library_outputs(p, o) : Has(v, l)
         /\ \A r \in _plan_link_and_publish_rules(p, o, v) : \A i \in r.ins \cup r.order : Has(v, i)
<1>1. _plan_link_and_publish_rules(p, o, v) \subseteq PlannedRules(p, o, v)
  BY DEF PlannedRules
<1>2. ASSUME NEW fs \in SUBSET src, NEW i \in Objects(p, v, fs) PROVE Has(v, i)
  BY HasParts DEF Objects
<1>3. /\ Needed(p, o.static) \subseteq src /\ Needed(p, o.dynamic) \subseteq src
      /\ \A f \in Targets(o) : p.required[f] \subseteq src
  BY DEF src, all_compile_sources, Needed
<1>4. ASSUME o.static # {}
      PROVE  /\ Has(v, Library("a", p, o.static))
             /\ \A r \in _create_static_library_rule(p, o, v) : \A i \in r.ins \cup r.order : Has(v, i)
  <2>1. PICK objs : objs = Objects(p, v, Needed(p, o.static))  OBVIOUS
  <2>2. \A i \in objs : Has(v, i)  BY <1>2, <1>3, <2>1
  <2>5. PICK cas, user : cas = <<"a", Library("a", p, o.static), objs>> /\ user = Library("a", p, o.static)
    OBVIOUS
  <2>3. _create_static_library_rule(p, o, v) = ArtefactRules(o, "static_library", cas, user, objs)
    BY <2>1, <2>5 DEF _create_static_library_rule
  <2>4. _create_static_library_rule(p, o, v) \subseteq PlannedRules(p, o, v)
    BY <1>1, <1>4 DEF _plan_link_and_publish_rules
  <2>6. /\ Has(v, user)
        /\ \A r \in ArtefactRules(o, "static_library", cas, user, objs) : \A i \in r.ins \cup r.order : Has(v, i)
    <3>1. ArtefactRules(o, "static_library", cas, user, objs) \subseteq PlannedRules(p, o, v)
      BY <2>3, <2>4
    <3> QED  BY <2>2, <3>1, HasArtefact
  <2> QED  BY <2>3, <2>5, <2>6
<1>5. ASSUME o.dynamic # {}
      PROVE  /\ Has(v, Library("so", p, o.dynamic))
             /\ \A r \in _create_shared_library_rule(p, o, v) : \A i \in r.ins \cup r.order : Has(v, i)
  <2>1. PICK objs : objs = Objects(p, v, Needed(p, o.dynamic))  OBVIOUS
  <2>2. \A i \in objs : Has(v, i)  BY <1>2, <1>3, <2>1
  <2>5. PICK cas, user : cas = <<"so", Library("so", p, o.dynamic), objs, v[ENV]>> /\ user = Library("so", p, o.dynamic)
    OBVIOUS
  <2>3. _create_shared_library_rule(p, o, v) = ArtefactRules(o, "shared_library", cas, user, objs)
    BY <2>1, <2>5 DEF _create_shared_library_rule
  <2>4. _create_shared_library_rule(p, o, v) \subseteq PlannedRules(p, o, v)
    BY <1>1, <1>5 DEF _plan_link_and_publish_rules
  <2>6. /\ Has(v, user)
        /\ \A r \in ArtefactRules(o, "shared_library", cas, user, objs) : \A i \in r.ins \cup r.order : Has(v, i)
    <3>1. ArtefactRules(o, "shared_library", cas, user, objs) \subseteq PlannedRules(p, o, v)
      BY <2>3, <2>4
    <3> QED  BY <2>2, <3>1, HasArtefact
  <2> QED  BY <2>3, <2>5, <2>6
<1>6. ASSUME NEW l \in library_outputs(p, o) PROVE Has(v, l)
  <2>1. \/ o.static # {} /\ l = Library("a", p, o.static)
        \/ o.dynamic # {} /\ l = Library("so", p, o.dynamic)
    BY DEF library_outputs
  <2> QED  BY <1>4, <1>5, <2>1
<1>7. ASSUME NEW f \in Targets(o)
      PROVE  /\ Has(v, executable_pathname(p, f))
             /\ \A r \in _create_link_rule(p, o, v, f, library_outputs(p, o)) :
                  \A i \in r.ins \cup r.order : Has(v, i)
  <2>1. PICK ins : ins = Objects(p, v, p.required[f]) \cup library_outputs(p, o)  OBVIOUS
  <2>2. \A i \in ins : Has(v, i)  BY <1>2, <1>3, <1>6, <2>1
  <2>5. PICK cas, user : cas = link_key(p, v, f, library_outputs(p, o)) /\ user = executable_pathname(p, f)
    OBVIOUS
  <2>3. _create_link_rule(p, o, v, f, library_outputs(p, o)) = ArtefactRules(o, "link", cas, user, ins)
    BY <2>1, <2>5 DEF _create_link_rule
  <2>4. _create_link_rule(p, o, v, f, library_outputs(p, o)) \subseteq PlannedRules(p, o, v)
    BY <1>1 DEF _plan_link_and_publish_rules
  <2>6. /\ Has(v, user)
        /\ \A r \in ArtefactRules(o, "link", cas, user, ins) : \A i \in r.ins \cup r.order : Has(v, i)
    <3>1. ArtefactRules(o, "link", cas, user, ins) \subseteq PlannedRules(p, o, v)
      BY <2>3, <2>4
    <3> QED  BY <2>2, <3>1, HasArtefact
  <2> QED  BY <2>3, <2>5, <2>6
<1>8. ASSUME NEW r \in _plan_link_and_publish_rules(p, o, v)
      PROVE  \A i \in r.ins \cup r.order : Has(v, i)
  <2>1. \/ o.static # {} /\ r \in _create_static_library_rule(p, o, v)
        \/ o.dynamic # {} /\ r \in _create_shared_library_rule(p, o, v)
        \/ \E f \in Targets(o) : r \in _create_link_rule(p, o, v, f, library_outputs(p, o))
    BY DEF _plan_link_and_publish_rules
  <2> QED  BY <1>4, <1>5, <1>7, <2>1
<1> QED  BY <1>6, <1>7, <1>8

LEMMA HasTests ==
  ASSUME NEW v, w \in Worlds, NEW r \in _plan_test_rules(p, o, v), NEW i \in r.ins \cup r.order
  PROVE  Has(v, i)
<1>1. _plan_test_rules(p, o, v) \subseteq PlannedRules(p, o, v)  BY DEF PlannedRules
<1>2. \A j \in DOMAIN o.tests : Has(v, Chained(p, o, v, j).out)
  BY <1>1 DEF _plan_test_rules, Has
<1>3. \A f \in Targets(o) : Has(v, executable_pathname(p, f))  BY HasLinks
<1>4. \A l \in library_outputs(p, o) : Has(v, l)  BY HasLinks
<1>5. CASE \E j \in DOMAIN o.tests : r = Chained(p, o, v, j)
  <2>1. PICK j \in DOMAIN o.tests : r = Chained(p, o, v, j)  BY <1>5
  <2>2. PICK f : f = o.tests[j] /\ f \in Targets(o)  BY DEF Targets, Range
  <2>3. PICK t : t = TestRule(p, o, v, f)  OBVIOUS
  <2>4. /\ DOMAIN t = {"type", "out", "ins", "order", "reads", "marker", "beside"}
        /\ t.ins \subseteq {executable_pathname(p, f)}
        /\ t.order \subseteq {executable_pathname(p, f)} \cup (IF o.test_xml_dir THEN {Dir("xml")} ELSE {})
    BY <2>3 DEF TestRule, BuildRule
  <2>5. o.test_xml_dir => Has(v, Dir("xml"))
    <3>1. o.test_xml_dir => MkDir(Dir("xml")) \in _plan_test_rules(p, o, v)
      BY <2>1 DEF _plan_test_rules
    <3>2. MkDir(Dir("xml")).out = Dir("xml")  BY DEF MkDir, BuildRule
    <3> QED  BY <1>1, <3>1, <3>2 DEF Has
  <2>6. \A k \in t.ins \cup t.order : Has(v, k)  BY <1>3, <2>2, <2>4, <2>5
  <2>7. CASE r = t  BY <2>6, <2>7
  <2>8. CASE r # t
    <3>1. PICK b : b = TestRule(p, o, v, o.tests[j - 1]).out  OBVIOUS
    <3>2. j # 1 /\ r \in {[t EXCEPT !.ins = @ \cup {b}], [t EXCEPT !.order = @ \cup {b}]}
      BY <2>1, <2>2, <2>3, <2>8, <3>1 DEF Chained
    <3>3. j - 1 \in DOMAIN o.tests
      BY <2>1, <3>2, TestsAssumption DEF o
    <3>4. Chained(p, o, v, j - 1).out = b
      <4>1. PICK c : c = TestRule(p, o, v, o.tests[j - 1])  OBVIOUS
      <4>2. DOMAIN c = {"type", "out", "ins", "order", "reads", "marker", "beside"}
        BY <4>1 DEF TestRule, BuildRule
      <4>3. \E e : Chained(p, o, v, j - 1) \in {c, [c EXCEPT !.ins = @ \cup e], [c EXCEPT !.order = @ \cup e]}
        BY <4>1 DEF Chained
      <4> QED  BY <3>1, <4>1, <4>2, <4>3
    <3>5. Has(v, b)  BY <1>2, <3>3, <3>4
    <3>6. r.ins \cup r.order = t.ins \cup t.order \cup {b}  BY <2>4, <3>2
    <3> QED  BY <2>6, <3>5, <3>6
  <2> QED  BY <2>7, <2>8
<1>6. CASE r = MkDir(Dir("xml"))
  BY <1>6 DEF MkDir, BuildRule
<1>7. CASE \E name, ins : r = Phony(name, ins)
  <2>1. \A name, ins : Phony(name, ins).ins = ins /\ Phony(name, ins).order = {}
                       /\ Phony(name, ins).out = <<"phony", name>>
    BY DEF Phony, BuildRule
  <2> DEFINE tests == {Chained(p, o, v, j) : j \in DOMAIN o.tests}
             exes  == {executable_pathname(p, f) : f \in Targets(o)}
             runs  == IF tests = {} THEN {} ELSE {Phony("runtests", {q.out : q \in tests})}
  <2>2. /\ Phony("build", exes \cup library_outputs(p, o)) \in _plan_test_rules(p, o, v)
        /\ runs \subseteq _plan_test_rules(p, o, v)
    BY DEF _plan_test_rules
  <2>3. ASSUME NEW j \in DOMAIN o.tests PROVE r # Chained(p, o, v, j)
    BY <1>7, ChainedIs DEF Phony, BuildRule
  <2>4. r # MkDir(Dir("xml"))  BY <1>7 DEF Phony, MkDir, BuildRule
  <2>5. \/ r \in runs \/ r = Phony("build", exes \cup library_outputs(p, o))
        \/ r = Phony("all", {<<"phony", "build">>} \cup {q.out : q \in runs})
    BY <2>3, <2>4 DEF _plan_test_rules
  <2>6. \A q \in tests : Has(v, q.out)  BY <1>2
  <2>7. Has(v, <<"phony", "build">>) /\ \A q \in runs : Has(v, q.out)
    <3> HIDE DEF runs, exes
    <3> QED  BY <1>1, <2>1, <2>2 DEF Has
  <2>8. \A e \in exes : Has(v, e)  BY <1>3
  <2>9. CASE r \in runs
    <3>1. r = Phony("runtests", {q.out : q \in tests})  BY <2>9
    <3> HIDE DEF tests
    <3> QED  BY <2>1, <2>6, <3>1
  <2>10. CASE r = Phony("build", exes \cup library_outputs(p, o))
    <3> HIDE DEF exes
    <3> QED  BY <1>4, <2>1, <2>8, <2>10
  <2>11. CASE r = Phony("all", {<<"phony", "build">>} \cup {q.out : q \in runs})
    <3> HIDE DEF runs
    <3> QED  BY <2>1, <2>7, <2>11
  <2> QED  BY <2>5, <2>9, <2>10, <2>11
<1> QED  BY <1>5, <1>6, <1>7 DEF _plan_test_rules

\* What a compile waits for and opens.
LEMMA CompileWaits ==
  ASSUME NEW v, NEW f \in src, NEW r, CompileOf(r, v, f)
  PROVE  /\ \A i \in r.ins : \/ i[1] = "file" \/ i \in Wired(v, f)
                             \/ \E h \in p.pch[f] : i = _gch_path(o, h)
                             \/ TwoStep(f) /\ i = bmi_path(p, o, v, f, Interface(f)) /\ i # r.out
         /\ \A i \in r.order : \/ i = Bucket(object_pathname(p, v, f))
                               \/ TwoStep(f) /\ i = bmi_dir(p, o, v, f, Interface(f))
<1>1. \A i \in Files(p, f) : i[1] = "file"  BY DEF Files, File
<1>2. CASE ~ TwoStep(f)
  <2>1. r = _create_compile_rule(p, o, v, src, f)  BY <1>2 DEF CompileOf
  <2> DEFINE gchs == {_gch_path(o, h) : h \in p.pch[f]}
  <2>2. /\ r.order = {Bucket(object_pathname(p, v, f))}
        /\ r.ins \subseteq Files(p, f) \cup gchs \cup Wired(v, f)
    BY <2>1 DEF _create_compile_rule, BuildRule, Wired
  <2> QED  BY <1>1, <2>2
<1>3. CASE TwoStep(f)
  <2>1. r \in _create_clang_module_interface_rules(p, o, v, src, f)  BY <1>3 DEF CompileOf
  <2>2. PICK pcm : pcm = bmi_path(p, o, v, f, Interface(f))  OBVIOUS
  <2>3. \/ /\ r.ins \subseteq Files(p, f) \cup Wired(v, f)
           /\ r.order = {bmi_dir(p, o, v, f, Interface(f))}
        \/ /\ r.ins = {pcm} \cup Wired(v, f) /\ r.order = {Bucket(object_pathname(p, v, f))}
           /\ r.out = object_pathname(p, v, f)
    BY <2>1, <2>2 DEF _create_clang_module_interface_rules, BuildRule, Wired, Interface
  <2>4. pcm # object_pathname(p, v, f)  BY <1>3, <2>2 DEF TwoStep, bmi_path, object_pathname
  <2> QED  BY <1>1, <1>3, <2>2, <2>3, <2>4
<1> QED  BY <1>2, <1>3

LEMMA HasWired ==
  ASSUME NEW v, OneExporter, OneInterface, NEW f \in src, NEW i \in Wired(v, f)
  PROVE  Has(v, i)
<1>1. \/ \E m \in Exported(p, src) : i = Target(v, m)
      \/ \E t \in UnitsOf(f) : i = _header_unit_destination(o, t)
  BY DEF Wired, _wire_module_inputs, WithPartitions, Target, UnitsOf
<1>2. UnitsOf(f) \subseteq HeaderUnits(p, src)
  BY DEF UnitsOf, HeaderUnits, Below
<1>3. CASE \E m \in Exported(p, src) : i = Target(v, m)
  BY <1>3, TargetsMade, GraphRules DEF Has
<1>4. CASE \E t \in UnitsOf(f) : i = _header_unit_destination(o, t)
  BY <1>2, <1>4, HasParts
<1> QED  BY <1>1, <1>3, <1>4

\* Every rule of a plan waits for files, and for what the plan makes.
LEMMA Supplied ==
  ASSUME NEW v, w \in Worlds, OneExporter, OneInterface, NEW r \in PlannedRules(p, o, v), NEW i \in r.ins \cup r.order
  PROVE  Has(v, i)
<1>1. \A d : MkDir(d).ins \cup MkDir(d).order = {}  BY DEF MkDir, BuildRule
<1>2. /\ \A f : \A j \in Files(p, f) : Has(v, j)
      /\ \A h \in PchHeaders(p, src) : Has(v, _gch_path(o, h)) /\ Has(v, pch_dir(o, h))
  BY HasParts DEF Has, Files, File
<1>3. CASE r \in _plan_pch_rules(p, o, src)
  <2>1. PICK h \in PchHeaders(p, src) :
          r = BuildRule("compile", _gch_path(o, h), Files(p, h), {pch_dir(o, h)}, Files(p, h))
    BY <1>1, <1>3 DEF _plan_pch_rules
  <2>2. r.ins \cup r.order = Files(p, h) \cup {pch_dir(o, h)}  BY <2>1 DEF BuildRule
  <2> QED  BY <1>2, <2>2
<1>4. CASE r \in _plan_module_prepass(p, o, v, src)
  BY <1>1, <1>4 DEF _plan_module_prepass
<1>5. CASE r \in _plan_header_unit_prepass(p, o, src)
  <2>1. PICK t \in HeaderUnits(p, src) : r = _create_header_unit_precompile_rule(o, t)
    BY <1>1, <1>5 DEF _plan_header_unit_prepass
  <2>2. r.ins \cup r.order = {header_unit_dir(o, t)}
    BY <2>1 DEF _create_header_unit_precompile_rule, BuildRule
  <2> QED  BY <2>2, HasParts
<1>6. CASE r \in _plan_compile_rules(p, o, v, src)
  <2>1. PICK f \in src : CompileOf(r, v, f)
    BY <1>1, <1>6 DEF _plan_compile_rules, CompileOf, TwoStep
  <2>2. CASE i \in r.ins
    <3>1. CASE i[1] = "file"  BY <3>1 DEF Has
    <3>2. CASE i \in Wired(v, f)  BY <3>2, HasWired
    <3>3. CASE \E h \in p.pch[f] : i = _gch_path(o, h)  BY <1>2, <3>3 DEF PchHeaders
    <3>4. CASE TwoStep(f) /\ i = bmi_path(p, o, v, f, Interface(f))  BY <3>4, HasParts
    <3> QED  BY <2>1, <2>2, <3>1, <3>2, <3>3, <3>4, CompileWaits
  <2>3. CASE i \in r.order
    <3>1. CASE i = Bucket(object_pathname(p, v, f))  BY <3>1, HasParts
    <3>2. CASE TwoStep(f) /\ i = bmi_dir(p, o, v, f, Interface(f))
      <4>1. PICK m : m = Interface(f)  OBVIOUS
      <4>2. o.kind = "clang" /\ m \in p.exports[f]  BY <3>2, <4>1 DEF TwoStep, Interface
      <4>3. m \in Exported(p, src)  BY <4>2 DEF Exported
      <4>4. f = Exporter(p, src, m)  BY <4>2, <4>3, Exports
      <4>5. MkDir(i) \in _plan_module_prepass(p, o, v, src)
        BY <3>2, <4>1, <4>2, <4>3, <4>4 DEF _plan_module_prepass
      <4>6. MkDir(i) \in PlannedRules(p, o, v)  BY <4>5 DEF PlannedRules, src
      <4> QED  BY <4>6 DEF Has, MkDir, BuildRule
    <3> QED  BY <2>1, <2>3, <3>1, <3>2, CompileWaits
  <2> QED  BY <2>2, <2>3
<1>7. CASE r \in _plan_link_and_publish_rules(p, o, v)  BY <1>7, HasLinks
<1>8. CASE r \in _plan_test_rules(p, o, v)  BY <1>8, HasTests
<1>9. CASE r \in {MkDir(Dir("objdir")), MkDir(Dir("bin"))}  BY <1>1, <1>9
<1> QED  BY <1>3, <1>4, <1>5, <1>6, <1>7, <1>8, <1>9 DEF PlannedRules, src

\* Links and publications are planned together.
LEMMA ProductPlanned ==
  ASSUME NEW v, NEW r \in PlannedRules(p, o, v), IsProduct(r)
  PROVE  r \in _plan_link_and_publish_rules(p, o, v)
<1>1. r.type \notin {"mkdir", "compile", "header_unit", "test", "phony"}
  BY DEF IsProduct, CAS_LINKED_TYPES, CAS_PRODUCER_TYPES
<1>2. \A d : MkDir(d).type = "mkdir"  BY DEF MkDir, BuildRule
<1>3. r \notin _plan_pch_rules(p, o, src)
  BY <1>1, <1>2 DEF _plan_pch_rules, BuildRule
<1>4. r \notin _plan_module_prepass(p, o, v, src)
  BY <1>1, <1>2 DEF _plan_module_prepass
<1>5. r \notin _plan_header_unit_prepass(p, o, src)
  <2>1. \A t : _create_header_unit_precompile_rule(o, t).type \in {"compile", "header_unit"}
    BY DEF _create_header_unit_precompile_rule, BuildRule
  <2> QED  BY <1>1, <1>2, <2>1 DEF _plan_header_unit_prepass
<1>6. r \notin _plan_compile_rules(p, o, v, src)
  <2>1. \A f \in src : \A q : CompileOf(q, v, f) => q.type = "compile"  BY CompileIs
  <2> QED  BY <1>1, <1>2, <2>1 DEF _plan_compile_rules, CompileOf, TwoStep
<1>7. r \notin _plan_test_rules(p, o, v)
  <2>1. \A j : Chained(p, o, v, j).type = "test"  BY ChainedIs
  <2>2. \A name, ins : Phony(name, ins).type = "phony"  BY DEF Phony, BuildRule
  <2> QED  BY <1>1, <1>2, <2>1, <2>2 DEF _plan_test_rules
<1>8. r \notin {MkDir(Dir("objdir")), MkDir(Dir("bin"))}  BY <1>1, <1>2
<1> QED  BY <1>3, <1>4, <1>5, <1>6, <1>7, <1>8 DEF PlannedRules, src

\* What a rule's command opens is there or is made by another rule.
LEMMA OpensMade ==
  ASSUME NEW v, w \in Worlds, OneExporter, OneInterface, ~ o.managed,
         NEW r \in PlannedRules(p, o, v), NEW z \in r.reads, z[1] # "file"
  PROVE  /\ z[1] # "phony"
         /\ \E y \in DOMAIN build_graph(p, o, v) : y # r.out /\ z \in Outputs(build_graph(p, o, v)[y])
<1>1. PICK g : g = build_graph(p, o, v)  OBVIOUS
<1>2. /\ \A q \in PlannedRules(p, o, v) : q.out \in DOMAIN g
      /\ \A y \in DOMAIN g : g[y] \in PlannedRules(p, o, v) /\ g[y].out = y
  BY <1>1, GraphRules
<1>3. ASSUME NEW y \in DOMAIN g, y[1] # "no marker" PROVE y \in Outputs(g[y])
  <2>1. y # NoMarker
    <3>1. NoMarker[1] = "no marker"  BY DEF NoMarker
    <3> QED  BY <1>3, <3>1, Zenon
  <2>2. g[y].out = y  BY <1>2
  <2> QED  BY <2>1, <2>2 DEF Outputs
<1>4. ASSUME NEW y, Has(v, y), y[1] \notin {"file", "no marker"} PROVE y \in DOMAIN g /\ y \in Outputs(g[y])
  BY <1>2, <1>3, <1>4 DEF Has
<1>5. CASE IsDir(r) \/ IsHeader(r) \/ IsUnit(r) \/ IsPhony(r)
  BY <1>5 DEF IsDir, IsHeader, IsUnit, IsPhony
<1>6. CASE IsProduct(r)
  <2>1. z \in r.ins /\ z[1] \in {"o", "exe", "a", "so", "bin"}  BY <1>6 DEF IsProduct
  <2>2. Has(v, z)  BY <2>1, Supplied
  <2>3. z # r.out
    <3>1. r \in _plan_link_and_publish_rules(p, o, v)  BY <1>6, ProductPlanned
    <3>2. \E type, cas, user, ins : /\ r \in ArtefactRules(o, type, cas, user, ins)
                                    /\ cas[1] \in {"exe", "a", "so"} /\ user[1] = "bin"
                                    /\ \A i \in ins : i[1] \in {"o", "bin"}
      <4>1. \A fs : \A i \in Objects(p, v, fs) : i[1] = "o"  BY DEF Objects, object_pathname
      <4>2. \A kind, f : published(kind, p, f)[1] = "bin"  BY DEF published
      <4>3. \A i \in library_outputs(p, o) : i[1] = "bin"  BY <4>2 DEF library_outputs, Library
      <4>4. CASE r \in _create_static_library_rule(p, o, v)
        <5>1. PICK cas, user, ins : /\ r \in ArtefactRules(o, "static_library", cas, user, ins)
                                    /\ cas = <<"a", Library("a", p, o.static), ins>>
                                    /\ user = Library("a", p, o.static)
                                    /\ ins = Objects(p, v, Needed(p, o.static))
          BY <4>4 DEF _create_static_library_rule
        <5>2. cas[1] = "a" /\ user[1] = "bin"  BY <4>2, <5>1 DEF Library
        <5> QED  BY <4>1, <5>1, <5>2
      <4>5. CASE r \in _create_shared_library_rule(p, o, v)
        <5>1. PICK cas, user, ins : /\ r \in ArtefactRules(o, "shared_library", cas, user, ins)
                                    /\ cas = <<"so", Library("so", p, o.dynamic), ins, v[ENV]>>
                                    /\ user = Library("so", p, o.dynamic)
                                    /\ ins = Objects(p, v, Needed(p, o.dynamic))
          BY <4>5 DEF _create_shared_library_rule
        <5>2. cas[1] = "so" /\ user[1] = "bin"  BY <4>2, <5>1 DEF Library
        <5> QED  BY <4>1, <5>1, <5>2
      <4>6. CASE \E f \in Targets(o) : r \in _create_link_rule(p, o, v, f, library_outputs(p, o))
        <5>1. PICK f, cas, user, ins :
                   /\ r \in ArtefactRules(o, "link", cas, user, ins)
                   /\ cas = link_key(p, v, f, library_outputs(p, o)) /\ user = executable_pathname(p, f)
                   /\ ins = Objects(p, v, p.required[f]) \cup library_outputs(p, o)
          BY <4>6 DEF _create_link_rule
        <5>2. cas[1] = "exe" /\ user[1] = "bin"  BY <4>2, <5>1 DEF link_key, executable_pathname
        <5> QED  BY <4>1, <4>3, <5>1, <5>2
      <4> QED  BY <3>1, <4>4, <4>5, <4>6 DEF _plan_link_and_publish_rules
    <3>3. PICK type, cas, user, ins : /\ r \in ArtefactRules(o, type, cas, user, ins)
                                      /\ cas[1] \in {"exe", "a", "so"} /\ user[1] = "bin"
                                      /\ \A i \in ins : i[1] \in {"o", "bin"}
      BY <3>2
    <3>4. r = BuildRule(type, cas, ins, {Bucket(cas)}, ins) \/ r = _build_publish_rule(cas, user)
      BY <1>6, <3>3 DEF ArtefactRules, IsProduct, MkDir, BuildRule, CAS_LINKED_TYPES, CAS_PRODUCER_TYPES
    <3>5. (r.out = cas /\ r.ins = ins) \/ (r.out = user /\ r.ins = {cas})
      BY <3>4 DEF BuildRule, _build_publish_rule
    <3> QED  BY <2>1, <3>3, <3>5
  <2> QED  BY <1>1, <1>4, <2>1, <2>2, <2>3
<1>7. CASE IsTest(r, v)
  <2>1. PICK j \in DOMAIN o.tests : r = Chained(p, o, v, j)  BY <1>7 DEF IsTest
  <2>2. z = executable_pathname(p, o.tests[j])  BY <2>1, ChainedIs
  <2>3. z[1] = "bin"  BY <2>2 DEF executable_pathname, published
  <2>4. o.tests[j] \in Targets(o)  BY DEF Targets, Range
  <2>5. Has(v, z)  BY <2>2, <2>4, HasLinks
  <2>6. r.out[1] \in {"xml", "result"}
    <3>1. \A e : _xml_path_for(e)[1] = "xml"  BY DEF _xml_path_for
    <3>2. \A h : _result_marker_path(p, o, v, h)[1] = "result"  BY DEF _result_marker_path, Beside
    <3> QED  BY <2>1, <3>1, <3>2, ChainedIs
  <2> QED  BY <1>1, <1>4, <2>3, <2>5, <2>6
<1>8. CASE IsObject(r, v) \/ IsInterface(r, v)
  <2>1. PICK f \in src : CompileOf(r, v, f)
    BY <1>8 DEF IsObject, IsInterface, CompileOf
  <2>2. \/ r.out = object_pathname(p, v, f)
        \/ TwoStep(f) /\ r.out = bmi_path(p, o, v, f, Interface(f)) /\ r.out[1] = "pcm"
    BY <2>1, CompileIs
  <2>3. r.out[1] \in {"o", "pcm"}  BY <2>2 DEF object_pathname
  <2>4. (z \in r.ins /\ z[1] \in {"gch", "pcm"}) \/ z \in Opened(p, o, v, src, f)
    BY <2>1, CompileIs
  <2>5. CASE z \in r.ins /\ z[1] \in {"gch", "pcm"}
    <3>1. Has(v, z)  BY <2>5, Supplied
    <3>2. z # r.out
      <4>1. z \notin Wired(v, f) \/ z # r.out
        <5> SUFFICES ASSUME z \in Wired(v, f), z = r.out PROVE FALSE  OBVIOUS
        <5>1. z[1] = "pcm"  BY <2>3, <2>5
        <5>2. z # object_pathname(p, v, f)  BY <5>1 DEF object_pathname
        <5>3. TwoStep(f) /\ z = bmi_path(p, o, v, f, Interface(f))  BY <2>2, <5>2
        <5>4. r \in _create_clang_module_interface_rules(p, o, v, src, f)  BY <2>1, <5>3 DEF CompileOf
        <5>5. \/ r.out = bmi_path(p, o, v, f, Interface(f))
                 /\ r.ins = (Files(p, f) \cup Wired(v, f)) \ {bmi_path(p, o, v, f, Interface(f))}
              \/ r.out = object_pathname(p, v, f)
          BY <5>4 DEF _create_clang_module_interface_rules, BuildRule, Interface, Wired
        <5>6. z \notin r.ins  BY <5>2, <5>3, <5>5
        <5> QED  BY <2>5, <5>6
      <4>2. \A h : _gch_path(o, h)[1] = "gch"  BY DEF _gch_path
      <4> QED  BY <2>1, <2>3, <2>5, <4>1, <4>2, CompileWaits
    <3> QED  BY <1>1, <1>4, <2>5, <3>1, <3>2
  <2>6. CASE z \in Opened(p, o, v, src, f)
    <3>1. \A m \in ImportClosure(p, src, f) : m \in Exported(p, src) /\ m \notin p.exports[f]
      BY DEF ImportClosure
    <3>2. \/ \E m \in ImportClosure(p, src, f) : z = bmi_path(p, o, v, Exporter(p, src, m), m)
          \/ \E h \in {f} \cup {Exporter(p, src, m) : m \in ImportClosure(p, src, f)} :
               \E t \in UnitsOf(h) : z = _header_unit_destination(o, t)
      BY <2>6 DEF Opened, UnitsOf
    <3>3. ASSUME NEW h \in {f} \cup {Exporter(p, src, m) : m \in ImportClosure(p, src, f)},
                 NEW t \in UnitsOf(h), z = _header_unit_destination(o, t)
          PROVE  z[1] = "hu" /\ Has(v, z)
      <4>1. h \in src  BY <3>1, Exports
      <4>2. t \in HeaderUnits(p, src)  BY <4>1 DEF UnitsOf, HeaderUnits, Below
      <4>3. z[1] = "hu"  BY <3>3 DEF _header_unit_destination
      <4> QED  BY <3>3, <4>2, <4>3, HasParts
    <3>4. ASSUME NEW m \in ImportClosure(p, src, f), z = bmi_path(p, o, v, Exporter(p, src, m), m)
          PROVE  /\ z[1] \in {"pcm", "gcm"}
                 /\ Target(v, m) \in DOMAIN g /\ Target(v, m) # r.out /\ z \in Outputs(g[Target(v, m)])
      <4>1. PICK e : e = Exporter(p, src, m)  OBVIOUS
      <4>2. e \in src /\ m \in p.exports[e]  BY <3>1, <4>1, Exports
      <4>3. PICK y : y = Target(v, m)  OBVIOUS
      <4>4. y \in DOMAIN g /\ CompileOf(g[y], v, e) /\ y[1] \in {"o", "pcm"}
        BY <1>1, <3>1, <4>1, <4>3, TargetsMade
      <4>5. y = IF o.kind = "clang" THEN bmi_path(p, o, v, e, m) ELSE object_pathname(p, v, e)
        BY <3>1, <4>1, <4>3 DEF Target, target_map
      <4>6. z[1] \in {"pcm", "gcm"}  BY <3>4 DEF bmi_path
      <4>7. e # f  BY <3>1, <4>2
      <4>8. y # r.out
        <5>1. CASE o.kind = "clang"
          <6>1. y[1] = "pcm" /\ y[2] = m  BY <4>5, <5>1 DEF bmi_path
          <6>2. ASSUME TwoStep(f), r.out = bmi_path(p, o, v, f, Interface(f)) PROVE r.out # y
            <7>1. r.out[2] = Interface(f)  BY <6>2 DEF bmi_path
            <7>2. Interface(f) \in p.exports[f]  BY <6>2 DEF TwoStep, Interface
            <7> QED  BY <3>1, <6>1, <7>1, <7>2
          <6>3. object_pathname(p, v, f)[1] = "o"  BY DEF object_pathname
          <6> QED  BY <2>2, <6>1, <6>2, <6>3
        <5>2. CASE o.kind # "clang"
          <6>1. r.out = object_pathname(p, v, f)  BY <2>2, <5>2 DEF TwoStep
          <6> QED  BY <4>5, <4>7, <5>2, <6>1 DEF object_pathname
        <5> QED  BY <5>1, <5>2
      <4>9. z \in Outputs(g[y])
        <5>1. CASE o.kind = "clang"
          <6>1. z = y  BY <3>4, <4>1, <4>5, <5>1
          <6> QED  BY <1>3, <4>4, <6>1
        <5>2. CASE o.kind # "clang"
          <6>1. g[y] = _create_compile_rule(p, o, v, src, e)  BY <4>4, <5>2 DEF CompileOf, TwoStep
          <6>2. z \in g[y].beside  BY <3>4, <4>1, <4>2, <6>1 DEF _create_compile_rule, BuildRule
          <6> QED  BY <6>2 DEF Outputs
        <5> QED  BY <5>1, <5>2
      <4> QED  BY <4>3, <4>4, <4>6, <4>8, <4>9
    <3>5. CASE z[1] = "hu" /\ Has(v, z)
      <4>1. z # r.out  BY <2>3, <3>5
      <4> QED  BY <1>1, <1>4, <3>5, <4>1
    <3> QED  BY <1>1, <3>2, <3>3, <3>4, <3>5
  <2> QED  BY <2>4, <2>5, <2>6
<1> QED  BY <1>5, <1>6, <1>7, <1>8, Kinds

\* The .gcm files that gcc writes beside an object.
Gcms(x) ==
  IF o.kind = "clang" THEN {}
  ELSE {<<"gcm", m, IF o.cas_pcmdir THEN x[3] ELSE {}>> : m \in p.exports[x[2]]}

\* What a rule writes beside what the tool looks for are the .gcm files of an object.
Thorough(r) ==
  /\ Declared(r) \subseteq Outputs(r)
  /\ r.type = "symlink" => Outputs(r) = {r.out}
  /\ r.type = "mkdir" => r.out[1] # "o"
  /\ \A z \in Outputs(r) : z \in Declared(r) \/ (z \in Gcms(r.out) /\ r.out[1] = "o" /\ r.type = "compile")
  /\ \A z \in Outputs(r) : z[1] = "o" => Gcms(z) \subseteq Outputs(r)
  /\ r.type = "test" => \A z \in Outputs(r) : z[1] \in {"xml", "result"}

LEMMA RulesThorough ==
  ASSUME NEW v, NEW r \in PlannedRules(p, o, v)
  PROVE  Thorough(r)
<1>1. NoMarker[1] = "no marker"  BY DEF NoMarker
<1>2. ASSUME r.out[1] \notin {"o", "no marker"}, r.marker \in {NoMarker, r.out}, r.beside = {}, r.type # "test"
      PROVE  Thorough(r)
  <2>1. r.out # NoMarker  BY <1>1, <1>2, Zenon
  <2>2. Outputs(r) = {r.out}  BY <1>2, <2>1 DEF Outputs
  <2>3. Declared(r) = {r.out}  BY <1>2 DEF Declared
  <2> QED  BY <1>2, <2>2, <2>3 DEF Thorough
<1>3. CASE IsDir(r) \/ IsHeader(r) \/ IsUnit(r) \/ IsPhony(r)
  BY <1>2, <1>3 DEF IsDir, IsHeader, IsUnit, IsPhony, Bare
<1>4. CASE IsProduct(r)
  BY <1>2, <1>4 DEF IsProduct, Bare, CAS_LINKED_TYPES, CAS_PRODUCER_TYPES
<1>5. CASE IsTest(r, v)
  <2>1. PICK j \in DOMAIN o.tests : r = Chained(p, o, v, j)  BY <1>5 DEF IsTest
  <2>2. r.type = "test" /\ r.beside = {}  BY <2>1, ChainedIs
  <2>3. r.out[1] \in {"xml", "result"} /\ r.marker[1] = "result"
    <3>1. \A e : _xml_path_for(e)[1] = "xml"  BY DEF _xml_path_for
    <3>2. \A h : _result_marker_path(p, o, v, h)[1] = "result"  BY DEF _result_marker_path, Beside
    <3> QED  BY <2>1, <3>1, <3>2, ChainedIs
  <2>4. r.out # NoMarker /\ r.marker # NoMarker  BY <1>1, <2>3, Zenon
  <2>5. Outputs(r) = {r.out, r.marker} /\ Declared(r) = {r.out, r.marker}
    BY <2>2, <2>4 DEF Outputs, Declared
  <2> QED  BY <2>2, <2>3, <2>5 DEF Thorough
<1>6. CASE IsObject(r, v)
  <2>1. PICK f \in src : ~ TwoStep(f) /\ r = _create_compile_rule(p, o, v, src, f)
    BY <1>6 DEF IsObject
  <2>2. /\ r.type = "compile" /\ r.marker = NoMarker /\ r.out = object_pathname(p, v, f)
        /\ r.beside = {bmi_path(p, o, v, f, m) : m \in p.exports[f]}
    BY <2>1 DEF _create_compile_rule, BuildRule
  <2>3. r.out[1] = "o" /\ r.out[2] = f /\ r.out[3] = Text(p, v, f)  BY <2>2 DEF object_pathname
  <2>4. r.beside = Gcms(r.out)
    <3>1. CASE o.kind = "clang"
      <4>1. p.exports[f] = {}  BY <2>1, <3>1 DEF TwoStep
      <4> QED  BY <2>2, <3>1, <4>1 DEF Gcms
    <3>2. CASE o.kind # "clang"
      <4>1. \A m : bmi_path(p, o, v, f, m) = <<"gcm", m, IF o.cas_pcmdir THEN r.out[3] ELSE {}>>
        BY <2>3, <3>2 DEF bmi_path
      <4> QED  BY <2>2, <2>3, <3>2, <4>1 DEF Gcms
    <3> QED  BY <3>1, <3>2
  <2>5. \A z \in Gcms(r.out) : z[1] = "gcm"  BY DEF Gcms
  <2>6. r.out # NoMarker  BY <1>1, <2>3, Zenon
  <2>7. Outputs(r) = {r.out} \cup Gcms(r.out) /\ Declared(r) = {r.out}
    BY <2>2, <2>4, <2>6 DEF Outputs, Declared
  <2> QED  BY <2>2, <2>3, <2>5, <2>7 DEF Thorough
<1>7. CASE IsInterface(r, v)
  <2>1. PICK f \in src : TwoStep(f) /\ r \in _create_clang_module_interface_rules(p, o, v, src, f)
    BY <1>7 DEF IsInterface
  <2>2. r.type = "compile" /\ r.marker = NoMarker /\ r.beside = {}
        /\ (r.out = object_pathname(p, v, f) \/ r.out = bmi_path(p, o, v, f, Interface(f)))
    BY <2>1 DEF _create_clang_module_interface_rules, BuildRule, Interface
  <2>3. r.out[1] \in {"o", "pcm"}  BY <2>1, <2>2 DEF TwoStep, bmi_path, object_pathname
  <2>4. r.out # NoMarker  BY <1>1, <2>3, Zenon
  <2>5. Outputs(r) = {r.out} /\ Declared(r) = {r.out}
    BY <2>2, <2>4 DEF Outputs, Declared
  <2>6. \A z : Gcms(z) = {}  BY <2>1 DEF TwoStep, Gcms
  <2> QED  BY <2>2, <2>5, <2>6 DEF Thorough
<1> QED  BY <1>3, <1>4, <1>5, <1>6, <1>7, Kinds

\* A script whose rules wait for files and each other, and open what is there or what
\* others make.
Complete(G) ==
  \A x \in DOMAIN G :
    /\ \A i \in Waits(G[x]) : i[1] = "file" \/ i \in DOMAIN G
    /\ \A z \in G[x].reads : z[1] = "file" \/ (z[1] # "phony" /\ \E y \in DOMAIN G \ {x} : z \in Outputs(G[y]))
    /\ Thorough(G[x]) /\ G[x].out = x
    /\ G[x].type = "phony" => \A z \in Outputs(G[x]) : z[1] = "phony"

LEMMA PlanComplete ==
  ASSUME NEW v, w \in Worlds, OneExporter, OneInterface, ~ o.managed
  PROVE  Complete(_write_makefile(build_graph(p, o, v)))
<1>1. PICK g : g = build_graph(p, o, v)  OBVIOUS
<1>2. PICK G : G = _write_makefile(g)  OBVIOUS
<1>3. /\ \A r \in PlannedRules(p, o, v) : r.out \in DOMAIN g
      /\ \A d \in DOMAIN g : g[d] \in PlannedRules(p, o, v) /\ g[d].out = d
  BY <1>1, GraphRules
<1>4. DOMAIN G = DOMAIN g /\ \A d \in DOMAIN G : G[d] = Line(g[d])
  BY <1>2 DEF _write_makefile
<1>5. ASSUME NEW d \in DOMAIN G
      PROVE  /\ G[d].out = d /\ G[d].type = g[d].type /\ G[d].marker = g[d].marker
             /\ G[d].beside = g[d].beside /\ G[d].reads = g[d].reads
             /\ Waits(G[d]) \subseteq g[d].ins \cup g[d].order
  <2>1. PICK r : r = g[d]  OBVIOUS
  <2>2. r \in PlannedRules(p, o, v) /\ r.out = d /\ G[d] = Line(r)  BY <1>3, <1>4, <2>1
  <2>3. Shaped(r)  BY <2>2, Shape
  <2>4. /\ Line(r).out = r.out /\ Line(r).type = r.type /\ Line(r).marker = r.marker
        /\ Line(r).beside = r.beside /\ Line(r).reads = r.reads
        /\ Line(r).ins = Prerequisites(o, r) /\ Line(r).order = OrderOnly(o, r)
    BY <2>3 DEF Line, Shaped
  <2>5. Waits(Line(r)) \subseteq r.ins \cup r.order
    BY <2>4 DEF Waits, Prerequisites, OrderOnly, cas_demoted_order_only
  <2> QED  BY <2>1, <2>2, <2>4, <2>5
<1>6. \A d \in DOMAIN G : Outputs(G[d]) = Outputs(g[d]) /\ Declared(G[d]) = Declared(g[d])
  BY <1>3, <1>4, <1>5 DEF Outputs, Declared
<1>7. ASSUME NEW x \in DOMAIN G
      PROVE  /\ \A i \in Waits(G[x]) : i[1] = "file" \/ i \in DOMAIN G
             /\ \A z \in G[x].reads :
                  z[1] = "file" \/ (z[1] # "phony" /\ \E y \in DOMAIN G \ {x} : z \in Outputs(G[y]))
             /\ Thorough(G[x]) /\ G[x].out = x
             /\ G[x].type = "phony" => \A z \in Outputs(G[x]) : z[1] = "phony"
  <2>1. PICK r : r = g[x]  OBVIOUS
  <2>2. r \in PlannedRules(p, o, v) /\ r.out = x  BY <1>3, <1>4, <2>1
  <2>3. ASSUME NEW i \in Waits(G[x]) PROVE i[1] = "file" \/ i \in DOMAIN G
    <3>1. i \in r.ins \cup r.order  BY <1>5, <2>1
    <3>2. Has(v, i)  BY <2>2, <3>1, Supplied
    <3> QED  BY <1>3, <1>4, <3>2 DEF Has
  <2>4. ASSUME NEW z \in G[x].reads, z[1] # "file"
        PROVE  z[1] # "phony" /\ \E y \in DOMAIN G \ {x} : z \in Outputs(G[y])
    <3>1. z \in r.reads  BY <1>5, <2>1
    <3>2. z[1] # "phony" /\ \E y \in DOMAIN g : y # x /\ z \in Outputs(g[y])
      BY <1>1, <2>2, <2>4, <3>1, OpensMade
    <3> QED  BY <1>4, <1>6, <3>2
  <2>5. Thorough(G[x])
    <3>1. Thorough(r)  BY <2>2, RulesThorough
    <3> QED  BY <1>5, <1>6, <2>1, <2>2, <3>1 DEF Thorough
  <2>6. ASSUME r.type = "phony" PROVE \A z \in Outputs(r) : z[1] = "phony"
    <3>1. ~ IsTest(r, v) /\ ~ IsObject(r, v) /\ ~ IsInterface(r, v)
      <4>1. \A f \in src : \A q : CompileOf(q, v, f) => q.type = "compile"  BY CompileIs
      <4> QED  BY <2>6, <4>1, ChainedIs DEF IsTest, IsObject, IsInterface, CompileOf
    <3>2. IsPhony(r)
      BY <2>2, <2>6, <3>1, Kinds DEF IsDir, IsHeader, IsUnit, IsProduct, CAS_LINKED_TYPES, CAS_PRODUCER_TYPES
    <3> QED  BY <3>2 DEF IsPhony, Bare, Outputs
  <2> QED  BY <1>5, <1>6, <2>1, <2>3, <2>4, <2>5, <2>6
<1> HIDE DEF Thorough
<1>8. Complete(G)  BY <1>7 DEF Complete
<1> QED  BY <1>1, <1>2, <1>8
------------------------------------------------------------------------------
(* Builds go well                                                           *)

\* An object is there with its .gcm files, but for those that were trimmed, and what
\* is done has left what the tool looks for.
Accompanied == \A x \in DOMAIN disk : x[1] = "o" => Gcms(x) \subseteq DOMAIN disk \cup trimmed
Left == phase = "native" =>
          \A x \in DOMAIN st : Rule(x).type = "phony" \/ Declared(Rule(x)) \subseteq DOMAIN disk
Staged ==
  /\ phase # "prebuild" /\ running \cap DOMAIN st = {}
  /\ phase # "native" => running = {}
  /\ phase = "planned" => DOMAIN st = {}
Excused == why # "no rule" /\ (why = "missing" => \E x \in trimmed : x[1] = "gcm")
Whole   == ~ o.managed /\ ~ o.only
WellInv == Whole => Complete(script.g) /\ Accompanied /\ Left /\ Staged /\ Excused

LEMMA InitWell ==
  ASSUME Init
  PROVE  WellInv
<1>1. /\ script.g = << >> /\ disk = << >> /\ phase = "idle" /\ running = {} /\ why = "none"
  BY DEF Init, NoScript
<1>2. DOMAIN script.g = {} /\ DOMAIN disk = {}  BY <1>1
<1> QED  BY <1>1, <1>2 DEF WellInv, Complete, Accompanied, Left, Staged, Excused

LEMMA CompleteKept ==
  ASSUME NEW G, Complete(G), w' = w
  PROVE  Complete(G)'
<1>1. \A r : Outputs(r)' = Outputs(r) /\ Declared(r)' = Declared(r)  BY DEF Outputs, Declared, NoMarker
<1>2. \A x : Gcms(x)' = Gcms(x)  BY DEF Gcms, o, p
<1>3. \A r : Thorough(r)' <=> Thorough(r)  BY <1>2 DEF Thorough, Outputs, Declared
<1> HIDE DEF Thorough, Outputs, Waits
<1> QED  BY <1>3 DEF Complete, Waits, Outputs

LEMMA ScriptKept ==
  ASSUME Complete(script.g), w' = w, script' = script
  PROVE  Complete(script.g)'
<1>1. PICK G : G = script.g  OBVIOUS
<1>2. Complete(G)  BY <1>1
<1>3. Complete(G)'  BY <1>2, CompleteKept
<1>4. script'.g = G  BY <1>1
<1> QED  BY <1>3, <1>4 DEF Complete, Waits

\* What leaves alone what the invariant speaks of.
LEMMA WellKept ==
  ASSUME WellInv, w' = w, script' = script, disk' = disk, trimmed' = trimmed, st' = st,
         phase' = phase \/ (phase' = "idle" /\ running' = {}), running' \subseteq running,
         why' = why \/ why' \notin {"no rule", "missing"}
  PROVE  WellInv'
<1> SUFFICES ASSUME Whole
             PROVE  (Complete(script.g) /\ Accompanied /\ Left /\ Staged /\ Excused)'
  BY DEF WellInv, Whole, o
<1>1. Complete(script.g) /\ Accompanied /\ Left /\ Staged /\ Excused  BY DEF WellInv
<1>2. Complete(script.g)'
  BY <1>1, ScriptKept
<1>3. Accompanied'  BY <1>1 DEF Accompanied, Gcms, o, p
<1>4. Left'  BY <1>1 DEF Left, Rule
<1>5. Staged'  BY <1>1 DEF Staged
<1>6. Excused'  BY <1>1 DEF Excused
<1> QED  BY <1>2, <1>3, <1>4, <1>5, <1>6

LEMMA TrimWell ==
  ASSUME WellInv, NEW x \in DOMAIN disk, Trim(x)
  PROVE  WellInv'
<1> SUFFICES ASSUME Whole
             PROVE  (Complete(script.g) /\ Accompanied /\ Left /\ Staged /\ Excused)'
  BY DEF WellInv, Whole, o, Trim
<1>1. Complete(script.g) /\ Accompanied /\ Left /\ Staged /\ Excused  BY DEF WellInv
<1>2. /\ w' = w /\ script' = script /\ st' = st /\ phase' = phase /\ running' = running
      /\ phase = "idle" /\ trimmed' = trimmed \cup {x} /\ why' = "none"
      /\ disk' = Restrict(disk, DOMAIN disk \ {x, Beside(x)})
  BY DEF Trim, Idle
<1>3. DOMAIN disk' = DOMAIN disk \ {x, Beside(x)}  BY <1>2 DEF Restrict
<1>4. Complete(script.g)'
  BY <1>1, <1>2, ScriptKept
<1>5. Accompanied'
  <2>1. \A y : Gcms(y)' = Gcms(y)  BY <1>2 DEF Gcms, o, p
  <2>2. \A y : \A z \in Gcms(y) : z[1] = "gcm"  BY DEF Gcms
  <2>3. Beside(x)[1] = "result"  BY DEF Beside
  <2>4. ASSUME NEW y \in DOMAIN disk', y[1] = "o", NEW z \in Gcms(y)
        PROVE  z \in DOMAIN disk' \cup trimmed'
    <3>1. z \in DOMAIN disk \cup trimmed  BY <1>1, <1>3, <2>4 DEF Accompanied
    <3>2. z # Beside(x)  BY <2>2, <2>3
    <3> QED  BY <1>2, <1>3, <3>1, <3>2
  <2> QED  BY <2>1, <2>4 DEF Accompanied
<1>6. (Left /\ Staged /\ Excused)'  BY <1>1, <1>2 DEF Left, Staged, Excused
<1> QED  BY <1>4, <1>5, <1>6

LEMMA GenerateWell ==
  ASSUME PlanInv, WellInv, Generate
  PROVE  WellInv'
<1> SUFFICES ASSUME Whole
             PROVE  (Complete(script.g) /\ Accompanied /\ Left /\ Staged /\ Excused)'
  BY DEF WellInv, Whole, o, Generate, tree
<1>1. Complete(script.g) /\ Accompanied /\ Left /\ Staged /\ Excused  BY DEF WellInv
<1>2. /\ w' = w /\ st' = << >> /\ running' = running /\ running = {} /\ phase = "idle"
      /\ trimmed' = trimmed /\ disk' = disk /\ phase' \in {phase, "planned"} /\ why' \in {"collision", "none"}
  BY DEF Generate, tree, saved, Idle
<1>3. DOMAIN st' = {}  BY <1>2
<1>4. Complete(script.g)'
  <2>1. CASE script' = script
    BY <1>1, <1>2, <2>1, ScriptKept
  <2>2. CASE script' # script
    <3>1. script'.g = _write_makefile(_apply_build_only_changed(build_graph(p, o, ver)))
      BY <2>2 DEF Generate
    <3>2. script'.g = _write_makefile(build_graph(p, o, ver))
      BY <3>1 DEF _apply_build_only_changed, Selected, Whole
    <3>3. OneExporter /\ OneInterface
      BY ModulesAssumption DEF PlanInv, OneExporter, OneInterface, src, p, o
    <3>4. PICK G : G = _write_makefile(build_graph(p, o, ver))  OBVIOUS
    <3>5. Complete(G)  BY <3>3, <3>4, PlanComplete DEF PlanInv, Whole
    <3>6. script'.g = G  BY <3>2, <3>4
    <3>7. Complete(G)'  BY <1>2, <3>5, CompleteKept
    <3> QED  BY <3>6, <3>7 DEF Complete, Thorough, Gcms, o, p
  <2> QED  BY <2>1, <2>2
<1>5. Accompanied'  BY <1>1, <1>2 DEF Accompanied, Gcms, o, p
<1>6. (Left /\ Staged /\ Excused)'  BY <1>1, <1>2, <1>3 DEF Left, Staged, Excused
<1> QED  BY <1>4, <1>5, <1>6

LEMMA ExecuteWell ==
  ASSUME WellInv, NEW long, Execute(long)
  PROVE  WellInv'
<1> SUFFICES ASSUME Whole
             PROVE  (Complete(script.g) /\ Accompanied /\ Left /\ Staged /\ Excused)'
  BY DEF WellInv, Whole, o, Execute
<1>1. Complete(script.g) /\ Accompanied /\ Left /\ Staged /\ Excused  BY DEF WellInv
<1>2. /\ w' = w /\ script' = script /\ st' = st /\ running' = running /\ phase = "planned"
      /\ trimmed' = trimmed /\ disk' = disk /\ phase' \in {"idle", "native"}
  BY DEF Execute, Whole
<1>3. DOMAIN st = {} /\ running = {}  BY <1>1, <1>2 DEF Staged
<1>4. ~ NoRule(script.g)  BY <1>1 DEF Complete, NoRule, Present
<1>5. why' \in {"ok", why}  BY <1>4 DEF Execute
<1>6. Complete(script.g)'  BY <1>1, <1>2, ScriptKept
<1>7. Accompanied'  BY <1>1, <1>2 DEF Accompanied, Gcms, o, p
<1>8. (Left /\ Staged /\ Excused)'  BY <1>1, <1>2, <1>3, <1>5 DEF Left, Staged, Excused
<1> QED  BY <1>6, <1>7, <1>8

LEMMA SettleWell ==
  ASSUME PlanInv, WellInv, Settle
  PROVE  WellInv'
<1> SUFFICES ASSUME Whole
             PROVE  (Complete(script.g) /\ Accompanied /\ Left /\ Staged /\ Excused)'
  BY DEF WellInv, Whole, o, Settle, tree
<1>1. Complete(script.g) /\ Accompanied /\ Left /\ Staged /\ Excused  BY DEF WellInv
<1> DEFINE dirs == {x \in Settled : Rule(x).type = "mkdir" /\ x \notin DOMAIN disk}
<1>2. /\ w' = w /\ script' = script /\ running' = running /\ phase' = phase /\ phase = "native"
      /\ trimmed' = trimmed /\ why' = why /\ st' = Mark(Settled, "kept")
      /\ disk' = With(disk, [x \in dirs |-> [holds |-> {}, id |-> Node(x)]])
  BY DEF Settle, tree, Going
<1>3. DOMAIN st' = DOMAIN st \cup Settled  BY <1>2 DEF Mark
<1>4. DOMAIN disk' = DOMAIN disk \cup dirs
  <2> HIDE DEF dirs
  <2> QED  BY <1>2 DEF With
<1>5. Complete(script.g)'  BY <1>1, <1>2, ScriptKept
<1>6. Settled \subseteq DOMAIN script.g /\ Settled \cap running = {}
  BY DEF Settled, Ready
<1>7. \A x \in Settled : Declared(Rule(x)) \subseteq Outputs(Rule(x)) /\ Rule(x).out = x
  BY <1>1, <1>6 DEF Complete, Thorough, Rule
<1>8. Accompanied'
  <2>1. \A x \in dirs : x[1] # "o"
    <3> SUFFICES ASSUME NEW x \in dirs, x[1] = "o" PROVE FALSE  OBVIOUS
    <3>1. x \in Settled /\ Rule(x).type = "mkdir" /\ Rule(x) = script.g[x] /\ x \in DOMAIN script.g
      BY <1>6 DEF Rule
    <3> QED  BY <3>1, <1>1 DEF Complete, Thorough
  <2> QED  BY <1>1, <1>2, <1>4, <2>1 DEF Accompanied, Gcms, o, p
<1>9. Left'
  <2>1. \A x \in DOMAIN st : Rule(x).type = "phony" \/ Declared(Rule(x)) \subseteq DOMAIN disk
    BY <1>1, <1>2 DEF Left
  <2>2. ASSUME NEW x \in Settled PROVE Rule(x).type = "phony" \/ Declared(Rule(x)) \subseteq DOMAIN disk'
    <3>1. CASE Rule(x).type = "mkdir"
      <4>1. Declared(Rule(x)) = {x}  BY <1>7, <3>1 DEF Declared
      <4> QED  BY <1>4, <3>1, <4>1
    <3>2. CASE Rule(x).type # "mkdir"
      <4>1. ~ OutOfDate(x)  BY <3>2 DEF Settled
      <4> QED  BY <1>4, <4>1 DEF OutOfDate
    <3> QED  BY <3>1, <3>2
  <2>3. \A x : Rule(x)' = Rule(x) /\ Declared(Rule(x))' = Declared(Rule(x))
    BY <1>2 DEF Rule, Declared
  <2> HIDE DEF dirs
  <2> QED  BY <1>3, <1>4, <2>1, <2>2, <2>3 DEF Left
<1>10. Staged'  BY <1>1, <1>2, <1>3, <1>6 DEF Staged
<1>11. Excused'  BY <1>1, <1>2 DEF Excused
<1> QED  BY <1>5, <1>8, <1>9, <1>10, <1>11

LEMMA StartWell ==
  ASSUME WellInv, NEW x \in Runnable, Start(x)
  PROVE  WellInv'
<1> SUFFICES ASSUME Whole
             PROVE  (Complete(script.g) /\ Accompanied /\ Left /\ Staged /\ Excused)'
  BY DEF WellInv, Whole, o, Start, tree
<1>1. Complete(script.g) /\ Accompanied /\ Left /\ Staged /\ Excused  BY DEF WellInv
<1>2. /\ w' = w /\ script' = script /\ running' = running \cup {x} /\ phase' = phase /\ phase = "native"
      /\ trimmed' = trimmed /\ why' = why /\ st' = st /\ disk' = disk
  BY DEF Start, tree, saved, Going
<1>3. x \notin DOMAIN st  BY DEF Runnable, Ready
<1>4. Complete(script.g)'  BY <1>1, <1>2, ScriptKept
<1>5. Accompanied'  BY <1>1, <1>2 DEF Accompanied, Gcms, o, p
<1>6. (Left /\ Staged /\ Excused)'  BY <1>1, <1>2, <1>3 DEF Left, Staged, Excused, Rule
<1> QED  BY <1>4, <1>5, <1>6

\* What a command opens is there, but for a .gcm that was trimmed.
LEMMA ReadsThere ==
  ASSUME PlanInv, Complete(script.g), Accompanied, Left, phase = "native",
         NEW x \in running, NEW z \in Rule(x).reads, ~ Present(z)
  PROVE  z \in trimmed /\ z[1] = "gcm"
<1>1. x \in DOMAIN script.g /\ z[1] # "file" /\ z \notin DOMAIN disk
  BY DEF PlanInv, Orderly, Present
<1>2. z[1] # "phony" /\ \E y \in DOMAIN script.g \ {x} : z \in Outputs(Rule(y))
  BY <1>1 DEF Complete, Rule
<1>3. PICK y \in DOMAIN script.g \ {x} : z \in Outputs(Rule(y))  BY <1>2
<1>4. y \in DOMAIN st
  <2>1. ReadsSettled  BY PlannedSettled
  <2> QED  BY <1>3, <2>1 DEF ReadsSettled
<1>5. Rule(y).type # "phony" /\ Thorough(Rule(y)) /\ Rule(y).out = y
  BY <1>2, <1>3 DEF Complete, Rule
<1>6. Declared(Rule(y)) \subseteq DOMAIN disk  BY <1>4, <1>5 DEF Left
<1>7. z \in Gcms(y) /\ y[1] = "o" /\ Rule(y).type = "compile"
  BY <1>1, <1>3, <1>5, <1>6 DEF Thorough
<1>8. y \in DOMAIN disk
  BY <1>5, <1>6, <1>7 DEF Declared
<1>9. z[1] = "gcm"  BY <1>7 DEF Gcms
<1> QED  BY <1>1, <1>7, <1>8, <1>9 DEF Accompanied

\* A test that fails leaves its report and no marker.
LeftReport(r, n) ==
  /\ DOMAIN disk \subseteq DOMAIN disk' /\ DOMAIN born \subseteq DOMAIN born'
  /\ \A y \in DOMAIN disk' :
       \/ (y \in DOMAIN disk /\ disk'[y] = disk[y])
       \/ /\ y \in Outputs(r) /\ y # r.marker /\ y[1] \in {"xml", "result"}
          /\ disk'[y].id = n /\ n \in DOMAIN born'
  /\ \A m \in DOMAIN born' : (m = n /\ born'[m] = clock) \/ (m \in DOMAIN born /\ born'[m] = born[m])

LEMMA FailedIs ==
  ASSUME NEW r, Thorough(r), ~ Missing(r), Bad(r), Ran(r), NEW n, n = Node(r.out)
  PROVE  why' = "test failed" /\ why' # "ok" /\ LeftReport(r, n)
<1>1. PICK d : d = [holds |-> Image(r), id |-> n]  OBVIOUS
<1>2. PICK outs : outs = Outputs(r) \ {r.marker}  OBVIOUS
<1>3. r.type = "test"  BY DEF Bad
<1>4. Made(r) = [x \in outs |-> d]  BY <1>1, <1>2, <1>3 DEF Made, Leaves
<1>5. d.id = n  BY <1>1
<1>6. /\ disk' = With(Made(r), disk)
      /\ born' = With([x \in {Made(r)[y].id : y \in DOMAIN Made(r)} |-> clock], born)
      /\ why' = "test failed"
  BY DEF Ran
<1>7. /\ DOMAIN disk' = outs \cup DOMAIN disk
      /\ \A y \in DOMAIN disk' : IF y \in outs THEN disk'[y] = d ELSE disk'[y] = disk[y]
  BY <1>4, <1>6 DEF With
<1>8. PICK ids : ids = {Made(r)[y].id : y \in DOMAIN Made(r)}  OBVIOUS
<1>9. (\A m \in ids : m = n) /\ \A y \in outs : n \in ids  BY <1>4, <1>5, <1>8
<1>10. born' = With([x \in ids |-> clock], born)  BY <1>6, <1>8
<1>11. /\ DOMAIN born' = ids \cup DOMAIN born
       /\ \A m \in DOMAIN born' : IF m \in ids THEN born'[m] = clock ELSE born'[m] = born[m]
  BY <1>10 DEF With
<1>12. \A y \in outs : y \in Outputs(r) /\ y # r.marker /\ y[1] \in {"xml", "result"}
  BY <1>2, <1>3 DEF Thorough
<1> QED  BY <1>5, <1>6, <1>7, <1>9, <1>11, <1>12 DEF LeftReport

LEMMA FinishWell ==
  ASSUME PlanInv, WellInv, NEW x \in running, Finish(x)
  PROVE  WellInv'
<1> SUFFICES ASSUME Whole
             PROVE  (Complete(script.g) /\ Accompanied /\ Left /\ Staged /\ Excused)'
  BY DEF WellInv, Whole, o, Finish, tree
<1>1. Complete(script.g) /\ Accompanied /\ Left /\ Staged /\ Excused  BY DEF WellInv
<1>2. /\ w' = w /\ script' = script /\ running' = running \ {x} /\ phase' = phase
      /\ trimmed' = trimmed /\ Ran(Rule(x))
      /\ st' = IF ~ Missing(Rule(x)) /\ ~ Bad(Rule(x)) THEN Mark({x}, "made") ELSE st
  BY DEF Finish, tree
<1>3. phase = "native"  BY <1>1 DEF Staged
<1>4. x \in DOMAIN script.g /\ Thorough(Rule(x)) /\ Rule(x).out = x
  BY <1>1 DEF PlanInv, Orderly, Complete, Rule
<1>5. Complete(script.g)'  BY <1>1, <1>2, ScriptKept
<1>6. \A y : Rule(y)' = Rule(y) /\ Declared(Rule(y))' = Declared(Rule(y)) /\ Gcms(y)' = Gcms(y)
  BY <1>2 DEF Rule, Declared, Gcms, o, p
<1>7. DOMAIN Mark({x}, "made") = DOMAIN st \cup {x}  BY DEF Mark
<1>8. Staged'
  BY <1>1, <1>2, <1>3, <1>7 DEF Staged
<1>9. CASE Missing(Rule(x))
  <2>1. why' = "missing" /\ disk' = disk /\ st' = st  BY <1>2, <1>9 DEF Ran
  <2>2. \E z \in trimmed : z[1] = "gcm"
    <3>1. PICK z \in Rule(x).reads : ~ Present(z)  BY <1>9 DEF Missing
    <3> QED  BY <1>1, <1>3, <3>1, ReadsThere
  <2>3. Excused'  BY <1>2, <2>1, <2>2 DEF Excused
  <2>4. Accompanied'  BY <1>1, <1>2, <1>6, <2>1 DEF Accompanied
  <2>5. Left'  BY <1>1, <1>2, <1>6, <2>1 DEF Left
  <2> QED  BY <1>5, <1>8, <2>3, <2>4, <2>5
<1>10. CASE ~ Missing(Rule(x)) /\ Bad(Rule(x))
  <2>1. why' = "test failed" /\ st' = st  BY <1>2, <1>10 DEF Ran
  <2>2. /\ DOMAIN disk \subseteq DOMAIN disk'
        /\ \A y \in DOMAIN disk' : y \in DOMAIN disk \/ y[1] \in {"xml", "result"}
    <3>1. PICK r : r = Rule(x)  OBVIOUS
    <3>2. PICK n : n = Node(r.out)  OBVIOUS
    <3>3. LeftReport(r, n)  BY <1>2, <1>4, <1>10, <3>1, <3>2, FailedIs
    <3> QED  BY <3>3 DEF LeftReport
  <2>3. Accompanied'  BY <1>1, <1>2, <1>6, <2>2 DEF Accompanied
  <2>4. (Left /\ Excused)'  BY <1>1, <1>2, <1>6, <2>1, <2>2 DEF Left, Excused
  <2> QED  BY <1>5, <1>8, <2>3, <2>4
<1>11. CASE ~ Missing(Rule(x)) /\ ~ Bad(Rule(x))
  <2>1. why' = why /\ disk' = With(Made(Rule(x)), disk) /\ DOMAIN st' = DOMAIN st \cup {x}
    BY <1>2, <1>7, <1>11 DEF Ran
  <2>2. DOMAIN disk' = DOMAIN Made(Rule(x)) \cup DOMAIN disk  BY <2>1 DEF With
  <2>3. DOMAIN Made(Rule(x)) = Outputs(Rule(x))
    <3>1. CASE Rule(x).type = "symlink"
      <4>1. DOMAIN Made(Rule(x)) = {Rule(x).out}  BY <3>1 DEF Made
      <4> QED  BY <1>4, <3>1, <4>1 DEF Thorough
    <3>2. CASE Rule(x).type # "symlink"  BY <1>11, <3>2 DEF Made, Leaves
    <3> QED  BY <3>1, <3>2
  <2>4. Accompanied'
    <3>1. ASSUME NEW y \in DOMAIN disk', y[1] = "o" PROVE Gcms(y) \subseteq DOMAIN disk' \cup trimmed
      <4>1. CASE y \in Outputs(Rule(x))  BY <1>4, <2>2, <2>3, <3>1, <4>1 DEF Thorough
      <4>2. CASE y \in DOMAIN disk  BY <1>1, <2>2, <3>1, <4>2 DEF Accompanied
      <4> QED  BY <2>2, <2>3, <4>1, <4>2
    <3> QED  BY <1>2, <1>6, <3>1 DEF Accompanied
  <2>5. Left'
    <3>1. \A y \in DOMAIN st : Rule(y).type = "phony" \/ Declared(Rule(y)) \subseteq DOMAIN disk
      BY <1>1, <1>3 DEF Left
    <3>2. Declared(Rule(x)) \subseteq DOMAIN disk'  BY <1>4, <2>2, <2>3 DEF Thorough
    <3> QED  BY <1>6, <2>1, <2>2, <3>1, <3>2 DEF Left
  <2>6. Excused'  BY <1>1, <1>2, <2>1 DEF Excused
  <2> QED  BY <1>5, <1>8, <2>4, <2>5, <2>6
<1> QED  BY <1>9, <1>10, <1>11

LEMMA SucceedWell ==
  ASSUME PlanInv, WellInv, Succeed
  PROVE  WellInv'
<1> SUFFICES ASSUME Whole
             PROVE  WellInv'
  BY DEF WellInv, Whole, o, Succeed
<1>1. Complete(script.g) /\ Accompanied /\ Left /\ Staged /\ Excused  BY DEF WellInv
<1>2. /\ w' = w /\ script' = script /\ running' = running /\ phase' = "idle"
      /\ trimmed' = trimmed /\ why' = "ok" /\ st' = st /\ disk' = disk
      /\ phase = "prebuild" \/ DOMAIN st = DOMAIN script.g
  BY DEF Succeed
<1>3. running = {}
  <2>1. running \subseteq DOMAIN script.g  BY DEF PlanInv, Orderly
  <2> QED  BY <1>1, <1>2, <2>1 DEF Staged
<1> QED  BY <1>1, <1>2, <1>3, WellKept

LEMMA WellStep ==
  ASSUME PlanInv, WellInv, [Next]_vars
  PROVE  WellInv'
<1>1. ASSUME NEW f \in DOMAIN ver, Edit(f) PROVE WellInv'  BY <1>1, WellKept DEF Edit
<1>2. ASSUME NEW x \in DOMAIN disk, Trim(x) PROVE WellInv'  BY <1>2, TrimWell
<1>3. CASE Generate  BY <1>3, GenerateWell
<1>4. ASSUME NEW long \in BOOLEAN, Execute(long) PROVE WellInv'  BY <1>4, ExecuteWell
<1>5. CASE Prebuild
  <2>1. w' = w /\ phase = "prebuild"  BY <1>5 DEF Prebuild, tree
  <2> QED  BY <2>1 DEF WellInv, Whole, Staged, o
<1>6. CASE Settle  BY <1>6, SettleWell
<1>7. CASE Succeed  BY <1>7, SucceedWell
<1>8. CASE Fail  BY <1>8, WellKept DEF Fail, tree, saved
<1>9. ASSUME NEW x \in Runnable, Start(x) PROVE WellInv'  BY <1>9, StartWell
<1>10. ASSUME NEW x \in running, Finish(x) PROVE WellInv'  BY <1>10, FinishWell
<1>11. CASE Interrupt  BY <1>11, WellKept DEF Interrupt, saved
<1>12. CASE UNCHANGED vars  BY <1>12, WellKept DEF vars, tree, saved
<1> QED
  BY <1>1, <1>2, <1>3, <1>4, <1>5, <1>6, <1>7, <1>8, <1>9, <1>10, <1>11, <1>12 DEF Next, Proceed

\* Where make or ninja build the whole graph, a build finds what its commands open and
\* a rule for what they wait for, whatever was edited, trimmed or killed before, unless
\* a .gcm that no rule makes was trimmed.
THEOREM NativeBuildsGoWell ==
  Spec => [](~ o.managed /\ ~ o.only => BuildsGoWell)
<1>1. Init => PlanInv /\ WellInv  BY InitPlanned, InitWell
<1>2. (PlanInv /\ WellInv) /\ [Next]_vars => (PlanInv /\ WellInv)'  BY PlanStep, WellStep
<1>3. PlanInv /\ WellInv => (~ o.managed /\ ~ o.only => BuildsGoWell)
  BY DEF WellInv, Whole, Excused, BuildsGoWell
<1> QED  BY <1>1, <1>2, <1>3, PTL DEF Spec
------------------------------------------------------------------------------
(* A plan depends on the versions of the sources and of what is below them  *)

lib    == library_outputs(p, o)
Key(f) == link_key(p, ver, f, lib)
Bin(f) == executable_pathname(p, f)

Alike(v, u) == v[ENV] = u[ENV] /\ \A f \in src : Text(p, v, f) = Text(p, u, f)

LEMMA AlikeCompiles ==
  ASSUME NEW v, NEW u, Alike(v, u), OneExporter
  PROVE  /\ \A fs \in SUBSET src : Objects(p, v, fs) = Objects(p, u, fs)
         /\ _plan_module_prepass(p, o, v, src) = _plan_module_prepass(p, o, u, src)
         /\ _plan_compile_rules(p, o, v, src) = _plan_compile_rules(p, o, u, src)
<1>1. \A f \in src : object_pathname(p, v, f) = object_pathname(p, u, f)
  BY DEF Alike, object_pathname
<1>2. \A f \in src : \A m : bmi_path(p, o, v, f, m) = bmi_path(p, o, u, f, m)
  BY DEF Alike, bmi_path
<1>3. \A f \in src : \A m : bmi_dir(p, o, v, f, m) = bmi_dir(p, o, u, f, m)
  BY <1>2 DEF bmi_dir
<1>4. \A m \in Exported(p, src) : Exporter(p, src, m) \in src  BY Exports
<1>5. \A fs \in SUBSET src : Objects(p, v, fs) = Objects(p, u, fs)
  BY <1>1 DEF Objects
<1>6. _plan_module_prepass(p, o, v, src) = _plan_module_prepass(p, o, u, src)
  <2>1. \A m \in Exported(p, src) :
          bmi_dir(p, o, v, Exporter(p, src, m), m) = bmi_dir(p, o, u, Exporter(p, src, m), m)
    BY <1>3, <1>4
  <2> QED  BY <2>1 DEF _plan_module_prepass
<1>7. target_map(p, o, v, src) = target_map(p, o, u, src)
  <2>1. \A m \in Exported(p, src) :
          /\ bmi_path(p, o, v, Exporter(p, src, m), m) = bmi_path(p, o, u, Exporter(p, src, m), m)
          /\ object_pathname(p, v, Exporter(p, src, m)) = object_pathname(p, u, Exporter(p, src, m))
    BY <1>1, <1>2, <1>4
  <2> QED  BY <2>1 DEF target_map
<1>8. \A f : Wired(v, f) = Wired(u, f)
  BY <1>7 DEF Wired, _wire_module_inputs
<1>9. ASSUME NEW f PROVE Opened(p, o, v, src, f) = Opened(p, o, u, src, f)
  <2>1. \A m \in ImportClosure(p, src, f) :
          bmi_path(p, o, v, Exporter(p, src, m), m) = bmi_path(p, o, u, Exporter(p, src, m), m)
    BY <1>2, <1>4 DEF ImportClosure
  <2> QED  BY <2>1 DEF Opened
<1>10. ASSUME NEW f \in src
       PROVE  _create_compile_rule(p, o, v, src, f) = _create_compile_rule(p, o, u, src, f)
  <2>1. _wire_module_inputs(p, o, v, src, f) = _wire_module_inputs(p, o, u, src, f)
    BY <1>8 DEF Wired
  <2>2. {bmi_path(p, o, v, f, m) : m \in p.exports[f]} = {bmi_path(p, o, u, f, m) : m \in p.exports[f]}
    BY <1>2
  <2> QED  BY <1>1, <1>9, <2>1, <2>2 DEF _create_compile_rule
<1>11. ASSUME NEW f \in src
       PROVE  _create_clang_module_interface_rules(p, o, v, src, f)
                = _create_clang_module_interface_rules(p, o, u, src, f)
  <2>1. _wire_module_inputs(p, o, v, src, f) = _wire_module_inputs(p, o, u, src, f)
    BY <1>8 DEF Wired
  <2> QED  BY <1>1, <1>2, <1>3, <1>9, <2>1 DEF _create_clang_module_interface_rules
<1>12. _plan_compile_rules(p, o, v, src) = _plan_compile_rules(p, o, u, src)
  BY <1>1, <1>10, <1>11 DEF _plan_compile_rules
<1> QED  BY <1>5, <1>6, <1>12

LEMMA AlikePlans ==
  ASSUME NEW v, NEW u, Alike(v, u), OneExporter, w \in Worlds
  PROVE  /\ \A f \in Targets(o) : link_key(p, v, f, lib) = link_key(p, u, f, lib)
         /\ build_graph(p, o, v) = build_graph(p, o, u)
<1>1. \A fs \in SUBSET src : Objects(p, v, fs) = Objects(p, u, fs)  BY AlikeCompiles
<1>2. /\ Needed(p, o.static) \subseteq src /\ Needed(p, o.dynamic) \subseteq src
      /\ \A f \in Targets(o) : p.required[f] \subseteq src
  BY DEF src, all_compile_sources, Needed
<1>3. \A f \in Targets(o) : \A l : link_key(p, v, f, l) = link_key(p, u, f, l)
  BY <1>1, <1>2 DEF Alike, link_key
<1>4. _plan_link_and_publish_rules(p, o, v) = _plan_link_and_publish_rules(p, o, u)
  <2>1. _create_static_library_rule(p, o, v) = _create_static_library_rule(p, o, u)
    BY <1>1, <1>2 DEF _create_static_library_rule
  <2>2. _create_shared_library_rule(p, o, v) = _create_shared_library_rule(p, o, u)
    BY <1>1, <1>2 DEF Alike, _create_shared_library_rule
  <2>3. \A f \in Targets(o) : \A l : _create_link_rule(p, o, v, f, l) = _create_link_rule(p, o, u, f, l)
    <3>1. \A f \in Targets(o) : Objects(p, v, p.required[f]) = Objects(p, u, p.required[f])
      BY <1>1, <1>2
    <3> QED  BY <1>3, <3>1 DEF _create_link_rule
  <2> QED  BY <2>1, <2>2, <2>3 DEF _plan_link_and_publish_rules
<1>5. _plan_test_rules(p, o, v) = _plan_test_rules(p, o, u)
  <2>1. \A f \in Targets(o) : _result_marker_path(p, o, v, f) = _result_marker_path(p, o, u, f)
    BY <1>3 DEF _result_marker_path
  <2>2. \A f \in Targets(o) : TestRule(p, o, v, f) = TestRule(p, o, u, f)
    BY <2>1 DEF TestRule
  <2>3. ASSUME NEW i \in DOMAIN o.tests PROVE Chained(p, o, v, i) = Chained(p, o, u, i)
    <3>1. i # 1 => i - 1 \in DOMAIN o.tests  BY TestsAssumption DEF o
    <3>2. \A j \in DOMAIN o.tests : o.tests[j] \in Targets(o)  BY DEF Targets, Range
    <3>3. TestRule(p, o, v, o.tests[i]) = TestRule(p, o, u, o.tests[i])  BY <2>2, <3>2
    <3>4. i # 1 => TestRule(p, o, v, o.tests[i - 1]) = TestRule(p, o, u, o.tests[i - 1])
      BY <2>2, <3>1, <3>2
    <3> QED  BY <3>3, <3>4 DEF Chained
  <2>4. {Chained(p, o, v, i) : i \in DOMAIN o.tests} = {Chained(p, o, u, i) : i \in DOMAIN o.tests}
    BY <2>3
  <2> QED  BY <2>4 DEF _plan_test_rules
<1>6. PlannedRules(p, o, v) = PlannedRules(p, o, u)
  <2>1. /\ _plan_module_prepass(p, o, v, src) = _plan_module_prepass(p, o, u, src)
        /\ _plan_compile_rules(p, o, v, src) = _plan_compile_rules(p, o, u, src)
    BY AlikeCompiles
  <2> QED  BY <1>4, <1>5, <2>1 DEF PlannedRules, src
<1> QED  BY <1>3, <1>6 DEF build_graph
------------------------------------------------------------------------------
(* The lines that make objects and executables                              *)

Script(v) == _write_makefile(build_graph(p, o, v))

LEMMA LineOf ==
  ASSUME NEW v, NEW x \in DOMAIN Script(v)
  PROVE  \E r \in PlannedRules(p, o, v) :
           LET l == Script(v)[x]
           IN  /\ r.out = x /\ l.out = x /\ l.type = r.type /\ l.marker = r.marker
               /\ l.beside = r.beside /\ l.reads = r.reads /\ Outputs(l) = Outputs(r)
               /\ l.ins = Prerequisites(o, r) /\ Waits(l) = Prerequisites(o, r) \cup OrderOnly(o, r)
<1>1. PICK g : g = build_graph(p, o, v)  OBVIOUS
<1>2. x \in DOMAIN g /\ Script(v)[x] = Line(g[x])  BY <1>1 DEF Script, _write_makefile
<1>3. PICK r : r = g[x]  OBVIOUS
<1>4. r \in PlannedRules(p, o, v) /\ r.out = x  BY <1>1, <1>2, <1>3, GraphRules
<1>5. Shaped(r)  BY <1>4, Shape
<1>6. /\ Line(r).out = r.out /\ Line(r).type = r.type /\ Line(r).marker = r.marker
      /\ Line(r).beside = r.beside /\ Line(r).reads = r.reads
      /\ Line(r).ins = Prerequisites(o, r) /\ Line(r).order = OrderOnly(o, r)
  BY <1>5 DEF Line, Shaped
<1>7. Outputs(Line(r)) = Outputs(r)  BY <1>6 DEF Outputs
<1>8. Waits(Line(r)) = Prerequisites(o, r) \cup OrderOnly(o, r)  BY <1>6 DEF Waits
<1> QED  BY <1>2, <1>3, <1>4, <1>6, <1>7, <1>8

LEMMA ScriptDomain ==
  ASSUME NEW v, NEW r \in PlannedRules(p, o, v)
  PROVE  r.out \in DOMAIN Script(v)
BY GraphRules DEF Script, _write_makefile

\* What a rule is that makes an entry of an executable or publishes one.
LEMMA ExecutableRules ==
  ASSUME NEW v, ~ o.managed, NEW r \in PlannedRules(p, o, v)
  PROVE  /\ r.out[1] = "exe" => \E f \in Targets(o) :
              LET ins == Objects(p, v, p.required[f]) \cup lib
              IN  r = BuildRule("link", link_key(p, v, f, lib), ins, {Bucket(link_key(p, v, f, lib))}, ins)
         /\ r.out[1] = "bin" /\ r.out[2] = "exe" => \E f \in Targets(o) :
              r = _build_publish_rule(link_key(p, v, f, lib), Bin(f))
<1> SUFFICES ASSUME r.out[1] = "exe" \/ (r.out[1] = "bin" /\ r.out[2] = "exe")
             PROVE  \/ /\ r.out[1] = "exe"
                       /\ \E f \in Targets(o) :
                            LET ins == Objects(p, v, p.required[f]) \cup lib
                            IN  r = BuildRule("link", link_key(p, v, f, lib), ins,
                                              {Bucket(link_key(p, v, f, lib))}, ins)
                    \/ /\ r.out[1] = "bin"
                       /\ \E f \in Targets(o) : r = _build_publish_rule(link_key(p, v, f, lib), Bin(f))
  OBVIOUS
<1>1. IsProduct(r)
  <2>1. ~ IsObject(r, v) /\ ~ IsInterface(r, v)
    <3>1. \A f \in src : CompileOf(r, v, f) => r.out[1] \in {"o", "pcm"}
      <4>1. \A f : object_pathname(p, v, f)[1] = "o"  BY DEF object_pathname
      <4> QED  BY <4>1, CompileIs
    <3> QED  BY <3>1 DEF IsObject, IsInterface, CompileOf
  <2>2. ~ IsTest(r, v)
    <3>1. \A e : _xml_path_for(e)[1] = "xml"  BY DEF _xml_path_for
    <3>2. \A h : _result_marker_path(p, o, v, h)[1] = "result"  BY DEF _result_marker_path, Beside
    <3> QED  BY <3>1, <3>2, ChainedIs DEF IsTest
  <2> QED  BY <2>1, <2>2, Kinds DEF IsDir, IsHeader, IsUnit, IsPhony
<1>2. r \in _plan_link_and_publish_rules(p, o, v)  BY <1>1, ProductPlanned
<1>3. r.type # "mkdir"  BY <1>1 DEF IsProduct, CAS_LINKED_TYPES, CAS_PRODUCER_TYPES
<1>4. ASSUME NEW type, NEW cas, NEW user, NEW ins, r \in ArtefactRules(o, type, cas, user, ins)
      PROVE  \/ r = BuildRule(type, cas, ins, {Bucket(cas)}, ins) /\ r.out = cas
             \/ r = _build_publish_rule(cas, user) /\ r.out = user
  BY <1>3, <1>4 DEF ArtefactRules, MkDir, BuildRule, _build_publish_rule
<1>5. r \notin _create_static_library_rule(p, o, v)
  <2> SUFFICES ASSUME r \in _create_static_library_rule(p, o, v) PROVE FALSE  OBVIOUS
  <2>1. PICK cas, user, ins : /\ r \in ArtefactRules(o, "static_library", cas, user, ins)
                              /\ cas = <<"a", Library("a", p, o.static), ins>>
                              /\ user = Library("a", p, o.static)
    BY DEF _create_static_library_rule
  <2>2. cas[1] = "a" /\ user[2] = "a"  BY <2>1 DEF Library, published
  <2>3. r.out = cas \/ r.out = user  BY <1>4, <2>1
  <2>4. user[1] = "bin"  BY <2>1 DEF Library, published
  <2> QED  BY <2>2, <2>3, <2>4
<1>6. r \notin _create_shared_library_rule(p, o, v)
  <2> SUFFICES ASSUME r \in _create_shared_library_rule(p, o, v) PROVE FALSE  OBVIOUS
  <2>1. PICK cas, user, ins : /\ r \in ArtefactRules(o, "shared_library", cas, user, ins)
                              /\ cas = <<"so", Library("so", p, o.dynamic), ins, v[ENV]>>
                              /\ user = Library("so", p, o.dynamic)
    BY DEF _create_shared_library_rule
  <2>2. cas[1] = "so" /\ user[2] = "so"  BY <2>1 DEF Library, published
  <2>3. r.out = cas \/ r.out = user  BY <1>4, <2>1
  <2>4. user[1] = "bin"  BY <2>1 DEF Library, published
  <2> QED  BY <2>2, <2>3, <2>4
<1>7. PICK f \in Targets(o) : r \in _create_link_rule(p, o, v, f, lib)
  BY <1>2, <1>5, <1>6 DEF _plan_link_and_publish_rules, lib
<1>8. PICK cas, user, ins : /\ cas = link_key(p, v, f, lib) /\ user = Bin(f)
                            /\ ins = Objects(p, v, p.required[f]) \cup lib
  OBVIOUS
<1>9. r \in ArtefactRules(o, "link", cas, user, ins)
  BY <1>7, <1>8 DEF _create_link_rule, Bin
<1>10. \/ r = BuildRule("link", cas, ins, {Bucket(cas)}, ins) /\ r.out = cas
       \/ r = _build_publish_rule(cas, user) /\ r.out = user
  BY <1>4, <1>9
<1>11. cas[1] = "exe" /\ user[1] = "bin"
  BY <1>8 DEF link_key, Bin, executable_pathname, published
<1> QED  BY <1>8, <1>10, <1>11

OneName == \A f, h \in Targets(o) : p.stem[f] = p.stem[h] => f = h

LEMMA NamesDiffer ==
  ASSUME ~ _check_executable_collisions(p, o)
  PROVE  OneName
BY DEF OneName, _check_executable_collisions, executable_pathname, published

\* The line that links an entry, and the one that publishes it.
LEMMA ExecutableLine ==
  ASSUME NEW v, ~ o.managed, NEW x \in DOMAIN Script(v), x[1] = "exe"
  PROVE  \E f \in Targets(o) :
           LET l == Script(v)[x]
           IN  /\ x = link_key(p, v, f, lib) /\ l.type = "link" /\ l.out = x
               /\ l.reads = Objects(p, v, p.required[f]) \cup lib
               /\ l.ins = IF o.use_mtime THEN l.reads ELSE {}
<1>1. PICK r \in PlannedRules(p, o, v) :
        /\ r.out = x /\ Script(v)[x].out = x /\ Script(v)[x].type = r.type
        /\ Script(v)[x].reads = r.reads /\ Script(v)[x].ins = Prerequisites(o, r)
  BY LineOf
<1>2. PICK f \in Targets(o) :
        LET ins == Objects(p, v, p.required[f]) \cup lib
        IN  r = BuildRule("link", link_key(p, v, f, lib), ins, {Bucket(link_key(p, v, f, lib))}, ins)
  BY <1>1, ExecutableRules
<1>3. PICK ins : ins = Objects(p, v, p.required[f]) \cup lib  OBVIOUS
<1>4. r.type = "link" /\ r.out = link_key(p, v, f, lib) /\ r.ins = ins /\ r.reads = ins
  BY <1>2, <1>3 DEF BuildRule
<1>5. Prerequisites(o, r) = IF o.use_mtime THEN r.ins ELSE {}
  BY <1>4 DEF Prerequisites, _cas_demotes_inputs, CAS_PRODUCER_TYPES
<1> QED  BY <1>1, <1>3, <1>4, <1>5

LEMMA PublishedLine ==
  ASSUME NEW v, ~ o.managed, OneName, NEW f \in Targets(o)
  PROVE  LET l == Script(v)[Bin(f)]
             e == link_key(p, v, f, lib)
         IN  /\ Bin(f) \in DOMAIN Script(v) /\ l.type = "symlink" /\ l.out = Bin(f)
             /\ l.reads = {e} /\ l.ins = {e} /\ e \in DOMAIN Script(v) /\ e \in Waits(l)
<1>1. PICK cas, user : cas = link_key(p, v, f, lib) /\ user = Bin(f)  OBVIOUS
<1>2. user[1] = "bin" /\ user[2] = "exe" /\ user[3] = p.stem[f]
  BY <1>1 DEF Bin, executable_pathname, published
<1>3. cas \in DOMAIN Script(v) /\ user \in DOMAIN Script(v)
  <2>1. PICK ins : ins = Objects(p, v, p.required[f]) \cup lib  OBVIOUS
  <2>2. ArtefactRules(o, "link", cas, user, ins) \subseteq PlannedRules(p, o, v)
    BY <1>1, <2>1 DEF PlannedRules, _plan_link_and_publish_rules, _create_link_rule, lib, Bin
  <2>3. /\ BuildRule("link", cas, ins, {Bucket(cas)}, ins) \in PlannedRules(p, o, v)
        /\ _build_publish_rule(cas, user) \in PlannedRules(p, o, v)
    BY <2>2 DEF ArtefactRules
  <2>4. /\ BuildRule("link", cas, ins, {Bucket(cas)}, ins).out = cas
        /\ _build_publish_rule(cas, user).out = user
    BY DEF BuildRule, _build_publish_rule
  <2> QED  BY <2>3, <2>4, ScriptDomain
<1>4. PICK r \in PlannedRules(p, o, v) :
        LET l == Script(v)[user]
        IN  /\ r.out = user /\ l.out = user /\ l.type = r.type /\ l.reads = r.reads
            /\ l.ins = Prerequisites(o, r) /\ Waits(l) = Prerequisites(o, r) \cup OrderOnly(o, r)
  BY <1>3, LineOf
<1>5. PICK h \in Targets(o) : r = _build_publish_rule(link_key(p, v, h, lib), Bin(h))
  BY <1>2, <1>4, ExecutableRules
<1>6. r.out = Bin(h)  BY <1>5 DEF _build_publish_rule, BuildRule
<1>7. p.stem[h] = p.stem[f]
  <2>1. Bin(h)[3] = p.stem[h]  BY DEF Bin, executable_pathname, published
  <2> QED  BY <1>2, <1>4, <1>6, <2>1
<1>8. h = f  BY <1>7 DEF OneName
<1>9. r.type = "symlink" /\ r.reads = {cas} /\ r.ins = {cas}
  BY <1>1, <1>5, <1>8 DEF _build_publish_rule, BuildRule
<1>10. Prerequisites(o, r) = {cas}
  BY <1>9 DEF Prerequisites, _cas_demotes_inputs, CAS_PRODUCER_TYPES
<1> QED  BY <1>1, <1>3, <1>4, <1>9, <1>10

\* What is one of these, an object or a .pcm is written by its own line alone.
LEMMA WrittenAlone ==
  ASSUME NEW v, NEW x \in DOMAIN Script(v), NEW z \in Outputs(Script(v)[x]),
         z[1] \in {"o", "pcm", "exe", "a", "so", "bin"}
  PROVE  z = x
<1>1. PICK r \in PlannedRules(p, o, v) : r.out = x /\ Outputs(Script(v)[x]) = Outputs(r)
  BY LineOf
<1>2. WritesOut(r, z) \/ WritesGcm(r, v, z) \/ WritesMark(r, v, z)  BY <1>1, Writes
<1>3. ~ WritesGcm(r, v, z)  BY DEF WritesGcm, bmi_path
<1>4. ~ WritesMark(r, v, z)  BY DEF WritesMark, _result_marker_path, Beside
<1> QED  BY <1>1, <1>2, <1>3, <1>4 DEF WritesOut
------------------------------------------------------------------------------
(* What a command leaves of the text                                        *)

\* What is held as text, and what the names of an object and of an entry of an
\* executable tell of it.
TextsOf(h) == {c \in h : c[3] = "text"}
ToldObj(x) == Only({c \in x[3] : c[1] \notin Hidden(x[2])}, "text")
ToldExe(e) == UNION {ToldObj(x) : x \in e[3]}

LEMMA ObjectLine ==
  ASSUME NEW v, NEW x \in DOMAIN Script(v), x[1] = "o"
  PROVE  \E f \in src :
           LET l == Script(v)[x]
           IN  /\ x = object_pathname(p, v, f) /\ l.out = x /\ l.type = "compile"
               /\ ~ TwoStep(f) => l.reads = Files(p, f) \cup {_gch_path(o, h) : h \in p.pch[f]}
                                              \cup Opened(p, o, v, src, f)
               /\ TwoStep(f) => l.reads = {bmi_path(p, o, v, f, Interface(f))} \cup Opened(p, o, v, src, f)
<1>1. PICK r \in PlannedRules(p, o, v) :
        /\ r.out = x /\ Script(v)[x].out = x /\ Script(v)[x].type = r.type
        /\ Script(v)[x].reads = r.reads
  BY LineOf
<1>2. IsObject(r, v) \/ IsInterface(r, v)
  <2>1. ~ IsTest(r, v)
    <3>1. \A e : _xml_path_for(e)[1] = "xml"  BY DEF _xml_path_for
    <3>2. \A h : _result_marker_path(p, o, v, h)[1] = "result"  BY DEF _result_marker_path, Beside
    <3> QED  BY <1>1, <3>1, <3>2, ChainedIs DEF IsTest
  <2> QED  BY <1>1, <2>1, Kinds DEF IsDir, IsHeader, IsUnit, IsProduct, IsPhony
<1>3. PICK f \in src : CompileOf(r, v, f)
  BY <1>2 DEF IsObject, IsInterface, CompileOf
<1>4. r.type = "compile" /\ x = object_pathname(p, v, f)
  BY <1>1, <1>3, CompileIs
<1>5. CASE ~ TwoStep(f)
  <2>1. r = _create_compile_rule(p, o, v, src, f)  BY <1>3, <1>5 DEF CompileOf
  <2>2. r.reads = Files(p, f) \cup {_gch_path(o, h) : h \in p.pch[f]} \cup Opened(p, o, v, src, f)
    BY <2>1 DEF _create_compile_rule, BuildRule
  <2> QED  BY <1>1, <1>4, <1>5, <2>2
<1>6. CASE TwoStep(f)
  <2>1. r \in _create_clang_module_interface_rules(p, o, v, src, f)  BY <1>3, <1>6 DEF CompileOf
  <2>2. \/ r.out = bmi_path(p, o, v, f, Interface(f))
        \/ r.reads = {bmi_path(p, o, v, f, Interface(f))} \cup Opened(p, o, v, src, f)
    BY <2>1 DEF _create_clang_module_interface_rules, BuildRule, Interface
  <2>3. bmi_path(p, o, v, f, Interface(f))[1] # "o"  BY DEF bmi_path
  <2> QED  BY <1>1, <1>4, <1>6, <2>2, <2>3
<1> QED  BY <1>5, <1>6

LEMMA PcmLine ==
  ASSUME NEW v, NEW x \in DOMAIN Script(v), x[1] = "pcm"
  PROVE  \E f \in src :
           LET l == Script(v)[x]
           IN  /\ TwoStep(f) /\ x = bmi_path(p, o, v, f, Interface(f)) /\ l.out = x /\ l.type = "compile"
               /\ l.reads = Files(p, f) \cup Opened(p, o, v, src, f)
<1>1. PICK r \in PlannedRules(p, o, v) :
        /\ r.out = x /\ Script(v)[x].out = x /\ Script(v)[x].type = r.type
        /\ Script(v)[x].reads = r.reads
  BY LineOf
<1>2. IsObject(r, v) \/ IsInterface(r, v)
  <2>1. ~ IsTest(r, v)
    <3>1. \A e : _xml_path_for(e)[1] = "xml"  BY DEF _xml_path_for
    <3>2. \A h : _result_marker_path(p, o, v, h)[1] = "result"  BY DEF _result_marker_path, Beside
    <3> QED  BY <1>1, <3>1, <3>2, ChainedIs DEF IsTest
  <2> QED  BY <1>1, <2>1, Kinds DEF IsDir, IsHeader, IsUnit, IsProduct, IsPhony
<1>3. PICK f \in src : CompileOf(r, v, f)
  BY <1>2 DEF IsObject, IsInterface, CompileOf
<1>4. object_pathname(p, v, f)[1] = "o"  BY DEF object_pathname
<1>5. TwoStep(f) /\ x = bmi_path(p, o, v, f, Interface(f)) /\ r.type = "compile"
  BY <1>1, <1>3, <1>4, CompileIs
<1>6. r \in _create_clang_module_interface_rules(p, o, v, src, f)  BY <1>3, <1>5 DEF CompileOf
<1>7. \/ r.out = object_pathname(p, v, f)
      \/ r.reads = Files(p, f) \cup Opened(p, o, v, src, f)
  BY <1>6 DEF _create_clang_module_interface_rules, BuildRule
<1> QED  BY <1>1, <1>4, <1>5, <1>7

LEMMA OpenedKinds ==
  ASSUME NEW v, NEW f, NEW z \in Opened(p, o, v, src, f)
  PROVE  z[1] \in {"pcm", "gcm", "hu"} /\ (z[1] = "pcm" => z[2] \notin p.exports[f])
<1>1. CASE \E m \in ImportClosure(p, src, f) : z = bmi_path(p, o, v, Exporter(p, src, m), m)
  <2>1. PICK m \in ImportClosure(p, src, f) : z = bmi_path(p, o, v, Exporter(p, src, m), m)
    BY <1>1
  <2>2. z[1] \in {"pcm", "gcm"} /\ z[2] = m  BY <2>1 DEF bmi_path
  <2>3. m \notin p.exports[f]  BY DEF ImportClosure
  <2> QED  BY <2>2, <2>3
<1>2. CASE \E t : z = _header_unit_destination(o, t)
  BY <1>2 DEF _header_unit_destination
<1> QED  BY <1>1, <1>2 DEF Opened

\* The text of f and its headers, without the headers that are hidden.
TextWithout(f, hidden) == Only({c \in Text(p, ver, f) : c[1] \notin hidden}, "text")
WithBelow(hs) == UNION {{h} \cup p.deps[h] : h \in hs}
Gchs(hs)   == {_gch_path(o, h) : h \in hs}

\* A compile that reads the files of f, the headers in hs precompiled, and other things
\* none of which is its own .pcm.
LEMMA CompileText ==
  ASSUME NEW l, NEW f, NEW hs, NEW others, l.type = "compile",
         l.reads = Files(p, f) \cup Gchs(hs) \cup others,
         \A z \in others : z[1] \notin {"file", "gch"},
         \A z \in others : ~ OwnPcm(l, z)
  PROVE  TextsOf(Image(l)) = TextWithout(f, WithBelow(hs))
<1>0. Gchs(hs) = {_gch_path(o, h) : h \in hs} /\ WithBelow(hs) = UNION {{h} \cup p.deps[h] : h \in hs}
  BY DEF Gchs, WithBelow
<1> DEFINE hidden == UNION {{h} \cup p.deps[h] : h \in hs}
           plain  == {<<x[2], ver[x[2]], "text">> : x \in {y \in l.reads : y[1] = "file" /\ y[2] \notin Instead(l)}}
           rest   == UNION {IF OwnPcm(l, x) THEN disk[x].holds ELSE Only(disk[x].holds, "through")
                             : x \in {y \in l.reads : y[1] # "file"}}
<1>1. Image(l) = plain \cup rest
  <2>1. Image(l) = Compiled(l)  BY DEF Image
  <2> QED  BY <2>1 DEF Compiled
<1>2. /\ \A a : File(a)[1] = "file" /\ File(a)[2] = a
      /\ \A h : _gch_path(o, h)[1] = "gch" /\ _gch_path(o, h)[2] = h
  BY DEF File, _gch_path
<1>3. {y \in l.reads : y[1] = "file"} = Files(p, f)  BY <1>0, <1>2 DEF Files
<1>4. {y \in l.reads : y[1] = "gch"} = {_gch_path(o, h) : h \in hs}  BY <1>0, <1>2 DEF Files
<1>5. Instead(l) = hidden
  <2>1. Instead(l) = UNION {p.deps[x[2]] \cup {x[2]} : x \in {_gch_path(o, h) : h \in hs}}
    BY <1>4 DEF Instead
  <2> QED  BY <1>2, <2>1
<1>6. plain = {<<a, ver[a], "text">> : a \in ({f} \cup p.deps[f]) \ hidden}
  <2>1. {y \in l.reads : y[1] = "file" /\ y[2] \notin Instead(l)} =
          {File(a) : a \in ({f} \cup p.deps[f]) \ hidden}
    <3> HIDE DEF hidden
    <3> QED  BY <1>2, <1>3, <1>5 DEF Files
  <2> HIDE DEF hidden
  <2> QED  BY <1>2, <2>1
<1>7. \A c \in rest : c[3] # "text"
  <2>1. \A x \in l.reads : x[1] # "file" => ~ OwnPcm(l, x)
    <3>1. \A h : ~ OwnPcm(l, _gch_path(o, h))  BY <1>2 DEF OwnPcm
    <3> QED  BY <1>0, <1>2, <3>1 DEF Files
  <2>2. rest = UNION {Only(disk[x].holds, "through") : x \in {y \in l.reads : y[1] # "file"}}
    BY <2>1
  <2>3. \A h : \A c \in Only(h, "through") : c[3] = "through"  BY DEF Only
  <2> QED  BY <2>2, <2>3
<1>8. TextsOf(Image(l)) = {<<a, ver[a], "text">> : a \in ({f} \cup p.deps[f]) \ hidden}
  <2>1. \A c \in plain : c[3] = "text"  BY <1>6
  <2> HIDE DEF plain, rest
  <2>2. TextsOf(Image(l)) = plain  BY <1>1, <1>7, <2>1 DEF TextsOf
  <2> QED  BY <1>6, <2>2
<1>9. Only({c \in Text(p, ver, f) : c[1] \notin hidden}, "text")
        = {<<a, ver[a], "text">> : a \in ({f} \cup p.deps[f]) \ hidden}
  <2>1. {c \in Text(p, ver, f) : c[1] \notin hidden} = {<<a, ver[a]>> : a \in ({f} \cup p.deps[f]) \ hidden}
    <3> HIDE DEF hidden
    <3> QED  BY DEF Text
  <2>2. PICK kept : kept = ({f} \cup p.deps[f]) \ hidden  OBVIOUS
  <2>3. {c \in Text(p, ver, f) : c[1] \notin hidden} = {<<a, ver[a]>> : a \in kept}  BY <2>1, <2>2
  <2>4. PICK S : S = {<<a, ver[a]>> : a \in kept}  OBVIOUS
  <2>5. Only(S, "text") = {<<a, ver[a], "text">> : a \in kept}
    <3>1. ASSUME NEW a \in kept PROVE <<a, ver[a], "text">> \in Only(S, "text")
      <4>1. <<a, ver[a]>> \in S  BY <2>4
      <4> QED  BY <4>1 DEF Only
    <3>2. ASSUME NEW t \in Only(S, "text") PROVE t \in {<<a, ver[a], "text">> : a \in kept}
      <4>1. PICK c \in S : t = <<c[1], c[2], "text">>  BY DEF Only
      <4> QED  BY <2>4, <4>1
    <3> QED  BY <3>1, <3>2
  <2> HIDE DEF hidden
  <2> QED  BY <2>2, <2>3, <2>4, <2>5
<1> QED  BY <1>0, <1>8, <1>9 DEF TextWithout

Pcms == \A y \in DOMAIN disk : y[1] = "pcm" => TextsOf(disk[y].holds) = Only(y[3], "text")
Objs == \A y \in DOMAIN disk : y[1] = "o" => TextsOf(disk[y].holds) = ToldObj(y)

\* clang's modules are content addresses.
ClangHashed == o.kind = "clang" => o.cas_pcmdir

LEMMA PcmText ==
  ASSUME NEW x \in DOMAIN Script(ver), x[1] = "pcm", ClangHashed
  PROVE  TextsOf(Image(Script(ver)[x])) = Only(x[3], "text")
<1>1. PICK l : l = Script(ver)[x]  OBVIOUS
<1>2. PICK f \in src : /\ TwoStep(f) /\ x = bmi_path(p, o, ver, f, Interface(f)) /\ l.out = x
                       /\ l.type = "compile" /\ l.reads = Files(p, f) \cup Opened(p, o, ver, src, f)
  BY <1>1, PcmLine
<1>3. x[3] = Text(p, ver, f)  BY <1>2 DEF ClangHashed, TwoStep, bmi_path
<1>4. PICK hs, others : hs = {} /\ others = Opened(p, o, ver, src, f)  OBVIOUS
<1>5. TextsOf(Image(l)) = TextWithout(f, WithBelow(hs))
  <2>1. l.reads = Files(p, f) \cup Gchs(hs) \cup others  BY <1>2, <1>4 DEF Gchs
  <2>2. \A z \in others : z[1] \notin {"file", "gch"} /\ ~ OwnPcm(l, z)
    <3>1. l.out[1] # "o"  BY <1>2
    <3> QED  BY <1>4, <3>1, OpenedKinds DEF OwnPcm
  <2> QED  BY <1>2, <2>1, <2>2, CompileText
<1>6. {c \in Text(p, ver, f) : c[1] \notin WithBelow(hs)} = Text(p, ver, f)
  BY <1>4 DEF WithBelow
<1> QED  BY <1>1, <1>3, <1>5, <1>6 DEF TextWithout

LEMMA ObjectText ==
  ASSUME NEW x \in DOMAIN Script(ver), x[1] = "o", ClangHashed, Pcms, ~ Missing(Script(ver)[x])
  PROVE  TextsOf(Image(Script(ver)[x])) = ToldObj(x)
<1>1. PICK l : l = Script(ver)[x]  OBVIOUS
<1>2. PICK f \in src :
        /\ x = object_pathname(p, ver, f) /\ l.out = x /\ l.type = "compile"
        /\ ~ TwoStep(f) => l.reads = Files(p, f) \cup {_gch_path(o, h) : h \in p.pch[f]}
                                       \cup Opened(p, o, ver, src, f)
        /\ TwoStep(f) => l.reads = {bmi_path(p, o, ver, f, Interface(f))} \cup Opened(p, o, ver, src, f)
  BY <1>1, ObjectLine
<1>3. x[2] = f /\ x[3] = Text(p, ver, f)  BY <1>2 DEF object_pathname
<1>4. \A z \in Opened(p, o, ver, src, f) : z[1] \notin {"file", "gch"} /\ ~ OwnPcm(l, z)
  BY <1>2, <1>3, OpenedKinds DEF OwnPcm
<1>5. CASE ~ TwoStep(f)
  <2>1. PICK hs, others : hs = p.pch[f] /\ others = Opened(p, o, ver, src, f)  OBVIOUS
  <2>2. l.reads = Files(p, f) \cup Gchs(hs) \cup others  BY <1>2, <1>5, <2>1 DEF Gchs
  <2>3. TextsOf(Image(l)) = TextWithout(f, WithBelow(hs))
    BY <1>2, <1>4, <2>1, <2>2, CompileText
  <2>4. Hidden(f) = WithBelow(hs)  BY <1>5, <2>1 DEF Hidden, TwoStep, WithBelow
  <2> QED  BY <1>1, <1>3, <2>3, <2>4 DEF ToldObj, TextWithout
<1>6. CASE TwoStep(f)
  <2>1. PICK pcm : pcm = bmi_path(p, o, ver, f, Interface(f))  OBVIOUS
  <2>2. pcm[1] = "pcm" /\ pcm[2] = Interface(f) /\ pcm[3] = Text(p, ver, f)
    BY <1>6, <2>1 DEF ClangHashed, TwoStep, bmi_path
  <2>3. Interface(f) \in p.exports[f]  BY <1>6 DEF TwoStep, Interface
  <2>4. OwnPcm(l, pcm)  BY <1>2, <1>3, <2>2, <2>3 DEF OwnPcm
  <2>5. l.reads = {pcm} \cup Opened(p, o, ver, src, f)  BY <1>2, <1>6, <2>1
  <2>6. pcm \in DOMAIN disk  BY <1>1, <2>2, <2>5 DEF Missing, Present
  <2>7. TextsOf(disk[pcm].holds) = Only(Text(p, ver, f), "text")
    BY <2>2, <2>6 DEF Pcms
  <2> DEFINE plain == {<<y[2], ver[y[2]], "text">> : y \in {y \in l.reads : y[1] = "file" /\ y[2] \notin Instead(l)}}
             rest  == UNION {IF OwnPcm(l, y) THEN disk[y].holds ELSE Only(disk[y].holds, "through")
                              : y \in {y \in l.reads : y[1] # "file"}}
  <2>8. Image(l) = plain \cup rest
    <3>1. Image(l) = Compiled(l)  BY <1>2 DEF Image
    <3> QED  BY <3>1 DEF Compiled
  <2>9. {y \in l.reads : y[1] = "file"} = {}  BY <1>4, <2>2, <2>5
  <2>10. plain = {}  BY <2>9
  <2>11. rest = disk[pcm].holds \cup UNION {Only(disk[y].holds, "through") : y \in Opened(p, o, ver, src, f)}
    <3>1. {y \in l.reads : y[1] # "file"} = {pcm} \cup Opened(p, o, ver, src, f)
      BY <1>4, <2>2, <2>5
    <3>2. rest = (IF OwnPcm(l, pcm) THEN disk[pcm].holds ELSE Only(disk[pcm].holds, "through"))
                   \cup UNION {IF OwnPcm(l, y) THEN disk[y].holds ELSE Only(disk[y].holds, "through")
                                : y \in Opened(p, o, ver, src, f)}
      BY <3>1
    <3>3. \A y \in Opened(p, o, ver, src, f) :
            (IF OwnPcm(l, y) THEN disk[y].holds ELSE Only(disk[y].holds, "through"))
              = Only(disk[y].holds, "through")
      BY <1>4
    <3> HIDE DEF rest
    <3> QED  BY <2>4, <3>2, <3>3
  <2>12. TextsOf(Image(l)) = TextsOf(disk[pcm].holds)
    <3>1. \A h : \A c \in Only(h, "through") : c[3] = "through"  BY DEF Only
    <3> HIDE DEF plain, rest
    <3>2. Image(l) = disk[pcm].holds
                       \cup UNION {Only(disk[y].holds, "through") : y \in Opened(p, o, ver, src, f)}
      BY <2>8, <2>10, <2>11
    <3> QED  BY <3>1, <3>2 DEF TextsOf
  <2>13. Hidden(f) = {}  BY <1>6 DEF Hidden, TwoStep
  <2>14. {c \in Text(p, ver, f) : c[1] \notin Hidden(f)} = Text(p, ver, f)  BY <2>13
  <2> QED  BY <1>1, <1>3, <2>7, <2>12, <2>14 DEF ToldObj
<1> QED  BY <1>5, <1>6

LEMMA ExecutableText ==
  ASSUME NEW e \in DOMAIN Script(ver), e[1] = "exe", ~ o.managed, Objs, ~ Missing(Script(ver)[e])
  PROVE  TextsOf(Image(Script(ver)[e])) = ToldExe(e)
<1>1. PICK l : l = Script(ver)[e]  OBVIOUS
<1>2. PICK f \in Targets(o) : /\ e = link_key(p, ver, f, lib) /\ l.type = "link"
                              /\ l.reads = Objects(p, ver, p.required[f]) \cup lib
  BY <1>1, ExecutableLine
<1>3. PICK objs : objs = Objects(p, ver, p.required[f])  OBVIOUS
<1>4. e[3] = objs  BY <1>2, <1>3 DEF link_key
<1>5. \A y \in objs : y[1] = "o"  BY <1>3 DEF Objects, object_pathname
<1>6. \A y \in lib : y[1] = "bin"  BY DEF lib, library_outputs, Library, published
<1>7. {y \in l.reads : y[1] = "o"} = objs  BY <1>2, <1>3, <1>5, <1>6
<1> DEFINE own   == UNION {disk[x].holds : x \in {y \in l.reads : y[1] = "o"}}
           other == UNION {Only(disk[x].holds, "through") : x \in {y \in l.reads : y[1] = "bin" /\ y[2] = "a"}}
<1>8. Image(l) = own \cup other \cup {<<ENV, ver[ENV], "environment">>}
  <2>1. Image(l) = Archived(l) \cup {<<ENV, ver[ENV], "environment">>}  BY <1>2 DEF Image
  <2>2. Archived(l) = own \cup other  BY DEF Archived
  <2> QED  BY <2>1, <2>2
<1>9. \A c \in other : c[3] # "text"
  <2>1. \A h : \A c \in Only(h, "through") : c[3] = "through"  BY DEF Only
  <2> QED  BY <2>1
<1>10. \A y \in objs : y \in DOMAIN disk
  BY <1>1, <1>2, <1>3, <1>5 DEF Missing, Present
<1>11. own = UNION {disk[y].holds : y \in objs}  BY <1>7
<1>12. TextsOf(Image(l)) = TextsOf(own)
  <2> HIDE DEF own, other
  <2> QED  BY <1>8, <1>9 DEF TextsOf
<1>13. TextsOf(own) = UNION {TextsOf(disk[y].holds) : y \in objs}
  <2> HIDE DEF own
  <2> QED  BY <1>11 DEF TextsOf
<1>14. \A y \in objs : TextsOf(disk[y].holds) = ToldObj(y)  BY <1>5, <1>10 DEF Objs
<1> HIDE DEF own, other
<1>15. UNION {TextsOf(disk[y].holds) : y \in objs} = UNION {ToldObj(y) : y \in objs}
  BY <1>14
<1> QED  BY <1>1, <1>4, <1>12, <1>13, <1>15 DEF ToldExe
------------------------------------------------------------------------------
(* What is published is of now                                              *)

\* The rule that publishes is of an executable or of a library.
Publishes(r, v) ==
  \/ \E f \in Targets(o) : r.out = Bin(f) /\ r.ins = {link_key(p, v, f, lib)}
  \/ r.out[1] = "bin" /\ r.out[2] # "exe" /\ \E cas : r.ins = {cas} /\ cas[1] \in {"a", "so"}

LEMMA SymlinkRule ==
  ASSUME NEW v, ~ o.managed, NEW r \in PlannedRules(p, o, v), r.type = "symlink"
  PROVE  Publishes(r, v) /\ r.reads = r.ins
<1>1. r.type = "symlink"  OBVIOUS
<1>4. IsProduct(r)
  <2>1. ~ IsObject(r, v) /\ ~ IsInterface(r, v)
    <3>1. \A f \in src : ~ CompileOf(r, v, f)  BY <1>1, CompileIs
    <3> QED  BY <3>1 DEF IsObject, IsInterface, CompileOf
  <2>2. ~ IsTest(r, v)  BY <1>1, ChainedIs DEF IsTest
  <2> QED  BY <1>1, <2>1, <2>2, Kinds DEF IsDir, IsHeader, IsUnit, IsPhony
<1>5. r \in _plan_link_and_publish_rules(p, o, v)  BY <1>4, ProductPlanned
<1>6. ASSUME NEW type, NEW cas, NEW user, NEW ins, type \in CAS_LINKED_TYPES,
             r \in ArtefactRules(o, type, cas, user, ins)
      PROVE  r.out = user /\ r.ins = {cas} /\ r.reads = r.ins
  BY <1>1, <1>6 DEF ArtefactRules, MkDir, BuildRule, _build_publish_rule, CAS_LINKED_TYPES, CAS_PRODUCER_TYPES
<1>7. {"link", "static_library", "shared_library"} \subseteq CAS_LINKED_TYPES
  BY DEF CAS_LINKED_TYPES, CAS_PRODUCER_TYPES
<1>8. CASE r \in _create_static_library_rule(p, o, v)
  <2>1. PICK cas, user, ins : /\ r \in ArtefactRules(o, "static_library", cas, user, ins)
                              /\ cas = <<"a", Library("a", p, o.static), ins>>
                              /\ user = Library("a", p, o.static)
    BY <1>8 DEF _create_static_library_rule
  <2>2. cas[1] = "a" /\ user[1] = "bin" /\ user[2] = "a"  BY <2>1 DEF Library, published
  <2>3. r.out = user /\ r.ins = {cas} /\ r.reads = r.ins  BY <1>6, <1>7, <2>1
  <2> QED  BY <2>2, <2>3 DEF Publishes
<1>9. CASE r \in _create_shared_library_rule(p, o, v)
  <2>1. PICK cas, user, ins : /\ r \in ArtefactRules(o, "shared_library", cas, user, ins)
                              /\ cas = <<"so", Library("so", p, o.dynamic), ins, v[ENV]>>
                              /\ user = Library("so", p, o.dynamic)
    BY <1>9 DEF _create_shared_library_rule
  <2>2. cas[1] = "so" /\ user[1] = "bin" /\ user[2] = "so"  BY <2>1 DEF Library, published
  <2>3. r.out = user /\ r.ins = {cas} /\ r.reads = r.ins  BY <1>6, <1>7, <2>1
  <2> QED  BY <2>2, <2>3 DEF Publishes
<1>10. CASE \E f \in Targets(o) : r \in _create_link_rule(p, o, v, f, lib)
  <2>1. PICK f \in Targets(o) : r \in _create_link_rule(p, o, v, f, lib)  BY <1>10
  <2>2. PICK cas, user, ins : /\ cas = link_key(p, v, f, lib) /\ user = Bin(f)
                              /\ ins = Objects(p, v, p.required[f]) \cup lib
    OBVIOUS
  <2>3. r \in ArtefactRules(o, "link", cas, user, ins)  BY <2>1, <2>2 DEF _create_link_rule, Bin
  <2>4. r.out = user /\ r.ins = {cas} /\ r.reads = r.ins  BY <1>6, <1>7, <2>3
  <2> QED  BY <2>2, <2>4 DEF Publishes
<1> QED  BY <1>5, <1>8, <1>9, <1>10 DEF _plan_link_and_publish_rules, lib

LEMMA SymlinkLine ==
  ASSUME NEW v, ~ o.managed, NEW x \in DOMAIN Script(v), Script(v)[x].type = "symlink"
  PROVE  LET l == Script(v)[x]
         IN  l.out = x /\ Publishes(l, v) /\ l.reads = l.ins
<1>1. PICK r \in PlannedRules(p, o, v) :
        /\ r.out = x /\ Script(v)[x].type = r.type /\ Script(v)[x].ins = Prerequisites(o, r)
        /\ Script(v)[x].reads = r.reads /\ Script(v)[x].out = x
  BY LineOf
<1>2. Prerequisites(o, r) = r.ins
  BY <1>1 DEF Prerequisites, _cas_demotes_inputs, CAS_PRODUCER_TYPES
<1>3. Publishes(r, v) /\ r.reads = r.ins  BY <1>1, SymlinkRule
<1> QED  BY <1>1, <1>2, <1>3 DEF Publishes

\* What is made as a directory or published as an executable by other lines.
LEMMA OtherLines ==
  ASSUME NEW v, ~ o.managed, NEW x \in DOMAIN Script(v)
  PROVE  /\ Script(v)[x].type = "mkdir" => x[1] \in {"dir", "bucket"}
         /\ x[1] = "bin" /\ x[2] = "exe" => Script(v)[x].type = "symlink"
<1>1. PICK r \in PlannedRules(p, o, v) : r.out = x /\ Script(v)[x].type = r.type  BY LineOf
<1>2. ASSUME r.type = "mkdir" PROVE r.out[1] \in {"dir", "bucket"}
  <2>1. ~ IsObject(r, v) /\ ~ IsInterface(r, v)
    <3>1. \A f \in src : ~ CompileOf(r, v, f)  BY <1>2, CompileIs
    <3> QED  BY <3>1 DEF IsObject, IsInterface, CompileOf
  <2>2. ~ IsTest(r, v)  BY <1>2, ChainedIs DEF IsTest
  <2> QED
    BY <1>2, <2>1, <2>2, Kinds
       DEF IsDir, IsHeader, IsUnit, IsProduct, IsPhony, CAS_LINKED_TYPES, CAS_PRODUCER_TYPES
<1>3. ASSUME r.out[1] = "bin", r.out[2] = "exe" PROVE r.type = "symlink"
  <2>1. PICK f \in Targets(o) : r = _build_publish_rule(link_key(p, v, f, lib), Bin(f))
    BY <1>3, ExecutableRules
  <2> QED  BY <2>1 DEF _build_publish_rule, BuildRule
<1> QED  BY <1>1, <1>2, <1>3

\* The rules of the plan name every file of the text, and make none.
LEMMA FilesListed ==
  ASSUME NEW v, OneExporter, OneInterface, NEW f \in src, NEW x \in {f} \cup p.deps[f]
  PROVE  LET g == build_graph(p, o, v)
         IN  /\ \E d \in DOMAIN g : g[d].type = "compile" /\ File(x) \in g[d].ins
             /\ File(x) \notin DOMAIN g
<1>1. PICK g : g = build_graph(p, o, v)  OBVIOUS
<1>2. File(x) \in Files(p, f) /\ File(x)[1] = "file"  BY DEF Files, File
<1>3. File(x) \notin DOMAIN g
  <2> SUFFICES ASSUME File(x) \in DOMAIN g PROVE FALSE  OBVIOUS
  <2>1. PICK r \in PlannedRules(p, o, v) : r.out = File(x)  BY <1>1, GraphRules
  <2>2. File(x) \in Outputs(r)
    <3>1. NoMarker[1] = "no marker"  BY DEF NoMarker
    <3>2. File(x) # NoMarker  BY <1>2, <3>1
    <3> QED  BY <2>1, <3>2 DEF Outputs
  <2>3. WritesOut(r, File(x)) \/ WritesGcm(r, v, File(x)) \/ WritesMark(r, v, File(x))  BY <2>2, Writes
  <2> QED  BY <1>2, <2>3 DEF WritesOut, WritesGcm, WritesMark, bmi_path, _result_marker_path, Beside
<1>4. \A a : object_pathname(p, v, a)[1] = "o" /\ object_pathname(p, v, a)[2] = a
  BY DEF object_pathname
<1>5. ASSUME NEW a, NEW m, o.kind = "clang"
      PROVE  bmi_path(p, o, v, a, m)[1] = "pcm" /\ bmi_path(p, o, v, a, m)[2] = m
  BY <1>5 DEF bmi_path
<1>6. PICK r \in _plan_compile_rules(p, o, v, src) : r.type = "compile" /\ File(x) \in r.ins /\ CompileOf(r, v, f)
                                                     /\ (TwoStep(f) => r.out[1] = "pcm")
  <2>1. CASE ~ TwoStep(f)
    <3>1. PICK r : r = _create_compile_rule(p, o, v, src, f)  OBVIOUS
    <3>2. r.type = "compile" /\ File(x) \in r.ins
      BY <1>2, <1>4, <3>1 DEF _create_compile_rule, BuildRule
    <3>3. CompileOf(r, v, f)  BY <2>1, <3>1 DEF CompileOf
    <3>4. r \in _plan_compile_rules(p, o, v, src)  BY <2>1, <3>1 DEF _plan_compile_rules, TwoStep
    <3> QED  BY <2>1, <3>2, <3>3, <3>4
  <2>2. CASE TwoStep(f)
    <3>1. PICK pcm, wired, opens : /\ pcm = bmi_path(p, o, v, f, Interface(f))
                                   /\ wired = _wire_module_inputs(p, o, v, src, f)
                                   /\ opens = Opened(p, o, v, src, f)
      OBVIOUS
    <3>2. PICK r : r = BuildRule("compile", pcm, (Files(p, f) \cup wired) \ {pcm},
                                 {bmi_dir(p, o, v, f, Interface(f))}, Files(p, f) \cup opens)
      OBVIOUS
    <3>3. r \in _create_clang_module_interface_rules(p, o, v, src, f)
      BY <3>1, <3>2 DEF _create_clang_module_interface_rules, Interface
    <3>4. pcm[1] = "pcm"  BY <1>5, <2>2, <3>1 DEF TwoStep
    <3>5. r.type = "compile" /\ File(x) \in r.ins /\ r.out = pcm
      BY <1>2, <3>2, <3>4 DEF BuildRule
    <3>6. CompileOf(r, v, f)  BY <2>2, <3>3 DEF CompileOf
    <3>7. r \in _plan_compile_rules(p, o, v, src)  BY <2>2, <3>3 DEF _plan_compile_rules, TwoStep
    <3> QED  BY <3>4, <3>5, <3>6, <3>7
  <2> QED  BY <2>1, <2>2
<1>7. r \in PlannedRules(p, o, v)  BY <1>6 DEF PlannedRules, src
<1>8. PICK q : q = g[r.out]  OBVIOUS
<1>9. r.out \in DOMAIN g /\ q \in PlannedRules(p, o, v) /\ q.out = r.out  BY <1>1, <1>7, <1>8, GraphRules
<1>10. q = r
  <2>1. \/ r.out = object_pathname(p, v, f)
        \/ TwoStep(f) /\ r.out = bmi_path(p, o, v, f, Interface(f))
    <3>1. CompileOf(r, v, f)  BY <1>6
    <3> QED  BY <3>1, CompileIs
  <2>2. r.out[1] \in {"o", "pcm"}  BY <1>4, <1>5, <2>1 DEF TwoStep
  <2>3. ~ IsTest(q, v)
    <3>1. \A e : _xml_path_for(e)[1] = "xml"  BY DEF _xml_path_for
    <3>2. \A h : _result_marker_path(p, o, v, h)[1] = "result"  BY DEF _result_marker_path, Beside
    <3> QED  BY <1>9, <2>2, <3>1, <3>2, ChainedIs DEF IsTest
  <2>4. IsObject(q, v) \/ IsInterface(q, v)
    BY <1>9, <2>2, <2>3, Kinds DEF IsDir, IsHeader, IsUnit, IsProduct, IsPhony
  <2>5. PICK h \in src : CompileOf(q, v, h)  BY <2>4 DEF IsObject, IsInterface, CompileOf
  <2>6. \/ q.out = object_pathname(p, v, h)
        \/ TwoStep(h) /\ q.out = bmi_path(p, o, v, h, Interface(h))
    BY <2>5, CompileIs
  <2>7. CASE ~ TwoStep(f)
    <3>1. r.out = object_pathname(p, v, f)  BY <2>1, <2>7
    <3>2. h = f  BY <1>4, <1>5, <1>9, <2>6, <3>1 DEF TwoStep
    <3> QED  BY <1>6, <2>5, <2>7, <3>2 DEF CompileOf
  <2>8. CASE TwoStep(f)
    <3>1. r.out = bmi_path(p, o, v, f, Interface(f)) /\ r.out[1] = "pcm"  BY <1>4, <1>6, <2>1, <2>8
    <3>2. TwoStep(h) /\ q.out = bmi_path(p, o, v, h, Interface(h))  BY <1>4, <1>9, <2>6, <3>1
    <3>3. Interface(h) = Interface(f)  BY <1>5, <1>9, <2>8, <3>1, <3>2 DEF TwoStep
    <3>4. Interface(f) \in p.exports[f] /\ Interface(h) \in p.exports[h]
      BY <2>8, <3>2 DEF TwoStep, Interface
    <3>5. h = f  BY <3>3, <3>4 DEF OneExporter
    <3>6. /\ r \in _create_clang_module_interface_rules(p, o, v, src, f)
          /\ q \in _create_clang_module_interface_rules(p, o, v, src, f)
      BY <1>6, <2>5, <2>8, <3>5 DEF CompileOf
    <3>7. PICK pcm, wired, opens, out :
            /\ pcm = bmi_path(p, o, v, f, Interface(f)) /\ out = object_pathname(p, v, f)
            /\ wired = _wire_module_inputs(p, o, v, src, f) /\ opens = Opened(p, o, v, src, f)
      OBVIOUS
    <3>8. PICK one, two :
            /\ one = BuildRule("compile", pcm, (Files(p, f) \cup wired) \ {pcm},
                               {bmi_dir(p, o, v, f, Interface(f))}, Files(p, f) \cup opens)
            /\ two = BuildRule("compile", out, {pcm} \cup wired, {Bucket(out)}, {pcm} \cup opens)
      OBVIOUS
    <3>9. _create_clang_module_interface_rules(p, o, v, src, f) = {one, two}
      BY <3>7, <3>8 DEF _create_clang_module_interface_rules, Interface
    <3>10. two.out[1] = "o"  BY <1>4, <3>7, <3>8 DEF BuildRule
    <3> QED  BY <1>9, <3>1, <3>6, <3>9, <3>10
  <2> QED  BY <2>7, <2>8
<1>11. g[r.out].type = "compile" /\ File(x) \in g[r.out].ins  BY <1>6, <1>8, <1>10
<1> QED  BY <1>1, <1>3, <1>9, <1>11

\* Times: nothing is of the future, what is on disk has a time, and a plan is made at a
\* moment when nothing else is.
Clocked ==
  /\ clock \in Nat /\ script.born \in Nat /\ script.born <= clock
  /\ \A n \in DOMAIN born : born[n] \in Nat /\ born[n] <= clock
  /\ \A x \in DOMAIN p.deps : File(x) \in DOMAIN born
  /\ \A x \in DOMAIN disk : disk[x].id \in DOMAIN born /\ disk[x].id[1] = "node"
  /\ phase = "planned" => \A x \in DOMAIN disk : born[disk[x].id] < clock

\* The script is that of a tree which differs from this one only where files are newer.
Seen == UNION {{f} \cup p.deps[f] : f \in src}
Snapshot ==
  script.token = <<"all">> =>
    \E v : /\ script.g = Script(v) /\ v[ENV] = ver[ENV]
           /\ \A x \in Seen : v[x] = ver[x] \/ script.born < born[File(x)]

\* A build works from the script and the graph of the tree as it is.
Current ==
  phase # "idle" => script.g = Script(ver) /\ graph = build_graph(p, o, ver) /\ why # "ok"

\* What is on disk is of the text its name tells, and a file in bin of that of the entry
\* it was linked to.
Tells(x, d) ==
  /\ x[1] = "o" => TextsOf(d.holds) = ToldObj(x)
  /\ x[1] = "pcm" => TextsOf(d.holds) = Only(x[3], "text")
  /\ x[1] \in {"exe", "a", "so"} => d.id[2] = x
  /\ x[1] = "exe" => TextsOf(d.holds) = ToldExe(x)
  /\ x[1] = "bin" /\ x[2] = "exe" =>
       LET e == d.id[2] IN e[1] = "exe" /\ e[2] = x[3] /\ TextsOf(d.holds) = ToldExe(e)
Told == \A x \in DOMAIN disk : Tells(x, disk[x])

\* No entry is of a version that is still to come.
NotAhead ==
  \A e \in DOMAIN disk \cup DOMAIN sigs : e[1] = "exe" =>
    \A x \in e[3] : \A c \in x[3] : c[1] \in DOMAIN ver /\ c[2] \in 1..ver[c[1]]

\* What is published under the name of f is the entry of now.  If it is not, it is older
\* than that entry, is not of this moment, and neither what is done nor the signatures
\* speak for it.
Fresh(f)   == Bin(f) \in DOMAIN disk /\ disk[Bin(f)].id[2] = Key(f)
BinBorn(f) == born[disk[Bin(f)].id]
KeyBorn(f) == born[disk[Key(f)].id]
Traced(f) ==
  ~ Fresh(f) => /\ Bin(f) \in DOMAIN disk /\ Key(f) \in DOMAIN disk => BinBorn(f) < KeyBorn(f)
                /\ Bin(f) \in DOMAIN disk /\ phase = "native" => BinBorn(f) < clock
                /\ phase = "native" => Bin(f) \notin DOMAIN st
                /\ Key(f) \notin DOMAIN sigs
                /\ ~ Ended

\* Where the whole graph is built, clang's modules are content addresses and no two
\* targets have one name.
Apt      == ~ o.managed /\ ~ o.only /\ ClangHashed /\ ~ _check_executable_collisions(p, o)
FreshInv == Apt => Clocked /\ Snapshot /\ Current /\ Told /\ NotAhead /\ \A f \in Targets(o) : Traced(f)

\* Two targets of one name are never built.
StuckInv == _check_executable_collisions(p, o) => phase = "idle" /\ why # "ok" /\ running = {}

LEMMA InitFresh ==
  ASSUME Init
  PROVE  FreshInv /\ StuckInv
<1>1. /\ disk = << >> /\ sigs = << >> /\ phase = "idle" /\ why = "none" /\ script = NoScript /\ clock = 1
      /\ running = {} /\ born = [f \in {File(x) : x \in DOMAIN w.p.deps} |-> 1]
  BY DEF Init
<1>2. DOMAIN disk = {} /\ DOMAIN sigs = {}  BY <1>1
<1>3. script.born = 0 /\ script.token = <<"none">>  BY <1>1 DEF NoScript
<1>4. Clocked  BY <1>1, <1>2, <1>3 DEF Clocked, p
<1>5. <<"none">> # <<"all">>  OBVIOUS
<1>6. Snapshot  BY <1>3, <1>5 DEF Snapshot
<1>7. Current /\ Told /\ NotAhead  BY <1>1, <1>2 DEF Current, Told, NotAhead
<1>8. \A f \in Targets(o) : Traced(f)  BY <1>1, <1>2 DEF Traced, Ended
<1> QED  BY <1>1, <1>4, <1>6, <1>7, <1>8 DEF FreshInv, StuckInv

\* What the world alone decides stays; what the tree decides stays with it.
LEMMA SameWorld ==
  ASSUME w' = w
  PROVE  /\ \A x : ToldObj(x)' = ToldObj(x) /\ ToldExe(x)' = ToldExe(x)
         /\ \A h : TextsOf(h)' = TextsOf(h)
         /\ Apt' = Apt /\ Targets(o)' = Targets(o) /\ src' = src /\ Seen' = Seen
         /\ \A f : Bin(f)' = Bin(f)
         /\ \A v : Script(v)' = Script(v)
         /\ _check_executable_collisions(p, o)' = _check_executable_collisions(p, o)
<1>1. p' = p /\ o' = o  BY DEF p, o
<1>2. \A x : ToldObj(x)' = ToldObj(x)  BY <1>1 DEF ToldObj, Only, Hidden
<1>3. \A x : ToldExe(x)' = ToldExe(x)  BY <1>2 DEF ToldExe
<1>4. \A v : Script(v)' = Script(v)  BY <1>1 DEF Script, _write_makefile, Line
<1>5. src' = src /\ Seen' = Seen  BY <1>1 DEF src, Seen
<1>6. Apt' = Apt  BY <1>1 DEF Apt, ClangHashed
<1> QED  BY <1>1, <1>2, <1>3, <1>4, <1>5, <1>6 DEF TextsOf, Bin

LEMMA SameTree ==
  ASSUME w' = w, ver' = ver
  PROVE  /\ \A f : Key(f)' = Key(f)
         /\ Script(ver)' = Script(ver) /\ build_graph(p, o, ver)' = build_graph(p, o, ver)
<1>1. p' = p /\ o' = o  BY DEF p, o
<1>2. \A f : Key(f)' = Key(f)  BY <1>1 DEF Key, lib
<1>3. build_graph(p, o, ver)' = build_graph(p, o, ver)  BY <1>1
<1>4. Script(ver)' = Script(ver)  BY <1>1 DEF Script, _write_makefile, Line
<1> QED  BY <1>2, <1>3, <1>4

\* What is told of a file stays with it.
LEMMA TellsKept ==
  ASSUME w' = w
  PROVE  \A x, d : Tells(x, d)' <=> Tells(x, d)
<1>1. \A x : ToldObj(x)' = ToldObj(x) /\ ToldExe(x)' = ToldExe(x)  BY SameWorld
<1>2. \A h, t : Only(h, t)' = Only(h, t)  BY DEF Only
<1>3. \A h : TextsOf(h)' = TextsOf(h)  BY SameWorld
<1> QED  BY <1>1, <1>2, <1>3 DEF Tells

LEMMA ToldKept ==
  ASSUME Told, w' = w, DOMAIN disk' \subseteq DOMAIN disk, \A x \in DOMAIN disk' : disk'[x] = disk[x]
  PROVE  Told'
BY TellsKept DEF Told

\* What ends or goes on with nothing else moved.
LEMMA FreshKept ==
  ASSUME FreshInv, w' = w, ver' = ver, clock' = clock, disk' = disk, born' = born, sigs' = sigs,
         script' = script, graph' = graph, st' = st, edited' = edited, why' = why \/ why' # "ok",
         phase' = phase \/ (phase' = "idle" /\ why' # "ok")
  PROVE  FreshInv'
<1> SUFFICES ASSUME Apt
             PROVE  (Clocked /\ Snapshot /\ Current /\ Told /\ NotAhead /\ \A f \in Targets(o) : Traced(f))'
  BY SameWorld DEF FreshInv
<1>1. Clocked /\ Snapshot /\ Current /\ Told /\ NotAhead /\ \A f \in Targets(o) : Traced(f)
  BY DEF FreshInv
<1>2. p' = p /\ o' = o  BY DEF p, o
<1>3. Clocked'  BY <1>1, <1>2 DEF Clocked
<1>4. Snapshot'  BY <1>1, SameWorld DEF Snapshot
<1>5. Current'  BY <1>1, SameTree DEF Current
<1>6. Told'  BY <1>1, ToldKept
<1>7. NotAhead'  BY <1>1 DEF NotAhead
<1>8. \A f \in Targets(o)' : Traced(f)'
  <2>1. \A f : Bin(f)' = Bin(f) /\ Key(f)' = Key(f)  BY SameWorld, SameTree
  <2>2. Ended' => Ended  BY DEF Ended
  <2> QED  BY <1>1, <1>2, <2>1, <2>2 DEF Traced, Fresh, BinBorn, KeyBorn
<1> QED  BY <1>3, <1>4, <1>5, <1>6, <1>7, <1>8

\* The files a build names are of the project.
LEMMA FilesKnown ==
  ASSUME PlanInv
  PROVE  /\ \A f \in src : f \in DOMAIN p.deps /\ p.deps[f] \subseteq DOMAIN p.deps
         /\ \A f \in Targets(o) : p.required[f] \subseteq src
         /\ DOMAIN ver = DOMAIN p.deps \cup {ENV} /\ \A x \in DOMAIN ver : ver[x] \in 1..MaxVersion
         /\ MaxVersion \in Nat
<1>1. w \in Worlds /\ ver \in Versions(w)  BY DEF PlanInv
<1>2. \A f \in src : f \in DOMAIN p.deps /\ p.deps[f] \subseteq DOMAIN p.deps
  BY <1>1, FilesAssumption DEF src, p, o
<1>3. \A f \in Targets(o) : p.required[f] \subseteq src
  BY DEF src, all_compile_sources, Needed
<1>4. DOMAIN ver = DOMAIN p.deps \cup {ENV} /\ \A x \in DOMAIN ver : ver[x] \in 1..MaxVersion
  BY <1>1 DEF Versions, p
<1> QED  BY <1>2, <1>3, <1>4, VersionsAssumption

\* The entry that an edited file asks for is not there yet.
LEMMA NewEntry ==
  ASSUME PlanInv, NotAhead, w' = w, NEW a \in DOMAIN ver \ {ENV}, ver' = [ver EXCEPT ![a] = ver[a] + 1],
         NEW f \in Targets(o), Key(f)' \in DOMAIN disk \cup DOMAIN sigs
  PROVE  Key(f)' = Key(f)
<1>1. p' = p /\ o' = o /\ lib' = lib  BY DEF p, o, lib
<1>2. PICK u : u = ver'  OBVIOUS
<1>3. Key(f)' = link_key(p, u, f, lib)  BY <1>1, <1>2 DEF Key
<1>4. Key(f)'[1] = "exe" /\ Key(f)'[3] = Objects(p, u, p.required[f])  BY <1>3 DEF link_key
<1>5. \A s \in p.required[f] : object_pathname(p, u, s)[3] = Text(p, u, s)  BY DEF object_pathname
<1>6. \A s \in p.required[f] : a \notin {s} \cup p.deps[s]
  <2> SUFFICES ASSUME NEW s \in p.required[f], a \in {s} \cup p.deps[s] PROVE FALSE  OBVIOUS
  <2>1. object_pathname(p, u, s) \in Key(f)'[3]  BY <1>4 DEF Objects
  <2>2. <<a, u[a]>> \in object_pathname(p, u, s)[3]  BY <1>5 DEF Text
  <2>3. PICK c : c = <<a, u[a]>>  OBVIOUS
  <2>4. c[2] \in 1..ver[c[1]]  BY <1>4, <2>1, <2>2, <2>3 DEF NotAhead
  <2>5. c[1] = a /\ c[2] = ver[a] + 1  BY <1>2, <2>3
  <2>6. ver[a] \in Nat  BY FilesKnown
  <2> QED  BY <2>4, <2>5, <2>6
<1>7. \A s \in p.required[f] : Text(p, u, s) = Text(p, ver, s)
  <2>1. \A s \in p.required[f] : {s} \cup p.deps[s] \subseteq DOMAIN ver  BY FilesKnown
  <2>2. \A x \in DOMAIN ver : x # a => u[x] = ver[x]  BY <1>2
  <2> QED  BY <1>6, <2>1, <2>2 DEF Text
<1>8. Objects(p, u, p.required[f]) = Objects(p, ver, p.required[f])
  BY <1>7 DEF Objects, object_pathname
<1>9. u[ENV] = ver[ENV]  BY <1>2, FilesKnown
<1> QED  BY <1>3, <1>8, <1>9 DEF Key, link_key

\* An edit after which nothing went back is one of a file, to its next version.
LEMMA EditForth ==
  ASSUME PlanInv, back' = {}, NEW a \in DOMAIN ver, Edit(a)
  PROVE  a # ENV /\ ver' = [ver EXCEPT ![a] = ver[a] + 1]
<1>1. ver[a] \in Nat  BY FilesKnown
<1>2. a # ENV /\ ~ ver'[a] < ver[a]  BY DEF Edit
<1>3. PICK n : n \in {ver[a] + 1 : e \in Edits \ {"back"}} \cup {ver[a] - 1 : e \in Edits \cap {"back"}}
               /\ ver' = [ver EXCEPT ![a] = n]
  BY DEF Edit
<1>4. ver'[a] = n  BY <1>3
<1>5. n = ver[a] + 1 \/ n = ver[a] - 1  BY <1>3
<1>6. n = ver[a] + 1  BY <1>1, <1>2, <1>4, <1>5
<1> QED  BY <1>2, <1>3, <1>6

\* What once went back is remembered.
LEMMA BackGrows ==
  ASSUME [Next]_vars
  PROVE  back \subseteq back'
BY DEF Next, Proceed, Edit, Trim, Generate, Execute, Prebuild, Settle, Succeed, Fail, Start, Finish,
       Interrupt, vars, tree

LEMMA EditFresh ==
  ASSUME PlanInv, FreshInv, back' = {}, NEW a \in DOMAIN ver, Edit(a)
  PROVE  FreshInv'
<1>1. /\ w' = w /\ a # ENV /\ clock' = clock + 1 /\ disk' = disk /\ sigs' = sigs /\ script' = script
      /\ phase = "idle" /\ phase' = "idle" /\ edited' = edited \cup {a}
      /\ born' = [born EXCEPT ![File(a)] = clock + 1] /\ ver' = [ver EXCEPT ![a] = ver[a] + 1]
  BY EditForth DEF Edit, Idle
<1> SUFFICES ASSUME Apt
             PROVE  (Clocked /\ Snapshot /\ Current /\ Told /\ NotAhead /\ \A f \in Targets(o) : Traced(f))'
  BY <1>1, SameWorld DEF FreshInv
<1>2. Clocked /\ Snapshot /\ Told /\ NotAhead /\ \A f \in Targets(o) : Traced(f)
  BY DEF FreshInv
<1>3. p' = p /\ o' = o  BY <1>1 DEF p, o
<1>4. \A x : File(x)[1] = "file" /\ File(x)[2] = x  BY DEF File
<1>5. /\ \A x \in DOMAIN disk : disk[x].id # File(a)
      /\ \A x \in DOMAIN disk : born'[disk[x].id] = born[disk[x].id]
  BY <1>1, <1>2, <1>4 DEF Clocked
<1>6. Clocked'
  <2>1. DOMAIN born' = DOMAIN born  BY <1>1
  <2>2. \A n \in DOMAIN born : born'[n] \in Nat /\ born'[n] <= clock + 1  BY <1>1, <1>2 DEF Clocked
  <2> QED  BY <1>1, <1>2, <1>3, <2>1, <2>2 DEF Clocked
<1>7. Snapshot'
  <2> SUFFICES ASSUME script.token = <<"all">>
               PROVE  \E v : /\ script'.g = Script(v)' /\ v[ENV] = ver'[ENV]
                             /\ \A x \in Seen : v[x] = ver'[x] \/ script.born < born'[File(x)]
    BY <1>1, SameWorld DEF Snapshot
  <2>1. PICK v : /\ script.g = Script(v) /\ v[ENV] = ver[ENV]
                 /\ \A x \in Seen : v[x] = ver[x] \/ script.born < born[File(x)]
    BY <1>2 DEF Snapshot
  <2>2. ver'[ENV] = ver[ENV]  BY <1>1, FilesKnown
  <2>3. ASSUME NEW x \in Seen PROVE v[x] = ver'[x] \/ script.born < born'[File(x)]
    <3>1. x \in DOMAIN p.deps  BY FilesKnown DEF Seen
    <3>2. File(x) \in DOMAIN born /\ x \in DOMAIN ver  BY <1>2, <3>1, FilesKnown DEF Clocked
    <3>3. CASE x = a  BY <1>1, <1>2, <3>2, <3>3 DEF Clocked
    <3>4. CASE x # a
      <4>1. File(x) # File(a)  BY <1>4, <3>4
      <4> QED  BY <1>1, <2>1, <3>2, <3>4, <4>1
    <3> QED  BY <3>3, <3>4
  <2>4. script'.g = Script(v)'  BY <1>1, <2>1, SameWorld
  <2> QED  BY <2>1, <2>2, <2>3, <2>4
<1>8. Current'  BY <1>1 DEF Current
<1>9. Told'  BY <1>1, <1>2, ToldKept
<1>10. NotAhead'
  <2>1. \A x \in DOMAIN ver : ver[x] \in Nat  BY FilesKnown
  <2>2. \A x \in DOMAIN ver : x \in DOMAIN ver' /\ 1..ver[x] \subseteq 1..ver'[x]  BY <1>1, <2>1
  <2> QED  BY <1>1, <1>2, <2>2 DEF NotAhead
<1>11. \A f \in Targets(o)' : Traced(f)'
  <2> SUFFICES ASSUME NEW f \in Targets(o) PROVE Traced(f)'  BY <1>1, SameWorld
  <2>1. Bin(f)' = Bin(f)  BY <1>1, SameWorld
  <2>2. ~ Ended'  BY <1>1 DEF Ended
  <2>3. CASE Key(f)' \in DOMAIN disk \cup DOMAIN sigs
    <3>1. Key(f)' = Key(f)  BY <1>1, <1>2, <2>3, NewEntry
    <3> QED  BY <1>1, <1>2, <1>5, <2>1, <2>2, <3>1 DEF Traced, Fresh, BinBorn, KeyBorn
  <2>4. CASE Key(f)' \notin DOMAIN disk \cup DOMAIN sigs
    BY <1>1, <2>2, <2>4 DEF Traced
  <2> QED  BY <2>3, <2>4
<1> QED  BY <1>6, <1>7, <1>8, <1>9, <1>10, <1>11

LEMMA TrimFresh ==
  ASSUME FreshInv, NEW x \in DOMAIN disk, Trim(x)
  PROVE  FreshInv'
<1>1. /\ w' = w /\ ver' = ver /\ clock' = clock /\ born' = born /\ sigs' = sigs /\ script' = script
      /\ graph' = graph /\ st' = st /\ phase = "idle" /\ phase' = phase /\ why' = "none"
      /\ disk' = Restrict(disk, DOMAIN disk \ {x, Beside(x)}) /\ x[1] # "bin"
  BY DEF Trim, Idle
<1> SUFFICES ASSUME Apt
             PROVE  (Clocked /\ Snapshot /\ Current /\ Told /\ NotAhead /\ \A f \in Targets(o) : Traced(f))'
  BY <1>1, SameWorld DEF FreshInv
<1>2. Clocked /\ Snapshot /\ Told /\ NotAhead /\ \A f \in Targets(o) : Traced(f)
  BY DEF FreshInv
<1>3. p' = p /\ o' = o  BY <1>1 DEF p, o
<1>4. /\ DOMAIN disk' = DOMAIN disk \ {x, Beside(x)}
      /\ \A y \in DOMAIN disk' : y \in DOMAIN disk /\ disk'[y] = disk[y]
  BY <1>1 DEF Restrict
<1>5. Clocked'  BY <1>1, <1>2, <1>3, <1>4 DEF Clocked
<1>6. Snapshot'  BY <1>1, <1>2, SameWorld DEF Snapshot
<1>7. Current'  BY <1>1 DEF Current
<1>8. Told'
  <2>1. DOMAIN disk' \subseteq DOMAIN disk  BY <1>4
  <2> QED  BY <1>1, <1>2, <1>4, <2>1, ToldKept
<1>9. NotAhead'  BY <1>1, <1>2, <1>4 DEF NotAhead
<1>10. \A f \in Targets(o)' : Traced(f)'
  <2> SUFFICES ASSUME NEW f \in Targets(o) PROVE Traced(f)'  BY <1>1, SameWorld
  <2>1. Bin(f)' = Bin(f) /\ Key(f)' = Key(f)  BY <1>1, SameWorld, SameTree
  <2>2. ~ Ended'  BY <1>1 DEF Ended
  <2>3. Bin(f) \in DOMAIN disk => Bin(f) \in DOMAIN disk'
    <3>1. Bin(f)[1] = "bin"  BY DEF Bin, executable_pathname, published
    <3>2. Beside(x)[1] = "result"  BY DEF Beside
    <3> QED  BY <1>1, <1>4, <3>1, <3>2
  <2> QED  BY <1>1, <1>2, <1>4, <2>1, <2>2, <2>3 DEF Traced, Fresh, BinBorn, KeyBorn
<1> QED  BY <1>5, <1>6, <1>7, <1>8, <1>9, <1>10

LEMMA GenerateFresh ==
  ASSUME PlanInv, FreshInv, Generate
  PROVE  FreshInv'
<1>1. /\ w' = w /\ ver' = ver /\ clock' = clock + 1 /\ born' = born /\ sigs' = sigs /\ disk' = disk
      /\ phase = "idle" /\ st' = << >>
  BY DEF Generate, Idle, tree, saved
<1> SUFFICES ASSUME Apt
             PROVE  (Clocked /\ Snapshot /\ Current /\ Told /\ NotAhead /\ \A f \in Targets(o) : Traced(f))'
  BY <1>1, SameWorld DEF FreshInv
<1>2. Clocked /\ Snapshot /\ Told /\ NotAhead /\ \A f \in Targets(o) : Traced(f)
  BY DEF FreshInv
<1>3. p' = p /\ o' = o  BY <1>1 DEF p, o
<1>4. PICK g : g = build_graph(p, o, ver)  OBVIOUS
<1>5. _apply_build_only_changed(g) = g /\ _build_file_header_token = <<"all">>
  BY DEF Apt, _apply_build_only_changed, _build_file_header_token, Selected
<1>6. /\ graph' = g /\ phase' = "planned" /\ why' = "none"
      /\ script' = IF _build_file_uptodate(g) THEN script
                   ELSE [g |-> _write_makefile(g), token |-> <<"all">>, born |-> clock + 1]
  BY <1>1, <1>4, <1>5 DEF Generate, Apt
<1>7. OneExporter /\ OneInterface
  BY ModulesAssumption DEF PlanInv, OneExporter, OneInterface, src, p, o
<1>8. script'.g = Script(ver)
  <2>1. CASE _build_file_uptodate(g)
    <3>1. script' = script /\ script.token = <<"all">>
      BY <1>5, <1>6, <2>1 DEF _build_file_uptodate
    <3>2. PICK v : /\ script.g = Script(v) /\ v[ENV] = ver[ENV]
                   /\ \A x \in Seen : v[x] = ver[x] \/ script.born < born[File(x)]
      BY <1>2, <3>1 DEF Snapshot
    <3>3. ASSUME NEW f \in src, NEW x \in {f} \cup p.deps[f] PROVE v[x] = ver[x]
      <4>1. PICK d \in DOMAIN g : g[d].type = "compile" /\ File(x) \in g[d].ins
        BY <1>4, <1>7, FilesListed
      <4>2. File(x) \notin DOMAIN g  BY <1>4, <1>7, FilesListed
      <4>3. Born(File(x)) < script.born
        <5>1. Present(File(x))  BY DEF Present, File
        <5> QED  BY <2>1, <4>1, <4>2, <5>1 DEF _build_file_uptodate
      <4>4. Born(File(x)) = born[File(x)]  BY DEF Born, File
      <4>5. x \in Seen /\ x \in DOMAIN p.deps  BY FilesKnown DEF Seen
      <4>6. born[File(x)] \in Nat /\ script.born \in Nat  BY <1>2, <4>5 DEF Clocked
      <4> QED  BY <3>2, <4>3, <4>4, <4>5, <4>6
    <3>4. Alike(v, ver)
      <4>1. \A f \in src : Text(p, v, f) = Text(p, ver, f)  BY <3>3 DEF Text
      <4> QED  BY <3>2, <4>1 DEF Alike
    <3>5. build_graph(p, o, v) = build_graph(p, o, ver)  BY <1>7, <3>4, AlikePlans DEF PlanInv
    <3> QED  BY <3>1, <3>2, <3>5 DEF Script
  <2>2. CASE ~ _build_file_uptodate(g)
    BY <1>4, <1>6, <2>2 DEF Script
  <2> QED  BY <2>1, <2>2
<1>9. Clocked'  BY <1>1, <1>2, <1>3, <1>6 DEF Clocked
<1>10. Snapshot'
  <2>1. PICK v : v = ver  OBVIOUS
  <2>2. script'.g = Script(v)'  BY <1>1, <1>8, <2>1, SameWorld
  <2> QED  BY <1>1, <2>1, <2>2 DEF Snapshot
<1>11. Current'  BY <1>1, <1>4, <1>6, <1>8, SameTree DEF Current
<1>12. Told'  BY <1>1, <1>2, ToldKept
<1>13. NotAhead'  BY <1>1, <1>2 DEF NotAhead
<1>14. \A f \in Targets(o)' : Traced(f)'
  <2>1. \A f : Bin(f)' = Bin(f) /\ Key(f)' = Key(f)  BY <1>1, SameWorld, SameTree
  <2>2. ~ Ended'  BY <1>6 DEF Ended
  <2>3. Targets(o)' = Targets(o)  BY <1>1, SameWorld
  <2> QED  BY <1>1, <1>2, <1>6, <2>1, <2>2, <2>3 DEF Traced, Fresh, BinBorn, KeyBorn
<1> QED  BY <1>9, <1>10, <1>11, <1>12, <1>13, <1>14

\* An entry that a file in bin was linked to, if it is one of now, is that of its own name.
LEMMA OwnEntry ==
  ASSUME Told, OneName, NEW f \in Targets(o), Bin(f) \in DOMAIN disk, NEW h \in Targets(o),
         disk[Bin(f)].id[2] = Key(h)
  PROVE  Fresh(f)
<1>1. Bin(f)[1] = "bin" /\ Bin(f)[2] = "exe" /\ Bin(f)[3] = p.stem[f]
  BY DEF Bin, executable_pathname, published
<1>2. Key(h)[2] = p.stem[h]  BY DEF Key, link_key
<1>3. Tells(Bin(f), disk[Bin(f)])  BY DEF Told
<1>4. p.stem[h] = p.stem[f]  BY <1>1, <1>2, <1>3 DEF Tells
<1>5. h = f  BY <1>4 DEF OneName
<1> QED  BY <1>5 DEF Fresh

\* A file in bin and what a line publishes are one node only if the line is its own.
LEMMA OwnNode ==
  ASSUME Told, OneName, NEW f \in Targets(o), Bin(f) \in DOMAIN disk, ~ Fresh(f),
         NEW r, Publishes(r, ver), NEW e \in r.ins, e \in DOMAIN disk
  PROVE  disk[e].id # disk[Bin(f)].id
<1> SUFFICES ASSUME disk[e].id = disk[Bin(f)].id PROVE FALSE  OBVIOUS
<1>1. Bin(f)[1] = "bin" /\ Bin(f)[2] = "exe"  BY DEF Bin, executable_pathname, published
<1>2. disk[Bin(f)].id[2][1] = "exe"  BY <1>1 DEF Told, Tells
<1>3. CASE \E h \in Targets(o) : r.out = Bin(h) /\ r.ins = {link_key(p, ver, h, lib)}
  <2>1. PICK h \in Targets(o) : e = Key(h)  BY <1>3 DEF Key
  <2>2. e[1] = "exe"  BY <2>1 DEF Key, link_key
  <2>3. disk[e].id[2] = e  BY <2>2 DEF Told, Tells
  <2> QED  BY <2>1, <2>3, OwnEntry
<1>4. CASE \E cas : r.ins = {cas} /\ cas[1] \in {"a", "so"}
  <2>1. e[1] \in {"a", "so"}  BY <1>4
  <2>2. disk[e].id[2] = e  BY <2>1 DEF Told, Tells
  <2> QED  BY <1>2, <2>1, <2>2
<1> QED  BY <1>3, <1>4 DEF Publishes

LEMMA ExecuteFresh ==
  ASSUME PlanInv, FreshInv, WellInv, NEW long, Execute(long)
  PROVE  FreshInv'
<1>1. /\ w' = w /\ ver' = ver /\ clock' = clock /\ sigs' = sigs /\ disk' = disk /\ script' = script
      /\ graph' = graph /\ st' = st /\ phase = "planned" /\ born' = Freshened(long)
  BY DEF Execute
<1> SUFFICES ASSUME Apt
             PROVE  (Clocked /\ Snapshot /\ Current /\ Told /\ NotAhead /\ \A f \in Targets(o) : Traced(f))'
  BY <1>1, SameWorld DEF FreshInv
<1>2. Clocked /\ Snapshot /\ Current /\ Told /\ NotAhead /\ \A f \in Targets(o) : Traced(f)
  BY DEF FreshInv
<1>3. p' = p /\ o' = o  BY <1>1 DEF p, o
<1>4. OneName /\ ~ o.managed  BY NamesDiffer DEF Apt
<1>5. PICK g : g = build_graph(p, o, ver)  OBVIOUS
<1>6. graph = g /\ why # "ok"  BY <1>1, <1>2, <1>5 DEF Current
<1>7. \/ _all_outputs_current(graph) /\ phase' = "idle"
      \/ phase' = "native" /\ why' \in {why, "no rule"}
  BY <1>4 DEF Execute
<1>8. /\ DOMAIN born' = DOMAIN born
      /\ \A n \in DOMAIN born : \/ born'[n] = born[n]
                                \/ /\ born'[n] = clock
                                   /\ \E e \in _published_cas_entries(graph) \cap DOMAIN disk : disk[e].id = n
  BY <1>1 DEF Freshened
<1>9. Clocked'
  <2>1. \A n \in DOMAIN born : born'[n] \in Nat /\ born'[n] <= clock  BY <1>2, <1>8 DEF Clocked
  <2> QED  BY <1>1, <1>2, <1>3, <1>7, <1>8, <2>1 DEF Clocked
<1>10. Snapshot'
  <2>1. ASSUME NEW x \in Seen PROVE born'[File(x)] = born[File(x)]
    <3>1. x \in DOMAIN p.deps  BY FilesKnown DEF Seen
    <3>2. File(x) \in DOMAIN born  BY <1>2, <3>1 DEF Clocked
    <3>3. File(x)[1] = "file"  BY DEF File
    <3> QED  BY <1>2, <1>8, <3>2, <3>3 DEF Clocked
  <2> QED  BY <1>1, <1>2, <2>1, SameWorld DEF Snapshot
<1>11. Current'  BY <1>1, <1>2, <1>6, <1>7, SameTree DEF Current
<1>12. Told'  BY <1>1, <1>2, ToldKept
<1>13. NotAhead'  BY <1>1, <1>2 DEF NotAhead
<1>14. \A f \in Targets(o)' : Traced(f)'
  <2> SUFFICES ASSUME NEW f \in Targets(o) PROVE Traced(f)'  BY <1>1, SameWorld
  <2>1. Bin(f)' = Bin(f) /\ Key(f)' = Key(f)  BY <1>1, SameWorld, SameTree
  <2>2. Fresh(f)' = Fresh(f)  BY <1>1, <2>1 DEF Fresh
  <2> SUFFICES ASSUME ~ Fresh(f) PROVE Traced(f)'  BY <2>2 DEF Traced
  <2>3. Key(f) \notin DOMAIN sigs  BY <1>2 DEF Traced
  <2>4. ~ _all_outputs_current(graph)
    <3>1. PICK ins : ins = Objects(p, ver, p.required[f]) \cup lib  OBVIOUS
    <3>2. PICK r : r = g[Key(f)]  OBVIOUS
    <3>3. Key(f) \in DOMAIN g
      <4>1. Key(f) \in DOMAIN Script(ver)  BY <1>4, PublishedLine DEF Key
      <4> QED  BY <1>5, <4>1 DEF Script, _write_makefile
    <3>4. r \in PlannedRules(p, o, ver) /\ r.out = Key(f)  BY <1>5, <3>2, <3>3, GraphRules
    <3>5. Key(f)[1] = "exe"  BY DEF Key, link_key
    <3>6. r.type = "link"  BY <1>4, <3>4, <3>5, ExecutableRules DEF BuildRule
    <3>7. r \in RulesOf(graph, CAS_LINKED_TYPES)
      BY <1>6, <3>2, <3>3, <3>6 DEF RulesOf, CAS_LINKED_TYPES, CAS_PRODUCER_TYPES
    <3> QED  BY <2>3, <3>4, <3>7 DEF _all_outputs_current
  <2>5. phase' = "native" /\ why' # "ok"  BY <1>6, <1>7, <2>4
  <2>6. ~ Ended'  BY <2>5 DEF Ended
  <2>7. DOMAIN st' = {}  BY <1>1 DEF WellInv, Whole, Apt, Staged
  <2>8. Bin(f) \in DOMAIN disk => BinBorn(f)' = BinBorn(f) /\ BinBorn(f) < clock
    <3> SUFFICES ASSUME Bin(f) \in DOMAIN disk PROVE BinBorn(f)' = BinBorn(f) /\ BinBorn(f) < clock
      OBVIOUS
    <3>1. disk[Bin(f)].id \in DOMAIN born /\ born[disk[Bin(f)].id] < clock  BY <1>1, <1>2 DEF Clocked
    <3>2. ASSUME NEW e \in _published_cas_entries(graph) \cap DOMAIN disk PROVE disk[e].id # disk[Bin(f)].id
      <4>1. PICK y \in DOMAIN g : g[y].type = "symlink" /\ e \in g[y].ins
        BY <1>6 DEF _published_cas_entries, RulesOf
      <4>2. PICK r : r = g[y]  OBVIOUS
      <4>3. r \in PlannedRules(p, o, ver)  BY <1>5, <4>2, GraphRules
      <4>4. Publishes(r, ver) /\ e \in r.ins  BY <1>4, <4>1, <4>2, <4>3, SymlinkRule
      <4> QED  BY <1>2, <1>4, <4>4, OwnNode
    <3>3. born'[disk[Bin(f)].id] = born[disk[Bin(f)].id]  BY <1>8, <3>1, <3>2
    <3> QED  BY <1>1, <2>1, <3>1, <3>3 DEF BinBorn
  <2>9. Key(f) \in DOMAIN disk => KeyBorn(f)' \in {KeyBorn(f), clock}
    BY <1>1, <1>2, <1>8, <2>1 DEF Clocked, KeyBorn
  <2>10. Bin(f) \in DOMAIN disk /\ Key(f) \in DOMAIN disk => BinBorn(f) < KeyBorn(f)  BY <1>2 DEF Traced
  <2>11. (Bin(f) \in DOMAIN disk /\ Key(f) \in DOMAIN disk)' => (BinBorn(f) < KeyBorn(f))'
    BY <1>1, <2>1, <2>8, <2>9, <2>10
  <2>12. (Bin(f) \in DOMAIN disk /\ phase = "native")' => (BinBorn(f) < clock)'
    BY <1>1, <2>1, <2>8
  <2> QED  BY <1>1, <2>1, <2>3, <2>6, <2>7, <2>11, <2>12 DEF Traced
<1> QED  BY <1>9, <1>10, <1>11, <1>12, <1>13, <1>14

LEMMA SucceedFresh ==
  ASSUME PlanInv, FreshInv, WellInv, Succeed
  PROVE  FreshInv'
<1>1. /\ w' = w /\ ver' = ver /\ clock' = clock /\ disk' = disk /\ script' = script /\ born' = born
      /\ graph' = graph /\ st' = st /\ phase' = "idle"
      /\ \/ phase = "native" /\ DOMAIN st = DOMAIN script.g
         \/ phase = "prebuild"
      /\ sigs' \in {sigs, _record_link_signatures(graph)}
  BY DEF Succeed
<1> SUFFICES ASSUME Apt
             PROVE  (Clocked /\ Snapshot /\ Current /\ Told /\ NotAhead /\ \A f \in Targets(o) : Traced(f))'
  BY <1>1, SameWorld DEF FreshInv
<1>2. Clocked /\ Snapshot /\ Current /\ Told /\ NotAhead /\ \A f \in Targets(o) : Traced(f)
  BY DEF FreshInv
<1>3. p' = p /\ o' = o  BY <1>1 DEF p, o
<1>4. OneName /\ ~ o.managed  BY NamesDiffer DEF Apt
<1>5. phase = "native" /\ DOMAIN st = DOMAIN script.g  BY <1>1 DEF WellInv, Whole, Apt, Staged
<1>6. Clocked'  BY <1>1, <1>2, <1>3 DEF Clocked
<1>7. Snapshot'  BY <1>1, <1>2, SameWorld DEF Snapshot
<1>8. Current'  BY <1>1 DEF Current
<1>9. Told'  BY <1>1, <1>2, ToldKept
<1>10. NotAhead'
  <2>1. DOMAIN sigs' \subseteq DOMAIN sigs \cup DOMAIN disk
    BY <1>1 DEF _record_link_signatures, With
  <2> QED  BY <1>1, <1>2, <2>1 DEF NotAhead
<1>11. \A f \in Targets(o)' : Traced(f)'
  <2> SUFFICES ASSUME NEW f \in Targets(o) PROVE Traced(f)'  BY <1>1, SameWorld
  <2>1. Bin(f)' = Bin(f) /\ Key(f)' = Key(f)  BY <1>1, SameWorld, SameTree
  <2>2. Bin(f) \in DOMAIN script.g
    <3>1. script.g = Script(ver)  BY <1>2, <1>5 DEF Current
    <3> QED  BY <1>4, <3>1, PublishedLine
  <2>3. Fresh(f)  BY <1>2, <1>5, <2>2 DEF Traced
  <2>4. Fresh(f)'  BY <1>1, <2>1, <2>3 DEF Fresh
  <2> QED  BY <2>4 DEF Traced
<1> QED  BY <1>6, <1>7, <1>8, <1>9, <1>10, <1>11

LEMMA SettleFresh ==
  ASSUME PlanInv, FreshInv, WellInv, Settle
  PROVE  FreshInv'
<1> DEFINE dirs == {x \in Settled : Rule(x).type = "mkdir" /\ x \notin DOMAIN disk}
<1>1. /\ w' = w /\ ver' = ver /\ clock' = clock /\ sigs' = sigs /\ script' = script /\ graph' = graph
      /\ phase = "native" /\ phase' = phase /\ why' = why /\ st' = Mark(Settled, "kept")
      /\ disk' = With(disk, [x \in dirs |-> [holds |-> {}, id |-> Node(x)]])
      /\ born' = With(born, [n \in {Node(x) : x \in dirs} |-> clock])
  BY DEF Settle, tree, Going
<1> SUFFICES ASSUME Apt
             PROVE  (Clocked /\ Snapshot /\ Current /\ Told /\ NotAhead /\ \A f \in Targets(o) : Traced(f))'
  BY <1>1, SameWorld DEF FreshInv
<1>2. Clocked /\ Snapshot /\ Current /\ Told /\ NotAhead /\ \A f \in Targets(o) : Traced(f)
  BY DEF FreshInv
<1>3. p' = p /\ o' = o  BY <1>1 DEF p, o
<1>4. OneName /\ ~ o.managed  BY NamesDiffer DEF Apt
<1>5. script.g = Script(ver)  BY <1>1, <1>2 DEF Current
<1>6. \A x \in dirs : x[1] \in {"dir", "bucket"}
  <2>1. \A x \in Settled : x \in DOMAIN script.g  BY DEF Settled, Ready
  <2> QED  BY <1>4, <1>5, <2>1, OtherLines DEF Rule
<1> HIDE DEF dirs
<1>7. /\ DOMAIN disk' = DOMAIN disk \cup dirs
      /\ \A x \in DOMAIN disk : disk'[x] = disk[x]
      /\ \A x \in DOMAIN disk' \ DOMAIN disk : disk'[x].id = Node(x) /\ x \in dirs
  BY <1>1 DEF With
<1>8. /\ DOMAIN born' = DOMAIN born \cup {Node(x) : x \in dirs}
      /\ \A n \in DOMAIN born : born'[n] = born[n]
      /\ \A n \in DOMAIN born' \ DOMAIN born : born'[n] = clock
  BY <1>1 DEF With
<1>9. Clocked'
  <2>1. \A x \in dirs : Node(x)[1] = "node"  BY DEF Node
  <2>2. \A n \in DOMAIN born' : born'[n] \in Nat /\ born'[n] <= clock  BY <1>2, <1>8 DEF Clocked
  <2>3. \A x \in DOMAIN disk' : disk'[x].id \in DOMAIN born' /\ disk'[x].id[1] = "node"
    BY <1>2, <1>7, <1>8, <2>1 DEF Clocked
  <2> QED  BY <1>1, <1>2, <1>3, <1>8, <2>2, <2>3 DEF Clocked
<1>10. Snapshot'
  <2>1. \A x \in Seen : x \in DOMAIN p.deps  BY FilesKnown DEF Seen
  <2>2. \A x \in Seen : born'[File(x)] = born[File(x)]  BY <1>2, <1>8, <2>1 DEF Clocked
  <2> QED  BY <1>1, <1>2, <2>2, SameWorld DEF Snapshot
<1>11. Current'  BY <1>1, <1>2, SameTree DEF Current
<1>12. Told'
  <2>1. \A x, d : x[1] \in {"dir", "bucket"} => Tells(x, d)  BY DEF Tells
  <2>2. \A x, d : Tells(x, d)' <=> Tells(x, d)  BY <1>1, TellsKept
  <2>3. \A x \in DOMAIN disk' : Tells(x, disk'[x])  BY <1>2, <1>6, <1>7, <2>1 DEF Told
  <2> QED  BY <2>2, <2>3 DEF Told
<1>13. NotAhead'  BY <1>1, <1>2, <1>6, <1>7 DEF NotAhead
<1>14. \A f \in Targets(o)' : Traced(f)'
  <2> SUFFICES ASSUME NEW f \in Targets(o) PROVE Traced(f)'  BY <1>1, SameWorld
  <2>1. Bin(f)' = Bin(f) /\ Key(f)' = Key(f)  BY <1>1, SameWorld, SameTree
  <2>2. Bin(f)[1] = "bin" /\ Key(f)[1] = "exe"
    BY DEF Bin, executable_pathname, published, Key, link_key
  <2>3. /\ Bin(f) \in DOMAIN disk' <=> Bin(f) \in DOMAIN disk
        /\ Key(f) \in DOMAIN disk' <=> Key(f) \in DOMAIN disk
    BY <1>6, <1>7, <2>2
  <2>4. Fresh(f)' = Fresh(f)  BY <1>7, <2>1, <2>3 DEF Fresh
  <2> SUFFICES ASSUME ~ Fresh(f) PROVE Traced(f)'  BY <2>4 DEF Traced
  <2>5. /\ Bin(f) \in DOMAIN disk => BinBorn(f)' = BinBorn(f)
        /\ Key(f) \in DOMAIN disk => KeyBorn(f)' = KeyBorn(f)
    BY <1>2, <1>7, <1>8, <2>1 DEF Clocked, BinBorn, KeyBorn
  <2>6. Bin(f) \notin Settled
    <3> SUFFICES ASSUME Bin(f) \in Settled PROVE FALSE  OBVIOUS
    <3>1. PICK l : l = Rule(Bin(f))  OBVIOUS
    <3>2. /\ l.type = "symlink" /\ l.out = Bin(f) /\ l.ins = {Key(f)} /\ Key(f) \in Waits(l)
          /\ Key(f) \in DOMAIN script.g
      BY <1>4, <1>5, <3>1, PublishedLine DEF Rule, Key
    <3>3. ~ OutOfDate(Bin(f)) /\ Bin(f) \in Ready  BY <3>1, <3>2 DEF Settled
    <3>4. Key(f) \in DOMAIN st  BY <3>1, <3>2, <3>3 DEF Ready
    <3>5. Key(f) \in DOMAIN disk
      <4>1. Rule(Key(f)).type = "link" /\ Rule(Key(f)).out = Key(f)
        BY <1>4, <1>5, <2>2, <3>2, ExecutableLine DEF Rule
      <4>2. Declared(Rule(Key(f))) = {Key(f)}  BY <4>1 DEF Declared
      <4> QED  BY <1>1, <3>4, <4>1, <4>2 DEF WellInv, Whole, Apt, Left
    <3>6. Declared(l) = {Bin(f)}  BY <3>2 DEF Declared
    <3>7. Bin(f) \in DOMAIN disk /\ ~ Newer(Key(f), Bin(f))
      BY <3>1, <3>2, <3>3, <3>6 DEF OutOfDate
    <3>8. Present(Key(f))  BY <3>5 DEF Present
    <3>9. Born(Key(f)) = KeyBorn(f) /\ Born(Bin(f)) = BinBorn(f)
      BY <2>2 DEF Born, KeyBorn, BinBorn
    <3>10. ~ (KeyBorn(f) > BinBorn(f))  BY <3>4, <3>7, <3>8, <3>9 DEF Newer
    <3>11. BinBorn(f) < KeyBorn(f)  BY <1>2, <3>5, <3>7 DEF Traced
    <3>12. BinBorn(f) \in Nat /\ KeyBorn(f) \in Nat
      BY <1>2, <3>5, <3>7 DEF Clocked, BinBorn, KeyBorn
    <3> QED  BY <3>10, <3>11, <3>12
  <2>7. DOMAIN st' = DOMAIN st \cup Settled  BY <1>1 DEF Mark
  <2>8. ~ Ended'  BY <1>1 DEF Ended
  <2> QED  BY <1>1, <1>2, <2>1, <2>3, <2>5, <2>6, <2>7, <2>8 DEF Traced
<1> QED  BY <1>9, <1>10, <1>11, <1>12, <1>13, <1>14

\* A command that makes new files.
LEMMA MadeTells ==
  ASSUME PlanInv, NEW x \in DOMAIN Script(ver), Apt, Told, NEW r, r = Script(ver)[x], ~ Missing(r),
         r.type # "symlink", NEW z \in Outputs(r)
  PROVE  Tells(z, [holds |-> Image(r), id |-> Node(x)])
<1>1. OneName /\ ~ o.managed /\ ClangHashed  BY NamesDiffer DEF Apt
<1>2. Objs /\ Pcms  BY DEF Told, Tells, Objs, Pcms
<1>3. z[1] \in {"o", "pcm", "exe", "a", "so", "bin"} => z = x  BY WrittenAlone
<1>4. z[1] = "bin" => z[2] # "exe"  BY <1>1, <1>3, OtherLines
<1>5. z[1] = "o" => TextsOf(Image(r)) = ToldObj(z)  BY <1>1, <1>2, <1>3, ObjectText
<1>6. z[1] = "pcm" => TextsOf(Image(r)) = Only(z[3], "text")  BY <1>1, <1>3, PcmText
<1>7. z[1] = "exe" => TextsOf(Image(r)) = ToldExe(z)  BY <1>1, <1>2, <1>3, ExecutableText
<1>8. Node(x)[2] = x  BY DEF Node
<1> QED  BY <1>3, <1>4, <1>5, <1>6, <1>7, <1>8 DEF Tells

\* A command that went well leaves what it made under the names it writes, and nothing
\* else is another file; of the nodes it moves the time of one, to now.
MadeNew(x, r, n) ==
  /\ r.type # "symlink" /\ n = Node(x) /\ DOMAIN disk' = DOMAIN disk \cup Outputs(r)
  /\ \A z \in Outputs(r) : disk'[z] = [holds |-> Image(r), id |-> n]
  /\ \A y \in DOMAIN disk \ Outputs(r) : disk'[y] = disk[y]
Linked(x, r, n) ==
  /\ r.type = "symlink" /\ Publishes(r, ver) /\ DOMAIN disk' = DOMAIN disk \cup {x}
  /\ \E e \in DOMAIN disk : r.ins = {e} /\ n = disk[e].id /\ disk'[x] = disk[e]
  /\ \A y \in DOMAIN disk : y # x => disk'[y] = disk[y]

LEMMA MadeIs ==
  ASSUME Apt, Clocked, Complete(script.g), NEW x \in DOMAIN script.g, script.g = Script(ver),
         NEW r, r = Rule(x), ~ Missing(r), ~ Bad(r), Ran(r)
  PROVE  \E n : /\ n[1] = "node" /\ DOMAIN born' = DOMAIN born \cup {n} /\ born'[n] = clock
                /\ \A m \in DOMAIN born : m # n => born'[m] = born[m]
                /\ MadeNew(x, r, n) \/ Linked(x, r, n)
<1>1. disk' = With(Made(r), disk) /\ born' = With([m \in {Made(r)[y].id : y \in DOMAIN Made(r)} |-> clock], born)
  BY DEF Ran
<1>2. r.out = x /\ x \in Outputs(r)  BY DEF Complete, Thorough, Declared, Rule
<1>3. ~ o.managed  BY DEF Apt
<1>4. CASE r.type = "symlink"
  <2>1. Publishes(r, ver) /\ r.reads = r.ins  BY <1>3, <1>4, SymlinkLine DEF Rule
  <2>2. PICK e : r.ins = {e} /\ e[1] # "file"
    <3>1. \A f : link_key(p, ver, f, lib)[1] = "exe"  BY DEF link_key
    <3> QED  BY <2>1, <3>1 DEF Publishes
  <2>3. e \in DOMAIN disk  BY <2>1, <2>2 DEF Missing, Present
  <2>5. Made(r) = [y \in {x} |-> disk[e]]
    <3>1. Made(r) = [y \in {r.out} |-> disk[CHOOSE z \in r.ins : TRUE]]  BY <1>4 DEF Made
    <3>2. PICK c : c = CHOOSE z \in r.ins : TRUE  OBVIOUS
    <3>3. c = e  BY <2>2, <3>2
    <3> QED  BY <1>2, <3>1, <3>2, <3>3
  <2>6. PICK made : made = Made(r)  OBVIOUS
  <2>7. DOMAIN made = {x} /\ made[x] = disk[e]  BY <2>5, <2>6
  <2>8. {made[y].id : y \in DOMAIN made} = {disk[e].id}  BY <2>7
  <2>9. DOMAIN disk' = DOMAIN disk \cup {x} /\ disk'[x] = disk[e] /\ \A y \in DOMAIN disk : y # x => disk'[y] = disk[y]
    BY <1>1, <2>6, <2>7 DEF With
  <2>10. PICK n : n = disk[e].id  OBVIOUS
  <2>11. born' = With([m \in {n} |-> clock], born)  BY <1>1, <2>6, <2>8, <2>10
  <2>12. DOMAIN born' = DOMAIN born \cup {n} /\ born'[n] = clock /\ \A m \in DOMAIN born : m # n => born'[m] = born[m]
    BY <2>11 DEF With
  <2>13. n[1] = "node"  BY <2>3, <2>10 DEF Clocked
  <2>14. Linked(x, r, n)  BY <1>4, <2>1, <2>2, <2>3, <2>9, <2>10 DEF Linked
  <2> QED  BY <2>12, <2>13, <2>14
<1>5. CASE r.type # "symlink"
  <2>1. PICK n : n = Node(x)  OBVIOUS
  <2>2. PICK d : d = [holds |-> Image(r), id |-> n]  OBVIOUS
  <2>3. Made(r) = [y \in Outputs(r) |-> d]  BY <1>2, <1>5, <2>1, <2>2 DEF Made, Leaves
  <2>4. PICK made, outs : made = Made(r) /\ outs = Outputs(r)  OBVIOUS
  <2>5. DOMAIN made = outs /\ \A y \in outs : made[y] = d  BY <2>3, <2>4
  <2>6. {made[y].id : y \in DOMAIN made} = {n}  BY <1>2, <2>2, <2>4, <2>5
  <2>7. /\ DOMAIN disk' = DOMAIN disk \cup outs /\ \A z \in outs : disk'[z] = d
        /\ \A y \in DOMAIN disk \ outs : disk'[y] = disk[y]
    BY <1>1, <2>4, <2>5 DEF With
  <2>8. born' = With([m \in {n} |-> clock], born)  BY <1>1, <2>4, <2>6
  <2>9. DOMAIN born' = DOMAIN born \cup {n} /\ born'[n] = clock /\ \A m \in DOMAIN born : m # n => born'[m] = born[m]
    BY <2>8 DEF With
  <2>10. n[1] = "node"  BY <2>1 DEF Node
  <2>11. MadeNew(x, r, n)  BY <1>5, <2>1, <2>2, <2>4, <2>7 DEF MadeNew
  <2> QED  BY <2>9, <2>10, <2>11
<1> QED  BY <1>4, <1>5

\* A command that went well, of the script of the tree as it is.
LEMMA RanFresh ==
  ASSUME PlanInv, Apt, WellInv, Clocked, Snapshot, Current, Told, NotAhead,
         \A f \in Targets(o) : Traced(f), phase = "native", NEW x \in running,
         NEW r, r = Rule(x), ~ Missing(r), ~ Bad(r), Ran(r),
         w' = w, ver' = ver, clock' = clock, sigs' = sigs, script' = script, graph' = graph, phase' = phase,
         why' = why, DOMAIN st' = DOMAIN st \cup {x}
  PROVE  (Clocked /\ Snapshot /\ Current /\ Told /\ NotAhead /\ \A f \in Targets(o) : Traced(f))'
<1>1. OneName /\ ~ o.managed  BY NamesDiffer DEF Apt
<1>2. script.g = Script(ver)  BY DEF Current
<1>3. Complete(script.g)  BY DEF WellInv, Whole, Apt
<1>4. x \in DOMAIN script.g  BY DEF PlanInv, Orderly
<1>5. r = Script(ver)[x]  BY <1>2 DEF Rule
<1>6. PICK n : /\ n[1] = "node" /\ DOMAIN born' = DOMAIN born \cup {n} /\ born'[n] = clock
               /\ \A m \in DOMAIN born : m # n => born'[m] = born[m]
               /\ MadeNew(x, r, n) \/ Linked(x, r, n)
  BY <1>2, <1>3, <1>4, MadeIs
<1>7. p' = p /\ o' = o  BY DEF p, o
<1>8. \A y \in DOMAIN disk' : disk'[y].id = n \/ (y \in DOMAIN disk /\ disk'[y] = disk[y])
  <2>1. CASE MadeNew(x, r, n)
    <3>1. \A y \in Outputs(r) : disk'[y].id = n  BY <2>1 DEF MadeNew
    <3> QED  BY <2>1, <3>1 DEF MadeNew
  <2>2. CASE Linked(x, r, n)
    <3>1. disk'[x].id = n  BY <2>2 DEF Linked
    <3> QED  BY <2>2, <3>1 DEF Linked
  <2> QED  BY <1>6, <2>1, <2>2
<1>9. Clocked'
  <2>1. \A m \in DOMAIN born' : born'[m] \in Nat /\ born'[m] <= clock  BY <1>6 DEF Clocked
  <2>2. \A y \in DOMAIN disk' : disk'[y].id \in DOMAIN born' /\ disk'[y].id[1] = "node"
    BY <1>6, <1>8 DEF Clocked
  <2> QED  BY <1>6, <1>7, <2>1, <2>2 DEF Clocked
<1>10. Snapshot'
  <2>1. \A y \in Seen : y \in DOMAIN p.deps  BY FilesKnown DEF Seen
  <2>2. \A y : File(y)[1] = "file"  BY DEF File
  <2>3. \A y \in Seen : born'[File(y)] = born[File(y)]  BY <1>6, <2>1, <2>2 DEF Clocked
  <2> QED  BY <2>3, SameWorld DEF Snapshot
<1>11. Current'  BY SameTree DEF Current
<1>12. Told'
  <2>1. ASSUME NEW y \in DOMAIN disk' PROVE Tells(y, disk'[y])
    <3>1. CASE y \in DOMAIN disk /\ disk'[y] = disk[y]  BY <3>1 DEF Told
    <3>2. CASE MadeNew(x, r, n) /\ y \in Outputs(r)
      <4>1. disk'[y] = [holds |-> Image(r), id |-> Node(x)] /\ r.type # "symlink"  BY <3>2 DEF MadeNew
      <4>2. x \in DOMAIN Script(ver)  BY <1>2, <1>4
      <4> QED  BY <1>5, <3>2, <4>1, <4>2, MadeTells
    <3>3. CASE Linked(x, r, n) /\ y = x
      <4>1. PICK e \in DOMAIN disk : r.ins = {e} /\ disk'[x] = disk[e]  BY <3>3 DEF Linked
      <4>2. Publishes(r, ver) /\ r.out = x  BY <1>3, <1>4, <3>3 DEF Linked, Complete, Rule
      <4>3. CASE \E f \in Targets(o) : r.out = Bin(f) /\ r.ins = {link_key(p, ver, f, lib)}
        <5>1. PICK f \in Targets(o) : x = Bin(f) /\ e = Key(f)  BY <4>1, <4>2, <4>3 DEF Key
        <5>2. Bin(f)[1] = "bin" /\ Bin(f)[3] = p.stem[f] /\ Key(f)[1] = "exe" /\ Key(f)[2] = p.stem[f]
          BY DEF Bin, executable_pathname, published, Key, link_key
        <5>3. Tells(e, disk[e])  BY DEF Told
        <5> QED  BY <3>3, <4>1, <5>1, <5>2, <5>3 DEF Tells
      <4>4. CASE r.out[1] = "bin" /\ r.out[2] # "exe"  BY <3>3, <4>2, <4>4 DEF Tells
      <4> QED  BY <4>2, <4>3, <4>4 DEF Publishes
    <3> QED  BY <1>6, <3>1, <3>2, <3>3 DEF MadeNew, Linked
  <2>2. \A y, d : Tells(y, d)' <=> Tells(y, d)  BY TellsKept
  <2> QED  BY <2>1, <2>2 DEF Told
<1>13. NotAhead'
  <2>1. ASSUME NEW e \in DOMAIN disk', e \notin DOMAIN disk, e[1] = "exe",
               NEW y \in e[3], NEW c \in y[3]
        PROVE  c[1] \in DOMAIN ver /\ c[2] \in 1..ver[c[1]]
    <3>1. e = x
      <4>1. CASE MadeNew(x, r, n)
        <5>1. e \in Outputs(r)  BY <2>1, <4>1 DEF MadeNew
        <5> QED  BY <1>2, <1>4, <1>5, <2>1, <5>1, WrittenAlone
      <4>2. CASE Linked(x, r, n)  BY <2>1, <4>2 DEF Linked
      <4> QED  BY <1>6, <4>1, <4>2
    <3>2. PICK f \in Targets(o) : e = link_key(p, ver, f, lib)
      BY <1>1, <1>2, <1>4, <2>1, <3>1, ExecutableLine
    <3>3. e[3] = Objects(p, ver, p.required[f])  BY <3>2 DEF link_key
    <3>4. PICK s \in p.required[f] : y = object_pathname(p, ver, s)  BY <2>1, <3>3 DEF Objects
    <3>5. y[3] = Text(p, ver, s)  BY <3>4 DEF object_pathname
    <3>6. PICK a \in {s} \cup p.deps[s] : c = <<a, ver[a]>>  BY <2>1, <3>5 DEF Text
    <3>7. a \in DOMAIN ver /\ ver[a] \in Nat \ {0}  BY FilesKnown
    <3> QED  BY <3>6, <3>7
  <2> QED  BY <2>1 DEF NotAhead
<1>14. \A f \in Targets(o)' : Traced(f)'
  <2> SUFFICES ASSUME NEW f \in Targets(o) PROVE Traced(f)'  BY SameWorld
  <2>1. Bin(f)' = Bin(f) /\ Key(f)' = Key(f)  BY SameWorld, SameTree
  <2>2. Bin(f)[1] = "bin" /\ Bin(f)[2] = "exe" /\ Key(f)[1] = "exe"
    BY DEF Bin, executable_pathname, published, Key, link_key
  <2>3. ~ Ended'  BY DEF Ended
  <2>4. r.out = x  BY <1>3, <1>4 DEF Complete, Rule
  <2>5. CASE x = Bin(f)
    <3>1. r.type = "symlink" /\ r.ins = {Key(f)}  BY <1>1, <1>5, <2>5, PublishedLine DEF Key
    <3>2. Key(f) \in DOMAIN disk /\ disk'[Bin(f)] = disk[Key(f)] /\ Bin(f) \in DOMAIN disk'
      BY <1>6, <2>5, <3>1 DEF MadeNew, Linked
    <3>3. disk[Key(f)].id[2] = Key(f)  BY <2>2, <3>2 DEF Told, Tells
    <3>4. Fresh(f)'  BY <2>1, <3>2, <3>3 DEF Fresh
    <3> QED  BY <3>4 DEF Traced
  <2>6. CASE x # Bin(f)
    <3>1. /\ Bin(f) \in DOMAIN disk' <=> Bin(f) \in DOMAIN disk
          /\ Bin(f) \in DOMAIN disk => disk'[Bin(f)] = disk[Bin(f)]
      <4>1. CASE MadeNew(x, r, n)
        <5>1. Bin(f) \notin Outputs(r)  BY <1>2, <1>4, <1>5, <2>2, <2>6, WrittenAlone
        <5> QED  BY <4>1, <5>1 DEF MadeNew
      <4>2. CASE Linked(x, r, n)  BY <2>6, <4>2 DEF Linked
      <4> QED  BY <1>6, <4>1, <4>2
    <3>2. Fresh(f)' = Fresh(f)  BY <2>1, <3>1 DEF Fresh
    <3> SUFFICES ASSUME ~ Fresh(f) PROVE Traced(f)'  BY <3>2 DEF Traced
    <3>3. Bin(f) \in DOMAIN disk => disk[Bin(f)].id # n
      <4> SUFFICES ASSUME Bin(f) \in DOMAIN disk PROVE disk[Bin(f)].id # n  OBVIOUS
      <4>1. CASE MadeNew(x, r, n)
        <5> SUFFICES ASSUME disk[Bin(f)].id = n PROVE FALSE  OBVIOUS
        <5>1. disk[Bin(f)].id[2] = x  BY <4>1 DEF MadeNew, Node
        <5>2. x[1] = "exe"  BY <2>2, <5>1 DEF Told, Tells
        <5>3. PICK h \in Targets(o) : x = Key(h)  BY <1>1, <1>2, <1>4, <5>2, ExecutableLine DEF Key
        <5> QED  BY <1>1, <5>1, <5>3, OwnEntry
      <4>2. CASE Linked(x, r, n)
        <5>1. PICK e \in DOMAIN disk : r.ins = {e} /\ n = disk[e].id  BY <4>2 DEF Linked
        <5>2. Publishes(r, ver)  BY <4>2 DEF Linked
        <5> QED  BY <1>1, <5>1, <5>2, OwnNode
      <4> QED  BY <1>6, <4>1, <4>2
    <3>4. Bin(f) \in DOMAIN disk => BinBorn(f)' = BinBorn(f) /\ BinBorn(f) < clock
      <4>1. Bin(f) \in DOMAIN disk => BinBorn(f) < clock  BY DEF Traced
      <4>2. Bin(f) \in DOMAIN disk => BinBorn(f)' = BinBorn(f)
        BY <1>6, <2>1, <3>1, <3>3 DEF Clocked, BinBorn
      <4> QED  BY <4>1, <4>2
    <3>5. Key(f) \in DOMAIN disk' => KeyBorn(f)' = clock \/ (Key(f) \in DOMAIN disk /\ KeyBorn(f)' = KeyBorn(f))
      <4> SUFFICES ASSUME Key(f) \in DOMAIN disk', KeyBorn(f)' # clock
                   PROVE  Key(f) \in DOMAIN disk /\ KeyBorn(f)' = KeyBorn(f)
        OBVIOUS
      <4>1. KeyBorn(f)' = born'[disk'[Key(f)].id]  BY <2>1 DEF KeyBorn
      <4>2. disk'[Key(f)].id # n  BY <1>6, <4>1
      <4>3. Key(f) \in DOMAIN disk /\ disk'[Key(f)] = disk[Key(f)]  BY <1>8, <4>2
      <4> QED  BY <1>6, <4>1, <4>2, <4>3 DEF Clocked, KeyBorn
    <3>6. Bin(f) \in DOMAIN disk /\ Key(f) \in DOMAIN disk => BinBorn(f) < KeyBorn(f)  BY DEF Traced
    <3>7. (Bin(f) \in DOMAIN disk /\ Key(f) \in DOMAIN disk)' => (BinBorn(f) < KeyBorn(f))'
      BY <2>1, <3>1, <3>4, <3>5, <3>6
    <3>8. (Bin(f) \in DOMAIN disk /\ phase = "native")' => (BinBorn(f) < clock)'
      BY <2>1, <3>1, <3>4
    <3>9. Bin(f) \notin DOMAIN st' /\ Key(f) \notin DOMAIN sigs  BY <2>6 DEF Traced
    <3> QED  BY <2>1, <2>3, <3>7, <3>8, <3>9 DEF Traced
  <2> QED  BY <2>5, <2>6
<1> QED  BY <1>9, <1>10, <1>11, <1>12, <1>13, <1>14

\* A test that fails.
LEMMA FailedFresh ==
  ASSUME PlanInv, Apt, FreshInv, phase = "native", NEW r, NEW x, x[1] \in {"xml", "result"}, NEW n, n = Node(x),
         LeftReport(r, n), w' = w, ver' = ver, clock' = clock, sigs' = sigs, script' = script,
         graph' = graph, phase' = phase, why' # "ok", st' = st
  PROVE  FreshInv'
<1> SUFFICES (Clocked /\ Snapshot /\ Current /\ Told /\ NotAhead /\ \A f \in Targets(o) : Traced(f))'
  BY DEF FreshInv
<1>1. Clocked /\ Snapshot /\ Current /\ Told /\ NotAhead /\ \A f \in Targets(o) : Traced(f)
  BY DEF FreshInv
<1>2. p' = p /\ o' = o  BY DEF p, o
<1>3. n[1] = "node" /\ n[2][1] # "exe"  BY DEF Node
<1>4. /\ \A y \in DOMAIN disk : y \in DOMAIN disk'
      /\ \A y \in DOMAIN disk' : y[1] \notin {"xml", "result"} => y \in DOMAIN disk /\ disk'[y] = disk[y]
  BY DEF LeftReport
<1>5. /\ \A m \in DOMAIN born : m \in DOMAIN born'
      /\ \A m \in DOMAIN born : m # n => born'[m] = born[m]
  BY DEF LeftReport
<1>6. Clocked'
  <2>1. ASSUME NEW m \in DOMAIN born' PROVE born'[m] \in Nat /\ born'[m] <= clock
    <3>1. born'[m] = clock \/ (m \in DOMAIN born /\ born'[m] = born[m])  BY DEF LeftReport
    <3> QED  BY <1>1, <3>1 DEF Clocked
  <2>2. ASSUME NEW y \in DOMAIN disk' PROVE disk'[y].id \in DOMAIN born' /\ disk'[y].id[1] = "node"
    <3>1. \/ (y \in DOMAIN disk /\ disk'[y] = disk[y])
          \/ (disk'[y].id = n /\ n \in DOMAIN born')
      BY DEF LeftReport
    <3>2. CASE y \in DOMAIN disk /\ disk'[y] = disk[y]  BY <1>1, <1>5, <3>2 DEF Clocked
    <3>3. CASE disk'[y].id = n /\ n \in DOMAIN born'  BY <1>3, <3>3
    <3> QED  BY <3>1, <3>2, <3>3
  <2>3. \A y \in DOMAIN p'.deps : File(y)' \in DOMAIN born'  BY <1>1, <1>2, <1>5 DEF Clocked, File
  <2>4. /\ clock' \in Nat /\ script'.born \in Nat /\ script'.born <= clock'
        /\ phase' # "planned"
    BY <1>1 DEF Clocked
  <2> QED  BY <2>1, <2>2, <2>3, <2>4 DEF Clocked
<1>7. Snapshot'
  <2>1. \A y \in Seen : y \in DOMAIN p.deps  BY FilesKnown DEF Seen
  <2>2. \A y : File(y)[1] = "file"  BY DEF File
  <2>3. \A y \in Seen : born'[File(y)] = born[File(y)]  BY <1>1, <1>3, <1>5, <2>1, <2>2 DEF Clocked
  <2> QED  BY <1>1, <2>3, SameWorld DEF Snapshot
<1>8. Current'  BY <1>1, SameTree DEF Current
<1>9. Told'
  <2>1. \A y, d : y[1] \in {"xml", "result"} => Tells(y, d)  BY DEF Tells
  <2>2. \A y, d : Tells(y, d)' <=> Tells(y, d)  BY TellsKept
  <2>3. ASSUME NEW y \in DOMAIN disk' PROVE Tells(y, disk'[y])
    <3>1. CASE y \in DOMAIN disk /\ disk'[y] = disk[y]  BY <1>1, <3>1 DEF Told
    <3>2. CASE y[1] \in {"xml", "result"}  BY <2>1, <3>2
    <3> QED  BY <1>4, <3>1, <3>2
  <2> QED  BY <2>2, <2>3 DEF Told
<1>10. NotAhead'  BY <1>1, <1>4 DEF NotAhead
<1>11. \A f \in Targets(o)' : Traced(f)'
  <2> SUFFICES ASSUME NEW f \in Targets(o) PROVE Traced(f)'  BY SameWorld
  <2>1. Bin(f)' = Bin(f) /\ Key(f)' = Key(f)  BY SameWorld, SameTree
  <2>2. Bin(f)[1] = "bin" /\ Bin(f)[2] = "exe" /\ Key(f)[1] = "exe"
    BY DEF Bin, executable_pathname, published, Key, link_key
  <2>3. /\ Bin(f) \in DOMAIN disk' <=> Bin(f) \in DOMAIN disk
        /\ Key(f) \in DOMAIN disk' <=> Key(f) \in DOMAIN disk
        /\ Bin(f) \in DOMAIN disk => disk'[Bin(f)] = disk[Bin(f)]
        /\ Key(f) \in DOMAIN disk => disk'[Key(f)] = disk[Key(f)]
    BY <1>4, <2>2
  <2>4. Fresh(f)' = Fresh(f)  BY <2>1, <2>3 DEF Fresh
  <2> SUFFICES ASSUME ~ Fresh(f) PROVE Traced(f)'  BY <2>4 DEF Traced
  <2>5. Bin(f) \in DOMAIN disk => disk[Bin(f)].id # n  BY <1>1, <1>3, <2>2 DEF Told, Tells
  <2>6. Key(f) \in DOMAIN disk => disk[Key(f)].id # n  BY <1>1, <1>3, <2>2 DEF Told, Tells
  <2>7. /\ Bin(f) \in DOMAIN disk => BinBorn(f)' = BinBorn(f)
        /\ Key(f) \in DOMAIN disk => KeyBorn(f)' = KeyBorn(f)
    BY <1>1, <1>5, <2>1, <2>3, <2>5, <2>6 DEF Clocked, BinBorn, KeyBorn
  <2>8. ~ Ended'  BY DEF Ended
  <2> QED  BY <1>1, <2>1, <2>3, <2>7, <2>8 DEF Traced
<1> QED  BY <1>6, <1>7, <1>8, <1>9, <1>10, <1>11

LEMMA FinishFresh ==
  ASSUME PlanInv, FreshInv, WellInv, NEW x \in running, Finish(x)
  PROVE  FreshInv'
<1>1. /\ w' = w /\ ver' = ver /\ clock' = clock /\ sigs' = sigs /\ script' = script /\ graph' = graph
      /\ phase' = phase /\ edited' = edited /\ Ran(Rule(x))
      /\ st' = IF ~ Missing(Rule(x)) /\ ~ Bad(Rule(x)) THEN Mark({x}, "made") ELSE st
  BY DEF Finish, tree
<1> SUFFICES ASSUME Apt PROVE FreshInv'  BY <1>1, SameWorld DEF FreshInv
<1>2. phase = "native"  BY DEF WellInv, Whole, Apt, Staged
<1>5. CASE Missing(Rule(x))
  <2>1. disk' = disk /\ born' = born /\ why' # "ok" /\ st' = st  BY <1>1, <1>5 DEF Ran
  <2> QED  BY <1>1, <2>1, FreshKept
<1>3. CASE ~ Missing(Rule(x)) /\ Bad(Rule(x))
  <2>1. PICK r : r = Rule(x)  OBVIOUS
  <2>2. PICK n : n = Node(r.out)  OBVIOUS
  <2>3. x \in DOMAIN script.g /\ Thorough(r) /\ r.out = x /\ r.type = "test"
    BY <1>3, <2>1 DEF PlanInv, Orderly, WellInv, Whole, Apt, Complete, Rule, Bad
  <2>4. why' # "ok" /\ st' = st /\ LeftReport(r, n)
    BY <1>1, <1>3, <2>1, <2>2, <2>3, FailedIs
  <2>5. x \in Outputs(r) /\ x[1] \in {"xml", "result"}  BY <2>3 DEF Thorough, Declared
  <2>6. n = Node(x)  BY <2>2, <2>3
  <2> QED  BY <1>1, <1>2, <2>4, <2>5, <2>6, FailedFresh
<1>4. CASE ~ Missing(Rule(x)) /\ ~ Bad(Rule(x))
  <2>1. PICK r : r = Rule(x)  OBVIOUS
  <2>2. why' = why /\ DOMAIN st' = DOMAIN st \cup {x} /\ Ran(r)  BY <1>1, <1>4, <2>1 DEF Ran, Mark
  <2>3. Clocked /\ Snapshot /\ Current /\ Told /\ NotAhead /\ \A f \in Targets(o) : Traced(f)
    BY DEF FreshInv
  <2>4. (Clocked /\ Snapshot /\ Current /\ Told /\ NotAhead /\ \A f \in Targets(o) : Traced(f))'
    BY <1>1, <1>2, <1>4, <2>1, <2>2, <2>3, RanFresh
  <2> QED  BY <2>4 DEF FreshInv
<1> QED  BY <1>3, <1>4, <1>5

LEMMA FreshStep ==
  ASSUME PlanInv, FreshInv, WellInv, back' = {}, [Next]_vars
  PROVE  FreshInv'
<1>1. ASSUME NEW f \in DOMAIN ver, Edit(f) PROVE FreshInv'  BY <1>1, EditFresh
<1>2. ASSUME NEW x \in DOMAIN disk, Trim(x) PROVE FreshInv'  BY <1>2, TrimFresh
<1>3. CASE Generate  BY <1>3, GenerateFresh
<1>4. ASSUME NEW long \in BOOLEAN, Execute(long) PROVE FreshInv'  BY <1>4, ExecuteFresh
<1>5. CASE Prebuild
  <2>1. w' = w /\ phase = "prebuild"  BY <1>5 DEF Prebuild, tree
  <2>2. ~ Apt  BY <2>1 DEF WellInv, Whole, Staged, Apt
  <2> QED  BY <2>1, <2>2, SameWorld DEF FreshInv
<1>6. CASE Settle  BY <1>6, SettleFresh
<1>7. CASE Succeed  BY <1>7, SucceedFresh
<1>8. CASE Fail
  <2>1. Apt => why # "ok"  BY <1>8 DEF FreshInv, Current, Fail
  <2>2. CASE Apt  BY <1>8, <2>1, <2>2, FreshKept DEF Fail, tree, saved
  <2>3. CASE ~ Apt
    <3>1. w' = w  BY <1>8 DEF Fail, tree
    <3> QED  BY <2>3, <3>1, SameWorld DEF FreshInv
  <2> QED  BY <2>2, <2>3
<1>9. ASSUME NEW x \in Runnable, Start(x) PROVE FreshInv'  BY <1>9, FreshKept DEF Start, tree, saved
<1>10. ASSUME NEW x \in running, Finish(x) PROVE FreshInv'  BY <1>10, FinishFresh
<1>11. CASE Interrupt  BY <1>11, FreshKept DEF Interrupt, saved
<1>12. CASE UNCHANGED vars  BY <1>12, FreshKept DEF vars, tree, saved
<1> QED
  BY <1>1, <1>2, <1>3, <1>4, <1>5, <1>6, <1>7, <1>8, <1>9, <1>10, <1>11, <1>12 DEF Next, Proceed

LEMMA StuckStep ==
  ASSUME StuckInv, [Next]_vars
  PROVE  StuckInv'
<1>1. w' = w  BY DEF Next, Proceed, Edit, Trim, Generate, Execute, Prebuild, Settle, Succeed, Fail, Start,
                     Finish, Interrupt, vars, tree
<1> SUFFICES ASSUME _check_executable_collisions(p, o)
             PROVE  phase' = "idle" /\ why' # "ok" /\ running' = {}
  BY <1>1, SameWorld DEF StuckInv
<1>2. phase = "idle" /\ why # "ok" /\ running = {}  BY DEF StuckInv
<1>3. ~ Proceed /\ ~ Interrupt
  BY <1>2 DEF Proceed, Execute, Prebuild, Settle, Succeed, Fail, Start, Going, Interrupt
<1> QED  BY <1>2, <1>3 DEF Next, Edit, Trim, Generate, vars

\* The text an entry is told to be of, where its name is the one of now.
LEMMA TextTold ==
  ASSUME NEW f \in Targets(o)
  PROVE  ToldExe(Key(f)) = {<<x, ver[x], "text">> : x \in TextOf(f)}
<1>1. Key(f)[3] = Objects(p, ver, p.required[f])  BY DEF Key, link_key
<1>2. ASSUME NEW s PROVE ToldObj(object_pathname(p, ver, s)) =
                           {<<x, ver[x], "text">> : x \in ({s} \cup p.deps[s]) \ Hidden(s)}
  <2>1. PICK y : y = object_pathname(p, ver, s)  OBVIOUS
  <2>2. y[2] = s /\ y[3] = Text(p, ver, s)  BY <2>1 DEF object_pathname
  <2>3. PICK hidden : hidden = Hidden(s)  OBVIOUS
  <2>4. ToldObj(y) = Only({c \in Text(p, ver, s) : c[1] \notin hidden}, "text")
    BY <2>2, <2>3 DEF ToldObj
  <2>5. PICK kept : kept = ({s} \cup p.deps[s]) \ hidden  OBVIOUS
  <2>6. ASSUME NEW t \in ToldObj(y) PROVE t \in {<<x, ver[x], "text">> : x \in kept}
    <3>1. PICK c \in Text(p, ver, s) : c[1] \notin hidden /\ t = <<c[1], c[2], "text">>
      BY <2>4 DEF Only
    <3>2. PICK x \in {s} \cup p.deps[s] : c = <<x, ver[x]>>  BY DEF Text
    <3> QED  BY <2>5, <3>1, <3>2
  <2>7. ASSUME NEW x \in kept PROVE <<x, ver[x], "text">> \in ToldObj(y)
    <3>1. PICK c : c = <<x, ver[x]>>  OBVIOUS
    <3>2. c \in Text(p, ver, s) /\ c[1] \notin hidden  BY <2>5, <3>1 DEF Text
    <3>3. <<c[1], c[2], "text">> \in Only({d \in Text(p, ver, s) : d[1] \notin hidden}, "text")
      BY <3>2 DEF Only
    <3> QED  BY <2>4, <3>1, <3>3
  <2> QED  BY <2>1, <2>3, <2>5, <2>6, <2>7
<1>3. ToldExe(Key(f)) = UNION {ToldObj(object_pathname(p, ver, s)) : s \in p.required[f]}
  BY <1>1 DEF ToldExe, Objects
<1>4. ToldExe(Key(f)) =
        UNION {{<<x, ver[x], "text">> : x \in ({s} \cup p.deps[s]) \ Hidden(s)} : s \in p.required[f]}
  BY <1>2, <1>3
<1> QED  BY <1>4 DEF TextOf

\* NamedIsFresh: after a build that ended well every executable was made from the whole
\* text of its sources and their headers as it is in the tree, whatever was edited, trimmed,
\* killed or rebuilt before: where the whole graph is built, clang's modules are content
\* addresses and no edit brought an earlier text or another environment back.
THEOREM NativeNamedIsFresh ==
  Spec => [](~ o.only /\ (o.kind = "clang" => o.cas_pcmdir) /\ back = {} => NamedIsFresh)
<1> DEFINE Inv == PlanInv /\ WellInv /\ StuckInv /\ (back = {} => FreshInv)
<1>1. Init => Inv  BY InitPlanned, InitWell, InitFresh
<1>2. Inv /\ [Next]_vars => Inv'
  <2> SUFFICES ASSUME Inv, [Next]_vars PROVE Inv'  OBVIOUS
  <2>1. PlanInv' /\ WellInv' /\ StuckInv'  BY PlanStep, WellStep, StuckStep
  <2>2. ASSUME back' = {} PROVE FreshInv'  BY <2>2, BackGrows, FreshStep
  <2> QED  BY <2>1, <2>2
<1>3. ASSUME Inv, ~ o.only, o.kind = "clang" => o.cas_pcmdir, back = {} PROVE NamedIsFresh
  <2> SUFFICES ASSUME Ended, ~ o.managed, NEW f \in Targets(o)
               PROVE  {c \in ExeOf(f) : c[3] = "text"} = {<<x, ver[x], "text">> : x \in TextOf(f)}
    BY DEF NamedIsFresh
  <2>1. Apt  BY <1>3 DEF Apt, ClangHashed, StuckInv, Ended
  <2>2. Fresh(f) /\ Told  BY <1>3, <2>1 DEF FreshInv, Traced
  <2>3. Bin(f)[1] = "bin" /\ Bin(f)[2] = "exe"  BY DEF Bin, executable_pathname, published
  <2>4. TextsOf(disk[Bin(f)].holds) = ToldExe(Key(f))  BY <2>2, <2>3 DEF Fresh, Told, Tells
  <2> QED  BY <2>4, TextTold DEF TextsOf, ExeOf, Bin
<1>4. Inv => (~ o.only /\ (o.kind = "clang" => o.cas_pcmdir) /\ back = {} => NamedIsFresh)  BY <1>3
<1> HIDE DEF Inv
<1> QED  BY <1>1, <1>2, <1>4, PTL DEF Spec
------------------------------------------------------------------------------
(* Tests                                                                    *)

\* The marker a test touches, and the file it is run for.
Marker(f) == _result_marker_path(p, o, ver, f)
Report(f) == IF Reported(o, f) THEN _xml_path_for(Bin(f)) ELSE Marker(f)

LEMMA OneMarker ==
  ASSUME OneName, NEW f \in Targets(o), NEW h \in Targets(o)
  PROVE  /\ Bin(f) = Bin(h) => f = h
         /\ Key(f) = Key(h) => f = h
         /\ Marker(f) = Marker(h) => f = h
         /\ Report(f) = Report(h) => f = h
         /\ Report(f) = Marker(h) => f = h
<1>1. Bin(f)[3] = p.stem[f] /\ Bin(h)[3] = p.stem[h]  BY DEF Bin, executable_pathname, published
<1>2. Key(f)[2] = p.stem[f] /\ Key(h)[2] = p.stem[h]  BY DEF Key, link_key
<1>3. /\ Marker(f) = Beside(IF ByContent(o) THEN Key(f) ELSE Bin(f))
      /\ Marker(h) = Beside(IF ByContent(o) THEN Key(h) ELSE Bin(h))
  BY DEF Marker, _result_marker_path, Key, Bin, lib
<1>4. \A x, y : Beside(x) = Beside(y) => x = y  BY DEF Beside
<1>5. \A x, y : _xml_path_for(x) = _xml_path_for(y) => x = y  BY DEF _xml_path_for
<1>6. \A x, y : Beside(x) # _xml_path_for(y)
  <2>1. \A x : Beside(x)[1] = "result" /\ _xml_path_for(x)[1] = "xml"  BY DEF Beside, _xml_path_for
  <2> QED  BY <2>1
<1>7. (Bin(f) = Bin(h) => f = h) /\ (Key(f) = Key(h) => f = h)  BY <1>1, <1>2 DEF OneName
<1>8. Marker(f) = Marker(h) => f = h
  <2>1. CASE ByContent(o)  BY <1>3, <1>4, <1>7, <2>1
  <2>2. CASE ~ ByContent(o)  BY <1>3, <1>4, <1>7, <2>2
  <2> QED  BY <2>1, <2>2
<1>9. (Report(f) = Report(h) => f = h) /\ (Report(f) = Marker(h) => f = h)
  BY <1>3, <1>5, <1>6, <1>7, <1>8 DEF Report
<1> QED  BY <1>7, <1>8, <1>9

LEMMA TestKind ==
  ASSUME NEW v, NEW r \in PlannedRules(p, o, v), r.out[1] \in {"xml", "result"}
  PROVE  IsTest(r, v)
<1>1. ~ IsDir(r) /\ ~ IsHeader(r) /\ ~ IsUnit(r) /\ ~ IsProduct(r) /\ ~ IsPhony(r)
  BY DEF IsDir, IsHeader, IsUnit, IsProduct, IsPhony
<1>2. \A f \in src : ~ CompileOf(r, v, f)
  <2>1. \A f : object_pathname(p, v, f)[1] = "o"  BY DEF object_pathname
  <2> QED  BY <2>1, CompileIs
<1>3. ~ IsObject(r, v) /\ ~ IsInterface(r, v)  BY <1>2 DEF IsObject, IsInterface, CompileOf
<1> QED  BY <1>1, <1>3, Kinds

\* The line that runs a test, and what it leaves.
LEMMA TestLine ==
  ASSUME ~ o.managed, OneName, NEW f \in Range(o.tests)
  PROVE  /\ f \in Targets(o) /\ Report(f) \in DOMAIN Script(ver)
         /\ \E l : /\ l = Script(ver)[Report(f)] /\ l.out = Report(f) /\ l.type = "test"
                   /\ l.marker = Marker(f) /\ l.reads = {Bin(f)}
                   /\ Outputs(l) = {Report(f), Marker(f)} /\ Declared(l) = {Report(f), Marker(f)}
                   /\ Bin(f) \in Waits(l) /\ (o.use_mtime => Bin(f) \in l.ins)
<1>1. f \in Targets(o)  BY DEF Targets
<1>2. PICK i \in DOMAIN o.tests : f = o.tests[i]  BY DEF Range
<1>3. Chained(p, o, ver, i).out = Report(f)  BY <1>2, ChainedIs DEF Report, Marker, Bin
<1>4. Report(f) \in DOMAIN Script(ver)
  <2>1. Chained(p, o, ver, i) \in PlannedRules(p, o, ver)  BY DEF PlannedRules, _plan_test_rules
  <2> QED  BY <1>3, <2>1, ScriptDomain
<1>5. PICK l : l = Script(ver)[Report(f)]  OBVIOUS
<1>6. PICK r \in PlannedRules(p, o, ver) :
          /\ r.out = Report(f) /\ l.out = Report(f) /\ l.type = r.type /\ l.marker = r.marker
          /\ l.beside = r.beside /\ l.reads = r.reads /\ Outputs(l) = Outputs(r)
          /\ l.ins = Prerequisites(o, r) /\ Waits(l) = Prerequisites(o, r) \cup OrderOnly(o, r)
  BY <1>4, <1>5, LineOf
<1>7. r.out[1] \in {"xml", "result"}
  <2>1. Marker(f)[1] = "result" /\ _xml_path_for(Bin(f))[1] = "xml"
    BY DEF Marker, _result_marker_path, Beside, _xml_path_for
  <2> QED  BY <1>6, <2>1 DEF Report
<1>8. IsTest(r, ver)  BY <1>7, TestKind
<1>9. PICK j \in DOMAIN o.tests : r = Chained(p, o, ver, j)  BY <1>8 DEF IsTest
<1>10. PICK h : h = o.tests[j]  OBVIOUS
<1>11. h \in Targets(o)  BY <1>10 DEF Targets, Range
<1>12. /\ r.type = "test" /\ r.beside = {} /\ r.reads = {Bin(h)} /\ r.marker = Marker(h)
       /\ r.out = Report(h) /\ Bin(h) \in r.ins \cup r.order
  BY <1>9, <1>10, ChainedIs DEF Report, Marker, Bin
<1>13. h = f  BY <1>1, <1>6, <1>11, <1>12, OneMarker
<1>14. Outputs(l) = {Report(f), Marker(f)} /\ Declared(l) = {Report(f), Marker(f)}
  <2>1. NoMarker[1] = "no marker"  BY DEF NoMarker
  <2>2. Marker(f)[1] = "result"  BY DEF Marker, _result_marker_path, Beside
  <2>3. Report(f) # NoMarker /\ Marker(f) # NoMarker  BY <1>6, <1>7, <2>1, <2>2, Zenon
  <2> QED  BY <1>6, <1>12, <1>13, <2>3 DEF Outputs, Declared
<1>15. Prerequisites(o, r) = r.ins /\ OrderOnly(o, r) = r.order
  BY <1>12 DEF Prerequisites, OrderOnly, _cas_demotes_inputs, CAS_PRODUCER_TYPES
<1>16. o.use_mtime => Bin(f) \in r.ins
  <2> SUFFICES ASSUME o.use_mtime PROVE Bin(f) \in r.ins  OBVIOUS
  <2>1. PICK q : q = TestRule(p, o, ver, h)  OBVIOUS
  <2>2. q.ins = {Bin(h)}  BY <2>1 DEF TestRule, ByContent, BuildRule, Bin
  <2>3. q.ins \subseteq r.ins  BY <1>9, <1>10, <2>1, <2>2 DEF Chained, TestRule, BuildRule
  <2> QED  BY <1>13, <2>2, <2>3
<1> QED  BY <1>1, <1>4, <1>5, <1>6, <1>12, <1>13, <1>14, <1>15, <1>16

\* Reports and markers are what tests leave.
LEMMA ReportLine ==
  ASSUME ~ o.managed, NEW x \in DOMAIN Script(ver), NEW z \in Outputs(Script(ver)[x]),
         z[1] \in {"xml", "result"}
  PROVE  \E f \in Range(o.tests) : x = Report(f) /\ z \in {Report(f), Marker(f)}
<1>1. PICK r \in PlannedRules(p, o, ver) : r.out = x /\ Outputs(Script(ver)[x]) = Outputs(r)
  BY LineOf
<1>2. WritesOut(r, z) \/ WritesGcm(r, ver, z) \/ WritesMark(r, ver, z)  BY <1>1, Writes
<1>3. ~ WritesGcm(r, ver, z)  BY DEF WritesGcm, bmi_path
<1>4. IsTest(r, ver)
  <2>1. CASE WritesMark(r, ver, z)  BY <2>1 DEF WritesMark, IsTest
  <2>2. CASE WritesOut(r, z)
    <3>1. r.out[1] \in {"xml", "result"}  BY <2>2 DEF WritesOut
    <3> QED  BY <3>1, TestKind
  <2> QED  BY <1>2, <1>3, <2>1, <2>2
<1>5. PICK j \in DOMAIN o.tests : r = Chained(p, o, ver, j)  BY <1>4 DEF IsTest
<1>6. PICK f : f = o.tests[j]  OBVIOUS
<1>7. f \in Range(o.tests)  BY <1>6 DEF Range
<1>8. r.marker = Marker(f) /\ r.out = Report(f) /\ r.beside = {}
  BY <1>5, <1>6, ChainedIs DEF Report, Marker, Bin
<1>9. z \in {r.out, r.marker}  BY <1>1, <1>8 DEF Outputs
<1> QED  BY <1>1, <1>7, <1>8, <1>9

\* An entry that a line publishes and a file in bin are one node: then the line
\* publishes the one as the other.
LEMMA OwnPublished ==
  ASSUME Told, OneName, NEW f \in Targets(o), Bin(f) \in DOMAIN disk,
         NEW r, Publishes(r, ver), NEW e \in r.ins, e \in DOMAIN disk, disk[e].id = disk[Bin(f)].id
  PROVE  e = Key(f) /\ r.out = Bin(f)
<1>1. Bin(f)[1] = "bin" /\ Bin(f)[2] = "exe" /\ Bin(f)[3] = p.stem[f]
  BY DEF Bin, executable_pathname, published
<1>2. disk[Bin(f)].id[2][1] = "exe" /\ disk[Bin(f)].id[2][2] = p.stem[f]  BY <1>1 DEF Told, Tells
<1>3. CASE \E h \in Targets(o) : r.out = Bin(h) /\ r.ins = {link_key(p, ver, h, lib)}
  <2>1. PICK h \in Targets(o) : e = Key(h) /\ r.out = Bin(h)  BY <1>3 DEF Key
  <2>2. e[1] = "exe" /\ e[2] = p.stem[h]  BY <2>1 DEF Key, link_key
  <2>3. disk[e].id[2] = e  BY <2>2 DEF Told, Tells
  <2>4. h = f  BY <1>2, <2>2, <2>3 DEF OneName
  <2> QED  BY <2>1, <2>4
<1>4. CASE \E cas : r.ins = {cas} /\ cas[1] \in {"a", "so"}
  <2>1. e[1] \in {"a", "so"}  BY <1>4
  <2>2. disk[e].id[2] = e  BY <2>1 DEF Told, Tells
  <2> QED  BY <1>2, <2>1, <2>2
<1> QED  BY <1>3, <1>4 DEF Publishes

\* No node is older than its name says it is.
Aged == \A n \in DOMAIN born : n[1] = "node" => n[3] \in Nat /\ n[3] <= born[n]

\* Where results are beside entries: what is published for f is the entry of now, or is
\* older than it, not of this moment and not done, and the entry has no marker yet.
Joined(f) == Bin(f) \in DOMAIN disk /\ Key(f) \in DOMAIN disk /\ disk[Bin(f)].id = disk[Key(f)].id
Parted(f) == /\ Bin(f) \in DOMAIN disk /\ Key(f) \in DOMAIN disk => BinBorn(f) < KeyBorn(f)
             /\ Bin(f) \in DOMAIN disk /\ phase = "native" => BinBorn(f) < clock
             /\ phase = "native" => Bin(f) \notin DOMAIN st
             /\ Beside(Key(f)) \notin DOMAIN disk
Joins(f)  == IF Joined(f) THEN disk[Bin(f)] = disk[Key(f)] ELSE Parted(f)

\* A marker is of the entry beside it.  And an entry that is there is not linked again:
\* ninja's log has what it was linked from.
Marked == \A x \in DOMAIN disk : x[1] = "result" =>
            /\ x = Beside(x[2]) /\ x[2][1] = "exe" /\ x[2] \in DOMAIN disk
            /\ disk[x].holds = disk[x[2]].holds
Logged == o.tool = "ninja" =>
            \A e \in DOMAIN disk : e[1] = "exe" => e \in DOMAIN log /\ log[e] = e[3] \cup e[4]
Unmade == \A e \in running : e[1] = "exe" => e \notin DOMAIN disk
ByEntry == Marked /\ Logged /\ Unmade /\ \A f \in Targets(o) : Joins(f)

\* Where times decide, a marker that is as new as the executable is of it.
MarkerBorn(f) == born[disk[Marker(f)].id]
Tested(f) == /\ Marker(f) \in DOMAIN disk /\ Bin(f) \in DOMAIN disk
             /\ disk[Marker(f)].holds = disk[Bin(f)].holds
Timed(f) ==
  /\ phase = "native" /\ Bin(f) \in DOMAIN disk /\ BinBorn(f) = clock => Bin(f) \in DOMAIN st
  /\ phase = "native" /\ Report(f) \in DOMAIN st => Tested(f)
  /\ Marker(f) \in DOMAIN disk =>
       /\ disk[Marker(f)].id[2] = Report(f)
       /\ phase = "native" /\ MarkerBorn(f) = clock => Report(f) \in DOMAIN st
       /\ Bin(f) \in DOMAIN disk /\ BinBorn(f) <= MarkerBorn(f) => disk[Marker(f)].holds = disk[Bin(f)].holds

TestInv ==
  Apt => /\ Aged
         /\ ~ o.use_mtime => ByEntry
         /\ o.use_mtime => \A f \in Range(o.tests) : Timed(f)
         /\ Ended => \A f \in Range(o.tests) : Tested(f)

LEMMA SameMarkers ==
  ASSUME w' = w, ver' = ver \/ o.use_mtime
  PROVE  \A f : Marker(f)' = Marker(f) /\ Report(f)' = Report(f)
<1>1. p' = p /\ o' = o  BY DEF p, o
<1>2. \A f : Bin(f)' = Bin(f)  BY SameWorld
<1>3. \A f : Marker(f)' = Marker(f)
  <2>1. CASE ver' = ver  BY <1>1, <2>1 DEF Marker, _result_marker_path, link_key, Objects, object_pathname, Text
  <2>2. CASE o.use_mtime  BY <1>1, <2>2 DEF Marker, _result_marker_path, ByContent
  <2> QED  BY <2>1, <2>2
<1> QED  BY <1>1, <1>2, <1>3 DEF Report

LEMMA MarkerNames ==
  /\ \A f : Bin(f)[1] = "bin" /\ Bin(f)[2] = "exe" /\ Key(f)[1] = "exe" /\ Marker(f)[1] = "result"
  /\ \A f : Report(f) = Marker(f) \/ Report(f)[1] = "xml"
  /\ \A f : Key(f)[3] \cup Key(f)[4] = Objects(p, ver, p.required[f]) \cup lib
  /\ \A x : Beside(x)[1] = "result" /\ Beside(x)[2] = x
  /\ ~ o.managed => \A f : Marker(f) = Beside(IF o.use_mtime THEN Bin(f) ELSE Key(f))
<1>1. \A f : Bin(f)[1] = "bin" /\ Bin(f)[2] = "exe" /\ Key(f)[1] = "exe"
  BY DEF Bin, executable_pathname, published, Key, link_key
<1>2. \A f : Marker(f)[1] = "result"  BY DEF Marker, _result_marker_path, Beside
<1>3. \A x : _xml_path_for(x)[1] = "xml"  BY DEF _xml_path_for
<1>4. \A f : Report(f) = Marker(f) \/ Report(f)[1] = "xml"  BY <1>3 DEF Report
<1>5. \A f : Key(f)[3] \cup Key(f)[4] = Objects(p, ver, p.required[f]) \cup lib  BY DEF Key, link_key
<1>6. \A x : Beside(x)[1] = "result" /\ Beside(x)[2] = x  BY DEF Beside
<1>7. ~ o.managed => \A f : Marker(f) = Beside(IF o.use_mtime THEN Bin(f) ELSE Key(f))
  BY DEF Marker, _result_marker_path, ByContent, Key, Bin, lib
<1> QED  BY <1>1, <1>2, <1>4, <1>5, <1>6, <1>7

LEMMA InitTests ==
  ASSUME Init
  PROVE  TestInv
<1>1. DOMAIN disk = {} /\ phase = "idle" /\ why = "none" /\ running = {}  BY DEF Init
<1>2. ~ Ended  BY <1>1 DEF Ended
<1>5. Aged  BY DEF Init, Aged, File
<1>3. Marked /\ Logged /\ Unmade  BY <1>1 DEF Marked, Logged, Unmade
<1>4. \A f : Joins(f) /\ Timed(f)  BY <1>1 DEF Joins, Joined, Parted, Timed
<1> QED  BY <1>2, <1>3, <1>4, <1>5 DEF TestInv, ByEntry

\* What ends or goes on with nothing moved on disk.
LEMMA TestsKept ==
  ASSUME TestInv, w' = w, ver' = ver, clock' = clock, disk' = disk, born' = born, log' = log,
         st' = st, edited' = edited, why' = why \/ why' # "ok",
         phase' = phase \/ (phase' # "native" /\ why' # "ok"),
         \A e \in running' : e \in running \/ (Apt /\ ~ o.use_mtime /\ e[1] = "exe" => e \notin DOMAIN disk)
  PROVE  TestInv'
<1> SUFFICES ASSUME Apt
             PROVE  /\ Aged' /\ (~ o.use_mtime => ByEntry')
                    /\ (o.use_mtime => \A f \in Range(o.tests) : Timed(f)')
                    /\ (Ended' => \A f \in Range(o.tests) : Tested(f)')
  <2>1. Apt' = Apt  BY SameWorld
  <2>2. o' = o  BY DEF o
  <2> QED  BY <2>1, <2>2 DEF TestInv
<1>1. \A f : Bin(f)' = Bin(f) /\ Key(f)' = Key(f) /\ Marker(f)' = Marker(f) /\ Report(f)' = Report(f)
  BY SameWorld, SameTree, SameMarkers
<1>2. o' = o  BY DEF o
<1>3. Aged'  BY DEF TestInv, Aged
<1>4. \A f : BinBorn(f)' = BinBorn(f) /\ KeyBorn(f)' = KeyBorn(f) /\ MarkerBorn(f)' = MarkerBorn(f)
             /\ Tested(f)' = Tested(f) /\ Joined(f)' = Joined(f)
  BY <1>1 DEF BinBorn, KeyBorn, MarkerBorn, Tested, Joined
<1>5. ASSUME ~ o.use_mtime PROVE ByEntry'
  <2>1. Marked /\ Logged /\ Unmade /\ \A f \in Targets(o) : Joins(f)  BY <1>5 DEF TestInv, ByEntry
  <2>2. Marked' /\ Logged'  BY <1>2, <2>1 DEF Marked, Logged
  <2>4. Unmade'  BY <1>5, <2>1 DEF Unmade
  <2>3. \A f \in Targets(o)' : Joins(f)'
    <3> SUFFICES ASSUME NEW f \in Targets(o) PROVE Joins(f)'  BY SameWorld
    <3>1. \A x : Beside(x)' = Beside(x)  BY DEF Beside
    <3> QED  BY <1>1, <1>4, <2>1, <3>1 DEF Joins, Parted
  <2> QED  BY <2>2, <2>3, <2>4 DEF ByEntry
<1>6. ASSUME o.use_mtime, NEW f \in Range(o.tests) PROVE Timed(f)'
  <2>1. Timed(f)  BY <1>6 DEF TestInv
  <2> QED  BY <1>1, <1>4, <2>1 DEF Timed
<1>7. Ended' => \A f \in Range(o.tests) : Tested(f)'
  <2>1. Ended' => Ended  BY DEF Ended
  <2> QED  BY <1>4, <2>1 DEF TestInv
<1> QED  BY <1>3, <1>5, <1>6, <1>7

LEMMA EditTests ==
  ASSUME PlanInv, FreshInv, WellInv, TestInv, back' = {}, NEW a \in DOMAIN ver, Edit(a)
  PROVE  TestInv'
<1>1. /\ w' = w /\ a # ENV /\ clock' = clock + 1 /\ disk' = disk /\ log' = log /\ st' = st
      /\ phase = "idle" /\ phase' = "idle" /\ edited' = edited \cup {a} /\ running' = running
      /\ born' = [born EXCEPT ![File(a)] = clock + 1] /\ ver' = [ver EXCEPT ![a] = ver[a] + 1]
  BY EditForth DEF Edit, Idle
<1> SUFFICES ASSUME Apt
             PROVE  /\ Aged' /\ (~ o.use_mtime => ByEntry')
                    /\ (o.use_mtime => \A f \in Range(o.tests) : Timed(f)')
                    /\ (Ended' => \A f \in Range(o.tests) : Tested(f)')
  <2>1. Apt' = Apt  BY <1>1, SameWorld
  <2>2. o' = o  BY <1>1 DEF o
  <2> QED  BY <2>1, <2>2 DEF TestInv
<1>2. Clocked /\ NotAhead /\ Aged  BY DEF FreshInv, TestInv
<1>3. o' = o  BY <1>1 DEF o
<1>4. \A x \in DOMAIN disk : born'[disk[x].id] = born[disk[x].id]
  <2>1. File(a)[1] = "file"  BY DEF File
  <2> QED  BY <1>1, <1>2, <2>1 DEF Clocked
<1>5. Aged'
  <2>1. File(a)[1] = "file"  BY DEF File
  <2> QED  BY <1>1, <1>2, <2>1 DEF Aged
<1>6. ~ Ended'  BY <1>1 DEF Ended
<1>7. \A f : Bin(f)' = Bin(f)  BY <1>1, SameWorld
<1>8. ASSUME ~ o.use_mtime PROVE ByEntry'
  <2>1. Marked /\ Logged /\ Unmade /\ \A f \in Targets(o) : Joins(f)  BY <1>8 DEF TestInv, ByEntry
  <2>2. Marked' /\ Logged' /\ Unmade'
    <3>1. \A x : Beside(x)' = Beside(x)  BY DEF Beside
    <3> QED  BY <1>1, <1>3, <2>1, <3>1 DEF Marked, Logged, Unmade
  <2>3. \A f \in Targets(o)' : Joins(f)'
    <3> SUFFICES ASSUME NEW f \in Targets(o) PROVE Joins(f)'  BY <1>1, SameWorld
    <3>1. Beside(Key(f))' = Beside(Key(f)')  BY DEF Beside
    <3>2. CASE Key(f)' = Key(f)
      <4>1. Joined(f)' = Joined(f)  BY <1>1, <1>7, <3>2 DEF Joined
      <4>2. /\ Bin(f) \in DOMAIN disk => BinBorn(f)' = BinBorn(f)
            /\ Key(f) \in DOMAIN disk => KeyBorn(f)' = KeyBorn(f)
        BY <1>1, <1>4, <1>7, <3>2 DEF BinBorn, KeyBorn
      <4>3. Joins(f)  BY <2>1
      <4> QED  BY <1>1, <1>7, <3>1, <3>2, <4>1, <4>2, <4>3 DEF Joins, Parted
    <3>3. CASE Key(f)' # Key(f)
      <4>1. Key(f)' \notin DOMAIN disk  BY <1>1, <1>2, <3>3, NewEntry
      <4>2. Beside(Key(f)') \notin DOMAIN disk
        <5>1. PICK k : k = Key(f)'  OBVIOUS
        <5>2. Beside(k)[1] = "result" /\ Beside(k)[2] = k  BY MarkerNames
        <5> QED  BY <2>1, <4>1, <5>1, <5>2 DEF Marked
      <4>3. ~ Joined(f)'  BY <1>1, <4>1 DEF Joined
      <4> QED  BY <1>1, <3>1, <4>1, <4>2, <4>3 DEF Joins, Parted
    <3> QED  BY <3>2, <3>3
  <2> QED  BY <2>2, <2>3 DEF ByEntry
<1>9. ASSUME o.use_mtime, NEW f \in Range(o.tests) PROVE Timed(f)'
  <2>1. Timed(f)  BY <1>9 DEF TestInv
  <2>2. Marker(f)' = Marker(f) /\ Report(f)' = Report(f)  BY <1>1, <1>9, SameMarkers
  <2>3. /\ Bin(f) \in DOMAIN disk => BinBorn(f)' = BinBorn(f)
        /\ Marker(f) \in DOMAIN disk => MarkerBorn(f)' = MarkerBorn(f)
    BY <1>1, <1>4, <1>7, <2>2 DEF BinBorn, MarkerBorn
  <2> QED  BY <1>1, <1>7, <2>1, <2>2, <2>3 DEF Timed
<1> QED  BY <1>5, <1>6, <1>8, <1>9

LEMMA TrimTests ==
  ASSUME FreshInv, WellInv, TestInv, NEW x \in DOMAIN disk, Trim(x)
  PROVE  TestInv'
<1>1. /\ w' = w /\ ver' = ver /\ clock' = clock /\ born' = born /\ log' = log /\ st' = st
      /\ phase = "idle" /\ phase' = "idle" /\ why' = "none" /\ running' = running
      /\ disk' = Restrict(disk, DOMAIN disk \ {x, Beside(x)}) /\ x[1] \notin {"bin", "result"}
  BY DEF Trim, Idle
<1> SUFFICES ASSUME Apt
             PROVE  /\ Aged' /\ (~ o.use_mtime => ByEntry')
                    /\ (o.use_mtime => \A f \in Range(o.tests) : Timed(f)')
                    /\ (Ended' => \A f \in Range(o.tests) : Tested(f)')
  <2>1. Apt' = Apt  BY <1>1, SameWorld
  <2>2. o' = o  BY <1>1 DEF o
  <2> QED  BY <2>1, <2>2 DEF TestInv
<1>2. /\ DOMAIN disk' = DOMAIN disk \ {x, Beside(x)}
      /\ \A y \in DOMAIN disk' : y \in DOMAIN disk /\ disk'[y] = disk[y]
  BY <1>1 DEF Restrict
<1>3. o' = o  BY <1>1 DEF o
<1>4. Aged'  BY <1>1, <1>2 DEF TestInv, Aged
<1>5. ~ Ended'  BY <1>1 DEF Ended
<1>6. \A f : Bin(f)' = Bin(f) /\ Key(f)' = Key(f) /\ Marker(f)' = Marker(f) /\ Report(f)' = Report(f)
  BY <1>1, SameWorld, SameTree, SameMarkers
<1>7. Beside(x)[1] = "result" /\ Beside(x)[2] = x  BY MarkerNames
<1>8. \A f : Bin(f) \in DOMAIN disk <=> Bin(f) \in DOMAIN disk'
  <2>1. \A f : Bin(f)[1] = "bin"  BY MarkerNames
  <2> QED  BY <1>1, <1>2, <1>7, <2>1
<1>9. ASSUME ~ o.use_mtime PROVE ByEntry'
  <2>1. Marked /\ Logged /\ Unmade /\ \A f \in Targets(o) : Joins(f)  BY <1>9 DEF TestInv, ByEntry
  <2>2. Marked'
    <3>1. ASSUME NEW y \in DOMAIN disk', y[1] = "result"
          PROVE  y = Beside(y[2]) /\ y[2][1] = "exe" /\ y[2] \in DOMAIN disk' /\ disk'[y].holds = disk'[y[2]].holds
      <4>1. /\ y \in DOMAIN disk /\ y = Beside(y[2]) /\ y[2][1] = "exe" /\ y[2] \in DOMAIN disk
            /\ disk[y].holds = disk[y[2]].holds /\ y # Beside(x)
        BY <1>2, <2>1, <3>1 DEF Marked
      <4>2. y[2] # x /\ y[2] # Beside(x)  BY <1>7, <4>1
      <4> QED  BY <1>2, <4>1, <4>2
    <3>2. \A y : Beside(y)' = Beside(y)  BY DEF Beside
    <3> QED  BY <3>1, <3>2 DEF Marked
  <2>3. Logged' /\ Unmade'  BY <1>1, <1>2, <1>3, <2>1 DEF Logged, Unmade
  <2>4. \A f \in Targets(o)' : Joins(f)'
    <3> SUFFICES ASSUME NEW f \in Targets(o) PROVE Joins(f)'  BY <1>1, SameWorld
    <3>1. Beside(Key(f))' = Beside(Key(f))  BY <1>6 DEF Beside
    <3>2. Joins(f)  BY <2>1
    <3>3. CASE Key(f) = x
      <4>1. Key(f) \notin DOMAIN disk' /\ Beside(Key(f)) \notin DOMAIN disk'  BY <1>2, <3>3
      <4>2. ~ Joined(f)'  BY <1>6, <4>1 DEF Joined
      <4> QED  BY <1>1, <1>6, <3>1, <4>1, <4>2 DEF Joins, Parted
    <3>4. CASE Key(f) # x
      <4>1. Key(f) \in DOMAIN disk <=> Key(f) \in DOMAIN disk'
        <5>1. Key(f)[1] = "exe"  BY MarkerNames
        <5> QED  BY <1>2, <1>7, <3>4, <5>1
      <4>2. Joined(f)' = Joined(f)  BY <1>2, <1>6, <1>8, <4>1 DEF Joined
      <4>3. /\ Bin(f) \in DOMAIN disk => BinBorn(f)' = BinBorn(f) /\ disk'[Bin(f)] = disk[Bin(f)]
            /\ Key(f) \in DOMAIN disk => KeyBorn(f)' = KeyBorn(f) /\ disk'[Key(f)] = disk[Key(f)]
        BY <1>1, <1>2, <1>6, <1>8, <4>1 DEF BinBorn, KeyBorn
      <4>4. CASE Joined(f)
        <5>1. disk[Bin(f)] = disk[Key(f)]  BY <3>2, <4>4 DEF Joins
        <5> QED  BY <1>6, <4>2, <4>3, <4>4, <5>1 DEF Joins, Joined
      <4>5. CASE ~ Joined(f)
        <5>1. Parted(f)  BY <3>2, <4>5 DEF Joins
        <5> QED  BY <1>1, <1>2, <1>6, <1>8, <3>1, <4>1, <4>2, <4>3, <4>5, <5>1 DEF Joins, Parted
      <4> QED  BY <4>4, <4>5
    <3> QED  BY <3>3, <3>4
  <2> QED  BY <2>2, <2>3, <2>4 DEF ByEntry
<1>10. ASSUME o.use_mtime, NEW f \in Range(o.tests) PROVE Timed(f)'
  <2>1. Timed(f)  BY <1>10 DEF TestInv
  <2>2. Marker(f) \in DOMAIN disk' => Marker(f) \in DOMAIN disk /\ disk'[Marker(f)] = disk[Marker(f)]
    BY <1>2
  <2>3. /\ Bin(f) \in DOMAIN disk => BinBorn(f)' = BinBorn(f) /\ disk'[Bin(f)] = disk[Bin(f)]
        /\ Marker(f) \in DOMAIN disk' => MarkerBorn(f)' = MarkerBorn(f)
    BY <1>1, <1>2, <1>6, <1>8, <2>2 DEF BinBorn, MarkerBorn
  <2> QED  BY <1>1, <1>6, <1>8, <2>1, <2>2, <2>3 DEF Timed
<1> QED  BY <1>4, <1>5, <1>9, <1>10

LEMMA GenerateTests ==
  ASSUME FreshInv, TestInv, Generate
  PROVE  TestInv'
<1>1. /\ w' = w /\ ver' = ver /\ clock' = clock + 1 /\ born' = born /\ log' = log /\ disk' = disk
      /\ phase = "idle" /\ running' = running /\ running = {}
  BY DEF Generate, Idle, tree, saved
<1> SUFFICES ASSUME Apt
             PROVE  /\ Aged' /\ (~ o.use_mtime => ByEntry')
                    /\ (o.use_mtime => \A f \in Range(o.tests) : Timed(f)')
                    /\ (Ended' => \A f \in Range(o.tests) : Tested(f)')
  <2>1. Apt' = Apt  BY <1>1, SameWorld
  <2>2. o' = o  BY <1>1 DEF o
  <2> QED  BY <2>1, <2>2 DEF TestInv
<1>2. phase' = "planned"  BY DEF Generate, Apt
<1>3. o' = o  BY <1>1 DEF o
<1>4. Aged' /\ ~ Ended'  BY <1>1, <1>2 DEF TestInv, Aged, Ended
<1>5. \A f : Bin(f)' = Bin(f) /\ Key(f)' = Key(f) /\ Marker(f)' = Marker(f) /\ Report(f)' = Report(f)
  BY <1>1, SameWorld, SameTree, SameMarkers
<1>6. \A f : BinBorn(f)' = BinBorn(f) /\ KeyBorn(f)' = KeyBorn(f) /\ MarkerBorn(f)' = MarkerBorn(f)
             /\ Joined(f)' = Joined(f)
  BY <1>1, <1>5 DEF BinBorn, KeyBorn, MarkerBorn, Joined
<1>7. \A x : Beside(x)' = Beside(x)  BY DEF Beside
<1>8. ASSUME ~ o.use_mtime PROVE ByEntry'
  <2>1. Marked /\ Logged /\ Unmade /\ \A f \in Targets(o) : Joins(f)  BY <1>8 DEF TestInv, ByEntry
  <2>2. Marked' /\ Logged' /\ Unmade'  BY <1>1, <1>3, <1>7, <2>1 DEF Marked, Logged, Unmade
  <2>3. \A f \in Targets(o)' : Joins(f)'
    <3> SUFFICES ASSUME NEW f \in Targets(o) PROVE Joins(f)'  BY <1>1, SameWorld
    <3> QED  BY <1>1, <1>2, <1>5, <1>6, <1>7, <2>1 DEF Joins, Parted
  <2> QED  BY <2>2, <2>3 DEF ByEntry
<1>9. ASSUME o.use_mtime, NEW f \in Range(o.tests) PROVE Timed(f)'
  <2>1. Timed(f)  BY <1>9 DEF TestInv
  <2> QED  BY <1>1, <1>2, <1>5, <1>6, <2>1 DEF Timed
<1> QED  BY <1>4, <1>8, <1>9

\* An entry is linked only when it is not there.
LEMMA StartTests ==
  ASSUME PlanInv, FreshInv, WellInv, TestInv, NEW x \in Runnable, Start(x)
  PROVE  TestInv'
<1>1. /\ w' = w /\ ver' = ver /\ clock' = clock /\ disk' = disk /\ born' = born /\ log' = log /\ st' = st
      /\ edited' = edited /\ why' = why /\ phase' = phase /\ running' = running \cup {x} /\ phase = "native"
  BY DEF Start, tree, saved, Going
<1>2. ASSUME Apt, ~ o.use_mtime, x[1] = "exe", x \in DOMAIN disk PROVE FALSE
  <2>1. ~ o.managed /\ script.g = Script(ver)  BY <1>1, <1>2 DEF Apt, FreshInv, Current
  <2>2. x \in DOMAIN script.g /\ OutOfDate(x)  BY DEF Runnable, Ready
  <2>3. PICK r : r = Rule(x)  OBVIOUS
  <2>4. PICK f \in Targets(o) :
          /\ x = Key(f) /\ r.type = "link" /\ r.out = x /\ r.ins = {}
          /\ r.reads = Objects(p, ver, p.required[f]) \cup lib
    <3>1. x \in DOMAIN Script(ver) /\ r = Script(ver)[x]  BY <2>1, <2>2, <2>3 DEF Rule
    <3> QED  BY <1>2, <2>1, <3>1, ExecutableLine DEF Key
  <2>5. Declared(r) = {x}  BY <2>4 DEF Declared
  <2>6. o.tool = "ninja" /\ NinjaWants(r)  BY <1>2, <2>2, <2>3, <2>4, <2>5 DEF OutOfDate
  <2>7. x \in DOMAIN log /\ log[x] = x[3] \cup x[4]  BY <1>2, <2>6 DEF TestInv, ByEntry, Logged
  <2>8. log[x] = r.reads  BY <2>4, <2>7, MarkerNames
  <2> QED  BY <2>4, <2>6, <2>7, <2>8 DEF NinjaWants
<1>3. \A e \in running' : e \in running \/ (Apt /\ ~ o.use_mtime /\ e[1] = "exe" => e \notin DOMAIN disk)
  BY <1>1, <1>2
<1> QED  BY <1>1, <1>3, TestsKept

\* What is done of a target is there.
LEMMA DoneIsThere ==
  ASSUME WellInv, Apt, phase = "native", script.g = Script(ver), OneName, ~ o.managed,
         NEW f \in Targets(o), NEW i \in {Bin(f), Key(f)}
  PROVE  /\ i \in DOMAIN script.g
         /\ i \in DOMAIN st => i \in DOMAIN disk
<1>1. /\ Bin(f) \in DOMAIN script.g /\ Rule(Bin(f)).type = "symlink" /\ Rule(Bin(f)).out = Bin(f)
      /\ Key(f) \in DOMAIN script.g
  BY PublishedLine DEF Rule, Key
<1>2. Key(f)[1] = "exe"  BY MarkerNames
<1>3. Rule(Key(f)).type = "link" /\ Rule(Key(f)).out = Key(f)  BY <1>1, <1>2, ExecutableLine DEF Rule
<1>4. i \in DOMAIN script.g /\ Rule(i).type \in {"symlink", "link"} /\ Rule(i).out = i  BY <1>1, <1>3
<1>5. Declared(Rule(i)) = {i}  BY <1>4 DEF Declared
<1> QED  BY <1>4, <1>5 DEF WellInv, Whole, Apt, Left

\* What waits for it and is up to date is there as well, and not older.
LEMMA SettledAfter ==
  ASSUME WellInv, Apt, Clocked, phase = "native", script.g = Script(ver), OneName, ~ o.managed,
         NEW f \in Targets(o), NEW i \in {Bin(f), Key(f)},
         NEW y \in Settled, NEW l, l = Rule(y), l.type \notin {"phony", "mkdir"}, i \in Waits(l)
  PROVE  /\ i \in DOMAIN st /\ i \in DOMAIN disk /\ Declared(l) \subseteq DOMAIN disk
         /\ i \in l.ins => \A z \in Declared(l) : z[1] # "file" => born[disk[i].id] <= born[disk[z].id]
<1>1. ~ OutOfDate(y) /\ y \in Ready  BY DEF Settled
<1>2. i \in DOMAIN script.g /\ (i \in DOMAIN st => i \in DOMAIN disk)  BY DoneIsThere
<1>3. i \in DOMAIN st  BY <1>1, <1>2 DEF Ready
<1>4. Declared(l) \subseteq DOMAIN disk  BY <1>1 DEF OutOfDate
<1>5. ASSUME i \in l.ins, NEW z \in Declared(l), z[1] # "file" PROVE born[disk[i].id] <= born[disk[z].id]
  <2>1. ~ Newer(i, z)  BY <1>1, <1>4, <1>5 DEF OutOfDate
  <2>2. Present(i)  BY <1>2, <1>3 DEF Present
  <2>3. ~ (Born(i) > Born(z))  BY <1>3, <2>1, <2>2 DEF Newer
  <2>4. i[1] # "file"
    <3>1. Bin(f)[1] = "bin" /\ Key(f)[1] = "exe"  BY MarkerNames
    <3> QED  BY <3>1
  <2>5. Born(i) = born[disk[i].id] /\ Born(z) = born[disk[z].id]  BY <1>5, <2>4 DEF Born
  <2>6. born[disk[i].id] \in Nat /\ born[disk[z].id] \in Nat  BY <1>2, <1>3, <1>4, <1>5 DEF Clocked
  <2> QED  BY <2>3, <2>5, <2>6
<1> QED  BY <1>2, <1>3, <1>4, <1>5

\* What is only up to date is not the executable that has to be published again, nor a
\* test of it.
LEMMA SettleTests ==
  ASSUME PlanInv, FreshInv, WellInv, TestInv, Settle
  PROVE  TestInv'
<1> DEFINE dirs == {x \in Settled : Rule(x).type = "mkdir" /\ x \notin DOMAIN disk}
<1>1. /\ w' = w /\ ver' = ver /\ clock' = clock /\ log' = log /\ running' = running
      /\ phase = "native" /\ phase' = phase /\ st' = Mark(Settled, "kept")
      /\ disk' = With(disk, [x \in dirs |-> [holds |-> {}, id |-> Node(x)]])
      /\ born' = With(born, [n \in {Node(x) : x \in dirs} |-> clock])
  BY DEF Settle, tree, Going
<1> SUFFICES ASSUME Apt
             PROVE  /\ Aged' /\ (~ o.use_mtime => ByEntry')
                    /\ (o.use_mtime => \A f \in Range(o.tests) : Timed(f)')
                    /\ (Ended' => \A f \in Range(o.tests) : Tested(f)')
  <2>1. Apt' = Apt  BY <1>1, SameWorld
  <2>2. o' = o  BY <1>1 DEF o
  <2> QED  BY <2>1, <2>2 DEF TestInv
<1>2. Clocked /\ Current /\ Aged  BY DEF FreshInv, TestInv
<1>3. o' = o  BY <1>1 DEF o
<1>4. OneName /\ ~ o.managed  BY NamesDiffer DEF Apt
<1>5. script.g = Script(ver)  BY <1>1, <1>2 DEF Current
<1>6. \A x \in dirs : x[1] \in {"dir", "bucket"}
  <2>1. \A x \in Settled : x \in DOMAIN script.g  BY DEF Settled, Ready
  <2> QED  BY <1>4, <1>5, <2>1, OtherLines DEF Rule
<1> HIDE DEF dirs
<1>7. /\ DOMAIN disk' = DOMAIN disk \cup dirs
      /\ \A x \in DOMAIN disk : disk'[x] = disk[x]
      /\ \A x \in DOMAIN disk' \ DOMAIN disk : disk'[x].id = Node(x) /\ x \in dirs
  BY <1>1 DEF With
<1>8. /\ DOMAIN born' = DOMAIN born \cup {Node(x) : x \in dirs}
      /\ \A n \in DOMAIN born : born'[n] = born[n]
      /\ \A n \in DOMAIN born' \ DOMAIN born : born'[n] = clock
  BY <1>1 DEF With
<1>9. \A x \in DOMAIN disk : born'[disk[x].id] = born[disk[x].id]  BY <1>2, <1>8 DEF Clocked
<1>10. Aged'
  <2>1. \A x : Node(x)[3] = clock  BY DEF Node
  <2> QED  BY <1>2, <1>8, <2>1 DEF Aged, Clocked
<1>11. ~ Ended'  BY <1>1 DEF Ended
<1>12. \A f : Bin(f)' = Bin(f) /\ Key(f)' = Key(f) /\ Marker(f)' = Marker(f) /\ Report(f)' = Report(f)
  BY <1>1, SameWorld, SameTree, SameMarkers
<1>13. \A x : x[1] \in {"bin", "exe", "result"} =>
         /\ x \in DOMAIN disk' <=> x \in DOMAIN disk
         /\ x \in DOMAIN disk => disk'[x] = disk[x] /\ born'[disk'[x].id] = born[disk[x].id]
  BY <1>6, <1>7, <1>9
<1>14. DOMAIN st' = DOMAIN st \cup Settled  BY <1>1 DEF Mark
<1>17. clock' = clock /\ phase' = phase /\ phase = "native" /\ log' = log /\ running' = running  BY <1>1
<1>15. ASSUME ~ o.use_mtime PROVE ByEntry'
  <2>1. Marked /\ Logged /\ Unmade /\ \A f \in Targets(o) : Joins(f)  BY <1>15 DEF TestInv, ByEntry
  <2>2. Marked'
    <3>1. ASSUME NEW y \in DOMAIN disk', y[1] = "result"
          PROVE  y = Beside(y[2]) /\ y[2][1] = "exe" /\ y[2] \in DOMAIN disk' /\ disk'[y].holds = disk'[y[2]].holds
      BY <1>13, <2>1, <3>1 DEF Marked
    <3>2. \A y : Beside(y)' = Beside(y)  BY DEF Beside
    <3> QED  BY <3>1, <3>2 DEF Marked
  <2>5. \A e : e[1] = "exe" => (e \in DOMAIN disk' <=> e \in DOMAIN disk)  BY <1>13
  <2>3. Logged' /\ Unmade'  BY <1>3, <1>17, <2>1, <2>5 DEF Logged, Unmade
  <2>4. \A f \in Targets(o)' : Joins(f)'
    <3> SUFFICES ASSUME NEW f \in Targets(o) PROVE Joins(f)'  BY <1>1, SameWorld
    <3>1. Bin(f)[1] = "bin" /\ Key(f)[1] = "exe" /\ Beside(Key(f))[1] = "result"  BY MarkerNames
    <3>2. Joined(f)' = Joined(f)  BY <1>12, <1>13, <3>1 DEF Joined
    <3>3. Joins(f)  BY <2>1
    <3>4. CASE Joined(f)  BY <1>12, <1>13, <3>1, <3>2, <3>3, <3>4 DEF Joins, Joined
    <3>5. CASE ~ Joined(f)
      <4>1. Parted(f)  BY <3>3, <3>5 DEF Joins
      <4>2. Beside(Key(f))' = Beside(Key(f))  BY <1>12 DEF Beside
      <4>3. /\ Bin(f) \in DOMAIN disk => BinBorn(f)' = BinBorn(f)
            /\ Key(f) \in DOMAIN disk => KeyBorn(f)' = KeyBorn(f)
        BY <1>12, <1>13, <3>1 DEF BinBorn, KeyBorn
      <4>4. Bin(f) \notin Settled
        <5> SUFFICES ASSUME Bin(f) \in Settled PROVE FALSE  OBVIOUS
        <5>1. PICK l : l = Rule(Bin(f))  OBVIOUS
        <5>2. l.type = "symlink" /\ l.out = Bin(f) /\ l.ins = {Key(f)} /\ Key(f) \in Waits(l)
          BY <1>4, <1>5, <5>1, PublishedLine DEF Rule, Key
        <5>3. Declared(l) = {Bin(f)}  BY <5>2 DEF Declared
        <5>4. Key(f) \in DOMAIN disk /\ Bin(f) \in DOMAIN disk /\ KeyBorn(f) <= BinBorn(f)
          BY <1>1, <1>2, <1>4, <1>5, <3>1, <5>1, <5>2, <5>3, SettledAfter DEF KeyBorn, BinBorn
        <5>5. KeyBorn(f) \in Nat /\ BinBorn(f) \in Nat  BY <1>2, <5>4 DEF Clocked, KeyBorn, BinBorn
        <5> QED  BY <4>1, <5>4, <5>5 DEF Parted
      <4>5. /\ Bin(f) \in DOMAIN disk' <=> Bin(f) \in DOMAIN disk
            /\ Key(f) \in DOMAIN disk' <=> Key(f) \in DOMAIN disk
            /\ Beside(Key(f)) \in DOMAIN disk' <=> Beside(Key(f)) \in DOMAIN disk
        BY <1>13, <3>1
      <4>6. Bin(f) \notin DOMAIN st'  BY <1>14, <1>17, <4>1, <4>4 DEF Parted
      <4> QED  BY <1>12, <1>17, <3>2, <3>5, <4>1, <4>2, <4>3, <4>5, <4>6 DEF Joins, Parted
    <3> QED  BY <3>4, <3>5
  <2> QED  BY <2>2, <2>3, <2>4 DEF ByEntry
<1>16. ASSUME o.use_mtime, NEW f \in Range(o.tests) PROVE Timed(f)'
  <2>1. Timed(f) /\ f \in Targets(o)  BY <1>16 DEF TestInv, Targets
  <2>2. Bin(f)[1] = "bin" /\ Marker(f)[1] = "result"  BY MarkerNames
  <2>3. /\ Bin(f) \in DOMAIN disk => BinBorn(f)' = BinBorn(f)
        /\ Marker(f) \in DOMAIN disk => MarkerBorn(f)' = MarkerBorn(f)
    BY <1>12, <1>13, <2>2 DEF BinBorn, MarkerBorn
  <2>4. Tested(f)' = Tested(f)  BY <1>12, <1>13, <2>2 DEF Tested
  <2>5. Report(f) \in Settled => Tested(f)
    <3> SUFFICES ASSUME Report(f) \in Settled PROVE Tested(f)  OBVIOUS
    <3>1. PICK l : /\ l = Rule(Report(f)) /\ l.type = "test" /\ Declared(l) = {Report(f), Marker(f)}
                   /\ Bin(f) \in Waits(l) /\ Bin(f) \in l.ins
      BY <1>4, <1>5, <1>16, TestLine DEF Rule
    <3>2. Bin(f) \in DOMAIN disk /\ Marker(f) \in DOMAIN disk /\ BinBorn(f) <= MarkerBorn(f)
      BY <1>1, <1>2, <1>4, <1>5, <2>1, <2>2, <3>1, SettledAfter DEF BinBorn, MarkerBorn
    <3> QED  BY <2>1, <3>2 DEF Timed, Tested
  <2>6. /\ Bin(f) \in DOMAIN disk' <=> Bin(f) \in DOMAIN disk
        /\ Marker(f) \in DOMAIN disk' <=> Marker(f) \in DOMAIN disk
        /\ Bin(f) \in DOMAIN disk => disk'[Bin(f)] = disk[Bin(f)]
        /\ Marker(f) \in DOMAIN disk => disk'[Marker(f)] = disk[Marker(f)]
    BY <1>13, <2>2
  <2>7. /\ Bin(f) \in DOMAIN st => Bin(f) \in DOMAIN st'
        /\ Report(f) \in DOMAIN st => Report(f) \in DOMAIN st'
        /\ Report(f) \in DOMAIN st' => Report(f) \in DOMAIN st \cup Settled
    BY <1>14
  <2> QED  BY <1>12, <1>17, <2>1, <2>3, <2>4, <2>5, <2>6, <2>7 DEF Timed
<1> QED  BY <1>10, <1>11, <1>15, <1>16

\* Where a marker is beside the entry of now, that is what is published.
LEMMA MarkedTested ==
  ASSUME ~ o.use_mtime, ~ o.managed, ByEntry, NEW f \in Targets(o), Marker(f) \in DOMAIN disk
  PROVE  Tested(f)
<1>1. Marker(f) = Beside(Key(f)) /\ Marker(f)[1] = "result" /\ Marker(f)[2] = Key(f)
  <2>1. Marker(f) = Beside(Key(f))  BY MarkerNames
  <2> QED  BY <2>1, MarkerNames
<1>2. Joined(f) /\ disk[Bin(f)] = disk[Key(f)]  BY <1>1 DEF ByEntry, Joins, Parted
<1>3. disk[Marker(f)].holds = disk[Key(f)].holds  BY <1>1 DEF ByEntry, Marked
<1> QED  BY <1>2, <1>3 DEF Tested, Joined

\* What was published long ago is made young again only where it is the entry of now,
\* and nothing is left out unless every test has its marker.
LEMMA ExecuteTests ==
  ASSUME PlanInv, FreshInv, WellInv, TestInv, NEW long, Execute(long)
  PROVE  TestInv'
<1>1. /\ w' = w /\ ver' = ver /\ clock' = clock /\ log' = log /\ disk' = disk /\ running' = running
      /\ st' = st /\ phase = "planned" /\ born' = Freshened(long)
  BY DEF Execute
<1> SUFFICES ASSUME Apt
             PROVE  /\ Aged' /\ (~ o.use_mtime => ByEntry')
                    /\ (o.use_mtime => \A f \in Range(o.tests) : Timed(f)')
                    /\ (Ended' => \A f \in Range(o.tests) : Tested(f)')
  <2>1. Apt' = Apt  BY <1>1, SameWorld
  <2>2. o' = o  BY <1>1 DEF o
  <2> QED  BY <2>1, <2>2 DEF TestInv
<1>2. Clocked /\ Current /\ Told /\ Aged  BY DEF FreshInv, TestInv
<1>3. o' = o  BY <1>1 DEF o
<1>4. OneName /\ ~ o.managed  BY NamesDiffer DEF Apt
<1>5. PICK g : g = build_graph(p, o, ver)  OBVIOUS
<1>6. graph = g /\ script.g = Script(ver)  BY <1>1, <1>2, <1>5 DEF Current
<1>7. (_all_outputs_current(graph) /\ phase' = "idle") \/ phase' = "native"  BY <1>4 DEF Execute
<1>8. /\ DOMAIN born' = DOMAIN born
      /\ \A n \in DOMAIN born : \/ born'[n] = born[n]
                                \/ /\ born'[n] = clock /\ ~ o.use_mtime
                                   /\ \E e \in _published_cas_entries(graph) \cap DOMAIN disk : disk[e].id = n
  BY <1>1 DEF Freshened
<1>9. \A f : Bin(f)' = Bin(f) /\ Key(f)' = Key(f) /\ Marker(f)' = Marker(f) /\ Report(f)' = Report(f)
  BY <1>1, SameWorld, SameTree, SameMarkers
<1>10. Aged'  BY <1>2, <1>8 DEF Aged, Clocked
<1>11. DOMAIN st' = {}  BY <1>1 DEF WellInv, Whole, Apt, Staged
<1>12. \A f : Tested(f)' = Tested(f) /\ Joined(f)' = Joined(f)  BY <1>1, <1>9 DEF Tested, Joined
<1>13. ASSUME ~ o.use_mtime PROVE ByEntry'
  <2>1. Marked /\ Logged /\ Unmade /\ \A f \in Targets(o) : Joins(f)  BY <1>13 DEF TestInv, ByEntry
  <2>2. \A x : Beside(x)' = Beside(x)  BY DEF Beside
  <2>3. Marked' /\ Logged' /\ Unmade'  BY <1>1, <1>3, <2>1, <2>2 DEF Marked, Logged, Unmade
  <2>4. \A f \in Targets(o)' : Joins(f)'
    <3> SUFFICES ASSUME NEW f \in Targets(o) PROVE Joins(f)'  BY <1>1, SameWorld
    <3>1. Joins(f)  BY <2>1
    <3>2. CASE Joined(f)  BY <1>1, <1>9, <1>12, <3>1, <3>2 DEF Joins
    <3>3. CASE ~ Joined(f)
      <4>1. Parted(f)  BY <3>1, <3>3 DEF Joins
      <4>2. Beside(Key(f))' = Beside(Key(f))  BY <1>9 DEF Beside
      <4>3. Bin(f) \in DOMAIN disk => BinBorn(f)' = BinBorn(f) /\ BinBorn(f) < clock
        <5> SUFFICES ASSUME Bin(f) \in DOMAIN disk PROVE BinBorn(f)' = BinBorn(f) /\ BinBorn(f) < clock
          OBVIOUS
        <5>1. disk[Bin(f)].id \in DOMAIN born /\ born[disk[Bin(f)].id] < clock  BY <1>1, <1>2 DEF Clocked
        <5>2. ASSUME NEW e \in _published_cas_entries(graph) \cap DOMAIN disk PROVE disk[e].id # disk[Bin(f)].id
          <6>1. PICK y \in DOMAIN g : g[y].type = "symlink" /\ e \in g[y].ins
            BY <1>6 DEF _published_cas_entries, RulesOf
          <6>2. PICK r : r = g[y]  OBVIOUS
          <6>3. r \in PlannedRules(p, o, ver)  BY <1>5, <6>2, GraphRules
          <6>4. Publishes(r, ver) /\ e \in r.ins  BY <1>4, <6>1, <6>2, <6>3, SymlinkRule
          <6>5. disk[e].id = disk[Bin(f)].id => e = Key(f)  BY <1>2, <1>4, <6>4, OwnPublished
          <6> QED  BY <3>3, <6>5 DEF Joined
        <5>3. born'[disk[Bin(f)].id] = born[disk[Bin(f)].id]  BY <1>8, <5>1, <5>2
        <5> QED  BY <1>1, <1>9, <5>1, <5>3 DEF BinBorn
      <4>4. Key(f) \in DOMAIN disk => KeyBorn(f)' \in {KeyBorn(f), clock}
        BY <1>1, <1>2, <1>8, <1>9 DEF Clocked, KeyBorn
      <4>5. Bin(f) \in DOMAIN disk /\ Key(f) \in DOMAIN disk => BinBorn(f)' < KeyBorn(f)'
        BY <4>1, <4>3, <4>4 DEF Parted
      <4>6. Parted(f)'
        BY <1>1, <1>9, <1>11, <4>1, <4>2, <4>3, <4>5 DEF Parted
      <4> QED  BY <1>12, <3>3, <4>6 DEF Joins
    <3> QED  BY <3>2, <3>3
  <2> QED  BY <2>3, <2>4 DEF ByEntry
<1>14. ASSUME o.use_mtime, NEW f \in Range(o.tests) PROVE Timed(f)'
  <2>1. Timed(f)  BY <1>14 DEF TestInv
  <2>2. \A x \in DOMAIN disk : born'[disk[x].id] = born[disk[x].id] /\ born[disk[x].id] < clock
                               /\ born[disk[x].id] \in Nat
    BY <1>1, <1>2, <1>8, <1>14 DEF Clocked
  <2>3. /\ Bin(f) \in DOMAIN disk => BinBorn(f)' = BinBorn(f) /\ BinBorn(f) < clock /\ BinBorn(f) \in Nat
        /\ Marker(f) \in DOMAIN disk => MarkerBorn(f)' = MarkerBorn(f) /\ MarkerBorn(f) < clock
                                        /\ MarkerBorn(f) \in Nat
    BY <1>1, <1>9, <2>2 DEF BinBorn, MarkerBorn
  <2>4. clock' = clock /\ disk' = disk /\ clock \in Nat  BY <1>1, <1>2 DEF Clocked
  <2> QED  BY <1>9, <1>11, <2>1, <2>3, <2>4 DEF Timed
<1>15. ASSUME Ended', NEW f \in Range(o.tests) PROVE Tested(f)'
  <2>1. _all_outputs_current(graph)  BY <1>7, <1>15 DEF Ended
  <2>2. ~ o.use_mtime /\ \A r \in RulesOf(graph, {"test"}) : r.marker \in DOMAIN disk
    BY <2>1 DEF _all_outputs_current
  <2>3. /\ f \in Targets(o) /\ Report(f) \in DOMAIN Script(ver)
        /\ Script(ver)[Report(f)].type = "test" /\ Script(ver)[Report(f)].marker = Marker(f)
    BY <1>4, <1>15, TestLine
  <2>4. PICK r : r = g[Report(f)]  OBVIOUS
  <2>5. Report(f) \in DOMAIN g /\ Script(ver)[Report(f)] = Line(r)
    BY <1>5, <2>3, <2>4 DEF Script, _write_makefile
  <2>6. r \in PlannedRules(p, o, ver)  BY <1>5, <2>4, <2>5, GraphRules
  <2>7. r.type = "test" /\ r.marker = Marker(f)
    <3>1. Shaped(r)  BY <2>6, Shape
    <3>2. Line(r).type = r.type /\ Line(r).marker = r.marker  BY <3>1 DEF Line, Shaped
    <3> QED  BY <2>3, <2>5, <3>2
  <2>8. Marker(f) \in DOMAIN disk  BY <1>6, <2>2, <2>4, <2>5, <2>7 DEF RulesOf
  <2> QED  BY <1>4, <1>12, <2>2, <2>3, <2>8, MarkedTested DEF TestInv
<1> QED  BY <1>10, <1>13, <1>14, <1>15

LEMMA SucceedTests ==
  ASSUME PlanInv, FreshInv, WellInv, TestInv, Succeed
  PROVE  TestInv'
<1>1. /\ w' = w /\ ver' = ver /\ clock' = clock /\ disk' = disk /\ born' = born /\ log' = log
      /\ running' = running /\ st' = st /\ phase' = "idle"
      /\ \/ phase = "native" /\ DOMAIN st = DOMAIN script.g
         \/ phase = "prebuild"
  BY DEF Succeed
<1> SUFFICES ASSUME Apt
             PROVE  /\ Aged' /\ (~ o.use_mtime => ByEntry')
                    /\ (o.use_mtime => \A f \in Range(o.tests) : Timed(f)')
                    /\ (Ended' => \A f \in Range(o.tests) : Tested(f)')
  <2>1. Apt' = Apt  BY <1>1, SameWorld
  <2>2. o' = o  BY <1>1 DEF o
  <2> QED  BY <2>1, <2>2 DEF TestInv
<1>2. phase = "native" /\ DOMAIN st = DOMAIN script.g  BY <1>1 DEF WellInv, Whole, Apt, Staged
<1>3. o' = o  BY <1>1 DEF o
<1>4. OneName /\ ~ o.managed  BY NamesDiffer DEF Apt
<1>5. script.g = Script(ver)  BY <1>2 DEF FreshInv, Current
<1>6. Aged'  BY <1>1 DEF TestInv, Aged
<1>7. \A f : Bin(f)' = Bin(f) /\ Key(f)' = Key(f) /\ Marker(f)' = Marker(f) /\ Report(f)' = Report(f)
  BY <1>1, SameWorld, SameTree, SameMarkers
<1>8. \A f : BinBorn(f)' = BinBorn(f) /\ KeyBorn(f)' = KeyBorn(f) /\ MarkerBorn(f)' = MarkerBorn(f)
             /\ Tested(f)' = Tested(f) /\ Joined(f)' = Joined(f)
  BY <1>1, <1>7 DEF BinBorn, KeyBorn, MarkerBorn, Tested, Joined
<1>9. ASSUME ~ o.use_mtime PROVE ByEntry'
  <2>1. Marked /\ Logged /\ Unmade /\ \A f \in Targets(o) : Joins(f)  BY <1>9 DEF TestInv, ByEntry
  <2>2. \A x : Beside(x)' = Beside(x)  BY DEF Beside
  <2>3. Marked' /\ Logged' /\ Unmade'  BY <1>1, <1>3, <2>1, <2>2 DEF Marked, Logged, Unmade
  <2>4. \A f \in Targets(o)' : Joins(f)'
    <3> SUFFICES ASSUME NEW f \in Targets(o) PROVE Joins(f)'  BY <1>1, SameWorld
    <3> QED  BY <1>1, <1>7, <1>8, <2>1, <2>2 DEF Joins, Parted
  <2> QED  BY <2>3, <2>4 DEF ByEntry
<1>10. ASSUME o.use_mtime, NEW f \in Range(o.tests) PROVE Timed(f)'
  <2>1. Timed(f)  BY <1>10 DEF TestInv
  <2> QED  BY <1>1, <1>7, <1>8, <2>1 DEF Timed
<1>11. ASSUME NEW f \in Range(o.tests) PROVE Tested(f)'
  <2>1. PICK l : /\ f \in Targets(o) /\ Report(f) \in DOMAIN script.g /\ l = Rule(Report(f))
                 /\ l.type = "test" /\ Declared(l) = {Report(f), Marker(f)}
    BY <1>4, <1>5, <1>11, TestLine DEF Rule
  <2>2. CASE o.use_mtime  BY <1>2, <1>8, <1>11, <2>1, <2>2 DEF TestInv, Timed
  <2>3. CASE ~ o.use_mtime
    <3>1. Marker(f) \in DOMAIN disk  BY <1>2, <2>1 DEF WellInv, Whole, Apt, Left
    <3> QED  BY <1>4, <1>8, <2>1, <2>3, <3>1, MarkedTested DEF TestInv
  <2> QED  BY <2>2, <2>3
<1> QED  BY <1>6, <1>9, <1>10, <1>11

\* What leaves the executables, the entries and the markers as they are, and does no
\* more than tests of others.
LEMMA StillTested ==
  ASSUME TestInv, Apt, phase = "native", w' = w, ver' = ver, clock' = clock, phase' = phase, Aged',
         running' \subseteq running, log' = log, DOMAIN st \subseteq DOMAIN st',
         \A f \in Targets(o) : Bin(f) \in DOMAIN st' => Bin(f) \in DOMAIN st,
         \A f \in Range(o.tests) : Report(f) \in DOMAIN st' => Report(f) \in DOMAIN st,
         \A y : y[1] \in {"bin", "exe", "result"} =>
           /\ y \in DOMAIN disk' <=> y \in DOMAIN disk
           /\ y \in DOMAIN disk => disk'[y] = disk[y] /\ born'[disk'[y].id] = born[disk[y].id]
  PROVE  TestInv'
<1> SUFFICES /\ (~ o.use_mtime => ByEntry')
             /\ (o.use_mtime => \A f \in Range(o.tests) : Timed(f)')
             /\ (Ended' => \A f \in Range(o.tests) : Tested(f)')
  <2>1. o' = o  BY DEF o
  <2> QED  BY <2>1 DEF TestInv
<1>1. o' = o /\ ~ Ended'  BY DEF o, Ended
<1>2. \A f : Bin(f)' = Bin(f) /\ Key(f)' = Key(f) /\ Marker(f)' = Marker(f) /\ Report(f)' = Report(f)
  BY SameWorld, SameTree, SameMarkers
<1>3. \A f : Bin(f)[1] = "bin" /\ Key(f)[1] = "exe" /\ Marker(f)[1] = "result" /\ Beside(Key(f))[1] = "result"
  BY MarkerNames
<1>4. ASSUME ~ o.use_mtime PROVE ByEntry'
  <2>1. Marked /\ Logged /\ Unmade /\ \A f \in Targets(o) : Joins(f)  BY <1>4 DEF TestInv, ByEntry
  <2>2. Marked'
    <3>1. ASSUME NEW y \in DOMAIN disk', y[1] = "result"
          PROVE  y = Beside(y[2]) /\ y[2][1] = "exe" /\ y[2] \in DOMAIN disk' /\ disk'[y].holds = disk'[y[2]].holds
      BY <2>1, <3>1 DEF Marked
    <3>2. \A y : Beside(y)' = Beside(y)  BY DEF Beside
    <3> QED  BY <3>1, <3>2 DEF Marked
  <2>3. \A e : e[1] = "exe" => (e \in DOMAIN disk' <=> e \in DOMAIN disk)  OBVIOUS
  <2>4. Logged' /\ Unmade'  BY <1>1, <2>1, <2>3 DEF Logged, Unmade
  <2>5. \A f \in Targets(o)' : Joins(f)'
    <3> SUFFICES ASSUME NEW f \in Targets(o) PROVE Joins(f)'  BY SameWorld
    <3>1. /\ Bin(f) \in DOMAIN disk' <=> Bin(f) \in DOMAIN disk
          /\ Key(f) \in DOMAIN disk' <=> Key(f) \in DOMAIN disk
          /\ Beside(Key(f)) \in DOMAIN disk' <=> Beside(Key(f)) \in DOMAIN disk
          /\ Bin(f) \in DOMAIN disk => disk'[Bin(f)] = disk[Bin(f)]
          /\ Key(f) \in DOMAIN disk => disk'[Key(f)] = disk[Key(f)]
      BY <1>3
    <3>2. Joined(f)' = Joined(f)  BY <1>2, <3>1 DEF Joined
    <3>3. /\ Bin(f) \in DOMAIN disk => BinBorn(f)' = BinBorn(f)
          /\ Key(f) \in DOMAIN disk => KeyBorn(f)' = KeyBorn(f)
      BY <1>2, <1>3 DEF BinBorn, KeyBorn
    <3>4. Joins(f)  BY <2>1
    <3>5. Beside(Key(f))' = Beside(Key(f))  BY <1>2 DEF Beside
    <3>6. CASE Joined(f)
      <4>1. disk'[Bin(f)] = disk'[Key(f)]  BY <3>1, <3>4, <3>6 DEF Joins, Joined
      <4> QED  BY <1>2, <3>2, <3>6, <4>1 DEF Joins
    <3>7. CASE ~ Joined(f)
      <4>1. Parted(f)  BY <3>4, <3>7 DEF Joins
      <4>2. Parted(f)'  BY <1>2, <3>1, <3>3, <3>5, <4>1 DEF Parted
      <4> QED  BY <3>2, <3>7, <4>2 DEF Joins
    <3> QED  BY <3>6, <3>7
  <2> QED  BY <2>2, <2>4, <2>5 DEF ByEntry
<1>5. ASSUME o.use_mtime, NEW f \in Range(o.tests) PROVE Timed(f)'
  <2>1. Timed(f)  BY <1>5 DEF TestInv
  <2>2. /\ Bin(f) \in DOMAIN disk' <=> Bin(f) \in DOMAIN disk
        /\ Marker(f) \in DOMAIN disk' <=> Marker(f) \in DOMAIN disk
        /\ Bin(f) \in DOMAIN disk => disk'[Bin(f)] = disk[Bin(f)]
        /\ Marker(f) \in DOMAIN disk => disk'[Marker(f)] = disk[Marker(f)]
    BY <1>3
  <2>3. /\ Bin(f) \in DOMAIN disk => BinBorn(f)' = BinBorn(f)
        /\ Marker(f) \in DOMAIN disk => MarkerBorn(f)' = MarkerBorn(f)
    BY <1>2, <1>3 DEF BinBorn, MarkerBorn
  <2>4. Tested(f)' = Tested(f)  BY <1>2, <2>2 DEF Tested
  <2>5. /\ Bin(f) \in DOMAIN st => Bin(f) \in DOMAIN st'
        /\ Report(f) \in DOMAIN st' <=> Report(f) \in DOMAIN st
    OBVIOUS
  <2> QED  BY <1>2, <2>1, <2>2, <2>3, <2>4, <2>5 DEF Timed
<1> QED  BY <1>1, <1>4, <1>5

\* A test that fails leaves no marker.
LEMMA FailedTests ==
  ASSUME PlanInv, FreshInv, WellInv, TestInv, Apt, phase = "native", NEW x \in running,
         NEW r, r = Rule(x), r.type = "test", NEW n, n = Node(x), LeftReport(r, n),
         w' = w, ver' = ver, clock' = clock, phase' = phase, st' = st, log' = log, running' = running \ {x}
  PROVE  TestInv'
<1>2. Clocked /\ Current /\ Told /\ Aged  BY DEF FreshInv, TestInv
<1>4. OneName /\ ~ o.managed  BY NamesDiffer DEF Apt
<1>5. script.g = Script(ver) /\ x \in DOMAIN Script(ver) /\ r = Script(ver)[x]
  BY <1>2 DEF Current, PlanInv, Orderly, Rule
<1>6. \A y \in DOMAIN disk' : y[1] # "xml" => y \in DOMAIN disk /\ disk'[y] = disk[y]
  <2> SUFFICES ASSUME NEW y \in DOMAIN disk', ~ (y \in DOMAIN disk /\ disk'[y] = disk[y])
               PROVE  y[1] = "xml"
    OBVIOUS
  <2>1. y \in Outputs(r) /\ y # r.marker /\ y[1] \in {"xml", "result"}  BY DEF LeftReport
  <2>2. PICK f \in Range(o.tests) : x = Report(f) /\ y \in {Report(f), Marker(f)}
    BY <1>4, <1>5, <2>1, ReportLine
  <2>3. r.marker = Marker(f)  BY <1>4, <1>5, <2>2, TestLine
  <2> QED  BY <2>1, <2>2, <2>3, MarkerNames
<1>7. /\ DOMAIN disk \subseteq DOMAIN disk' /\ DOMAIN born \subseteq DOMAIN born'
      /\ \A m \in DOMAIN born' : (m = n /\ born'[m] = clock) \/ (m \in DOMAIN born /\ born'[m] = born[m])
  BY DEF LeftReport
<1>8. n[1] = "node" /\ n[3] = clock  BY DEF Node
<1>9. \A m \in DOMAIN born : born'[m] = born[m]
  <2>1. n \in DOMAIN born => born[n] = clock  BY <1>2, <1>8 DEF Aged, Clocked
  <2> QED  BY <1>7, <2>1
<1>10. Aged'  BY <1>2, <1>7, <1>8 DEF Aged, Clocked
<1>12. \A y : y[1] \in {"bin", "exe", "result"} =>
         /\ y \in DOMAIN disk' <=> y \in DOMAIN disk
         /\ y \in DOMAIN disk => disk'[y] = disk[y] /\ born'[disk'[y].id] = born[disk[y].id]
  BY <1>2, <1>6, <1>7, <1>9 DEF Clocked
<1> QED  BY <1>10, <1>12, StillTested

\* A rule is done: what moves beside the files it left.
Done(x, r, n) ==
  /\ w' = w /\ ver' = ver /\ clock' = clock /\ phase' = phase /\ DOMAIN st' = DOMAIN st \cup {x}
  /\ running' = running \ {x} /\ (o.tool = "ninja" => log' = With([y \in {x} |-> r.reads], log))
  /\ DOMAIN born' = DOMAIN born \cup {n} /\ born'[n] = clock
  /\ \A m \in DOMAIN born : m # n => born'[m] = born[m]

LEMMA DoneKeeps ==
  ASSUME FreshInv, TestInv, Apt, phase = "native", NEW x, NEW r, NEW n, n[1] = "node", Done(x, r, n)
  PROVE  /\ o' = o /\ ~ Ended'
         /\ n[3] \in Nat /\ n[3] <= clock => Aged'
         /\ n[3] = clock => \A m \in DOMAIN born : born'[m] = born[m]
         /\ o.tool = "ninja" => DOMAIN log' = DOMAIN log \cup {x} /\ log'[x] = r.reads
                                /\ \A y \in DOMAIN log : y # x => log'[y] = log[y]
<1>1. o' = o /\ ~ Ended'  BY DEF Done, o, Ended
<1>2. Aged /\ Clocked  BY DEF FreshInv, TestInv
<1>3. n[3] \in Nat /\ n[3] <= clock => Aged'  BY <1>2 DEF Done, Aged
<1>4. n[3] = clock => \A m \in DOMAIN born : born'[m] = born[m]
  <2>1. n[3] = clock /\ n \in DOMAIN born => born[n] = clock  BY <1>2 DEF Aged, Clocked
  <2> QED  BY <2>1 DEF Done
<1>5. o.tool = "ninja" => DOMAIN log' = DOMAIN log \cup {x} /\ log'[x] = r.reads
                          /\ \A y \in DOMAIN log : y # x => log'[y] = log[y]
  <2>1. PICK reads : reads = r.reads  OBVIOUS
  <2>2. PICK new : new = [y \in {x} |-> reads]  OBVIOUS
  <2>3. DOMAIN new = {x} /\ new[x] = reads  BY <2>2
  <2>4. o.tool = "ninja" => log' = With(new, log)  BY <2>1, <2>2 DEF Done
  <2> QED  BY <2>1, <2>3, <2>4 DEF With
<1> QED  BY <1>1, <1>3, <1>4, <1>5

\* An executable is published again: it is the entry of now, and no test of it has run.
LEMMA LinkedTests ==
  ASSUME PlanInv, FreshInv, WellInv, TestInv, Apt, phase = "native", NEW x \in running,
         NEW r, r = Rule(x), r.out = x, NEW n, n[1] = "node", Linked(x, r, n), Done(x, r, n)
  PROVE  TestInv'
<1> SUFFICES /\ Aged' /\ (~ o.use_mtime => ByEntry')
             /\ (o.use_mtime => \A f \in Range(o.tests) : Timed(f)')
             /\ (Ended' => \A f \in Range(o.tests) : Tested(f)')
  BY DoneKeeps DEF TestInv
<1>1. Clocked /\ Current /\ Told /\ Aged  BY DEF FreshInv, TestInv
<1>2. o' = o /\ ~ Ended'  BY DoneKeeps
<1>3. OneName /\ ~ o.managed  BY NamesDiffer DEF Apt
<1>4. script.g = Script(ver) /\ x \in DOMAIN Script(ver) /\ r = Script(ver)[x]
  BY <1>1 DEF Current, PlanInv, Orderly, Rule
<1>5. PICK e \in DOMAIN disk : r.ins = {e} /\ n = disk[e].id /\ disk'[x] = disk[e]  BY DEF Linked
<1>6. /\ Publishes(r, ver) /\ DOMAIN disk' = DOMAIN disk \cup {x}
      /\ \A y \in DOMAIN disk : y # x => disk'[y] = disk[y]
  BY DEF Linked
<1>7. x[1] = "bin" /\ e[1] \in {"exe", "a", "so"} /\ n[2] = e
  <2>1. e[1] \in {"exe", "a", "so"}
    <3>1. \A f : link_key(p, ver, f, lib)[1] = "exe"  BY DEF link_key
    <3> QED  BY <1>5, <1>6, <3>1 DEF Publishes
  <2>2. x[1] = "bin"
    <3>1. \A f : Bin(f)[1] = "bin"  BY MarkerNames
    <3> QED  BY <1>6, <3>1 DEF Publishes
  <2> QED  BY <1>1, <1>5, <2>1, <2>2 DEF Told, Tells
<1>8. Aged'
  <2>1. n \in DOMAIN born  BY <1>1, <1>5 DEF Clocked
  <2>2. n[3] \in Nat /\ n[3] <= clock  BY <1>1, <2>1 DEF Aged, Clocked
  <2> QED  BY <2>2, DoneKeeps
<1>9. \A f : Bin(f)' = Bin(f) /\ Key(f)' = Key(f) /\ Marker(f)' = Marker(f) /\ Report(f)' = Report(f)
  BY SameWorld, SameTree, SameMarkers DEF Done
<1>10. \A y : y # x => /\ y \in DOMAIN disk' <=> y \in DOMAIN disk
                       /\ y \in DOMAIN disk => disk'[y] = disk[y]
  BY <1>6
<1>11. clock' = clock /\ phase' = phase /\ running' = running \ {x} /\ DOMAIN st' = DOMAIN st \cup {x}
  BY DEF Done
<1>12. \A y \in DOMAIN disk : y # x /\ disk[y].id # n => born'[disk'[y].id] = born[disk[y].id]
  BY <1>1, <1>10 DEF Clocked, Done
<1>13. x \notin DOMAIN st /\ Waits(r) \cap DOMAIN script.g \subseteq DOMAIN st
  BY DEF PlanInv, Orderly, WellInv, Whole, Apt, Staged
<1>14. \A f : Bin(f)[1] = "bin" /\ Key(f)[1] = "exe" /\ Marker(f)[1] = "result" /\ Beside(Key(f))[1] = "result"
              /\ Report(f)[1] \in {"xml", "result"}
  BY MarkerNames
<1>15. ASSUME NEW f \in Targets(o), x # Bin(f), Bin(f) \in DOMAIN disk PROVE disk[Bin(f)].id # n
  BY <1>1, <1>3, <1>5, <1>6, <1>15, OwnPublished
<1>16. ASSUME NEW f \in Targets(o), x = Bin(f) PROVE e = Key(f)
  BY <1>3, <1>4, <1>5, <1>16, PublishedLine DEF Key
<1>17. ASSUME ~ o.use_mtime PROVE ByEntry'
  <2>1. Marked /\ Logged /\ Unmade /\ \A f \in Targets(o) : Joins(f)  BY <1>17 DEF TestInv, ByEntry
  <2>2. Marked'
    <3>1. ASSUME NEW y \in DOMAIN disk', y[1] = "result"
          PROVE  y = Beside(y[2]) /\ y[2][1] = "exe" /\ y[2] \in DOMAIN disk' /\ disk'[y].holds = disk'[y[2]].holds
      <4>1. y # x /\ y \in DOMAIN disk /\ disk'[y] = disk[y]  BY <1>7, <1>10, <3>1
      <4>2. y = Beside(y[2]) /\ y[2][1] = "exe" /\ y[2] \in DOMAIN disk /\ disk[y].holds = disk[y[2]].holds
        BY <2>1, <3>1, <4>1 DEF Marked
      <4>3. y[2] # x  BY <1>7, <4>2
      <4> QED  BY <1>10, <4>1, <4>2, <4>3
    <3>2. \A y : Beside(y)' = Beside(y)  BY DEF Beside
    <3> QED  BY <3>1, <3>2 DEF Marked
  <2>3. \A y : y[1] = "exe" => y # x /\ (y \in DOMAIN disk' <=> y \in DOMAIN disk)  BY <1>7, <1>10
  <2>7. o.tool = "ninja" => \A y \in DOMAIN log : y # x => y \in DOMAIN log' /\ log'[y] = log[y]
    BY DoneKeeps
  <2>4. Logged'  BY <1>2, <2>1, <2>3, <2>7 DEF Logged
  <2>5. Unmade'  BY <1>11, <2>1, <2>3 DEF Unmade
  <2>6. \A f \in Targets(o)' : Joins(f)'
    <3> SUFFICES ASSUME NEW f \in Targets(o) PROVE Joins(f)'  BY SameWorld DEF Done
    <3>1. Key(f) # x /\ Beside(Key(f)) # x  BY <1>7, <1>14
    <3>2. CASE x = Bin(f)
      <4>1. disk'[Bin(f)] = disk'[Key(f)] /\ Bin(f) \in DOMAIN disk' /\ Key(f) \in DOMAIN disk'
        BY <1>5, <1>6, <1>10, <1>16, <3>1, <3>2
      <4> QED  BY <1>9, <4>1 DEF Joins, Joined
    <3>3. CASE x # Bin(f)
      <4>1. /\ Bin(f) \in DOMAIN disk' <=> Bin(f) \in DOMAIN disk
            /\ Key(f) \in DOMAIN disk' <=> Key(f) \in DOMAIN disk
            /\ Beside(Key(f)) \in DOMAIN disk' <=> Beside(Key(f)) \in DOMAIN disk
            /\ Bin(f) \in DOMAIN disk => disk'[Bin(f)] = disk[Bin(f)]
            /\ Key(f) \in DOMAIN disk => disk'[Key(f)] = disk[Key(f)]
        BY <1>10, <3>1, <3>3
      <4>2. Joined(f)' = Joined(f)  BY <1>9, <4>1 DEF Joined
      <4>3. Joins(f)  BY <2>1
      <4>4. CASE Joined(f)
        <5>1. disk'[Bin(f)] = disk'[Key(f)]  BY <4>1, <4>3, <4>4 DEF Joins, Joined
        <5> QED  BY <1>9, <4>2, <4>4, <5>1 DEF Joins
      <4>5. CASE ~ Joined(f)
        <5>1. Parted(f)  BY <4>3, <4>5 DEF Joins
        <5>2. Bin(f) \in DOMAIN disk => BinBorn(f)' = BinBorn(f)
          BY <1>9, <1>12, <1>15, <3>3 DEF BinBorn
        <5>3. Key(f) \in DOMAIN disk => KeyBorn(f)' \in {KeyBorn(f), clock}
          <6> SUFFICES ASSUME Key(f) \in DOMAIN disk PROVE KeyBorn(f)' \in {KeyBorn(f), clock}  OBVIOUS
          <6>1. PICK m : m = disk[Key(f)].id /\ m \in DOMAIN born  BY <1>1 DEF Clocked
          <6>2. born'[m] \in {born[m], clock}  BY <6>1 DEF Done
          <6>3. KeyBorn(f) = born[m] /\ KeyBorn(f)' = born'[m]  BY <1>9, <4>1, <6>1 DEF KeyBorn
          <6> QED  BY <6>2, <6>3
        <5>4. Bin(f) \notin DOMAIN st'  BY <1>11, <3>3, <5>1 DEF Parted
        <5>5. Beside(Key(f))' = Beside(Key(f))  BY <1>9 DEF Beside
        <5>6. Bin(f) \in DOMAIN disk => BinBorn(f) < clock  BY <5>1 DEF Parted
        <5>7. Bin(f) \in DOMAIN disk /\ Key(f) \in DOMAIN disk => BinBorn(f)' < KeyBorn(f)'
          BY <5>1, <5>2, <5>3, <5>6 DEF Parted
        <5>8. Parted(f)'  BY <1>9, <1>11, <4>1, <5>1, <5>2, <5>4, <5>5, <5>6, <5>7 DEF Parted
        <5> QED  BY <4>2, <4>5, <5>8 DEF Joins
      <4> QED  BY <4>4, <4>5
    <3> QED  BY <3>2, <3>3
  <2> QED  BY <2>2, <2>4, <2>5, <2>6 DEF ByEntry
<1>18. ASSUME o.use_mtime, NEW f \in Range(o.tests) PROVE Timed(f)'
  <2>1. Timed(f) /\ f \in Targets(o)  BY <1>18 DEF TestInv, Targets
  <2>2. Marker(f) # x /\ Report(f) # x  BY <1>7, <1>14
  <2>3. /\ Marker(f) \in DOMAIN disk' <=> Marker(f) \in DOMAIN disk
        /\ Marker(f) \in DOMAIN disk => disk'[Marker(f)] = disk[Marker(f)]
    BY <1>10, <2>2
  <2>4. Marker(f) \in DOMAIN disk => disk[Marker(f)].id # n
    <3>1. Report(f) # e  BY <1>7, <1>14
    <3> QED  BY <1>7, <2>1, <3>1 DEF Timed
  <2>5. Marker(f) \in DOMAIN disk => MarkerBorn(f)' = MarkerBorn(f)
    BY <1>9, <1>12, <2>2, <2>4 DEF MarkerBorn
  <2>6. Report(f) \in DOMAIN st' <=> Report(f) \in DOMAIN st  BY <1>11, <2>2
  <2>7. CASE x = Bin(f)
    <3>1. Report(f) \notin DOMAIN st
      <4>1. /\ Bin(f) \in DOMAIN script.g /\ Report(f) \in DOMAIN script.g
            /\ Bin(f) \in Waits(Rule(Report(f)))
        <5>1. Report(f) \in DOMAIN Script(ver) /\ Bin(f) \in Waits(Script(ver)[Report(f)])
          BY <1>3, <1>18, TestLine
        <5>2. Bin(f) \in DOMAIN Script(ver)  BY <1>3, <2>1, PublishedLine
        <5> QED  BY <1>4, <5>1, <5>2 DEF Rule
      <4>2. Report(f) \in DOMAIN st => Bin(f) \in DOMAIN st  BY <4>1 DEF PlanInv, Orderly
      <4> QED  BY <1>13, <2>7, <4>2
    <3>2. BinBorn(f)' = clock
      <4>1. disk'[Bin(f)].id = n  BY <1>5, <2>7
      <4>2. born'[n] = clock  BY DEF Done
      <4> QED  BY <1>9, <4>1, <4>2 DEF BinBorn
    <3>3. Marker(f) \in DOMAIN disk => MarkerBorn(f) # clock /\ MarkerBorn(f) <= clock /\ MarkerBorn(f) \in Nat
      <4>1. Marker(f) \in DOMAIN disk => MarkerBorn(f) # clock  BY <2>1, <3>1 DEF Timed
      <4> QED  BY <1>1, <4>1 DEF Clocked, MarkerBorn
    <3>4. Bin(f) \in DOMAIN st'  BY <1>11, <2>7
    <3>5. clock \in Nat  BY <1>1 DEF Clocked
    <3> QED  BY <1>9, <1>11, <2>1, <2>3, <2>5, <2>6, <3>1, <3>2, <3>3, <3>4, <3>5 DEF Timed
  <2>8. CASE x # Bin(f)
    <3>1. /\ Bin(f) \in DOMAIN disk' <=> Bin(f) \in DOMAIN disk
          /\ Bin(f) \in DOMAIN disk => disk'[Bin(f)] = disk[Bin(f)]
      BY <1>10, <2>8
    <3>2. Bin(f) \in DOMAIN disk => BinBorn(f)' = BinBorn(f)
      BY <1>9, <1>12, <1>15, <2>1, <2>8 DEF BinBorn
    <3>3. Tested(f)' = Tested(f)  BY <1>9, <2>3, <3>1 DEF Tested
    <3>4. Bin(f) \in DOMAIN st => Bin(f) \in DOMAIN st'  BY <1>11
    <3> QED  BY <1>9, <1>11, <2>1, <2>3, <2>5, <2>6, <3>1, <3>2, <3>3, <3>4 DEF Timed
  <2> QED  BY <2>7, <2>8
<1> QED  BY <1>2, <1>8, <1>17, <1>18

\* Another command: an entry that was not there, the test of what is published, or
\* nothing of these.
LEMMA MadeTests ==
  ASSUME PlanInv, FreshInv, WellInv, TestInv, Apt, phase = "native", NEW x \in running,
         NEW r, r = Rule(x), r.out = x, NEW n, n[1] = "node", MadeNew(x, r, n), Done(x, r, n)
  PROVE  TestInv'
<1> SUFFICES /\ Aged' /\ (~ o.use_mtime => ByEntry')
             /\ (o.use_mtime => \A f \in Range(o.tests) : Timed(f)')
             /\ (Ended' => \A f \in Range(o.tests) : Tested(f)')
  BY DoneKeeps DEF TestInv
<1>1. Clocked /\ Current /\ Told /\ Aged  BY DEF FreshInv, TestInv
<1>2. o' = o /\ ~ Ended'  BY DoneKeeps
<1>3. OneName /\ ~ o.managed  BY NamesDiffer DEF Apt
<1>4. script.g = Script(ver) /\ x \in DOMAIN Script(ver) /\ r = Script(ver)[x]
  BY <1>1 DEF Current, PlanInv, Orderly, Rule
<1>5. n[2] = x /\ n[3] = clock /\ r.type # "symlink"  BY DEF MadeNew, Node
<1>6. Aged' /\ \A m \in DOMAIN born : born'[m] = born[m]
  <2>1. n[3] \in Nat /\ n[3] <= clock  BY <1>1, <1>5 DEF Clocked
  <2>2. Aged'  BY <2>1, DoneKeeps
  <2>3. \A m \in DOMAIN born : born'[m] = born[m]  BY <1>5, DoneKeeps
  <2> QED  BY <2>2, <2>3
<1>7. PICK outs, image : outs = Outputs(r) /\ image = Image(r)  OBVIOUS
<1>8. /\ DOMAIN disk' = DOMAIN disk \cup outs
      /\ \A y \in outs : disk'[y].holds = image /\ disk'[y].id = n
      /\ \A y \in DOMAIN disk \ outs : disk'[y] = disk[y] /\ born'[disk'[y].id] = born[disk[y].id]
  <2>1. \A y \in outs : disk'[y] = [holds |-> image, id |-> n]  BY <1>7 DEF MadeNew
  <2>2. \A y \in outs : disk'[y].holds = image /\ disk'[y].id = n  BY <2>1
  <2> QED  BY <1>1, <1>6, <1>7, <2>2 DEF MadeNew, Clocked
<1>9. \A y \in outs : y[1] \in {"bin", "exe"} => y = x  BY <1>4, <1>7, WrittenAlone
<1>10. \A f : Bin(f)' = Bin(f) /\ Key(f)' = Key(f) /\ Marker(f)' = Marker(f) /\ Report(f)' = Report(f)
  BY SameWorld, SameTree, SameMarkers DEF Done
<1>11. clock' = clock /\ phase' = phase /\ running' = running \ {x} /\ DOMAIN st' = DOMAIN st \cup {x}
  BY DEF Done
<1>12. x \notin DOMAIN st /\ Waits(r) \cap DOMAIN script.g \subseteq DOMAIN st
  BY DEF PlanInv, Orderly, WellInv, Whole, Apt, Staged
<1>13. \A f : Bin(f)[1] = "bin" /\ Bin(f)[2] = "exe" /\ Key(f)[1] = "exe" /\ Marker(f)[1] = "result"
              /\ Beside(Key(f))[1] = "result" /\ Report(f)[1] \in {"xml", "result"}
              /\ (Report(f)[1] = "result" => Report(f) = Marker(f))
  BY MarkerNames
<1>14. ASSUME NEW f \in Targets(o) PROVE x # Bin(f) /\ Bin(f) \notin outs
  BY <1>3, <1>4, <1>5, <1>9, <1>13, OtherLines

\* A marker is left by the test it is of, which has waited for its executable.
<1>15. ASSUME NEW y \in outs, y[1] = "result"
       PROVE  \E f \in Range(o.tests) : /\ f \in Targets(o) /\ x = Report(f) /\ y = Marker(f)
                                        /\ Bin(f) \in DOMAIN st /\ Bin(f) \in DOMAIN disk
                                        /\ image = disk[Bin(f)].holds
  <2>1. PICK f \in Range(o.tests) : x = Report(f) /\ y \in {Report(f), Marker(f)}
    BY <1>3, <1>4, <1>7, <1>15, ReportLine
  <2>2. y = Marker(f)  BY <1>13, <1>15, <2>1
  <2>3. f \in Targets(o) /\ r.type = "test" /\ r.reads = {Bin(f)} /\ Bin(f) \in Waits(r)
    BY <1>3, <1>4, <2>1, TestLine
  <2>4. Bin(f) \in DOMAIN script.g /\ (Bin(f) \in DOMAIN st => Bin(f) \in DOMAIN disk)
    BY <1>3, <1>4, <2>3, DoneIsThere
  <2>5. Bin(f) \in DOMAIN st  BY <1>12, <2>3, <2>4
  <2>6. image = UNION {disk[z].holds : z \in {Bin(f)}}  BY <1>7, <2>3 DEF Image
  <2>7. image = disk[Bin(f)].holds  BY <2>6
  <2> QED  BY <2>1, <2>2, <2>3, <2>4, <2>5, <2>7
<1>16. ASSUME ~ o.use_mtime PROVE ByEntry'
  <2>1. Marked /\ Logged /\ Unmade /\ \A f \in Targets(o) : Joins(f)  BY <1>16 DEF TestInv, ByEntry
  <2>2. \A e : e[1] = "exe" /\ e \in outs => e = x /\ e \notin DOMAIN disk  BY <1>9, <2>1 DEF Unmade
  <2>3. Marked'
    <3>1. ASSUME NEW y \in DOMAIN disk', y[1] = "result"
          PROVE  y = Beside(y[2]) /\ y[2][1] = "exe" /\ y[2] \in DOMAIN disk' /\ disk'[y].holds = disk'[y[2]].holds
      <4>1. CASE y \notin outs
        <5>1. /\ y \in DOMAIN disk /\ disk'[y] = disk[y] /\ y = Beside(y[2]) /\ y[2][1] = "exe"
              /\ y[2] \in DOMAIN disk /\ disk[y].holds = disk[y[2]].holds
          BY <1>8, <2>1, <3>1, <4>1 DEF Marked
        <5> QED  BY <1>8, <2>2, <5>1
      <4>2. CASE y \in outs
        <5>1. PICK f \in Range(o.tests) : f \in Targets(o) /\ x = Report(f) /\ y = Marker(f) /\ Bin(f) \in DOMAIN st
                                          /\ image = disk[Bin(f)].holds
          BY <1>15, <3>1, <4>2
        <5>2. Joined(f) /\ disk[Bin(f)] = disk[Key(f)]  BY <2>1, <5>1 DEF Joins, Parted
        <5>3. y = Beside(Key(f)) /\ y[2] = Key(f)
          <6>1. Marker(f) = Beside(Key(f))  BY <1>3, <1>16, MarkerNames
          <6> QED  BY <5>1, <6>1, MarkerNames
        <5>4. Key(f) \in DOMAIN disk /\ Key(f) \notin outs  BY <1>13, <2>2, <5>2 DEF Joined
        <5> QED  BY <1>8, <1>13, <4>2, <5>1, <5>2, <5>3, <5>4
      <4> QED  BY <4>1, <4>2
    <3>2. \A y : Beside(y)' = Beside(y)  BY DEF Beside
    <3> QED  BY <3>1, <3>2 DEF Marked
  <2>4. Logged'
    <3> SUFFICES ASSUME o.tool = "ninja", NEW e \in DOMAIN disk', e[1] = "exe"
                 PROVE  e \in DOMAIN log' /\ log'[e] = e[3] \cup e[4]
      BY <1>2 DEF Logged
    <3>1. DOMAIN log' = DOMAIN log \cup {x} /\ log'[x] = r.reads /\ \A y \in DOMAIN log : y # x => log'[y] = log[y]
      BY DoneKeeps
    <3>2. CASE e = x
      <4>1. PICK f \in Targets(o) : x = Key(f) /\ r.reads = Objects(p, ver, p.required[f]) \cup lib
        BY <1>3, <1>4, <3>2, ExecutableLine DEF Key
      <4> QED  BY <3>1, <3>2, <4>1, MarkerNames
    <3>3. CASE e # x
      <4>1. e \in DOMAIN disk  BY <1>8, <2>2, <3>3
      <4> QED  BY <2>1, <3>1, <3>3, <4>1 DEF Logged
    <3> QED  BY <3>2, <3>3
  <2>5. Unmade'  BY <1>8, <1>11, <2>1, <2>2 DEF Unmade
  <2>6. \A f \in Targets(o)' : Joins(f)'
    <3> SUFFICES ASSUME NEW f \in Targets(o) PROVE Joins(f)'  BY SameWorld DEF Done
    <3>1. Bin(f) \notin outs /\ Bin(f) # x  BY <1>14
    <3>2. /\ Bin(f) \in DOMAIN disk' <=> Bin(f) \in DOMAIN disk
          /\ Bin(f) \in DOMAIN disk => disk'[Bin(f)] = disk[Bin(f)] /\ BinBorn(f)' = BinBorn(f)
      BY <1>8, <1>10, <3>1 DEF BinBorn
    <3>3. Joins(f)  BY <2>1
    <3>4. CASE Joined(f)
      <4>1. Key(f) \in DOMAIN disk /\ Key(f) \notin outs /\ disk'[Key(f)] = disk[Key(f)]
            /\ Bin(f) \in DOMAIN disk
        BY <1>8, <1>13, <2>2, <3>4 DEF Joined
      <4>2. Bin(f) \in DOMAIN disk' /\ Key(f) \in DOMAIN disk' /\ disk'[Bin(f)] = disk'[Key(f)]
        BY <1>8, <3>2, <3>3, <3>4, <4>1 DEF Joins
      <4> QED  BY <1>10, <4>2 DEF Joins, Joined
    <3>5. CASE ~ Joined(f)
      <4>1. Parted(f)  BY <3>3, <3>5 DEF Joins
      <4>2. Beside(Key(f)) \notin DOMAIN disk'
        <5> SUFFICES ASSUME Beside(Key(f)) \in outs PROVE FALSE  BY <1>8, <4>1 DEF Parted
        <5>1. PICK h \in Range(o.tests) : h \in Targets(o) /\ Beside(Key(f)) = Marker(h) /\ Bin(h) \in DOMAIN st
          BY <1>13, <1>15
        <5>2. Marker(f) = Beside(Key(f))  BY <1>3, <1>16, MarkerNames
        <5>3. h = f  BY <1>3, <5>1, <5>2, OneMarker
        <5> QED  BY <4>1, <5>1, <5>3 DEF Parted
      <4>3. Bin(f) \notin DOMAIN st'  BY <1>11, <3>1, <4>1 DEF Parted
      <4>4. Beside(Key(f))' = Beside(Key(f))  BY <1>10 DEF Beside
      <4>5. Bin(f) \in DOMAIN disk => BinBorn(f) < clock /\ BinBorn(f) \in Nat /\ clock \in Nat
        BY <1>1, <4>1 DEF Parted, Clocked, BinBorn
      <4>6. CASE Key(f) \in outs
        <5>1. disk'[Key(f)].id = n /\ born'[n] = clock  BY <1>8, <4>6 DEF Done
        <5>2. KeyBorn(f)' = clock  BY <1>10, <5>1 DEF KeyBorn
        <5>3. Bin(f) \in DOMAIN disk => disk[Bin(f)].id # n
          <6>1. n \in DOMAIN born => born[n] = clock  BY <1>6 DEF Done
          <6> QED  BY <1>1, <4>5, <6>1 DEF Clocked, BinBorn
        <5>4. ~ Joined(f)'  BY <1>10, <3>2, <5>1, <5>3 DEF Joined
        <5>5. Parted(f)'  BY <1>10, <1>11, <3>2, <4>2, <4>3, <4>4, <4>5, <5>2 DEF Parted
        <5> QED  BY <5>4, <5>5 DEF Joins
      <4>7. CASE Key(f) \notin outs
        <5>1. /\ Key(f) \in DOMAIN disk' <=> Key(f) \in DOMAIN disk
              /\ Key(f) \in DOMAIN disk => disk'[Key(f)] = disk[Key(f)] /\ KeyBorn(f)' = KeyBorn(f)
          BY <1>8, <1>10, <4>7 DEF KeyBorn
        <5>2. ~ Joined(f)'  BY <1>10, <3>2, <3>5, <5>1 DEF Joined
        <5>3. Bin(f) \in DOMAIN disk /\ Key(f) \in DOMAIN disk => BinBorn(f) < KeyBorn(f)  BY <4>1 DEF Parted
        <5>4. Parted(f)'  BY <1>10, <1>11, <3>2, <4>2, <4>3, <4>4, <4>5, <5>1, <5>3 DEF Parted
        <5> QED  BY <5>2, <5>4 DEF Joins
      <4> QED  BY <4>6, <4>7
    <3> QED  BY <3>4, <3>5
  <2> QED  BY <2>3, <2>4, <2>5, <2>6 DEF ByEntry
<1>17. ASSUME o.use_mtime, NEW f \in Range(o.tests) PROVE Timed(f)'
  <2>1. Timed(f) /\ f \in Targets(o)  BY <1>17 DEF TestInv, Targets
  <2>2. Bin(f) \notin outs /\ Bin(f) # x  BY <1>14, <2>1
  <2>3. /\ Bin(f) \in DOMAIN disk' <=> Bin(f) \in DOMAIN disk
        /\ Bin(f) \in DOMAIN disk => disk'[Bin(f)] = disk[Bin(f)] /\ BinBorn(f)' = BinBorn(f)
        /\ Bin(f) \in DOMAIN st' <=> Bin(f) \in DOMAIN st
    BY <1>8, <1>10, <1>11, <2>2 DEF BinBorn
  <2>4. CASE x = Report(f)
    <3>1. Marker(f) \in outs  BY <1>3, <1>4, <1>7, <1>17, <2>4, TestLine
    <3>2. PICK h \in Range(o.tests) : h \in Targets(o) /\ x = Report(h) /\ Bin(h) \in DOMAIN st
                                      /\ Bin(h) \in DOMAIN disk /\ image = disk[Bin(h)].holds
      BY <1>13, <1>15, <3>1
    <3>3. h = f  BY <1>3, <2>1, <2>4, <3>2, OneMarker
    <3>4. /\ Marker(f) \in DOMAIN disk' /\ disk'[Marker(f)].holds = disk'[Bin(f)].holds
          /\ disk'[Marker(f)].id[2] = Report(f) /\ Bin(f) \in DOMAIN disk' /\ Bin(f) \in DOMAIN st'
          /\ Report(f) \in DOMAIN st'
      BY <1>5, <1>8, <1>11, <2>3, <2>4, <3>1, <3>2, <3>3
    <3> QED  BY <1>10, <3>4 DEF Timed, Tested
  <2>5. CASE x # Report(f)
    <3>1. Marker(f) \notin outs
      <4> SUFFICES ASSUME Marker(f) \in outs PROVE FALSE  OBVIOUS
      <4>1. PICK h \in Range(o.tests) : h \in Targets(o) /\ x = Report(h) /\ Marker(f) = Marker(h)
        BY <1>13, <1>15
      <4>2. h = f  BY <1>3, <2>1, <4>1, OneMarker
      <4> QED  BY <2>5, <4>1, <4>2
    <3>2. /\ Marker(f) \in DOMAIN disk' <=> Marker(f) \in DOMAIN disk
          /\ Marker(f) \in DOMAIN disk => disk'[Marker(f)] = disk[Marker(f)] /\ MarkerBorn(f)' = MarkerBorn(f)
      BY <1>8, <1>10, <3>1 DEF MarkerBorn
    <3>3. Tested(f)' = Tested(f)  BY <1>10, <2>3, <3>2 DEF Tested
    <3>4. Report(f) \in DOMAIN st' <=> Report(f) \in DOMAIN st  BY <1>11, <2>5
    <3> QED  BY <1>10, <1>11, <2>1, <2>3, <3>2, <3>3, <3>4 DEF Timed
  <2> QED  BY <2>4, <2>5
<1> QED  BY <1>2, <1>6, <1>16, <1>17

LEMMA FinishTests ==
  ASSUME PlanInv, FreshInv, WellInv, TestInv, NEW x \in running, Finish(x)
  PROVE  TestInv'
<1>1. /\ w' = w /\ ver' = ver /\ clock' = clock /\ phase' = phase /\ edited' = edited
      /\ running' = running \ {x} /\ Ran(Rule(x))
      /\ LET well == ~ Missing(Rule(x)) /\ ~ Bad(Rule(x))
         IN  /\ st' = IF well THEN Mark({x}, "made") ELSE st
             /\ log' = IF o.tool = "ninja" /\ well THEN With([y \in {x} |-> Rule(x).reads], log) ELSE log
  BY DEF Finish, tree
<1> SUFFICES ASSUME Apt PROVE TestInv'  BY <1>1, SameWorld DEF TestInv
<1>2. phase = "native" /\ x \in DOMAIN script.g /\ Complete(script.g) /\ script.g = Script(ver)
  <2>1. phase = "native" /\ x \in DOMAIN script.g /\ Complete(script.g)
    BY DEF WellInv, Whole, Apt, Staged, PlanInv, Orderly
  <2> QED  BY <2>1 DEF FreshInv, Current
<1>3. PICK r : r = Rule(x)  OBVIOUS
<1>4. r.out = x /\ Thorough(r)  BY <1>2, <1>3 DEF Complete, Rule
<1>5. CASE Missing(r)
  <2>1. disk' = disk /\ born' = born /\ why' # "ok" /\ st' = st /\ log' = log
    BY <1>1, <1>3, <1>5 DEF Ran
  <2> QED  BY <1>1, <2>1, TestsKept
<1>6. CASE ~ Missing(r) /\ Bad(r)
  <2>1. PICK n : n = Node(r.out)  OBVIOUS
  <2>2. st' = st /\ log' = log /\ r.type = "test" /\ n = Node(x)
    BY <1>1, <1>3, <1>4, <1>6, <2>1 DEF Bad
  <2>3. LeftReport(r, n)  BY <1>1, <1>3, <1>4, <1>6, <2>1, FailedIs
  <2> QED  BY <1>1, <1>2, <1>3, <2>2, <2>3, FailedTests
<1>7. CASE ~ Missing(r) /\ ~ Bad(r)
  <2>1. PICK n : /\ n[1] = "node" /\ DOMAIN born' = DOMAIN born \cup {n} /\ born'[n] = clock
                 /\ \A m \in DOMAIN born : m # n => born'[m] = born[m]
                 /\ MadeNew(x, r, n) \/ Linked(x, r, n)
    BY <1>1, <1>2, <1>3, <1>7, MadeIs DEF FreshInv
  <2>2. PICK reads : reads = r.reads  OBVIOUS
  <2>3. DOMAIN st' = DOMAIN st \cup {x} /\ (o.tool = "ninja" => log' = With([y \in {x} |-> reads], log))
    BY <1>1, <1>3, <1>7, <2>2 DEF Mark
  <2>4. Done(x, r, n)  BY <1>1, <2>1, <2>2, <2>3 DEF Done
  <2> QED  BY <1>2, <1>3, <1>4, <2>1, <2>4, MadeTests, LinkedTests
<1> QED  BY <1>5, <1>6, <1>7

LEMMA TestStep ==
  ASSUME PlanInv, FreshInv, WellInv, TestInv, back' = {}, [Next]_vars
  PROVE  TestInv'
<1>1. ASSUME NEW f \in DOMAIN ver, Edit(f) PROVE TestInv'  BY <1>1, EditTests
<1>2. ASSUME NEW x \in DOMAIN disk, Trim(x) PROVE TestInv'  BY <1>2, TrimTests
<1>3. CASE Generate  BY <1>3, GenerateTests
<1>4. ASSUME NEW long \in BOOLEAN, Execute(long) PROVE TestInv'  BY <1>4, ExecuteTests
<1>5. CASE Prebuild
  <2>1. w' = w /\ phase = "prebuild"  BY <1>5 DEF Prebuild, tree
  <2>2. ~ Apt  BY <2>1 DEF WellInv, Whole, Staged, Apt
  <2> QED  BY <2>1, <2>2, SameWorld DEF TestInv
<1>6. CASE Settle  BY <1>6, SettleTests
<1>7. CASE Succeed  BY <1>7, SucceedTests
<1>8. CASE Fail
  <2>1. Apt => why # "ok"  BY <1>8 DEF FreshInv, Current, Fail
  <2>2. CASE Apt  BY <1>8, <2>1, <2>2, TestsKept DEF Fail, tree, saved
  <2>3. CASE ~ Apt
    <3>1. w' = w  BY <1>8 DEF Fail, tree
    <3> QED  BY <2>3, <3>1, SameWorld DEF TestInv
  <2> QED  BY <2>2, <2>3
<1>9. ASSUME NEW x \in Runnable, Start(x) PROVE TestInv'  BY <1>9, StartTests
<1>10. ASSUME NEW x \in running, Finish(x) PROVE TestInv'  BY <1>10, FinishTests
<1>11. CASE Interrupt  BY <1>11, TestsKept DEF Interrupt, saved
<1>12. CASE UNCHANGED vars  BY <1>12, TestsKept DEF vars, tree, saved
<1> QED
  BY <1>1, <1>2, <1>3, <1>4, <1>5, <1>6, <1>7, <1>8, <1>9, <1>10, <1>11, <1>12 DEF Next, Proceed

\* TestedAsBuilt: after a build that ended well the very executable that is published for a
\* test has been run and has passed, whatever was edited, trimmed, killed or rebuilt before
\* and whether results are beside the entries of the cache or times decide: where the whole
\* graph is built, clang's modules are content addresses and no edit brought an earlier text
\* or another environment back.
THEOREM NativeTestedAsBuilt ==
  Spec => [](~ o.only /\ (o.kind = "clang" => o.cas_pcmdir) /\ back = {} => TestedAsBuilt)
<1> DEFINE Inv == PlanInv /\ WellInv /\ StuckInv /\ (back = {} => FreshInv /\ TestInv)
<1>1. Init => Inv  BY InitPlanned, InitWell, InitFresh, InitTests
<1>2. Inv /\ [Next]_vars => Inv'
  <2> SUFFICES ASSUME Inv, [Next]_vars PROVE Inv'  OBVIOUS
  <2>1. PlanInv' /\ WellInv' /\ StuckInv'  BY PlanStep, WellStep, StuckStep
  <2>2. ASSUME back' = {} PROVE FreshInv' /\ TestInv'  BY <2>2, BackGrows, FreshStep, TestStep
  <2> QED  BY <2>1, <2>2
<1>3. ASSUME Inv, ~ o.only, o.kind = "clang" => o.cas_pcmdir, back = {} PROVE TestedAsBuilt
  <2> SUFFICES ASSUME Ended, ~ o.managed, NEW f \in Range(o.tests)
               PROVE  \E x \in DOMAIN disk : x[1] = "result" /\ disk[x].holds = ExeOf(f)
    BY DEF TestedAsBuilt
  <2>1. Apt  BY <1>3 DEF Apt, ClangHashed, StuckInv, Ended
  <2>2. Tested(f)  BY <1>3, <2>1 DEF TestInv
  <2>3. ExeOf(f) = disk[Bin(f)].holds  BY DEF ExeOf, Bin
  <2> QED  BY <2>2, <2>3, MarkerNames DEF Tested
<1>4. Inv => (~ o.only /\ (o.kind = "clang" => o.cas_pcmdir) /\ back = {} => TestedAsBuilt)  BY <1>3
<1> HIDE DEF Inv
<1> QED  BY <1>1, <1>2, <1>4, PTL DEF Spec
===============================================================================
