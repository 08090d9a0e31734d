---------------------------- MODULE LjGcRefines -----------------------------
(***************************************************************************)
(* LjGc implements the abstract heap of GcHeap for every set of addresses: *)
(* no step frees what the program can reach, and the collector changes     *)
(* nothing of it but weak tables.  Reachability is computed by iteration;  *)
(* the first part shows that the iteration exists and computes the least   *)
(* set that holds the roots and is closed under references.                *)
(***************************************************************************)
EXTENDS LjGcHeap, LjGcSafety, WellFoundedInduction, FiniteSetTheorems

\* Every set of natural numbers that is not empty has a least element.
LEMMA LeastNat ==
  ASSUME NEW T, T \subseteq Nat, T # {}
  PROVE  \E x \in T : \A y \in T : x <= y
  <1>1. PICK R : R = OpToRel(<, Nat)
    OBVIOUS
  <1>2. IsWellFoundedOn(R, Nat)
    BY <1>1, NatLessThanWellFounded
  <1>3. \A x, y \in Nat : <<y, x>> \in R <=> y < x
    BY <1>1 DEF OpToRel
  <1>4. PICK x \in T : \A y \in T : ~(<<y, x>> \in R)
    BY <1>2, WFMin
  <1>5. \A y \in T : ~(y < x)
    BY <1>3, <1>4, Zenon
  <1> QED BY <1>5

\* A set of natural numbers that holds 0 and all successors holds them all.
LEMMA NatSetInduction ==
  ASSUME NEW T, 0 \in T, \A n \in Nat : n \in T => n + 1 \in T
  PROVE  Nat \subseteq T
  <1> SUFFICES ASSUME Nat \ T # {} PROVE FALSE
    OBVIOUS
  <1>1. PICK x \in Nat \ T : \A y \in Nat \ T : x <= y
    BY LeastNat
  <1>2. x # 0 /\ x - 1 \in Nat
    BY <1>1
  <1>3. x - 1 \in T
    BY <1>1, <1>2
  <1> QED BY <1>1, <1>2, <1>3

\* The initial parts of an iteration of G from a.
Part(G, a, n, g) ==
  /\ g = [i \in 0 .. n |-> g[i]]
  /\ g[0] = a
  /\ \A i \in 1 .. n : g[i] = G[g[i - 1]]

\* There is an initial part of every length, and only one.
LEMMA PartExists ==
  ASSUME NEW G, NEW a
  PROVE  \A n \in Nat : \E g : Part(G, a, n, g)
  <1>1. PICK T : T = {n \in Nat : \E g : Part(G, a, n, g)}
    OBVIOUS
  <1>2. 0 \in T
    <2>1. Part(G, a, 0, [i \in 0 .. 0 |-> a])
      BY DEF Part
    <2> QED BY <1>1, <2>1
  <1>3. ASSUME NEW n \in Nat, n \in T PROVE n + 1 \in T
    <2>1. PICK g : Part(G, a, n, g)
      BY <1>1, <1>3
    <2>2. PICK h : h = [i \in 0 .. n + 1 |-> IF i = n + 1 THEN G[g[n]] ELSE g[i]]
      OBVIOUS
    <2>3. h[n + 1] = G[g[n]] /\ \A i \in 0 .. n : h[i] = g[i]
      BY <2>2
    <2>4. \A i \in 1 .. n + 1 : h[i] = G[h[i - 1]]
      <3>1. \A i \in 1 .. n : i \in 0 .. n /\ i - 1 \in 0 .. n
        OBVIOUS
      <3>0. \A i \in 1 .. n : g[i] = G[g[i - 1]]
        BY <2>1 DEF Part
      <3>2. \A i \in 1 .. n : h[i] = G[h[i - 1]]
        BY <2>3, <3>0, <3>1
      <3>3. h[n + 1] = G[h[n]] /\ (n + 1) - 1 = n
        BY <2>3
      <3>4. \A i \in 1 .. n + 1 : i \in 1 .. n \/ i = n + 1
        OBVIOUS
      <3> QED BY <3>2, <3>3, <3>4
    <2>5. h[0] = a /\ h = [i \in 0 .. n + 1 |-> h[i]]
      BY <2>1, <2>2, <2>3 DEF Part
    <2>6. Part(G, a, n + 1, h)
      BY <2>4, <2>5 DEF Part
    <2> QED BY <1>1, <2>6
  <1>4. Nat \subseteq T
    BY <1>2, <1>3, NatSetInduction
  <1> QED BY <1>1, <1>4

\* Two initial parts of the iteration agree where both are defined.
LEMMA PartUnique ==
  ASSUME NEW G, NEW a, NEW m \in Nat, NEW n \in Nat, NEW g, NEW h,
         Part(G, a, m, g), Part(G, a, n, h), m <= n
  PROVE  \A i \in 0 .. m : g[i] = h[i]
  <1>1. PICK T : T = {i \in Nat : i <= m => g[i] = h[i]}
    OBVIOUS
  <1>2. 0 \in T
    BY <1>1 DEF Part
  <1>3. ASSUME NEW i \in Nat, i \in T PROVE i + 1 \in T
    <2> SUFFICES ASSUME i + 1 <= m PROVE g[i + 1] = h[i + 1]
      BY <1>1
    <2>1. g[i] = h[i]
      BY <1>1, <1>3
    <2>2. i + 1 \in 1 .. m /\ i + 1 \in 1 .. n /\ (i + 1) - 1 = i
      OBVIOUS
    <2>3. g[i + 1] = G[g[(i + 1) - 1]] /\ h[i + 1] = G[h[(i + 1) - 1]]
      BY <2>2 DEF Part
    <2> QED BY <2>1, <2>2, <2>3
  <1>4. Nat \subseteq T
    BY <1>2, <1>3, NatSetInduction
  <1> QED BY <1>1, <1>4

\* The recursive function is what its definition says.
LEMMA IteratesIs ==
  ASSUME NEW G, NEW a
  PROVE  H!Iterates(G, a) = [n \in Nat |-> IF n = 0 THEN a ELSE G[H!Iterates(G, a)[n - 1]]]
  <1> DEFINE f == [n \in Nat |-> (CHOOSE g : Part(G, a, n, g))[n]]
  <1>1. \A n \in Nat : Part(G, a, n, CHOOSE g : Part(G, a, n, g))
    BY PartExists
  <1>2. f[0] = a
    BY <1>1 DEF Part
  <1>3. ASSUME NEW n \in Nat, n # 0 PROVE f[n] = G[f[n - 1]]
    <2>1. PICK g : g = CHOOSE h : Part(G, a, n, h)
      OBVIOUS
    <2>2. PICK k : k = CHOOSE h : Part(G, a, n - 1, h)
      OBVIOUS
    <2>3. n - 1 \in Nat /\ n - 1 <= n /\ n - 1 \in 0 .. n - 1 /\ n \in 1 .. n
      BY <1>3
    <2>4. Part(G, a, n, g) /\ Part(G, a, n - 1, k)
      BY <1>1, <2>1, <2>2, <2>3
    <2>5. g[n - 1] = k[n - 1]
      BY <2>3, <2>4, PartUnique
    <2>6. g[n] = G[g[n - 1]]
      BY <2>3, <2>4 DEF Part
    <2>7. f[n] = g[n] /\ f[n - 1] = k[n - 1]
      BY <2>1, <2>2, <2>3
    <2> QED BY <2>5, <2>6, <2>7
  <1>4. f = [n \in Nat |-> IF n = 0 THEN a ELSE G[f[n - 1]]]
    <2>1. PICK ff : ff = f
      OBVIOUS
    <2>2. /\ ff = [n \in Nat |-> ff[n]] /\ ff[0] = a
          /\ \A n \in Nat : n # 0 => ff[n] = G[ff[n - 1]]
      BY <1>2, <1>3, <2>1
    <2>3. ff = [n \in Nat |-> IF n = 0 THEN a ELSE G[ff[n - 1]]]
      <3> HIDE DEF f
      <3> QED BY <2>2
    <2> QED BY <2>1, <2>3
  <1> HIDE DEF f
  <1>5. \E h : h = [n \in Nat |-> IF n = 0 THEN a ELSE G[h[n - 1]]]
    BY <1>4
  <1> QED BY <1>5 DEF H!Iterates

\* What an iteration starts in and never leaves.
LEMMA IteratesIn ==
  ASSUME NEW G, NEW a, NEW S, a \in S, \A x \in S : G[x] \in S
  PROVE  \A n \in Nat : H!Iterates(G, a)[n] \in S
  <1>1. PICK f : f = H!Iterates(G, a)
    OBVIOUS
  <1>2. PICK T : T = {n \in Nat : f[n] \in S}
    OBVIOUS
  <1>3. \A n \in Nat : f[n] = IF n = 0 THEN a ELSE G[f[n - 1]]
    BY <1>1, IteratesIs
  <1>4. 0 \in T
    BY <1>2, <1>3
  <1>5. ASSUME NEW n \in Nat, n \in T PROVE n + 1 \in T
    <2>1. f[n + 1] = G[f[n]]
      BY <1>3
    <2> QED BY <1>2, <1>5, <2>1
  <1>6. Nat \subseteq T
    BY <1>4, <1>5, NatSetInduction
  <1> QED BY <1>1, <1>2, <1>6

----------------------------------------------------------------------------
(* What the search computes.                                               *)

\* The state of the search after n rounds.
Round(r, e, n) == H!Iterates(H!Expand(e), <<r, {}>>)[n]

\* A round of the search, new and done apart.
LEMMA RoundStep ==
  ASSUME NEW r, r \subseteq Obj, NEW e \in [Obj -> SUBSET Obj]
  PROVE  /\ Round(r, e, 0) = <<r, {}>>
         /\ \A n \in Nat :
              /\ Round(r, e, n)[1] \subseteq Obj /\ Round(r, e, n)[2] \subseteq Obj
              /\ Round(r, e, n + 1)[1] =
                   UNION {e[o] : o \in Round(r, e, n)[1] \ Round(r, e, n)[2]}
              /\ Round(r, e, n + 1)[2] = Round(r, e, n)[1] \cup Round(r, e, n)[2]
  <1>1. PICK G : G = H!Expand(e)
    OBVIOUS
  <1>2. PICK P : P = (SUBSET Obj) \X (SUBSET Obj)
    OBVIOUS
  <1>3. PICK f : f = H!Iterates(G, <<r, {}>>)
    OBVIOUS
  <1>4. ASSUME NEW p \in P
        PROVE  /\ p[1] \subseteq Obj /\ p[2] \subseteq Obj
               /\ G[p] \in P
               /\ G[p][1] = UNION {e[o] : o \in p[1] \ p[2]} /\ G[p][2] = p[1] \cup p[2]
    <2>1. p[1] \subseteq Obj /\ p[2] \subseteq Obj
      BY <1>2, <1>4
    <2>2. PICK N : N = UNION {e[o] : o \in p[1] \ p[2]}
      OBVIOUS
    <2>3. N \subseteq Obj
      BY <2>1, <2>2
    <2>4. G[p] = <<N, p[1] \cup p[2]>>
      BY <1>1, <1>2, <1>4, <2>2 DEF H!Expand
    <2> QED BY <1>2, <2>1, <2>2, <2>3, <2>4
  <1>5. <<r, {}>> \in P
    BY <1>2
  <1>6. \A n \in Nat : f[n] \in P
    BY <1>3, <1>4, <1>5, IteratesIn
  <1>7. f = [n \in Nat |-> IF n = 0 THEN <<r, {}>> ELSE G[f[n - 1]]]
    <2>1. PICK a : a = <<r, {}>>
      OBVIOUS
    <2>2. f = H!Iterates(G, a)
      BY <1>3, <2>1
    <2>3. f = [n \in Nat |-> IF n = 0 THEN a ELSE G[f[n - 1]]]
      BY <2>2, IteratesIs
    <2> QED BY <2>1, <2>3
  <1>8. f[0] = <<r, {}>> /\ \A n \in Nat : f[n + 1] = G[f[n]]
    BY <1>7
  <1>9. \A n : Round(r, e, n) = f[n]
    BY <1>1, <1>3 DEF Round
  <1>10. ASSUME NEW n \in Nat
         PROVE  /\ f[n][1] \subseteq Obj /\ f[n][2] \subseteq Obj
                /\ f[n + 1][1] = UNION {e[o] : o \in f[n][1] \ f[n][2]}
                /\ f[n + 1][2] = f[n][1] \cup f[n][2]
    <2>1. f[n] \in P /\ f[n + 1] = G[f[n]]
      BY <1>6, <1>8
    <2> QED BY <1>4, <2>1
  <1>11. ASSUME NEW n \in Nat
         PROVE  /\ Round(r, e, n)[1] \subseteq Obj /\ Round(r, e, n)[2] \subseteq Obj
                /\ Round(r, e, n + 1)[1] =
                     UNION {e[o] : o \in Round(r, e, n)[1] \ Round(r, e, n)[2]}
                /\ Round(r, e, n + 1)[2] = Round(r, e, n)[1] \cup Round(r, e, n)[2]
    <2>1. Round(r, e, n) = f[n] /\ Round(r, e, n + 1) = f[n + 1]
      BY <1>9
    <2> QED BY <1>10, <2>1
  <1>12. Round(r, e, 0) = <<r, {}>>
    BY <1>8, <1>9
  <1> QED BY <1>11, <1>12

\* What the search has found in the end.
LEMMA ReachIs ==
  ASSUME NEW r, NEW e
  PROVE  H!Reach(r, e) = Round(r, e, Cardinality(Obj))[2]
  <1>1. H!Cardinality(Obj) = Cardinality(Obj)
    BY DEF H!Cardinality, Cardinality
  <1> QED BY <1>1 DEF H!Reach, Round

\* The search stays in every set that holds r and is closed under e.
LEMMA ReachLeast ==
  ASSUME NEW r, r \subseteq Obj, NEW e \in [Obj -> SUBSET Obj],
         NEW S, r \subseteq S, \A o \in S \cap Obj : e[o] \subseteq S
  PROVE  H!Reach(r, e) \subseteq S
  <1>1. PICK T : T = {n \in Nat : Round(r, e, n)[1] \subseteq S /\ Round(r, e, n)[2] \subseteq S}
    OBVIOUS
  <1>2. 0 \in T
    BY <1>1, RoundStep
  <1>3. ASSUME NEW n \in Nat, n \in T PROVE n + 1 \in T
    <2>1. PICK p, q : p = Round(r, e, n)[1] /\ q = Round(r, e, n)[2]
      OBVIOUS
    <2>2. PICK p1, q1 : p1 = Round(r, e, n + 1)[1] /\ q1 = Round(r, e, n + 1)[2]
      OBVIOUS
    <2>3. p1 = UNION {e[o] : o \in p \ q} /\ q1 = p \cup q /\ p \subseteq Obj
      BY <2>1, <2>2, RoundStep
    <2>4. p \subseteq S /\ q \subseteq S
      BY <1>1, <1>3, <2>1
    <2>5. p1 \subseteq S /\ q1 \subseteq S
      BY <2>3, <2>4
    <2> QED BY <1>1, <2>2, <2>5
  <1>4. Nat \subseteq T
    BY <1>2, <1>3, NatSetInduction
  <1>5. Cardinality(Obj) \in Nat
    BY FiniteAddresses, FS_CardinalityType
  <1> QED BY <1>1, <1>4, <1>5, ReachIs

\* The search finds everything: after as many rounds as there are objects, what
\* it has found holds r and is closed under e.
LEMMA ReachClosed ==
  ASSUME NEW r, r \subseteq Obj, NEW e \in [Obj -> SUBSET Obj]
  PROVE  /\ r \subseteq H!Reach(r, e)
         /\ \A o \in H!Reach(r, e) : e[o] \subseteq H!Reach(r, e)
  <1> DEFINE P(n) == Round(r, e, n)[1]
             Q(n) == Round(r, e, n)[2]
             Good(n) == /\ P(n) \subseteq Obj /\ Q(n) \subseteq Obj
                        /\ r \subseteq P(n) \cup Q(n)
                        /\ \A o \in Q(n) : e[o] \subseteq P(n) \cup Q(n)
                        /\ P(n) \subseteq Q(n) \/ Cardinality(Q(n)) >= n
  <1>1. PICK T : T = {n \in Nat : Good(n)}
    OBVIOUS
  <1>2. 0 \in T
    <2>1. P(0) = r /\ Q(0) = {}
      <3>1. Round(r, e, 0) = <<r, {}>>
        BY RoundStep
      <3> QED BY <3>1
    <2>2. Cardinality(Q(0)) >= 0
      BY <2>1, FS_EmptySet
    <2> QED BY <1>1, <2>1, <2>2
  <1>3. ASSUME NEW n \in Nat, n \in T PROVE n + 1 \in T
    <2>1. PICK p, q : p = P(n) /\ q = Q(n)
      OBVIOUS
    <2>2. PICK p1, q1 : p1 = P(n + 1) /\ q1 = Q(n + 1)
      OBVIOUS
    <2>3. /\ p1 = UNION {e[o] : o \in p \ q} /\ q1 = p \cup q
          /\ p \subseteq Obj /\ q \subseteq Obj
      BY <2>1, <2>2, RoundStep
    <2>4. /\ r \subseteq p \cup q /\ (\A o \in q : e[o] \subseteq p \cup q)
          /\ p \subseteq q \/ Cardinality(q) >= n
      BY <1>1, <1>3, <2>1
    <2>5. p1 \subseteq Obj /\ q1 \subseteq Obj /\ r \subseteq p1 \cup q1
      BY <2>3, <2>4
    <2>6. \A o \in q1 : e[o] \subseteq p1 \cup q1
      BY <2>3, <2>4
    <2>7. p1 \subseteq q1 \/ Cardinality(q1) >= n + 1
      <3>1. CASE p \subseteq q
        BY <2>3, <3>1
      <3>2. CASE ~(p \subseteq q)
        <4>1. PICK x \in p : x \notin q
          BY <3>2
        <4>2. /\ IsFiniteSet(q) /\ IsFiniteSet(q1) /\ q \cup {x} \subseteq q1
          BY <2>3, <2>5, <4>1, FiniteAddresses, FS_Subset
        <4>3. /\ IsFiniteSet(q \cup {x})
              /\ Cardinality(q \cup {x}) = Cardinality(q) + 1
          BY <4>1, <4>2, FS_AddElement
        <4>4. Cardinality(q \cup {x}) <= Cardinality(q1)
          BY <4>2, FS_Subset
        <4>5. Cardinality(q) \in Nat /\ Cardinality(q1) \in Nat
          BY <4>2, FS_CardinalityType
        <4>6. Cardinality(q) >= n
          BY <2>4, <3>2
        <4> QED BY <4>3, <4>4, <4>5, <4>6
      <3> QED BY <3>1, <3>2
    <2> HIDE DEF P, Q
    <2> QED BY <1>1, <2>2, <2>5, <2>6, <2>7
  <1>4. Nat \subseteq T
    BY <1>2, <1>3, NatSetInduction
  <1>5. PICK c : c = Cardinality(Obj)
    OBVIOUS
  <1>6. c \in Nat
    BY <1>5, FiniteAddresses, FS_CardinalityType
  <1>7. PICK p, q : p = P(c) /\ q = Q(c)
    OBVIOUS
  <1>8. /\ p \subseteq Obj /\ q \subseteq Obj /\ r \subseteq p \cup q
        /\ \A o \in q : e[o] \subseteq p \cup q
        /\ p \subseteq q \/ Cardinality(q) >= c
    BY <1>1, <1>4, <1>6, <1>7
  <1>9. p \subseteq q
    <2>1. CASE Cardinality(q) >= c
      <3>1. Cardinality(q) <= Cardinality(Obj) /\ Cardinality(q) \in Nat
        BY <1>8, FiniteAddresses, FS_Subset, FS_CardinalityType
      <3>2. Cardinality(q) = Cardinality(Obj)
        BY <1>5, <1>6, <2>1, <3>1
      <3>3. q = Obj
        BY <1>8, <3>2, FiniteAddresses, FS_Subset
      <3> QED BY <1>8, <3>3
    <2> QED BY <1>8, <2>1
  <1>10. H!Reach(r, e) = q
    BY <1>5, <1>7, ReachIs
  <1> QED BY <1>8, <1>9, <1>10

----------------------------------------------------------------------------
(* The refinement.                                                         *)

\* The mapping: what the program can name, and what each object refers to.
Root == ({Main, Registry, cur, gcroot} \ {Nil}) \cup mmudata
Ref == [o \in Obj |-> IF o \in heap THEN Strong(o) ELSE {}]

\* A traversal visits a part of what an object refers to.
LEMMA StrongRefs ==
  ASSUME TypeOK, NEW o \in Obj
  PROVE  Strong(o) \subseteq Refs(o) /\ Strong(o) \subseteq Obj
  <1>1. CASE o \in Thread
    <2>1. 1 .. top[o] \subseteq Slot
      BY <1>1, ConstAssumption DEF TypeOK, Slot
    <2> QED BY <1>1, <2>1 DEF Refs, Strong
  <1>2. CASE o \in Tab
    BY <1>2, TypesDisjoint DEF Refs, Strong, StrongKeys, StrongVals
  <1>3. CASE o \notin Thread /\ o \notin Tab
    BY <1>3 DEF Refs, Strong
  <1> QED BY <1>1, <1>2, <1>3

\* The roots and references that the mapping gives are objects.
LEMMA MappingType ==
  ASSUME TypeOK
  PROVE  Root \subseteq Obj /\ Ref \in [Obj -> SUBSET Obj] /\ H!Reachable = H!Reach(Root, Ref)
  <1>1. Root \subseteq Obj
    BY Types DEF Root
  <1>2. Ref \in [Obj -> SUBSET Obj]
    BY StrongRefs DEF Ref
  <1>3. H!Reachable = H!Reach(Root, Ref)
    BY DEF H!Reachable, Root, Ref
  <1> QED BY <1>1, <1>2, <1>3

\* All that the program can reach is alive: the live objects hold the roots and
\* are closed under references.
LEMMA ReachableLive == IInv => \A o \in H!Reachable : Live(o)
  <1> SUFFICES ASSUME IInv PROVE \A o \in H!Reachable : Live(o)
    OBVIOUS
  <1>0. TypeOK /\ NoDangling
    BY IInvNoDangling DEF IInv
  <1>1. PICK S : S = {o \in Obj : Live(o)}
    OBVIOUS
  <1>2. PICK r, e : r = Root /\ e = Ref
    OBVIOUS
  <1>3. r \subseteq Obj /\ e \in [Obj -> SUBSET Obj] /\ H!Reachable = H!Reach(r, e)
    BY <1>0, <1>2, MappingType
  <1>4. r \subseteq S
    BY <1>0, <1>1, <1>2, <1>3 DEF Root, NoDangling
  <1>5. ASSUME NEW o \in S \cap Obj PROVE e[o] \subseteq S
    <2>1. o \in heap /\ Live(o)
      BY <1>1 DEF Live
    <2>2. \A x \in Strong(o) : x \in Obj /\ Live(x)
      BY <1>0, <2>1, StrongRefs DEF NoDangling
    <2> QED BY <1>1, <1>2, <2>2 DEF Ref
  <1>6. H!Reach(r, e) \subseteq S
    BY <1>3, <1>4, <1>5, ReachLeast
  <1> QED BY <1>1, <1>3, <1>6

\* A step frees dead objects only.
LEMMA FreesDead ==
  ASSUME IInv, [Next]_vars
  PROVE  \A o \in heap \ heap' : isdead(o)
  <1>1. CASE LeaveScope
    BY <1>1 DEF LeaveScope
  <1>2. CASE SweepString
    BY <1>2 DEF SweepString
  <1>3. ASSUME NEW o \in tosweep, Sweep(o) PROVE \A x \in heap \ heap' : isdead(x)
    BY <1>3 DEF Sweep, Free
  <1>4. CASE Mutator /\ ~LeaveScope
    BY <1>4 DEF Mutator, NewObject, InternStr, TabSet, RawSetI, StoreNode, Load,
       SetMetatable, UdSetMetatable, SetRoot, NewClosureLocal, NewClosureInherit,
       NewClosureEmpty, UvSet, UpvalueJoin, EnterScope, XMove, Switch, EnterTrace
  <1>5. CASE Collector /\ ~SweepString /\ ~(\E o \in tosweep : Sweep(o))
    BY <1>5 DEF Collector, GcWork, MarkStart, Propagate, PropagateEnd, AtomicUv, AtomicWeak,
       AtomicAgain, AtomicUdata, AtomicFlip, FinalizeEnd, Finalize
  <1>6. CASE TraceExit \/ FullGc \/ FullGcRestart \/ FinalizerError
    BY <1>6 DEF TraceExit, FullGc, FullGcRestart, FinalizerError
  <1>7. CASE UNCHANGED vars
    BY <1>7 DEF vars
  <1> QED BY <1>1, <1>2, <1>3, <1>4, <1>5, <1>6, <1>7 DEF Next

\* LjGc implements the abstract heap, for every set of addresses: no step of
\* the mutator or of gc_onestep() frees an object that the program can reach,
\* and all that it can reach is allocated.
THEOREM HeapImplemented == Spec => HeapSafe
  <1>1. IInv => H!Reachable \subseteq heap
    BY ReachableLive DEF Live
  <1>2. Init => H!HeapInit
    BY <1>1, InitInv DEF H!HeapInit
  <1>3. IInv /\ [Next]_vars /\ (H!Reachable \subseteq heap)' => [H!HeapNext]_(H!absvars)
    <2> SUFFICES ASSUME IInv, [Next]_vars, (H!Reachable \subseteq heap)'
                 PROVE  H!HeapNext
      OBVIOUS
    <2>1. \A o \in heap \ heap' : o \notin H!Reachable
      BY FreesDead, ReachableLive DEF Live
    <2> QED BY <2>1 DEF H!HeapNext, H!Freed
  <1> QED BY <1>1, <1>2, <1>3, Invariance, PTL DEF Spec, HeapSafe, H!HeapSpec

\* A step that frees dead objects only and leaves the references of live ones
\* alone, but for the entries of weak tables, is a step of a collector.
LEMMA CollectStep ==
  ASSUME IInv, RootsLive', TypeOK', heap' \subseteq heap, \A o \in heap \ heap' : isdead(o),
         UNCHANGED <<gcroot, cur>>, mmudata \subseteq mmudata',
         \A o \in Obj : Live(o) => /\ Strong(o)' \subseteq Strong(o)
                                   /\ o \notin Weak => Strong(o)' = Strong(o)
  PROVE  H!Collect
  <1>0. TypeOK /\ H!Reachable \subseteq Obj
    <2>1. TypeOK
      BY DEF IInv
    <2>2. \A o \in H!Reachable : o \in heap
      BY ReachableLive DEF Live
    <2> QED BY <2>1, <2>2 DEF TypeOK
  <1>1. Root \subseteq Root' /\ Root' \subseteq heap'
    BY DEF Root, RootsLive, Live, Alive
  <1>2. ASSUME NEW o \in H!Reachable
        PROVE  /\ o \in heap' /\ Ref'[o] \subseteq Ref[o]
               /\ o \notin Weak => Ref'[o] = Ref[o]
    <2>1. o \in Obj /\ Live(o) /\ o \in heap
      BY <1>0, ReachableLive DEF Live
    <2>2. o \in heap'
      BY <2>1 DEF Live
    <2>3. Ref[o] = Strong(o) /\ Ref'[o] = Strong(o)'
      BY <2>1, <2>2 DEF Ref
    <2> QED BY <2>1, <2>2, <2>3
  <1> QED BY <1>1, <1>2 DEF H!Collect, Root, Ref

\* The references of an object whose fields a step leaves alone.
LEMMA StrongSame ==
  ASSUME NEW o \in Obj, UNCHANGED <<stack, top, tkey, tval, tmeta, fuv, udmt,
                                    uvclosed, uvth, uvslot, uvtv>>
  PROVE  Strong(o)' = Strong(o)
  BY DEF Strong, StrongKeys, StrongVals, Filled, uvval

\* An open upvalue points to a slot in use: a scope closes its upvalues when it
\* is left, so that the slots gc_traverse_thread() clears are nobody's.
InScope == \A u \in Upval : ~uvclosed[u] => uvslot[u] <= top[uvth[u]]

\* A step that makes no upvalue and lowers no top.
LEMMA ScopeKept ==
  ASSUME InScope, TypeOK, TypeOK', UNCHANGED <<uvclosed, uvth, uvslot>>,
         \A t \in Thread : top'[t] >= top[t]
  PROVE  InScope'
  <1> SUFFICES ASSUME NEW u \in Upval, ~uvclosed[u] PROVE uvslot[u] <= top'[uvth[u]]
    BY DEF InScope
  <1>1. /\ uvth[u] \in Thread /\ uvslot[u] \in Int /\ top[uvth[u]] \in Int
        /\ top'[uvth[u]] \in Int
    BY ConstAssumption DEF TypeOK, Slot
  <1>2. uvslot[u] <= top[uvth[u]] /\ top'[uvth[u]] >= top[uvth[u]]
    BY <1>1 DEF InScope
  <1> QED BY <1>1, <1>2

\* A push raises the top of its thread.
LEMMA PushRaises ==
  ASSUME TypeOK, NEW th \in Thread, NEW v, Push(th, v)
  PROVE  \A t \in Thread : top'[t] >= top[t]
  <1>1. \A t \in Thread : top[t] \in Int /\ top'[t] = IF t = th THEN top[t] + 1 ELSE top[t]
    BY ConstAssumption DEF Push, TypeOK
  <1> QED BY <1>1

\* func_finduv() opens an upvalue on a slot of the frame.
LEMMA NewClosureLocalScope ==
  ASSUME IInv, InScope, TypeOK', NEW f \in Func, NEW i \in Slot, NEW u \in Upval,
         NewClosureLocal(f, i, u)
  PROVE  InScope'
  <1>0. TypeOK /\ cur \in Thread
    BY DEF IInv, TypeOK
  <1>1. \A t \in Thread : top'[t] >= top[t]
    BY <1>0, PushRaises DEF NewClosureLocal
  <1>2. \A t \in Thread : top[t] \in Int /\ top'[t] \in Int
    BY <1>0, ConstAssumption DEF TypeOK
  <1> SUFFICES ASSUME NEW x \in Upval, ~uvclosed'[x] PROVE uvslot'[x] <= top'[uvth'[x]]
    BY DEF InScope
  <1>3. CASE x = u
    <2>1. uvth'[x] = cur /\ uvslot'[x] = i /\ i <= top[cur] /\ i \in Int
      BY <1>0, <1>2, <1>3 DEF NewClosureLocal, TypeOK
    <2> QED BY <1>0, <1>1, <1>2, <2>1
  <1>4. CASE x # u
    <2>1. ~uvclosed[x] /\ uvth'[x] = uvth[x] /\ uvslot'[x] = uvslot[x]
      BY <1>0, <1>4 DEF NewClosureLocal, TypeOK
    <2>2. uvslot[x] \in Int /\ uvth[x] \in Thread
      BY <1>0, ConstAssumption DEF TypeOK, Slot
    <2>3. uvslot[x] <= top[uvth[x]]
      BY <2>1 DEF InScope
    <2> QED BY <1>1, <1>2, <2>1, <2>2, <2>3
  <1> QED BY <1>3, <1>4

\* lj_func_closeuv() closes the upvalues above the new top.
LEMMA LeaveScopeScope ==
  ASSUME IInv, InScope, TypeOK', LeaveScope
  PROVE  InScope'
  <1>0. TypeOK /\ cur \in Thread
    BY DEF IInv, TypeOK
  <1>1. \A t \in Thread : top[t] \in Int /\ top'[t] = IF t = cur THEN top[t] - 1 ELSE top[t]
    BY <1>0, ConstAssumption DEF TypeOK, LeaveScope
  <1> SUFFICES ASSUME NEW x \in Upval, ~uvclosed'[x] PROVE uvslot'[x] <= top'[uvth'[x]]
    BY DEF InScope
  <1>2. /\ ~uvclosed[x] /\ x \notin SlotUv(cur, top[cur])
        /\ uvth'[x] = uvth[x] /\ uvslot'[x] = uvslot[x]
    BY DEF LeaveScope
  <1>3. /\ uvslot[x] \in Int /\ uvth[x] \in Thread /\ uvslot[x] <= top[uvth[x]]
        /\ x \in heap
    BY <1>0, <1>2, ConstAssumption DEF TypeOK, Slot, InScope, IInv, Empty
  <1>4. uvth[x] = cur => uvslot[x] # top[cur]
    BY <1>2, <1>3 DEF SlotUv, OpenUv
  <1> QED BY <1>0, <1>1, <1>2, <1>3, <1>4

\* lua_xmove() takes a slot off a stack that no open upvalue points to.
LEMMA XMoveScope ==
  ASSUME IInv, InScope, TypeOK', NEW th \in Thread, XMove(th)
  PROVE  InScope'
  <1>0. TypeOK /\ cur \in Thread
    BY DEF IInv, TypeOK
  <1>1. \A t \in Thread : /\ top[t] \in Int
                          /\ top'[t] = IF t = cur THEN top[t] - 1
                                       ELSE IF t = th THEN top[t] + 1 ELSE top[t]
    BY <1>0, ConstAssumption DEF TypeOK, XMove
  <1> SUFFICES ASSUME NEW x \in Upval, ~uvclosed'[x] PROVE uvslot'[x] <= top'[uvth'[x]]
    BY DEF InScope
  <1>2. /\ ~uvclosed[x] /\ x \notin SlotUv(cur, top[cur])
        /\ uvth'[x] = uvth[x] /\ uvslot'[x] = uvslot[x]
    BY DEF XMove, uvvars
  <1>3. /\ uvslot[x] \in Int /\ uvth[x] \in Thread /\ uvslot[x] <= top[uvth[x]]
        /\ x \in heap
    BY <1>0, <1>2, ConstAssumption DEF TypeOK, Slot, InScope, IInv, Empty
  <1>4. uvth[x] = cur => uvslot[x] # top[cur]
    BY <1>2, <1>3 DEF SlotUv, OpenUv
  <1> QED BY <1>0, <1>1, <1>2, <1>3, <1>4

\* What a step of the sweep leaves alone.
LEMMA SweepFacts ==
  ASSUME IInv, NEW o \in tosweep, Sweep(o)
  PROVE  /\ heap' \subseteq heap /\ \A x \in heap \ heap' : isdead(x)
         /\ \A t \in Thread \cap heap' : stack'[t] = stack[t] /\ top'[t] = top[t]
         /\ \A t \in Tab \cap heap' :
              tkey'[t] = tkey[t] /\ tval'[t] = tval[t] /\ tmeta'[t] = tmeta[t]
         /\ \A f \in Func \cap heap' : fuv'[f] = fuv[f]
         /\ \A d \in Udata \cap heap' : udmt'[d] = udmt[d]
         /\ \A u \in Upval \cap heap' :
              \/ uvclosed'[u] /\ uvtv'[u] = uvval(u)
              \/ /\ ~uvclosed'[u] /\ ~uvclosed[u] /\ uvth'[u] = uvth[u]
                 /\ uvslot'[u] = uvslot[u] /\ uvth[u] \in heap'
         /\ \A u \in Upval \ heap' : uvclosed'[u]
  <1> DEFINE dies == isdead(o) /\ o # Main
  <1>1. PICK U : U = {u \in OpenUv : uvth[u] = o}
    OBVIOUS
  <1>2. PICK F : F = {u \in U : isdead(u)} \cup (IF dies THEN {o} ELSE {})
    OBVIOUS
  <1>3. PICK C : C = IF dies THEN U \ F ELSE {}
    OBVIOUS
  <1>4. TypeOK /\ Free(F) /\ CloseOrFreeUv(C, F)
    BY <1>1, <1>2, <1>3 DEF IInv, Sweep
  <1>5. heap' = heap \ F /\ \A x \in F : isdead(x)
    BY <1>2, <1>4 DEF Free
  <1>6. /\ \A t \in Thread \cap heap' : stack'[t] = stack[t] /\ top'[t] = top[t]
        /\ \A t \in Tab \cap heap' :
             tkey'[t] = tkey[t] /\ tval'[t] = tval[t] /\ tmeta'[t] = tmeta[t]
        /\ \A f \in Func \cap heap' : fuv'[f] = fuv[f]
        /\ \A d \in Udata \cap heap' : udmt'[d] = udmt[d]
    BY <1>4, <1>5 DEF Free
  <1>7. ASSUME NEW u \in Upval \cap heap'
        PROVE  \/ uvclosed'[u] /\ uvtv'[u] = uvval(u)
               \/ /\ ~uvclosed'[u] /\ ~uvclosed[u] /\ uvth'[u] = uvth[u]
                  /\ uvslot'[u] = uvslot[u] /\ uvth[u] \in heap'
    <2>0. u \notin F
      BY <1>5
    <2>1. CASE u \in C
      BY <1>4, <2>0, <2>1 DEF CloseOrFreeUv
    <2>2. CASE u \notin C /\ uvclosed[u]
      BY <1>4, <2>0, <2>2 DEF CloseOrFreeUv, uvval
    <2>3. CASE u \notin C /\ ~uvclosed[u]
      <3>1. ~uvclosed'[u] /\ uvth'[u] = uvth[u] /\ uvslot'[u] = uvslot[u]
        BY <1>4, <2>0, <2>3 DEF CloseOrFreeUv
      <3>2. uvth[u] \in heap /\ uvth[u] \in Thread
        BY <1>4, <2>3, Types DEF IInv, Shape
      <3>3. U \subseteq Upval /\ uvth[u] \notin U
        BY <1>1, <3>2, TypesDisjoint DEF OpenUv
      <3>4. uvth[u] = o /\ dies => u \in C
        BY <1>1, <1>3, <1>5, <2>0, <2>3 DEF OpenUv
      <3>5. uvth[u] \notin F
        BY <1>2, <2>3, <3>3, <3>4
      <3> QED BY <1>5, <2>3, <3>1, <3>2, <3>5
    <2> QED BY <2>1, <2>2, <2>3
  <1>8. \A u \in Upval \ heap' : uvclosed'[u]
    BY <1>4, <1>5 DEF CloseOrFreeUv, IInv, Empty
  <1> QED BY <1>5, <1>6, <1>7, <1>8

\* gc_sweep() opens no upvalue, and leaves the tops of the threads it keeps.
LEMMA SweepScope ==
  ASSUME IInv, InScope, TypeOK', NEW o \in tosweep, Sweep(o)
  PROVE  InScope'
  <1> SUFFICES ASSUME NEW x \in Upval, ~uvclosed'[x] PROVE uvslot'[x] <= top'[uvth'[x]]
    BY DEF InScope
  <1>1. /\ ~uvclosed[x] /\ uvth'[x] = uvth[x] /\ uvslot'[x] = uvslot[x]
        /\ uvth[x] \in Thread \cap heap'
    BY SweepFacts, Types DEF IInv
  <1>2. top'[uvth[x]] = top[uvth[x]]
    BY <1>1, SweepFacts
  <1> QED BY <1>1, <1>2 DEF InScope

\* Open upvalues point to slots in use, for every heap.
LEMMA ScopeInv == IInv /\ InScope /\ [Next]_vars => InScope'
  <1> SUFFICES ASSUME IInv, InScope, [Next]_vars PROVE InScope'
    OBVIOUS
  <1>0. TypeOK /\ TypeOK' /\ cur \in Thread /\ \A t \in Thread : top[t] \in Int
    BY NextType, ConstAssumption DEF IInv, TypeOK
  <1>1. CASE UNCHANGED <<uvclosed, uvth, uvslot>> /\ \E v : Push(cur, v)
    BY <1>0, <1>1, PushRaises, ScopeKept
  <1>2. CASE UNCHANGED <<uvclosed, uvth, uvslot, top>>
    BY <1>0, <1>2, ScopeKept
  <1>3. ASSUME Mutator PROVE InScope'
    <2>1. ASSUME NEW f \in Func, NEW i \in Slot, NEW u \in Upval, NewClosureLocal(f, i, u)
          PROVE  InScope'
      BY <1>0, <2>1, NewClosureLocalScope
    <2>2. CASE LeaveScope
      BY <1>0, <2>2, LeaveScopeScope
    <2>3. ASSUME NEW th \in Thread, XMove(th) PROVE InScope'
      BY <1>0, <2>3, XMoveScope
    <2>4. CASE EnterScope
      <3>1. UNCHANGED <<uvclosed, uvth, uvslot>> /\ \A t \in Thread : top'[t] >= top[t]
        BY <1>0, <2>4 DEF EnterScope, uvvars, TypeOK
      <3> QED BY <1>0, <3>1, ScopeKept
    <2>5. CASE \/ \E o \in Tab \cup Udata \cup Thread : NewObject(o)
               \/ \E s \in Str : InternStr(s)
               \/ \E v \in Value : Load(v)
               \/ \E f, p \in Func : NewClosureInherit(f, p)
               \/ \E f \in Func, u \in Upval : NewClosureEmpty(f, u)
      BY <1>1, <2>5 DEF NewObject, InternStr, Load, NewClosureInherit, NewClosureEmpty,
         uvvars
    <2>6. CASE \/ \E t \in Tab, n \in Node : \E k, v \in Value : TabSet(t, n, k, v)
               \/ \E t \in Tab, n \in Node, v \in Value : RawSetI(t, n, v)
               \/ \E t \in Tab, m \in Tab \cup {Nil} : SetMetatable(t, m)
               \/ \E d \in Udata, m \in Tab \cup {Nil} : UdSetMetatable(d, m)
               \/ \E v \in Tab \cup {Nil} : SetRoot(v)
               \/ \E f \in Func, v \in Value : UvSet(f, v)
               \/ \E f, p \in Func : UpvalueJoin(f, p)
               \/ \E th \in Thread : Switch(th)
               \/ EnterTrace
      BY <1>2, <2>6 DEF TabSet, RawSetI, StoreNode, SetMetatable, UdSetMetatable, SetRoot,
         UvSet, UpvalueJoin, Switch, EnterTrace, uvvars
    <2> QED BY <1>3, <2>1, <2>2, <2>3, <2>4, <2>5, <2>6 DEF Mutator
  <1>4. ASSUME Collector PROVE InScope'
    <2>1. ASSUME NEW o \in tosweep, Sweep(o) PROVE InScope'
      BY <1>0, <2>1, SweepScope
    <2>2. ASSUME NEW d \in mmudata, Finalize(d) PROVE InScope'
      BY <1>1, <1>2, <2>2 DEF Finalize, uvvars
    <2>3. CASE \/ MarkStart \/ (\E o \in gray : Propagate(o)) \/ PropagateEnd
               \/ AtomicUv \/ AtomicWeak \/ AtomicAgain \/ AtomicUdata \/ AtomicFlip
               \/ SweepString \/ FinalizeEnd
      BY <1>2, <2>3 DEF MarkStart, Propagate, PropagateEnd, AtomicUv, AtomicWeak,
         AtomicAgain, AtomicUdata, AtomicFlip, SweepString, FinalizeEnd, uvvars
    <2> QED BY <1>4, <2>1, <2>2, <2>3 DEF Collector, GcWork
  <1>5. CASE TraceExit \/ FullGc \/ FullGcRestart \/ FinalizerError \/ UNCHANGED vars
    BY <1>2, <1>5 DEF TraceExit, FullGc, FullGcRestart, FinalizerError, vars, uvvars
  <1> QED BY <1>3, <1>4, <1>5 DEF Next

\* What an object refers to is decided by the fields of its type.
LEMMA StrongFields ==
  /\ \A t \in Thread :
       (\A i \in 1 .. top[t] : stack'[t][i] = stack[t][i]) /\ top'[t] = top[t]
         => Strong(t)' = Strong(t)
  /\ \A t \in Tab : tkey'[t] = tkey[t] /\ tval'[t] = tval[t] /\ tmeta'[t] = tmeta[t]
                     => Strong(t)' = Strong(t)
  /\ \A f \in Func : fuv'[f] = fuv[f] => Strong(f)' = Strong(f)
  /\ \A u \in Upval : uvval(u)' = uvval(u) => Strong(u)' = Strong(u)
  /\ \A d \in Udata : udmt'[d] = udmt[d] => Strong(d)' = Strong(d)
  /\ \A s \in Str : Strong(s)' = Strong(s)
  <1>1. ASSUME NEW t \in Thread, \A i \in 1 .. top[t] : stack'[t][i] = stack[t][i],
               top'[t] = top[t]
        PROVE  Strong(t)' = Strong(t)
    <2>1. Strong(t) = Obj \cap {stack[t][i] : i \in 1 .. top[t]}
      BY StrongOf
    <2>2. Strong(t)' = Obj \cap {stack'[t][i] : i \in 1 .. top'[t]}
      BY DEF Strong
    <2>3. {stack'[t][i] : i \in 1 .. top'[t]} = {stack[t][i] : i \in 1 .. top[t]}
      BY <1>1
    <2> QED BY <2>1, <2>2, <2>3
  <1>2. ASSUME NEW t \in Tab, tkey'[t] = tkey[t], tval'[t] = tval[t], tmeta'[t] = tmeta[t]
        PROVE  Strong(t)' = Strong(t)
    BY <1>2, TypesDisjoint DEF Strong, StrongKeys, StrongVals, Filled
  <1>3. ASSUME NEW f \in Func, fuv'[f] = fuv[f]
        PROVE  Strong(f)' = Strong(f)
    BY <1>3, TypesDisjoint DEF Strong
  <1>4. ASSUME NEW u \in Upval, uvval(u)' = uvval(u)
        PROVE  Strong(u)' = Strong(u)
    BY <1>4, TypesDisjoint DEF Strong
  <1>5. ASSUME NEW d \in Udata, udmt'[d] = udmt[d]
        PROVE  Strong(d)' = Strong(d)
    BY <1>5, TypesDisjoint DEF Strong
  <1>6. ASSUME NEW s \in Str
        PROVE  Strong(s)' = Strong(s)
    BY TypesDisjoint DEF Strong
  <1> QED BY <1>1, <1>2, <1>3, <1>4, <1>5, <1>6

\* A traversal inside atomic() clears slots above top only.
LEMMA PropagateStrong ==
  ASSUME IInv, InScope, NEW x \in gray, Propagate(x), NEW o \in Obj
  PROVE  Strong(o)' = Strong(o)
  <1>0. TypeOK /\ UNCHANGED <<top, tkey, tval, tmeta, fuv, udmt, uvclosed, uvth, uvslot, uvtv>>
    BY DEF IInv, Propagate, tabvars, uvvars
  <1>1. \A t \in Thread, i \in Slot : i <= top[t] => stack'[t][i] = stack[t][i]
    <2>1. \A t \in Thread : top[t] \in Int
      BY <1>0, ConstAssumption DEF TypeOK
    <2>2. \A i \in Slot : i \in Int
      BY DEF Slot
    <2>3. stack \in [Thread -> [Slot -> Value]]
      BY <1>0 DEF TypeOK
    <2> QED BY <2>1, <2>2, <2>3 DEF Propagate
  <1>2. CASE o \in Thread
    <2>1. \A i \in 1 .. top[o] : i \in Slot /\ i <= top[o]
      BY <1>0, <1>2, ConstAssumption DEF TypeOK, Slot
    <2> QED BY <1>0, <1>1, <1>2, <2>1, StrongFields
  <1>3. CASE o \in Upval
    <2>1. uvval(o)' = uvval(o)
      <3>1. CASE uvclosed[o]
        BY <1>0, <3>1 DEF uvval
      <3>2. CASE ~uvclosed[o]
        <4>1. uvth[o] \in Thread /\ uvslot[o] \in Slot /\ uvslot[o] <= top[uvth[o]]
          BY <1>0, <1>3, <3>2, Types DEF InScope
        <4> QED BY <1>0, <1>1, <3>2, <4>1 DEF uvval
      <3> QED BY <3>1, <3>2
    <2> QED BY <1>3, <2>1, StrongFields
  <1> QED BY <1>0, <1>2, <1>3, StrongFields DEF Obj

\* gc_clearweak takes entries from weak tables.
LEMMA AtomicFlipStrong ==
  ASSUME IInv, AtomicFlip, NEW o \in Obj
  PROVE  Strong(o)' \subseteq Strong(o) /\ (o \notin Weak => Strong(o)' = Strong(o))
  <1>0. /\ TypeOK /\ Marking
        /\ UNCHANGED <<stack, top, tmeta, fuv, udmt, uvclosed, uvth, uvslot, uvtv>>
        /\ \A t \in Tab : /\ tval'[t] = [n \in Node |-> IF Cleared(t, n) THEN Nil ELSE tval[t][n]]
                          /\ tkey'[t] = [n \in Node |-> IF Cleared(t, n) THEN Nil ELSE tkey[t][n]]
        /\ tkey \in [Tab -> [Node -> Value]] /\ tval \in [Tab -> [Node -> Value]]
    BY DEF IInv, TypeOK, AtomicFlip, AtomicStep, Marking, uvvars
  <1>1. CASE o \in Tab /\ o \in Weak
    <2>1. /\ Filled(o)' \subseteq Filled(o)
          /\ \A n \in Filled(o)' : tkey'[o][n] = tkey[o][n] /\ tval'[o][n] = tval[o][n]
      <3>1. \A n \in Node :
              /\ tval'[o][n] = IF Cleared(o, n) THEN Nil ELSE tval[o][n]
              /\ tkey'[o][n] = IF Cleared(o, n) THEN Nil ELSE tkey[o][n]
        BY <1>1 DEF AtomicFlip
      <3>2. \A n : n \in Filled(o)' <=> n \in Node /\ tval'[o][n] # Nil
        BY DEF Filled
      <3>3. \A n : n \in Filled(o) <=> n \in Node /\ tval[o][n] # Nil
        BY DEF Filled
      <3> QED BY <3>1, <3>2, <3>3
    <2>2. StrongKeys(o)' \subseteq StrongKeys(o) /\ StrongVals(o)' \subseteq StrongVals(o)
      BY <2>1 DEF StrongKeys, StrongVals
    <2>3. Strong(o)' = Obj \cap ({tmeta'[o]} \cup StrongKeys(o)' \cup StrongVals(o)')
      BY <1>1, TypesDisjoint DEF Strong
    <2> QED BY <1>0, <1>1, <2>2, <2>3, StrongOf
  <1>2. CASE o \in Tab /\ o \notin Weak
    <2>1. \A n \in Node : ~Cleared(o, n)
      BY <1>0, <1>2 DEF IInv, Colors, Cleared
    <2>2. tkey'[o] = tkey[o] /\ tval'[o] = tval[o]
      BY <1>0, <1>2, <2>1
    <2> QED BY <1>0, <1>2, <2>2, StrongFields
  <1>3. CASE o \notin Tab
    <2>1. uvval(o)' = uvval(o)
      BY <1>0 DEF uvval
    <2>2. Strong(o)' = Strong(o)
      BY <1>0, <1>3, <2>1, StrongFields DEF Obj
    <2> QED BY <2>2
  <1> QED BY <1>1, <1>2, <1>3

\* The sweep leaves what lives alone; an upvalue closed with its thread keeps
\* its value.
LEMMA SweepStrong ==
  ASSUME IInv, NEW x \in tosweep, Sweep(x), NEW o \in Obj, Live(o)
  PROVE  Strong(o)' = Strong(o)
  <1>0. TypeOK /\ o \in heap'
    BY SweepFacts DEF IInv, Live
  <1>1. CASE o \in Upval
    <2>1. uvval(o)' = uvval(o)
      <3>1. CASE uvclosed'[o] /\ uvtv'[o] = uvval(o)
        BY <3>1 DEF uvval
      <3>2. CASE /\ ~uvclosed'[o] /\ ~uvclosed[o] /\ uvth'[o] = uvth[o]
                 /\ uvslot'[o] = uvslot[o] /\ uvth[o] \in heap'
        <4>1. stack'[uvth[o]] = stack[uvth[o]]
          BY <1>0, <1>1, <3>2, SweepFacts, Types
        <4> QED BY <3>2, <4>1 DEF uvval
      <3> QED BY <1>0, <1>1, <3>1, <3>2, SweepFacts
    <2> QED BY <1>1, <2>1, StrongFields
  <1>2. CASE o \in Thread
    BY <1>0, <1>2, SweepFacts, StrongFields
  <1>3. CASE o \in Tab
    BY <1>0, <1>3, SweepFacts, StrongFields
  <1>4. CASE o \in Func
    BY <1>0, <1>4, SweepFacts, StrongFields
  <1>5. CASE o \in Udata
    BY <1>0, <1>5, SweepFacts, StrongFields
  <1>6. CASE o \in Str
    BY <1>6, StrongFields
  <1> QED BY <1>1, <1>2, <1>3, <1>4, <1>5, <1>6 DEF Obj

\* Every step of gc_onestep() but the finalizers is a step of a collector.
LEMMA GcWorkCollects ==
  ASSUME IInv, IInv', InScope, GcWork
  PROVE  H!Collect
  <1>0. /\ TypeOK' /\ RootsLive' /\ \A o \in heap \ heap' : isdead(o)
    BY FreesDead DEF IInv, Next, Collector
  <1>1. CASE \/ MarkStart \/ PropagateEnd \/ AtomicUv \/ AtomicWeak \/ AtomicAgain
             \/ AtomicUdata \/ SweepString \/ FinalizeEnd
    <2>1. /\ heap' \subseteq heap /\ UNCHANGED <<gcroot, cur>> /\ mmudata \subseteq mmudata'
          /\ UNCHANGED <<stack, top, tkey, tval, tmeta, fuv, udmt,
                         uvclosed, uvth, uvslot, uvtv>>
      BY <1>1 DEF MarkStart, PropagateEnd, AtomicUv, AtomicWeak, AtomicAgain, AtomicUdata,
         SweepString, FinalizeEnd, gcdata, tabvars, uvvars
    <2> QED BY <1>0, <2>1, StrongSame, CollectStep
  <1>2. ASSUME NEW x \in gray, Propagate(x) PROVE H!Collect
    <2>1. heap' \subseteq heap /\ UNCHANGED <<gcroot, cur>> /\ mmudata \subseteq mmudata'
      BY <1>2 DEF Propagate, gcdata
    <2>2. \A o \in Obj : Strong(o)' = Strong(o)
      BY <1>2, PropagateStrong
    <2> QED BY <1>0, <2>1, <2>2, CollectStep
  <1>3. CASE AtomicFlip
    <2>1. heap' \subseteq heap /\ UNCHANGED <<gcroot, cur>> /\ mmudata \subseteq mmudata'
      BY <1>3 DEF AtomicFlip
    <2> QED BY <1>0, <1>3, <2>1, AtomicFlipStrong, CollectStep
  <1>4. ASSUME NEW x \in tosweep, Sweep(x) PROVE H!Collect
    <2>1. heap' \subseteq heap /\ UNCHANGED <<gcroot, cur>> /\ mmudata \subseteq mmudata'
      BY <1>4, SweepFacts DEF Sweep
    <2>2. \A o \in Obj : Live(o) => Strong(o)' = Strong(o)
      BY <1>4, SweepStrong
    <2> QED BY <1>0, <2>1, <2>2, CollectStep
  <1> QED BY <1>1, <1>2, <1>3, <1>4 DEF GcWork

\* The collector is invisible, for every set of addresses: a step of
\* gc_onestep() frees only garbage, and what a reachable object refers to stays
\* as it was, but for the entries of weak tables.
THEOREM CollectorUnseen == Spec => CollectorInvisible
  <1>1. Init => InScope
    BY DEF Init, InScope
  <1>2. IInv /\ InScope /\ IInv' /\ [Next]_vars => [GcWork => H!Collect]_vars
    BY GcWorkCollects
  <1> QED BY <1>1, <1>2, ScopeInv, Invariance, PTL DEF Spec, CollectorInvisible
===============================================================================
