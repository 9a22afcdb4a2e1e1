------------------------------- MODULE Folding -------------------------------
(***************************************************************************)
(* What a fold over a sequence and a recursion along a tree compute.  The  *)
(* module is instantiated with an operator Op(c, v, x): from the value v   *)
(* before, the value after x, where c is what the operator reads beside.   *)
(*                                                                         *)
(* FoldsStepwise gives a fold as the last of a series of values that       *)
(* begins with the base and goes on by Op: a fact about the fold is then a *)
(* fact about every value of the series, by induction.                     *)
(*                                                                         *)
(* An instance has a copy of all that the module extends: the module       *)
(* therefore writes the fold out, and the modules that use it show theirs  *)
(* to be the same.                                                         *)
(***************************************************************************)
EXTENDS Integers, Sequences

LOCAL WF == INSTANCE WellFoundedInduction

CONSTANT Op(_, _, _)

(***************************************************************************)
(* Induction without an operator to instantiate: a set that has the first  *)
(* element and is closed under the step is everything.  The other proof    *)
(* modules use it for branches of blocks and for positions of a sequence.  *)
(***************************************************************************)

\* A set of natural numbers has a least one.
LEMMA LeastNumber ==
  ASSUME NEW T \in SUBSET Nat, T # {}
  PROVE  \E n \in T : \A m \in T : n <= m
<1> DEFINE R == {p \in Nat \X Nat : p[1] < p[2]}
<1>1. WF!IsWellFoundedOn(R, Nat)
  BY WF!NatLessThanWellFounded DEF WF!OpToRel
<1>2. PICK n \in T : \A m \in T : ~ (<<m, n>> \in R)
  <2> HIDE DEF R
  <2> QED  BY <1>1, WF!WFMin
<1>3. ASSUME NEW m \in T  PROVE  n <= m
  <2>1. n \in Nat /\ m \in Nat /\ <<m, n>> \in Nat \X Nat
    OBVIOUS
  <2>2. ~(m < n)
    BY <1>2, <2>1
  <2> QED  BY <2>1, <2>2
<1> QED  BY <1>3

\* Induction on numbers up to a bound.
LEMMA UpTo ==
  ASSUME NEW n \in Nat, NEW G, 0 \in G,
         \A i \in 1..n : i - 1 \in G => i \in G
  PROVE  0..n \subseteq G
<1> SUFFICES ASSUME ~(0..n \subseteq G)  PROVE  FALSE
  OBVIOUS
<1> DEFINE T == (0..n) \ G
<1>1. PICK k \in T : \A m \in T : k <= m
  <2>1. T \in SUBSET Nat /\ T # {}
    OBVIOUS
  <2> HIDE DEF T
  <2> QED  BY <2>1, LeastNumber
<1>2. k \in 1..n /\ k - 1 \in 0..n
  BY <1>1
<1>3. k - 1 \in G
  BY <1>1, <1>2
<1> QED  BY <1>1, <1>2, <1>3

\* A tree: every node but the root has a parent that is one less deep.
IsTree(Nodes, root, up, depth) ==
  /\ root \in Nodes
  /\ \A b \in Nodes : depth[b] \in Nat
  /\ \A b \in Nodes \ {root} : up[b] \in Nodes /\ depth[b] = depth[up[b]] + 1

\* Of some nodes of a tree one is the least deep.
LEMMA LeastDeep ==
  ASSUME NEW Nodes, NEW root, NEW up, NEW depth, IsTree(Nodes, root, up, depth),
         NEW S \in SUBSET Nodes, S # {}
  PROVE  \E b \in S : \A c \in S : depth[b] <= depth[c]
<1> DEFINE T == {depth[b] : b \in S}
<1>1. T \in SUBSET Nat /\ T # {}
  BY DEF IsTree
<1>2. PICK n \in T : \A m \in T : n <= m
  <2> HIDE DEF T
  <2> QED  BY <1>1, LeastNumber
<1> QED  BY <1>2

\* Induction along the branches of a tree.
LEMMA AlongTree ==
  ASSUME NEW Nodes, NEW root, NEW up, NEW depth, IsTree(Nodes, root, up, depth),
         NEW G, root \in G,
         \A b \in Nodes \ {root} : up[b] \in G => b \in G
  PROVE  Nodes \subseteq G
<1> SUFFICES ASSUME ~(Nodes \subseteq G)  PROVE  FALSE
  OBVIOUS
<1>1. PICK b \in Nodes \ G : \A c \in Nodes \ G : depth[b] <= depth[c]
  <2>1. Nodes \ G \in SUBSET Nodes /\ Nodes \ G # {}
    OBVIOUS
  <2> QED  BY <2>1, LeastDeep
<1>2. b \in Nodes \ {root} /\ up[b] \in Nodes \ G
  BY <1>1
     DEF IsTree
<1>3. depth[b] = depth[up[b]] + 1 /\ depth[up[b]] \in Nat
  BY <1>2
     DEF IsTree
<1> QED  BY <1>1, <1>2, <1>3

(***************************************************************************)
(* Folds and recursions                                                    *)
(***************************************************************************)

\* The last one of some positions.
LastOf(S) == CHOOSE x \in S : \A y \in S : x >= y

\* The fold, as the community modules define FoldLeft: its value at a set of
\* positions folds the elements at them.
Fold(c, base, s) ==
  LET iter[S \in SUBSET DOMAIN s] ==
        IF S = {} THEN base ELSE Op(c, iter[S \ {LastOf(S)}], s[LastOf(S)])
  IN iter[DOMAIN s]

\* The function by which the fold is defined.
IsIteration(iter, c, base, s, n) ==
  iter = [S \in SUBSET (1..n) |->
            IF S = {} THEN base ELSE Op(c, iter[S \ {LastOf(S)}], s[LastOf(S)])]

\* The position at which the fold begins is the last one.
LEMMA LastPosition ==
  ASSUME NEW n \in Nat, NEW S \in SUBSET (1..n), n \in S
  PROVE  LastOf(S) = n
<1>1. \A y \in S : n >= y /\ y \in Nat
  OBVIOUS
<1>2. \E x \in S : \A y \in S : x >= y
  BY <1>1
<1>3. LastOf(S) \in S /\ \A y \in S : LastOf(S) >= y
  BY <1>2
     DEF LastOf
<1>4. LastOf(S) >= n /\ n >= LastOf(S) /\ LastOf(S) \in Nat
  BY <1>1, <1>3
<1> QED  BY <1>4

\* The iteration that the fold is defined by exists.
LEMMA IterationExists ==
  ASSUME NEW c, NEW base, NEW s, NEW n \in Nat
  PROVE  \E iter : IsIteration(iter, c, base, s, n)
<1> DEFINE G == {k \in Nat : \E iter : IsIteration(iter, c, base, s, k)}
<1>1. 0 \in G
  <2>1. IsIteration([S \in SUBSET (1..0) |-> base], c, base, s, 0)
    BY DEF IsIteration
  <2> QED  BY <2>1
<1>2. ASSUME NEW k \in 1..n, k - 1 \in G  PROVE  k \in G
  <2>1. PICK f : IsIteration(f, c, base, s, k - 1)
    BY <1>2
  <2> DEFINE g == [S \in SUBSET (1..k) |-> IF k \in S THEN Op(c, f[S \ {k}], s[k]) ELSE f[S]]
             h == [S \in SUBSET (1..k) |->
                     IF S = {} THEN base ELSE Op(c, g[S \ {LastOf(S)}], s[LastOf(S)])]
  <2>2. ASSUME NEW S \in SUBSET (1..k)  PROVE  g[S] = h[S]
    <3>1. CASE k \in S
      <4>1. LastOf(S) = k
        BY <3>1, LastPosition
      <4>2. S \ {k} \in SUBSET (1..k) /\ k \notin S \ {k} /\ S # {}
        BY <3>1
      <4>3. g[S \ {k}] = f[S \ {k}]
        BY <4>2
      <4> QED  BY <3>1, <4>1, <4>2, <4>3
    <3>2. CASE k \notin S
      <4>1. S \in SUBSET (1..(k - 1)) /\ S \ {LastOf(S)} \in SUBSET (1..(k - 1))
        <5>1. \A y \in S : y \in 1..k /\ y # k
          BY <3>2
        <5>2. \A y \in S : y \in 1..(k - 1)
          BY <5>1
        <5> QED  BY <5>2
      <4>2. S \ {LastOf(S)} \in SUBSET (1..k) /\ k \notin S \ {LastOf(S)}
        BY <3>2
      <4>3. g[S] = f[S] /\ g[S \ {LastOf(S)}] = f[S \ {LastOf(S)}]
        BY <3>2, <4>2
      <4>4. f[S] = IF S = {} THEN base ELSE Op(c, f[S \ {LastOf(S)}], s[LastOf(S)])
        BY <2>1, <4>1
           DEF IsIteration
      <4> QED  BY <4>3, <4>4
    <3> QED  BY <3>1, <3>2
  <2>3. g = h
    <3>1. /\ DOMAIN g = SUBSET (1..k) /\ DOMAIN h = SUBSET (1..k)
          /\ g = [S \in DOMAIN g |-> g[S]] /\ h = [S \in DOMAIN h |-> h[S]]
      OBVIOUS
    <3> HIDE DEF g, h
    <3> QED  BY <2>2, <3>1
  <2>4. IsIteration(g, c, base, s, k)
    BY <2>3
       DEF IsIteration
  <2> QED  BY <2>4
<1>3. 0..n \subseteq G
  <2> HIDE DEF G
  <2> QED  BY <1>1, <1>2, UpTo
<1> QED  BY <1>3

\* A fold is the last of a series of values, one for each position.
THEOREM FoldsStepwise ==
  ASSUME NEW c, NEW base, NEW X, NEW s \in Seq(X)
  PROVE  \E v : /\ v[0] = base
                /\ \A i \in 1..Len(s) : v[i] = Op(c, v[i - 1], s[i])
                /\ v[Len(s)] = Fold(c, base, s)
<1>1. DOMAIN s = 1..Len(s) /\ Len(s) \in Nat
  OBVIOUS
<1> DEFINE iter == CHOOSE f : IsIteration(f, c, base, s, Len(s))
<1>2. IsIteration(iter, c, base, s, Len(s))
  BY <1>1, IterationExists
<1>3. Fold(c, base, s) = iter[1..Len(s)]
  BY <1>1
     DEF Fold, IsIteration
<1> HIDE DEF iter
<1> DEFINE v == [i \in 0..Len(s) |-> iter[1..i]]
<1>4. v[0] = base
  <2>1. 1..0 = {} /\ {} \in SUBSET (1..Len(s))
    OBVIOUS
  <2>2. iter[{}] = base
    BY <1>2, <2>1
       DEF IsIteration
  <2> QED  BY <1>1, <2>1, <2>2
<1>5. ASSUME NEW i \in 1..Len(s)  PROVE  v[i] = Op(c, v[i - 1], s[i])
  <2>1. 1..i \in SUBSET (1..Len(s)) /\ 1..i # {} /\ i \in Nat /\ i \in 1..i
    <3>1. i \in Nat /\ i \in 1..i
      BY <1>1
    <3>2. \A y \in 1..i : y \in 1..Len(s)
      BY <1>1
    <3> QED  BY <3>1, <3>2
  <2>2. LastOf(1..i) = i
    BY <2>1, LastPosition
  <2>3. (1..i) \ {i} = 1..(i - 1)
    BY <1>1
  <2>4. iter[1..i] = Op(c, iter[1..(i - 1)], s[i])
    BY <1>2, <2>1, <2>2, <2>3
       DEF IsIteration
  <2> QED  BY <1>1, <2>4
<1>6. v[Len(s)] = Fold(c, base, s)
  BY <1>1, <1>3
<1> QED  BY <1>4, <1>5, <1>6

\* A fold ends among the last of a series of sets, when it begins in the first
\* and every element leads from each set into the next.
THEOREM FoldReaches ==
  ASSUME NEW c, NEW base, NEW X, NEW s \in Seq(X), NEW F, base \in F[0],
         \A i \in 1..Len(s) : \A v \in F[i - 1] : Op(c, v, s[i]) \in F[i]
  PROVE  Fold(c, base, s) \in F[Len(s)]
<1>1. PICK v : /\ v[0] = base
               /\ \A i \in 1..Len(s) : v[i] = Op(c, v[i - 1], s[i])
               /\ v[Len(s)] = Fold(c, base, s)
  BY FoldsStepwise
<1> DEFINE G == {i \in 0..Len(s) : v[i] \in F[i]}
<1>2. 0 \in G
  BY <1>1
<1>3. ASSUME NEW i \in 1..Len(s), i - 1 \in G  PROVE  i \in G
  BY <1>1, <1>3
<1>4. 0..Len(s) \subseteq G
  <2> HIDE DEF G
  <2>1. Len(s) \in Nat
    OBVIOUS
  <2> QED  BY <1>2, <1>3, <2>1, UpTo
<1> QED  BY <1>1, <1>4

\* A fold stays in a set that every element keeps.
COROLLARY FoldStays ==
  ASSUME NEW c, NEW base, NEW X, NEW s \in Seq(X), NEW G, base \in G,
         \A v \in G, x \in X : Op(c, v, x) \in G
  PROVE  Fold(c, base, s) \in G
<1> DEFINE F == [i \in 0..Len(s) |-> G]
<1>1. Len(s) \in Nat /\ \A i \in 1..Len(s) : s[i] \in X
  OBVIOUS
<1>2. /\ \A i \in 0..Len(s) : F[i] = G
      /\ \A i \in 1..Len(s) : i - 1 \in 0..Len(s) /\ i \in 0..Len(s)
      /\ 0 \in 0..Len(s) /\ Len(s) \in 0..Len(s)
  BY <1>1
<1> HIDE DEF F
<1>3. \A i \in 1..Len(s) : \A v \in F[i - 1] : Op(c, v, s[i]) \in F[i]
  BY <1>1, <1>2
<1>4. Fold(c, base, s) \in F[Len(s)]
  BY <1>2, <1>3, FoldReaches
<1> QED  BY <1>2, <1>4

\* A function that is defined at every node of a tree from its value at the
\* parent, as the definitions that walk down a branch are, has the values it is
\* defined by.
IsAlong(f, c, base, Nodes, root, up) ==
  f = [b \in Nodes |-> IF b = root THEN Op(c, base, b) ELSE Op(c, f[up[b]], b)]

\* A function that is defined along the branches of a tree exists.
THEOREM AlongExists ==
  ASSUME NEW c, NEW base, NEW Nodes, NEW root, NEW up, NEW depth,
         IsTree(Nodes, root, up, depth)
  PROVE  \E f : IsAlong(f, c, base, Nodes, root, up)
<1> DEFINE To(n) == {b \in Nodes : depth[b] <= n}
           Is(f, n) == f = [b \in To(n) |-> IF b = root THEN Op(c, base, b)
                                                        ELSE Op(c, f[up[b]], b)]
           G == {n \in Nat : \E f : Is(f, n)}
<1>1. \A n \in Nat : n \in G
  <2> SUFFICES ASSUME NEW n \in Nat  PROVE  n \in G
    OBVIOUS
  <2>1. 0 \in G
    <3> DEFINE f == [b \in To(0) |-> Op(c, base, b)]
    <3>1. \A b \in To(0) : b = root
      BY DEF IsTree
    <3>2. Is(f, 0)
      BY <3>1
    <3> QED  BY <3>2
  <2>2. ASSUME NEW k \in 1..n, k - 1 \in G  PROVE  k \in G
    <3>1. PICK f : Is(f, k - 1)
      BY <2>2
    <3> DEFINE g == [b \in To(k) |-> IF b = root THEN Op(c, base, b)
                                                 ELSE Op(c, f[up[b]], b)]
    <3>2. ASSUME NEW b \in To(k), b # root  PROVE  g[up[b]] = f[up[b]]
      <4>1. up[b] \in To(k - 1) /\ up[b] \in To(k)
        BY <3>2 DEF IsTree
      <4> QED  BY <3>1, <4>1
    <3>3. Is(g, k)
      <4>1. g = [b \in To(k) |-> IF b = root THEN Op(c, base, b) ELSE Op(c, g[up[b]], b)]
        <5> DEFINE h == [b \in To(k) |-> IF b = root THEN Op(c, base, b)
                                                     ELSE Op(c, g[up[b]], b)]
        <5>1. \A b \in To(k) : g[b] = h[b]
          BY <3>2
        <5>2. /\ DOMAIN g = To(k) /\ DOMAIN h = To(k)
              /\ g = [b \in DOMAIN g |-> g[b]] /\ h = [b \in DOMAIN h |-> h[b]]
          OBVIOUS
        <5>3. g = h
          <6> HIDE DEF g, h
          <6> QED  BY <5>1, <5>2
        <5> QED  BY <5>3
      <4> QED  BY <4>1
    <3>4. k \in Nat /\ \E h : Is(h, k)
      <4> HIDE DEF g, Is
      <4> QED  BY <3>3
    <3> QED  BY <3>4
  <2>3. 0..n \subseteq G
    <3> HIDE DEF G
    <3> QED  BY <2>1, <2>2, UpTo
  <2> QED  BY <2>3
<1> DEFINE at(n) == CHOOSE f : Is(f, n)
           F == [b \in Nodes |-> at(depth[b])[b]]
<1>2. \A n \in Nat : Is(at(n), n)
  BY <1>1
<1> HIDE DEF at
<1>3. ASSUME NEW b \in Nodes
      PROVE  \A n \in Nat : depth[b] <= n => at(n)[b] = at(depth[b])[b]
  <2> DEFINE H == {x \in Nodes : \A n \in Nat : depth[x] <= n => at(n)[x] = at(depth[x])[x]}
  <2>1. root \in H
    <3>1. \A n \in Nat : depth[root] <= n => at(n)[root] = Op(c, base, root)
      BY <1>2 DEF IsTree
    <3> QED  BY <3>1 DEF IsTree
  <2>2. ASSUME NEW x \in Nodes \ {root}, up[x] \in H  PROVE  x \in H
    <3>1. depth[x] \in Nat /\ depth[up[x]] \in Nat /\ depth[x] = depth[up[x]] + 1
      BY DEF IsTree
    <3>2. ASSUME NEW n \in Nat, depth[x] <= n
          PROVE  at(n)[x] = Op(c, at(depth[up[x]])[up[x]], x)
      <4>1. at(n)[x] = Op(c, at(n)[up[x]], x)
        BY <1>2, <3>2
      <4>2. depth[up[x]] <= n
        BY <3>1, <3>2
      <4> QED  BY <2>2, <4>1, <4>2
    <3> QED  BY <3>1, <3>2
  <2>3. Nodes \subseteq H
    <3> HIDE DEF H
    <3> QED  BY <2>1, <2>2, AlongTree
  <2> QED  BY <2>3
<1>4. ASSUME NEW b \in Nodes
      PROVE  F[b] = IF b = root THEN Op(c, base, b) ELSE Op(c, F[up[b]], b)
  <2>1. depth[b] \in Nat
    BY DEF IsTree
  <2>2. at(depth[b])[b] = IF b = root THEN Op(c, base, b) ELSE Op(c, at(depth[b])[up[b]], b)
    <3>1. b \in To(depth[b])
      BY <2>1
    <3>2. Is(at(depth[b]), depth[b])
      <4> HIDE DEF Is, To
      <4> QED  BY <1>2, <2>1
    <3> HIDE DEF To
    <3> QED  BY <3>1, <3>2
  <2>3. CASE b # root
    <3>1. up[b] \in Nodes /\ depth[up[b]] \in Nat /\ depth[up[b]] <= depth[b]
      BY <2>3 DEF IsTree
    <3>2. at(depth[b])[up[b]] = at(depth[up[b]])[up[b]]
      BY <1>3, <2>1, <3>1
    <3> QED  BY <2>2, <2>3, <3>1, <3>2
  <2> QED  BY <2>2, <2>3
<1>5. IsAlong(F, c, base, Nodes, root, up)
  <2> DEFINE H == [b \in Nodes |-> IF b = root THEN Op(c, base, b) ELSE Op(c, F[up[b]], b)]
  <2>1. /\ DOMAIN F = Nodes /\ DOMAIN H = Nodes
        /\ F = [b \in DOMAIN F |-> F[b]] /\ H = [b \in DOMAIN H |-> H[b]]
    OBVIOUS
  <2>2. \A b \in Nodes : F[b] = H[b]
    BY <1>4
  <2>3. F = H
    <3> HIDE DEF F, H
    <3> QED  BY <2>1, <2>2
  <2> QED  BY <2>3
     DEF IsAlong
<1> QED  BY <1>5
=============================================================================
