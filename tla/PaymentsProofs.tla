---------------------------- MODULE PaymentsProofs ----------------------------
(***************************************************************************)
(* Proofs about the money of the addresses, for every tree of blocks and   *)
(* transactions that verification lets through.                            *)
(***************************************************************************)
EXTENDS RowsProofs

(***************************************************************************)
(* The value of outputs.  A value is a number of units, so what adds up    *)
(* are the cardinalities of sets that have nothing in common.              *)
(***************************************************************************)

\* What a function makes of finitely many is finitely many.
LEMMA ImageIsFinite ==
  ASSUME NEW S, IsFiniteSet(S), NEW f, DOMAIN f = S, f = [x \in S |-> f[x]]
  PROVE  IsFiniteSet({f[x] : x \in S})
<1> DEFINE T == {f[x] : x \in S}
<1>1. f \in Surjection(S, T)
  BY DEF Surjection
<1> HIDE DEF T
<1> QED  BY <1>1, FS_Surjection DEF T

LEMMA UnitsAreFinite ==
  ASSUME NEW S \in SUBSET AllOutputs, IsFiniteSet(S)
  PROVE  IsFiniteSet(Units(S))
<1> DEFINE f == [x \in S |-> {x} \X (1..Value[x])]
           T == {f[x] : x \in S}
<1>1. IsFiniteSet(T)
  <2>1. DOMAIN f = S /\ f = [x \in S |-> f[x]]
    OBVIOUS
  <2> HIDE DEF f
  <2> QED  BY <2>1, ImageIsFinite
<1>2. ASSUME NEW x \in S  PROVE  IsFiniteSet(f[x])
  <2> DEFINE one == 1
             v == Value[x]
  <2>1. one \in Int /\ v \in Int /\ f[x] = {x} \X (one..v)
    BY Transfers
  <2> HIDE DEF one, v, f
  <2>2. IsFiniteSet(one..v) /\ IsFiniteSet({x})
    BY <2>1, FS_Interval, FS_Singleton
  <2> QED  BY <2>1, <2>2, FS_Product
<1>3. \A U \in T : IsFiniteSet(U)
  BY <1>2
<1>4. Units(S) = UNION T
  BY DEF Units
<1> HIDE DEF T
<1> QED  BY <1>1, <1>3, <1>4, FS_UNION

LEMMA TotalType ==
  ASSUME NEW S \in SUBSET AllOutputs, IsFiniteSet(S)
  PROVE  Total(S) \in Nat
BY UnitsAreFinite, FS_CardinalityType DEF Total

LEMMA TotalOfNone == Total({}) = 0
<1>1. Units({}) = {}
  BY DEF Units
<1> QED  BY <1>1, FS_EmptySet DEF Total

LEMMA TotalOfOne ==
  ASSUME NEW x \in AllOutputs
  PROVE  Total({x}) = Value[x] /\ Value[x] \in Nat \ {0}
<1> DEFINE one == 1
           v == Value[x]
<1>1. one \in Int /\ v \in Nat \ {0} /\ v \in Int /\ Units({x}) = {x} \X (one..v)
  BY Transfers DEF Units
<1>2. one = 1
  OBVIOUS
<1> HIDE DEF one, v
<1>3. IsFiniteSet(one..v) /\ Cardinality(one..v) = v
  BY <1>1, <1>2, FS_Interval
<1>4. IsFiniteSet({x}) /\ Cardinality({x}) = 1
  BY FS_Singleton
<1>5. Cardinality({x} \X (one..v)) = Cardinality({x}) * Cardinality(one..v)
  BY <1>3, <1>4, FS_Product
<1>6. Cardinality({x} \X (one..v)) = v
  BY <1>1, <1>3, <1>4, <1>5
<1> QED  BY <1>1, <1>6 DEF Total, v

\* What has nothing in common adds up.
LEMMA TotalOfBoth ==
  ASSUME NEW S \in SUBSET AllOutputs, NEW T \in SUBSET AllOutputs,
         IsFiniteSet(S), IsFiniteSet(T), S \cap T = {}
  PROVE  Total(S \cup T) = Total(S) + Total(T)
<1>1. Units(S \cup T) = Units(S) \cup Units(T) /\ Units(S) \cap Units(T) = {}
  BY DEF Units
<1>2. IsFiniteSet(Units(S)) /\ IsFiniteSet(Units(T))
  BY UnitsAreFinite
<1>3. Cardinality(Units(S)) \in Nat /\ Cardinality(Units(T)) \in Nat
  BY <1>2, FS_CardinalityType
<1>4. /\ Cardinality(Units(S) \cup Units(T))
           = Cardinality(Units(S)) + Cardinality(Units(T)) - Cardinality(Units(S) \cap Units(T))
      /\ Cardinality(Units(S) \cap Units(T)) = 0
  BY <1>1, <1>2, FS_Union, FS_EmptySet
<1> DEFINE u == Units(S)
           v == Units(T)
<1>5. Total(S \cup T) = Cardinality(u \cup v) /\ Total(S) = Cardinality(u) /\ Total(T) = Cardinality(v)
  BY <1>1 DEF Total
<1>6. Cardinality(u \cup v) = Cardinality(u) + Cardinality(v)
  BY <1>3, <1>4
<1> HIDE DEF u, v
<1> QED  BY <1>5, <1>6

\* A part, and what is left without it.
LEMMA TotalOfPart ==
  ASSUME NEW S \in SUBSET AllOutputs, IsFiniteSet(S), NEW T \in SUBSET S
  PROVE  /\ IsFiniteSet(T) /\ IsFiniteSet(S \ T)
         /\ Total(S) \in Nat /\ Total(T) \in Nat /\ Total(S \ T) \in Nat
         /\ Total(S) = Total(T) + Total(S \ T)
<1>1. IsFiniteSet(T) /\ IsFiniteSet(S \ T)
  BY FS_Subset
<1>2. T \in SUBSET AllOutputs /\ S \ T \in SUBSET AllOutputs /\ T \cap (S \ T) = {}
      /\ S = T \cup (S \ T)
  OBVIOUS
<1>3. Total(T \cup (S \ T)) = Total(T) + Total(S \ T)
  BY <1>1, <1>2, TotalOfBoth
<1> QED  BY <1>1, <1>2, <1>3, TotalType

(***************************************************************************)
(* The history.  The branch is visited from its end: what has been added   *)
(* up is always what is unspent in the end, less what was unspent before   *)
(* the transactions that were visited.                                     *)
(***************************************************************************)

\* What is visited after a position.
After(D, i) == {D[k] : k \in (i + 1)..Len(D)}

\* Each position of the visit is a place of a block, and what is visited after it is
\* what is before that place.
AtPlaces(D) ==
  \A i \in 1..Len(D) :
    \E c \in Block : \E j \in 1..Len(Txs[c]) : D[i] = Txs[c][j] /\ After(D, i) = Before(c, j)

LEMMA VisitPlacesStep ==
  ASSUME NEW b \in Block, b # Genesis => AtPlaces(Downwards[Prev[b]])
  PROVE  AtPlaces(Downwards[b])
<1> DEFINE R == Reverse(Txs[b])
           E == IF b = Genesis THEN <<>> ELSE Downwards[Prev[b]]
           D == Downwards[b]
           n == Len(Txs[b])
           m == Len(E)
<1>1. D = R \o E
  BY DownwardsStep
<1>2. n \in Nat /\ R \in Seq(Tx) /\ Len(R) = n /\ \A i \in 1..n : R[i] = Txs[b][n - i + 1]
  <2>1. n \in Nat /\ R \in Seq(Tx) /\ Len(R) = n
    BY TxTypes, BackwardsIsLaterFirst
  <2> QED  BY <2>1 DEF Reverse
<1>3. /\ E \in Seq(Tx) /\ m \in Nat /\ AtPlaces(E)
      /\ Older(b) = {E[k] : k \in 1..m}
  <2>1. CASE b = Genesis
    <3>1. E = <<>> /\ Len(<<>>) = 0 /\ 1..0 = {} /\ <<>> \in Seq(Tx) /\ Older(b) = {}
      BY <2>1 DEF Older
    <3> HIDE DEF E
    <3> QED  BY <3>1 DEF AtPlaces
  <2>2. CASE b # Genesis
    <3>1. E = Downwards[Prev[b]] /\ IsVisit(Prev[b]) /\ Older(b) = TxsOn(Prev[b]) /\ AtPlaces(E)
      BY <2>2, TreeFacts, DownwardsIsVisit DEF Older
    <3> HIDE DEF E
    <3>2. E \in Seq(Tx) /\ \A t : t \in Older(b) <=> \E i \in 1..m : t = E[i]
      BY <3>1 DEF IsVisit
    <3> QED  BY <3>1, <3>2
  <2> QED  BY <2>1, <2>2
<1> HIDE DEF R, E
<1>4. /\ D \in Seq(Tx) /\ Len(D) = n + m
      /\ \A i \in 1..(n + m) : D[i] = IF i <= n THEN R[i] ELSE E[i - n]
  <2>1. R \in Seq(Tx) /\ E \in Seq(Tx)
    BY <1>2, <1>3
  <2> HIDE DEF D
  <2>2. /\ R \o E \in Seq(Tx) /\ Len(R \o E) = Len(R) + Len(E)
        /\ \A i \in 1..Len(R) + Len(E) : (R \o E)[i] = IF i <= Len(R) THEN R[i] ELSE E[i - Len(R)]
    BY <2>1, ConcatProperties
  <2> QED  BY <1>1, <1>2, <2>2
<1>5. Txs[b] \in Seq(Tx) /\ n = Len(Txs[b])
  BY TxTypes
<1> HIDE DEF D, n, m
<1>6. /\ \A i \in 1..n : i \in 1..(n + m) /\ D[i] = Txs[b][n - i + 1]
      /\ \A i \in 1..m : n + i \in 1..(n + m) /\ D[n + i] = E[i]
      /\ \A i \in 1..(n + m) : i \in 1..n \/ (i - n \in 1..m /\ n + (i - n) = i)
  <2>1. \A i \in 1..n : i \in 1..(n + m) /\ i <= n
    BY <1>2, <1>3
  <2>2. \A i \in 1..m : n + i \in 1..(n + m) /\ ~(n + i <= n) /\ n + i - n = i
    BY <1>2, <1>3
  <2>3. \A i \in 1..(n + m) : i \in 1..n \/ (i - n \in 1..m /\ n + (i - n) = i)
    BY <1>2, <1>3
  <2>4. ASSUME NEW i \in 1..n  PROVE  D[i] = Txs[b][n - i + 1]
    BY <1>2, <1>4, <2>1
  <2>5. ASSUME NEW i \in 1..m  PROVE  D[n + i] = E[i]
    <3> DEFINE k == n + i
    <3>1. k \in 1..(n + m) /\ ~(k <= n) /\ k - n = i
      BY <1>2, <1>3
    <3> HIDE DEF k
    <3>2. D[k] = E[i]
      BY <1>4, <3>1
    <3> QED  BY <3>2 DEF k
  <2> QED  BY <2>1, <2>2, <2>3, <2>4, <2>5
<1>7. ASSUME NEW i \in 1..n
      PROVE  D[i] = Txs[b][n - i + 1] /\ After(D, i) = Before(b, n - i + 1) /\ n - i + 1 \in 1..n
  <2> DEFINE j == n - i + 1
  <2>1. j \in 1..n /\ D[i] = Txs[b][j] /\ j - 1 = n - i
    BY <1>2, <1>6
  <2>2. ASSUME NEW t \in After(D, i)  PROVE  t \in Before(b, j)
    <3>1. PICK k \in (i + 1)..(n + m) : t = D[k]
      BY <1>4 DEF After
    <3>2. k \in 1..(n + m)
      BY <1>2, <1>3
    <3>3. CASE k \in 1..n
      <4>1. n - k + 1 \in 1..(j - 1)
        BY <1>2, <3>1, <3>3
      <4>2. t = Txs[b][n - k + 1]
        BY <1>6, <3>1, <3>3
      <4> QED  BY <4>1, <4>2 DEF Before
    <3>4. CASE k - n \in 1..m /\ n + (k - n) = k
      <4>1. t = E[k - n]
        BY <1>6, <3>1, <3>4
      <4> QED  BY <1>3, <3>4, <4>1 DEF Before
    <3> QED  BY <1>6, <3>2, <3>3, <3>4
  <2>3. ASSUME NEW t \in Before(b, j)  PROVE  t \in After(D, i)
    <3>1. CASE t \in Older(b)
      <4>1. PICK k \in 1..m : t = E[k]
        BY <1>3, <3>1
      <4>2. n + k \in (i + 1)..(n + m)
        BY <1>2, <1>3, <4>1
      <4> QED  BY <1>4, <1>6, <4>1, <4>2 DEF After
    <3>2. CASE \E l \in 1..(j - 1) : t = Txs[b][l]
      <4>1. PICK l \in 1..(j - 1) : t = Txs[b][l]
        BY <3>2
      <4> DEFINE k == n - l + 1
      <4>2. k \in (i + 1)..(n + m) /\ k \in 1..n /\ n - k + 1 = l
        <5>1. l \in 1..(n - i)
          BY <2>1
        <5>2. l \in Int /\ 1 <= l /\ l <= n - i /\ i \in Int /\ 1 <= i /\ i <= n
          BY <1>2, <5>1
        <5>3. n - l + 1 \in Int /\ i + 1 <= n - l + 1 /\ n - l + 1 <= n /\ n <= n + m
          BY <1>2, <1>3, <5>2
        <5> QED  BY <1>2, <1>3, <5>2, <5>3
      <4> HIDE DEF k
      <4>3. D[k] = t
        BY <1>6, <4>1, <4>2
      <4> QED  BY <1>4, <4>2, <4>3 DEF After
    <3> QED  BY <3>1, <3>2 DEF Before
  <2> QED  BY <2>1, <2>2, <2>3
<1>8. ASSUME NEW i \in 1..m
      PROVE  D[n + i] = E[i] /\ After(D, n + i) = After(E, i)
  <2>1. \A k \in (i + 1)..m : k \in 1..m /\ n + k \in (n + i + 1)..(n + m)
    BY <1>2, <1>3
  <2>2. \A k \in (n + i + 1)..(n + m) : k - n \in (i + 1)..m /\ n + (k - n) = k
    BY <1>2, <1>3
  <2>3. After(D, n + i) = {D[k] : k \in (n + i + 1)..(n + m)} /\ After(E, i) = {E[k] : k \in (i + 1)..m}
    BY <1>4 DEF After, m
  <2>4. \A k \in (i + 1)..m : D[n + k] = E[k]
    BY <1>6, <2>1
  <2>5. \A k \in (n + i + 1)..(n + m) : D[k] = E[k - n]
    <3> SUFFICES ASSUME NEW k \in (n + i + 1)..(n + m)  PROVE  D[k] = E[k - n]
      OBVIOUS
    <3> DEFINE l == k - n
    <3>1. l \in (i + 1)..m /\ n + l = k
      BY <2>2
    <3> HIDE DEF l
    <3>2. D[n + l] = E[l]
      BY <2>4, <3>1
    <3> QED  BY <3>1, <3>2 DEF l
  <2>6. ASSUME NEW t \in After(D, n + i)  PROVE  t \in After(E, i)
    BY <2>2, <2>3, <2>5
  <2>7. ASSUME NEW t \in After(E, i)  PROVE  t \in After(D, n + i)
    BY <2>1, <2>3, <2>4
  <2> QED  BY <1>6, <2>6, <2>7
<1>9. ASSUME NEW i \in 1..Len(D)
      PROVE  \E c \in Block : \E j \in 1..Len(Txs[c]) : D[i] = Txs[c][j] /\ After(D, i) = Before(c, j)
  <2>1. CASE i \in 1..n
    BY <1>5, <1>7, <2>1
  <2>2. CASE i - n \in 1..m /\ n + (i - n) = i
    BY <1>3, <1>8, <2>2 DEF AtPlaces, m
  <2> QED  BY <1>4, <1>6, <2>1, <2>2
<1> QED  BY <1>9 DEF AtPlaces, D

LEMMA VisitHasPlaces ==
  ASSUME NEW b \in Block  PROVE  AtPlaces(Downwards[b])
<1> DEFINE G == {c \in Block : AtPlaces(Downwards[c])}
<1>1. Genesis \in G
  BY TreeFacts, VisitPlacesStep
<1>2. ASSUME NEW c \in Block \ {Genesis}, Prev[c] \in G  PROVE  c \in G
  BY <1>2, VisitPlacesStep
<1>3. Block \subseteq G
  <2> HIDE DEF G
  <2> QED  BY <1>1, <1>2, Walks!AlongTree, BlocksAreTree
<1> QED  BY <1>3

\* The outputs that are locked with a key.
Own(S, k) == {x \in S : Owner[x] = k}

LEMMA OutputsAre ==
  ASSUME NEW t \in Tx
  PROVE  /\ Outputs(t) \in SUBSET AllOutputs /\ IsFiniteSet(Outputs(t)) /\ IsFiniteSet(InsOf(t))
         /\ \A x \in Outputs(t) : x[1] = t
<1>1. IsFiniteSet(Outputs(t))
  <2> DEFINE S == Outs[t]
             f == [o \in S |-> <<t, o>>]
  <2>1. IsFiniteSet(S) /\ DOMAIN f = S /\ f = [o \in S |-> f[o]]
    BY Transfers
  <2>2. Outputs(t) = {f[o] : o \in S}
    BY DEF Outputs
  <2> HIDE DEF f, S
  <2> QED  BY <2>1, <2>2, ImageIsFinite
<1>2. IsFiniteSet(InsOf(t))
  <2> DEFINE one == 1
             n == Len(Ins[t])
             S == one..n
             f == Ins[t]
  <2>1. Ins[t] \in Seq(Tx \X Nat) /\ n \in Int /\ one \in Int /\ DOMAIN f = S /\ InsOf(t) = {f[i] : i \in S}
    BY TxTypes DEF InsOf
  <2>2. f = [i \in S |-> f[i]]
    BY <2>1
  <2> HIDE DEF one, n
  <2>3. IsFiniteSet(S)
    BY <2>1, FS_Interval
  <2> HIDE DEF f, S
  <2> QED  BY <2>1, <2>2, <2>3, ImageIsFinite
<1> QED  BY <1>1, <1>2 DEF AllOutputs, Outputs

\* Finitely many transactions have finitely many outputs and inputs.
LEMMA OutputsAreFinite ==
  ASSUME NEW T \in SUBSET Tx, IsFiniteSet(T)
  PROVE  /\ IsFiniteSet(UNION {Outputs(t) : t \in T}) /\ UNION {Outputs(t) : t \in T} \subseteq AllOutputs
         /\ IsFiniteSet(Unspent(T)) /\ Unspent(T) \subseteq AllOutputs
         /\ IsFiniteSet(SpentBy(T))
<1>1. IsFiniteSet(UNION {Outputs(t) : t \in T})
  <2> DEFINE f == [t \in T |-> Outputs(t)]
             S == {f[t] : t \in T}
  <2>1. DOMAIN f = T /\ f = [t \in T |-> f[t]] /\ S = {Outputs(t) : t \in T}
    OBVIOUS
  <2>2. \A U \in S : IsFiniteSet(U)
    BY OutputsAre
  <2>3. IsFiniteSet(S)
    <3> HIDE DEF f
    <3> QED  BY <2>1, ImageIsFinite
  <2> HIDE DEF S
  <2> QED  BY <2>1, <2>2, <2>3, FS_UNION
<1>2. IsFiniteSet(SpentBy(T))
  <2> DEFINE f == [t \in T |-> InsOf(t)]
             S == {f[t] : t \in T}
  <2>1. DOMAIN f = T /\ f = [t \in T |-> f[t]] /\ S = {InsOf(t) : t \in T}
    OBVIOUS
  <2>2. \A U \in S : IsFiniteSet(U)
    BY OutputsAre
  <2>3. IsFiniteSet(S)
    <3> HIDE DEF f
    <3> QED  BY <2>1, ImageIsFinite
  <2> HIDE DEF S
  <2> QED  BY <2>1, <2>2, <2>3, FS_UNION DEF SpentBy
<1>3. UNION {Outputs(t) : t \in T} \subseteq AllOutputs
  BY OutputsAre
<1>4. Unspent(T) \in SUBSET (UNION {Outputs(t) : t \in T})
  BY DEF Unspent
<1> QED  BY <1>1, <1>2, <1>3, <1>4, FS_Subset

\* A part of an address is a part.
LEMMA TotalOfOwn ==
  ASSUME NEW S \in SUBSET AllOutputs, IsFiniteSet(S), NEW k
  PROVE  /\ Own(S, k) \in SUBSET AllOutputs /\ IsFiniteSet(Own(S, k)) /\ Total(Own(S, k)) \in Nat
<1>1. Own(S, k) \in SUBSET S /\ Own(S, k) \in SUBSET AllOutputs
  BY DEF Own
<1> QED  BY <1>1, TotalOfPart

\* What a transaction adds to the history of an address: what it locks with the key,
\* less what it spends of what was locked with it.
LEMMA HistoryOfIs ==
  ASSUME NEW t \in Tx, InsOf(t) \subseteq AllOutputs, NEW k
  PROVE  HistoryOf(t, k) = Total(Own(Outputs(t), k)) - Total(Own(InsOf(t), k))
<1> DEFINE made == Outputs(t)
           own  == Own(made, k)
           paid == InsOf(t)
<1>1. /\ made \in SUBSET AllOutputs /\ IsFiniteSet(made) /\ own \in SUBSET made
      /\ IsFiniteSet(paid) /\ paid \in SUBSET AllOutputs
  BY OutputsAre DEF Own
<1>2. HistoryOf(t, k) = IF CreatedBy(t, k) THEN -Total(made \ own) ELSE Total(own)
  BY DEF HistoryOf, Own
<1>3. /\ Total(made) \in Nat /\ Total(own) \in Nat /\ Total(made \ own) \in Nat
      /\ Total(made) = Total(own) + Total(made \ own)
  <2> HIDE DEF made, own
  <2> QED  BY <1>1, TotalOfPart
<1>4. CASE CreatedBy(t, k)
  <2>1. t \notin Coinbase
    <3> SUFFICES ASSUME t \in Coinbase  PROVE  FALSE
      OBVIOUS
    <3>1. Ins[t] = <<>>
      BY Transfers
    <3>2. InsOf(t) = {}
      BY <3>1 DEF InsOf
    <3> QED  BY <1>4, <3>2 DEF CreatedBy
  <2>2. Own(paid, k) = paid
    BY <1>4 DEF CreatedBy, Own
  <2>3. Total(paid) = Total(made)
    BY <2>1, Transfers
  <2> HIDE DEF made, own, paid
  <2> QED  BY <1>2, <1>3, <1>4, <2>2, <2>3 DEF made, own, paid
<1>5. CASE ~CreatedBy(t, k)
  <2>1. Own(paid, k) = {}
    <3> SUFFICES ASSUME NEW x \in InsOf(t), Owner[x] = k  PROVE  FALSE
      BY DEF Own
    <3>1. t \notin Coinbase
      BY Transfers DEF InsOf
    <3>2. PICK l \in Key : CreatedBy(t, l)
      BY <3>1, Transfers
    <3>3. l = k
      BY <3>2 DEF CreatedBy
    <3> QED  BY <1>5, <3>2, <3>3
  <2> HIDE DEF made, own, paid
  <2> QED  BY <1>2, <1>3, <1>5, <2>1, TotalOfNone DEF made, own, paid
<1> QED  BY <1>4, <1>5

\* One more transaction after those it takes its inputs from.
LEMMA OneMoreTx ==
  ASSUME NEW T \in SUBSET Tx, IsFiniteSet(T), HoldsInputs(T), NEW t \in Tx, t \notin T,
         \A x \in InsOf(t) : /\ x[1] \in T /\ x \in Outputs(x[1])
                             /\ \A d \in T : x \notin InsOf(d),
         NEW k
  PROVE  Total(Own(Unspent(T \cup {t}), k)) = Total(Own(Unspent(T), k)) + HistoryOf(t, k)
<1> DEFINE U == Own(Unspent(T), k)
           paid == Own(InsOf(t), k)
           made == Own(Outputs(t), k)
           next == Own(Unspent(T \cup {t}), k)
<1>1. InsOf(t) \subseteq Unspent(T) /\ InsOf(t) \subseteq AllOutputs
  <2>1. InsOf(t) \subseteq Unspent(T)
    BY DEF Unspent
  <2> QED  BY <2>1, OutputsAreFinite
<1>2. \A x \in Outputs(t) : x \notin InsOf(t) /\ x \notin Unspent(T) /\ \A d \in T : x \notin InsOf(d)
  <2> SUFFICES ASSUME NEW x \in Outputs(t)
               PROVE  x \notin InsOf(t) /\ x \notin Unspent(T) /\ \A d \in T : x \notin InsOf(d)
    OBVIOUS
  <2>1. x[1] = t
    BY OutputsAre
  <2>2. x \notin InsOf(t) /\ \A d \in T : x \notin InsOf(d)
    BY <2>1 DEF HoldsInputs
  <2>3. \A d \in T : x \notin Outputs(d)
    BY <2>1, OutputsAre
  <2> QED  BY <2>2, <2>3 DEF Unspent
<1>3. Unspent(T \cup {t}) = (Unspent(T) \ InsOf(t)) \cup Outputs(t)
  <2>1. \A x : x \in Unspent(T \cup {t}) <=>
                 /\ x \in Outputs(t) \/ \E d \in T : x \in Outputs(d)
                 /\ x \notin InsOf(t) /\ \A d \in T : x \notin InsOf(d)
    BY DEF Unspent
  <2>2. \A x : x \in Unspent(T) <=> (\E d \in T : x \in Outputs(d)) /\ \A d \in T : x \notin InsOf(d)
    BY DEF Unspent
  <2> QED  BY <1>2, <2>1, <2>2
<1>4. next = (U \ paid) \cup made /\ paid \in SUBSET U /\ (U \ paid) \cap made = {}
  BY <1>1, <1>2, <1>3 DEF Own
<1>5. /\ U \in SUBSET AllOutputs /\ IsFiniteSet(U)
      /\ made \in SUBSET AllOutputs /\ IsFiniteSet(made) /\ Total(made) \in Nat
  BY OutputsAreFinite, OutputsAre, TotalOfOwn
<1>6. HistoryOf(t, k) = Total(made) - Total(paid)
  BY <1>1, HistoryOfIs
<1> HIDE DEF U, paid, made, next
<1>7. /\ IsFiniteSet(U \ paid) /\ Total(U) \in Nat /\ Total(paid) \in Nat /\ Total(U \ paid) \in Nat
      /\ Total(U) = Total(paid) + Total(U \ paid)
  BY <1>4, <1>5, TotalOfPart
<1> DEFINE rest == U \ paid
<1>8. rest \in SUBSET AllOutputs /\ rest \cap made = {} /\ next = rest \cup made /\ IsFiniteSet(rest)
  BY <1>4, <1>5, <1>7
<1>9. Total(next) = Total(rest) + Total(made)
  <2> HIDE DEF rest
  <2> QED  BY <1>5, <1>8, TotalOfBoth
<1>10. Total(next) = Total(U) + HistoryOf(t, k)
  BY <1>5, <1>6, <1>7, <1>9
<1> QED  BY <1>10 DEF U, next

SumOp(k, v, t) == v + HistoryOf(t, k)
Sums == INSTANCE Folding WITH Op <- SumOp

\* A part of what is visited, from a position on, is finite.
LEMMA AfterIsFinite ==
  ASSUME NEW D \in Seq(Tx), NEW i \in Nat
  PROVE  After(D, i) \in SUBSET Tx /\ IsFiniteSet(After(D, i))
<1> DEFINE a == i + 1
           n == Len(D)
           S == a..n
           f == [k \in S |-> D[k]]
<1>1. /\ a \in Int /\ n \in Int /\ After(D, i) = {f[k] : k \in S} /\ DOMAIN f = S
      /\ f = [k \in S |-> f[k]] /\ \A k \in S : D[k] \in Tx
  BY DEF After
<1>2. IsFiniteSet(S)
  <2> HIDE DEF a, n
  <2> QED  BY <1>1, FS_Interval
<1>3. After(D, i) \subseteq Tx
  BY <1>1
<1> HIDE DEF f, S
<1> QED  BY <1>1, <1>2, <1>3, ImageIsFinite

\* The whole visit adds up to what is unspent on the branch.
LEMMA HistoryAddsUp ==
  ASSUME NEW b \in Block, NEW k
  PROVE  FoldLeft(LAMBDA sum, t : sum + HistoryOf(t, k), 0, Downwards[b])
           = Total(Own(UnspentOn(b), k))
<1> DEFINE D == Downwards[b]
           m == Len(D)
           zero == 0
           Rest(i) == Total(Own(Unspent(After(D, i)), k))
           F == [i \in 0..m |-> {v \in Int : v + Rest(i) = Rest(0)}]
<1>1. /\ D \in Seq(Tx) /\ m \in Nat /\ AtPlaces(D)
      /\ \A t : t \in TxsOn(b) <=> \E i \in 1..m : t = D[i]
  <2>1. IsVisit(b) /\ AtPlaces(D)
    BY DownwardsIsVisit, VisitHasPlaces
  <2> QED  BY <2>1, LenProperties DEF IsVisit
<1> HIDE DEF D
<1>2. ASSUME NEW i \in 0..m
      PROVE  /\ After(D, i) \in SUBSET Tx /\ IsFiniteSet(After(D, i))
             /\ Rest(i) \in Nat
  <2>1. i \in Nat
    BY <1>1
  <2>2. After(D, i) \in SUBSET Tx /\ IsFiniteSet(After(D, i))
    BY <1>1, <2>1, AfterIsFinite
  <2> DEFINE T == After(D, i)
  <2> HIDE DEF T
  <2>3. T \in SUBSET Tx /\ IsFiniteSet(T)
    BY <2>2 DEF T
  <2>4. Total(Own(Unspent(T), k)) \in Nat
    BY <2>3, OutputsAreFinite, TotalOfOwn
  <2> QED  BY <2>2, <2>4 DEF T
<1>3. ASSUME NEW i \in 1..m  PROVE  Rest(i - 1) = Rest(i) + HistoryOf(D[i], k)
  <2> DEFINE T == After(D, i)
             t == D[i]
  <2>1. PICK c \in Block : \E j \in 1..Len(Txs[c]) : D[i] = Txs[c][j] /\ After(D, i) = Before(c, j)
    BY <1>1 DEF AtPlaces
  <2>2. PICK j \in 1..Len(Txs[c]) : t = Txs[c][j] /\ T = Before(c, j)
    BY <2>1
  <2>3. j \in 1..(Len(Txs[c]) + 1) /\ t \in Tx
    BY <2>2, TxTypes
  <2>4. HoldsInputs(T)
    BY <2>2, <2>3, BranchHoldsInputs
  <2>5. /\ t \notin T
        /\ \A x \in InsOf(t) : x[1] \in T /\ x \in Outputs(x[1]) /\ \A d \in T : x \notin InsOf(d)
    BY <2>2, AtItsPlace
  <2>6. After(D, i - 1) = T \cup {t}
    <3>1. i - 1 + 1 = i /\ \A l : l \in i..m <=> l \in (i + 1)..m \/ l = i
      BY <1>1
    <3> QED  BY <3>1 DEF After
  <2>7. T \in SUBSET Tx /\ IsFiniteSet(T)
    <3>1. i \in 0..m
      BY <1>1
    <3> QED  BY <1>2, <3>1
  <2> HIDE DEF T, t
  <2>8. Total(Own(Unspent(T \cup {t}), k)) = Total(Own(Unspent(T), k)) + HistoryOf(t, k)
    BY <2>3, <2>4, <2>5, <2>7, OneMoreTx
  <2> QED  BY <2>6, <2>8 DEF T, t
<1>4. Rest(m) = 0 /\ Rest(0) = Total(Own(UnspentOn(b), k))
  <2>1. After(D, m) = {}
    <3>1. (m + 1)..m = {}
      BY <1>1
    <3> QED  BY <3>1 DEF After
  <2>2. Own(Unspent(After(D, m)), k) = {}
    BY <2>1 DEF Own, Unspent
  <2>3. After(D, 0) = TxsOn(b)
    <3>1. After(D, 0) = {D[i] : i \in 1..m}
      BY DEF After
    <3> QED  BY <1>1, <3>1
  <2>4. Unspent(TxsOn(b)) = UnspentOn(b)
    BY DEF Unspent, UnspentOn
  <2> QED  BY <2>2, <2>3, <2>4, TotalOfNone
<1>5. /\ \A i \in 1..m : i - 1 \in 0..m /\ i \in 0..m
      /\ 0 \in 0..m /\ m \in 0..m
  BY <1>1
<1>6. \A i \in 0..m : F[i] = {v \in Int : v + Rest(i) = Rest(0)}
  OBVIOUS
<1> HIDE DEF F, Rest
<1>7. \A i \in 0..m : Rest(i) \in Nat
  BY <1>2
<1>8. zero \in F[0]
  BY <1>5, <1>6, <1>7
<1>9. ASSUME NEW i \in 1..m, NEW v \in F[i - 1]  PROVE  SumOp(k, v, D[i]) \in F[i]
  <2>1. v \in Int /\ v + Rest(i - 1) = Rest(0) /\ Rest(i) \in Nat /\ Rest(i - 1) \in Nat /\ Rest(0) \in Nat
    BY <1>5, <1>6, <1>7
  <2>2. HistoryOf(D[i], k) = Rest(i - 1) - Rest(i)
    <3> DEFINE h == HistoryOf(D[i], k)
    <3>1. h \in Int
      <4>1. D[i] \in Tx /\ D[i] \in TxsOn(b)
        BY <1>1
      <4>2. InsOf(D[i]) \subseteq AllOutputs
        <5>1. \A x \in InsOf(D[i]) : x[1] \in Tx /\ x \in Outputs(x[1])
          BY <4>1, BranchHoldsInputs, TxsOnBelow, BranchFacts DEF HoldsInputs
        <5> QED  BY <5>1, OutputsAre
      <4> DEFINE t == D[i]
      <4> HIDE DEF t
      <4>3. Total(Own(Outputs(t), k)) \in Nat /\ Total(Own(InsOf(t), k)) \in Nat
        BY <4>1, <4>2, OutputsAre, TotalOfOwn DEF t
      <4>4. HistoryOf(t, k) = Total(Own(Outputs(t), k)) - Total(Own(InsOf(t), k))
        BY <4>1, <4>2, HistoryOfIs DEF t
      <4> QED  BY <4>3, <4>4 DEF t
    <3>2. Rest(i - 1) = Rest(i) + h
      BY <1>3
    <3> HIDE DEF h
    <3> QED  BY <2>1, <3>1, <3>2 DEF h
  <2>3. v + HistoryOf(D[i], k) \in Int /\ (v + HistoryOf(D[i], k)) + Rest(i) = Rest(0)
    BY <2>1, <2>2
  <2> QED  BY <1>5, <1>6, <2>3 DEF SumOp
<1>10. Sums!Fold(k, zero, D) \in F[m]
  <2> HIDE DEF zero, m
  <2> QED  BY <1>1, <1>8, <1>9, Sums!FoldReaches DEF m
<1>11. FoldLeft(LAMBDA sum, t : sum + HistoryOf(t, k), 0, D) = Sums!Fold(k, zero, D)
  BY DEF SumOp, Sums!Fold, FoldLeft, MapThenFoldSet, Max, Sums!LastOf
<1>12. Sums!Fold(k, zero, D) = Rest(0)
  <2> DEFINE v == Sums!Fold(k, zero, D)
  <2>1. v \in Int /\ v + Rest(m) = Rest(0)
    <3> HIDE DEF v
    <3> QED  BY <1>5, <1>6, <1>10 DEF v
  <2> HIDE DEF v
  <2>2. v = Rest(0)
    BY <1>4, <1>5, <1>7, <2>1
  <2> QED  BY <2>2 DEF v
<1> QED  BY <1>4, <1>11, <1>12 DEF D

(***************************************************************************)
(* The unspent outputs of a node with a pool.  As long as no block was     *)
(* dropped and no exchange of branches was cut short, they are those of    *)
(* the primary branch.                                                     *)
(***************************************************************************)

UnspentFollows == drops = 0 /\ ~CutShort => UnspentIsPrimaryBranch
MoneyInv == PoolInv /\ UnspentFollows

\* No mark is taken back by a step that leaves the blocks alone.
LEMMA MarksStay ==
  ASSUME PoolInv, NextPayments, UNCHANGED vars  PROVE  torn \subseteq torn'
<1>1. /\ PoolGood(Derived, Current, asked, ran, Mixed) /\ Current \in PoolState
      /\ Current.torn = torn /\ Mixed \in BOOLEAN
      /\ torn # Row => Knows(Derived, stored, Mixed)
      /\ ran \in BOOLEAN /\ asked \in (Held \cap SQL) \cup {NoTx} /\ (ran => asked # NoTx)
  BY PoolFacts DEF PoolGood
<1> DEFINE n == Derived
           l == Loaded(Current)
           r == Renewed(Current)
           dropped == Mixed
<1>2. /\ l \in PoolState /\ l.torn = torn /\ (l.touched \/ Fresh(l))
      /\ r \in PoolState /\ r.torn = torn
  <2>1. PoolGood(n, l, asked, ran, dropped) /\ l \in PoolState /\ l.torn = torn
    BY <1>1, LoadedIsGood, LoadedIs
  <2>2. r \in PoolState /\ r.torn = torn
    BY <1>1, RenewedIs
  <2> HIDE DEF l, r, n, dropped
  <2> QED  BY <2>1, <2>2 DEF PoolGood
<1>3. ASSUME NEW p \in PoolState, p.torn = torn, NEW t \in Held
      PROVE  /\ torn \subseteq Spoil(p, t).torn /\ torn \subseteq Kept(p, t).torn
             /\ Kept(p, t) \in PoolState
  <2>1. torn \subseteq Spoil(p, t).torn /\ Spoil(p, t) \in PoolState
    BY <1>3, HeldTypes, SpoilIsAlike DEF Alike
  <2>2. Put(p, t).torn = p.torn /\ Put(p, t) \in PoolState
    BY DEF Put, PoolState
  <2> QED  BY <1>3, <2>1, <2>2 DEF Kept
<1> HIDE DEF n, l, r, dropped
<1>4. ASSUME NEW t \in Held, NEW p \in Added(n, l, t), Becomes(p)  PROVE  torn \subseteq torn'
  <2>1. p \in Grows(n, l, dropped)
    BY <1>1, <1>2, <1>4, AddedGrows DEF n, dropped
  <2> QED  BY <1>2, <1>4, <2>1 DEF Becomes, Grows
<1>5. ASSUME NEW t \in Held, Receive(t) \/ Resubmit(t)  PROVE  torn \subseteq torn'
  BY <1>4, <1>5 DEF Receive, Resubmit, n, l
<1>6. ASSUME NEW t \in Held, ProxyAsk(t)  PROVE  torn \subseteq torn'
  BY <1>2, <1>6 DEF ProxyAsk, Becomes, l
<1>7. CASE ProxyRun
  <2> DEFINE u == IF TooLate(asked) THEN Spoil(Current, asked) ELSE Current
  <2>1. asked \in Tx
    BY <1>1, <1>7, HeldTypes DEF ProxyRun
  <2>2. u \in Alike(Current) /\ u \in PoolState
    <3>1. Spoil(Current, asked) \in Alike(Current) /\ Current \in Alike(Current)
      BY <1>1, <2>1, SpoilIsAlike DEF Alike
    <3> QED  BY <1>1, <3>1 DEF Alike
  <2>3. torn' = Run(u, asked).torn
    BY <1>7 DEF ProxyRun, Becomes
  <2> HIDE DEF u
  <2>4. Run(u, asked) \in Alike(u)
    BY <2>1, <2>2, RunIsAlike
  <2> QED  BY <1>1, <2>2, <2>3, <2>4 DEF Alike
<1>8. CASE ProxyFails
  BY <1>8 DEF ProxyFails
<1>9. CASE ProxyAnswer
  <2>1. asked \in Held
    BY <1>1, <1>9 DEF ProxyAnswer
  <2>2. torn' \in {Kept(l, asked).torn, Spoil(l, asked).torn}
    BY <1>9 DEF ProxyAnswer, Becomes, l
  <2> QED  BY <1>2, <1>3, <2>1, <2>2
<1>10. CASE PrepareBlock
  <2>1. PICK S : Becomes(Selected(n, l, S).p)
    BY <1>10 DEF PrepareBlock, n, l
  <2>2. Selected(n, l, S).p \in Less(l, TxsOn(n.top))
    BY <1>2, SelectedTakes
  <2> QED  BY <1>2, <2>1, <2>2 DEF Less, Becomes
<1>11. CASE OperatorClean
  BY <1>1, <1>11 DEF OperatorClean, ByCommand, Becomes, PoolState
<1>12. ASSUME NEW c \in PoolState, torn \subseteq c.torn, ByCommand(c)  PROVE  torn \subseteq torn'
  BY <1>12 DEF ByCommand, Becomes, PoolState
<1>13. ASSUME NEW t \in Held, OperatorCancel(t)  PROVE  torn \subseteq torn'
  <2>1. Cancel(r, t) \in Less(r, TxsOn(n.top)) /\ ByCommand(Cancel(r, t))
    BY <1>2, <1>13, CancelTakes DEF OperatorCancel, r
  <2> QED  BY <1>2, <1>12, <2>1 DEF Less
<1>14. ASSUME NEW t \in Held, Send(t)  PROVE  torn \subseteq torn'
  <2>1. ByCommand(Kept(r, t))
    BY <1>14 DEF Send, r
  <2> QED  BY <1>2, <1>3, <1>12, <2>1
<1>15. CASE Restart
  <2>1. ran => asked \in Tx
    BY <1>1, HeldTypes
  <2> DEFINE p == IF ran THEN Spoil(Current, asked) ELSE Current
  <2>2. p \in PoolState /\ torn \subseteq p.torn
    BY <1>1, <1>3, <2>1, SpoilIsAlike DEF Alike
  <2>3. torn' = Gone(p).torn
    BY <1>15 DEF Restart, Becomes
  <2> HIDE DEF p
  <2>4. Gone(p).torn = p.torn
    BY <2>2 DEF Gone, PoolState
  <2> QED  BY <2>2, <2>3, <2>4
<1>16. ASSUME NEW b \in Block, BlockToTop(b) \/ BlockToParallel(b) \/ Switch(b) \/ SwitchAborts(b) \/ Panic(b)
       PROVE  FALSE
  <2>1. Store(b)
    BY <1>16 DEF BlockToTop, BlockToParallel, Switch, SwitchAborts, Panic, AddToTop, AddToParallel,
                 SwitchBranch, PanicOverGenesis
  <2> QED  BY <2>1 DEF Store, vars
<1>17. CASE OperatorDrop
  <2>1. drops' = drops + 1 /\ drops \in Nat /\ drops' = drops
    BY <1>17, PoolFacts, Bounds DEF OperatorDrop, DropBlock, LedgerInv, TypeOK, vars
  <2> QED  BY <2>1
<1>18. ASSUME NEW t \in Held, AddVerify(t) \/ AddTest(t) \/ AddRefused(t)  PROVE  torn \subseteq torn'
  <2>1. torn' = l.torn
    BY <1>18 DEF AddVerify, AddTest, AddRefused, Becomes, l
  <2> QED  BY <1>2, <2>1
<1>19. ASSUME NEW t \in Held, AddRun(t)  PROVE  torn \subseteq torn'
  <2> DEFINE u == Spoil(Current, t)
  <2>1. /\ torn' = Run(u, t).torn /\ t \in Tx
    BY <1>19, HeldTypes DEF AddRun, Becomes
  <2>2. torn \subseteq u.torn /\ u \in PoolState
    BY <1>1, HeldTypes, SpoilIsAlike DEF Alike
  <2> HIDE DEF u
  <2>3. u.torn \subseteq Run(u, t).torn
    BY <2>1, <2>2, RunIsAlike DEF Alike
  <2> QED  BY <2>1, <2>2, <2>3
<1>20. ASSUME NEW t \in Held, AddFails(t)  PROVE  torn \subseteq torn'
  BY <1>20 DEF AddFails
<1>21. ASSUME NEW t \in Held, AddPut(t)  PROVE  torn \subseteq torn'
  <2> DEFINE u == Spoil(Current, t)
  <2>1. torn \subseteq u.torn /\ u \in PoolState
    BY <1>1, HeldTypes, SpoilIsAlike DEF Alike
  <2>2. torn' = Put(u, t).torn
    BY <1>21 DEF AddPut, Becomes
  <2> HIDE DEF u
  <2>3. Put(u, t).torn = u.torn
    BY <2>1 DEF Put, PoolState
  <2> QED  BY <2>1, <2>2, <2>3
<1>22. CASE ProxyVerify
  <2>1. torn' = Spoil(l, asked).torn /\ asked \in Held
    BY <1>1, <1>22 DEF ProxyVerify, Becomes, l
  <2> QED  BY <1>2, <1>3, <2>1
<1> QED
  BY <1>5, <1>6, <1>7, <1>8, <1>9, <1>10, <1>11, <1>13, <1>14, <1>15, <1>16, <1>17, <1>18, <1>19,
     <1>20, <1>21, <1>22
     DEF NextPayments, NextPool, Held

LEMMA UnspentStays ==
  ASSUME MoneyInv, UNCHANGED vars, torn \subseteq torn'  PROVE  UnspentFollows'
BY DEF MoneyInv, UnspentFollows, CutShort, UnspentIsPrimaryBranch, vars

\* Every row is marked.
LEMMA AllIsTorn ==
  ASSUME NEW p \in PoolState, Becomes(TearAll(p))  PROVE  UnspentFollows'
<1>1. torn' = Row
  BY DEF Becomes, TearAll, PoolState
<1> QED  BY <1>1, HeldTypes DEF UnspentFollows, CutShort

\* What the exchange of two branches makes of the marks.
LEMMA SwitchMarks ==
  ASSUME PoolInv, NEW b \in Block, Switch(b)  PROVE  torn \subseteq torn'
<1> DEFINE n == Derived'
           p == Current
           dropped == Mixed'
           old == OldBlocks(top, b)
           new == NewBlocks(top, b)
           P == PutOnAll(TakenOff(p, old), new)
<1>1. /\ PoolGood(Derived, p, asked, ran, Mixed) /\ p \in PoolState /\ p.torn = torn
      /\ dropped \in BOOLEAN /\ LedgerInv
  <2>1. dropped \in BOOLEAN
    BY DEF Mixed
  <2> QED  BY <2>1, PoolFacts
<1>2. PICK r \in Repeated(n, P, old) : Becomes(IF new = <<>> THEN TearAll(r) ELSE TearForgotten(n, r))
  BY DEF Switch
<1>3. /\ old \in Seq(Block \ {Genesis}) /\ new \in Seq(Block)
      /\ top \in Branch(b) => new = <<>>
      /\ top \notin Branch(b) => Len(new) \in Nat \ {0}
  BY <1>1, ExchangeIs DEF Switch, SwitchBranch
<1>4. torn \subseteq Row
  BY <1>1 DEF PoolState
<1>5. CASE top \in Branch(b)
  <2>1. new = <<>>
    BY <1>3, <1>5
  <2> HIDE DEF new
  <2>2. torn' = TearAll(r).torn
    BY <1>2, <2>1 DEF Becomes
  <2> QED  BY <1>2, <1>4, <2>1 DEF TearAll, Becomes
<1>6. CASE top \notin Branch(b)
  <2>1. Len(new) # 0 /\ new # <<>>
    BY <1>3, <1>6
  <2>2. ASSUME NEW x \in P
        PROVE  /\ x \in PoolState /\ Fresh(x) /\ torn \subseteq x.torn
               /\ x.torn # Row => Knows(n, stored', dropped)
    BY <1>6, ExchangeLeads
  <2> HIDE DEF n, dropped, old, new, P
  <2>3. PICK x \in P : r \in Grows(n, x, dropped)
    BY <1>1, <1>3, <2>2, RepeatedGrows
  <2>4. r \in PoolState /\ torn \subseteq r.torn
    BY <2>2, <2>3 DEF Grows
  <2>5. torn' = r.torn \cup Forgotten(n)
    BY <1>2, <2>1, <2>4 DEF Becomes, TearForgotten, PoolState
  <2> QED  BY <2>4, <2>5
<1> QED  BY <1>5, <1>6

LEMMA MoneyStep ==
  ASSUME OlderInputsFirst, MoneyInv, [NextPayments]_allVars  PROVE  MoneyInv'
<1>1. PoolInv' /\ PoolInv
  BY PoolStep DEF MoneyInv
<1>2. LedgerInv /\ Current \in PoolState /\ Current.torn = torn
  BY <1>1, PoolFacts
<1>3. CASE UNCHANGED vars
  <2>1. torn \subseteq torn'
    BY <1>1, <1>3, MarksStay DEF allVars, poolVars
  <2> QED  BY <1>1, <1>3, <2>1, UnspentStays DEF MoneyInv
<1>4. ASSUME NEW b \in Block, BlockToTop(b)  PROVE  UnspentFollows'
  <2>1. PICK q \in PutOn(Current, b) : Becomes(q)
    BY <1>4 DEF BlockToTop
  <2>2. AddToTop(b)
    BY <1>4 DEF BlockToTop
  <2>3. b \in Block \ {Genesis} /\ drops' = drops
    BY <1>2, <2>2, StoreIsRight DEF AddToTop
  <2>4. torn \subseteq torn'
    <3>1. TxsOf(b) \subseteq TxsOn(b)
      BY TxsOnStep
    <3>2. q \in PutWith(Current, Signed(b), TxsOn(b))
      BY <1>2, <2>1, <2>3, <3>1, PutOnIs
    <3> QED  BY <1>2, <2>1, <3>2 DEF PutWith, Becomes
  <2>5. UnspentIsPrimaryBranch => UnspentIsPrimaryBranch'
    BY <1>2, <2>2, UnspentAddToTop DEF UnspentInv
  <2> QED  BY <2>3, <2>4, <2>5 DEF MoneyInv, UnspentFollows, CutShort
<1>5. ASSUME NEW b \in Block, BlockToParallel(b)  PROVE  UnspentFollows'
  BY <1>5 DEF BlockToParallel, AddToParallel, poolVars, MoneyInv, UnspentFollows, CutShort,
              UnspentIsPrimaryBranch
<1>6. ASSUME NEW b \in Block, Switch(b)  PROVE  UnspentFollows'
  <2>1. SwitchBranch(b) /\ drops' = drops
    BY <1>6 DEF Switch, SwitchBranch
  <2>2. torn \subseteq torn'
    BY <1>1, <1>6, SwitchMarks
  <2>3. UnspentIsPrimaryBranch => UnspentIsPrimaryBranch'
    BY <1>2, <2>1, UnspentSwitchBranch DEF UnspentInv
  <2> QED  BY <2>1, <2>2, <2>3 DEF MoneyInv, UnspentFollows, CutShort
<1>7. ASSUME NEW b \in Block, SwitchAborts(b)  PROVE  UnspentFollows'
  <2> DEFINE old == OldBlocks(top, b)
  <2>1. Store(b) /\ Overtakes(b) /\ ~SideBranchFails(top, b)
    BY <1>7 DEF SwitchAborts
  <2>2. old \in Seq(Block \ {Genesis})
    BY <1>2, <2>1, ExchangeIs
  <2>3. PICK k \in DOMAIN old : Becomes(TearAll(TakenOff(Current, SubSeq(old, 1, k))))
    BY <1>7 DEF SwitchAborts
  <2> HIDE DEF old
  <2>4. SubSeq(old, 1, k) \in Seq(Block \ {Genesis})
    BY <2>2, <2>3, BeginningIsList
  <2>5. TakenOff(Current, SubSeq(old, 1, k)) \in PoolState
    BY <1>2, <2>4, TakenOffIs DEF TakenWith, Alike
  <2> QED  BY <2>3, <2>5, AllIsTorn
<1>8. ASSUME NEW b \in Block, Panic(b)  PROVE  UnspentFollows'
  <2>1. Becomes(TearAll(Gone(Current))) /\ Gone(Current) \in PoolState
    BY <1>2, <1>8 DEF Panic, Gone, PoolState
  <2> QED  BY <2>1, AllIsTorn
<1>9. CASE OperatorDrop
  <2>1. drops' = drops + 1 /\ drops \in Nat
    BY <1>2, <1>9, Bounds DEF OperatorDrop, DropBlock, LedgerInv, TypeOK
  <2>2. drops' # 0
    BY <2>1
  <2> QED  BY <1>1, <2>2 DEF MoneyInv, UnspentFollows
<1>10. \/ UNCHANGED vars \/ OperatorDrop
       \/ \E b \in Block : BlockToTop(b) \/ BlockToParallel(b) \/ Switch(b) \/ SwitchAborts(b) \/ Panic(b)
  BY DEF NextPayments, NextPool, Receive, Resubmit, ProxyAsk, OperatorCancel, ProxyRun, ProxyFails,
         ProxyAnswer, ProxyVerify, AddVerify, AddRun, AddFails, AddTest, AddRefused, AddPut,
         PrepareBlock, OperatorClean, Restart, Send, allVars
<1>11. UnspentFollows'
  BY <1>3, <1>4, <1>5, <1>6, <1>7, <1>8, <1>9, <1>10 DEF MoneyInv
<1> QED  BY <1>1, <1>11 DEF MoneyInv

LEMMA MoneyInit == InitPool => MoneyInv
<1>1. Init => UnspentIsPrimaryBranch
  BY UnspentInit DEF UnspentInv
<1> QED  BY <1>1, PoolInit DEF InitPool, MoneyInv, UnspentFollows

THEOREM MoneyInvHolds ==
  ASSUME OlderInputsFirst  PROVE  SpecPayments => []MoneyInv
<1>1. MoneyInv /\ [NextPayments]_allVars => MoneyInv'
  BY MoneyStep
<1> QED  BY <1>1, MoneyInit, PTL DEF SpecPayments

\* The unspent outputs from which balances and payments are made are those of the
\* primary branch as long as nothing was dropped and no exchange was cut short.
LEMMA LockedIsOwn ==
  ASSUME MoneyInv, Undisturbed, NEW k
  PROVE  utxo = UnspentOn(top) /\ Locked(k) = Own(UnspentOn(top), k) /\ top \in Block
<1>1. top \in Block
  BY InvTypes, PoolFacts DEF MoneyInv
<1>2. utxo = UnspentOn(top)
  BY DEF MoneyInv, UnspentFollows, UnspentIsPrimaryBranch, Undisturbed
<1> QED  BY <1>1, <1>2 DEF Locked, Own

\* The history of an address (GetAddressHistory), which is read from the blocks of
\* the primary branch, adds up to its approved balance, which is read from the
\* unspent outputs: for every history of blocks and branches.
THEOREM HistoryIsAlwaysBalance ==
  ASSUME OlderInputsFirst  PROVE  SpecPayments => []HistoryIsBalance
<1>1. MoneyInv => HistoryIsBalance
  <2> SUFFICES ASSUME MoneyInv, Undisturbed, NEW k \in Key
               PROVE  History(k) = Balance(Loaded(Current), k).approved
    BY DEF HistoryIsBalance
  <2>1. Balance(Loaded(Current), k).approved = Total(Own(UnspentOn(top), k)) /\ top \in Block
    BY LockedIsOwn DEF Balance
  <2>2. History(k) = Total(Own(UnspentOn(top), k))
    BY <2>1, HistoryAddsUp DEF History
  <2> QED  BY <2>1, <2>2
<1> QED  BY <1>1, MoneyInvHolds, PTL

(***************************************************************************)
(* The balance.  What a key owns is what the branch leaves to it, without  *)
(* what pending transactions spend, and what these make for it.            *)
(***************************************************************************)

LEMMA PoolIsFinite == IsFiniteSet(Held)
<1> DEFINE n == Len(Timeline)
           one == 1
           S == one..n
           f == Timeline
<1>1. f \in Seq(Tx) /\ n \in Int /\ one \in Int /\ DOMAIN f = S /\ Held = {f[i] : i \in S}
  BY Pending DEF Held, Members
<1>2. f = [i \in S |-> f[i]]
  BY <1>1
<1> HIDE DEF one, n, f
<1>3. IsFiniteSet(S)
  BY <1>1, FS_Interval
<1> HIDE DEF S
<1> QED  BY <1>1, <1>2, <1>3, ImageIsFinite

\* What is both approved and pending pays nothing and makes nothing.
LEMMA NothingPaid ==
  ASSUME NEW t \in Tx \ Coinbase, Ins[t] = <<>>  PROVE  Outputs(t) = {} /\ InsOf(t) = {}
<1>1. InsOf(t) = {}
  BY DEF InsOf
<1>2. Total(Outputs(t)) = 0
  BY <1>1, Transfers, TotalOfNone
<1> SUFFICES ASSUME NEW x \in Outputs(t)  PROVE  FALSE
  BY <1>1
<1>3. Outputs(t) \in SUBSET AllOutputs /\ IsFiniteSet(Outputs(t)) /\ {x} \in SUBSET Outputs(t)
  BY OutputsAre
<1>4. x \in AllOutputs
  BY <1>3
<1>5. /\ Total({x}) \in Nat /\ Total(Outputs(t) \ {x}) \in Nat
      /\ Total(Outputs(t)) = Total({x}) + Total(Outputs(t) \ {x})
  BY <1>3, TotalOfPart
<1>6. Total({x}) = Value[x] /\ Value[x] \in Nat \ {0}
  BY <1>4, TotalOfOne
<1> QED  BY <1>2, <1>5, <1>6

\* What the pool and the branch are to one another, as far as money goes.
LEMMA MoneyFacts ==
  ASSUME MoneyInv, Undisturbed
  PROVE  /\ Known(Loaded(Current)) = pool /\ pool \in SUBSET Held /\ IsFiniteSet(pool)
         /\ top \in Block /\ utxo = UnspentOn(top) /\ Knows(Derived, stored, FALSE)
         /\ refs \in RefsRight(top) /\ Forgotten(Derived) \subseteq torn
         /\ TxsOn(top) \in SUBSET Tx /\ IsFiniteSet(TxsOn(top)) /\ HoldsInputs(TxsOn(top))
         /\ \A t \in pool \cap TxsOn(top) : t \in SQL => Ref[t] \in torn
         /\ \A t \in pool : /\ t \in Tx \ Coinbase /\ InsOf(t) \subseteq AllOutputs
                            /\ t \in TxsOn(top) => Outputs(t) = {} /\ InsOf(t) = {}
<1> DEFINE n == Derived
           p == Loaded(Current)
<1>1. /\ PoolInv /\ drops = 0 /\ ~crossed /\ ~touched /\ torn # Row /\ top \in Block /\ utxo = UnspentOn(top)
  BY LockedIsOwn, HeldTypes DEF MoneyInv, Undisturbed, CutShort
<1>2. /\ PoolGood(n, p, asked, ran, Mixed) /\ p \in PoolState /\ p.pool = pool /\ p.torn = torn
      /\ ~p.touched /\ Knows(n, stored, Mixed) /\ n.top = top
  BY <1>1, PoolFacts, LoadedIsGood, LoadedIs
<1>3. Mixed = FALSE
  BY <1>1 DEF Mixed
<1> HIDE DEF n, p
<1>4. Fresh(p) /\ Tracked(n, p, FALSE) /\ Knows(n, stored, FALSE)
  BY <1>1, <1>2, <1>3 DEF PoolGood
<1>5. Known(p) = pool /\ pool \in SUBSET Held
  BY <1>2, <1>4, KnownIs
<1>6. IsFiniteSet(pool)
  BY <1>5, PoolIsFinite, FS_Subset
<1>7. TxsOn(top) \in SUBSET Tx /\ IsFiniteSet(TxsOn(top)) /\ HoldsInputs(TxsOn(top))
  <2>1. HoldsInputs(TxsOn(top)) /\ TxsOn(top) \in SUBSET Tx
    BY <1>1, BranchHoldsInputs, TxsOnBelow, BranchFacts
  <2>2. IsFiniteSet(TxsOn(top))
    <3> DEFINE D == Downwards[top]
               m == Len(D)
               zero == 0
    <3>1. D \in Seq(Tx) /\ m \in Nat /\ zero \in Nat /\ \A t : t \in TxsOn(top) <=> \E i \in 1..m : t = D[i]
      BY <1>1, DownwardsIsVisit, LenProperties DEF IsVisit
    <3>2. After(D, zero) = {D[i] : i \in 1..m}
      BY DEF After
    <3>3. TxsOn(top) = After(D, zero)
      BY <3>1, <3>2
    <3> HIDE DEF D, zero
    <3> QED  BY <3>1, <3>3, AfterIsFinite
  <2> QED  BY <2>1, <2>2
<1>8. ASSUME NEW t \in pool
      PROVE  /\ t \in Tx \ Coinbase /\ InsOf(t) \subseteq AllOutputs
             /\ t \in TxsOn(top) => Outputs(t) = {} /\ InsOf(t) = {}
  <2>1. t \in Tx \ Coinbase
    BY <1>5, HeldTypes, Pending
  <2>2. t \in TxsOn(top) => Ins[t] = <<>>
    BY <1>2, <1>4 DEF Tracked, Clean, Inside, Excused
  <2> QED  BY <2>1, <2>2, NothingPaid, Transfers
<1>9. /\ refs \in RefsRight(top) /\ Forgotten(n) \subseteq torn
      /\ \A t \in pool \cap TxsOn(top) : t \in SQL => Ref[t] \in torn
  <2>1. n.refs = refs
    BY DEF n, Derived
  <2>2. n.refs \in RefsRight(n.top) /\ Forgotten(n) \subseteq p.torn
    BY <1>4 DEF Tracked
  <2>3. \A t \in pool \cap TxsOn(top) : t \in SQL => Ref[t] \in p.torn \cup Forgotten(n)
    BY <1>2, <1>4 DEF Tracked, Clean, Inside, Excused
  <2> QED  BY <1>2, <2>1, <2>2, <2>3
<1> QED  BY <1>1, <1>4, <1>5, <1>6, <1>7, <1>8, <1>9 DEF n, p

\* What a key owns is what the branch leaves to it, without what pending transactions
\* spend, together with what they make for it and do not spend.
LEMMA AvailableIs ==
  ASSUME MoneyInv, Undisturbed, NEW k \in Key
  PROVE  LET prepared == PreparedBy(Loaded(Current), k)
             mine == Locked(k) \ prepared.inputs
             inputs == SpentBy({t \in pool : CreatedBy(t, k)})
         IN  /\ Available(k) = mine \cup prepared.free /\ mine \cap prepared.free = {}
             /\ prepared.inputs = inputs
             /\ Locked(k) \in SUBSET AllOutputs /\ IsFiniteSet(Locked(k))
             /\ prepared.free \in SUBSET AllOutputs /\ IsFiniteSet(prepared.free)
             /\ Locked(k) \cap inputs = Locked(k) \cap prepared.approved
             /\ prepared.approved \subseteq utxo <=> prepared.approved \subseteq Locked(k)
             /\ \A x \in prepared.approved \ utxo : x \in inputs /\ x[1] \notin pool
             /\ \A x \in inputs : x \notin UnspentOn(top) /\ x[1] \notin pool => x \in prepared.approved
             /\ \A x \in mine : x \in UnspentOn(top) /\ x[1] \in TxsOn(top)
             /\ \A x \in prepared.free : x[1] \in pool \ TxsOn(top)
<1> DEFINE C == TxsOn(top)
           prepared == PreparedBy(Loaded(Current), k)
           I == SpentBy({t \in pool : CreatedBy(t, k)})
           O == Own(UNION {Outputs(t) : t \in pool}, k)
           U == Own(UnspentOn(top), k)
<1>1. /\ Known(Loaded(Current)) = pool /\ pool \in SUBSET Held /\ IsFiniteSet(pool)
      /\ top \in Block /\ utxo = UnspentOn(top)
      /\ C \in SUBSET Tx /\ IsFiniteSet(C) /\ HoldsInputs(C)
      /\ \A t \in pool : /\ t \in Tx \ Coinbase /\ InsOf(t) \subseteq AllOutputs
                         /\ t \in C => Outputs(t) = {} /\ InsOf(t) = {}
  BY MoneyFacts
<1>2. prepared = [inputs |-> I, free |-> O \ I, approved |-> I \ O]
  BY <1>1 DEF PreparedBy, SpentBy, Own
<1>3. Locked(k) = U
  BY LockedIsOwn
<1>4. \A x \in I : x \in AllOutputs /\ Owner[x] = k /\ \E t \in pool : x \in InsOf(t)
  BY <1>1 DEF SpentBy, CreatedBy
<1>5. \A t \in pool : \A x \in InsOf(t) : Owner[x] = k => x \in I
  <2> SUFFICES ASSUME NEW t \in pool, NEW x \in InsOf(t), Owner[x] = k  PROVE  x \in I
    OBVIOUS
  <2>1. PICK l \in Key : CreatedBy(t, l)
    BY <1>1, Transfers
  <2>2. l = k
    BY <2>1 DEF CreatedBy
  <2> QED  BY <2>1, <2>2 DEF SpentBy
<1>6. \A x \in O : x \in AllOutputs /\ Owner[x] = k /\ x[1] \in pool /\ x \in Outputs(x[1]) /\ x[1] \notin C
  <2> SUFFICES ASSUME NEW x \in O
               PROVE  x \in AllOutputs /\ Owner[x] = k /\ x[1] \in pool /\ x \in Outputs(x[1]) /\ x[1] \notin C
    OBVIOUS
  <2>1. PICK t \in pool : x \in Outputs(t)
    BY DEF Own
  <2>2. x[1] = t /\ x \in AllOutputs
    BY <1>1, <2>1, OutputsAre
  <2> QED  BY <1>1, <2>1, <2>2 DEF Own
<1>7. \A x \in U : /\ x \in AllOutputs /\ Owner[x] = k /\ x \in UnspentOn(top)
                    /\ x[1] \in C /\ x \in Outputs(x[1]) /\ \A t \in C : x \notin InsOf(t)
  <2> SUFFICES ASSUME NEW x \in U
               PROVE  /\ x \in AllOutputs /\ Owner[x] = k /\ x \in UnspentOn(top)
                      /\ x[1] \in C /\ x \in Outputs(x[1]) /\ \A t \in C : x \notin InsOf(t)
    OBVIOUS
  <2>1. PICK t \in C : x \in Outputs(t)
    BY DEF Own, UnspentOn
  <2>2. x[1] = t /\ x \in AllOutputs
    BY <1>1, <2>1, OutputsAre
  <2> QED  BY <2>1, <2>2 DEF Own, UnspentOn
<1>8. \A x \in I : x[1] \in pool => x \in O
  <2> SUFFICES ASSUME NEW x \in I, x[1] \in pool  PROVE  x \in O
    OBVIOUS
  <2>1. PICK t \in Tx : x \in Outputs(t)
    BY <1>4 DEF AllOutputs
  <2>2. x[1] = t
    BY <2>1, OutputsAre
  <2> QED  BY <1>4, <2>1, <2>2 DEF Own
<1>9. \A x \in O, t \in C : x \notin InsOf(t)
  BY <1>1, <1>6 DEF HoldsInputs
<1>10. \A x : x \in Available(k) <=>
          /\ Owner[x] = k /\ \E t \in C \cup pool : x \in Outputs(t)
          /\ \A t \in C \cup pool : x \notin InsOf(t)
  BY DEF Available, SpentBy
<1>11. ASSUME NEW x \in Available(k)  PROVE  x \in (U \ I) \cup (O \ I)
  <2>1. x \notin I
    BY <1>4, <1>10
  <2>2. CASE \E t \in C : x \in Outputs(t)
    BY <1>10, <2>1, <2>2 DEF Own, UnspentOn
  <2>3. CASE \E t \in pool : x \in Outputs(t)
    BY <1>10, <2>1, <2>3 DEF Own
  <2> QED  BY <1>10, <2>2, <2>3
<1>12. ASSUME NEW x \in (U \ I) \cup (O \ I)  PROVE  x \in Available(k)
  <2>1. \A t \in pool : x \notin InsOf(t)
    BY <1>5, <1>6, <1>7
  <2>2. \A t \in C : x \notin InsOf(t)
    BY <1>7, <1>9
  <2>3. Owner[x] = k /\ \E t \in C \cup pool : x \in Outputs(t)
    BY <1>6, <1>7
  <2> QED  BY <1>10, <2>1, <2>2, <2>3
<1>13. /\ U \in SUBSET AllOutputs /\ IsFiniteSet(U)
       /\ O \ I \in SUBSET AllOutputs /\ IsFiniteSet(O \ I)
  <2>1. IsFiniteSet(UNION {Outputs(t) : t \in pool}) /\ UNION {Outputs(t) : t \in pool} \subseteq AllOutputs
    BY <1>1, OutputsAreFinite
  <2>2. IsFiniteSet(UnspentOn(top)) /\ UnspentOn(top) \subseteq AllOutputs
    BY <1>1, OutputsAreFinite DEF Unspent, UnspentOn
  <2>3. O \in SUBSET AllOutputs /\ IsFiniteSet(O) /\ U \in SUBSET AllOutputs /\ IsFiniteSet(U)
    BY <2>1, <2>2, TotalOfOwn
  <2>4. O \ I \in SUBSET O
    OBVIOUS
  <2> HIDE DEF O, I
  <2> QED  BY <2>3, <2>4, FS_Subset
<1>14. U \cap O = {}
  BY <1>6, <1>7
<1>15. \A x \in I \ O : x \in UnspentOn(top) => x \in U
  BY <1>4 DEF Own
<1> HIDE DEF C, I, O, U, prepared
<1>16. Available(k) = (U \ I) \cup (O \ I)
  BY <1>11, <1>12
<1>17. \A x \in (I \ O) \ utxo : x \in I /\ x[1] \notin pool
  BY <1>8
<1>18. \A x \in I : x \notin UnspentOn(top) /\ x[1] \notin pool => x \in I \ O
  BY <1>6
<1>19. I \ O \subseteq utxo <=> I \ O \subseteq U
  BY <1>1, <1>7, <1>15
<1>20. /\ (U \ I) \cap (O \ I) = {} /\ U \cap I = U \cap (I \ O)
       /\ \A x \in U \ I : x \in UnspentOn(top) /\ x[1] \in C
       /\ \A x \in O \ I : x[1] \in pool \ C
  BY <1>6, <1>7, <1>14
<1>21. prepared.inputs = I /\ prepared.free = O \ I /\ prepared.approved = I \ O
  BY <1>2
<1>22. /\ Available(k) = (Locked(k) \ prepared.inputs) \cup prepared.free
       /\ (Locked(k) \ prepared.inputs) \cap prepared.free = {}
       /\ prepared.inputs = I
       /\ Locked(k) \in SUBSET AllOutputs /\ IsFiniteSet(Locked(k))
       /\ prepared.free \in SUBSET AllOutputs /\ IsFiniteSet(prepared.free)
       /\ Locked(k) \cap I = Locked(k) \cap prepared.approved
       /\ prepared.approved \subseteq utxo <=> prepared.approved \subseteq Locked(k)
       /\ \A x \in prepared.approved \ utxo : x \in I /\ x[1] \notin pool
       /\ \A x \in I : x \notin UnspentOn(top) /\ x[1] \notin pool => x \in prepared.approved
       /\ \A x \in Locked(k) \ prepared.inputs : x \in UnspentOn(top) /\ x[1] \in C
       /\ \A x \in prepared.free : x[1] \in pool \ C
  BY <1>3, <1>13, <1>16, <1>17, <1>18, <1>19, <1>20, <1>21
<1> QED  BY <1>22 DEF I, C, prepared

\* The balance of an address (GetAddressBalance) is what the primary branch and the
\* pending transactions leave to its key, and there is one exactly when none of them
\* uses an output that has gone: for every node, pool and history of branches.
THEOREM BalanceIsAlwaysAvailable ==
  ASSUME OlderInputsFirst  PROVE  SpecPayments => []BalanceIsAvailable
<1>1. MoneyInv => BalanceIsAvailable
  <2> SUFFICES ASSUME MoneyInv, Undisturbed, NEW k \in Key
               PROVE  LET balance == Balance(Loaded(Current), k)
                          gone == {x \in SpentBy({t \in pool : CreatedBy(t, k)}) :
                                     x \notin UnspentOn(top) /\ x[1] \notin pool}
                      IN  /\ balance.ok <=> gone = {}
                          /\ balance.ok => balance.total = Total(Available(k))
    BY DEF BalanceIsAvailable
  <2> DEFINE prepared == PreparedBy(Loaded(Current), k)
             L == Locked(k)
             I == SpentBy({t \in pool : CreatedBy(t, k)})
             gone == {x \in I : x \notin UnspentOn(top) /\ x[1] \notin pool}
             balance == Balance(Loaded(Current), k)
             F == prepared.free
             A == prepared.approved
  <2>1. /\ Available(k) = (L \ I) \cup F /\ (L \ I) \cap F = {}
        /\ L \in SUBSET AllOutputs /\ IsFiniteSet(L) /\ F \in SUBSET AllOutputs /\ IsFiniteSet(F)
        /\ L \cap I = L \cap A
        /\ A \subseteq utxo <=> A \subseteq L
        /\ \A x \in A \ utxo : x \in I /\ x[1] \notin pool
        /\ \A x \in I : x \notin UnspentOn(top) /\ x[1] \notin pool => x \in A
        /\ utxo = UnspentOn(top)
    BY AvailableIs, MoneyFacts
  <2>2. /\ balance.ok <=> A \subseteq utxo
        /\ balance.total = Total(L) + (Total(F) - Total(A))
    BY DEF Balance, PendingBalance
  <2>3. gone = {} <=> A \subseteq utxo
    BY <2>1
  <2> HIDE DEF L, I, F, A, balance
  <2>4. ASSUME A \subseteq utxo  PROVE  balance.total = Total(Available(k))
    <3>1. A = L \cap I /\ A \in SUBSET L /\ L \ A = L \ I
      BY <2>1, <2>4
    <3>2. /\ IsFiniteSet(L \ A) /\ Total(L) \in Nat /\ Total(A) \in Nat /\ Total(L \ A) \in Nat
          /\ Total(L) = Total(A) + Total(L \ A)
      BY <2>1, <3>1, TotalOfPart
    <3>3. Total(F) \in Nat
      BY <2>1, TotalType
    <3> DEFINE M == L \ A
    <3>4. M \in SUBSET AllOutputs /\ IsFiniteSet(M) /\ M \cap F = {} /\ Available(k) = M \cup F
      BY <2>1, <3>1, <3>2
    <3>5. Total(M \cup F) = Total(M) + Total(F)
      <4> HIDE DEF M
      <4> QED  BY <2>1, <3>4, TotalOfBoth
    <3> QED  BY <2>2, <3>2, <3>3, <3>4, <3>5
  <2> QED  BY <2>2, <2>3, <2>4 DEF I, balance
<1> QED  BY <1>1, MoneyInvHolds, PTL

(***************************************************************************)
(* The lists of inputs.  Each output is on a list once, so the value of    *)
(* the list is that of its members.                                        *)
(***************************************************************************)

ValueOp(c, v, x) == v + Value[x]
Values == INSTANCE Folding WITH Op <- ValueOp

OutputLists == {s \in Seq(AllOutputs) : IsInjective(s)}

LEMMA TotalOfFolds ==
  ASSUME NEW s, NEW zero, zero = 0  PROVE  TotalOf(s) = Values!Fold(zero, zero, s)
BY DEF TotalOf, ValueOp, Values!Fold, FoldLeft, MapThenFoldSet, Max, Values!LastOf

LEMMA ListOfOutputs ==
  ASSUME NEW s \in OutputLists
  PROVE  /\ s \in Seq(AllOutputs) /\ Len(s) \in Nat /\ DOMAIN s = 1..Len(s)
         /\ Members(s) = {s[i] : i \in 1..Len(s)}
         /\ \A i, j \in 1..Len(s) : s[i] = s[j] => i = j
         /\ Members(s) \in SUBSET AllOutputs /\ IsFiniteSet(Members(s))
<1>1. s \in Seq(AllOutputs) /\ IsInjective(s)
  BY DEF OutputLists
<1>2. Len(s) \in Nat /\ DOMAIN s = 1..Len(s) /\ \A i \in 1..Len(s) : s[i] \in AllOutputs
  BY <1>1, LenProperties, ElementOfSeq
<1>3. IsFiniteSet(Members(s))
  <2> DEFINE one == 1
             n == Len(s)
             S == one..n
  <2>1. one \in Int /\ n \in Int /\ DOMAIN s = S /\ Members(s) = {s[i] : i \in S}
    BY <1>2 DEF Members
  <2>2. s = [i \in S |-> s[i]]
    BY <1>1, <2>1
  <2> HIDE DEF one, n
  <2>3. IsFiniteSet(S)
    BY <2>1, FS_Interval
  <2> HIDE DEF S
  <2> QED  BY <2>1, <2>2, <2>3, ImageIsFinite
<1> QED  BY <1>1, <1>2, <1>3 DEF IsInjective, Members

LEMMA TotalOfList ==
  ASSUME NEW s \in OutputLists
  PROVE  TotalOf(s) = Total(Members(s)) /\ TotalOf(s) \in Nat
<1> DEFINE n == Len(s)
           Part(i) == {s[j] : j \in 1..i}
           F == [i \in 0..n |-> {Total(Part(i))}]
           zero == 0
<1>1. /\ s \in Seq(AllOutputs) /\ n \in Nat /\ Members(s) = Part(n)
      /\ \A i, j \in 1..n : s[i] = s[j] => i = j
      /\ \A i \in 1..n : s[i] \in AllOutputs
      /\ Members(s) \in SUBSET AllOutputs /\ IsFiniteSet(Members(s))
  BY ListOfOutputs, ElementOfSeq
<1>2. ASSUME NEW i \in 0..n
      PROVE  Part(i) \in SUBSET AllOutputs /\ IsFiniteSet(Part(i)) /\ Total(Part(i)) \in Nat
  <2>1. Part(i) \in SUBSET Members(s)
    BY <1>1
  <2>2. Part(i) \in SUBSET AllOutputs /\ IsFiniteSet(Part(i))
    BY <1>1, <2>1, FS_Subset
  <2> HIDE DEF Part
  <2> QED  BY <2>2, TotalType
<1>3. ASSUME NEW i \in 1..n  PROVE  Total(Part(i)) = Total(Part(i - 1)) + Value[s[i]]
  <2> DEFINE x == s[i]
             S == Part(i - 1)
             T == {x}
  <2>1. i - 1 \in 0..n /\ x \in AllOutputs
    BY <1>1
  <2>2. Part(i) = S \cup T
    <3>1. \A j \in 1..i : j \in 1..(i - 1) \/ j = i
      BY <1>1
    <3>2. \A j \in 1..(i - 1) : j \in 1..i
      BY <1>1
    <3>3. i \in 1..i
      BY <1>1
    <3> QED  BY <3>1, <3>2, <3>3
  <2>3. S \cap T = {}
    <3>1. \A j \in 1..(i - 1) : j \in 1..n /\ j # i
      BY <1>1
    <3> QED  BY <1>1, <3>1
  <2>4. S \in SUBSET AllOutputs /\ IsFiniteSet(S)
    BY <1>2, <2>1
  <2>5. T \in SUBSET AllOutputs /\ IsFiniteSet(T) /\ Total(T) = Value[x]
    BY <2>1, FS_Singleton, TotalOfOne
  <2> HIDE DEF S, T, x
  <2>6. Total(S \cup T) = Total(S) + Total(T)
    BY <2>3, <2>4, <2>5, TotalOfBoth
  <2> QED  BY <2>2, <2>5, <2>6 DEF S, x
<1>4. Total(Part(0)) = zero
  BY TotalOfNone
<1>5. /\ \A i \in 1..n : i - 1 \in 0..n /\ i \in 0..n
      /\ 0 \in 0..n /\ n \in 0..n
  BY <1>1
<1>6. \A i \in 0..n : F[i] = {Total(Part(i))}
  OBVIOUS
<1> HIDE DEF F, Part
<1>7. zero \in F[0]
  BY <1>4, <1>5, <1>6
<1>8. ASSUME NEW i \in 1..n, NEW v \in F[i - 1]  PROVE  ValueOp(zero, v, s[i]) \in F[i]
  <2>1. v = Total(Part(i - 1)) /\ F[i] = {Total(Part(i))}
    BY <1>5, <1>6
  <2> QED  BY <1>3, <2>1 DEF ValueOp
<1>9. Values!Fold(zero, zero, s) \in F[n]
  <2> HIDE DEF zero, n
  <2> QED  BY <1>1, <1>7, <1>8, Values!FoldReaches DEF n
<1>10. TotalOf(s) = Values!Fold(zero, zero, s)
  <2>1. zero = 0
    OBVIOUS
  <2> HIDE DEF zero
  <2> QED  BY <2>1, TotalOfFolds
<1> QED  BY <1>1, <1>2, <1>5, <1>6, <1>9, <1>10

\* A list of all members of a set.
LEMMA WholeLists ==
  ASSUME NEW S \in SUBSET AllOutputs, IsFiniteSet(S), NEW s \in SetToSeqs(S)
  PROVE  s \in OutputLists /\ Members(s) = S
<1> DEFINE one == 1
           n == Cardinality(S)
           D == one..n
<1>1. n \in Nat /\ s \in [D -> S] /\ \A i, j \in D : i # j => s[i] # s[j]
  BY FS_CardinalityType DEF SetToSeqs
<1>2. IsInjective(s) /\ DOMAIN s = D
  BY <1>1 DEF IsInjective
<1>3. s \in Seq(AllOutputs)
  BY <1>1
<1>4. s \in Injection(D, S)
  BY <1>1, <1>2 DEF Injection
<1>5. Cardinality(D) = n
  <2>1. one \in Int /\ n \in Int /\ one = 1 /\ n >= 0
    BY <1>1
  <2> HIDE DEF one, n
  <2>2. Cardinality(one..n) = IF one > n THEN 0 ELSE n - one + 1
    BY <2>1, FS_Interval
  <2> QED  BY <2>1, <2>2
<1> HIDE DEF D
<1>6. s \in Surjection(D, S)
  BY <1>4, <1>5, FS_Injection
<1>7. Members(s) = S
  BY <1>1, <1>2, <1>6 DEF Surjection, Members
<1> QED  BY <1>2, <1>3, <1>7 DEF OutputLists

\* The beginning of a list, and the whole of it.
LEMMA BeginningOfOutputs ==
  ASSUME NEW s \in OutputLists, NEW n \in 0..Len(s)
  PROVE  LET q == SubSeq(s, 1, n)
         IN  q \in OutputLists /\ Members(q) \subseteq Members(s) /\ (n = Len(s) => Members(q) = Members(s))
<1> DEFINE q == SubSeq(s, 1, n)
           one == 1
<1>1. /\ s \in Seq(AllOutputs) /\ Len(s) \in Nat /\ DOMAIN s = 1..Len(s)
      /\ Members(s) = {s[i] : i \in 1..Len(s)}
      /\ \A i, j \in 1..Len(s) : s[i] = s[j] => i = j
  BY ListOfOutputs
<1>2. /\ one \in Int /\ n \in Int /\ n \in Nat /\ one = 1
      /\ \A i \in one..n : i \in 1..Len(s) /\ s[i] \in AllOutputs
  BY <1>1, ElementOfSeq
<1>3. q \in Seq(AllOutputs) /\ Len(q) = n /\ \A i \in 1..n : q[i] = s[i]
  <2> HIDE DEF one
  <2>1. /\ SubSeq(s, one, n) \in Seq(AllOutputs)
        /\ Len(SubSeq(s, one, n)) = IF one <= n THEN n - one + 1 ELSE 0
        /\ \A i \in 1..(n - one + 1) : SubSeq(s, one, n)[i] = s[one + i - 1]
    BY <1>2, SubSeqProperties
  <2>2. Len(SubSeq(s, one, n)) = n /\ n - one + 1 = n /\ \A i \in 1..n : one + i - 1 = i
    BY <1>2, <2>1
  <2>3. \A i \in 1..n : SubSeq(s, one, n)[i] = s[i]
    BY <2>1, <2>2
  <2> QED  BY <1>2, <2>1, <2>2, <2>3
<1> HIDE DEF q
<1>4. DOMAIN q = 1..n /\ Members(q) = {s[i] : i \in 1..n}
  BY <1>3, LenProperties DEF Members
<1>5. IsInjective(q)
  BY <1>1, <1>2, <1>3, <1>4 DEF IsInjective
<1>6. q \in OutputLists
  BY <1>3, <1>5 DEF OutputLists
<1>7. Members(q) \subseteq Members(s) /\ (n = Len(s) => Members(q) = Members(s))
  <2>1. \A i \in 1..n : i \in 1..Len(s)
    BY <1>1, <1>2
  <2> QED  BY <1>1, <1>4, <2>1, Zenon
<1> QED  BY <1>6, <1>7 DEF q

\* A part of the outputs has no more value than all of them.
LEMMA TotalGrows ==
  ASSUME NEW S \in SUBSET AllOutputs, IsFiniteSet(S), NEW T \in SUBSET S
  PROVE  Total(T) <= Total(S)
<1>1. Total(S) \in Nat /\ Total(T) \in Nat /\ Total(S \ T) \in Nat /\ Total(S) = Total(T) + Total(S \ T)
  BY TotalOfPart
<1> QED  BY <1>1

\* What is taken from a list suffices when the whole list does.
LEMMA UntilIs ==
  ASSUME NEW s \in OutputLists, NEW have \in Nat, NEW amount \in Nat
  PROVE  LET q == Until(s, have, amount)
         IN  /\ q \in OutputLists /\ Members(q) \subseteq Members(s)
             /\ have + TotalOf(q) >= amount <=> have + TotalOf(s) >= amount
<1> DEFINE enough == {n \in DOMAIN s : have + TotalOf(SubSeq(s, 1, n)) >= amount}
           q == Until(s, have, amount)
<1>1. /\ Len(s) \in Nat /\ DOMAIN s = 1..Len(s)
      /\ Members(s) \in SUBSET AllOutputs /\ IsFiniteSet(Members(s))
      /\ TotalOf(s) = Total(Members(s)) /\ TotalOf(s) \in Nat
  BY ListOfOutputs, TotalOfList
<1>2. CASE enough = {}
  <2>1. q = s
    BY <1>2 DEF Until
  <2> HIDE DEF q
  <2> QED  BY <2>1 DEF q
<1>3. CASE enough # {}
  <2> DEFINE least == CHOOSE n \in enough : \A m \in enough : n <= m
  <2>1. q = SubSeq(s, 1, least)
    BY <1>3 DEF Until
  <2>2. enough \in SUBSET Nat
    BY <1>1
  <2>3. least \in enough
    <3> HIDE DEF enough
    <3>1. \E n \in enough : \A m \in enough : n <= m
      BY <1>3, <2>2, Walks!LeastNumber
    <3> QED  BY <3>1
  <2> HIDE DEF q, least
  <2>4. least \in 0..Len(s) /\ have + TotalOf(q) >= amount
    BY <1>1, <2>1, <2>3
  <2> HIDE DEF enough
  <2>5. q \in OutputLists /\ Members(q) \subseteq Members(s)
    BY <2>1, <2>4, BeginningOfOutputs
  <2>6. TotalOf(q) = Total(Members(q)) /\ TotalOf(q) \in Nat
    BY <2>5, TotalOfList
  <2>7. Total(Members(q)) <= Total(Members(s))
    <3>1. Members(q) \in SUBSET Members(s)
      BY <2>5
    <3> QED  BY <1>1, <3>1, TotalGrows
  <2>8. have + TotalOf(s) >= amount
    BY <1>1, <2>4, <2>6, <2>7
  <2> QED  BY <2>4, <2>5, <2>8 DEF q
<1> QED  BY <1>2, <1>3

\* One list after another.
LEMMA JoinedIs ==
  ASSUME NEW s \in OutputLists, NEW q \in OutputLists, Members(s) \cap Members(q) = {}
  PROVE  /\ s \o q \in OutputLists /\ Members(s \o q) = Members(s) \cup Members(q)
         /\ TotalOf(s \o q) = TotalOf(s) + TotalOf(q)
<1> DEFINE j == s \o q
           n == Len(s)
           m == Len(q)
<1>1. /\ s \in Seq(AllOutputs) /\ n \in Nat /\ Members(s) = {s[i] : i \in 1..n}
      /\ \A i, k \in 1..n : s[i] = s[k] => i = k
      /\ Members(s) \in SUBSET AllOutputs /\ IsFiniteSet(Members(s))
      /\ TotalOf(s) = Total(Members(s)) /\ TotalOf(s) \in Nat
  BY ListOfOutputs, TotalOfList
<1>2. /\ q \in Seq(AllOutputs) /\ m \in Nat /\ Members(q) = {q[i] : i \in 1..m}
      /\ \A i, k \in 1..m : q[i] = q[k] => i = k
      /\ Members(q) \in SUBSET AllOutputs /\ IsFiniteSet(Members(q))
      /\ TotalOf(q) = Total(Members(q)) /\ TotalOf(q) \in Nat
  BY ListOfOutputs, TotalOfList
<1>3. /\ j \in Seq(AllOutputs) /\ Len(j) = n + m
      /\ \A i \in 1..(n + m) : j[i] = IF i <= n THEN s[i] ELSE q[i - n]
  BY <1>1, <1>2, ConcatProperties
<1> HIDE DEF j
<1>4. DOMAIN j = 1..(n + m) /\ Members(j) = {j[i] : i \in 1..(n + m)}
  BY <1>3, LenProperties DEF Members
<1> HIDE DEF n, m
<1>5. /\ \A i \in 1..n : i \in 1..(n + m) /\ j[i] = s[i]
      /\ \A i \in 1..m : i + n \in 1..(n + m) /\ j[i + n] = q[i]
      /\ \A i \in 1..(n + m) : ~(i <= n) => i - n \in 1..m
      /\ \A i \in 1..(n + m) : i <= n => i \in 1..n
  BY <1>1, <1>2, <1>3
<1>6. Members(j) = Members(s) \cup Members(q)
  <2>1. ASSUME NEW x \in Members(j)  PROVE  x \in Members(s) \cup Members(q)
    <3>1. PICK i \in 1..(n + m) : x = j[i]
      BY <1>4, <2>1
    <3>2. CASE i <= n
      BY <1>1, <1>5, <3>1, <3>2
    <3>3. CASE ~(i <= n)
      <4>1. x = q[i - n] /\ i - n \in 1..m
        BY <1>3, <1>5, <3>1, <3>3
      <4> QED  BY <1>2, <4>1
    <3> QED  BY <3>2, <3>3
  <2>2. ASSUME NEW x \in Members(s)  PROVE  x \in Members(j)
    BY <1>1, <1>4, <1>5, <2>2
  <2>3. ASSUME NEW x \in Members(q)  PROVE  x \in Members(j)
    BY <1>2, <1>4, <1>5, <2>3
  <2> QED  BY <2>1, <2>2, <2>3
<1>7. ASSUME NEW i \in 1..(n + m), NEW k \in 1..(n + m), j[i] = j[k]  PROVE  i = k
  <2>1. CASE i <= n /\ k <= n
    BY <1>1, <1>5, <1>7, <2>1
  <2>2. CASE ~(i <= n) /\ ~(k <= n)
    <3>1. i - n \in 1..m /\ k - n \in 1..m /\ q[i - n] = q[k - n]
      BY <1>3, <1>5, <1>7, <2>2
    <3>2. i - n = k - n
      BY <1>2, <3>1
    <3> QED  BY <1>1, <3>2
  <2>3. CASE i <= n /\ ~(k <= n)
    <3>1. i \in 1..n /\ j[i] = s[i] /\ k - n \in 1..m /\ j[k] = q[k - n]
      BY <1>3, <1>5, <2>3
    <3>2. j[i] \in Members(s)
      BY <1>1, <3>1
    <3>3. j[k] \in Members(q)
      BY <1>2, <3>1
    <3> QED  BY <1>7, <3>2, <3>3
  <2>4. CASE ~(i <= n) /\ k <= n
    <3>1. k \in 1..n /\ j[k] = s[k] /\ i - n \in 1..m /\ j[i] = q[i - n]
      BY <1>3, <1>5, <2>4
    <3>2. j[k] \in Members(s)
      BY <1>1, <3>1
    <3>3. j[i] \in Members(q)
      BY <1>2, <3>1
    <3> QED  BY <1>7, <3>2, <3>3
  <2> QED  BY <2>1, <2>2, <2>3, <2>4
<1>8. j \in OutputLists
  BY <1>3, <1>4, <1>7 DEF IsInjective, OutputLists
<1>9. TotalOf(j) = Total(Members(j))
  BY <1>8, TotalOfList
<1>10. Total(Members(s) \cup Members(q)) = Total(Members(s)) + Total(Members(q))
  <2> DEFINE S == Members(s)
             T == Members(q)
  <2>1. S \in SUBSET AllOutputs /\ T \in SUBSET AllOutputs /\ IsFiniteSet(S) /\ IsFiniteSet(T) /\ S \cap T = {}
    BY <1>1, <1>2
  <2> HIDE DEF S, T
  <2>2. Total(S \cup T) = Total(S) + Total(T)
    BY <2>1, TotalOfBoth
  <2> QED  BY <2>2 DEF S, T
<1> QED  BY <1>1, <1>2, <1>6, <1>8, <1>9, <1>10 DEF j

\* What is chosen of the approved outputs is all of them when they do not suffice.
LEMMA ChosenAre ==
  ASSUME NEW k, NEW amount \in Nat, NEW used, NEW mine, mine = Locked(k) \ used,
         mine \in SUBSET AllOutputs, IsFiniteSet(mine),
         NEW s \in ChooseSpendable(k, amount, used)
  PROVE  /\ s \in OutputLists /\ Members(s) \subseteq mine
         /\ Total(mine) < amount => Members(s) = mine
         /\ ~(Total(mine) < amount) => TotalOf(s) >= amount
<1> DEFINE zero == 0
<1>1. IF Total(mine) < amount THEN s \in SetToSeqs(mine)
      ELSE \E e \in SmallestFirst(mine) : s = Until(e, zero, amount)
  BY DEF ChooseSpendable
<1>2. CASE Total(mine) < amount
  BY <1>1, <1>2, WholeLists
<1>3. CASE ~(Total(mine) < amount)
  <2>1. PICK e \in SmallestFirst(mine) : s = Until(e, zero, amount)
    BY <1>1, <1>3
  <2>2. e \in SetToSeqs(mine)
    BY DEF SmallestFirst
  <2>3. e \in OutputLists /\ Members(e) = mine
    BY <2>2, WholeLists
  <2>4. zero \in Nat /\ zero = 0
    OBVIOUS
  <2> HIDE DEF zero
  <2>5. /\ s \in OutputLists /\ Members(s) \subseteq mine
        /\ zero + TotalOf(s) >= amount <=> zero + TotalOf(e) >= amount
    BY <2>1, <2>3, <2>4, UntilIs
  <2>6. TotalOf(e) = Total(mine) /\ Total(mine) \in Nat /\ TotalOf(s) \in Nat
    BY <2>3, <2>5, TotalOfList
  <2> QED  BY <1>3, <2>4, <2>5, <2>6
<1> QED  BY <1>2, <1>3

\* The inputs of a payment are what the branch and the pool leave to the key, each
\* once, and they suffice if all of that does.
LEMMA InputsAre ==
  ASSUME MoneyInv, Undisturbed, NEW k \in Key, NEW amount \in Nat,
         NEW s \in Inputs(Loaded(Current), k, amount)
  PROVE  /\ s \in OutputLists /\ Members(s) \subseteq Available(k)
         /\ Covers(s, amount) <=> Total(Available(k)) >= amount
<1> DEFINE prepared == PreparedBy(Loaded(Current), k)
           mine == Locked(k) \ prepared.inputs
           F == prepared.free
<1>1. /\ Available(k) = mine \cup F /\ mine \cap F = {}
      /\ Locked(k) \in SUBSET AllOutputs /\ IsFiniteSet(Locked(k))
      /\ F \in SUBSET AllOutputs /\ IsFiniteSet(F)
  BY AvailableIs
<1>2. mine \in SUBSET AllOutputs /\ IsFiniteSet(mine)
  <2>1. mine \subseteq Locked(k)
    OBVIOUS
  <2> QED  BY <1>1, <2>1, FS_Subset
<1>3. PICK c \in ChooseSpendable(k, amount, prepared.inputs) :
        s \in IF TotalOf(c) >= amount THEN {c} ELSE Extend(c, amount, F)
  BY DEF Inputs
<1>4. /\ c \in OutputLists /\ Members(c) \subseteq mine
      /\ Total(mine) < amount => Members(c) = mine
      /\ ~(Total(mine) < amount) => TotalOf(c) >= amount
  <2> DEFINE used == prepared.inputs
             own == mine
  <2>1. c \in ChooseSpendable(k, amount, used) /\ own = Locked(k) \ used
        /\ own \in SUBSET AllOutputs /\ IsFiniteSet(own)
    BY <1>2, <1>3
  <2> HIDE DEF used, own
  <2>2. /\ c \in OutputLists /\ Members(c) \subseteq own
        /\ Total(own) < amount => Members(c) = own
        /\ ~(Total(own) < amount) => TotalOf(c) >= amount
    BY <2>1, ChosenAre
  <2> QED  BY <2>2 DEF own
<1> HIDE DEF F, mine
<1>5. TotalOf(c) = Total(Members(c)) /\ TotalOf(c) \in Nat
  BY <1>4, TotalOfList
<1>6. /\ Total(mine \cup F) = Total(mine) + Total(F)
      /\ Total(mine) \in Nat /\ Total(F) \in Nat
  BY <1>1, <1>2, TotalOfBoth, TotalType
<1>7. CASE TotalOf(c) >= amount
  <2>1. s = c
    BY <1>3, <1>7
  <2>2. Total(Members(c)) <= Total(mine)
    <3>1. Members(c) \in SUBSET mine
      BY <1>4
    <3> QED  BY <1>2, <3>1, TotalGrows
  <2>3. Total(Available(k)) >= amount
    BY <1>1, <1>5, <1>6, <1>7, <2>2
  <2> QED  BY <1>1, <1>4, <1>7, <2>1, <2>3 DEF Covers
<1>8. CASE ~(TotalOf(c) >= amount)
  <2>1. Members(c) = mine /\ TotalOf(c) = Total(mine)
    BY <1>4, <1>5, <1>8
  <2>2. PICK e \in InMapOrder(F) : s = c \o Until(e, TotalOf(c), amount)
    BY <1>3, <1>8 DEF Extend
  <2>3. e \in SetToSeqs(F)
    BY DEF InMapOrder
  <2>4. e \in OutputLists /\ Members(e) = F
    BY <1>1, <2>3, WholeLists
  <2> DEFINE q == Until(e, TotalOf(c), amount)
  <2>5. /\ q \in OutputLists /\ Members(q) \subseteq F
        /\ TotalOf(c) + TotalOf(q) >= amount <=> TotalOf(c) + TotalOf(e) >= amount
    BY <1>5, <2>4, UntilIs
  <2>6. s = c \o q
    BY <2>2
  <2> HIDE DEF q
  <2>7. Members(c) \cap Members(q) = {}
    BY <1>1, <2>1, <2>5
  <2>8. s \in OutputLists /\ Members(s) = Members(c) \cup Members(q) /\ TotalOf(s) = TotalOf(c) + TotalOf(q)
    BY <1>4, <2>5, <2>6, <2>7, JoinedIs
  <2>9. TotalOf(e) = Total(F)
    BY <2>4, TotalOfList
  <2>10. Covers(s, amount) <=> Total(Available(k)) >= amount
    BY <1>1, <1>6, <2>1, <2>5, <2>8, <2>9 DEF Covers
  <2> QED  BY <1>1, <2>1, <2>5, <2>8, <2>10
<1> QED  BY <1>7, <1>8

\* What a payment can use is found good when it is verified.
LEMMA AvailableIsGood ==
  ASSUME MoneyInv, Undisturbed, NEW k \in Key, NEW x \in Available(k)
  PROVE  InputGood(Derived, Known(Loaded(Current)), x)
<1> DEFINE n == Derived
           given == Known(Loaded(Current))
           prepared == PreparedBy(Loaded(Current), k)
           mine == Locked(k) \ prepared.inputs
<1>1. /\ given = pool /\ pool \in SUBSET Held /\ top \in Block
      /\ Knows(n, stored, FALSE) /\ TxsOn(top) \in SUBSET Tx
  BY MoneyFacts
<1>2. n.top = top
  BY DEF Derived
<1>3. x \in mine \cup prepared.free
  BY AvailableIs
<1>4. x \in mine => x \in UnspentOn(top) /\ x[1] \in TxsOn(top)
  BY AvailableIs
<1>5. x \in prepared.free => x[1] \in pool \ TxsOn(top)
  BY AvailableIs
<1>6. x[1] \in Tx /\ IF x[1] \in TxsOn(n.top) THEN x \in UnspentOn(n.top) ELSE x[1] \in given
  BY <1>1, <1>2, <1>3, <1>4, <1>5, HeldTypes
<1> HIDE DEF n, given
<1>7. InputGood(n, given, x)
  BY <1>1, <1>6, GoodInputIs
<1> QED  BY <1>7 DEF n, given

(***************************************************************************)
(* The outputs of a payment.                                               *)
(***************************************************************************)

SumUp(c, n, v) == n + v
Adding == INSTANCE Folding WITH Op <- SumUp

LEMMA SumOfFolds ==
  ASSUME NEW values, NEW zero, zero = 0
  PROVE  FoldLeft(LAMBDA n, v : n + v, 0, values) = Adding!Fold(zero, zero, values)
BY DEF SumUp, Adding!Fold, FoldLeft, MapThenFoldSet, Max, Adding!LastOf

\* The amount and the change are what the inputs are worth, unless one smallest
\* unit is left.
LEMMA ValuesAreGood ==
  ASSUME NEW s, TotalOf(s) \in Nat, NEW amount \in Nat \ {0},
         TotalOf(s) >= amount, TotalOf(s) - amount # Unit
  PROVE  ValuesGood(s, <<amount>> \o Change(s, amount))
<1> DEFINE rest == TotalOf(s) - amount
           first == <<amount>>
           second == Change(s, amount)
           values == <<amount>> \o Change(s, amount)
           zero == 0
           sum == FoldLeft(LAMBDA n, v : n + v, 0, values)
<1>1. rest \in Nat /\ rest # 1
  BY DEF Unit
<1>2. /\ first \in Seq(Nat) /\ Len(first) = 1 /\ first[1] = amount
      /\ second \in Seq(Nat) /\ Len(second) = IF rest > 1 THEN 1 ELSE 0
      /\ rest > 1 => second[1] = rest
  <2>1. second = IF rest > 1 THEN <<rest>> ELSE <<>>
    BY DEF Change, Unit
  <2> HIDE DEF second, rest
  <2> QED  BY <1>1, <2>1
<1>3. values = first \o second
  OBVIOUS
<1> HIDE DEF first, second, values, rest
<1>4. /\ values \in Seq(Nat) /\ Len(values) = IF rest > 1 THEN 2 ELSE 1
      /\ values[1] = amount /\ (rest > 1 => values[2] = rest)
  <2>1. /\ values \in Seq(Nat) /\ Len(values) = Len(first) + Len(second)
        /\ \A i \in 1..(Len(first) + Len(second)) :
             values[i] = IF i <= Len(first) THEN first[i] ELSE second[i - Len(first)]
    BY <1>2, <1>3, ConcatProperties
  <2>2. Len(values) = IF rest > 1 THEN 2 ELSE 1
    BY <1>2, <2>1
  <2>3. 1 \in 1..(Len(first) + Len(second)) /\ 1 <= Len(first)
    BY <1>2
  <2>4. values[1] = amount
    BY <1>2, <2>1, <2>3
  <2>5. ASSUME rest > 1  PROVE  values[2] = rest
    <3>1. 2 \in 1..(Len(first) + Len(second)) /\ ~(2 <= Len(first)) /\ 2 - Len(first) = 1
      BY <1>2, <2>5
    <3> QED  BY <1>2, <2>1, <2>5, <3>1
  <2> QED  BY <2>1, <2>2, <2>4, <2>5
<1>5. zero \in Nat /\ zero = 0
  OBVIOUS
<1>6. sum = Adding!Fold(zero, zero, values)
  BY <1>5, SumOfFolds, Zenon DEF values
<1> HIDE DEF sum, zero
<1> DEFINE Parts == [i \in 0..2 |-> IF i = 0 THEN {zero} ELSE IF i = 1 THEN {amount} ELSE {amount + rest}]
<1>7. Parts[0] = {zero} /\ Parts[1] = {amount} /\ Parts[2] = {amount + rest}
  OBVIOUS
<1> HIDE DEF Parts
<1>8. ASSUME NEW i \in 1..Len(values), NEW n \in Parts[i - 1]
      PROVE  SumUp(zero, n, values[i]) \in Parts[i]
  <2>1. CASE i = 1
    <3>0. i - 1 = 0
      BY <2>1
    <3>1. n = zero /\ values[i] = amount
      BY <1>4, <1>7, <2>1, <3>0
    <3> QED  BY <1>5, <1>7, <2>1, <3>1 DEF SumUp
  <2>2. CASE i # 1
    <3>1. rest > 1 /\ i = 2 /\ i - 1 = 1
      BY <1>4, <2>2
    <3>2. n = amount /\ values[i] = rest
      <4>1. n \in Parts[1]
        BY <3>1
      <4> QED  BY <1>4, <1>7, <3>1, <4>1
    <3> QED  BY <1>7, <3>1, <3>2 DEF SumUp
  <2> QED  BY <2>1, <2>2
<1>9. zero \in Parts[0]
  BY <1>7
<1>10. sum \in Parts[Len(values)]
  <2>1. Adding!Fold(zero, zero, values) \in Parts[Len(values)]
    BY <1>4, <1>8, <1>9, Adding!FoldReaches
  <2> QED  BY <1>6, <2>1
<1>11. sum = TotalOf(s)
  <2>1. CASE rest > 1
    <3>1. Len(values) = 2
      BY <1>4, <2>1
    <3> QED  BY <1>7, <1>10, <3>1 DEF rest
  <2>2. CASE ~(rest > 1)
    <3>1. Len(values) = 1
      BY <1>4, <2>2
    <3> QED  BY <1>1, <1>7, <1>10, <2>2, <3>1 DEF rest
  <2> QED  BY <2>1, <2>2
<1>12. TotalOf(s) - sum < Unit /\ sum - TotalOf(s) < Unit
  BY <1>11 DEF Unit
<1>13. \A i \in DOMAIN values : values[i] >= Unit
  <2>1. DOMAIN values = 1..Len(values)
    BY <1>4, LenProperties
  <2>2. \A i \in 1..Len(values) : i = 1 \/ (rest > 1 /\ i = 2)
    BY <1>4
  <2>3. \A i \in 1..Len(values) : values[i] = amount \/ (rest > 1 /\ values[i] = rest)
    BY <1>4, <2>2
  <2> QED  BY <2>1, <2>3 DEF Unit, rest
<1> QED  BY <1>12, <1>13 DEF ValuesGood, sum, values

\* Whoever has the money, approved or pending, can pay, and only then: the inputs of
\* a prepared payment are spent neither by the branch nor by the pool and are on its
\* list once, and the node that has prepared it accepts it, unless one smallest unit
\* is left.
THEOREM PaymentsAreAlwaysFunded ==
  ASSUME OlderInputsFirst  PROVE  SpecPayments => []PaymentsAreFunded
<1>1. MoneyInv => PaymentsAreFunded
  <2> SUFFICES ASSUME MoneyInv, Undisturbed, NEW k \in Key, NEW amount \in Amount,
                      NEW s \in Inputs(Loaded(Current), k, amount)
               PROVE  /\ Covers(s, amount) <=> Total(Available(k)) >= amount
                      /\ IsInjective(s)
                      /\ \A i \in DOMAIN s :
                           s[i] \in Available(k) /\ InputGood(Derived, Known(Loaded(Current)), s[i])
                      /\ Covers(s, amount) /\ TotalOf(s) - amount # Unit =>
                           ValuesGood(s, <<amount>> \o Change(s, amount))
    BY DEF PaymentsAreFunded
  <2>1. amount \in Nat \ {0} /\ amount \in Nat
    BY Transfers
  <2>2. /\ s \in OutputLists /\ Members(s) \subseteq Available(k)
        /\ Covers(s, amount) <=> Total(Available(k)) >= amount
    BY <2>1, InputsAre
  <2>3. IsInjective(s) /\ \A i \in DOMAIN s : s[i] \in Available(k)
    BY <2>2 DEF OutputLists, Members
  <2>4. \A i \in DOMAIN s : InputGood(Derived, Known(Loaded(Current)), s[i])
    BY <2>3, AvailableIsGood
  <2>5. ASSUME Covers(s, amount), TotalOf(s) - amount # Unit
        PROVE  ValuesGood(s, <<amount>> \o Change(s, amount))
    BY <2>1, <2>2, <2>5, TotalOfList, ValuesAreGood DEF Covers
  <2> QED  BY <2>2, <2>3, <2>4, <2>5
<1> QED  BY <1>1, MoneyInvHolds, PTL

(***************************************************************************)
(* There is a list of the inputs: finitely many outputs can be put in      *)
(* order, by their value as by their place in a map of transactions.       *)
(***************************************************************************)

IsOrder(R, S) ==
  /\ \A x, y \in S : <<x, y>> \in R \/ <<y, x>> \in R
  /\ \A x, y, z \in S : <<x, y>> \in R /\ <<y, z>> \in R => <<x, z>> \in R
InOrder(R, S) ==
  {s \in SetToSeqs(S) : \A j \in DOMAIN s : \A i \in 1..j : <<s[i], s[j]>> \in R}

\* One of them comes last.
LEMMA OneIsLast ==
  ASSUME NEW R, NEW S, IsFiniteSet(S), S # {}, IsOrder(R, S)
  PROVE  \E m \in S : \A x \in S : <<x, m>> \in R
<1> DEFINE NotUnder(m) == {x \in S : <<x, m>> \notin R}
           Counts == {Cardinality(NotUnder(m)) : m \in S}
<1>1. ASSUME NEW m \in S  PROVE  IsFiniteSet(NotUnder(m)) /\ Cardinality(NotUnder(m)) \in Nat
  <2>1. NotUnder(m) \in SUBSET S
    OBVIOUS
  <2> HIDE DEF NotUnder
  <2> QED  BY <2>1, FS_Subset, FS_CardinalityType
<1>2. PICK n \in Counts : \A k \in Counts : n <= k
  <2>1. Counts \in SUBSET Nat /\ Counts # {}
    BY <1>1
  <2> HIDE DEF Counts
  <2> QED  BY <2>1, Walks!LeastNumber
<1>3. PICK m \in S : n = Cardinality(NotUnder(m))
  BY <1>2
<1>4. ASSUME NEW x \in NotUnder(m)  PROVE  FALSE
  <2>1. x \in S /\ <<x, m>> \notin R /\ <<m, x>> \in R /\ <<x, x>> \in R
    BY DEF IsOrder
  <2>2. \A y \in S : <<y, m>> \in R => <<y, x>> \in R
    BY <2>1 DEF IsOrder
  <2>3. NotUnder(x) \in SUBSET NotUnder(m) /\ x \notin NotUnder(x)
    BY <2>1, <2>2
  <2>4. Cardinality(NotUnder(m)) <= Cardinality(NotUnder(x))
    BY <1>2, <1>3, <2>1
  <2> DEFINE A == NotUnder(m)
             B == NotUnder(x)
  <2>5. IsFiniteSet(A) /\ Cardinality(A) \in Nat /\ Cardinality(B) \in Nat /\ B \in SUBSET A
        /\ Cardinality(A) <= Cardinality(B)
    BY <1>1, <2>1, <2>3, <2>4
  <2>6. x \in A /\ x \notin B
    BY <2>3
  <2> HIDE DEF A, B
  <2>7. Cardinality(B) <= Cardinality(A) /\ (Cardinality(A) = Cardinality(B) => A = B)
    BY <2>5, FS_Subset
  <2> QED  BY <2>5, <2>6, <2>7
<1> QED  BY <1>4

\* A list and one more.
LEMMA OneMoreInOrder ==
  ASSUME NEW R, NEW S, IsFiniteSet(S), NEW m \in S, \A x \in S : <<x, m>> \in R,
         NEW s \in InOrder(R, S \ {m})
  PROVE  InOrder(R, S) # {}
<1> DEFINE T == S \ {m}
           n == Cardinality(S)
           k == Cardinality(T)
           q == [i \in 1..n |-> IF i = n THEN m ELSE s[i]]
<1>1. IsFiniteSet(T) /\ n \in Nat /\ k \in Nat /\ k = n - 1
  BY FS_RemoveElement, FS_CardinalityType
<1>2. /\ s \in [1..k -> T] /\ \A i, j \in 1..k : i # j => s[i] # s[j]
      /\ \A j \in DOMAIN s : \A i \in 1..j : <<s[i], s[j]>> \in R
  BY DEF InOrder, SetToSeqs
<1>3. \A i \in T : i \in S /\ i # m
  OBVIOUS
<1>4. DOMAIN q = 1..n /\ \A i \in 1..n : q[i] = IF i = n THEN m ELSE s[i]
  OBVIOUS
<1>5. q = [i \in 1..n |-> q[i]]
  OBVIOUS
<1> HIDE DEF T, n, k, q
<1>6. \A i \in 1..n : i # n => i \in 1..k /\ s[i] \in T
  BY <1>1, <1>2
<1>7. q \in [1..n -> S]
  <2>1. \A i \in 1..n : q[i] \in S
    BY <1>3, <1>4, <1>6
  <2> QED  BY <1>5, <2>1
<1>8. ASSUME NEW i \in 1..n, NEW j \in 1..n, i # j  PROVE  q[i] # q[j]
  <2>1. CASE i = n
    <3>1. q[i] = m /\ q[j] = s[j] /\ s[j] \in T
      BY <1>4, <1>6, <1>8, <2>1
    <3> QED  BY <1>3, <3>1
  <2>2. CASE j = n
    <3>1. q[j] = m /\ q[i] = s[i] /\ s[i] \in T
      BY <1>4, <1>6, <1>8, <2>2
    <3> QED  BY <1>3, <3>1
  <2>3. CASE i # n /\ j # n
    <3>1. q[i] = s[i] /\ q[j] = s[j] /\ i \in 1..k /\ j \in 1..k
      BY <1>4, <1>6, <2>3
    <3> QED  BY <1>2, <1>8, <3>1
  <2> QED  BY <2>1, <2>2, <2>3
<1>9. ASSUME NEW j \in 1..n, NEW i \in 1..j  PROVE  <<q[i], q[j]>> \in R
  <2>1. i \in 1..n
    BY <1>1
  <2>2. CASE j = n
    BY <1>4, <1>7, <2>1, <2>2
  <2>3. CASE j # n
    <3>1. i # n /\ j \in 1..k /\ i \in 1..k /\ DOMAIN s = 1..k
      BY <1>1, <1>2, <1>6, <2>1, <2>3
    <3>2. q[i] = s[i] /\ q[j] = s[j]
      BY <1>4, <2>1, <2>3, <3>1
    <3> QED  BY <1>2, <3>1, <3>2
  <2> QED  BY <2>2, <2>3
<1>10. q \in SetToSeqs(S)
  BY <1>7, <1>8 DEF SetToSeqs, n
<1> QED  BY <1>4, <1>9, <1>10 DEF InOrder

LEMMA ListsInOrder ==
  ASSUME NEW R, NEW S, IsFiniteSet(S), IsOrder(R, S)
  PROVE  InOrder(R, S) # {}
<1> DEFINE n == Cardinality(S)
           G == {k \in Nat : \A T \in SUBSET S : Cardinality(T) = k => InOrder(R, T) # {}}
           none == {}
           e == <<>>
           zero == 0
<1>1. n \in Nat
  BY FS_CardinalityType
<1>2. \A T \in SUBSET S : IsFiniteSet(T) /\ IsOrder(R, T)
  BY FS_Subset DEF IsOrder
<1>3. zero \in G
  <2> SUFFICES ASSUME NEW T \in SUBSET S, Cardinality(T) = zero  PROVE  InOrder(R, T) # {}
    OBVIOUS
  <2>1. T = {}
    BY <1>2, FS_EmptySet
  <2>2. <<>> \in SetToSeqs(T)
    <3>1. 1..Cardinality(T) = {}
      OBVIOUS
    <3>2. SetToSeqs(T) = {f \in [1..Cardinality(T) -> T] : \A i, j \in 1..Cardinality(T) : i # j => f[i] # f[j]}
      BY DEF SetToSeqs
    <3>3. <<>> \in [1..Cardinality(T) -> T]
      BY <2>1, <3>1
    <3> QED  BY <3>1, <3>2, <3>3
  <2>3. <<>> \in InOrder(R, T)
    BY <2>2 DEF InOrder
  <2> QED  BY <2>3
<1>4. ASSUME NEW k \in 1..n, k - 1 \in G  PROVE  k \in G
  <2> SUFFICES ASSUME NEW T \in SUBSET S, Cardinality(T) = k  PROVE  InOrder(R, T) # {}
    BY <1>1
  <2>1. T # {} /\ IsFiniteSet(T) /\ IsOrder(R, T)
    BY <1>2, FS_EmptySet
  <2>2. PICK m \in T : \A x \in T : <<x, m>> \in R
    BY <2>1, OneIsLast
  <2> DEFINE rest == T \ {m}
  <2>3. Cardinality(rest) = k - 1 /\ rest \in SUBSET S
    BY <2>1, FS_RemoveElement
  <2>4. InOrder(R, rest) # {}
    <3> HIDE DEF rest
    <3> QED  BY <1>4, <2>3
  <2> QED  BY <2>1, <2>2, <2>4, OneMoreInOrder
<1>5. 0..n \subseteq G
  <2> HIDE DEF G, n
  <2> QED  BY <1>1, <1>3, <1>4, Walks!UpTo DEF zero
<1>6. n \in G
  BY <1>1, <1>5
<1> QED  BY <1>6

\* The smallest ones can come first, and the outputs of transactions that can be
\* pending can come by transaction.
LEMMA OrdersOfOutputs ==
  ASSUME NEW S \in SUBSET AllOutputs, IsFiniteSet(S)
  PROVE  /\ SmallestFirst(S) # {}
         /\ (\A x \in S : x[1] \in Held) => InMapOrder(S) # {}
<1>1. \A x \in S : x[1] \in Tx /\ x[2] \in Nat /\ x = <<x[1], x[2]>> /\ Value[x] \in Nat
  <2>1. \A t \in Tx : Outs[t] \subseteq Nat
    BY TxTypes
  <2>2. \A x \in AllOutputs : \E t \in Tx, o \in Nat : x = <<t, o>>
    BY <2>1 DEF AllOutputs, Outputs
  <2> QED  BY <2>2, Transfers
<1>2. SmallestFirst(S) # {}
  <2> DEFINE R == {p \in S \X S : Value[p[1]] <= Value[p[2]]}
  <2>1. \A x, y \in S : <<x, y>> \in R <=> Value[x] <= Value[y]
    OBVIOUS
  <2> HIDE DEF R
  <2>2. IsOrder(R, S)
    BY <1>1, <2>1 DEF IsOrder
  <2>3. PICK s \in InOrder(R, S) : TRUE
    BY <2>2, ListsInOrder
  <2>4. s \in SetToSeqs(S) /\ \A j \in DOMAIN s : \A i \in 1..j : <<s[i], s[j]>> \in R
    BY DEF InOrder
  <2>5. /\ s \in OutputLists /\ Members(s) = S
        /\ DOMAIN s = 1..Len(s) /\ Len(s) \in Nat /\ \A j \in 1..Len(s) : s[j] \in Members(s)
    BY <2>4, WholeLists, ListOfOutputs DEF Members
  <2>6. \A j \in DOMAIN s : \A i \in 1..j : Value[s[i]] <= Value[s[j]]
    <3> SUFFICES ASSUME NEW j \in DOMAIN s, NEW i \in 1..j  PROVE  Value[s[i]] <= Value[s[j]]
      OBVIOUS
    <3>1. i \in 1..Len(s) /\ j \in 1..Len(s)
      BY <2>5
    <3> QED  BY <2>1, <2>4, <2>5, <3>1
  <2> QED  BY <2>4, <2>6 DEF SmallestFirst
<1>3. ASSUME \A x \in S : x[1] \in Held  PROVE  InMapOrder(S) # {}
  <2> DEFINE at(t) == CHOOSE i \in DOMAIN Timeline : Timeline[i] = t
             R == {p \in S \X S : \/ at(p[1][1]) < at(p[2][1])
                                  \/ p[1][1] = p[2][1] /\ p[1][2] <= p[2][2]}
  <2>1. \A t \in Held : at(t) \in Nat /\ Timeline[at(t)] = t
    <3>1. \A t \in Held : \E i \in DOMAIN Timeline : Timeline[i] = t
      BY DEF Held, Members
    <3>2. DOMAIN Timeline \subseteq Nat
      BY Pending
    <3> QED  BY <3>1, <3>2
  <2>2. \A x, y \in S : <<x, y>> \in R <=> \/ at(x[1]) < at(y[1])
                                           \/ x[1] = y[1] /\ x[2] <= y[2]
    OBVIOUS
  <2> HIDE DEF at, R
  <2>3. \A x \in S : at(x[1]) \in Nat /\ x[2] \in Nat
    BY <1>1, <1>3, <2>1
  <2>4. \A x, y \in S : at(x[1]) = at(y[1]) => x[1] = y[1]
    BY <1>3, <2>1
  <2>5. IsOrder(R, S)
    <3>1. ASSUME NEW x \in S, NEW y \in S  PROVE  <<x, y>> \in R \/ <<y, x>> \in R
      BY <2>2, <2>3, <2>4
    <3>2. ASSUME NEW x \in S, NEW y \in S, NEW z \in S, <<x, y>> \in R, <<y, z>> \in R
          PROVE  <<x, z>> \in R
      <4>1. \/ at(x[1]) < at(y[1])
            \/ x[1] = y[1] /\ x[2] <= y[2]
        BY <2>2, <3>2
      <4>2. \/ at(y[1]) < at(z[1])
            \/ y[1] = z[1] /\ y[2] <= z[2]
        BY <2>2, <3>2
      <4>3. \/ at(x[1]) < at(z[1])
            \/ x[1] = z[1] /\ x[2] <= z[2]
        BY <2>3, <4>1, <4>2
      <4> QED  BY <2>2, <4>3
    <3> QED  BY <3>1, <3>2 DEF IsOrder
  <2>6. PICK s \in InOrder(R, S) : TRUE
    BY <2>5, ListsInOrder
  <2>7. s \in SetToSeqs(S) /\ \A j \in DOMAIN s : \A i \in 1..j : <<s[i], s[j]>> \in R
    BY DEF InOrder
  <2>8. /\ DOMAIN s = 1..Len(s) /\ Len(s) \in Nat /\ \A j \in 1..Len(s) : s[j] \in S
        /\ \A i, j \in 1..Len(s) : s[i] = s[j] => i = j
    BY <2>7, WholeLists, ListOfOutputs DEF Members
  <2>9. ASSUME NEW j \in DOMAIN s, NEW i \in 1..(j - 1), s[i][1] = s[j][1]
        PROVE  s[i][2] < s[j][2] /\ \A m \in i..j : s[m][1] = s[i][1]
    <3>1. i \in 1..Len(s) /\ j \in 1..Len(s) /\ i # j /\ i \in 1..j
      BY <2>8
    <3>2. s[i] \in S /\ s[j] \in S /\ s[i] # s[j] /\ <<s[i], s[j]>> \in R
      BY <2>7, <2>8, <3>1
    <3>3. s[i][2] < s[j][2]
      <4>1. s[i][2] <= s[j][2]
        BY <2>2, <2>3, <2>9, <3>2
      <4>2. s[i][2] # s[j][2]
        <5>1. s[i] = <<s[i][1], s[i][2]>> /\ s[j] = <<s[j][1], s[j][2]>>
          BY <1>1, <3>2
        <5> QED  BY <2>9, <3>2, <5>1
      <4>3. s[i][2] \in Nat /\ s[j][2] \in Nat
        BY <2>3, <3>2
      <4> QED  BY <4>1, <4>2, <4>3
    <3>4. ASSUME NEW m \in i..j  PROVE  s[m][1] = s[i][1]
      <4>1. m \in 1..Len(s) /\ i \in 1..m /\ m \in 1..j
        BY <2>8, <3>1
      <4>2. s[m] \in S /\ <<s[i], s[m]>> \in R /\ <<s[m], s[j]>> \in R
        BY <2>7, <2>8, <3>1, <4>1
      <4>3. \/ at(s[i][1]) < at(s[m][1])
            \/ s[i][1] = s[m][1]
        BY <2>2, <3>2, <4>2
      <4>4. \/ at(s[m][1]) < at(s[j][1])
            \/ s[m][1] = s[j][1]
        BY <2>2, <3>2, <4>2
      <4>5. at(s[i][1]) \in Nat /\ at(s[m][1]) \in Nat /\ at(s[i][1]) = at(s[j][1])
        BY <2>3, <2>9, <3>2, <4>2
      <4> QED  BY <2>9, <4>3, <4>4, <4>5
    <3> QED  BY <3>3, <3>4
  <2> QED  BY <2>7, <2>9 DEF InMapOrder
<1> QED  BY <1>2, <1>3

\* A node always comes to some inputs.
LEMMA InputsExist ==
  ASSUME MoneyInv, Undisturbed, NEW k \in Key, NEW amount \in Nat
  PROVE  Inputs(Loaded(Current), k, amount) # {}
<1> DEFINE prepared == PreparedBy(Loaded(Current), k)
           mine == Locked(k) \ prepared.inputs
           F == prepared.free
<1>1. /\ Locked(k) \in SUBSET AllOutputs /\ IsFiniteSet(Locked(k))
      /\ F \in SUBSET AllOutputs /\ IsFiniteSet(F)
      /\ \A x \in F : x[1] \in pool \ TxsOn(top)
  BY AvailableIs
<1>2. mine \in SUBSET AllOutputs /\ IsFiniteSet(mine)
  <2>1. mine \subseteq Locked(k)
    OBVIOUS
  <2> QED  BY <1>1, <2>1, FS_Subset
<1>3. \A x \in F : x[1] \in Held
  BY <1>1, MoneyFacts
<1>4. SmallestFirst(mine) # {} /\ InMapOrder(F) # {}
  <2> HIDE DEF mine, F
  <2> QED  BY <1>1, <1>2, <1>3, OrdersOfOutputs
<1>5. SmallestFirst(mine) \subseteq SetToSeqs(mine)
  BY DEF SmallestFirst
<1>6. PICK s : s \in ChooseSpendable(k, amount, prepared.inputs)
  BY <1>4, <1>5 DEF ChooseSpendable
<1>7. PICK e : e \in InMapOrder(F)
  BY <1>4
<1> DEFINE q == s \o Until(e, TotalOf(s), amount)
<1>8. q \in Extend(s, amount, F)
  BY <1>7 DEF Extend
<1> HIDE DEF q, F
<1>9. (IF TotalOf(s) >= amount THEN s ELSE q) \in (IF TotalOf(s) >= amount THEN {s} ELSE Extend(s, amount, F))
  BY <1>8
<1>10. (IF TotalOf(s) >= amount THEN s ELSE q) \in Inputs(Loaded(Current), k, amount)
  BY <1>6, <1>9 DEF Inputs, F
<1> QED  BY <1>10

\* What is left to a key is finite.
LEMMA AvailableIsFinite ==
  ASSUME MoneyInv, Undisturbed, NEW k \in Key
  PROVE  Available(k) \in SUBSET AllOutputs /\ IsFiniteSet(Available(k))
<1> DEFINE prepared == PreparedBy(Loaded(Current), k)
           L == Locked(k)
           mine == L \ prepared.inputs
           F == prepared.free
<1>1. /\ Available(k) = mine \cup F
      /\ L \in SUBSET AllOutputs /\ IsFiniteSet(L) /\ F \in SUBSET AllOutputs /\ IsFiniteSet(F)
  BY AvailableIs
<1>2. mine \in SUBSET L
  OBVIOUS
<1> HIDE DEF L, F, mine
<1>3. IsFiniteSet(mine)
  BY <1>1, <1>2, FS_Subset
<1> QED  BY <1>1, <1>2, <1>3, FS_Union

(***************************************************************************)
(* The bases of a statement that is prepared.                              *)
(***************************************************************************)

\* What is in force on a row is the line of the last one.
LEMMA LineInForce ==
  ASSUME RowsInv, NEW r \in DataRow \ torn, InForce(r) # {}
  PROVE  \E l \in InForce(r) : l \in Tx /\ InForce(r) = LineOf(l) /\ LastInForce(r) = {l}
<1> DEFINE S == InForce(r)
           none == {}
<1>1. S = RowOf(TxsOn(top) \cup Current.pool, r) /\ Current.torn = torn
  BY DEF InForce, RowOf, Current
<1>2. RowsReplay(TxsOn(top), Current, none)
  BY RowsFacts
<1> HIDE DEF S, none
<1>3. RowReplays(TxsOn(top), Current, asked, ran, r)
  BY <1>1, <1>2 DEF RowsReplay, none
<1>4. \E w : IsReplay(S, w)
  BY <1>1, <1>3 DEF RowReplays
<1>5. PICK l \in S : l \in Tx /\ S = LineOf(l)
  BY <1>4 DEF IsReplay, S
<1>6. LastInForce(r) = {l}
  <2>1. \A d \in S : ~(OnSameRow(d) /\ Base[d] = l)
    BY <1>5, LineEnds
  <2>2. ASSUME NEW x \in S, x # l  PROVE  \E d \in S : OnSameRow(d) /\ Base[d] = x
    BY <1>5, <2>2, LineIsFollowed
  <2>3. LastInForce(r) = {t \in S : \A d \in S : ~(OnSameRow(d) /\ Base[d] = t)}
    BY DEF LastInForce, S
  <2> QED  BY <2>1, <2>2, <2>3
<1> QED  BY <1>5, <1>6 DEF S

LEMMA ThreeAreThree ==
  ASSUME NEW S, IsFiniteSet(S), NEW x \in S, NEW y \in S, NEW z \in S, x # y, x # z, y # z
  PROVE  ~(Cardinality(S) < 3)
<1> DEFINE A == {x}
           B == A \cup {y}
           C == B \cup {z}
<1>1. y \notin A /\ z \notin B /\ C \in SUBSET S
  OBVIOUS
<1>2. IsFiniteSet(A) /\ Cardinality(A) = 1
  BY FS_Singleton
<1> HIDE DEF A
<1>3. IsFiniteSet(B) /\ Cardinality(B) = 2
  BY <1>1, <1>2, FS_AddElement
<1> HIDE DEF B
<1>4. IsFiniteSet(C) /\ Cardinality(C) = 3
  BY <1>1, <1>3, FS_AddElement
<1> HIDE DEF C
<1>5. 3 <= Cardinality(S)
  BY <1>1, <1>4, FS_Subset
<1> QED  BY <1>5, FS_CardinalityType

\* The last one in force is found as the base, and nothing else when no three
\* pending transactions are about the row.
LEMMA BasesAre ==
  ASSUME RowsInv, MoneyInv, Undisturbed, NEW t \in Held \cap SQL, Ref[t] \in DataRow \ torn,
         InForce(Ref[t]) # {}
  PROVE  /\ LastInForce(Ref[t]) \subseteq BasesFound(Derived, Loaded(Current), t)
         /\ Cardinality(PendingOf(Ref[t])) < 3 =>
              BasesFound(Derived, Loaded(Current), t) = LastInForce(Ref[t])
<1> DEFINE r == Ref[t]
           S == InForce(r)
           P == PendingOf(r)
           C == TxsOn(top)
           bases == BasesFound(Derived, Loaded(Current), t)
           ofPool == BasesInPool(Loaded(Current), t)
<1>1. /\ Known(Loaded(Current)) = pool /\ IsFiniteSet(pool) /\ top \in Block
      /\ refs \in RefsRight(top) /\ Forgotten(Derived) \subseteq torn
      /\ \A x \in pool \cap C : x \in SQL => Ref[x] \in torn
  BY MoneyFacts
<1>2. PICK l \in S : l \in Tx /\ S = LineOf(l) /\ LastInForce(r) = {l}
  BY LineInForce
<1>3. /\ S = {x \in C \cup pool : Ref[x] = r} /\ P = {x \in pool : Ref[x] = r}
      /\ P \subseteq S /\ IsFiniteSet(P)
  <2>1. S = {x \in C \cup pool : Ref[x] = r} /\ P = {x \in pool : Ref[x] = r}
    BY DEF InForce, PendingOf
  <2>2. P \in SUBSET pool
    BY <2>1
  <2> QED  BY <1>1, <2>1, <2>2, FS_Subset
<1>4. /\ ofPool = {x \in P : \A d \in P : Base[d] = x => \E e \in P : Base[e] = d}
      /\ bases = IF ofPool # {} THEN ofPool ELSE {BaseOnChain(Derived, t)}
  BY <1>1, <1>3 DEF BasesInPool, BasesFound
<1>5. S \in SUBSET Tx /\ \A x \in S : Ref[x] = r /\ Base[x] # x /\ x \in SQL
  <2>1. S \in SUBSET Tx
    BY <1>2, LineFacts
  <2> QED  BY <1>3, <2>1, BaseTypes, StatementsOfRows
<1>6. \A x \in P : x \notin C
  BY <1>1, <1>3, <1>5
<1> HIDE DEF r, S, P, C, bases, ofPool
\* What follows a pending transaction is pending.
<1>7. ASSUME NEW d \in S, OnSameRow(d), Base[d] \in P  PROVE  d \in P
  <2>1. CASE d \in C
    <3>1. Base[d] \in C
      BY <1>1, <2>1, <1>7, FollowedIsNotLast DEF OnSameRow, C
    <3> QED  BY <1>6, <1>7, <3>1
  <2> QED  BY <1>3, <1>7, <2>1
<1>8. \A d \in S : OnSameRow(d) => Base[d] # l
  BY <1>2, LineEnds
<1>9. CASE P = {}
  <2>1. ofPool = {} /\ bases = {BaseOnChain(Derived, t)}
    BY <1>4, <1>9
  <2>2. S \subseteq C
    BY <1>3, <1>9
  <2>3. LastOfRow(top, r) # {}
    BY <1>1, <1>2, <1>5, <2>2, RowHasLast DEF C
  <2>4. Derived.refs = refs /\ Derived.top = top /\ r \in Row
    BY DEF Derived, r, DataRow
  <2>5. refs[r] # NoTx
    BY <1>1, <2>3, <2>4 DEF Forgotten, r
  <2>6. refs[r] \in LastOfRow(top, r)
    BY <1>1, <2>4, <2>5 DEF RefsRight
  <2>7. refs[r] \in S
    BY <1>1, <1>3, <2>6, LastIsOnBranch DEF C
  <2>8. ASSUME refs[r] # l  PROVE  FALSE
    <3>1. PICK d \in S : OnSameRow(d) /\ Base[d] = refs[r]
      BY <1>2, <2>7, <2>8, LineIsFollowed
    <3>2. Base[d] \notin LastOfRow(top, Ref[d])
      BY <1>1, <2>2, <3>1, FollowedIsNotLast DEF OnSameRow, C
    <3> QED  BY <1>5, <2>6, <3>1, <3>2
  <2>9. BaseOnChain(Derived, t) = l
    BY <2>4, <2>5, <2>8 DEF BaseOnChain, r
  <2> QED  BY <1>2, <2>1, <2>9 DEF r, bases
<1>10. CASE P # {}
  <2>1. l \in P
    <3> SUFFICES ASSUME l \notin P  PROVE  FALSE
      BY Zenon
    <3> DEFINE D == S \ P
    <3>1. D \in SUBSET Tx /\ l \in D
      BY <1>2, <1>5
    <3>2. HasBases(D)
      <4>1. \A d \in S : OnSameRow(d) => Base[d] \in S
        BY <1>2, LineFacts DEF HasBases
      <4> QED  BY <1>7, <4>1 DEF HasBases
    <3> HIDE DEF D
    <3>3. LineOf(l) \subseteq D
      BY <1>2, <3>1, <3>2, LineFacts
    <3> QED  BY <1>2, <1>3, <1>10, <3>3 DEF D
  <2>2. l \in ofPool
    <3>1. \A d \in P : Base[d] # l
      <4> SUFFICES ASSUME NEW d \in P, Base[d] = l  PROVE  FALSE
        OBVIOUS
      <4>1. OnSameRow(d)
        BY <1>2, <1>3, <1>5, BaseTypes DEF OnSameRow
      <4> QED  BY <1>3, <1>8, <4>1
    <3> QED  BY <1>4, <2>1, <3>1
  <2>3. bases = ofPool
    BY <1>4, <2>2
  <2>4. ASSUME Cardinality(P) < 3, NEW x \in ofPool, x # l  PROVE  FALSE
    <3>1. x \in P /\ x \in S
      BY <1>3, <1>4
    <3>2. PICK d \in S : OnSameRow(d) /\ Base[d] = x
      BY <1>2, <2>4, <3>1, LineIsFollowed
    <3>3. d \in P /\ d # x
      BY <1>5, <1>7, <3>1, <3>2
    <3>4. PICK e \in P : Base[e] = d
      BY <1>4, <3>2, <3>3
    <3>5. d # l
      <4>1. OnSameRow(e)
        BY <1>3, <1>5, <3>2, <3>4, BaseTypes DEF OnSameRow
      <4> QED  BY <1>3, <1>8, <3>4, <4>1
    <3> QED  BY <1>3, <2>1, <2>4, <3>1, <3>3, <3>5, ThreeAreThree
  <2> QED  BY <1>2, <2>2, <2>3, <2>4 DEF r, P, bases
<1> QED  BY <1>9, <1>10

\* A statement can be prepared by whoever can pay its price, and no one else:
\* prepareSQLTransaction finds what is in force last on its row, and only that
\* unless three pending transactions are about the row.
THEOREM StatementsAreAlwaysPrepared ==
  ASSUME OlderInputsFirst  PROVE  SpecPayments => []StatementsArePrepared
<1>1. RowsInv /\ MoneyInv => StatementsArePrepared
  <2> SUFFICES ASSUME RowsInv, MoneyInv, Undisturbed, NEW t \in Held \cap SQL, NEW k \in Key,
                      NEW price \in Amount \cup {0},
                      Ref[t] \in DataRow \ torn, InForce(Ref[t]) # {}
               PROVE  LET bases == {q.base : q \in PreparedSQL(Loaded(Current), k, price, t)}
                          last == LastInForce(Ref[t])
                      IN  IF price > Total(Available(k)) THEN bases = {}
                          ELSE /\ last \subseteq bases
                               /\ Cardinality(PendingOf(Ref[t])) < 3 => bases = last
    BY DEF StatementsArePrepared
  <2> DEFINE bases == {q.base : q \in PreparedSQL(Loaded(Current), k, price, t)}
             B == BasesFound(Derived, Loaded(Current), t)
             paid == IF price = 0 THEN {<<>>}
                     ELSE {s \in Inputs(Loaded(Current), k, price) : Covers(s, price)}
  <2>1. price \in Nat /\ Total(Available(k)) \in Nat
    <3>1. Available(k) \in SUBSET AllOutputs /\ IsFiniteSet(Available(k))
      BY AvailableIsFinite
    <3> QED  BY <3>1, Transfers, TotalType
  <2>2. bases = IF paid = {} THEN {} ELSE B
    <3>1. PreparedSQL(Loaded(Current), k, price, t) = [inputs : paid, base : B]
      BY DEF PreparedSQL
    <3> HIDE DEF paid, B
    <3>2. \A q \in [inputs : paid, base : B] : q.base \in B /\ paid # {}
      OBVIOUS
    <3>3. \A s \in paid, b \in B : [inputs |-> s, base |-> b] \in [inputs : paid, base : B]
      OBVIOUS
    <3>4. ASSUME NEW s \in paid, NEW b \in B  PROVE  b \in bases
      <4> DEFINE q == [inputs |-> s, base |-> b]
      <4>1. q \in PreparedSQL(Loaded(Current), k, price, t)
        BY <3>1, <3>3
      <4>2. q.base = b
        OBVIOUS
      <4> HIDE DEF q
      <4> QED  BY <4>1, <4>2
    <3>5. \A b \in bases : b \in B /\ paid # {}
      BY <3>1, <3>2
    <3> QED  BY <3>4, <3>5
  <2>3. price > Total(Available(k)) <=> paid = {}
    <3>1. CASE price = 0
      BY <2>1, <3>1
    <3>2. CASE price # 0
      <4>1. \A s \in Inputs(Loaded(Current), k, price) : Covers(s, price) <=> Total(Available(k)) >= price
        BY <2>1, InputsAre
      <4>2. Inputs(Loaded(Current), k, price) # {}
        BY <2>1, InputsExist
      <4> QED  BY <2>1, <3>2, <4>1, <4>2
    <3> QED  BY <3>1, <3>2
  <2>4. /\ LastInForce(Ref[t]) \subseteq B
        /\ Cardinality(PendingOf(Ref[t])) < 3 => B = LastInForce(Ref[t])
    BY BasesAre
  <2> HIDE DEF bases, B, paid
  <2>5. IF price > Total(Available(k)) THEN bases = {}
        ELSE /\ LastInForce(Ref[t]) \subseteq bases
             /\ Cardinality(PendingOf(Ref[t])) < 3 => bases = LastInForce(Ref[t])
    BY <2>2, <2>3, <2>4
  <2> QED  BY <2>5 DEF bases
<1> QED  BY <1>1, MoneyInvHolds, RowsInvHolds, PTL
=============================================================================
