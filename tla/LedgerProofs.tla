----------------------------- MODULE LedgerProofs -----------------------------
(***************************************************************************)
(* What a node derives from its blocks is what the primary branch says:    *)
(* proofs of the invariants of Ledger, for every block tree, every set of  *)
(* transactions and every order in which the blocks come.  The first part  *)
(* is about the queries of ChainQueries, which answer as a plain walk over *)
(* the parents does, in every block tree and for every tip.                *)
(***************************************************************************)
EXTENDS Ledger, SequenceTheorems, TLAPS

(***************************************************************************)
(* The walk down a branch.                                                 *)
(***************************************************************************)

\* One more block on top of a walk.
OnTopOf(c, walk, b) == <<b>> \o walk
Walks == INSTANCE Folding WITH Op <- OnTopOf

\* The blocks are a tree whose depths are the heights.
LEMMA BlocksAreTree == Walks!IsTree(Block, Genesis, Prev, Height)
BY BlockTree
   DEF Walks!IsTree

\* The facts of the block tree that the proofs use.
LEMMA TreeFacts ==
  /\ Genesis \in Block /\ NoHash \notin Block /\ Height[Genesis] = 0
  /\ \A b \in Block : Height[b] \in Nat
  /\ \A b \in Block \ {Genesis} :
       /\ Prev[b] \in Block
       /\ Height[b] = Height[Prev[b]] + 1
       /\ Height[b] # 0
BY BlockTree

\* The iterator goes on with the parent of a block.
LEMMA WalkStep ==
  ASSUME NEW b \in Block
  PROVE  Walk[b] = IF b = Genesis THEN <<b>> ELSE <<b>> \o Walk[Prev[b]]
<1>1. \E f : Walks!IsAlong(f, 0, <<>>, Block, Genesis, Prev)
  BY BlocksAreTree, Walks!AlongExists DEF Walks!IsTree
<1>2. \A x : <<x>> \o <<>> = <<x>>
  <2>1. ASSUME NEW x  PROVE  <<x>> \o <<>> = <<x>>
    <3>1. <<x>> \in Seq({x})
      OBVIOUS
    <3> QED  BY <3>1, ConcatEmptySeq
  <2> QED  BY <2>1
<1>3. \E f : f = [x \in Block |-> IF x = Genesis THEN <<x>> ELSE <<x>> \o f[Prev[x]]]
  BY <1>1, <1>2
     DEF Walks!IsAlong, OnTopOf
<1>4. Walk = [x \in Block |-> IF x = Genesis THEN <<x>> ELSE <<x>> \o Walk[Prev[x]]]
  BY <1>3
     DEF Walk
<1> QED  BY <1>4

\* The walk from b has the blocks of every height up to that of b, from above.
IsWalkFrom(b) ==
  /\ Walk[b] \in Seq(Block)
  /\ Len(Walk[b]) = Height[b] + 1
  /\ Walk[b][1] = b
  /\ \A i \in 1..(Height[b] + 1) : Height[Walk[b][i]] = Height[b] + 1 - i
  /\ \A i \in 1..Height[b] : Walk[b][i + 1] = Prev[Walk[b][i]]

\* It gives one block for every height, from above.
LEMMA WalkShape == \A b \in Block : IsWalkFrom(b)
<1> DEFINE G == {b \in Block : IsWalkFrom(b)}
<1>1. Genesis \in G
  <2>1. Walk[Genesis] = <<Genesis>>
    BY WalkStep, TreeFacts
  <2>2. Genesis \in Block /\ Height[Genesis] = 0 /\ 1..(0 + 1) = {1} /\ 1..0 = {}
    BY TreeFacts
  <2>3. /\ <<Genesis>> \in Seq(Block) /\ Len(<<Genesis>>) = 1 /\ <<Genesis>>[1] = Genesis
        /\ 0 + 1 = 1 /\ 1 - 1 = 0
    BY <2>2
  <2>4. IsWalkFrom(Genesis)
    BY <2>1, <2>2, <2>3
       DEF IsWalkFrom
  <2> QED  BY <2>2, <2>4
<1>2. ASSUME NEW b \in Block \ {Genesis}, Prev[b] \in G  PROVE  b \in G
  <2> DEFINE w == Walk[Prev[b]]
  <2>1. /\ Prev[b] \in Block /\ Height[b] \in Nat /\ Height[Prev[b]] \in Nat
        /\ Height[b] = Height[Prev[b]] + 1 /\ Height[Prev[b]] = Height[b] - 1
        /\ Height[Prev[b]] + 1 = Height[b]
    BY TreeFacts
  <2>2. /\ w \in Seq(Block) /\ Len(w) = Height[b] /\ w[1] = Prev[b]
        /\ \A i \in 1..Height[b] : Height[w[i]] = Height[b] - i
        /\ \A i \in 1..(Height[b] - 1) : w[i + 1] = Prev[w[i]]
    <3>1. IsWalkFrom(Prev[b])
      BY <1>2
    <3>2. ASSUME NEW i \in 1..Height[b]  PROVE  Height[w[i]] = Height[b] - i
      <4>1. i \in 1..(Height[Prev[b]] + 1)
        BY <2>1
      <4>2. Height[w[i]] = Height[Prev[b]] + 1 - i
        BY <3>1, <4>1
           DEF IsWalkFrom
      <4> QED  BY <2>1, <4>2
    <3> QED  BY <2>1, <3>1, <3>2
       DEF IsWalkFrom
  <2>3. Walk[b] = <<b>> \o w
    BY WalkStep
  <2> HIDE DEF w
  <2>4. <<b>> \in Seq(Block) /\ Len(<<b>>) = 1 /\ <<b>>[1] = b
    OBVIOUS
  <2>5. /\ Walk[b] \in Seq(Block) /\ Len(Walk[b]) = Height[b] + 1
        /\ \A i \in 1..(Height[b] + 1) : Walk[b][i] = IF i <= 1 THEN <<b>>[i] ELSE w[i - 1]
    <3>1. /\ Walk[b] \in Seq(Block) /\ Len(Walk[b]) = 1 + Height[b]
          /\ \A i \in 1..(1 + Height[b]) : Walk[b][i] = IF i <= 1 THEN <<b>>[i] ELSE w[i - 1]
      <4>1. /\ <<b>> \o w \in Seq(Block)
            /\ Len(<<b>> \o w) = Len(<<b>>) + Len(w)
            /\ \A i \in 1..(Len(<<b>>) + Len(w)) :
                 (<<b>> \o w)[i] = IF i <= Len(<<b>>) THEN <<b>>[i] ELSE w[i - Len(<<b>>)]
        BY <2>2, <2>4, ConcatProperties
      <4> HIDE DEF w
      <4> QED  BY <2>2, <2>3, <2>4, <4>1
    <3>2. 1 + Height[b] = Height[b] + 1
      BY <2>1
    <3> QED  BY <3>1, <3>2
  <2>6. Walk[b][1] = b
    <3>1. 1 \in 1..(Height[b] + 1)
      BY <2>1
    <3> QED  BY <2>4, <2>5, <3>1
  <2>7. \A i \in 2..(Height[b] + 1) : Walk[b][i] = w[i - 1] /\ i - 1 \in 1..Height[b]
    BY <2>1, <2>5
  <2>8. ASSUME NEW i \in 1..(Height[b] + 1)  PROVE  Height[Walk[b][i]] = Height[b] + 1 - i
    <3>1. CASE i = 1
      BY <2>1, <2>6, <3>1
    <3>2. CASE i # 1
      <4>1. i \in 2..(Height[b] + 1)
        BY <2>1, <3>2
      <4>2. Walk[b][i] = w[i - 1] /\ i - 1 \in 1..Height[b]
        BY <2>7, <4>1
      <4>3. Height[w[i - 1]] = Height[b] - (i - 1)
        BY <2>2, <4>2
      <4>4. Height[b] - (i - 1) = Height[b] + 1 - i
        BY <2>1
      <4> QED  BY <4>2, <4>3, <4>4
    <3> QED  BY <3>1, <3>2
  <2>9. ASSUME NEW i \in 1..Height[b]  PROVE  Walk[b][i + 1] = Prev[Walk[b][i]]
    <3>1. i + 1 \in 2..(Height[b] + 1) /\ Walk[b][i + 1] = w[i]
      BY <2>1, <2>7
    <3>2. CASE i = 1
      BY <2>2, <2>6, <3>1, <3>2
    <3>3. CASE i # 1
      <4>1. i \in 2..(Height[b] + 1) /\ i - 1 \in 1..(Height[b] - 1)
        BY <2>1, <3>3
      <4>2. Walk[b][i] = w[i - 1] /\ w[i] = Prev[w[i - 1]]
        BY <2>1, <2>2, <2>7, <4>1
      <4> QED  BY <3>1, <4>2
    <3> QED  BY <3>2, <3>3
  <2> QED  BY <2>5, <2>6, <2>8, <2>9
     DEF IsWalkFrom
<1>3. Block \subseteq G
  <2> HIDE DEF G
  <2> QED  BY <1>1, <1>2, Walks!AlongTree, BlocksAreTree
<1> QED  BY <1>3

(***************************************************************************)
(* Branches as sets.                                                       *)
(***************************************************************************)

\* A walk is as long as its block is high.
LEMMA WalkDomain == ASSUME NEW b \in Block PROVE DOMAIN Walk[b] = 1..(Height[b] + 1)
BY WalkShape, LenProperties
   DEF IsWalkFrom

\* A branch is its block and the branch of the parent.
LEMMA BranchStep ==
  ASSUME NEW b \in Block
  PROVE  Branch(b) = {b} \cup (IF b = Genesis THEN {} ELSE Branch(Prev[b]))
<1>1. CASE b = Genesis
  <2>1. Walk[b] = <<b>>
    BY <1>1, WalkStep
  <2> QED  BY <1>1, <2>1
     DEF Branch
<1>2. CASE b # Genesis
  <2> DEFINE p == Prev[b]
             n == Height[b]
  <2>1. p \in Block /\ n \in Nat \ {0} /\ Height[p] = n - 1
    BY <1>2, TreeFacts
  <2>2. /\ Walk[p] \in Seq(Block) /\ Len(Walk[p]) = n
        /\ DOMAIN Walk[b] = 1..(n + 1) /\ DOMAIN Walk[p] = 1..n
    BY <2>1, WalkDomain, WalkShape
       DEF IsWalkFrom
  <2>3. Walk[b] = <<b>> \o Walk[p]
    BY <1>2, WalkStep
  <2> HIDE DEF p, n
  <2>4. <<b>> \in Seq(Block) /\ Len(<<b>>) = 1 /\ <<b>>[1] = b
    OBVIOUS
  <2>5. \A i \in 1..(n + 1) : Walk[b][i] = IF i <= 1 THEN <<b>>[i] ELSE Walk[p][i - 1]
    BY <2>1, <2>2, <2>3, <2>4, ConcatProperties
  <2>6. Branch(b) \subseteq {b} \cup Branch(p)
    <3> SUFFICES ASSUME NEW i \in 1..(n + 1)  PROVE  Walk[b][i] \in {b} \cup Branch(p)
      BY <2>2 DEF Branch
    <3>1. CASE i = 1
      BY <2>1, <2>4, <2>5, <3>1
    <3>2. CASE i # 1
      <4>1. i - 1 \in 1..n /\ Walk[b][i] = Walk[p][i - 1]
        BY <2>1, <2>5, <3>2
      <4> QED  BY <2>2, <4>1
         DEF Branch
    <3> QED  BY <3>1, <3>2
  <2>7. {b} \cup Branch(p) \subseteq Branch(b)
    <3>1. b \in Branch(b)
      <4>1. 1 \in 1..(n + 1) /\ Walk[b][1] = b
        BY <2>1, <2>4, <2>5
      <4> QED  BY <2>2, <4>1
         DEF Branch
    <3>2. ASSUME NEW i \in 1..n  PROVE  Walk[p][i] \in Branch(b)
      <4>1. i + 1 \in 1..(n + 1) /\ Walk[b][i + 1] = Walk[p][i]
        BY <2>1, <2>5
      <4> QED  BY <2>2, <4>1
         DEF Branch
    <3>3. \A x \in Branch(p) : x \in Branch(b)
      BY <2>2, <3>2
         DEF Branch
    <3> QED  BY <3>1, <3>3
  <2> QED  BY <1>2, <2>6, <2>7
     DEF p
<1> QED  BY <1>1, <1>2

\* A branch goes from its block down to the genesis block, and only the block
\* itself has its height.
LEMMA BranchFacts ==
  ASSUME NEW b \in Block
  PROVE  /\ Branch(b) \subseteq Block
         /\ b \in Branch(b)
         /\ Genesis \in Branch(b)
         /\ \A c \in Branch(b) : Height[c] <= Height[b] /\ (Height[c] = Height[b] => c = b)
<1> DEFINE G == {x \in Block :
                   /\ Branch(x) \subseteq Block /\ x \in Branch(x) /\ Genesis \in Branch(x)
                   /\ \A c \in Branch(x) :
                        Height[c] <= Height[x] /\ (Height[c] = Height[x] => c = x)}
<1>1. Genesis \in G
  <2>1. Branch(Genesis) = {Genesis}
    BY BranchStep, TreeFacts
  <2> QED  BY <2>1, TreeFacts
<1>2. ASSUME NEW x \in Block \ {Genesis}, Prev[x] \in G  PROVE  x \in G
  <2>1. Branch(x) = {x} \cup Branch(Prev[x])
    BY BranchStep
  <2>2. /\ Height[x] = Height[Prev[x]] + 1 /\ Height[Prev[x]] \in Nat
        /\ \A c \in Branch(Prev[x]) : c \in Block /\ Height[c] \in Nat
    BY <1>2, TreeFacts
  <2>3. \A c \in Branch(Prev[x]) : Height[c] < Height[x]
    BY <1>2, <2>2
  <2> QED  BY <1>2, <2>1, <2>2, <2>3
<1>3. Block \subseteq G
  <2> HIDE DEF G
  <2> QED  BY <1>1, <1>2, Walks!AlongTree, BlocksAreTree
<1> QED  BY <1>3

\* The branch of a block of a branch is the part of it below that block.
LEMMA BranchBelow ==
  ASSUME NEW b \in Block, NEW c \in Branch(b)
  PROVE  Branch(c) \subseteq Branch(b)
<1> DEFINE G == {x \in Block : \A y \in Branch(x) : Branch(y) \subseteq Branch(x)}
<1>1. Genesis \in G
  <2>1. Branch(Genesis) = {Genesis}
    BY BranchStep, TreeFacts
  <2> QED  BY <2>1, TreeFacts
<1>2. ASSUME NEW x \in Block \ {Genesis}, Prev[x] \in G  PROVE  x \in G
  <2>1. Branch(x) = {x} \cup Branch(Prev[x])
    BY BranchStep
  <2> QED  BY <1>2, <2>1
<1>3. Block \subseteq G
  <2> HIDE DEF G
  <2> QED  BY <1>1, <1>2, Walks!AlongTree, BlocksAreTree
<1> QED  BY <1>3

\* Of two blocks of a branch the lower one is on the branch of the higher one.
LEMMA BranchOrder ==
  ASSUME NEW b \in Block, NEW c \in Branch(b), NEW d \in Branch(b), Height[c] <= Height[d]
  PROVE  c \in Branch(d)
<1> DEFINE G == {x \in Block : \A y, z \in Branch(x) : Height[y] <= Height[z] => y \in Branch(z)}
<1>1. Genesis \in G
  <2>1. Branch(Genesis) = {Genesis}
    BY BranchStep, TreeFacts
  <2> QED  BY <2>1, TreeFacts
<1>2. ASSUME NEW x \in Block \ {Genesis}, Prev[x] \in G  PROVE  x \in G
  <2>1. Branch(x) = {x} \cup Branch(Prev[x])
    BY BranchStep
  <2>2. \A z \in Branch(Prev[x]) : Height[z] \in Nat /\ Height[z] < Height[x]
    <3>1. /\ Prev[x] \in Block /\ Height[x] = Height[Prev[x]] + 1 /\ Height[Prev[x]] \in Nat
      BY TreeFacts
    <3>2. \A z \in Branch(Prev[x]) : Height[z] \in Nat /\ Height[z] <= Height[Prev[x]]
      BY <3>1, BranchFacts, TreeFacts
    <3> QED  BY <3>1, <3>2
  <2>3. ASSUME NEW y \in Branch(x), NEW z \in Branch(x), Height[y] <= Height[z]
        PROVE  y \in Branch(z)
    <3>1. CASE z = x
      BY <2>3, <3>1
    <3>2. CASE z # x
      <4>1. z \in Branch(Prev[x]) /\ Height[z] < Height[x] /\ Height[x] \in Nat
        BY <2>1, <2>2, <3>2, TreeFacts
      <4>2. y # x
        BY <2>2, <2>3, <4>1
      <4> QED  BY <1>2, <2>1, <2>3, <4>1, <4>2
    <3> QED  BY <3>1, <3>2
  <2> QED  BY <2>3
<1>3. Block \subseteq G
  <2> HIDE DEF G
  <2> QED  BY <1>1, <1>2, Walks!AlongTree, BlocksAreTree
<1> QED  BY <1>3

\* Where the blocks of a branch are in its walk.
LEMMA WalkPositions ==
  ASSUME NEW b \in Block
  PROVE  /\ \A i \in 1..(Height[b] + 1) : Walk[b][i] \in Branch(b)
         /\ \A c \in Branch(b) : /\ Height[b] + 1 - Height[c] \in 1..(Height[b] + 1)
                                 /\ Walk[b][Height[b] + 1 - Height[c]] = c
<1>1. DOMAIN Walk[b] = 1..(Height[b] + 1) /\ IsWalkFrom(b) /\ Height[b] \in Nat
  BY WalkDomain, WalkShape, TreeFacts
<1>2. ASSUME NEW i \in 1..(Height[b] + 1)
      PROVE  /\ Height[b] + 1 - Height[Walk[b][i]] = i
  <2>1. Height[Walk[b][i]] = Height[b] + 1 - i
    BY <1>1 DEF IsWalkFrom
  <2> QED  BY <1>1, <2>1
<1> QED  BY <1>1, <1>2
   DEF Branch

\* FirstIn finds the highest block of the branch that is in the set.
LEMMA FirstInIsHighest ==
  ASSUME NEW b \in Block, NEW S
  PROVE  IF Branch(b) \cap S = {} THEN FirstIn(b, S) = 0
         ELSE /\ FirstIn(b, S) \in 1..(Height[b] + 1)
              /\ Walk[b][FirstIn(b, S)] \in Branch(b) \cap S
              /\ \A c \in Branch(b) \cap S : Height[c] <= Height[Walk[b][FirstIn(b, S)]]
<1> DEFINE found == {i \in DOMAIN Walk[b] : Walk[b][i] \in S}
<1>1. DOMAIN Walk[b] = 1..(Height[b] + 1) /\ IsWalkFrom(b) /\ Height[b] \in Nat
  BY WalkDomain, WalkShape, TreeFacts
<1>2. CASE Branch(b) \cap S = {}
  <2>1. found = {}
    BY <1>2 DEF Branch
  <2> QED  BY <1>2, <2>1
     DEF FirstIn
<1>3. CASE Branch(b) \cap S # {}
  <2>1. found \in SUBSET Nat /\ found # {}
    BY <1>1, <1>3 DEF Branch
  <2>2. FirstIn(b, S) \in found /\ \A j \in found : FirstIn(b, S) <= j
    <3>1. \E i \in found : \A j \in found : i <= j
      <4> HIDE DEF found
      <4> QED  BY <2>1, Walks!LeastNumber
    <3> QED  BY <2>1, <3>1
       DEF FirstIn
  <2>3. FirstIn(b, S) \in 1..(Height[b] + 1) /\ Walk[b][FirstIn(b, S)] \in Branch(b) \cap S
    BY <1>1, <2>2 DEF Branch
  <2>4. ASSUME NEW c \in Branch(b) \cap S
        PROVE  Height[c] <= Height[Walk[b][FirstIn(b, S)]]
    <3> DEFINE j == Height[b] + 1 - Height[c]
               i == FirstIn(b, S)
    <3>1. j \in 1..(Height[b] + 1) /\ Walk[b][j] = c
      BY WalkPositions
    <3>2. i <= j
      BY <1>1, <2>2, <3>1
    <3>3. Height[Walk[b][i]] = Height[b] + 1 - i /\ Height[Walk[b][j]] = Height[b] + 1 - j
      BY <1>1, <2>3, <3>1 DEF IsWalkFrom
    <3> HIDE DEF i, j
    <3>4. Height[b] + 1 - j <= Height[b] + 1 - i
      <4>1. i \in Nat /\ j \in Nat
        BY <2>3, <3>1 DEF i
      <4> QED  BY <1>1, <3>2, <4>1
    <3>5. Height[c] <= Height[Walk[b][i]]
      BY <3>1, <3>3, <3>4
    <3> QED  BY <3>5 DEF i
  <2> QED  BY <1>3, <2>3, <2>4
<1> QED  BY <1>2, <1>3

(***************************************************************************)
(* ChooseHashUnderTip and CheckBlockIsInRange.                             *)
(***************************************************************************)

\* Where two branches have a block in common they have the same blocks below it.
LEMMA SameBelow ==
  ASSUME NEW b \in Block, NEW d \in Block, NEW c \in Branch(b) \cap Branch(d), NEW x \in Block,
         Height[x] <= Height[c]
  PROVE  x \in Branch(b) <=> x \in Branch(d)
<1>1. c \in Block /\ Branch(c) \subseteq Branch(b) /\ Branch(c) \subseteq Branch(d)
  BY BranchFacts, BranchBelow
<1>2. x \in Branch(b) => x \in Branch(c)
  BY BranchOrder
<1>3. x \in Branch(d) => x \in Branch(c)
  BY BranchOrder
<1> QED  BY <1>1, <1>2, <1>3

\* The search of the chain table by heights below a block of the tip's branch.
LEMMA BelowIsOnBranch ==
  ASSUME NEW head \in Block, NEW tip \in Block, NEW hashes \in SUBSET Block,
         NEW h \in Branch(tip) \cap Branch(head), h \notin hashes,
         \A c \in Branch(tip) \cap hashes : Height[c] <= Height[h]
  PROVE  LET x == InChainBelow(Branch(head), hashes, h)
         IN  IF hashes \cap Branch(tip) = {} THEN x = NoHash
             ELSE x \in hashes \cap Branch(tip)
<1> DEFINE found == {x \in hashes \cap Branch(head) : Height[x] < Height[h]}
<1>1. h \in Block /\ Height[h] \in Nat /\ \A x \in hashes : x \in Block /\ Height[x] \in Nat
  BY BranchFacts, TreeFacts
<1>2. found = hashes \cap Branch(tip)
  <2>1. ASSUME NEW x \in found  PROVE  x \in hashes \cap Branch(tip)
    <3>1. x \in Block /\ Height[x] <= Height[h]
      BY <1>1
    <3> QED  BY <3>1, SameBelow
  <2>2. ASSUME NEW x \in hashes \cap Branch(tip)  PROVE  x \in found
    <3>1. x \in Block /\ Height[x] <= Height[h] /\ x # h
      BY <1>1
    <3>2. x \in Branch(head) /\ x \in Branch(h)
      <4>1. x \in Branch(head)
        BY <3>1, SameBelow
      <4>2. x \in Branch(h)
        BY <3>1, BranchOrder
      <4> QED  BY <4>1, <4>2
    <3>3. Height[x] < Height[h]
      <4>1. Height[x] # Height[h]
        BY <1>1, <3>1, <3>2, BranchFacts
      <4> QED  BY <1>1, <3>1, <4>1
    <3> QED  BY <3>2, <3>3
  <2> QED  BY <2>1, <2>2
<1>3. InChainBelow(Branch(head), hashes, h) =
        IF found = {} THEN NoHash ELSE CHOOSE x \in found : TRUE
  BY DEF InChainBelow
<1> HIDE DEF found
<1> QED  BY <1>2, <1>3

\* The block of a transaction that is found for a tip is on the branch of the tip,
\* and one is found when there is one: whatever the tip, whatever the primary
\* branch, whatever the hashes (ChooseHashUnderTip).
THEOREM ChoiceIsRight ==
  ASSUME NEW head \in Block, NEW tip \in Block, NEW hashes \in SUBSET Block
  PROVE  ChoiceAgrees(Branch(head), hashes, tip)
<1> DEFINE h == ChooseHashUnderTip(Branch(head), hashes, tip)
           i == FirstIn(tip, hashes \cup Branch(head))
           w == Walk[tip][i]
<1>1. tip # NoHash /\ tip \in Branch(tip) /\ Genesis \in Branch(tip) \cap Branch(head)
  BY BranchFacts, TreeFacts
<1>2. IF hashes \cap Branch(tip) = {} THEN h = NoHash ELSE h \in hashes \cap Branch(tip)
  <2>1. CASE hashes = {}
    BY <2>1 DEF ChooseHashUnderTip
  <2>2. CASE hashes # {} /\ tip \in hashes
    <3>1. h = tip
      BY <1>1, <2>2 DEF ChooseHashUnderTip
    <3> QED  BY <1>1, <2>2, <3>1
  <2>3. CASE hashes # {} /\ tip \notin hashes /\ tip \in Branch(head)
    <3>1. h = InChainBelow(Branch(head), hashes, tip)
      BY <1>1, <2>3 DEF ChooseHashUnderTip
    <3>2. \A c \in Branch(tip) \cap hashes : Height[c] <= Height[tip]
      BY BranchFacts
    <3> HIDE DEF h
    <3> QED  BY <1>1, <2>3, <3>1, <3>2, BelowIsOnBranch
  <2>4. CASE hashes # {} /\ tip \notin hashes /\ tip \notin Branch(head)
    <3>1. h = IF i = 0 THEN NoHash
              ELSE IF w \in hashes THEN w ELSE InChainBelow(Branch(head), hashes, w)
      BY <1>1, <2>4 DEF ChooseHashUnderTip
    <3>2. Branch(tip) \cap (hashes \cup Branch(head)) # {}
      BY <1>1
    <3>3. /\ i # 0 /\ w \in Branch(tip) \cap (hashes \cup Branch(head))
          /\ \A c \in Branch(tip) \cap (hashes \cup Branch(head)) : Height[c] <= Height[w]
      <4>1. i \in 1..(Height[tip] + 1) => i # 0
        OBVIOUS
      <4>2. IF Branch(tip) \cap (hashes \cup Branch(head)) = {} THEN i = 0
            ELSE /\ i \in 1..(Height[tip] + 1)
                 /\ w \in Branch(tip) \cap (hashes \cup Branch(head))
                 /\ \A c \in Branch(tip) \cap (hashes \cup Branch(head)) :
                      Height[c] <= Height[w]
        BY FirstInIsHighest
      <4> HIDE DEF i, w
      <4> QED  BY <3>2, <4>1, <4>2
    <3> HIDE DEF h, i, w
    <3>4. CASE w \in hashes
      BY <3>1, <3>3, <3>4
    <3>5. CASE w \notin hashes
      <4>1. w \in Branch(tip) \cap Branch(head) /\ h = InChainBelow(Branch(head), hashes, w)
        BY <3>1, <3>3, <3>5
      <4>2. \A c \in Branch(tip) \cap hashes : Height[c] <= Height[w]
        BY <3>3
      <4> QED  BY <3>5, <4>1, <4>2, BelowIsOnBranch
    <3> QED  BY <3>4, <3>5
  <2> QED  BY <2>1, <2>2, <2>3, <2>4
<1> QED  BY <1>2 DEF ChoiceAgrees

\* The range in the chain table under a block of the tip's branch.
LEMMA BetweenIsOnBranch ==
  ASSUME NEW head \in Block, NEW w \in Branch(head), NEW bottom \in Branch(w), NEW h \in Block
  PROVE  BetweenInChain(Branch(head), h, bottom, w) <=>
           h \in Branch(w) /\ bottom \in Branch(h)
<1>1. w \in Block /\ bottom \in Block /\ Branch(w) \subseteq Branch(head)
  BY BranchFacts, BranchBelow
<1>2. h \in Branch(head) /\ Height[h] <= Height[w] => h \in Branch(w)
  BY BranchOrder
<1>3. h \in Branch(w) /\ Height[bottom] <= Height[h] => bottom \in Branch(h)
  BY <1>1, BranchOrder
<1>4. /\ h \in Branch(w) => Height[h] <= Height[w]
      /\ bottom \in Branch(h) => Height[bottom] <= Height[h]
  BY <1>1, BranchFacts
<1> QED  BY <1>1, <1>2, <1>3, <1>4 DEF BetweenInChain

\* A block counts as between another one and the tip exactly when it is on the
\* branch of the tip and has the other one below it: whatever the tip and whatever
\* the primary branch (CheckBlockIsInRange).
THEOREM RangeIsRight ==
  ASSUME NEW head \in Block, NEW tip \in Block, NEW bottom \in Block, NEW h \in Block
  PROVE  RangeAgrees(Branch(head), h, bottom, tip)
<1> SUFFICES ASSUME bottom \in Branch(tip)
             PROVE  CheckBlockIsInRange(Branch(head), h, bottom, tip) <=>
                      h \in Branch(tip) /\ bottom \in Branch(h)
  BY DEF RangeAgrees
<1>1. CASE tip \in Branch(head)
  BY <1>1, BetweenIsOnBranch DEF CheckBlockIsInRange
<1>2. CASE tip \notin Branch(head)
  <2> DEFINE S == {h, bottom} \cup Branch(head)
             w == Walk[tip][FirstIn(tip, S)]
  <2>1. /\ FirstIn(tip, S) # 0 /\ w \in Branch(tip) \cap S
        /\ \A c \in Branch(tip) \cap S : Height[c] <= Height[w]
    <3>1. Branch(tip) \cap S # {}
      OBVIOUS
    <3>2. FirstIn(tip, S) \in 1..(Height[tip] + 1) => FirstIn(tip, S) # 0
      OBVIOUS
    <3> HIDE DEF S
    <3> QED  BY <3>1, <3>2, FirstInIsHighest
  <2>2. CheckBlockIsInRange(Branch(head), h, bottom, tip) <=>
          IF w = h THEN TRUE
          ELSE IF w = bottom THEN FALSE ELSE BetweenInChain(Branch(head), h, bottom, w)
    BY <1>2, <2>1 DEF CheckBlockIsInRange
  <2>3. w \in Block /\ Height[bottom] <= Height[w] /\ bottom \in Branch(w)
    <3>1. w \in Block /\ Height[bottom] <= Height[w]
      BY <2>1, BranchFacts
    <3> HIDE DEF w
    <3> QED  BY <2>1, <3>1, BranchOrder
  <2>4. h \in Branch(tip) => h \in Branch(w)
    <3>1. h \in Branch(tip) => Height[h] <= Height[w]
      BY <2>1
    <3> HIDE DEF w
    <3> QED  BY <2>1, <3>1, BranchOrder
  <2>5. Branch(w) \subseteq Branch(tip)
    <3> HIDE DEF w
    <3> QED  BY <2>1, BranchBelow
  <2> HIDE DEF w
  <2>6. CASE w = h
    BY <2>1, <2>2, <2>3, <2>6
  <2>7. CASE w # h /\ w = bottom
    <3>1. ~(h \in Branch(w) /\ w \in Branch(h))
      <4>1. h \in Branch(w) => Height[h] <= Height[w]
        BY <2>3, BranchFacts
      <4>2. w \in Branch(h) => Height[w] <= Height[h] /\ (Height[w] = Height[h] => w = h)
        BY BranchFacts
      <4>3. Height[w] \in Nat /\ Height[h] \in Nat
        BY <2>3, TreeFacts
      <4> QED  BY <2>7, <4>1, <4>2, <4>3
    <3> QED  BY <2>2, <2>4, <2>7, <3>1
  <2>8. CASE w # h /\ w # bottom
    <3>1. w \in Branch(head)
      BY <2>1, <2>8
    <3>2. BetweenInChain(Branch(head), h, bottom, w) <=> h \in Branch(w) /\ bottom \in Branch(h)
      BY <2>3, <3>1, BetweenIsOnBranch
    <3> QED  BY <2>2, <2>4, <2>5, <2>8, <3>2
  <2> QED  BY <2>6, <2>7, <2>8
<1> QED  BY <1>1, <1>2

(***************************************************************************)
(* GetSideBranch and GetBranchesReplacement.                               *)
(***************************************************************************)

\* The loop in lockstep as a recursion along a tree: the pairs of blocks, with a
\* root above those that have the genesis block.
PairRoot == CHOOSE r : r \notin Block \X Block
HasGenesis(p) == Genesis \in {p[1], p[2]}
PairUp == [p \in Block \X Block |->
             IF HasGenesis(p) THEN PairRoot ELSE <<Prev[p[1]], Prev[p[2]]>>]
PairDepth == [p \in (Block \X Block) \cup {PairRoot} |->
                IF p = PairRoot THEN 0 ELSE MinOf(Height[p[1]], Height[p[2]]) + 1]
StopOrGoOn(c, found, p) == IF p[1] = p[2] \/ HasGenesis(p) THEN p[1] ELSE found
Pairs == INSTANCE Folding WITH Op <- StopOrGoOn

\* The pairs that the loop over two branches passes are a tree.
LEMMA PairsAreTree == Walks!IsTree((Block \X Block) \cup {PairRoot}, PairRoot, PairUp, PairDepth)
<1>1. PairRoot \notin Block \X Block
  <2>1. \E r : r \notin Block \X Block
    BY NoSetContainsEverything
  <2> QED  BY <2>1 DEF PairRoot
<1>2. PairDepth[PairRoot] = 0
  BY DEF PairDepth
<1>3. ASSUME NEW p \in Block \X Block
      PROVE  /\ PairDepth[p] = MinOf(Height[p[1]], Height[p[2]]) + 1
             /\ PairDepth[p] \in Nat
             /\ PairUp[p] = IF HasGenesis(p) THEN PairRoot ELSE <<Prev[p[1]], Prev[p[2]]>>
  <2>1. Height[p[1]] \in Nat /\ Height[p[2]] \in Nat
    BY TreeFacts
  <2> QED  BY <1>1, <2>1 DEF PairDepth, PairUp, MinOf
<1>4. ASSUME NEW p \in Block \X Block
      PROVE  /\ PairUp[p] \in (Block \X Block) \cup {PairRoot}
             /\ PairDepth[p] = PairDepth[PairUp[p]] + 1
  <2>1. CASE HasGenesis(p)
    <3>1. MinOf(Height[p[1]], Height[p[2]]) = 0
      BY <2>1, TreeFacts DEF HasGenesis, MinOf
    <3> QED  BY <1>2, <1>3, <2>1, <3>1
  <2>2. CASE ~HasGenesis(p)
    <3>1. /\ p[1] \in Block \ {Genesis} /\ p[2] \in Block \ {Genesis}
          /\ <<Prev[p[1]], Prev[p[2]]>> \in Block \X Block
      BY <2>2, TreeFacts DEF HasGenesis
    <3>2. /\ Height[p[1]] = Height[Prev[p[1]]] + 1 /\ Height[Prev[p[1]]] \in Nat
          /\ Height[p[2]] = Height[Prev[p[2]]] + 1 /\ Height[Prev[p[2]]] \in Nat
      BY <3>1, TreeFacts
    <3>3. MinOf(Height[p[1]], Height[p[2]]) = MinOf(Height[Prev[p[1]]], Height[Prev[p[2]]]) + 1
      BY <3>2 DEF MinOf
    <3>4. PairDepth[<<Prev[p[1]], Prev[p[2]]>>] = MinOf(Height[Prev[p[1]]], Height[Prev[p[2]]]) + 1
      BY <1>3, <3>1
    <3> QED  BY <1>3, <2>2, <3>1, <3>3, <3>4
  <2> QED  BY <2>1, <2>2
<1>5. \A p \in (Block \X Block) \cup {PairRoot} : PairDepth[p] \in Nat
  <2>1. PairDepth[PairRoot] \in Nat
    BY <1>2
  <2>2. \A p \in Block \X Block : PairDepth[p] \in Nat
    BY <1>3
  <2> QED  BY <2>1, <2>2, Zenon
<1>6. \A p \in ((Block \X Block) \cup {PairRoot}) \ {PairRoot} :
         /\ PairUp[p] \in (Block \X Block) \cup {PairRoot}
         /\ PairDepth[p] = PairDepth[PairUp[p]] + 1
  BY <1>4
<1> QED  BY <1>5, <1>6 DEF Walks!IsTree

\* The loop goes on with the parents of both blocks.
LEMMA LockstepStep ==
  ASSUME NEW b \in Block, NEW d \in Block
  PROVE  Lockstep[<<b, d>>] = IF b = d \/ Genesis \in {b, d} THEN b
                              ELSE Lockstep[<<Prev[b], Prev[d]>>]
<1> DEFINE Nodes == (Block \X Block) \cup {PairRoot}
<1>1. PICK F : Pairs!IsAlong(F, 0, 0, Nodes, PairRoot, PairUp)
  BY PairsAreTree, Pairs!AlongExists DEF Walks!IsTree, Pairs!IsTree
<1> DEFINE f == [p \in Block \X Block |-> F[p]]
<1>2. ASSUME NEW p \in Block \X Block
      PROVE  f[p] = IF p[1] = p[2] \/ Genesis \in {p[1], p[2]} THEN p[1]
                    ELSE f[<<Prev[p[1]], Prev[p[2]]>>]
  <2>1. p # PairRoot
    <3>1. \E r : r \notin Block \X Block
      BY NoSetContainsEverything
    <3> QED  BY <3>1 DEF PairRoot
  <2>2. F[p] = IF p[1] = p[2] \/ Genesis \in {p[1], p[2]} THEN p[1] ELSE F[PairUp[p]]
    BY <1>1, <2>1 DEF Pairs!IsAlong, StopOrGoOn, HasGenesis
  <2>3. CASE p[1] = p[2] \/ Genesis \in {p[1], p[2]}
    BY <2>2, <2>3
  <2>4. CASE ~(p[1] = p[2] \/ Genesis \in {p[1], p[2]})
    <3>1. PairUp[p] = <<Prev[p[1]], Prev[p[2]]>> /\ PairUp[p] \in Block \X Block
      BY <2>4, TreeFacts DEF PairUp, HasGenesis
    <3> QED  BY <2>2, <2>4, <3>1
  <2> QED  BY <2>3, <2>4
<1>3. f = [p \in Block \X Block |->
             IF p[1] = p[2] \/ Genesis \in {p[1], p[2]} THEN p[1]
             ELSE f[<<Prev[p[1]], Prev[p[2]]>>]]
  <2> DEFINE g == [p \in Block \X Block |->
                     IF p[1] = p[2] \/ Genesis \in {p[1], p[2]} THEN p[1]
                     ELSE f[<<Prev[p[1]], Prev[p[2]]>>]]
  <2>1. \A p \in Block \X Block : f[p] = g[p]
    BY <1>2
  <2>2. /\ DOMAIN f = Block \X Block /\ DOMAIN g = Block \X Block
        /\ f = [p \in DOMAIN f |-> f[p]] /\ g = [p \in DOMAIN g |-> g[p]]
    OBVIOUS
  <2>3. f = g
    <3> HIDE DEF f, g
    <3> QED  BY <2>1, <2>2
  <2> QED  BY <2>3
<1>4. \E h : h = [p \in Block \X Block |->
                    IF p[1] = p[2] \/ Genesis \in {p[1], p[2]} THEN p[1]
                    ELSE h[<<Prev[p[1]], Prev[p[2]]>>]]
  <2> HIDE DEF f
  <2> QED  BY <1>3
<1>5. Lockstep = [p \in Block \X Block |->
                    IF p[1] = p[2] \/ Genesis \in {p[1], p[2]} THEN p[1]
                    ELSE Lockstep[<<Prev[p[1]], Prev[p[2]]>>]]
  BY <1>4 DEF Lockstep
<1>6. <<b, d>> \in Block \X Block /\ <<b, d>>[1] = b /\ <<b, d>>[2] = d
  OBVIOUS
<1> QED  BY <1>5, <1>6

\* The highest block that two branches have in common.
IsMeeting(m, b, d) ==
  /\ m \in Branch(b) \cap Branch(d)
  /\ \A c \in Branch(b) \cap Branch(d) : Height[c] <= Height[m]

\* From blocks of one height the loop stops where their branches meet.
LEMMA LockstepMeets ==
  ASSUME NEW b \in Block, NEW d \in Block, Height[b] = Height[d]
  PROVE  IsMeeting(Lockstep[<<b, d>>], b, d)
<1> DEFINE G == {x \in Block : \A y \in Block :
                   Height[x] = Height[y] => IsMeeting(Lockstep[<<x, y>>], x, y)}
<1>1. ASSUME NEW x \in Block  PROVE  IsMeeting(Lockstep[<<x, x>>], x, x)
  <2>1. Lockstep[<<x, x>>] = x
    BY LockstepStep
  <2> QED  BY <2>1, BranchFacts DEF IsMeeting
<1>2. Genesis \in G
  BY <1>1, TreeFacts
<1>3. ASSUME NEW x \in Block \ {Genesis}, Prev[x] \in G  PROVE  x \in G
  <2> SUFFICES ASSUME NEW y \in Block, Height[x] = Height[y], x # y
               PROVE  IsMeeting(Lockstep[<<x, y>>], x, y)
    BY <1>1
  <2>1. /\ y # Genesis /\ Prev[x] \in Block /\ Prev[y] \in Block
        /\ Height[Prev[x]] = Height[Prev[y]]
        /\ Height[Prev[x]] < Height[x] /\ Height[Prev[y]] < Height[x]
    BY TreeFacts
  <2>2. Lockstep[<<x, y>>] = Lockstep[<<Prev[x], Prev[y]>>]
    BY <2>1, LockstepStep
  <2>3. Branch(x) = {x} \cup Branch(Prev[x]) /\ Branch(y) = {y} \cup Branch(Prev[y])
    BY <2>1, BranchStep
  <2>4. x \notin Branch(y) /\ y \notin Branch(x)
    BY BranchFacts
  <2>5. Branch(x) \cap Branch(y) = Branch(Prev[x]) \cap Branch(Prev[y])
    BY <2>3, <2>4
  <2> QED  BY <1>3, <2>1, <2>2, <2>5 DEF IsMeeting
<1>4. Block \subseteq G
  <2> HIDE DEF G
  <2> QED  BY <1>2, <1>3, Walks!AlongTree, BlocksAreTree
<1> QED  BY <1>4

\* Going down a branch to a height.
LEMMA AtHeightIsOnBranch ==
  ASSUME NEW b \in Block, NEW h \in 0..Height[b]
  PROVE  /\ AtHeight(b, h) \in Branch(b) /\ Height[AtHeight(b, h)] = h
         /\ \A c \in Branch(b) : Height[c] <= h => c \in Branch(AtHeight(b, h))
<1> DEFINE i == Height[b] - h + 1
<1>1. Height[b] \in Nat /\ i \in 1..(Height[b] + 1) /\ Height[b] + 1 - i = h
  BY TreeFacts
<1>2. Walk[b][i] \in Branch(b)
  BY <1>1, WalkPositions
<1>3. Height[Walk[b][i]] = Height[b] + 1 - i
  BY <1>1, WalkShape DEF IsWalkFrom
<1>4. AtHeight(b, h) \in Branch(b) /\ Height[AtHeight(b, h)] = h
  BY <1>1, <1>2, <1>3 DEF AtHeight
<1> QED  BY <1>4, BranchOrder

\* The meeting point of two branches is the highest block they have in common.
LEMMA MeetingPointMeets ==
  ASSUME NEW side \in Block, NEW tip \in Block
  PROVE  IsMeeting(MeetingPoint(side, tip), side, tip)
<1> DEFINE h == MinOf(Height[side], Height[tip])
           s == AtHeight(side, h)
           t == AtHeight(tip, h)
<1>1. h \in 0..Height[side] /\ h \in 0..Height[tip]
  BY TreeFacts DEF MinOf
<1>2. /\ s \in Branch(side) /\ t \in Branch(tip) /\ Height[s] = h /\ Height[t] = h
      /\ \A c \in Branch(side) : Height[c] <= h => c \in Branch(s)
      /\ \A c \in Branch(tip) : Height[c] <= h => c \in Branch(t)
  BY <1>1, AtHeightIsOnBranch
<1>3. MeetingPoint(side, tip) = Lockstep[<<s, t>>]
  BY DEF MeetingPoint
<1>4. \A c \in Branch(side) \cap Branch(tip) : Height[c] <= h
  BY BranchFacts DEF MinOf
<1> HIDE DEF h, s, t
<1>5. s \in Block /\ t \in Block /\ Branch(s) \subseteq Branch(side) /\ Branch(t) \subseteq Branch(tip)
  BY <1>2, BranchFacts, BranchBelow
<1>6. IsMeeting(Lockstep[<<s, t>>], s, t)
  BY <1>2, <1>5, LockstepMeets
<1> QED  BY <1>2, <1>3, <1>4, <1>5, <1>6 DEF IsMeeting

\* The blocks of a branch above a height, in the order of the walk.
LEMMA AboveIsPart ==
  ASSUME NEW b \in Block, NEW h \in 0..Height[b]
  PROVE  /\ Above(b, h) \in Seq(Block) /\ Len(Above(b, h)) = Height[b] - h
         /\ \A i \in 1..(Height[b] - h) : Above(b, h)[i] = Walk[b][i]
         /\ Members(Above(b, h)) = {c \in Branch(b) : Height[c] > h}
         /\ IsWalkDown(Above(b, h))
<1> DEFINE n == Height[b] - h
           a == Above(b, h)
<1>1. /\ Height[b] \in Nat /\ h \in Nat /\ n \in 0..Height[b] /\ n \in Int /\ 1 \in Int
      /\ Height[b] = n + h
      /\ \A i \in 1..n : /\ i \in 1..(Height[b] + 1)
                         /\ 1 \in 1..(Height[b] + 1) /\ n \in 1..(Height[b] + 1)
  BY TreeFacts
<1>2. /\ Walk[b] \in Seq(Block) /\ Len(Walk[b]) = Height[b] + 1
      /\ \A i \in 1..(Height[b] + 1) : Height[Walk[b][i]] = Height[b] + 1 - i
      /\ \A i \in 1..Height[b] : Walk[b][i + 1] = Prev[Walk[b][i]]
  BY WalkShape DEF IsWalkFrom
<1>3. a \in Seq(Block) /\ Len(a) = n /\ \A i \in 1..n : a[i] = Walk[b][i]
  <2>1. a = SubSeq(Walk[b], 1, n)
    BY DEF Above
  <2>2. \A i \in 1..n : Walk[b][i] \in Block
    BY <1>1, <1>2
  <2> HIDE DEF a, n
  <2>3. /\ a \in Seq(Block) /\ Len(a) = IF 1 <= n THEN n - 1 + 1 ELSE 0
        /\ \A i \in 1..(n - 1 + 1) : a[i] = Walk[b][1 + i - 1]
    BY <1>1, <2>1, <2>2, SubSeqProperties
  <2>4. n \in Nat /\ n - 1 + 1 = n /\ \A i \in 1..n : 1 + i - 1 = i
    BY <1>1
  <2>5. Len(a) = n
    BY <2>3, <2>4
  <2>6. \A i \in 1..n : a[i] = Walk[b][i]
    BY <2>3, <2>4
  <2> QED  BY <2>3, <2>5, <2>6
<1>4. DOMAIN a = 1..n
  BY <1>3, LenProperties
<1> HIDE DEF a, n
<1>5. Members(a) = {c \in Branch(b) : Height[c] > h}
  <2>1. ASSUME NEW i \in 1..n  PROVE  a[i] \in {c \in Branch(b) : Height[c] > h}
    <3>1. a[i] = Walk[b][i] /\ i \in 1..(Height[b] + 1)
      BY <1>1, <1>3
    <3>2. Walk[b][i] \in Branch(b) /\ Height[Walk[b][i]] = Height[b] + 1 - i
      BY <1>2, <3>1, WalkPositions
    <3>3. Height[b] + 1 - i > h
      BY <1>1
    <3> QED  BY <3>1, <3>2, <3>3
  <2>2. ASSUME NEW c \in Branch(b), Height[c] > h  PROVE  c \in Members(a)
    <3> DEFINE i == Height[b] + 1 - Height[c]
    <3>1. i \in 1..(Height[b] + 1) /\ Walk[b][i] = c /\ Height[c] \in Nat
      BY WalkPositions, BranchFacts, TreeFacts
    <3>2. i \in 1..n
      BY <1>1, <2>2, <3>1
    <3> HIDE DEF i
    <3> QED  BY <1>3, <1>4, <3>1, <3>2 DEF Members
  <2> QED  BY <1>4, <2>1, <2>2 DEF Members
<1>6. IsWalkDown(a)
  <2>1. ASSUME NEW i \in 1..(n - 1)  PROVE  Prev[a[i]] = a[i + 1]
    <3>1. i \in 1..n /\ i + 1 \in 1..n /\ i \in 1..Height[b]
      BY <1>1
    <3> QED  BY <1>2, <1>3, <3>1
  <2> QED  BY <1>3, <2>1 DEF IsWalkDown
<1> QED  BY <1>3, <1>5, <1>6 DEF a, n

\* When a side branch replaces the primary one, the blocks that are taken away and
\* the blocks that are put on are exactly what one has and the other has not, in
\* the order in which they are processed (GetBranchesReplacement).
THEOREM ReplacementIsRight ==
  ASSUME NEW side \in Block, NEW tip \in Block
  PROVE  ReplacementAgrees(side, tip)
<1> SUFFICES ASSUME side \notin Branch(tip)
             PROVE  /\ Members(OldBlocks(side, tip)) = Branch(side) \ Branch(tip)
                    /\ Members(NewBlocks(side, tip)) = Branch(tip) \ Branch(side)
                    /\ IsWalkDown(OldBlocks(side, tip))
                    /\ IsWalkUp(NewBlocks(side, tip))
  BY DEF ReplacementAgrees
<1> DEFINE base == MeetingPoint(side, tip)
           n == Height[tip] - Height[base]
           down == Above(tip, Height[base])
           up == [i \in DOMAIN down |-> down[Len(down) + 1 - i]]
<1>1. IsMeeting(base, side, tip) /\ base # side
  BY MeetingPointMeets DEF IsMeeting
<1>2. OldBlocks(side, tip) = Above(side, Height[base]) /\ NewBlocks(side, tip) = up
  BY <1>1 DEF OldBlocks, NewBlocks
<1> HIDE DEF base
<1>3. /\ base \in Block /\ Height[base] \in 0..Height[side] /\ Height[base] \in 0..Height[tip]
      /\ Branch(base) \subseteq Branch(side) \cap Branch(tip)
      /\ Height[base] \in Nat /\ n \in Nat
  <2>1. base \in Block /\ Height[base] <= Height[side] /\ Height[base] <= Height[tip]
    BY <1>1, BranchFacts DEF IsMeeting
  <2>2. Branch(base) \subseteq Branch(side) \cap Branch(tip)
    BY <1>1, BranchBelow DEF IsMeeting
  <2> QED  BY <2>1, <2>2, TreeFacts
<1>4. ASSUME NEW b \in {side, tip}, NEW c \in Branch(b)
      PROVE  Height[c] > Height[base] <=> c \notin Branch(side) \cap Branch(tip)
  <2>1. Height[c] \in Nat
    BY BranchFacts, TreeFacts
  <2>2. c \in Branch(side) \cap Branch(tip) => Height[c] <= Height[base]
    BY <1>1 DEF IsMeeting
  <2>3. Height[c] <= Height[base] => c \in Branch(base)
    BY <1>1, BranchOrder DEF IsMeeting
  <2> QED  BY <1>3, <2>1, <2>2, <2>3
<1>5. /\ {c \in Branch(side) : Height[c] > Height[base]} = Branch(side) \ Branch(tip)
      /\ {c \in Branch(tip) : Height[c] > Height[base]} = Branch(tip) \ Branch(side)
  BY <1>4
<1>6. /\ Members(OldBlocks(side, tip)) = Branch(side) \ Branch(tip)
      /\ IsWalkDown(OldBlocks(side, tip))
  <2> DEFINE s == Above(side, Height[base])
  <2>1. /\ Members(s) = {c \in Branch(side) : Height[c] > Height[base]}
        /\ IsWalkDown(s)
    BY <1>3, AboveIsPart
  <2> HIDE DEF s
  <2>2. Members(s) = Branch(side) \ Branch(tip)
    BY <1>5, <2>1
  <2>3. OldBlocks(side, tip) = s
    BY <1>2 DEF s
  <2> QED  BY <2>1, <2>2, <2>3
<1>7. /\ down \in Seq(Block) /\ Len(down) = n /\ DOMAIN down = 1..n
      /\ Members(down) = Branch(tip) \ Branch(side) /\ IsWalkDown(down)
  <2>1. /\ down \in Seq(Block) /\ Len(down) = n
        /\ Members(down) = Branch(tip) \ Branch(side) /\ IsWalkDown(down)
    <3>1. /\ down \in Seq(Block) /\ Len(down) = n
          /\ Members(down) = {c \in Branch(tip) : Height[c] > Height[base]}
          /\ IsWalkDown(down)
      BY <1>3, AboveIsPart
    <3> HIDE DEF down
    <3>2. Members(down) = Branch(tip) \ Branch(side)
      BY <1>5, <3>1
    <3> QED  BY <3>1, <3>2
  <2> QED  BY <2>1, LenProperties
<1> HIDE DEF down, n
<1>8. up = [i \in 1..n |-> down[n + 1 - i]]
  BY <1>7
<1> HIDE DEF up
<1>9. Members(up) = Members(down)
  <2>1. \A i \in 1..n : n + 1 - i \in 1..n /\ n + 1 - (n + 1 - i) = i
    BY <1>3
  <2>2. DOMAIN up = 1..n /\ \A i \in 1..n : up[i] = down[n + 1 - i]
    BY <1>8
  <2>3. \A i \in 1..n : down[i] = up[n + 1 - i]
    BY <2>1, <2>2
  <2>4. \A i \in 1..n : up[i] \in Members(down) /\ down[i] \in Members(up)
    BY <1>7, <2>1, <2>2, <2>3 DEF Members
  <2> QED  BY <1>7, <2>2, <2>4 DEF Members
<1>10. IsWalkUp(up)
  <2>1. up \in Seq(Block) /\ Len(up) = n
    <3>1. \A i \in 1..n : n + 1 - i \in 1..n
      BY <1>3
    <3>2. \A i \in 1..n : down[n + 1 - i] \in Block
      BY <1>7, <3>1
    <3> QED  BY <1>3, <1>8, <3>2
  <2>2. ASSUME NEW i \in 1..(n - 1)  PROVE  Prev[up[i + 1]] = up[i]
    <3>1. i \in 1..n /\ i + 1 \in 1..n /\ n - i \in 1..(n - 1)
      BY <1>3
    <3>2. up[i] = down[n + 1 - i] /\ up[i + 1] = down[n + 1 - (i + 1)]
      BY <1>8, <3>1
    <3>3. Prev[down[n - i]] = down[(n - i) + 1]
      BY <1>7, <3>1 DEF IsWalkDown
    <3>4. n + 1 - (i + 1) = n - i /\ (n - i) + 1 = n + 1 - i
      BY <1>3
    <3> QED  BY <3>2, <3>3, <3>4
  <2> QED  BY <2>1, <2>2 DEF IsWalkUp
<1> QED  BY <1>2, <1>6, <1>7, <1>9, <1>10

\* The first and the last of the blocks above one of a branch.
LEMMA AboveEnds ==
  ASSUME NEW b \in Block, NEW base \in Branch(b), base # b
  PROVE  LET a == Above(b, Height[base])
         IN  /\ a \in Seq(Block \ {Genesis}) /\ Len(a) \in Nat \ {0}
             /\ a[1] = b /\ Prev[a[Len(a)]] = base
<1> DEFINE h == Height[base]
           n == Height[b] - h
           a == Above(b, h)
<1>1. /\ base \in Block /\ h \in Nat /\ Height[b] \in Nat /\ h \in 0..Height[b]
      /\ n \in Nat \ {0} /\ h < Height[b]
  <2>1. /\ base \in Block /\ Height[base] <= Height[b] /\ Height[base] # Height[b]
    BY BranchFacts
  <2> QED  BY <2>1, TreeFacts
<1>2. /\ a \in Seq(Block) /\ Len(a) = n /\ \A i \in 1..n : a[i] = Walk[b][i]
      /\ Members(a) = {c \in Branch(b) : Height[c] > h}
  BY <1>1, AboveIsPart
<1>3. DOMAIN a = 1..n
  BY <1>2, LenProperties
<1>4. /\ Walk[b][1] = b
      /\ \A i \in 1..Height[b] : Walk[b][i + 1] = Prev[Walk[b][i]]
  BY WalkShape DEF IsWalkFrom
<1>5. Walk[b][Height[b] + 1 - h] = base
  BY WalkPositions
<1> HIDE DEF a
<1>6. \A i \in 1..n : a[i] \in Block \ {Genesis}
  <2>1. ASSUME NEW i \in 1..n  PROVE  a[i] \in Block \ {Genesis}
    <3>1. a[i] \in {c \in Branch(b) : Height[c] > h}
      BY <1>2, <1>3 DEF Members
    <3> QED  BY <1>1, <3>1, BranchFacts, TreeFacts
  <2> QED  BY <2>1
<1>7. a \in Seq(Block \ {Genesis})
  <2>1. a \in [1..n -> Block \ {Genesis}]
    <3>1. a = [i \in 1..n |-> a[i]]
      BY <1>2, LenProperties
    <3> QED  BY <1>6, <3>1
  <2> QED  BY <1>1, <2>1, SeqDef
<1>8. 1 \in 1..n /\ n \in 1..n /\ n \in 1..Height[b] /\ n + 1 = Height[b] + 1 - h
  BY <1>1
<1>9. a[1] = b /\ Prev[a[n]] = base
  BY <1>2, <1>4, <1>5, <1>8
<1>10. a \in Seq(Block \ {Genesis}) /\ Len(a) \in Nat \ {0} /\ a[1] = b /\ Prev[a[Len(a)]] = base
  BY <1>1, <1>2, <1>7, <1>9
<1> QED  BY <1>10 DEF a

\* Where the exchange of two branches begins and ends: the old blocks from the side
\* hash down to the meeting point, the new ones from there up to the tip.
LEMMA ReplacementEnds ==
  ASSUME NEW side \in Block, NEW tip \in Block, side \notin Branch(tip), tip \notin Branch(side)
  PROVE  LET base == MeetingPoint(side, tip)
             old == OldBlocks(side, tip)
             new == NewBlocks(side, tip)
         IN  /\ base \in Block
             /\ old \in Seq(Block \ {Genesis}) /\ Len(old) \in Nat \ {0}
             /\ old[1] = side /\ Prev[old[Len(old)]] = base
             /\ new \in Seq(Block \ {Genesis}) /\ Len(new) \in Nat \ {0}
             /\ Prev[new[1]] = base /\ new[Len(new)] = tip
<1> DEFINE base == MeetingPoint(side, tip)
           old == OldBlocks(side, tip)
           new == NewBlocks(side, tip)
           down == Above(tip, Height[base])
           n == Len(down)
<1>1. base \in Branch(side) /\ base \in Branch(tip) /\ base # side /\ base # tip /\ base \in Block
  BY MeetingPointMeets, BranchFacts DEF IsMeeting
<1>2. old = Above(side, Height[base]) /\ new = [i \in DOMAIN down |-> down[Len(down) + 1 - i]]
  BY <1>1 DEF OldBlocks, NewBlocks
<1> HIDE DEF base, old, new
<1>3. /\ old \in Seq(Block \ {Genesis}) /\ Len(old) \in Nat \ {0}
      /\ old[1] = side /\ Prev[old[Len(old)]] = base
  BY <1>1, <1>2, AboveEnds
<1>4. /\ down \in Seq(Block \ {Genesis}) /\ n \in Nat \ {0}
      /\ down[1] = tip /\ Prev[down[n]] = base
  BY <1>1, AboveEnds
<1> HIDE DEF down
<1>5. DOMAIN down = 1..n /\ \A i \in 1..n : down[i] \in Block \ {Genesis}
  BY <1>4, LenProperties, ElementOfSeq
<1>6. new = [i \in 1..n |-> down[n + 1 - i]]
  BY <1>2, <1>5
<1> HIDE DEF n
<1>7. new \in Seq(Block \ {Genesis}) /\ Len(new) = n
  <2>1. \A i \in 1..n : n + 1 - i \in 1..n
    BY <1>4
  <2>2. \A i \in 1..n : down[n + 1 - i] \in Block \ {Genesis}
    BY <1>5, <2>1
  <2> QED  BY <1>4, <1>6, <2>2
<1>8. Prev[new[1]] = base /\ new[n] = tip
  <2>1. 1 \in 1..n /\ n \in 1..n /\ n + 1 - 1 = n /\ n + 1 - n = 1
    BY <1>4
  <2> QED  BY <1>4, <1>6, <2>1
<1> QED  BY <1>1, <1>3, <1>4, <1>7, <1>8 DEF base, old, new

(***************************************************************************)
(* The folds of Ledger.                                                    *)
(***************************************************************************)

SpendStep(c, u, t) == SpendInputs(u, t)
SetRefStep(c, r, t) == SetRef(r, t)
PutOnStep(c, u, b) == UnspentAdded(u, b)
PutRefsStep(c, r, b) == RefsAdded(r, b)
FoundStep(c, s, t) == OutputsFirst(s, t)

Spend == INSTANCE Folding WITH Op <- SpendStep
SetRefs == INSTANCE Folding WITH Op <- SetRefStep
Puts == INSTANCE Folding WITH Op <- PutOnStep
PutRefs == INSTANCE Folding WITH Op <- PutRefsStep
CancelTx == INSTANCE Folding WITH Op <- CancelTransaction
CancelTxRef == INSTANCE Folding WITH Op <- CancelRef
Takes == INSTANCE Folding WITH Op <- UnspentCancelled
TakeOffRefs == INSTANCE Folding WITH Op <- RefsCancelled
Found == INSTANCE Folding WITH Op <- FoundStep

\* UpdateOnBlockAdd of the unspent outputs is a loop over the transactions.
LEMMA UnspentAddedFolds ==
  ASSUME NEW u, NEW b  PROVE  UnspentAdded(u, b) = Spend!Fold(0, u, Txs[b])
BY DEF UnspentAdded, SpendStep, Spend!Fold, FoldLeft, MapThenFoldSet, Max, Spend!LastOf

\* UpdateOnBlockAdd of the references is one, too.
LEMMA RefsAddedFolds ==
  ASSUME NEW r, NEW b  PROVE  RefsAdded(r, b) = SetRefs!Fold(0, r, Txs[b])
BY DEF RefsAdded, SetRefStep, SetRefs!Fold, FoldLeft, MapThenFoldSet, Max, SetRefs!LastOf

\* The blocks of a branch are put on the unspent outputs one by one.
LEMMA PutOnFolds ==
  ASSUME NEW u, NEW s  PROVE  FoldLeft(UnspentAdded, u, s) = Puts!Fold(0, u, s)
BY DEF PutOnStep, Puts!Fold, FoldLeft, MapThenFoldSet, Max, Puts!LastOf

\* They are put on the references one by one.
LEMMA PutRefsFolds ==
  ASSUME NEW r, NEW s  PROVE  FoldLeft(RefsAdded, r, s) = PutRefs!Fold(0, r, s)
BY DEF PutRefsStep, PutRefs!Fold, FoldLeft, MapThenFoldSet, Max, PutRefs!LastOf

\* UpdateOnBlockCancel of the unspent outputs is a loop over the transactions.
LEMMA CancelledFolds ==
  ASSUME NEW idx, NEW u, NEW b
  PROVE  UnspentCancelled(idx, u, b) =
           CancelTx!Fold([index |-> idx, tip |-> Prev[b]], u, Txs[b])
BY DEF UnspentCancelled, CancelTx!Fold, FoldLeft, MapThenFoldSet, Max, CancelTx!LastOf

\* UpdateOnBlockCancel of the references is one, too.
LEMMA RefsCancelledFolds ==
  ASSUME NEW idx, NEW r, NEW b
  PROVE  RefsCancelled(idx, r, b) = CancelTxRef!Fold(idx, r, Txs[b])
BY DEF RefsCancelled, CancelTxRef!Fold, FoldLeft, MapThenFoldSet, Max, CancelTxRef!LastOf

\* The blocks of a branch are taken off the unspent outputs one by one.
LEMMA TakenOffFolds ==
  ASSUME NEW idx, NEW u, NEW s
  PROVE  UnspentTakenOff(idx, u, s) = Takes!Fold(idx, u, s)
BY DEF UnspentTakenOff, Takes!Fold, FoldLeft, MapThenFoldSet, Max, Takes!LastOf

\* They are taken off the references one by one.
LEMMA RefsTakenOffFolds ==
  ASSUME NEW idx, NEW r, NEW s
  PROVE  RefsTakenOff(idx, r, s) = TakeOffRefs!Fold(idx, r, s)
BY DEF RefsTakenOff, TakeOffRefs!Fold, FoldLeft, MapThenFoldSet, Max, TakeOffRefs!LastOf

(***************************************************************************)
(* The transactions of a branch.                                           *)
(***************************************************************************)

\* The transactions of the blocks and their inputs are sequences.
LEMMA TxTypes ==
  /\ \A b \in Block : /\ Txs[b] \in Seq(Tx) /\ Len(Txs[b]) \in Nat
                      /\ DOMAIN Txs[b] = 1..Len(Txs[b])
                      /\ \A i \in 1..Len(Txs[b]) : Txs[b][i] \in Tx
                      /\ TxsOf(b) \subseteq Tx
  /\ \A t \in Tx : /\ Ins[t] \in Seq(Tx \X Nat) /\ Len(Ins[t]) \in Nat
                   /\ DOMAIN Ins[t] = 1..Len(Ins[t])
                   /\ InsOf(t) \subseteq Tx \X Nat
                   /\ Outs[t] \subseteq Nat
<1>1. ASSUME NEW b \in Block
      PROVE  /\ Txs[b] \in Seq(Tx) /\ Len(Txs[b]) \in Nat
             /\ DOMAIN Txs[b] = 1..Len(Txs[b])
             /\ \A i \in 1..Len(Txs[b]) : Txs[b][i] \in Tx
  <2>1. Txs[b] \in Seq(Tx)
    BY Transactions
  <2> QED  BY <2>1, LenProperties, ElementOfSeq
<1>2. ASSUME NEW t \in Tx
      PROVE  /\ Ins[t] \in Seq(Tx \X Nat) /\ Len(Ins[t]) \in Nat
             /\ DOMAIN Ins[t] = 1..Len(Ins[t])
             /\ \A i \in 1..Len(Ins[t]) : Ins[t][i] \in Tx \X Nat
             /\ Outs[t] \subseteq Nat
  <2>1. Ins[t] \in Seq(Tx \X Nat) /\ Outs[t] \subseteq Nat
    BY Transactions
  <2> QED  BY <2>1, LenProperties, ElementOfSeq
<1> QED  BY <1>1, <1>2 DEF TxsOf, InsOf

\* The transactions of the branch under a block, and those before one of its own.
Older(b) == IF b = Genesis THEN {} ELSE TxsOn(Prev[b])
Before(b, i) == {Txs[b][j] : j \in 1..(i - 1)} \cup Older(b)

\* A branch has the transactions of its block and those of the branch under it.
LEMMA TxsOnStep ==
  ASSUME NEW b \in Block  PROVE  TxsOn(b) = TxsOf(b) \cup Older(b)
BY BranchStep DEF TxsOn, Older

\* It has the transactions of all its blocks and of their branches.
LEMMA TxsOnBelow ==
  ASSUME NEW b \in Block, NEW c \in Branch(b)
  PROVE  TxsOf(c) \subseteq TxsOn(b) /\ TxsOn(c) \subseteq TxsOn(b) /\ TxsOn(c) \subseteq Tx
BY BranchBelow, BranchFacts, TxTypes DEF TxsOn

\* The transactions before the first one, the next one and the end of a block.
LEMMA BeforeSteps ==
  ASSUME NEW b \in Block
  PROVE  /\ Before(b, 1) = Older(b)
         /\ Before(b, Len(Txs[b]) + 1) = TxsOn(b)
         /\ \A i \in 1..Len(Txs[b]) : Before(b, i + 1) = Before(b, i) \cup {Txs[b][i]}
<1>1. Len(Txs[b]) \in Nat /\ DOMAIN Txs[b] = 1..Len(Txs[b])
  BY TxTypes
<1>2. 1..(1 - 1) = {} /\ 1..(Len(Txs[b]) + 1 - 1) = 1..Len(Txs[b])
  BY <1>1
<1>3. ASSUME NEW i \in 1..Len(Txs[b])
      PROVE  Before(b, i + 1) = Before(b, i) \cup {Txs[b][i]}
  <2>1. 1..(i + 1 - 1) = (1..(i - 1)) \cup {i}
    BY <1>1
  <2> QED  BY <2>1 DEF Before
<1> QED  BY <1>1, <1>2, <1>3, TxsOnStep DEF Before, TxsOf

\* What VerifyBlock makes sure of for a transaction at its place.
LEMMA AtItsPlace ==
  ASSUME NEW b \in Block, NEW i \in 1..Len(Txs[b])
  PROVE  /\ Txs[b][i] \notin Before(b, i)
         /\ \A x \in InsOf(Txs[b][i]) :
              /\ x[1] \in Before(b, i) /\ x \in Outputs(x[1]) /\ x[1] # Txs[b][i]
              /\ \A t \in Before(b, i) : x \notin InsOf(t)
<1>1. VerifiedBlock(b) /\ i \in DOMAIN Txs[b] /\ Txs[b][i] \in Tx
  BY VerifiedBlocks, TxTypes
<1>2. Txs[b][i] \notin Before(b, i)
  BY <1>1 DEF VerifiedBlock, Before, Older
<1>3. ASSUME NEW x \in InsOf(Txs[b][i])
      PROVE  /\ x[1] \in Before(b, i) /\ x \in Outputs(x[1])
             /\ \A t \in Before(b, i) : x \notin InsOf(t)
  <2>1. Spendable(b, i) /\ x \in Tx \X Nat
    BY <1>1, TxTypes DEF VerifiedBlock
  <2>2. /\ x[1] \in Before(b, i) /\ x[2] \in Outs[x[1]]
        /\ \A t \in Before(b, i) : x \notin InsOf(t)
    BY <2>1 DEF Spendable, Before, Older
  <2>3. x = <<x[1], x[2]>>
    BY <2>1
  <2> QED  BY <2>2, <2>3 DEF Outputs
<1> QED  BY <1>2, <1>3

\* A set of transactions that has those whose outputs it spends.
HoldsInputs(T) == \A t \in T : \A x \in InsOf(t) : x[1] \in T /\ x \in Outputs(x[1])

\* A branch has the transactions whose outputs it spends, at every transaction.
LEMMA BranchHoldsInputs ==
  ASSUME NEW b \in Block
  PROVE  /\ HoldsInputs(TxsOn(b))
         /\ \A i \in 1..(Len(Txs[b]) + 1) : HoldsInputs(Before(b, i))
<1>1. ASSUME NEW c \in Block, NEW i \in 1..(Len(Txs[c]) + 1), HoldsInputs(Older(c))
      PROVE  HoldsInputs(Before(c, i))
  <2> SUFFICES ASSUME NEW t \in Before(c, i), NEW x \in InsOf(t)
               PROVE  x[1] \in Before(c, i) /\ x \in Outputs(x[1])
    BY DEF HoldsInputs
  <2>1. CASE t \in Older(c)
    BY <1>1, <2>1 DEF HoldsInputs, Before
  <2>2. CASE t \notin Older(c)
    <3>1. PICK j \in 1..(i - 1) : t = Txs[c][j]
      BY <2>2 DEF Before
    <3>2. j \in 1..Len(Txs[c]) /\ 1..(j - 1) \subseteq 1..(i - 1)
      BY <1>1, TxTypes
    <3>3. x[1] \in Before(c, j) /\ x \in Outputs(x[1])
      BY <3>1, <3>2, AtItsPlace
    <3> QED  BY <3>2, <3>3 DEF Before
  <2> QED  BY <2>1, <2>2
<1> DEFINE G == {c \in Block : HoldsInputs(TxsOn(c))}
<1>2. ASSUME NEW c \in Block, HoldsInputs(Older(c))  PROVE  c \in G
  <2>1. Len(Txs[c]) + 1 \in 1..(Len(Txs[c]) + 1)
    BY TxTypes
  <2> QED  BY <1>1, <1>2, <2>1, BeforeSteps
<1>3. Genesis \in G
  BY <1>2, TreeFacts DEF Older, HoldsInputs
<1>4. ASSUME NEW c \in Block \ {Genesis}, Prev[c] \in G  PROVE  c \in G
  BY <1>2, <1>4 DEF Older
<1>5. Block \subseteq G
  <2> HIDE DEF G
  <2> QED  BY <1>3, <1>4, Walks!AlongTree, BlocksAreTree
<1>6. HoldsInputs(Older(b))
  <2>1. b # Genesis => Prev[b] \in G
    BY <1>5, TreeFacts
  <2> QED  BY <2>1 DEF Older, HoldsInputs
<1> QED  BY <1>1, <1>5, <1>6

\* A transaction is in one block of a branch.
LEMMA OneBlockOfBranch ==
  ASSUME NEW b \in Block, NEW c \in Branch(b), NEW d \in Branch(b),
         NEW t \in TxsOf(c) \cap TxsOf(d)
  PROVE  c = d
<1>1. ASSUME NEW x \in Branch(b), NEW y \in Branch(b), x # y, Height[x] <= Height[y],
             t \in TxsOf(x), t \in TxsOf(y)
      PROVE  FALSE
  <2>1. x \in Block /\ y \in Block /\ x \in Branch(y)
    BY <1>1, BranchFacts, BranchOrder
  <2>2. y # Genesis
    BY <1>1, <2>1, TreeFacts, BranchStep
  <2>3. x \in Branch(Prev[y]) /\ Prev[y] \in Block
    BY <1>1, <2>1, <2>2, TreeFacts, BranchStep
  <2>4. t \in TxsOn(Prev[y])
    BY <1>1, <2>3 DEF TxsOn
  <2>5. PICK i \in 1..Len(Txs[y]) : t = Txs[y][i]
    BY <1>1, <2>1, TxTypes DEF TxsOf
  <2>6. t \notin Before(y, i)
    BY <2>1, <2>5, AtItsPlace
  <2> QED  BY <2>2, <2>4, <2>6 DEF Before, Older
<1>2. Height[c] \in Nat /\ Height[d] \in Nat
  BY BranchFacts, TreeFacts
<1> QED  BY <1>1, <1>2

(***************************************************************************)
(* A block that is put on spends its inputs and adds its outputs.          *)
(***************************************************************************)

\* What some transactions leave unspent.
Unspent(T) == (UNION {Outputs(t) : t \in T}) \ (UNION {InsOf(t) : t \in T})

\* One more transaction: its inputs are spent, its outputs are there.
LEMMA SpendInputsIsRight ==
  ASSUME NEW T, HoldsInputs(T), NEW t, t \notin T,
         \A x \in InsOf(t) : x[1] \in T
  PROVE  SpendInputs(Unspent(T), t) = Unspent(T \cup {t})
<1>1. \A x \in Outputs(t) : x[1] = t
  BY DEF Outputs
<1>2. \A x \in UNION {InsOf(s) : s \in T} : x[1] # t
  BY DEF HoldsInputs
<1>3. \A x \in UNION {Outputs(s) : s \in T} : x[1] # t
  BY DEF Outputs
<1>4. \A x \in InsOf(t) : x[1] # t
  OBVIOUS
<1> DEFINE made == UNION {Outputs(s) : s \in T}
           paid == UNION {InsOf(s) : s \in T}
<1>5. /\ Unspent(T) = made \ paid
      /\ Unspent(T \cup {t}) = (made \cup Outputs(t)) \ (paid \cup InsOf(t))
  <2> DEFINE madeThen == UNION {Outputs(s) : s \in T \cup {t}}
             paidThen == UNION {InsOf(s) : s \in T \cup {t}}
  <2>1. madeThen = made \cup Outputs(t)
    OBVIOUS
  <2>2. paidThen = paid \cup InsOf(t)
    OBVIOUS
  <2>3. Unspent(T) = made \ paid
    BY DEF Unspent
  <2>4. Unspent(T \cup {t}) = madeThen \ paidThen
    BY DEF Unspent
  <2> HIDE DEF made, paid, madeThen, paidThen
  <2> QED  BY <2>1, <2>2, <2>3, <2>4
<1>6. /\ \A x \in paid : x[1] # t
      /\ \A x \in made : x[1] # t
  BY <1>2, <1>3
<1>7. SpendInputs(made \ paid, t) =
        {x \in made \ paid : x \notin InsOf(t) /\ x[1] # t} \cup Outputs(t)
  BY DEF SpendInputs
<1> HIDE DEF made, paid
<1> QED  BY <1>1, <1>4, <1>5, <1>6, <1>7

\* A block turns the unspent outputs of the branch under it into those of its own
\* branch (UpdateOnBlockAdd).
LEMMA UnspentAddedIsRight ==
  ASSUME NEW b \in Block
  PROVE  UnspentAdded(Unspent(Older(b)), b) = UnspentOn(b)
<1> DEFINE n == Len(Txs[b])
           F == [i \in 0..n |-> {Unspent(Before(b, i + 1))}]
<1>1. n \in Nat /\ Txs[b] \in Seq(Tx)
  BY TxTypes
<1>2. /\ F[0] = {Unspent(Older(b))}
      /\ F[n] = {UnspentOn(b)}
      /\ \A i \in 1..n : /\ F[i - 1] = {Unspent(Before(b, i))}
                         /\ F[i] = {Unspent(Before(b, i) \cup {Txs[b][i]})}
  <2>1. F[0] = {Unspent(Before(b, 1))}
    BY <1>1
  <2>2. F[n] = {Unspent(Before(b, n + 1))}
    BY <1>1
  <2>3. ASSUME NEW i \in 1..n
        PROVE  /\ F[i - 1] = {Unspent(Before(b, i))} /\ F[i] = {Unspent(Before(b, i + 1))}
    <3>1. i - 1 \in 0..n /\ i \in 0..n /\ i - 1 + 1 = i
      BY <1>1
    <3> QED  BY <3>1
  <2> HIDE DEF F
  <2> QED  BY <2>1, <2>2, <2>3, BeforeSteps DEF UnspentOn, Unspent
<1> HIDE DEF F
<1>3. ASSUME NEW i \in 1..n, NEW v \in F[i - 1]  PROVE  SpendStep(0, v, Txs[b][i]) \in F[i]
  <2>1. i \in 1..(n + 1)
    BY <1>1
  <2>2. SpendInputs(Unspent(Before(b, i)), Txs[b][i]) = Unspent(Before(b, i) \cup {Txs[b][i]})
    BY <2>1, BranchHoldsInputs, AtItsPlace, SpendInputsIsRight
  <2> QED  BY <1>2, <2>2 DEF SpendStep
<1>4. Spend!Fold(0, Unspent(Older(b)), Txs[b]) \in F[n]
  <2>1. Unspent(Older(b)) \in F[0]
    BY <1>2
  <2> HIDE DEF n
  <2> QED  BY <1>1, <1>3, <2>1, Spend!FoldReaches DEF n
<1> QED  BY <1>2, <1>4, UnspentAddedFolds

\* The blocks that are put on, one after the other, from the one on which the
\* first of them stands.
LEMMA PutOnIsRight ==
  ASSUME NEW base \in Block, NEW s \in Seq(Block \ {Genesis}), s # <<>>,
         Prev[s[1]] = base, IsWalkUp(s)
  PROVE  FoldLeft(UnspentAdded, UnspentOn(base), s) = UnspentOn(s[Len(s)])
<1> DEFINE n == Len(s)
           F == [i \in 0..n |-> {UnspentOn(IF i = 0 THEN base ELSE s[i])}]
<1>1. n \in Nat \ {0} /\ \A i \in 1..n : s[i] \in Block \ {Genesis}
  BY EmptySeq, LenProperties, ElementOfSeq
<1>2. /\ F[0] = {UnspentOn(base)}
      /\ \A i \in 1..n : F[i - 1] = {UnspentOn(Prev[s[i]])} /\ F[i] = {UnspentOn(s[i])}
  <2>1. ASSUME NEW i \in 1..n
        PROVE  F[i - 1] = {UnspentOn(Prev[s[i]])} /\ F[i] = {UnspentOn(s[i])}
    <3>1. i - 1 \in 0..n /\ i \in 0..n /\ i # 0
      BY <1>1
    <3>2. CASE i = 1
      BY <3>1, <3>2
    <3>3. CASE i # 1
      <4>1. i - 1 # 0 /\ i - 1 \in 1..(n - 1) /\ i - 1 + 1 = i
        BY <1>1, <3>3
      <4>2. Prev[s[i]] = s[i - 1]
        <5>1. Prev[s[i - 1 + 1]] = s[i - 1]
          BY <4>1 DEF IsWalkUp
        <5> QED  BY <4>1, <5>1
      <4> QED  BY <3>1, <4>1, <4>2
    <3> QED  BY <3>2, <3>3
  <2>2. F[0] = {UnspentOn(base)}
    BY <1>1
  <2> HIDE DEF F
  <2> QED  BY <2>1, <2>2
<1> HIDE DEF F
<1>3. ASSUME NEW i \in 1..n, NEW v \in F[i - 1]  PROVE  PutOnStep(0, v, s[i]) \in F[i]
  <2>1. s[i] \in Block \ {Genesis}
    BY <1>1
  <2>2. UnspentAdded(Unspent(Older(s[i])), s[i]) = UnspentOn(s[i])
    BY <2>1, UnspentAddedIsRight
  <2>3. Unspent(Older(s[i])) = UnspentOn(Prev[s[i]])
    BY <2>1 DEF Older, Unspent, UnspentOn
  <2> QED  BY <1>2, <2>2, <2>3 DEF PutOnStep
<1>4. Puts!Fold(0, UnspentOn(base), s) \in F[n]
  <2>1. UnspentOn(base) \in F[0]
    BY <1>2
  <2> HIDE DEF n
  <2> QED  BY <1>3, <2>1, Puts!FoldReaches DEF n
<1>5. n \in 1..n
  BY <1>1
<1> QED  BY <1>2, <1>4, <1>5, PutOnFolds

(***************************************************************************)
(* What the index says of a transaction under a tip.                       *)
(***************************************************************************)

\* An index has the transactions and the spendings of some blocks.
LinksOf(lnk, blocks) == \A t \in Tx : lnk[t] = {b \in blocks : t \in TxsOf(b)}
SpentIn(spt, blocks) ==
  \A x \in Tx : spt[x] = {r \in [out : Outs[x], block : blocks] :
                            <<x, r.out>> \in InputsOf(r.block)}

\* A transaction is found under a tip exactly when it is on the branch of the tip.
LEMMA FoundOnBranch ==
  ASSUME NEW idx, NEW c \in Block, idx.chain = Branch(c), NEW blocks \in SUBSET Block,
         LinksOf(idx.links, blocks), NEW tip \in Block, Branch(tip) \subseteq blocks, NEW t \in Tx
  PROVE  LET home == BlockUnder(idx, t, tip)
         IN  /\ home # NoHash <=> t \in TxsOn(tip)
             /\ t \in TxsOn(tip) => home \in Branch(tip) /\ t \in TxsOf(home)
<1>1. idx.links[t] \in SUBSET Block /\ idx.links[t] = {b \in blocks : t \in TxsOf(b)}
  BY DEF LinksOf
<1> DEFINE home == BlockUnder(idx, t, tip)
<1>2. IF idx.links[t] \cap Branch(tip) = {} THEN home = NoHash
      ELSE home \in idx.links[t] \cap Branch(tip)
  BY <1>1, ChoiceIsRight DEF ChoiceAgrees, BlockUnder
<1>3. t \in TxsOn(tip) <=> idx.links[t] \cap Branch(tip) # {}
  BY <1>1 DEF TxsOn
<1> HIDE DEF home
<1>4. /\ home # NoHash <=> t \in TxsOn(tip)
      /\ t \in TxsOn(tip) => home \in Branch(tip) /\ t \in TxsOf(home)
  BY <1>1, <1>2, <1>3, TreeFacts
<1> QED  BY <1>4 DEF home

\* The outputs that are found unspent under a tip are those that its branch leaves.
LEMMA UnspentUnderIsRight ==
  ASSUME NEW idx, NEW c \in Block, idx.chain = Branch(c), NEW blocks \in SUBSET Block,
         LinksOf(idx.links, blocks), SpentIn(idx.spent, blocks),
         NEW tip \in Block, Branch(tip) \subseteq blocks, NEW t \in TxsOn(tip)
  PROVE  UnspentUnder(idx, t, tip) = UnspentOn(tip) \cap Outputs(t)
<1> DEFINE home == BlockUnder(idx, t, tip)
           spending == {r \in idx.spent[t] :
                          CheckBlockIsInRange(idx.chain, r.block, home, tip)}
<1>1. t \in Tx
  BY TxsOnBelow, BranchFacts
<1>2. home \in Branch(tip) /\ t \in TxsOf(home) /\ home \in Block
  BY <1>1, FoundOnBranch, BranchFacts
<1>3. idx.spent[t] = {r \in [out : Outs[t], block : blocks] :
                        <<t, r.out>> \in InputsOf(r.block)}
  BY <1>1 DEF SpentIn
<1> HIDE DEF home
<1>4. ASSUME NEW d \in Block
      PROVE  CheckBlockIsInRange(idx.chain, d, home, tip) <=>
               d \in Branch(tip) /\ home \in Branch(d)
  BY <1>2, RangeIsRight DEF RangeAgrees
<1>5. ASSUME NEW d \in Branch(tip), NEW o, <<t, o>> \in InputsOf(d)  PROVE  home \in Branch(d)
  <2>1. d \in Block
    BY BranchFacts
  <2>2. PICK s \in TxsOf(d) : <<t, o>> \in InsOf(s)
    BY <1>5 DEF InputsOf
  <2>3. s \in TxsOn(d) /\ HoldsInputs(TxsOn(d))
    BY <2>1, <2>2, TxsOnStep, BranchHoldsInputs
  <2>4. t \in TxsOn(d)
    BY <2>2, <2>3 DEF HoldsInputs
  <2>5. PICK e \in Branch(d) : t \in TxsOf(e)
    BY <2>4 DEF TxsOn
  <2>6. e = home
    BY <1>2, <2>1, <2>5, BranchBelow, OneBlockOfBranch
  <2> QED  BY <2>5, <2>6
<1>6. ASSUME NEW o \in Outs[t]
      PROVE  o \in {r.out : r \in spending} <=> <<t, o>> \in UNION {InsOf(s) : s \in TxsOn(tip)}
  <2>1. ASSUME NEW r \in spending, r.out = o
        PROVE  <<t, o>> \in UNION {InsOf(s) : s \in TxsOn(tip)}
    <3>1. r.block \in Block /\ <<t, o>> \in InputsOf(r.block)
      BY <1>3, <2>1
    <3>2. r.block \in Branch(tip)
      BY <1>4, <2>1, <3>1
    <3> QED  BY <3>1, <3>2 DEF InputsOf, TxsOn
  <2>2. ASSUME NEW s \in TxsOn(tip), <<t, o>> \in InsOf(s)
        PROVE  o \in {r.out : r \in spending}
    <3>1. PICK d \in Branch(tip) : s \in TxsOf(d)
      BY DEF TxsOn
    <3>2. <<t, o>> \in InputsOf(d) /\ d \in blocks /\ d \in Block
      BY <2>2, <3>1 DEF InputsOf
    <3> DEFINE r == [out |-> o, block |-> d]
    <3>3. r \in [out : Outs[t], block : blocks] /\ r.out = o /\ r.block = d
      BY <3>2
    <3>4. r \in idx.spent[t]
      BY <1>3, <3>2, <3>3
    <3>5. r \in spending
      BY <1>4, <1>5, <3>2, <3>3, <3>4
    <3> QED  BY <3>3, <3>5
  <2> QED  BY <2>1, <2>2
<1>7. UnspentUnder(idx, t, tip) = {<<t, o>> : o \in Outs[t] \ {r.out : r \in spending}}
  BY DEF UnspentUnder, home
<1>8. \A o \in Outs[t] : <<t, o>> \in UNION {Outputs(s) : s \in TxsOn(tip)}
  BY DEF Outputs
<1> DEFINE gone == {r.out : r \in spending}
           paid == UNION {InsOf(s) : s \in TxsOn(tip)}
           made == UNION {Outputs(s) : s \in TxsOn(tip)}
<1> HIDE DEF spending
<1>9. \A o \in Outs[t] : (o \in gone <=> <<t, o>> \in paid) /\ <<t, o>> \in made
  BY <1>6, <1>8
<1>10. UnspentOn(tip) = made \ paid
  BY DEF UnspentOn
<1>11. UnspentUnder(idx, t, tip) = {<<t, o>> : o \in Outs[t] \ gone}
  BY <1>7
<1> HIDE DEF gone, paid, made
<1> QED  BY <1>9, <1>10, <1>11 DEF Outputs

(***************************************************************************)
(* A block that is taken off gives back what it spent.                     *)
(***************************************************************************)

\* What is said of an index in the following: it has the stored blocks, and the
\* chain table is the branch of some block.
IsIndexOf(idx, blocks) ==
  /\ \E c \in Block : idx.chain = Branch(c)
  /\ blocks \subseteq Block
  /\ LinksOf(idx.links, blocks)
  /\ SpentIn(idx.spent, blocks)

\* The outputs of a transaction of the branch of a tip are found as it leaves them.
LEMMA OutputsAreFound ==
  ASSUME NEW idx, NEW blocks, IsIndexOf(idx, blocks),
         NEW tip \in Block, Branch(tip) \subseteq blocks, NEW t \in TxsOn(tip)
  PROVE  UnspentUnder(idx, t, tip) = {x \in UnspentOn(tip) : x[1] = t}
<1>1. PICK c \in Block : idx.chain = Branch(c)
  BY DEF IsIndexOf
<1>2. blocks \in SUBSET Block /\ LinksOf(idx.links, blocks) /\ SpentIn(idx.spent, blocks)
  BY DEF IsIndexOf
<1>3. UnspentUnder(idx, t, tip) = UnspentOn(tip) \cap Outputs(t)
  BY <1>1, <1>2, UnspentUnderIsRight
<1>4. \A x \in UnspentOn(tip) : x \in Outputs(t) <=> x[1] = t
  BY DEF UnspentOn, Outputs
<1> QED  BY <1>3, <1>4

\* The transactions that get their outputs back with one that is cancelled.
BackWith(idx, t, tip) == {Ins[t][i][1] : i \in Restorable(idx, t, tip)}

\* The entries that UpdateOnBlockCancel writes again are those of all older blocks,
\* when the inputs with older transactions come first.
LEMMA RestorableAreOlder ==
  ASSUME OlderInputsFirst, NEW idx, NEW blocks, IsIndexOf(idx, blocks),
         NEW b \in Block \ {Genesis}, Branch(Prev[b]) \subseteq blocks, NEW t \in TxsOf(b)
  PROVE  BackWith(idx, t, Prev[b]) = {x[1] : x \in InsOf(t)} \cap TxsOn(Prev[b])
<1> DEFINE P == TxsOn(Prev[b])
<1>1. /\ Prev[b] \in Block /\ t \in Tx
      /\ Ins[t] \in Seq(Tx \X Nat) /\ DOMAIN Ins[t] = 1..Len(Ins[t]) /\ Len(Ins[t]) \in Nat
  BY TreeFacts, TxTypes
<1>2. ASSUME NEW i \in 1..Len(Ins[t])
      PROVE  /\ Ins[t][i] \in InsOf(t) /\ Ins[t][i][1] \in Tx
             /\ Ins[t][i][1] \in P \cup TxsOf(b)
             /\ BlockUnder(idx, Ins[t][i][1], Prev[b]) # NoHash <=> Ins[t][i][1] \in P
  <2>1. Ins[t][i] \in InsOf(t) /\ Ins[t][i][1] \in Tx
    <3>1. Ins[t][i] \in Tx \X Nat
      BY <1>1, ElementOfSeq
    <3> QED  BY <1>1, <3>1 DEF InsOf
  <2>2. t \in TxsOn(b) /\ TxsOn(b) = TxsOf(b) \cup P
    BY TxsOnStep DEF Older
  <2>3. Ins[t][i][1] \in P \cup TxsOf(b)
    BY <2>1, <2>2, BranchHoldsInputs DEF HoldsInputs
  <2>4. BlockUnder(idx, Ins[t][i][1], Prev[b]) # NoHash <=> Ins[t][i][1] \in P
    BY <1>1, <2>1, FoundOnBranch DEF IsIndexOf
  <2> QED  BY <2>1, <2>3, <2>4
<1>3. \A s \in TxsOf(b) : s \notin P
  <2>1. ASSUME NEW i \in 1..Len(Txs[b])  PROVE  Txs[b][i] \notin P
    BY AtItsPlace DEF Before, Older
  <2> QED  BY <2>1, TxTypes DEF TxsOf
<1> HIDE DEF P
<1>4. ASSUME NEW i \in 1..Len(Ins[t]), Ins[t][i][1] \in P
      PROVE  i \in Restorable(idx, t, Prev[b])
  <2>1. ASSUME NEW j \in 1..i  PROVE  Ins[t][j][1] \in P /\ j \in 1..Len(Ins[t])
    <3>1. j \in 1..Len(Ins[t]) /\ (j = i \/ j < i)
      BY <1>1
    <3>2. CASE j < i
      <4>1. Ins[t][j][1] \in TxsOf(b) => Ins[t][i][1] \in TxsOf(b)
        BY <1>1, <3>1, <3>2 DEF OlderInputsFirst
      <4> QED  BY <1>2, <1>3, <1>4, <3>1, <4>1
    <3> QED  BY <1>4, <3>1, <3>2
  <2> QED  BY <1>1, <1>2, <2>1 DEF Restorable
<1>5. ASSUME NEW i \in Restorable(idx, t, Prev[b])
      PROVE  i \in 1..Len(Ins[t]) /\ Ins[t][i][1] \in P
  <2>1. i \in 1..Len(Ins[t]) /\ i \in 1..i
    BY <1>1 DEF Restorable
  <2> QED  BY <1>2, <2>1 DEF Restorable
<1>6. ASSUME NEW x \in InsOf(t), x[1] \in P
      PROVE  \E i \in Restorable(idx, t, Prev[b]) : Ins[t][i][1] = x[1]
  <2>1. PICK i \in 1..Len(Ins[t]) : x = Ins[t][i]
    BY <1>1 DEF InsOf
  <2> QED  BY <1>4, <1>6, <2>1
<1>7. {Ins[t][i][1] : i \in Restorable(idx, t, Prev[b])} = {x[1] : x \in InsOf(t)} \cap P
  BY <1>2, <1>5, <1>6
<1> QED  BY <1>7 DEF P, BackWith

\* Between two sets of unspent outputs, U under a block and V with it: the outputs of
\* the transactions in R are as in U again, those in T are cancelled.
Between(U, V, R, T) == {x \in V : x[1] \notin R \cup T} \cup {x \in U : x[1] \in R}

\* One more transaction is cancelled.
LEMMA CancelStep ==
  ASSUME NEW idx, NEW tip, NEW t, NEW U, NEW V, NEW R, NEW T, NEW Q, NEW S,
         \A x \in BackWith(idx, t, tip) :
           \A y : y \in UnspentUnder(idx, x, tip) <=> y \in U /\ y[1] = x,
         t \notin R, Q = R \cup BackWith(idx, t, tip), S = T \cup {t}
  PROVE  CancelTransaction([index |-> idx, tip |-> tip], Between(U, V, R, T), t) =
           Between(U, V, Q, S)
<1> DEFINE u == Between(U, V, R, T)
           at == [index |-> idx, tip |-> tip]
           back == BackWith(idx, t, tip)
           again == UNION {UnspentUnder(idx, x, tip) : x \in back}
<1>1. CancelTransaction(at, u, t) = {x \in u : x[1] \notin back \cup {t}} \cup again
  <2>1. at.index = idx /\ at.tip = tip
    OBVIOUS
  <2> QED  BY <2>1 DEF CancelTransaction, BackWith
<1>2. again = {y \in U : y[1] \in back}
  <2>1. ASSUME NEW y  PROVE  y \in again <=> \E x \in back : y \in UnspentUnder(idx, x, tip)
    OBVIOUS
  <2>2. ASSUME NEW y
        PROVE  (\E x \in back : y \in UnspentUnder(idx, x, tip)) <=> y \in U /\ y[1] \in back
    OBVIOUS
  <2> HIDE DEF again, back
  <2> QED  BY <2>1, <2>2
<1>3. Q = R \cup back
  OBVIOUS
<1> HIDE DEF again, at, u, back
<1>4. CancelTransaction(at, u, t) = {x \in u : x[1] \notin back \cup {t}} \cup {y \in U : y[1] \in back}
  BY <1>1, <1>2
<1>5. {x \in u : x[1] \notin back \cup {t}} \cup {y \in U : y[1] \in back} = Between(U, V, Q, S)
  BY <1>3 DEF u, Between
<1> QED  BY <1>4, <1>5 DEF at, u

\* Taking a block off the unspent outputs of its branch leaves those of the branch
\* under it, whatever the primary branch is by now (UpdateOnBlockCancel).
THEOREM UnspentCancelledIsRight ==
  ASSUME OlderInputsFirst, NEW idx, NEW blocks, IsIndexOf(idx, blocks),
         NEW b \in Block \ {Genesis}, Branch(Prev[b]) \subseteq blocks
  PROVE  UnspentCancelled(idx, UnspentOn(b), b) = UnspentOn(Prev[b])
<1> DEFINE n == Len(Txs[b])
           at == [index |-> idx, tip |-> Prev[b]]
           P == TxsOn(Prev[b])
           U == UnspentOn(Prev[b])
           V == UnspentOn(b)
           T(i) == {Txs[b][j] : j \in 1..i}
           R(i) == UNION {{x[1] : x \in InsOf(Txs[b][j])} \cap P : j \in 1..i}
           val(i) == Between(U, V, R(i), T(i))
           F == [i \in 0..n |-> {val(i)}]
<1>1. /\ Prev[b] \in Block /\ n \in Nat /\ Txs[b] \in Seq(Tx) /\ DOMAIN Txs[b] = 1..n
      /\ \A i \in 1..n : Txs[b][i] \in TxsOf(b)
  BY TreeFacts, TxTypes DEF TxsOf
<1>2. /\ \A x \in U : x[1] \in P
      /\ TxsOn(b) = TxsOf(b) \cup P
      /\ \A t \in TxsOf(b) : t \notin P
  <2>1. \A x \in U : x[1] \in P
    BY DEF UnspentOn, Outputs
  <2>2. \A i \in 1..n : Txs[b][i] \notin P
    BY AtItsPlace DEF Before, Older
  <2> QED  BY <1>1, <2>1, <2>2, TxsOnStep DEF Older, TxsOf
<1>3. val(0) = V
  <2>1. 1..0 = {}
    OBVIOUS
  <2>2. T(0) = {} /\ R(0) = {}
    BY <2>1
  <2> HIDE DEF T, R, V, U
  <2> QED  BY <2>2 DEF Between
<1>4. val(n) = U
  <2>1. T(n) = TxsOf(b)
    BY <1>1 DEF TxsOf
  <2>2. R(n) \subseteq P
    OBVIOUS
  <2>3. ASSUME NEW x \in U, x[1] \notin R(n)  PROVE  x \in V /\ x[1] \notin T(n)
    <3>1. x[1] \in P /\ x[1] \notin TxsOf(b)
      BY <1>2
    <3>2. \A t \in TxsOf(b) : x \notin InsOf(t)
      <4>1. ASSUME NEW j \in 1..n  PROVE  x \notin InsOf(Txs[b][j])
        BY <2>3, <3>1
      <4> QED  BY <1>1, <4>1 DEF TxsOf
    <3>3. x \in V
      BY <1>2, <3>2 DEF UnspentOn
    <3> QED  BY <2>1, <3>1, <3>3
  <2>4. ASSUME NEW x \in V, x[1] \notin T(n)  PROVE  x \in U
    <3>1. PICK s \in TxsOn(b) : x \in Outputs(s)
      BY DEF UnspentOn
    <3>2. s \in P
      BY <1>2, <2>1, <2>4, <3>1 DEF Outputs
    <3>3. \A t \in P : x \notin InsOf(t)
      BY <1>2 DEF UnspentOn
    <3> QED  BY <3>1, <3>2, <3>3 DEF UnspentOn
  <2> HIDE DEF T, R, V, U
  <2> QED  BY <2>3, <2>4 DEF Between
<1>5. ASSUME NEW i \in 1..n
      PROVE  CancelTransaction(at, val(i - 1), Txs[b][i]) = val(i)
  <2> DEFINE t == Txs[b][i]
             back == {x[1] : x \in InsOf(t)} \cap P
  <2>1. /\ (1..(i - 1)) \cup {i} = 1..i
        /\ t \in TxsOf(b)
    BY <1>1
  <2>2. T(i) = T(i - 1) \cup {t} /\ R(i) = R(i - 1) \cup back
    <3>1. \A j : j \in 1..i <=> j \in 1..(i - 1) \/ j = i
      BY <1>1
    <3>2. T(i) = T(i - 1) \cup {t}
      BY <3>1
    <3>3. R(i) = R(i - 1) \cup back
      BY <3>1
    <3> QED  BY <3>2, <3>3
  <2>3. t \notin R(i - 1)
    BY <1>2, <2>1
  <2>4. BackWith(idx, t, Prev[b]) = back
    <3> HIDE DEF t
    <3> QED  BY <2>1, RestorableAreOlder
  <2>5. ASSUME NEW x \in back  PROVE  UnspentUnder(idx, x, Prev[b]) = {y \in U : y[1] = x}
    <3>1. x \in P
      OBVIOUS
    <3> HIDE DEF back
    <3>2. UnspentUnder(idx, x, Prev[b]) = {y \in UnspentOn(Prev[b]) : y[1] = x}
      BY <1>1, <3>1, OutputsAreFound
    <3> QED  BY <3>2
  <2> DEFINE S == T(i - 1)
             Q == R(i - 1)
  <2>7. T(i) = S \cup {t} /\ R(i) = Q \cup back /\ t \notin Q
    BY <2>2, <2>3
  <2>8. val(i - 1) = Between(U, V, Q, S) /\ val(i) = Between(U, V, Q \cup back, S \cup {t})
    <3> HIDE DEF T, R, V, U, back, t
    <3> QED  BY <2>7
  <2> HIDE DEF t, back, T, R, U, V, S, Q, val
  <2>9. CancelTransaction([index |-> idx, tip |-> Prev[b]], Between(U, V, Q, S), t) =
          Between(U, V, Q \cup back, S \cup {t})
    <3>1. \A x \in BackWith(idx, t, Prev[b]) : \A y :
            y \in UnspentUnder(idx, x, Prev[b]) <=> y \in U /\ y[1] = x
      BY <2>4, <2>5
    <3> DEFINE Q2 == Q \cup BackWith(idx, t, Prev[b])
               S2 == S \cup {t}
    <3>2. Q2 = Q \cup BackWith(idx, t, Prev[b]) /\ S2 = S \cup {t} /\ Q2 = Q \cup back
      BY <2>4
    <3> HIDE DEF Q2, S2
    <3>3. CancelTransaction([index |-> idx, tip |-> Prev[b]], Between(U, V, Q, S), t) =
            Between(U, V, Q2, S2)
      BY <2>7, <3>1, <3>2, CancelStep
    <3> QED  BY <3>2, <3>3
  <2> QED  BY <2>8, <2>9 DEF t, at
<1> HIDE DEF val, at
<1>6. /\ F[0] = {V} /\ F[n] = {U}
      /\ \A i \in 1..n : F[i - 1] = {val(i - 1)} /\ F[i] = {val(i)}
  <2>1. \A i \in 1..n : i - 1 \in 0..n /\ i \in 0..n
    BY <1>1
  <2>2. 0 \in 0..n /\ n \in 0..n
    BY <1>1
  <2>3. F[0] = {V} /\ F[n] = {U}
    BY <1>3, <1>4, <2>2
  <2> HIDE DEF V, U
  <2> QED  BY <2>1, <2>3
<1> HIDE DEF F, V, U
<1>7. CancelTx!Fold(at, V, Txs[b]) \in F[n]
  <2>1. V \in F[0] /\ \A i \in 1..n : \A v \in F[i - 1] : CancelTransaction(at, v, Txs[b][i]) \in F[i]
    BY <1>5, <1>6
  <2> HIDE DEF n
  <2> QED  BY <1>1, <2>1, CancelTx!FoldReaches DEF n
<1> QED  BY <1>6, <1>7, CancelledFolds DEF at, U, V

\* The blocks that are taken off, one after the other, down to the one on which the
\* last of them stood.
LEMMA TakenOffIsRight ==
  ASSUME OlderInputsFirst, NEW idx, NEW blocks, IsIndexOf(idx, blocks),
         NEW s \in Seq(Block \ {Genesis}), Len(s) \in Nat \ {0}, IsWalkDown(s),
         \A i \in 1..Len(s) : Branch(s[i]) \subseteq blocks
  PROVE  UnspentTakenOff(idx, UnspentOn(s[1]), s) = UnspentOn(Prev[s[Len(s)]])
<1> DEFINE n == Len(s)
           F == [i \in 0..n |-> {UnspentOn(IF i = n THEN Prev[s[n]] ELSE s[i + 1])}]
<1>1. n \in Nat \ {0} /\ \A i \in 1..n : s[i] \in Block \ {Genesis}
  BY ElementOfSeq
<1>2. /\ F[0] = {UnspentOn(s[1])} /\ F[n] = {UnspentOn(Prev[s[n]])}
      /\ \A i \in 1..n : F[i - 1] = {UnspentOn(s[i])} /\ F[i] = {UnspentOn(Prev[s[i]])}
  <2>1. ASSUME NEW i \in 1..n
        PROVE  F[i - 1] = {UnspentOn(s[i])} /\ F[i] = {UnspentOn(Prev[s[i]])}
    <3>1. i - 1 \in 0..n /\ i \in 0..n /\ i - 1 # n /\ i - 1 + 1 = i
      BY <1>1
    <3>2. CASE i = n
      BY <3>1, <3>2
    <3>3. CASE i # n
      <4>1. i \in 1..(n - 1)
        BY <1>1, <3>3
      <4>2. Prev[s[i]] = s[i + 1]
        BY <4>1 DEF IsWalkDown
      <4> QED  BY <3>1, <3>3, <4>2
    <3> QED  BY <3>2, <3>3
  <2>2. F[0] = {UnspentOn(s[1])} /\ F[n] = {UnspentOn(Prev[s[n]])}
    <3>1. 0 \in 0..n /\ n \in 0..n /\ 0 # n /\ 0 + 1 = 1
      BY <1>1
    <3> QED  BY <3>1
  <2> HIDE DEF F
  <2> QED  BY <2>1, <2>2
<1> HIDE DEF F
<1>3. ASSUME NEW i \in 1..n, NEW v \in F[i - 1]
      PROVE  UnspentCancelled(idx, v, s[i]) \in F[i]
  <2>1. s[i] \in Block \ {Genesis} /\ Branch(s[i]) \subseteq blocks
    BY <1>1
  <2>2. Branch(Prev[s[i]]) \subseteq blocks
    BY <2>1, BranchStep
  <2>3. UnspentCancelled(idx, UnspentOn(s[i]), s[i]) = UnspentOn(Prev[s[i]])
    BY <2>1, <2>2, UnspentCancelledIsRight
  <2> QED  BY <1>2, <2>3
<1>4. Takes!Fold(idx, UnspentOn(s[1]), s) \in F[n]
  <2>1. UnspentOn(s[1]) \in F[0]
    BY <1>2
  <2> HIDE DEF n
  <2> QED  BY <1>3, <2>1, Takes!FoldReaches DEF n
<1> QED  BY <1>2, <1>4, TakenOffFolds

\* When a branch replaces another one, the unspent outputs of the one become those
\* of the other (addedToParallelTop).
THEOREM ExchangeIsRight ==
  ASSUME OlderInputsFirst, NEW idx, NEW blocks, IsIndexOf(idx, blocks),
         NEW side \in Block, NEW tip \in Block, side \notin Branch(tip), tip \notin Branch(side),
         Branch(side) \subseteq blocks
  PROVE  FoldLeft(UnspentAdded,
                  UnspentTakenOff(idx, UnspentOn(side), OldBlocks(side, tip)),
                  NewBlocks(side, tip)) = UnspentOn(tip)
<1> DEFINE base == MeetingPoint(side, tip)
           old == OldBlocks(side, tip)
           new == NewBlocks(side, tip)
<1>1. /\ base \in Block
      /\ old \in Seq(Block \ {Genesis}) /\ Len(old) \in Nat \ {0}
      /\ old[1] = side /\ Prev[old[Len(old)]] = base
      /\ new \in Seq(Block \ {Genesis}) /\ Len(new) \in Nat \ {0}
      /\ Prev[new[1]] = base /\ new[Len(new)] = tip
  BY ReplacementEnds
<1>2. /\ Members(old) \subseteq Branch(side) /\ IsWalkDown(old) /\ IsWalkUp(new)
  <2>1. ~SideBranchFails(side, tip)
    <3>1. side # Genesis /\ tip # Genesis
      BY BranchFacts
    <3> QED  BY <3>1, TreeFacts DEF SideBranchFails
  <2> QED  BY <2>1, ReplacementIsRight DEF ReplacementAgrees
<1> HIDE DEF base, old, new
<1>3. ASSUME NEW i \in 1..Len(old)  PROVE  Branch(old[i]) \subseteq blocks
  <2>1. old[i] \in Members(old)
    BY <1>1, LenProperties DEF Members
  <2> QED  BY <1>2, <2>1, BranchBelow
<1>4. UnspentTakenOff(idx, UnspentOn(side), old) = UnspentOn(base)
  BY <1>1, <1>2, <1>3, TakenOffIsRight
<1>5. new # <<>>
  BY <1>1, EmptySeq
<1>6. FoldLeft(UnspentAdded, UnspentOn(base), new) = UnspentOn(tip)
  BY <1>1, <1>2, <1>5, PutOnIsRight
<1> QED  BY <1>4, <1>6 DEF old, new

(***************************************************************************)
(* Types of what the operations leave.                                     *)
(***************************************************************************)

AllOutputsOf == UNION {Outputs(t) : t \in Tx}
RowRefs == [Row -> Tx \cup {NoTx}]

\* The exchanged blocks are blocks.
LEMMA ReplacementTypes ==
  ASSUME NEW side \in Block, NEW tip \in Block
  PROVE  OldBlocks(side, tip) \in Seq(Block) /\ NewBlocks(side, tip) \in Seq(Block)
<1> DEFINE base == MeetingPoint(side, tip)
           down == Above(tip, Height[base])
           n == Len(down)
<1>1. base \in Branch(side) /\ base \in Branch(tip)
  BY MeetingPointMeets DEF IsMeeting
<1>2. Height[base] \in 0..Height[side] /\ Height[base] \in 0..Height[tip]
  <2>1. base \in Block /\ Height[base] <= Height[side] /\ Height[base] <= Height[tip]
    BY <1>1, BranchFacts
  <2> QED  BY <2>1, TreeFacts
<1>3. OldBlocks(side, tip) = <<>> \/ OldBlocks(side, tip) = Above(side, Height[base])
  BY DEF OldBlocks
<1>4. NewBlocks(side, tip) = <<>> \/ NewBlocks(side, tip) = [i \in DOMAIN down |-> down[n + 1 - i]]
  BY DEF NewBlocks
<1> HIDE DEF base
<1>5. Above(side, Height[base]) \in Seq(Block) /\ down \in Seq(Block)
  BY <1>2, AboveIsPart
<1> HIDE DEF down
<1>6. n \in Nat /\ DOMAIN down = 1..n /\ \A i \in 1..n : down[i] \in Block
  BY <1>5, LenProperties, ElementOfSeq
<1> HIDE DEF n
<1>7. [i \in DOMAIN down |-> down[n + 1 - i]] \in Seq(Block)
  <2>1. \A i \in 1..n : n + 1 - i \in 1..n
    BY <1>6
  <2>2. \A i \in 1..n : down[n + 1 - i] \in Block
    BY <1>6, <2>1
  <2>3. [i \in 1..n |-> down[n + 1 - i]] \in Seq(Block)
    BY <1>6, <2>2
  <2> QED  BY <1>6, <2>3
<1>8. <<>> \in Seq(Block)
  BY EmptySeq
<1> QED  BY <1>3, <1>4, <1>5, <1>7, <1>8

\* A block that is added or cancelled leaves unspent outputs that are outputs.
LEMMA UnspentTypes ==
  ASSUME NEW u \in SUBSET AllOutputsOf
  PROVE  /\ \A b \in Block : UnspentAdded(u, b) \in SUBSET AllOutputsOf
         /\ \A idx : \A b \in Block : UnspentCancelled(idx, u, b) \in SUBSET AllOutputsOf
<1>1. ASSUME NEW v \in SUBSET AllOutputsOf, NEW t \in Tx
      PROVE  /\ SpendStep(0, v, t) \in SUBSET AllOutputsOf
             /\ \A at : CancelTransaction(at, v, t) \in SUBSET AllOutputsOf
  <2>1. SpendStep(0, v, t) \in SUBSET AllOutputsOf
    BY DEF SpendStep, SpendInputs, AllOutputsOf
  <2>2. ASSUME NEW at  PROVE  CancelTransaction(at, v, t) \in SUBSET AllOutputsOf
    <3> DEFINE back == {Ins[t][i][1] : i \in Restorable(at.index, t, at.tip)}
    <3>1. back \subseteq Tx
      <4>1. ASSUME NEW i \in Restorable(at.index, t, at.tip)  PROVE  Ins[t][i][1] \in Tx
        <5>1. i \in 1..Len(Ins[t]) /\ Ins[t] \in Seq(Tx \X Nat)
          BY TxTypes DEF Restorable
        <5>2. Ins[t][i] \in Tx \X Nat
          BY <5>1, ElementOfSeq
        <5> QED  BY <5>2
      <4> QED  BY <4>1
    <3>2. \A x \in Tx : UnspentUnder(at.index, x, at.tip) \subseteq AllOutputsOf
      BY DEF UnspentUnder, AllOutputsOf, Outputs
    <3>3. CancelTransaction(at, v, t) = {x \in v : x[1] \notin back \cup {t}} \cup
                                          UNION {UnspentUnder(at.index, x, at.tip) : x \in back}
      BY DEF CancelTransaction
    <3> HIDE DEF back
    <3> QED  BY <3>1, <3>2, <3>3
  <2> QED  BY <2>1, <2>2
<1>2. ASSUME NEW b \in Block  PROVE  UnspentAdded(u, b) \in SUBSET AllOutputsOf
  <2> DEFINE G == SUBSET AllOutputsOf
  <2>1. Txs[b] \in Seq(Tx) /\ u \in G /\ \A v \in G, t \in Tx : SpendStep(0, v, t) \in G
    BY <1>1, TxTypes
  <2> HIDE DEF G
  <2>2. Spend!Fold(0, u, Txs[b]) \in G
    BY <2>1, Spend!FoldStays
  <2> QED  BY <2>2, UnspentAddedFolds DEF G
<1>3. ASSUME NEW idx, NEW b \in Block  PROVE  UnspentCancelled(idx, u, b) \in SUBSET AllOutputsOf
  <2> DEFINE G == SUBSET AllOutputsOf
             at == [index |-> idx, tip |-> Prev[b]]
  <2>1. Txs[b] \in Seq(Tx) /\ u \in G /\ \A v \in G, t \in Tx : CancelTransaction(at, v, t) \in G
    BY <1>1, TxTypes
  <2> HIDE DEF G, at
  <2>2. CancelTx!Fold(at, u, Txs[b]) \in G
    BY <2>1, CancelTx!FoldStays
  <2> QED  BY <2>2, CancelledFolds DEF G, at
<1> QED  BY <1>2, <1>3

\* The blocks of a branch leave unspent outputs that are outputs.
LEMMA ExchangeTypes ==
  ASSUME NEW u \in SUBSET AllOutputsOf, NEW idx, NEW old \in Seq(Block), NEW new \in Seq(Block)
  PROVE  /\ UnspentTakenOff(idx, u, old) \in SUBSET AllOutputsOf
         /\ FoldLeft(UnspentAdded, u, new) \in SUBSET AllOutputsOf
<1> DEFINE G == SUBSET AllOutputsOf
<1>1. u \in G /\ \A v \in G, b \in Block : UnspentCancelled(idx, v, b) \in G /\ PutOnStep(0, v, b) \in G
  BY UnspentTypes DEF PutOnStep
<1> HIDE DEF G
<1>2. Takes!Fold(idx, u, old) \in G
  BY <1>1, Takes!FoldStays
<1>3. Puts!Fold(0, u, new) \in G
  BY <1>1, Puts!FoldStays
<1> QED  BY <1>2, <1>3, TakenOffFolds, PutOnFolds DEF G

\* A block that is added or cancelled leaves references to transactions.
LEMMA RefTypes ==
  ASSUME NEW r \in RowRefs
  PROVE  /\ \A b \in Block : RefsAdded(r, b) \in RowRefs
         /\ \A idx : \A b \in Block : RefsCancelled(idx, r, b) \in RowRefs
<1>1. ASSUME NEW q \in RowRefs, NEW t \in Tx
      PROVE  SetRefStep(0, q, t) \in RowRefs /\ \A idx : CancelRef(idx, q, t) \in RowRefs
  <2>1. /\ Ref[t] \in Row \cup {NoRow} /\ Base[t] \in Tx \cup {NoTx} /\ NoRow \notin Row
        /\ Ref[t] # NoRow => Ref[t] \in Row
    BY Transactions
  <2>2. \A x \in Tx \cup {NoTx} : [q EXCEPT ![Ref[t]] = x] \in RowRefs
    BY DEF RowRefs
  <2>3. SetRefStep(0, q, t) \in RowRefs
    BY <2>1, <2>2 DEF SetRefStep, SetRef
  <2>4. ASSUME NEW idx  PROVE  CancelRef(idx, q, t) \in RowRefs
    <3>1. Base[t] # NoTx => Base[t] \in Tx \cup {NoTx}
      BY <2>1
    <3>2. BackRef(idx, q, t) \in RowRefs
      BY <2>2, <3>1 DEF BackRef
    <3>3. DeleteRef(BackRef(idx, q, t), t) \in RowRefs
      BY <3>2 DEF DeleteRef, RowRefs
    <3> QED  BY <3>3 DEF CancelRef
  <2> QED  BY <2>3, <2>4
<1>2. ASSUME NEW b \in Block  PROVE  RefsAdded(r, b) \in RowRefs
  <2>1. SetRefs!Fold(0, r, Txs[b]) \in RowRefs
    BY <1>1, TxTypes, SetRefs!FoldStays
  <2> QED  BY <2>1, RefsAddedFolds
<1>3. ASSUME NEW idx, NEW b \in Block  PROVE  RefsCancelled(idx, r, b) \in RowRefs
  <2>1. CancelTxRef!Fold(idx, r, Txs[b]) \in RowRefs
    BY <1>1, TxTypes, CancelTxRef!FoldStays
  <2> QED  BY <2>1, RefsCancelledFolds
<1> QED  BY <1>2, <1>3

\* The blocks of a branch leave references to transactions.
LEMMA ExchangeRefTypes ==
  ASSUME NEW r \in RowRefs, NEW idx, NEW old \in Seq(Block), NEW new \in Seq(Block)
  PROVE  /\ RefsTakenOff(idx, r, old) \in RowRefs
         /\ FoldLeft(RefsAdded, r, new) \in RowRefs
<1>1. \A v \in RowRefs, b \in Block : /\ RefsCancelled(idx, v, b) \in RowRefs
                                      /\ PutRefsStep(0, v, b) \in RowRefs
  BY RefTypes DEF PutRefsStep
<1>2. TakeOffRefs!Fold(idx, r, old) \in RowRefs
  BY <1>1, TakeOffRefs!FoldStays
<1>3. PutRefs!Fold(0, r, new) \in RowRefs
  BY <1>1, PutRefs!FoldStays
<1> QED  BY <1>2, <1>3, RefsTakenOffFolds, PutRefsFolds

(***************************************************************************)
(* The index and the tree of the stored blocks.                            *)
(***************************************************************************)

\* The inputs of a block are outputs of transactions.
LEMMA InputsAreOutputs ==
  ASSUME NEW b \in Block, NEW y \in InputsOf(b)
  PROVE  y[1] \in Tx /\ y[2] \in Outs[y[1]] /\ y = <<y[1], y[2]>>
<1>1. PICK t \in TxsOf(b) : y \in InsOf(t)
  BY DEF InputsOf
<1>2. t \in TxsOn(b) /\ TxsOn(b) \subseteq Tx
  BY <1>1, BranchFacts, TxsOnBelow
<1>3. y[1] \in TxsOn(b) /\ y \in Outputs(y[1])
  BY <1>1, <1>2, BranchHoldsInputs DEF HoldsInputs
<1> QED  BY <1>2, <1>3 DEF Outputs

\* The blocks that are stored have their branches; before a drop none is higher than
\* the top.
StoredTree ==
  /\ \A c \in stored : Branch(c) \subseteq stored
  /\ drops = 0 => \A c \in stored : Height[c] <= Height[top]

\* The inductive invariant.
LedgerInv == TypeOK /\ StoredTree /\ IndexIsComplete

\* A new blockchain has the genesis block indexed.
LEMMA LedgerInit == Init => LedgerInv
<1> SUFFICES ASSUME Init PROVE LedgerInv
  OBVIOUS
<1> USE DEF Init
<1>1. Genesis \in Block /\ stored = {Genesis} /\ top = Genesis /\ drops = 0
  BY TreeFacts
<1>2. utxo \subseteq UNION {Outputs(t) : t \in Tx}
  <2>1. {} \in SUBSET AllOutputsOf
    OBVIOUS
  <2>2. UnspentAdded({}, Genesis) \in SUBSET AllOutputsOf
    BY <1>1, <2>1, UnspentTypes
  <2> QED  BY <2>2 DEF AllOutputsOf
<1>3. refs \in [Row -> Tx \cup {NoTx}]
  <2>1. [r \in Row |-> NoTx] \in RowRefs
    BY DEF RowRefs
  <2> QED  BY <1>1, <2>1, RefTypes DEF RowRefs
<1>4. links \in [Tx -> SUBSET stored] /\ \A t \in Tx : links[t] = {b \in stored : t \in TxsOf(b)}
  OBVIOUS
<1>5. ASSUME NEW x \in Tx
      PROVE  spent[x] = {r \in [out : Outs[x], block : stored] : <<x, r.out>> \in InputsOf(r.block)}
  <2>1. spent[x] = {[out |-> o[2], block |-> Genesis] : o \in {y \in InputsOf(Genesis) : y[1] = x}}
    OBVIOUS
  <2>2. ASSUME NEW o \in InputsOf(Genesis), o[1] = x
        PROVE  /\ [out |-> o[2], block |-> Genesis] \in [out : Outs[x], block : stored]
               /\ <<x, o[2]>> \in InputsOf(Genesis)
    BY <1>1, <2>2, InputsAreOutputs
  <2>3. ASSUME NEW r \in [out : Outs[x], block : stored], <<x, r.out>> \in InputsOf(r.block)
        PROVE  r \in spent[x]
    <3>1. r = [out |-> r.out, block |-> r.block] /\ r.block = Genesis
      BY <1>1
    <3> DEFINE o == <<x, r.out>>
    <3>2. o \in InputsOf(Genesis) /\ o[1] = x /\ o[2] = r.out
      BY <2>3, <3>1
    <3> QED  BY <2>1, <3>1, <3>2
  <2>4. ASSUME NEW r \in spent[x]
        PROVE  r \in [out : Outs[x], block : stored] /\ <<x, r.out>> \in InputsOf(r.block)
    <3>1. PICK o \in InputsOf(Genesis) : o[1] = x /\ r = [out |-> o[2], block |-> Genesis]
      BY <2>1
    <3> QED  BY <2>2, <3>1
  <2> QED  BY <2>3, <2>4
<1>6. ASSUME NEW x \in Tx, NEW r \in spent[x]  PROVE  r.block \in stored /\ r.out \in Outs[x]
  <2> HIDE DEF Init
  <2>1. r \in [out : Outs[x], block : stored]
    BY <1>5
  <2> QED  BY <2>1
<1>7. TypeOK
  BY <1>1, <1>2, <1>3, <1>4, <1>6, Bounds DEF TypeOK
<1>8. StoredTree
  <2>1. Branch(Genesis) = {Genesis} /\ Height[Genesis] \in Nat
    BY <1>1, BranchStep, TreeFacts
  <2> QED  BY <1>1, <2>1 DEF StoredTree
<1>9. IndexIsComplete
  BY <1>4, <1>5 DEF IndexIsComplete
<1> QED  BY <1>7, <1>8, <1>9 DEF LedgerInv

\* A block that is stored is indexed, and its branch was stored before it.
LEMMA StoreIsRight ==
  ASSUME LedgerInv, NEW b \in Block, Store(b), UNCHANGED drops
  PROVE  /\ stored' = stored \cup {b} /\ stored' \subseteq Block /\ b \notin stored
         /\ b # Genesis
         /\ \A c \in stored' : Branch(c) \subseteq stored'
         /\ links' \in [Tx -> SUBSET stored']
         /\ \A x \in Tx : \A r \in spent'[x] : r.block \in stored' /\ r.out \in Outs[x]
         /\ IndexIsComplete'
<1> USE DEF LedgerInv
<1>1. /\ stored' = stored \cup {b} /\ b \notin stored /\ Prev[b] \in stored /\ stored \subseteq Block
      /\ links' = LinksAdded(b) /\ spent' = SpentAdded(b) /\ stored' \subseteq Block
  BY DEF Store, TypeOK
<1>2. b # Genesis /\ Prev[b] \in Block
  BY <1>1, BlockTree
<1>3. \A c \in stored' : Branch(c) \subseteq stored'
  <2>1. Branch(b) = {b} \cup Branch(Prev[b])
    BY <1>2, BranchStep
  <2> QED  BY <1>1, <2>1 DEF StoredTree
<1>4. ASSUME NEW t \in Tx
      PROVE  /\ links'[t] = {c \in stored' : t \in TxsOf(c)}
  BY <1>1 DEF LinksAdded, IndexIsComplete
<1>5. links' \in [Tx -> SUBSET stored']
  <2>1. links' = [t \in Tx |-> links'[t]]
    BY <1>1 DEF LinksAdded
  <2> QED  BY <1>4, <2>1
<1>6. ASSUME NEW x \in Tx
      PROVE  spent'[x] = spent[x] \cup {[out |-> o[2], block |-> b] : o \in {y \in InputsOf(b) : y[1] = x}}
  BY <1>1 DEF SpentAdded
<1>7. ASSUME NEW x \in Tx, NEW r \in spent'[x], r \notin spent[x]
      PROVE  /\ r \in [out : Outs[x], block : stored'] /\ r.block = b
             /\ <<x, r.out>> \in InputsOf(b)
  <2>1. PICK o \in InputsOf(b) : o[1] = x /\ r = [out |-> o[2], block |-> b]
    BY <1>6, <1>7
  <2>2. o[2] \in Outs[x] /\ o = <<x, o[2]>>
    BY <2>1, InputsAreOutputs
  <2> QED  BY <1>1, <2>1, <2>2
<1>8. \A x \in Tx : \A r \in spent'[x] : r.block \in stored' /\ r.out \in Outs[x]
  BY <1>1, <1>7 DEF TypeOK
<1>9. ASSUME drops = 0, NEW x \in Tx
      PROVE  spent'[x] = {r \in [out : Outs[x], block : stored'] : <<x, r.out>> \in InputsOf(r.block)}
  <2>1. spent[x] = {r \in [out : Outs[x], block : stored] : <<x, r.out>> \in InputsOf(r.block)}
    BY <1>9 DEF IndexIsComplete
  <2>2. ASSUME NEW r \in spent'[x]
        PROVE  r \in [out : Outs[x], block : stored'] /\ <<x, r.out>> \in InputsOf(r.block)
    <3>1. CASE r \in spent[x]
      <4>1. r \in [out : Outs[x], block : stored] /\ <<x, r.out>> \in InputsOf(r.block)
        BY <2>1, <3>1
      <4> QED  BY <1>1, <4>1
    <3>2. CASE r \notin spent[x]
      BY <1>7, <3>2
    <3> QED  BY <3>1, <3>2
  <2>3. ASSUME NEW r \in [out : Outs[x], block : stored'], <<x, r.out>> \in InputsOf(r.block)
        PROVE  r \in spent'[x]
    <3>1. CASE r.block \in stored
      <4>1. r \in spent[x]
        BY <2>1, <2>3, <3>1
      <4> QED  BY <1>6, <4>1
    <3>2. CASE r.block = b
      <4> DEFINE o == <<x, r.out>>
      <4>1. o \in InputsOf(b) /\ o[1] = x /\ r = [out |-> o[2], block |-> b]
        BY <2>3, <3>2
      <4> QED  BY <1>6, <4>1
    <3> QED  BY <1>1, <3>1, <3>2
  <2> QED  BY <2>2, <2>3
<1>10. IndexIsComplete'
  BY <1>4, <1>9 DEF IndexIsComplete
<1> QED  BY <1>1, <1>2, <1>3, <1>5, <1>8, <1>10

\* A step that stores a block keeps the invariant, when the block on the top is then
\* as high as the one before and as the new one, and the rest has its type.
LEMMA AfterStore ==
  ASSUME LedgerInv, NEW b \in Block, Store(b), UNCHANGED drops,
         top' \in {top, b}, Height[top] <= Height[top'], Height[b] <= Height[top'],
         utxo' \in SUBSET AllOutputsOf, refs' \in RowRefs
  PROVE  LedgerInv'
<1>1. /\ stored' = stored \cup {b} /\ stored' \subseteq Block
      /\ \A c \in stored' : Branch(c) \subseteq stored'
      /\ links' \in [Tx -> SUBSET stored']
      /\ \A x \in Tx : \A r \in spent'[x] : r.block \in stored' /\ r.out \in Outs[x]
      /\ IndexIsComplete'
  BY StoreIsRight
<1>2. drops' = drops /\ drops \in 0..MaxDrops /\ top' \in stored'
  BY <1>1 DEF LedgerInv, TypeOK
<1>3. TypeOK'
  BY <1>1, <1>2 DEF TypeOK, AllOutputsOf, RowRefs
<1>4. ASSUME drops = 0, NEW c \in stored'  PROVE  Height[c] <= Height[top']
  <2>1. top \in Block /\ Height[c] \in Nat /\ Height[top] \in Nat /\ Height[top'] \in Nat
    BY <1>1, <1>2, TreeFacts DEF LedgerInv, TypeOK
  <2>2. CASE c \in stored
    <3>1. Height[c] <= Height[top]
      BY <1>4, <2>2 DEF LedgerInv, StoredTree
    <3> QED  BY <2>1, <3>1
  <2>3. CASE c = b
    BY <2>3
  <2> QED  BY <1>1, <2>2, <2>3
<1>5. StoredTree'
  BY <1>1, <1>2, <1>4 DEF StoredTree
<1> QED  BY <1>1, <1>3, <1>5 DEF LedgerInv

\* The invariant gives the types under the names that the lemmas use.
LEMMA InvTypes ==
  ASSUME LedgerInv
  PROVE  /\ stored \subseteq Block /\ top \in stored /\ top \in Block /\ Height[top] \in Nat
         /\ utxo \in SUBSET AllOutputsOf /\ refs \in RowRefs
         /\ Branch(top) \subseteq stored
BY TreeFacts DEF LedgerInv, TypeOK, StoredTree, AllOutputsOf, RowRefs

\* A block on top of the primary branch keeps the invariant.
LEMMA AddToTopKeeps ==
  ASSUME LedgerInv, NEW b \in Block, AddToTop(b)  PROVE  LedgerInv'
<1>1. /\ Store(b) /\ Prev[b] = top /\ top' = b /\ UNCHANGED drops
      /\ utxo' = UnspentAdded(utxo, b) /\ refs' = RefsAdded(refs, b)
  BY DEF AddToTop
<1>2. Height[b] = Height[top] + 1 /\ Height[top] \in Nat
  <2>1. b # Genesis
    BY <1>1, StoreIsRight
  <2> QED  BY <1>1, <2>1, TreeFacts
<1>3. utxo' \in SUBSET AllOutputsOf /\ refs' \in RowRefs
  BY <1>1, InvTypes, UnspentTypes, RefTypes
<1>4. top' \in {top, b} /\ Height[top] <= Height[top'] /\ Height[b] <= Height[top']
  BY <1>1, <1>2
<1> QED  BY <1>1, <1>3, <1>4, AfterStore

\* A block on another branch that is not higher keeps it.
LEMMA AddToParallelKeeps ==
  ASSUME LedgerInv, NEW b \in Block, AddToParallel(b)  PROVE  LedgerInv'
<1>1. /\ Store(b) /\ top' = top /\ utxo' = utxo /\ refs' = refs /\ UNCHANGED drops
      /\ Height[b] <= Height[top]
  BY DEF AddToParallel
<1>2. top' \in {top, b} /\ Height[top] <= Height[top'] /\ Height[b] <= Height[top']
  BY <1>1, InvTypes
<1> QED  BY <1>1, <1>2, InvTypes, AfterStore

\* An exchange of branches keeps it.
LEMMA SwitchBranchKeeps ==
  ASSUME LedgerInv, NEW b \in Block, SwitchBranch(b)  PROVE  LedgerInv'
<1> DEFINE idx == Index(Branch(b), links', spent')
           old == OldBlocks(top, b)
           new == NewBlocks(top, b)
<1>1. /\ Store(b) /\ top' = b /\ Height[b] > Height[top] /\ UNCHANGED drops
      /\ utxo' = FoldLeft(UnspentAdded, UnspentTakenOff(idx, utxo, old), new)
      /\ refs' = FoldLeft(RefsAdded, RefsTakenOff(idx, refs, old), new)
  BY DEF SwitchBranch, Overtakes
<1>2. old \in Seq(Block) /\ new \in Seq(Block)
  BY InvTypes, ReplacementTypes
<1> HIDE DEF idx, old, new
<1>3. utxo' \in SUBSET AllOutputsOf
  BY <1>1, <1>2, InvTypes, ExchangeTypes
<1>4. refs' \in RowRefs
  BY <1>1, <1>2, InvTypes, ExchangeRefTypes
<1>5. top' \in {top, b} /\ Height[top] <= Height[top'] /\ Height[b] <= Height[top']
  BY <1>1, InvTypes, TreeFacts
<1> QED  BY <1>1, <1>3, <1>4, <1>5, AfterStore

\* The panic leaves the index complete.
LEMMA PanicOverGenesisKeeps ==
  ASSUME LedgerInv, NEW b \in Block, PanicOverGenesis(b)  PROVE  LedgerInv'
<1>1. /\ Store(b) /\ top' = b /\ Height[b] > Height[top] /\ UNCHANGED drops
      /\ utxo' = utxo /\ refs' = refs
  BY DEF PanicOverGenesis, Overtakes
<1>2. top' \in {top, b} /\ Height[top] <= Height[top'] /\ Height[b] <= Height[top']
  BY <1>1, InvTypes, TreeFacts
<1> QED  BY <1>1, <1>2, InvTypes, AfterStore

\* The first drop takes the highest block, so no stored block stands on it, and the
\* records of the outputs that it spends are its own or those of other branches.
LEMMA DropBlockKeeps ==
  ASSUME LedgerInv, DropBlock  PROVE  LedgerInv'
<1> DEFINE idxBefore == Index(Branch(Prev[top]), links, spent)
           idxAfter == Index(Branch(Prev[top]), links', spent')
<1>1. /\ drops < MaxDrops /\ top # Genesis /\ stored' = stored \ {top} /\ top' = Prev[top]
      /\ utxo' = UnspentCancelled(idxBefore, utxo, top)
      /\ links' = LinksRemoved(top) /\ spent' = SpentRemoved(top)
      /\ refs' = RefsCancelled(idxAfter, refs, top) /\ drops' = drops + 1
  BY DEF DropBlock
<1> HIDE DEF idxBefore, idxAfter
<1>2. drops = 0 /\ drops' = 1 /\ drops' \in 0..MaxDrops
  BY <1>1, Bounds DEF LedgerInv, TypeOK
<1>3. top \in Block \ {Genesis} /\ Prev[top] \in Block /\ Height[top] = Height[Prev[top]] + 1
      /\ Prev[top] \in stored /\ Height[Prev[top]] \in Nat
  <2>1. top \in Block \ {Genesis}
    BY <1>1, InvTypes
  <2>2. Prev[top] \in Block /\ Height[top] = Height[Prev[top]] + 1 /\ Height[Prev[top]] \in Nat
    BY <2>1, TreeFacts
  <2>3. Prev[top] \in Branch(top)
    BY <2>1, <2>2, BranchStep, BranchFacts
  <2> QED  BY <2>1, <2>2, <2>3, InvTypes
<1>4. stored' \subseteq Block /\ top' \in stored'
  BY <1>1, <1>3, InvTypes
<1>5. ASSUME NEW c \in stored'  PROVE  Branch(c) \subseteq stored'
  <2>1. c \in stored /\ c # top /\ c \in Block /\ Branch(c) \subseteq stored
    BY <1>1, InvTypes DEF LedgerInv, StoredTree
  <2>2. Height[c] <= Height[top] /\ Height[c] \in Nat
    BY <1>2, <2>1, TreeFacts DEF LedgerInv, StoredTree
  <2>3. top \notin Branch(c)
    <3>1. SUFFICES ASSUME top \in Branch(c) PROVE FALSE
      OBVIOUS
    <3>2. Height[top] <= Height[c] /\ (Height[top] = Height[c] => top = c)
      BY <2>1, <3>1, BranchFacts
    <3> QED  BY <2>1, <2>2, <3>2, InvTypes
  <2> QED  BY <1>1, <2>1, <2>3
<1>6. ASSUME NEW t \in Tx  PROVE  links'[t] = {c \in stored' : t \in TxsOf(c)}
  <2>1. links[t] = {c \in stored : t \in TxsOf(c)}
    BY DEF LedgerInv, IndexIsComplete
  <2>2. links'[t] = links[t] \ IF t \in TxsOf(top) THEN {top} ELSE {}
    BY <1>1 DEF LinksRemoved
  <2> QED  BY <1>1, <2>1, <2>2
<1>7. links' \in [Tx -> SUBSET stored']
  <2>1. links' = [t \in Tx |-> links'[t]]
    BY <1>1 DEF LinksRemoved
  <2> QED  BY <1>6, <2>1
<1>8. ASSUME NEW x \in Tx, NEW r \in spent'[x]  PROVE  r.block \in stored' /\ r.out \in Outs[x]
  <2>1. r \in spent[x] /\ <<x, r.out>> \notin InputsOf(top)
    BY <1>1, <1>8 DEF SpentRemoved
  <2>2. spent[x] = {s \in [out : Outs[x], block : stored] : <<x, s.out>> \in InputsOf(s.block)}
    BY <1>2 DEF LedgerInv, IndexIsComplete
  <2>3. r \in [out : Outs[x], block : stored] /\ <<x, r.out>> \in InputsOf(r.block)
    BY <2>1, <2>2
  <2> QED  BY <1>1, <2>1, <2>3
<1>9. utxo' \in SUBSET AllOutputsOf /\ refs' \in RowRefs
  BY <1>1, InvTypes, UnspentTypes, RefTypes
<1>10. TypeOK'
  BY <1>2, <1>4, <1>7, <1>8, <1>9 DEF TypeOK, AllOutputsOf, RowRefs
<1>11. StoredTree'
  BY <1>2, <1>5 DEF StoredTree
<1>12. IndexIsComplete'
  BY <1>2, <1>6 DEF IndexIsComplete
<1> QED  BY <1>10, <1>11, <1>12 DEF LedgerInv

\* Every step keeps the invariant.
LEMMA LedgerStep == LedgerInv /\ [Next]_vars => LedgerInv'
<1> SUFFICES ASSUME LedgerInv, [Next]_vars PROVE LedgerInv'
  OBVIOUS
<1>1. ASSUME NEW b \in Block, AddToTop(b)  PROVE  LedgerInv'
  BY <1>1, AddToTopKeeps
<1>2. ASSUME NEW b \in Block, AddToParallel(b)  PROVE  LedgerInv'
  BY <1>2, AddToParallelKeeps
<1>3. ASSUME NEW b \in Block, SwitchBranch(b)  PROVE  LedgerInv'
  BY <1>3, SwitchBranchKeeps
<1>4. ASSUME NEW b \in Block, PanicOverGenesis(b)  PROVE  LedgerInv'
  BY <1>4, PanicOverGenesisKeeps
<1>5. ASSUME DropBlock  PROVE  LedgerInv'
  BY <1>5, DropBlockKeeps
<1>6. CASE UNCHANGED vars
  BY <1>6 DEF vars, LedgerInv, TypeOK, StoredTree, IndexIsComplete
<1> QED  BY <1>1, <1>2, <1>3, <1>4, <1>5, <1>6 DEF Next

\* The inductive invariant of the ledger: the types, the stored tree with the top as
\* its highest block until a block is dropped, and the complete index.
THEOREM LedgerInvHolds == Spec => []LedgerInv
BY LedgerInit, LedgerStep, PTL DEF Spec

\* The variables of the ledger have their types in every state.
THEOREM LedgerTypes == Spec => []TypeOK
<1>1. LedgerInv => TypeOK
  BY DEF LedgerInv
<1> QED  BY <1>1, LedgerInvHolds, PTL

\* BlockAdded and BlockRemoved of the index leave it with every transaction of every
\* stored block, and before a drop with every spending of an output.
THEOREM IndexIsAlwaysComplete == Spec => []IndexIsComplete
<1>1. LedgerInv => IndexIsComplete
  BY DEF LedgerInv
<1> QED  BY <1>1, LedgerInvHolds, PTL

\* In every state of the node the searches with heights and the chain table answer
\* what a walk over the branches answers, for every tip and every stored block.
THEOREM QueriesAlwaysAgree == Spec => []QueriesAgree
<1>1. LedgerInv => QueriesAgree
  <2> SUFFICES ASSUME LedgerInv PROVE QueriesAgree
    OBVIOUS
  <2>1. stored \subseteq Block /\ top \in Block
    BY InvTypes
  <2>2. ASSUME NEW tip \in stored
        PROVE  /\ \A hashes \in SUBSET stored : ChoiceAgrees(Branch(top), hashes, tip)
               /\ \A h, bottom \in stored : RangeAgrees(Branch(top), h, bottom, tip)
               /\ \A side \in stored : ReplacementAgrees(side, tip)
    <3>1. tip \in Block
      BY <2>1
    <3>2. ASSUME NEW hashes \in SUBSET stored  PROVE  ChoiceAgrees(Branch(top), hashes, tip)
      BY <2>1, <3>1, ChoiceIsRight
    <3>3. ASSUME NEW h \in stored, NEW bottom \in stored
          PROVE  RangeAgrees(Branch(top), h, bottom, tip)
      BY <2>1, <3>1, RangeIsRight
    <3>4. ASSUME NEW side \in stored  PROVE  ReplacementAgrees(side, tip)
      BY <2>1, <3>1, ReplacementIsRight
    <3> QED  BY <3>2, <3>3, <3>4
  <2> QED  BY <2>2 DEF QueriesAgree
<1> QED  BY <1>1, LedgerInvHolds, PTL

(***************************************************************************)
(* The unspent outputs follow the primary branch.                          *)
(***************************************************************************)

\* A block that overtakes before any drop is one higher than the top and on another
\* branch, so that the branches can be exchanged.
LEMMA OvertakesIsExchange ==
  ASSUME LedgerInv, drops = 0, NEW b \in Block, Store(b), Overtakes(b)
  PROVE  ~SideBranchFails(top, b) /\ b \notin Branch(top) /\ top \notin Branch(b)
<1>1. /\ b \in Block \ {Genesis} /\ b \notin stored /\ Prev[b] \in stored
      /\ Prev[b] \in Block /\ Prev[b] # top
  <2>1. b \notin stored /\ Prev[b] \in stored /\ Prev[b] # top
    BY DEF Store, Overtakes
  <2>2. stored \subseteq Block
    BY InvTypes
  <2>3. b # Genesis
    BY <2>1, <2>2, BlockTree
  <2> QED  BY <2>1, <2>2, <2>3
<1>2. /\ Height[b] = Height[Prev[b]] + 1 /\ Height[Prev[b]] \in Nat /\ Height[top] \in Nat
      /\ Height[b] > Height[top] /\ Height[Prev[b]] <= Height[top]
  BY <1>1, InvTypes, TreeFacts DEF Overtakes, LedgerInv, StoredTree
<1>3. Height[Prev[b]] = Height[top]
  BY <1>2
<1>4. ~SideBranchFails(top, b)
  <2>1. SUFFICES ASSUME Height[top] = 0 PROVE FALSE
    BY <1>2 DEF SideBranchFails
  <2>2. top = Genesis /\ Prev[b] = Genesis
    BY <1>1, <1>3, <2>1, InvTypes, TreeFacts
  <2> QED  BY <1>1, <2>2
<1>5. b \notin Branch(top)
  BY <1>1, InvTypes
<1>6. top \notin Branch(b)
  <2>1. Branch(b) = {b} \cup Branch(Prev[b])
    BY <1>1, BranchStep
  <2>2. top \notin Branch(Prev[b])
    BY <1>1, <1>3, BranchFacts
  <2>3. top # b
    BY <1>1, InvTypes
  <2> QED  BY <2>1, <2>2, <2>3
<1> QED  BY <1>4, <1>5, <1>6

\* A complete index is an index in the sense of the lemmas on taking blocks off.
LEMMA IndexOfStored ==
  ASSUME NEW blocks \in SUBSET Block, NEW lnk, NEW spt, NEW c \in Block,
         \A t \in Tx : lnk[t] = {b \in blocks : t \in TxsOf(b)},
         \A x \in Tx : spt[x] = {r \in [out : Outs[x], block : blocks] :
                                   <<x, r.out>> \in InputsOf(r.block)}
  PROVE  IsIndexOf(Index(Branch(c), lnk, spt), blocks)
<1>1. /\ Index(Branch(c), lnk, spt).chain = Branch(c)
      /\ Index(Branch(c), lnk, spt).links = lnk
      /\ Index(Branch(c), lnk, spt).spent = spt
  BY DEF Index
<1> QED  BY <1>1 DEF IsIndexOf, LinksOf, SpentIn

UnspentInv == LedgerInv /\ UnspentIsPrimaryBranch

\* The unspent outputs of a new blockchain are those of the genesis block.
LEMMA UnspentInit == Init => UnspentInv
<1> SUFFICES ASSUME Init PROVE UnspentIsPrimaryBranch
  BY LedgerInit DEF UnspentInv
<1>1. utxo = UnspentAdded({}, Genesis) /\ top = Genesis
  BY DEF Init
<1>2. Unspent(Older(Genesis)) = {}
  BY DEF Unspent, Older
<1>3. UnspentAdded(Unspent(Older(Genesis)), Genesis) = UnspentOn(Genesis)
  BY TreeFacts, UnspentAddedIsRight
<1> QED  BY <1>1, <1>2, <1>3 DEF UnspentIsPrimaryBranch

\* A block on top of the primary branch: its inputs are spent, its outputs are there.
LEMMA UnspentAddToTop ==
  ASSUME UnspentInv, NEW b \in Block, AddToTop(b)  PROVE  UnspentIsPrimaryBranch'
<1>1. /\ Store(b) /\ Prev[b] = top /\ top' = b /\ drops' = drops
      /\ utxo' = UnspentAdded(utxo, b)
  BY DEF AddToTop
<1>2. b # Genesis
  BY <1>1, StoreIsRight DEF UnspentInv
<1>3. Unspent(Older(b)) = UnspentOn(top)
  BY <1>1, <1>2 DEF Older, Unspent, UnspentOn
<1>4. UnspentAdded(Unspent(Older(b)), b) = UnspentOn(b)
  BY UnspentAddedIsRight
<1> QED  BY <1>1, <1>3, <1>4 DEF UnspentInv, UnspentIsPrimaryBranch

\* A branch that overtakes: what the old one spent and made is undone, then the new
\* one is put on (addedToParallelTop).
LEMMA UnspentSwitchBranch ==
  ASSUME OlderInputsFirst, UnspentInv, NEW b \in Block, SwitchBranch(b)
  PROVE  UnspentIsPrimaryBranch'
<1> DEFINE idx == Index(Branch(b), links', spent')
           old == OldBlocks(top, b)
           new == NewBlocks(top, b)
<1>1. /\ Store(b) /\ Overtakes(b) /\ top' = b /\ drops' = drops
      /\ utxo' = FoldLeft(UnspentAdded, UnspentTakenOff(idx, utxo, old), new)
  BY DEF SwitchBranch
<1> SUFFICES ASSUME drops = 0 PROVE utxo' = UnspentOn(b)
  BY <1>1 DEF UnspentIsPrimaryBranch
<1>2. utxo = UnspentOn(top) /\ LedgerInv
  BY DEF UnspentInv, UnspentIsPrimaryBranch
<1>3. b \notin Branch(top) /\ top \notin Branch(b)
  BY <1>1, <1>2, OvertakesIsExchange
<1>4. stored' \in SUBSET Block /\ IndexIsComplete' /\ Branch(top) \subseteq stored'
  BY <1>1, <1>2, StoreIsRight, InvTypes
<1>5. IsIndexOf(idx, stored')
  BY <1>1, <1>4, IndexOfStored DEF IndexIsComplete
<1> HIDE DEF idx
<1>6. FoldLeft(UnspentAdded, UnspentTakenOff(idx, UnspentOn(top), old), new) = UnspentOn(b)
  BY <1>2, <1>3, <1>4, <1>5, InvTypes, ExchangeIsRight
<1> QED  BY <1>1, <1>2, <1>6

\* Whatever blocks come in whatever order and whichever branches replace one another,
\* the unspent outputs are those of the primary branch, as long as no block was
\* dropped and the transactions name older outputs before those of their own block.
THEOREM UnspentIsAlwaysRight ==
  ASSUME OlderInputsFirst  PROVE  Spec => []UnspentIsPrimaryBranch
<1>1. UnspentInv /\ [Next]_vars => UnspentInv'
  <2> SUFFICES ASSUME UnspentInv, [Next]_vars PROVE UnspentIsPrimaryBranch'
    BY LedgerStep DEF UnspentInv
  <2>1. ASSUME NEW b \in Block, AddToTop(b)  PROVE  UnspentIsPrimaryBranch'
    BY <2>1, UnspentAddToTop
  <2>2. ASSUME NEW b \in Block, AddToParallel(b)  PROVE  UnspentIsPrimaryBranch'
    BY <2>2 DEF AddToParallel, UnspentInv, UnspentIsPrimaryBranch
  <2>3. ASSUME NEW b \in Block, SwitchBranch(b)  PROVE  UnspentIsPrimaryBranch'
    BY <2>3, UnspentSwitchBranch
  <2>4. ASSUME NEW b \in Block, PanicOverGenesis(b)  PROVE  UnspentIsPrimaryBranch'
    <3>1. Store(b) /\ Overtakes(b) /\ SideBranchFails(top, b) /\ drops' = drops
      BY <2>4 DEF PanicOverGenesis
    <3>2. drops # 0
      BY <3>1, OvertakesIsExchange DEF UnspentInv
    <3> QED  BY <3>1, <3>2 DEF UnspentIsPrimaryBranch
  <2>5. ASSUME DropBlock  PROVE  UnspentIsPrimaryBranch'
    <3>1. drops' = drops + 1 /\ drops \in 0..MaxDrops
      BY <2>5 DEF DropBlock, UnspentInv, LedgerInv, TypeOK
    <3>2. drops' # 0
      BY <3>1, Bounds
    <3> QED  BY <3>2 DEF UnspentIsPrimaryBranch
  <2>6. CASE UNCHANGED vars
    BY <2>6 DEF vars, UnspentInv, UnspentIsPrimaryBranch
  <2> QED  BY <2>1, <2>2, <2>3, <2>4, <2>5, <2>6 DEF Next
<1>2. UnspentInv => UnspentIsPrimaryBranch
  BY DEF UnspentInv
<1> QED  BY <1>1, <1>2, UnspentInit, PTL DEF Spec

\* Dropping the top block gives back what it spent and takes away what it made, if
\* the unspent outputs were right before (BlockRemoved of the unspent outputs).
THEOREM DropAlwaysRestores ==
  ASSUME OlderInputsFirst  PROVE  Spec => DropRestores
<1>1. LedgerInv /\ [Next]_vars =>
        [DropBlock /\ utxo = UnspentOn(top) => utxo' = UnspentOn(top')]_vars
  <2> SUFFICES ASSUME LedgerInv, DropBlock, utxo = UnspentOn(top)
               PROVE  utxo' = UnspentOn(top')
    OBVIOUS
  <2> DEFINE idx == Index(Branch(Prev[top]), links, spent)
  <2>1. /\ drops < MaxDrops /\ top # Genesis /\ top' = Prev[top]
        /\ utxo' = UnspentCancelled(idx, utxo, top)
    BY DEF DropBlock
  <2>2. drops = 0
    BY <2>1, Bounds DEF LedgerInv, TypeOK
  <2>3. /\ top \in Block \ {Genesis} /\ Prev[top] \in Block /\ stored \in SUBSET Block
        /\ Branch(Prev[top]) \subseteq stored
    <3>1. top \in Block \ {Genesis} /\ stored \in SUBSET Block /\ Branch(top) \subseteq stored
      BY <2>1, InvTypes
    <3> QED  BY <3>1, TreeFacts, BranchStep
  <2>4. IsIndexOf(idx, stored)
    BY <2>2, <2>3, IndexOfStored DEF LedgerInv, IndexIsComplete
  <2> HIDE DEF idx
  <2>5. UnspentCancelled(idx, UnspentOn(top), top) = UnspentOn(Prev[top])
    BY <2>3, <2>4, UnspentCancelledIsRight
  <2> QED  BY <2>1, <2>5
<1> QED  BY <1>1, LedgerInvHolds, PTL DEF Spec, DropRestores

(***************************************************************************)
(* The references of rows.                                                 *)
(***************************************************************************)

\* The transaction at place j of block c worked on the row last on the branch of b.
IsLast(b, r, c, j) ==
  /\ c \in Branch(b) /\ j \in 1..Len(Txs[c]) /\ Ref[Txs[c][j]] = r
  /\ \A d \in Branch(b) : \A k \in 1..Len(Txs[d]) :
       Ref[Txs[d][k]] = r => NotAfter(<<d, k>>, <<c, j>>)

\* LastOfRow in terms of places.
LEMMA LastOfRowMeans ==
  ASSUME NEW b \in Block, NEW r, NEW t
  PROVE  t \in LastOfRow(b, r) <=>
           \E c \in Branch(b) : \E j \in 1..Len(Txs[c]) : t = Txs[c][j] /\ IsLast(b, r, c, j)
<1>1. \A c \in Branch(b) : DOMAIN Txs[c] = 1..Len(Txs[c])
  BY BranchFacts, TxTypes
<1>2. ASSUME NEW p
      PROVE  p \in Places(b, r) <=> \E c \in Branch(b) : \E j \in 1..Len(Txs[c]) :
                                      p = <<c, j>> /\ Ref[Txs[c][j]] = r
  <2>1. p \in Places(b, r) => \E c \in Branch(b) : \E j \in 1..Len(Txs[c]) :
                                p = <<c, j>> /\ Ref[Txs[c][j]] = r
    <3>1. SUFFICES ASSUME p \in Places(b, r)
                   PROVE  \E c \in Branch(b) : \E j \in 1..Len(Txs[c]) :
                            p = <<c, j>> /\ Ref[Txs[c][j]] = r
      OBVIOUS
    <3>2. PICK c \in Branch(b) : p \in {c} \X DOMAIN Txs[c]
      BY <3>1 DEF Places
    <3>3. p = <<c, p[2]>> /\ p[2] \in 1..Len(Txs[c]) /\ Ref[Txs[c][p[2]]] = r
      BY <1>1, <3>1, <3>2 DEF Places
    <3> QED  BY <3>3
  <2>2. ASSUME NEW c \in Branch(b), NEW j \in 1..Len(Txs[c]), p = <<c, j>>, Ref[Txs[c][j]] = r
        PROVE  p \in Places(b, r)
    <3>1. p \in {c} \X DOMAIN Txs[c] /\ p[1] = c /\ p[2] = j
      BY <1>1, <2>2
    <3> QED  BY <2>2, <3>1 DEF Places
  <2> QED  BY <2>1, <2>2
<1>3. ASSUME NEW c \in Branch(b), NEW j \in 1..Len(Txs[c])
      PROVE  IsLast(b, r, c, j) <=>
               /\ <<c, j>> \in Places(b, r)
               /\ \A p \in Places(b, r) : NotAfter(p, <<c, j>>)
  BY <1>2 DEF IsLast
<1>4. t \in LastOfRow(b, r) <=>
        \E q \in Places(b, r) : /\ t = Txs[q[1]][q[2]]
                                /\ \A p \in Places(b, r) : NotAfter(p, q)
  BY DEF LastOfRow
<1>5. ASSUME NEW q \in Places(b, r), t = Txs[q[1]][q[2]], \A p \in Places(b, r) : NotAfter(p, q)
      PROVE  \E c \in Branch(b) : \E j \in 1..Len(Txs[c]) : t = Txs[c][j] /\ IsLast(b, r, c, j)
  <2>1. PICK c \in Branch(b) : \E j \in 1..Len(Txs[c]) : q = <<c, j>>
    BY <1>2
  <2>1a. PICK j \in 1..Len(Txs[c]) : q = <<c, j>>
    BY <2>1
  <2> QED  BY <1>3, <1>5, <2>1a
<1>6. ASSUME NEW c \in Branch(b), NEW j \in 1..Len(Txs[c]), t = Txs[c][j], IsLast(b, r, c, j)
      PROVE  \E q \in Places(b, r) : /\ t = Txs[q[1]][q[2]]
                                     /\ \A p \in Places(b, r) : NotAfter(p, q)
  <2> DEFINE q == <<c, j>>
  <2>1. q[1] = c /\ q[2] = j
    OBVIOUS
  <2>2. q \in Places(b, r) /\ \A p \in Places(b, r) : NotAfter(p, q)
    BY <1>3, <1>6
  <2> QED  BY <1>6, <2>1, <2>2
<1> QED  BY <1>4, <1>5, <1>6

\* The last transaction of a row when a block is put on a branch or taken off it.
LEMMA LastAndBlock ==
  ASSUME NEW b \in Block \ {Genesis}, NEW r, NEW t
  PROVE  /\ t \in LastOfRow(b, r) /\ t \notin TxsOf(b) => t \in LastOfRow(Prev[b], r)
         /\ t \in LastOfRow(Prev[b], r) /\ (\A k \in 1..Len(Txs[b]) : Ref[Txs[b][k]] # r) =>
              t \in LastOfRow(b, r)
<1>1. Prev[b] \in Block /\ Branch(b) = {b} \cup Branch(Prev[b])
  BY TreeFacts, BranchStep
<1>2. ASSUME t \in LastOfRow(b, r), t \notin TxsOf(b)  PROVE  t \in LastOfRow(Prev[b], r)
  <2>1. PICK c \in Branch(b) : \E j \in 1..Len(Txs[c]) : t = Txs[c][j] /\ IsLast(b, r, c, j)
    BY <1>2, LastOfRowMeans
  <2>1a. PICK j \in 1..Len(Txs[c]) : t = Txs[c][j] /\ IsLast(b, r, c, j)
    BY <2>1
  <2>2. c # b
    BY <1>2, <2>1a, TxTypes DEF TxsOf
  <2>3. c \in Branch(Prev[b]) /\ IsLast(Prev[b], r, c, j)
    BY <1>1, <2>1a, <2>2 DEF IsLast
  <2> QED  BY <1>1, <2>1a, <2>3, LastOfRowMeans
<1>3. ASSUME t \in LastOfRow(Prev[b], r), \A k \in 1..Len(Txs[b]) : Ref[Txs[b][k]] # r
      PROVE  t \in LastOfRow(b, r)
  <2>1. PICK c \in Branch(Prev[b]) : \E j \in 1..Len(Txs[c]) : t = Txs[c][j] /\ IsLast(Prev[b], r, c, j)
    BY <1>1, <1>3, LastOfRowMeans
  <2>1a. PICK j \in 1..Len(Txs[c]) : t = Txs[c][j] /\ IsLast(Prev[b], r, c, j)
    BY <2>1
  <2>2. c \in Branch(b) /\ IsLast(b, r, c, j)
    BY <1>1, <1>3, <2>1a DEF IsLast
  <2> QED  BY <2>1a, <2>2, LastOfRowMeans
<1> QED  BY <1>2, <1>3

\* A transaction of the top block of a branch that no other one of the block follows.
LEMMA LastOfTopBlock ==
  ASSUME NEW b \in Block, NEW r, NEW j \in 1..Len(Txs[b]), Ref[Txs[b][j]] = r,
         \A k \in 1..Len(Txs[b]) : Ref[Txs[b][k]] = r => k <= j
  PROVE  Txs[b][j] \in LastOfRow(b, r)
<1>1. b \in Branch(b) /\ \A d \in Branch(b) : d \in Block
  BY BranchFacts
<1>2. ASSUME NEW d \in Branch(b), NEW k \in 1..Len(Txs[d]), Ref[Txs[d][k]] = r
      PROVE  NotAfter(<<d, k>>, <<b, j>>)
  <2>1. CASE d = b
    BY <1>2, <2>1 DEF NotAfter
  <2>2. CASE d # b
    <3>1. Height[d] \in Nat /\ Height[b] \in Nat /\ Height[d] <= Height[b] /\ Height[d] # Height[b]
      BY <1>1, <2>2, BranchFacts, TreeFacts
    <3> QED  BY <3>1 DEF NotAfter
  <2> QED  BY <2>1, <2>2
<1>3. IsLast(b, r, b, j)
  BY <1>1, <1>2 DEF IsLast
<1> QED  BY <1>1, <1>3, LastOfRowMeans

\* The references of which none is wrong for a branch.
RefsRight(b) ==
  {q \in RowRefs : \A r \in Row : q[r] # NoTx => q[r] \in LastOfRow(b, r)}

\* The same when the first i transactions of b were put on: the last one of the row
\* among them, and where there is none the last one below the block.
LastSoFar(b, i, r, t) ==
  \/ t = NoTx
  \/ \E j \in 1..i : /\ t = Txs[b][j] /\ Ref[t] = r
                     /\ \A k \in 1..i : Ref[Txs[b][k]] = r => k <= j
  \/ /\ \A k \in 1..i : Ref[Txs[b][k]] # r
     /\ b # Genesis /\ t \in LastOfRow(Prev[b], r)

\* One more transaction is put on.
LEMMA SetRefStepIsRight ==
  ASSUME NEW b \in Block, NEW i \in 1..Len(Txs[b]), NEW q \in RowRefs,
         \A r \in Row : LastSoFar(b, i - 1, r, q[r])
  PROVE  /\ SetRef(q, Txs[b][i]) \in RowRefs
         /\ \A r \in Row : LastSoFar(b, i, r, SetRef(q, Txs[b][i])[r])
<1> DEFINE t == Txs[b][i]
<1>1. /\ t \in Tx /\ i \in Nat /\ i - 1 \in Nat /\ Ref[t] \in Row \cup {NoRow} /\ NoRow \notin Row
      /\ \A k : k \in 1..i <=> k \in 1..(i - 1) \/ k = i
  BY TxTypes, Transactions
<1>2. /\ SetRef(q, t) \in RowRefs
      /\ \A r \in Row : SetRef(q, t)[r] = IF Ref[t] = r THEN t ELSE q[r]
  BY <1>1 DEF SetRef, RowRefs
<1>3. ASSUME NEW r \in Row  PROVE  LastSoFar(b, i, r, SetRef(q, t)[r])
  <2>1. CASE Ref[t] = r
    <3>1. SetRef(q, t)[r] = t
      BY <1>2, <2>1
    <3>2. i \in 1..i /\ \A k \in 1..i : k <= i
      BY <1>1
    <3> QED  BY <2>1, <3>1, <3>2 DEF LastSoFar
  <2>2. CASE Ref[t] # r
    <3>1. SetRef(q, t)[r] = q[r] /\ LastSoFar(b, i - 1, r, q[r])
      BY <1>2, <2>2
    <3> QED  BY <1>1, <2>2, <3>1 DEF LastSoFar
  <2> QED  BY <2>1, <2>2
<1> QED  BY <1>2, <1>3

\* Putting a block on leaves no reference wrong (UpdateOnBlockAdd).
LEMMA RefsAddedAreRight ==
  ASSUME NEW b \in Block, NEW q \in RowRefs,
         IF b = Genesis THEN \A r \in Row : q[r] = NoTx ELSE q \in RefsRight(Prev[b])
  PROVE  RefsAdded(q, b) \in RefsRight(b)
<1> DEFINE n == Len(Txs[b])
           F == [i \in 0..n |-> {x \in RowRefs : \A r \in Row : LastSoFar(b, i, r, x[r])}]
<1>1. n \in Nat /\ Txs[b] \in Seq(Tx)
  BY TxTypes
<1>2. \A i \in 0..n : F[i] = {x \in RowRefs : \A r \in Row : LastSoFar(b, i, r, x[r])}
  OBVIOUS
<1> HIDE DEF F
<1>3. q \in F[0]
  <2>1. 1..0 = {} /\ 0 \in 0..n
    BY <1>1
  <2>2. ASSUME NEW r \in Row  PROVE  LastSoFar(b, 0, r, q[r])
    BY <2>1 DEF LastSoFar, RefsRight
  <2> QED  BY <1>2, <2>1, <2>2
<1>4. ASSUME NEW i \in 1..n, NEW x \in F[i - 1]  PROVE  SetRefStep(0, x, Txs[b][i]) \in F[i]
  <2>1. i - 1 \in 0..n /\ i \in 0..n
    BY <1>1
  <2>2. x \in RowRefs /\ \A r \in Row : LastSoFar(b, i - 1, r, x[r])
    BY <1>2, <2>1
  <2> QED  BY <1>2, <2>1, <2>2, SetRefStepIsRight DEF SetRefStep
<1>5. SetRefs!Fold(0, q, Txs[b]) \in F[n]
  <2> HIDE DEF n
  <2> QED  BY <1>1, <1>3, <1>4, SetRefs!FoldReaches DEF n
<1>6. ASSUME NEW x \in F[n]  PROVE  x \in RefsRight(b)
  <2>1. x \in RowRefs /\ \A r \in Row : LastSoFar(b, n, r, x[r])
    BY <1>1, <1>2
  <2>2. ASSUME NEW r \in Row, x[r] # NoTx  PROVE  x[r] \in LastOfRow(b, r)
    <3>1. CASE \E j \in 1..n : /\ x[r] = Txs[b][j] /\ Ref[x[r]] = r
                               /\ \A k \in 1..n : Ref[Txs[b][k]] = r => k <= j
      BY <3>1, LastOfTopBlock
    <3>2. CASE /\ \A k \in 1..n : Ref[Txs[b][k]] # r
               /\ b # Genesis /\ x[r] \in LastOfRow(Prev[b], r)
      BY <3>2, LastAndBlock
    <3>3. LastSoFar(b, n, r, x[r])
      BY <2>1
    <3> HIDE DEF n
    <3> QED  BY <2>2, <3>1, <3>2, <3>3 DEF LastSoFar
  <2> QED  BY <2>1, <2>2 DEF RefsRight
<1> QED  BY <1>5, <1>6, RefsAddedFolds

\* Taking a block off leaves no reference wrong: a row that refers to one of its
\* transactions loses the reference (UpdateOnBlockCancel).
LEMMA RefsCancelledAreRight ==
  ASSUME NEW b \in Block \ {Genesis}, NEW idx, NEW q \in RefsRight(b)
  PROVE  RefsCancelled(idx, q, b) \in RefsRight(Prev[b])
<1> DEFINE n == Len(Txs[b])
           Gone(i, t) == \A k \in 1..i : t # Txs[b][k]
           F == [i \in 0..n |->
                  {x \in RefsRight(b) : \A r \in Row : x[r] # NoTx => Gone(i, x[r])}]
<1>1. n \in Nat /\ Txs[b] \in Seq(Tx) /\ TxsOf(b) = {Txs[b][k] : k \in 1..n}
  BY TxTypes DEF TxsOf
<1>2. \A i \in 0..n :
        F[i] = {x \in RefsRight(b) : \A r \in Row : x[r] # NoTx => Gone(i, x[r])}
  OBVIOUS
<1> HIDE DEF F
<1>3. q \in F[0]
  <2>1. 1..0 = {} /\ 0 \in 0..n
    BY <1>1
  <2> QED  BY <1>2, <2>1
<1>4. ASSUME NEW i \in 1..n, NEW x \in F[i - 1]  PROVE  CancelRef(idx, x, Txs[b][i]) \in F[i]
  <2> DEFINE t == Txs[b][i]
             y == CancelRef(idx, x, t)
  <2>1. /\ i - 1 \in 0..n /\ i \in 0..n /\ t \in Tx
        /\ \A k : k \in 1..i => k \in 1..(i - 1) \/ k = i
        /\ Ref[t] \in Row \cup {NoRow} /\ NoRow \notin Row
    BY <1>1, TxTypes, Transactions
  <2>2. /\ x \in RefsRight(b) /\ x \in RowRefs
        /\ \A r \in Row : x[r] # NoTx => Gone(i - 1, x[r]) /\ x[r] \in LastOfRow(b, r)
    BY <1>2, <2>1 DEF RefsRight
  <2>3. y \in RowRefs
    <3>1. CancelRef(idx, x, t) \in RowRefs
      <4>1. Base[t] \in Tx \cup {NoTx}
        BY <2>1, Transactions
      <4>2. BackRef(idx, x, t) \in RowRefs
        BY <2>1, <2>2, <4>1 DEF BackRef, RowRefs
      <4> QED  BY <2>2, <4>2 DEF CancelRef, DeleteRef, RowRefs
    <3> QED  BY <3>1
  <2>4. ASSUME NEW r \in Row  PROVE  y[r] = IF Ref[t] = r /\ x[r] = t THEN NoTx ELSE x[r]
    <3>1. CASE Ref[t] = NoRow \/ x[Ref[t]] # t
      BY <2>1, <3>1 DEF CancelRef
    <3>2. CASE Ref[t] # NoRow /\ x[Ref[t]] = t
      <4> DEFINE w == BackRef(idx, x, t)
      <4>1. y = [w EXCEPT ![Ref[t]] = NoTx] /\ Ref[t] \in Row
        BY <2>1, <3>2 DEF CancelRef, DeleteRef
      <4>2. DOMAIN w = Row /\ (r # Ref[t] => w[r] = x[r])
        <5>1. DOMAIN x = Row
          BY <2>2 DEF RowRefs
        <5> QED  BY <4>1, <5>1 DEF BackRef
      <4> HIDE DEF w, y
      <4>3. y[r] = IF r = Ref[t] THEN NoTx ELSE w[r]
        BY <4>1, <4>2
      <4> QED  BY <3>2, <4>2, <4>3
    <3> QED  BY <3>1, <3>2
  <2>5. ASSUME NEW r \in Row, y[r] # NoTx  PROVE  y[r] \in LastOfRow(b, r) /\ Gone(i, y[r])
    <3>1. y[r] = x[r] /\ ~(Ref[t] = r /\ x[r] = t) /\ x[r] # NoTx
      BY <2>4, <2>5
    <3>2. x[r] \in LastOfRow(b, r) /\ Gone(i - 1, x[r])
      BY <2>2, <3>1
    <3>3. x[r] # t
      <4>1. PICK c \in Branch(b) : \E j \in 1..Len(Txs[c]) : x[r] = Txs[c][j] /\ IsLast(b, r, c, j)
        BY <3>2, LastOfRowMeans
      <4>2. Ref[x[r]] = r
        BY <4>1 DEF IsLast
      <4> QED  BY <3>1, <4>2
    <3>4. Gone(i, x[r])
      BY <2>1, <3>2, <3>3
    <3> QED  BY <3>1, <3>2, <3>4
  <2>6. y \in RefsRight(b)
    BY <2>3, <2>5 DEF RefsRight
  <2> HIDE DEF y
  <2>7. y \in F[i]
    BY <1>2, <2>1, <2>5, <2>6
  <2> QED  BY <2>7 DEF y
<1>5. CancelTxRef!Fold(idx, q, Txs[b]) \in F[n]
  <2> HIDE DEF n
  <2> QED  BY <1>1, <1>3, <1>4, CancelTxRef!FoldReaches DEF n
<1>6. ASSUME NEW x \in F[n]  PROVE  x \in RefsRight(Prev[b])
  <2>1. x \in RefsRight(b) /\ \A r \in Row : x[r] # NoTx => Gone(n, x[r])
    BY <1>1, <1>2
  <2>2. ASSUME NEW r \in Row, x[r] # NoTx  PROVE  x[r] \in LastOfRow(Prev[b], r)
    <3>1. x[r] \in LastOfRow(b, r) /\ x[r] \notin TxsOf(b)
      BY <1>1, <2>1, <2>2 DEF RefsRight
    <3> QED  BY <3>1, LastAndBlock
  <2> QED  BY <2>1, <2>2 DEF RefsRight
<1> QED  BY <1>5, <1>6, RefsCancelledFolds

\* When a branch replaces another one no reference is wrong for the new branch, if
\* none was for the old one.
LEMMA RefsExchangeIsRight ==
  ASSUME NEW idx, NEW side \in Block, NEW tip \in Block,
         side \notin Branch(tip), tip \notin Branch(side), NEW q \in RefsRight(side)
  PROVE  FoldLeft(RefsAdded, RefsTakenOff(idx, q, OldBlocks(side, tip)), NewBlocks(side, tip))
           \in RefsRight(tip)
<1> DEFINE base == MeetingPoint(side, tip)
           old == OldBlocks(side, tip)
           new == NewBlocks(side, tip)
           n == Len(old)
           m == Len(new)
           Down == [i \in 0..n |-> RefsRight(IF i = n THEN base ELSE old[i + 1])]
           Up == [i \in 0..m |-> RefsRight(IF i = 0 THEN base ELSE new[i])]
<1>1. /\ base \in Block
      /\ old \in Seq(Block \ {Genesis}) /\ n \in Nat \ {0}
      /\ old[1] = side /\ Prev[old[n]] = base
      /\ new \in Seq(Block \ {Genesis}) /\ m \in Nat \ {0}
      /\ Prev[new[1]] = base /\ new[m] = tip
  BY ReplacementEnds
<1>2. /\ \A i \in 1..(n - 1) : Prev[old[i]] = old[i + 1]
      /\ \A i \in 1..(m - 1) : Prev[new[i + 1]] = new[i]
  <2>1. ~SideBranchFails(side, tip)
    <3>1. side # Genesis /\ tip # Genesis
      BY BranchFacts
    <3> QED  BY <3>1, TreeFacts DEF SideBranchFails
  <2> QED  BY <2>1, ReplacementIsRight DEF ReplacementAgrees, IsWalkDown, IsWalkUp
<1>3. /\ \A i \in 1..n : old[i] \in Block \ {Genesis}
      /\ \A i \in 1..m : new[i] \in Block \ {Genesis}
  BY <1>1, ElementOfSeq
<1> HIDE DEF base, old, new
<1>4. ASSUME NEW i \in 1..n
      PROVE  Down[i - 1] = RefsRight(old[i]) /\ Down[i] = RefsRight(Prev[old[i]])
  <2>1. i - 1 \in 0..n /\ i \in 0..n /\ i - 1 # n /\ i - 1 + 1 = i /\ (i # n => i \in 1..(n - 1))
    BY <1>1
  <2> HIDE DEF n
  <2> QED  BY <1>1, <1>2, <2>1
<1>5. ASSUME NEW i \in 1..m
      PROVE  Up[i - 1] = RefsRight(Prev[new[i]]) /\ Up[i] = RefsRight(new[i])
  <2>1. i - 1 \in 0..m /\ i \in 0..m /\ i # 0 /\ i - 1 + 1 = i /\ (i # 1 => i - 1 \in 1..(m - 1))
    BY <1>1
  <2>2. CASE i = 1
    BY <1>1, <2>1, <2>2
  <2>3. CASE i # 1
    <3>1. i - 1 # 0 /\ Prev[new[i]] = new[i - 1]
      BY <1>2, <2>1, <2>3
    <3> QED  BY <2>1, <3>1
  <2> QED  BY <2>2, <2>3
<1>6. Down[0] = RefsRight(side) /\ Down[n] = RefsRight(base) /\ Up[0] = RefsRight(base)
      /\ Up[m] = RefsRight(tip)
  <2>1. 1 \in 1..n /\ n \in 1..n /\ 1 \in 1..m /\ m \in 1..m /\ 1 - 1 = 0
    BY <1>1
  <2> HIDE DEF Down, Up
  <2> QED  BY <1>1, <1>4, <1>5, <2>1
<1> HIDE DEF Down, Up
<1>7. TakeOffRefs!Fold(idx, q, old) \in Down[n]
  <2>1. \A i \in 1..n : \A v \in Down[i - 1] : RefsCancelled(idx, v, old[i]) \in Down[i]
    BY <1>3, <1>4, RefsCancelledAreRight
  <2> HIDE DEF n
  <2> QED  BY <1>1, <1>6, <2>1, TakeOffRefs!FoldReaches DEF n
<1>8. ASSUME NEW v \in RefsRight(base)  PROVE  PutRefs!Fold(0, v, new) \in Up[m]
  <2>1. \A i \in 1..m : \A x \in Up[i - 1] : PutRefsStep(0, x, new[i]) \in Up[i]
    <3> SUFFICES ASSUME NEW i \in 1..m, NEW x \in Up[i - 1]
                 PROVE  PutRefsStep(0, x, new[i]) \in Up[i]
      OBVIOUS
    <3>1. x \in RefsRight(Prev[new[i]]) /\ x \in RowRefs /\ new[i] \in Block \ {Genesis}
      BY <1>3, <1>5 DEF RefsRight
    <3> QED  BY <1>5, <3>1, RefsAddedAreRight DEF PutRefsStep
  <2> HIDE DEF m
  <2> QED  BY <1>1, <1>6, <2>1, PutRefs!FoldReaches DEF m
<1> QED  BY <1>6, <1>7, <1>8, RefsTakenOffFolds, PutRefsFolds DEF old, new

RefsInv == LedgerInv /\ RefsAreLast

\* The invariant on references in the terms of the lemmas.
LEMMA RefsInvMeans ==
  ASSUME LedgerInv, drops = 0  PROVE  RefsAreLast <=> refs \in RefsRight(top)
BY InvTypes DEF RefsAreLast, RefsRight

\* A row never refers to a transaction that another one has followed on the primary
\* branch, or to one of another branch, until a block is dropped.
THEOREM RefsAreAlwaysLast == Spec => []RefsAreLast
<1>1. Init => RefsInv
  <2> SUFFICES ASSUME Init PROVE RefsAreLast
    BY LedgerInit DEF RefsInv
  <2>1. [r \in Row |-> NoTx] \in RowRefs /\ \A r \in Row : [x \in Row |-> NoTx][r] = NoTx
    BY DEF RowRefs
  <2>2. RefsAdded([r \in Row |-> NoTx], Genesis) \in RefsRight(Genesis)
    BY <2>1, TreeFacts, RefsAddedAreRight
  <2>3. refs \in RefsRight(top)
    BY <2>2 DEF Init
  <2> QED  BY <2>3 DEF RefsAreLast, RefsRight
<1>2. RefsInv /\ [Next]_vars => RefsInv'
  <2> SUFFICES ASSUME RefsInv, [Next]_vars PROVE RefsAreLast'
    BY LedgerStep DEF RefsInv
  <2> SUFFICES ASSUME drops' = 0, drops = 0 PROVE refs' \in RefsRight(top')
    <3>1. drops' = drops \/ drops' = drops + 1
      BY DEF Next, AddToTop, AddToParallel, SwitchBranch, PanicOverGenesis, DropBlock, vars
    <3>2. drops' = 0 => drops = 0
      BY <3>1, Bounds DEF RefsInv, LedgerInv, TypeOK
    <3> QED  BY <3>2 DEF RefsAreLast, RefsRight
  <2>0. LedgerInv /\ refs \in RefsRight(top) /\ top \in Block /\ refs \in RowRefs
    BY RefsInvMeans, InvTypes DEF RefsInv
  <2>1. ASSUME NEW b \in Block, AddToTop(b)  PROVE  refs' \in RefsRight(top')
    <3>1. /\ Store(b) /\ Prev[b] = top /\ top' = b /\ UNCHANGED drops
          /\ refs' = RefsAdded(refs, b)
      BY <2>1 DEF AddToTop
    <3>2. b # Genesis
      BY <2>0, <3>1, StoreIsRight
    <3> QED  BY <2>0, <3>1, <3>2, RefsAddedAreRight
  <2>2. ASSUME NEW b \in Block, AddToParallel(b)  PROVE  refs' \in RefsRight(top')
    BY <2>0, <2>2 DEF AddToParallel
  <2>3. ASSUME NEW b \in Block, SwitchBranch(b)  PROVE  refs' \in RefsRight(top')
    <3> DEFINE idx == Index(Branch(b), links', spent')
    <3>1. /\ Store(b) /\ Overtakes(b) /\ top' = b
          /\ refs' = FoldLeft(RefsAdded, RefsTakenOff(idx, refs, OldBlocks(top, b)),
                              NewBlocks(top, b))
      BY <2>3 DEF SwitchBranch
    <3>2. b \notin Branch(top) /\ top \notin Branch(b)
      BY <2>0, <3>1, OvertakesIsExchange
    <3> HIDE DEF idx
    <3> QED  BY <2>0, <3>1, <3>2, RefsExchangeIsRight
  <2>4. ASSUME NEW b \in Block, PanicOverGenesis(b)  PROVE  FALSE
    <3>1. Store(b) /\ Overtakes(b) /\ SideBranchFails(top, b)
      BY <2>4 DEF PanicOverGenesis
    <3> QED  BY <2>0, <3>1, OvertakesIsExchange
  <2>5. ASSUME DropBlock  PROVE  FALSE
    BY <2>5 DEF DropBlock
  <2>6. CASE UNCHANGED vars
    BY <2>0, <2>6 DEF vars
  <2> QED  BY <2>1, <2>2, <2>3, <2>4, <2>5, <2>6 DEF Next
<1>3. RefsInv => RefsAreLast
  BY DEF RefsInv
<1> QED  BY <1>1, <1>2, <1>3, PTL DEF Spec

(***************************************************************************)
(* The reindex.                                                            *)
(***************************************************************************)

\* The transactions of a block, its last one first, before those that follow.
BackwardsThen(c, rest, b) == Reverse(Txs[b]) \o rest
Visits == INSTANCE Folding WITH Op <- BackwardsThen

\* The order of the visit is defined for every block.
LEMMA DownwardsStep ==
  ASSUME NEW b \in Block
  PROVE  Downwards[b] = Reverse(Txs[b]) \o IF b = Genesis THEN <<>> ELSE Downwards[Prev[b]]
<1>1. \E f : Visits!IsAlong(f, 0, <<>>, Block, Genesis, Prev)
  BY BlocksAreTree, Visits!AlongExists DEF Walks!IsTree, Visits!IsTree
<1>2. ASSUME NEW f, Visits!IsAlong(f, 0, <<>>, Block, Genesis, Prev)
      PROVE  f = [x \in Block |-> Reverse(Txs[x]) \o IF x = Genesis THEN <<>> ELSE f[Prev[x]]]
  BY <1>2 DEF Visits!IsAlong, BackwardsThen
<1>3. \E f : f = [x \in Block |-> Reverse(Txs[x]) \o IF x = Genesis THEN <<>> ELSE f[Prev[x]]]
  BY <1>1, <1>2
<1>4. Downwards =
        [x \in Block |-> Reverse(Txs[x]) \o IF x = Genesis THEN <<>> ELSE Downwards[Prev[x]]]
  BY <1>3 DEF Downwards
<1> QED  BY <1>4

\* A transaction is visited before those that it depends on: no input of it or of one
\* that is visited later is an output of it.
LaterFirst(D) ==
  \A i, k \in 1..Len(D) : i <= k => \A x \in InsOf(D[k]) : x[1] # D[i]

\* The visit of a branch comes to its transactions, the later ones first.
IsVisit(b) ==
  /\ Downwards[b] \in Seq(Tx)
  /\ \A t : t \in TxsOn(b) <=> \E i \in 1..Len(Downwards[b]) : t = Downwards[b][i]
  /\ LaterFirst(Downwards[b])

\* Within a block the transactions are visited from its end.
LEMMA BackwardsIsLaterFirst ==
  ASSUME NEW b \in Block
  PROVE  /\ Reverse(Txs[b]) \in Seq(Tx) /\ Len(Reverse(Txs[b])) = Len(Txs[b])
         /\ \A t : t \in TxsOf(b) <=> \E i \in 1..Len(Txs[b]) : t = Reverse(Txs[b])[i]
         /\ \A i, k \in 1..Len(Txs[b]) :
              i <= k => \A x \in InsOf(Reverse(Txs[b])[k]) : x[1] # Reverse(Txs[b])[i]
<1> DEFINE n == Len(Txs[b])
           R == Reverse(Txs[b])
<1>1. /\ n \in Nat /\ TxsOf(b) = {Txs[b][i] : i \in 1..n} /\ \A i \in 1..n : Txs[b][i] \in Tx
      /\ \A i \in 1..n : n - i + 1 \in 1..n /\ n - (n - i + 1) + 1 = i
  BY TxTypes DEF TxsOf
<1>2. R = [i \in 1..n |-> Txs[b][n - i + 1]]
  BY DEF Reverse
<1> HIDE DEF R, n
<1>3. /\ \A i \in 1..n : R[i] = Txs[b][n - i + 1]
      /\ R \in [1..n -> Tx]
  BY <1>1, <1>2
<1>4. R \in Seq(Tx) /\ Len(R) = n
  BY <1>1, <1>3, LenProperties
<1>5. ASSUME NEW t  PROVE  t \in TxsOf(b) <=> \E i \in 1..n : t = R[i]
  <2>1. ASSUME NEW i \in 1..n, t = Txs[b][i]  PROVE  n - i + 1 \in 1..n /\ t = R[n - i + 1]
    BY <1>1, <1>3, <2>1
  <2> QED  BY <1>1, <1>3, <2>1
<1>6. ASSUME NEW i \in 1..n, NEW k \in 1..n, i <= k, NEW x \in InsOf(R[k])
      PROVE  x[1] # R[i]
  <2> DEFINE p == n - k + 1
             q == n - i + 1
  <2>1. p \in 1..n /\ q \in 1..n /\ p <= q /\ 1..(p - 1) \subseteq 1..(q - 1)
        /\ R[k] = Txs[b][p] /\ R[i] = Txs[b][q]
    BY <1>1, <1>3, <1>6
  <2> HIDE DEF p, q
  <2>2. x[1] \in Before(b, p) /\ Txs[b][q] \notin Before(b, q)
    BY <1>6, <2>1, AtItsPlace DEF n
  <2>3. Before(b, p) \subseteq Before(b, q)
    BY <2>1 DEF Before
  <2> QED  BY <2>1, <2>2, <2>3
<1> QED  BY <1>4, <1>5, <1>6 DEF R, n

\* The visit of the branch under a block follows the visit of the block.
LEMMA VisitStep ==
  ASSUME NEW b \in Block, b # Genesis => IsVisit(Prev[b])
  PROVE  IsVisit(b)
<1> DEFINE R == Reverse(Txs[b])
           E == IF b = Genesis THEN <<>> ELSE Downwards[Prev[b]]
           D == Downwards[b]
           n == Len(R)
           m == Len(E)
<1>1. D = R \o E
  BY DownwardsStep
<1>2. /\ R \in Seq(Tx) /\ n = Len(Txs[b])
      /\ \A t : t \in TxsOf(b) <=> \E i \in 1..n : t = R[i]
      /\ \A i, k \in 1..n : i <= k => \A x \in InsOf(R[k]) : x[1] # R[i]
  BY BackwardsIsLaterFirst
<1>3. /\ E \in Seq(Tx)
      /\ \A t : t \in Older(b) <=> \E i \in 1..m : t = E[i]
      /\ \A i, k \in 1..m : i <= k => \A x \in InsOf(E[k]) : x[1] # E[i]
  <2>1. CASE b = Genesis
    <3>1. E = <<>> /\ Len(<<>>) = 0 /\ 1..0 = {} /\ <<>> \in Seq(Tx) /\ Older(b) = {}
      BY <2>1 DEF Older
    <3> HIDE DEF E
    <3> QED  BY <3>1
  <2>2. CASE b # Genesis
    <3>1. E = Downwards[Prev[b]] /\ IsVisit(Prev[b]) /\ Older(b) = TxsOn(Prev[b])
      BY <2>2 DEF Older
    <3> HIDE DEF E
    <3> QED  BY <3>1 DEF IsVisit, LaterFirst
  <2> QED  BY <2>1, <2>2
<1> HIDE DEF R, E
<1>4. /\ D \in Seq(Tx) /\ Len(D) = n + m /\ n \in Nat /\ m \in Nat
      /\ \A i \in 1..(n + m) : D[i] = IF i <= n THEN R[i] ELSE E[i - n]
  <2>1. R \in Seq(Tx) /\ E \in Seq(Tx)
    BY <1>2, <1>3
  <2> HIDE DEF D
  <2>2. /\ R \o E \in Seq(Tx) /\ Len(R \o E) = Len(R) + Len(E)
        /\ \A i \in 1..Len(R) + Len(E) : (R \o E)[i] = IF i <= Len(R) THEN R[i] ELSE E[i - Len(R)]
    BY <2>1, ConcatProperties
  <2>3. Len(R) \in Nat /\ Len(E) \in Nat
    BY <2>1, LenProperties
  <2> QED  BY <1>1, <2>2, <2>3
<1> HIDE DEF D, n, m
<1>5. /\ \A i \in 1..n : i \in 1..(n + m) /\ D[i] = R[i]
      /\ \A i \in 1..m : n + i \in 1..(n + m) /\ D[n + i] = E[i]
  <2>1. \A i \in 1..n : i \in 1..(n + m) /\ i <= n
    BY <1>4
  <2>2. \A i \in 1..m : n + i \in 1..(n + m) /\ ~(n + i <= n) /\ n + i - n = i
    BY <1>4
  <2> QED  BY <1>4, <2>1, <2>2
<1>6. \A i \in 1..(n + m) : i \in 1..n \/ (i - n \in 1..m /\ n + (i - n) = i)
  BY <1>4
<1>7. \A i \in 1..(n + m) : \/ i \in 1..n /\ D[i] = R[i]
                            \/ i - n \in 1..m /\ D[i] = E[i - n]
  BY <1>5, <1>6
<1>8. ASSUME NEW t  PROVE  t \in TxsOn(b) <=> \E i \in 1..(n + m) : t = D[i]
  <2>1. t \in TxsOn(b) <=> (\E i \in 1..n : t = R[i]) \/ (\E i \in 1..m : t = E[i])
    BY <1>2, <1>3, TxsOnStep
  <2> QED  BY <1>5, <1>7, <2>1
<1>9. ASSUME NEW i \in 1..(n + m), NEW k \in 1..(n + m), i <= k, NEW x \in InsOf(D[k])
      PROVE  x[1] # D[i]
  <2>1. CASE k \in 1..n
    <3>1. i \in 1..n
      BY <1>4, <1>9, <2>1
    <3> QED  BY <1>2, <1>5, <1>9, <2>1, <3>1
  <2>2. CASE k - n \in 1..m /\ i \in 1..n /\ D[k] = E[k - n]
    <3>1. D[k] \in Older(b) /\ D[i] \in TxsOf(b)
      BY <1>2, <1>3, <1>5, <2>2
    <3>2. b # Genesis /\ Older(b) = TxsOn(Prev[b]) /\ Prev[b] \in Block
      BY <3>1, TreeFacts DEF Older
    <3>3. x[1] \in Older(b)
      BY <1>9, <3>1, <3>2, BranchHoldsInputs DEF HoldsInputs
    <3>4. PICK j \in 1..Len(Txs[b]) : D[i] = Txs[b][j]
      BY <3>1, TxTypes DEF TxsOf
    <3>5. D[i] \notin Older(b)
      BY <3>4, AtItsPlace DEF Before
    <3> QED  BY <3>3, <3>5
  <2>3. CASE k - n \in 1..m /\ i - n \in 1..m /\ D[k] = E[k - n] /\ D[i] = E[i - n]
    <3>1. i - n <= k - n
      BY <1>4, <1>9
    <3> QED  BY <1>3, <1>9, <2>3, <3>1
  <2> QED  BY <1>7, <2>1, <2>2, <2>3
<1> QED  BY <1>4, <1>8, <1>9 DEF IsVisit, LaterFirst, D, n, m

\* The reindex visits the whole branch, the later transactions first.
LEMMA DownwardsIsVisit ==
  ASSUME NEW b \in Block  PROVE  IsVisit(b)
<1> DEFINE G == {c \in Block : IsVisit(c)}
<1>1. Genesis \in G
  BY TreeFacts, VisitStep
<1>2. ASSUME NEW c \in Block \ {Genesis}, Prev[c] \in G  PROVE  c \in G
  BY <1>2, VisitStep
<1>3. Block \subseteq G
  <2> HIDE DEF G
  <2> QED  BY <1>1, <1>2, Walks!AlongTree, BlocksAreTree
<1> QED  BY <1>3

\* What the first i transactions of a visit spend and make.
PaidBy(D, i) == UNION {InsOf(D[j]) : j \in 1..i}
MadeBy(D, i) == UNION {Outputs(D[j]) : j \in 1..i}

\* The reindex of the unspent outputs: an output that is visited is unspent when
\* nothing visited before spends it (Reindex of unspentOutputs).
LEMMA ReindexOfOutputs ==
  ASSUME NEW b \in Block  PROVE  UnspentReindexed(b) = UnspentOn(b)
<1> DEFINE D == Downwards[b]
           n == Len(D)
           val(i) == [spent |-> PaidBy(D, i), unspent |-> MadeBy(D, i) \ PaidBy(D, i)]
           F == [i \in 0..n |-> {val(i)}]
<1>1. /\ D \in Seq(Tx) /\ n \in Nat /\ LaterFirst(D)
      /\ \A t : t \in TxsOn(b) <=> \E i \in 1..n : t = D[i]
  BY DownwardsIsVisit, LenProperties DEF IsVisit
<1> HIDE DEF D
<1>2. F[0] = {NothingFound} /\ F[n] = {val(n)}
      /\ \A i \in 1..n : F[i - 1] = {val(i - 1)} /\ F[i] = {val(i)}
  <2>1. 0 \in 0..n /\ n \in 0..n /\ \A i \in 1..n : i - 1 \in 0..n /\ i \in 0..n
    BY <1>1
  <2>2. val(0) = NothingFound
    <3>1. 1..0 = {}
      OBVIOUS
    <3> QED  BY <3>1 DEF NothingFound, PaidBy, MadeBy
  <2> HIDE DEF val
  <2> QED  BY <2>1, <2>2
<1>3. ASSUME NEW i \in 1..n  PROVE  OutputsFirst(val(i - 1), D[i]) = val(i)
  <2> DEFINE made == MadeBy(D, i - 1)
             paid == PaidBy(D, i - 1)
             t == D[i]
             s == val(i - 1)
  <2>1. \A j : j \in 1..i <=> j \in 1..(i - 1) \/ j = i
    BY <1>1
  <2>2. MadeBy(D, i) = made \cup Outputs(t) /\ PaidBy(D, i) = paid \cup InsOf(t)
    BY <2>1 DEF MadeBy, PaidBy
  <2>3. ASSUME NEW x \in InsOf(t)  PROVE  x \notin made /\ x \notin Outputs(t)
    <3>1. ASSUME NEW j \in 1..i  PROVE  x[1] # D[j]
      <4>1. j \in 1..n /\ j <= i
        BY <1>1
      <4> QED  BY <1>1, <4>1 DEF LaterFirst
    <3>2. \A u : \A y \in Outputs(u) : y[1] = u
      BY DEF Outputs
    <3>3. \A j \in 1..i : x \notin Outputs(D[j])
      BY <3>1, <3>2
    <3>4. i \in 1..i /\ 1..(i - 1) \subseteq 1..i
      BY <1>1
    <3> QED  BY <3>3, <3>4 DEF MadeBy
  <2>4. s = [spent |-> paid, unspent |-> made \ paid]
    OBVIOUS
  <2> DEFINE madeNow == MadeBy(D, i)
             paidNow == PaidBy(D, i)
  <2>5. val(i) = [spent |-> paidNow, unspent |-> madeNow \ paidNow]
    OBVIOUS
  <2>6. madeNow = made \cup Outputs(t) /\ paidNow = paid \cup InsOf(t)
    BY <2>2
  <2> HIDE DEF made, paid, t, s, val, madeNow, paidNow
  <2>7. OutputsFirst(s, t) = [spent |-> paidNow, unspent |-> madeNow \ paidNow]
    <3>1. s.spent = paid /\ s.unspent = made \ paid
      BY <2>4
    <3>2. (made \ paid) \cup (Outputs(t) \ paid) = madeNow \ paidNow
      BY <2>3, <2>6
    <3> QED  BY <2>6, <3>1, <3>2 DEF OutputsFirst
  <2> QED  BY <2>5, <2>7 DEF s, t
<1> HIDE DEF F, val
<1>4. Found!Fold(0, NothingFound, D) \in F[n]
  <2>1. \A i \in 1..n : \A v \in F[i - 1] : FoundStep(0, v, D[i]) \in F[i]
    BY <1>2, <1>3 DEF FoundStep
  <2>2. NothingFound \in F[0]
    BY <1>2
  <2> HIDE DEF n
  <2> QED  BY <1>1, <2>1, <2>2, Found!FoldReaches DEF n
<1>5. FoldLeft(OutputsFirst, NothingFound, D) = Found!Fold(0, NothingFound, D)
  BY DEF FoundStep, Found!Fold, FoldLeft, MapThenFoldSet, Max, Found!LastOf
<1>6. UnspentReindexed(b) = MadeBy(D, n) \ PaidBy(D, n)
  <2>1. FoldLeft(OutputsFirst, NothingFound, D) = val(n)
    BY <1>2, <1>4, <1>5
  <2> QED  BY <2>1 DEF UnspentReindexed, D, val
<1>7. /\ MadeBy(D, n) = UNION {Outputs(t) : t \in TxsOn(b)}
      /\ PaidBy(D, n) = UNION {InsOf(t) : t \in TxsOn(b)}
  <2>1. TxsOn(b) = {D[i] : i \in 1..n}
    BY <1>1
  <2> HIDE DEF n
  <2> QED  BY <2>1 DEF MadeBy, PaidBy
<1> QED  BY <1>6, <1>7 DEF UnspentOn

\* The reindex of the transactions index: it has the blocks of the branch.
LEMMA ReindexOfSpent ==
  ASSUME NEW b \in Block, NEW x \in Tx
  PROVE  SpentReindexed(b)[x] = {r \in [out : Outs[x], block : Branch(b)] :
                                   <<x, r.out>> \in InputsOf(r.block)}
<1>1. SpentReindexed(b)[x] =
        UNION {{[out |-> o[2], block |-> c] : o \in {y \in InputsOf(c) : y[1] = x}} : c \in Branch(b)}
  BY DEF SpentReindexed
<1>2. ASSUME NEW r \in SpentReindexed(b)[x]
      PROVE  r \in [out : Outs[x], block : Branch(b)] /\ <<x, r.out>> \in InputsOf(r.block)
  <2>1. PICK c \in Branch(b) : r \in {[out |-> o[2], block |-> c] : o \in {y \in InputsOf(c) : y[1] = x}}
    BY <1>1
  <2>2. PICK o \in InputsOf(c) : o[1] = x /\ r = [out |-> o[2], block |-> c]
    BY <2>1
  <2>3. o[2] \in Outs[x] /\ o = <<x, o[2]>>
    BY <2>2, BranchFacts, InputsAreOutputs
  <2> QED  BY <2>2, <2>3
<1>3. ASSUME NEW r \in [out : Outs[x], block : Branch(b)], <<x, r.out>> \in InputsOf(r.block)
      PROVE  r \in SpentReindexed(b)[x]
  <2> DEFINE o == <<x, r.out>>
             c == r.block
  <2>1. c \in Branch(b) /\ o \in InputsOf(c) /\ o[1] = x /\ r = [out |-> o[2], block |-> c]
    BY <1>3
  <2> QED  BY <1>1, <2>1
<1> QED  BY <1>2, <1>3

\* The reindex of both, for every block that may be on the top: the unspent outputs
\* are those of its branch, and the index answers by its branch.
THEOREM ReindexIsRight ==
  ASSUME NEW b \in Block
  PROVE  /\ UnspentReindexed(b) = UnspentOn(b)
         /\ \A x \in TxsOn(b) :
              UnspentUnder(Index(Branch(b), LinksReindexed(b), SpentReindexed(b)), x, b)
                = UnspentOn(b) \cap Outputs(x)
<1> DEFINE idx == Index(Branch(b), LinksReindexed(b), SpentReindexed(b))
<1>1. /\ idx.chain = Branch(b) /\ idx.links = LinksReindexed(b) /\ idx.spent = SpentReindexed(b)
  BY DEF Index
<1>2. LinksOf(idx.links, Branch(b))
  BY <1>1 DEF LinksOf, LinksReindexed
<1>3. SpentIn(idx.spent, Branch(b))
  <2> HIDE DEF idx
  <2> QED  BY <1>1, ReindexOfSpent DEF SpentIn
<1>4. Branch(b) \in SUBSET Block
  BY BranchFacts
<1> HIDE DEF idx
<1>5. \A x \in TxsOn(b) : UnspentUnder(idx, x, b) = UnspentOn(b) \cap Outputs(x)
  BY <1>1, <1>2, <1>3, <1>4, UnspentUnderIsRight
<1> QED  BY <1>5, ReindexOfOutputs DEF idx

\* In every state a reindex repairs the unspent outputs and the index.
THEOREM ReindexAlwaysRepairs == Spec => []ReindexRepairs
<1>1. LedgerInv => ReindexRepairs
  BY InvTypes, ReindexIsRight DEF ReindexRepairs
<1> QED  BY <1>1, LedgerInvHolds, PTL
=============================================================================
