---------------------------- MODULE ChainQueries ----------------------------
(***************************************************************************)
(* The questions the rest of the node asks about branches of blocks, as    *)
(* blockchain/manager.go answers them from the block records and the chain *)
(* table, and what the answers should be.                                  *)
(*                                                                         *)
(* chain is the set of hashes in the chain table.  ChainStore.tla is about *)
(* how the table is kept.                                                  *)
(***************************************************************************)
EXTENDS Integers, Sequences, FiniteSets

CONSTANTS
  Block,    \* the hashes of all the blocks that can ever exist
  Genesis,  \* the hash of the first block
  NoHash,   \* the empty hash
  Prev,     \* the PrevBlockHash of a block
  Height    \* the Height of a block

ASSUME BlockTree ==
  /\ Genesis \in Block
  /\ NoHash \notin Block
  /\ Prev \in [Block -> Block \cup {NoHash}]
  /\ Height \in [Block -> Nat]
  /\ Prev[Genesis] = NoHash
  /\ Height[Genesis] = 0
  /\ \A b \in Block \ {Genesis} :
        /\ Prev[b] \in Block
        /\ Height[b] = Height[Prev[b]] + 1

\* The hashes the iterator gives, from b down to the genesis block.
Walk[b \in Block] == IF b = Genesis THEN <<b>> ELSE <<b>> \o Walk[Prev[b]]

\* Reference: the same as a set.
Branch(b) == {Walk[b][i] : i \in DOMAIN Walk[b]}

\* The first position of the walk from b whose hash is in S, 0 when there is none.
FirstIn(b, S) ==
  LET found == {i \in DOMAIN Walk[b] : Walk[b][i] \in S}
  IN  IF found = {} THEN 0
      ELSE CHOOSE i \in found : \A j \in found : i <= j

(***************************************************************************)
(* ChooseHashUnderTip: which of the hashes is on the branch of the tip     *)
(***************************************************************************)

\* The search in the primary branch below a block of it.
InChainBelow(chain, hashes, h) ==
  LET found == {x \in hashes \cap chain : Height[x] < Height[h]}
  IN  IF found = {} THEN NoHash ELSE CHOOSE x \in found : TRUE

\* A tip outside of the primary branch is walked down to one of the hashes or to
\* the primary branch, which is then searched by heights.
ChooseHashUnderTip(chain, hashes, tip) ==
  IF hashes = {} THEN NoHash
  ELSE IF tip = NoHash THEN
    IF hashes \cap chain = {} THEN NoHash ELSE CHOOSE x \in hashes \cap chain : TRUE
  ELSE IF tip \in hashes THEN tip
  ELSE IF tip \in chain THEN InChainBelow(chain, hashes, tip)
  ELSE LET i == FirstIn(tip, hashes \cup chain)
       IN  IF i = 0 THEN NoHash
           ELSE IF Walk[tip][i] \in hashes THEN Walk[tip][i]
           ELSE InChainBelow(chain, hashes, Walk[tip][i])

(***************************************************************************)
(* CheckBlockIsInRange: is h on the branch of the tip, not below bottom    *)
(***************************************************************************)

\* Mutation of BetweenInChain: the tip itself is left out.
BelowInChain(chain, h, bottom, tip) ==
  h \in chain /\ Height[bottom] <= Height[h] /\ Height[h] < Height[tip]

BetweenInChain(chain, h, bottom, tip) ==
  h \in chain /\ Height[bottom] <= Height[h] /\ Height[h] <= Height[tip]

CheckBlockIsInRange(chain, h, bottom, tip) ==
  IF tip \in chain THEN BetweenInChain(chain, h, bottom, tip)
  ELSE LET i == FirstIn(tip, {h, bottom} \cup chain)
       IN  IF i = 0 THEN FALSE
           ELSE IF Walk[tip][i] = h THEN TRUE
           ELSE IF Walk[tip][i] = bottom THEN FALSE
           ELSE BetweenInChain(chain, h, bottom, Walk[tip][i])

(***************************************************************************)
(* GetSideBranch and GetBranchesReplacement                                *)
(***************************************************************************)

\* The loops that go down to a height: the blocks passed, and where they stop.
Above(b, height) == SubSeq(Walk[b], 1, Height[b] - height)
AtHeight(b, height) == Walk[b][Height[b] - height + 1]

\* The loop that goes down both branches in lockstep, until they meet.
Lockstep[p \in Block \X Block] ==
  IF p[1] = p[2] \/ Genesis \in {p[1], p[2]} THEN p[1]
  ELSE Lockstep[<<Prev[p[1]], Prev[p[2]]>>]

MinOf(x, y) == IF x < y THEN x ELSE y

\* The block where the branch of the side hash leaves the branch of the tip.
MeetingPoint(side, tip) ==
  LET height == MinOf(Height[side], Height[tip])
  IN  Lockstep[<<AtHeight(side, height), AtHeight(tip, height)>>]

\* GetSideBranch refuses the genesis block; its caller uses the result before it
\* looks at the error.
SideBranchFails(side, tip) == Height[side] < 1 \/ Height[tip] < 1

\* The blocks to take away, from above, and the blocks to put on, from below.
\* When the side hash is an ancestor of the tip there is nothing to replace.
OldBlocks(side, tip) ==
  LET base == MeetingPoint(side, tip)
  IN  IF base = side THEN <<>> ELSE Above(side, Height[base])

\* Mutation of NewBlocks: the blocks to put on, from above.
NewBlocksFromAbove(side, tip) ==
  LET base == MeetingPoint(side, tip)
  IN  IF base = side THEN <<>> ELSE Above(tip, Height[base])

NewBlocks(side, tip) ==
  LET base == MeetingPoint(side, tip)
      down == Above(tip, Height[base])
  IN  IF base = side THEN <<>>
      ELSE [i \in DOMAIN down |-> down[Len(down) + 1 - i]]

(***************************************************************************)
(* What the answers should be                                              *)
(***************************************************************************)

\* The hash that is chosen is on the branch of the tip, and one is found when
\* there is one.
ChoiceAgrees(chain, hashes, tip) ==
  LET h == ChooseHashUnderTip(chain, hashes, tip)
  IN  IF hashes \cap Branch(tip) = {} THEN h = NoHash
      ELSE h \in hashes \cap Branch(tip)

\* The range is the part of the tip's branch that is not below bottom.
RangeAgrees(chain, h, bottom, tip) ==
  bottom \in Branch(tip) =>
    (CheckBlockIsInRange(chain, h, bottom, tip) <=>
       h \in Branch(tip) /\ bottom \in Branch(h))

IsWalkDown(s) == \A i \in 1..(Len(s) - 1) : Prev[s[i]] = s[i + 1]
IsWalkUp(s) == \A i \in 1..(Len(s) - 1) : Prev[s[i + 1]] = s[i]
Members(s) == {s[i] : i \in DOMAIN s}

\* The two branches are exactly what one has and the other has not, in the order
\* in which they are taken away and put on.
ReplacementAgrees(side, tip) ==
  ~SideBranchFails(side, tip) /\ side \notin Branch(tip) =>
    /\ Members(OldBlocks(side, tip)) = Branch(side) \ Branch(tip)
    /\ Members(NewBlocks(side, tip)) = Branch(tip) \ Branch(side)
    /\ IsWalkDown(OldBlocks(side, tip))
    /\ IsWalkUp(NewBlocks(side, tip))
=============================================================================
