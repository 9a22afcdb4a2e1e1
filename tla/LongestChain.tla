---------------------------- MODULE LongestChain ----------------------------
(***************************************************************************)
(* What the blockchain storage of a node promises to the rest of the node: *)
(* it keeps a set of blocks connected to the genesis block, and its top    *)
(* is always the first block that reached the greatest height.             *)
(*                                                                         *)
(* This is the summary of the six results of Blockchain.AddBlock: a block  *)
(* whose parent is unknown or that is already stored changes nothing, any  *)
(* other one is stored, and it becomes the top exactly when it is higher   *)
(* than the current top.  ChainStore.tla is shown to implement it.         *)
(***************************************************************************)
EXTENDS Naturals

CONSTANTS
  Block,    \* the hashes of all the blocks that can ever exist
  Genesis,  \* the hash of the first block
  NoHash,   \* the empty hash: the parent of the genesis block, no next block
  Prev,     \* the PrevBlockHash of a block
  Height    \* the Height of a block

VARIABLES
  stored,  \* the blocks the node has
  best     \* the block on the top of the primary branch

vars == <<stored, best>>

Init ==
  /\ stored = {Genesis}
  /\ best = Genesis

\* addedToTop and addedToParallelTop: the block is the highest and becomes the top.
AddHigher(b) ==
  /\ b \in Block \ stored
  /\ Prev[b] \in stored
  /\ Height[b] > Height[best]
  /\ stored' = stored \cup {b}
  /\ best' = b

\* addedToParallel: the block is kept, the top stays.
AddParallel(b) ==
  /\ b \in Block \ stored
  /\ Prev[b] \in stored
  /\ Height[b] <= Height[best]
  /\ stored' = stored \cup {b}
  /\ best' = best

Next == \E b \in Block : AddHigher(b) \/ AddParallel(b)

Spec == Init /\ [][Next]_vars
=============================================================================
