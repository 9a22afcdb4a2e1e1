---------------------------- MODULE MCChainStore ----------------------------
(***************************************************************************)
(* A small block tree for ChainStore: two branches that leave the genesis  *)
(* block, the second one longer, and a fork inside the second one.         *)
(*                                                                         *)
(*        g --- a1 --- a2                                                  *)
(*         \                                                               *)
(*          b1 --- b2 --- b3                                               *)
(*           \                                                             *)
(*            c2                                                           *)
(***************************************************************************)
EXTENDS ChainStore, TLC

CONSTANTS g, a1, a2, b1, b2, b3, c2, no

MCBlock == {g, a1, a2, b1, b2, b3, c2}

MCPrev ==
  [b \in MCBlock |->
     CASE b = g -> no
       [] b \in {a1, b1} -> g
       [] b = a2 -> a1
       [] b \in {b2, c2} -> b1
       [] b = b3 -> b2]

MCHeight ==
  [b \in MCBlock |->
     CASE b = g -> 0
       [] b \in {a1, b1} -> 1
       [] b \in {a2, b2, c2} -> 2
       [] b = b3 -> 3]

CONSTANTS p, q, server, handler

\* The goroutines of a process, on one Node object or on one each.
OneNodeOf == [a \in {p, q} |-> server]
ClonedNodeOf == (p :> server) @@ (q :> handler)
SoleNodeOf == [a \in {p} |-> server]
=============================================================================
