------------------------------- MODULE MCSync -------------------------------
(* Instances of Sync.tla: three nodes and a tree of two branches,          *)
(* g - a1 and g - b1 - b2 - b3.                                            *)
EXTENDS Sync, TLC

CONSTANTS n1, n2, n3, g, a1, b1, b2, b3, t

MCBlock == {g, a1, b1, b2, b3}
MCPrev == g :> NoHash @@ a1 :> g @@ b1 :> g @@ b2 :> b1 @@ b3 :> b2
MCHeight == g :> 0 @@ a1 :> 1 @@ b1 :> 1 @@ b2 :> 2 @@ b3 :> 3

\* b3 is the block that the transaction t gets into, if it is made.
MCTxs == [b \in MCBlock |-> IF b = b3 THEN {t} \cap Tx ELSE {}]

\* Two nodes on two branches; one of them lists itself.
PairContacts == n1 :> <<n1, n2>> @@ n2 :> <<n1>>
PairStored == n1 :> {g, a1} @@ n2 :> {g, b1, b2}
PairBest == n1 :> a1 @@ n2 :> b2

\* The blocks of n1 reached nobody; the others list n1 first.
RingContacts == n1 :> <<n2, n3>> @@ n2 :> <<n1, n3>> @@ n3 :> <<n1, n2>>
AheadStored == [n \in Node |-> IF n = n1 THEN {g, b1, b2} ELSE {g}]
AheadBest == [n \in Node |-> IF n = n1 THEN b2 ELSE g]
=============================================================================
