------------------------------ MODULE MCLedger ------------------------------
(***************************************************************************)
(* A small history for Ledger: branches with a common transaction (x),     *)
(* with conflicting ones (w and z spend the same output, y and u do), with *)
(* transactions that spend outputs of their own block (w, u), and a row    *)
(* that is written before the fork (s1) and after it (s2, s3).             *)
(*                                                                         *)
(*        g --- c1 --- a2 --- a3                                           *)
(*         \      \                                                        *)
(*          d1      b2 --- b3 --- b4                                       *)
(***************************************************************************)
EXTENDS Ledger, TLC

CONSTANTS g, c1, d1, a2, a3, b2, b3, b4, no
CONSTANTS t0, k1, q, x, y, w, z, v, u, s1, s2, s3, r1

MCBlock == {g, c1, d1, a2, a3, b2, b3, b4}

MCPrev ==
  [b \in MCBlock |->
     CASE b = g -> no
       [] b \in {c1, d1} -> g
       [] b \in {a2, b2} -> c1
       [] b = a3 -> a2
       [] b = b3 -> b2
       [] b = b4 -> b3]

MCHeight ==
  [b \in MCBlock |->
     CASE b = g -> 0
       [] b \in {c1, d1} -> 1
       [] b \in {a2, b2} -> 2
       [] b \in {a3, b3} -> 3
       [] b = b4 -> 4]

MCTx == {t0, k1, q, x, y, w, z, v, u, s1, s2, s3}

MCTxs ==
  [b \in MCBlock |->
     CASE b = g -> <<t0>>
       [] b = c1 -> <<s1, q, k1>>
       [] b = d1 -> <<x>>
       [] b = a2 -> <<x, s2>>
       [] b = a3 -> <<y, w>>
       [] b = b2 -> <<z, x>>
       [] b = b3 -> <<v, u>>
       [] b = b4 -> <<s2, s3>>]

NoIns == [t \in MCTx |-> <<>>]

\* A transaction names older outputs before those of its own block ...
MCIns ==
  [NoIns EXCEPT ![q] = << <<t0, 2>> >>, ![x] = << <<t0, 0>> >>,
                ![y] = << <<x, 0>>, <<k1, 0>> >>,
                ![w] = << <<t0, 1>>, <<q, 0>>, <<y, 0>> >>,
                ![z] = << <<t0, 1>> >>, ![v] = << <<z, 0>> >>,
                ![u] = << <<k1, 0>>, <<v, 0>> >>]

\* ... or after them.
OwnBlockFirst == [MCIns EXCEPT ![w] = << <<t0, 1>>, <<y, 0>>, <<q, 0>> >>]

MCOuts ==
  [t \in MCTx |-> CASE t = t0 -> {0, 1, 2}
                    [] t = y -> {0, 1}
                    [] t \in {k1, q, x, z, v, w} -> {0}
                    [] OTHER -> {}]

MCRef == [t \in MCTx |-> IF t \in {s1, s2, s3} THEN r1 ELSE no]
MCBase == [t \in MCTx |-> CASE t = s2 -> s1 [] t = s3 -> s2 [] OTHER -> no]
=============================================================================
