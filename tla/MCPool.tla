------------------------------- MODULE MCPool -------------------------------
(***************************************************************************)
(* A small history for Pool: one row that is inserted, updated, deleted    *)
(* and inserted again, with two transactions that follow the insert (upd   *)
(* and del), two that spend the same output (pay and due), and one that    *)
(* spends an output of the first of these (next).                          *)
(*                                                                         *)
(*        g --- b1 --- b2           b1: ins, del, kb   b2: pay             *)
(*         \                                                               *)
(*          d1 --- d2 --- d3        d1: ins    d2: nothing    d3: upd      *)
(***************************************************************************)
EXTENDS Payments, TLC

CONSTANTS g, b1, b2, d1, d2, d3, no
CONSTANTS t0, mk, kb, ins, upd, del, again, pay, due, next
CONSTANTS tab, row, ca, cb, ann, bob

MCBlock == {g, b1, b2, d1, d2, d3}
MCPrev ==
  [b \in MCBlock |-> CASE b = g -> no [] b \in {b1, d1} -> g
                       [] b = b2 -> b1 [] b = d2 -> d1 [] b = d3 -> d2]
MCHeight ==
  [b \in MCBlock |-> CASE b = g -> 0 [] b \in {b1, d1} -> 1
                       [] b \in {b2, d2} -> 2 [] b = d3 -> 3]

MCTx == {t0, mk, kb, ins, upd, del, again, pay, due, next}
MCTxs ==
  [b \in MCBlock |->
     CASE b = g -> <<t0, mk>>
       [] b = b1 -> <<ins, del, kb>>
       [] b = b2 -> <<pay>>
       [] b = d1 -> <<ins>>
       [] b = d2 -> <<>>
       [] b = d3 -> <<upd>>]
MCIns ==
  [t \in MCTx |-> CASE t \in {pay, due} -> << <<t0, 0>> >>
                    [] t = next -> << <<pay, 0>> >>
                    [] OTHER -> <<>>]
MCOuts ==
  [t \in MCTx |-> CASE t = pay -> {0, 1} [] t \in {t0, kb, due, next} -> {0}
                    [] OTHER -> {}]
\* ann has 5 and pays 2 to bob, or all of it; bob has made b1.
MCOutput == UNION {{<<t, o>> : o \in MCOuts[t]} : t \in MCTx}
MCOwner ==
  [x \in MCOutput |-> IF x \in {<<kb, 0>>, <<pay, 0>>, <<due, 0>>} THEN bob ELSE ann]
MCValue ==
  [x \in MCOutput |-> CASE x[1] \in {t0, due} -> 5
                        [] x \in {<<kb, 0>>, <<pay, 1>>} -> 3
                        [] OTHER -> 2]

MCKind ==
  [t \in MCTx |-> CASE t = mk -> "create" [] t \in {ins, again} -> "insert"
                    [] t = upd -> "update" [] t = del -> "delete"
                    [] OTHER -> "none"]
OfRow == {ins, upd, del, again}
MCRef == [t \in MCTx |-> CASE t = mk -> tab [] t \in OfRow -> row [] OTHER -> no]
MCBase == [t \in MCTx |-> CASE t = ins -> mk [] t \in {upd, del} -> ins
                            [] t = again -> del [] OTHER -> no]
MCSets ==
  [t \in MCTx |-> CASE t \in {ins, again} -> (ca :> t @@ cb :> t)
                    [] t = upd -> (ca :> t)
                    [] OTHER -> <<>>]
MCTimeline == <<ins, upd, del, pay, again, due, next>>
=============================================================================
