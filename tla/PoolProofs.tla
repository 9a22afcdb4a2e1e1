----------------------------- MODULE PoolProofs -----------------------------
(***************************************************************************)
(* Theorems about Pool and Payments: the types of the pool, its map in     *)
(* memory, and that what is pending is not approved and has its base.      *)
(***************************************************************************)
EXTENDS Payments, LedgerProofs, FiniteSetTheorems

(***************************************************************************)
(* The transactions and the rows.                                          *)
(***************************************************************************)

\* What is pending is a transaction, and its statement works on a data row.
LEMMA HeldTypes ==
  /\ Held \subseteq Tx
  /\ \A t \in Tx : t \in SQL <=> Ref[t] \in Row
  /\ \A t \in Held : t \in SQL <=> Ref[t] \in DataRow
  /\ \A t \in Held \cap SQL :
       /\ Kind[t] \in {"insert", "update", "delete"} /\ Base[t] \in Tx
       /\ Ref[Base[t]] = Ref[t] \/ (Kind[t] = "insert" /\ Ref[Base[t]] = Table)
  /\ DataRow \subseteq Row /\ Table \in Row /\ NoRow \notin Row
<1>1. Held \subseteq Tx
  BY Pending, ElementOfSeq, LenProperties DEF Held, Members
<1>2. NoRow \notin Row /\ Table \in Row /\ \A t \in Tx : Ref[t] \in Row \cup {NoRow}
  BY Statements, Transactions
<1>3. \A t \in Tx : t \in SQL <=> Ref[t] \in Row
  BY <1>2, Statements DEF SQL
<1>4. \A t \in Held : Kind[t] # "create"
  BY <1>1, Statements, Pending
<1>5. \A t \in Held : t \in SQL <=> Ref[t] \in DataRow
  BY <1>1, <1>2, <1>3, <1>4, Statements DEF DataRow
<1>6. \A t \in Held \cap SQL :
        /\ Kind[t] \in {"insert", "update", "delete"} /\ Base[t] # NoTx
        /\ Ref[Base[t]] = Ref[t] \/ (Kind[t] = "insert" /\ Ref[Base[t]] = Table)
  BY <1>1, <1>4, Statements DEF SQL, OnSameRow
<1>7. \A t \in Tx : Base[t] \in Tx \cup {NoTx}
  BY Transactions
<1> QED  BY <1>1, <1>2, <1>3, <1>5, <1>6, <1>7 DEF DataRow

\* A statement and its rollback leave a row that a row can be.
LEMMA StatementTypes ==
  ASSUME NEW t \in Tx, NEW v \in Content
  PROVE  Execute(t, v) \in Content /\ Rollback(t, v) \in Content
<1>1. Absent \in Content
  BY DEF Content
<1>2. ASSUME NEW C \in SUBSET Column, NEW f \in [C -> Tx]  PROVE  f \in Content
  BY <1>2 DEF Content
<1>3. Sets[t] \in [DOMAIN Sets[t] -> Tx] /\ DOMAIN Sets[t] \in SUBSET Column
  BY Statements DEF Column
<1>4. Sets[t] \in Content
  BY <1>2, <1>3
<1>5. v = Absent \/ \E C \in SUBSET Column : v \in [C -> Tx]
  BY DEF Content
<1>6. ASSUME NEW g, \A c \in DOMAIN Sets[t] : g[c] \in Tx, v # Absent
      PROVE  [c \in DOMAIN v |-> IF c \in DOMAIN Sets[t] THEN g[c] ELSE v[c]] \in Content
  <2>1. PICK C \in SUBSET Column : v \in [C -> Tx]
    BY <1>5, <1>6
  <2>2. [c \in DOMAIN v |-> IF c \in DOMAIN Sets[t] THEN g[c] ELSE v[c]] \in [C -> Tx]
    BY <1>6, <2>1
  <2> QED  BY <1>2, <2>2
<1>7. Execute(t, v) \in Content
  <2>1. \A c \in DOMAIN Sets[t] : Sets[t][c] \in Tx
    BY <1>3
  <2> QED  BY <1>1, <1>4, <1>6, <2>1 DEF Execute
<1>8. Kind[t] \in {"update", "delete"} =>
        RowBefore(t) \in Content /\ RowBefore(t) # Absent /\ DOMAIN Sets[t] \subseteq DOMAIN RowBefore(t)
  BY Statements
<1>9. Kind[t] = "update" => \A c \in DOMAIN Sets[t] : RowBefore(t)[c] \in Tx
  BY <1>8 DEF Content
<1>10. Rollback(t, v) \in Content
  BY <1>1, <1>6, <1>8, <1>9 DEF Rollback
<1> QED  BY <1>7, <1>10

(***************************************************************************)
(* The records of the pool and what one call makes of them.                *)
(***************************************************************************)

PoolState ==
  [pool : SUBSET Held, cache : (SUBSET Held) \cup {NoCache}, rows : [DataRow -> Content],
   torn : SUBSET Row, touched : BOOLEAN, ok : BOOLEAN]

\* The map in memory, and what it has that the table has not.
Cached(p) == IF p.cache = NoCache THEN {} ELSE p.cache
Inside(p) == p.pool \cup Cached(p)
Stale(p) == Cached(p) \ p.pool

\* The map is not there, or it is the table.
Fresh(p) == p.cache = NoCache \/ p.cache = p.pool

\* What is pending has its base in the pool or in C.
Based(p, C) == \A t \in p.pool : Ref[t] \in DataRow \ p.torn => Base[t] \in p.pool \cup C

\* Only rows and the history of them have changed.
Alike(p) ==
  {q \in PoolState :
     q.pool = p.pool /\ q.cache = p.cache /\ q.touched = p.touched /\ p.torn \subseteq q.torn}

\* Transactions were taken away, and where one was that another one follows the row
\* is marked.
Less(p, C) ==
  {q \in PoolState :
     /\ q.pool \subseteq p.pool /\ Cached(q) \subseteq Cached(p) /\ Stale(q) \subseteq Stale(p)
     /\ p.torn \subseteq q.torn /\ q.touched = p.touched
     /\ Fresh(p) => Fresh(q)
     /\ Based(p, C) => Based(q, C)
     /\ NoRivals(p) => NoRivals(q)}

\* Where transactions were taken away, no rivals are left.
LEMMA FewerHaveNoRivals ==
  ASSUME NEW p, NEW q, NoRivals(p), Known(q) \subseteq Known(p), q.pool \subseteq Known(q)
  PROVE  NoRivals(q)
BY DEF NoRivals, Conflicts

LEMMA AlikeHaveNoRivals ==
  ASSUME NEW p, NEW q, q.pool = p.pool, q.cache = p.cache
  PROVE  Known(q) = Known(p) /\ (NoRivals(q) <=> NoRivals(p))
BY DEF NoRivals, Conflicts, Known

\* A mark on a row changes nothing else.
LEMMA SpoilIsAlike ==
  ASSUME NEW p \in PoolState, NEW t \in Tx
  PROVE  /\ Spoil(p, t) \in Alike(p) /\ Spoil(p, t).ok = p.ok /\ Spoil(p, t).rows = p.rows
         /\ t \in SQL => Ref[t] \in Spoil(p, t).torn
BY HeldTypes DEF PoolState, Alike, Spoil

LEMMA TearIsAlike ==
  ASSUME NEW p \in PoolState, NEW t \in Tx
  PROVE  /\ Tear(p, t) \in Alike(p) /\ Tear(p, t).ok = p.ok /\ Tear(p, t).rows = p.rows
         /\ t \in SQL /\ OutOfTurn(p, t) => Ref[t] \in Tear(p, t).torn
<1>1. p \in Alike(p)
  BY DEF Alike
<1> QED  BY <1>1, SpoilIsAlike DEF Tear

\* A statement and a rollback: a row has changed, and it is marked when something
\* that follows is in force.
LEMMA RunIsAlike ==
  ASSUME NEW p \in PoolState, NEW t \in Tx
  PROVE  /\ Run(p, t) \in Alike(p) /\ Run(p, t).ok = p.ok
         /\ Ref[t] \in DataRow /\ OutOfTurn(p, t) => Ref[t] \in Run(p, t).torn
<1>1. CASE Ref[t] \in DataRow
  <2> DEFINE q == Tear(p, t)
             v == Execute(t, q.rows[Ref[t]])
  <2>1. q \in Alike(p) /\ q.ok = p.ok /\ (OutOfTurn(p, t) => Ref[t] \in q.torn)
    BY <1>1, TearIsAlike, HeldTypes
  <2>2. v \in Content
    BY <1>1, <2>1, StatementTypes DEF Alike, PoolState
  <2>3. Run(p, t) = [q EXCEPT !.rows = [@ EXCEPT ![Ref[t]] = v]]
    BY <1>1 DEF Run
  <2> HIDE DEF q, v
  <2> QED  BY <2>1, <2>2, <2>3 DEF Alike, PoolState
<1>2. CASE Ref[t] \notin DataRow
  BY <1>2 DEF Run, Alike
<1> QED  BY <1>1, <1>2

LEMMA UndoIsAlike ==
  ASSUME NEW p \in PoolState, NEW t \in Tx
  PROVE  /\ Undo(p, t) \in Alike(p) /\ Undo(p, t).ok = p.ok
         /\ Ref[t] \in DataRow /\ OutOfTurn(p, t) => Ref[t] \in Undo(p, t).torn
<1>1. CASE Ref[t] \in DataRow
  <2> DEFINE q == Tear(p, t)
             v == Rollback(t, q.rows[Ref[t]])
  <2>1. q \in Alike(p) /\ q.ok = p.ok /\ (OutOfTurn(p, t) => Ref[t] \in q.torn)
    BY <1>1, TearIsAlike, HeldTypes
  <2>2. v \in Content
    BY <1>1, <2>1, StatementTypes DEF Alike, PoolState
  <2>3. Undo(p, t) = [q EXCEPT !.rows = [@ EXCEPT ![Ref[t]] = v]]
    BY <1>1 DEF Undo
  <2> HIDE DEF q, v
  <2> QED  BY <2>1, <2>2, <2>3 DEF Alike, PoolState
<1>2. CASE Ref[t] \notin DataRow
  BY <1>2 DEF Undo, Alike
<1> QED  BY <1>1, <1>2

\* The map is given up or read anew.
LEMMA RenewedIs ==
  ASSUME NEW p \in PoolState
  PROVE  LET q == Renewed(p)
         IN  /\ q \in PoolState /\ q.pool = p.pool /\ q.torn = p.torn /\ q.ok = p.ok
             /\ q.touched = FALSE /\ Fresh(q) /\ Cached(q) \subseteq q.pool /\ Stale(q) = {}
BY DEF PoolState, Renewed, Filled, Fresh, Cached, Stale

LEMMA LoadedIs ==
  ASSUME NEW p \in PoolState
  PROVE  LET q == Loaded(p)
         IN  /\ q \in PoolState /\ q.pool = p.pool /\ q.torn = p.torn /\ q.ok = p.ok
             /\ Cached(q) \subseteq Inside(p) /\ Stale(q) \subseteq Stale(p)
             /\ q.touched => p.touched
             /\ p.touched \/ Fresh(p) => q.touched \/ Fresh(q)
<1>1. CASE p.cache = NoCache
  BY <1>1, RenewedIs DEF Loaded, Inside
<1>2. CASE p.cache # NoCache
  BY <1>2 DEF Loaded, Inside
<1> QED  BY <1>1, <1>2

\* What is known is pending, or was when the map was read.
LEMMA KnownIs ==
  ASSUME NEW p \in PoolState
  PROVE  /\ Known(p) \subseteq Inside(p) /\ Known(p) \subseteq Held
         /\ Known(p) \subseteq p.pool \cup Stale(p)
         /\ Fresh(p) => Known(p) = p.pool
BY DEF PoolState, Known, Inside, Cached, Stale, Fresh

LEMMA FreshHaveNoRivals ==
  ASSUME NEW p, NEW q \in PoolState, Fresh(q), q.pool \subseteq p.pool, NoRivals(p)
  PROVE  NoRivals(q)
<1>1. Known(q) = q.pool /\ p.pool \subseteq Known(p)
  BY KnownIs DEF NoRivals
<1> QED  BY <1>1, FewerHaveNoRivals

\* Less leads from state to state.
LEMMA LessIsOrder ==
  ASSUME NEW p \in PoolState, NEW C
  PROVE  /\ p \in Less(p, C)
         /\ \A q \in Less(p, C) : Less(q, C) \subseteq Less(p, C)
         /\ Alike(p) \subseteq Less(p, C)
<1>1. p \in Less(p, C)
  BY DEF Less
<1>2. \A q \in Less(p, C) : Less(q, C) \subseteq Less(p, C)
  BY DEF Less
<1>3. Alike(p) \subseteq Less(p, C)
  BY AlikeHaveNoRivals DEF Less, Alike, Cached, Stale, Fresh, Based
<1> QED  BY <1>1, <1>2, <1>3

\* A transaction is deleted from the table and from the map.
LEMMA DeleteIs ==
  ASSUME NEW p \in PoolState, NEW t
  PROVE  LET q == Delete(p, t)
         IN  /\ q \in PoolState /\ q.pool = p.pool \ {t} /\ q.torn = p.torn
             /\ q.touched = p.touched /\ q.ok = p.ok
             /\ Cached(q) \subseteq Cached(p) /\ Stale(q) \subseteq Stale(p)
             /\ Fresh(p) => Fresh(q)
             /\ NoRivals(p) => NoRivals(q)
<1> DEFINE q == Delete(p, t)
<1>1. /\ q \in PoolState /\ q.pool = p.pool \ {t} /\ q.torn = p.torn
      /\ q.touched = p.touched /\ q.ok = p.ok
      /\ Cached(q) \subseteq Cached(p) /\ Stale(q) \subseteq Stale(p)
      /\ Fresh(p) => Fresh(q)
  BY DEF PoolState, Delete, Cached, Stale, Fresh
<1>2. ASSUME NoRivals(p)  PROVE  NoRivals(q)
  <2>1. p.pool \subseteq Known(p)
    BY <1>2 DEF NoRivals
  <2>2. CASE t \in p.pool
    <3>1. q.pool = p.pool \ {t} /\ q.cache \in {NoCache, p.cache \ {t}}
          /\ (p.cache = NoCache => q.cache = NoCache)
      BY <2>2 DEF PoolState, Delete
    <3> HIDE DEF q
    <3>2. Known(q) \subseteq Known(p) /\ q.pool \subseteq Known(q)
      BY <2>1, <3>1 DEF Known
    <3> QED  BY <1>2, <3>2, FewerHaveNoRivals
  <2>3. CASE t \notin p.pool
    BY <1>2, <2>3 DEF Delete
  <2> QED  BY <2>2, <2>3
<1> HIDE DEF q
<1> QED  BY <1>1, <1>2 DEF q

\* Whether a call has ended with an error is no part of the pool.
LEMMA OkIsFree ==
  ASSUME NEW p \in PoolState, NEW v \in BOOLEAN
  PROVE  LET q == [p EXCEPT !.ok = v]
         IN  /\ q \in Alike(p) /\ q.ok = v /\ q.torn = p.torn /\ q.rows = p.rows
             /\ Cached(q) = Cached(p) /\ Stale(q) = Stale(p) /\ (Fresh(q) <=> Fresh(p))
             /\ (NoRivals(q) <=> NoRivals(p))
<1> DEFINE q == [p EXCEPT !.ok = v]
<1>1. /\ q \in Alike(p) /\ q.ok = v /\ q.torn = p.torn /\ q.rows = p.rows
      /\ q.pool = p.pool /\ q.cache = p.cache
  BY DEF Alike, PoolState
<1> HIDE DEF q
<1>2. Cached(q) = Cached(p) /\ Stale(q) = Stale(p) /\ (Fresh(q) <=> Fresh(p))
  BY <1>1 DEF Cached, Stale, Fresh
<1> QED  BY <1>1, <1>2, AlikeHaveNoRivals DEF q

\* CancelTransaction: what followed the transaction on its row leaves a mark.
LEMMA CancelTakes ==
  ASSUME NEW p \in PoolState, NEW t \in Held, NEW C
  PROVE  LET q == Cancel(p, t)
         IN  /\ q \in Less(p, C) /\ q.pool \in {p.pool, p.pool \ {t}}
             /\ q.pool # p.pool /\ Ref[t] \in DataRow /\ OutOfTurn(p, t) => Ref[t] \in q.torn
<1> DEFINE u == Undo(p, t)
           d == Delete(u, t)
           q == [d EXCEPT !.ok = t \in p.pool]
<1>1. CASE ~p.ok \/ t \notin Known(p) \/ RollbackFails(t, ValueIn(p, t))
  <2>1. Cancel(p, t) \in {p, [p EXCEPT !.ok = FALSE]}
    BY <1>1 DEF Cancel
  <2>2. [p EXCEPT !.ok = FALSE] \in Alike(p) /\ p \in Alike(p)
    BY DEF Alike, PoolState
  <2> QED  BY <2>1, <2>2, LessIsOrder DEF Alike
<1>2. CASE ~(~p.ok \/ t \notin Known(p) \/ RollbackFails(t, ValueIn(p, t)))
  <2>1. Cancel(p, t) = q
    BY <1>2 DEF Cancel
  <2>2. t \in Tx
    BY HeldTypes
  <2>3. u \in Alike(p) /\ u \in PoolState /\ u.pool = p.pool /\ u.cache = p.cache
    BY <2>2, UndoIsAlike DEF Alike
  <2>4. Ref[t] \in DataRow /\ OutOfTurn(p, t) => Ref[t] \in u.torn
    BY <2>2, UndoIsAlike
  <2>5. /\ d \in PoolState /\ d.pool = p.pool \ {t} /\ d.torn = u.torn /\ d.touched = p.touched
        /\ Cached(d) \subseteq Cached(p) /\ Stale(d) \subseteq Stale(p) /\ (Fresh(p) => Fresh(d))
        /\ NoRivals(p) => NoRivals(d)
    <3>1. Cached(u) = Cached(p) /\ Stale(u) = Stale(p) /\ (Fresh(p) => Fresh(u))
      BY <2>3 DEF Cached, Stale, Fresh
    <3>2. NoRivals(p) => NoRivals(u)
      BY <2>3, AlikeHaveNoRivals
    <3> QED  BY <2>3, <3>1, <3>2, DeleteIs DEF Alike
  <2> HIDE DEF u, d
  <2>6. /\ q \in PoolState /\ q.pool = p.pool \ {t} /\ q.torn = u.torn /\ q.touched = p.touched
        /\ Cached(q) \subseteq Cached(p) /\ Stale(q) \subseteq Stale(p) /\ (Fresh(p) => Fresh(q))
        /\ NoRivals(p) => NoRivals(q)
    <3> DEFINE v == t \in p.pool
    <3>1. v \in BOOLEAN /\ q = [d EXCEPT !.ok = v]
      OBVIOUS
    <3> HIDE DEF v, q
    <3> QED  BY <2>5, <3>1, OkIsFree DEF Alike
  <2> HIDE DEF q
  <2>7. ASSUME Based(p, C), NEW e \in q.pool, Ref[e] \in DataRow \ q.torn
        PROVE  Base[e] \in q.pool \cup C
    <3>1. e \in p.pool /\ e # t /\ Ref[e] \in DataRow \ p.torn /\ e \in Held
      BY <2>3, <2>6, <2>7 DEF Alike, PoolState
    <3>2. Base[e] \in p.pool \cup C
      BY <2>7, <3>1 DEF Based
    <3>3. Base[e] = t => Ref[t] = Ref[e]
      BY <3>1, HeldTypes DEF DataRow
    <3>4. Base[e] = t => OutOfTurn(p, t)
      BY <3>1, <3>3 DEF OutOfTurn
    <3>5. Base[e] # t
      BY <2>4, <2>6, <2>7, <3>3, <3>4
    <3> QED  BY <2>6, <3>2, <3>5
  <2>8. Based(p, C) => Based(q, C)
    BY <2>7 DEF Based
  <2>9. p.torn \subseteq q.torn
    BY <2>3, <2>6 DEF Alike
  <2> QED  BY <2>1, <2>4, <2>6, <2>8, <2>9 DEF Less
<1> QED  BY <1>1, <1>2

LEMMA CancelAnywayTakes ==
  ASSUME NEW p \in PoolState, NEW t \in Held, NEW C
  PROVE  CancelAnyway(p, t) \in Less(p, C)
<1>1. Cancel(p, t) \in Less(p, C)
  BY CancelTakes
<1>2. CancelAnyway(p, t) \in Alike(Cancel(p, t))
  BY <1>1 DEF Less, Alike, PoolState, CancelAnyway
<1> QED  BY <1>1, <1>2, LessIsOrder DEF Less

(***************************************************************************)
(* Folds over the pool.                                                    *)
(***************************************************************************)

CancelOp(c, p, t) == Cancel(p, t)
DoomOp(p, S, t) == S \cup {x \in Known(p) : Base[x] \in S}
ExecuteOp(c, p, t) == ExecuteFromBlock(p, t)
DeleteOp(b, q, t) == IF t \in Signed(b) THEN Delete(q, t) ELSE q
UndoOp(c, p, t) == UndoOfBlock(p, t)
TakeOffOp(c, p, b) == TakeOff(p, b)
PutOnOp(c, P, b) == UNION {PutOn(q, b) : q \in P}
AddOp(c, Q, t) == IF t \in Signed(c[2]) THEN UNION {Added(c[1], p, t) : p \in Q} ELSE Q
RepeatOp(n, Q, b) == RepeatedFrom(n, Q, b)
BackOp(b, q, t) == IF t \in Signed(b) THEN Kept(q, t) ELSE q
TryTxOp(c, s, t) == IF t \in c[2] THEN TryTx(c[1], s, t) ELSE s
TryInputsOp(c, s, t) == TryInputs(s, t)

Cancels == INSTANCE Folding WITH Op <- CancelOp
Dooms == INSTANCE Folding WITH Op <- DoomOp
Executes == INSTANCE Folding WITH Op <- ExecuteOp
Deletes == INSTANCE Folding WITH Op <- DeleteOp
Undoes == INSTANCE Folding WITH Op <- UndoOp
TakesOff == INSTANCE Folding WITH Op <- TakeOffOp
PutsOn == INSTANCE Folding WITH Op <- PutOnOp
Adds == INSTANCE Folding WITH Op <- AddOp
Repeats == INSTANCE Folding WITH Op <- RepeatOp
Backs == INSTANCE Folding WITH Op <- BackOp
TriesTx == INSTANCE Folding WITH Op <- TryTxOp
TriesInputs == INSTANCE Folding WITH Op <- TryInputsOp

\* rollbackConflictingFromPool cancels one transaction after the other.
LEMMA CancelFolds ==
  ASSUME NEW p, NEW s  PROVE  FoldLeft(Cancel, p, s) = Cancels!Fold(0, p, s)
BY DEF CancelOp, Cancels!Fold, FoldLeft, MapThenFoldSet, Max, Cancels!LastOf

\* It collects them in the order of their times.
LEMMA DoomedFolds ==
  ASSUME NEW p, NEW b  PROVE  Doomed(p, b) = Dooms!Fold(p, Disputed(p, b), Timeline)
BY DEF Doomed, DoomOp, Dooms!Fold, FoldLeft, MapThenFoldSet, Max, Dooms!LastOf

\* The statements of a block are executed one after the other.
LEMMA ExecuteFolds ==
  ASSUME NEW p, NEW s  PROVE  FoldLeft(ExecuteFromBlock, p, s) = Executes!Fold(0, p, s)
BY DEF ExecuteOp, Executes!Fold, FoldLeft, MapThenFoldSet, Max, Executes!LastOf

\* Its transactions are deleted one after the other.
LEMMA DeleteFolds ==
  ASSUME NEW p, NEW b  PROVE  DeleteSigned(p, b) = Deletes!Fold(b, p, Txs[b])
BY DEF DeleteSigned, DeleteOp, Deletes!Fold, FoldLeft, MapThenFoldSet, Max, Deletes!LastOf

\* They are rolled back from the last one up.
LEMMA TakeOffFolds ==
  ASSUME NEW p, NEW b  PROVE  TakeOff(p, b) = Undoes!Fold(0, p, Reverse(Txs[b]))
BY DEF TakeOff, UndoOp, Undoes!Fold, FoldLeft, MapThenFoldSet, Max, Undoes!LastOf

\* The blocks of the old branch are taken off one by one.
LEMMA AllTakenOffFolds ==
  ASSUME NEW p, NEW s  PROVE  TakenOff(p, s) = TakesOff!Fold(0, p, s)
BY DEF TakenOff, TakeOffOp, TakesOff!Fold, FoldLeft, MapThenFoldSet, Max, TakesOff!LastOf

\* Those of the new one are put on one by one.
LEMMA PutOnAllFolds ==
  ASSUME NEW p, NEW s  PROVE  PutOnAll(p, s) = PutsOn!Fold(0, {p}, s)
BY DEF PutOnAll, PutOnOp, PutsOn!Fold, FoldLeft, MapThenFoldSet, Max, PutsOn!LastOf

\* The transactions of an old block are added to the pool again.
LEMMA RepeatedFromFolds ==
  ASSUME NEW n, NEW P, NEW b
  PROVE  RepeatedFrom(n, P, b) = Adds!Fold(<<n, b>>, P, Txs[b])
BY DEF RepeatedFrom, AddOp, Adds!Fold, FoldLeft, MapThenFoldSet, Max, Adds!LastOf

\* So are those of the old branch, block by block.
LEMMA RepeatedFolds ==
  ASSUME NEW n, NEW P, NEW s  PROVE  Repeated(n, P, s) = Repeats!Fold(n, P, Reverse(s))
BY DEF Repeated, RepeatOp, Repeats!Fold, FoldLeft, MapThenFoldSet, Max, Repeats!LastOf

\* The transactions of a dropped block go back to the pool one by one.
LEMMA BackFolds ==
  ASSUME NEW p, NEW b  PROVE  BackFromBlock(p, b) = Backs!Fold(b, p, Txs[b])
BY DEF BackFromBlock, BackOp, Backs!Fold, FoldLeft, MapThenFoldSet, Max, Backs!LastOf

(***************************************************************************)
(* A block is put on.                                                      *)
(***************************************************************************)

\* There are finitely many transactions that can be pending, so a set of them has
\* orders.
LEMMA OrdersAreLists ==
  ASSUME NEW S \in SUBSET Held, NEW s \in SetToSeqs(S)  PROVE  s \in Seq(Held)
<1>1. IsFiniteSet(Held)
  <2>1. /\ Len(Timeline) \in Nat /\ Timeline \in [1..Len(Timeline) -> Held]
        /\ \A t \in Held : \E i \in 1..Len(Timeline) : Timeline[i] = t
    BY Pending, LenProperties DEF Held, Members
  <2>2. Timeline \in Surjection(1..Len(Timeline), Held)
    BY <2>1 DEF Surjection
  <2> QED  BY <2>1, <2>2, FS_Interval, FS_Surjection
<1>2. IsFiniteSet(S)
  BY <1>1, FS_Subset
<1>3. Cardinality(S) \in Nat
  BY <1>2, FS_CardinalityType
<1>4. s \in [1..Cardinality(S) -> S]
  BY DEF SetToSeqs
<1> HIDE DEF SetToSeqs
<1> QED  BY <1>3, <1>4

\* What is cancelled for a block was pending.
LEMMA DoomedAreHeld ==
  ASSUME NEW p \in PoolState, NEW b  PROVE  Doomed(p, b) \subseteq Held
<1> DEFINE base == Disputed(p, b)
           G == SUBSET Held
<1>1. Known(p) \subseteq Held
  BY KnownIs
<1>2. base \in G
  BY <1>1 DEF Disputed, Conflicts
<1>3. Timeline \in Seq(Tx)
  BY Pending
<1>4. \A v \in G, x \in Tx : DoomOp(p, v, x) \in G
  BY <1>1 DEF DoomOp
<1> HIDE DEF base, G
<1>5. Dooms!Fold(p, base, Timeline) \in G
  BY <1>2, <1>3, <1>4, Dooms!FoldStays
<1> QED  BY <1>5, DoomedFolds DEF base, G

\* The transactions that conflict with a block are taken away.
LEMMA RivalsTake ==
  ASSUME NEW p \in PoolState, NEW b, NEW C, NEW q \in Rivals(p, b)
  PROVE  q \in Less(p, C)
<1> DEFINE G == Less(p, C)
           zero == 0
<1>1. PICK s \in CancelOrders(p, b) : q = FoldLeft(Cancel, p, s)
  BY DEF Rivals
<1>2. s \in Seq(Held)
  BY <1>1, DoomedAreHeld, OrdersAreLists DEF CancelOrders
<1>3. p \in G
  BY LessIsOrder
<1>4. ASSUME NEW v \in G, NEW x \in Held  PROVE  CancelOp(zero, v, x) \in G
  <2>1. v \in PoolState
    BY DEF Less
  <2>2. Cancel(v, x) \in Less(v, C)
    BY <2>1, CancelTakes
  <2> QED  BY <2>2, LessIsOrder DEF CancelOp
<1> HIDE DEF G, zero
<1>5. Cancels!Fold(zero, p, s) \in G
  BY <1>2, <1>3, <1>4, Cancels!FoldStays
<1> QED  BY <1>1, <1>5, CancelFolds DEF G, zero

\* The statements of a block change rows.
LEMMA ExecuteIsAlike ==
  ASSUME NEW p \in PoolState, NEW b \in Block
  PROVE  FoldLeft(ExecuteFromBlock, p, Txs[b]) \in Alike(p)
<1> DEFINE G == Alike(p)
           zero == 0
           s == Txs[b]
<1>1. s \in Seq(Tx)
  BY TxTypes
<1>2. p \in G
  BY DEF Alike
<1>3. ASSUME NEW v \in G, NEW x \in Tx  PROVE  ExecuteOp(zero, v, x) \in G
  <2>1. v \in PoolState /\ Alike(v) \subseteq Alike(p) /\ v \in Alike(v)
    BY DEF Alike
  <2>2. Run(v, x) \in Alike(v) /\ Spoil(v, x) \in Alike(v)
    BY <2>1, RunIsAlike, SpoilIsAlike
  <2>3. [Spoil(v, x) EXCEPT !.ok = FALSE] \in Alike(v)
    <3> DEFINE u == Spoil(v, x)
               no == FALSE
    <3>1. u \in PoolState /\ Alike(u) \subseteq Alike(v) /\ no \in BOOLEAN
      BY <2>2 DEF Alike
    <3> HIDE DEF u, no
    <3>2. [u EXCEPT !.ok = no] \in Alike(v)
      BY <3>1, OkIsFree
    <3> QED  BY <3>2 DEF u, no
  <2> QED  BY <2>1, <2>2, <2>3 DEF ExecuteOp, ExecuteFromBlock
<1> HIDE DEF G, zero, s
<1>4. Executes!Fold(zero, p, s) \in G
  BY <1>1, <1>2, <1>3, Executes!FoldStays
<1> QED  BY <1>4, ExecuteFolds DEF G, zero, s

\* The transactions of a block leave the pool.
LEMMA DeletedIs ==
  ASSUME NEW p \in PoolState, NEW b \in Block
  PROVE  LET q == DeleteSigned(p, b)
         IN  /\ q \in PoolState /\ q.pool = p.pool \ Signed(b) /\ q.torn = p.torn
             /\ q.touched = p.touched /\ (Fresh(p) => Fresh(q))
<1> DEFINE s == Txs[b]
           Done(i) == {s[j] : j \in 1..i} \cap Signed(b)
           G(i) == {q \in PoolState : /\ q.pool = p.pool \ Done(i) /\ q.torn = p.torn
                                      /\ q.touched = p.touched /\ (Fresh(p) => Fresh(q))}
           F == [i \in 0..Len(s) |-> G(i)]
<1>1. s \in Seq(Tx) /\ Len(s) \in Nat /\ \A i \in 1..Len(s) : s[i] \in Tx
  BY TxTypes
<1>2. Done(0) = {} /\ \A i \in 1..Len(s) : Done(i) = Done(i - 1) \cup ({s[i]} \cap Signed(b))
  <2>1. 1..0 = {} /\ \A i \in 1..Len(s) : 1..i = (1..(i - 1)) \cup {i}
    BY <1>1
  <2> QED  BY <2>1
<1>3. Done(Len(s)) = Signed(b)
  BY TxTypes DEF Signed, TxsOf
<1> HIDE DEF Done, s
<1>4. /\ \A i \in 0..Len(s) : F[i] = G(i)
      /\ \A i \in 1..Len(s) : i - 1 \in 0..Len(s) /\ i \in 0..Len(s)
      /\ 0 \in 0..Len(s) /\ Len(s) \in 0..Len(s)
  BY <1>1
<1> HIDE DEF F
<1>5. p \in F[0]
  BY <1>2, <1>4
<1>6. ASSUME NEW i \in 1..Len(s), NEW v \in F[i - 1]  PROVE  DeleteOp(b, v, s[i]) \in F[i]
  <2> DEFINE u == Delete(v, s[i])
  <2>1. v \in G(i - 1)
    BY <1>4
  <2>2. /\ u \in PoolState /\ u.pool = v.pool \ {s[i]} /\ u.torn = v.torn
        /\ u.touched = v.touched /\ (Fresh(v) => Fresh(u))
    BY <2>1, DeleteIs
  <2> HIDE DEF u
  <2>3. CASE s[i] \in Signed(b)
    <3>1. u.pool = p.pool \ Done(i)
      BY <1>2, <2>1, <2>2, <2>3
    <3>2. u \in G(i)
      BY <2>1, <2>2, <3>1
    <3> QED  BY <1>4, <2>3, <3>2 DEF DeleteOp, u
  <2>4. CASE s[i] \notin Signed(b)
    <3>1. Done(i) = Done(i - 1)
      <4>1. {s[i]} \cap Signed(b) = {}
        BY <2>4
      <4>2. \A X, Y : Y = {} => X \cup Y = X
        OBVIOUS
      <4> QED  BY <1>2, <4>1, <4>2
    <3> QED  BY <1>4, <2>1, <2>4, <3>1 DEF DeleteOp
  <2> QED  BY <2>3, <2>4
<1> HIDE DEF G
<1>7. Deletes!Fold(b, p, s) \in F[Len(s)]
  BY <1>1, <1>5, <1>6, Deletes!FoldReaches
<1>8. DeleteSigned(p, b) \in G(Len(s))
  BY <1>4, <1>7, DeleteFolds DEF s
<1> QED  BY <1>3, <1>8 DEF G

\* A block is put on: what it has leaves the pool, and what follows that keeps its
\* base.
PutWith(p, S, C) ==
  {q \in PoolState :
     /\ q.pool \subseteq p.pool \ S /\ p.torn \subseteq q.torn
     /\ p.ok => q.ok
     /\ ~p.touched /\ Fresh(p) => ~q.touched /\ Fresh(q)
     /\ Based(p, C) => Based(q, C)
     /\ NoRivals(p) => NoRivals(q)}

LEMMA PutOnIs ==
  ASSUME NEW p \in PoolState, NEW b \in Block, NEW C, TxsOf(b) \subseteq C, NEW q \in PutOn(p, b)
  PROVE  q \in PutWith(p, Signed(b), C) /\ ~q.touched /\ Fresh(q)
<1>1. PICK r \in Rivals(Renewed(p), b) :
        q = [DeleteSigned(FoldLeft(ExecuteFromBlock, r, Txs[b]), b) EXCEPT !.ok = TRUE]
  BY DEF PutOn
<1> DEFINE u == Renewed(p)
           e == FoldLeft(ExecuteFromBlock, r, Txs[b])
           d == DeleteSigned(e, b)
           yes == TRUE
<1>2. /\ u \in PoolState /\ u.pool = p.pool /\ u.torn = p.torn /\ u.touched = FALSE /\ Fresh(u)
  BY RenewedIs
<1>3. r \in Less(u, C)
  BY <1>2, RivalsTake
<1>4. e \in Alike(r)
  BY <1>3, ExecuteIsAlike DEF Less
<1>5. /\ d \in PoolState /\ d.pool = e.pool \ Signed(b) /\ d.torn = e.torn
      /\ d.touched = e.touched /\ (Fresh(e) => Fresh(d))
  BY <1>4, DeletedIs DEF Alike
<1>6. q = [d EXCEPT !.ok = yes] /\ yes \in BOOLEAN
  BY <1>1
<1> HIDE DEF u, e, d, yes
<1>7. e \in Less(u, C)
  BY <1>2, <1>3, <1>4, LessIsOrder DEF Less
<1>8. /\ q \in PoolState /\ q.pool = e.pool \ Signed(b) /\ q.torn = e.torn /\ q.touched = e.touched
      /\ q.ok = yes /\ (Fresh(e) => Fresh(q))
  BY <1>5, <1>6, OkIsFree DEF Alike
<1>9. Based(p, C) => Based(u, C)
  BY <1>2 DEF Based
<1>10. Based(e, C) => Based(q, C)
  <2>1. Signed(b) \subseteq C
    BY DEF Signed
  <2> QED  BY <1>8, <2>1 DEF Based
<1>11. q.pool \subseteq p.pool \ Signed(b) /\ p.torn \subseteq q.torn /\ ~q.touched /\ Fresh(q)
  BY <1>2, <1>7, <1>8 DEF Less
<1>12. NoRivals(p) => NoRivals(q)
  BY <1>8, <1>11, FreshHaveNoRivals
<1> QED  BY <1>7, <1>8, <1>9, <1>10, <1>11, <1>12 DEF Less, PutWith, yes

\* So are the blocks of a branch.
LEMMA PutOnAllIs ==
  ASSUME NEW p \in PoolState, NEW s \in Seq(Block), NEW C,
         \A i \in 1..Len(s) : TxsOf(s[i]) \subseteq C,
         NEW q \in PutOnAll(p, s)
  PROVE  /\ q \in PutWith(p, UNION {Signed(s[i]) : i \in 1..Len(s)}, C)
         /\ Len(s) # 0 => ~q.touched /\ Fresh(q)
<1> DEFINE Gone_(i) == UNION {Signed(s[j]) : j \in 1..i}
           G(i) == SUBSET {x \in PutWith(p, Gone_(i), C) : i # 0 => ~x.touched /\ Fresh(x)}
           F == [i \in 0..Len(s) |-> G(i)]
           base == {p}
           zero == 0
<1>1. Len(s) \in Nat /\ \A i \in 1..Len(s) : s[i] \in Block
  BY LenProperties, ElementOfSeq
<1>2. Gone_(0) = {} /\ \A i \in 1..Len(s) : Gone_(i) = Gone_(i - 1) \cup Signed(s[i])
  <2>1. 1..0 = {} /\ \A i \in 1..Len(s) : 1..i = (1..(i - 1)) \cup {i}
    BY <1>1
  <2> QED  BY <2>1
<1>3. Gone_(Len(s)) = UNION {Signed(s[i]) : i \in 1..Len(s)}
  OBVIOUS
<1> HIDE DEF Gone_
<1>4. /\ \A i \in 0..Len(s) : F[i] = G(i)
      /\ \A i \in 1..Len(s) : i - 1 \in 0..Len(s) /\ i \in 0..Len(s) /\ i # 0
      /\ 0 \in 0..Len(s) /\ Len(s) \in 0..Len(s)
  BY <1>1
<1> HIDE DEF F
<1>5. base \in F[0]
  BY <1>2, <1>4 DEF PutWith
<1>6. ASSUME NEW i \in 1..Len(s), NEW P \in F[i - 1]  PROVE  PutOnOp(zero, P, s[i]) \in F[i]
  <2>1. ASSUME NEW x \in P, NEW y \in PutOn(x, s[i])
        PROVE  y \in PutWith(p, Gone_(i), C) /\ ~y.touched /\ Fresh(y)
    <3>1. x \in PutWith(p, Gone_(i - 1), C) /\ x \in PoolState
      BY <1>4 DEF PutWith
    <3>2. y \in PutWith(x, Signed(s[i]), C) /\ ~y.touched /\ Fresh(y)
      BY <1>1, <3>1, PutOnIs
    <3> QED  BY <1>2, <3>1, <3>2 DEF PutWith
  <2> QED  BY <1>4, <2>1 DEF PutOnOp
<1> HIDE DEF G, zero, base
<1>7. PutsOn!Fold(zero, base, s) \in F[Len(s)]
  BY <1>5, <1>6, PutsOn!FoldReaches
<1>8. PutOnAll(p, s) \in G(Len(s))
  BY <1>4, <1>7, PutOnAllFolds DEF zero, base
<1> QED  BY <1>3, <1>8 DEF G

(***************************************************************************)
(* Blocks are taken off.                                                   *)
(***************************************************************************)

\* What follows a transaction that is rolled back leaves a mark.
LEMMA UndoOfBlockIs ==
  ASSUME NEW p \in PoolState, NEW t \in Held \cup Coinbase
  PROVE  LET q == UndoOfBlock(p, t)
         IN  /\ q \in Alike(p)
             /\ q.ok => p.ok /\ \A C : Based(p, C) => Based(q, C \ {t})
<1> DEFINE u == Undo(p, t)
           no == FALSE
           f == [Spoil(p, t) EXCEPT !.ok = no]
<1>1. t \in Tx /\ p \in Alike(p)
  BY HeldTypes, Statements DEF Alike
<1>2. CASE ~p.ok
  <2>1. UndoOfBlock(p, t) = p
    BY <1>2 DEF UndoOfBlock
  <2> QED  BY <1>1, <1>2, <2>1
<1>3. ASSUME NEW e \in p.pool, Ref[e] \in DataRow, Base[e] = t, e # t
      PROVE  t \in SQL /\ Ref[t] = Ref[e] /\ OutOfTurn(p, t)
  <2>1. e \in Held
    BY DEF PoolState
  <2>2. e \in SQL /\ (Ref[t] = Ref[e] \/ Ref[t] = Table)
    BY <1>3, <2>1, HeldTypes
  <2>3. t \in SQL
    BY <1>1, <1>3, <2>2, HeldTypes DEF DataRow
  <2>4. Ref[t] \in DataRow
    BY <2>3, HeldTypes, Pending
  <2>5. Ref[t] = Ref[e]
    BY <2>2, <2>4 DEF DataRow
  <2> QED  BY <1>3, <2>3, <2>5 DEF OutOfTurn
<1>4. CASE p.ok /\ t \notin SQL
  <2>1. UndoOfBlock(p, t) = p
    BY <1>4 DEF UndoOfBlock
  <2>2. \A C : Based(p, C) => Based(p, C \ {t})
    BY <1>3, <1>4 DEF Based
  <2> QED  BY <1>1, <1>4, <2>1, <2>2
<1>5. CASE p.ok /\ t \in SQL /\ RollbackFails(t, ValueIn(p, t))
  <2>1. UndoOfBlock(p, t) = f
    BY <1>5 DEF UndoOfBlock
  <2>2. f \in Alike(p) /\ f.ok = no
    <3>1. no \in BOOLEAN /\ Spoil(p, t) \in Alike(p)
      BY <1>1, SpoilIsAlike
    <3> HIDE DEF no
    <3>2. f \in Alike(Spoil(p, t)) /\ f.ok = no
      BY <3>1, OkIsFree DEF Alike
    <3> HIDE DEF f
    <3> QED  BY <3>1, <3>2 DEF Alike
  <2> QED  BY <2>1, <2>2
<1>6. CASE p.ok /\ t \in SQL /\ ~RollbackFails(t, ValueIn(p, t))
  <2>1. UndoOfBlock(p, t) = u
    BY <1>6 DEF UndoOfBlock
  <2>2. u \in Alike(p) /\ (OutOfTurn(p, t) => Ref[t] \in u.torn)
    <3>1. Ref[t] \in DataRow
      BY <1>6, HeldTypes, Pending
    <3> QED  BY <1>1, <3>1, UndoIsAlike
  <2> HIDE DEF u
  <2>3. ASSUME NEW C, Based(p, C), NEW e \in u.pool, Ref[e] \in DataRow \ u.torn
        PROVE  Base[e] \in u.pool \cup (C \ {t})
    <3>1. e \in p.pool /\ Ref[e] \in DataRow \ p.torn /\ u.pool = p.pool
      BY <2>2, <2>3 DEF Alike
    <3>2. Base[e] \in p.pool \cup C
      BY <2>3, <3>1 DEF Based
    <3>3. Base[e] = t => e = t
      BY <1>3, <2>2, <2>3, <3>1
    <3> QED  BY <3>1, <3>2, <3>3
  <2>4. \A C : Based(p, C) => Based(u, C \ {t})
    BY <2>3 DEF Based
  <2> QED  BY <1>6, <2>1, <2>2, <2>4
<1> QED  BY <1>2, <1>4, <1>5, <1>6

\* What can be in a block but the first one.
LEMMA TxsOfBlocks ==
  ASSUME NEW b \in Block \ {Genesis}
  PROVE  /\ TxsOf(b) \subseteq Held \cup Coinbase /\ Signed(b) \subseteq Held
         /\ TxsOf(b) \cap Held = Signed(b) /\ TxsOf(b) \cap SQL \subseteq Signed(b)
<1>1. TxsOf(b) \subseteq Held \cup Coinbase /\ Held \cap Coinbase = {} /\ SQL \cap Coinbase = {}
  BY Pending
<1> QED  BY <1>1 DEF Signed

\* A block is taken off: when no rollback fails, what remains needs nothing of it.
TakenWith(p, S) ==
  {q \in Alike(p) : q.ok => p.ok /\ \A C : Based(p, C) => Based(q, C \ S)}

LEMMA TakenAndTaken ==
  ASSUME NEW p, NEW S, NEW q \in TakenWith(p, S), NEW T, NEW r \in TakenWith(q, T)
  PROVE  r \in TakenWith(p, S \cup T)
<1>1. r \in Alike(p)
  BY DEF TakenWith, Alike
<1>2. ASSUME r.ok, NEW C, Based(p, C)  PROVE  Based(r, C \ (S \cup T))
  <2>1. Based(q, C \ S)
    BY <1>2 DEF TakenWith
  <2>2. Based(r, (C \ S) \ T)
    BY <1>2, <2>1 DEF TakenWith
  <2>3. (C \ S) \ T = C \ (S \cup T)
    OBVIOUS
  <2> QED  BY <2>2, <2>3
<1>3. r.ok => p.ok
  BY DEF TakenWith
<1> QED  BY <1>1, <1>2, <1>3 DEF TakenWith

LEMMA NothingTaken ==
  ASSUME NEW p \in PoolState, NEW S, S = {}
  PROVE  p \in TakenWith(p, S)
<1>1. p \in Alike(p)
  BY DEF Alike
<1>2. \A C : C \ S = C
  OBVIOUS
<1> QED  BY <1>1, <1>2 DEF TakenWith

LEMMA TakeOffIs ==
  ASSUME NEW p \in PoolState, NEW b \in Block \ {Genesis}
  PROVE  TakeOff(p, b) \in TakenWith(p, TxsOf(b))
<1> DEFINE s == Reverse(Txs[b])
           Done(i) == {s[j] : j \in 1..i}
           F == [i \in 0..Len(s) |-> TakenWith(p, Done(i))]
           zero == 0
<1>1. /\ s \in Seq(Tx) /\ Len(s) \in Nat /\ Len(s) = Len(Txs[b])
      /\ \A t : t \in TxsOf(b) <=> \E i \in 1..Len(s) : t = s[i]
  BY BackwardsIsLaterFirst, TxTypes
<1> HIDE DEF s
<1>2. Done(0) = {} /\ \A i \in 1..Len(s) : Done(i) = Done(i - 1) \cup {s[i]}
  <2>1. 1..0 = {} /\ \A i \in 1..Len(s) : 1..i = (1..(i - 1)) \cup {i}
    BY <1>1
  <2> QED  BY <2>1
<1>3. Done(Len(s)) = TxsOf(b)
  BY <1>1
<1> HIDE DEF Done
<1>4. /\ \A i \in 0..Len(s) : F[i] = TakenWith(p, Done(i))
      /\ \A i \in 1..Len(s) : i - 1 \in 0..Len(s) /\ i \in 0..Len(s)
      /\ 0 \in 0..Len(s) /\ Len(s) \in 0..Len(s)
  BY <1>1
<1> HIDE DEF F
<1>5. p \in F[0]
  BY <1>2, <1>4, NothingTaken
<1>6. ASSUME NEW i \in 1..Len(s), NEW v \in F[i - 1]  PROVE  UndoOp(zero, v, s[i]) \in F[i]
  <2>1. s[i] \in Held \cup Coinbase
    BY <1>1, TxsOfBlocks
  <2>2. v \in TakenWith(p, Done(i - 1)) /\ v \in PoolState
    BY <1>4 DEF TakenWith, Alike
  <2>3. UndoOfBlock(v, s[i]) \in TakenWith(v, {s[i]})
    BY <2>1, <2>2, UndoOfBlockIs DEF TakenWith
  <2>4. UndoOfBlock(v, s[i]) \in TakenWith(p, Done(i - 1) \cup {s[i]})
    BY <2>2, <2>3, TakenAndTaken
  <2> QED  BY <1>2, <1>4, <2>4 DEF UndoOp
<1> HIDE DEF zero
<1>7. Undoes!Fold(zero, p, s) \in F[Len(s)]
  BY <1>1, <1>5, <1>6, Undoes!FoldReaches
<1> QED  BY <1>3, <1>4, <1>7, TakeOffFolds DEF s, zero

\* So are the blocks of the old branch, or some of them when a rollback fails.
LEMMA TakenOffIs ==
  ASSUME NEW p \in PoolState, NEW s \in Seq(Block \ {Genesis})
  PROVE  TakenOff(p, s) \in TakenWith(p, UNION {TxsOf(s[i]) : i \in 1..Len(s)})
<1> DEFINE Done(i) == UNION {TxsOf(s[j]) : j \in 1..i}
           F == [i \in 0..Len(s) |-> TakenWith(p, Done(i))]
           zero == 0
<1>1. Len(s) \in Nat /\ \A i \in 1..Len(s) : s[i] \in Block \ {Genesis}
  BY LenProperties, ElementOfSeq
<1>2. Done(0) = {} /\ \A i \in 1..Len(s) : Done(i) = Done(i - 1) \cup TxsOf(s[i])
  <2>1. 1..0 = {} /\ \A i \in 1..Len(s) : 1..i = (1..(i - 1)) \cup {i}
    BY <1>1
  <2> QED  BY <2>1
<1>3. Done(Len(s)) = UNION {TxsOf(s[i]) : i \in 1..Len(s)}
  OBVIOUS
<1> HIDE DEF Done
<1>4. /\ \A i \in 0..Len(s) : F[i] = TakenWith(p, Done(i))
      /\ \A i \in 1..Len(s) : i - 1 \in 0..Len(s) /\ i \in 0..Len(s)
      /\ 0 \in 0..Len(s) /\ Len(s) \in 0..Len(s)
  BY <1>1
<1> HIDE DEF F
<1>5. p \in F[0]
  BY <1>2, <1>4, NothingTaken
<1>6. ASSUME NEW i \in 1..Len(s), NEW v \in F[i - 1]  PROVE  TakeOffOp(zero, v, s[i]) \in F[i]
  <2>1. v \in TakenWith(p, Done(i - 1)) /\ v \in PoolState
    BY <1>4 DEF TakenWith, Alike
  <2>2. TakeOff(v, s[i]) \in TakenWith(v, TxsOf(s[i]))
    BY <1>1, <2>1, TakeOffIs
  <2>3. TakeOff(v, s[i]) \in TakenWith(p, Done(i - 1) \cup TxsOf(s[i]))
    BY <2>1, <2>2, TakenAndTaken
  <2> QED  BY <1>2, <1>4, <2>3 DEF TakeOffOp
<1> HIDE DEF zero
<1>7. TakesOff!Fold(zero, p, s) \in F[Len(s)]
  BY <1>5, <1>6, TakesOff!FoldReaches
<1> QED  BY <1>3, <1>4, <1>7, AllTakenOffFolds DEF zero

(***************************************************************************)
(* What a node has derived from its blocks.                                *)
(***************************************************************************)

\* A row that a branch has written was written by some transaction last.
LEMMA RowHasLast ==
  ASSUME NEW b \in Block, NEW t \in TxsOn(b)  PROVE  LastOfRow(b, Ref[t]) # {}
<1> DEFINE r == Ref[t]
           G == {c \in Block : (\E x \in TxsOn(c) : Ref[x] = r) => LastOfRow(c, r) # {}}
<1>1. ASSUME NEW c \in Block, NEW i \in 1..Len(Txs[c]), Ref[Txs[c][i]] = r
      PROVE  LastOfRow(c, r) # {}
  <2> DEFINE T == {m \in Nat : \A k \in 1..Len(Txs[c]) : Ref[Txs[c][k]] = r => k <= m}
  <2>1. Len(Txs[c]) \in T
    BY TxTypes
  <2>2. PICK m \in T : \A n \in T : m <= n
    <3> HIDE DEF T
    <3>1. T \in SUBSET Nat
      BY DEF T
    <3> QED  BY <2>1, <3>1, Walks!LeastNumber
  <2>3. i <= m /\ m \in Nat /\ Len(Txs[c]) \in Nat /\ m <= Len(Txs[c])
    BY <1>1, <2>1, <2>2, TxTypes
  <2>4. m \in 1..Len(Txs[c])
    BY <2>3
  <2>5. Ref[Txs[c][m]] = r
    <3>1. m - 1 \notin T
      BY <2>2, <2>3
    <3>2. m - 1 \in Nat
      BY <2>4
    <3>3. PICK k \in 1..Len(Txs[c]) : Ref[Txs[c][k]] = r /\ ~(k <= m - 1)
      BY <3>1, <3>2
    <3>4. k = m
      BY <2>2, <2>3, <3>3
    <3> QED  BY <3>3, <3>4
  <2>6. Txs[c][m] \in LastOfRow(c, r)
    BY <2>2, <2>4, <2>5, LastOfTopBlock
  <2> QED  BY <2>6
<1>2. ASSUME NEW c \in Block, NEW x \in TxsOf(c), Ref[x] = r  PROVE  LastOfRow(c, r) # {}
  BY <1>1, <1>2, TxTypes DEF TxsOf
<1>3. Genesis \in G
  BY <1>2, TxsOnStep, TreeFacts DEF Older
<1>4. ASSUME NEW c \in Block \ {Genesis}, Prev[c] \in G  PROVE  c \in G
  <2>1. SUFFICES ASSUME NEW x \in TxsOn(c), Ref[x] = r  PROVE  LastOfRow(c, r) # {}
    OBVIOUS
  <2>2. CASE \E y \in TxsOf(c) : Ref[y] = r
    BY <1>2, <2>2
  <2>3. CASE \A y \in TxsOf(c) : Ref[y] # r
    <3>1. x \in TxsOn(Prev[c])
      BY <2>1, <2>3, TxsOnStep DEF Older
    <3>2. PICK y : y \in LastOfRow(Prev[c], r)
      BY <1>4, <2>1, <3>1
    <3>3. \A k \in 1..Len(Txs[c]) : Ref[Txs[c][k]] # r
      BY <2>3, TxTypes DEF TxsOf
    <3> QED  BY <3>2, <3>3, LastAndBlock
  <2> QED  BY <2>2, <2>3
<1>5. Block \subseteq G
  <2> HIDE DEF G
  <2> QED  BY <1>3, <1>4, BlocksAreTree, Walks!AlongTree
<1> QED  BY <1>5

\* A block that is put on takes no reference away.
LEMMA RefsAddedStay ==
  ASSUME NEW b \in Block, NEW q \in RowRefs, NEW r \in Row, RefsAdded(q, b)[r] = NoTx
  PROVE  q[r] = NoTx /\ \A k \in 1..Len(Txs[b]) : Ref[Txs[b][k]] # r
<1> DEFINE s == Txs[b]
           F == [i \in 0..Len(s) |-> {w \in RowRefs : w[r] = NoTx =>
                   q[r] = NoTx /\ \A k \in 1..i : Ref[s[k]] # r}]
           zero == 0
<1>1. s \in Seq(Tx) /\ Len(s) \in Nat /\ \A i \in 1..Len(s) : s[i] \in Tx
  BY TxTypes
<1> HIDE DEF s
<1>2. /\ \A i \in 0..Len(s) : F[i] = {w \in RowRefs : w[r] = NoTx =>
                   q[r] = NoTx /\ \A k \in 1..i : Ref[s[k]] # r}
      /\ \A i \in 1..Len(s) : i - 1 \in 0..Len(s) /\ i \in 0..Len(s)
      /\ 0 \in 0..Len(s) /\ Len(s) \in 0..Len(s)
  BY <1>1
<1> HIDE DEF F
<1>3. q \in F[0]
  BY <1>2
<1>4. ASSUME NEW i \in 1..Len(s), NEW v \in F[i - 1]  PROVE  SetRefStep(zero, v, s[i]) \in F[i]
  <2>1. /\ v \in RowRefs
        /\ v[r] = NoTx => q[r] = NoTx /\ \A k \in 1..(i - 1) : Ref[s[k]] # r
    BY <1>2
  <2>2. \A k \in 1..i : k \in 1..(i - 1) \/ k = i
    BY <1>1
  <2>3. s[i] \in Tx /\ s[i] # NoTx /\ Ref[s[i]] \in Row \cup {NoRow}
    BY <1>1, Transactions
  <2>4. CASE Ref[s[i]] = NoRow
    <3>1. SetRef(v, s[i]) = v
      BY <2>4 DEF SetRef
    <3>2. \A k \in 1..i : k \in 1..(i - 1) \/ Ref[s[k]] # r
      BY <2>2, <2>4, Transactions
    <3> QED  BY <1>2, <2>1, <3>1, <3>2 DEF SetRefStep
  <2>5. CASE Ref[s[i]] # NoRow
    <3>1. SetRef(v, s[i]) = [v EXCEPT ![Ref[s[i]]] = s[i]]
      BY <2>5 DEF SetRef
    <3>2. SetRef(v, s[i]) \in RowRefs
      BY <2>1, <2>3, <3>1 DEF RowRefs
    <3>3. SetRef(v, s[i])[r] = IF r = Ref[s[i]] THEN s[i] ELSE v[r]
      BY <2>1, <2>3, <2>5, <3>1 DEF RowRefs
    <3> QED  BY <1>2, <2>1, <2>2, <2>3, <3>2, <3>3 DEF SetRefStep
  <2> QED  BY <2>4, <2>5
<1> HIDE DEF zero
<1>5. SetRefs!Fold(zero, q, s) \in F[Len(s)]
  BY <1>1, <1>3, <1>4, SetRefs!FoldReaches
<1>6. RefsAdded(q, b) \in F[Len(s)]
  BY <1>5, RefsAddedFolds DEF s, zero
<1> QED  BY <1>2, <1>6 DEF s

(***************************************************************************)
(* What may enter the pool.                                                *)
(***************************************************************************)

\* What a node has derived from its blocks, but for the spendings where a block
\* was dropped.
Knows(n, blocks, dropped) ==
  /\ n.top \in Block /\ blocks \in SUBSET Block /\ Branch(n.top) \subseteq blocks
  /\ LinksOf(n.links, blocks)
  /\ ~dropped => SpentIn(n.spent, blocks)
  /\ n.refs \in RefsRight(n.top)

\* A transaction that is approved and pending nevertheless is about a row that is
\* marked, and it pays nothing unless a block was dropped.
Excused(t, marks, dropped) == (t \in SQL => Ref[t] \in marks) /\ (Ins[t] # <<>> => dropped)

\* The last transaction of a row of a branch is on it.
LEMMA LastIsOnBranch ==
  ASSUME NEW b \in Block, NEW r, NEW t \in LastOfRow(b, r)
  PROVE  t \in TxsOn(b) /\ Ref[t] = r
<1>1. PICK c \in Branch(b) : \E j \in 1..Len(Txs[c]) : t = Txs[c][j] /\ IsLast(b, r, c, j)
  BY LastOfRowMeans
<1>2. c \in Block
  BY BranchFacts
<1>3. t \in TxsOf(c) /\ Ref[t] = r
  BY <1>1, <1>2, TxTypes DEF TxsOf, IsLast
<1> QED  BY <1>3, TxsOnBelow

\* The base of a statement that is accepted is pending, about the same row, or
\* approved.
LEMMA BaseIsThere ==
  ASSUME NEW n, NEW blocks, NEW dropped \in BOOLEAN, Knows(n, blocks, dropped),
         NEW p \in PoolState, NEW t \in Held \cap SQL, NEW kinds, MayPass(n, p, t, kinds)
  PROVE  \/ t \in Known(p)
         \/ Base[t] \in BasesInPool(p, t)
         \/ Base[t] = BaseOnChain(n, t) /\ Base[t] \in TxsOn(n.top)
<1>1. Base[t] \in Tx /\ Base[t] # NoTx /\ Ref[t] \in Row /\ Table \in Row
  BY HeldTypes, Transactions
<1>2. SUFFICES ASSUME t \notin Known(p), Base[t] \notin BasesInPool(p, t)
               PROVE  Base[t] = BaseOnChain(n, t) /\ Base[t] \in TxsOn(n.top)
  OBVIOUS
<1>3. Base[t] = BaseOnChain(n, t)
  BY <1>1, <1>2 DEF MayPass, GoodBases, BasesFound
<1>4. \E r \in Row : n.refs[r] = Base[t]
  BY <1>1, <1>3 DEF BaseOnChain
<1>5. \E r \in Row : Base[t] \in LastOfRow(n.top, r)
  BY <1>1, <1>4 DEF Knows, RefsRight
<1> QED  BY <1>3, <1>5, LastIsOnBranch DEF Knows

\* A payment that is approved has spent its inputs already.
LEMMA PaidOnChain ==
  ASSUME NEW n, NEW blocks, Knows(n, blocks, FALSE), NEW given,
         NEW t \in TxsOn(n.top), Ins[t] # <<>>, InputsGood(n, given, t)
  PROVE  FALSE
<1> DEFINE idx == Index(Branch(n.top), n.links, n.spent)
           x == Ins[t][1]
           y == x[1]
<1>1. n.top \in Block /\ t \in Tx
  BY TxsOnBelow, BranchFacts DEF Knows
<1>2. x \in InsOf(t)
  <2>1. Ins[t] \in Seq(Tx \X Nat) /\ Len(Ins[t]) \in Nat /\ DOMAIN Ins[t] = 1..Len(Ins[t])
    BY <1>1, TxTypes
  <2>2. Len(Ins[t]) # 0
    BY <2>1, EmptySeq
  <2>3. 1 \in DOMAIN Ins[t]
    BY <2>1, <2>2
  <2> QED  BY <2>3 DEF InsOf
<1>3. y \in TxsOn(n.top) /\ y \in Tx
  BY <1>1, <1>2, BranchHoldsInputs, TxsOnBelow, BranchFacts DEF HoldsInputs
<1>4. /\ idx.chain = Branch(n.top) /\ idx.links = n.links /\ idx.spent = n.spent
  BY DEF Index
<1>5. InputGood(n, given, x)
  BY <1>2 DEF InputsGood
<1> HIDE DEF x, y, idx
<1>6. BlockUnder(idx, y, NoHash) # NoHash
  <2>1. PICK c \in Branch(n.top) : y \in TxsOf(c)
    BY <1>3 DEF TxsOn
  <2>2. c \in idx.links[y] \cap idx.chain /\ NoHash \notin idx.chain
    BY <1>1, <1>3, <1>4, <2>1, BranchFacts, TreeFacts DEF Knows, LinksOf
  <2> QED  BY <2>2 DEF BlockUnder, ChooseHashUnderTip
<1>7. x \in UnspentUnder(idx, y, n.top)
  BY <1>5, <1>6 DEF InputGood, idx, y
<1>8. UnspentUnder(idx, y, n.top) \subseteq UnspentOn(n.top)
  <2> DEFINE b == n.top
  <2>1. b \in Block /\ Branch(b) \subseteq blocks /\ IsIndexOf(idx, blocks) /\ y \in TxsOn(b)
    BY <1>3, <1>4 DEF Knows, IsIndexOf
  <2> HIDE DEF b
  <2>2. UnspentUnder(idx, y, b) = {z \in UnspentOn(b) : z[1] = y}
    BY <2>1, OutputsAreFound
  <2> QED  BY <2>2 DEF b
<1> QED  BY <1>2, <1>7, <1>8 DEF UnspentOn

\* What another transaction of its branch follows is not the last one of the row.
LEMMA FollowedIsNotLast ==
  ASSUME NEW b \in Block, NEW t \in TxsOn(b), Base[t] # NoTx, Ref[Base[t]] = Ref[t]
  PROVE  Base[t] \in TxsOn(b) /\ Base[t] \notin LastOfRow(b, Ref[t])
<1>1. PICK c \in Branch(b) : t \in TxsOf(c)
  BY DEF TxsOn
<1>2. c \in Block
  BY BranchFacts
<1>3. PICK i \in 1..Len(Txs[c]) : t = Txs[c][i]
  BY <1>1, <1>2, TxTypes DEF TxsOf
<1>4. Base[t] \in Earlier(c, i)
  BY <1>2, <1>3, BasesOfBlocks, TxTypes
<1>5. PICK e \in Branch(b) : \E j \in 1..Len(Txs[e]) :
        Base[t] = Txs[e][j] /\ (Height[e] < Height[c] \/ (e = c /\ j < i))
  <2>1. CASE \E j \in 1..(i - 1) : Base[t] = Txs[c][j]
    <3>1. \A j \in 1..(i - 1) : j \in 1..Len(Txs[c]) /\ j < i
      BY <1>2, TxTypes
    <3> QED  BY <2>1, <3>1
  <2>2. CASE c # Genesis /\ Base[t] \in TxsOn(Prev[c])
    <3>1. PICK e \in Branch(Prev[c]) : Base[t] \in TxsOf(e)
      BY <2>2 DEF TxsOn
    <3>2. /\ Prev[c] \in Block /\ Height[c] = Height[Prev[c]] + 1 /\ Height[Prev[c]] \in Nat
      BY <1>2, <2>2, TreeFacts
    <3>3. e \in Block /\ Height[e] <= Height[Prev[c]] /\ Height[e] \in Nat
      BY <3>2, BranchFacts, TreeFacts
    <3>4. e \in Branch(b)
      BY <1>2, <2>2, <3>1, BranchStep, BranchBelow
    <3>5. Height[e] < Height[c]
      BY <3>2, <3>3
    <3>6. \E j \in 1..Len(Txs[e]) : Base[t] = Txs[e][j]
      BY <3>1, <3>3, TxTypes DEF TxsOf
    <3> QED  BY <3>4, <3>5, <3>6
  <2> QED  BY <1>4, <2>1, <2>2 DEF Earlier
<1>6. PICK j \in 1..Len(Txs[e]) :
        Base[t] = Txs[e][j] /\ (Height[e] < Height[c] \/ (e = c /\ j < i))
  BY <1>5
<1>7. e \in Block /\ Base[t] \in TxsOf(e)
  BY <1>6, BranchFacts, TxTypes DEF TxsOf
<1>8. ASSUME Base[t] \in LastOfRow(b, Ref[t])  PROVE  FALSE
  <2>1. PICK d \in Branch(b) : \E k \in 1..Len(Txs[d]) :
          Base[t] = Txs[d][k] /\ IsLast(b, Ref[t], d, k)
    BY <1>8, LastOfRowMeans
  <2>2. PICK k \in 1..Len(Txs[d]) : Base[t] = Txs[d][k] /\ IsLast(b, Ref[t], d, k)
    BY <2>1
  <2>3. d \in Block /\ Base[t] \in TxsOf(d)
    BY <2>2, BranchFacts, TxTypes DEF TxsOf
  <2>4. d = e
    BY <1>7, <2>3, OneBlockOfBranch
  <2>5. k = j
    <3>1. VerifiedBlock(e)
      BY <1>7, VerifiedBlocks
    <3>2. Len(Txs[e]) \in Nat /\ DOMAIN Txs[e] = 1..Len(Txs[e])
      BY <1>7, TxTypes
    <3>3. ASSUME NEW x \in 1..Len(Txs[e]), NEW y \in 1..Len(Txs[e]), x < y
          PROVE  Txs[e][x] # Txs[e][y]
      <4>1. x \in 1..(y - 1)
        BY <3>2, <3>3
      <4> QED  BY <3>1, <3>2, <4>1 DEF VerifiedBlock
    <3>4. k \in 1..Len(Txs[e]) /\ Txs[e][k] = Txs[e][j]
      BY <1>6, <2>2, <2>4
    <3>5. ~(k < j) /\ ~(j < k)
      BY <3>3, <3>4
    <3> QED  BY <3>2, <3>4, <3>5
  <2>6. NotAfter(<<c, i>>, <<e, j>>)
    BY <1>3, <2>2, <2>4, <2>5 DEF IsLast
  <2>7. Height[c] < Height[e] \/ (c = e /\ i <= j)
    BY <2>6 DEF NotAfter
  <2>8. Height[c] \in Nat /\ Height[e] \in Nat /\ i \in Nat /\ j \in Nat
    BY <1>2, <1>7, TreeFacts
  <2> QED  BY <1>6, <2>7, <2>8
<1> QED  BY <1>7, <1>8, TxsOnBelow

\* What is approved does not pass the verification for the pool again, unless it is
\* excused.
LEMMA ApprovedIsRefused ==
  ASSUME NEW n, NEW blocks, NEW dropped \in BOOLEAN, Knows(n, blocks, dropped),
         NEW p \in PoolState, NEW marks, Forgotten(n) \subseteq marks,
         \A x \in Known(p) \cap TxsOn(n.top) : Excused(x, marks, dropped),
         NEW t \in Held \cap TxsOn(n.top), NEW kinds, MayPass(n, p, t, kinds)
  PROVE  Excused(t, marks, dropped)
<1> DEFINE r == Ref[t]
<1>1. ASSUME Ins[t] # <<>>  PROVE  dropped
  <2>1. InputsGood(n, Known(p), t)
    BY DEF MayPass
  <2>2. Knows(n, blocks, FALSE) => FALSE
    <3> HIDE DEF Knows
    <3> QED  BY <1>1, <2>1, PaidOnChain
  <2> QED  BY <2>2 DEF Knows
<1>2. ASSUME t \in SQL  PROVE  r \in marks
  <2>1. n.top \in Block /\ r \in DataRow /\ r \in Row /\ Base[t] \in Tx /\ Base[t] # NoTx
    BY <1>2, HeldTypes, Transactions DEF Knows
  <2>2. CASE t \in Known(p)
    BY <1>2, <2>2 DEF Excused
  <2>3. CASE Base[t] \in BasesInPool(p, t)
    <3>1. Base[t] \in Known(p) /\ Ref[Base[t]] = r
      BY <2>3 DEF BasesInPool
    <3>2. Base[t] \in TxsOn(n.top)
      BY <2>1, <3>1, FollowedIsNotLast
    <3>3. Base[t] \in SQL
      BY <2>1, <3>1, HeldTypes
    <3> QED  BY <3>1, <3>2, <3>3 DEF Excused
  <2>4. CASE Base[t] = BaseOnChain(n, t)
    <3>1. LastOfRow(n.top, r) # {}
      BY <2>1, RowHasLast
    <3>2. CASE n.refs[r] = NoTx
      <4>1. r \in Forgotten(n)
        BY <2>1, <3>1, <3>2 DEF Forgotten
      <4> QED  BY <4>1 DEF Excused
    <3>3. CASE n.refs[r] # NoTx
      <4>1. Base[t] = n.refs[r]
        BY <2>4, <3>3 DEF BaseOnChain
      <4>2. Base[t] \in LastOfRow(n.top, r)
        BY <2>1, <3>3, <4>1 DEF Knows, RefsRight
      <4>3. Ref[Base[t]] = r
        BY <2>1, <4>2, LastIsOnBranch
      <4> QED  BY <2>1, <4>2, <4>3, FollowedIsNotLast
    <3> QED  BY <3>2, <3>3
  <2> QED  BY <1>2, <2>2, <2>3, <2>4, BaseIsThere
<1> QED  BY <1>1, <1>2 DEF Excused

\* What is approved is pending, or in the map, only if it is excused.
Clean(n, p, dropped) ==
  \A x \in Inside(p) \cap TxsOn(n.top) : Excused(x, p.torn \cup Forgotten(n), dropped)

\* The pool has got something that has its base and is not approved, as long as
\* some row is not marked.
Grows(n, p, dropped) ==
  {q \in PoolState :
     /\ p.torn \subseteq q.torn /\ q.touched = p.touched /\ Stale(q) \subseteq Stale(p)
     /\ Fresh(p) => Fresh(q)
     /\ NoRivals(p) => NoRivals(q)
     /\ q.torn # Row =>
          /\ Based(p, TxsOn(n.top)) => Based(q, TxsOn(n.top))
          /\ Clean(n, p, dropped) => Clean(n, q, dropped)}

LEMMA GrowsIsOrder ==
  ASSUME NEW n, NEW p \in PoolState, NEW dropped \in BOOLEAN
  PROVE  /\ p \in Grows(n, p, dropped)
         /\ Alike(p) \subseteq Grows(n, p, dropped)
         /\ \A q \in Grows(n, p, dropped) : Grows(n, q, dropped) \subseteq Grows(n, p, dropped)
<1>1. p \in Alike(p)
  BY DEF Alike
<1>2. Alike(p) \subseteq Grows(n, p, dropped)
  <2>1. SUFFICES ASSUME NEW q \in Alike(p)  PROVE  q \in Grows(n, p, dropped)
    OBVIOUS
  <2>2. /\ q \in PoolState /\ q.pool = p.pool /\ q.cache = p.cache /\ q.touched = p.touched
        /\ p.torn \subseteq q.torn
    BY DEF Alike
  <2>3. Inside(q) = Inside(p) /\ Stale(q) = Stale(p) /\ (Fresh(p) => Fresh(q))
    BY <2>2 DEF Inside, Cached, Stale, Fresh
  <2>4. Clean(n, p, dropped) => Clean(n, q, dropped)
    BY <2>2, <2>3 DEF Clean, Excused
  <2>5. Based(p, TxsOn(n.top)) => Based(q, TxsOn(n.top))
    BY <2>2 DEF Based
  <2>6. NoRivals(p) => NoRivals(q)
    BY <2>2, AlikeHaveNoRivals
  <2> QED  BY <2>2, <2>3, <2>4, <2>5, <2>6 DEF Grows
<1>3. ASSUME NEW q \in Grows(n, p, dropped), NEW r \in Grows(n, q, dropped)
      PROVE  r \in Grows(n, p, dropped)
  <2>1. r.torn # Row => q.torn # Row
    BY DEF Grows, PoolState
  <2> QED  BY <2>1 DEF Grows
<1> QED  BY <1>1, <1>2, <1>3

\* What is kept has no rival among what the map or the table has.
LEMMA KeptHasNoRivals ==
  ASSUME NEW p \in PoolState, NEW t \in Held, NoRivals(p)
  PROVE  NoRivals(Kept(p, t))
<1> DEFINE q == Kept(p, t)
<1>1. CASE Conflicts(p, t) # {}
  <2>1. q = Spoil(p, t) /\ t \in Tx
    BY <1>1, HeldTypes DEF Kept
  <2>2. q \in Alike(p)
    BY <2>1, SpoilIsAlike
  <2> HIDE DEF q
  <2>3. NoRivals(q)
    BY <2>2, AlikeHaveNoRivals DEF Alike
  <2> QED  BY <2>3 DEF q
<1>2. CASE Conflicts(p, t) = {}
  <2>1. /\ q.pool = p.pool \cup {t}
        /\ q.cache = IF p.cache = NoCache THEN p.cache ELSE p.cache \cup {t}
    BY <1>2 DEF PoolState, Kept, Put
  <2> HIDE DEF q
  <2>2. /\ p.pool \subseteq Known(p)
        /\ \A x, y \in Known(p) : x # y => InsOf(x) \cap InsOf(y) = {} /\ ~SameBase(x, y)
    BY DEF NoRivals, Conflicts
  <2>3. Known(q) \subseteq Known(p) \cup {t} /\ q.pool \subseteq Known(q)
    BY <2>1, <2>2 DEF Known
  <2>4. \A x \in Known(p) : x # t => InsOf(x) \cap InsOf(t) = {} /\ ~SameBase(x, t)
    BY <1>2 DEF Conflicts
  <2>5. \A x : SameBase(t, x) => SameBase(x, t)
    BY DEF SameBase
  <2>6. ASSUME NEW x \in Known(q), NEW y \in Known(q), x # y
        PROVE  InsOf(x) \cap InsOf(y) = {} /\ ~SameBase(x, y)
    <3>1. CASE x = t
      BY <2>3, <2>4, <2>5, <2>6, <3>1
    <3>2. CASE y = t
      BY <2>3, <2>4, <2>6, <3>2
    <3>3. CASE x # t /\ y # t
      BY <2>2, <2>3, <2>6, <3>3
    <3> QED  BY <3>1, <3>2, <3>3
  <2>7. \A y \in Known(q) : Conflicts(q, y) = {}
    BY <2>6 DEF Conflicts
  <2>8. NoRivals(q)
    BY <2>3, <2>7 DEF NoRivals
  <2> QED  BY <2>8 DEF q
<1> QED  BY <1>1, <1>2

\* A transaction that has passed the verification is put into the pool, or it
\* conflicts and leaves a mark.
LEMMA KeptGrows ==
  ASSUME NEW n, NEW blocks, NEW dropped \in BOOLEAN,
         NEW p \in PoolState, p.torn # Row => Knows(n, blocks, dropped),
         NEW u \in Alike(p), NEW t \in Held,
         NEW kinds, MayPass(n, p, t, kinds),
         t \in SQL /\ Ref[t] \notin u.torn => \A x \in Stale(p) : Ref[x] # Ref[t]
  PROVE  Kept(u, t) \in Grows(n, p, dropped)
<1>1. u \in PoolState /\ t \in Tx
  BY HeldTypes DEF Alike
<1>2. CASE Conflicts(u, t) # {}
  <2>1. Kept(u, t) = Spoil(u, t)
    BY <1>2 DEF Kept
  <2>2. Spoil(u, t) \in Alike(u)
    BY <1>1, SpoilIsAlike
  <2>3. Spoil(u, t) \in Alike(p)
    BY <2>2 DEF Alike
  <2> QED  BY <2>1, <2>3, GrowsIsOrder
<1>3. CASE Conflicts(u, t) = {}
  <2> DEFINE q == Put(u, t)
  <2>1. Kept(u, t) = q
    BY <1>3 DEF Kept
  <2>2. /\ q \in PoolState /\ q.pool = p.pool \cup {t} /\ q.torn = u.torn /\ p.torn \subseteq q.torn
        /\ q.touched = p.touched
        /\ q.cache = IF p.cache = NoCache THEN p.cache ELSE p.cache \cup {t}
    BY <1>1 DEF Alike, PoolState, Put
  <2> HIDE DEF q
  <2>3. Inside(q) \subseteq Inside(p) \cup {t} /\ Stale(q) \subseteq Stale(p) /\ (Fresh(p) => Fresh(q))
    BY <2>2 DEF Inside, Cached, Stale, Fresh
  <2>4. ASSUME q.torn # Row, Based(p, TxsOn(n.top)), NEW e \in q.pool, Ref[e] \in DataRow \ q.torn
        PROVE  Base[e] \in q.pool \cup TxsOn(n.top)
    <3>1. CASE e \in p.pool
      BY <2>2, <2>4, <3>1 DEF Based
    <3>2. CASE e = t /\ t \notin p.pool
      <4>1. t \in SQL /\ Ref[t] \notin u.torn
        BY <2>2, <2>4, <3>2, HeldTypes
      <4>2. \A x \in Known(p) : Ref[x] = Ref[t] => x \in p.pool
        BY <4>1, KnownIs
      <4>3. t \notin Known(p)
        BY <3>2, <4>2
      <4>4. Base[t] \in BasesInPool(p, t) => Base[t] \in p.pool
        BY <4>2 DEF BasesInPool
      <4>5. Knows(n, blocks, dropped)
        BY <2>2, <2>4 DEF PoolState
      <4> QED  BY <2>2, <3>2, <4>1, <4>3, <4>4, <4>5, BaseIsThere
    <3> QED  BY <2>2, <3>1, <3>2
  <2>5. ASSUME q.torn # Row, Clean(n, p, dropped), NEW x \in Inside(q) \cap TxsOn(n.top)
        PROVE  Excused(x, q.torn \cup Forgotten(n), dropped)
    <3> DEFINE marks == q.torn \cup Forgotten(n)
    <3>1. p.torn \cup Forgotten(n) \subseteq marks
      BY <2>2
    <3>2. \A y \in Inside(p) \cap TxsOn(n.top) : Excused(y, marks, dropped)
      BY <2>5, <3>1 DEF Clean, Excused
    <3>3. \A y \in Known(p) \cap TxsOn(n.top) : Excused(y, marks, dropped)
      BY <3>2, KnownIs
    <3>4. Forgotten(n) \subseteq marks /\ Knows(n, blocks, dropped)
      BY <2>2, <2>5 DEF PoolState
    <3> HIDE DEF marks
    <3>5. t \in TxsOn(n.top) => Excused(t, marks, dropped)
      BY <3>3, <3>4, ApprovedIsRefused
    <3>6. Excused(x, marks, dropped)
      BY <2>3, <3>2, <3>5
    <3> QED  BY <3>6 DEF marks
  <2>6. ASSUME NoRivals(p)  PROVE  NoRivals(q)
    <3>1. NoRivals(u)
      BY <2>6, AlikeHaveNoRivals DEF Alike
    <3> QED  BY <1>1, <2>1, <3>1, KeptHasNoRivals
  <2> QED  BY <2>1, <2>2, <2>3, <2>4, <2>5, <2>6 DEF Grows, Based, Clean
<1> QED  BY <1>2, <1>3

\* AddTransactionToPool.  A transaction that is known from a map that is not the
\* table any more runs out of turn.
LEMMA AddedGrows ==
  ASSUME NEW n, NEW blocks, NEW dropped \in BOOLEAN,
         NEW p \in PoolState, p.torn # Row => Knows(n, blocks, dropped),
         p.touched \/ Fresh(p), NEW t \in Held, NEW q \in Added(n, p, t)
  PROVE  q \in Grows(n, p, dropped)
<1>1. CASE q = p
  BY <1>1, GrowsIsOrder
<1>2. CASE MayPass(n, p, t, Changing) /\ q = Kept(Run(p, t), t)
  <2> DEFINE u == Run(p, t)
             kinds == Changing
  <2>1. t \in Tx /\ u \in Alike(p) /\ (Ref[t] \in DataRow /\ OutOfTurn(p, t) => Ref[t] \in u.torn)
    BY HeldTypes, RunIsAlike
  <2>2. MayPass(n, p, t, kinds) /\ q = Kept(u, t)
    BY <1>2
  <2> HIDE DEF u, kinds
  <2>3. CASE p.touched
    <3>1. t \in SQL => Ref[t] \in u.torn
      BY <2>1, <2>3, HeldTypes DEF OutOfTurn
    <3> QED  BY <2>1, <2>2, <3>1, KeptGrows
  <2>4. CASE Fresh(p)
    <3>1. Stale(p) = {}
      BY <2>4 DEF Fresh, Stale, Cached
    <3> QED  BY <2>1, <2>2, <3>1, KeptGrows
  <2> QED  BY <2>3, <2>4
<1> QED  BY <1>1, <1>2 DEF Added

(***************************************************************************)
(* Transactions of old blocks, and transactions for a new one.             *)
(***************************************************************************)

LEMMA BackwardsIsList ==
  ASSUME NEW S, NEW s \in Seq(S)
  PROVE  Reverse(s) \in Seq(S)
<1>1. Len(s) \in Nat /\ \A i \in 1..Len(s) : s[i] \in S
  BY LenProperties, ElementOfSeq
<1>2. \A i \in 1..Len(s) : (Len(s) - i) + 1 \in 1..Len(s)
  BY <1>1
<1> QED  BY <1>1, <1>2 DEF Reverse

\* What some pools lead to.
Reach(n, P, dropped) == UNION {Grows(n, p, dropped) : p \in P}

\* The transactions of the old branch go back to the pool as new ones would.
LEMMA RepeatedFromGrows ==
  ASSUME NEW n, NEW blocks, NEW dropped \in BOOLEAN, NEW P,
         \A p \in P : /\ p \in PoolState /\ (p.touched \/ Fresh(p))
                      /\ p.torn # Row => Knows(n, blocks, dropped),
         NEW Q \in SUBSET Reach(n, P, dropped), NEW b \in Block \ {Genesis}
  PROVE  RepeatedFrom(n, Q, b) \in SUBSET Reach(n, P, dropped)
<1> DEFINE G == SUBSET Reach(n, P, dropped)
           c == <<n, b>>
           s == Txs[b]
<1>1. s \in Seq(Tx)
  BY TxTypes
<1>2. ASSUME NEW R \in G, NEW t \in Tx  PROVE  AddOp(c, R, t) \in G
  <2>1. CASE t \in Signed(b)
    <3>1. ASSUME NEW x \in R, NEW y \in Added(n, x, t)  PROVE  y \in Reach(n, P, dropped)
      <4>1. PICK p \in P : x \in Grows(n, p, dropped)
        BY DEF Reach
      <4>2. p \in PoolState /\ (p.touched \/ Fresh(p)) /\ (p.torn # Row => Knows(n, blocks, dropped))
        OBVIOUS
      <4>3. /\ x \in PoolState /\ (x.touched \/ Fresh(x)) /\ t \in Held
            /\ x.torn # Row => Knows(n, blocks, dropped)
        BY <2>1, <4>1, <4>2, TxsOfBlocks DEF Grows, PoolState
      <4>4. y \in Grows(n, x, dropped)
        BY <4>3, AddedGrows
      <4>5. y \in Grows(n, p, dropped)
        BY <4>1, <4>2, <4>4, GrowsIsOrder
      <4> QED  BY <4>5 DEF Reach
    <3>2. AddOp(c, R, t) = UNION {Added(n, x, t) : x \in R}
      BY <2>1 DEF AddOp
    <3> QED  BY <3>1, <3>2
  <2>2. CASE t \notin Signed(b)
    BY <2>2 DEF AddOp
  <2> QED  BY <2>1, <2>2
<1>3. Q \in G
  OBVIOUS
<1> HIDE DEF G, c, s
<1>4. Adds!Fold(c, Q, s) \in G
  BY <1>1, <1>2, <1>3, Adds!FoldStays
<1> QED  BY <1>4, RepeatedFromFolds DEF G, c, s

LEMMA RepeatedGrows ==
  ASSUME NEW n, NEW blocks, NEW dropped \in BOOLEAN, NEW P,
         \A p \in P : /\ p \in PoolState /\ (p.touched \/ Fresh(p))
                      /\ p.torn # Row => Knows(n, blocks, dropped),
         NEW old \in Seq(Block \ {Genesis}), NEW q \in Repeated(n, P, old)
  PROVE  \E p \in P : q \in Grows(n, p, dropped)
<1> DEFINE G == SUBSET Reach(n, P, dropped)
           s == Reverse(old)
<1>1. s \in Seq(Block \ {Genesis})
  BY BackwardsIsList
<1>2. \A Q \in G, b \in Block \ {Genesis} : RepeatOp(n, Q, b) \in G
  BY RepeatedFromGrows DEF RepeatOp
<1>3. P \in G
  BY GrowsIsOrder DEF Reach
<1> HIDE DEF G, s
<1>4. Repeats!Fold(n, P, s) \in G
  BY <1>1, <1>2, <1>3, Repeats!FoldStays
<1> QED  BY <1>4, RepeatedFolds DEF G, s, Reach

\* Where there is nothing to repeat nothing changes.
LEMMA NothingRepeated ==
  ASSUME NEW n, NEW P, NEW old, old = <<>>
  PROVE  Repeated(n, P, old) = P
<1> DEFINE G == {P}
           none == {}
           s == Reverse(old)
<1>1. s \in Seq(none)
  <2>1. old \in Seq(none)
    OBVIOUS
  <2> HIDE DEF none
  <2> QED  BY <2>1, BackwardsIsList
<1>2. \A Q \in G, b \in none : RepeatOp(n, Q, b) \in G
  OBVIOUS
<1>3. P \in G
  OBVIOUS
<1> HIDE DEF G, none, s
<1>4. Repeats!Fold(n, P, s) \in G
  BY <1>1, <1>2, <1>3, Repeats!FoldStays
<1> QED  BY <1>4, RepeatedFolds DEF G, s

\* The selection is its first look and, from what that leaves, its second.
LEMMA SelectedFolds ==
  ASSUME NEW n, NEW p, NEW S
  PROVE  LET zero == 0
             fit == TriesTx!Fold(<<n, S>>, [p |-> p, list |-> <<>>], Timeline)
             next == [p |-> fit.p, list |-> <<>>, seen |-> {}]
         IN  Selected(n, p, S) = TriesInputs!Fold(zero, next, fit.list)
<1> DEFINE zero == 0
           fit == TriesTx!Fold(<<n, S>>, [p |-> p, list |-> <<>>], Timeline)
           next == [p |-> fit.p, list |-> <<>>, seen |-> {}]
           last == TriesInputs!Fold(zero, next, fit.list)
<1>1. Selected(n, p, S) = last
  <2>1. FoldLeft(LAMBDA s, t : IF t \in S THEN TryTx(n, s, t) ELSE s,
                 [p |-> p, list |-> <<>>], Timeline) = fit
    BY DEF TryTxOp, TriesTx!Fold, FoldLeft, MapThenFoldSet, Max, TriesTx!LastOf
  <2>2. FoldLeft(TryInputs, next, fit.list) = last
    <3> HIDE DEF next, fit
    <3> QED  BY DEF TryInputsOp, TriesInputs!Fold, FoldLeft, MapThenFoldSet, Max, TriesInputs!LastOf
  <2> HIDE DEF fit, last
  <2> QED  BY <2>1, <2>2 DEF Selected
<1> QED  BY <1>1

\* What the block maker finds not to fit is cancelled.
LEMMA SelectedTakes ==
  ASSUME NEW n, NEW p \in PoolState, NEW S, NEW C
  PROVE  Selected(n, p, S).p \in Less(p, C)
<1> DEFINE G == [p : Less(p, C), list : Seq(Held)]
           H == [p : Less(p, C), list : Seq(Held), seen : SUBSET (Tx \X Nat)]
           c == <<n, S>>
           zero == 0
           base == [p |-> p, list |-> <<>>]
           fit == TriesTx!Fold(c, base, Timeline)
           next == [p |-> fit.p, list |-> <<>>, seen |-> {}]
           last == TriesInputs!Fold(zero, next, fit.list)
<1>1. Selected(n, p, S) = last
  BY SelectedFolds
<1>2. Timeline \in Seq(Held) /\ Held \subseteq Tx /\ <<>> \in Seq(Held)
  <2>1. Len(Timeline) \in Nat /\ Timeline \in [1..Len(Timeline) -> Held]
    BY Pending, LenProperties DEF Held, Members
  <2> QED  BY <2>1, HeldTypes
<1>3. ASSUME NEW q \in Less(p, C), NEW t \in Held  PROVE  CancelAnyway(q, t) \in Less(p, C)
  <2>1. q \in PoolState
    BY DEF Less
  <2> QED  BY <2>1, CancelAnywayTakes, LessIsOrder
<1>4. ASSUME NEW s \in G, NEW t \in Held  PROVE  TryTxOp(c, s, t) \in G
  <2>1. Append(s.list, t) \in Seq(Held) /\ CancelAnyway(s.p, t) \in Less(p, C)
    BY <1>3
  <2>2. TryTx(n, s, t) \in G
    BY <2>1 DEF TryTx
  <2> QED  BY <2>2 DEF TryTxOp
<1>5. base \in G
  BY <1>2, LessIsOrder
<1>6. ASSUME NEW s \in H, NEW t \in Held  PROVE  TryInputsOp(zero, s, t) \in H
  <2> DEFINE fresh == Unseen(s.seen, t)
             marked == s.seen \cup {Ins[t][i] : i \in fresh}
  <2>1. Append(s.list, t) \in Seq(Held) /\ CancelAnyway(s.p, t) \in Less(p, C)
    BY <1>3
  <2>2. marked \in SUBSET (Tx \X Nat)
    <3>1. \A i \in fresh : Ins[t][i] \in Tx \X Nat
      BY <1>2, TxTypes, ElementOfSeq DEF Unseen
    <3> HIDE DEF fresh
    <3> QED  BY <3>1
  <2> HIDE DEF marked
  <2>3. /\ [s EXCEPT !.list = Append(@, t), !.seen = marked] \in H
        /\ [s EXCEPT !.p = CancelAnyway(@, t), !.seen = marked] \in H
    BY <2>1, <2>2
  <2>4. TryInputs(s, t) \in {[s EXCEPT !.list = Append(@, t), !.seen = marked],
                             [s EXCEPT !.p = CancelAnyway(@, t), !.seen = marked]}
    BY DEF TryInputs, marked
  <2> QED  BY <2>3, <2>4 DEF TryInputsOp
<1>7. fit \in G
  <2> HIDE DEF G, c, base
  <2> QED  BY <1>2, <1>4, <1>5, TriesTx!FoldStays
<1>8. next \in H /\ fit.list \in Seq(Held)
  <2> HIDE DEF fit
  <2> QED  BY <1>2, <1>7
<1>9. last \in H
  <2> DEFINE list == fit.list
  <2>1. list \in Seq(Held)
    BY <1>8
  <2>2. TriesInputs!Fold(zero, next, list) \in H
    <3> HIDE DEF H, zero, next, list
    <3> QED  BY <1>6, <1>8, <2>1, TriesInputs!FoldStays
  <2> QED  BY <2>2
<1> HIDE DEF last
<1> QED  BY <1>1, <1>9

\* The transactions of a dropped block go back to the pool, or leave a mark.
LEMMA BackIs ==
  ASSUME NEW p \in PoolState, NEW b \in Block \ {Genesis}
  PROVE  LET q == BackFromBlock(p, b)
         IN  /\ q \in PoolState /\ p.torn \subseteq q.torn
             /\ p.pool \subseteq q.pool /\ q.pool \subseteq p.pool \cup Signed(b)
             /\ \A t \in TxsOf(b) \cap SQL : t \in q.pool \/ Ref[t] \in q.torn
<1> DEFINE s == Txs[b]
           G(i) == {q \in PoolState :
                      /\ p.torn \subseteq q.torn
                      /\ p.pool \subseteq q.pool /\ q.pool \subseteq p.pool \cup Signed(b)
                      /\ \A j \in 1..i : s[j] \in SQL => s[j] \in q.pool \/ Ref[s[j]] \in q.torn}
           F == [i \in 0..Len(s) |-> G(i)]
<1>1. s \in Seq(Tx) /\ Len(s) \in Nat /\ \A i \in 1..Len(s) : s[i] \in Tx
  BY TxTypes
<1>2. \A t \in TxsOf(b) : \E i \in 1..Len(s) : t = s[i]
  BY TxTypes DEF TxsOf
<1>3. \A i \in 1..Len(s) : s[i] \in SQL => s[i] \in Signed(b)
  BY TxsOfBlocks, TxTypes DEF TxsOf
<1>4. Signed(b) \subseteq Held
  BY TxsOfBlocks
<1> HIDE DEF s
<1>5. /\ \A i \in 0..Len(s) : F[i] = G(i)
      /\ \A i \in 1..Len(s) : i - 1 \in 0..Len(s) /\ i \in 0..Len(s)
      /\ 0 \in 0..Len(s) /\ Len(s) \in 0..Len(s)
  BY <1>1
<1> HIDE DEF F
<1>6. p \in F[0]
  BY <1>5
<1>7. ASSUME NEW i \in 1..Len(s), NEW v \in F[i - 1]  PROVE  BackOp(b, v, s[i]) \in F[i]
  <2> DEFINE u == BackOp(b, v, s[i])
  <2>1. v \in G(i - 1) /\ v \in PoolState
    BY <1>5
  <2>2. \A j \in 1..i : j \in 1..(i - 1) \/ j = i
    BY <1>1
  <2>3. /\ u \in PoolState /\ v.torn \subseteq u.torn /\ v.pool \subseteq u.pool
        /\ u.pool \subseteq v.pool \cup Signed(b)
        /\ s[i] \in SQL => s[i] \in u.pool \/ Ref[s[i]] \in u.torn
    <3>1. CASE s[i] \notin Signed(b)
      BY <1>3, <2>1, <3>1 DEF BackOp
    <3>2. CASE s[i] \in Signed(b) /\ Conflicts(v, s[i]) # {}
      <4>1. u = Spoil(v, s[i])
        BY <3>2 DEF BackOp, Kept
      <4> HIDE DEF u
      <4> QED  BY <1>1, <2>1, <4>1, SpoilIsAlike DEF Alike
    <3>3. CASE s[i] \in Signed(b) /\ Conflicts(v, s[i]) = {}
      <4>1. u = Put(v, s[i])
        BY <3>3 DEF BackOp, Kept
      <4>2. s[i] \in Held
        BY <1>4, <3>3
      <4> HIDE DEF u
      <4> QED  BY <2>1, <3>3, <4>1, <4>2 DEF PoolState, Put
    <3> QED  BY <3>1, <3>2, <3>3
  <2> HIDE DEF u
  <2>4. u \in G(i)
    BY <2>1, <2>2, <2>3
  <2> QED  BY <1>5, <2>4 DEF u
<1> HIDE DEF G
<1>8. Backs!Fold(b, p, s) \in F[Len(s)]
  BY <1>1, <1>6, <1>7, Backs!FoldReaches
<1>9. BackFromBlock(p, b) \in G(Len(s))
  BY <1>5, <1>8, BackFolds DEF s
<1> HIDE DEF F
<1> QED  BY <1>2, <1>9 DEF G

(***************************************************************************)
(* The inductive invariant.                                                *)
(***************************************************************************)

\* As long as a row is not marked, the references are right, a row that has lost its
\* reference is marked, and nothing approved is pending or in the map.
Tracked(n, p, dropped) ==
  n.refs \in RefsRight(n.top) /\ Forgotten(n) \subseteq p.torn /\ Clean(n, p, dropped)

\* The row of a query that has been executed is marked when the map has something
\* about it that the table has not.
SessionIsFree(p, t, running) ==
  running /\ p.touched /\ Ref[t] \notin p.torn => \A x \in Stale(p) : Ref[x] # Ref[t]

\* The pool p, with the session of the proxy at the transaction t.
PoolGood(n, p, t, running, dropped) ==
  /\ p \in PoolState
  /\ t \in (Held \cap SQL) \cup {NoTx} /\ running \in BOOLEAN /\ (running => t # NoTx)
  /\ p.touched \/ Fresh(p)
  /\ Based(p, TxsOn(n.top))
  /\ p.torn # Row => Tracked(n, p, dropped)
  /\ SessionIsFree(p, t, running)
  /\ ~dropped => NoRivals(p)

\* A block was dropped or a transaction was put too late: the pool can have rivals
\* and payments that are approved.
Mixed == drops > 0 \/ crossed

PoolInv == LedgerInv /\ PoolGood(Derived, Current, asked, ran, Mixed)

\* What a step makes of the pool is good when the record that it makes is.
LEMMA BecomesIsGood ==
  ASSUME NEW q, Becomes(q), LedgerInv', PoolGood(Derived', q, asked', ran', Mixed')
  PROVE  PoolInv'
<1> DEFINE p == [pool |-> pool', cache |-> cache', rows |-> rows', torn |-> torn',
                 touched |-> touched', ok |-> TRUE]
           n == Derived'
           t == asked'
           running == ran'
           dropped == Mixed'
<1>1. Current' = p
  BY DEF Current
<1>2. PoolGood(n, q, t, running, dropped)
  OBVIOUS
<1>3. /\ p.pool = q.pool /\ p.cache = q.cache /\ p.rows = q.rows /\ p.torn = q.torn
      /\ p.touched = q.touched
  BY DEF Becomes
<1>4. p \in PoolState
  BY <1>2, <1>3 DEF PoolGood, PoolState
<1> HIDE DEF p, n, t, running, dropped
<1>5. Cached(p) = Cached(q) /\ Stale(p) = Stale(q) /\ (Fresh(p) <=> Fresh(q)) /\ Inside(p) = Inside(q)
  BY <1>3 DEF Cached, Stale, Fresh, Inside
<1>6. PoolGood(n, p, t, running, dropped)
  <2>1. Based(p, TxsOn(n.top))
    BY <1>2, <1>3 DEF PoolGood, Based
  <2>2. p.torn # Row => Tracked(n, p, dropped)
    BY <1>2, <1>3, <1>5 DEF PoolGood, Tracked, Clean
  <2>3. SessionIsFree(p, t, running)
    BY <1>2, <1>3, <1>5 DEF PoolGood, SessionIsFree
  <2>4. ~dropped => NoRivals(p)
    BY <1>2, <1>3, AlikeHaveNoRivals DEF PoolGood
  <2> QED  BY <1>2, <1>3, <1>4, <1>5, <2>1, <2>2, <2>3, <2>4 DEF PoolGood
<1>7. PoolGood(Derived', Current', asked', ran', Mixed')
  BY <1>1, <1>6 DEF n, t, running, dropped
<1> QED  BY <1>7 DEF PoolInv

\* A step that leaves the blocks and the indexes alone.
LEMMA PoolChanges ==
  ASSUME PoolInv, UNCHANGED <<vars, crossed>>, NEW q, Becomes(q),
         PoolGood(Derived, q, asked', ran', Mixed)
  PROVE  PoolInv'
<1>1. LedgerInv'
  BY DEF PoolInv, vars, LedgerInv, TypeOK, StoredTree, IndexIsComplete
<1>2. Derived' = Derived /\ Mixed' = Mixed
  BY DEF vars, Derived, Mixed
<1>3. PoolGood(Derived', q, asked', ran', Mixed')
  BY <1>2
<1> QED  BY <1>1, <1>3, BecomesIsGood

\* What the state is made of.
LEMMA PoolFacts ==
  ASSUME PoolInv
  PROVE  /\ LedgerInv /\ PoolGood(Derived, Current, asked, ran, Mixed)
         /\ Current \in PoolState /\ Mixed \in BOOLEAN
         /\ Current.pool = pool /\ Current.cache = cache /\ Current.rows = rows
         /\ Current.torn = torn /\ Current.touched = touched /\ Current.ok = TRUE
         /\ Derived.top = top /\ Derived.refs = refs
         /\ Derived.links = links /\ Derived.spent = spent
         /\ torn # Row => Knows(Derived, stored, Mixed)
<1>1. LedgerInv /\ PoolGood(Derived, Current, asked, ran, Mixed)
  BY DEF PoolInv
<1>2. /\ Current.pool = pool /\ Current.cache = cache /\ Current.rows = rows
      /\ Current.torn = torn /\ Current.touched = touched /\ Current.ok = TRUE
      /\ Derived.top = top /\ Derived.refs = refs
      /\ Derived.links = links /\ Derived.spent = spent
  BY DEF Current, Derived
<1>3. /\ top \in Block /\ stored \in SUBSET Block /\ Branch(top) \subseteq stored
      /\ LinksOf(links, stored) /\ drops \in Nat
      /\ drops = 0 => SpentIn(spent, stored)
  BY <1>1, InvTypes, Bounds DEF LedgerInv, IndexIsComplete, LinksOf, SpentIn, TypeOK
<1>4. torn # Row => Knows(Derived, stored, Mixed)
  <2>1. torn # Row => refs \in RefsRight(top)
    BY <1>1, <1>2 DEF PoolGood, Tracked
  <2>2. ~Mixed => drops = 0
    BY <1>3 DEF Mixed
  <2> QED  BY <1>2, <1>3, <2>1, <2>2 DEF Knows
<1>5. Mixed \in BOOLEAN
  BY DEF Mixed
<1> QED  BY <1>1, <1>2, <1>4, <1>5 DEF PoolGood

\* Rows and their marks have changed.
LEMMA AlikeIsGood ==
  ASSUME NEW n, NEW p, NEW t, NEW running, NEW dropped,
         PoolGood(n, p, t, running, dropped), NEW q \in Alike(p)
  PROVE  PoolGood(n, q, t, running, dropped)
<1>1. /\ q \in PoolState /\ q.pool = p.pool /\ q.cache = p.cache /\ q.touched = p.touched
      /\ p.torn \subseteq q.torn /\ q.torn \subseteq Row
  BY DEF Alike, PoolState
<1>2. Cached(q) = Cached(p) /\ Inside(q) = Inside(p) /\ Stale(q) = Stale(p) /\ (Fresh(p) => Fresh(q))
  BY <1>1 DEF Inside, Cached, Stale, Fresh
<1>3. Based(q, TxsOn(n.top))
  BY <1>1 DEF PoolGood, Based
<1>4. q.torn # Row => Tracked(n, q, dropped)
  BY <1>1, <1>2 DEF PoolGood, Tracked, Clean, Excused
<1>5. SessionIsFree(q, t, running)
  BY <1>1, <1>2 DEF PoolGood, SessionIsFree
<1>6. ~dropped => NoRivals(q)
  BY <1>1, AlikeHaveNoRivals DEF PoolGood
<1> QED  BY <1>1, <1>2, <1>3, <1>4, <1>5, <1>6 DEF PoolGood

\* The map has been read again where there was none.
LEMMA LoadedIsGood ==
  ASSUME NEW n, NEW p, NEW t, NEW running, NEW dropped, PoolGood(n, p, t, running, dropped)
  PROVE  PoolGood(n, Loaded(p), t, running, dropped)
<1> DEFINE q == Loaded(p)
<1>1. /\ q \in PoolState /\ q.pool = p.pool /\ q.torn = p.torn
      /\ Cached(q) \subseteq Inside(p) /\ Stale(q) \subseteq Stale(p)
      /\ q.touched => p.touched
      /\ q.touched \/ Fresh(q)
  BY LoadedIs DEF PoolGood
<1> HIDE DEF q
<1>2. Inside(q) \subseteq Inside(p)
  BY <1>1 DEF Inside
<1>3. Based(q, TxsOn(n.top))
  BY <1>1 DEF PoolGood, Based
<1>4. q.torn # Row => Tracked(n, q, dropped)
  BY <1>1, <1>2 DEF PoolGood, Tracked, Clean
<1>5. SessionIsFree(q, t, running)
  BY <1>1 DEF PoolGood, SessionIsFree
<1>6. ~dropped => NoRivals(q)
  <2>1. Known(q) = Known(p)
    BY DEF q, Loaded, Renewed, Filled, Known, PoolGood, PoolState
  <2>2. NoRivals(p) => p.pool \subseteq Known(p)
    BY DEF NoRivals
  <2> QED  BY <1>1, <2>1, <2>2, FewerHaveNoRivals DEF PoolGood
<1>7. PoolGood(n, q, t, running, dropped)
  BY <1>1, <1>3, <1>4, <1>5, <1>6 DEF PoolGood
<1> QED  BY <1>7 DEF q

\* Transactions were cancelled.
LEMMA LessIsGood ==
  ASSUME NEW n, NEW p, NEW t, NEW running, NEW dropped,
         PoolGood(n, p, t, running, dropped), NEW q \in Less(p, TxsOn(n.top))
  PROVE  PoolGood(n, q, t, running, dropped)
<1>1. /\ q \in PoolState /\ q.pool \subseteq p.pool /\ Cached(q) \subseteq Cached(p)
      /\ Stale(q) \subseteq Stale(p) /\ p.torn \subseteq q.torn /\ q.torn \subseteq Row
      /\ q.touched = p.touched /\ (Fresh(p) => Fresh(q)) /\ Based(q, TxsOn(n.top))
  BY DEF Less, PoolGood, PoolState
<1>2. Inside(q) \subseteq Inside(p)
  BY <1>1 DEF Inside
<1>3. q.torn # Row => Tracked(n, q, dropped)
  BY <1>1, <1>2 DEF PoolGood, Tracked, Clean, Excused
<1>4. SessionIsFree(q, t, running)
  BY <1>1 DEF PoolGood, SessionIsFree
<1>5. ~dropped => NoRivals(q)
  BY DEF PoolGood, Less
<1> QED  BY <1>1, <1>3, <1>4, <1>5 DEF PoolGood

\* Transactions have entered the pool.
LEMMA GrowsIsGood ==
  ASSUME NEW n, NEW p, NEW t, NEW running, NEW dropped,
         PoolGood(n, p, t, running, dropped), NEW q \in Grows(n, p, dropped)
  PROVE  PoolGood(n, q, t, running, dropped)
<1>1. /\ q \in PoolState /\ p.torn \subseteq q.torn /\ q.torn \subseteq Row
      /\ q.touched = p.touched /\ Stale(q) \subseteq Stale(p) /\ (Fresh(p) => Fresh(q))
      /\ q.torn # Row => Based(q, TxsOn(n.top)) /\ (Clean(n, p, dropped) => Clean(n, q, dropped))
  BY DEF Grows, PoolGood, PoolState
<1>2. q.torn = Row => Based(q, TxsOn(n.top))
  BY DEF Based, DataRow
<1>3. q.torn # Row => Tracked(n, q, dropped)
  BY <1>1 DEF PoolGood, Tracked
<1>4. SessionIsFree(q, t, running)
  BY <1>1 DEF PoolGood, SessionIsFree
<1>5. ~dropped => NoRivals(q)
  BY DEF PoolGood, Grows
<1> QED  BY <1>1, <1>2, <1>3, <1>4, <1>5 DEF PoolGood

\* Every row is marked: nothing is left to show but the types and the map.
LEMMA TornIsGood ==
  ASSUME NEW n, NEW q \in PoolState, q.torn = Row, q.touched \/ Fresh(q),
         NEW t \in (Held \cap SQL) \cup {NoTx}, NEW running \in BOOLEAN, running => t # NoTx,
         NEW dropped, ~dropped => NoRivals(q)
  PROVE  PoolGood(n, q, t, running, dropped)
<1>1. Based(q, TxsOn(n.top))
  BY DEF Based, DataRow
<1>2. SessionIsFree(q, t, running)
  BY HeldTypes DEF SessionIsFree
<1> QED  BY <1>1, <1>2 DEF PoolGood

\* The session of the proxy is over.
LEMMA SessionEnds ==
  ASSUME NEW n, NEW p, NEW t, NEW running, NEW dropped,
         PoolGood(n, p, t, running, dropped), NEW s, NEW still, s = NoTx, still = FALSE
  PROVE  PoolGood(n, p, s, still, dropped)
BY DEF PoolGood, SessionIsFree

\* What a command makes of the tables; the map of the daemon stays.
LEMMA CommandIs ==
  ASSUME NEW p \in PoolState, Fresh(p), NEW c \in PoolState
  PROVE  LET q == [c EXCEPT !.cache = p.cache,
                            !.touched = p.touched \/ (p.cache # NoCache /\ c.pool # p.pool)]
         IN  /\ q \in PoolState /\ q.pool = c.pool /\ q.torn = c.torn
             /\ q.touched \/ Fresh(q)
             /\ Inside(q) \subseteq c.pool \cup p.pool /\ Stale(q) \subseteq p.pool \ c.pool
<1> DEFINE v == p.touched \/ (p.cache # NoCache /\ c.pool # p.pool)
           q == [c EXCEPT !.cache = p.cache, !.touched = v]
<1>1. v \in BOOLEAN /\ (v \/ p.cache = NoCache \/ c.pool = p.pool)
  BY DEF PoolState
<1> HIDE DEF v
<1>2. /\ q \in PoolState /\ q.pool = c.pool /\ q.torn = c.torn /\ q.cache = p.cache
      /\ (q.touched <=> v)
  BY <1>1 DEF PoolState
<1> HIDE DEF q
<1>3. q.touched \/ Fresh(q)
  BY <1>1, <1>2 DEF Fresh
<1>4. Inside(q) \subseteq c.pool \cup p.pool /\ Stale(q) \subseteq p.pool \ c.pool
  BY <1>2 DEF Fresh, Inside, Cached, Stale
<1> QED  BY <1>2, <1>3, <1>4 DEF q, v

(***************************************************************************)
(* The steps that leave the blocks alone.                                  *)
(***************************************************************************)

\* A transaction comes: Receive and Resubmit.
LEMMA AddKeeps ==
  ASSUME PoolInv, NEW t \in Held, NEW p \in Added(Derived, Loaded(Current), t), Becomes(p),
         UNCHANGED <<vars, asked, ran, crossed>>
  PROVE  PoolInv'
<1> DEFINE n == Derived
           l == Loaded(Current)
           dropped == Mixed
<1>1. /\ PoolGood(n, l, asked, ran, dropped) /\ l \in PoolState /\ (l.touched \/ Fresh(l))
      /\ dropped \in BOOLEAN /\ l.torn = torn /\ (torn # Row => Knows(n, stored, dropped))
  BY PoolFacts, LoadedIsGood, LoadedIs DEF PoolGood
<1> HIDE DEF n, l, dropped
<1>2. p \in Grows(n, l, dropped)
  BY <1>1, AddedGrows DEF n, l
<1>3. PoolGood(n, p, asked, ran, dropped)
  BY <1>1, <1>2, GrowsIsGood
<1> QED  BY <1>3, PoolChanges DEF n, dropped

\* The request of a client of the proxy.
LEMMA ProxyAskKeeps ==
  ASSUME PoolInv, NEW t \in Held, ProxyAsk(t)  PROVE  PoolInv'
<1> DEFINE n == Derived
           l == Loaded(Current)
           dropped == Mixed
<1>1. /\ PoolGood(n, l, asked, ran, dropped) /\ Becomes(l) /\ UNCHANGED <<vars, crossed>>
      /\ asked' = t /\ ran' = ran /\ asked = NoTx
  BY PoolFacts, LoadedIsGood DEF ProxyAsk
<1>2. t \in Held \cap SQL
  BY Statements DEF ProxyAsk
<1> HIDE DEF n, l, dropped
<1>3. ran = FALSE
  BY <1>1 DEF PoolGood
<1>4. PoolGood(n, l, asked', ran', dropped)
  BY <1>1, <1>2, <1>3 DEF PoolGood, SessionIsFree
<1> QED  BY <1>1, <1>4, PoolChanges DEF n, dropped

\* The server executes the query.
LEMMA ProxyRunKeeps ==
  ASSUME PoolInv, ProxyRun  PROVE  PoolInv'
<1> DEFINE n == Derived
           p == Current
           u == IF TooLate(asked) THEN Spoil(Current, asked) ELSE Current
           q == Run(u, asked)
           dropped == Mixed
<1>1. /\ PoolGood(n, p, asked, ran, dropped) /\ Becomes(q) /\ UNCHANGED <<vars, crossed>> /\ p \in PoolState
      /\ asked' = asked /\ ran' = TRUE /\ asked # NoTx /\ p.touched = touched
  BY PoolFacts DEF ProxyRun
<1>2. asked \in Held \cap SQL /\ asked \in Tx /\ Ref[asked] \in DataRow
  BY <1>1, HeldTypes DEF PoolGood
<1>3. u \in Alike(p) /\ u \in PoolState /\ u.touched = touched
  <2>1. Spoil(p, asked) \in Alike(p) /\ p \in Alike(p)
    BY <1>1, <1>2, SpoilIsAlike DEF Alike
  <2> QED  BY <1>1, <2>1 DEF Alike
<1> HIDE DEF u
<1>4. q \in Alike(u) /\ (OutOfTurn(u, asked) => Ref[asked] \in q.torn)
  BY <1>2, <1>3, RunIsAlike
<1> HIDE DEF n, p, q, dropped
<1>5. q \in Alike(p) /\ q.touched = touched
  BY <1>3, <1>4 DEF Alike
<1>6. q.touched => Ref[asked] \in q.torn
  BY <1>3, <1>4, <1>5 DEF OutOfTurn
<1>7. PoolGood(n, q, asked, ran, dropped)
  BY <1>1, <1>5, AlikeIsGood
<1>8. PoolGood(n, q, asked', ran', dropped)
  BY <1>1, <1>6, <1>7 DEF PoolGood, SessionIsFree
<1> QED  BY <1>1, <1>8, PoolChanges DEF n, dropped

\* It answers with an error.
LEMMA ProxyFailsKeeps ==
  ASSUME PoolInv, ProxyFails  PROVE  PoolInv'
<1>1. /\ Becomes(Current) /\ UNCHANGED <<vars, crossed>> /\ asked' = NoTx /\ ran' = FALSE
      /\ PoolGood(Derived, Current, asked, ran, Mixed)
  <2>1. ran \in BOOLEAN
    BY PoolFacts DEF PoolGood
  <2> QED  BY <2>1, PoolFacts DEF ProxyFails, Becomes
<1>2. PoolGood(Derived, Current, asked', ran', Mixed)
  BY <1>1, SessionEnds
<1> QED  BY <1>1, <1>2, PoolChanges

\* The answer: the transaction goes to the pool, or it is refused.
LEMMA ProxyAnswerKeeps ==
  ASSUME PoolInv, ProxyAnswer  PROVE  PoolInv'
<1> DEFINE n == Derived
           p == Loaded(Current)
           t == asked
           dropped == Mixed
           kinds == {"update"}
           no == FALSE
<1>1. /\ PoolGood(n, p, t, ran, dropped) /\ UNCHANGED <<vars, crossed>> /\ p \in PoolState
      /\ ran /\ asked' = NoTx /\ ran' = no
      /\ dropped \in BOOLEAN /\ p.torn = torn /\ (torn # Row => Knows(n, stored, dropped))
  BY PoolFacts, LoadedIsGood, LoadedIs DEF ProxyAnswer
<1>2. \/ MayPass(n, p, t, kinds) /\ Becomes(Kept(p, t))
      \/ Becomes(Spoil(p, t))
  BY DEF ProxyAnswer
<1>3. t \in Held /\ t \in Tx /\ (p.touched \/ Fresh(p)) /\ SessionIsFree(p, t, ran)
  BY <1>1, HeldTypes DEF PoolGood
<1> HIDE DEF n, p, t, dropped, kinds, no
<1>4. ASSUME NEW q, Becomes(q), PoolGood(n, q, t, ran, dropped)  PROVE  PoolInv'
  <2>1. PoolGood(n, q, asked', ran', dropped)
    BY <1>1, <1>4, SessionEnds DEF no
  <2> QED  BY <1>1, <1>4, <2>1, PoolChanges DEF n, dropped
<1>5. CASE MayPass(n, p, t, kinds) /\ Becomes(Kept(p, t))
  <2>1. p \in Alike(p)
    BY <1>1 DEF Alike
  <2>2. t \in SQL /\ Ref[t] \notin p.torn => \A x \in Stale(p) : Ref[x] # Ref[t]
    <3>1. Fresh(p) => Stale(p) = {}
      BY DEF Fresh, Stale, Cached
    <3> QED  BY <1>1, <1>3, <3>1 DEF SessionIsFree
  <2>3. Kept(p, t) \in Grows(n, p, dropped)
    BY <1>1, <1>3, <1>5, <2>1, <2>2, KeptGrows
  <2>4. PoolGood(n, Kept(p, t), t, ran, dropped)
    BY <1>1, <2>3, GrowsIsGood
  <2> QED  BY <1>4, <1>5, <2>4
<1>6. CASE Becomes(Spoil(p, t))
  <2>1. PoolGood(n, Spoil(p, t), t, ran, dropped)
    BY <1>1, <1>3, SpoilIsAlike, AlikeIsGood
  <2> QED  BY <1>4, <1>6, <2>1
<1> QED  BY <1>2, <1>5, <1>6

(***************************************************************************)
(* The additions that others overtake.                                     *)
(***************************************************************************)

\* What a handler knows of the pool changes nothing.
LEMMA LoadKeeps ==
  ASSUME PoolInv, Becomes(Loaded(Current)), UNCHANGED <<vars, asked, ran, crossed>>
  PROVE  PoolInv'
<1> DEFINE p == Loaded(Current)
           n == Derived
           mixed == Mixed
<1>1. PoolGood(n, p, asked, ran, mixed)
  BY PoolFacts, LoadedIsGood
<1> HIDE DEF n, p, mixed
<1>2. PoolGood(n, p, asked', ran', mixed)
  BY <1>1
<1> QED  BY <1>2, PoolChanges DEF n, p, mixed

\* The statement is executed, or it fails.
LEMMA AddRunKeeps ==
  ASSUME PoolInv, NEW t \in Held, AddRun(t)  PROVE  PoolInv'
<1> DEFINE p == Current
           n == Derived
           mixed == Mixed
           q == Run(Spoil(p, t), t)
<1>1. /\ PoolGood(n, p, asked, ran, mixed) /\ p \in PoolState /\ t \in Tx
      /\ Becomes(q) /\ UNCHANGED <<vars, asked, ran, crossed>>
  BY PoolFacts, HeldTypes DEF AddRun
<1>2. q \in Alike(p)
  <2>1. Spoil(p, t) \in Alike(p)
    BY <1>1, SpoilIsAlike
  <2>2. Spoil(p, t) \in PoolState
    BY <2>1 DEF Alike
  <2>3. q \in Alike(Spoil(p, t))
    BY <1>1, <2>2, RunIsAlike
  <2> QED  BY <2>1, <2>3 DEF Alike
<1> HIDE DEF n, p, q, mixed
<1>3. PoolGood(n, q, asked', ran', mixed)
  BY <1>1, <1>2, AlikeIsGood
<1> QED  BY <1>1, <1>3, PoolChanges DEF n, mixed

LEMMA AddFailsKeeps ==
  ASSUME PoolInv, NEW t, AddFails(t)  PROVE  PoolInv'
<1>1. Becomes(Current) /\ UNCHANGED <<vars, asked, ran, crossed>>
  BY PoolFacts DEF AddFails, Becomes
<1>2. PoolGood(Derived, Current, asked', ran', Mixed)
  BY <1>1, PoolFacts
<1> QED  BY <1>1, <1>2, PoolChanges

\* The session of the proxy goes on as an addition.
LEMMA ProxyVerifyKeeps ==
  ASSUME PoolInv, ProxyVerify  PROVE  PoolInv'
<1> DEFINE p == Loaded(Current)
           n == Derived
           mixed == Mixed
           q == Spoil(p, asked)
<1>1. /\ PoolGood(n, p, asked, ran, mixed) /\ p \in PoolState
      /\ Becomes(q) /\ ran /\ asked' = NoTx /\ ran' = FALSE /\ UNCHANGED <<vars, crossed>>
  BY PoolFacts, LoadedIsGood, LoadedIs DEF ProxyVerify
<1>2. asked \in Tx
  BY <1>1, HeldTypes DEF PoolGood
<1>3. q \in Alike(p)
  BY <1>1, <1>2, SpoilIsAlike
<1> HIDE DEF n, p, q, mixed
<1>4. PoolGood(n, q, asked, ran, mixed)
  BY <1>1, <1>3, AlikeIsGood
<1>5. PoolGood(n, q, asked', ran', mixed)
  BY <1>1, <1>4, SessionEnds
<1> QED  BY <1>1, <1>5, PoolChanges DEF n, mixed

\* The put.  When what was verified still holds, it is the put of an addition that
\* nothing has overtaken; when it does not, that is written down.
LEMMA AddPutKeeps ==
  ASSUME PoolInv, NEW t \in Held, AddPut(t)  PROVE  PoolInv'
<1> DEFINE p == Current
           n == Derived
           mixed == Mixed
           u == Spoil(p, t)
           q == Put(u, t)
           none == {}
<1>1. /\ PoolGood(n, p, asked, ran, mixed) /\ p \in PoolState /\ t \in Tx
      /\ Becomes(q) /\ UNCHANGED <<vars, asked, ran>> /\ mixed \in BOOLEAN
      /\ p.torn = torn /\ (torn # Row => Knows(n, stored, mixed))
      /\ n.top = top /\ n.refs = refs /\ LedgerInv
  BY PoolFacts, HeldTypes DEF AddPut
<1>2. u \in Alike(p) /\ u \in PoolState /\ (t \in SQL => Ref[t] \in u.torn)
  <2>1. u \in Alike(p) /\ (t \in SQL => Ref[t] \in u.torn)
    BY <1>1, SpoilIsAlike
  <2> QED  BY <2>1 DEF Alike
<1>3. \/ Mixed' = mixed /\ MayPass(n, p, t, none) /\ Conflicts(p, t) = {}
      \/ Mixed' = TRUE
  BY DEF AddPut, TooLateToPut, Mixed, vars
<1>4. LedgerInv' /\ Derived' = n
  BY <1>1 DEF vars, Derived, LedgerInv, TypeOK, StoredTree, IndexIsComplete
<1> HIDE DEF n, p, mixed, u, q, none
<1>5. ASSUME MayPass(n, p, t, none), Conflicts(p, t) = {}
      PROVE  PoolGood(n, q, asked, ran, mixed)
  <2>1. Kept(u, t) \in Grows(n, p, mixed)
    BY <1>1, <1>2, <1>5, KeptGrows
  <2>2. Conflicts(u, t) = {}
    <3>1. Known(u) = Known(p)
      BY <1>2, AlikeHaveNoRivals DEF Alike
    <3> QED  BY <1>5, <3>1 DEF Conflicts
  <2>3. q = Kept(u, t)
    BY <2>2 DEF Kept, q
  <2> QED  BY <1>1, <2>1, <2>3, GrowsIsGood
<1>6. PoolGood(n, q, asked, ran, TRUE)
  <2>1. /\ q \in PoolState /\ q.pool = p.pool \cup {t} /\ q.torn = u.torn /\ p.torn \subseteq q.torn
        /\ q.touched = p.touched
        /\ q.cache = IF p.cache = NoCache THEN p.cache ELSE p.cache \cup {t}
    BY <1>1, <1>2 DEF Alike, PoolState, Put, q
  <2>2. Inside(q) \subseteq Inside(p) \cup {t} /\ Stale(q) \subseteq Stale(p) /\ (Fresh(p) => Fresh(q))
    BY <2>1 DEF Inside, Cached, Stale, Fresh
  <2>3. Based(q, TxsOn(n.top))
    <3>1. Based(p, TxsOn(n.top))
      BY <1>1 DEF PoolGood
    <3>2. Ref[t] \in DataRow => Ref[t] \in q.torn
      BY <1>2, <2>1, HeldTypes
    <3> QED  BY <2>1, <3>1, <3>2 DEF Based
  <2>4. ASSUME q.torn # Row  PROVE  Tracked(n, q, TRUE)
    <3>1. Tracked(n, p, mixed)
      BY <1>1, <2>1, <2>4 DEF PoolGood, PoolState
    <3>2. \A x \in Inside(q) \cap TxsOn(n.top) : Excused(x, q.torn \cup Forgotten(n), TRUE)
      BY <1>2, <2>1, <2>2, <3>1 DEF Tracked, Clean, Excused
    <3> QED  BY <2>1, <3>1, <3>2 DEF Tracked, Clean
  <2>5. SessionIsFree(q, asked, ran)
    BY <1>1, <2>1, <2>2 DEF PoolGood, SessionIsFree
  <2> QED  BY <1>1, <2>1, <2>2, <2>3, <2>4, <2>5 DEF PoolGood
<1>7. PoolGood(Derived', q, asked', ran', Mixed')
  BY <1>1, <1>3, <1>4, <1>5, <1>6
<1> QED  BY <1>1, <1>4, <1>7, BecomesIsGood

\* The block maker selects transactions.
LEMMA PrepareBlockKeeps ==
  ASSUME PoolInv, PrepareBlock  PROVE  PoolInv'
<1> DEFINE n == Derived
           p == Loaded(Current)
           dropped == Mixed
<1>1. /\ PoolGood(n, p, asked, ran, dropped) /\ p \in PoolState
      /\ UNCHANGED <<vars, crossed>> /\ asked' = asked /\ ran' = ran
  BY PoolFacts, LoadedIsGood, LoadedIs DEF PrepareBlock
<1>2. PICK S : Becomes(Selected(n, p, S).p)
  BY DEF PrepareBlock
<1> DEFINE q == Selected(n, p, S).p
<1>3. q \in Less(p, TxsOn(n.top))
  BY <1>1, SelectedTakes
<1>4. Becomes(q)
  BY <1>2
<1> HIDE DEF n, p, dropped, q
<1>5. PoolGood(n, q, asked', ran', dropped)
  BY <1>1, <1>3, LessIsGood
<1> QED  BY <1>1, <1>4, <1>5, PoolChanges DEF n, dropped

\* The process ends.
LEMMA GoneIs ==
  ASSUME NEW n, NEW p, NEW t, NEW running, NEW dropped, PoolGood(n, p, t, running, dropped)
  PROVE  LET q == Gone(p)
         IN  q \in PoolState /\ q.torn = p.torn /\ Fresh(q) /\ PoolGood(n, q, t, running, dropped)
<1> DEFINE q == Gone(p)
<1>1. /\ q \in PoolState /\ q.pool = p.pool /\ q.torn = p.torn /\ q.cache = NoCache
      /\ q.touched = FALSE
  BY DEF PoolGood, PoolState, Gone
<1> HIDE DEF q
<1>2. Fresh(q) /\ Stale(q) = {} /\ Inside(q) \subseteq Inside(p)
  BY <1>1 DEF Fresh, Stale, Cached, Inside
<1>3. Based(q, TxsOn(n.top))
  BY <1>1 DEF PoolGood, Based
<1>4. q.torn # Row => Tracked(n, q, dropped)
  BY <1>1, <1>2 DEF PoolGood, Tracked, Clean
<1>5. SessionIsFree(q, t, running)
  BY <1>2 DEF SessionIsFree
<1>6. ~dropped => NoRivals(q)
  BY <1>1, <1>2, FreshHaveNoRivals DEF PoolGood
<1>7. PoolGood(n, q, t, running, dropped)
  BY <1>1, <1>2, <1>3, <1>4, <1>5, <1>6 DEF PoolGood
<1> QED  BY <1>1, <1>2, <1>7 DEF q

LEMMA RestartKeeps ==
  ASSUME PoolInv, Restart  PROVE  PoolInv'
<1> DEFINE n == Derived
           p == IF ran THEN Spoil(Current, asked) ELSE Current
           q == Gone(p)
           dropped == Mixed
<1>1. /\ PoolGood(n, Current, asked, ran, dropped) /\ UNCHANGED <<vars, crossed>>
      /\ asked' = NoTx /\ ran' = FALSE /\ Becomes(q)
  BY PoolFacts DEF Restart
<1>2. PoolGood(n, p, asked, ran, dropped)
  <2>1. ran => asked \in Held /\ asked \in Tx
    BY <1>1, HeldTypes DEF PoolGood
  <2>2. ran => Spoil(Current, asked) \in Alike(Current)
    BY <1>1, <2>1, SpoilIsAlike DEF PoolGood
  <2> QED  BY <1>1, <2>2, AlikeIsGood
<1> HIDE DEF n, p, dropped
<1>3. PoolGood(n, q, asked, ran, dropped)
  BY <1>2, GoneIs
<1> HIDE DEF q
<1>4. PoolGood(n, q, asked', ran', dropped)
  BY <1>1, <1>3, SessionEnds
<1> QED  BY <1>1, <1>4, PoolChanges DEF n, dropped

(***************************************************************************)
(* The commands.                                                           *)
(***************************************************************************)

\* A command has cancelled a transaction, or has put one into the table, beside the
\* map of the daemon.
LEMMA CommandIsGood ==
  ASSUME NEW n, NEW p, NEW t, NEW running, NEW dropped,
         PoolGood(n, p, t, running, dropped), Fresh(p),
         NEW c \in PoolState, p.torn \subseteq c.torn,
         Based(c, TxsOn(n.top)),
         c.torn # Row => \A x \in c.pool \cap TxsOn(n.top) : x \in p.pool \/ Excused(x, c.torn, dropped),
         running => \A x \in p.pool \ c.pool : Ref[x] = Ref[t] => Ref[t] \in c.torn,
         ~dropped => c.pool \subseteq p.pool \/ (p.cache = NoCache /\ NoRivals(c))
  PROVE  PoolGood(n, [c EXCEPT !.cache = p.cache,
                               !.touched = p.touched \/ (p.cache # NoCache /\ c.pool # p.pool)],
                  t, running, dropped)
<1> DEFINE q == [c EXCEPT !.cache = p.cache,
                          !.touched = p.touched \/ (p.cache # NoCache /\ c.pool # p.pool)]
<1>1. /\ q \in PoolState /\ q.pool = c.pool /\ q.torn = c.torn
      /\ q.touched \/ Fresh(q)
      /\ Inside(q) \subseteq c.pool \cup p.pool /\ Stale(q) \subseteq p.pool \ c.pool
  BY CommandIs DEF PoolGood
<1> HIDE DEF q
<1>2. q.torn # Row => p.torn # Row
  BY <1>1 DEF PoolState
<1>3. Based(q, TxsOn(n.top))
  BY <1>1 DEF Based
<1>4. ASSUME q.torn # Row  PROVE  Tracked(n, q, dropped)
  <2>1. Tracked(n, p, dropped)
    BY <1>2, <1>4 DEF PoolGood
  <2>2. ASSUME NEW x \in Inside(q) \cap TxsOn(n.top)
        PROVE  Excused(x, q.torn \cup Forgotten(n), dropped)
    <3>1. x \in p.pool => Excused(x, p.torn \cup Forgotten(n), dropped)
      BY <2>1 DEF Tracked, Clean, Inside
    <3>2. p.torn \cup Forgotten(n) \subseteq q.torn \cup Forgotten(n)
      BY <1>1
    <3>3. x \in p.pool \/ Excused(x, q.torn, dropped)
      BY <1>1, <1>4
    <3> QED  BY <3>1, <3>2, <3>3 DEF Excused
  <2> QED  BY <1>1, <2>1, <2>2 DEF Tracked, Clean
<1>5. SessionIsFree(q, t, running)
  BY <1>1 DEF SessionIsFree
<1>6. ASSUME ~dropped  PROVE  NoRivals(q)
  <2>1. q.cache = p.cache /\ NoRivals(p)
    BY <1>6 DEF PoolGood, PoolState, q
  <2>2. CASE c.pool \subseteq p.pool
    <3>1. Known(q) \subseteq Known(p) /\ q.pool \subseteq Known(q)
      BY <1>1, <2>1, <2>2 DEF Known, Fresh
    <3> QED  BY <2>1, <3>1, FewerHaveNoRivals
  <2>3. CASE p.cache = NoCache /\ NoRivals(c)
    <3>1. Known(q) = q.pool /\ q.pool \subseteq Known(c)
      BY <1>1, <2>1, <2>3 DEF Known, NoRivals
    <3> QED  BY <2>3, <3>1, FewerHaveNoRivals
  <2> QED  BY <1>6, <2>2, <2>3
<1>7. PoolGood(n, q, t, running, dropped)
  BY <1>1, <1>3, <1>4, <1>5, <1>6 DEF PoolGood
<1> QED  BY <1>7 DEF q

\* The command canceltransaction.
LEMMA OperatorCancelKeeps ==
  ASSUME PoolInv, NEW t \in Held, OperatorCancel(t)  PROVE  PoolInv'
<1> DEFINE n == Derived
           p == Current
           l == Renewed(p)
           c == Cancel(l, t)
           q == [c EXCEPT !.cache = p.cache,
                          !.touched = p.touched \/ (p.cache # NoCache /\ c.pool # p.pool)]
           dropped == Mixed
<1>1. /\ PoolGood(n, p, asked, ran, dropped) /\ p \in PoolState /\ UNCHANGED <<vars, crossed>>
      /\ asked' = asked /\ ran' = ran /\ p.pool = pool /\ ~p.touched /\ p.torn = torn
  BY PoolFacts DEF OperatorCancel
<1>2. Becomes(q)
  BY PoolFacts DEF OperatorCancel, ByCommand
<1>3. Fresh(p) /\ Based(p, TxsOn(n.top))
  BY <1>1 DEF PoolGood
<1>4. l \in PoolState /\ l.pool = p.pool /\ l.torn = p.torn
  BY <1>1, RenewedIs
<1>5. /\ c \in Less(l, TxsOn(n.top)) /\ c.pool \in {l.pool, l.pool \ {t}}
      /\ c.pool # l.pool /\ Ref[t] \in DataRow /\ OutOfTurn(l, t) => Ref[t] \in c.torn
  BY <1>4, CancelTakes
<1> HIDE DEF n, p, l, c, dropped
<1>6. c \in PoolState /\ p.torn \subseteq c.torn /\ c.pool \subseteq p.pool /\ Based(c, TxsOn(n.top))
  <2>1. Based(l, TxsOn(n.top))
    BY <1>3, <1>4 DEF Based
  <2> QED  BY <1>4, <1>5, <2>1 DEF Less
<1>7. ASSUME ran, NEW x \in p.pool \ c.pool, Ref[x] = Ref[asked]  PROVE  Ref[asked] \in c.torn
  <2>1. x = t /\ c.pool # l.pool
    BY <1>4, <1>5, <1>7
  <2>2. Ref[asked] \in DataRow
    BY <1>1, <1>7, HeldTypes DEF PoolGood
  <2>3. OutOfTurn(l, t)
    BY <1>7, <2>1 DEF OutOfTurn
  <2> QED  BY <1>5, <1>7, <2>1, <2>2, <2>3
<1>8. PoolGood(n, q, asked, ran, dropped)
  BY <1>1, <1>3, <1>6, <1>7, CommandIsGood
<1> HIDE DEF q
<1> QED  BY <1>1, <1>2, <1>8, PoolChanges DEF n, dropped

\* The command unapprovedtransactions -clean.
LEMMA OperatorCleanKeeps ==
  ASSUME PoolInv, OperatorClean  PROVE  PoolInv'
<1> DEFINE n == Derived
           p == Current
           marks == {Ref[t] : t \in pool \cap SQL}
           none == {}
           c == [p EXCEPT !.pool = none, !.torn = @ \cup marks]
           q == [c EXCEPT !.cache = p.cache,
                          !.touched = p.touched \/ (p.cache # NoCache /\ c.pool # p.pool)]
           dropped == Mixed
<1>1. /\ PoolGood(n, p, asked, ran, dropped) /\ p \in PoolState /\ UNCHANGED <<vars, crossed>>
      /\ asked' = asked /\ ran' = ran /\ p.pool = pool /\ ~p.touched /\ p.torn = torn
  BY PoolFacts DEF OperatorClean
<1>2. Becomes(q)
  BY PoolFacts DEF OperatorClean, ByCommand
<1>3. Fresh(p) /\ p.pool \subseteq Held
  BY <1>1 DEF PoolGood, PoolState
<1>4. marks \subseteq Row
  BY <1>1, <1>3, HeldTypes
<1>5. \A x \in p.pool : Ref[x] \in DataRow => Ref[x] \in marks
  BY <1>1, <1>3, HeldTypes
<1>6. none \subseteq Held /\ \A x : x \notin none
  OBVIOUS
<1> HIDE DEF n, p, marks, none, dropped
<1>7. c \in PoolState /\ c.pool = none /\ c.torn = p.torn \cup marks
  BY <1>1, <1>4, <1>6 DEF PoolState
<1> HIDE DEF c
<1>8. Based(c, TxsOn(n.top))
  BY <1>6, <1>7 DEF Based
<1>9. ASSUME ran, NEW x \in p.pool \ c.pool, Ref[x] = Ref[asked]  PROVE  Ref[asked] \in c.torn
  <2>1. Ref[asked] \in DataRow
    BY <1>1, <1>9, HeldTypes DEF PoolGood
  <2> QED  BY <1>5, <1>7, <1>9, <2>1
<1>10. PoolGood(n, q, asked, ran, dropped)
  BY <1>1, <1>3, <1>6, <1>7, <1>8, <1>9, CommandIsGood
<1> HIDE DEF q
<1> QED  BY <1>1, <1>2, <1>10, PoolChanges DEF n, dropped

\* The command send.
LEMMA SendKeeps ==
  ASSUME PoolInv, NEW t \in Held, Send(t)  PROVE  PoolInv'
<1> DEFINE n == Derived
           p == Current
           l == Renewed(p)
           c == Kept(l, t)
           q == [c EXCEPT !.cache = p.cache,
                          !.touched = p.touched \/ (p.cache # NoCache /\ c.pool # p.pool)]
           dropped == Mixed
<1>1. /\ PoolGood(n, p, asked, ran, dropped) /\ p \in PoolState /\ UNCHANGED <<vars, crossed>>
      /\ asked' = asked /\ ran' = ran /\ p.cache = NoCache
      /\ asked = NoTx /\ t \notin SQL /\ t \in Tx
  <2>1. t \notin SQL
    BY DEF Send, IsPayment
  <2> QED  BY <2>1, PoolFacts, HeldTypes DEF Send
<1>2. Becomes(q)
  BY PoolFacts DEF Send, ByCommand
<1>3. Fresh(p) /\ ran = FALSE /\ Based(p, TxsOn(n.top))
  BY <1>1 DEF PoolGood, Fresh
<1>4. t \notin TxsOn(n.top)
  <2>1. links[t] = {} /\ IndexIsComplete /\ Branch(top) \subseteq stored /\ n.top = top
    BY PoolFacts, InvTypes DEF Send, LedgerInv
  <2>2. \A b \in Branch(top) : t \notin TxsOf(b)
    BY <1>1, <2>1 DEF IndexIsComplete
  <2> QED  BY <2>1, <2>2 DEF TxsOn
<1>5. l \in PoolState /\ l.pool = p.pool /\ l.torn = p.torn
  BY <1>1, RenewedIs
<1> HIDE DEF n, p, l, dropped
<1>6. c \in PoolState /\ c.torn = p.torn /\ p.pool \subseteq c.pool /\ c.pool \subseteq p.pool \cup {t}
  <2>1. CASE Conflicts(l, t) # {}
    <3>1. c = l
      BY <1>1, <2>1 DEF Kept, Spoil
    <3> QED  BY <1>5, <3>1
  <2>2. CASE Conflicts(l, t) = {}
    <3>1. c = Put(l, t)
      BY <2>2 DEF Kept
    <3> HIDE DEF c
    <3> QED  BY <1>5, <3>1 DEF PoolState, Put
  <2> QED  BY <2>1, <2>2
<1> HIDE DEF c
<1>7. Based(c, TxsOn(n.top))
  <2>1. Ref[t] \notin DataRow
    BY <1>1, HeldTypes
  <2> QED  BY <1>3, <1>6, <2>1 DEF Based
<1>8. ~dropped => NoRivals(c)
  <2>1. Fresh(l)
    BY <1>1, RenewedIs DEF l
  <2>2. ~dropped => NoRivals(l)
    BY <1>1, <1>5, <2>1, FreshHaveNoRivals DEF PoolGood
  <2> QED  BY <1>5, <2>2, KeptHasNoRivals DEF c
<1>9. PoolGood(n, q, asked, ran, dropped)
  BY <1>1, <1>3, <1>4, <1>6, <1>7, <1>8, CommandIsGood
<1> HIDE DEF q
<1> QED  BY <1>1, <1>2, <1>9, PoolChanges DEF n, dropped

\* The command dropblock: what the block had is pending again.
LEMMA OperatorDropKeeps ==
  ASSUME PoolInv, OperatorDrop  PROVE  PoolInv'
<1> DEFINE n == Derived'
           p == Current
           l == Renewed(p)
           d == BackFromBlock(l, top)
           c == TearForgotten(n, d)
           q == [c EXCEPT !.cache = p.cache,
                          !.touched = p.touched \/ (p.cache # NoCache /\ c.pool # p.pool)]
           dropped == Mixed'
           below == Prev[top]
<1>1. /\ PoolGood(Derived, p, asked, ran, Mixed) /\ p \in PoolState
      /\ asked' = asked /\ ran' = ran /\ ~p.touched /\ p.torn = torn
      /\ LedgerInv /\ LedgerInv' /\ Derived.top = top /\ Derived.refs = refs
      /\ n.top = below /\ n.refs = refs' /\ dropped
  <2>1. drops' = drops + 1 /\ drops \in Nat /\ top' = below
    BY PoolFacts, Bounds DEF OperatorDrop, DropBlock, LedgerInv, TypeOK
  <2>2. dropped
    BY <2>1 DEF Mixed
  <2> QED  BY <2>1, <2>2, PoolFacts, DropBlockKeeps DEF OperatorDrop, Derived
<1>2. Becomes(q)
  BY PoolFacts DEF OperatorDrop, ByCommand
<1>3. top \in Block \ {Genesis} /\ below \in Block /\ TxsOn(top) = TxsOf(top) \cup TxsOn(below)
  BY <1>1, InvTypes, TreeFacts, TxsOnStep DEF OperatorDrop, DropBlock, Older
<1>4. Fresh(p) /\ Based(p, TxsOn(top)) /\ (p.torn # Row => Tracked(Derived, p, Mixed))
  BY <1>1 DEF PoolGood
<1>5. l \in PoolState /\ l.pool = p.pool /\ l.torn = p.torn
  BY <1>1, RenewedIs
<1>6. /\ d \in PoolState /\ p.torn \subseteq d.torn
      /\ p.pool \subseteq d.pool /\ d.pool \subseteq p.pool \cup Signed(top)
      /\ \A t \in TxsOf(top) \cap SQL : t \in d.pool \/ Ref[t] \in d.torn
  BY <1>3, <1>5, BackIs
<1>7. /\ c \in PoolState /\ d.torn \subseteq c.torn /\ c.pool = d.pool
      /\ Forgotten(n) \subseteq c.torn
  <2>1. Forgotten(n) \subseteq Row
    BY DEF Forgotten
  <2> HIDE DEF n, d
  <2> QED  BY <1>6, <2>1 DEF TearForgotten, PoolState
<1>8. torn # Row => refs' \in RefsRight(below)
  <2>1. PICK idx : refs' = RefsCancelled(idx, refs, top)
    BY DEF OperatorDrop, DropBlock
  <2>2. torn # Row => refs \in RefsRight(top)
    BY <1>1, <1>4 DEF Tracked
  <2> QED  BY <1>3, <2>1, <2>2, RefsCancelledAreRight
<1>9. \A x \in Signed(top) : x \notin TxsOn(below)
  <2>1. ASSUME NEW i \in 1..Len(Txs[top])  PROVE  Txs[top][i] \notin TxsOn(below)
    BY <1>3, VerifiedBlocks, TxTypes DEF VerifiedBlock
  <2> QED  BY <1>3, <2>1, TxTypes DEF Signed, TxsOf
<1>10. ASSUME NEW i \in 1..Len(Txs[top]), Ref[Txs[top][i]] \in DataRow
       PROVE  Base[Txs[top][i]] \in TxsOn(top)
  <2> DEFINE t == Txs[top][i]
  <2>1. t \in Tx /\ t \in TxsOf(top)
    BY <1>3, TxTypes DEF TxsOf
  <2>2. t \in SQL
    BY <1>10, <2>1, HeldTypes
  <2>3. t \in Held
    BY <1>3, <2>1, <2>2, TxsOfBlocks
  <2>4. Base[t] # NoTx
    BY <2>2, <2>3, HeldTypes, Transactions
  <2>5. Base[t] \in Earlier(top, i)
    BY <1>3, <2>4, BasesOfBlocks, TxTypes
  <2>6. \A j \in 1..(i - 1) : Txs[top][j] \in TxsOf(top)
    BY <1>3, TxTypes DEF TxsOf
  <2> QED  BY <1>3, <2>5, <2>6 DEF Earlier
<1>11. Based(c, TxsOn(below))
  <2> SUFFICES ASSUME NEW e \in c.pool, Ref[e] \in DataRow \ c.torn
               PROVE  Base[e] \in c.pool \cup TxsOn(below)
    BY DEF Based
  <2>1. Base[e] \in p.pool \cup TxsOn(top)
    <3>1. CASE e \in p.pool
      BY <1>4, <1>6, <1>7, <3>1 DEF Based
    <3>2. CASE e \in Signed(top)
      BY <1>3, <1>10, <3>2, TxTypes DEF Signed, TxsOf
    <3> QED  BY <1>6, <1>7, <3>1, <3>2
  <2>2. ASSUME Base[e] \in TxsOf(top)  PROVE  Base[e] \in c.pool
    <3>1. e \in Held /\ e \in SQL
      BY <1>7, HeldTypes DEF PoolState
    <3>2. Ref[Base[e]] = Ref[e] \/ Ref[Base[e]] = Table
      BY <3>1, HeldTypes
    <3>3. Base[e] \in SQL
      <4>1. Base[e] \in Tx
        BY <3>1, HeldTypes
      <4> QED  BY <3>2, <4>1, HeldTypes DEF DataRow
    <3>4. Base[e] \in Held
      BY <1>3, <2>2, <3>3, TxsOfBlocks
    <3>5. Ref[Base[e]] = Ref[e]
      BY <3>2, <3>3, <3>4, HeldTypes DEF DataRow
    <3> QED  BY <1>6, <1>7, <2>2, <3>3, <3>5
  <2> QED  BY <1>3, <1>6, <1>7, <2>1, <2>2
<1>12. c.torn # Row => torn # Row
  BY <1>1, <1>6, <1>7 DEF PoolState
<1> HIDE DEF c, d, l, n, p
<1>13. /\ q \in PoolState /\ q.pool = c.pool /\ q.torn = c.torn
       /\ q.touched \/ Fresh(q)
       /\ Inside(q) \subseteq c.pool \cup p.pool /\ Stale(q) \subseteq p.pool \ c.pool
  BY <1>1, <1>4, <1>7, CommandIs
<1> HIDE DEF q
<1>14. Based(q, TxsOn(below))
  BY <1>11, <1>13 DEF Based
<1>15. ASSUME NEW x \in Inside(q) \cap TxsOn(below), torn # Row  PROVE  x \in SQL => Ref[x] \in q.torn
  <2>1. x \in p.pool
    BY <1>6, <1>7, <1>9, <1>13
  <2>2. x \in Inside(p) \cap TxsOn(top)
    BY <1>3, <2>1 DEF Inside
  <2>3. Tracked(Derived, p, Mixed)
    BY <1>1, <1>4, <1>15
  <2>4. Excused(x, p.torn \cup Forgotten(Derived), Mixed)
    BY <1>1, <2>2, <2>3 DEF Tracked, Clean
  <2>5. p.torn \cup Forgotten(Derived) \subseteq q.torn
    BY <1>6, <1>7, <1>13, <2>3 DEF Tracked
  <2> QED  BY <2>4, <2>5 DEF Excused
<1>16. q.torn # Row => Tracked(n, q, dropped)
  BY <1>1, <1>7, <1>8, <1>12, <1>13, <1>15 DEF Tracked, Clean, Excused
<1>17. SessionIsFree(q, asked, ran)
  BY <1>6, <1>7, <1>13 DEF SessionIsFree
<1>18. PoolGood(n, q, asked', ran', dropped)
  BY <1>1, <1>13, <1>14, <1>16, <1>17 DEF PoolGood
<1> QED  BY <1>1, <1>2, <1>18, BecomesIsGood DEF n

(***************************************************************************)
(* The steps that bring blocks.                                            *)
(***************************************************************************)

\* A block beside the primary branch.
LEMMA BlockToParallelKeeps ==
  ASSUME PoolInv, NEW b \in Block, BlockToParallel(b)  PROVE  PoolInv'
<1>1. LedgerInv' /\ Becomes(Current)
  BY PoolFacts, AddToParallelKeeps DEF BlockToParallel, poolVars, Becomes
<1>2. /\ PoolGood(Derived, Current, asked, ran, Mixed)
      /\ Derived'.top = Derived.top /\ Derived'.refs = Derived.refs
      /\ asked' = asked /\ ran' = ran /\ Mixed' = Mixed
  BY PoolFacts DEF BlockToParallel, AddToParallel, poolVars, Derived, Mixed
<1> DEFINE n == Derived
           m == Derived'
           p == Current
           dropped == Mixed
<1>3. PoolGood(n, p, asked, ran, dropped) /\ m.top = n.top /\ m.refs = n.refs
  BY <1>2
<1> HIDE DEF n, m, p, dropped
<1>4. PoolGood(m, p, asked, ran, dropped)
  BY <1>3 DEF PoolGood, Tracked, Clean, Forgotten
<1>5. PoolGood(Derived', p, asked', ran', Mixed')
  BY <1>2, <1>4 DEF m, dropped
<1> QED  BY <1>1, <1>5, BecomesIsGood DEF p

\* A block on the top of the primary branch.
LEMMA BlockToTopKeeps ==
  ASSUME PoolInv, NEW b \in Block, BlockToTop(b)  PROVE  PoolInv'
<1> DEFINE n == Derived'
           p == Current
           dropped == Mixed'
<1>1. PICK q \in PutOn(p, b) : Becomes(q)
  BY DEF BlockToTop
<1>2. /\ PoolGood(Derived, p, asked, ran, Mixed) /\ p \in PoolState
      /\ asked' = asked /\ ran' = ran /\ p.torn = torn
      /\ LedgerInv /\ LedgerInv' /\ Derived.top = top /\ Derived.refs = refs
      /\ n.top = b /\ n.refs = refs' /\ Mixed' = Mixed
      /\ refs' = RefsAdded(refs, b) /\ refs \in RowRefs
  BY PoolFacts, AddToTopKeeps, InvTypes DEF BlockToTop, AddToTop, Derived, Mixed
<1>3. /\ b \in Block \ {Genesis} /\ Prev[b] = top /\ top \in Block
      /\ TxsOn(b) = TxsOf(b) \cup TxsOn(top)
  <2>1. b # Genesis /\ Prev[b] = top
    BY <1>2, StoreIsRight DEF BlockToTop, AddToTop
  <2> QED  BY <1>2, <2>1, InvTypes, TxsOnStep DEF Older
<1> HIDE DEF n, p, dropped
<1>4. q \in PutWith(p, Signed(b), TxsOn(b)) /\ ~q.touched /\ Fresh(q)
  BY <1>2, <1>3, PutOnIs
<1>5. q \in PoolState /\ q.pool \subseteq p.pool \ Signed(b) /\ p.torn \subseteq q.torn
  BY <1>4 DEF PutWith
<1>6. Based(q, TxsOn(b))
  <2>1. Based(p, TxsOn(b))
    BY <1>2, <1>3 DEF PoolGood, Based
  <2> QED  BY <1>4, <2>1 DEF PutWith
<1>7. ASSUME q.torn # Row  PROVE  Tracked(n, q, dropped)
  <2>1. Tracked(Derived, p, Mixed)
    BY <1>2, <1>5, <1>7 DEF PoolGood, PoolState
  <2>2. refs' \in RefsRight(b)
    BY <1>2, <1>3, <2>1, RefsAddedAreRight DEF Tracked
  <2>3. ASSUME NEW r \in Forgotten(n)  PROVE  r \in q.torn
    <3>1. r \in Row /\ refs'[r] = NoTx /\ LastOfRow(b, r) # {}
      BY <1>2 DEF Forgotten
    <3>2. refs[r] = NoTx /\ \A k \in 1..Len(Txs[b]) : Ref[Txs[b][k]] # r
      BY <1>2, <3>1, RefsAddedStay
    <3>3. PICK t : t \in LastOfRow(b, r)
      BY <3>1
    <3>4. t \notin TxsOf(b)
      BY <1>3, <3>2, <3>3, LastIsOnBranch, TxTypes DEF TxsOf
    <3>5. t \in LastOfRow(top, r)
      BY <1>3, <3>3, <3>4, LastAndBlock
    <3>6. r \in Forgotten(Derived)
      BY <1>2, <3>1, <3>2, <3>5 DEF Forgotten
    <3> QED  BY <1>5, <2>1, <3>6 DEF Tracked
  <2>4. ASSUME NEW x \in Inside(q) \cap TxsOn(b)
        PROVE  Excused(x, q.torn \cup Forgotten(n), dropped)
    <3>1. x \in q.pool
      BY <1>4 DEF Fresh, Inside, Cached
    <3>2. x \in Held /\ x \in p.pool /\ x \notin Signed(b)
      BY <1>5, <3>1 DEF PoolState
    <3>3. x \in TxsOn(top)
      BY <1>3, <3>2, TxsOfBlocks
    <3>4. Excused(x, p.torn \cup Forgotten(Derived), Mixed)
      BY <1>2, <2>1, <3>2, <3>3 DEF Tracked, Clean, Inside
    <3> QED  BY <1>2, <1>5, <2>1, <3>4 DEF Excused, Tracked, dropped
  <2> QED  BY <1>2, <2>2, <2>3, <2>4 DEF Tracked, Clean
<1>8. ~dropped => NoRivals(q)
  BY <1>2, <1>4 DEF PoolGood, PutWith, dropped
<1>9. PoolGood(n, q, asked', ran', dropped)
  BY <1>2, <1>4, <1>5, <1>6, <1>7, <1>8 DEF PoolGood, SessionIsFree
<1> QED  BY <1>1, <1>2, <1>9, BecomesIsGood DEF n, dropped

\* The blocks to exchange for a block that was not stored: none when its branch
\* goes through the top, and otherwise those that only one of the branches has.
LEMMA ExchangeIs ==
  ASSUME LedgerInv, NEW b \in Block, Store(b), Overtakes(b), ~SideBranchFails(top, b)
  PROVE  /\ OldBlocks(top, b) \in Seq(Block \ {Genesis}) /\ NewBlocks(top, b) \in Seq(Block)
         /\ top \in Branch(b) => OldBlocks(top, b) = <<>> /\ NewBlocks(top, b) = <<>>
         /\ top \notin Branch(b) =>
              /\ b \notin Branch(top)
              /\ Len(NewBlocks(top, b)) \in Nat \ {0}
              /\ Members(OldBlocks(top, b)) = Branch(top) \ Branch(b)
              /\ Members(NewBlocks(top, b)) = Branch(b) \ Branch(top)
              /\ NewBlocks(top, b) \in Seq(Block \ {Genesis})
<1> DEFINE old == OldBlocks(top, b)
           new == NewBlocks(top, b)
<1>1. top \in Block /\ Height[top] \in Nat /\ Height[b] \in Nat /\ Height[b] > Height[top]
  BY InvTypes, TreeFacts DEF Overtakes
<1>2. b \notin Branch(top)
  BY <1>1, BranchFacts
<1>3. CASE top \in Branch(b)
  <2> DEFINE base == MeetingPoint(top, b)
  <2>1. IsMeeting(base, top, b)
    BY <1>1, MeetingPointMeets
  <2>2. base = top
    <3> HIDE DEF base
    <3>1. base \in Branch(top) /\ Height[top] <= Height[base]
      BY <1>1, <1>3, <2>1, BranchFacts DEF IsMeeting
    <3>2. base \in Block /\ Height[base] \in Nat /\ Height[base] <= Height[top]
      BY <1>1, <3>1, BranchFacts, TreeFacts
    <3> QED  BY <1>1, <3>1, <3>2, BranchFacts
  <2>3. old = <<>> /\ new = <<>>
    BY <2>2 DEF OldBlocks, NewBlocks
  <2> QED  BY <1>3, <2>3
<1>4. CASE top \notin Branch(b)
  <2>1. /\ old \in Seq(Block \ {Genesis}) /\ new \in Seq(Block \ {Genesis})
        /\ Len(new) \in Nat \ {0}
    BY <1>1, <1>2, <1>4, ReplacementEnds
  <2>2. ReplacementAgrees(top, b)
    BY <1>1, ReplacementIsRight
  <2>3. new \in Seq(Block)
    BY <1>1, ReplacementTypes
  <2> QED  BY <1>2, <1>4, <2>1, <2>2, <2>3 DEF ReplacementAgrees
<1> QED  BY <1>3, <1>4

\* What the exchange makes of the pool before anything is added again: what is left is
\* not approved on the new branch and has its bases there.
LEMMA ExchangeLeads ==
  ASSUME PoolInv, NEW b \in Block, Switch(b), top \notin Branch(b),
         NEW x \in PutOnAll(TakenOff(Current, OldBlocks(top, b)), NewBlocks(top, b))
  PROVE  /\ x \in PoolState /\ ~x.touched /\ Fresh(x) /\ torn \subseteq x.torn
         /\ Based(x, TxsOn(b)) /\ (~Mixed => NoRivals(x))
         /\ x.torn # Row => /\ Knows(Derived', stored', Mixed')
                            /\ Clean(Derived', x, Mixed')
<1> DEFINE n == Derived'
           p == Current
           dropped == Mixed'
           old == OldBlocks(top, b)
           new == NewBlocks(top, b)
           u == TakenOff(p, old)
           P == PutOnAll(u, new)
<1>1. /\ PoolGood(Derived, p, asked, ran, Mixed) /\ p \in PoolState /\ p.torn = torn /\ p.ok
      /\ asked' = asked /\ ran' = ran /\ drops' = drops /\ dropped \in BOOLEAN
      /\ Mixed = dropped
      /\ LedgerInv /\ LedgerInv' /\ Derived.top = top /\ Derived.refs = refs
      /\ n.top = b /\ n.refs = refs' /\ n.links = links' /\ n.spent = spent' /\ top' = b
  <2>1. LedgerInv'
    BY PoolFacts, SwitchBranchKeeps DEF Switch
  <2>2. Mixed' = Mixed /\ Mixed \in BOOLEAN /\ drops' = drops
    BY DEF Switch, SwitchBranch, Mixed
  <2> QED  BY <2>1, <2>2, PoolFacts DEF Switch, SwitchBranch, Derived
<1>2. u.ok
  BY DEF Switch
<1>3. /\ old \in Seq(Block \ {Genesis}) /\ new \in Seq(Block)
      /\ top \in Branch(b) => old = <<>> /\ new = <<>>
      /\ top \notin Branch(b) =>
           /\ b \notin Branch(top)
           /\ Len(new) \in Nat \ {0}
           /\ Members(old) = Branch(top) \ Branch(b)
           /\ Members(new) = Branch(b) \ Branch(top)
           /\ new \in Seq(Block \ {Genesis})
  BY <1>1, ExchangeIs DEF Switch, SwitchBranch
<1>4. refs \in RefsRight(top) => refs' \in RefsRight(b)
  <2>1. PICK idx : refs' = FoldLeft(RefsAdded, RefsTakenOff(idx, refs, old), new)
    BY DEF Switch, SwitchBranch
  <2>2. top \in Block
    BY <1>1, InvTypes
  <2> QED  BY <1>3, <2>1, <2>2, RefsExchangeIsRight
<1>5. torn # Row => Knows(n, stored', dropped)
  <2>1. torn # Row => refs \in RefsRight(top)
    BY <1>1 DEF PoolGood, Tracked
  <2>2. /\ stored' \in SUBSET Block /\ Branch(b) \subseteq stored' /\ LinksOf(links', stored')
        /\ drops' = 0 => SpentIn(spent', stored')
    BY <1>1 DEF LedgerInv, TypeOK, StoredTree, IndexIsComplete, LinksOf, SpentIn
  <2>3. ~dropped => drops' = 0
    BY <1>1, Bounds DEF LedgerInv, TypeOK, Mixed
  <2> QED  BY <1>1, <1>4, <2>1, <2>2, <2>3 DEF Knows
<1>6. old \in Seq(Block) /\ Len(old) \in Nat /\ DOMAIN old = 1..Len(old)
  BY <1>3, LenProperties
<1>7. Len(new) \in Nat /\ DOMAIN new = 1..Len(new)
  BY <1>3, LenProperties
<1> HIDE DEF n, p, dropped, old, new, u, P
<1>8. u \in TakenWith(p, UNION {TxsOf(old[i]) : i \in 1..Len(old)})
  BY <1>1, <1>3, TakenOffIs DEF u
<1>9. /\ u \in PoolState /\ u.pool = p.pool /\ u.torn \subseteq Row /\ p.torn \subseteq u.torn
      /\ u.touched = p.touched /\ (Fresh(p) => Fresh(u))
  BY <1>8 DEF TakenWith, Alike, PoolState, Fresh
<1>10. \A i \in 1..Len(new) : TxsOf(new[i]) \subseteq TxsOn(b)
  <2>1. \A i \in 1..Len(new) : new[i] \in Branch(b)
    BY <1>3, <1>7 DEF Members
  <2> QED  BY <2>1, TxsOnBelow
<1>11. x \in P
  BY DEF P, u, p, old, new
<1>12. /\ x \in PutWith(u, UNION {Signed(new[i]) : i \in 1..Len(new)}, TxsOn(b))
       /\ ~x.touched /\ Fresh(x)
  BY <1>3, <1>9, <1>10, <1>11, PutOnAllIs DEF P
<1>13. /\ x \in PoolState /\ p.torn \subseteq x.torn /\ x.torn \subseteq Row
       /\ x.pool \subseteq p.pool
       /\ \A i \in 1..Len(new) : x.pool \cap Signed(new[i]) = {}
       /\ Based(u, TxsOn(b)) => Based(x, TxsOn(b))
  <2>1. x \in PoolState /\ u.torn \subseteq x.torn
    BY <1>12 DEF PutWith
  <2> QED  BY <1>9, <1>12, <2>1 DEF PutWith, PoolState
<1>14. x.torn # Row => torn # Row /\ Knows(n, stored', dropped)
  BY <1>1, <1>5, <1>13
<1>15. Based(u, TxsOn(b))
  <2> DEFINE S == UNION {TxsOf(old[i]) : i \in 1..Len(old)}
  <2>1. Based(p, TxsOn(top))
    BY <1>1 DEF PoolGood
  <2>2. TxsOn(top) \ S \subseteq TxsOn(b)
    <3>1. SUFFICES ASSUME NEW c \in Branch(top), NEW t \in TxsOf(c), t \notin S
                   PROVE  t \in TxsOn(b)
      BY DEF TxsOn
    <3>2. c \notin Members(old)
      BY <1>6, <3>1 DEF Members
    <3>3. c \in Branch(b)
      BY <1>3, <3>2
    <3> QED  BY <3>3 DEF TxsOn
  <2>3. Based(u, TxsOn(top) \ S)
    <3> HIDE DEF S
    <3>1. u \in TakenWith(p, S)
      BY <1>8 DEF S
    <3> QED  BY <1>2, <2>1, <3>1 DEF TakenWith
  <2> QED  BY <2>2, <2>3 DEF Based
<1>16. ASSUME x.torn # Row  PROVE  Clean(n, x, dropped)
  <2> SUFFICES ASSUME NEW t \in Inside(x) \cap TxsOn(n.top)
               PROVE  Excused(t, x.torn \cup Forgotten(n), dropped)
    BY DEF Clean
  <2>1. t \in x.pool /\ t \in p.pool /\ t \in Held /\ t \in TxsOn(b)
    BY <1>1, <1>12, <1>13 DEF Fresh, Inside, Cached, PoolState
  <2>2. PICK c \in Branch(b) : t \in TxsOf(c)
    BY <2>1 DEF TxsOn
  <2>3. c \in Branch(top)
    <3> SUFFICES ASSUME c \notin Branch(top)  PROVE  FALSE
      OBVIOUS
    <3>1. c \in Members(new)
      BY <1>3, <2>2
    <3>2. PICK i \in 1..Len(new) : c = new[i]
      BY <1>7, <3>1 DEF Members
    <3>3. c \in Block \ {Genesis}
      BY <1>3, <3>2, ElementOfSeq
    <3>4. t \in Signed(c)
      BY <2>1, <2>2, <3>3, TxsOfBlocks
    <3> QED  BY <1>13, <2>1, <3>2, <3>4
  <2>4. t \in TxsOn(top)
    BY <2>2, <2>3 DEF TxsOn
  <2>5. Tracked(Derived, p, Mixed)
    BY <1>1, <1>14, <1>16 DEF PoolGood, PoolState
  <2>6. Excused(t, p.torn \cup Forgotten(Derived), dropped)
    BY <1>1, <2>1, <2>4, <2>5 DEF Tracked, Clean, Inside
  <2> QED  BY <1>13, <2>5, <2>6 DEF Excused, Tracked
<1>17. ~Mixed => NoRivals(x)
  BY <1>1, <1>8, <1>12, AlikeHaveNoRivals DEF PoolGood, TakenWith, Alike, PutWith
<1> QED  BY <1>1, <1>12, <1>13, <1>14, <1>15, <1>16, <1>17 DEF n, dropped

\* Where there is nothing to put on nothing changes.
LEMMA NothingPutOn ==
  ASSUME NEW p, NEW new, new = <<>>
  PROVE  PutOnAll(p, new) = {p}
<1> DEFINE none == {}
           zero == 0
           base == {p}
           G == {base}
           s == <<>>
<1>1. s \in Seq(none) /\ base \in G
  OBVIOUS
<1>2. \A v \in G, x \in none : PutOnOp(zero, v, x) \in G
  OBVIOUS
<1> HIDE DEF none, zero, base, G, s
<1>3. PutsOn!Fold(zero, base, s) \in G
  BY <1>1, <1>2, PutsOn!FoldStays
<1> QED  BY <1>3, PutOnAllFolds DEF zero, base, G, s

\* The branches are exchanged.
LEMMA SwitchKeeps ==
  ASSUME PoolInv, NEW b \in Block, Switch(b)  PROVE  PoolInv'
<1> DEFINE n == Derived'
           p == Current
           dropped == Mixed'
           old == OldBlocks(top, b)
           new == NewBlocks(top, b)
           u == TakenOff(p, old)
           P == PutOnAll(u, new)
<1>1. /\ PoolGood(Derived, p, asked, ran, Mixed) /\ p \in PoolState /\ p.torn = torn /\ p.ok
      /\ asked' = asked /\ ran' = ran /\ drops' = drops /\ dropped \in BOOLEAN
      /\ Mixed = dropped
      /\ LedgerInv /\ LedgerInv' /\ Derived.top = top /\ Derived.refs = refs
      /\ n.top = b /\ n.refs = refs' /\ n.links = links' /\ n.spent = spent' /\ top' = b
  <2>1. LedgerInv'
    BY PoolFacts, SwitchBranchKeeps DEF Switch
  <2>2. Mixed' = Mixed /\ Mixed \in BOOLEAN /\ drops' = drops
    BY DEF Switch, SwitchBranch, Mixed
  <2> QED  BY <2>1, <2>2, PoolFacts DEF Switch, SwitchBranch, Derived
<1>2. PICK r \in Repeated(n, P, old) :
        u.ok /\ Becomes(IF new = <<>> THEN TearAll(r) ELSE TearForgotten(n, r))
  BY DEF Switch
<1>3. /\ old \in Seq(Block \ {Genesis}) /\ new \in Seq(Block)
      /\ top \in Branch(b) => old = <<>> /\ new = <<>>
      /\ top \notin Branch(b) =>
           /\ b \notin Branch(top)
           /\ Len(new) \in Nat \ {0}
           /\ Members(old) = Branch(top) \ Branch(b)
           /\ Members(new) = Branch(b) \ Branch(top)
           /\ new \in Seq(Block \ {Genesis})
  BY <1>1, ExchangeIs DEF Switch, SwitchBranch
<1> HIDE DEF n, p, dropped, old, new, u, P
<1>4. u \in TakenWith(p, UNION {TxsOf(old[i]) : i \in 1..Len(old)})
  BY <1>1, <1>3, TakenOffIs DEF u
<1>5. /\ u \in PoolState /\ u.pool = p.pool /\ u.torn \subseteq Row /\ p.torn \subseteq u.torn
      /\ u.touched = p.touched /\ (Fresh(p) => Fresh(u))
  BY <1>4 DEF TakenWith, Alike, PoolState, Fresh
<1>6. u.touched \/ Fresh(u)
  BY <1>1, <1>5 DEF PoolGood
<1>7. CASE top \in Branch(b)
  <2> DEFINE q == TearAll(r)
  <2>1. new = <<>> /\ Becomes(q)
    BY <1>2, <1>3, <1>7
  <2>2. r \in P
    BY <1>3, <1>7, NothingRepeated
  <2>3. PutOnAll(u, new) = {u}
    BY <2>1, NothingPutOn
  <2>4. q \in PoolState /\ q.torn = Row /\ (q.touched \/ Fresh(q))
    <3>1. r = u
      BY <2>2, <2>3 DEF P
    <3> QED  BY <1>5, <1>6, <3>1 DEF TearAll, PoolState, Fresh
  <2> HIDE DEF q
  <2>5. ~dropped => NoRivals(q)
    <3>1. q.pool = p.pool /\ q.cache = p.cache
      BY <1>4, <2>2, <2>3 DEF q, P, TearAll, TakenWith, Alike, PoolState
    <3> QED  BY <1>1, <3>1, AlikeHaveNoRivals DEF PoolGood
  <2>6. PoolGood(n, q, asked', ran', dropped)
    BY <1>1, <2>4, <2>5, TornIsGood DEF PoolGood
  <2> QED  BY <1>1, <2>1, <2>6, BecomesIsGood DEF n, dropped
<1>8. CASE top \notin Branch(b)
  <2> DEFINE q == TearForgotten(n, r)
  <2>1. Len(new) # 0 /\ new # <<>> /\ Becomes(q)
    BY <1>2, <1>3, <1>8
  <2>2. ASSUME NEW x \in P
        PROVE  /\ x \in PoolState /\ ~x.touched /\ Fresh(x) /\ Based(x, TxsOn(b))
               /\ ~Mixed => NoRivals(x)
               /\ x.torn # Row => Knows(n, stored', dropped) /\ Clean(n, x, dropped)
    <3>1. x \in PutOnAll(TakenOff(Current, OldBlocks(top, b)), NewBlocks(top, b))
      BY DEF P, u, p, old, new
    <3> QED  BY <1>8, <3>1, ExchangeLeads DEF n, dropped
  <2>3. PICK x \in P : r \in Grows(n, x, dropped)
    BY <1>1, <1>3, <2>2, RepeatedGrows
  <2>4. /\ x \in PoolState /\ ~x.touched /\ Fresh(x) /\ Based(x, TxsOn(b))
        /\ x.torn # Row => Knows(n, stored', dropped) /\ Clean(n, x, dropped)
    BY <2>2
  <2>5. /\ r \in PoolState /\ ~r.touched /\ Fresh(r) /\ x.torn \subseteq r.torn
        /\ r.torn # Row => x.torn # Row /\ Based(r, TxsOn(b)) /\ Clean(n, r, dropped)
    <3>1. r.torn # Row => x.torn # Row
      BY <2>3, <2>4 DEF Grows, PoolState
    <3> QED  BY <1>1, <2>3, <2>4, <3>1 DEF Grows
  <2>6. /\ q \in PoolState /\ q.pool = r.pool /\ q.cache = r.cache /\ ~q.touched
        /\ q.torn = r.torn \cup Forgotten(n)
    <3>1. Forgotten(n) \subseteq Row
      BY DEF Forgotten
    <3> QED  BY <2>5, <3>1 DEF TearForgotten, PoolState
  <2> HIDE DEF q
  <2>7. q.torn # Row => r.torn # Row
    BY <2>5, <2>6 DEF PoolState
  <2>8. Fresh(q) /\ Inside(q) = Inside(r)
    BY <2>5, <2>6 DEF Fresh, Inside, Cached
  <2>9. Based(q, TxsOn(b))
    BY <2>5, <2>6, <2>7 DEF Based, DataRow
  <2>10. q.torn # Row => Tracked(n, q, dropped)
    <3>1. q.torn # Row => refs' \in RefsRight(b)
      BY <1>1, <2>4, <2>5, <2>7 DEF Knows
    <3> QED  BY <1>1, <2>5, <2>6, <2>7, <2>8, <3>1 DEF Tracked, Clean
  <2>11. ~dropped => NoRivals(q)
    BY <1>1, <2>2, <2>3, <2>6, AlikeHaveNoRivals DEF Grows
  <2>12. PoolGood(n, q, asked', ran', dropped)
    BY <1>1, <2>6, <2>8, <2>9, <2>10, <2>11 DEF PoolGood, SessionIsFree
  <2> QED  BY <1>1, <2>1, <2>12, BecomesIsGood DEF n, dropped
<1> QED  BY <1>7, <1>8

\* A rollback fails in the middle of the exchange.
LEMMA SwitchAbortsKeeps ==
  ASSUME PoolInv, NEW b \in Block, SwitchAborts(b)  PROVE  PoolInv'
<1> DEFINE n == Derived'
           p == Current
           dropped == Mixed'
           old == OldBlocks(top, b)
           idx == Index(Branch(b), links', spent')
<1>1. /\ PoolGood(Derived, p, asked, ran, Mixed) /\ p \in PoolState
      /\ asked' = asked /\ ran' = ran /\ drops' = drops /\ LedgerInv /\ Store(b) /\ top' = b
      /\ Overtakes(b) /\ Mixed' = Mixed
  BY PoolFacts DEF SwitchAborts, Mixed
<1>2. PICK k \in DOMAIN old :
        /\ Becomes(TearAll(TakenOff(p, SubSeq(old, 1, k))))
        /\ utxo' = UnspentTakenOff(idx, utxo, SubSeq(old, 1, k - 1))
        /\ refs' = RefsTakenOff(idx, refs, SubSeq(old, 1, k - 1))
  BY DEF SwitchAborts
<1>3. old \in Seq(Block \ {Genesis})
  BY <1>1, ExchangeIs DEF SwitchAborts
<1>4. /\ utxo \in SUBSET AllOutputsOf /\ refs \in RowRefs
      /\ Height[top] \in Nat /\ Height[b] \in Nat
  BY <1>1, InvTypes, TreeFacts
<1> HIDE DEF idx, n, p, dropped, old
<1>5. SubSeq(old, 1, k) \in Seq(Block \ {Genesis}) /\ SubSeq(old, 1, k - 1) \in Seq(Block)
  <2>1. /\ Len(old) \in Nat /\ DOMAIN old = 1..Len(old)
        /\ \A i \in 1..Len(old) : old[i] \in Block \ {Genesis}
    BY <1>3, LenProperties, ElementOfSeq
  <2>2. k \in 1..Len(old)
    BY <2>1
  <2>3. /\ \A i \in 1..k : i \in 1..Len(old)
        /\ \A i \in 1..(k - 1) : i \in 1..Len(old)
    BY <2>1, <2>2
  <2> QED  BY <2>1, <2>2, <2>3, SubSeqProperties
<1>6. utxo' \in SUBSET AllOutputsOf /\ refs' \in RowRefs
  <2> DEFINE none == <<>>
             done == SubSeq(old, 1, k - 1)
  <2>1. none \in Seq(Block) /\ done \in Seq(Block)
    BY <1>5
  <2> HIDE DEF none, done
  <2>2. UnspentTakenOff(idx, utxo, done) \in SUBSET AllOutputsOf
    BY <1>4, <2>1, ExchangeTypes
  <2>3. RefsTakenOff(idx, refs, done) \in RowRefs
    BY <1>4, <2>1, ExchangeRefTypes
  <2> QED  BY <1>2, <2>2, <2>3 DEF done
<1>7. LedgerInv'
  <2>1. Height[top] <= Height[top'] /\ Height[b] <= Height[top'] /\ top' \in {top, b}
    BY <1>1, <1>4 DEF Overtakes
  <2> QED  BY <1>1, <1>6, <2>1, AfterStore
<1> DEFINE u == TakenOff(p, SubSeq(old, 1, k))
           q == TearAll(u)
<1>8. u \in Alike(p)
  BY <1>1, <1>5, TakenOffIs DEF TakenWith
<1> HIDE DEF u
<1>9. q \in PoolState /\ q.torn = Row /\ (q.touched \/ Fresh(q))
  BY <1>1, <1>8 DEF Alike, TearAll, PoolState, Fresh, PoolGood
<1>10. Becomes(q)
  BY <1>2 DEF u
<1>11. ~dropped => NoRivals(q)
  <2>1. q.pool = p.pool /\ q.cache = p.cache
    BY <1>8 DEF Alike, TearAll, PoolState
  <2> HIDE DEF q
  <2>2. NoRivals(p) => NoRivals(q)
    BY <2>1, AlikeHaveNoRivals
  <2> QED  BY <1>1, <2>2 DEF PoolGood, dropped
<1> HIDE DEF q
<1>12. PoolGood(n, q, asked', ran', dropped)
  BY <1>1, <1>9, <1>11, TornIsGood DEF PoolGood
<1> QED  BY <1>7, <1>10, <1>12, BecomesIsGood DEF n, dropped

\* The process ends over an exchange with the first block.
LEMMA PanicKeeps ==
  ASSUME PoolInv, NEW b \in Block, Panic(b)  PROVE  PoolInv'
<1> DEFINE n == Derived'
           u == Gone(Current)
           q == TearAll(u)
           dropped == Mixed'
<1>1. LedgerInv' /\ Becomes(q) /\ asked' = NoTx /\ ran' = FALSE /\ dropped = Mixed
  BY PoolFacts, PanicOverGenesisKeeps DEF Panic, PanicOverGenesis, Mixed
<1>2. u \in PoolState /\ Fresh(u) /\ PoolGood(Derived, u, asked, ran, Mixed)
  BY PoolFacts, GoneIs
<1> HIDE DEF u
<1>3. q \in PoolState /\ q.torn = Row /\ Fresh(q) /\ (~dropped => NoRivals(q))
  <2>1. q \in PoolState /\ q.torn = Row /\ q.pool = u.pool /\ q.cache = u.cache
    BY <1>2 DEF TearAll, PoolState
  <2> HIDE DEF q
  <2>2. Fresh(q)
    BY <1>2, <2>1 DEF Fresh
  <2>3. NoRivals(u) => NoRivals(q)
    BY <2>1, AlikeHaveNoRivals
  <2> QED  BY <1>1, <1>2, <2>1, <2>2, <2>3 DEF PoolGood
<1> HIDE DEF n, q, dropped
<1>4. PoolGood(n, q, asked', ran', dropped)
  BY <1>1, <1>3, TornIsGood
<1> QED  BY <1>1, <1>4, BecomesIsGood DEF n, dropped

(***************************************************************************)
(* The theorems.                                                           *)
(***************************************************************************)

LEMMA PoolInit == InitPool => PoolInv
<1> SUFFICES ASSUME InitPool  PROVE  PoolInv
  OBVIOUS
<1>1. LedgerInv /\ top = Genesis /\ refs = RefsAdded([r \in Row |-> NoTx], Genesis)
  BY LedgerInit DEF InitPool, Init
<1>2. /\ Current.pool = {} /\ Current.cache = NoCache /\ Current.torn = {}
      /\ Current.touched = FALSE /\ asked = NoTx /\ ran = FALSE
      /\ Derived.top = Genesis /\ Derived.refs = refs
  BY <1>1 DEF InitPool, Current, Derived
<1>3. Current \in PoolState
  BY DEF InitPool, Current, PoolState, Content
<1>4. Fresh(Current) /\ Based(Current, TxsOn(Genesis)) /\ Inside(Current) = {}
  BY <1>2 DEF Fresh, Based, Inside, Cached
<1>5. refs \in RefsRight(Genesis)
  BY <1>1, RefsAddedAreRight, TreeFacts DEF RowRefs
<1>6. Forgotten(Derived) = {}
  <2> SUFFICES ASSUME NEW r \in Row, refs[r] = NoTx, NEW t \in LastOfRow(Genesis, r)  PROVE  FALSE
    BY <1>2 DEF Forgotten
  <2> DEFINE e == [x \in Row |-> NoTx]
  <2>1. e \in RowRefs
    BY DEF RowRefs
  <2>2. RefsAdded(e, Genesis)[r] = NoTx
    BY <1>1
  <2> HIDE DEF e
  <2>3. \A k \in 1..Len(Txs[Genesis]) : Ref[Txs[Genesis][k]] # r
    BY <2>1, <2>2, RefsAddedStay, TreeFacts
  <2>4. t \in TxsOf(Genesis) /\ Ref[t] = r
    BY LastIsOnBranch, TxsOnStep, TreeFacts DEF Older
  <2> QED  BY <2>3, <2>4, TxTypes, TreeFacts DEF TxsOf
<1>7. Tracked(Derived, Current, Mixed)
  BY <1>2, <1>4, <1>5, <1>6 DEF Tracked, Clean
<1>8. SessionIsFree(Current, asked, ran)
  BY <1>2 DEF SessionIsFree
<1>9. NoRivals(Current)
  <2>1. Known(Current) = {}
    BY <1>2, <1>3, <1>4, KnownIs
  <2> QED  BY <1>2, <2>1 DEF NoRivals
<1> QED  BY <1>1, <1>2, <1>3, <1>4, <1>7, <1>8, <1>9 DEF PoolInv, PoolGood

\* Nothing happens.
LEMMA PoolStutters ==
  ASSUME PoolInv, UNCHANGED allVars  PROVE  PoolInv'
<1>1. UNCHANGED <<vars, crossed>> /\ Becomes(Current) /\ asked' = asked /\ ran' = ran
  BY PoolFacts DEF allVars, poolVars, Becomes
<1>2. PoolGood(Derived, Current, asked', ran', Mixed)
  BY <1>1, PoolFacts
<1> QED  BY <1>1, <1>2, PoolChanges

LEMMA PoolStep == PoolInv /\ [NextPayments]_allVars => PoolInv'
<1> SUFFICES ASSUME PoolInv, [NextPayments]_allVars  PROVE  PoolInv'
  OBVIOUS
<1>1. ASSUME NEW t \in Held, Receive(t)  PROVE  PoolInv'
  BY <1>1, AddKeeps DEF Receive
<1>2. ASSUME NEW t \in Held, Resubmit(t)  PROVE  PoolInv'
  BY <1>2, AddKeeps DEF Resubmit
<1>3. ASSUME NEW t \in Held, ProxyAsk(t)  PROVE  PoolInv'
  BY <1>3, ProxyAskKeeps
<1>4. ASSUME NEW t \in Held, OperatorCancel(t)  PROVE  PoolInv'
  BY <1>4, OperatorCancelKeeps
<1>5. ASSUME NEW t \in Held, Send(t)  PROVE  PoolInv'
  BY <1>5, SendKeeps
<1>6. ASSUME NEW b \in Block, BlockToTop(b)  PROVE  PoolInv'
  BY <1>6, BlockToTopKeeps
<1>7. ASSUME NEW b \in Block, BlockToParallel(b)  PROVE  PoolInv'
  BY <1>7, BlockToParallelKeeps
<1>8. ASSUME NEW b \in Block, Switch(b)  PROVE  PoolInv'
  BY <1>8, SwitchKeeps
<1>9. ASSUME NEW b \in Block, SwitchAborts(b)  PROVE  PoolInv'
  BY <1>9, SwitchAbortsKeeps
<1>10. ASSUME NEW b \in Block, Panic(b)  PROVE  PoolInv'
  BY <1>10, PanicKeeps
<1>11. CASE ProxyRun
  BY <1>11, ProxyRunKeeps
<1>12. CASE ProxyFails
  BY <1>12, ProxyFailsKeeps
<1>13. CASE ProxyAnswer
  BY <1>13, ProxyAnswerKeeps
<1>14. CASE PrepareBlock
  BY <1>14, PrepareBlockKeeps
<1>15. CASE OperatorClean
  BY <1>15, OperatorCleanKeeps
<1>16. CASE OperatorDrop
  BY <1>16, OperatorDropKeeps
<1>17. CASE Restart
  BY <1>17, RestartKeeps
<1>18. CASE UNCHANGED allVars
  BY <1>18, PoolStutters
<1>19. ASSUME NEW t \in Held, AddVerify(t) \/ AddTest(t) \/ AddRefused(t)  PROVE  PoolInv'
  <2>1. Becomes(Loaded(Current)) /\ UNCHANGED <<vars, asked, ran, crossed>>
    BY <1>19 DEF AddVerify, AddTest, AddRefused
  <2> QED  BY <2>1, LoadKeeps
<1>20. ASSUME NEW t \in Held, AddRun(t)  PROVE  PoolInv'
  BY <1>20, AddRunKeeps
<1>21. ASSUME NEW t \in Held, AddFails(t)  PROVE  PoolInv'
  BY <1>21, AddFailsKeeps
<1>22. ASSUME NEW t \in Held, AddPut(t)  PROVE  PoolInv'
  BY <1>22, AddPutKeeps
<1>23. CASE ProxyVerify
  BY <1>23, ProxyVerifyKeeps
<1> QED
  BY <1>1, <1>2, <1>3, <1>4, <1>5, <1>6, <1>7, <1>8, <1>9, <1>10, <1>11, <1>12, <1>13,
     <1>14, <1>15, <1>16, <1>17, <1>18, <1>19, <1>20, <1>21, <1>22, <1>23
     DEF NextPayments, NextPool, Held

\* Every state is good.
THEOREM PoolInvHolds == SpecPayments => []PoolInv
<1> QED  BY PoolInit, PoolStep, PTL DEF SpecPayments

\* The additions under way.
AddingTypes ==
  adding \subseteq LateTx \X {"verified", "executed", "tested"} /\ crossed \in BOOLEAN

LEMMA AddingStep == AddingTypes /\ [NextPayments]_allVars => AddingTypes'
<1> SUFFICES ASSUME AddingTypes, [NextPayments]_allVars  PROVE  AddingTypes'
  OBVIOUS
<1>1. ASSUME UNCHANGED <<adding, crossed>>  PROVE  AddingTypes'
  BY <1>1 DEF AddingTypes
<1>2. ASSUME adding' = {}, UNCHANGED crossed  PROVE  AddingTypes'
  BY <1>2 DEF AddingTypes
<1>3. ASSUME NEW t \in Held, AddVerify(t) \/ AddRun(t) \/ AddFails(t)  PROVE  AddingTypes'
  BY <1>3 DEF AddingTypes, AddVerify, AddRun, AddFails, Begins, Goes, Ends
<1>4. ASSUME NEW t \in Held, AddTest(t) \/ AddRefused(t)  PROVE  AddingTypes'
  BY <1>4 DEF AddingTypes, AddTest, AddRefused, Goes, Ends
<1>5. ASSUME NEW t \in Held, AddPut(t)  PROVE  AddingTypes'
  <2>1. crossed' \in BOOLEAN
    BY <1>5, Zenon DEF AddPut
  <2>2. adding' \subseteq adding
    BY <1>5 DEF AddPut, Ends
  <2> QED  BY <2>1, <2>2 DEF AddingTypes
<1>6. CASE ProxyVerify
  BY <1>6 DEF AddingTypes, ProxyVerify, Begins
<1>7. CASE Restart
  BY <1>2, <1>7 DEF Restart
<1>8. ASSUME NEW b \in Block, Panic(b)  PROVE  AddingTypes'
  BY <1>2, <1>8 DEF Panic
<1>9. ASSUME NEW b \in Block, BlockToTop(b) \/ BlockToParallel(b) \/ Switch(b) \/ SwitchAborts(b)
      PROVE  AddingTypes'
  BY <1>1, <1>9 DEF BlockToTop, BlockToParallel, Switch, SwitchAborts, poolVars
<1>10. ASSUME NEW t \in Held,
              Receive(t) \/ Resubmit(t) \/ ProxyAsk(t) \/ OperatorCancel(t) \/ Send(t)
       PROVE  AddingTypes'
  BY <1>1, <1>10 DEF Receive, Resubmit, ProxyAsk, OperatorCancel, Send
<1>11. ASSUME \/ ProxyRun \/ ProxyFails \/ ProxyAnswer \/ PrepareBlock \/ OperatorClean
              \/ OperatorDrop
       PROVE  AddingTypes'
  BY <1>1, <1>11 DEF ProxyRun, ProxyFails, ProxyAnswer, PrepareBlock, OperatorClean, OperatorDrop
<1>12. CASE UNCHANGED allVars
  BY <1>1, <1>12 DEF allVars, poolVars
<1> QED
  BY <1>3, <1>4, <1>5, <1>6, <1>7, <1>8, <1>9, <1>10, <1>11, <1>12
     DEF NextPayments, NextPool, Held

\* The pool, the map in memory, the rows, the session of the proxy and the additions
\* under way have their types in every state of any node.
THEOREM PoolTypes == SpecPayments => []TypeOKPool
<1>1. PoolInv /\ AddingTypes => TypeOKPool
  <2> SUFFICES ASSUME PoolInv, AddingTypes  PROVE  TypeOKPool
    OBVIOUS
  <2> QED  BY PoolFacts DEF PoolGood, PoolState, AddingTypes, TypeOKPool
<1>2. InitPool => AddingTypes
  BY DEF InitPool, AddingTypes
<1> QED  BY <1>1, <1>2, AddingStep, PoolInvHolds, PTL DEF SpecPayments

\* The map in memory (transactionsCache of the pool) never differs from the table
\* of pending transactions, unless a command has worked on the table.
THEOREM CacheIsAlwaysPool == SpecPayments => []CacheIsPool
<1>1. PoolInv => CacheIsPool
  <2> SUFFICES ASSUME PoolInv  PROVE  CacheIsPool
    OBVIOUS
  <2> QED  BY PoolFacts DEF PoolGood, Fresh, CacheIsPool
<1> QED  BY <1>1, PoolInvHolds, PTL

\* What BlockAdded, RepeatTransactionsFromCanceledBlocks and the verification of new
\* transactions leave in the pool is not approved, whatever blocks, branches, retries
\* and commands came, and however many additions are under way: a payment that is must
\* have been put when what it was verified by had gone.
THEOREM PoolIsNeverOnChain == SpecPayments => []PoolNotOnChain
<1>1. PoolInv => PoolNotOnChain
  <2> SUFFICES ASSUME PoolInv, ~CutShort, NEW t \in pool \cap TxsOn(top)
               PROVE  (t \in SQL => Ref[t] \in torn) /\ (Ins[t] # <<>> => Mixed)
    BY DEF PoolNotOnChain, Mixed
  <2>1. torn # Row
    BY HeldTypes DEF CutShort
  <2>2. Tracked(Derived, Current, Mixed)
    BY <2>1, PoolFacts DEF PoolGood
  <2>3. t \in Inside(Current) /\ t \in TxsOn(Derived.top)
    BY PoolFacts DEF Inside
  <2>4. Excused(t, torn, Mixed)
    <3>1. Excused(t, torn \cup Forgotten(Derived), Mixed) /\ Forgotten(Derived) \subseteq torn
      BY <2>2, <2>3, PoolFacts DEF Tracked, Clean
    <3> QED  BY <3>1 DEF Excused
  <2> QED  BY <2>4 DEF Excused
<1> QED  BY <1>1, PoolInvHolds, PTL

\* The pool and its map never hold two transactions that spend the same output or
\* follow the same one on a row: Add looks for conflicts in the map, and nothing
\* pending is missing there, through cancellations beside the daemon, retries of
\* replaced blocks, sessions of the proxy and restarts.  An addition that is under way
\* brings one only by a put that came after its rival's, or after that of its block.
THEOREM PoolNeverHasRivals == SpecPayments => []PoolHasNoRivals
<1>1. PoolInv => PoolHasNoRivals
  <2> SUFFICES ASSUME PoolInv  PROVE  PoolHasNoRivals
    OBVIOUS
  <2>1. drops = 0 /\ ~crossed => ~Mixed
    BY DEF Mixed
  <2> QED  BY <2>1, PoolFacts DEF PoolGood, PoolHasNoRivals
<1> QED  BY <1>1, PoolInvHolds, PTL

\* What a pending statement follows on its row is pending or approved: nothing that
\* another pending transaction is based on is cancelled or rolled back alone.
THEOREM PoolAlwaysHasBases == SpecPayments => []PoolHasBases
<1>1. PoolInv => PoolHasBases
  <2> SUFFICES ASSUME PoolInv  PROVE  PoolHasBases
    OBVIOUS
  <2> QED  BY PoolFacts DEF PoolGood, Based, PoolHasBases
<1> QED  BY <1>1, PoolInvHolds, PTL

(***************************************************************************)
(* The block that is prepared.  What the selection leaves in its list fits *)
(* after what is before it; the index and the references say the same as   *)
(* the branch, and no two pending transactions are rivals: then the list   *)
(* is valid, and the second look at the inputs takes nothing out of it.    *)
(***************************************************************************)

\* Some positions of a list have a last one.
LEMMA LastPositionIsOne ==
  ASSUME NEW m \in Nat, NEW S \in SUBSET (1..m), S # {}
  PROVE  Max(S) \in S
<1> DEFINE T == {m - i : i \in S}
<1>1. T \in SUBSET Nat /\ T # {}
  <2>1. \A i \in S : m - i \in Nat
    OBVIOUS
  <2> QED  BY <2>1
<1>2. PICK k \in T : \A j \in T : k <= j
  <2> HIDE DEF T
  <2> QED  BY <1>1, Walks!LeastNumber
<1>3. PICK x \in S : k = m - x
  BY <1>2
<1>4. \A y \in S : x >= y
  <2> SUFFICES ASSUME NEW y \in S  PROVE  x >= y
    OBVIOUS
  <2>1. m - y \in T /\ x \in 1..m /\ y \in 1..m
    OBVIOUS
  <2>2. m - x <= m - y
    <3> HIDE DEF T
    <3> QED  BY <1>2, <1>3, <2>1
  <2> QED  BY <2>1, <2>2
<1> QED  BY <1>4 DEF Max

\* The base of a statement is one of the list, or the one of the branch.
LEMMA BaseInListIs ==
  ASSUME NEW X, NEW list \in Seq(X), NEW n, NEW t
  PROVE  BaseInList(n, list, t) \in Members(list) \cup {BaseOnChain(n, t)}
<1> DEFINE R == {i \in DOMAIN list : Ref[list[i]] = Ref[t]}
<1>1. Len(list) \in Nat /\ R \in SUBSET (1..Len(list)) /\ R \subseteq DOMAIN list
  OBVIOUS
<1>2. BaseInList(n, list, t) = IF R # {} THEN list[Max(R)] ELSE BaseOnChain(n, t)
  BY DEF BaseInList
<1> HIDE DEF R
<1>3. R # {} => Max(R) \in DOMAIN list
  BY <1>1, LastPositionIsOne
<1> QED  BY <1>2, <1>3 DEF Members

\* An input is found good when it is an unspent output of the branch, or one of what
\* was given, when the branch does not have its transaction.
LEMMA GoodInputIs ==
  ASSUME NEW n, NEW blocks, Knows(n, blocks, FALSE), NEW given, NEW x, x[1] \in Tx
  PROVE  InputGood(n, given, x)
           <=> IF x[1] \in TxsOn(n.top) THEN x \in UnspentOn(n.top) ELSE x[1] \in given
<1> DEFINE idx == Index(Branch(n.top), n.links, n.spent)
           y == x[1]
           b == n.top
<1>1. /\ idx.chain = Branch(n.top) /\ idx.links = n.links /\ idx.spent = n.spent
      /\ b \in Block /\ Branch(b) \subseteq blocks /\ blocks \subseteq Block
  BY DEF Index, Knows
<1>2. InputGood(n, given, x)
        <=> IF BlockUnder(idx, y, NoHash) = NoHash THEN y \in given ELSE x \in UnspentUnder(idx, y, b)
  BY DEF InputGood
<1>3. IsIndexOf(idx, blocks)
  BY <1>1 DEF Knows, IsIndexOf
<1>4. BlockUnder(idx, y, NoHash) # NoHash <=> y \in TxsOn(b)
  <2>1. NoHash \notin idx.chain
    BY <1>1, BranchFacts, TreeFacts
  <2>2. BlockUnder(idx, y, NoHash) # NoHash <=> idx.links[y] \cap idx.chain # {}
    <3> HIDE DEF idx
    <3> QED  BY <2>1 DEF BlockUnder, ChooseHashUnderTip
  <2>3. idx.links[y] = {c \in blocks : y \in TxsOf(c)}
    BY <1>1 DEF Knows, LinksOf
  <2> QED  BY <1>1, <2>2, <2>3 DEF TxsOn
<1> HIDE DEF idx, y, b
<1>5. y \in TxsOn(b) => UnspentUnder(idx, y, b) = {z \in UnspentOn(b) : z[1] = y}
  BY <1>1, <1>3, OutputsAreFound
<1>6. InputGood(n, given, x) <=> IF y \in TxsOn(b) THEN x \in UnspentOn(b) ELSE y \in given
  BY <1>2, <1>4, <1>5 DEF y
<1> QED  BY <1>6 DEF y, b

\* What fits after a part of the list, in the words of the walk over the branch.
LEMMA FittingIsValid ==
  ASSUME NEW n, NEW blocks, Knows(n, blocks, FALSE), Forgotten(n) = {},
         NEW p \in PoolState, Fresh(p), NoRivals(p), p.pool \cap TxsOn(n.top) = {},
         NEW list \in Seq(p.pool), NEW t \in p.pool, t \notin Members(list),
         FitsAfter(n, list, t)
  PROVE  ValidAfter(TxsOn(n.top) \cup Members(list), t)
<1> DEFINE C == TxsOn(n.top)
           L == Members(list)
<1>1. /\ n.top \in Block /\ L \subseteq p.pool /\ p.pool \subseteq Held /\ Known(p) = p.pool
      /\ C \subseteq Tx /\ Held \subseteq Tx /\ t \in Tx
  <2>1. n.top \in Block /\ L \subseteq p.pool
    BY DEF Knows, Members
  <2> QED  BY <2>1, KnownIs, TxsOnBelow, BranchFacts, HeldTypes DEF PoolState
<1>2. \A d \in L : InsOf(d) \cap InsOf(t) = {} /\ ~SameBase(d, t)
  BY <1>1 DEF NoRivals, Conflicts
<1>3. \A x \in InsOf(t) : x[1] \in Tx
  <2> SUFFICES ASSUME NEW x \in InsOf(t)  PROVE  x[1] \in Tx
    OBVIOUS
  <2>1. x \in Tx \X Nat
    BY <1>1, TxTypes, ElementOfSeq DEF InsOf
  <2> QED  BY <2>1
<1>4. t \notin C \cup L
  OBVIOUS
<1>5. ASSUME NEW x \in InsOf(t)  PROVE  x[1] \in C \cup L /\ x \notin SpentBy(C \cup L)
  <2>1. x[1] \in Tx /\ InputGood(n, L, x)
    BY <1>3 DEF FitsAfter, InputsGood
  <2>2. IF x[1] \in C THEN x \in UnspentOn(n.top) ELSE x[1] \in L
    BY <2>1, GoodInputIs
  <2>3. \A d \in C : x \notin InsOf(d)
    <3>1. CASE x[1] \in C
      BY <2>2, <3>1 DEF UnspentOn
    <3>2. CASE x[1] \notin C
      BY <1>1, <3>2, BranchHoldsInputs DEF HoldsInputs
    <3> QED  BY <3>1, <3>2
  <2> HIDE DEF C, L
  <2>4. x \notin SpentBy(C \cup L)
    BY <1>2, <2>3 DEF SpentBy
  <2> QED  BY <2>2, <2>4
<1>6. Base[t] # NoTx => Base[t] \in L \cup {BaseOnChain(n, t)}
  BY BaseInListIs DEF FitsAfter
<1>7. ASSUME Base[t] # NoTx, Base[t] = BaseOnChain(n, t)
      PROVE  \E r \in Row : /\ Base[t] \in LastOfRow(n.top, r)
                            /\ r = Ref[t] \/ (r = Table /\ n.refs[Ref[t]] = NoTx)
  <2>1. Ref[t] \in Row /\ Table \in Row
    BY <1>1, <1>7, Transactions, HeldTypes
  <2>2. \E r \in Row : n.refs[r] = Base[t] /\ (r = Ref[t] \/ (r = Table /\ n.refs[Ref[t]] = NoTx))
    BY <1>7, <2>1 DEF BaseOnChain
  <2> QED  BY <1>7, <2>2 DEF Knows, RefsRight
<1>8. Base[t] # NoTx => Base[t] \in C \cup L
  BY <1>1, <1>6, <1>7, LastIsOnBranch
<1>9. ASSUME NEW d \in C \cup L, Ref[t] \in DataRow, OnSameRow(d), Base[d] = Base[t], Ref[d] = Ref[t]
      PROVE  FALSE
  <2>1. d \in SQL /\ t \in SQL /\ Base[t] # NoTx /\ Ref[Base[d]] = Ref[d]
    BY <1>1, <1>9, HeldTypes DEF OnSameRow
  <2>2. d \notin L
    BY <1>2, <1>9, <2>1 DEF SameBase
  <2>3. Base[t] \in C /\ Base[t] \notin LastOfRow(n.top, Ref[t])
    BY <1>1, <1>9, <2>1, <2>2, FollowedIsNotLast
  <2>4. Base[t] \notin L
    BY <1>1, <2>3
  <2>5. PICK r \in Row : Base[t] \in LastOfRow(n.top, r)
                         /\ (r = Ref[t] \/ (r = Table /\ n.refs[Ref[t]] = NoTx))
    BY <1>6, <1>7, <2>1, <2>4
  <2>6. Ref[Base[t]] = r
    BY <1>1, <2>5, LastIsOnBranch
  <2>7. Table \notin DataRow
    BY DEF DataRow
  <2> QED  BY <1>9, <2>1, <2>3, <2>5, <2>6, <2>7
<1> HIDE DEF C, L
<1>10. ValidAfter(C \cup L, t)
  BY <1>4, <1>5, <1>8, <1>9 DEF ValidAfter
<1> QED  BY <1>10 DEF C, L

\* The beginning of a list.
LEMMA BeginningIsList ==
  ASSUME NEW X, NEW list \in Seq(X), NEW k \in 0..Len(list)
  PROVE  SubSeq(list, 1, k) \in Seq(X)
<1> DEFINE one == 1
<1>1. one \in Int /\ k \in Int /\ \A i \in one..k : list[i] \in X
  OBVIOUS
<1> HIDE DEF one
<1>2. SubSeq(list, one, k) \in Seq(X)
  BY <1>1, SubSeqProperties
<1> QED  BY <1>2 DEF one

\* A list with one more at its end.
LEMMA AppendedIs ==
  ASSUME NEW X, NEW list \in Seq(X), NEW t \in X
  PROVE  LET more == Append(list, t)
         IN  /\ more \in Seq(X) /\ Len(more) = Len(list) + 1
             /\ \A i \in 1..Len(list) :
                  more[i] = list[i] /\ SubSeq(more, 1, i - 1) = SubSeq(list, 1, i - 1)
             /\ more[Len(list) + 1] = t /\ SubSeq(more, 1, Len(list)) = list
             /\ Members(more) = Members(list) \cup {t}
<1> DEFINE more == Append(list, t)
           m == Len(list)
<1>1. /\ m \in Nat /\ DOMAIN list = 1..m /\ more \in Seq(X) /\ Len(more) = m + 1
      /\ DOMAIN more = 1..(m + 1) /\ more[m + 1] = t
      /\ \A i \in 1..m : more[i] = list[i] /\ list[i] \in X
  OBVIOUS
<1>2. ASSUME NEW i \in 1..m  PROVE  SubSeq(more, 1, i - 1) = SubSeq(list, 1, i - 1)
  BY <1>1
<1>3. SubSeq(more, 1, m) = list
  BY <1>1
<1>4. Members(more) = Members(list) \cup {t}
  <2>1. \A i \in 1..(m + 1) : i \in 1..m \/ i = m + 1
    BY <1>1
  <2>2. 1..m \subseteq 1..(m + 1) /\ m + 1 \in 1..(m + 1)
    BY <1>1
  <2> HIDE DEF more, m
  <2> QED  BY <1>1, <2>1, <2>2 DEF Members
<1> QED  BY <1>1, <1>2, <1>3, <1>4

\* A list without repetition, where each one fits after those before it.
FitLists(n, X) ==
  {list \in Seq(X) :
     \A i \in 1..Len(list) : /\ list[i] \notin Members(SubSeq(list, 1, i - 1))
                             /\ FitsAfter(n, SubSeq(list, 1, i - 1), list[i])}

LEMMA OneMoreFits ==
  ASSUME NEW n, NEW X, NEW list \in FitLists(n, X), NEW t \in X, t \notin Members(list),
         FitsAfter(n, list, t)
  PROVE  Append(list, t) \in FitLists(n, X) /\ Members(Append(list, t)) = Members(list) \cup {t}
<1> DEFINE more == Append(list, t)
           m == Len(list)
<1>1. list \in Seq(X) /\ m \in Nat
  BY DEF FitLists
<1>2. /\ more \in Seq(X) /\ Len(more) = m + 1 /\ more[m + 1] = t /\ SubSeq(more, 1, m) = list
      /\ \A i \in 1..m : more[i] = list[i] /\ SubSeq(more, 1, i - 1) = SubSeq(list, 1, i - 1)
      /\ Members(more) = Members(list) \cup {t}
  BY <1>1, AppendedIs
<1> HIDE DEF more
<1>3. ASSUME NEW i \in 1..(m + 1)
      PROVE  /\ more[i] \notin Members(SubSeq(more, 1, i - 1))
             /\ FitsAfter(n, SubSeq(more, 1, i - 1), more[i])
  <2>1. CASE i \in 1..m
    BY <1>2, <2>1 DEF FitLists
  <2>2. CASE i = m + 1
    <3>1. i - 1 = m
      BY <1>1, <2>2
    <3> QED  BY <1>2, <2>2, <3>1
  <2> QED  BY <1>1, <2>1, <2>2
<1>4. more \in FitLists(n, X)
  BY <1>2, <1>3 DEF FitLists
<1> QED  BY <1>2, <1>4 DEF more

\* What the first look at the selected transactions leaves: they are visited by
\* their time, each once.
LEMMA TriedOnesFit ==
  ASSUME NEW n, NEW p \in PoolState, NEW S
  PROVE  LET fit == TriesTx!Fold(<<n, S>>, [p |-> p, list |-> <<>>], Timeline)
         IN  fit.p \in PoolState /\ fit.list \in FitLists(n, S)
<1> DEFINE c == <<n, S>>
           base == [p |-> p, list |-> <<>>]
           m == Len(Timeline)
           Visited(k) == {Timeline[j] : j \in 1..k}
           Lists(k) == {list \in FitLists(n, S) : Members(list) \subseteq Visited(k)}
           F == [k \in 0..m |-> [p : PoolState, list : Lists(k)]]
<1>1. Timeline \in Seq(Held) /\ m \in Nat /\ DOMAIN Timeline = 1..m
  <2>1. Len(Timeline) \in Nat /\ Timeline \in [1..Len(Timeline) -> Held]
    BY Pending, LenProperties DEF Held, Members
  <2> QED  BY <2>1
<1>2. \A k \in 0..m : F[k] = [p : PoolState, list : Lists(k)]
  OBVIOUS
<1> HIDE DEF F
<1>3. base \in F[0]
  <2>1. <<>> \in FitLists(n, S) /\ Members(<<>>) = {}
    BY DEF FitLists, Members
  <2>2. <<>> \in Lists(0) /\ 0 \in 0..m
    BY <1>1, <2>1
  <2> HIDE DEF Lists
  <2> QED  BY <1>2, <2>2
<1>4. ASSUME NEW k \in 1..m, NEW s \in F[k - 1]  PROVE  TryTxOp(c, s, Timeline[k]) \in F[k]
  <2> DEFINE t == Timeline[k]
  <2>1. k - 1 \in 0..m /\ k \in 0..m /\ t \in Held
    BY <1>1
  <2>2. s \in [p : PoolState, list : Lists(k - 1)]
    BY <1>2, <2>1
  <2>3. s.p \in PoolState /\ s.list \in FitLists(n, S) /\ Members(s.list) \subseteq Visited(k - 1)
    BY <2>2
  <2>4. Visited(k - 1) \subseteq Visited(k) /\ t \in Visited(k)
    BY <1>1
  <2>5. t \notin Visited(k - 1)
    <3> SUFFICES ASSUME NEW j \in 1..(k - 1), Timeline[j] = Timeline[k]  PROVE  FALSE
      OBVIOUS
    <3>1. j \in DOMAIN Timeline /\ k \in DOMAIN Timeline /\ j # k
      BY <1>1
    <3> QED  BY <3>1, Pending
  <2>6. s.list \in Lists(k)
    BY <2>3, <2>4
  <2>7. CASE t \in S /\ FitsAfter(n, s.list, t)
    <3>1. Append(s.list, t) \in FitLists(n, S) /\ Members(Append(s.list, t)) = Members(s.list) \cup {t}
      BY <2>3, <2>5, <2>7, OneMoreFits
    <3>2. Append(s.list, t) \in Lists(k)
      BY <2>3, <2>4, <3>1
    <3>3. TryTxOp(c, s, t) = [s EXCEPT !.list = Append(@, t)]
      BY <2>7 DEF TryTxOp, TryTx
    <3> HIDE DEF Lists, t
    <3>4. [s EXCEPT !.list = Append(@, t)] \in [p : PoolState, list : Lists(k)]
      BY <2>2, <3>2
    <3> QED  BY <1>2, <2>1, <3>3, <3>4 DEF t
  <2>8. CASE t \in S /\ ~FitsAfter(n, s.list, t)
    <3> DEFINE none == {}
    <3>1. CancelAnyway(s.p, t) \in Less(s.p, none)
      <4> HIDE DEF none, t
      <4> QED  BY <2>1, <2>3, CancelAnywayTakes
    <3>2. CancelAnyway(s.p, t) \in PoolState
      BY <3>1 DEF Less
    <3>3. TryTxOp(c, s, t) = [s EXCEPT !.p = CancelAnyway(@, t)]
      BY <2>8 DEF TryTxOp, TryTx
    <3> HIDE DEF Lists, t
    <3>4. [s EXCEPT !.p = CancelAnyway(@, t)] \in [p : PoolState, list : Lists(k)]
      BY <2>2, <2>6, <3>2
    <3> QED  BY <1>2, <2>1, <3>3, <3>4 DEF t
  <2>9. CASE t \notin S
    <3>1. TryTxOp(c, s, t) = s
      BY <2>9 DEF TryTxOp
    <3> HIDE DEF Lists, t
    <3> QED  BY <1>2, <2>1, <2>2, <2>6, <3>1 DEF t
  <2> QED  BY <2>7, <2>8, <2>9
<1>5. TriesTx!Fold(c, base, Timeline) \in F[m]
  <2> HIDE DEF c, base, m
  <2> QED  BY <1>1, <1>3, <1>4, TriesTx!FoldReaches DEF m
<1>6. TriesTx!Fold(c, base, Timeline) \in [p : PoolState, list : Lists(m)]
  <2>1. m \in 0..m
    BY <1>1
  <2> HIDE DEF c, base, m, Lists
  <2> QED  BY <1>2, <1>5, <2>1
<1> QED  BY <1>6

\* The second look finds nothing, when no two of the list spend the same output.
LEMMA InputsStay ==
  ASSUME NEW p \in PoolState, NEW q \in PoolState, Fresh(p), NoRivals(p),
         NEW n, NEW list \in FitLists(n, p.pool)
  PROVE  LET zero == 0
             next == [p |-> q, list |-> <<>>, seen |-> {}]
         IN  TriesInputs!Fold(zero, next, list).list = list
<1> DEFINE zero == 0
           next == [p |-> q, list |-> <<>>, seen |-> {}]
           m == Len(list)
           Upto(k) == SubSeq(list, 1, k)
           F == [k \in 0..m |-> [p : PoolState, list : {Upto(k)},
                                 seen : SUBSET SpentBy(Members(Upto(k)))]]
<1>1. list \in Seq(p.pool) /\ m \in Nat /\ Known(p) = p.pool /\ p.pool \subseteq Held
  BY KnownIs DEF FitLists, PoolState
<1>2. \A k \in 0..m : F[k] = [p : PoolState, list : {Upto(k)},
                              seen : SUBSET SpentBy(Members(Upto(k)))]
  OBVIOUS
<1> HIDE DEF F
<1>3. next \in F[0]
  <2>1. Upto(0) = <<>> /\ 0 \in 0..m
    BY <1>1
  <2> QED  BY <1>2, <2>1
<1>4. ASSUME NEW k \in 1..m, NEW s \in F[k - 1]  PROVE  TryInputsOp(zero, s, list[k]) \in F[k]
  <2> DEFINE t == list[k]
             L == Members(Upto(k - 1))
  <2>1. k - 1 \in 0..m /\ k \in 0..m /\ t \in p.pool
    BY <1>1
  <2>2. Upto(k) = Append(Upto(k - 1), t) /\ Upto(k - 1) \in Seq(p.pool)
    <3>1. Upto(k - 1) \in Seq(p.pool)
      BY <1>1, <2>1, BeginningIsList
    <3>2. Upto(k) = Append(Upto(k - 1), t)
      BY <1>1
    <3> QED  BY <3>1, <3>2
  <2>3. s \in [p : PoolState, list : {Upto(k - 1)}, seen : SUBSET SpentBy(L)]
    BY <1>2, <2>1
  <2>4. L \subseteq p.pool /\ t \notin L /\ Members(Upto(k)) = L \cup {t}
    <3> DEFINE before == Upto(k - 1)
    <3>1. before \in Seq(p.pool) /\ Members(before) \subseteq p.pool
      <4>1. before \in Seq(p.pool)
        BY <2>2
      <4> HIDE DEF before
      <4> QED  BY <4>1 DEF Members
    <3>2. t \notin Members(before)
      BY DEF FitLists
    <3>3. Members(Append(before, t)) = Members(before) \cup {t}
      <4> HIDE DEF before, t
      <4> QED  BY <2>1, <3>1, AppendedIs DEF t
    <3> QED  BY <2>2, <3>1, <3>2, <3>3
  <2>5. InsOf(t) \cap SpentBy(L) = {}
    <3>1. \A d \in L : InsOf(d) \cap InsOf(t) = {}
      BY <1>1, <2>1, <2>4 DEF NoRivals, Conflicts
    <3> HIDE DEF L
    <3> QED  BY <3>1 DEF SpentBy
  <2>6. Unseen(s.seen, t) = DOMAIN Ins[t]
    <3>1. \A j \in DOMAIN Ins[t] : Ins[t][j] \notin s.seen
      BY <2>3, <2>5 DEF InsOf
    <3>2. \A i \in DOMAIN Ins[t] : \A j \in 1..i : j \in DOMAIN Ins[t]
      <4>1. t \in Tx
        BY <1>1, <2>1, HeldTypes
      <4>2. Ins[t] \in Seq(Tx \X Nat)
        BY <4>1, TxTypes
      <4>3. DOMAIN Ins[t] = 1..Len(Ins[t]) /\ Len(Ins[t]) \in Nat
        BY <4>2
      <4> QED  BY <4>3
    <3> QED  BY <3>1, <3>2 DEF Unseen
  <2> DEFINE marked == s.seen \cup {Ins[t][i] : i \in Unseen(s.seen, t)}
  <2>7. TryInputsOp(zero, s, t) = [s EXCEPT !.list = Append(@, t), !.seen = marked]
    BY <2>6 DEF TryInputsOp, TryInputs
  <2>8. marked \in SUBSET SpentBy(Members(Upto(k)))
    <3>1. marked = s.seen \cup InsOf(t)
      BY <2>6 DEF InsOf
    <3>2. SpentBy(L \cup {t}) = SpentBy(L) \cup InsOf(t)
      BY DEF SpentBy
    <3> HIDE DEF marked, L
    <3> QED  BY <2>3, <2>4, <3>1, <3>2
  <2>9. Append(s.list, t) = Upto(k)
    BY <2>2, <2>3
  <2> HIDE DEF marked, t, L, Upto
  <2>10. [s EXCEPT !.list = Append(@, t), !.seen = marked]
           \in [p : PoolState, list : {Upto(k)}, seen : SUBSET SpentBy(Members(Upto(k)))]
    BY <2>3, <2>8, <2>9
  <2> QED  BY <1>2, <2>1, <2>7, <2>10 DEF t
<1>5. TriesInputs!Fold(zero, next, list) \in F[m]
  <2> HIDE DEF zero, next, m
  <2> QED  BY <1>1, <1>3, <1>4, TriesInputs!FoldReaches DEF m
<1>6. Upto(m) = list /\ m \in 0..m
  BY <1>1
<1>7. TriesInputs!Fold(zero, next, list).list = list
  <2> DEFINE last == TriesInputs!Fold(zero, next, list)
  <2>1. last \in [p : PoolState, list : {Upto(m)}, seen : SUBSET SpentBy(Members(Upto(m)))]
    <3> HIDE DEF last, Upto, m
    <3> QED  BY <1>2, <1>5, <1>6 DEF last
  <2> HIDE DEF last, Upto, m
  <2>2. last.list = list
    BY <1>6, <2>1
  <2> QED  BY <2>2 DEF last
<1> QED  BY <1>7

\* The blocks that GetUnapprovedTransactionsForNewBlock makes of the pool are valid
\* on the top, whichever transactions are selected: no input is spent twice or is
\* not there, and each statement follows the last one of its row.
THEOREM PreparedBlocksAreValid == SpecPayments => []PreparedIsValid
<1>1. PoolInv => PreparedIsValid
  <2> DEFINE n == Derived
             p == Loaded(Current)
  <2> SUFFICES ASSUME PoolInv, torn = {}, drops = 0, ~touched, ~crossed, NEW S \in Selections(p)
               PROVE  ValidList(Selected(n, p, S).list)
    BY DEF PreparedIsValid
  <2>1. /\ torn # Row /\ ~Mixed /\ PoolGood(n, p, asked, ran, Mixed)
        /\ Knows(n, stored, Mixed) /\ n.top = top /\ p \in PoolState
        /\ p.torn = {} /\ ~p.touched
    <3>1. torn # Row /\ ~Mixed
      BY HeldTypes DEF Mixed
    <3> QED  BY <3>1, PoolFacts, LoadedIsGood, LoadedIs
  <2>2. Fresh(p) /\ NoRivals(p) /\ Tracked(n, p, Mixed) /\ Knows(n, stored, FALSE)
    <3>1. Fresh(p) /\ NoRivals(p) /\ Tracked(n, p, Mixed)
      BY <2>1, HeldTypes DEF PoolGood
    <3>2. Mixed = FALSE
      BY <2>1
    <3> QED  BY <2>1, <3>1, <3>2
  <2>3. Forgotten(n) = {} /\ p.pool \cap TxsOn(n.top) = {}
    <3>1. Forgotten(n) = {}
      BY <2>1, <2>2 DEF Tracked
    <3>2. \A x \in p.pool \cap TxsOn(n.top) : x \in Held /\ Excused(x, {}, Mixed)
      BY <2>1, <2>2, <3>1 DEF Tracked, Clean, Inside, PoolState
    <3>3. \A x \in p.pool \cap TxsOn(n.top) : x \notin SQL /\ Ins[x] = <<>>
      BY <2>1, <3>2 DEF Excused
    <3> QED  BY <3>1, <3>2, <3>3, Pending
  <2>4. S \subseteq p.pool
    BY <2>2 DEF Selections, Fresh
  <2> DEFINE zero == 0
             fit == TriesTx!Fold(<<n, S>>, [p |-> p, list |-> <<>>], Timeline)
             next == [p |-> fit.p, list |-> <<>>, seen |-> {}]
             list == fit.list
  <2> HIDE DEF n, p
  <2>5. fit.p \in PoolState /\ list \in FitLists(n, S)
    BY <2>1, TriedOnesFit
  <2>6. Selected(n, p, S) = TriesInputs!Fold(zero, next, list)
    BY SelectedFolds
  <2> HIDE DEF fit
  <2>7. list \in FitLists(n, p.pool)
    BY <2>4, <2>5 DEF FitLists
  <2>8. Selected(n, p, S).list = list
    <3> DEFINE q == fit.p
    <3>1. q \in PoolState
      BY <2>5
    <3> HIDE DEF list, q
    <3>2. TriesInputs!Fold(zero, [p |-> q, list |-> <<>>, seen |-> {}], list).list = list
      BY <2>1, <2>2, <2>7, <3>1, InputsStay
    <3> QED  BY <2>6, <3>2 DEF q
  <2> HIDE DEF list
  <2>9. ASSUME NEW i \in DOMAIN list
        PROVE  ValidAfter(TxsOn(top) \cup Members(SubSeq(list, 1, i - 1)), list[i])
    <3> DEFINE before == SubSeq(list, 1, i - 1)
    <3>1. list \in Seq(p.pool) /\ i \in 1..Len(list) /\ Len(list) \in Nat
      BY <2>7 DEF FitLists
    <3>2. before \in Seq(p.pool) /\ list[i] \in p.pool
      <4> DEFINE k == i - 1
      <4>1. k \in 0..Len(list) /\ list[i] \in p.pool
        BY <3>1
      <4> HIDE DEF k
      <4> QED  BY <3>1, <4>1, BeginningIsList DEF k
    <3>3. list[i] \notin Members(before) /\ FitsAfter(n, before, list[i])
      BY <2>7, <3>1 DEF FitLists
    <3> DEFINE t == list[i]
    <3> HIDE DEF before, t
    <3>4. ValidAfter(TxsOn(n.top) \cup Members(before), t)
      BY <2>1, <2>2, <2>3, <3>2, <3>3, FittingIsValid DEF t
    <3> QED  BY <2>1, <3>4 DEF before, t
  <2> QED  BY <2>8, <2>9 DEF ValidList
<1> QED  BY <1>1, PoolInvHolds, PTL
=====
