----------------------------- MODULE RowsProofs -----------------------------
(***************************************************************************)
(* Every row is what the statements in force make of it: the invariant     *)
(* behind RowsAreReplayed, for every step of the pool.                     *)
(* And what a switch of branches gives back to the pool.                   *)
(***************************************************************************)
EXTENDS PoolProofs

(***************************************************************************)
(* The line of a transaction: what it follows on its row, back to the      *)
(* insert with which the row began.                                        *)
(***************************************************************************)

HasBases(D) == \A t \in D : OnSameRow(t) => Base[t] \in D
LineOf(t) == {x \in Tx : \A D \in SUBSET Tx : t \in D /\ HasBases(D) => x \in D}

\* A base is a transaction, or none.
LEMMA BaseTypes ==
  ASSUME NEW t \in Tx
  PROVE  /\ Base[t] \in Tx \cup {NoTx} /\ NoTx \notin Tx
         /\ OnSameRow(t) => Base[t] \in Tx /\ Ref[Base[t]] = Ref[t]
         /\ Base[t] # t
<1>1. Base[t] \in Tx \cup {NoTx} /\ NoTx \notin Tx
  BY Transactions
<1>2. Base[t] # t
  <2>1. \E x \in {t} : Base[x] \notin {t}
    <3>1. {t} \in SUBSET Tx /\ {t} # {}
      OBVIOUS
    <3> QED  BY <3>1, Histories
  <2> QED  BY <2>1
<1> QED  BY <1>1, <1>2 DEF OnSameRow

\* A line begins with its transaction, has the bases of all it has, and is about
\* one row.
LEMMA LineFacts ==
  ASSUME NEW t \in Tx
  PROVE  /\ t \in LineOf(t) /\ LineOf(t) \in SUBSET Tx /\ HasBases(LineOf(t))
         /\ \A D \in SUBSET Tx : t \in D /\ HasBases(D) => LineOf(t) \subseteq D
         /\ \A x \in LineOf(t) : Ref[x] = Ref[t]
<1>1. t \in LineOf(t) /\ LineOf(t) \in SUBSET Tx
  BY DEF LineOf
<1>2. \A D \in SUBSET Tx : t \in D /\ HasBases(D) => LineOf(t) \subseteq D
  BY DEF LineOf
<1>3. ASSUME NEW x \in LineOf(t), OnSameRow(x)  PROVE  Base[x] \in LineOf(t)
  <2>1. x \in Tx
    BY <1>1
  <2>2. Base[x] \in Tx
    BY <1>3, <2>1, BaseTypes
  <2>3. ASSUME NEW D \in SUBSET Tx, t \in D, HasBases(D)  PROVE  Base[x] \in D
    <3>1. x \in D
      BY <1>2, <2>3
    <3> QED  BY <1>3, <2>3, <3>1
       DEF HasBases
  <2> QED  BY <2>2, <2>3
     DEF LineOf
<1>4. \A x \in LineOf(t) : Ref[x] = Ref[t]
  <2> DEFINE D == {x \in Tx : Ref[x] = Ref[t]}
  <2>1. D \in SUBSET Tx /\ t \in D
    OBVIOUS
  <2>2. HasBases(D)
    BY BaseTypes DEF HasBases
  <2>3. LineOf(t) \subseteq D
    BY <1>2, <2>1, <2>2
  <2> QED  BY <2>3
<1> QED  BY <1>1, <1>2, <1>3, <1>4
   DEF HasBases

\* A line is its transaction put after the line of the base.
LEMMA LineStep ==
  ASSUME NEW t \in Tx
  PROVE  LineOf(t) = {t} \cup IF OnSameRow(t) THEN LineOf(Base[t]) ELSE {}
<1> DEFINE E == {t} \cup IF OnSameRow(t) THEN LineOf(Base[t]) ELSE {}
<1>1. E \in SUBSET Tx /\ t \in E
  <2>1. CASE OnSameRow(t)
    <3>1. Base[t] \in Tx
      BY <2>1, BaseTypes
    <3>2. LineOf(Base[t]) \in SUBSET Tx
      BY <3>1, LineFacts
    <3> QED  BY <3>2
  <2>2. CASE ~OnSameRow(t)
    BY <2>2
  <2> QED  BY <2>1, <2>2
<1>2. ASSUME NEW x \in E, OnSameRow(x)  PROVE  Base[x] \in E
  <2>1. CASE OnSameRow(t)
    <3>1. Base[t] \in Tx
      BY <2>1, BaseTypes
    <3>2. Base[t] \in LineOf(Base[t]) /\ HasBases(LineOf(Base[t]))
      BY <3>1, LineFacts
    <3>3. CASE x = t
      BY <2>1, <3>2, <3>3
    <3>4. CASE x # t
      <4>1. x \in LineOf(Base[t])
        BY <2>1, <3>4
      <4>2. Base[x] \in LineOf(Base[t])
        BY <1>2, <3>2, <4>1 DEF HasBases
      <4> QED  BY <2>1, <4>2
    <3> QED  BY <3>3, <3>4
  <2>2. CASE ~OnSameRow(t)
    BY <1>2, <2>2
  <2> QED  BY <2>1, <2>2
<1>3. LineOf(t) \subseteq E
  <2> HIDE DEF E
  <2>1. HasBases(E)
    BY <1>2 DEF HasBases
  <2> QED  BY <1>1, <2>1, LineFacts
<1>4. E \subseteq LineOf(t)
  <2>1. t \in LineOf(t)
    BY LineFacts
  <2>2. ASSUME OnSameRow(t)  PROVE  LineOf(Base[t]) \subseteq LineOf(t)
    <3>1. Base[t] \in Tx /\ Base[t] \in LineOf(t)
      BY <2>1, <2>2, BaseTypes, LineFacts DEF HasBases
    <3>2. LineOf(t) \in SUBSET Tx /\ HasBases(LineOf(t))
      BY LineFacts
    <3> QED  BY <3>1, <3>2, LineFacts
  <2> QED  BY <2>1, <2>2
<1> QED  BY <1>3, <1>4

\* Nothing in a line follows the transaction it is the line of.
LEMMA LineEnds ==
  ASSUME NEW l \in Tx, NEW d \in LineOf(l), OnSameRow(d)
  PROVE  Base[d] # l
<1> SUFFICES ASSUME Base[d] = l  PROVE  FALSE
  OBVIOUS
<1> DEFINE D == {x \in LineOf(l) : l \in LineOf(x)}
<1>1. LineOf(l) \in SUBSET Tx /\ l \in LineOf(l) /\ HasBases(LineOf(l))
  BY LineFacts
<1>2. PICK t \in D : Base[t] \notin D
  <2>1. D \in SUBSET Tx /\ D # {}
    BY <1>1
  <2> HIDE DEF D
  <2> QED  BY <2>1, Histories
<1>3. t \in Tx /\ t \in LineOf(l) /\ l \in LineOf(t)
  BY <1>1, <1>2
<1>4. OnSameRow(t) /\ l \in LineOf(Base[t])
  <2>1. CASE t = l
    <3>1. OnSameRow(l)
      <4>1. CASE d = l
        BY <4>1
      <4>2. CASE d # l
        BY <4>2, LineStep
      <4> QED  BY <4>1, <4>2
    <3>2. Base[l] \in Tx /\ LineOf(l) = {l} \cup LineOf(Base[l])
      BY <3>1, BaseTypes, LineStep
    <3>3. Base[l] \in LineOf(Base[l]) /\ HasBases(LineOf(Base[l]))
      BY <3>2, LineFacts
    <3>4. CASE d = l
      BY <2>1, <3>1, <3>3, <3>4
    <3>5. CASE d # l
      <4>1. d \in LineOf(Base[l])
        BY <3>2, <3>5
      <4>2. Base[d] \in LineOf(Base[l])
        BY <3>3, <4>1 DEF HasBases
      <4> QED  BY <2>1, <3>1, <4>2
    <3> QED  BY <3>4, <3>5
  <2>2. CASE t # l
    BY <1>3, <2>2, LineStep
  <2> QED  BY <2>1, <2>2
<1>5. Base[t] \in LineOf(l)
  BY <1>1, <1>3, <1>4 DEF HasBases
<1> QED  BY <1>2, <1>4, <1>5

\* Every other transaction of a line is followed in it.
LEMMA LineIsFollowed ==
  ASSUME NEW l \in Tx, NEW x \in LineOf(l), x # l
  PROVE  \E d \in LineOf(l) : OnSameRow(d) /\ Base[d] = x
<1> DEFINE D == {y \in LineOf(l) : y = l \/ \E d \in LineOf(l) : OnSameRow(d) /\ Base[d] = y}
<1>1. LineOf(l) \in SUBSET Tx /\ l \in LineOf(l) /\ HasBases(LineOf(l))
  BY LineFacts
<1>2. D \in SUBSET Tx /\ l \in D
  BY <1>1
<1>3. HasBases(D)
  <2>1. ASSUME NEW y \in D, OnSameRow(y)  PROVE  Base[y] \in D
    <3>1. y \in LineOf(l) /\ Base[y] \in LineOf(l)
      BY <1>1, <2>1 DEF HasBases
    <3> QED  BY <2>1, <3>1
  <2> HIDE DEF D
  <2> QED  BY <2>1 DEF HasBases
<1>4. LineOf(l) \subseteq D
  <2> HIDE DEF D
  <2> QED  BY <1>2, <1>3, LineFacts
<1> QED  BY <1>4

\* Two transactions of a line have different bases.
LEMMA LineHasNoFork ==
  ASSUME NEW l \in Tx, NEW d \in LineOf(l), NEW e \in LineOf(l), Base[d] = Base[e]
  PROVE  d = e
<1> DEFINE Forks(t) == \E x, y \in LineOf(t) : Base[x] = Base[y] /\ x # y
           F == {t \in Tx : Forks(t)}
<1> SUFFICES ASSUME d # e  PROVE  FALSE
  OBVIOUS
<1>1. PICK t \in F : Base[t] \notin F
  <2>1. F \in SUBSET Tx /\ F # {}
    OBVIOUS
  <2> HIDE DEF F
  <2> QED  BY <2>1, Histories
<1>2. PICK x \in LineOf(t), y \in LineOf(t) : Base[x] = Base[y] /\ x # y
  BY <1>1
<1>3. OnSameRow(t)
  <2> SUFFICES ASSUME ~OnSameRow(t)  PROVE  FALSE
    OBVIOUS
  <2>1. LineOf(t) = {t}
    BY LineStep
  <2> QED  BY <1>2, <2>1
<1>4. Base[t] \in Tx /\ Ref[Base[t]] = Ref[t] /\ LineOf(t) = {t} \cup LineOf(Base[t])
  BY <1>3, BaseTypes, LineStep
<1>5. ~(x \in LineOf(Base[t]) /\ y \in LineOf(Base[t]))
  BY <1>1, <1>2, <1>4
<1>6. PICK z \in LineOf(Base[t]) : Base[z] = Base[t]
  BY <1>2, <1>4, <1>5
<1>7. z \in Tx /\ Ref[z] = Ref[t]
  BY <1>4, LineFacts
<1>8. OnSameRow(z)
  BY <1>3, <1>4, <1>6, <1>7 DEF OnSameRow
<1> QED  BY <1>4, <1>6, <1>8, LineEnds

(***************************************************************************)
(* What the statements of a line make of the row.                          *)
(***************************************************************************)

\* A function that has, on part of the transactions, the values of RowAfter.
IsAfter(f, D) ==
  f = [t \in D |-> Execute(t, IF OnSameRow(t) THEN f[Base[t]] ELSE Absent)]

\* Two such functions agree where both are defined.
LEMMA AftersAgree ==
  ASSUME NEW D \in SUBSET Tx, NEW E \in SUBSET Tx, HasBases(D), HasBases(E),
         NEW f, NEW g, IsAfter(f, D), IsAfter(g, E), NEW t \in D \cap E
  PROVE  f[t] = g[t]
<1> DEFINE S == {x \in D \cap E : f[x] # g[x]}
<1> SUFFICES ASSUME f[t] # g[t]  PROVE  FALSE
  OBVIOUS
<1>1. PICK x \in S : Base[x] \notin S
  <2>1. S \in SUBSET Tx /\ S # {}
    OBVIOUS
  <2> HIDE DEF S
  <2> QED  BY <2>1, Histories
<1>2. /\ f[x] = Execute(x, IF OnSameRow(x) THEN f[Base[x]] ELSE Absent)
      /\ g[x] = Execute(x, IF OnSameRow(x) THEN g[Base[x]] ELSE Absent)
  BY DEF IsAfter
<1>3. OnSameRow(x) => f[Base[x]] = g[Base[x]]
  BY <1>1 DEF HasBases
<1> QED  BY <1>1, <1>2, <1>3

\* There is one for every line.
LEMMA AfterExists ==
  ASSUME NEW t \in Tx
  PROVE  \E f : IsAfter(f, LineOf(t))
<1> DEFINE S == {x \in Tx : ~ \E f : IsAfter(f, LineOf(x))}
<1> SUFFICES ASSUME ~ \E f : IsAfter(f, LineOf(t))  PROVE  FALSE
  OBVIOUS
<1>1. PICK x \in S : Base[x] \notin S
  <2>1. S \in SUBSET Tx /\ S # {}
    OBVIOUS
  <2> HIDE DEF S
  <2> QED  BY <2>1, Histories
<1>2. \E f : OnSameRow(x) => IsAfter(f, LineOf(Base[x]))
  BY <1>1, BaseTypes
<1>3. PICK f : OnSameRow(x) => IsAfter(f, LineOf(Base[x]))
  BY <1>2
<1> DEFINE g == [y \in LineOf(x) |-> Execute(y, IF OnSameRow(y) THEN f[Base[y]] ELSE Absent)]
           h == [y \in LineOf(x) |-> Execute(y, IF OnSameRow(y) THEN g[Base[y]] ELSE Absent)]
<1>4. ASSUME NEW y \in LineOf(x), OnSameRow(y)  PROVE  g[Base[y]] = f[Base[y]]
  <2>1. OnSameRow(x)
    <3>1. CASE y = x
      BY <1>4, <3>1
    <3>2. CASE y # x
      BY <3>2, LineStep
    <3> QED  BY <3>1, <3>2
  <2>2. Base[x] \in Tx /\ LineOf(x) = {x} \cup LineOf(Base[x])
    BY <2>1, BaseTypes, LineStep
  <2>3. Base[x] \in LineOf(Base[x]) /\ HasBases(LineOf(Base[x]))
    BY <2>2, LineFacts
  <2>4. Base[y] \in LineOf(Base[x])
    BY <1>4, <2>2, <2>3 DEF HasBases
  <2>5. f[Base[y]] = Execute(Base[y], IF OnSameRow(Base[y]) THEN f[Base[Base[y]]] ELSE Absent)
    BY <1>3, <2>1, <2>4 DEF IsAfter
  <2>6. Base[y] \in LineOf(x)
    BY <2>2, <2>4
  <2> QED  BY <2>5, <2>6
<1>5. g = h
  <2>1. ASSUME NEW y \in LineOf(x)  PROVE  g[y] = h[y]
    BY <1>4
  <2>2. /\ DOMAIN g = LineOf(x) /\ DOMAIN h = LineOf(x)
        /\ g = [y \in DOMAIN g |-> g[y]] /\ h = [y \in DOMAIN h |-> h[y]]
    OBVIOUS
  <2> HIDE DEF g, h
  <2> QED  BY <2>1, <2>2
<1>6. IsAfter(g, LineOf(x))
  BY <1>5 DEF IsAfter
<1> QED  BY <1>1, <1>6

\* What a row is after a transaction is what its statement makes of the row before.
LEMMA RowAfterStep ==
  ASSUME NEW t \in Tx
  PROVE  RowAfter[t] = Execute(t, RowBefore(t))
<1> DEFINE at(x) == CHOOSE f : IsAfter(f, LineOf(x))
           F == [x \in Tx |-> at(x)[x]]
           H == [x \in Tx |-> Execute(x, IF OnSameRow(x) THEN F[Base[x]] ELSE Absent)]
<1>1. \A x \in Tx : IsAfter(at(x), LineOf(x))
  BY AfterExists
<1> HIDE DEF at
<1>2. ASSUME NEW x \in Tx  PROVE  F[x] = H[x]
  <2>1. x \in LineOf(x) /\ LineOf(x) \in SUBSET Tx /\ HasBases(LineOf(x))
    BY LineFacts
  <2>2. at(x)[x] = Execute(x, IF OnSameRow(x) THEN at(x)[Base[x]] ELSE Absent)
    BY <1>1, <2>1 DEF IsAfter
  <2>3. ASSUME OnSameRow(x)  PROVE  at(x)[Base[x]] = at(Base[x])[Base[x]]
    <3>1. Base[x] \in Tx /\ Base[x] \in LineOf(x)
      BY <2>1, <2>3, BaseTypes DEF HasBases
    <3>2. /\ Base[x] \in LineOf(Base[x]) /\ LineOf(Base[x]) \in SUBSET Tx
          /\ HasBases(LineOf(Base[x]))
      BY <3>1, LineFacts
    <3>3. IsAfter(at(x), LineOf(x)) /\ IsAfter(at(Base[x]), LineOf(Base[x]))
      BY <1>1, <3>1
    <3>4. Base[x] \in LineOf(x) \cap LineOf(Base[x])
      BY <3>1, <3>2
    <3> QED  BY <2>1, <3>2, <3>3, <3>4, AftersAgree
  <2>4. OnSameRow(x) => Base[x] \in Tx
    BY BaseTypes
  <2> QED  BY <2>2, <2>3, <2>4
<1>3. F = H
  <2>1. /\ DOMAIN F = Tx /\ DOMAIN H = Tx
        /\ F = [x \in DOMAIN F |-> F[x]] /\ H = [x \in DOMAIN H |-> H[x]]
    OBVIOUS
  <2> HIDE DEF F, H
  <2> QED  BY <1>2, <2>1
<1>4. \E f : f = [x \in Tx |-> Execute(x, IF OnSameRow(x) THEN f[Base[x]] ELSE Absent)]
  <2> HIDE DEF F
  <2> QED  BY <1>3
<1>5. RowAfter = [x \in Tx |-> Execute(x, IF OnSameRow(x) THEN RowAfter[Base[x]] ELSE Absent)]
  BY <1>4 DEF RowAfter
<1> QED  BY <1>5 DEF RowBefore

\* What a transaction does to a row may be done once more.
LEMMA OnceMore ==
  ASSUME NEW t \in Tx
  PROVE  Execute(t, RowAfter[t]) = RowAfter[t]
<1>1. RowAfter[t] = Execute(t, RowBefore(t))
  BY RowAfterStep
<1> DEFINE before == RowBefore(t)
<1>2. CASE Kind[t] = "update" /\ RowAfter[t] # Absent
  <2>1. before # Absent
    BY <1>1, <1>2 DEF Execute
  <2>2. RowAfter[t] = [c \in DOMAIN before |-> IF c \in DOMAIN Sets[t] THEN Sets[t][c] ELSE before[c]]
    BY <1>1, <1>2, <2>1 DEF Execute
  <2>3. Execute(t, RowAfter[t]) =
          [c \in DOMAIN before |-> IF c \in DOMAIN Sets[t] THEN Sets[t][c] ELSE RowAfter[t][c]]
    BY <1>2, <2>2 DEF Execute
  <2>4. \A c \in DOMAIN before : c \notin DOMAIN Sets[t] => RowAfter[t][c] = before[c]
    BY <2>2
  <2> HIDE DEF before
  <2> QED  BY <2>2, <2>3, <2>4
<1>3. CASE Kind[t] = "update" /\ RowAfter[t] = Absent
  BY <1>3 DEF Execute
<1>4. CASE Kind[t] # "update"
  BY <1>1, <1>4 DEF Execute
<1> QED  BY <1>2, <1>3, <1>4

\* The rollback statement of a transaction makes the row what it was before it.
LEMMA RollbackRestores ==
  ASSUME NEW t \in Tx, Ref[t] \in DataRow
  PROVE  Rollback(t, RowAfter[t]) = RowBefore(t)
<1> DEFINE before == RowBefore(t)
<1>1. RowAfter[t] = Execute(t, before)
  BY RowAfterStep
<1>2. Kind[t] \in {"insert", "update", "delete"}
  BY Statements, Transactions DEF DataRow
<1>3. CASE Kind[t] = "insert"
  <2>1. RowBefore(t) = Absent
    BY <1>3, Statements
  <2> QED  BY <1>3, <2>1 DEF Rollback
<1>4. CASE Kind[t] = "delete"
  BY <1>4 DEF Rollback
<1>5. CASE Kind[t] = "update"
  <2>1. before \in Content \ {Absent} /\ DOMAIN Sets[t] \subseteq DOMAIN before
    BY <1>5, Statements
  <2>2. PICK C \in SUBSET Column : before \in [C -> Tx]
    BY <2>1 DEF Content
  <2>3. RowAfter[t] = [c \in DOMAIN before |-> IF c \in DOMAIN Sets[t] THEN Sets[t][c] ELSE before[c]]
    BY <1>1, <1>5, <2>1 DEF Execute
  <2>4. RowAfter[t] \in [C -> Tx]
    <3>1. \A c \in DOMAIN Sets[t] : Sets[t][c] \in Tx
      BY Statements
    <3> HIDE DEF before
    <3> QED  BY <2>2, <2>3, <3>1
  <2>5. RowAfter[t] # Absent
    BY <2>4, Histories
  <2>6. Rollback(t, RowAfter[t]) =
          [c \in DOMAIN before |-> IF c \in DOMAIN Sets[t] THEN before[c] ELSE RowAfter[t][c]]
    BY <1>5, <2>3, <2>5 DEF Rollback
  <2>7. Rollback(t, RowAfter[t]) = [c \in DOMAIN before |-> before[c]]
    <3> HIDE DEF before
    <3> QED  BY <2>3, <2>6
  <2>8. before = [c \in DOMAIN before |-> before[c]]
    <3> HIDE DEF before
    <3> QED  BY <2>2
  <2> QED  BY <2>7, <2>8
<1> QED  BY <1>2, <1>3, <1>4, <1>5

(***************************************************************************)
(* Replays: some transactions of a row that are the line of one of them,   *)
(* and the value that their statements make, one after the other.          *)
(***************************************************************************)

RowOf(S, r) == {t \in S : Ref[t] = r}
IsReplay(S, v) ==
  \/ S = {} /\ v = Absent
  \/ \E l \in S : l \in Tx /\ S = LineOf(l) /\ v = RowAfter[l]

\* Nothing among some transactions comes after one of them, or in its place.
LeavesRoom(S, t) == \A d \in S \ {t} : Base[d] \notin {t, Base[t]}

\* What replays has the bases of all it has.
LEMMA ReplayHasBases ==
  ASSUME NEW S, NEW v, IsReplay(S, v)
  PROVE  S \in SUBSET Tx /\ HasBases(S)
<1>1. CASE S = {}
  BY <1>1 DEF HasBases
<1>2. CASE S # {}
  BY <1>2, LineFacts DEF IsReplay
<1> QED  BY <1>1, <1>2

\* The statements of data rows, and what they follow.
LEMMA StatementsOfRows ==
  ASSUME NEW t \in Tx, Ref[t] \in DataRow
  PROVE  /\ t \in SQL /\ Base[t] \in Tx
         /\ Kind[t] \in {"insert", "update", "delete"}
         /\ ~OnSameRow(t) => Kind[Base[t]] = "create" /\ RowBefore(t) = Absent
<1>1. Kind[t] \in {"insert", "update", "delete"}
  BY Statements, Transactions DEF DataRow
<1>2. Base[t] # NoTx /\ (OnSameRow(t) \/ Ref[Base[t]] = Table)
  BY <1>1, Statements
<1>3. Base[t] \in Tx
  BY <1>2, Transactions
<1>4. Ref[Base[t]] = Table => Kind[Base[t]] = "create"
  BY <1>3, Statements
<1> QED  BY <1>1, <1>2, <1>3, <1>4 DEF SQL, RowBefore

\* A row that begins with a transaction has no other one.
LEMMA BeginsAlone ==
  ASSUME NEW S, NEW v, IsReplay(S, v), NEW t \in Tx, Ref[t] \in DataRow, ~OnSameRow(t),
         \A x \in S : Ref[x] = Ref[t], LeavesRoom(S, t)
  PROVE  S \subseteq {t}
<1> SUFFICES ASSUME NEW l \in S, l # t  PROVE  FALSE
  OBVIOUS
<1>1. S \in SUBSET Tx /\ HasBases(S)
  BY ReplayHasBases
<1>2. PICK d \in S : Base[d] \notin S
  BY <1>1, Histories
<1>3. d \in Tx /\ Ref[d] \in DataRow /\ ~OnSameRow(d)
  BY <1>1, <1>2 DEF HasBases
<1>4. Base[d] = Base[t]
  BY <1>3, StatementsOfRows, Histories
<1>5. d = t
  BY <1>4 DEF LeavesRoom
<1>6. t \in S /\ l \in Tx
  BY <1>1, <1>5
<1>7. PICK m \in S : m \in Tx /\ S = LineOf(m)
  BY <1>6 DEF IsReplay
<1>8. m # t
  BY <1>7, LineStep
<1>9. PICK e \in S : OnSameRow(e) /\ Base[e] = t
  BY <1>6, <1>7, <1>8, LineIsFollowed
<1>10. e # t
  BY <1>6, <1>9, BaseTypes
<1> QED  BY <1>9, <1>10 DEF LeavesRoom

\* A statement that runs in its turn.
LEMMA ReplayGoesOn ==
  ASSUME NEW S, NEW v, IsReplay(S, v), NEW t \in Tx, Ref[t] \in DataRow,
         \A x \in S : Ref[x] = Ref[t], LeavesRoom(S, t), t \notin S,
         OnSameRow(t) => Base[t] \in S
  PROVE  IsReplay(S \cup {t}, Execute(t, v))
<1>1. CASE OnSameRow(t)
  <2>1. PICK l \in S : l \in Tx /\ S = LineOf(l) /\ v = RowAfter[l]
    BY <1>1 DEF IsReplay
  <2>2. Base[t] = l
    <3> SUFFICES ASSUME Base[t] # l  PROVE  FALSE
      OBVIOUS
    <3>1. PICK d \in S : OnSameRow(d) /\ Base[d] = Base[t]
      BY <1>1, <2>1, LineIsFollowed
    <3> QED  BY <3>1 DEF LeavesRoom
  <2>3. LineOf(t) = S \cup {t}
    BY <1>1, <2>1, <2>2, LineStep
  <2>4. RowAfter[t] = Execute(t, v)
    BY <1>1, <2>1, <2>2, RowAfterStep DEF RowBefore
  <2> QED  BY <2>3, <2>4 DEF IsReplay
<1>2. CASE ~OnSameRow(t)
  <2>1. S = {}
    BY <1>2, BeginsAlone
  <2>2. v = Absent
    BY <2>1 DEF IsReplay
  <2>3. LineOf(t) = {t}
    BY <1>2, LineStep
  <2>4. RowAfter[t] = Execute(t, v)
    BY <1>2, <2>2, RowAfterStep DEF RowBefore
  <2>5. S \cup {t} = {t}
    BY <2>1
  <2> QED  BY <2>3, <2>4, <2>5 DEF IsReplay
<1> QED  BY <1>1, <1>2

\* The last statement is executed once more.
LEMMA ReplayStays ==
  ASSUME NEW S, NEW v, IsReplay(S, v), NEW t \in S, \A d \in S : OnSameRow(d) => Base[d] # t
  PROVE  IsReplay(S, Execute(t, v))
<1>1. PICK l \in S : l \in Tx /\ S = LineOf(l) /\ v = RowAfter[l]
  BY DEF IsReplay
<1>2. t = l
  BY <1>1, LineIsFollowed
<1>3. Execute(t, v) = v
  BY <1>1, <1>2, OnceMore
<1> QED  BY <1>3

\* The last statement is rolled back.
LEMMA ReplayGoesBack ==
  ASSUME NEW S, NEW v, IsReplay(S, v), NEW t \in S, Ref[t] \in DataRow,
         \A d \in S : OnSameRow(d) => Base[d] # t
  PROVE  IsReplay(S \ {t}, Rollback(t, v))
<1>1. PICK l \in S : l \in Tx /\ S = LineOf(l) /\ v = RowAfter[l]
  BY DEF IsReplay
<1>2. t = l
  BY <1>1, LineIsFollowed
<1>3. Rollback(t, v) = RowBefore(t)
  BY <1>1, <1>2, RollbackRestores
<1>4. CASE OnSameRow(t)
  <2>1. Base[t] \in Tx /\ S = {t} \cup LineOf(Base[t])
    BY <1>1, <1>2, <1>4, BaseTypes, LineStep
  <2>2. Base[t] \in LineOf(Base[t]) /\ HasBases(LineOf(Base[t]))
        /\ LineOf(Base[t]) \in SUBSET Tx
    BY <2>1, LineFacts
  <2>3. t \notin LineOf(Base[t])
    BY <1>1, <1>2, <1>4, <2>1, LineEnds
  <2>4. S \ {t} = LineOf(Base[t])
    BY <2>1, <2>3
  <2>5. Rollback(t, v) = RowAfter[Base[t]]
    BY <1>3, <1>4 DEF RowBefore
  <2> QED  BY <2>1, <2>2, <2>4, <2>5 DEF IsReplay
<1>5. CASE ~OnSameRow(t)
  <2>1. S \ {t} = {}
    BY <1>1, <1>2, <1>5, LineStep
  <2>2. Rollback(t, v) = Absent
    BY <1>3, <1>5 DEF RowBefore
  <2> QED  BY <2>1, <2>2 DEF IsReplay
<1> QED  BY <1>4, <1>5

(***************************************************************************)
(* The rows of a record of the pool, when C is what the branch has.        *)
(***************************************************************************)

\* A row is a replay of what the branch and the pool have on it; while the query of
\* the session of the proxy has been executed, it is what the query made of one.
RowReplays(C, p, t, running, r) ==
  LET S == RowOf(C \cup p.pool, r)
  IN  IF running /\ Ref[t] = r
        THEN LeavesRoom(S, t) /\ \E w : IsReplay(S, w) /\ p.rows[r] = Execute(t, w)
        ELSE IsReplay(S, p.rows[r])

\* Rows out of turn, and those of X, are left out.
RowsReplay(C, p, X) ==
  \A r \in DataRow \ (p.torn \cup X) : RowReplays(C, p, asked, ran, r)
Apart(C, p, X) ==
  \A t \in p.pool \cap C : Ref[t] \in DataRow => Ref[t] \in p.torn \cup X
RowState(C, X) ==
  {p \in PoolState : (p.touched \/ Fresh(p)) /\ Apart(C, p, X) /\ RowsReplay(C, p, X)}

\* What is on a branch has its bases there.
LEMMA BranchHasBases ==
  ASSUME NEW b \in Block
  PROVE  TxsOn(b) \in SUBSET Tx /\ HasBases(TxsOn(b))
<1>1. TxsOn(b) \in SUBSET Tx
  BY BranchFacts, TxsOnBelow
<1>2. ASSUME NEW t \in TxsOn(b), OnSameRow(t)  PROVE  Base[t] \in TxsOn(b)
  BY <1>2, FollowedIsNotLast DEF OnSameRow
<1> QED  BY <1>1, <1>2 DEF HasBases

\* Nothing has changed on a row.
LEMMA RowStays ==
  ASSUME NEW C, NEW D, NEW p, NEW q, NEW t, NEW running, NEW r,
         q.rows[r] = p.rows[r], RowOf(D \cup q.pool, r) = RowOf(C \cup p.pool, r),
         RowReplays(C, p, t, running, r)
  PROVE  RowReplays(D, q, t, running, r)
BY DEF RowReplays

\* Nothing has changed but marks on rows.
LEMMA RowsStay ==
  ASSUME NEW C, NEW X, NEW p, NEW q, q.rows = p.rows, q.pool = p.pool, p.torn \subseteq q.torn,
         RowsReplay(C, p, X)
  PROVE  RowsReplay(C, q, X)
<1> SUFFICES ASSUME NEW r \in DataRow \ (q.torn \cup X)  PROVE  RowReplays(C, q, asked, ran, r)
  BY DEF RowsReplay
<1>1. RowReplays(C, p, asked, ran, r)
  BY DEF RowsReplay
<1> QED  BY <1>1, RowStays

\* A statement changes its row only.
LEMMA RunRows ==
  ASSUME NEW p \in PoolState, NEW t \in Tx
  PROVE  /\ \A r \in DataRow : r # Ref[t] => Run(p, t).rows[r] = p.rows[r]
         /\ Ref[t] \in DataRow => Run(p, t).rows[Ref[t]] = Execute(t, p.rows[Ref[t]])
<1>1. Tear(p, t) \in PoolState /\ Tear(p, t).rows = p.rows
  BY TearIsAlike DEF Alike
<1>2. p.rows \in [DataRow -> Content] /\ DOMAIN p.rows = DataRow
  BY DEF PoolState
<1>3. CASE Ref[t] \in DataRow
  <2> DEFINE q == Tear(p, t)
             v == Execute(t, q.rows[Ref[t]])
  <2>1. Run(p, t) = [q EXCEPT !.rows = [@ EXCEPT ![Ref[t]] = v]]
    BY <1>3 DEF Run
  <2>2. Run(p, t).rows = [p.rows EXCEPT ![Ref[t]] = v]
    <3> HIDE DEF q, v
    <3>1. q \in PoolState /\ q.rows = p.rows
      BY <1>1 DEF q
    <3> QED  BY <2>1, <3>1 DEF PoolState
  <2> QED  BY <1>1, <1>2, <1>3, <2>2
<1>4. CASE Ref[t] \notin DataRow
  BY <1>4 DEF Run
<1> QED  BY <1>3, <1>4

\* So does its rollback.
LEMMA UndoRows ==
  ASSUME NEW p \in PoolState, NEW t \in Tx
  PROVE  /\ \A r \in DataRow : r # Ref[t] => Undo(p, t).rows[r] = p.rows[r]
         /\ Ref[t] \in DataRow => Undo(p, t).rows[Ref[t]] = Rollback(t, p.rows[Ref[t]])
<1>1. Tear(p, t) \in PoolState /\ Tear(p, t).rows = p.rows
  BY TearIsAlike DEF Alike
<1>2. p.rows \in [DataRow -> Content] /\ DOMAIN p.rows = DataRow
  BY DEF PoolState
<1>3. CASE Ref[t] \in DataRow
  <2> DEFINE q == Tear(p, t)
             v == Rollback(t, q.rows[Ref[t]])
  <2>1. Undo(p, t) = [q EXCEPT !.rows = [@ EXCEPT ![Ref[t]] = v]]
    BY <1>3 DEF Undo
  <2>2. Undo(p, t).rows = [p.rows EXCEPT ![Ref[t]] = v]
    <3> HIDE DEF q, v
    <3>1. q \in PoolState /\ q.rows = p.rows
      BY <1>1 DEF q
    <3> QED  BY <2>1, <3>1 DEF PoolState
  <2> QED  BY <1>1, <1>2, <1>3, <2>2
<1>4. CASE Ref[t] \notin DataRow
  BY <1>4 DEF Undo
<1> QED  BY <1>3, <1>4

\* What a statement in its turn finds and leaves on its row.
LEMMA InTurn ==
  ASSUME NEW p \in PoolState, NEW t \in Tx, Ref[t] \in DataRow, ~OutOfTurn(p, t),
         NEW C, RowReplays(C, p, asked, ran, Ref[t])
  PROVE  /\ ~(ran /\ Ref[asked] = Ref[t]) /\ ~p.touched
         /\ IsReplay(RowOf(C \cup p.pool, Ref[t]), p.rows[Ref[t]])
         /\ \A d \in p.pool \ {t} : Ref[d] = Ref[t] => Base[d] \notin {t, Base[t]}
BY DEF OutOfTurn, RowReplays

LEMMA RunInTurn ==
  ASSUME NEW p \in PoolState, NEW t \in Tx, Ref[t] \in DataRow, ~OutOfTurn(p, t),
         NEW C, RowReplays(C, p, asked, ran, Ref[t]),
         \A d \in C \ {t} : Ref[d] = Ref[t] => Base[d] \notin {t, Base[t]},
         OnSameRow(t) => Base[t] \in C \cup p.pool
  PROVE  IsReplay(RowOf(C \cup p.pool, Ref[t]) \cup {t}, Execute(t, p.rows[Ref[t]]))
<1> DEFINE S == RowOf(C \cup p.pool, Ref[t])
           v == p.rows[Ref[t]]
<1>1. IsReplay(S, v) /\ \A d \in p.pool \ {t} : Ref[d] = Ref[t] => Base[d] \notin {t, Base[t]}
  BY InTurn
<1>2. LeavesRoom(S, t) /\ \A x \in S : Ref[x] = Ref[t]
  BY <1>1 DEF LeavesRoom, RowOf
<1>3. OnSameRow(t) => Base[t] \in S
  BY DEF RowOf, OnSameRow
<1> HIDE DEF S, v
<1>4. CASE t \in S
  <2>1. \A d \in S : OnSameRow(d) => Base[d] # t
    BY <1>2, BaseTypes DEF LeavesRoom
  <2>2. S \cup {t} = S
    BY <1>4
  <2> QED  BY <1>1, <1>4, <2>1, <2>2, ReplayStays DEF S, v
<1>5. CASE t \notin S
  BY <1>1, <1>2, <1>3, <1>5, ReplayGoesOn DEF S, v
<1> QED  BY <1>4, <1>5

LEMMA UndoInTurn ==
  ASSUME NEW p \in PoolState, NEW t \in Tx, Ref[t] \in DataRow, ~OutOfTurn(p, t),
         NEW C, RowReplays(C, p, asked, ran, Ref[t]), t \in C \cup p.pool,
         \A d \in C : OnSameRow(d) => Base[d] # t
  PROVE  IsReplay(RowOf(C \cup p.pool, Ref[t]) \ {t}, Rollback(t, p.rows[Ref[t]]))
<1> DEFINE S == RowOf(C \cup p.pool, Ref[t])
           v == p.rows[Ref[t]]
<1>1. IsReplay(S, v) /\ \A d \in p.pool \ {t} : Ref[d] = Ref[t] => Base[d] \notin {t, Base[t]}
  BY InTurn
<1>2. t \in S /\ \A d \in S : OnSameRow(d) => Base[d] # t
  BY <1>1, BaseTypes DEF RowOf
<1> HIDE DEF S, v
<1> QED  BY <1>1, <1>2, ReplayGoesBack DEF S, v

(***************************************************************************)
(* Transactions are cancelled.                                             *)
(***************************************************************************)

\* What Cancel makes of a record, when it does something.
LEMMA CancelDoes ==
  ASSUME NEW p \in PoolState, NEW t \in Held
  PROVE  LET q == Cancel(p, t)
         IN  \/ q.rows = p.rows /\ q.pool = p.pool
             \/ /\ t \in Known(p) /\ q.rows = Undo(p, t).rows /\ q.pool = p.pool \ {t}
                /\ q.torn = Undo(p, t).torn
<1> DEFINE u == Undo(p, t)
           v == t \in p.pool
<1>1. CASE ~p.ok \/ t \notin Known(p) \/ RollbackFails(t, ValueIn(p, t))
  <2>1. Cancel(p, t) \in {p, [p EXCEPT !.ok = FALSE]}
    BY <1>1 DEF Cancel
  <2> QED  BY <2>1 DEF PoolState
<1>2. CASE ~(~p.ok \/ t \notin Known(p) \/ RollbackFails(t, ValueIn(p, t)))
  <2>1. Cancel(p, t) = [Delete(u, t) EXCEPT !.ok = v]
    BY <1>2 DEF Cancel
  <2>2. u \in PoolState /\ u.pool = p.pool
    BY HeldTypes, UndoIsAlike DEF Alike
  <2> HIDE DEF u, v
  <2>3. /\ Delete(u, t) \in PoolState /\ Delete(u, t).pool = p.pool \ {t}
        /\ Delete(u, t).torn = u.torn
    BY <2>2, DeleteIs
  <2>4. Delete(u, t).rows = u.rows
    BY <2>2 DEF Delete, PoolState
  <2>5. /\ [Delete(u, t) EXCEPT !.ok = v].rows = u.rows
        /\ [Delete(u, t) EXCEPT !.ok = v].pool = p.pool \ {t}
        /\ [Delete(u, t) EXCEPT !.ok = v].torn = u.torn
    BY <2>3, <2>4 DEF PoolState
  <2> QED  BY <1>2, <2>1, <2>5 DEF u
<1> QED  BY <1>1, <1>2

\* What is cancelled was the last on its row, or the row is marked.
LEMMA CancelKeepsRows ==
  ASSUME NEW C \in SUBSET Tx, HasBases(C), NEW X, NEW p \in RowState(C, X), NEW t \in Held
  PROVE  Cancel(p, t) \in RowState(C, X)
<1> DEFINE q == Cancel(p, t)
           u == Undo(p, t)
<1>1. /\ p \in PoolState /\ (p.touched \/ Fresh(p)) /\ Apart(C, p, X) /\ RowsReplay(C, p, X)
      /\ t \in Tx
  BY HeldTypes DEF RowState
<1>2. q \in Less(p, C)
  BY <1>1, CancelTakes
<1>3. /\ u \in Alike(p)
      /\ Ref[t] \in DataRow /\ OutOfTurn(p, t) => Ref[t] \in u.torn
  BY <1>1, UndoIsAlike
<1>4. \/ q.rows = p.rows /\ q.pool = p.pool
      \/ t \in Known(p) /\ q.rows = u.rows /\ q.pool = p.pool \ {t} /\ q.torn = u.torn
  BY <1>1, CancelDoes
<1> HIDE DEF q, u
<1>5. q \in PoolState /\ (q.touched \/ Fresh(q)) /\ p.torn \subseteq q.torn /\ q.pool \subseteq p.pool
  BY <1>1, <1>2 DEF Less
<1>6. Apart(C, q, X)
  BY <1>1, <1>5 DEF Apart
<1>7. CASE q.rows = p.rows /\ q.pool = p.pool
  <2>1. RowsReplay(C, q, X)
    BY <1>1, <1>5, <1>7, RowsStay
  <2> QED  BY <1>5, <1>6, <2>1 DEF RowState, q
<1>8. CASE t \in Known(p) /\ q.rows = u.rows /\ q.pool = p.pool \ {t} /\ q.torn = u.torn
  <2>1. ASSUME NEW r \in DataRow \ (q.torn \cup X)  PROVE  RowReplays(C, q, asked, ran, r)
    <3>1. RowReplays(C, p, asked, ran, r) /\ r \notin p.torn
      BY <1>1, <1>5 DEF RowsReplay
    <3>2. CASE Ref[t] # r
      <4>1. q.rows[r] = p.rows[r]
        BY <1>1, <1>8, <3>2, UndoRows DEF u
      <4>2. RowOf(C \cup q.pool, r) = RowOf(C \cup p.pool, r)
        BY <1>8, <3>2 DEF RowOf
      <4> QED  BY <3>1, <4>1, <4>2, RowStays
    <3>3. CASE Ref[t] = r
      <4>1. ~OutOfTurn(p, t)
        BY <1>3, <1>8, <3>3
      <4>2. /\ ~(ran /\ Ref[asked] = Ref[t]) /\ ~p.touched
        BY <1>1, <3>1, <3>3, <4>1, InTurn
      <4>3. t \in p.pool
        BY <1>1, <1>8, <4>2, KnownIs
      <4>4. t \notin C
        BY <1>1, <2>1, <3>1, <3>3, <4>3 DEF Apart
      <4>5. \A d \in C : OnSameRow(d) => Base[d] # t
        BY <4>4 DEF HasBases
      <4>6. IsReplay(RowOf(C \cup p.pool, r) \ {t}, Rollback(t, p.rows[r]))
        BY <1>1, <3>1, <3>3, <4>1, <4>3, <4>5, UndoInTurn
      <4>7. RowOf(C \cup q.pool, r) = RowOf(C \cup p.pool, r) \ {t}
        BY <1>8, <4>4 DEF RowOf
      <4>8. q.rows[r] = Rollback(t, p.rows[r])
        BY <1>1, <1>8, <3>3, UndoRows DEF u
      <4> QED  BY <3>3, <4>2, <4>6, <4>7, <4>8 DEF RowReplays
    <3> QED  BY <3>2, <3>3
  <2>2. RowsReplay(C, q, X)
    BY <2>1 DEF RowsReplay
  <2> QED  BY <1>5, <1>6, <2>2 DEF RowState, q
<1> QED  BY <1>4, <1>7, <1>8

\* Nothing has changed but marks, what the daemon remembers and the success.
LEMMA StateStays ==
  ASSUME NEW C, NEW X, NEW p \in RowState(C, X), NEW q \in PoolState, q.rows = p.rows,
         q.pool = p.pool, p.torn \subseteq q.torn, q.touched \/ Fresh(q)
  PROVE  q \in RowState(C, X)
<1>1. Apart(C, q, X)
  BY DEF Apart, RowState
<1>2. RowsReplay(C, q, X)
  BY RowsStay DEF RowState
<1> QED  BY <1>1, <1>2 DEF RowState

LEMMA CancelAnywayKeepsRows ==
  ASSUME NEW C \in SUBSET Tx, HasBases(C), NEW X, NEW p \in RowState(C, X), NEW t \in Held
  PROVE  CancelAnyway(p, t) \in RowState(C, X)
<1> DEFINE q == Cancel(p, t)
           yes == TRUE
           e == [q EXCEPT !.ok = yes]
<1>1. q \in RowState(C, X) /\ q \in PoolState
  BY CancelKeepsRows DEF RowState
<1>2. CancelAnyway(p, t) = e
  BY DEF CancelAnyway
<1> HIDE DEF q, yes
<1>3. e \in PoolState /\ e.rows = q.rows /\ e.pool = q.pool /\ e.torn = q.torn
      /\ (Fresh(e) <=> Fresh(q)) /\ e.touched = q.touched
  <2>1. yes \in BOOLEAN
    BY DEF yes
  <2> QED  BY <1>1, <2>1, OkIsFree DEF Alike
<1> HIDE DEF e
<1>4. e \in RowState(C, X)
  BY <1>1, <1>3, StateStays DEF RowState
<1> QED  BY <1>2, <1>4

\* What conflicts with a block is cancelled.
LEMMA RivalsKeepRows ==
  ASSUME NEW C \in SUBSET Tx, HasBases(C), NEW X, NEW p \in RowState(C, X), NEW b,
         NEW q \in Rivals(p, b)
  PROVE  q \in RowState(C, X)
<1> DEFINE G == RowState(C, X)
           zero == 0
<1>1. PICK s \in CancelOrders(p, b) : q = FoldLeft(Cancel, p, s)
  BY DEF Rivals
<1>2. s \in Seq(Held)
  BY <1>1, DoomedAreHeld, OrdersAreLists DEF CancelOrders, RowState
<1>3. \A v \in G, x \in Held : CancelOp(zero, v, x) \in G
  BY CancelKeepsRows DEF CancelOp
<1> HIDE DEF G, zero
<1>4. Cancels!Fold(zero, p, s) \in G
  <2>1. p \in G
    BY DEF G
  <2> QED  BY <1>2, <1>3, <2>1, Cancels!FoldStays
<1> QED  BY <1>1, <1>4, CancelFolds DEF G, zero

(***************************************************************************)
(* The transactions of a block, in their order.                            *)
(***************************************************************************)

\* What comes before a place in a block has its bases there.
LEMMA BeforeHasBases ==
  ASSUME NEW b \in Block, NEW i \in 1..(Len(Txs[b]) + 1)
  PROVE  Before(b, i) \in SUBSET Tx /\ HasBases(Before(b, i))
<1>1. /\ Len(Txs[b]) \in Nat /\ DOMAIN Txs[b] = 1..Len(Txs[b])
      /\ \A j \in 1..Len(Txs[b]) : Txs[b][j] \in Tx
  BY TxTypes
<1>2. Older(b) \in SUBSET Tx /\ HasBases(Older(b))
  <2>1. CASE b = Genesis
    BY <2>1 DEF Older, HasBases
  <2>2. CASE b # Genesis
    <3>1. Prev[b] \in Block
      BY <2>2, BlocksAreTree DEF Walks!IsTree
    <3> QED  BY <2>2, <3>1, BranchHasBases DEF Older
  <2> QED  BY <2>1, <2>2
<1>3. ASSUME NEW t \in Before(b, i), OnSameRow(t)  PROVE  Base[t] \in Before(b, i)
  <2>1. CASE t \in Older(b)
    BY <1>2, <1>3, <2>1 DEF HasBases, Before
  <2>2. CASE t \notin Older(b)
    <3>1. PICK j \in 1..(i - 1) : t = Txs[b][j]
      BY <2>2 DEF Before
    <3>2. j \in DOMAIN Txs[b]
      BY <1>1
    <3>3. Base[t] \in Earlier(b, j)
      BY <1>3, <3>1, <3>2, BasesOfBlocks DEF OnSameRow
    <3>4. Base[t] \in Before(b, j)
      BY <3>3 DEF Earlier, Before, Older
    <3>5. \A k \in 1..(j - 1) : k \in 1..(i - 1)
      BY <1>1
    <3> QED  BY <3>4, <3>5 DEF Before
  <2> QED  BY <2>1, <2>2
<1>4. Before(b, i) \in SUBSET Tx
  BY <1>1, <1>2 DEF Before
<1> QED  BY <1>3, <1>4 DEF HasBases

\* The base of a statement of a block comes before it, and nothing before it comes
\* after it or in its place.
LEMMA InItsPlace ==
  ASSUME NEW b \in Block, NEW i \in 1..Len(Txs[b]), Ref[Txs[b][i]] \in DataRow
  PROVE  /\ Base[Txs[b][i]] \in Before(b, i)
         /\ \A d \in Before(b, i) :
              Ref[d] = Ref[Txs[b][i]] => Base[d] \notin {Txs[b][i], Base[Txs[b][i]]}
<1> DEFINE t == Txs[b][i]
<1>1. t \in Tx /\ i \in DOMAIN Txs[b] /\ i \in 1..(Len(Txs[b]) + 1)
  BY TxTypes
<1>2. Before(b, i) \in SUBSET Tx /\ HasBases(Before(b, i)) /\ t \notin Before(b, i)
  BY <1>1, BeforeHasBases, AtItsPlace
<1>3. Base[t] \in Tx /\ NoTx \notin Tx
  BY <1>1, StatementsOfRows, Transactions
<1>4. /\ Base[t] \in Earlier(b, i)
      /\ \A d \in Earlier(b, i) :
           Ref[d] = Ref[t] => OnSameRow(t) /\ ~(OnSameRow(d) /\ Base[d] = Base[t])
  BY <1>1, <1>3, BasesOfBlocks
<1>5. Earlier(b, i) = Before(b, i)
  BY DEF Earlier, Before, Older
<1> HIDE DEF t
<1>6. ASSUME NEW d \in Before(b, i), Ref[d] = Ref[t]  PROVE  Base[d] \notin {t, Base[t]}
  <2>1. Base[d] # Base[t]
    BY <1>3, <1>4, <1>5, <1>6 DEF OnSameRow
  <2>2. Base[d] # t
    BY <1>1, <1>2, <1>3, <1>6 DEF OnSameRow, HasBases
  <2> QED  BY <2>1, <2>2
<1> QED  BY <1>4, <1>5, <1>6 DEF t

\* A statement of a block is executed in its turn, or the row is marked.
LEMMA ExecuteStep ==
  ASSUME NEW C, NEW X, NEW p \in PoolState, Fresh(p), RowsReplay(C, p, X), NEW t \in Tx,
         Ref[t] \in DataRow => /\ Base[t] \in C
                               /\ \A d \in C : Ref[d] = Ref[t] => Base[d] \notin {t, Base[t]}
  PROVE  RowsReplay(C \cup {t}, ExecuteFromBlock(p, t), X)
<1> DEFINE q == ExecuteFromBlock(p, t)
           D == C \cup {t}
           no == FALSE
           u == Spoil(p, t)
           e == [u EXCEPT !.ok = no]
<1>1. /\ u \in Alike(p) /\ u.rows = p.rows
      /\ t \in SQL => Ref[t] \in u.torn
  BY SpoilIsAlike
<1>2. \A r \in DataRow : Ref[t] = r => t \in SQL
  BY HeldTypes
<1>3. CASE t \in p.pool
  <2>1. q = p
    BY <1>3, KnownIs DEF ExecuteFromBlock
  <2>2. \A r : RowOf(D \cup p.pool, r) = RowOf(C \cup p.pool, r)
    BY <1>3 DEF RowOf
  <2> HIDE DEF q, D
  <2>3. \A r \in DataRow \ (p.torn \cup X) : RowReplays(D, p, asked, ran, r)
    BY <2>2, RowStays DEF RowsReplay
  <2> QED  BY <2>1, <2>3 DEF RowsReplay, q, D
<1>4. CASE t \notin p.pool /\ (~p.ok \/ DuplicateKey(t, ValueIn(p, t)))
  <2>1. q = e
    BY <1>4, KnownIs DEF ExecuteFromBlock
  <2>2. u \in PoolState /\ no \in BOOLEAN
    BY <1>1 DEF Alike
  <2> HIDE DEF u, no
  <2>3. e.pool = u.pool /\ e.rows = u.rows /\ e.torn = u.torn
    BY <2>2, OkIsFree DEF Alike
  <2>4. e.pool = p.pool /\ e.rows = p.rows /\ p.torn \subseteq e.torn
    BY <1>1, <2>3 DEF Alike
  <2> HIDE DEF e, q
  <2>5. ASSUME NEW r \in DataRow \ (e.torn \cup X)  PROVE  RowReplays(D, e, asked, ran, r)
    <3>1. RowReplays(C, p, asked, ran, r) /\ Ref[t] # r
      BY <1>1, <1>2, <2>3, <2>4 DEF RowsReplay
    <3>2. RowOf(D \cup e.pool, r) = RowOf(C \cup p.pool, r)
      BY <2>4, <3>1 DEF RowOf
    <3> QED  BY <2>4, <3>1, <3>2, RowStays
  <2> QED  BY <2>1, <2>5 DEF RowsReplay, q
<1>5. CASE t \notin p.pool /\ ~(~p.ok \/ DuplicateKey(t, ValueIn(p, t)))
  <2> DEFINE w == Run(p, t)
  <2>1. q = w
    BY <1>5, KnownIs DEF ExecuteFromBlock
  <2>2. /\ w \in Alike(p)
        /\ Ref[t] \in DataRow /\ OutOfTurn(p, t) => Ref[t] \in w.torn
    BY RunIsAlike
  <2>3. /\ \A r \in DataRow : r # Ref[t] => w.rows[r] = p.rows[r]
        /\ Ref[t] \in DataRow => w.rows[Ref[t]] = Execute(t, p.rows[Ref[t]])
    BY RunRows
  <2> HIDE DEF w, q
  <2>4. w.pool = p.pool /\ p.torn \subseteq w.torn
    BY <2>2 DEF Alike
  <2>5. ASSUME NEW r \in DataRow \ (w.torn \cup X)  PROVE  RowReplays(D, w, asked, ran, r)
    <3>1. RowReplays(C, p, asked, ran, r)
      BY <2>4 DEF RowsReplay
    <3>2. CASE Ref[t] # r
      <4>1. RowOf(D \cup w.pool, r) = RowOf(C \cup p.pool, r)
        BY <2>4, <3>2 DEF RowOf
      <4> QED  BY <2>3, <3>1, <3>2, <4>1, RowStays
    <3>3. CASE Ref[t] = r
      <4>1. ~OutOfTurn(p, t)
        BY <2>2, <3>3
      <4>2. ~(ran /\ Ref[asked] = Ref[t])
        BY <3>1, <3>3, <4>1, InTurn
      <4>3. IsReplay(RowOf(C \cup p.pool, r) \cup {t}, Execute(t, p.rows[r]))
        BY <3>1, <3>3, <4>1, RunInTurn
      <4>4. RowOf(D \cup w.pool, r) = RowOf(C \cup p.pool, r) \cup {t}
        BY <2>4, <3>3 DEF RowOf
      <4> QED  BY <2>3, <3>3, <4>2, <4>3, <4>4 DEF RowReplays
    <3> QED  BY <3>2, <3>3
  <2> QED  BY <2>1, <2>5 DEF RowsReplay, q
<1> QED  BY <1>3, <1>4, <1>5

\* The statements of a block are executed.
LEMMA ExecuteKeepsRows ==
  ASSUME NEW b \in Block, NEW X, NEW p \in PoolState, Fresh(p), RowsReplay(Older(b), p, X)
  PROVE  RowsReplay(TxsOn(b), FoldLeft(ExecuteFromBlock, p, Txs[b]), X)
<1> DEFINE s == Txs[b]
           G(i) == {q \in Alike(p) : RowsReplay(Before(b, i + 1), q, X)}
           F == [i \in 0..Len(s) |-> G(i)]
           zero == 0
<1>1. s \in Seq(Tx) /\ Len(s) \in Nat /\ \A i \in 1..Len(s) : s[i] \in Tx
  BY TxTypes
<1>2. /\ Before(b, 1) = Older(b) /\ Before(b, Len(s) + 1) = TxsOn(b)
      /\ \A i \in 1..Len(s) : Before(b, i + 1) = Before(b, i) \cup {s[i]}
  BY BeforeSteps
<1>3. \A i \in 1..Len(s) : Ref[s[i]] \in DataRow =>
        /\ Base[s[i]] \in Before(b, i)
        /\ \A d \in Before(b, i) : Ref[d] = Ref[s[i]] => Base[d] \notin {s[i], Base[s[i]]}
  BY InItsPlace
<1> HIDE DEF s
<1>4. /\ \A i \in 0..Len(s) : F[i] = G(i)
      /\ \A i \in 1..Len(s) : i - 1 \in 0..Len(s) /\ i \in 0..Len(s) /\ i - 1 + 1 = i
      /\ 0 \in 0..Len(s) /\ Len(s) \in 0..Len(s) /\ 0 + 1 = 1
  BY <1>1
<1> HIDE DEF F
<1>5. p \in F[0]
  BY <1>2, <1>4 DEF Alike
<1>6. ASSUME NEW i \in 1..Len(s), NEW v \in F[i - 1]  PROVE  ExecuteOp(zero, v, s[i]) \in F[i]
  <2> DEFINE w == ExecuteFromBlock(v, s[i])
  <2>1. v \in Alike(p) /\ RowsReplay(Before(b, i), v, X) /\ v \in PoolState /\ Fresh(v)
    <3>1. v \in G(i - 1) /\ i - 1 + 1 = i
      BY <1>4
    <3>2. v \in Alike(p) /\ RowsReplay(Before(b, i), v, X)
      BY <3>1
    <3> QED  BY <3>2 DEF Alike, Fresh
  <2>2. RowsReplay(Before(b, i) \cup {s[i]}, w, X)
    BY <1>1, <1>3, <2>1, ExecuteStep
  <2>3. w \in Alike(v)
    <3> DEFINE u == Spoil(v, s[i])
               no == FALSE
    <3>1. Run(v, s[i]) \in Alike(v) /\ u \in Alike(v) /\ no \in BOOLEAN /\ s[i] \in Tx
      BY <1>1, <2>1, RunIsAlike, SpoilIsAlike
    <3>2. w \in {v, [u EXCEPT !.ok = no], Run(v, s[i])}
      BY DEF ExecuteFromBlock
    <3> HIDE DEF u, no, w
    <3>3. [u EXCEPT !.ok = no] \in Alike(u) /\ Alike(u) \subseteq Alike(v) /\ v \in Alike(v)
      BY <2>1, <3>1, OkIsFree DEF Alike
    <3> QED  BY <3>1, <3>2, <3>3
  <2>4. w \in Alike(p)
    BY <2>1, <2>3 DEF Alike
  <2>5. w \in G(i)
    BY <1>2, <2>2, <2>4
  <2> QED  BY <1>4, <2>5 DEF ExecuteOp
<1> HIDE DEF G, zero
<1>7. Executes!Fold(zero, p, s) \in F[Len(s)]
  BY <1>1, <1>5, <1>6, Executes!FoldReaches
<1>8. FoldLeft(ExecuteFromBlock, p, s) \in G(Len(s))
  BY <1>4, <1>7, ExecuteFolds DEF zero
<1> QED  BY <1>2, <1>8 DEF G, s

LEMMA DeletedRows ==
  ASSUME NEW p \in PoolState, NEW b \in Block
  PROVE  DeleteSigned(p, b).rows = p.rows
<1> DEFINE G == {q \in PoolState : q.rows = p.rows}
           s == Txs[b]
<1>1. s \in Seq(Tx)
  BY TxTypes
<1>2. p \in G
  OBVIOUS
<1>3. ASSUME NEW v \in G, NEW t \in Tx  PROVE  DeleteOp(b, v, t) \in G
  <2>1. Delete(v, t) \in PoolState /\ Delete(v, t).rows = v.rows
    <3>1. Delete(v, t) \in PoolState
      BY DeleteIs
    <3>2. Delete(v, t).rows = v.rows
      BY DEF Delete, PoolState
    <3> QED  BY <3>1, <3>2
  <2> QED  BY <2>1 DEF DeleteOp
<1> HIDE DEF G, s
<1>4. Deletes!Fold(b, p, s) \in G
  BY <1>1, <1>2, <1>3, Deletes!FoldStays
<1>5. DeleteSigned(p, b) \in G
  BY <1>4, DeleteFolds DEF s
<1> QED  BY <1>5 DEF G

\* A block is put on the top.
LEMMA PutOnKeepsRows ==
  ASSUME NEW b \in Block \ {Genesis}, NEW X, NEW p \in RowState(TxsOn(Prev[b]), X),
         NEW q \in PutOn(p, b)
  PROVE  q \in RowState(TxsOn(b), X) /\ Fresh(q)
<1> DEFINE C == TxsOn(Prev[b])
           D == TxsOn(b)
<1>1. PICK r \in Rivals(Renewed(p), b) :
        q = [DeleteSigned(FoldLeft(ExecuteFromBlock, r, Txs[b]), b) EXCEPT !.ok = TRUE]
  BY DEF PutOn
<1> DEFINE u == Renewed(p)
           e == FoldLeft(ExecuteFromBlock, r, Txs[b])
           d == DeleteSigned(e, b)
           yes == TRUE
<1>2. Older(b) = C /\ C \in SUBSET Tx /\ HasBases(C)
  <2>1. Prev[b] \in Block
    BY BlocksAreTree DEF Walks!IsTree
  <2> QED  BY <2>1, BranchHasBases DEF Older
<1>3. p \in PoolState /\ p \in RowState(C, X)
  BY DEF RowState
<1>4. u \in RowState(C, X) /\ Fresh(u) /\ u.touched = FALSE /\ u \in PoolState
  <2>1. u.rows = p.rows
    BY <1>3 DEF Renewed, PoolState
  <2>2. /\ u \in PoolState /\ u.pool = p.pool /\ u.torn = p.torn
        /\ u.touched = FALSE /\ Fresh(u)
    BY <1>3, RenewedIs
  <2> HIDE DEF u, C
  <2> QED  BY <1>3, <2>1, <2>2, StateStays
<1> HIDE DEF u, C
<1>5. r \in RowState(C, X) /\ r \in Less(u, C)
  BY <1>1, <1>2, <1>4, RivalsKeepRows, RivalsTake DEF u
<1>6. /\ r \in PoolState /\ Fresh(r) /\ ~r.touched
      /\ Apart(C, r, X) /\ RowsReplay(C, r, X)
  BY <1>4, <1>5 DEF RowState, Less
<1>7. e \in Alike(r) /\ RowsReplay(D, e, X)
  BY <1>2, <1>6, ExecuteKeepsRows, ExecuteIsAlike
<1>8. e \in PoolState /\ e.pool = r.pool /\ r.torn \subseteq e.torn /\ Fresh(e) /\ ~e.touched
  BY <1>6, <1>7 DEF Alike, Fresh
<1> HIDE DEF e
<1>9. /\ d \in PoolState /\ d.pool = e.pool \ Signed(b) /\ d.torn = e.torn
      /\ d.touched = e.touched /\ Fresh(d) /\ d.rows = e.rows
  BY <1>8, DeletedIs, DeletedRows
<1>10. q = [d EXCEPT !.ok = yes] /\ yes \in BOOLEAN
  BY <1>1 DEF e
<1>11. Signed(b) \subseteq TxsOf(b) /\ D = TxsOf(b) \cup C
  BY <1>2, TxsOnStep DEF Signed
<1> HIDE DEF d, D, yes
<1>12. RowsReplay(D, d, X)
  <2> SUFFICES ASSUME NEW w \in DataRow \ (d.torn \cup X)  PROVE  RowReplays(D, d, asked, ran, w)
    BY DEF RowsReplay
  <2>1. RowReplays(D, e, asked, ran, w)
    BY <1>7, <1>9 DEF RowsReplay
  <2>2. RowOf(D \cup d.pool, w) = RowOf(D \cup e.pool, w)
    BY <1>9, <1>11 DEF RowOf
  <2> QED  BY <1>9, <2>1, <2>2, RowStays
<1>13. Apart(D, d, X)
  <2> SUFFICES ASSUME NEW t \in d.pool \cap D, Ref[t] \in DataRow
               PROVE  Ref[t] \in d.torn \cup X
    BY DEF Apart
  <2>1. t \in r.pool /\ t \notin Signed(b) /\ t \in Held
    BY <1>8, <1>9 DEF PoolState
  <2>2. t \in C
    BY <1>11, <2>1, TxsOfBlocks
  <2> QED  BY <1>6, <1>8, <1>9, <2>1, <2>2 DEF Apart
<1>14. d \in RowState(D, X)
  BY <1>9, <1>12, <1>13 DEF RowState
<1>15. /\ q \in PoolState /\ q.rows = d.rows /\ q.pool = d.pool /\ q.torn = d.torn
       /\ Fresh(q)
  BY <1>9, <1>10, OkIsFree DEF Alike
<1> QED  BY <1>14, <1>15, StateStays DEF D

\* So are the blocks of a branch, one after the other.
LEMMA PutOnAllKeepsRows ==
  ASSUME NEW base \in Block, NEW s \in Seq(Block \ {Genesis}), s # <<>>,
         Prev[s[1]] = base, IsWalkUp(s), NEW X, NEW p \in RowState(TxsOn(base), X),
         NEW q \in PutOnAll(p, s)
  PROVE  q \in RowState(TxsOn(s[Len(s)]), X)
<1> DEFINE n == Len(s)
           G(b) == SUBSET RowState(TxsOn(b), X)
           F == [i \in 0..n |-> G(IF i = 0 THEN base ELSE s[i])]
           zero == 0
           first == {p}
<1>1. n \in Nat \ {0} /\ \A i \in 1..n : s[i] \in Block \ {Genesis}
  BY EmptySeq, LenProperties, ElementOfSeq
<1> HIDE DEF G
<1>2. /\ F[0] = G(base)
      /\ \A i \in 1..n : F[i - 1] = G(Prev[s[i]]) /\ F[i] = G(s[i])
  <2>1. ASSUME NEW i \in 1..n  PROVE  F[i - 1] = G(Prev[s[i]]) /\ F[i] = G(s[i])
    <3>1. i - 1 \in 0..n /\ i \in 0..n /\ i # 0
      BY <1>1
    <3>2. CASE i = 1
      BY <3>1, <3>2
    <3>3. CASE i # 1
      <4>1. i - 1 # 0 /\ i - 1 \in 1..(n - 1) /\ i - 1 + 1 = i
        BY <1>1, <3>3
      <4>2. Prev[s[i]] = s[i - 1]
        <5>1. Prev[s[i - 1 + 1]] = s[i - 1]
          BY <4>1 DEF IsWalkUp
        <5> QED  BY <4>1, <5>1
      <4> QED  BY <3>1, <4>1, <4>2
    <3> QED  BY <3>2, <3>3
  <2>2. F[0] = G(base)
    BY <1>1
  <2> HIDE DEF F
  <2> QED  BY <2>1, <2>2
<1> HIDE DEF F
<1>3. ASSUME NEW i \in 1..n, NEW P \in F[i - 1]  PROVE  PutOnOp(zero, P, s[i]) \in F[i]
  <2>1. ASSUME NEW x \in P, NEW y \in PutOn(x, s[i])  PROVE  y \in RowState(TxsOn(s[i]), X)
    <3>1. x \in RowState(TxsOn(Prev[s[i]]), X) /\ s[i] \in Block \ {Genesis}
      BY <1>1, <1>2 DEF G
    <3> QED  BY <3>1, PutOnKeepsRows
  <2> QED  BY <1>2, <2>1 DEF PutOnOp, G
<1>4. first \in F[0]
  BY <1>2 DEF G
<1> HIDE DEF zero, first
<1>5. PutsOn!Fold(zero, first, s) \in F[n]
  <2> HIDE DEF n
  <2> QED  BY <1>3, <1>4, PutsOn!FoldReaches DEF n
<1>6. n \in 1..n
  BY <1>1
<1>7. PutOnAll(p, s) \in G(s[n])
  BY <1>2, <1>5, <1>6, PutOnAllFolds DEF zero, first
<1> QED  BY <1>7 DEF G

(***************************************************************************)
(* Blocks are taken off.                                                   *)
(***************************************************************************)

\* The last statement of a branch is rolled back, or the row is marked.
LEMMA UndoStep ==
  ASSUME NEW C \in SUBSET Tx, HasBases(C), NEW t \in Held \cup Coinbase, t \notin C, NEW X,
         NEW p \in PoolState, p.ok => p \in RowState(C \cup {t}, X),
         UndoOfBlock(p, t).ok
  PROVE  UndoOfBlock(p, t) \in RowState(C, X)
<1> DEFINE D == C \cup {t}
           u == Undo(p, t)
           no == FALSE
           f == [Spoil(p, t) EXCEPT !.ok = no]
<1>1. t \in Tx /\ (t \in SQL => Ref[t] \in DataRow) /\ (t \notin SQL => Ref[t] \notin DataRow)
  BY HeldTypes, Statements, Pending
<1>2. p.ok
  BY DEF UndoOfBlock
<1>3. p \in RowState(D, X) /\ (p.touched \/ Fresh(p)) /\ Apart(D, p, X) /\ RowsReplay(D, p, X)
  BY <1>2 DEF RowState
<1>4. CASE t \notin SQL
  <2>1. UndoOfBlock(p, t) = p
    BY <1>4 DEF UndoOfBlock
  <2>2. RowsReplay(C, p, X)
    <3> SUFFICES ASSUME NEW r \in DataRow \ (p.torn \cup X)  PROVE  RowReplays(C, p, asked, ran, r)
      BY DEF RowsReplay
    <3>1. RowReplays(D, p, asked, ran, r)
      BY <1>3 DEF RowsReplay
    <3>2. RowOf(C \cup p.pool, r) = RowOf(D \cup p.pool, r)
      BY <1>1, <1>4 DEF RowOf
    <3> QED  BY <3>1, <3>2, RowStays
  <2>3. Apart(C, p, X)
    BY <1>3 DEF Apart
  <2> QED  BY <1>3, <2>1, <2>2, <2>3 DEF RowState
<1>5. ~(t \in SQL /\ RollbackFails(t, ValueIn(p, t)))
  <2> SUFFICES ASSUME t \in SQL, RollbackFails(t, ValueIn(p, t))  PROVE  FALSE
    OBVIOUS
  <2>1. UndoOfBlock(p, t) = f
    BY <1>2 DEF UndoOfBlock
  <2>2. f.ok = no
    <3>1. Spoil(p, t) \in PoolState /\ no \in BOOLEAN
      BY <1>1, SpoilIsAlike DEF Alike
    <3> HIDE DEF no
    <3> QED  BY <3>1, OkIsFree
  <2> QED  BY <2>1, <2>2
<1>6. CASE t \in SQL
  <2>1. UndoOfBlock(p, t) = u
    BY <1>2, <1>5, <1>6 DEF UndoOfBlock
  <2>2. u \in Alike(p) /\ (OutOfTurn(p, t) => Ref[t] \in u.torn)
    BY <1>1, <1>6, UndoIsAlike
  <2>3. /\ \A r \in DataRow : r # Ref[t] => u.rows[r] = p.rows[r]
        /\ u.rows[Ref[t]] = Rollback(t, p.rows[Ref[t]])
    BY <1>1, <1>6, UndoRows
  <2> HIDE DEF u
  <2>4. u \in PoolState /\ u.pool = p.pool /\ p.torn \subseteq u.torn /\ (u.touched \/ Fresh(u))
    BY <1>3, <2>2 DEF Alike, Fresh
  <2>5. Apart(C, u, X)
    BY <1>3, <2>4 DEF Apart
  <2>6. ASSUME NEW r \in DataRow \ (u.torn \cup X)  PROVE  RowReplays(C, u, asked, ran, r)
    <3>1. RowReplays(D, p, asked, ran, r)
      BY <1>3, <2>4 DEF RowsReplay
    <3>2. CASE Ref[t] # r
      <4>1. RowOf(C \cup u.pool, r) = RowOf(D \cup p.pool, r)
        BY <2>4, <3>2 DEF RowOf
      <4> QED  BY <2>3, <3>1, <3>2, <4>1, RowStays
    <3>3. CASE Ref[t] = r
      <4>1. ~OutOfTurn(p, t)
        BY <2>2, <3>3
      <4>2. ~(ran /\ Ref[asked] = Ref[t])
        BY <1>1, <3>1, <3>3, <4>1, InTurn
      <4>3. t \notin p.pool
        BY <1>3, <2>4, <2>6, <3>3 DEF Apart
      <4>4. \A d \in D : OnSameRow(d) => Base[d] # t
        BY <1>1, BaseTypes DEF HasBases
      <4>5. t \in D \cup p.pool
        OBVIOUS
      <4> HIDE DEF D
      <4>6. IsReplay(RowOf(D \cup p.pool, r) \ {t}, Rollback(t, p.rows[r]))
        BY <1>1, <3>1, <3>3, <4>1, <4>4, <4>5, UndoInTurn
      <4>7. RowOf(C \cup u.pool, r) = RowOf(D \cup p.pool, r) \ {t}
        BY <2>4, <4>3 DEF RowOf, D
      <4> QED  BY <2>3, <3>3, <4>2, <4>6, <4>7 DEF RowReplays
    <3> QED  BY <3>2, <3>3
  <2>7. RowsReplay(C, u, X)
    BY <2>6 DEF RowsReplay
  <2> QED  BY <2>1, <2>4, <2>5, <2>7 DEF RowState
<1> QED  BY <1>4, <1>6

\* A block is taken off, from its last transaction up.
LEMMA TakeOffKeepsRows ==
  ASSUME NEW b \in Block \ {Genesis}, NEW X,
         NEW p \in PoolState, p.ok => p \in RowState(TxsOn(b), X)
  PROVE  /\ TakeOff(p, b) \in PoolState
         /\ TakeOff(p, b).ok => TakeOff(p, b) \in RowState(TxsOn(Prev[b]), X)
<1> DEFINE s == Reverse(Txs[b])
           n == Len(Txs[b])
           G(k) == {q \in PoolState : q.ok => q \in RowState(Before(b, k), X)}
           F == [i \in 0..n |-> G(n + 1 - i)]
           zero == 0
<1>1. /\ s \in Seq(Tx) /\ n \in Nat /\ Len(s) = n
      /\ \A i \in 1..n : s[i] = Txs[b][n + 1 - i]
  <2>1. s \in Seq(Tx) /\ n \in Nat /\ Len(s) = n
    BY BackwardsIsLaterFirst, TxTypes
  <2>2. ASSUME NEW i \in 1..n  PROVE  s[i] = Txs[b][n + 1 - i]
    <3>1. s[i] = Txs[b][(n - i) + 1]
      BY DEF Reverse
    <3>2. (n - i) + 1 = n + 1 - i
      BY <2>1
    <3> QED  BY <3>1, <3>2
  <2> QED  BY <2>1, <2>2
<1>2. /\ Before(b, 1) = Older(b) /\ Before(b, n + 1) = TxsOn(b)
      /\ \A k \in 1..n : Before(b, k + 1) = Before(b, k) \cup {Txs[b][k]}
  BY BeforeSteps
<1>3. \A k \in 1..n : /\ Before(b, k) \in SUBSET Tx /\ HasBases(Before(b, k))
                      /\ Txs[b][k] \notin Before(b, k) /\ Txs[b][k] \in Held \cup Coinbase
  <2>1. \A k \in 1..n : k \in 1..(n + 1)
    BY <1>1
  <2>2. \A k \in 1..n : Txs[b][k] \in TxsOf(b)
    BY TxTypes DEF TxsOf
  <2> QED  BY <2>1, <2>2, BeforeHasBases, AtItsPlace, TxsOfBlocks
<1> HIDE DEF n, s, G
<1>4. /\ \A i \in 0..n : F[i] = G(n + 1 - i)
      /\ \A i \in 1..n : /\ i - 1 \in 0..n /\ i \in 0..n
                         /\ n + 1 - i \in 1..n /\ n + 1 - (i - 1) = n + 1 - i + 1
      /\ 0 \in 0..n /\ n \in 0..n /\ n + 1 - 0 = n + 1 /\ n + 1 - n = 1
  BY <1>1
<1> HIDE DEF F
<1>5. p \in F[0]
  <2>1. F[0] = G(n + 1)
    BY <1>4
  <2> QED  BY <1>2, <2>1 DEF G
<1>6. ASSUME NEW i \in 1..n, NEW v \in F[i - 1]  PROVE  UndoOp(zero, v, s[i]) \in F[i]
  <2> DEFINE k == n + 1 - i
             t == Txs[b][k]
             w == UndoOfBlock(v, t)
  <2>1. k \in 1..n /\ s[i] = t /\ F[i] = G(k) /\ F[i - 1] = G(k + 1)
    BY <1>1, <1>4
  <2> HIDE DEF k
  <2>2. v \in PoolState /\ (v.ok => v \in RowState(Before(b, k) \cup {t}, X))
    BY <1>2, <2>1 DEF G
  <2>3. w.ok => w \in RowState(Before(b, k), X)
    BY <1>3, <2>1, <2>2, UndoStep
  <2>4. w \in PoolState
    BY <1>3, <2>1, <2>2, UndoOfBlockIs DEF Alike
  <2> QED  BY <2>1, <2>3, <2>4 DEF UndoOp, G
<1> HIDE DEF zero
<1>7. Undoes!Fold(zero, p, s) \in F[n]
  BY <1>1, <1>5, <1>6, Undoes!FoldReaches
<1>8. TakeOff(p, b) \in G(1)
  <2>1. F[n] = G(1)
    BY <1>4
  <2> QED  BY <1>7, <2>1, TakeOffFolds DEF s, zero
<1>9. Older(b) = TxsOn(Prev[b])
  BY DEF Older
<1> QED  BY <1>2, <1>8, <1>9 DEF G

\* So are the blocks of a branch, from its top down.
LEMMA TakenOffKeepsRows ==
  ASSUME NEW s \in Seq(Block \ {Genesis}), Len(s) \in Nat \ {0}, IsWalkDown(s), NEW X,
         NEW p \in RowState(TxsOn(s[1]), X), TakenOff(p, s).ok
  PROVE  TakenOff(p, s) \in RowState(TxsOn(Prev[s[Len(s)]]), X)
<1> DEFINE n == Len(s)
           G(b) == {q \in PoolState : q.ok => q \in RowState(TxsOn(b), X)}
           F == [i \in 0..n |-> G(IF i = n THEN Prev[s[n]] ELSE s[i + 1])]
           zero == 0
<1>1. n \in Nat \ {0} /\ \A i \in 1..n : s[i] \in Block \ {Genesis}
  BY ElementOfSeq
<1> HIDE DEF G
<1>2. /\ F[0] = G(s[1]) /\ F[n] = G(Prev[s[n]])
      /\ \A i \in 1..n : F[i - 1] = G(s[i]) /\ F[i] = G(Prev[s[i]])
  <2>1. ASSUME NEW i \in 1..n  PROVE  F[i - 1] = G(s[i]) /\ F[i] = G(Prev[s[i]])
    <3>1. i - 1 \in 0..n /\ i \in 0..n /\ i - 1 # n /\ i - 1 + 1 = i
      <4> HIDE DEF n, F
      <4> QED  BY <1>1
    <3>2. CASE i = n
      BY <3>1, <3>2
    <3>3. CASE i # n
      <4>1. i \in 1..(n - 1)
        BY <1>1, <3>3
      <4>2. Prev[s[i]] = s[i + 1]
        BY <4>1 DEF IsWalkDown
      <4> QED  BY <3>1, <3>3, <4>2
    <3> QED  BY <3>2, <3>3
  <2>2. F[0] = G(s[1]) /\ F[n] = G(Prev[s[n]])
    <3>1. 0 \in 0..n /\ n \in 0..n /\ 0 # n /\ 0 + 1 = 1
      BY <1>1
    <3> QED  BY <3>1
  <2> HIDE DEF F
  <2> QED  BY <2>1, <2>2
<1> HIDE DEF F
<1>3. ASSUME NEW i \in 1..n, NEW v \in F[i - 1]  PROVE  TakeOffOp(zero, v, s[i]) \in F[i]
  <2>1. s[i] \in Block \ {Genesis} /\ v \in PoolState /\ (v.ok => v \in RowState(TxsOn(s[i]), X))
    BY <1>1, <1>2 DEF G
  <2>2. /\ TakeOff(v, s[i]) \in PoolState
        /\ TakeOff(v, s[i]).ok => TakeOff(v, s[i]) \in RowState(TxsOn(Prev[s[i]]), X)
    BY <2>1, TakeOffKeepsRows
  <2> QED  BY <1>2, <2>2 DEF TakeOffOp, G
<1>4. p \in F[0]
  BY <1>2 DEF G, RowState
<1> HIDE DEF zero
<1>5. TakesOff!Fold(zero, p, s) \in F[n]
  <2> HIDE DEF n
  <2> QED  BY <1>3, <1>4, TakesOff!FoldReaches DEF n
<1>6. TakenOff(p, s) \in G(Prev[s[n]])
  BY <1>2, <1>5, AllTakenOffFolds DEF zero
<1> QED  BY <1>6 DEF G

(***************************************************************************)
(* Transactions enter the pool.                                            *)
(***************************************************************************)

\* A statement that passes the verification comes next on its row, or it is pending.
LEMMA StatementFits ==
  ASSUME NEW n, NEW blocks, NEW dropped \in BOOLEAN, Knows(n, blocks, dropped),
         NEW p \in PoolState, Clean(n, p, dropped), NEW t \in Held \cap SQL,
         NEW kinds, MayPass(n, p, t, kinds), Ref[t] \notin p.torn \cup Forgotten(n),
         \A x \in Known(p) : Ref[x] = Ref[t] => x \in p.pool,
         NEW v, IsReplay(RowOf(TxsOn(n.top) \cup p.pool, Ref[t]), v)
  PROVE  /\ t \notin TxsOn(n.top)
         /\ OnSameRow(t) => Base[t] \in TxsOn(n.top) \cup p.pool
         /\ \A d \in TxsOn(n.top) : Ref[d] = Ref[t] => Base[d] \notin {t, Base[t]}
<1> DEFINE C == TxsOn(n.top)
           S == RowOf(C \cup p.pool, Ref[t])
           marks == p.torn \cup Forgotten(n)
<1>1. /\ n.top \in Block /\ C \in SUBSET Tx /\ HasBases(C)
      /\ t \in Tx /\ Ref[t] \in DataRow /\ Ref[t] \in Row /\ NoTx \notin Tx
  BY BranchHasBases, HeldTypes, Transactions DEF Knows
<1>2. \A x \in Inside(p) \cap C : Excused(x, marks, dropped)
  BY DEF Clean
<1>3. t \notin C
  <2>1. \A x \in Known(p) \cap C : Excused(x, marks, dropped)
    BY <1>2, KnownIs
  <2>2. Forgotten(n) \subseteq marks /\ ~Excused(t, marks, dropped)
    BY DEF Excused
  <2> HIDE DEF marks
  <2> QED  BY <2>1, <2>2, ApprovedIsRefused
<1>4. S \in SUBSET Tx /\ HasBases(S)
  BY ReplayHasBases
<1>5. \/ t \in p.pool
      \/ Base[t] \in BasesInPool(p, t)
      \/ Base[t] = BaseOnChain(n, t) /\ Base[t] \in C
  <2>1. t \in Known(p) => t \in p.pool
    OBVIOUS
  <2> QED  BY <2>1, BaseIsThere
<1>6. OnSameRow(t) => Base[t] \in C \cup p.pool
  <2>1. t \in p.pool => t \in S
    BY DEF RowOf
  <2>2. Base[t] \in BasesInPool(p, t) => Base[t] \in p.pool
    BY DEF BasesInPool
  <2> HIDE DEF C
  <2> QED  BY <1>4, <1>5, <2>1, <2>2 DEF HasBases, RowOf
<1>7. ASSUME NEW d \in C, Ref[d] = Ref[t], Base[d] = Base[t]  PROVE  FALSE
  <2>1. d \in Tx /\ d # t
    BY <1>1, <1>3
  <2>2. CASE t \in p.pool
    <3>1. t \in S /\ d \in S
      BY <1>7, <2>2 DEF RowOf
    <3> HIDE DEF S
    <3>2. PICK l \in S : l \in Tx /\ S = LineOf(l)
      BY <3>1 DEF IsReplay, S
    <3> QED  BY <1>7, <2>1, <3>1, <3>2, LineHasNoFork
  <2>3. CASE Base[t] \in BasesInPool(p, t)
    <3>1. Base[t] \in p.pool /\ Ref[Base[t]] = Ref[t]
      BY <2>3 DEF BasesInPool
    <3>2. Base[t] \in Held /\ Base[t] \in Tx
      BY <3>1, HeldTypes DEF PoolState
    <3>3. Base[t] \in C
      BY <1>1, <1>7, <3>1, <3>2 DEF HasBases, OnSameRow
    <3>4. Base[t] \in SQL
      BY <1>1, <3>1, <3>2, HeldTypes
    <3> QED  BY <1>2, <3>1, <3>3, <3>4 DEF Excused, Inside
  <2>4. CASE Base[t] = BaseOnChain(n, t) /\ Base[t] \in C
    <3>1. LastOfRow(n.top, Ref[t]) # {}
      BY <1>1, <1>7, RowHasLast
    <3>2. n.refs[Ref[t]] # NoTx
      BY <1>1, <3>1 DEF Forgotten
    <3>3. Base[t] = n.refs[Ref[t]]
      BY <2>4, <3>2 DEF BaseOnChain
    <3>4. Base[t] \in LastOfRow(n.top, Ref[t])
      BY <1>1, <3>2, <3>3 DEF Knows, RefsRight
    <3>5. Ref[Base[t]] = Ref[t]
      BY <1>1, <3>4, LastIsOnBranch
    <3> QED  BY <1>1, <1>7, <2>4, <3>4, <3>5, FollowedIsNotLast
  <2> QED  BY <1>5, <2>2, <2>3, <2>4
<1>8. ASSUME NEW d \in C, Ref[d] = Ref[t]  PROVE  Base[d] # t
  BY <1>1, <1>3, <1>8 DEF HasBases, OnSameRow
<1> QED  BY <1>3, <1>6, <1>7, <1>8

\* The records of the pool of a node that knows what n says.
CleanRows(n, dropped) ==
  {p \in PoolState :
     /\ p.touched \/ Fresh(p)
     /\ p.torn # Row => Clean(n, p, dropped)
     /\ RowsReplay(TxsOn(n.top), p, Forgotten(n))}

\* What is approved is not pending on a row that is not marked.
LEMMA CleanIsApart ==
  ASSUME NEW n, NEW dropped, NEW p \in CleanRows(n, dropped)
  PROVE  p \in RowState(TxsOn(n.top), Forgotten(n))
<1>1. ASSUME NEW t \in p.pool \cap TxsOn(n.top), Ref[t] \in DataRow
      PROVE  Ref[t] \in p.torn \cup Forgotten(n)
  <2>1. t \in Held /\ t \in SQL /\ Ref[t] \in Row
    BY <1>1, HeldTypes DEF CleanRows, PoolState
  <2>2. CASE p.torn = Row
    BY <2>1, <2>2
  <2>3. CASE p.torn # Row
    BY <2>1, <2>3 DEF CleanRows, Clean, Excused, Inside
  <2> QED  BY <2>2, <2>3
<1> QED  BY <1>1 DEF CleanRows, RowState, Apart

\* AddTransactionToPool: a statement is executed when it comes next, or the row is
\* marked.
LEMMA AddedKeepsRows ==
  ASSUME NEW n, NEW blocks, NEW dropped \in BOOLEAN, NEW p \in CleanRows(n, dropped),
         p.torn # Row => Knows(n, blocks, dropped), NEW t \in Held, NEW q \in Added(n, p, t)
  PROVE  q \in CleanRows(n, dropped)
<1> DEFINE C == TxsOn(n.top)
           X == Forgotten(n)
           u == Run(p, t)
           kinds == Changing
<1>1. /\ p \in PoolState /\ (p.touched \/ Fresh(p)) /\ RowsReplay(C, p, X)
      /\ p.torn # Row => Clean(n, p, dropped)
  BY DEF CleanRows
<1>2. q \in Grows(n, p, dropped)
  BY <1>1, AddedGrows
<1>3. /\ q \in PoolState /\ (q.touched \/ Fresh(q)) /\ p.torn \subseteq q.torn
      /\ q.torn # Row => p.torn # Row
  BY <1>1, <1>2 DEF Grows, PoolState
<1>4. q.torn # Row => Clean(n, q, dropped)
  BY <1>1, <1>2, <1>3 DEF Grows
<1>5. SUFFICES ASSUME q # p  PROVE  RowsReplay(C, q, X)
  BY <1>1, <1>3, <1>4 DEF CleanRows
<1>6. MayPass(n, p, t, kinds) /\ q = Kept(u, t)
  BY <1>5 DEF Added
<1>7. /\ t \in Tx /\ u \in Alike(p)
      /\ Ref[t] \in DataRow /\ OutOfTurn(p, t) => Ref[t] \in u.torn
      /\ \A r \in DataRow : r # Ref[t] => u.rows[r] = p.rows[r]
      /\ Ref[t] \in DataRow => u.rows[Ref[t]] = Execute(t, p.rows[Ref[t]])
  BY <1>1, HeldTypes, RunIsAlike, RunRows
<1> HIDE DEF u, kinds
<1>8. u \in PoolState /\ u.pool = p.pool
  BY <1>7 DEF Alike
<1>9. SUFFICES ASSUME NEW r \in DataRow \ (q.torn \cup X)  PROVE  RowReplays(C, q, asked, ran, r)
  BY DEF RowsReplay
<1>10. RowReplays(C, p, asked, ran, r) /\ r \notin p.torn /\ r \in Row /\ q.torn # Row
  BY <1>1, <1>3, HeldTypes DEF RowsReplay
<1>11. CASE Conflicts(u, t) # {}
  <2>1. q = Spoil(u, t)
    BY <1>6, <1>11 DEF Kept
  <2>2. q \in Alike(u) /\ q.rows = u.rows /\ (t \in SQL => Ref[t] \in q.torn)
    BY <1>7, <1>8, <2>1, SpoilIsAlike
  <2>3. Ref[t] # r
    BY <2>2, HeldTypes
  <2>4. q.rows[r] = p.rows[r] /\ q.pool = p.pool
    BY <1>7, <1>8, <2>2, <2>3 DEF Alike
  <2> QED  BY <1>10, <2>4, RowStays
<1>12. CASE Conflicts(u, t) = {}
  <2>1. q.pool = p.pool \cup {t} /\ q.rows = u.rows /\ q.torn = u.torn
    <3>1. q = Put(u, t)
      BY <1>6, <1>12 DEF Kept
    <3> QED  BY <1>8, <3>1 DEF PoolState, Put
  <2>2. CASE Ref[t] # r
    <3>1. RowOf(C \cup q.pool, r) = RowOf(C \cup p.pool, r)
      BY <2>1, <2>2 DEF RowOf
    <3> QED  BY <1>7, <1>10, <2>1, <2>2, <3>1, RowStays
  <2>3. CASE Ref[t] = r
    <3>1. ~OutOfTurn(p, t) /\ t \in SQL
      BY <1>7, <2>1, <2>3, HeldTypes
    <3>2. /\ ~(ran /\ Ref[asked] = Ref[t]) /\ ~p.touched
          /\ IsReplay(RowOf(C \cup p.pool, Ref[t]), p.rows[Ref[t]])
      BY <1>1, <1>7, <1>10, <2>3, <3>1, InTurn
    <3>3. Known(p) = p.pool
      BY <1>1, <3>2, KnownIs
    <3>4. Ref[t] \notin p.torn \cup Forgotten(n) /\ p.torn # Row
      BY <1>10, <2>3
    <3>5. \A x \in Known(p) : Ref[x] = Ref[t] => x \in p.pool
      BY <3>3
    <3>6. Knows(n, blocks, dropped) /\ Clean(n, p, dropped)
      BY <1>1, <3>4
    <3>7. /\ OnSameRow(t) => Base[t] \in C \cup p.pool
          /\ \A d \in C : Ref[d] = Ref[t] => Base[d] \notin {t, Base[t]}
      <4> DEFINE v == p.rows[Ref[t]]
      <4>1. p \in PoolState /\ t \in Held \cap SQL /\ MayPass(n, p, t, kinds)
        BY <1>1, <1>6, <3>1
      <4>2. IsReplay(RowOf(TxsOn(n.top) \cup p.pool, Ref[t]), v)
        BY <3>2
      <4> HIDE DEF v
      <4> QED  BY <3>4, <3>5, <3>6, <4>1, <4>2, StatementFits
    <3>8. IsReplay(RowOf(C \cup p.pool, Ref[t]) \cup {t}, Execute(t, p.rows[Ref[t]]))
      BY <1>1, <1>7, <1>10, <2>3, <3>1, <3>7, RunInTurn
    <3>9. RowOf(C \cup q.pool, r) = RowOf(C \cup p.pool, Ref[t]) \cup {t}
      BY <2>1, <2>3 DEF RowOf
    <3> QED  BY <1>7, <2>1, <2>3, <3>2, <3>8, <3>9 DEF RowReplays
  <2> QED  BY <2>2, <2>3
<1> QED  BY <1>11, <1>12

\* The transactions of the old branch are added again.
LEMMA RepeatedKeepsRows ==
  ASSUME NEW n, NEW blocks, NEW dropped \in BOOLEAN, Knows(n, blocks, dropped),
         NEW P \in SUBSET CleanRows(n, dropped),
         NEW old \in Seq(Block \ {Genesis}), NEW q \in Repeated(n, P, old)
  PROVE  q \in CleanRows(n, dropped)
<1> DEFINE G == SUBSET CleanRows(n, dropped)
<1>1. ASSUME NEW Q \in G, NEW b \in Block \ {Genesis}  PROVE  RepeatOp(n, Q, b) \in G
  <2> DEFINE c == <<n, b>>
             s == Txs[b]
  <2>1. s \in Seq(Tx)
    BY TxTypes
  <2>2. ASSUME NEW R \in G, NEW t \in Tx  PROVE  AddOp(c, R, t) \in G
    <3>1. CASE t \in Signed(b)
      <4>1. t \in Held
        BY <3>1, TxsOfBlocks
      <4>2. ASSUME NEW x \in R, NEW y \in Added(n, x, t)  PROVE  y \in CleanRows(n, dropped)
        BY <4>1, AddedKeepsRows
      <4>3. AddOp(c, R, t) = UNION {Added(n, x, t) : x \in R}
        BY <3>1 DEF AddOp
      <4> QED  BY <4>2, <4>3
    <3>2. CASE t \notin Signed(b)
      BY <3>2 DEF AddOp
    <3> QED  BY <3>1, <3>2
  <2> HIDE DEF G, c, s
  <2>3. Adds!Fold(c, Q, s) \in G
    BY <2>1, <2>2, Adds!FoldStays
  <2> QED  BY <2>3, RepeatedFromFolds DEF RepeatOp, c, s
<1> DEFINE s == Reverse(old)
<1>2. s \in Seq(Block \ {Genesis})
  BY BackwardsIsList
<1>3. P \in G
  OBVIOUS
<1> HIDE DEF G, s
<1>4. Repeats!Fold(n, P, s) \in G
  BY <1>1, <1>2, <1>3, Repeats!FoldStays
<1> QED  BY <1>4, RepeatedFolds DEF G, s

\* Transactions are selected for a new block.
LEMMA SelectedKeepsRows ==
  ASSUME NEW C \in SUBSET Tx, HasBases(C), NEW X, NEW n, NEW p \in RowState(C, X), NEW S
  PROVE  Selected(n, p, S).p \in RowState(C, X)
<1> DEFINE P == RowState(C, X)
           G == [p : P, list : Seq(Held)]
           H == [p : P, list : Seq(Held), seen : SUBSET (Tx \X Nat)]
           c == <<n, S>>
           zero == 0
           base == [p |-> p, list |-> <<>>]
           fit == TriesTx!Fold(c, base, Timeline)
           next == [p |-> fit.p, list |-> <<>>, seen |-> {}]
           last == TriesInputs!Fold(zero, next, fit.list)
<1>1. Selected(n, p, S) = last
  <2>1. FoldLeft(LAMBDA s, t : IF t \in S THEN TryTx(n, s, t) ELSE s,
                 [p |-> p, list |-> <<>>], Timeline) = fit
    BY DEF TryTxOp, TriesTx!Fold, FoldLeft, MapThenFoldSet, Max, TriesTx!LastOf
  <2>2. FoldLeft(TryInputs, next, fit.list) = last
    <3> HIDE DEF next, fit
    <3> QED  BY DEF TryInputsOp, TriesInputs!Fold, FoldLeft, MapThenFoldSet, Max, TriesInputs!LastOf
  <2> HIDE DEF fit, last
  <2> QED  BY <2>1, <2>2 DEF Selected
<1>2. Timeline \in Seq(Held) /\ Held \subseteq Tx /\ <<>> \in Seq(Held)
  <2>1. Len(Timeline) \in Nat /\ Timeline \in [1..Len(Timeline) -> Held]
    BY Pending, LenProperties DEF Held, Members
  <2> QED  BY <2>1, HeldTypes
<1>3. ASSUME NEW q \in P, NEW t \in Held  PROVE  CancelAnyway(q, t) \in P
  BY CancelAnywayKeepsRows
<1> HIDE DEF P
<1>4. ASSUME NEW s \in G, NEW t \in Held  PROVE  TryTxOp(c, s, t) \in G
  <2>1. Append(s.list, t) \in Seq(Held) /\ CancelAnyway(s.p, t) \in P
    BY <1>3
  <2>2. TryTx(n, s, t) \in G
    BY <2>1 DEF TryTx
  <2> QED  BY <2>2 DEF TryTxOp
<1>5. base \in G
  BY <1>2 DEF P
<1>6. ASSUME NEW s \in H, NEW t \in Held  PROVE  TryInputsOp(zero, s, t) \in H
  <2> DEFINE fresh == Unseen(s.seen, t)
             marked == s.seen \cup {Ins[t][i] : i \in fresh}
  <2>1. Append(s.list, t) \in Seq(Held) /\ CancelAnyway(s.p, t) \in P
    BY <1>3
  <2>2. marked \in SUBSET (Tx \X Nat)
    <3>1. \A i \in fresh : Ins[t][i] \in Tx \X Nat
      BY <1>2, TxTypes, ElementOfSeq DEF Unseen
    <3> HIDE DEF fresh
    <3> QED  BY <3>1
  <2> HIDE DEF marked
  <2>3. /\ [s EXCEPT !.list = Append(@, t), !.seen = marked] \in H
        /\ [s EXCEPT !.p = CancelAnyway(@, t), !.seen = marked] \in H
    BY <2>1, <2>2
  <2>4. TryInputs(s, t) \in {[s EXCEPT !.list = Append(@, t), !.seen = marked],
                             [s EXCEPT !.p = CancelAnyway(@, t), !.seen = marked]}
    BY DEF TryInputs, marked
  <2> QED  BY <2>3, <2>4 DEF TryInputsOp
<1>7. fit \in G
  <2> HIDE DEF G, c, base
  <2> QED  BY <1>2, <1>4, <1>5, TriesTx!FoldStays
<1>8. next \in H /\ fit.list \in Seq(Held)
  <2> HIDE DEF fit
  <2> QED  BY <1>2, <1>7
<1>9. last \in H
  <2> DEFINE list == fit.list
  <2>1. list \in Seq(Held)
    BY <1>8
  <2>2. TriesInputs!Fold(zero, next, list) \in H
    <3> HIDE DEF H, zero, next, list
    <3> QED  BY <1>6, <1>8, <2>1, TriesInputs!FoldStays
  <2> QED  BY <2>2
<1>10. last.p \in P
  <2> HIDE DEF last
  <2> QED  BY <1>9
<1> HIDE DEF last
<1> QED  BY <1>1, <1>10 DEF P

LEMMA BackRows ==
  ASSUME NEW p \in PoolState, NEW b \in Block \ {Genesis}
  PROVE  BackFromBlock(p, b).rows = p.rows
<1> DEFINE G == {q \in PoolState : q.rows = p.rows}
           s == Txs[b]
<1>1. s \in Seq(Tx) /\ Signed(b) \subseteq Held
  BY TxTypes, TxsOfBlocks
<1>2. p \in G
  OBVIOUS
<1>3. ASSUME NEW v \in G, NEW t \in Tx  PROVE  BackOp(b, v, t) \in G
  <2>1. Spoil(v, t) \in G
    BY SpoilIsAlike DEF Alike
  <2>2. t \in Held => Put(v, t) \in G
    BY DEF Put, PoolState
  <2>3. BackOp(b, v, t) \in {v, Spoil(v, t)} \/ (t \in Held /\ BackOp(b, v, t) = Put(v, t))
    BY <1>1 DEF BackOp, Kept
  <2> QED  BY <2>1, <2>2, <2>3
<1> HIDE DEF G, s
<1>4. Backs!Fold(b, p, s) \in G
  BY <1>1, <1>2, <1>3, Backs!FoldStays
<1>5. BackFromBlock(p, b) \in G
  BY <1>4, BackFolds DEF s
<1> QED  BY <1>5 DEF G

(***************************************************************************)
(* The invariant, and the steps that leave the blocks alone.               *)
(***************************************************************************)

\* Every row that is not marked is a replay.
RowsInv == PoolInv /\ RowsReplay(TxsOn(top), Current, {})

\* What a step makes of the rows replays when the record that it makes does.
LEMMA BecomesReplays ==
  ASSUME NEW q, Becomes(q),
         \A r \in DataRow \ q.torn : RowReplays(TxsOn(top)', q, asked', ran', r)
  PROVE  RowsReplay(TxsOn(top), Current, {})'
<1> DEFINE p == [pool |-> pool', cache |-> cache', rows |-> rows', torn |-> torn',
                 touched |-> touched', ok |-> TRUE]
           C == TxsOn(top)'
           t == asked'
           running == ran'
<1>1. Current' = p
  BY DEF Current
<1>2. \A r \in DataRow \ q.torn : RowReplays(C, q, t, running, r)
  OBVIOUS
<1>3. p.pool = q.pool /\ p.rows = q.rows /\ p.torn = q.torn
  BY DEF Becomes
<1> HIDE DEF p, C, t, running
<1>4. \A r \in DataRow \ p.torn : RowReplays(C, p, t, running, r)
  BY <1>2, <1>3, RowStays
<1>5. \A r \in DataRow \ (p.torn \cup {}) : RowReplays(C, p, t, running, r)
  BY <1>4
<1>6. \A r \in DataRow \ (Current'.torn \cup {}) : RowReplays(TxsOn(top)', Current', asked', ran', r)
  BY <1>1, <1>5 DEF C, t, running
<1> QED  BY <1>6 DEF RowsReplay

\* A step that leaves the blocks and the session alone.
LEMMA RowsChange ==
  ASSUME NEW q, Becomes(q), top' = top, asked' = asked, ran' = ran,
         RowsReplay(TxsOn(top), q, {})
  PROVE  RowsReplay(TxsOn(top), Current, {})'
<1>1. \A r \in DataRow \ q.torn : RowReplays(TxsOn(top), q, asked, ran, r)
  BY DEF RowsReplay
<1>2. \A r \in DataRow \ q.torn : RowReplays(TxsOn(top)', q, asked', ran', r)
  BY <1>1
<1> QED  BY <1>2, BecomesReplays

\* Where the references that were lost are marked, nothing but the marks is left out.
LEMMA GoodRows ==
  ASSUME NEW n, NEW p, NEW t, NEW running, NEW dropped,
         PoolGood(n, p, t, running, dropped), RowsReplay(TxsOn(n.top), p, {})
  PROVE  /\ p \in CleanRows(n, dropped) /\ p \in RowState(TxsOn(n.top), {})
         /\ Forgotten(n) \subseteq p.torn
<1>1. Forgotten(n) \subseteq p.torn
  BY DEF PoolGood, Tracked, Forgotten
<1>2. p \in CleanRows(n, dropped)
  <2>1. RowsReplay(TxsOn(n.top), p, Forgotten(n))
    BY DEF RowsReplay
  <2> QED  BY <2>1 DEF CleanRows, PoolGood, Tracked
<1>3. p \in RowState(TxsOn(n.top), Forgotten(n))
  BY <1>2, CleanIsApart
<1>4. Apart(TxsOn(n.top), p, {})
  BY <1>1, <1>3 DEF RowState, Apart
<1> QED  BY <1>1, <1>2, <1>3, <1>4 DEF RowState

\* The other way round.
LEMMA CleanReplays ==
  ASSUME NEW n, NEW dropped, NEW p \in CleanRows(n, dropped), Forgotten(n) \subseteq p.torn
  PROVE  RowsReplay(TxsOn(n.top), p, {})
BY DEF CleanRows, RowsReplay

\* The map is read, the rows stay.
LEMMA LoadedRows ==
  ASSUME NEW p \in PoolState, NEW C, RowsReplay(C, p, {})
  PROVE  /\ RowsReplay(C, Loaded(p), {}) /\ Loaded(p).rows = p.rows
         /\ RowsReplay(C, Renewed(p), {}) /\ Renewed(p).rows = p.rows
<1>1. Renewed(p).rows = p.rows
  BY DEF Renewed, PoolState
<1>2. Loaded(p).rows = p.rows
  BY <1>1 DEF Loaded
<1> DEFINE l == Loaded(p)
           m == Renewed(p)
           none == {}
<1>3. /\ l.pool = p.pool /\ l.torn = p.torn /\ l.rows = p.rows
      /\ m.pool = p.pool /\ m.torn = p.torn /\ m.rows = p.rows
  BY <1>1, <1>2, LoadedIs, RenewedIs
<1>4. RowsReplay(C, p, none)
  OBVIOUS
<1> HIDE DEF l, m, none
<1>5. RowsReplay(C, l, none) /\ RowsReplay(C, m, none)
  BY <1>3, <1>4, RowsStay
<1> QED  BY <1>3, <1>5 DEF l, m, none

\* What the state is made of.
LEMMA RowsFacts ==
  ASSUME RowsInv
  PROVE  /\ PoolInv /\ top \in Block /\ TxsOn(top) \in SUBSET Tx /\ HasBases(TxsOn(top))
         /\ RowsReplay(TxsOn(top), Current, {}) /\ RowsReplay(TxsOn(top), Loaded(Current), {})
         /\ Current \in CleanRows(Derived, Mixed) /\ Current \in RowState(TxsOn(top), {})
         /\ Loaded(Current) \in CleanRows(Derived, Mixed)
         /\ Loaded(Current) \in RowState(TxsOn(top), {})
         /\ Forgotten(Derived) \subseteq torn
<1>1. PoolInv /\ RowsReplay(TxsOn(top), Current, {})
  BY DEF RowsInv
<1>2. /\ LedgerInv /\ PoolGood(Derived, Current, asked, ran, Mixed) /\ Current \in PoolState
      /\ Derived.top = top /\ Current.torn = torn
  BY <1>1, PoolFacts
<1>3. top \in Block
  BY <1>2, InvTypes
<1> DEFINE n == Derived
           p == Current
           l == Loaded(p)
           t == asked
           running == ran
           dropped == Mixed
<1>4. PoolGood(n, p, t, running, dropped) /\ RowsReplay(TxsOn(n.top), p, {}) /\ p \in PoolState
  BY <1>1, <1>2
<1> HIDE DEF n, p, l, t, running, dropped
<1>5. PoolGood(n, l, t, running, dropped) /\ RowsReplay(TxsOn(n.top), l, {})
  BY <1>4, LoadedIsGood, LoadedRows DEF l
<1>6. /\ p \in CleanRows(n, dropped) /\ p \in RowState(TxsOn(n.top), {})
      /\ Forgotten(n) \subseteq p.torn
      /\ l \in CleanRows(n, dropped) /\ l \in RowState(TxsOn(n.top), {})
  BY <1>4, <1>5, GoodRows
<1> QED  BY <1>1, <1>2, <1>3, <1>5, <1>6, BranchHasBases DEF n, p, l, t, running, dropped

\* A transaction comes: Receive and Resubmit.
LEMMA AddRows ==
  ASSUME RowsInv, NEW t \in Held, NEW q \in Added(Derived, Loaded(Current), t), Becomes(q),
         UNCHANGED <<vars, asked, ran, crossed>>
  PROVE  RowsReplay(TxsOn(top), Current, {})'
<1> DEFINE n == Derived
           l == Loaded(Current)
           dropped == Mixed
<1>1. /\ l \in CleanRows(n, dropped) /\ Forgotten(n) \subseteq l.torn
      /\ dropped \in BOOLEAN /\ (l.torn # Row => Knows(n, stored, dropped)) /\ n.top = top
      /\ top' = top
  BY RowsFacts, PoolFacts, LoadedIs DEF vars
<1> HIDE DEF n, l, dropped
<1>2. q \in CleanRows(n, dropped)
  BY <1>1, AddedKeepsRows DEF n, l
<1>3. l.torn \subseteq q.torn
  <2>1. l \in PoolState /\ (l.touched \/ Fresh(l)) /\ q \in Added(n, l, t)
    BY <1>1 DEF CleanRows, n, l
  <2> QED  BY <1>1, <2>1, AddedGrows DEF Grows
<1>4. RowsReplay(TxsOn(n.top), q, {})
  BY <1>1, <1>2, <1>3, CleanReplays
<1> QED  BY <1>1, <1>4, RowsChange DEF n

\* The request of a client of the proxy, and an error of the server.
LEMMA ProxyAskRows ==
  ASSUME RowsInv, NEW t \in Held, ProxyAsk(t)
  PROVE  RowsReplay(TxsOn(top), Current, {})'
<1> DEFINE l == Loaded(Current)
<1>1. Becomes(l) /\ top' = top /\ ran' = ran /\ ran = FALSE /\ RowsReplay(TxsOn(top), l, {})
  BY RowsFacts, PoolFacts DEF ProxyAsk, PoolGood, vars
<1> HIDE DEF l
<1>2. \A r \in DataRow \ l.torn : RowReplays(TxsOn(top)', l, asked', ran', r)
  BY <1>1 DEF RowsReplay, RowReplays
<1> QED  BY <1>1, <1>2, BecomesReplays

LEMMA ProxyFailsRows ==
  ASSUME RowsInv, ProxyFails
  PROVE  RowsReplay(TxsOn(top), Current, {})'
<1> DEFINE p == Current
<1>1. Becomes(p) /\ top' = top /\ ran' = ran /\ ran = FALSE /\ RowsReplay(TxsOn(top), p, {})
  <2>1. ran = FALSE
    BY RowsFacts, PoolFacts DEF ProxyFails, PoolGood
  <2> QED  BY <2>1, RowsFacts, PoolFacts DEF ProxyFails, Becomes, vars
<1> HIDE DEF p
<1>2. \A r \in DataRow \ p.torn : RowReplays(TxsOn(top)', p, asked', ran', r)
  BY <1>1 DEF RowsReplay, RowReplays
<1> QED  BY <1>1, <1>2, BecomesReplays

\* The server executes the query: on what is in force, unless the row is marked.
LEMMA ProxyRunRows ==
  ASSUME RowsInv, ProxyRun
  PROVE  RowsReplay(TxsOn(top), Current, {})'
<1> DEFINE C == TxsOn(top)
           p == Current
           t == asked
           u == IF TooLate(t) THEN Spoil(p, t) ELSE p
           q == Run(u, t)
           yes == TRUE
<1>1. /\ RowsReplay(C, p, {}) /\ p \in PoolState /\ Becomes(q)
      /\ top' = top /\ asked' = t /\ ran' = yes /\ ran = FALSE /\ t \in Held /\ t \in Tx
      /\ Ref[t] \in DataRow
  BY RowsFacts, PoolFacts, HeldTypes DEF ProxyRun, PoolGood, vars
<1>2. /\ u \in Alike(p) /\ u.rows = p.rows
      /\ TooLate(t) => Ref[t] \in u.torn
  <2>1. p \in Alike(p)
    BY <1>1 DEF Alike
  <2> QED  BY <1>1, <2>1, SpoilIsAlike, HeldTypes
<1> HIDE DEF u
<1>3. u \in PoolState /\ u.pool = p.pool /\ p.torn \subseteq u.torn
  BY <1>2 DEF Alike
<1>4. /\ q \in Alike(u) /\ (OutOfTurn(u, t) => Ref[t] \in q.torn)
      /\ \A r \in DataRow : r # Ref[t] => q.rows[r] = u.rows[r]
      /\ q.rows[Ref[t]] = Execute(t, u.rows[Ref[t]])
  BY <1>1, <1>3, RunIsAlike, RunRows
<1>5. q.pool = p.pool /\ u.torn \subseteq q.torn
  BY <1>3, <1>4 DEF Alike
<1> HIDE DEF p, q, t, yes
<1>6. ASSUME NEW r \in DataRow \ q.torn  PROVE  RowReplays(C, q, t, yes, r)
  <2>1. RowReplays(C, p, asked, ran, r)
    BY <1>1, <1>3, <1>5 DEF RowsReplay
  <2>2. IsReplay(RowOf(C \cup q.pool, r), p.rows[r])
    BY <1>1, <1>5, <2>1 DEF RowReplays
  <2>3. CASE Ref[t] # r
    <3>1. q.rows[r] = p.rows[r]
      BY <1>2, <1>4, <2>3
    <3>2. RowReplays(C, q, t, yes, r) <=> IsReplay(RowOf(C \cup q.pool, r), q.rows[r])
      BY <2>3 DEF RowReplays
    <3> QED  BY <2>2, <3>1, <3>2
  <2>4. CASE Ref[t] = r
    <3>1. ~OutOfTurn(u, t) /\ ~TooLate(t)
      BY <1>2, <1>4, <1>5, <2>4
    <3>2. LeavesRoom(RowOf(C \cup q.pool, r), t)
      BY <1>3, <1>5, <2>4, <3>1 DEF OutOfTurn, TooLate, LeavesRoom, RowOf
    <3>3. q.rows[r] = Execute(t, p.rows[r])
      BY <1>2, <1>4, <2>4
    <3>4. \E w : IsReplay(RowOf(C \cup q.pool, r), w) /\ q.rows[r] = Execute(t, w)
      BY <2>2, <3>3
    <3>5. RowReplays(C, q, t, yes, r) <=>
            /\ LeavesRoom(RowOf(C \cup q.pool, r), t)
            /\ \E w : IsReplay(RowOf(C \cup q.pool, r), w) /\ q.rows[r] = Execute(t, w)
      BY <2>4 DEF RowReplays, yes
    <3> QED  BY <3>2, <3>4, <3>5
  <2> QED  BY <2>3, <2>4
<1>7. \A r \in DataRow \ q.torn : RowReplays(TxsOn(top)', q, asked', ran', r)
  BY <1>1, <1>6
<1> QED  BY <1>1, <1>7, BecomesReplays

\* The answer of the server: the transaction goes to the pool as the last of its row,
\* or the row is marked.
LEMMA ProxyAnswerRows ==
  ASSUME RowsInv, ProxyAnswer
  PROVE  RowsReplay(TxsOn(top), Current, {})'
<1> DEFINE n == Derived
           C == TxsOn(top)
           p == Loaded(Current)
           t == asked
           dropped == Mixed
           kinds == {"update"}
           no == FALSE
<1>1. /\ p \in CleanRows(n, dropped) /\ Forgotten(n) \subseteq p.torn /\ p \in PoolState
      /\ RowsReplay(C, p, {})
      /\ dropped \in BOOLEAN /\ (p.torn # Row => Knows(n, stored, dropped)) /\ n.top = top
      /\ top' = top /\ ran /\ ran' = no /\ (p.touched \/ Fresh(p)) /\ SessionIsFree(p, t, ran)
      /\ t \in Held \cap SQL /\ t \in Tx /\ Ref[t] \in DataRow
      /\ p.torn # Row => Clean(n, p, dropped)
  <2>1. PoolGood(n, p, t, ran, dropped) /\ ran
    BY RowsFacts, PoolFacts, LoadedIsGood DEF ProxyAnswer
  <2>2. t \in Held \cap SQL /\ t \in Tx /\ Ref[t] \in DataRow
    BY <2>1, HeldTypes DEF PoolGood
  <2>3. /\ p \in CleanRows(n, dropped) /\ Forgotten(n) \subseteq p.torn /\ p \in PoolState
        /\ RowsReplay(C, p, {})
        /\ dropped \in BOOLEAN /\ (p.torn # Row => Knows(n, stored, dropped)) /\ n.top = top
        /\ top' = top /\ ran' = no
    BY RowsFacts, PoolFacts, LoadedIs DEF ProxyAnswer, vars
  <2> HIDE DEF n, p, t, dropped, C, no
  <2>4. p.torn # Row => Clean(n, p, dropped)
    BY <2>1 DEF PoolGood, Tracked
  <2> QED  BY <2>1, <2>2, <2>3, <2>4 DEF PoolGood
<1>2. \/ MayPass(n, p, t, kinds) /\ Becomes(Kept(p, t))
      \/ Becomes(Spoil(p, t))
  BY DEF ProxyAnswer
<1>3. t = asked /\ C = TxsOn(top)
  OBVIOUS
<1> HIDE DEF n, p, t, dropped, kinds, no, C
<1>4. ASSUME NEW q, Becomes(q), \A r \in DataRow \ q.torn : RowReplays(C, q, asked, no, r)
      PROVE  RowsReplay(TxsOn(top), Current, {})'
  <2>1. \A r \in DataRow \ q.torn : RowReplays(TxsOn(top)', q, asked', ran', r)
    BY <1>1, <1>3, <1>4 DEF RowReplays, no
  <2> QED  BY <1>4, <2>1, BecomesReplays
<1>5. ASSUME NEW r \in DataRow \ p.torn, Ref[t] # r  PROVE  IsReplay(RowOf(C \cup p.pool, r), p.rows[r])
  BY <1>1, <1>3, <1>5 DEF RowsReplay, RowReplays
<1>6. ASSUME Becomes(Spoil(p, t))  PROVE  RowsReplay(TxsOn(top), Current, {})'
  <2> DEFINE q == Spoil(p, t)
  <2>1. q \in Alike(p) /\ q.rows = p.rows /\ Ref[t] \in q.torn
    BY <1>1, SpoilIsAlike
  <2>2. Becomes(q)
    BY <1>6
  <2> HIDE DEF q
  <2>3. q.pool = p.pool /\ p.torn \subseteq q.torn
    BY <2>1 DEF Alike
  <2>4. ASSUME NEW r \in DataRow \ q.torn  PROVE  RowReplays(C, q, asked, no, r)
    <3>1. IsReplay(RowOf(C \cup p.pool, r), p.rows[r])
      BY <1>5, <2>1, <2>3
    <3> QED  BY <2>1, <2>3, <3>1 DEF RowReplays, no
  <2> QED  BY <1>4, <2>2, <2>4
<1>7. CASE MayPass(n, p, t, kinds) /\ Becomes(Kept(p, t))
  <2>1. CASE Conflicts(p, t) # {}
    BY <1>6, <1>7, <2>1 DEF Kept
  <2>2. CASE Conflicts(p, t) = {}
    <3> DEFINE q == Put(p, t)
    <3>1. Becomes(q)
      BY <1>7, <2>2 DEF Kept
    <3>2. q.pool = p.pool \cup {t} /\ q.rows = p.rows /\ q.torn = p.torn
      BY <1>1 DEF PoolState, Put
    <3> HIDE DEF q
    <3>3. ASSUME NEW r \in DataRow \ q.torn  PROVE  RowReplays(C, q, asked, no, r)
      <4>1. CASE Ref[t] # r
        <5>1. IsReplay(RowOf(C \cup p.pool, r), p.rows[r])
          BY <1>5, <3>2, <4>1
        <5>2. RowOf(C \cup q.pool, r) = RowOf(C \cup p.pool, r)
          BY <3>2, <4>1 DEF RowOf
        <5> QED  BY <3>2, <5>1, <5>2 DEF RowReplays, no
      <4>2. CASE Ref[t] = r
        <5> DEFINE S == RowOf(C \cup p.pool, r)
        <5>1. LeavesRoom(S, t) /\ \E w : IsReplay(S, w) /\ p.rows[r] = Execute(t, w)
          BY <1>1, <1>3, <3>2, <4>2 DEF RowsReplay, RowReplays
        <5>2. PICK w : IsReplay(S, w) /\ p.rows[r] = Execute(t, w)
          BY <5>1
        <5>3. Ref[t] \notin p.torn \cup Forgotten(n) /\ p.torn # Row
          BY <1>1, <3>2, <4>2, HeldTypes
        <5>4. \A x \in Known(p) : Ref[x] = Ref[t] => x \in p.pool
          <6>1. Fresh(p) => Known(p) = p.pool
            BY <1>1, KnownIs
          <6>2. p.touched => \A x \in Stale(p) : Ref[x] # Ref[t]
            BY <1>1, <5>3 DEF SessionIsFree
          <6> QED  BY <1>1, <6>1, <6>2, KnownIs
        <5>5. /\ Knows(n, stored, dropped) /\ Clean(n, p, dropped)
              /\ IsReplay(RowOf(TxsOn(n.top) \cup p.pool, Ref[t]), w)
          BY <1>1, <1>3, <4>2, <5>2, <5>3
        <5>6. OnSameRow(t) => Base[t] \in TxsOn(n.top) \cup p.pool
          BY <1>1, <1>7, <5>3, <5>4, <5>5, StatementFits
        <5>7. /\ \A x \in S : Ref[x] = Ref[t]
              /\ OnSameRow(t) => Base[t] \in S
          BY <1>1, <1>3, <4>2, <5>6 DEF RowOf, OnSameRow
        <5>8. RowOf(C \cup q.pool, r) = S \cup {t}
          BY <3>2, <4>2 DEF RowOf
        <5>9. S \in SUBSET Tx /\ HasBases(S)
          BY <5>2, ReplayHasBases
        <5> HIDE DEF S
        <5>10. IsReplay(S \cup {t}, Execute(t, w))
          <6>1. CASE t \in S
            <7>1. \A d \in S : OnSameRow(d) => Base[d] # t
              BY <1>1, <5>1, <5>9, BaseTypes DEF LeavesRoom
            <7>2. S \cup {t} = S
              BY <6>1
            <7> QED  BY <5>2, <6>1, <7>1, <7>2, ReplayStays
          <6>2. CASE t \notin S
            BY <1>1, <5>1, <5>2, <5>7, <6>2, ReplayGoesOn
          <6> QED  BY <6>1, <6>2
        <5> QED  BY <3>2, <5>2, <5>8, <5>10 DEF RowReplays, no
      <4> QED  BY <4>1, <4>2
    <3> QED  BY <1>4, <3>1, <3>3
  <2> QED  BY <2>1, <2>2
<1> QED  BY <1>2, <1>6, <1>7

\* An addition that others overtake: it reads the map, and the row is marked before
\* the statement touches it.
LEMMA LoadRows ==
  ASSUME RowsInv, Becomes(Loaded(Current)), UNCHANGED <<vars, asked, ran>>
  PROVE  RowsReplay(TxsOn(top), Current, {})'
<1> DEFINE q == Loaded(Current)
<1>1. Becomes(q) /\ RowsReplay(TxsOn(top), q, {}) /\ top' = top /\ asked' = asked /\ ran' = ran
  BY RowsFacts DEF vars
<1> HIDE DEF q
<1> QED  BY <1>1, RowsChange

\* A record that differs from the one there is on a marked row only.
LEMMA MarkedRows ==
  ASSUME RowsInv, NEW t \in Held, NEW q, Becomes(q), UNCHANGED <<vars, asked, ran>>,
         torn \subseteq q.torn, t \in SQL => Ref[t] \in q.torn,
         q.pool \subseteq pool \cup {t}, pool \subseteq q.pool,
         \A r \in DataRow : r # Ref[t] => q.rows[r] = rows[r],
         Ref[t] \notin DataRow => q.rows = rows
  PROVE  RowsReplay(TxsOn(top), Current, {})'
<1> DEFINE C == TxsOn(top)
           p == Current
<1>1. /\ RowsReplay(C, p, {}) /\ top' = top /\ asked' = asked /\ ran' = ran
      /\ p.pool = pool /\ p.rows = rows /\ p.torn = torn
      /\ Ref[t] \in DataRow => t \in SQL
  BY RowsFacts, HeldTypes DEF vars, Current
<1> HIDE DEF p
<1>2. ASSUME NEW r \in DataRow \ q.torn  PROVE  RowReplays(C, q, asked, ran, r)
  <2>1. RowReplays(C, p, asked, ran, r) /\ Ref[t] # r
    BY <1>1, <1>2 DEF RowsReplay
  <2>2. q.rows[r] = p.rows[r] /\ RowOf(C \cup q.pool, r) = RowOf(C \cup p.pool, r)
    BY <1>1, <2>1 DEF RowOf
  <2> QED  BY <2>1, <2>2, RowStays
<1>3. \A r \in DataRow \ q.torn : RowReplays(TxsOn(top)', q, asked', ran', r)
  BY <1>1, <1>2
<1> QED  BY <1>3, BecomesReplays

LEMMA AddRunRows ==
  ASSUME RowsInv, NEW t \in Held, AddRun(t)
  PROVE  RowsReplay(TxsOn(top), Current, {})'
<1> DEFINE p == Current
           u == Spoil(p, t)
           q == Run(u, t)
<1>1. /\ p \in PoolState /\ t \in Tx /\ Becomes(q) /\ UNCHANGED <<vars, asked, ran>>
      /\ p.pool = pool /\ p.rows = rows /\ p.torn = torn
  BY RowsFacts, PoolFacts, HeldTypes DEF AddRun, Current
<1>2. u \in Alike(p) /\ u.rows = p.rows /\ (t \in SQL => Ref[t] \in u.torn)
  BY <1>1, SpoilIsAlike
<1> HIDE DEF p, u
<1>3. u \in PoolState /\ u.pool = p.pool /\ p.torn \subseteq u.torn
  BY <1>2 DEF Alike
<1>4. /\ q \in Alike(u) /\ \A r \in DataRow : r # Ref[t] => q.rows[r] = u.rows[r]
      /\ Ref[t] \notin DataRow => q = u
  BY <1>1, <1>3, RunIsAlike, RunRows DEF Run
<1>5. q.pool = u.pool /\ u.torn \subseteq q.torn
  BY <1>4 DEF Alike
<1> HIDE DEF q
<1> QED  BY <1>1, <1>2, <1>3, <1>4, <1>5, MarkedRows

LEMMA AddFailsRows ==
  ASSUME RowsInv, NEW t, AddFails(t)
  PROVE  RowsReplay(TxsOn(top), Current, {})'
<1>1. Becomes(Current) /\ top' = top /\ asked' = asked /\ ran' = ran /\ RowsReplay(TxsOn(top), Current, {})
  BY RowsFacts, PoolFacts DEF AddFails, Becomes, vars
<1> QED  BY <1>1, RowsChange

LEMMA AddPutRows ==
  ASSUME RowsInv, NEW t \in Held, AddPut(t)
  PROVE  RowsReplay(TxsOn(top), Current, {})'
<1> DEFINE p == Current
           u == Spoil(p, t)
           q == Put(u, t)
<1>1. /\ p \in PoolState /\ t \in Tx /\ Becomes(q) /\ UNCHANGED <<vars, asked, ran>>
      /\ p.pool = pool /\ p.rows = rows /\ p.torn = torn
  BY RowsFacts, PoolFacts, HeldTypes DEF AddPut, Current
<1>2. u \in Alike(p) /\ u.rows = p.rows /\ (t \in SQL => Ref[t] \in u.torn)
  BY <1>1, SpoilIsAlike
<1> HIDE DEF p, u
<1>3. u \in PoolState /\ u.pool = p.pool /\ p.torn \subseteq u.torn
  BY <1>2 DEF Alike
<1>4. q.pool = u.pool \cup {t} /\ q.torn = u.torn /\ q.rows = u.rows
  BY <1>3 DEF Put, PoolState
<1> HIDE DEF q
<1> QED  BY <1>1, <1>2, <1>3, <1>4, MarkedRows

\* The session goes on as an addition: what it has executed is on a marked row.
LEMMA ProxyVerifyRows ==
  ASSUME RowsInv, ProxyVerify
  PROVE  RowsReplay(TxsOn(top), Current, {})'
<1> DEFINE C == TxsOn(top)
           p == Loaded(Current)
           q == Spoil(p, asked)
<1>1. /\ RowsReplay(C, p, {}) /\ p \in PoolState /\ Becomes(q) /\ top' = top
      /\ ran' = FALSE /\ asked \in SQL /\ asked \in Tx
  <2>1. ran /\ PoolGood(Derived, p, asked, ran, Mixed) /\ p \in PoolState
    BY RowsFacts, PoolFacts, LoadedIsGood, LoadedIs DEF ProxyVerify
  <2>2. asked \in SQL /\ asked \in Tx
    BY <2>1, HeldTypes DEF PoolGood
  <2> QED  BY <2>1, <2>2, RowsFacts DEF ProxyVerify, vars
<1>2. q \in Alike(p) /\ q.rows = p.rows /\ Ref[asked] \in q.torn
  BY <1>1, SpoilIsAlike
<1> HIDE DEF p, q
<1>3. q.pool = p.pool /\ p.torn \subseteq q.torn
  BY <1>2 DEF Alike
<1>4. ASSUME NEW r \in DataRow \ q.torn  PROVE  RowReplays(C, q, asked', ran', r)
  <2>1. RowReplays(C, p, asked, ran, r) /\ Ref[asked] # r
    BY <1>1, <1>2, <1>3, <1>4 DEF RowsReplay
  <2>2. IsReplay(RowOf(C \cup q.pool, r), q.rows[r])
    BY <1>2, <1>3, <2>1 DEF RowReplays
  <2> QED  BY <1>1, <2>2 DEF RowReplays
<1>5. \A r \in DataRow \ q.torn : RowReplays(TxsOn(top)', q, asked', ran', r)
  BY <1>1, <1>4
<1> QED  BY <1>1, <1>5, BecomesReplays

\* The block maker cancels what does not fit.
LEMMA PrepareBlockRows ==
  ASSUME RowsInv, PrepareBlock
  PROVE  RowsReplay(TxsOn(top), Current, {})'
<1> DEFINE n == Derived
           C == TxsOn(top)
           p == Loaded(Current)
           none == {}
<1>1. /\ p \in RowState(C, none) /\ C \in SUBSET Tx /\ HasBases(C)
      /\ top' = top /\ asked' = asked /\ ran' = ran
  BY RowsFacts DEF PrepareBlock, vars
<1>2. PICK S : Becomes(Selected(n, p, S).p)
  BY DEF PrepareBlock
<1> HIDE DEF n, C, p, none
<1>3. Selected(n, p, S).p \in RowState(C, none)
  BY <1>1, SelectedKeepsRows
<1> DEFINE q == Selected(n, p, S).p
<1>4. Becomes(q) /\ RowsReplay(TxsOn(top), q, {})
  BY <1>2, <1>3 DEF RowState, C, none
<1> HIDE DEF q
<1> QED  BY <1>1, <1>4, RowsChange

\* The process ends: what the session has executed is out of turn.
LEMMA RestartRows ==
  ASSUME RowsInv, Restart
  PROVE  RowsReplay(TxsOn(top), Current, {})'
<1> DEFINE C == TxsOn(top)
           p == Current
           u == IF ran THEN Spoil(p, asked) ELSE p
           q == Gone(u)
<1>1. /\ RowsReplay(C, p, {}) /\ p \in PoolState /\ Becomes(q) /\ top' = top /\ ran' = FALSE
      /\ ran => asked \in Tx /\ asked \in SQL
  BY RowsFacts, PoolFacts, HeldTypes DEF Restart, PoolGood, vars
<1>2. /\ u \in PoolState /\ u.rows = p.rows /\ u.pool = p.pool /\ p.torn \subseteq u.torn
      /\ ran => Ref[asked] \in u.torn
  <2>1. ran => /\ Spoil(p, asked) \in Alike(p) /\ Spoil(p, asked).rows = p.rows
               /\ Ref[asked] \in Spoil(p, asked).torn
    BY <1>1, SpoilIsAlike
  <2> QED  BY <1>1, <2>1 DEF Alike
<1> HIDE DEF u, p
<1>3. q.rows = p.rows /\ q.pool = p.pool /\ q.torn = u.torn
  BY <1>2 DEF Gone, PoolState
<1> HIDE DEF q
<1>4. \A r \in DataRow \ q.torn : RowReplays(C, q, asked', ran', r)
  <2> SUFFICES ASSUME NEW r \in DataRow \ q.torn  PROVE  RowReplays(C, q, asked', ran', r)
    OBVIOUS
  <2>1. RowReplays(C, p, asked, ran, r)
    BY <1>1, <1>2, <1>3 DEF RowsReplay
  <2>2. ~(ran /\ Ref[asked] = r)
    BY <1>2, <1>3
  <2>3. IsReplay(RowOf(C \cup q.pool, r), q.rows[r])
    BY <1>3, <2>1, <2>2 DEF RowReplays
  <2> QED  BY <1>1, <2>3 DEF RowReplays
<1>5. \A r \in DataRow \ q.torn : RowReplays(TxsOn(top)', q, asked', ran', r)
  BY <1>1, <1>4
<1> QED  BY <1>1, <1>5, BecomesReplays

(***************************************************************************)
(* The commands.                                                           *)
(***************************************************************************)

\* What a command makes of the map of the daemon does not matter to the rows.
LEMMA CommandRows ==
  ASSUME NEW c \in PoolState, ByCommand(c), top' = top, asked' = asked, ran' = ran,
         RowsReplay(TxsOn(top), c, {})
  PROVE  RowsReplay(TxsOn(top), Current, {})'
<1> DEFINE q == [c EXCEPT !.cache = cache,
                          !.touched = touched \/ (cache # NoCache /\ c.pool # pool)]
           none == {}
           C == TxsOn(top)
<1>1. Becomes(q) /\ q.pool = c.pool /\ q.rows = c.rows /\ q.torn = c.torn
  BY DEF ByCommand, PoolState
<1>2. RowsReplay(C, c, none)
  OBVIOUS
<1> HIDE DEF q, none, C
<1>3. RowsReplay(C, q, none)
  BY <1>1, <1>2, RowsStay
<1>4. RowsReplay(TxsOn(top), q, {})
  BY <1>3 DEF C, none
<1> QED  BY <1>1, <1>4, RowsChange

\* The command canceltransaction.
LEMMA OperatorCancelRows ==
  ASSUME RowsInv, NEW t \in Held, OperatorCancel(t)
  PROVE  RowsReplay(TxsOn(top), Current, {})'
<1> DEFINE C == TxsOn(top)
           p == Current
           l == Renewed(p)
           c == Cancel(l, t)
           none == {}
<1>1. /\ p \in RowState(C, none) /\ p \in PoolState /\ C \in SUBSET Tx /\ HasBases(C)
      /\ ByCommand(c) /\ top' = top /\ asked' = asked /\ ran' = ran
  BY RowsFacts, PoolFacts DEF OperatorCancel, vars
<1>2. l.rows = p.rows
  BY <1>1 DEF Renewed, PoolState
<1>3. l \in PoolState /\ l.pool = p.pool /\ l.torn = p.torn /\ Fresh(l)
  BY <1>1, RenewedIs
<1> HIDE DEF C, p, l, none
<1>4. l \in RowState(C, none)
  BY <1>1, <1>2, <1>3, StateStays
<1>5. c \in RowState(C, none)
  BY <1>1, <1>4, CancelKeepsRows
<1> HIDE DEF c
<1>6. c \in PoolState /\ RowsReplay(TxsOn(top), c, {})
  BY <1>5 DEF RowState, C, none
<1> QED  BY <1>1, <1>6, CommandRows

\* Rows where nothing pending has worked stay what they were.
LEMMA RowsOfBranch ==
  ASSUME NEW C, NEW p, NEW q, q.rows = p.rows, p.torn \subseteq q.torn,
         \A r \in DataRow \ q.torn : RowOf(C \cup q.pool, r) = RowOf(C \cup p.pool, r),
         RowsReplay(C, p, {})
  PROVE  RowsReplay(C, q, {})
<1> SUFFICES ASSUME NEW r \in DataRow \ q.torn  PROVE  RowReplays(C, q, asked, ran, r)
  BY DEF RowsReplay
<1>1. RowReplays(C, p, asked, ran, r)
  BY DEF RowsReplay
<1> QED  BY <1>1, RowStays

\* The command unapprovedtransactions -clean marks what it takes away.
LEMMA OperatorCleanRows ==
  ASSUME RowsInv, OperatorClean
  PROVE  RowsReplay(TxsOn(top), Current, {})'
<1> DEFINE C == TxsOn(top)
           p == Current
           marks == {Ref[t] : t \in pool \cap SQL}
           none == {}
           c == [p EXCEPT !.pool = none, !.torn = @ \cup marks]
<1>1. /\ p \in PoolState /\ RowsReplay(C, p, {}) /\ p.pool = pool /\ p.pool \subseteq Held
      /\ ByCommand(c) /\ top' = top /\ asked' = asked /\ ran' = ran
  BY RowsFacts, PoolFacts DEF OperatorClean, vars, PoolState
<1>2. marks \subseteq Row /\ \A x \in p.pool : Ref[x] \in DataRow => Ref[x] \in marks
  BY <1>1, HeldTypes
<1>3. none \subseteq Held /\ \A x : x \notin none
  OBVIOUS
<1> HIDE DEF C, p, marks, none
<1>4. c \in PoolState /\ c.pool = none /\ c.torn = p.torn \cup marks /\ c.rows = p.rows
  BY <1>1, <1>2, <1>3 DEF PoolState
<1> HIDE DEF c
<1>5. \A r \in DataRow \ c.torn : RowOf(C \cup c.pool, r) = RowOf(C \cup p.pool, r)
  BY <1>2, <1>3, <1>4 DEF RowOf
<1>6. RowsReplay(C, c, {})
  BY <1>1, <1>4, <1>5, RowsOfBranch
<1> QED  BY <1>1, <1>4, <1>6, CommandRows DEF C

\* A payment has nothing to do with rows.
LEMMA SendRows ==
  ASSUME RowsInv, NEW t \in Held, Send(t)
  PROVE  RowsReplay(TxsOn(top), Current, {})'
<1> DEFINE C == TxsOn(top)
           p == Current
           l == Renewed(p)
           c == Kept(l, t)
<1>1. /\ p \in PoolState /\ RowsReplay(C, p, {})
      /\ ByCommand(c) /\ top' = top /\ asked' = asked /\ ran' = ran /\ t \notin SQL /\ t \in Tx
  <2>1. t \notin SQL
    BY DEF Send, IsPayment
  <2> QED  BY <2>1, RowsFacts, PoolFacts, HeldTypes DEF Send, vars
<1>2. l.rows = p.rows
  BY <1>1 DEF Renewed, PoolState
<1>3. l \in PoolState /\ l.pool = p.pool /\ l.torn = p.torn
  BY <1>1, RenewedIs
<1> HIDE DEF C, p, l
<1>4. c \in PoolState /\ c.torn = p.torn /\ c.pool \in {p.pool, p.pool \cup {t}} /\ c.rows = p.rows
  <2>1. CASE Conflicts(l, t) # {}
    <3>1. c = l
      BY <1>1, <2>1 DEF Kept, Spoil
    <3> QED  BY <1>2, <1>3, <3>1
  <2>2. CASE Conflicts(l, t) = {}
    <3>1. c = Put(l, t)
      BY <2>2 DEF Kept
    <3> HIDE DEF c
    <3> QED  BY <1>2, <1>3, <3>1 DEF PoolState, Put
  <2> QED  BY <2>1, <2>2
<1> HIDE DEF c
<1>5. \A r \in DataRow \ c.torn : RowOf(C \cup c.pool, r) = RowOf(C \cup p.pool, r)
  <2>1. Ref[t] \notin DataRow
    BY <1>1, HeldTypes
  <2> QED  BY <1>4, <2>1 DEF RowOf
<1>6. RowsReplay(C, c, {})
  BY <1>1, <1>4, <1>5, RowsOfBranch
<1> QED  BY <1>1, <1>4, <1>6, CommandRows DEF C

\* The command dropblock: what the block had on the rows is pending again, or the row
\* is marked.
LEMMA OperatorDropRows ==
  ASSUME RowsInv, OperatorDrop
  PROVE  RowsReplay(TxsOn(top), Current, {})'
<1> DEFINE n == Derived'
           p == Current
           l == Renewed(p)
           d == BackFromBlock(l, top)
           c == TearForgotten(n, d)
           q == [c EXCEPT !.cache = cache,
                          !.touched = touched \/ (cache # NoCache /\ c.pool # pool)]
           below == Prev[top]
           C == TxsOn(top)
           D == TxsOn(below)
<1>1. /\ p \in PoolState /\ RowsReplay(C, p, {})
      /\ asked' = asked /\ ran' = ran /\ top' = below /\ Becomes(q)
  BY RowsFacts, PoolFacts DEF OperatorDrop, DropBlock, ByCommand
<1>2. top \in Block \ {Genesis} /\ C = TxsOf(top) \cup D
  BY RowsFacts, TxsOnStep DEF OperatorDrop, DropBlock, Older
<1>3. l.rows = p.rows
  BY <1>1 DEF Renewed, PoolState
<1>4. l \in PoolState /\ l.pool = p.pool /\ l.torn = p.torn
  BY <1>1, RenewedIs
<1>5. /\ d \in PoolState /\ p.torn \subseteq d.torn /\ d.rows = p.rows
      /\ p.pool \subseteq d.pool /\ d.pool \subseteq p.pool \cup Signed(top)
      /\ \A t \in TxsOf(top) \cap SQL : t \in d.pool \/ Ref[t] \in d.torn
  BY <1>2, <1>3, <1>4, BackIs, BackRows
<1> HIDE DEF C, D, p, l, d
<1>6. /\ c \in PoolState /\ d.torn \subseteq c.torn /\ c.pool = d.pool /\ c.rows = d.rows
  <2>1. Forgotten(n) \subseteq Row
    BY DEF Forgotten
  <2> HIDE DEF n
  <2> QED  BY <1>5, <2>1 DEF TearForgotten, PoolState
<1> HIDE DEF c
<1>7. q.pool = c.pool /\ q.rows = c.rows /\ q.torn = c.torn
  BY <1>6 DEF PoolState
<1> HIDE DEF q
<1>8. ASSUME NEW r \in DataRow \ q.torn  PROVE  RowReplays(D, q, asked, ran, r)
  <2>1. RowReplays(C, p, asked, ran, r)
    BY <1>1, <1>5, <1>6, <1>7 DEF RowsReplay
  <2>2. ASSUME NEW x \in TxsOf(top), Ref[x] = r  PROVE  x \in q.pool
    <3>1. x \in SQL
      BY <1>2, <2>2, TxTypes, HeldTypes DEF TxsOf
    <3> QED  BY <1>5, <1>6, <1>7, <1>8, <2>2, <3>1
  <2>3. Signed(top) \subseteq TxsOf(top)
    BY DEF Signed
  <2>4. RowOf(D \cup q.pool, r) = RowOf(C \cup p.pool, r)
    BY <1>2, <1>5, <1>6, <1>7, <2>2, <2>3 DEF RowOf
  <2>5. q.rows[r] = p.rows[r]
    BY <1>5, <1>6, <1>7
  <2> QED  BY <2>1, <2>4, <2>5, RowStays
<1>9. \A r \in DataRow \ q.torn : RowReplays(TxsOn(top)', q, asked', ran', r)
  BY <1>1, <1>8 DEF D
<1> QED  BY <1>1, <1>9, BecomesReplays

(***************************************************************************)
(* The steps that bring blocks.                                            *)
(***************************************************************************)

\* The top and the rows stay: a block beside the primary branch, or nothing at all.
LEMMA NothingReplayed ==
  ASSUME RowsInv, top' = top, UNCHANGED poolVars
  PROVE  RowsReplay(TxsOn(top), Current, {})'
<1>1. Becomes(Current) /\ asked' = asked /\ ran' = ran /\ RowsReplay(TxsOn(top), Current, {})
  BY RowsFacts, PoolFacts DEF poolVars, Becomes
<1> QED  BY <1>1, RowsChange

\* Every row is marked.
LEMMA AllTorn ==
  ASSUME NEW u \in PoolState, Becomes(TearAll(u))
  PROVE  RowsReplay(TxsOn(top), Current, {})'
<1> DEFINE q == TearAll(u)
<1>1. q.torn = Row /\ Becomes(q)
  BY DEF TearAll, PoolState
<1> HIDE DEF q
<1>2. \A r \in DataRow \ q.torn : RowReplays(TxsOn(top)', q, asked', ran', r)
  BY <1>1, HeldTypes
<1> QED  BY <1>1, <1>2, BecomesReplays

\* A block on the top of the primary branch.
LEMMA BlockToTopRows ==
  ASSUME RowsInv, NEW b \in Block, BlockToTop(b)
  PROVE  RowsReplay(TxsOn(top), Current, {})'
<1> DEFINE p == Current
           none == {}
<1>1. PICK q \in PutOn(p, b) : Becomes(q)
  BY DEF BlockToTop
<1>2. b # Genesis /\ Prev[b] = top /\ top' = b /\ asked' = asked /\ ran' = ran
  BY RowsFacts, PoolFacts, StoreIsRight DEF BlockToTop, AddToTop
<1>3. p \in RowState(TxsOn(Prev[b]), none)
  BY <1>2, RowsFacts
<1> HIDE DEF p, none
<1>4. q \in RowState(TxsOn(b), none)
  BY <1>1, <1>2, <1>3, PutOnKeepsRows
<1>5. \A r \in DataRow \ q.torn : RowReplays(TxsOn(b), q, asked, ran, r)
  BY <1>4 DEF RowState, RowsReplay, none
<1>6. \A r \in DataRow \ q.torn : RowReplays(TxsOn(top)', q, asked', ran', r)
  BY <1>2, <1>5
<1> QED  BY <1>1, <1>6, BecomesReplays

\* The branches are exchanged.
LEMMA SwitchRows ==
  ASSUME RowsInv, NEW b \in Block, Switch(b)
  PROVE  RowsReplay(TxsOn(top), Current, {})'
<1> DEFINE n == Derived'
           p == Current
           dropped == Mixed'
           old == OldBlocks(top, b)
           new == NewBlocks(top, b)
           u == TakenOff(p, old)
           P == PutOnAll(u, new)
           none == {}
<1>1. /\ PoolInv /\ LedgerInv /\ p \in PoolState /\ p \in RowState(TxsOn(top), none)
      /\ p.torn = torn /\ top \in Block /\ Derived.top = top
      /\ asked' = asked /\ ran' = ran /\ top' = b /\ n.top = b
      /\ dropped \in BOOLEAN
  <2>1. dropped \in BOOLEAN
    BY DEF Mixed
  <2> QED  BY <2>1, RowsFacts, PoolFacts DEF Switch, SwitchBranch, Derived
<1>2. PICK r \in Repeated(n, P, old) :
        u.ok /\ Becomes(IF new = <<>> THEN TearAll(r) ELSE TearForgotten(n, r))
  BY DEF Switch
<1>3. Store(b) /\ Overtakes(b) /\ ~SideBranchFails(top, b)
  BY DEF Switch, SwitchBranch
<1>4. CASE top \in Branch(b)
  <2>1. old = <<>> /\ new = <<>>
    BY <1>1, <1>3, <1>4, ExchangeIs
  <2>2. u \in PoolState
    <3>1. old \in Seq(Block \ {Genesis})
      BY <2>1
    <3> HIDE DEF old, p
    <3> QED  BY <1>1, <3>1, TakenOffIs DEF TakenWith, Alike
  <2> HIDE DEF n, p, dropped, old, new, u, P
  <2>3. Repeated(n, P, old) = P
    BY <2>1, NothingRepeated
  <2>4. PutOnAll(u, new) = {u}
    BY <2>1, NothingPutOn
  <2>5. r = u /\ Becomes(TearAll(r))
    BY <1>2, <2>1, <2>3, <2>4 DEF P
  <2> QED  BY <2>2, <2>5, AllTorn
<1>5. CASE top \notin Branch(b)
  <2> DEFINE base == MeetingPoint(top, b)
             q == TearForgotten(n, r)
  <2>1. /\ base \in Block
        /\ old \in Seq(Block \ {Genesis}) /\ Len(old) \in Nat \ {0}
        /\ old[1] = top /\ Prev[old[Len(old)]] = base
        /\ new \in Seq(Block \ {Genesis}) /\ Len(new) \in Nat \ {0}
        /\ Prev[new[1]] = base /\ new[Len(new)] = b
    <3>1. b \notin Branch(top)
      BY <1>1, <1>3, <1>5, ExchangeIs
    <3> QED  BY <1>1, <1>5, <3>1, ReplacementEnds
  <2>2. IsWalkDown(old) /\ IsWalkUp(new)
    <3>1. ReplacementAgrees(top, b)
      BY <1>1, ReplacementIsRight
    <3> QED  BY <1>3, <1>5, <3>1 DEF ReplacementAgrees
  <2>3. new # <<>>
    <3> HIDE DEF new
    <3>1. Len(new) # 0
      BY <2>1
    <3> QED  BY <3>1
  <2>4. Becomes(q)
    BY <1>2, <2>3
  <2>5. ASSUME NEW x \in P
        PROVE  /\ x \in PoolState /\ ~x.touched /\ Fresh(x)
               /\ x.torn # Row => Knows(n, stored', dropped) /\ Clean(n, x, dropped)
    BY <1>1, <1>5, ExchangeLeads
  <2> HIDE DEF n, p, dropped, old, new, u, P, base, none
  <2>6. u \in RowState(TxsOn(base), none)
    <3>1. p \in RowState(TxsOn(old[1]), none) /\ TakenOff(p, old).ok
      BY <1>1, <1>2, <2>1 DEF u
    <3>2. TakenOff(p, old) \in RowState(TxsOn(Prev[old[Len(old)]]), none)
      BY <2>1, <2>2, <3>1, TakenOffKeepsRows
    <3> QED  BY <2>1, <3>2 DEF u
  <2>7. ASSUME NEW x \in P  PROVE  x \in RowState(TxsOn(b), none)
    <3>1. x \in RowState(TxsOn(new[Len(new)]), none)
      BY <2>1, <2>2, <2>3, <2>6, PutOnAllKeepsRows DEF P
    <3> QED  BY <2>1, <3>1
  <2>8. ASSUME NEW x \in P  PROVE  x \in CleanRows(n, dropped)
    <3>1. RowsReplay(TxsOn(n.top), x, Forgotten(n))
      BY <1>1, <2>7 DEF RowState, RowsReplay, none
    <3> QED  BY <2>5, <3>1 DEF CleanRows
  <2>9. PICK x \in P : r \in Grows(n, x, dropped)
    <3>1. \A y \in P : /\ y \in PoolState /\ (y.touched \/ Fresh(y))
                       /\ y.torn # Row => Knows(n, stored', dropped)
      BY <2>5
    <3> QED  BY <1>1, <1>2, <2>1, <3>1, RepeatedGrows
  <2>10. r \in PoolState /\ x.torn \subseteq r.torn
    BY <2>9 DEF Grows
  <2>11. /\ q.pool = r.pool /\ q.rows = r.rows /\ q.torn = r.torn \cup Forgotten(n)
    <3>1. Forgotten(n) \subseteq Row
      BY DEF Forgotten
    <3> QED  BY <2>10, <3>1 DEF TearForgotten, PoolState
  <2> HIDE DEF q
  <2>12. ASSUME NEW w \in DataRow \ q.torn  PROVE  RowReplays(TxsOn(b), q, asked, ran, w)
    <3>1. x.torn # Row
      BY <2>10, <2>11, <2>12, HeldTypes
    <3>2. Knows(n, stored', dropped)
      BY <2>5, <3>1
    <3>3. P \in SUBSET CleanRows(n, dropped)
      BY <2>8
    <3>4. r \in CleanRows(n, dropped)
      BY <1>1, <1>2, <2>1, <3>2, <3>3, RepeatedKeepsRows
    <3>5. RowReplays(TxsOn(b), r, asked, ran, w)
      BY <1>1, <2>11, <2>12, <3>4 DEF CleanRows, RowsReplay
    <3> QED  BY <2>11, <3>5, RowStays
  <2>13. \A w \in DataRow \ q.torn : RowReplays(TxsOn(top)', q, asked', ran', w)
    BY <1>1, <2>12
  <2> QED  BY <2>4, <2>13, BecomesReplays
<1> QED  BY <1>4, <1>5

\* An exchange of branches is given up over a block that cannot be taken off.
LEMMA SwitchAbortsRows ==
  ASSUME RowsInv, NEW b \in Block, SwitchAborts(b)
  PROVE  RowsReplay(TxsOn(top), Current, {})'
<1> DEFINE p == Current
           old == OldBlocks(top, b)
<1>1. LedgerInv /\ Store(b) /\ Overtakes(b) /\ p \in PoolState
  BY RowsFacts, PoolFacts DEF SwitchAborts
<1>2. PICK k \in DOMAIN old : Becomes(TearAll(TakenOff(p, SubSeq(old, 1, k))))
  BY DEF SwitchAborts
<1>3. old \in Seq(Block \ {Genesis})
  BY <1>1, ExchangeIs DEF SwitchAborts
<1> HIDE DEF p, old
<1>4. SubSeq(old, 1, k) \in Seq(Block \ {Genesis})
  <2>1. /\ Len(old) \in Nat /\ DOMAIN old = 1..Len(old)
        /\ \A i \in 1..Len(old) : old[i] \in Block \ {Genesis}
    BY <1>3, LenProperties, ElementOfSeq
  <2>2. k \in 1..Len(old)
    BY <2>1
  <2>3. \A i \in 1..k : i \in 1..Len(old)
    BY <2>1, <2>2
  <2> QED  BY <2>1, <2>2, <2>3, SubSeqProperties
<1>5. TakenOff(p, SubSeq(old, 1, k)) \in PoolState
  BY <1>1, <1>4, TakenOffIs DEF TakenWith, Alike
<1> QED  BY <1>2, <1>5, AllTorn

\* The process ends over an exchange with the first block.
LEMMA PanicRows ==
  ASSUME RowsInv, NEW b \in Block, Panic(b)
  PROVE  RowsReplay(TxsOn(top), Current, {})'
<1> DEFINE u == Gone(Current)
<1>1. Becomes(TearAll(u))
  BY DEF Panic
<1>2. u \in PoolState
  BY RowsFacts, PoolFacts, GoneIs
<1> HIDE DEF u
<1> QED  BY <1>1, <1>2, AllTorn

(***************************************************************************)
(* The theorems.                                                           *)
(***************************************************************************)

\* No row is there in the beginning, and the first block has no statement on one.
LEMMA RowsInit == InitPool => RowsInv
<1> SUFFICES ASSUME InitPool  PROVE  RowsInv
  OBVIOUS
<1> DEFINE none == {}
           p == Current
<1>1. PoolInv /\ top = Genesis /\ ran = FALSE /\ p.pool = {}
  BY PoolInit DEF InitPool, Init, Current
<1>2. \A r \in DataRow : p.rows[r] = Absent
  BY DEF InitPool, Current
<1>3. TxsOn(Genesis) = TxsOf(Genesis)
  BY TxsOnStep, TreeFacts DEF Older
<1>4. ASSUME NEW r \in DataRow  PROVE  RowOf(TxsOn(top) \cup p.pool, r) = {}
  BY <1>1, <1>3, Histories DEF RowOf
<1>5. ASSUME NEW r \in DataRow  PROVE  RowReplays(TxsOn(top), p, asked, ran, r)
  BY <1>1, <1>2, <1>4 DEF RowReplays, IsReplay
<1> HIDE DEF p
<1>6. RowsReplay(TxsOn(top), p, none)
  BY <1>5 DEF RowsReplay
<1> QED  BY <1>1, <1>6 DEF RowsInv, p, none

\* One case for every action.
LEMMA RowsStep == RowsInv /\ [NextPayments]_allVars => RowsInv'
<1> DEFINE Goal == RowsReplay(TxsOn(top), Current, {})'
<1> SUFFICES ASSUME RowsInv, [NextPayments]_allVars  PROVE  RowsInv'
  OBVIOUS
<1>1. ASSUME NEW t \in Held, Receive(t)  PROVE  Goal
  BY <1>1, AddRows DEF Receive
<1>2. ASSUME NEW t \in Held, Resubmit(t)  PROVE  Goal
  BY <1>2, AddRows DEF Resubmit
<1>3. ASSUME NEW t \in Held, ProxyAsk(t)  PROVE  Goal
  BY <1>3, ProxyAskRows
<1>4. ASSUME NEW t \in Held, OperatorCancel(t)  PROVE  Goal
  BY <1>4, OperatorCancelRows
<1>5. ASSUME NEW t \in Held, Send(t)  PROVE  Goal
  BY <1>5, SendRows
<1>6. ASSUME NEW b \in Block, BlockToTop(b)  PROVE  Goal
  BY <1>6, BlockToTopRows
<1>7. ASSUME NEW b \in Block, BlockToParallel(b)  PROVE  Goal
  BY <1>7, NothingReplayed DEF BlockToParallel, AddToParallel
<1>8. ASSUME NEW b \in Block, Switch(b)  PROVE  Goal
  BY <1>8, SwitchRows
<1>9. ASSUME NEW b \in Block, SwitchAborts(b)  PROVE  Goal
  BY <1>9, SwitchAbortsRows
<1>10. ASSUME NEW b \in Block, Panic(b)  PROVE  Goal
  BY <1>10, PanicRows
<1>11. ASSUME ProxyRun  PROVE  Goal
  BY <1>11, ProxyRunRows
<1>12. ASSUME ProxyFails  PROVE  Goal
  BY <1>12, ProxyFailsRows
<1>13. ASSUME ProxyAnswer  PROVE  Goal
  BY <1>13, ProxyAnswerRows
<1>14. ASSUME PrepareBlock  PROVE  Goal
  BY <1>14, PrepareBlockRows
<1>15. ASSUME OperatorClean  PROVE  Goal
  BY <1>15, OperatorCleanRows
<1>16. ASSUME OperatorDrop  PROVE  Goal
  BY <1>16, OperatorDropRows
<1>17. ASSUME Restart  PROVE  Goal
  BY <1>17, RestartRows
<1>18. ASSUME UNCHANGED allVars  PROVE  Goal
  BY <1>18, NothingReplayed DEF allVars, vars
<1>19. ASSUME NEW t \in Held, AddVerify(t) \/ AddTest(t) \/ AddRefused(t)  PROVE  Goal
  BY <1>19, LoadRows DEF AddVerify, AddTest, AddRefused
<1>20. ASSUME NEW t \in Held, AddRun(t)  PROVE  Goal
  BY <1>20, AddRunRows
<1>21. ASSUME NEW t \in Held, AddFails(t)  PROVE  Goal
  BY <1>21, AddFailsRows
<1>22. ASSUME NEW t \in Held, AddPut(t)  PROVE  Goal
  BY <1>22, AddPutRows
<1>23. ASSUME ProxyVerify  PROVE  Goal
  BY <1>23, ProxyVerifyRows
<1>24. Goal
  <2> HIDE DEF Goal
  <2> QED
    BY <1>1, <1>2, <1>3, <1>4, <1>5, <1>6, <1>7, <1>8, <1>9, <1>10, <1>11, <1>12, <1>13,
       <1>14, <1>15, <1>16, <1>17, <1>18, <1>19, <1>20, <1>21, <1>22, <1>23
       DEF NextPayments, NextPool, Held
<1>25. PoolInv'
  BY PoolStep DEF RowsInv
<1> QED  BY <1>24, <1>25 DEF RowsInv

\* Every row is what the line of its last transaction makes of it, and the line is
\* all that is in force on the row.
THEOREM RowsInvHolds == SpecPayments => []RowsInv
<1> QED  BY RowsInit, RowsStep, PTL DEF SpecPayments

\* Every row of the tables is what the statements of the primary branch and of the
\* pool make of it, one after the other: Execute, the rollback of canceled blocks and
\* transactions, the repetition of what they had and the sessions of the proxy leave
\* nothing executed twice, left out or not undone.
THEOREM RowsAreAlwaysReplayed == SpecPayments => []RowsAreReplayed
<1>1. RowsInv => RowsAreReplayed
  <2> SUFFICES ASSUME RowsInv, NEW r \in DataRow \ torn, ~InFlight(r)
               PROVE  {rows[r]} = IF InForce(r) = {} THEN {Absent}
                                  ELSE {RowAfter[t] : t \in LastInForce(r)}
    BY DEF RowsAreReplayed
  <2> DEFINE S == InForce(r)
             none == {}
  <2>1. S = RowOf(TxsOn(top) \cup Current.pool, r) /\ Current.rows = rows /\ Current.torn = torn
    BY DEF InForce, RowOf, Current
  <2>2. RowsReplay(TxsOn(top), Current, none)
    BY RowsFacts
  <2> HIDE DEF S, none
  <2>3. RowReplays(TxsOn(top), Current, asked, ran, r)
    BY <2>1, <2>2 DEF RowsReplay, none
  <2>4. IsReplay(S, rows[r])
    BY <2>1, <2>3 DEF RowReplays, InFlight
  <2>5. CASE S = {} /\ rows[r] = Absent
    BY <2>5 DEF S
  <2>6. ASSUME NEW l \in S, l \in Tx, S = LineOf(l), rows[r] = RowAfter[l]
        PROVE  LastInForce(r) = {l}
    <3>1. \A d \in S : ~(OnSameRow(d) /\ Base[d] = l)
      BY <2>6, LineEnds
    <3>2. ASSUME NEW x \in S, x # l  PROVE  \E d \in S : OnSameRow(d) /\ Base[d] = x
      BY <2>6, <3>2, LineIsFollowed
    <3>3. LastInForce(r) = {t \in S : \A d \in S : ~(OnSameRow(d) /\ Base[d] = t)}
      BY DEF LastInForce, S
    <3> QED  BY <3>1, <3>2, <3>3
  <2>7. ASSUME NEW l \in S, l \in Tx, S = LineOf(l), rows[r] = RowAfter[l]
        PROVE  {rows[r]} = {RowAfter[t] : t \in LastInForce(r)} /\ S # {}
    BY <2>6, <2>7
  <2> QED  BY <2>4, <2>5, <2>7 DEF IsReplay, S
<1> QED  BY <1>1, RowsInvHolds, PTL

(***************************************************************************)
(* What a switch gives back to the pool.                                   *)
(***************************************************************************)

\* What comes before a place of a block stands at a place of its branch.
LEMMA BeforeHasPlaces ==
  ASSUME NEW b \in Block, NEW i \in 1..(Len(Txs[b]) + 1), NEW d \in Before(b, i)
  PROVE  \E c \in Branch(b) : \E j \in 1..Len(Txs[c]) : d = Txs[c][j]
<1>1. Len(Txs[b]) \in Nat /\ b \in Branch(b) /\ Branch(b) \subseteq Block
  BY TxTypes, BranchFacts
<1>2. CASE d \in {Txs[b][j] : j \in 1..(i - 1)}
  <2>1. PICK j \in 1..(i - 1) : d = Txs[b][j]
    BY <1>2
  <2>2. j \in 1..Len(Txs[b])
    BY <1>1
  <2> QED  BY <1>1, <2>1, <2>2
<1>3. CASE d \in Older(b)
  <2>1. b # Genesis /\ d \in TxsOn(Prev[b]) /\ Prev[b] \in Block
    BY <1>3, TreeFacts DEF Older
  <2>2. PICK c \in Branch(Prev[b]) : d \in TxsOf(c)
    BY <2>1 DEF TxsOn
  <2>3. c \in Branch(b)
    BY <2>1, <2>2, BranchStep
  <2>4. PICK j \in DOMAIN Txs[c] : d = Txs[c][j]
    BY <2>2 DEF TxsOf
  <2>5. DOMAIN Txs[c] = 1..Len(Txs[c])
    BY <1>1, <2>3, TxTypes
  <2> QED  BY <2>3, <2>4, <2>5
<1> QED  BY <1>2, <1>3 DEF Before

\* One of two transactions of a branch comes before the other one.
LEMMA OneIsBefore ==
  ASSUME NEW b \in Block, NEW i \in 1..(Len(Txs[b]) + 1),
         NEW d \in Before(b, i), NEW e \in Before(b, i), d # e
  PROVE  \E c \in Block : \E j \in 1..Len(Txs[c]) :
           \/ d = Txs[c][j] /\ e \in Before(c, j)
           \/ e = Txs[c][j] /\ d \in Before(c, j)
<1>1. PICK c \in Branch(b) : \E j \in 1..Len(Txs[c]) : d = Txs[c][j]
  BY BeforeHasPlaces
<1>2. PICK f \in Branch(b) : \E k \in 1..Len(Txs[f]) : e = Txs[f][k]
  BY BeforeHasPlaces
<1>3. PICK j \in 1..Len(Txs[c]) : d = Txs[c][j]
  BY <1>1
<1>4. PICK k \in 1..Len(Txs[f]) : e = Txs[f][k]
  BY <1>2
<1>5. /\ c \in Block /\ f \in Block /\ Height[c] \in Nat /\ Height[f] \in Nat
      /\ Len(Txs[c]) \in Nat /\ Len(Txs[f]) \in Nat
      /\ d \in TxsOf(c) /\ e \in TxsOf(f)
  <2>1. c \in Block /\ f \in Block
    BY BranchFacts
  <2>2. DOMAIN Txs[c] = 1..Len(Txs[c]) /\ DOMAIN Txs[f] = 1..Len(Txs[f])
    BY <2>1, TxTypes
  <2> QED  BY <1>3, <1>4, <2>1, <2>2, TreeFacts, TxTypes DEF TxsOf
<1>6. ASSUME NEW g \in Branch(b), NEW h \in Branch(b), NEW m \in 1..Len(Txs[h]),
             NEW y \in TxsOf(g), g # h, Height[g] <= Height[h]
      PROVE  y \in Before(h, m)
  <2>1. g \in Branch(h) /\ h \in Block
    BY <1>6, BranchOrder, BranchFacts
  <2>2. h # Genesis /\ g \in Branch(Prev[h])
    BY <1>6, <2>1, BranchStep
  <2> QED  BY <1>6, <2>1, <2>2 DEF Before, Older, TxsOn
<1>7. CASE c = f
  <2>1. j < k \/ k < j
    BY <1>3, <1>4, <1>7
  <2>2. CASE j < k
    <3>1. j \in 1..(k - 1)
      BY <1>5, <2>2
    <3>2. d \in Before(f, k)
      BY <1>3, <1>7, <3>1 DEF Before
    <3> QED  BY <1>4, <1>5, <3>2
  <2>3. CASE k < j
    <3>1. k \in 1..(j - 1)
      BY <1>5, <2>3
    <3>2. e \in Before(c, j)
      BY <1>4, <1>7, <3>1 DEF Before
    <3> QED  BY <1>3, <1>5, <3>2
  <2> QED  BY <2>1, <2>2, <2>3
<1>8. CASE c # f
  <2>1. CASE Height[c] <= Height[f]
    <3>1. d \in Before(f, k)
      BY <1>5, <1>6, <1>8, <2>1
    <3> QED  BY <1>4, <1>5, <3>1
  <2>2. CASE Height[f] <= Height[c]
    <3>1. e \in Before(c, j)
      BY <1>5, <1>6, <1>8, <2>2
    <3> QED  BY <1>3, <1>5, <3>1
  <2> QED  BY <1>5, <2>1, <2>2
<1> QED  BY <1>7, <1>8

\* A statement that comes after another one of its row follows one of the row.
LEMMA FollowsRow ==
  ASSUME NEW b \in Block, NEW i \in 1..Len(Txs[b]), Ref[Txs[b][i]] \in DataRow,
         NEW d \in Before(b, i), Ref[d] = Ref[Txs[b][i]]
  PROVE  OnSameRow(Txs[b][i])
<1>1. Txs[b][i] \in Tx /\ i \in DOMAIN Txs[b]
  BY TxTypes
<1>2. Base[Txs[b][i]] \in Tx /\ NoTx \notin Tx
  BY <1>1, StatementsOfRows, Transactions
<1>3. d \in Earlier(b, i)
  BY DEF Earlier, Before, Older
<1> QED  BY <1>1, <1>2, <1>3, BasesOfBlocks

\* On a branch no two statements follow the same one on a row, and only one begins.
LEMMA BranchHasNoFork ==
  ASSUME NEW b \in Block, NEW i \in 1..(Len(Txs[b]) + 1),
         NEW d \in Before(b, i), NEW e \in Before(b, i), Ref[d] = Ref[e], Ref[d] \in DataRow,
         Base[d] = Base[e] \/ (~OnSameRow(d) /\ ~OnSameRow(e))
  PROVE  d = e
<1>1. ASSUME NEW c \in Block, NEW j \in 1..Len(Txs[c]), NEW x \in Before(c, j),
             Ref[x] = Ref[Txs[c][j]], Ref[x] \in DataRow
      PROVE  Base[x] # Base[Txs[c][j]] /\ OnSameRow(Txs[c][j])
  BY <1>1, InItsPlace, FollowsRow
<1>2. SUFFICES ASSUME d # e  PROVE  FALSE
  OBVIOUS
<1>3. PICK c \in Block : \E j \in 1..Len(Txs[c]) :
        \/ d = Txs[c][j] /\ e \in Before(c, j)
        \/ e = Txs[c][j] /\ d \in Before(c, j)
  BY <1>2, OneIsBefore
<1>4. PICK j \in 1..Len(Txs[c]) :
        \/ d = Txs[c][j] /\ e \in Before(c, j)
        \/ e = Txs[c][j] /\ d \in Before(c, j)
  BY <1>3
<1> QED  BY <1>1, <1>4

\* All that a branch did to a row before a statement is on the line of the statement.
LEMMA BranchIsLine ==
  ASSUME NEW b \in Block, NEW i \in 1..Len(Txs[b]), Ref[Txs[b][i]] \in DataRow,
         NEW t \in Before(b, i), Ref[t] = Ref[Txs[b][i]]
  PROVE  t \in LineOf(Txs[b][i])
<1> DEFINE x == Txs[b][i]
           D == Before(b, i)
           L == LineOf(Base[x])
           M == {d \in D : Ref[d] = Ref[x] /\ d \notin LineOf(x)}
<1>1. x \in Tx /\ i \in 1..(Len(Txs[b]) + 1)
  BY TxTypes
<1>2. D \in SUBSET Tx /\ HasBases(D) /\ x \notin D
  BY <1>1, BeforeHasBases, AtItsPlace
<1>3. OnSameRow(x) /\ Base[x] \in D /\ \A d \in D : Ref[d] = Ref[x] => Base[d] # Base[x]
  BY FollowsRow, InItsPlace
<1>4. /\ LineOf(x) = {x} \cup L /\ L \subseteq D /\ Base[x] \in L /\ HasBases(L)
      /\ L \in SUBSET Tx /\ \A d \in L : Ref[d] = Ref[x]
  <2>1. Base[x] \in Tx /\ Ref[Base[x]] = Ref[x]
    BY <1>1, <1>3, BaseTypes
  <2> HIDE DEF x, D
  <2>2. LineOf(x) = {x} \cup LineOf(Base[x])
    BY <1>1, <1>3, LineStep
  <2> QED  BY <1>2, <1>3, <2>1, <2>2, LineFacts
<1>5. SUFFICES ASSUME M # {}  PROVE  FALSE
  OBVIOUS
<1>6. PICK d \in M : Base[d] \notin M
  <2>1. M \in SUBSET Tx
    BY <1>2
  <2> HIDE DEF M
  <2> QED  BY <1>5, <2>1, Histories
<1>7. d \in D /\ d \in Tx /\ Ref[d] = Ref[x] /\ d \notin LineOf(x)
  BY <1>2, <1>6
<1>8. CASE OnSameRow(d)
  <2>1. Base[d] \in D /\ Ref[Base[d]] = Ref[x]
    BY <1>2, <1>7, <1>8, BaseTypes DEF HasBases
  <2>2. Base[d] \in LineOf(x) /\ Base[d] # x
    BY <1>2, <1>6, <2>1
  <2> HIDE DEF x, D, L, M
  <2>3. PICK e \in LineOf(x) : Base[e] = Base[d]
    BY <1>1, <2>2, LineIsFollowed
  <2>4. e \in D /\ Ref[e] = Ref[d]
    BY <1>3, <1>4, <1>7, <2>3
  <2>5. e = d
    BY <1>1, <1>7, <2>3, <2>4, BranchHasNoFork DEF x, D
  <2> QED  BY <1>7, <2>3, <2>5
<1>9. CASE ~OnSameRow(d)
  <2> HIDE DEF x, D, L, M
  <2>1. PICK e \in L : Base[e] \notin L
    BY <1>4, Histories
  <2>2. ~OnSameRow(e) /\ e \in D /\ Ref[e] = Ref[d]
    BY <1>4, <1>7, <2>1 DEF HasBases
  <2>3. e = d
    BY <1>1, <1>7, <1>9, <2>2, BranchHasNoFork DEF x, D
  <2> QED  BY <1>4, <1>7, <2>1, <2>3
<1> QED  BY <1>8, <1>9

\* Where something pending stands on a transaction that is not pending, the base of
\* that transaction is not the one that is found.
LEMMA LaterIsFound ==
  ASSUME NEW n, NEW q, Known(q) \in SUBSET Tx, NEW t \in Tx, t \notin Known(q),
         NEW y \in Known(q), t \in LineOf(y)
  PROVE  BasesFound(n, q, t) # {Base[t]}
<1> DEFINE K == {z \in Known(q) : Ref[z] = Ref[t]}
<1>1. SUFFICES ASSUME BasesFound(n, q, t) = {Base[t]}  PROVE  FALSE
  OBVIOUS
<1>2. y \in Tx /\ y \in K /\ Ref[y] = Ref[t]
  BY LineFacts
<1>3. BasesInPool(q, t) = {z \in K : \A d \in K : Base[d] = z => \E e \in K : Base[e] = d}
  BY DEF BasesInPool
<1>4. ASSUME NEW z \in K, \A d \in K : Base[d] # z  PROVE  z = Base[t]
  BY <1>1, <1>3, <1>4 DEF BasesFound
<1>5. ASSUME Base[t] \in K  PROVE  OnSameRow(t) /\ Base[t] \in LineOf(y)
  <2>1. OnSameRow(t)
    BY <1>5, BaseTypes DEF OnSameRow
  <2> QED  BY <1>2, <2>1, LineFacts DEF HasBases
<1>6. y # Base[t]
  BY <1>2, <1>5, LineEnds
<1>7. PICK d \in K : Base[d] = y /\ \A e \in K : Base[e] # d
  <2>1. CASE BasesInPool(q, t) # {}
    BY <1>1, <1>2, <1>3, <1>6, <2>1 DEF BasesFound
  <2>2. CASE BasesInPool(q, t) = {}
    BY <1>2, <1>3, <2>2
  <2> QED  BY <2>1, <2>2
<1>8. d = Base[t]
  BY <1>4, <1>7
<1>9. OnSameRow(t) /\ d \in LineOf(y) /\ OnSameRow(d)
  BY <1>2, <1>5, <1>7, <1>8, BaseTypes DEF OnSameRow
<1> QED  BY <1>2, <1>7, <1>9, LineEnds

\* A transaction of a replaced block that is pending again or does not fit, given
\* that those before it on the old branch have been tried.
FitsIn(n, p, t) ==
  MustPass(n, p, t, Changing) /\ Conflicts(p, t) = {} /\ ~DuplicateKey(t, ValueIn(p, t))
Settled(n, D) ==
  {p \in PoolState :
     Fresh(p) /\ \A t \in (D \cap Held) \ TxsOn(n.top) : t \in p.pool \/ ~FitsIn(n, p, t)}

\* A statement that passes does not make a refused one before it on its row fit.
LEMMA RefusedOnRow ==
  ASSUME NEW n, NEW blocks, NEW dropped \in BOOLEAN, Knows(n, blocks, dropped),
         NEW b \in Block, NEW i \in 1..Len(Txs[b]), Txs[b][i] \in Held \cap SQL,
         NEW t \in (Before(b, i) \cap Held) \ TxsOn(n.top), Ref[t] = Ref[Txs[b][i]],
         NEW p \in PoolState, Fresh(p), NEW q \in PoolState, Fresh(q), p.pool \subseteq q.pool,
         MayPass(n, p, Txs[b][i], Changing), t \notin q.pool
  PROVE  ~FitsIn(n, q, t)
<1> DEFINE x == Txs[b][i]
<1>1. /\ x \in Tx /\ t \in Tx /\ Ref[x] \in DataRow /\ Known(q) = q.pool /\ Known(p) = p.pool
      /\ q.pool \in SUBSET Tx /\ n.top \in Block
  BY HeldTypes, KnownIs DEF PoolState, Knows
<1>2. t \in LineOf(x) /\ OnSameRow(x) /\ x \notin Before(b, i)
  BY <1>1, BranchIsLine, FollowsRow, AtItsPlace
<1>3. t \in LineOf(Base[x]) /\ Base[x] \in Tx /\ Ref[Base[x]] = Ref[x] /\ t # x
  BY <1>1, <1>2, LineStep, BaseTypes
<1>4. Base[x] \notin TxsOn(n.top)
  <2>1. HasBases(TxsOn(n.top)) /\ TxsOn(n.top) \in SUBSET Tx
    BY <1>1, BranchHasBases
  <2> HIDE DEF x
  <2> QED  BY <1>3, <2>1, LineFacts
<1>5. x \in p.pool \/ Base[x] \in p.pool
  <2>1. \/ x \in Known(p)
        \/ Base[x] \in BasesInPool(p, x)
        \/ Base[x] \in TxsOn(n.top)
    BY BaseIsThere
  <2>2. BasesInPool(p, x) \subseteq Known(p)
    BY DEF BasesInPool
  <2> QED  BY <1>1, <1>4, <2>1, <2>2
<1>6. PICK y \in q.pool : t \in LineOf(y)
  BY <1>2, <1>3, <1>5
<1>7. BasesFound(n, q, t) # {Base[t]}
  BY <1>1, <1>6, LaterIsFound
<1>8. Base[t] # NoTx
  BY <1>1, StatementsOfRows, Transactions
<1> QED  BY <1>1, <1>7, <1>8 DEF FitsIn, MustPass, GoodBases

\* Another transaction fits after one of another row has been put, if it did before.
LEMMA FittedBefore ==
  ASSUME NEW n, NEW p \in PoolState, Fresh(p), NEW q \in PoolState, Fresh(q),
         NEW x \in Tx, p.pool \subseteq q.pool, q.pool \subseteq p.pool \cup {x},
         \A r \in DataRow : r # Ref[x] => q.rows[r] = p.rows[r],
         NEW t \in Held, t \notin q.pool, t \in SQL => Ref[t] # Ref[x],
         \A y \in InsOf(t) : y[1] # x, FitsIn(n, q, t)
  PROVE  FitsIn(n, p, t)
<1>1. /\ Known(q) = q.pool /\ Known(p) = p.pool /\ t \in Tx
      /\ t \in SQL <=> Ref[t] \in DataRow
  BY HeldTypes, KnownIs
<1>2. ValueIn(p, t) = ValueIn(q, t)
  BY <1>1 DEF ValueIn
<1>3. InputsGood(n, Known(p), t)
  <2>1. InputsGood(n, Known(q), t)
    BY DEF FitsIn, MustPass
  <2>2. ASSUME NEW y \in InsOf(t)  PROVE  InputGood(n, Known(p), y)
    <3>1. InputGood(n, Known(q), y)
      BY <2>1 DEF InputsGood
    <3>2. y[1] \in Known(q) => y[1] \in Known(p)
      BY <1>1
    <3> QED  BY <3>1, <3>2 DEF InputGood
  <2> QED  BY <2>2 DEF InputsGood
<1>4. GoodBases(n, p, t) = {Base[t]}
  <2>1. GoodBases(n, q, t) = {Base[t]}
    BY DEF FitsIn, MustPass
  <2>2. CASE Base[t] = NoTx
    BY <2>2 DEF GoodBases
  <2>3. CASE Base[t] # NoTx
    <3>1. Ref[t] # Ref[x]
      <4>1. t \in SQL
        BY <1>1, <2>3, HeldTypes, Transactions
      <4> QED  BY <4>1
    <3>2. {y \in Known(p) : Ref[y] = Ref[t]} = {y \in Known(q) : Ref[y] = Ref[t]}
      BY <1>1, <3>1
    <3>3. BasesFound(n, p, t) = BasesFound(n, q, t)
      <4> DEFINE NotPassed(S) == {y \in S : \A d \in S : Base[d] = y => \E e \in S : Base[e] = d}
      <4>1. /\ BasesInPool(p, t) = NotPassed({y \in Known(p) : Ref[y] = Ref[t]})
            /\ BasesInPool(q, t) = NotPassed({y \in Known(q) : Ref[y] = Ref[t]})
        BY DEF BasesInPool
      <4> HIDE DEF NotPassed
      <4>2. BasesInPool(p, t) = BasesInPool(q, t)
        BY <3>2, <4>1
      <4> QED  BY <4>2 DEF BasesFound
    <3> QED  BY <1>1, <2>1, <2>3, <3>3 DEF GoodBases
  <2> QED  BY <2>2, <2>3
<1>5. Conflicts(p, t) = {}
  <2>1. Conflicts(q, t) = {}
    BY DEF FitsIn
  <2> QED  BY <1>1, <2>1 DEF Conflicts
<1>6. RowIsThere(p, t, Changing) /\ ~DuplicateKey(t, ValueIn(p, t))
  BY <1>2 DEF FitsIn, MustPass, RowIsThere
<1> QED  BY <1>3, <1>4, <1>5, <1>6 DEF FitsIn, MustPass

\* One more transaction of the old branch is tried.
LEMMA AddedSettles ==
  ASSUME NEW n, NEW blocks, NEW dropped \in BOOLEAN, Knows(n, blocks, dropped),
         NEW b \in Block, NEW i \in 1..Len(Txs[b]), Txs[b][i] \in Held,
         NEW p \in Settled(n, Before(b, i)), NEW q \in Added(n, p, Txs[b][i])
  PROVE  q \in Settled(n, Before(b, i + 1))
<1> DEFINE x == Txs[b][i]
           D == Before(b, i)
           u == Run(p, x)
<1>1. /\ x \in Tx /\ Before(b, i + 1) = D \cup {x} /\ x \notin D /\ HoldsInputs(D)
      /\ p \in PoolState /\ Fresh(p)
  <2>1. i \in 1..(Len(Txs[b]) + 1) /\ x \in Tx
    BY TxTypes
  <2> QED  BY <2>1, BeforeSteps, AtItsPlace, BranchHoldsInputs DEF Settled
<1>2. q \in PoolState /\ Fresh(q)
  BY <1>1, AddedGrows DEF Grows
<1>3. \/ q = p /\ ~FitsIn(n, p, x)
      \/ MayPass(n, p, x, Changing) /\ q = Kept(u, x)
  BY DEF Added, FitsIn
<1>4. CASE q = p /\ ~FitsIn(n, p, x)
  BY <1>1, <1>4 DEF Settled
<1>5. CASE MayPass(n, p, x, Changing) /\ q = Kept(u, x)
  <2>1. /\ p.pool \subseteq q.pool /\ q.pool \subseteq p.pool \cup {x}
        /\ \A r \in DataRow : r # Ref[x] => q.rows[r] = p.rows[r]
        /\ x \in q.pool \/ Conflicts(q, x) # {}
    <3>1. /\ u \in PoolState /\ u.pool = p.pool
          /\ \A r \in DataRow : r # Ref[x] => u.rows[r] = p.rows[r]
      BY <1>1, RunIsAlike, RunRows DEF Alike
    <3> HIDE DEF u, x
    <3>2. CASE Conflicts(u, x) # {}
      <4>1. q = Spoil(u, x)
        BY <1>5, <3>2 DEF Kept
      <4>2. q.pool = u.pool /\ q.cache = u.cache /\ q.rows = u.rows
        BY <1>1, <3>1, <4>1, SpoilIsAlike DEF Alike
      <4>3. Known(q) = Known(u)
        BY <4>2 DEF Known
      <4> QED  BY <3>1, <3>2, <4>2, <4>3 DEF Conflicts
    <3>3. CASE Conflicts(u, x) = {}
      <4>1. q = Put(u, x)
        BY <1>5, <3>3 DEF Kept
      <4> QED  BY <3>1, <4>1 DEF Put, PoolState
    <3> QED  BY <3>2, <3>3
  <2>2. SUFFICES ASSUME NEW t \in ((D \cup {x}) \cap Held) \ TxsOn(n.top), t \notin q.pool,
                        FitsIn(n, q, t)
                 PROVE  FALSE
    BY <1>1, <1>2 DEF Settled
  <2>3. t # x /\ t \in D /\ t \notin p.pool
    BY <2>1, <2>2 DEF FitsIn
  <2>4. ~FitsIn(n, p, t)
    BY <2>2, <2>3 DEF Settled
  <2>5. CASE t \in SQL /\ Ref[t] = Ref[x]
    <3>1. x \in Held \cap SQL
      BY <1>1, <2>5, HeldTypes
    <3> QED  BY <1>1, <1>2, <1>5, <2>1, <2>2, <2>3, <2>5, <3>1, RefusedOnRow
  <2>6. CASE ~(t \in SQL /\ Ref[t] = Ref[x])
    <3>1. \A y \in InsOf(t) : y[1] # x
      BY <1>1, <2>3 DEF HoldsInputs
    <3> HIDE DEF x, D, u
    <3> QED  BY <1>1, <1>2, <2>1, <2>2, <2>4, <2>6, <3>1, FittedBefore
  <2> QED  BY <2>5, <2>6
<1> QED  BY <1>3, <1>4, <1>5

\* The transactions of a block of the old branch are tried, those of the blocks
\* before it first.
LEMMA RepeatedFromSettles ==
  ASSUME NEW n, NEW blocks, NEW dropped \in BOOLEAN, Knows(n, blocks, dropped),
         NEW b \in Block \ {Genesis}, NEW P \in SUBSET Settled(n, TxsOn(Prev[b]))
  PROVE  RepeatedFrom(n, P, b) \in SUBSET Settled(n, TxsOn(b))
<1> DEFINE m == Len(Txs[b])
           G(i) == SUBSET Settled(n, Before(b, i))
           F == [i \in 0..m |-> G(i + 1)]
           c == <<n, b>>
           s == Txs[b]
<1>1. s \in Seq(Tx) /\ m \in Nat /\ Before(b, 1) = TxsOn(Prev[b]) /\ Before(b, m + 1) = TxsOn(b)
  BY TxTypes, BeforeSteps DEF Older
<1>2. ASSUME NEW i \in 1..m, NEW Q \in G(i)  PROVE  AddOp(c, Q, s[i]) \in G(i + 1)
  <2>1. CASE s[i] \in Signed(b)
    <3>1. s[i] \in Held
      BY <2>1, TxsOfBlocks
    <3>2. ASSUME NEW p \in Q, NEW q \in Added(n, p, s[i])
          PROVE  q \in Settled(n, Before(b, i + 1))
      BY <1>2, <3>1, AddedSettles
    <3>3. AddOp(c, Q, s[i]) = UNION {Added(n, p, s[i]) : p \in Q}
      BY <2>1 DEF AddOp
    <3> QED  BY <3>2, <3>3
  <2>2. CASE s[i] \notin Signed(b)
    <3>1. s[i] \notin Held
      <4>1. s[i] \in TxsOf(b)
        BY <1>2, TxTypes DEF TxsOf
      <4> QED  BY <2>2, <4>1, TxsOfBlocks
    <3>2. Before(b, i + 1) \cap Held = Before(b, i) \cap Held
      BY <1>2, <3>1, BeforeSteps
    <3>3. Settled(n, Before(b, i + 1)) = Settled(n, Before(b, i))
      BY <3>2 DEF Settled
    <3> QED  BY <1>2, <2>2, <3>3 DEF AddOp
  <2> QED  BY <2>1, <2>2
<1> HIDE DEF G
<1>3. F[0] = G(1) /\ F[m] = G(m + 1) /\ \A i \in 1..m : F[i - 1] = G(i) /\ F[i] = G(i + 1)
  BY <1>1
<1> HIDE DEF F
<1>4. \A i \in 1..m : \A Q \in F[i - 1] : AddOp(c, Q, s[i]) \in F[i]
  BY <1>2, <1>3
<1>5. P \in F[0]
  BY <1>1, <1>3 DEF G
<1> HIDE DEF c, s
<1>6. Adds!Fold(c, P, s) \in F[m]
  <2>1. m = Len(s)
    BY DEF s
  <2> HIDE DEF m
  <2> QED  BY <1>1, <1>4, <1>5, <2>1, Adds!FoldReaches
<1>7. RepeatedFrom(n, P, b) = Adds!Fold(c, P, s)
  BY RepeatedFromFolds DEF c, s
<1> QED  BY <1>1, <1>3, <1>6, <1>7 DEF G

\* The blocks of the old branch are repeated from the oldest one on.
LEMMA RepeatedSettles ==
  ASSUME NEW n, NEW blocks, NEW dropped \in BOOLEAN, Knows(n, blocks, dropped),
         NEW old \in Seq(Block \ {Genesis}), Len(old) \in Nat \ {0}, IsWalkDown(old),
         NEW P \in SUBSET Settled(n, TxsOn(Prev[old[Len(old)]])),
         NEW q \in Repeated(n, P, old)
  PROVE  q \in Settled(n, TxsOn(old[1]))
<1> DEFINE m == Len(old)
           s == Reverse(old)
           G(b) == SUBSET Settled(n, TxsOn(b))
           F == [i \in 0..m |-> G(IF i = 0 THEN Prev[old[m]] ELSE s[i])]
<1>1. s \in Seq(Block \ {Genesis}) /\ Len(s) = m /\ \A i \in 1..m : s[i] = old[(m - i) + 1]
  BY BackwardsIsList DEF Reverse
<1>2. \A i \in 1..m : s[i] \in Block \ {Genesis}
  BY <1>1, ElementOfSeq
<1> HIDE DEF G
<1>3. /\ F[0] = G(Prev[s[1]]) /\ F[m] = G(old[1])
      /\ \A i \in 1..m : F[i - 1] = G(Prev[s[i]]) /\ F[i] = G(s[i])
  <2>1. s[1] = old[m] /\ s[m] = old[1]
    BY <1>1
  <2>2. ASSUME NEW i \in 1..m, i # 1  PROVE  Prev[s[i]] = s[i - 1]
    <3> HIDE DEF s, m
    <3>1. m \in Nat /\ i - 1 \in 1..m /\ (m - i) + 1 \in 1..(m - 1)
          /\ (m - (i - 1)) + 1 = ((m - i) + 1) + 1
      BY <2>2 DEF m
    <3>2. s[i] = old[(m - i) + 1] /\ s[i - 1] = old[((m - i) + 1) + 1]
      BY <1>1, <2>2, <3>1
    <3> QED  BY <3>1, <3>2 DEF IsWalkDown, m
  <2> HIDE DEF s
  <2> QED  BY <2>1, <2>2
<1> HIDE DEF F, s
<1>4. ASSUME NEW i \in 1..m, NEW Q \in F[i - 1]  PROVE  RepeatOp(n, Q, s[i]) \in F[i]
  <2>1. Q \in SUBSET Settled(n, TxsOn(Prev[s[i]])) /\ s[i] \in Block \ {Genesis}
    BY <1>2, <1>3, <1>4 DEF G
  <2> QED  BY <1>3, <2>1, RepeatedFromSettles DEF RepeatOp, G
<1>5. P \in F[0]
  <2>1. s[1] = old[m]
    BY <1>1
  <2> QED  BY <1>3, <2>1 DEF G
<1>6. Repeats!Fold(n, P, s) \in F[m]
  <2> HIDE DEF m
  <2> QED  BY <1>1, <1>4, <1>5, Repeats!FoldReaches
<1>7. Repeated(n, P, old) = Repeats!Fold(n, P, s)
  BY RepeatedFolds DEF s
<1> QED  BY <1>3, <1>6, <1>7 DEF G

\* A switch of branches gives back what can be given back: repeating the
\* transactions of the old branch from the oldest block on loses none that would fit.
LEMMA SwitchSettles ==
  ASSUME PoolInv, NEW b \in Block, Switch(b), ~CutShort'
  PROVE  \A t \in (TxsOn(top) \ TxsOn(top')) \ Coinbase : t \in pool' \/ ~FitsNow(t)'
<1> DEFINE n == Derived'
           p == Current
           dropped == Mixed'
           old == OldBlocks(top, b)
           new == NewBlocks(top, b)
           u == TakenOff(p, old)
           P == PutOnAll(u, new)
           base == MeetingPoint(top, b)
<1>1. /\ LedgerInv /\ top \in Block /\ top' = b /\ n.top = b /\ Table \notin torn'
      /\ p.torn = torn /\ dropped \in BOOLEAN
  <2>1. dropped \in BOOLEAN
    BY DEF Mixed
  <2> QED  BY <2>1, PoolFacts, InvTypes, HeldTypes DEF Switch, SwitchBranch, Derived, CutShort
<1>2. PICK r \in Repeated(n, P, old) :
        u.ok /\ Becomes(IF new = <<>> THEN TearAll(r) ELSE TearForgotten(n, r))
  BY DEF Switch
<1>3. Store(b) /\ Overtakes(b) /\ ~SideBranchFails(top, b)
  BY DEF Switch, SwitchBranch
<1>4. new # <<>>
  <2>1. ASSUME new = <<>>  PROVE  FALSE
    <3>1. old \in Seq(Block \ {Genesis}) /\ P = {u}
      BY <1>1, <1>3, <2>1, ExchangeIs, NothingPutOn
    <3>2. Becomes(TearAll(r))
      BY <1>2, <2>1
    <3>3. torn' = TearAll(r).torn
      BY <3>2 DEF Becomes
    <3> QED  BY <1>1, <3>3, HeldTypes DEF TearAll
  <2> QED  BY <2>1
<1>5. top \notin Branch(b) /\ b \notin Branch(top)
  BY <1>1, <1>3, <1>4, ExchangeIs
<1>6. /\ base \in Block /\ old \in Seq(Block \ {Genesis}) /\ Len(old) \in Nat \ {0}
      /\ old[1] = top /\ Prev[old[Len(old)]] = base /\ IsWalkDown(old)
      /\ base \in Branch(b)
  <2>1. /\ base \in Block /\ old \in Seq(Block \ {Genesis}) /\ Len(old) \in Nat \ {0}
        /\ old[1] = top /\ Prev[old[Len(old)]] = base
    BY <1>1, <1>5, ReplacementEnds
  <2>2. IsWalkDown(old)
    BY <1>1, <1>3, <1>5, ReplacementIsRight DEF ReplacementAgrees
  <2>3. base \in Branch(b)
    BY <1>1, MeetingPointMeets DEF IsMeeting
  <2> QED  BY <2>1, <2>2, <2>3
<1>7. ASSUME NEW x \in P
      PROVE  /\ x \in PoolState /\ ~x.touched /\ Fresh(x)
             /\ x.torn # Row => Knows(n, stored', dropped)
  BY <1>1, <1>5, ExchangeLeads
<1>8. Becomes(TearForgotten(n, r))
  BY <1>2, <1>4
<1> HIDE DEF n, p, dropped, old, new, u, P, base
<1>9. PICK x \in P : r \in Grows(n, x, dropped)
  <2>1. \A y \in P : /\ y \in PoolState /\ (y.touched \/ Fresh(y))
                     /\ y.torn # Row => Knows(n, stored', dropped)
    BY <1>7
  <2> QED  BY <1>1, <1>2, <1>6, <2>1, RepeatedGrows
<1>10. r \in PoolState /\ x.torn \subseteq r.torn
  BY <1>9 DEF Grows
<1>11. /\ pool' = r.pool /\ cache' = r.cache /\ rows' = r.rows /\ r.torn \subseteq torn'
  BY <1>8, <1>10 DEF Becomes, TearForgotten, PoolState
<1>12. Knows(n, stored', dropped)
  BY <1>1, <1>7, <1>10, <1>11, HeldTypes
<1>13. P \in SUBSET Settled(n, TxsOn(base))
  <2>1. TxsOn(base) \subseteq TxsOn(n.top)
    BY <1>1, <1>6, TxsOnBelow
  <2> QED  BY <1>7, <2>1 DEF Settled
<1>14. r \in Settled(n, TxsOn(top))
  <2>1. P \in SUBSET Settled(n, TxsOn(Prev[old[Len(old)]]))
    BY <1>6, <1>13
  <2> QED  BY <1>1, <1>2, <1>6, <1>12, <2>1, RepeatedSettles
<1>15. ASSUME NEW t \in (TxsOn(top) \ TxsOn(b)) \ Coinbase  PROVE  t \in Held
  <2>1. PICK c \in Branch(top) : t \in TxsOf(c)
    BY DEF TxsOn
  <2>2. c \in Block
    BY <1>1, <2>1, BranchFacts
  <2>3. c # Genesis
    BY <1>15, <2>1, BranchFacts DEF TxsOn
  <2> QED  BY <2>1, <2>2, <2>3, Pending
<1>16. ASSUME NEW t \in (TxsOn(top) \ TxsOn(b)) \ Coinbase, FitsNow(t)'
       PROVE  FitsIn(n, r, t)
  <2> DEFINE e == Current'
  <2>1. e.pool = r.pool /\ e.cache = r.cache /\ e.rows = r.rows
    BY <1>11 DEF Current
  <2>2. MustPass(n, e, t, Changing) /\ Conflicts(e, t) = {} /\ ~DuplicateKey(t, ValueIn(e, t))
    BY <1>16 DEF FitsNow, n
  <2> HIDE DEF e
  <2>3. Known(e) = Known(r) /\ ValueIn(e, t) = ValueIn(r, t)
    BY <2>1 DEF Known, ValueIn
  <2>4. Conflicts(r, t) = {} /\ ~DuplicateKey(t, ValueIn(r, t))
    BY <2>2, <2>3 DEF Conflicts
  <2>5. MustPass(n, r, t, Changing)
    BY <2>2, <2>3 DEF MustPass, RowIsThere, GoodBases, BasesFound, BasesInPool
  <2> QED  BY <2>4, <2>5 DEF FitsIn
<1> QED  BY <1>1, <1>11, <1>14, <1>15, <1>16 DEF Settled

\* An exchange of branches that takes place leaves behind no transaction of the old
\* branch that the new one and the pool have room for.
THEOREM SwitchAlwaysKeeps == SpecPayments => SwitchKeepsTransactions
<1>1. PoolInv /\ [NextPayments]_allVars =>
        [\A t \in (TxsOn(top) \ TxsOn(top')) \ Coinbase :
           (\E b \in Block : Switch(b)) /\ ~CutShort' => t \in pool' \/ ~FitsNow(t)']_allVars
  BY SwitchSettles
<1>2. SpecPayments => [][NextPayments]_allVars
  BY DEF SpecPayments
<1> QED  BY <1>1, <1>2, PoolInvHolds, PTL DEF SwitchKeepsTransactions
=============================================================================
