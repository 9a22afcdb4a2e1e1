-------------------------------- MODULE Pool --------------------------------
(***************************************************************************)
(* The pending transactions of a node and the rows of its tables.  An SQL  *)
(* transaction is executed when it enters the pool, so the tables run      *)
(* ahead of the blocks: a block executes only what was not in the pool,    *)
(* and a conflicting or replaced transaction is undone by the rollback     *)
(* statement it carries.                                                   *)
(*                                                                         *)
(* The module is Ledger, whose blocks and indexes it reads, with the pool  *)
(* put beside them.  One call is one step, with two exceptions: a session  *)
(* of the database proxy, whose request, execution by the server and       *)
(* response are three, and the addition of a transaction that others       *)
(* overtake, which nothing locks: its verification, its execution, the     *)
(* search for conflicts and the put are four.  The commands of the command *)
(* line work in a process of their own: they change the tables of the      *)
(* database, not the memory of the daemon.                                 *)
(***************************************************************************)
EXTENDS Ledger

CONSTANTS
  Coinbase,   \* the transactions that pay for a block
  Kind,       \* the kind of the SQL query of a transaction, or "none"
  Sets,       \* the columns an insert or an update gives a value
  Table,      \* the ReferenceID of the table itself; the other rows are data
  Absent,     \* the value of a row that does not exist
  Timeline,   \* the transactions a pool can hold, by the time they carry
  CacheLimit, \* maxCountOfTransactionInMemoryCache
  NoCache,    \* the nil map
  MaxTxs,     \* the most transactions of a block
  ProxyTx,    \* bound: the transactions of the clients of the database proxy
  LateTx,     \* bound: the transactions whose addition others can overtake
  MaxLate,    \* bound: how many of them are added at a time
  Busy        \* bound: commands come beside these additions, or only before

Held == Members(Timeline)
DataRow == Row \ {Table}
SQL == {t \in Tx : Kind[t] # "none"}

\* What a row can be: absent, or which transaction wrote each of its columns.
Column == UNION {DOMAIN Sets[t] : t \in Tx}
Content == {Absent} \cup UNION {[C -> Tx] : C \in SUBSET Column}

\* The statement a transaction follows worked on the same row.
OnSameRow(t) == Base[t] # NoTx /\ Ref[Base[t]] = Ref[t]

\* What the statement makes of a row.  An UPDATE or a DELETE of a row that does
\* not exist is no error for the server.
Execute(t, v) ==
  CASE Kind[t] = "insert" -> Sets[t]
    [] Kind[t] = "update" ->
         IF v = Absent THEN v
         ELSE [c \in DOMAIN v |-> IF c \in DOMAIN Sets[t] THEN Sets[t][c] ELSE v[c]]
    [] Kind[t] = "delete" -> Absent
    [] OTHER -> v
DuplicateKey(t, v) == Kind[t] = "insert" /\ v # Absent

\* The row as it was, and as it is, where the transaction was prepared.
RowAfter[t \in Tx] == Execute(t, IF OnSameRow(t) THEN RowAfter[Base[t]] ELSE Absent)
RowBefore(t) == IF OnSameRow(t) THEN RowAfter[Base[t]] ELSE Absent

\* buildRollbackSQL writes the statement from the row as it was before the query.
Rollback(t, v) ==
  CASE Kind[t] = "insert" -> Absent
    [] Kind[t] = "update" ->
         IF v = Absent THEN v
         ELSE [c \in DOMAIN v |-> IF c \in DOMAIN Sets[t] THEN RowBefore(t)[c] ELSE v[c]]
    [] Kind[t] = "delete" -> RowBefore(t)
    [] OTHER -> v
\* The rollback of a DELETE is an INSERT.
RollbackFails(t, v) == Kind[t] = "delete" /\ v # Absent

ASSUME Statements ==
  /\ Coinbase \subseteq Tx
  /\ ProxyTx \subseteq SQL
  /\ Table \in Row
  /\ CacheLimit \in Nat
  /\ MaxTxs \in Nat \ {0}
  /\ MaxLate \in Nat
  /\ Busy \in BOOLEAN
  /\ \A t \in Tx :
       /\ Sets[t] \in [DOMAIN Sets[t] -> Tx]
       /\ Kind[t] \in {"none", "create", "insert", "update", "delete"}
       /\ Kind[t] = "none" <=> Ref[t] = NoRow
       /\ Kind[t] = "create" <=> Ref[t] = Table
       /\ Kind[t] = "create" => t \in TxsOf(Genesis) /\ Base[t] = NoTx
       /\ Kind[t] \in {"insert", "update", "delete"} =>
            Base[t] # NoTx /\ (OnSameRow(t) \/ (Kind[t] = "insert" /\ Ref[Base[t]] = Table))
       /\ Kind[t] = "insert" => RowBefore(t) = Absent
       /\ Kind[t] \in {"update", "delete"} =>
            RowBefore(t) \in Content \ {Absent} /\ DOMAIN Sets[t] \subseteq DOMAIN RowBefore(t)

\* The base of a transaction of a block is what its branch did last to the row:
\* VerifyBlock sees to it for the blocks that arrive on the top.
Earlier(b, i) ==
  {Txs[b][j] : j \in 1..(i - 1)} \cup (IF b = Genesis THEN {} ELSE TxsOn(Prev[b]))
ASSUME BasesOfBlocks ==
  \A b \in Block : \A i \in DOMAIN Txs[b] :
    LET t == Txs[b][i]
    IN  Base[t] # NoTx =>
          /\ Base[t] \in Earlier(b, i)
          /\ \A d \in Earlier(b, i) :
               Ref[d] = Ref[t] => OnSameRow(t) /\ ~(OnSameRow(d) /\ Base[d] = Base[t])

\* What a block has can be pending, but for the payment of its maker and for the
\* transactions of the first block, which nobody sends.  A payment has inputs.
ASSUME Pending ==
  /\ Timeline \in Seq(Tx)
  /\ \A i, j \in DOMAIN Timeline : Timeline[i] = Timeline[j] => i = j
  /\ \A b \in Block \ {Genesis} : TxsOf(b) \subseteq Held \cup Coinbase
  /\ Held \cap (TxsOf(Genesis) \cup Coinbase) = {}
  /\ SQL \cap Coinbase = {}
  /\ \A t \in Held \ SQL : Ins[t] # <<>>

\* The identifier of a transaction is a hash of what it has, its base included, so
\* no bases go round in a circle.  The table is created once, in the first block,
\* that has nothing about the rows (prepareGenesisBlock).  No row is an absent one.
ASSUME Histories ==
  /\ \A S \in SUBSET Tx : S # {} => \E t \in S : Base[t] \notin S
  /\ \A t, x \in Tx : Kind[t] = "create" /\ Kind[x] = "create" => t = x
  /\ \A t \in TxsOf(Genesis) : Ref[t] \notin DataRow
  /\ Absent \notin UNION {[C -> Tx] : C \in SUBSET Column}

VARIABLES
  pool,    \* the table of unapproved transactions
  cache,   \* the map of them in the memory of the daemon
  rows,    \* the data of the tables
  asked,   \* the transaction of the session of the database proxy
  ran,     \* its query has been executed, the response is not yet seen
  adding,  \* the additions of other handlers under way: a transaction and how far
  torn,    \* history: the rows where a statement ran out of turn
  touched, \* history: a command has changed the pool beside the cache
  crossed  \* history: a put came too late for what its addition was verified by

poolVars == <<pool, cache, rows, asked, ran, adding, torn, touched, crossed>>
allVars == <<vars, poolVars>>

(***************************************************************************)
(* The pool.  p is a record of the pool, the cache, the rows and the two   *)
(* history variables; ok is FALSE when a call has ended with an error.     *)
(***************************************************************************)

Current == [pool |-> pool, cache |-> cache, rows |-> rows,
            torn |-> torn, touched |-> touched, ok |-> TRUE]

Filled(p) == IF Cardinality(p.pool) > CacheLimit THEN NoCache ELSE p.pool

\* renewCache gives the cache up when there are too many transactions.
Renewed(p) == [p EXCEPT !.cache = Filled(p), !.touched = FALSE]
Loaded(p) == IF p.cache = NoCache THEN Renewed(p) ELSE p

Known(p) == IF p.cache = NoCache THEN p.pool ELSE p.cache

Put(p, t) ==
  [p EXCEPT !.pool = @ \cup {t}, !.cache = IF @ = NoCache THEN @ ELSE @ \cup {t}]

\* Mutation of Delete: the cache is left as it is.
DeleteFromTable(p, t) == [p EXCEPT !.pool = @ \ {t}]

\* Delete looks in the table first.
Delete(p, t) ==
  IF t \notin p.pool THEN p
  ELSE [p EXCEPT !.pool = @ \ {t}, !.cache = IF @ = NoCache THEN @ ELSE @ \ {t}]

\* DetectConflictsForNew: the same input, or the same base and the same row.
SameBase(x, t) ==
  {x, t} \subseteq SQL /\ Base[x] # NoTx /\ Base[x] = Base[t] /\ Ref[x] = Ref[t]
Conflicts(p, t) ==
  {x \in Known(p) \ {t} : InsOf(x) \cap InsOf(t) # {} \/ SameBase(x, t)}

(***************************************************************************)
(* Statements.  One runs out of turn when something that comes after it,   *)
(* or in its place, is in force on the row, or when the pool is not known. *)
(***************************************************************************)

Spoil(p, t) == IF t \in SQL THEN [p EXCEPT !.torn = @ \cup {Ref[t]}] ELSE p
OutOfTurn(p, t) ==
  \/ \E d \in p.pool \ {t} : Ref[d] = Ref[t] /\ Base[d] \in {t, Base[t]}
  \/ ran /\ Ref[asked] = Ref[t]
  \/ p.touched
Tear(p, t) == IF OutOfTurn(p, t) THEN Spoil(p, t) ELSE p

ValueIn(p, t) == IF Ref[t] \in DataRow THEN p.rows[Ref[t]] ELSE Absent
Run(p, t) ==
  IF Ref[t] \in DataRow THEN [Tear(p, t) EXCEPT !.rows[Ref[t]] = Execute(t, @)] ELSE p
Undo(p, t) ==
  IF Ref[t] \in DataRow THEN [Tear(p, t) EXCEPT !.rows[Ref[t]] = Rollback(t, @)] ELSE p

\* CancelTransaction
Cancel(p, t) ==
  IF ~p.ok THEN p
  ELSE IF t \notin Known(p) \/ RollbackFails(t, ValueIn(p, t)) THEN [p EXCEPT !.ok = FALSE]
  ELSE [Delete(Undo(p, t), t) EXCEPT !.ok = t \in p.pool]
CancelAnyway(p, t) == [Cancel(p, t) EXCEPT !.ok = TRUE]

(***************************************************************************)
(* Verification.  n is what the node has derived from its blocks.          *)
(***************************************************************************)

Derived == [top |-> top, links |-> links, spent |-> spent, refs |-> refs]

\* getCurrencyInputTransactionsState and the checks after it: an input is an
\* unspent output of the primary branch, or of one of the transactions given.
InputGood(n, given, x) ==
  LET idx == Index(Branch(n.top), n.links, n.spent)
  IN  IF BlockUnder(idx, x[1], NoHash) = NoHash THEN x[1] \in given
      ELSE x \in UnspentUnder(idx, x[1], n.top)
InputsGood(n, given, t) == \A x \in InsOf(t) : InputGood(n, given, x)

\* getBaseTransactionInChain: by the row, and for an INSERT by the table.
BaseOnChain(n, t) ==
  IF n.refs[Ref[t]] = NoTx /\ Kind[t] = "insert" THEN n.refs[Table] ELSE n.refs[Ref[t]]

\* Mutation of BasesInPool: it is not asked if a transaction has been followed.
AnyOfRow(p, t) == {x \in Known(p) : Ref[x] = Ref[t]}

\* FindSQLReferenceTransaction visits a map: the last transaction of the row that
\* it meets before any that is based on it.  In whatever order the map is read,
\* that is one whose followers can all have been passed over like this.
BasesInPool(p, t) ==
  LET sameRow == {x \in Known(p) : Ref[x] = Ref[t]}
  IN  {x \in sameRow :
         \A d \in sameRow : Base[d] = x => \E e \in sameRow : Base[e] = d}
BasesFound(n, p, t) ==
  IF BasesInPool(p, t) # {} THEN BasesInPool(p, t) ELSE {BaseOnChain(n, t)}

\* getBaseTransactionInList: the last one of the list that worked on the row.
BaseInList(n, list, t) ==
  LET sameRow == {i \in DOMAIN list : Ref[list[i]] = Ref[t]}
  IN  IF sameRow # {} THEN list[Max(sameRow)] ELSE BaseOnChain(n, t)

\* Mutation of GoodBases: any base will do.
AnyBase(n, p, t) == {Base[t]}

\* VerifyTransaction of a transaction for the pool, and what ParseQuery demands.
\* A transaction that is in the pool has its base not checked again.
GoodBases(n, p, t) ==
  IF Base[t] = NoTx \/ t \in Known(p) THEN {Base[t]} ELSE BasesFound(n, p, t)
RowIsThere(p, t, kinds) == Kind[t] \in kinds => ValueIn(p, t) # Absent
MayPass(n, p, t, kinds) ==
  InputsGood(n, Known(p), t) /\ RowIsThere(p, t, kinds) /\ Base[t] \in GoodBases(n, p, t)
MustPass(n, p, t, kinds) ==
  InputsGood(n, Known(p), t) /\ RowIsThere(p, t, kinds) /\ GoodBases(n, p, t) = {Base[t]}
Changing == {"update", "delete"}

\* Mutation of Kept: Add does not look for conflicts again.
KeptAnyway(p, t) == Put(p, t)

\* Add refuses a transaction that conflicts, after its query has been executed.
Kept(p, t) == IF Conflicts(p, t) # {} THEN Spoil(p, t) ELSE Put(p, t)

\* AddTransactionToPool where nothing comes in between: the pools it can leave.
Added(n, p, t) ==
  (IF MustPass(n, p, t, Changing) THEN {} ELSE {p}) \cup
  (IF MayPass(n, p, t, Changing)
     THEN {IF DuplicateKey(t, ValueIn(p, t)) THEN p ELSE Kept(Run(p, t), t)} ELSE {})
(***************************************************************************)
(* Blocks that come and go                                                 *)
(***************************************************************************)

\* rollbackConflictingFromPool: first what conflicts with an SQL transaction of
\* the block, then, breadth first, what is based on something cancelled.
Disputed(p, b) == UNION {Conflicts(p, t) : t \in TxsOf(b) \cap SQL}
Doomed(p, b) ==
  FoldLeft(LAMBDA S, t : S \cup {x \in Known(p) : Base[x] \in S}, Disputed(p, b), Timeline)
CancelOrders(p, b) ==
  {s \in SetToSeqs(Doomed(p, b)) :
     \A j \in DOMAIN s : \A i \in 1..(j - 1) :
       s[i] \notin Disputed(p, b) => s[j] \notin Disputed(p, b) /\ Base[s[i]] # s[j]}
Rivals(p, b) == {FoldLeft(Cancel, p, s) : s \in CancelOrders(p, b)}

\* Mutation of ExecuteFromBlock: what is in the pool is executed once more.
ExecuteAll(p, t) ==
  IF ~p.ok \/ DuplicateKey(t, ValueIn(p, t)) THEN [p EXCEPT !.ok = FALSE] ELSE Run(p, t)

\* transactionsFromAddedBlock: what is in the pool has been executed.  After an
\* error the rest of the block is not executed.
ExecuteFromBlock(p, t) ==
  IF t \in Known(p) THEN p
  ELSE IF ~p.ok \/ DuplicateKey(t, ValueIn(p, t)) THEN [Spoil(p, t) EXCEPT !.ok = FALSE]
  ELSE Run(p, t)

\* Mutation of Signed: the payment for the block is not left out.
WithCoinbase(b) == TxsOf(b)

\* Mutation of Signed: transactions of currency are left out.
WithStatement(b) == TxsOf(b) \cap SQL

\* The transactions of a block that were or can be pending.
Signed(b) == TxsOf(b) \ Coinbase
DeleteSigned(p, b) ==
  FoldLeft(LAMBDA q, t : IF t \in Signed(b) THEN Delete(q, t) ELSE q, p, Txs[b])

\* The part of BlockAdded and BlockAddedToPrimaryChain that is about the pool.
PutOn(p, b) ==
  {[DeleteSigned(FoldLeft(ExecuteFromBlock, q, Txs[b]), b) EXCEPT !.ok = TRUE] :
     q \in Rivals(Renewed(p), b)}
PutOnAll(p, blocks) ==
  FoldLeft(LAMBDA P, b : UNION {PutOn(q, b) : q \in P}, {p}, blocks)

\* BlockRemovedFromPrimaryChain: the rollbacks, from the last transaction up.
UndoOfBlock(p, t) ==
  IF ~p.ok \/ t \notin SQL THEN p
  ELSE IF RollbackFails(t, ValueIn(p, t)) THEN [Spoil(p, t) EXCEPT !.ok = FALSE]
  ELSE Undo(p, t)
TakeOff(p, b) == FoldLeft(UndoOfBlock, p, Reverse(Txs[b]))
TakenOff(p, blocks) == FoldLeft(TakeOff, p, blocks)

\* The transactions of one block are added again, oldest first.
RepeatedFrom(n, P, b) ==
  FoldLeft(LAMBDA Q, t : IF t \in Signed(b) THEN UNION {Added(n, p, t) : p \in Q} ELSE Q,
           P, Txs[b])

\* Mutation of Repeated: the list is that of the last block taken away.
RepeatedFromOne(n, P, blocks) == RepeatedFrom(n, P, Last(blocks))

\* RepeatTransactionsFromCanceledBlocks, oldest block first.  (The node is not the
\* signer of any of the transactions, so it gives none a new base.)
Repeated(n, P, blocks) ==
  FoldLeft(LAMBDA Q, b : RepeatedFrom(n, Q, b), P, Reverse(blocks))

(***************************************************************************)
(* The transactions for a new block                                        *)
(***************************************************************************)

\* GetTransactions leaves its loop over the map when it has enough; the loop over
\* the table goes on to the end.
Selections(p) ==
  IF p.cache = NoCache THEN {p.pool}
  ELSE {S \in SUBSET p.cache :
          Cardinality(S) = MinOf(Cardinality(p.cache), MinOf(MaxTxs, Cardinality(p.pool)))}

\* Mutation of FitsAfter: the base need not be the last transaction of the row.
FitsByInputs(n, list, t) == InputsGood(n, Members(list), t)

FitsAfter(n, list, t) ==
  /\ InputsGood(n, Members(list), t)
  /\ Base[t] # NoTx => BaseInList(n, list, t) = Base[t]

\* GetUnapprovedTransactionsForNewBlock: each transaction is verified after those
\* before it and cancelled when it does not fit, then those that spend an output
\* a second time are.  s is the pool, the list and the outputs seen.
TryTx(n, s, t) ==
  IF FitsAfter(n, s.list, t) THEN [s EXCEPT !.list = Append(@, t)]
  ELSE [s EXCEPT !.p = CancelAnyway(@, t)]
\* Mutation of Unseen: the outputs spent before are not looked at.
AllUnseen(seen, t) == DOMAIN Ins[t]

Unseen(seen, t) ==
  {i \in DOMAIN Ins[t] : \A j \in 1..i : Ins[t][j] \notin seen}
TryInputs(s, t) ==
  LET fresh == Unseen(s.seen, t)
      marked == s.seen \cup {Ins[t][i] : i \in fresh}
  IN  IF fresh = DOMAIN Ins[t]
        THEN [s EXCEPT !.list = Append(@, t), !.seen = marked]
        ELSE [s EXCEPT !.p = CancelAnyway(@, t), !.seen = marked]
Selected(n, p, S) ==
  LET fit == FoldLeft(LAMBDA s, t : IF t \in S THEN TryTx(n, s, t) ELSE s,
                      [p |-> p, list |-> <<>>], Timeline)
  IN  FoldLeft(TryInputs, [p |-> fit.p, list |-> <<>>, seen |-> {}], fit.list)

(***************************************************************************)
(* The actions                                                             *)
(***************************************************************************)

InitPool ==
  /\ Init
  /\ pool = {}
  /\ cache = NoCache
  /\ rows = [r \in DataRow |-> Absent]
  /\ asked = NoTx
  /\ ran = FALSE
  /\ adding = {}
  /\ torn = {}
  /\ touched = FALSE
  /\ crossed = FALSE

\* Rows that the primary branch has written and that have lost their reference
\* (see RefsAreKept): what comes next for them is verified against nothing.
Forgotten(n) == {r \in Row : n.refs[r] = NoTx /\ LastOfRow(n.top, r) # {}}
TearForgotten(n, p) == [p EXCEPT !.torn = @ \cup Forgotten(n)]
TearAll(p) == [p EXCEPT !.torn = Row]

Becomes(p) ==
  /\ pool' = p.pool
  /\ cache' = p.cache
  /\ rows' = p.rows
  /\ torn' = p.torn
  /\ touched' = p.touched

\* GetIfExists: in the pool, else on the primary branch.
IsKnown(t) ==
  t \in Known(Loaded(Current)) \/ BlockUnder(Index(Branch(top), links, spent), t, NoHash) # NoHash

\* A transaction comes from another node: handleTx, and the pull of the checker
\* of changes.
Receive(t) ==
  /\ ~IsKnown(t)
  /\ \E p \in Added(Derived, Loaded(Current), t) : Becomes(p)
  /\ UNCHANGED <<vars, asked, ran, adding, crossed>>

\* A client sends a transaction it has signed, once more: nothing asks if it was
\* sent before.  (When it was not, the step is that of Receive.)
Resubmit(t) ==
  /\ IsKnown(t)
  /\ \E p \in Added(Derived, Loaded(Current), t) : Becomes(p)
  /\ UNCHANGED <<vars, asked, ran, adding, crossed>>

\* processQuery makes a transaction of the query: with a row that is there, inputs
\* to pay with, and a base.
Prepares(p, t) == MayPass(Derived, p, t, Changing)

\* RequestCallback: the query is verified, not yet executed.
ProxyAsk(t) ==
  /\ asked = NoTx
  /\ t \in ProxyTx
  /\ Prepares(Loaded(Current), t)
  /\ asked' = t
  /\ Becomes(Loaded(Current))
  /\ UNCHANGED <<vars, ran, adding, crossed>>

\* A block has come in the meantime that leaves no room for the transaction.
TooLate(t) == \E d \in TxsOn(top) : Ref[d] = Ref[t] /\ Base[d] \in {t, Base[t]}

\* The server executes the query and answers.
ProxyRun ==
  /\ asked # NoTx /\ ~ran
  /\ ~DuplicateKey(asked, ValueIn(Current, asked))
  /\ Becomes(Run(IF TooLate(asked) THEN Spoil(Current, asked) ELSE Current, asked))
  /\ ran' = TRUE
  /\ UNCHANGED <<vars, asked, adding, crossed>>

\* The server answers with an error: ResponseCallback forgets the transaction.
ProxyFails ==
  /\ asked # NoTx /\ ~ran
  /\ DuplicateKey(asked, ValueIn(Current, asked))
  /\ asked' = NoTx
  /\ UNCHANGED <<vars, pool, cache, rows, ran, adding, torn, touched, crossed>>

\* ResponseCallback: the transaction of the executed query goes to the pool.  When
\* it is refused there, the row keeps what the query did ("Rollback? TODO").
ProxyAnswer ==
  /\ ran
  /\ LET p == Loaded(Current)
     IN  \/ /\ MayPass(Derived, p, asked, {"update"})
            /\ Becomes(Kept(p, asked))
         \/ /\ ~MustPass(Derived, p, asked, {"update"})
            /\ Becomes(Spoil(p, asked))
  /\ asked' = NoTx
  /\ ran' = FALSE
  /\ UNCHANGED <<vars, adding, crossed>>

(***************************************************************************)
(* An addition that others overtake: AddTransactionToPool or the end of    *)
(* ResponseCallback in one handler, with steps of the others in between.   *)
(* The row of a statement is given up: what it does there is not in the    *)
(* pool yet.  (Two additions of one transaction that are as far are taken  *)
(* for one: the second puts what is there.)                                *)
(***************************************************************************)

Goes(t, from, to) == adding' = (adding \ {<<t, from>>}) \cup {<<t, to>>}
Ends(t, from) == adding' = adding \ {<<t, from>>}
Begins(t) ==
  /\ t \in LateTx /\ Cardinality(adding) < MaxLate
  /\ Busy \/ (torn = {} /\ ~touched /\ drops = 0 /\ ~crossed)

\* VerifyTransaction and ParseQuery.  A payment has nothing to execute.
AddVerify(t) ==
  /\ Begins(t)
  /\ MayPass(Derived, Loaded(Current), t, Changing)
  /\ adding' = adding \cup {<<t, IF t \in SQL THEN "verified" ELSE "executed">>}
  /\ Becomes(Loaded(Current))
  /\ UNCHANGED <<vars, asked, ran, crossed>>

\* ResponseCallback: the query has been executed by the server, it is verified now.
ProxyVerify ==
  /\ ran
  /\ Begins(asked)
  /\ MayPass(Derived, Loaded(Current), asked, {"update"})
  /\ adding' = adding \cup {<<asked, "executed">>}
  /\ Becomes(Spoil(Loaded(Current), asked))
  /\ asked' = NoTx
  /\ ran' = FALSE
  /\ UNCHANGED <<vars, crossed>>

\* AddNewTransaction executes the statement.
AddRun(t) ==
  /\ <<t, "verified">> \in adding
  /\ ~DuplicateKey(t, ValueIn(Current, t))
  /\ Becomes(Run(Spoil(Current, t), t))
  /\ Goes(t, "verified", "executed")
  /\ UNCHANGED <<vars, asked, ran, crossed>>

\* The execution fails, and so does the addition.
AddFails(t) ==
  /\ <<t, "verified">> \in adding
  /\ DuplicateKey(t, ValueIn(Current, t))
  /\ Ends(t, "verified")
  /\ UNCHANGED <<vars, pool, cache, rows, asked, ran, torn, touched, crossed>>

\* Add: DetectConflictsForNew finds nothing.
AddTest(t) ==
  /\ <<t, "executed">> \in adding
  /\ Conflicts(Loaded(Current), t) = {}
  /\ Becomes(Loaded(Current))
  /\ Goes(t, "executed", "tested")
  /\ UNCHANGED <<vars, asked, ran, crossed>>

\* It finds a conflict: the addition ends with an error.
AddRefused(t) ==
  /\ <<t, "executed">> \in adding
  /\ Conflicts(Loaded(Current), t) # {}
  /\ Becomes(Loaded(Current))
  /\ Ends(t, "executed")
  /\ UNCHANGED <<vars, asked, ran, crossed>>

\* Add puts the transaction into the table and the map, whatever has come since.
TooLateToPut(t) ==
  ~MayPass(Derived, Current, t, {}) \/ Conflicts(Current, t) # {}
AddPut(t) ==
  /\ <<t, "tested">> \in adding
  /\ Becomes(Put(Spoil(Current, t), t))
  /\ Ends(t, "tested")
  /\ crossed' = (crossed \/ TooLateToPut(t))
  /\ UNCHANGED <<vars, asked, ran>>

\* VerifyBlock looks at the bases only of a block that goes on the top.
BasesVerified(b) ==
  \A i \in DOMAIN Txs[b] :
    LET t == Txs[b][i]
    IN  Base[t] # NoTx => BaseInList(Derived, SubSeq(Txs[b], 1, i - 1), t) = Base[t]

BlockToTop(b) ==
  /\ AddToTop(b)
  /\ BasesVerified(b)
  /\ \E p \in PutOn(Current, b) : Becomes(p)
  /\ UNCHANGED <<asked, ran, adding, crossed>>

BlockToParallel(b) ==
  /\ AddToParallel(b)
  /\ UNCHANGED poolVars

\* The branches are exchanged, and the pool and the rows follow.  (After a drop
\* the new branch can start on the top: then nothing is put on.)
Switch(b) ==
  /\ SwitchBranch(b)
  /\ LET old == OldBlocks(top, b)
         new == NewBlocks(top, b)
     IN  /\ TakenOff(Current, old).ok
         /\ \E p \in Repeated(Derived', PutOnAll(TakenOff(Current, old), new), old) :
              Becomes(IF new = <<>> THEN TearAll(p) ELSE TearForgotten(Derived', p))
  /\ UNCHANGED <<asked, ran, adding, crossed>>

\* A rollback fails: AddBlock returns in the middle of the exchange.  Only the
\* blocks before it have been taken out of the unspent outputs and references.
SwitchAborts(b) ==
  /\ Overtakes(b)
  /\ ~SideBranchFails(top, b)
  /\ Store(b)
  /\ top' = b
  /\ LET idx == Index(Branch(b), links', spent')
         old == OldBlocks(top, b)
     IN  \E k \in DOMAIN old :
           LET done == SubSeq(old, 1, k - 1)
           IN  /\ TakenOff(Current, done).ok
               /\ ~TakenOff(Current, SubSeq(old, 1, k)).ok
               /\ Becomes(TearAll(TakenOff(Current, SubSeq(old, 1, k))))
               /\ utxo' = UnspentTakenOff(idx, utxo, done)
               /\ refs' = RefsTakenOff(idx, refs, done)
  /\ UNCHANGED <<drops, asked, ran, adding, crossed>>

\* The process ends: the map, the session and the additions under way are gone, the
\* tables stay.
Gone(p) == [p EXCEPT !.cache = NoCache, !.touched = FALSE]
Restart ==
  /\ cache # NoCache \/ asked # NoTx \/ adding # {}
  /\ Becomes(Gone(IF ran THEN Spoil(Current, asked) ELSE Current))
  /\ asked' = NoTx
  /\ ran' = FALSE
  /\ adding' = {}
  /\ UNCHANGED <<vars, crossed>>

Panic(b) ==
  /\ PanicOverGenesis(b)
  /\ Becomes(TearAll(Gone(Current)))
  /\ asked' = NoTx
  /\ ran' = FALSE
  /\ adding' = {}
  /\ UNCHANGED crossed

\* The block maker selects transactions; those that do not fit are cancelled.
PrepareBlock ==
  /\ pool # {}
  /\ \E S \in Selections(Loaded(Current)) :
       Becomes(Selected(Derived, Loaded(Current), S).p)
  /\ UNCHANGED <<vars, asked, ran, adding, crossed>>

\* A command works on the tables with a map of its own.
CommandComes == Busy \/ (adding = {} /\ ~crossed)
ByCommand(p) ==
  Becomes([p EXCEPT !.cache = cache,
                    !.touched = touched \/ (cache # NoCache /\ p.pool # pool)])

\* The command canceltransaction (bound: one that the daemon has not noticed, and
\* before a drop).
OperatorCancel(t) ==
  /\ CommandComes
  /\ t \in pool
  /\ ~touched /\ drops = 0
  /\ ByCommand(Cancel(Renewed(Current), t))
  /\ UNCHANGED <<vars, asked, ran, adding, crossed>>

\* The command unapprovedtransactions -clean: no statement is rolled back (bound:
\* before any row is out of turn and before a drop).
OperatorClean ==
  /\ CommandComes
  /\ pool # {}
  /\ ~touched /\ torn = {} /\ drops = 0
  /\ ByCommand([Current EXCEPT !.pool = {}, !.torn = @ \cup {Ref[t] : t \in pool \cap SQL}])
  /\ UNCHANGED <<vars, asked, ran, adding, crossed>>

\* AddFromCanceled executes nothing: the transactions were executed when the block
\* came.
BackFromBlock(p, b) ==
  FoldLeft(LAMBDA q, t : IF t \in Signed(b) THEN Kept(q, t) ELSE q, p, Txs[b])

\* The command dropblock (bound: while the map of the daemon is not stale).
OperatorDrop ==
  /\ DropBlock
  /\ CommandComes
  /\ ~touched
  /\ ByCommand(TearForgotten(Derived', BackFromBlock(Renewed(Current), top)))
  /\ UNCHANGED <<asked, ran, adding, crossed>>

NextPool ==
  \/ \E t \in Members(Timeline) :
       \/ Receive(t) \/ Resubmit(t) \/ ProxyAsk(t) \/ OperatorCancel(t)
       \/ AddVerify(t) \/ AddRun(t) \/ AddFails(t)
       \/ AddTest(t) \/ AddRefused(t) \/ AddPut(t)
  \/ \E b \in Block :
       \/ BlockToTop(b) \/ BlockToParallel(b)
       \/ Switch(b) \/ SwitchAborts(b) \/ Panic(b)
  \/ ProxyRun \/ ProxyFails \/ ProxyAnswer \/ ProxyVerify
  \/ PrepareBlock \/ OperatorClean \/ OperatorDrop \/ Restart

SpecPool == InitPool /\ [][NextPool]_allVars

(***************************************************************************)
(* Properties                                                              *)
(***************************************************************************)

TypeOKPool ==
  /\ pool \subseteq Held
  /\ cache = NoCache \/ cache \subseteq Held
  /\ rows \in [DataRow -> Content]
  /\ asked \in Held \cup {NoTx}
  /\ ran \in BOOLEAN
  /\ ran => asked # NoTx
  /\ adding \subseteq LateTx \X {"verified", "executed", "tested"}
  /\ torn \subseteq Row
  /\ touched \in BOOLEAN
  /\ crossed \in BOOLEAN

\* What is in force on a row: what the primary branch and the pool did to it.
InForce(r) == {t \in TxsOn(top) \cup pool : Ref[t] = r}
LastInForce(r) ==
  {t \in InForce(r) : \A d \in InForce(r) : ~(OnSameRow(d) /\ Base[d] = t)}
InFlight(r) == ran /\ Ref[asked] = r

\* Every row is what the statements of the primary branch and of the pool make of
\* it, one after the other, whatever blocks, branches, cancellations, retries and
\* proxy sessions came in between: each was executed once, and each that is gone
\* was undone.  (Rows where a statement ran out of turn are left out.)
RowsAreReplayed ==
  \A r \in DataRow \ torn :
    ~InFlight(r) =>
      {rows[r]} = IF InForce(r) = {} THEN {Absent} ELSE {RowAfter[t] : t \in LastInForce(r)}

\* The map in memory is the table, unless a command has worked on the table.
CacheIsPool == cache # NoCache /\ ~touched => cache = pool

\* An exchange of branches that does not take place marks every row: an error or
\* a panic ends it, or the branch of the top is found to be part of the new one.
CutShort == Table \in torn

\* What is approved is not pending: a switch that gives old transactions back to
\* the pool leaves out those the new branch has, and neither a retry gets in nor an
\* addition under way that a block has not overtaken.  (A statement can where its
\* row has lost the reference, and a payment after a drop, that can take the record
\* of a spending out of the index, or by a put that came too late.)
PoolNotOnChain ==
  ~CutShort =>
    \A t \in pool \cap TxsOn(top) :
      (t \in SQL => Ref[t] \in torn) /\ (Ins[t] # <<>> => drops > 0 \/ crossed)

\* No two pending transactions spend the same output or follow the same one on a
\* row, whichever handler, session, retry or command brought them, and the map of
\* the daemon is never short of a pending one: conflicts are looked for in the map.
\* (A drop puts transactions back beside the map, and a put that came too late does
\* not look for what came since: see RivalsAreCancelled.)
NoRivals(p) == p.pool \subseteq Known(p) /\ \A t \in Known(p) : Conflicts(p, t) = {}
PoolHasNoRivals == drops = 0 /\ ~crossed => NoRivals(Current)

\* What a pending transaction follows on its row is pending or approved.
PoolHasBases ==
  \A t \in pool : Ref[t] \in DataRow \ torn => Base[t] \in pool \cup TxsOn(top)

\* A switch of branches loses nothing that could stay: what only the old branch
\* had is pending again, or it does not fit to the new branch and the pool.
FitsNow(t) ==
  /\ MustPass(Derived, Current, t, Changing)
  /\ Conflicts(Current, t) = {}
  /\ ~DuplicateKey(t, ValueIn(Current, t))
SwitchKeepsTransactions ==
  [][\A t \in (TxsOn(top) \ TxsOn(top')) \ Coinbase :
       (\E b \in Block : Switch(b)) /\ ~CutShort' => t \in pool' \/ ~FitsNow(t)']_allVars

\* The transactions selected for a block are valid on the top, by a walk over the
\* branch, although they were verified with the indexes and with one another.
SpentBy(S) == UNION {InsOf(t) : t \in S}
ValidAfter(before, t) ==
  /\ t \notin before
  /\ \A x \in InsOf(t) : x[1] \in before /\ x \notin SpentBy(before)
  /\ Base[t] # NoTx => Base[t] \in before
  /\ \A d \in before :
       Ref[t] \in DataRow /\ OnSameRow(d) => Base[d] # Base[t] \/ Ref[d] # Ref[t]
ValidList(list) ==
  \A i \in DOMAIN list :
    ValidAfter(TxsOn(top) \cup Members(SubSeq(list, 1, i - 1)), list[i])
PreparedIsValid ==
  torn = {} /\ drops = 0 /\ ~touched /\ ~crossed =>
    \A S \in Selections(Loaded(Current)) :
      ValidList(Selected(Derived, Loaded(Current), S).list)

\* Additions that overtake one another can leave rivals in the pool, or an approved
\* payment, but no longer than to the next block that takes all of it: no output is
\* spent twice in its list, nothing in it is approved, and what did not get in has
\* been cancelled, but for statements whose rollback fails.
RivalsAreCancelled ==
  drops = 0 /\ ~touched =>
    \A S \in Selections(Loaded(Current)) :
      LET s == Selected(Derived, Loaded(Current), S)
      IN  /\ \A i, j \in DOMAIN s.list : i # j => InsOf(s.list[i]) \cap InsOf(s.list[j]) = {}
          /\ Members(s.list) \cap TxsOn(top) \subseteq SQL
          /\ S = pool => s.p.pool \ SQL \subseteq Members(s.list)
=============================================================================
