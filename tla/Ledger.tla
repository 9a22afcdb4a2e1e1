------------------------------- MODULE Ledger -------------------------------
(***************************************************************************)
(* What a node derives from its blocks: the index of transactions, the     *)
(* unspent outputs and the references of table rows to transactions, and   *)
(* how Node.AddBlock and Node.DropBlock keep them when blocks arrive,      *)
(* branches replace one another, or the top block is dropped.              *)
(*                                                                         *)
(* One call is one step here, made by one goroutine: ChainStore.tla is     *)
(* about the steps inside the block storage, and it shows that between two *)
(* calls the chain table lists the primary branch.  So "in the chain       *)
(* table" is "on the branch of the top" in this module.                    *)
(*                                                                         *)
(* The pool of pending transactions and the rows of the tables themselves  *)
(* are not part of this state: nothing here reads them.                    *)
(***************************************************************************)
EXTENDS ChainQueries, SequencesExt

CONSTANTS
  Tx,       \* the transactions
  Txs,      \* the transactions of a block, in order
  Ins,      \* the inputs of a transaction: <<transaction, output>>, in order
  Outs,     \* the numbers of its outputs that have an address
  Row,      \* the rows of the managed tables
  Ref,      \* the ReferenceID of an SQL transaction: the row, or NoRow
  NoRow,    \* a transaction without a row
  Base,     \* its SQLBaseTX, or NoTx
  NoTx,     \* no transaction
  MaxDrops  \* bound: how often the operator drops the top block

ASSUME Transactions ==
  /\ Txs \in [Block -> Seq(Tx)]
  /\ Outs \in [Tx -> SUBSET Nat]
  /\ Ins \in [Tx -> Seq(Tx \X Nat)]
  /\ NoTx \notin Tx
  /\ NoRow \notin Row
  /\ Ref \in [Tx -> Row \cup {NoRow}]
  /\ Base \in [Tx -> Tx \cup {NoTx}]
  /\ \A t \in Tx : Ref[t] = NoRow => Base[t] = NoTx

\* A second drop can leave a block without its parent, where the walks of this
\* module end in a panic: ChainStore follows that.
ASSUME Bounds == MaxDrops \in {0, 1}

VARIABLES
  stored,  \* the blocks
  top,     \* the block on the top of the primary branch
  links,   \* transactions index: the blocks that hold a transaction
  spent,   \* transactions index: who spends the outputs of a transaction
  utxo,    \* the unspent outputs
  refs,    \* the last transaction of a row
  drops    \* how often a block was dropped

vars == <<stored, top, links, spent, utxo, refs, drops>>

TxsOf(b) == {Txs[b][i] : i \in DOMAIN Txs[b]}
InsOf(t) == {Ins[t][i] : i \in DOMAIN Ins[t]}
InputsOf(b) == UNION {InsOf(t) : t \in TxsOf(b)}
TxsOn(b) == UNION {TxsOf(c) : c \in Branch(b)}

(***************************************************************************)
(* The rules of VerifyBlock that the indexes depend on                     *)
(***************************************************************************)

\* The inputs of the transactions of b are outputs of transactions of its branch
\* or of the same block before them, and nobody else spends them there.
Spendable(b, i) ==
  LET before == {Txs[b][j] : j \in 1..(i - 1)} \cup
                  (IF b = Genesis THEN {} ELSE TxsOn(Prev[b]))
  IN  \A x \in InsOf(Txs[b][i]) :
        /\ x[1] \in before /\ x[2] \in Outs[x[1]]
        /\ \A t \in before : x \notin InsOf(t)

VerifiedBlock(b) ==
  \A i \in DOMAIN Txs[b] :
    /\ Spendable(b, i)
    /\ \A j \in 1..(i - 1) : Txs[b][j] # Txs[b][i]
    /\ b # Genesis => Txs[b][i] \notin TxsOn(Prev[b])

ASSUME VerifiedBlocks == \A b \in Block : VerifiedBlock(b)

\* No rule, but UpdateOnBlockCancel relies on it: a transaction names the outputs
\* of other blocks before those of its own block.
OlderInputsFirst ==
  \A b \in Block : \A t \in TxsOf(b) : \A i, j \in DOMAIN Ins[t] :
    i < j /\ Ins[t][i][1] \in TxsOf(b) => Ins[t][j][1] \in TxsOf(b)

(***************************************************************************)
(* The transactions index                                                  *)
(***************************************************************************)

\* BlockAdded of the index: every transaction gets a link to the block, every
\* input a record of the block that spends it.
LinksAdded(b) ==
  [t \in Tx |-> links[t] \cup IF t \in TxsOf(b) THEN {b} ELSE {}]
SpentAdded(b) ==
  [x \in Tx |->
     spent[x] \cup {[out |-> o[2], block |-> b] : o \in {y \in InputsOf(b) : y[1] = x}}]

\* Mutation of LinksRemoved: the links to a dropped block stay.
LinksKept(b) == links

\* BlockRemoved of the index: every record of an output goes, of any block.
LinksRemoved(b) ==
  [t \in Tx |-> links[t] \ IF t \in TxsOf(b) THEN {b} ELSE {}]
SpentRemoved(b) ==
  [x \in Tx |-> {r \in spent[x] : <<x, r.out>> \notin InputsOf(b)}]

(***************************************************************************)
(* Unspent outputs                                                         *)
(***************************************************************************)

Outputs(t) == {<<t, o>> : o \in Outs[t]}

\* UpdateOnBlockAdd: inputs are removed from the entries of their transactions,
\* the transaction gets an entry with its outputs.
SpendInputs(u, t) ==
  {x \in u : x \notin InsOf(t) /\ x[1] # t} \cup Outputs(t)
UnspentAdded(u, b) == FoldLeft(SpendInputs, u, Txs[b])

\* What the questions about a transaction are answered from: the chain table and
\* the two parts of the index.
Index(chain, lnk, spt) == [chain |-> chain, links |-> lnk, spent |-> spt]

\* GetCurrencyTransactionAllInfo(x, tip): the transaction is found on the branch
\* of the tip, and which of its outputs are spent between its block and the tip.
BlockUnder(idx, x, tip) == ChooseHashUnderTip(idx.chain, idx.links[x], tip)
\* Mutation of UnspentUnder: spendings on every branch count.
UnspentAnywhere(idx, x, tip) == {<<x, o>> : o \in Outs[x] \ {r.out : r \in idx.spent[x]}}

UnspentUnder(idx, x, tip) ==
  LET home == BlockUnder(idx, x, tip)
      spending == {r \in idx.spent[x] : CheckBlockIsInRange(idx.chain, r.block, home, tip)}
  IN  {<<x, o>> : o \in Outs[x] \ {r.out : r \in spending}}

\* The inputs that UpdateOnBlockCancel comes to: it leaves the loop at the first
\* one whose transaction is not found below the block.
Restorable(idx, t, tip) ==
  {i \in DOMAIN Ins[t] : \A j \in 1..i : BlockUnder(idx, Ins[t][j][1], tip) # NoHash}

\* UpdateOnBlockCancel: the entry of the transaction is deleted, the entries of
\* the transactions it spends are written again.
CancelTransaction(at, u, t) ==
  LET back == {Ins[t][i][1] : i \in Restorable(at.index, t, at.tip)}
  IN  {x \in u : x[1] \notin back \cup {t}} \cup
        UNION {UnspentUnder(at.index, x, at.tip) : x \in back}
UnspentCancelled(idx, u, b) ==
  LET at == [index |-> idx, tip |-> Prev[b]]
  IN  FoldLeft(LAMBDA v, t : CancelTransaction(at, v, t), u, Txs[b])

\* Reindex of both: the blocks of the primary branch are visited from the top
\* down, and the transactions of a block from its end.
Downwards[b \in Block] ==
  Reverse(Txs[b]) \o IF b = Genesis THEN <<>> ELSE Downwards[Prev[b]]
OutputsFirst(s, t) ==
  [spent |-> s.spent \cup InsOf(t), unspent |-> s.unspent \cup (Outputs(t) \ s.spent)]
NothingFound == [spent |-> {}, unspent |-> {}]

\* Mutation of UnspentReindexed: the transactions of a block from its beginning.
BlocksDownwards[b \in Block] ==
  Txs[b] \o IF b = Genesis THEN <<>> ELSE BlocksDownwards[Prev[b]]
UnspentByBlocks(b) == FoldLeft(OutputsFirst, NothingFound, BlocksDownwards[b]).unspent

UnspentReindexed(b) == FoldLeft(OutputsFirst, NothingFound, Downwards[b]).unspent

\* The index has the blocks of that branch only: those of the other branches that
\* are stored have lost their entries.
LinksReindexed(b) == [t \in Tx |-> {c \in Branch(b) : t \in TxsOf(c)}]
SpentReindexed(b) ==
  [x \in Tx |-> UNION {{[out |-> o[2], block |-> c] :
                          o \in {y \in InputsOf(c) : y[1] = x}} : c \in Branch(b)}]

(***************************************************************************)
(* References of rows                                                      *)
(***************************************************************************)

\* UpdateOnBlockAdd: the last transaction of the row is this one.
SetRef(r, t) == IF Ref[t] = NoRow THEN r ELSE [r EXCEPT ![Ref[t]] = t]
RefsAdded(r, b) == FoldLeft(SetRef, r, Txs[b])

\* UpdateOnBlockCancel: a row that refers to the transaction gets the previous
\* transaction of the row, when there is one on the primary branch; then the
\* reference is deleted.
BackRef(idx, r, t) ==
  IF /\ Base[t] # NoTx
     /\ Ref[Base[t]] = Ref[t]
     /\ BlockUnder(idx, Base[t], NoHash) # NoHash
    THEN [r EXCEPT ![Ref[t]] = Base[t]]
    ELSE r
DeleteRef(r, t) == [r EXCEPT ![Ref[t]] = NoTx]
CancelRef(idx, r, t) ==
  IF Ref[t] = NoRow THEN r
  ELSE IF r[Ref[t]] # t THEN r
  ELSE DeleteRef(BackRef(idx, r, t), t)
\* Mutation of RefsCancelled: the references of a removed block stay.
RefsNotCancelled(idx, r, b) == r

RefsCancelled(idx, r, b) == FoldLeft(LAMBDA q, t : CancelRef(idx, q, t), r, Txs[b])

(***************************************************************************)
(* The node                                                                *)
(***************************************************************************)

\* A new blockchain: addFirstBlock stores the genesis block and indexes it.
Init ==
  /\ stored = {Genesis}
  /\ top = Genesis
  /\ links = [t \in Tx |-> IF t \in TxsOf(Genesis) THEN {Genesis} ELSE {}]
  /\ spent = [x \in Tx |-> {[out |-> o[2], block |-> Genesis] :
                               o \in {y \in InputsOf(Genesis) : y[1] = x}}]
  /\ utxo = UnspentAdded({}, Genesis)
  /\ refs = RefsAdded([r \in Row |-> NoTx], Genesis)
  /\ drops = 0

\* Every block that is stored is indexed, on whichever branch it is.
Store(b) ==
  /\ b \in Block \ stored
  /\ Prev[b] \in stored
  /\ stored' = stored \cup {b}
  /\ links' = LinksAdded(b)
  /\ spent' = SpentAdded(b)

\* addedToTop
AddToTop(b) ==
  /\ Store(b)
  /\ Prev[b] = top
  /\ top' = b
  /\ utxo' = UnspentAdded(utxo, b)
  /\ refs' = RefsAdded(refs, b)
  /\ UNCHANGED drops

\* Mutation of AddToParallel: blocks beside the primary branch are not indexed.
AddUnindexed(b) ==
  /\ b \in Block \ stored
  /\ Prev[b] \in stored
  /\ Height[b] <= Height[top]
  /\ stored' = stored \cup {b}
  /\ UNCHANGED <<top, links, spent, utxo, refs, drops>>

\* addedToParallel
AddToParallel(b) ==
  /\ Store(b)
  /\ Height[b] <= Height[top]
  /\ UNCHANGED <<top, utxo, refs, drops>>

\* addedToParallelTop: the block is higher than the top, on another branch.
Overtakes(b) == Height[b] > Height[top] /\ Prev[b] # top

\* The primary branch loses its blocks one by one (removedFromTop).
UnspentTakenOff(idx, u, blocks) ==
  FoldLeft(LAMBDA v, c : UnspentCancelled(idx, v, c), u, blocks)
RefsTakenOff(idx, r, blocks) ==
  FoldLeft(LAMBDA q, c : RefsCancelled(idx, q, c), r, blocks)

\* The blocks of the old branch are taken away one by one, then the blocks of
\* the new one are put on.  The chain table holds the new branch already.
SwitchBranch(b) ==
  /\ Overtakes(b)
  /\ ~SideBranchFails(top, b)
  /\ Store(b)
  /\ top' = b
  /\ LET idx == Index(Branch(b), links', spent')
         old == OldBlocks(top, b)
         new == NewBlocks(top, b)
     IN  /\ utxo' = FoldLeft(UnspentAdded, UnspentTakenOff(idx, utxo, old), new)
         /\ refs' = FoldLeft(RefsAdded, RefsTakenOff(idx, refs, old), new)
  /\ UNCHANGED drops

\* GetBranchesReplacement gets no branches and uses the nil block: the process
\* ends, with the block stored, on the top and indexed.
PanicOverGenesis(b) ==
  /\ Overtakes(b)
  /\ SideBranchFails(top, b)
  /\ Store(b)
  /\ top' = b
  /\ UNCHANGED <<utxo, refs, drops>>

\* BlockRemoved, after Blockchain.DeleteBlock.  (Bound: not of the genesis block.
\* The command drops it as well, see ChainStore; then there is no top and no branch
\* that the tables could be compared with.)
DropBlock ==
  /\ drops < MaxDrops
  /\ top # Genesis
  /\ stored' = stored \ {top}
  /\ top' = Prev[top]
  /\ utxo' = UnspentCancelled(Index(Branch(Prev[top]), links, spent), utxo, top)
  /\ links' = LinksRemoved(top)
  /\ spent' = SpentRemoved(top)
  /\ refs' = RefsCancelled(Index(Branch(Prev[top]), links', spent'), refs, top)
  /\ drops' = drops + 1

Next ==
  \/ \E b \in Block : \/ AddToTop(b) \/ AddToParallel(b)
                      \/ SwitchBranch(b) \/ PanicOverGenesis(b)
  \/ DropBlock

Spec == Init /\ [][Next]_vars

(***************************************************************************)
(* Properties                                                              *)
(***************************************************************************)

TypeOK ==
  /\ stored \subseteq Block
  /\ top \in stored
  /\ links \in [Tx -> SUBSET stored]
  /\ \A x \in Tx : \A r \in spent[x] : r.block \in stored /\ r.out \in Outs[x]
  /\ utxo \subseteq UNION {Outputs(t) : t \in Tx}
  /\ refs \in [Row -> Tx \cup {NoTx}]
  /\ drops \in 0..MaxDrops

\* Reference: what the transactions of a branch leave unspent.
UnspentOn(b) ==
  (UNION {Outputs(t) : t \in TxsOn(b)}) \ (UNION {InsOf(t) : t \in TxsOn(b)})

\* Reference: the transaction of a branch that worked on a row last.
Places(b, r) ==
  {p \in UNION {{c} \X DOMAIN Txs[c] : c \in Branch(b)} : Ref[Txs[p[1]][p[2]]] = r}
NotAfter(p, q) == Height[p[1]] < Height[q[1]] \/ (p[1] = q[1] /\ p[2] <= q[2])
LastOfRow(b, r) ==
  {Txs[q[1]][q[2]] : q \in {x \in Places(b, r) : \A p \in Places(b, r) : NotAfter(p, x)}}

\* The unspent outputs are those of the primary branch, whatever branches with
\* common and conflicting transactions replaced one another.
UnspentIsPrimaryBranch == drops = 0 => utxo = UnspentOn(top)

\* The index holds every transaction of every stored block, and every spending.
IndexIsComplete ==
  /\ \A t \in Tx : links[t] = {b \in stored : t \in TxsOf(b)}
  /\ drops = 0 =>
       \A x \in Tx : spent[x] = {r \in [out : Outs[x], block : stored] :
                                   <<x, r.out>> \in InputsOf(r.block)}

\* A row never refers to a transaction that another one has followed, or that is
\* not on the primary branch.
RefsAreLast ==
  drops = 0 => \A r \in Row : refs[r] # NoTx => refs[r] \in LastOfRow(top, r)

\* Dropping the top block gives back exactly what it spent and takes away what
\* it made, if the unspent outputs were right before.
DropRestores ==
  [][DropBlock /\ utxo = UnspentOn(top) => utxo' = UnspentOn(top')]_vars

\* A reindex makes the unspent outputs those of the primary branch and has the
\* index answer by it, also where a drop had left either of them wrong.
ReindexRepairs ==
  /\ UnspentReindexed(top) = UnspentOn(top)
  /\ \A x \in TxsOn(top) :
       UnspentUnder(Index(Branch(top), LinksReindexed(top), SpentReindexed(top)), x, top)
         = UnspentOn(top) \cap Outputs(x)

\* The searches that use heights and the chain table find what a walk over the
\* branches finds, for every tip and every group of stored blocks in question.
QueriesAgree ==
  \A tip \in stored :
    /\ \A hashes \in SUBSET stored :
         (\A x, y \in hashes : x \in Branch(y) => x = y) =>
           ChoiceAgrees(Branch(top), hashes, tip)
    /\ \A h, bottom \in stored : RangeAgrees(Branch(top), h, bottom, tip)
    /\ \A side \in stored : ReplacementAgrees(side, tip)

\* The claim of the comment in Blockchain.AddBlock: when another branch becomes
\* the main branch, the unspent outputs follow it.  Here also after a drop.
UnspentFollowsTop == utxo = UnspentOn(top)

\* The claim of the comment in UpdateOnBlockCancel: the reference of a row goes
\* back to the previous transaction of the row, so a row that the primary branch
\* has written always has a reference.
RefsAreKept == \A r \in Row : LastOfRow(top, r) # {} => refs[r] # NoTx
=============================================================================
