# OurSQL node: a TLA+ verification project

OurSQL replicates a MySQL database between nodes through a blockchain: every
change of a managed table is an SQL transaction, transactions are collected into
blocks by a proof of work, and every node executes the transactions of the
longest branch it knows. This directory models the node (Go code under
`src/node`) in TLA+, checks the models with TLC on small instances and proves
the main properties of the block storage, of what is derived from the blocks, of
the pending transactions, of the synchronisation of nodes and of the server's
goroutines with TLAPS for all instances.

## 1. The system

| Component | State | Operations | Talks to |
|---|---|---|---|
| Block storage (`node/blockchain/manager.go`, `iterator.go`, `node/database/blockchain.go`) | table of blocks, record of the top, chain table (doubly linked list of the primary branch) | `AddBlock`, `UpdateChainOnNewBranch`, `DeleteBlock`, queries about branches | MySQL, one autocommitted statement per write |
| Node (`node/nodemanager/node.go`, `blockchain.go`) | two mutexes per Node object | `AddBlock`, `DropBlock`, `ReceivedFullBlockFromOtherNode`, `TryToMakeBlock`, `ReceivedNewTransaction`, `Clone` | storage, transactions manager, block maker, communication |
| Transactions index (`node/transactions/index.go`) | transaction -> blocks, transaction -> spent outputs | `BlockAdded`, `BlockRemoved`, `Reindex`, lookups below a tip | block storage |
| Unspent outputs (`unspent.go`) | transaction -> outputs not spent | `UpdateOnBlockAdd`, `UpdateOnBlockCancel`, `Reindex`, choice of outputs, balances | index |
| Row references (`rowsreferences.go`) | row -> its last transaction | `UpdateOnBlockAdd`, `UpdateOnBlockCancel` | index |
| Pool (`pending.go`, `transactions/manager.go`) | pending transactions in the database and in a process-wide map | add, verify, cancel, choose for a block, detect conflicts, prepare payments | SQL state, unspent outputs |
| SQL state (`node/dbquery`, `consensus/querymanager.go`) | rows of the tables | execute, roll back, repeat cancelled transactions | pool |
| Database proxy, query filter (`lib/dbproxy`, `server/queryfilter.go`) | per session the transaction of the last query | request, execution by the server, response | pool, block maker |
| Block maker (`consensus/blockmaker.go`, `server/blocksmaker.go`) | a channel of 100 signals, transactions of the block under work | `run`, `NewTransaction`, `Stop`, prepare, complete, verify | node, pool |
| Synchronisation (`server/handle.go`, `transit.go`, `changeschecker.go`, `nodemanager/communication.go`) | per sender a list of hashes to load (`nodeTransit`), the verified contacts | version, inventory, block and transaction messages, polling | other nodes |
| Server, daemon (`server/server.go`, `daemon.go`) | goroutines, stop channels, the pointer to the block maker | start, accept, stop | all of the above |
| Command line (`node/nodecli.go`) | none; works on the same database in a process of its own | `dropblock`, `canceltransaction`, `unapprovedtransactions -clean`, `send` | storage, pool |
| List of nodes, parser, client, wallets | contacts, keys | | |

What is hard here:

* **Interleaving.** Each connection is a goroutine with a clone of the Node; the
  block maker and the checker of changes are goroutines too. `Node.Clone` ends with
  `Init`, which makes new mutexes, so the locks of `AddBlock` exclude only
  goroutines that share a Node object.
* **Crashes.** No write is in a database transaction. `AddBlock` makes up to
  `2 + 2 * (length of both branches)` writes; the process can end between any two.
* **Failing halves.** Errors of the chain table and of the indexes are logged or
  dropped, and the block stays.
* **Branches.** The indexes hold data of all branches; what is on the primary branch
  is found by heights and by the chain table, which holds the *new* branch already
  while the old one is cancelled block by block.
* **Messages.** A message is a connection of its own and is not repeated when it fails;
  several handlers of a node work on the list of one sender, and the poll loads the
  same blocks beside them.
* **Rows ahead of blocks.** A statement runs when its transaction enters the pool. A block
  skips what is pending, a conflict or a replaced branch undoes it by a rollback statement
  that was written when the transaction was prepared.
* **Channels and stopping.** Connections, proxy sessions, the checker and the stop send to one bounded channel whose
  owner is stopped, closed and forgotten while they may still send.
* **Operators.** `dropblock` and the commands about the pool run in another process, take
  no lock, and do not see the daemon's map of pending transactions.

`PROJECT.json` lists the hazards line by line, with the properties that cover them.

What makes the components correct:

* block storage: the top is the first block that reached the greatest height, never
  goes back, stored blocks are connected, the chain table is the primary branch;
* indexes: they are a function of the primary branch (or of all stored blocks),
  whatever the order in which blocks arrived;
* queries: they agree with a plain walk over the parents;
* pool: the rows are the result of the primary branch followed by the pool, nothing is
  both pending and approved, what a switch of branches takes away is pending again, the
  transactions selected for a block are valid in it;
* payments: a payment can be prepared exactly when the money is there, and balance,
  history and unspent outputs agree;
* server: what was announced to the block maker is tried, a stop ends and leaves nobody
  working, no goroutine panics in a send while the server works;
* synchronisation: a node that is behind catches up and a transaction reaches all nodes,
  whatever is lost for a while, no list of blocks is left behind, and the messages come to an end.

## 2. Modules

| Module | Models |
|---|---|
| `LongestChain` | What block storage promises: atomic adds, the top is the first highest block |
| `ChainStore` | `Node.AddBlock` and `Blockchain.AddBlock` statement by statement, `UpdateChainOnNewBranch`, crashes, `DeleteBlock` statement by statement from another process |
| `ChainStoreProofs` | Theorems about `ChainStore` |
| `ChainQueries` | `ChooseHashUnderTip`, `CheckBlockIsInRange`, `GetSideBranch`, `GetBranchesReplacement` as operators, with reference definitions |
| `Ledger` | `Node.AddBlock`/`DropBlock` over the index, the unspent outputs and the row references; extends `ChainQueries` |
| `LedgerProofs` | Theorems about the operators of `ChainQueries`, then about `Ledger` |
| `Pool` | The pending transactions and the rows, over `Ledger`: arrival, proxy sessions, blocks that come and go, selection for a block, commands, restarts |
| `Payments` | Payments prepared from unspent and pending outputs, balances, histories, the command `send`; extends `Pool` |
| `PoolProofs` | Theorems about the pool of `Pool`, under the steps of `Payments` |
| `RowsProofs` | Theorems about the rows of `Pool` and about what a switch gives back; extends `PoolProofs` |
| `PaymentsProofs` | Theorems about `Payments`; extends `RowsProofs` |
| `Server` | The goroutines of a node and their channels: start, accept loop, block maker, checker, connections, proxy sessions, stop |
| `ServerProofs` | Theorems about `Server` |
| `Sync` | Several nodes, each with the storage of `LongestChain`: version, inventory, block and transaction messages, transit lists, announcements, polling, faults and restarts |
| `SyncProofs` | Theorems about `Sync` |
| `Folding` | Lemmas that know nothing of the node: induction on numbers and along a tree; what a fold over a sequence and a recursion along a tree compute |
| `MCChainStore`, `MCLedger`, `MCPool`, `MCServer`, `MCSync` | The instances for TLC |

### ChainStore

`blocks`, `top`, `inChain` and `next` are the database. The previous hash of a chain
record is always the `PrevBlockHash` of the block, so only the next hash is kept.
Per goroutine `pc` says where it is, `cur` is the block, `last` the top it has read,
`at`, `merge` and `fresh` are the iterator/`remHash`, `mergePointHash` and `newBlocks`
of `UpdateChainOnNewBranch`. Every action is one read or one write of the database
with the local computation around it. The height test is three steps: the top hash is
read (`ReadTop`), then its block (`ReadTopLower`, `ReadTopNotLower`, `ReadTopFails`), then
the new top is saved. `AddToChain` and `RemoveFromChain` are a read and two writes
each (`Link`/`LinkPrev`/`LinkOwn`, `Unlink`/`UnlinkPrev`/`UnlinkOwn`,
`Relink`/`RelinkPrev`/`RelinkOwn`), with their failures (`LinkFails`, ...). The two
records that `RemoveFromChain` reads are one read here, and so are the tests of
`CheckBlockState`. A mutex is taken in `Start` and released by the
deferred unlock (`Return`). `VerifyBlock` is only its outcome here: it may refuse any
block, and it refuses all when the top block is missing. `WalkPanics` is the nil
pointer in the walk when a block is missing: the process ends, and like a `Crash` it
is started again.

`DropBlock` is the command `dropblock`, a process of its own with `cmd` as its place and
`victim` as the block it has read: `DropRead`, `DropSave` (the top hash becomes the
parent's), `DropDelete`, then `RemoveFromChain` with a read and two writes, whose error is
dropped. Its steps come between those of `AddBlock`, no mutex keeps them apart, and it can
die between any two (`DropDies`). It drops any top, the genesis block too ("This was last
block!"): then there is no top and nothing can be added any more.

### ChainQueries and Ledger

`chain` (the set of hashes in the chain table) is the branch of the top: that is what
`ChainIsPrimaryBranch` establishes about `ChainStore`. A transaction has inputs
(`<<transaction, output>>`), outputs, a row and a base transaction. The blocks obey
the rules of `VerifyBlock` that the indexes rely on (`VerifiedBlocks`, an ASSUME that
TLC evaluates on the instance). The actions are the results of `AddBlock`:
`AddToTop`, `AddToParallel`, `SwitchBranch` (`addedToParallelTop` with the replacement
of branches) and `PanicOverGenesis` (the same when `GetSideBranch` refuses), and
`DropBlock`. An `Index` is what a question about a transaction is answered from: the chain
table and the two tables of the index, of the moment at which it is asked. `spent` keeps `<<output, block>>` per spending; `BlockRemoved` removes
them by output only, as the code does. `UnspentCancelled` stops at the first input
that is not found, as the code does. `DeleteRef` after `BackRef` is the fall-through
of `rowsToTransactions.UpdateOnBlockCancel`. `Reindex` is not an action: `ReindexRepairs`
compares, in every state, what it would build with what the blocks added one by one have
built. (It drops the index entries of stored side branches, which the comparison leaves
out; a switch to such a branch after a reindex is therefore not covered.)

### Pool and Payments

`Pool` puts its variables beside those of `Ledger` and its actions call the actions of
`Ledger`: `BlockToTop` is `AddToTop` with `rollbackConflictingFromPool`, the execution of
the statements that were not pending and the deletion from the pool; `Switch` is
`SwitchBranch` with the rollbacks of the old blocks, the statements of the new ones and
`RepeatTransactionsFromCanceledBlocks`. `SwitchAborts` is the same when a rollback fails
(`node.go:504-509` returns in the middle). A *row* is a value: absent, or a function from
columns to the transaction that wrote them, so that an update of one column, its rollback
and the row as it was are told apart. `RowBefore(t)` is the row the rollback statement was
written from. The pool is a set; what depends on the order of Go's map is a choice: the
base found for a new transaction (`BasesInPool`), the order of cancellations
(`CancelOrders`), the subset selected when there are more than a block holds
(`Selections`). `cache` is the map in memory, `NoCache` when it is nil or was given up.
A proxy session has three steps, `ProxyAsk`, `ProxyRun`, `ProxyAnswer`; other transactions
and blocks come between them.

The addition of a transaction is there twice. `Added`, in `Receive`, `Resubmit`, `ProxyAnswer`,
`Repeated` and `Send`, is the one that nothing overtakes. The other one is four steps of
`AddTransactionToPool`, for each transaction under way in `adding`: `AddVerify`
(`blockmaker.go:448`, or `ProxyVerify` at the end of a session), `AddRun` (the execution, or
`AddFails`), `AddTest` (`DetectConflictsForNew`, or `AddRefused`) and `AddPut`. The code holds no lock
over any two of them, so whatever another handler, the checker, the block maker or a command does
comes between them: rivals pass the test before either is put, and a block approves the
payment that is put afterwards. `crossed` is a history variable that says that a put came too late: what
it puts would not pass the verification or the test any more. The puts of the retries of a switch,
of `dropblock` and of `send` stay whole, and so does a put into the table and the map.

`torn` is a history variable: the rows where a statement ran at a time when something that
follows it, or competes with it, was in force on the row already. Examples are an answer of the
proxy that is refused after the query has run (`queryfilter.go:131`, "Rollback? TODO"), a
conflict found after the execution (`manager.go:521`), a statement whose addition others
could overtake, a row whose reference was lost
(`ledger_refs`), an exchange of branches that ended half way. The code does not claim that such rows are right,
and `RowsAreReplayed` claims nothing for them; all other rows must be exact. `touched` marks
a command that changed the table of pending transactions beside the map of the daemon.
`RowsAreReplayed`, `PoolNotOnChain` and the rest name these exceptions in their text, so
they can be read as the list of what the code does not repair.
`RivalsAreCancelled` is about the other side of that list: rivals and approved payments that
an overtaken addition has put into the pool stay there at most to the next block that is prepared
of the whole pool.

`Payments` adds owners and values of outputs. A value is a number of smallest units, since
amounts are rounded to them when a payment is prepared. The choice of outputs (smallest
first, then pending ones in the order of the map), the change, the pending balance and the
history are operators over the same state; `Send` is the command of that name. Two
oddities of the code are kept and named in the properties: a remainder of exactly one
smallest unit makes a payment that the node itself refuses (`manager.go:904` against
`transaction.go:231`), and a pending transaction whose input has gone makes the balance an
error until the next block is prepared, because a block's transfers are not compared with
the pool (`manager.go:391`).

### Server

A step is what a goroutine does between two points where another one can see it. `main` is
the place of the main goroutine in `DaemonizeServer`/`StartServer`/`stopAllSubroutines`,
`sig` that of the goroutine that waits for the signal of the system, `maker` and `checker`
those of the two routines, `at[t]` that of the connection, session or pull that brings
transaction `t`. `queue` and `open` are the channel of the block maker, `obj` the pointer to
it in the server, which `stopAllSubroutines` sets to nil; the filter of the proxy has a
pointer of its own. `NewTransaction` sends, drops the signal when the channel is full, or
panics when the pointer is nil or the channel closed. An attempt of the block maker is
`Prepare`, `Lock` (the callback that stores the list), `AddBlock` and `SendBlock`, or
`TooFew` and `Announce`; blocks of other nodes come between them (`OtherBlock`).
The stop is the code's order: proxy, checker, block maker, confirmation. `SendVoid` is the
connection that wakes the accept loop; it is refused when nobody listens, and `VoidIsLost`
is its failure while the server listens.
Folded together are the channel of the start's result (`SendResult`, whose reader
always reads). The pool is a set of identifiers and the chain a height with the set
of approved transactions: `Pool` and `ChainStore` model what is behind them.
Verification, cancellations and the exchange of branches are left to `Pool`.

### Sync

`stored[n]` and `best[n]` are the pair of variables of `LongestChain`, one per node;
`Store` is its add, whole because `ChainStore` implements it (with one mutex; what
happens with several is `chain_clones`). The lists a node can give are taken from
`Path[best[n]]`, which is what the chain table holds by `ChainIsPrimaryBranch`.
`transit[n][m]` is the list of the `nodeTransit` of `n` for the sender `m`, and
`loops[n][m]` counts the handlers of `n` that are in the loop over it; a `Turn` is one
iteration, from `ShiftNextBlock` to the test of the count, so other handlers come
between two iterations. `handleInv` appends a list and enters the loop, `handleBlock`
adds the block, announces it and enters the loop too. `Announcement` is
`SendBlockToAllSync`: the other mode needs the mark that another node has connected,
and `Clone` makes a fresh `NodeNet` in which it is not set (only `handleVersion` marks
the original node, which uses it for the length of the polling interval). The
questions of an announcement (`SendCheckBlock`) are answered in the step that adds the
block; the blocks themselves travel as messages. A polling round keeps the hashes it
started with (`tops`), the contacts still to ask (`todo`) and the answer it works
through (`list`); every block is a step. A block is made in two steps because the top
may move during the proof of work.

`known[n]` are the transactions that `n` has pending or on its branch, which is what
`GetIfExists` asks: a transaction is in the pool as long as the branch does not carry it, and a
replaced block gives its transactions back, which is what `SwitchKeepsTransactions` establishes
about `Pool`. `Submit` is the arrival from a client. Its announcement is a choice, because
the block maker drops the signal when its channel is full, or makes a block instead;
it is sent in the same step, and the messages can be late. A received or pulled transaction
is not announced again (`DoNewBlock`). The answer to a poll leaves out the transactions of the
block under work (`Offered`, `Locked`); the poller loads them after the blocks (`PollTx`), one by
one. `Txs[b]` are those of a block that can be made of them. All of them are transactions
every node accepts, and there are fewer than the 1000 from which an answer is
filtered by time.

A fault is a failed connection (`Lose`, `PollFails`), a received block whose adding
fails (`BlockFails`), or a restart, which keeps the stored blocks and the pool;
`hurt` remembers the nodes whose lists it may have left waiting. Contact lists
are fixed, and the blocks of honest nodes pass `VerifyBlock`.

## 3. Runs

| Run | Instance | Shows |
|---|---|---|
| `chain_add` | 7 blocks, 2 goroutines on one Node, no faults | `ChainIsPrimaryBranch`, `IsLongestChain` (refinement) |
| `chain_faults` | 7 blocks, 1 goroutine, 2 crashes, 1 `dropblock` | `TypeOK`, `WalkFindsItsBlocks`, `TopLagsOnlyByCrashes`, `TopOnlyRises`, `EveryAddEnds` |
| `chain_clones` | 2 goroutines on two Node objects | violation of `TopOnlyRises` |
| `ledger` | 8 blocks, 12 transactions, 1 row, 1 drop | `TypeOK`, `UnspentIsPrimaryBranch`, `IndexIsComplete`, `ReindexRepairs`, `RefsAreLast`, `QueriesAgree`, `DropRestores` |
| `ledger_inputs` | an input of the own block before an older one | violation of `UnspentIsPrimaryBranch` |
| `ledger_drop` | as `ledger` | violation of `UnspentFollowsTop` |
| `ledger_refs` | as `ledger`, no drop | violation of `RefsAreKept` |
| `pool` | 6 blocks, 10 transactions of which 7 can be pending, 1 row, 2 keys, 1 drop | `TypeOKPool`, `PoolNotOnChain`, `PoolHasNoRivals`, `RivalsAreCancelled`, `RowsAreReplayed`, `CacheIsPool`, `PoolHasBases`, `PreparedIsValid`, `PaymentsAreFunded`, `BalanceIsAvailable`, `HistoryIsBalance`, `StatementsArePrepared`, `SwitchKeepsTransactions` |
| `server` | 3 transactions (client, proxy, pulled), channel of 1, blocks of 2, 1 block of others or own | `TypeOKServer`, `PanicOnlyInStop`, `ConfirmedIsIdle`, `NothingLost`, `OwnBlockIsNew`, `EveryoneIsTried`, `StopEnds` |
| `sync` | 2 nodes, a fork and a longer branch, 1 transaction at the node that is behind, 1 block to make of it at the other, 1 fault | `TypeOK`, `AskedIsStored`, `ListIsServed`, `Silence`, `CatchUp`, `TxSpreads` |
| `sync_version` | 2 nodes, one two blocks ahead has just started, no poll | violation of `VersionLoadsTheRest` |
| `sync_poll` | 3 nodes that poll, no verified contact | violation of `CatchUp` |

**Bounds.** The tree of `MCChainStore` has two branches from the genesis block and a
fork in the longer one, so the primary branch can be replaced twice, in both
directions of length, over merge points at and above the genesis block. Two crashes
allow a crash in the recovery from a crash. One `dropblock` is enough to get a block
without a parent, a top that is not stored and no top at all, because its statements come
between those of `AddBlock` (873,000 states; with two commands there are more than four
million). `MCLedger` has a common transaction of two
branches, two pairs of conflicting ones, chains of transactions inside a block, and a
row written before and after the fork; one drop, because after a second one blocks
can lose their parents, and not of the genesis block, because without a top there is no
branch to speak of. `ChainStore` follows both. `ledger` has no deadlock check:
when all blocks are stored nothing is left to do. In `chain_add` and `chain_faults`
a goroutine can always be given a block again, and deadlock is checked.

`MCPool` has one row that is inserted, updated, deleted and inserted again, two
transactions with the same base, two that spend the same output and one that spends an
output of the first of them, so that each kind of conflict, a chain of cancellations and a
payment from pending outputs occur. Its tree has a longer branch that lacks
transactions of the shorter one and one that has other ones. `CacheLimit = 3` lets the map be given up,
`MaxTxs = 2` leaves pending transactions out of a block. `MaxDrops = 1`, the two
transactions of `ProxyTx`, and commands only while the daemon's map is not yet stale and before a drop keep
the instance small: a command needs no second one to do its harm. Of the additions in
steps there is one at a time (`MaxLate = 1`), of a statement or of a payment (`LateTx`); its rivals come whole
and in between, and it begins on a node that no drop, mark or command has disturbed, beside
which commands do not come (`Busy = FALSE`). The theorems hold for any number of them and
with all of it at once. With these bounds `pool` has 168,711 states. `Amount` has a sum that
one output covers, one that leaves exactly one unit and one that takes all. When all
blocks are stored, and commands have emptied the pool, nothing may be left to do: there is no deadlock check.

In `server` the channel holds one signal, so that signals are dropped and the exit signal
waits for room; two transactions make a block, so an attempt is made with too
few; a block of others can take the place of the one under work (`MaxTip = 1`: the top
moves once, which is what makes the block under work late). The system stops when the process ends.

In `sync` the pages are small (`ShortPage = 1`, so a list below a block has two hashes;
`UpdatePage = 3`; a poll sends two hashes) so that a branch of three blocks needs
several polls and the list of announced blocks is cut. The assumption
`UpdatePage > TopPage + 1` is 50 > 6 in the code: with a smaller page a poll would
return the same blocks of a side branch for ever. The fork is one block deep, within
the hashes a poll sends; with a deeper one the list of the poll starts at the top, whose
parent is missing, and nothing is loaded ("no solution yet" in
`processBlocksFromOtherNode`). One fault is enough for each message of an exchange to
be the lost one, and a restart sends versions. The transaction is sent to the node that is
behind (`Client = {n1}`), and the block made of it is one of the other node
(`Miner = {n2}`), so it travels in a message, in the answer to a poll and back in a block.
When all blocks are made and both nodes
poll, the system never stops, and deadlock is checked.

**Fairness.** `WF(AddStep(a))` for every goroutine: a goroutine inside `AddBlock` waits
for nothing but the database, so the scheduler lets it go on. Nothing forces blocks to
arrive, or crashes and drops to happen. `EveryAddEnds` uses it. In `Sync`: `WF(Deliver)`,
since every message has a goroutine; `WF(Turn(n, m))`, since the loop waits for
nothing; `WF(Poll(n))`, since the checker's ticker runs for ever; and
`WF(CompleteBlock(n))`, since a proof of work ends. Nothing is assumed of faults except
their bound, and no block has to be made. `Silence`, `CatchUp` and `TxSpreads` use these. In `Server`:
`WF(MainStep)`, `WF(DaemonStep)`, `WF(CheckerStep)`, `WF(MakerStep)`, `WF(PutIntoPool(t))`
and `WF(SignalMaker(t))`, since the scheduler runs every goroutine and a proof of work, a
statement and a call to another node return. No connection, signal of the system, refusal,
pull or failure has to happen, and `Accept` needs no fairness: `AcceptAndStop` belongs to
`MainStep`. `EveryoneIsTried` and `StopEnds` use these.

**What the violations show** is in `PROJECT.json` under "findings": the mutexes that
`Clone` replaces; the loop over inputs that ends early; the replacement of branches
that fails on the genesis block after a drop; the reference that is set and deleted; the
list that is sent with the top first, so that a version leaves the other node one block
behind; the list of contacts to poll that repeats the last one. `CatchUp` holds in
`sync` because there each node's last contact is the other one, or it has announced
a block to it, and polls make up for what versions leave out.

**What `pool` and `server` show beyond their properties.** Their side
conditions name what the code leaves open: the rows of `torn`; a prepared statement whose base
is wrong when three pending transactions are about one row, since the search
for it reads a map (`StatementsArePrepared`; the comment at `manager.go:1008` promises the
transaction where the row "was last updated"); a selection for a block that may leave out a
transaction and cancel those that depend on it (`manager.go:146-166`); a send to the block
maker after the stop has begun, which panics (`PanicOnlyInStop`: `blocksmaker.go:95`,
`server.go:395`); a signal of the system before the server listens, whose wake-up call is
refused, so that `StopEnds` starts from a listening server; an accept that
fails, after which the process ends without stopping anything (`server.go:297`); a
wake-up request that fails, which is only logged (`daemon.go:315`), so that the server
runs until somebody connects (`StopEnds`). A transaction for which the attempt failed, or
whose signal was dropped, is not announced on its own any more; nothing is claimed
of that in `Server`, and `Sync` lets the announcement be left out.

`UnspentIsPrimaryBranch` and `DropRestores` hold in `ledger` because there no transaction
names an output of its own block before an older one (`OlderInputsFirst`); `ledger_inputs`
shows that the condition is needed, and the theorems about them assume it.

**Crashes and the chain table.** `ChainIsPrimaryBranch` is only claimed without faults.
After a crash between `SaveTopHash` and `AddToChain` the top has no chain record, and
later calls of `AddToChain` and `RemoveFromChain` fail and are logged, so the table
is not repaired by later blocks (until a side branch that meets it replaces the
primary one). The properties of `chain_faults` are those that survive.

## 4. Proofs

`ChainStoreProofs` proves, for every block tree, every set of goroutines and every
bound on crashes and drops:

| Theorem | States | Assumes |
|---|---|---|
| `TypeCorrect` | `Spec => []TypeOK` | nothing |
| `TopLagBounded` | `[]TopLagsOnlyByCrashes` | one Node object |
| `WalkIsSafe` | `[]WalkFindsItsBlocks` | one Node object |
| `ChainTableCorrect` | `[]ChainIsPrimaryBranch` | one Node object |
| `TopRises` | `Spec => TopOnlyRises` | one Node object |
| `Refinement` | `Spec => IsLongestChain` | one Node object, no crash, no drop |

The assumption "one Node object" is what `Clone` breaks; `chain_clones` shows that it
is needed.

The argument is one inductive invariant, `IInv`, in four parts, because the later parts
need the earlier ones:

1. `TypeInv`: types, and what is known of the locals of a goroutine at each `pc`.
2. `Serial`: a goroutine that is not idle holds the mutex of its Node. With one Node
   object at most one goroutine is inside `AddBlock`, so a step of one finds the
   others idle.
3. `StoreInv` (no command was given): stored blocks are connected, the new block's parent is stored,
   the iterator stands on a stored block, the top lags by at most the crashes.
4. `ChainInv` (no fault): where the chain table stands at each `pc`. The table lists
   the path to some block `t`: the old top until `SaveTop`, then a block that goes
   down with `Unlink` to the merge point and up with `Relink`, while `fresh` is the
   path from there to the new top, highest first. The lemmas `ListsAppend` and
   `ListsCut` say what the two writes of `AddToChain` and `RemoveFromChain` do to
   such a list.

The plain property is not inductive: in the middle of a replacement the table is
neither branch, and only the phase tells what is missing. `Refinement` uses the map
`stored <- blocks \ Pending, best <- top`, where `Pending` is the block of a goroutine
between `PutBlock` and its decision about the top.

`ServerProofs` proves, for every set of transactions, every capacity of the channel, every
size of a block and every height:

| Theorem | States | Assumes |
|---|---|---|
| `ServerTypeOK` | `SpecServer => []TypeOKServer` | a capacity of at least 1 |
| `NoPanicInWork` | `[]PanicOnlyInStop` | nothing more |
| `StopIsComplete` | `[]ConfirmedIsIdle` | nothing more |
| `ListIsOfTheBlock` | `[]LockedIsMinted` (no run checks it) | nothing more |
| `PoolIsKept` | `[]NothingLost` | nothing more |
| `NothingTwice` | `SpecServer => OwnBlockIsNew` | nothing more |

The inductive invariant is `FullInv`: the types, `StopInv` and `WorkInv`, with the last two
properties themselves. `StopInv` orders the start and the stop: the phase of stopping has a
reason (`StopHasReason`), nothing runs before the start (`InitIsQuiet`), only `Stop` sends
the exit signal and only it closes the channel (`ChannelInv`), where the routines
are in each phase of the main goroutine (`PhaseInv`), and what follows for a panic
(`PanicInv`). Without `ChannelInv` a closed channel could be met while the server works;
without `PhaseInv` the checker could outlive the block maker. `WorkInv` says of a block under
work that its transactions are pending as long as its base is the top, which is why adding
it loses nothing and approves nothing twice.

The first part of `LedgerProofs` proves what the searches of the block storage find, for every tree of
blocks, every branch in the chain table and every question:

| Theorem | States |
|---|---|
| `ChoiceIsRight` | `ChooseHashUnderTip` finds the block on the branch of the tip (`ChoiceAgrees`) |
| `RangeIsRight` | `CheckBlockIsInRange` is the walk from the tip (`RangeAgrees`) |
| `ReplacementIsRight` | `GetBranchesReplacement` is the two parts above the fork (`ReplacementAgrees`) |

The rest of `LedgerProofs` proves, for every tree, all transactions that obey the rules of `VerifyBlock`,
all rows, and at most one drop:

| Theorem | States | Assumes |
|---|---|---|
| `LedgerTypes` | `Spec => []TypeOK` | nothing |
| `IndexIsAlwaysComplete` | `[]IndexIsComplete` | nothing |
| `QueriesAlwaysAgree` | `[]QueriesAgree` | nothing |
| `RefsAreAlwaysLast` | `[]RefsAreLast` | nothing |
| `ReindexAlwaysRepairs` | `[]ReindexRepairs` | nothing |
| `UnspentIsAlwaysRight` | `[]UnspentIsPrimaryBranch` | `OlderInputsFirst` |
| `DropAlwaysRestores` | `Spec => DropRestores` | `OlderInputsFirst` |
| `UnspentCancelledIsRight`, `ExchangeIsRight` | what taking a block off, and an exchange of two branches, make of the unspent outputs | `OlderInputsFirst` |

These are all the properties of the run `ledger`. `MaxDrops` is 0 or 1 in them as in the
module: a second drop can leave a block without its parent.

*Induction over data.* The definitions are recursive functions along the branches and folds
over the transactions of a block and over the blocks of a branch. The library's induction
takes a predicate as a parameter, which the provers cannot instantiate. `Folding` states it
with sets instead: `UpTo` (a set that has 0 and with every number the next one, up to a bound)
and `AlongTree` (a set of blocks that has the genesis block and with the parent the block),
both from the least element of a set of numbers. `Folding` has one operator as its constant
too, and is instantiated for each fold of `Ledger` and `Pool`; since an instance repeats all that its
module extends, `Folding` extends next to nothing and writes the fold out. `FoldsStepwise` gives a fold as the last of a
series of values, each made from the one before by a step, and `FoldReaches` lets a proof
give a set of allowed values for each step and show that a step stays in them. `AlongExists`
says that a recursion along a tree has the value its equation gives; that is how `Branch`,
`Walk`, `Downwards` and the meeting point of two branches become equations.

*The searches.* The induction along the tree shows that `Walk[b]` has one block of each height,
the next one the parent (`WalkShape`), and that branches which share a block share all that is
under it. The loop of `GetSideBranch` goes down two branches at once; it is an induction along
the pairs of blocks (`LockstepMeets`).

*The invariant.* `LedgerInv` is `TypeOK`, `StoredTree` (stored blocks have their branches, and
before a drop none is higher than the top) and `IndexIsComplete`. The index answers by the
stored blocks of all branches, so a lookup under a tip is right only if every block of the
tip's branch is stored and in the index: without `StoredTree` no step that asks the index
keeps anything.

*Unspent outputs.* `UnspentIsPrimaryBranch` is inductive beside `LedgerInv`. Putting a block on
is the fold of `SpendInputs` (`UnspentAddedIsRight`). Taking one off writes back, per
transaction, what the index finds under the parent; between two transactions of the block the
outputs are a mixture of the states before and after (`Between`), and the mixture is what the
fold is shown to go through. The loop over the inputs is left at the first transaction that is
not found, so `RestorableAreOlder` needs `OlderInputsFirst`. All this with the chain table of
any branch, since in an exchange it holds the new one already.

*References.* `RefsRight(b)` are the references of which none is wrong on the branch of `b`: a
row has none, or its last transaction there. Putting on and taking off lead from the ones
of a block to those of its neighbour. Nothing forces a reference to be there, which is what
`ledger_refs` violates.

*Reindex.* `Downwards` visits a transaction before those it depends on (`LaterFirst`), so when
an output is met, it is known whether it is spent.

`SyncProofs` proves, for any number of nodes and contacts, every tree of blocks, all starting
storages whose blocks are connected, every length of the pages and every number of faults:

| Theorem | States | Assumes |
|---|---|---|
| `SyncTypes` | `Spec => []TypeOK` | nothing |
| `AskedIsAlwaysStored` | `[]AskedIsStored` | nothing |
| `ListIsAlwaysServed` | `[]ListIsServed` | nothing |

`AskedIsStored` says of a `getdata` on its way that the node it goes to has the block. It follows
from its whole history: the hash was taken from a list that waits, the list came in an `inv`, and
the `inv` was read from a storage. `SyncInv` says each of these: what the contents of a
message say of its two nodes (`MsgOK`), whose blocks a waiting list has (`TransitOK`), that
the branches lists are read from are stored from end to end (`StorageOK`, and
`PathInside` by induction along the tree), and that a block under work has a stored parent
(`RestOK`). A restart keeps the storage, which is why a message of the time before it can still
be answered. `TransitOK` says more: when a list waits, both nodes can be reached.
A node answers a `getdata` by a connection of its own, so a list at a node that
cannot be reached would wait for ever.

`ListIsServed` then follows by what each step does to one list (`Served`): a loop that ends has
sent a `getdata` unless the list is empty, a `getdata` that is handled is followed by the block,
a handled block enters the loop, and a step that breaks this off is a fault, which
marks the node (`hurt`). That nothing else takes a message off the network is the lemma
`NetIsBag`, about bags.

`PoolProofs` proves, for every tree and transactions, any rows, any set of transactions that can
be pending and any order of their times, under the steps of `SpecPayments` (those of `Pool` and
the command `send`):

| Theorem | States | Assumes |
|---|---|---|
| `PoolTypes` | `[]TypeOKPool` | nothing |
| `CacheIsAlwaysPool` | `[]CacheIsPool` | nothing |
| `PoolIsNeverOnChain` | `[]PoolNotOnChain` | nothing |
| `PoolNeverHasRivals` | `[]PoolHasNoRivals` | nothing |
| `PoolAlwaysHasBases` | `[]PoolHasBases` | nothing |
| `PreparedBlocksAreValid` | `[]PreparedIsValid` | nothing |

"Nothing" is nothing beside the assumptions that `Ledger` and `Pool` state on their constants:
the rules of `VerifyBlock` (`VerifiedBlocks`), what a prepared statement says of its row
(`Statements`), and `Pending`: a block after the first has what can be pending and the
payment of its maker, which is never pending, and a payment has inputs. `Histories` is the last
one, and only the proofs about rows need it: no bases go round in a circle (the identifier of a
transaction is a hash of what it has, its base included, so a base is older than what follows it);
the table is created by one transaction, in the first block, which has no statement about a row
(`prepareGenesisBlock` makes it of a payment to its maker); and no content of a row is the value
that stands for an absent one.

The inductive invariant is `PoolInv`: `LedgerInv` with `PoolGood`, which says, beside the types,

1. the map in memory is not loaded, or it is the table, or a command has worked on the table;
2. `Based`: what a pending statement follows on its row is pending or approved;
3. `Tracked`, while some row has not been marked: the references are right, a row that has lost
   its reference is marked, and nothing in the pool *or in the map* is approved (`Clean`);
4. `SessionIsFree`: the row of a query that was executed and waits for its response is
   marked if the map has something about it that the table has not;
5. `NoRivals`, before a drop and before a put that came too late: the map has all that is
   pending, and no two transactions of
   it spend the same output or follow the same one on a row. Conflicts are looked for in the
   map when a transaction is added, and a command that deletes from the table leaves the map
   with more than the table has, never with less, until the map is made anew.

"Before a drop and before a put that came too late" is `~Mixed`; payments are `Clean` on this condition too.
An addition in steps needs no invariant of its own. `AddPut` is safe by what it meets, not
by what was verified: when its transaction still passes verification and test, the put is that of
`Added`; otherwise `crossed` holds from then on; and the row of a statement under way is marked when it is put
at the latest (`AddPutKeeps`).

None of the proved properties is inductive without the others. A transaction enters the pool
when its verification finds its base in the pool or asks the references for the last one of the
row, so that it is not approved (`ApprovedIsRefused`) needs right references, and for a payment
the index: its inputs are spent by the block that has it. A command can delete from the table what
the daemon's map still has, and the map is what a block is made from, so (3) speaks of both. The
proxy adds without a verification, which is what (4) is for. The steps are records that fold
over a block's transactions, so each operator has a lemma of what it can do to a record:
`Less` (something was taken away, and where another transaction followed it the row is marked),
`PutWith`, `TakenWith`, `Grows`. The lemma of an action puts those of its operators together, with
`BecomesIsGood` as the last step of each.

The proof showed what the first version of `PoolNotOnChain` did not say: after a drop, a payment can
be pending and approved. `BlockRemoved` of the dropped block deletes the records of all spendings
of the same outputs, also those of stored blocks of other branches (`index.go:212`). When such
a branch becomes the primary one, its payment passes the verification a second time, be it
sent again or repeated from the branch that was replaced. In the instance of `pool` no payment is
in two blocks, so the run did not meet this. The property makes its exceptions
one by one: what is about a row must be on a marked one, and what pays must come after a drop, or after a
put that came too late.

*Prepared blocks.* `PreparedIsValid` speaks of a node without marks, drops, commands and puts that came too late. It follows from `PoolInv` by an induction along the list that the
selection makes. What is taken fits after the part of the list before it (`FitsAfter`): its base is
the last on its row, in the list or by the references, and its inputs are on the branch or in the list.
`FittingIsValid` turns this into the words of a walk over the branch: right references
(3) make the base the last one on the branch, the index makes an input that is found an unspent one, and
`NoRivals` (5) is what keeps two members of the list from spending one output.

`RowsProofs` proves under the same steps and assumptions:

| Theorem | States | Assumes |
|---|---|---|
| `RowsAreAlwaysReplayed` | `[]RowsAreReplayed` | nothing |
| `SwitchAlwaysKeeps` | `SwitchKeepsTransactions` | nothing |

*The line of a transaction.* `RowsAreReplayed` speaks of the last statement in force on a row, and that
there is one, and one only, is half of the theorem. `LineOf(t)` is `t` with its base on the row, the
base of that, and so on: the least set that has `t` and the bases of all it has. It is defined as an
intersection, so that the provers need no recursion; `LineStep` gives it step by step, `LineEnds` that
nothing in it follows `t`, `LineIsFollowed` that everything else in it is followed, `LineHasNoFork` that
by one transaction only. `RowAfterStep` shows that the recursive function `RowAfter` has
the value its equation gives, along a line, and `RollbackRestores` that the rollback of a statement, written
from the row as it was, takes the row after it back to the row before it, column by column.

*The invariant.* `IsReplay(S, v)` says that the statements `S` in force on a row have made `v` of it: there
are none and the row is absent, or `S` is the line of one of them and `v` its `RowAfter`. `RowsInv`
is `PoolInv` with `RowsReplay`: every row that is not marked is a replay, except that while the query of the
proxy's session has been executed, its row is what the query made of a replay, and the statement has
room in what is in force (`LeavesRoom`: nothing follows it or its base). A statement in turn takes a replay to a
replay: `ReplayGoesOn` (a new last one), `ReplayStays` (the last one once more: an update or insert of
what is there already), `ReplayGoesBack` (the last one is undone). The rest of the proof shows that whatever
is executed or undone on a row that is not marked is in turn. For a block that is put on, this is the rule about bases of
`VerifyBlock` (`InItsPlace`), and `ExecuteFromBlock` passes over what is pending: the fold
over the block moves statements from the pool to the branch one by one, so the lemma goes through
the states where part of a block is approved (`Before`). For a block that is taken off, the fold undoes from the last
transaction on, and what is left is a branch again or a part of one (`UndoStep`). For a transaction that
arrives it is the verification against the references (`StatementFits`), which is why a row that
has lost its reference must be marked, and why `RowsInv` needs `PoolInv`. In an exchange the rows go
down to the block where the branches part and up again (`TakenOffKeepsRows`,
`PutOnAllKeepsRows`), then the retried transactions are added one by one (`RepeatedKeepsRows`).

*What a switch gives back.* A transaction of the old branch is tried once, and refused for what the pool is at that
moment; the property asks whether it fits at the end. So the invariant of the repetition (`Settled`) says of all
transactions tried so far that they are pending or do not fit *now*, and `AddedSettles` shows that one more retry keeps
it. An input that was missing does not come later, because the repetition goes from the oldest block on and
an input stands before its spender (`FittedBefore`). A conflict stays. On the same row, a later statement that passes its
verification stands, on the line of the old branch (`BranchIsLine`), on the refused one; its base is then pending,
for it cannot be on the new branch without the refused one; and with something pending further up that line, the search of
the pool never gives just the base of the refused one (`RefusedOnRow`, `LaterIsFound`). The argument is about
bases, not about the values of rows, so it needs `PoolInv` only and holds on marked rows too.

`PaymentsProofs` proves, under the same steps:

| Theorem | States | Assumes |
|---|---|---|
| `PaymentsAreAlwaysFunded` | `[]PaymentsAreFunded` | `OlderInputsFirst` |
| `BalanceIsAlwaysAvailable` | `[]BalanceIsAvailable` | `OlderInputsFirst` |
| `HistoryIsAlwaysBalance` | `[]HistoryIsBalance` | `OlderInputsFirst` |
| `StatementsAreAlwaysPrepared` | `[]StatementsArePrepared` | `OlderInputsFirst` |

They speak of a node that is `Undisturbed`: no drop, no command beside the daemon, no exchange that was
cut short, no put that came too late. `OlderInputsFirst` is what the unspent outputs of `LedgerProofs` need. `Transfers` says what
`Verify` sees to in a payment, and that its inputs are outputs of the transactions they name.

*Sums.* `Total(S)` is the number of smallest units that the outputs of `S` have (`Units`), so that a sum over a
finite set is a cardinality, and what the library knows of cardinalities gives the sum of two disjoint sets
(`TotalOfBoth`) and of a part (`TotalOfPart`). The sum along a list is a fold, and `TotalOfList` shows that it is
the `Total` of the members when the list has each of them once.

*The invariant.* `MoneyInv` is `PoolInv` and `UnspentFollows`: before a drop and while no exchange was
cut short, `utxo` is what the branch leaves. The steps of `Ledger` keep this by `LedgerProofs`. What
`Pool` adds are the steps that touch the rows only, and the ways in which an exchange ends early, which mark
every row, for good (`MarksStay`, `SwitchMarks`).

*History.* The iterator visits the transactions of the branch from the newest to the oldest one. Added from the other
end, each is one more transaction on top of a set that has its inputs, unspent (`OneMoreTx`), because a
visited transaction stands at a place of a block and what is visited later is what lies before that place
(`VisitHasPlaces`). The sum of the visit is then the value of what is unspent (`HistoryAddsUp`).

*Balance and payments.* `AvailableIs` is the fact behind both: what the branch and the pool leave to a key is the
unspent outputs that it does not use in the pool, together with the pending outputs it does not
use, and these are disjoint. It needs that nothing pending that pays is approved, and that the
outputs of a key are spent by transactions that the key has created. For the balance, the outputs used are
taken off by value, and an error comes when one of them is gone. For a payment, `Until` takes enough of
a list if the list has enough (`UntilIs`), and `AvailableIsGood` shows that the verification
finds what was taken, through the index.

*Statements.* By `RowsInv` what is in force on an unmarked row is a line in which each statement follows the one
before it (`LineInForce`), and by `PoolInv` what follows a pending one is pending. So the last one of the line is
pending and the end of the chain that the code walks, or nothing pending is about the row and the last one is the
reference that the table of references has (`BasesAre`). Another candidate comes up only where the walk over the
map can begin at three pending transactions (`ThreeAreThree`). The price is paid from `Available(k)`, as a payment
is; that the list of inputs exists needs that finitely many outputs can be put into an order (`ListsInOrder`).

Only model-checked: `EveryAddEnds`, `Silence`, `CatchUp`, `TxSpreads`, `EveryoneIsTried` and `StopEnds`,
liveness properties, which are out of reach of the provers, and `RivalsAreCancelled`.

## 5. Not modelled, and the plan

Modelled: block storage, the branch queries, index, unspent outputs, row references, the
pool with the rows of the tables, payments and balances, the block maker, the server with
its start and stop, the synchronisation of blocks and transactions. Planned, in this order:

1. The exchange of contacts between nodes, added to `Sync`: adding and removing contacts, the
   asynchronous mode of announcements that follows from them. The time filter of
   `GetUnapprovedTransactionsFiltered`, and the two reads of `handleGetUpdates` as two steps
   (the locked list is read before the pool, `handle.go:905`; in `Sync` it is one step).
2. Several rows and tables with the limits of consensus (permissions, prices) in `Pool`.

Left out, with the reason:

* the rules of consensus for queries, prices and permissions (`verifier.go`), the proof of
  work and the minters: functions of one block without state of the node. A block maker
  does not check the rules of a height again when the top has moved; this is listed as a
  hazard;
* new signatures of repeated transactions: they need keys, and the node of `Pool` is the
  signer of none;
* import of existing tables and the start from another node's blocks: they run once, before
  the node serves;
* `GetFirstBlocks` and lists for display: they only read;
* data races on the map of pending transactions and on the transit lists: each read or write of
  them is whole in `Pool` and `Sync`, so these are listed as hazards without a property;
* the MySQL protocol of the proxy (with its `completeChan`, `mysqlproxy.go:132`, whose send
  nobody may wait for), the SQL parser, wallets, client requests, configuration, logging:
  text and I/O, or no state that the properties are about.
