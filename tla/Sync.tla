-------------------------------- MODULE Sync --------------------------------
(***************************************************************************)
(* How nodes bring their blockchains together: the version exchange of a   *)
(* starting node, the announcements of new blocks, the lists of hashes     *)
(* that are loaded one block after the other (the "transit" of the         *)
(* server), and the regular polling of the changes checker.  Transactions  *)
(* travel beside them: announced, pulled from pools, and in blocks.        *)
(*                                                                         *)
(* The storage of a node is the pair of LongestChain.tla: what it stores   *)
(* and its top.  A message is a connection of its own, served by its own   *)
(* goroutine: messages overtake each other and are lost when a connection  *)
(* fails.  Polling is a chain of synchronous requests.                     *)
(***************************************************************************)
EXTENDS Integers, Sequences, SequencesExt, Functions, Bags

CONSTANTS
  Node,        \* the nodes
  Contacts,    \* the list of the nodes each node knows, itself perhaps
  Reachable,   \* the nodes that accept connections from the others
  Block,       \* the hashes of all the blocks
  Genesis,     \* the first block
  NoHash,      \* the parent of the first block; no block being minted
  Prev,        \* the PrevBlockHash of a block
  Height,      \* the Height of a block
  Tx,          \* bound: the transactions that clients send
  Txs,         \* those of them a block holds
  Stored0,     \* what each node stores at the start
  Best0,       \* the top of each node at the start
  Starting,    \* the nodes that have just sent their version to all
  Client,      \* bound: the nodes that clients send transactions to
  Poller,      \* the nodes whose changes checker is running
  Miner,       \* the nodes that can make blocks
  ShortPage,   \* 1000, the limit of a list of hashes below a block
  UpperPage,   \* 1000, the limit of a list of hashes above a block
  UpdatePage,  \* 50, the limit of the list a poll returns
  TopPage,     \* 5, the number of hashes under the top a poll sends
  MaxFaults    \* bound: connections lost, blocks refused, nodes restarted

\* A poll returns more blocks than the hashes it is sent.
ASSUME Pages ==
  /\ {ShortPage, UpperPage, TopPage} \subseteq Nat \ {0}
  /\ UpdatePage \in Nat /\ UpdatePage > TopPage + 1

\* Every block but the first has a parent, one height below it.
ASSUME BlockTree ==
  /\ Genesis \in Block /\ NoHash \notin Block
  /\ \A b \in Block : Height[b] \in Nat
  /\ \A b \in Block \ {Genesis} : Prev[b] \in Block /\ Height[b] = Height[Prev[b]] + 1

ASSUME Nodes ==
  /\ Reachable \cup Starting \cup Client \cup Poller \cup Miner \subseteq Node
  /\ \A n \in Node : Contacts[n] \in Seq(Node) \ {<<>>}

ASSUME Starts ==
  /\ Stored0 \in [Node -> SUBSET Block] /\ Best0 \in [Node -> Block]
  /\ \A n \in Node :
       /\ Best0[n] \in Stored0[n]
       /\ \A b \in Stored0[n] :
            Height[b] <= Height[Best0[n]] /\ (b = Genesis \/ Prev[b] \in Stored0[n])

ASSUME Carrying == \A b \in Block : Txs[b] \subseteq Tx

ASSUME Faults == MaxFaults \in Nat

VARIABLES
  stored,   \* the blocks each node has
  best,     \* the top of each node
  known,    \* the transactions each node has pending or on its branch
  msgs,     \* a bag of messages in flight
  transit,  \* transit[n][m]: the hashes announced by m that n has to load
  loops,    \* loops[n][m]: the handlers of n working on transit[n][m]
  verified, \* the contacts each node has connected to with success
  pull,     \* the polling round of each node
  minting,  \* the block each node is making
  faults,   \* the number of faults
  hurt      \* the nodes whose lists a fault may have left waiting

vars == <<stored, best, known, msgs, transit, loops, verified, pull, minting, faults, hurt>>
storage == <<stored, best, known>>
lists == <<transit, loops>>
failures == <<faults, hurt>>

-----------------------------------------------------------------------------
(* The blocks a node can list.                                             *)

\* The branch from the first block up to b.
Path[b \in Block] ==
  IF b = Genesis THEN <<b>> ELSE Append(Path[Prev[b]], b)

OnBranch(n, b) == Contains(Path[best[n]], b)

\* The transactions of the branch up to b.
Carried(b) == UNION {Txs[c] : c \in Range(Path[b])}
Pending(n) == known[n] \ Carried(best[n])

\* What a loop that stops when its list has at least k members collects,
\* walking up or down.
FirstUpTo(s, k) == SubSeq(s, 1, IF Len(s) < k THEN Len(s) ELSE k)
Below(b, k) == FirstUpTo(Reverse(Path[b]), k)

\* The primary branch from b upwards; b alone when it is not on that branch.
Above(n, b, k) ==
  LET branch == Path[best[n]]
  IN IF OnBranch(n, b)
       THEN FirstUpTo(SubSeq(branch, Height[b] - Height[Genesis] + 1, Len(branch)), k)
       ELSE <<b>>

\* CheckBlockState.
State(n, b) ==
  CASE b \in stored[n] -> "exists"
    [] b \notin stored[n] /\ Prev[b] \in stored[n] -> "canAdd"
    [] OTHER -> "noPrev"

\* Mutated form of TopHashes: only the top is sent.
TopOnly(n) == <<best[n]>>

\* The hashes sent with a poll, the top first.
TopHashes(n) == Below(best[n], TopPage + 1)

\* What node m answers to a poll, in the order the poller works through it:
\* upwards from the first hash they share, or else down from the top of m.
Updates(m, tops) ==
  LET common == {i \in DOMAIN tops : OnBranch(m, tops[i])}
  IN IF common # {} THEN Above(m, tops[Min(common)], UpdatePage)
                    ELSE Below(best[m], UpdatePage + 1)

\* The transactions of the block under work.
Locked(m) == IF minting[m] = NoHash THEN {} ELSE Txs[minting[m]]

\* What m gives of its pool with the answer to a poll.  (There are fewer than the
\* 1000 where it would look at their time.)
Offered(m) == Pending(m) \ Locked(m)

-----------------------------------------------------------------------------
(* Messages.                                                               *)

Msg(from, to, type, data) ==
  [from |-> from, to |-> to, type |-> type, data |-> data]

\* A message to a node that accepts no connection is an error at once.
Sent(out) == SetToBag({m \in out : m.to \in Reachable})
Net(in, out) == msgs' = (msgs (-) SetToBag(in)) (+) Sent(out)

Others(n) == Range(Contacts[n]) \ {n}

Versions(n) == {Msg(n, m, "version", Height[best[n]]) : m \in Others(n)}

\* SendBlockToAll: asks every contact if it can use the block, and sends it
\* to those who answer that they can.  Handlers and the block maker run on
\* a clone of the node, whose mark of input connections is new and not set,
\* so the other mode, sending only the hash, is never chosen.
Announcement(n, b) ==
  {Msg(n, m, "block", b) : m \in {k \in Others(n) : State(k, b) = "canAdd"}}

\* sendTransactionToAll, in the same mode.
TxToAll(n, t) == {Msg(n, m, "tx", t) : m \in Others(n)}

\* A contact that answered once is verified.
Answered(n) == [verified EXCEPT ![n] = @ \cup (Others(n) \cap Reachable)]

\* Mutated form of Store: the block that came last is the top.
StoreLatest(n, b) ==
  /\ stored' = [stored EXCEPT ![n] = @ \cup {b}]
  /\ best' = [best EXCEPT ![n] = b]
  /\ known' = [known EXCEPT ![n] = @ \cup Carried(b)]

\* What the replaced blocks have and the new ones have not goes back to the pool.
Store(n, b) ==
  /\ stored' = [stored EXCEPT ![n] = @ \cup {b}]
  /\ best' = [best EXCEPT ![n] = IF Height[b] > Height[@] THEN b ELSE @]
  /\ known' = [known EXCEPT ![n] =
                 IF Height[b] > Height[best[n]] THEN @ \cup Carried(b) ELSE @]

-----------------------------------------------------------------------------
NoPull == [tops |-> <<>>, todo |-> {}, list |-> <<>>, txs |-> {}]

Init ==
  /\ stored = Stored0
  /\ best = Best0
  /\ known = [n \in Node |-> Carried(Best0[n])]
  /\ msgs = Sent(UNION {Versions(n) : n \in Starting})
  /\ transit = [n \in Node |-> [m \in Node |-> <<>>]]
  /\ loops = [n \in Node |-> [m \in Node |-> 0]]
  /\ verified = [n \in Node |-> {}]
  /\ pull = [n \in Node |-> NoPull]
  /\ minting = [n \in Node |-> NoHash]
  /\ faults = 0
  /\ hurt = {}

-----------------------------------------------------------------------------
(* The handlers of messages.                                               *)

\* Mutated form of HandleVersion: a node of the same height answers too.
AnswerEqual(m) ==
  LET mine == Height[best[m.to]]
  IN /\ m.type = "version"
     /\ Net({m}, IF mine < m.data
                   THEN {Msg(m.to, m.from, "getupper", best[m.to])}
                   ELSE {Msg(m.to, m.from, "version", mine)})
     /\ UNCHANGED <<storage, lists, verified, pull, minting, failures>>

\* A lower node asks for the blocks above its top, a higher one answers with
\* its own version.
HandleVersion(m) ==
  LET mine == Height[best[m.to]]
  IN /\ m.type = "version"
     /\ Net({m}, IF mine < m.data
                   THEN {Msg(m.to, m.from, "getupper", best[m.to])}
                   ELSE IF mine > m.data
                          THEN {Msg(m.to, m.from, "version", mine)}
                          ELSE {})
     /\ UNCHANGED <<storage, lists, verified, pull, minting, failures>>

\* The list of the blocks above is turned round before it is sent, as the
\* list of the blocks below is.
UpperReply(n, b) ==
  IF b \in stored[n]
    THEN Reverse(Above(n, b, UpperPage))
    ELSE Reverse(Below(best[n], ShortPage + 1))

HandleGetBlocksUpper(m) ==
  /\ m.type = "getupper"
  /\ Net({m}, {Msg(m.to, m.from, "inv", UpperReply(m.to, m.data))})
  /\ UNCHANGED <<storage, lists, verified, pull, minting, failures>>

HandleGetBlocks(m) ==
  /\ m.type = "getblocks"
  /\ Net({m}, {Msg(m.to, m.from, "inv", Reverse(Below(m.data, ShortPage + 1)))})
  /\ UNCHANGED <<storage, lists, verified, pull, minting, failures>>

HandleInv(m) ==
  /\ m.type = "inv"
  /\ Net({m}, {})
  /\ transit' = [transit EXCEPT ![m.to][m.from] = @ \o m.data]
  /\ loops' = [loops EXCEPT ![m.to][m.from] = @ + 1]
  /\ UNCHANGED <<storage, verified, pull, minting, failures>>

HandleGetData(m) ==
  /\ m.type = "getdata"
  /\ Net({m}, IF m.data \in stored[m.to]
                THEN {Msg(m.to, m.from, "block", m.data)}
                ELSE {})
  /\ UNCHANGED <<storage, lists, verified, pull, minting, failures>>

\* Mutated form of HandleBlock: the handler ends at a block that is there.
StopAtKnown(m) ==
  /\ m.type = "block"
  /\ IF State(m.to, m.data) = "canAdd"
       THEN /\ Store(m.to, m.data)
            /\ Net({m}, Announcement(m.to, m.data))
            /\ verified' = Answered(m.to)
            /\ loops' = [loops EXCEPT ![m.to][m.from] = @ + 1]
       ELSE /\ UNCHANGED <<storage, verified, loops>>
            /\ Net({m}, {})
  /\ UNCHANGED <<transit, pull, minting, failures>>

\* A block that can be added is added and announced to all; then the handler
\* goes on with the list its sender announced.
HandleBlock(m) ==
  /\ m.type = "block"
  /\ IF State(m.to, m.data) = "canAdd"
       THEN /\ Store(m.to, m.data)
            /\ Net({m}, Announcement(m.to, m.data))
            /\ verified' = Answered(m.to)
       ELSE /\ UNCHANGED <<storage, verified>>
            /\ Net({m}, {})
  /\ loops' = [loops EXCEPT ![m.to][m.from] = @ + 1]
  /\ UNCHANGED <<transit, pull, minting, failures>>

\* A transaction that is not known goes to the pool.  (These are transactions that
\* every node accepts; Pool models the others.)
HandleTx(m) ==
  /\ m.type = "tx"
  /\ Net({m}, {})
  /\ known' = [known EXCEPT ![m.to] = @ \cup {m.data}]
  /\ UNCHANGED <<stored, best, lists, verified, pull, minting, failures>>

Deliver ==
  \E m \in DOMAIN msgs :
    \/ HandleVersion(m)
    \/ HandleGetBlocksUpper(m)
    \/ HandleGetBlocks(m)
    \/ HandleInv(m)
    \/ HandleGetData(m)
    \/ HandleBlock(m)
    \/ HandleTx(m)

\* A client sends a transaction.  It is announced when the block maker gets to the
\* signal and makes no block: the signal can be dropped before that.
Submit(n, t) ==
  /\ \A m \in Node : t \notin known[m]
  /\ known' = [known EXCEPT ![n] = @ \cup {t}]
  /\ \/ Net({}, TxToAll(n, t)) /\ verified' = Answered(n)
     \/ UNCHANGED <<msgs, verified>>
  /\ UNCHANGED <<stored, best, lists, pull, minting, failures>>

\* One turn of the loop over the list of m that handleInv and handleBlock
\* share.  It stops at a block it has asked for, at an empty list, and at a
\* block without parent, for which it asks what is below.
Turn(n, m) ==
  LET b == Head(transit[n][m])
      Go(list, again, out) ==
        /\ transit' = [transit EXCEPT ![n][m] = list]
        /\ loops' = [loops EXCEPT ![n][m] = IF again THEN @ ELSE @ - 1]
        /\ Net({}, out)
  IN /\ loops[n][m] > 0
     /\ \/ transit[n][m] = <<>> /\ Go(<<>>, FALSE, {})
        \/ /\ transit[n][m] # <<>>
           /\ CASE State(n, b) = "exists" ->
                     Go(Tail(transit[n][m]), Len(transit[n][m]) > 1, {})
                [] State(n, b) = "canAdd" ->
                     Go(Tail(transit[n][m]), FALSE, {Msg(n, m, "getdata", b)})
                [] State(n, b) = "noPrev" ->
                     Go(<<>>, FALSE, {Msg(n, m, "getblocks", Prev[b])})
     /\ UNCHANGED <<storage, verified, pull, minting, failures>>

-----------------------------------------------------------------------------
(* Polling: one round asks the verified contacts, with the hashes of the   *)
(* top the round began with.                                               *)

\* Without a verified contact the list is made of pointers to the variable
\* of the loop, which all point to the last contact.
PollList(n) == IF verified[n] # {} THEN verified[n] ELSE {Last(Contacts[n])}

PollStart(n) ==
  /\ n \in Poller
  /\ pull[n] = NoPull
  /\ pull' = [pull EXCEPT ![n] = [NoPull EXCEPT !.tops = TopHashes(n),
                                                !.todo = PollList(n) \ {n}]]
  /\ UNCHANGED <<storage, msgs, lists, verified, minting, failures>>

\* Mutated form of Answer: the transactions are not read when there are blocks.
AnswerBlocks(p, m) ==
  IF m \in Reachable THEN [p EXCEPT !.todo = @ \ {m}, !.list = Updates(m, p.tops)]
                     ELSE [p EXCEPT !.todo = @ \ {m}]

\* The polling round p after handleGetUpdates of m, or the failure to reach it.
Answer(p, m) ==
  IF m \in Reachable
    THEN [p EXCEPT !.todo = @ \ {m}, !.list = Updates(m, p.tops), !.txs = Offered(m)]
    ELSE [p EXCEPT !.todo = @ \ {m}]

PollNode(n) ==
  /\ pull[n].list = <<>> /\ pull[n].txs = {}
  /\ \E m \in pull[n].todo : pull' = [pull EXCEPT ![n] = Answer(@, m)]
  /\ UNCHANGED <<storage, msgs, lists, verified, minting, failures>>

\* The next block of the answer is skipped when it is there already, loaded
\* when it can be added, and ends the work on the answer otherwise.
PollBlock(n) ==
  LET b == Head(pull[n].list)
  IN /\ pull[n].list # <<>>
     /\ IF State(n, b) = "canAdd" THEN Store(n, b) ELSE UNCHANGED storage
     /\ pull' = [pull EXCEPT ![n].list =
                   IF State(n, b) = "noPrev" THEN <<>> ELSE Tail(@)]
     /\ UNCHANGED <<msgs, lists, verified, minting, failures>>

\* After the blocks, the transactions of the answer that are not known are loaded.
PollTx(n) ==
  /\ pull[n].list = <<>>
  /\ \E t \in pull[n].txs :
       /\ pull' = [pull EXCEPT ![n].txs = @ \ {t}]
       /\ known' = [known EXCEPT ![n] = @ \cup {t}]
  /\ UNCHANGED <<stored, best, msgs, lists, verified, minting, failures>>

PollEnd(n) ==
  /\ pull[n] # NoPull
  /\ pull[n].list = <<>> /\ pull[n].txs = {}
  /\ pull[n].todo = {}
  /\ pull' = [pull EXCEPT ![n] = NoPull]
  /\ UNCHANGED <<storage, msgs, lists, verified, minting, failures>>

Poll(n) == PollStart(n) \/ PollNode(n) \/ PollBlock(n) \/ PollTx(n) \/ PollEnd(n)

-----------------------------------------------------------------------------
(* Making blocks: a block is prepared on the top of a moment and completed *)
(* when that top may be another.                                           *)

PrepareBlock(n) ==
  /\ n \in Miner
  /\ minting[n] = NoHash
  /\ \E b \in Block :
       /\ Prev[b] = best[n]
       /\ Txs[b] \subseteq Pending(n)
       /\ \A k \in Node : b \notin stored[k] /\ minting[k] # b
       /\ minting' = [minting EXCEPT ![n] = b]
  /\ UNCHANGED <<storage, msgs, lists, verified, pull, failures>>

\* Mutated form of CompleteBlock: a block that was not added is announced.
AnnounceFirst(n) ==
  /\ minting[n] # NoHash
  /\ UNCHANGED storage
  /\ Net({}, Announcement(n, minting[n]))
  /\ verified' = Answered(n)
  /\ minting' = [minting EXCEPT ![n] = NoHash]
  /\ UNCHANGED <<lists, pull, failures>>

CompleteBlock(n) ==
  /\ minting[n] # NoHash
  /\ Store(n, minting[n])
  /\ Net({}, Announcement(n, minting[n]))
  /\ verified' = Answered(n)
  /\ minting' = [minting EXCEPT ![n] = NoHash]
  /\ UNCHANGED <<lists, pull, failures>>

-----------------------------------------------------------------------------
(* Faults.                                                                 *)

Fault(nodes) ==
  /\ faults < MaxFaults
  /\ faults' = faults + 1
  /\ hurt' = hurt \cup nodes

\* The connection fails.
Lose ==
  /\ \E m \in DOMAIN msgs : Net({m}, {}) /\ Fault({m.from, m.to})
  /\ UNCHANGED <<storage, lists, verified, pull, minting>>

\* Adding a received block fails: the handler returns before it looks at the
\* list of its sender.
BlockFails ==
  /\ \E m \in DOMAIN msgs :
       /\ m.type = "block" /\ State(m.to, m.data) = "canAdd"
       /\ Net({m}, {})
       /\ Fault({m.to})
  /\ UNCHANGED <<storage, lists, verified, pull, minting>>

\* A request of a poll fails: the first one skips the contact, a later one
\* only the block.
SkipNode(n) ==
  /\ pull[n].list = <<>> /\ pull[n].txs = {}
  /\ \E m \in pull[n].todo : pull' = [pull EXCEPT ![n].todo = @ \ {m}]
SkipBlock(n) ==
  /\ pull[n].list # <<>>
  /\ State(n, Head(pull[n].list)) = "canAdd"
  /\ pull' = [pull EXCEPT ![n].list = Tail(@)]
SkipTx(n) ==
  /\ pull[n].list = <<>>
  /\ \E t \in pull[n].txs \ known[n] : pull' = [pull EXCEPT ![n].txs = @ \ {t}]
PollFails(n) ==
  /\ Fault({})
  /\ SkipNode(n) \/ SkipBlock(n) \/ SkipTx(n)
  /\ UNCHANGED <<storage, msgs, lists, verified, minting>>

\* A node stops and starts again: its memory and the connections to it are
\* gone, its blocks are kept, and it sends its version.
Restart(n) ==
  /\ Fault(Node \ {n})
  /\ msgs' = [m \in {k \in DOMAIN msgs : k.to # n} |-> msgs[m]] (+) Sent(Versions(n))
  /\ transit' = [transit EXCEPT ![n] = [m \in Node |-> <<>>]]
  /\ loops' = [loops EXCEPT ![n] = [m \in Node |-> 0]]
  /\ verified' = [verified EXCEPT ![n] = {}]
  /\ pull' = [pull EXCEPT ![n] = NoPull]
  /\ minting' = [minting EXCEPT ![n] = NoHash]
  /\ UNCHANGED storage

-----------------------------------------------------------------------------
Next ==
  \/ Deliver
  \/ \E n, m \in Node : Turn(n, m)
  \/ \E n \in Client, t \in Tx : Submit(n, t)
  \/ \E n \in Node : Poll(n) \/ PrepareBlock(n) \/ CompleteBlock(n)
  \/ Lose \/ BlockFails
  \/ \E n \in Node : PollFails(n) \/ Restart(n)

\* Every message has a goroutine of its own, the loops run on, the changes
\* checker ticks for ever, and a block that is prepared is completed.
Fairness ==
  /\ WF_vars(Deliver)
  /\ \A n \in Node : /\ WF_vars(Poll(n))
                    /\ WF_vars(CompleteBlock(n))
                    /\ \A m \in Node : WF_vars(Turn(n, m))

Spec == Init /\ [][Next]_vars /\ Fairness

-----------------------------------------------------------------------------
(* Properties.                                                             *)

\* The type invariant; the stored blocks are connected to the first block
\* and the top is one of the highest.
TypeOK ==
  /\ stored \in [Node -> SUBSET Block] /\ best \in [Node -> Block]
  /\ known \in [Node -> SUBSET Tx]
  /\ \A n \in Node :
       /\ best[n] \in stored[n] /\ Carried(best[n]) \subseteq known[n]
       /\ \A b \in stored[n] :
            Height[b] <= Height[best[n]] /\ (b = Genesis \/ Prev[b] \in stored[n])
       /\ verified[n] \subseteq Others(n)
  /\ IsABag(msgs)
  /\ transit \in [Node -> [Node -> Seq(Block)]] /\ loops \in [Node -> [Node -> Nat]]
  /\ verified \in [Node -> SUBSET Node]
  /\ pull \in [Node -> [tops : Seq(Block), todo : SUBSET Node,
                        list : Seq(Block), txs : SUBSET Tx]]
  /\ minting \in [Node -> Block \cup {NoHash}]
  /\ faults \in 0 .. MaxFaults /\ hurt \subseteq Node

\* Nobody is asked for a block it does not have, and no block is sent by a
\* node that does not store it: handleGetBlocks uses the block it reads from
\* the storage without a look at the error.
AskedIsStored ==
  \A x \in DOMAIN msgs :
    /\ x.type \in {"getdata", "getblocks"} => x.data \in stored[x.to]
    /\ x.type = "block" => x.data \in stored[x.from]

\* A list of announced blocks is never left behind, except by a fault of the
\* node, of its sender or between them: a handler is working on it, or the
\* block it waits for is on its way.
ListIsServed ==
  \A n \in Node \ hurt, m \in Node :
    transit[n][m] # <<>> =>
      \/ loops[n][m] > 0
      \/ \E x \in DOMAIN msgs :
           \/ x.type = "getdata" /\ x.from = n /\ x.to = m
           \/ x.type = "block" /\ x.from = m /\ x.to = n

\* The exchange of messages comes to an end: versions are not answered for
\* ever and a block that is known is not passed on again.
Silence == <>[](msgs = EmptyBag /\ \A n, m \in Node : loops[n][m] = 0)

\* Whatever fails for a while, the nodes end with chains of one height.
SameHeight == \A n, m \in Node : Height[best[n]] = Height[best[m]]
CatchUp == <>[]SameHeight

\* A transaction that one node has taken gets to all of them, alone or in a block,
\* when its signal was dropped, its announcement is lost or the pools are pulled while
\* it is in a block under work.
SameTransactions == \A n, m \in Node : known[n] = known[m]
TxSpreads == <>[]SameTransactions

\* "Checks if index is bigger then request for a rest of blocks": once the
\* exchange that a version started has ended, no node is behind.
VersionLoadsTheRest ==
  (msgs = EmptyBag /\ \A n, m \in Node : loops[n][m] = 0) => SameHeight
=============================================================================
