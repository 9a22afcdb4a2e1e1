----------------------------- MODULE ChainStore -----------------------------
(***************************************************************************)
(* Adding blocks to the blockchain database of one node.                   *)
(*                                                                         *)
(* The database is three things: the table of stored blocks, the record    *)
(* "l" with the hash of the top block, and the chain table, which links    *)
(* the blocks of the primary branch in both directions.  Each write to it  *)
(* is one autocommitted SQL statement, so each write is a step here, and   *)
(* what is read before it is a step of its own.                            *)
(*                                                                         *)
(* Blocks are added by several goroutines (connection handlers, the block  *)
(* maker, the checker of changes).  Each works on a Node object, and the   *)
(* mutexes of Node.AddBlock belong to the Node object.  Node.Clone ends    *)
(* with Init, which makes new mutexes, so goroutines with different Node   *)
(* objects exclude one another from nothing.  NodeOf says which object a   *)
(* goroutine uses.                                                         *)
(*                                                                         *)
(* The command dropblock takes the top block away.  It is another process  *)
(* on the same database: its statements come between those of the server,  *)
(* and no mutex keeps them apart.                                          *)
(***************************************************************************)
EXTENDS Naturals, Sequences

CONSTANTS
  Block,      \* the hashes of all the blocks that can ever exist
  Genesis,    \* the hash of the first block
  NoHash,     \* the empty hash
  Prev,       \* the PrevBlockHash of a block
  Height,     \* the Height of a block
  Adder,      \* the goroutines that add blocks
  NoAdder,    \* the owner of a mutex nobody holds
  NodeObject, \* the Node objects of the process
  NodeOf,     \* the Node object a goroutine works on
  MaxCrashes, \* bound: how often the process dies in a behaviour
  MaxDrops    \* bound: how often the operator drops the top block

ASSUME BlockTree ==
  /\ Genesis \in Block
  /\ NoHash \notin Block
  /\ Prev \in [Block -> Block \cup {NoHash}]
  /\ Height \in [Block -> Nat]
  /\ Prev[Genesis] = NoHash
  /\ Height[Genesis] = 0
  /\ \A b \in Block \ {Genesis} :
        /\ Prev[b] \in Block
        /\ Height[b] = Height[Prev[b]] + 1

ASSUME Goroutines ==
  /\ NoAdder \notin Adder
  /\ NodeOf \in [Adder -> NodeObject]

ASSUME Bounds == MaxCrashes \in Nat /\ MaxDrops \in Nat

VARIABLES
  blocks,   \* database: the hashes in the table of blocks
  top,      \* database: the record "l"
  inChain,  \* database: the hashes with a record in the chain table
  next,     \* database: the next hash in the chain record of a block
  mutex,    \* who holds the mutexes of a Node object
  pc,       \* where a goroutine is in AddBlock
  cur,      \* the block it adds
  last,     \* the top hash it has read
  at,       \* where its iterator stands (Walk), the hash it removes (Unlink)
  merge,    \* mergePointHash of UpdateChainOnNewBranch
  fresh,    \* newBlocks of UpdateChainOnNewBranch, from the top downwards
  cmd,      \* where the command dropblock is
  victim,   \* the block it drops
  crashes,  \* how often the process died
  drops     \* how often the command was given

db == <<blocks, top, inChain, next>>
locals == <<cur, last, at, merge, fresh>>
daemon == <<mutex, pc, locals>>
counters == <<crashes, drops>>
outside == <<cmd, victim, counters>>
vars == <<blocks, top, inChain, next, mutex, pc, cur, last, at, merge, fresh,
          cmd, victim, crashes, drops>>

Hash == Block \cup {NoHash}

Steps == {"idle", "check", "put", "readTop", "readBlock", "saveTop",
          "link", "linkPrev", "linkOwn", "iterate", "walk", "meet",
          "unlink", "unlinkPrev", "unlinkOwn", "relink", "relinkPrev", "relinkOwn"}
DropSteps == {"idle", "save", "delete", "remove", "removePrev", "removeOwn"}

\* addFirstBlock of a new blockchain: the genesis block is stored, is the top,
\* and has a chain record with neither a previous nor a next hash.
Init ==
  /\ blocks = {Genesis}
  /\ top = Genesis
  /\ inChain = {Genesis}
  /\ next = [b \in Block |-> NoHash]
  /\ mutex = [n \in NodeObject |-> NoAdder]
  /\ pc = [a \in Adder |-> "idle"]
  /\ cur = [a \in Adder |-> NoHash]
  /\ last = [a \in Adder |-> NoHash]
  /\ at = [a \in Adder |-> NoHash]
  /\ merge = [a \in Adder |-> NoHash]
  /\ fresh = [a \in Adder |-> <<>>]
  /\ cmd = "idle"
  /\ victim = NoHash
  /\ crashes = 0
  /\ drops = 0

(***************************************************************************)
(* Control                                                                 *)
(***************************************************************************)

Goto(a, label) == pc' = [pc EXCEPT ![a] = label] /\ UNCHANGED mutex

\* Node.AddBlock returns: the deferred Unlock, and the locals are gone.
Return(a) ==
  /\ pc' = [pc EXCEPT ![a] = "idle"]
  /\ mutex' = [mutex EXCEPT ![NodeOf[a]] = NoAdder]
  /\ cur' = [cur EXCEPT ![a] = NoHash]
  /\ last' = [last EXCEPT ![a] = NoHash]
  /\ at' = [at EXCEPT ![a] = NoHash]
  /\ merge' = [merge EXCEPT ![a] = NoHash]
  /\ fresh' = [fresh EXCEPT ![a] = <<>>]

\* The process ends and is started again: every goroutine and mutex is gone,
\* the database stays.
Restart ==
  /\ pc' = [a \in Adder |-> "idle"]
  /\ mutex' = [n \in NodeObject |-> NoAdder]
  /\ cur' = [a \in Adder |-> NoHash]
  /\ last' = [a \in Adder |-> NoHash]
  /\ at' = [a \in Adder |-> NoHash]
  /\ merge' = [a \in Adder |-> NoHash]
  /\ fresh' = [a \in Adder |-> <<>>]

(***************************************************************************)
(* The writes to the chain table                                           *)
(***************************************************************************)

\* AddToChain accepts h after p: p has a record, and no next hash in it.
CanAppend(p) == p \in inChain /\ next[p] = NoHash

\* RemoveFromChain accepts h: it has a record without a next hash, and the
\* record of its previous block, when it has one, is there.
CanRemove(h) ==
  /\ h \in inChain
  /\ next[h] = NoHash
  /\ h # Genesis => Prev[h] \in inChain

\* The first write of AddToChain and of RemoveFromChain: the record of the
\* previous block that was read, with another next hash.
PutNext(p, h) ==
  /\ inChain' = inChain \cup {p}
  /\ next' = [next EXCEPT ![p] = h]

\* The second write of AddToChain: the record of h, which has no next hash.
PutRecord(h) == PutNext(h, NoHash)

\* The second write of RemoveFromChain: the record is deleted.
DeleteRecord(h) ==
  /\ inChain' = inChain \ {h}
  /\ next' = [next EXCEPT ![h] = NoHash]

(***************************************************************************)
(* Node.AddBlock and Blockchain.AddBlock                                   *)
(***************************************************************************)

\* Mutation of Start: AddBlock without its mutexes.
StartWithoutLock(a, b) ==
  /\ pc[a] = "idle"
  /\ pc' = [pc EXCEPT ![a] = "check"]
  /\ cur' = [cur EXCEPT ![a] = b]
  /\ UNCHANGED <<db, mutex, last, at, merge, fresh, outside>>

\* A block is made or arrives, and the goroutine takes the mutexes of its Node.
Start(a, b) ==
  /\ pc[a] = "idle"
  /\ mutex[NodeOf[a]] = NoAdder
  /\ mutex' = [mutex EXCEPT ![NodeOf[a]] = a]
  /\ pc' = [pc EXCEPT ![a] = "check"]
  /\ cur' = [cur EXCEPT ![a] = b]
  /\ UNCHANGED <<db, last, at, merge, fresh, outside>>

\* notAddedExists, notAddedNoPrev, or VerifyBlock finds a fault (what it verifies
\* is left out, so it may refuse any block): nothing is written.
Refuse(a) ==
  /\ pc[a] = "check"
  /\ Return(a)
  /\ UNCHANGED <<db, outside>>

\* Mutation of Accept: no test for the previous block.
AcceptOrphan(a) ==
  /\ pc[a] = "check"
  /\ cur[a] \notin blocks
  /\ top \in blocks
  /\ Goto(a, "put")
  /\ UNCHANGED <<db, locals, outside>>

\* The block is new, its parent is stored, and VerifyBlock accepts it, for which
\* it has read the top block.
Accept(a) ==
  /\ pc[a] = "check"
  /\ cur[a] \notin blocks
  /\ Prev[cur[a]] \in blocks
  /\ top \in blocks
  /\ Goto(a, "put")
  /\ UNCHANGED <<db, locals, outside>>

PutBlock(a) ==
  /\ pc[a] = "put"
  /\ blocks' = blocks \cup {cur[a]}
  /\ Goto(a, "readTop")
  /\ UNCHANGED <<top, inChain, next, locals, outside>>

\* The top hash is read, and the block in the step after it.
ReadTop(a) ==
  /\ pc[a] = "readTop"
  /\ last' = [last EXCEPT ![a] = top]
  /\ Goto(a, "readBlock")
  /\ UNCHANGED <<db, cur, at, merge, fresh, outside>>

\* Mutation of ReadTopLower: a block of the same height replaces the top.
ReadTopNotHigher(a) ==
  /\ pc[a] = "readBlock"
  /\ last[a] \in blocks
  /\ Height[cur[a]] >= Height[last[a]]
  /\ Goto(a, "saveTop")
  /\ UNCHANGED <<db, locals, outside>>

\* Mutation of ReadTopLower: the error of the top block is not looked at.
ReadTopUnchecked(a) ==
  /\ pc[a] = "readBlock"
  /\ last[a] \in blocks => Height[cur[a]] > Height[last[a]]
  /\ Goto(a, "saveTop")
  /\ UNCHANGED <<db, locals, outside>>

\* The block is higher than the top that is read.
ReadTopLower(a) ==
  /\ pc[a] = "readBlock"
  /\ last[a] \in blocks
  /\ Height[cur[a]] > Height[last[a]]
  /\ Goto(a, "saveTop")
  /\ UNCHANGED <<db, locals, outside>>

\* Mutation of ReadTopNotLower: a block beside the top is never promoted.
ReadTopBeside(a) ==
  /\ pc[a] = "readBlock"
  /\ last[a] \in blocks
  /\ Height[cur[a]] <= Height[last[a]] \/ Prev[cur[a]] # last[a]
  /\ Return(a)
  /\ UNCHANGED <<db, outside>>

\* addedToParallel: the block stays beside the primary branch.
ReadTopNotLower(a) ==
  /\ pc[a] = "readBlock"
  /\ last[a] \in blocks
  /\ Height[cur[a]] <= Height[last[a]]
  /\ Return(a)
  /\ UNCHANGED <<db, outside>>

\* The top block is not there (it was dropped since VerifyBlock, or there is no
\* top any more): it cannot be decoded and AddBlock returns the error, with the
\* new block stored.
ReadTopFails(a) ==
  /\ pc[a] = "readBlock"
  /\ last[a] \notin blocks
  /\ Return(a)
  /\ UNCHANGED <<db, outside>>

SaveTop(a) ==
  /\ pc[a] = "saveTop"
  /\ top' = cur[a]
  /\ Goto(a, IF last[a] = Prev[cur[a]] THEN "link" ELSE "iterate")
  /\ UNCHANGED <<blocks, inChain, next, locals, outside>>

\* addedToTop: AddToChain(block.Hash, block.PrevBlockHash).
Link(a) ==
  /\ pc[a] = "link"
  /\ CanAppend(Prev[cur[a]])
  /\ Goto(a, "linkPrev")
  /\ UNCHANGED <<db, locals, outside>>

\* AddToChain fails; the error is logged, the result is still addedToTop.
LinkFails(a) ==
  /\ pc[a] = "link"
  /\ ~CanAppend(Prev[cur[a]])
  /\ Return(a)
  /\ UNCHANGED <<db, outside>>

LinkPrev(a) ==
  /\ pc[a] = "linkPrev"
  /\ PutNext(Prev[cur[a]], cur[a])
  /\ Goto(a, "linkOwn")
  /\ UNCHANGED <<blocks, top, locals, outside>>

LinkOwn(a) ==
  /\ pc[a] = "linkOwn"
  /\ PutRecord(cur[a])
  /\ Return(a)
  /\ UNCHANGED <<blocks, top, outside>>

(***************************************************************************)
(* UpdateChainOnNewBranch                                                  *)
(***************************************************************************)

\* NewBlockchainIterator reads the top hash again.
Iterate(a) ==
  /\ pc[a] = "iterate"
  /\ at' = [at EXCEPT ![a] = top]
  /\ Goto(a, "walk")
  /\ UNCHANGED <<db, cur, last, merge, fresh, outside>>

\* The iterator gives a block.
Walk(a) ==
  /\ pc[a] = "walk"
  /\ at[a] \in blocks
  /\ Goto(a, "meet")
  /\ UNCHANGED <<db, locals, outside>>

\* The iterator finds no block (Next returns nil, its error is ignored): the
\* nil pointer ends the process.
WalkPanics(a) ==
  /\ pc[a] = "walk"
  /\ at[a] \notin blocks
  /\ Restart
  /\ UNCHANGED <<db, outside>>

\* The block is outside of the chain table: it is remembered.
WalkDown(a) ==
  /\ pc[a] = "meet"
  /\ at[a] \notin inChain
  /\ fresh' = [fresh EXCEPT ![a] = Append(@, at[a])]
  /\ IF Prev[at[a]] = NoHash
       THEN /\ at' = [at EXCEPT ![a] = last[a]]
            /\ Goto(a, "unlink")
       ELSE /\ at' = [at EXCEPT ![a] = Prev[at[a]]]
            /\ Goto(a, "walk")
  /\ UNCHANGED <<db, cur, last, merge, outside>>

\* It is in the chain table: the branches meet there.
WalkMeets(a) ==
  /\ pc[a] = "meet"
  /\ at[a] \in inChain
  /\ merge' = [merge EXCEPT ![a] = at[a]]
  /\ at' = [at EXCEPT ![a] = last[a]]
  /\ Goto(a, "unlink")
  /\ UNCHANGED <<db, cur, last, fresh, outside>>

\* One turn of the loop that removes the old branch, down to the merge point.
Unlink(a) ==
  /\ pc[a] = "unlink"
  /\ at[a] # merge[a]
  /\ CanRemove(at[a])
  /\ Goto(a, IF Prev[at[a]] = NoHash THEN "unlinkOwn" ELSE "unlinkPrev")
  /\ UNCHANGED <<db, locals, outside>>

UnlinkPrev(a) ==
  /\ pc[a] = "unlinkPrev"
  /\ PutNext(Prev[at[a]], NoHash)
  /\ Goto(a, "unlinkOwn")
  /\ UNCHANGED <<blocks, top, locals, outside>>

UnlinkOwn(a) ==
  /\ pc[a] = "unlinkOwn"
  /\ DeleteRecord(at[a])
  /\ at' = [at EXCEPT ![a] = Prev[at[a]]]
  /\ Goto(a, "unlink")
  /\ UNCHANGED <<blocks, top, cur, last, merge, fresh, outside>>

\* RemoveFromChain fails (or the hash ran out): UpdateChainOnNewBranch returns
\* the error, AddBlock logs it and still answers addedToParallelTop.
UnlinkFails(a) ==
  /\ pc[a] = "unlink"
  /\ at[a] # merge[a]
  /\ ~CanRemove(at[a])
  /\ Return(a)
  /\ UNCHANGED <<db, outside>>

UnlinkDone(a) ==
  /\ pc[a] = "unlink"
  /\ at[a] = merge[a]
  /\ Goto(a, "relink")
  /\ UNCHANGED <<db, locals, outside>>

\* Mutations of Lowest and AllButLowest: the new branch is taken from above, and
\* the block that was linked stays in the list.
Highest(s) == s[1]
AllOf(s) == s

\* The block of the new branch that comes next, from below.
Lowest(s) == s[Len(s)]
AllButLowest(s) == SubSeq(s, 1, Len(s) - 1)

\* One turn of the loop that appends the new branch after the merge point.
Relink(a) ==
  /\ pc[a] = "relink"
  /\ fresh[a] # <<>>
  /\ merge[a] # NoHash => CanAppend(merge[a])
  /\ Goto(a, IF merge[a] = NoHash THEN "relinkOwn" ELSE "relinkPrev")
  /\ UNCHANGED <<db, locals, outside>>

RelinkPrev(a) ==
  /\ pc[a] = "relinkPrev"
  /\ PutNext(merge[a], Lowest(fresh[a]))
  /\ Goto(a, "relinkOwn")
  /\ UNCHANGED <<blocks, top, locals, outside>>

RelinkOwn(a) ==
  /\ pc[a] = "relinkOwn"
  /\ PutRecord(Lowest(fresh[a]))
  /\ merge' = [merge EXCEPT ![a] = Lowest(fresh[a])]
  /\ fresh' = [fresh EXCEPT ![a] = AllButLowest(@)]
  /\ Goto(a, "relink")
  /\ UNCHANGED <<blocks, top, cur, last, at, outside>>

RelinkFails(a) ==
  /\ pc[a] = "relink"
  /\ fresh[a] # <<>>
  /\ merge[a] # NoHash
  /\ ~CanAppend(merge[a])
  /\ Return(a)
  /\ UNCHANGED <<db, outside>>

RelinkDone(a) ==
  /\ pc[a] = "relink"
  /\ fresh[a] = <<>>
  /\ Return(a)
  /\ UNCHANGED <<db, outside>>

(***************************************************************************)
(* The command dropblock: DeleteBlock, in a process of its own.  Every     *)
(* block can be dropped, the genesis block too: then there is no top.      *)
(***************************************************************************)

\* The block on the top is read; nothing is dropped when it is not there.
DropRead ==
  /\ drops < MaxDrops
  /\ cmd = "idle"
  /\ top \in blocks
  /\ victim' = top
  /\ cmd' = "save"
  /\ drops' = drops + 1
  /\ UNCHANGED <<daemon, db, crashes>>

DropSave ==
  /\ cmd = "save"
  /\ top' = Prev[victim]
  /\ cmd' = "delete"
  /\ UNCHANGED <<daemon, blocks, inChain, next, victim, counters>>

DropDelete ==
  /\ cmd = "delete"
  /\ blocks' = blocks \ {victim}
  /\ cmd' = "remove"
  /\ UNCHANGED <<daemon, top, inChain, next, victim, counters>>

DropEnds == cmd' = "idle" /\ victim' = NoHash

\* RemoveFromChain, whose error is not looked at.
DropRemove ==
  /\ cmd = "remove"
  /\ CanRemove(victim)
  /\ cmd' = IF Prev[victim] = NoHash THEN "removeOwn" ELSE "removePrev"
  /\ UNCHANGED <<daemon, db, victim, counters>>

DropRemoveFails ==
  /\ cmd = "remove"
  /\ ~CanRemove(victim)
  /\ DropEnds
  /\ UNCHANGED <<daemon, db, counters>>

DropRemovePrev ==
  /\ cmd = "removePrev"
  /\ PutNext(Prev[victim], NoHash)
  /\ cmd' = "removeOwn"
  /\ UNCHANGED <<daemon, blocks, top, victim, counters>>

DropRemoveOwn ==
  /\ cmd = "removeOwn"
  /\ DeleteRecord(victim)
  /\ DropEnds
  /\ UNCHANGED <<daemon, blocks, top, counters>>

\* The process of the command dies between two statements.
DropDies ==
  /\ cmd # "idle"
  /\ DropEnds
  /\ UNCHANGED <<daemon, db, counters>>

DropBlock ==
  \/ DropRead \/ DropSave \/ DropDelete
  \/ DropRemove \/ DropRemoveFails \/ DropRemovePrev \/ DropRemoveOwn
  \/ DropDies

(***************************************************************************)
(* The whole                                                               *)
(***************************************************************************)

\* The process of the server dies; MySQL keeps what was written.
Crash ==
  /\ crashes < MaxCrashes
  /\ \E a \in Adder : pc[a] # "idle"
  /\ crashes' = crashes + 1
  /\ Restart
  /\ UNCHANGED <<db, cmd, victim, drops>>

AddStep(a) ==
  \/ Refuse(a) \/ Accept(a) \/ PutBlock(a)
  \/ ReadTop(a) \/ ReadTopLower(a) \/ ReadTopNotLower(a) \/ ReadTopFails(a)
  \/ SaveTop(a)
  \/ Link(a) \/ LinkFails(a) \/ LinkPrev(a) \/ LinkOwn(a)
  \/ Iterate(a) \/ Walk(a) \/ WalkPanics(a) \/ WalkDown(a) \/ WalkMeets(a)
  \/ Unlink(a) \/ UnlinkFails(a) \/ UnlinkPrev(a) \/ UnlinkOwn(a) \/ UnlinkDone(a)
  \/ Relink(a) \/ RelinkFails(a) \/ RelinkPrev(a) \/ RelinkOwn(a) \/ RelinkDone(a)

Next ==
  \/ \E a \in Adder, b \in Block : Start(a, b)
  \/ \E a \in Adder : AddStep(a)
  \/ Crash
  \/ DropBlock

\* A goroutine inside AddBlock is scheduled again and again; nothing forces a
\* new block to arrive.
Fairness == \A a \in Adder : WF_vars(AddStep(a))

Spec == Init /\ [][Next]_vars /\ Fairness

(***************************************************************************)
(* Properties                                                              *)
(***************************************************************************)

\* A new block has not passed the test of its height.
Undecided == {"idle", "check", "put", "readTop", "readBlock"}

TypeOK ==
  /\ blocks \subseteq Block
  /\ top \in Hash
  /\ inChain \subseteq Block
  /\ next \in [Block -> Hash]
  /\ mutex \in [NodeObject -> Adder \cup {NoAdder}]
  /\ pc \in [Adder -> Steps]
  /\ cur \in [Adder -> Hash]
  /\ last \in [Adder -> Hash]
  /\ \A a \in Adder : pc[a] \notin Undecided => last[a] \in Block
  /\ at \in [Adder -> Hash]
  /\ merge \in [Adder -> Hash]
  /\ fresh \in [Adder -> Seq(Block)]
  /\ cmd \in DropSteps
  /\ victim \in Hash
  /\ cmd # "idle" => victim \in Block
  /\ crashes \in 0..MaxCrashes
  /\ drops \in 0..MaxDrops

Idle == \A a \in Adder : pc[a] = "idle"

\* The chain table is one list from the genesis block to t, linked both ways.
ListsPathTo(t) ==
  /\ {Genesis, t} \subseteq inChain
  /\ \A h \in inChain :
        /\ next[h] = NoHash <=> h = t
        /\ h # Genesis => Prev[h] \in inChain /\ next[Prev[h]] = h

\* Between two calls of AddBlock the chain table lists the primary branch, from
\* the genesis block to the top, and nothing else: whatever branches replaced
\* one another, UpdateChainOnNewBranch removed all of the old one and linked
\* all of the new one.  (Faults break it, see the README.)
ChainIsPrimaryBranch ==
  Idle /\ crashes = 0 /\ drops = 0 => ListsPathTo(top)

\* A block that is stored and higher than the top was left behind by a crash
\* between PutBlock and SaveTopHash, or is being added just now: the top is
\* behind by at most one block per crash.
Promoting(a) == pc[a] \in {"readTop", "readBlock", "saveTop"}
TopLagsOnlyByCrashes ==
  drops = 0 =>
    \A b \in blocks :
      \/ Height[b] <= Height[top] + crashes
      \/ \E a \in Adder : Promoting(a) /\ b = cur[a]

\* However often the process dies, what is stored hangs together: the parent of
\* a stored block is stored, and the iterator of UpdateChainOnNewBranch, which
\* has no test for a missing block, never meets one.
WalkFindsItsBlocks ==
  drops = 0 =>
    /\ \A b \in blocks \ {Genesis} : Prev[b] \in blocks
    /\ \A a \in Adder : pc[a] = "walk" => at[a] \in blocks

\* The top changes to a higher block and to nothing else, except when the
\* command that drops it saves the hash of its parent: the test "block.Height >
\* lastBlock.Height" and the save of the top hash are steps apart, and so are the
\* statements of the command.
Higher(h, t) == h # NoHash /\ (t # NoHash => Height[h] > Height[t])
TopOnlyRises == [][top' # top /\ ~DropSave => Higher(top', top)]_vars

\* AddBlock ends: neither the walk down the new branch nor the two loops that
\* rewrite the chain table go on for ever, whatever the tables hold.
EveryAddEnds == \A a \in Adder : pc[a] # "idle" ~> pc[a] = "idle"

\* A block counts as stored for the rest of the node when its AddBlock has
\* decided about the top.
Pending == {cur[a] : a \in {x \in Adder : Promoting(x)}}

Abstract == INSTANCE LongestChain WITH stored <- blocks \ Pending, best <- top

\* Without faults the steps of AddBlock, seen from outside, are the atomic
\* AddHigher and AddParallel of LongestChain.
IsLongestChain == Abstract!Spec
=============================================================================
