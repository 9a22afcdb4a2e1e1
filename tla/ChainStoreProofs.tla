-------------------------- MODULE ChainStoreProofs --------------------------
(***************************************************************************)
(* Proofs about ChainStore, for every block tree, every number of          *)
(* goroutines and every number of crashes and drops.                       *)
(*                                                                         *)
(* Type correctness needs nothing more.  The other theorems are about      *)
(* goroutines that share one Node object, and so its mutex: with clones    *)
(* the properties are false (run chain_clones).                            *)
(***************************************************************************)
EXTENDS ChainStore, SequenceTheorems, TLAPS

OneNode == \A a, b \in Adder : NodeOf[a] = NodeOf[b]

\* What the types of the locals depend on: where the goroutine is.
LocalsOK ==
  \A a \in Adder :
    /\ pc[a] # "idle" => cur[a] \in Block
    /\ pc[a] = "linkPrev" => Prev[cur[a]] \in Block
    /\ pc[a] \in {"meet", "unlinkPrev", "unlinkOwn"} => at[a] \in Block
    /\ pc[a] = "unlinkPrev" => Prev[at[a]] \in Block
    /\ pc[a] \in {"relinkPrev", "relinkOwn"} => fresh[a] # <<>>
    /\ pc[a] = "relinkPrev" => merge[a] \in Block
    /\ pc[a] \in {"idle", "check", "put", "readTop", "readBlock", "saveTop", "link",
                  "linkPrev", "linkOwn", "iterate"} => fresh[a] = <<>>

\* And what those of the command dropblock depend on.
CommandOK == cmd = "removePrev" => Prev[victim] \in Block

TypeInv == TypeOK /\ LocalsOK /\ CommandOK

\* A busy goroutine holds the mutex of its Node object.
Serial == \A a \in Adder : pc[a] # "idle" => mutex[NodeOf[a]] = a

(***************************************************************************)
(* What survives crashes: the table of blocks and the top hash.            *)
(***************************************************************************)

StoredClosed ==
  /\ {Genesis, top} \subseteq blocks
  /\ \A b \in blocks \ {Genesis} : Prev[b] \in blocks

CurStored ==
  \A a \in Adder :
    /\ pc[a] = "put" => cur[a] \notin blocks /\ Prev[cur[a]] \in blocks
    /\ Promoting(a) => cur[a] \in blocks \ {Genesis}
    /\ pc[a] \in {"readBlock", "saveTop"} => last[a] = top
    /\ pc[a] = "saveTop" => Height[cur[a]] > Height[top]
    /\ pc[a] \in {"walk", "meet"} => at[a] \in blocks

TopLag ==
  \A b \in blocks :
    \/ Height[b] <= Height[top] + crashes
    \/ \E a \in Adder : Promoting(a) /\ b = cur[a]

StoreInv == drops = 0 => cmd = "idle" /\ StoredClosed /\ CurStored /\ TopLag

(***************************************************************************)
(* What holds without faults: the chain table, step by step.               *)
(***************************************************************************)

\* A chain table with records for the hashes C and the next hashes nx lists the
\* path from the genesis block to t, and t is the only highest block of it.
Lists(C, nx, t) ==
  /\ {Genesis, t} \subseteq C
  /\ \A h \in C :
        /\ nx[h] = NoHash <=> h = t
        /\ h # Genesis => Prev[h] \in C /\ nx[Prev[h]] = h
        /\ Height[h] <= Height[t]
  /\ \A h, k \in C : Height[h] = Height[k] => h = k

\* s holds the blocks from c down to a child of base, all of them in B.
Links(s, c, base, B) ==
  /\ s = <<>> => base = c
  /\ s # <<>> => s[1] = c /\ Prev[Lowest(s)] = base
  /\ \A i \in 1..Len(s) :
        /\ s[i] \in B
        /\ Height[s[i]] + i = Height[c] + 1
        /\ i < Len(s) => Prev[s[i]] = s[i + 1]

\* The new branch above base is remembered, and not yet in the chain table.
Stack(a, base) == Links(fresh[a], cur[a], base, blocks \ inChain)

Added(a) == cur[a] \in blocks /\ top = cur[a]

Phase(a) ==
  /\ pc[a] \in {"check", "put", "readTop", "readBlock", "saveTop"} =>
       Lists(inChain, next, top)
  /\ pc[a] \in {"put", "readTop", "readBlock", "saveTop"} => cur[a] \notin inChain
  /\ pc[a] \in {"link", "linkPrev", "linkOwn"} => Added(a) /\ cur[a] \notin inChain
  /\ pc[a] \in {"link", "linkPrev"} => Lists(inChain, next, Prev[cur[a]])
  /\ pc[a] = "linkOwn" =>
       /\ Lists(inChain, [next EXCEPT ![Prev[cur[a]]] = NoHash], Prev[cur[a]])
       /\ next[Prev[cur[a]]] = cur[a]
  /\ pc[a] = "iterate" =>
       Added(a) /\ Lists(inChain, next, last[a]) /\ cur[a] \notin inChain
  /\ pc[a] \in {"walk", "meet"} =>
       Added(a) /\ Lists(inChain, next, last[a]) /\ Stack(a, at[a])
  /\ pc[a] \in {"unlink", "unlinkPrev", "unlinkOwn"} =>
       Added(a) /\ merge[a] \in inChain /\ Stack(a, merge[a])
  /\ pc[a] \in {"unlink", "unlinkPrev"} => Lists(inChain, next, at[a])
  /\ pc[a] \in {"unlinkPrev", "unlinkOwn"} => at[a] \notin {merge[a], Genesis}
  /\ pc[a] = "unlinkOwn" =>
       /\ Lists(inChain, [next EXCEPT ![Prev[at[a]]] = at[a]], at[a])
       /\ next[Prev[at[a]]] = NoHash
  /\ pc[a] \in {"relink", "relinkPrev", "relinkOwn"} => Added(a) /\ Stack(a, merge[a])
  /\ pc[a] \in {"relink", "relinkPrev"} => Lists(inChain, next, merge[a])
  /\ pc[a] \in {"relinkPrev", "relinkOwn"} => fresh[a] # <<>>
  /\ pc[a] = "relinkOwn" =>
       /\ Lists(inChain, [next EXCEPT ![merge[a]] = NoHash], merge[a])
       /\ next[merge[a]] = Lowest(fresh[a])

ChainInv ==
  crashes = 0 /\ drops = 0 =>
    /\ inChain \subseteq blocks
    /\ Idle => Lists(inChain, next, top)
    /\ \A a \in Adder : Phase(a)

IInv == TypeInv /\ Serial /\ StoreInv /\ ChainInv

(***************************************************************************)
(* Type correctness                                                        *)
(***************************************************************************)

\* What is taken from a non-empty sequence of blocks, and what is left.
LEMMA Ends ==
  ASSUME NEW s \in Seq(Block), s # <<>>
  PROVE  /\ Len(s) \in Nat \ {0}
         /\ Lowest(s) \in Block
         /\ AllButLowest(s) \in Seq(Block)
         /\ Len(AllButLowest(s)) = Len(s) - 1
         /\ \A i \in 1..(Len(s) - 1) : AllButLowest(s)[i] = s[i]
<1>1. Len(s) \in Nat \ {0}
  BY EmptySeq
<1>2. \A i \in 1..Len(s) : s[i] \in Block
  BY ElementOfSeq
<1>3. Lowest(s) \in Block
  BY <1>1, <1>2 DEF Lowest
<1>4. /\ AllButLowest(s) \in Seq(Block)
      /\ Len(AllButLowest(s)) = Len(s) - 1
      /\ \A i \in 1..(Len(s) - 1) : AllButLowest(s)[i] = s[i]
  <2> DEFINE n == Len(s) - 1
             t == SubSeq(s, 1, n)
  <2>1. n \in Nat /\ \A i \in 1..n : s[i] \in Block
    BY <1>1, <1>2
  <2> HIDE DEF n
  <2>2. /\ t \in Seq(Block)
        /\ Len(t) = IF 1 <= n THEN n - 1 + 1 ELSE 0
        /\ \A i \in 1..(n - 1 + 1) : t[i] = s[1 + i - 1]
    BY <2>1, SubSeqProperties
  <2> HIDE DEF t
  <2>3. Len(t) = n /\ \A i \in 1..n : t[i] = s[i]
    BY <2>1, <2>2
  <2>4. t = AllButLowest(s)
    BY DEF t, n, AllButLowest
  <2>5. QED
    BY <2>2, <2>3, <2>4 DEF n
<1>5. QED
  BY <1>1, <1>3, <1>4

\* The types hold at the start.
LEMMA TypeInit == Init => TypeInv
  BY BlockTree, Goroutines, Bounds
  DEF Init, TypeInv, TypeOK, LocalsOK, CommandOK, Hash, Steps, DropSteps, Undecided

\* The command dropblock is another process: it touches nothing of the daemon.
LEMMA DropStep ==
  ASSUME DropBlock
  PROVE  UNCHANGED daemon
  BY DEF DropBlock, DropRead, DropSave, DropDelete, DropRemove, DropRemoveFails,
         DropRemovePrev, DropRemoveOwn, DropDies

\* A command that works was given: there is no step of it without a drop.
LEMMA DropCounts ==
  ASSUME DropBlock, drops' = 0, drops \in Nat
  PROVE  cmd # "idle" /\ drops = 0
  BY DEF DropBlock, DropRead, DropSave, DropDelete, DropRemove, DropRemoveFails,
         DropRemovePrev, DropRemoveOwn, DropDies, counters

\* Every step of the storage keeps the types.
LEMMA TypeStep == TypeInv /\ [Next]_vars => TypeInv'
<1> SUFFICES ASSUME TypeInv, [Next]_vars PROVE TypeInv'
  OBVIOUS
<1> USE BlockTree, Goroutines, Bounds
    DEF TypeInv, TypeOK, LocalsOK, CommandOK, Hash, Steps, Undecided
<1>1. ASSUME NEW a \in Adder, NEW b \in Block, Start(a, b) PROVE TypeInv'
  BY <1>1 DEF Start, db, outside, counters
<1>2. ASSUME NEW a \in Adder, Return(a), UNCHANGED <<db, outside>> PROVE TypeInv'
  BY <1>2 DEF Return, db, outside, counters
<1>3. ASSUME NEW a \in Adder, AddStep(a) PROVE TypeInv'
  <2>1. CASE Refuse(a) \/ ReadTopNotLower(a) \/ ReadTopFails(a) \/ LinkFails(a)
             \/ UnlinkFails(a) \/ RelinkFails(a) \/ RelinkDone(a)
    BY <2>1, <1>2 DEF Refuse, ReadTopNotLower, ReadTopFails, LinkFails,
                      UnlinkFails, RelinkFails, RelinkDone
  <2>2. CASE Accept(a)
    BY <2>2 DEF Accept, Goto, db, locals, outside, counters
  <2>3. CASE PutBlock(a)
    BY <2>3 DEF PutBlock, Goto, locals, outside, counters
  <2>4. CASE ReadTop(a)
    BY <2>4 DEF ReadTop, Goto, db, outside, counters
  <2>22. CASE ReadTopLower(a)
    BY <2>22 DEF ReadTopLower, Goto, db, locals, outside, counters
  <2>5. CASE SaveTop(a)
    BY <2>5 DEF SaveTop, Goto, locals, outside, counters
  <2>6. CASE Link(a)
    BY <2>6 DEF Link, CanAppend, Goto, db, locals, outside, counters
  <2>18. CASE LinkPrev(a)
    BY <2>18 DEF LinkPrev, PutNext, Goto, locals, outside, counters
  <2>7. CASE LinkOwn(a)
    BY <2>7 DEF LinkOwn, PutRecord, PutNext, Return, outside, counters
  <2>8. CASE Iterate(a)
    BY <2>8 DEF Iterate, Goto, db, outside, counters
  <2>19. CASE Walk(a)
    BY <2>19 DEF Walk, Goto, db, locals, outside, counters
  <2>9. CASE WalkDown(a)
    <3>1. fresh' \in [Adder -> Seq(Block)]
      BY <2>9, AppendProperties DEF WalkDown
    <3>2. at' \in [Adder -> Hash]
      <4>1. at[a] \in Block /\ Prev[at[a]] \in Hash
        BY <2>9 DEF WalkDown
      <4>2. \E h \in Hash : at' = [at EXCEPT ![a] = h]
        BY <2>9, <4>1 DEF WalkDown
      <4>3. QED
        BY <4>2
    <3>3. pc' \in [Adder -> Steps] /\ pc'[a] \in {"walk", "unlink"}
      BY <2>9 DEF WalkDown, Goto
    <3>4. \A b \in Adder : pc'[b] \notin Undecided => last'[b] \in Block
      BY <2>9, <3>3 DEF WalkDown, Goto
    <3>5. UNCHANGED <<blocks, top, inChain, next, mutex, cur, last, merge, cmd, victim,
                      crashes, drops>>
      BY <2>9 DEF WalkDown, Goto, db, outside, counters
    <3>6. CommandOK'
      BY <3>5
    <3>9. \A b \in Adder \ {a} : pc'[b] = pc[b] /\ at'[b] = at[b] /\ fresh'[b] = fresh[b]
      BY <2>9 DEF WalkDown, Goto
    <3>10. cur[a] \in Block
      BY <2>9 DEF WalkDown
    <3>11. LocalsOK'
      BY <3>3, <3>5, <3>9, <3>10
    <3>7. TypeOK'
      <4> HIDE DEF LocalsOK, CommandOK, Undecided
      <4>1. QED
        BY <3>1, <3>2, <3>3, <3>4, <3>5
    <3>8. QED
      BY <3>6, <3>7, <3>11
  <2>10. CASE WalkMeets(a)
    BY <2>10 DEF WalkMeets, Goto, db, outside, counters
  <2>11. CASE WalkPanics(a)
    BY <2>11 DEF WalkPanics, Restart, db, outside, counters
  <2>12. CASE Unlink(a)
    <3>1. at[a] \in Block /\ (Prev[at[a]] = NoHash \/ Prev[at[a]] \in Block)
      BY <2>12 DEF Unlink, CanRemove
    <3>2. QED
      BY <2>12, <3>1 DEF Unlink, Goto, db, locals, outside, counters
  <2>20. CASE UnlinkPrev(a)
    BY <2>20 DEF UnlinkPrev, PutNext, Goto, locals, outside, counters
  <2>13. CASE UnlinkOwn(a)
    BY <2>13 DEF UnlinkOwn, DeleteRecord, Goto, outside, counters
  <2>14. CASE UnlinkDone(a)
    BY <2>14 DEF UnlinkDone, Goto, db, locals, outside, counters
  <2>15. CASE Relink(a)
    BY <2>15 DEF Relink, Goto, db, locals, outside, counters
  <2>21. CASE RelinkPrev(a)
    <3>1. fresh[a] # <<>> /\ fresh[a] \in Seq(Block) /\ Lowest(fresh[a]) \in Block
      BY <2>21, Ends DEF RelinkPrev
    <3>2. next' \in [Block -> Hash] /\ inChain' \subseteq Block
      BY <2>21, <3>1 DEF RelinkPrev, PutNext
    <3>3. QED
      BY <2>21, <3>1, <3>2 DEF RelinkPrev, Goto, locals, outside, counters
  <2>16. CASE RelinkOwn(a)
    BY <2>16, Ends DEF RelinkOwn, PutRecord, PutNext, Goto, outside, counters
  <2>17. QED
    BY <1>3, <2>1, <2>2, <2>3, <2>4, <2>5, <2>6, <2>7, <2>8, <2>9, <2>10, <2>11,
       <2>12, <2>13, <2>14, <2>15, <2>16, <2>18, <2>19, <2>20, <2>21, <2>22
    DEF AddStep
<1>4. CASE Crash
  BY <1>4 DEF Crash, Restart, db
<1>5. CASE DropBlock
  <2> USE DEF DropSteps
  <2>1. UNCHANGED daemon
    BY <1>5, DropStep
  <2>2. CASE DropRead
    BY <2>1, <2>2 DEF DropRead, daemon, locals, db
  <2>3. CASE DropSave \/ DropDelete
    BY <2>1, <2>3 DEF DropSave, DropDelete, daemon, locals, counters
  <2>4. CASE DropRemove
    BY <2>1, <2>4 DEF DropRemove, daemon, locals, db, counters
  <2>5. CASE DropRemoveFails \/ DropDies
    BY <2>1, <2>5 DEF DropRemoveFails, DropDies, DropEnds, daemon, locals, db, counters
  <2>6. CASE DropRemovePrev \/ DropRemoveOwn
    BY <2>1, <2>6 DEF DropRemovePrev, DropRemoveOwn, PutNext, DeleteRecord, DropEnds,
                      daemon, locals, counters
  <2>7. QED
    BY <1>5, <2>2, <2>3, <2>4, <2>5, <2>6 DEF DropBlock
<1>6. CASE UNCHANGED vars
  BY <1>6 DEF vars
<1>7. QED
  BY <1>1, <1>3, <1>4, <1>5, <1>6 DEF Next

\* The tables, the mutexes and the locals of AddBlock always hold what their
\* types say, with any number of Node objects, crashes and drops.
THEOREM TypeCorrect == Spec => []TypeOK
<1>1. TypeInv => TypeOK
  BY DEF TypeInv
<1>2. QED
  BY <1>1, TypeInit, TypeStep, PTL DEF Spec

(***************************************************************************)
(* One goroutine at a time                                                 *)
(***************************************************************************)

\* With one Node object, a goroutine inside AddBlock is the only one.
LEMMA StepAlone ==
  ASSUME OneNode, Serial, NEW a \in Adder, AddStep(a)
  PROVE  /\ pc[a] # "idle"
         /\ \A b \in Adder \ {a} : pc[b] = "idle"
<1>1. pc[a] # "idle"
  BY DEF AddStep, Refuse, Accept, PutBlock, ReadTop, ReadTopLower, ReadTopNotLower,
         ReadTopFails, SaveTop, Link, LinkFails, LinkPrev, LinkOwn, Iterate, Walk,
         WalkDown, WalkMeets, WalkPanics, Unlink, UnlinkPrev, UnlinkOwn,
         UnlinkFails, UnlinkDone, Relink, RelinkPrev, RelinkOwn, RelinkFails,
         RelinkDone
<1>2. QED
  BY <1>1 DEF OneNode, Serial

\* A step of a goroutine leaves the command and the counters alone.
LEMMA StepOutside ==
  ASSUME NEW a \in Adder, AddStep(a)
  PROVE  UNCHANGED outside
  BY DEF AddStep, Refuse, Accept, PutBlock, ReadTop, ReadTopLower, ReadTopNotLower,
         ReadTopFails, SaveTop, Link, LinkFails, LinkPrev, LinkOwn, Iterate, Walk,
         WalkDown, WalkMeets, WalkPanics, Unlink, UnlinkPrev, UnlinkOwn,
         UnlinkFails, UnlinkDone, Relink, RelinkPrev, RelinkOwn, RelinkFails,
         RelinkDone

\* A call begins when no other one of the Node object is under way.
LEMMA StartAlone ==
  ASSUME OneNode, Serial, NEW a \in Adder, NEW b \in Block, Start(a, b)
  PROVE  Idle
  BY Goroutines DEF OneNode, Serial, Start, Idle

\* A step of a goroutine moves its own program counter, and its mutex only
\* when it returns; a panic ends them all.
LEMMA StepMoves ==
  ASSUME NEW a \in Adder, TypeInv, AddStep(a)
  PROVE  \/ UNCHANGED mutex /\ \E l \in Steps : pc' = [pc EXCEPT ![a] = l]
         \/ Return(a)
         \/ Restart
<1> USE DEF Goto, Steps
<1>1. CASE Accept(a) \/ PutBlock(a) \/ ReadTop(a) \/ ReadTopLower(a)
           \/ SaveTop(a) \/ Link(a) \/ LinkPrev(a) \/ Iterate(a)
  BY <1>1 DEF Accept, PutBlock, ReadTop, ReadTopLower, SaveTop, Link, LinkPrev, Iterate
<1>2. CASE Walk(a) \/ WalkDown(a) \/ WalkMeets(a) \/ Unlink(a) \/ UnlinkPrev(a)
           \/ UnlinkOwn(a) \/ UnlinkDone(a) \/ Relink(a) \/ RelinkPrev(a)
           \/ RelinkOwn(a)
  BY <1>2 DEF Walk, WalkDown, WalkMeets, Unlink, UnlinkPrev, UnlinkOwn, UnlinkDone,
              Relink, RelinkPrev, RelinkOwn
<1>3. CASE Refuse(a) \/ ReadTopNotLower(a) \/ ReadTopFails(a) \/ LinkFails(a)
           \/ LinkOwn(a) \/ UnlinkFails(a) \/ RelinkFails(a) \/ RelinkDone(a)
  BY <1>3 DEF Refuse, ReadTopNotLower, ReadTopFails, LinkFails, LinkOwn,
              UnlinkFails, RelinkFails, RelinkDone
<1>4. CASE WalkPanics(a)
  BY <1>4 DEF WalkPanics
<1>5. QED
  BY <1>1, <1>2, <1>3, <1>4 DEF AddStep

\* Every step keeps the calls of one Node object after one another.
LEMMA SerialStep ==
  ASSUME OneNode, TypeInv, Serial, [Next]_vars
  PROVE  Serial'
<1> USE Goroutines DEF TypeInv, TypeOK, Serial
<1>1. ASSUME NEW a \in Adder, NEW b \in Block, Start(a, b) PROVE Serial'
  BY <1>1, StartAlone DEF Start, Idle
<1>2. ASSUME NEW a \in Adder, AddStep(a) PROVE Serial'
  <2>1. pc[a] # "idle" /\ \A b \in Adder \ {a} : pc[b] = "idle"
    BY <1>2, StepAlone
  <2>2. CASE UNCHANGED mutex /\ \E l \in Steps : pc' = [pc EXCEPT ![a] = l]
    BY <2>1, <2>2
  <2>3. CASE Return(a)
    BY <2>1, <2>3 DEF Return
  <2>4. CASE Restart
    BY <2>4 DEF Restart
  <2>5. QED
    BY <1>2, <2>2, <2>3, <2>4, StepMoves
<1>3. CASE Crash \/ UNCHANGED vars
  BY <1>3 DEF Crash, Restart, vars
<1>4. CASE DropBlock
  BY <1>4, DropStep DEF daemon
<1>5. QED
  BY <1>1, <1>2, <1>3, <1>4 DEF Next

(***************************************************************************)
(* The table of blocks, with crashes                                       *)
(***************************************************************************)

\* A block is one higher than its parent.
LEMMA HeightOfParent ==
  ASSUME NEW b \in Block \ {Genesis}
  PROVE  /\ Prev[b] \in Block \ {b}
         /\ Height[b] \in Nat /\ Height[Prev[b]] \in Nat
         /\ Height[b] = Height[Prev[b]] + 1
  BY BlockTree

\* Every step keeps the stored blocks connected and the top close to the highest.
LEMMA StoreStep ==
  ASSUME OneNode, TypeInv, TypeInv', Serial, StoreInv, [Next]_vars
  PROVE  StoreInv'
<1> USE BlockTree DEF TypeInv, TypeOK, LocalsOK, Hash
<1> SUFFICES ASSUME drops' = 0
             PROVE  cmd' = "idle" /\ (StoredClosed /\ CurStored /\ TopLag)'
  BY DEF StoreInv
<1>1. drops = 0 /\ ~DropBlock /\ cmd' = cmd
  <2>1. \A a \in Adder, b \in Block : Start(a, b) => drops' = drops /\ cmd' = cmd
    BY DEF Start, outside, counters
  <2>2. \A a \in Adder : AddStep(a) => drops' = drops /\ cmd' = cmd
    BY StepOutside DEF outside, counters
  <2>3. Crash \/ UNCHANGED vars => drops' = drops /\ cmd' = cmd
    BY DEF Crash, vars
  <2>4. ~DropBlock
    <3> SUFFICES ASSUME DropBlock PROVE FALSE
      OBVIOUS
    <3>1. drops = 0 /\ cmd # "idle"
      BY DropCounts, Bounds
    <3>2. QED
      BY <3>1 DEF StoreInv
  <2>5. QED
    BY <2>1, <2>2, <2>3, <2>4 DEF Next
<1>2. cmd = "idle" /\ StoredClosed /\ CurStored /\ TopLag
  BY <1>1 DEF StoreInv
<1>8. top \in Block
  BY <1>2 DEF StoredClosed
<1> USE DEF Promoting
<1>3. ASSUME NEW a \in Adder, NEW b \in Block, Start(a, b)
      PROVE (StoredClosed /\ CurStored /\ TopLag)'
  <2>1. /\ \A c \in Adder : pc[c] = "idle" /\ pc'[c] \in {"idle", "check"}
        /\ UNCHANGED <<blocks, top, crashes>>
    BY <1>3, StartAlone DEF Start, Idle, db, outside, counters
  <2>2. StoredClosed' /\ TopLag'
    BY <1>2, <2>1 DEF StoredClosed, TopLag
  <2>3. CurStored'
    BY <2>1 DEF CurStored
  <2>4. QED
    BY <2>2, <2>3
<1>4. ASSUME NEW a \in Adder, AddStep(a)
      PROVE (StoredClosed /\ CurStored /\ TopLag)'
  <2>1. pc[a] # "idle" /\ \A b \in Adder \ {a} : pc[b] = "idle"
    BY <1>4, StepAlone
  \* Nothing is written and the block is not being promoted.
  <2>2. ASSUME UNCHANGED <<blocks, top, crashes>>, ~Promoting(a), ~Promoting(a)',
               \A b \in Adder \ {a} : pc'[b] = "idle",
               pc'[a] # "put", pc'[a] \in {"walk", "meet"} => at'[a] \in blocks
        PROVE (StoredClosed /\ CurStored /\ TopLag)'
    <3>1. \A b \in Adder : ~Promoting(b) /\ ~Promoting(b)' /\ pc'[b] # "put"
      BY <2>1, <2>2
    <3>2. \A b \in Adder : pc'[b] \in {"walk", "meet"} => at'[b] \in blocks
      BY <2>2
    <3>3. CurStored'
      BY <2>2, <3>1, <3>2 DEF CurStored
    <3>4. StoredClosed' /\ TopLag'
      BY <1>2, <2>2, <3>1 DEF StoredClosed, TopLag
    <3>5. QED
      BY <3>3, <3>4
  <2>3. CASE Refuse(a) \/ LinkFails(a) \/ LinkOwn(a) \/ UnlinkFails(a)
             \/ RelinkFails(a) \/ RelinkDone(a)
    BY <2>1, <2>2, <2>3
    DEF Refuse, LinkFails, LinkOwn, UnlinkFails, RelinkFails, RelinkDone,
        Return, db, outside, counters
  <2>4. CASE Link(a) \/ LinkPrev(a) \/ Iterate(a) \/ Walk(a)
    BY <1>2, <2>1, <2>2, <2>4
    DEF Link, LinkPrev, Iterate, Walk, Goto, db, locals, outside, counters, StoredClosed
  <2>5. CASE Unlink(a) \/ UnlinkOwn(a) \/ UnlinkDone(a) \/ Relink(a)
             \/ RelinkOwn(a) \/ WalkMeets(a) \/ UnlinkPrev(a) \/ RelinkPrev(a)
    BY <2>1, <2>2, <2>5
    DEF Unlink, UnlinkPrev, UnlinkOwn, UnlinkDone, Relink, RelinkPrev, RelinkOwn,
        WalkMeets, Goto, db, locals, outside, counters
  <2>6. CASE WalkDown(a)
    <3>1. at[a] \in blocks /\ pc'[a] \in {"walk", "unlink"}
      BY <1>2, <2>6 DEF WalkDown, Goto, CurStored
    <3>2. pc'[a] = "walk" => at'[a] = Prev[at[a]] /\ Prev[at[a]] # NoHash
      BY <2>6 DEF WalkDown, Goto
    <3>3. pc'[a] = "walk" => at'[a] \in blocks
      BY <1>2, <3>1, <3>2 DEF StoredClosed
    <3>4. QED
      BY <2>1, <2>2, <2>6, <3>1, <3>3 DEF WalkDown, Goto, db, outside, counters
  <2>7. ~WalkPanics(a)
    BY <1>2 DEF WalkPanics, CurStored
  <2>8. CASE Accept(a)
    BY <1>2, <2>1, <2>8
    DEF Accept, Goto, db, locals, outside, counters, StoredClosed, CurStored, TopLag
  <2>9. CASE PutBlock(a)
    BY <1>2, <2>1, <2>9
    DEF PutBlock, Goto, locals, outside, counters, StoredClosed, CurStored, TopLag
  <2>10. CASE ReadTop(a)
    BY <1>2, <2>1, <2>10
    DEF ReadTop, Goto, db, outside, counters, StoredClosed, CurStored, TopLag
  <2>17. CASE ReadTopLower(a)
    BY <1>2, <2>1, <2>17
    DEF ReadTopLower, Goto, db, locals, outside, counters, StoredClosed, CurStored, TopLag
  <2> crashes \in Nat /\ \A b \in Block : Height[b] \in Nat
    BY Bounds
  <2>15. \A b \in blocks : Height[b] <= Height[top] + crashes \/ b = cur[a]
    BY <1>2, <2>1 DEF TopLag
  <2>16. top \in Block /\ cur[a] \in Block /\ blocks \subseteq Block
    BY <1>8, <2>1
  <2>11. CASE ReadTopNotLower(a)
    <3>1. /\ Height[cur[a]] <= Height[top]
          /\ UNCHANGED <<blocks, top, crashes>>
          /\ \A b \in Adder : pc'[b] = "idle"
      BY <1>2, <2>1, <2>11 DEF ReadTopNotLower, Return, db, outside, counters, CurStored
    <3>2. \A b \in blocks : Height[b] <= Height[top] + crashes
      <4> HIDE DEF TypeInv, TypeOK
      <4>1. QED
        BY <2>15, <2>16, <3>1
    <3>4. TopLag'
      BY <3>1, <3>2 DEF TopLag
    <3>3. QED
      BY <1>2, <3>1, <3>4 DEF StoredClosed, CurStored
  <2>12. CASE SaveTop(a)
    <3>1. /\ Height[cur[a]] > Height[top]
          /\ cur[a] \in blocks
          /\ top' = cur[a]
          /\ UNCHANGED <<blocks, cur, crashes>>
          /\ pc'[a] \in {"link", "iterate"}
          /\ \A b \in Adder \ {a} : pc'[b] = "idle"
      BY <1>2, <2>1, <2>12 DEF SaveTop, Goto, locals, outside, counters, CurStored
    <3>2. StoredClosed'
      BY <1>2, <3>1 DEF StoredClosed
    <3>5. CurStored'
      BY <3>1 DEF CurStored
    <3>3. ASSUME NEW b \in blocks PROVE Height[b] <= Height[cur[a]] + crashes
      <4> HIDE DEF TypeInv, TypeOK
      <4>1. QED
        BY <2>15, <2>16, <3>1, <3>3
    <3>4. QED
      BY <3>1, <3>2, <3>3, <3>5 DEF TopLag
  <2>14. ~ReadTopFails(a)
    BY <1>2 DEF ReadTopFails, StoredClosed, CurStored
  <2>13. QED
    BY <1>4, <2>3, <2>4, <2>5, <2>6, <2>7, <2>8, <2>9, <2>10, <2>11, <2>12,
       <2>14, <2>17 DEF AddStep
<1>5. CASE Crash
  \* The block that was being promoted is one higher than its parent, which
  \* was no more than the allowed lag above the top.
  <2>1. PICK a \in Adder : pc[a] # "idle"
    BY <1>5 DEF Crash
  <2>2. \A b \in Adder : pc[b] # "idle" => b = a
    BY <2>1, Goroutines DEF OneNode, Serial
  <2>3. ASSUME NEW b \in blocks PROVE Height[b] <= Height[top] + crashes + 1
    <3> Height[top] \in Nat /\ crashes \in Nat /\ Height[b] \in Nat
      BY <1>8, <2>3, Bounds
    <3>1. CASE Height[b] <= Height[top] + crashes
      BY <3>1
    <3>2. CASE Promoting(a) /\ b = cur[a]
      <4>1. b \in Block \ {Genesis} /\ Prev[b] \in blocks
        BY <1>2, <3>2 DEF CurStored, StoredClosed
      <4>2. Prev[b] # b /\ Height[b] = Height[Prev[b]] + 1
        BY <4>1, HeightOfParent
      <4>3. Height[Prev[b]] <= Height[top] + crashes
        BY <1>2, <2>2, <3>2, <4>1, <4>2 DEF TopLag
      <4>4. QED
        BY <4>1, <4>2, <4>3, HeightOfParent
    <3>3. QED
      BY <1>2, <2>2, <3>1, <3>2 DEF TopLag
  <2>4. UNCHANGED <<blocks, top>> /\ crashes' = crashes + 1
        /\ \A b \in Adder : pc'[b] = "idle"
    BY <1>5 DEF Crash, Restart, db
  <2>5. TopLag'
    <3>1. ASSUME NEW b \in blocks PROVE Height[b] <= Height[top] + (crashes + 1)
      <4>1. Height[top] \in Nat /\ crashes \in Nat /\ Height[b] \in Nat
        BY <1>8, <3>1, Bounds
      <4>2. QED
        BY <2>3, <4>1
    <3>2. QED
      BY <2>4, <3>1 DEF TopLag
  <2>6. QED
    <3>1. CurStored'
      BY <2>4 DEF CurStored
    <3>2. StoredClosed'
      BY <1>2, <2>4 DEF StoredClosed
    <3>3. QED
      BY <1>1, <1>2, <2>5, <3>1, <3>2
<1>6. CASE UNCHANGED vars
  <2>1. UNCHANGED <<blocks, top, pc, cur, last, at, cmd, crashes>>
    BY <1>6 DEF vars
  <2>2. StoredClosed' /\ TopLag'
    BY <1>2, <2>1 DEF StoredClosed, TopLag
  <2>3. CurStored'
    BY <1>2, <2>1 DEF CurStored
  <2>4. QED
    BY <1>2, <2>1, <2>2, <2>3
<1>7. QED
  BY <1>1, <1>2, <1>3, <1>4, <1>5, <1>6 DEF Next

\* Everything proved so far holds in every reachable state.
LEMMA StoreInvariant ==
  ASSUME OneNode
  PROVE  Spec => [](TypeInv /\ Serial /\ StoreInv)
<1>1. Init => Serial /\ StoreInv
  BY BlockTree DEF Init, Serial, StoreInv, StoredClosed, CurStored, TopLag, Promoting
<1>2. TypeInv /\ Serial /\ StoreInv /\ [Next]_vars => (TypeInv /\ Serial /\ StoreInv)'
  BY TypeStep, SerialStep, StoreStep
<1>3. QED
  BY <1>1, <1>2, TypeInit, PTL DEF Spec

\* With one Node object and without a drop, every block that is not being added
\* just now is at most as many blocks above the top as the process died: AddBlock
\* leaves a stored block unpromoted only when it dies before SaveTopHash.
THEOREM TopLagBounded ==
  ASSUME OneNode
  PROVE  Spec => []TopLagsOnlyByCrashes
<1>1. StoreInv => TopLagsOnlyByCrashes
  BY DEF StoreInv, TopLag, TopLagsOnlyByCrashes
<1>2. QED
  BY <1>1, StoreInvariant, PTL

\* With one Node object and without a drop, UpdateChainOnNewBranch never walks
\* to a block that is not stored, however often the process dies.
THEOREM WalkIsSafe ==
  ASSUME OneNode
  PROVE  Spec => []WalkFindsItsBlocks
<1>1. StoreInv => WalkFindsItsBlocks
  BY DEF StoreInv, StoredClosed, CurStored, WalkFindsItsBlocks
<1>2. QED
  BY <1>1, StoreInvariant, PTL

(***************************************************************************)
(* The chain table, without faults                                         *)
(***************************************************************************)

\* AddToChain: a child of the last block becomes the last block.
LEMMA ListsAppend ==
  ASSUME NEW C \in SUBSET Block, NEW nx \in [Block -> Hash],
         NEW t \in Block, NEW c \in Block \ C, Prev[c] = t,
         Lists(C, [nx EXCEPT ![t] = NoHash], t), nx[t] = c
  PROVE  Lists(C \cup {c}, [nx EXCEPT ![c] = NoHash], c)
<1> DEFINE D == C \cup {c}
           ny == [nx EXCEPT ![c] = NoHash]
<1>1. c # Genesis /\ c # t /\ c # NoHash /\ t # NoHash
  BY BlockTree DEF Lists
<1>2. Height[c] = Height[t] + 1 /\ \A h \in Block : Height[h] \in Nat
  BY <1>1, HeightOfParent, BlockTree
<1>3. ny[c] = NoHash /\ ny[t] = c /\ \A h \in C \ {t} : ny[h] = nx[h]
  BY <1>1
<1>4. ASSUME NEW h \in C
      PROVE  /\ ny[h] # NoHash
             /\ h # Genesis => Prev[h] \in C /\ ny[Prev[h]] = h
             /\ Height[h] < Height[c]
  <2>1. ny[h] # NoHash
    BY <1>1, <1>3 DEF Lists
  <2>2. ASSUME h # Genesis PROVE Prev[h] \in C /\ Prev[h] # t /\ ny[Prev[h]] = h
    BY <1>3, <2>2, BlockTree DEF Lists
  <2>3. Height[h] < Height[c]
    BY <1>2 DEF Lists
  <2>4. QED
    BY <2>1, <2>2, <2>3
<1>5. \A h, k \in D : Height[h] = Height[k] => h = k
  BY <1>2, <1>4 DEF Lists
<1>6. QED
  BY <1>1, <1>2, <1>3, <1>4, <1>5 DEF Lists

\* RemoveFromChain: the parent of the last block becomes the last block.
LEMMA ListsCut ==
  ASSUME NEW C \in SUBSET Block, NEW nx \in [Block -> Hash],
         NEW t \in Block \ {Genesis},
         Lists(C, [nx EXCEPT ![Prev[t]] = t], t), nx[Prev[t]] = NoHash
  PROVE  Lists(C \ {t}, [nx EXCEPT ![t] = NoHash], Prev[t])
<1> DEFINE D == C \ {t}
           ny == [nx EXCEPT ![t] = NoHash]
           q == Prev[t]
<1>1. q \in D /\ q # t /\ Genesis \in D
  BY HeightOfParent DEF Lists
<1>2. Height[t] = Height[q] + 1 /\ \A h \in Block : Height[h] \in Nat
  BY HeightOfParent, BlockTree
<1>3. ny[q] = NoHash /\ \A h \in D \ {q} : ny[h] = nx[h]
  BY <1>1
<1>4. ASSUME NEW h \in D
      PROVE  /\ ny[h] = NoHash <=> h = q
             /\ h # Genesis => Prev[h] \in D /\ ny[Prev[h]] = h
             /\ Height[h] <= Height[q]
  <2>1. ny[h] = NoHash <=> h = q
    BY <1>1, <1>3 DEF Lists
  <2>2. Height[h] <= Height[q]
    BY <1>2 DEF Lists
  <2>3. ASSUME h # Genesis PROVE Prev[h] \in D /\ ny[Prev[h]] = h
    <3>1. Prev[h] \in C /\ [nx EXCEPT ![q] = t][Prev[h]] = h
      BY <2>3 DEF Lists
    <3>2. Height[h] = Height[Prev[h]] + 1
      BY <2>3, HeightOfParent
    <3>3. Prev[h] # t
      <4>1. {Height[h], Height[t], Height[q]} \subseteq Nat
        BY <1>1, <1>2
      <4>2. QED
        BY <1>2, <2>2, <3>2, <4>1
    <3>4. Prev[h] # q
      BY <1>1, <3>1, BlockTree
    <3>5. QED
      BY <1>3, <3>1, <3>3, <3>4
  <2>4. QED
    BY <2>1, <2>2, <2>3
<1>5. QED
  BY <1>1, <1>4 DEF Lists

\* A next hash that is set and put back leaves the table as it was.
LEMMA PutBack ==
  ASSUME NEW nx \in [Block -> Hash], NEW q \in Block, NEW h
  PROVE  [[nx EXCEPT ![q] = h] EXCEPT ![q] = nx[q]] = nx
  OBVIOUS

\* A table that ends at the genesis block holds nothing else.
LEMMA ListsGenesis ==
  ASSUME NEW C \in SUBSET Block, NEW nx, Lists(C, nx, Genesis)
  PROVE  C = {Genesis}
<1>1. ASSUME NEW h \in C PROVE h = Genesis
  BY BlockTree, HeightOfParent DEF Lists
<1>2. QED
  BY <1>1 DEF Lists

(***************************************************************************)
(* The blocks of the new branch that UpdateChainOnNewBranch remembers      *)
(***************************************************************************)

\* The walk down: the next block is remembered after the others.
LEMMA LinksPush ==
  ASSUME NEW s \in Seq(Block), NEW c \in Block,
         NEW B \in SUBSET (Block \ {Genesis}), NEW h \in B, Links(s, c, h, B)
  PROVE  Links(Append(s, h), c, Prev[h], B)
<1> DEFINE t == Append(s, h)
           n == Len(s)
<1>1. n \in Nat /\ (s = <<>> <=> n = 0)
  BY LenProperties, EmptySeq
<1>2. /\ t \in Seq(Block) /\ Len(t) = n + 1
      /\ \A i \in 1..n : t[i] = s[i]
      /\ t[n + 1] = h
  BY <1>1, AppendProperties
<1>3. t # <<>> /\ Lowest(t) = h
  BY <1>1, <1>2, EmptySeq DEF Lowest
<1> HIDE DEF t, n
<1>4. /\ n = 0 => h = c
      /\ n # 0 => s[1] = c /\ Prev[s[n]] = h
      /\ \A i \in 1..n : /\ s[i] \in B
                         /\ Height[s[i]] + i = Height[c] + 1
                         /\ i < n => Prev[s[i]] = s[i + 1]
  BY <1>1 DEF Links, Lowest, n
<1>5. /\ \A b \in Block : Height[b] \in Nat
      /\ \A b \in B : Height[b] = Height[Prev[b]] + 1
  BY BlockTree
<1>6. Height[h] + (n + 1) = Height[c] + 1
  <2>1. CASE n = 0
    BY <1>4, <2>1
  <2>2. CASE n # 0
    <3>1. n \in 1..n /\ s[n] \in B /\ Prev[s[n]] = h
      BY <1>1, <1>4, <2>2
    <3>2. Height[s[n]] + n = Height[c] + 1 /\ Height[s[n]] = Height[h] + 1
      BY <1>4, <1>5, <3>1
    <3>3. Height[h] \in Nat /\ Height[c] \in Nat
      BY <1>5
    <3>4. (Height[h] + 1) + n = Height[c] + 1
      BY <3>2
    <3>5. QED
      BY <1>1, <3>3, <3>4
  <2>3. QED
    BY <2>1, <2>2
<1>7. t[1] = c
  BY <1>1, <1>2, <1>4
<1>8. ASSUME NEW i \in 1..(n + 1)
      PROVE  /\ t[i] \in B
             /\ Height[t[i]] + i = Height[c] + 1
             /\ i < n + 1 => Prev[t[i]] = t[i + 1]
  <2>1. CASE i = n + 1
    BY <1>1, <1>2, <1>6, <2>1
  <2>2. CASE i \in 1..n
    <3>1. t[i] = s[i] /\ t[i + 1] = IF i < n THEN s[i + 1] ELSE h
      BY <1>1, <1>2, <2>2
    <3>2. Prev[s[i]] = IF i < n THEN s[i + 1] ELSE h
      BY <1>1, <1>4, <2>2
    <3>3. QED
      BY <1>4, <2>2, <3>1, <3>2
  <2>3. QED
    BY <1>1, <2>1, <2>2
<1>9. Links(t, c, Prev[h], B)
  BY <1>2, <1>3, <1>7, <1>8 DEF Links
<1>10. QED
  BY <1>9 DEF t

\* A part of the chain table that is linked for some blocks is so for more of them.
LEMMA LinksMore ==
  ASSUME NEW s, NEW c, NEW base, NEW B, NEW D, B \subseteq D, Links(s, c, base, B)
  PROVE  Links(s, c, base, D)
  BY DEF Links

\* The way up: the lowest block is linked and leaves the others above it.
LEMMA LinksPop ==
  ASSUME NEW s \in Seq(Block), s # <<>>, NEW c \in Block, NEW base,
         NEW B \in SUBSET Block, Links(s, c, base, B)
  PROVE  /\ Lowest(s) \in B /\ Prev[Lowest(s)] = base
         /\ Links(AllButLowest(s), c, Lowest(s), B \ {Lowest(s)})
<1> DEFINE t == AllButLowest(s)
           n == Len(s)
           h == Lowest(s)
<1>1. /\ n \in Nat \ {0} /\ t \in Seq(Block) /\ Len(t) = n - 1
      /\ \A i \in 1..(n - 1) : t[i] = s[i]
      /\ h = s[n]
  BY Ends DEF Lowest
<1>2. t = <<>> <=> n = 1
  BY <1>1, EmptySeq
<1>3. t # <<>> => Lowest(t) = s[n - 1]
  BY <1>1, <1>2 DEF Lowest
<1> HIDE DEF t, n, h
<1>4. /\ s[1] = c /\ Prev[h] = base
      /\ \A i \in 1..n : /\ s[i] \in B
                         /\ Height[s[i]] + i = Height[c] + 1
                         /\ i < n => Prev[s[i]] = s[i + 1]
  BY DEF Links, n, h
<1>5. \A b \in Block : Height[b] \in Nat
  BY BlockTree
<1>6. \A i \in 1..(n - 1) : s[i] # h
  <2>1. ASSUME NEW i \in 1..(n - 1), s[i] = h PROVE FALSE
    <3>1. i \in 1..n /\ n \in 1..n /\ i # n
      BY <1>1
    <3>2. /\ Height[h] + i = Height[c] + 1
          /\ Height[h] + n = Height[c] + 1
          /\ h \in Block
      BY <1>1, <1>4, <2>1, <3>1
    <3>3. Height[h] \in Nat /\ Height[c] \in Nat
      BY <1>5, <3>2
    <3>4. QED
      BY <1>1, <3>1, <3>2, <3>3
  <2>2. QED
    BY <2>1
<1>7. t # <<>> => t[1] = c /\ Prev[Lowest(t)] = h
  BY <1>1, <1>2, <1>3, <1>4
<1>8. t = <<>> => h = c
  BY <1>1, <1>2, <1>4
<1>9. ASSUME NEW i \in 1..(n - 1)
      PROVE  /\ t[i] \in B \ {h}
             /\ Height[t[i]] + i = Height[c] + 1
             /\ i < n - 1 => Prev[t[i]] = t[i + 1]
  <2>1. i \in 1..n /\ i < n
    BY <1>1
  <2>2. t[i] = s[i] /\ (i < n - 1 => t[i + 1] = s[i + 1])
    BY <1>1
  <2>3. QED
    BY <1>4, <1>6, <2>1, <2>2
<1>10. Links(t, c, h, B \ {h})
  BY <1>1, <1>7, <1>8, <1>9 DEF Links
<1>11. h \in B
  BY <1>1, <1>4
<1>12. QED
  BY <1>4, <1>10, <1>11 DEF t, h

\* The whole invariant is kept.  Only one goroutine is busy, so only its phase
\* has to be followed.
LEMMA ChainStep ==
  ASSUME OneNode, TypeInv, TypeInv', Serial, StoreInv, ChainInv, [Next]_vars
  PROVE  ChainInv'
<1> SUFFICES ASSUME crashes' = 0, drops' = 0
    PROVE  /\ (inChain \subseteq blocks)'
           /\ (Idle => Lists(inChain, next, top))'
           /\ \A a \in Adder : Phase(a)'
  BY DEF ChainInv
<1> USE BlockTree DEF TypeInv, TypeOK, LocalsOK, Hash
<1>1. crashes = 0 /\ drops = 0 /\ ~Crash /\ ~DropBlock
  <2>1. \A a \in Adder, b \in Block : Start(a, b) => UNCHANGED counters
    BY DEF Start, outside
  <2>2. \A a \in Adder : AddStep(a) => UNCHANGED counters
    BY StepOutside DEF outside
  <2>3. ~Crash
    BY Bounds DEF Crash
  <2>4. ~DropBlock
    <3> SUFFICES ASSUME DropBlock PROVE FALSE
      OBVIOUS
    <3>1. drops = 0 /\ cmd # "idle"
      BY DropCounts, Bounds
    <3>2. QED
      BY <3>1 DEF StoreInv
  <2>5. QED
    BY <2>1, <2>2, <2>3, <2>4 DEF Next, vars, counters
<1>2. /\ inChain \subseteq blocks
      /\ Idle => Lists(inChain, next, top)
      /\ \A a \in Adder : Phase(a)
  BY <1>1 DEF ChainInv
<1>3. StoredClosed /\ CurStored
  BY <1>1 DEF StoreInv
<1>4. ASSUME NEW a \in Adder, NEW b \in Block, Start(a, b)
      PROVE  /\ (inChain \subseteq blocks)'
             /\ (Idle => Lists(inChain, next, top))'
             /\ \A c \in Adder : Phase(c)'
  <2>1. Idle /\ Lists(inChain, next, top) /\ UNCHANGED db
    BY <1>2, <1>4, StartAlone DEF Start
  <2>2. pc'[a] = "check" /\ \A c \in Adder \ {a} : pc'[c] = "idle"
    BY <1>4, <2>1 DEF Start, Idle
  <2>3. QED
    <3>1. Phase(a)'
      BY <2>1, <2>2 DEF Phase, db
    <3>2. \A c \in Adder \ {a} : Phase(c)'
      BY <2>2 DEF Phase
    <3>3. ~Idle' /\ (inChain \subseteq blocks)'
      BY <1>2, <2>1, <2>2 DEF Idle, db
    <3>4. QED
      BY <3>1, <3>2, <3>3
<1>5. ASSUME NEW a \in Adder, AddStep(a)
      PROVE  /\ (inChain \subseteq blocks)'
             /\ (Idle => Lists(inChain, next, top))'
             /\ \A c \in Adder : Phase(c)'
  <2>1. pc[a] # "idle" /\ \A b \in Adder \ {a} : pc[b] = "idle"
    BY <1>5, StepAlone
  <2>2. Phase(a) /\ cur[a] \in Block
    BY <1>2, <2>1
  \* A step that does not end the call: the next phase has to hold.
  <2>3. ASSUME pc'[a] # "idle", \A b \in Adder \ {a} : pc'[b] = "idle",
               (inChain \subseteq blocks)', Phase(a)'
        PROVE  /\ (inChain \subseteq blocks)'
               /\ (Idle => Lists(inChain, next, top))'
               /\ \A c \in Adder : Phase(c)'
    <3>1. \A c \in Adder \ {a} : Phase(c)'
      BY <2>3 DEF Phase
    <3>2. ~Idle'
      BY <2>3 DEF Idle
    <3>3. QED
      BY <2>3, <3>1, <3>2
  \* A step that ends it: the chain table lists the primary branch again.
  <2>4. ASSUME Return(a), (inChain \subseteq blocks)',
               Lists(inChain, next, top)'
        PROVE  /\ (inChain \subseteq blocks)'
               /\ (Idle => Lists(inChain, next, top))'
               /\ \A c \in Adder : Phase(c)'
    <3>1. \A c \in Adder : pc'[c] = "idle"
      BY <2>1, <2>4 DEF Return
    <3>2. QED
      BY <2>4, <3>1 DEF Phase
  <2>5. CASE Refuse(a) \/ ReadTopNotLower(a)
    <3>1. Return(a) /\ UNCHANGED db /\ Lists(inChain, next, top)
      BY <2>2, <2>5 DEF Refuse, ReadTopNotLower, Phase
    <3>2. QED
      BY <1>2, <2>4, <3>1 DEF db
  <2>6. CASE Accept(a)
    <3>1. /\ UNCHANGED <<blocks, top, inChain, next, cur>>
          /\ pc' = [pc EXCEPT ![a] = "put"]
          /\ Lists(inChain, next, top)
          /\ cur[a] \notin inChain
      BY <1>2, <2>2, <2>6 DEF Accept, Goto, db, locals, Phase
    <3>2. pc'[a] = "put" /\ \A b \in Adder \ {a} : pc'[b] = "idle"
      BY <2>1, <3>1
    <3>3. Phase(a)'
      BY <3>1, <3>2 DEF Phase
    <3>4. QED
      BY <1>2, <2>3, <3>1, <3>2, <3>3
  <2>7. CASE PutBlock(a)
    <3>1. /\ UNCHANGED <<top, inChain, next, cur>>
          /\ blocks' = blocks \cup {cur[a]}
          /\ pc' = [pc EXCEPT ![a] = "readTop"]
          /\ Lists(inChain, next, top)
          /\ cur[a] \notin inChain
      BY <2>2, <2>7 DEF PutBlock, Goto, locals, Phase
    <3>2. QED
      BY <1>2, <2>1, <2>3, <3>1 DEF Phase
  <2>8. CASE ReadTop(a) \/ ReadTopLower(a)
    <3>1. /\ UNCHANGED <<blocks, top, inChain, next, cur>>
          /\ \E l \in {"readBlock", "saveTop"} : pc' = [pc EXCEPT ![a] = l]
          /\ Lists(inChain, next, top)
          /\ cur[a] \notin inChain
      BY <2>2, <2>8 DEF ReadTop, ReadTopLower, Goto, db, locals, Phase
    <3>2. QED
      BY <1>2, <2>1, <2>3, <3>1 DEF Phase
  <2>9. CASE SaveTop(a)
    <3>1. /\ UNCHANGED <<blocks, inChain, next, cur, last>>
          /\ top' = cur[a]
          /\ pc' = [pc EXCEPT ![a] = IF last[a] = Prev[cur[a]] THEN "link" ELSE "iterate"]
          /\ Lists(inChain, next, last[a])
          /\ cur[a] \in blocks \ inChain
      BY <1>3, <2>1, <2>2, <2>9 DEF SaveTop, Goto, locals, Phase, CurStored, Promoting
    <3>2. QED
      BY <1>2, <2>1, <2>3, <3>1 DEF Phase, Added
  <2>23. CASE Link(a)
    <3>1. /\ UNCHANGED <<blocks, top, inChain, next, cur>>
          /\ pc' = [pc EXCEPT ![a] = "linkPrev"]
          /\ Lists(inChain, next, Prev[cur[a]])
          /\ Added(a) /\ cur[a] \notin inChain
      BY <2>2, <2>23 DEF Link, Goto, db, locals, Phase
    <3>2. QED
      BY <1>2, <2>1, <2>3, <3>1 DEF Phase, Added
  <2>10. CASE LinkPrev(a)
    <3>1. /\ UNCHANGED <<blocks, top, cur>>
          /\ inChain' = inChain
          /\ next' = [next EXCEPT ![Prev[cur[a]]] = cur[a]]
          /\ pc' = [pc EXCEPT ![a] = "linkOwn"]
          /\ Lists(inChain, next, Prev[cur[a]])
          /\ Added(a) /\ cur[a] \notin inChain
          /\ Prev[cur[a]] \in inChain /\ next[Prev[cur[a]]] = NoHash
      BY <2>2, <2>10 DEF LinkPrev, PutNext, Goto, locals, Phase, Lists
    <3>2. [next' EXCEPT ![Prev[cur[a]]] = NoHash] = next
      BY <3>1
    <3>3. QED
      BY <1>2, <2>1, <2>3, <3>1, <3>2 DEF Phase, Added
  <2>11. CASE LinkOwn(a)
    <3>1. /\ UNCHANGED <<blocks, top>>
          /\ inChain' = inChain \cup {cur[a]}
          /\ next' = [next EXCEPT ![cur[a]] = NoHash]
          /\ Lists(inChain, [next EXCEPT ![Prev[cur[a]]] = NoHash], Prev[cur[a]])
          /\ next[Prev[cur[a]]] = cur[a]
          /\ Added(a) /\ cur[a] \notin inChain
          /\ Return(a)
      BY <2>2, <2>11 DEF LinkOwn, PutRecord, PutNext, Phase
    <3>2. Prev[cur[a]] \in Block
      BY <2>2, <3>1 DEF Lists
    <3>3. Lists(inChain', next', cur[a])
      BY <2>2, <3>1, <3>2, ListsAppend
    <3>4. QED
      BY <1>2, <2>4, <3>1, <3>3 DEF Added
  <2>12. CASE Iterate(a)
    <3>1. /\ UNCHANGED <<blocks, top, inChain, next, cur, last, fresh>>
          /\ at' = [at EXCEPT ![a] = top]
          /\ pc' = [pc EXCEPT ![a] = "walk"]
          /\ Lists(inChain, next, last[a])
          /\ Added(a) /\ cur[a] \notin inChain
          /\ fresh[a] = <<>>
      BY <2>2, <2>12 DEF Iterate, Goto, db, Phase
    <3>2. Stack(a, at[a])'
      <4>1. Links(<<>>, cur[a], cur[a], blocks \ inChain)
        BY EmptySeq DEF Links
      <4>2. QED
        BY <3>1, <4>1 DEF Stack, Added
    <3>3. QED
      BY <1>2, <2>1, <2>3, <3>1, <3>2 DEF Phase, Added
  <2>13. ~(LinkFails(a) \/ UnlinkFails(a) \/ RelinkFails(a) \/ ReadTopFails(a)
           \/ WalkPanics(a))
    <3>1. ~LinkFails(a)
      BY <2>2 DEF LinkFails, CanAppend, Phase, Lists
    <3>2. ~UnlinkFails(a)
      <4>1. ASSUME UnlinkFails(a) PROVE FALSE
        <5>1. Lists(inChain, next, at[a]) /\ merge[a] \in inChain /\ at[a] # merge[a]
          BY <2>2, <4>1 DEF UnlinkFails, Phase
        <5>2. QED
          BY <4>1, <5>1 DEF UnlinkFails, CanRemove, Lists
      <4>2. QED
        BY <4>1
    <3>3. ~RelinkFails(a)
      BY <2>2 DEF RelinkFails, CanAppend, Phase, Lists
    <3>4. ~ReadTopFails(a)
      BY <1>3 DEF ReadTopFails, StoredClosed, CurStored
    <3>5. ~WalkPanics(a)
      BY <1>3 DEF WalkPanics, CurStored
    <3>6. QED
      BY <3>1, <3>2, <3>3, <3>4, <3>5
  <2>24. CASE Walk(a)
    <3>1. /\ UNCHANGED <<blocks, top, inChain, next, cur, last, at, fresh>>
          /\ pc' = [pc EXCEPT ![a] = "meet"]
          /\ Added(a) /\ Lists(inChain, next, last[a]) /\ Stack(a, at[a])
      BY <2>2, <2>24 DEF Walk, Goto, db, locals, Phase
    <3>2. Stack(a, at[a])'
      BY <3>1 DEF Stack
    <3>3. QED
      BY <1>2, <2>1, <2>3, <3>1, <3>2 DEF Phase, Added
  <2>14. CASE WalkDown(a)
    <3>1. /\ UNCHANGED <<blocks, top, inChain, next, cur, last>>
          /\ at[a] \in blocks \ inChain
          /\ fresh' = [fresh EXCEPT ![a] = Append(fresh[a], at[a])]
          /\ Added(a) /\ Lists(inChain, next, last[a]) /\ Stack(a, at[a])
      BY <1>3, <2>2, <2>14 DEF WalkDown, db, Phase, CurStored
    <3>2. at[a] \in Block \ {Genesis}
      BY <3>1 DEF Lists
    <3>3. Prev[at[a]] # NoHash
      BY <3>2
    <3>4. pc' = [pc EXCEPT ![a] = "walk"] /\ at' = [at EXCEPT ![a] = Prev[at[a]]]
      BY <2>14, <3>3 DEF WalkDown, Goto
    <3>5. Stack(a, at[a])'
      <4>1. blocks \ inChain \in SUBSET (Block \ {Genesis})
        BY <3>1 DEF Lists
      <4>2. Links(Append(fresh[a], at[a]), cur[a], Prev[at[a]], blocks \ inChain)
        BY <2>2, <3>1, <4>1, LinksPush DEF Stack
      <4>3. QED
        BY <3>1, <3>4, <4>2 DEF Stack
    <3>6. QED
      BY <1>2, <2>1, <2>3, <3>1, <3>4, <3>5 DEF Phase, Added
  <2>15. CASE WalkMeets(a)
    <3>1. /\ UNCHANGED <<blocks, top, inChain, next, cur, fresh>>
          /\ merge' = [merge EXCEPT ![a] = at[a]]
          /\ at' = [at EXCEPT ![a] = last[a]]
          /\ pc' = [pc EXCEPT ![a] = "unlink"]
          /\ at[a] \in inChain
          /\ Added(a) /\ Lists(inChain, next, last[a]) /\ Stack(a, at[a])
      BY <2>2, <2>15 DEF WalkMeets, Goto, db, Phase
    <3>2. Stack(a, merge[a])'
      BY <3>1 DEF Stack
    <3>3. QED
      BY <1>2, <2>1, <2>3, <3>1, <3>2 DEF Phase, Added
  <2>16. CASE Unlink(a)
    <3>1. /\ UNCHANGED <<blocks, top, inChain, next, cur, at, merge, fresh>>
          /\ at[a] # merge[a]
          /\ Added(a) /\ merge[a] \in inChain /\ Stack(a, merge[a])
          /\ Lists(inChain, next, at[a])
      BY <2>2, <2>16 DEF Unlink, db, locals, Phase
    <3>2. at[a] # Genesis
      BY <3>1, ListsGenesis
    <3>3. Prev[at[a]] # NoHash
      BY <3>1, <3>2 DEF Lists
    <3>4. pc' = [pc EXCEPT ![a] = "unlinkPrev"]
      BY <2>16, <3>3 DEF Unlink, Goto
    <3>5. Stack(a, merge[a])'
      BY <3>1 DEF Stack
    <3>6. Lists(inChain, next, at[a])'
      BY <3>1
    <3>7. Phase(a)'
      BY <2>1, <3>1, <3>2, <3>4, <3>5, <3>6 DEF Phase, Added
    <3>8. QED
      BY <1>2, <2>1, <2>3, <3>1, <3>4, <3>7
  <2>25. CASE UnlinkPrev(a)
    <3>1. /\ UNCHANGED <<blocks, top, cur, at, merge, fresh>>
          /\ at[a] # merge[a] /\ at[a] # Genesis
          /\ pc' = [pc EXCEPT ![a] = "unlinkOwn"]
          /\ next' = [next EXCEPT ![Prev[at[a]]] = NoHash]
          /\ inChain' = inChain \cup {Prev[at[a]]}
          /\ Added(a) /\ merge[a] \in inChain /\ Stack(a, merge[a])
          /\ Lists(inChain, next, at[a])
      BY <2>2, <2>25 DEF UnlinkPrev, PutNext, Goto, locals, Phase
    <3>3. /\ at[a] \in Block \ {Genesis} /\ Prev[at[a]] \in inChain
          /\ next[Prev[at[a]]] = at[a]
      BY <3>1 DEF Lists
    <3>4. Prev[at[a]] \in Block /\ inChain' = inChain
      BY <3>1, <3>3
    <3>5. next'[Prev[at[a]]] = NoHash /\ [next' EXCEPT ![Prev[at[a]]] = at[a]] = next
      <4>1. [[next EXCEPT ![Prev[at[a]]] = NoHash] EXCEPT ![Prev[at[a]]]
               = next[Prev[at[a]]]] = next
        BY <3>4, PutBack
      <4>2. QED
        BY <3>1, <3>3, <3>4, <4>1
    <3>6. Stack(a, merge[a])'
      BY <3>1, <3>4 DEF Stack
    <3>7. Lists(inChain, [next EXCEPT ![Prev[at[a]]] = at[a]], at[a])'
      <4>1. inChain' = inChain /\ at'[a] = at[a]
        BY <3>1, <3>4
      <4>2. [next' EXCEPT ![Prev[at'[a]]] = at'[a]] = next
        BY <3>5, <4>1
      <4>3. Lists(inChain, next, at[a])
        BY <3>1
      <4>4. QED
        BY <4>1, <4>2, <4>3
    <3>8. Phase(a)'
      BY <2>1, <3>1, <3>4, <3>5, <3>6, <3>7 DEF Phase, Added
    <3>9. QED
      BY <1>2, <2>1, <2>3, <3>1, <3>4, <3>8
  <2>17. CASE UnlinkOwn(a)
    <3>1. /\ UNCHANGED <<blocks, top, cur, merge, fresh>>
          /\ inChain' = inChain \ {at[a]}
          /\ next' = [next EXCEPT ![at[a]] = NoHash]
          /\ at' = [at EXCEPT ![a] = Prev[at[a]]]
          /\ pc' = [pc EXCEPT ![a] = "unlink"]
          /\ at[a] \notin {merge[a], Genesis}
          /\ Added(a) /\ merge[a] \in inChain /\ Stack(a, merge[a])
          /\ Lists(inChain, [next EXCEPT ![Prev[at[a]]] = at[a]], at[a])
          /\ next[Prev[at[a]]] = NoHash
      BY <2>2, <2>17 DEF UnlinkOwn, DeleteRecord, Goto, Phase
    <3>2. at[a] \in Block \ {Genesis}
      BY <2>17, <3>1 DEF UnlinkOwn
    <3>3. Lists(inChain', next', Prev[at[a]])
      BY <3>1, <3>2, ListsCut
    <3>4. Stack(a, merge[a])'
      <4>1. blocks \ inChain \subseteq blocks' \ inChain'
        BY <3>1
      <4>2. Links(fresh[a], cur[a], merge[a], blocks' \ inChain')
        BY <3>1, <4>1, LinksMore DEF Stack
      <4>3. QED
        BY <3>1, <4>2 DEF Stack
    <3>5. Lists(inChain, next, at[a])'
      BY <3>1, <3>3
    <3>6. Phase(a)'
      BY <2>1, <3>1, <3>4, <3>5 DEF Phase, Added
    <3>7. QED
      BY <1>2, <2>1, <2>3, <3>1, <3>6
  <2>18. CASE UnlinkDone(a)
    <3>1. /\ UNCHANGED <<blocks, top, inChain, next, cur, merge, fresh>>
          /\ pc' = [pc EXCEPT ![a] = "relink"]
          /\ Added(a) /\ Stack(a, merge[a]) /\ Lists(inChain, next, merge[a])
      BY <2>2, <2>18 DEF UnlinkDone, Goto, db, locals, Phase
    <3>2. Stack(a, merge[a])'
      BY <3>1 DEF Stack
    <3>3. QED
      BY <1>2, <2>1, <2>3, <3>1, <3>2 DEF Phase, Added
  <2>19. CASE Relink(a)
    <3>1. /\ UNCHANGED <<blocks, top, inChain, next, cur, merge, fresh>>
          /\ fresh[a] # <<>>
          /\ Added(a) /\ Stack(a, merge[a]) /\ Lists(inChain, next, merge[a])
      BY <2>2, <2>19 DEF Relink, db, locals, Phase
    <3>2. merge[a] \in Block
      BY <3>1 DEF Lists
    <3>3. pc' = [pc EXCEPT ![a] = "relinkPrev"]
      BY <2>19, <3>2 DEF Relink, Goto
    <3>4. Stack(a, merge[a])'
      BY <3>1 DEF Stack
    <3>5. Phase(a)'
      BY <2>1, <3>1, <3>3, <3>4 DEF Phase, Added
    <3>6. QED
      BY <1>2, <2>1, <2>3, <3>1, <3>3, <3>5
  <2>26. CASE RelinkPrev(a)
    <3>1. /\ UNCHANGED <<blocks, top, cur, merge, fresh>>
          /\ fresh[a] # <<>>
          /\ pc' = [pc EXCEPT ![a] = "relinkOwn"]
          /\ inChain' = inChain \cup {merge[a]}
          /\ next' = [next EXCEPT ![merge[a]] = Lowest(fresh[a])]
          /\ Added(a) /\ Stack(a, merge[a]) /\ Lists(inChain, next, merge[a])
      BY <2>2, <2>26 DEF RelinkPrev, PutNext, Goto, locals, Phase
    <3>2. merge[a] \in Block /\ next[merge[a]] = NoHash
      BY <3>1 DEF Lists
    <3>3. inChain' = inChain
      BY <3>1 DEF Lists
    <3>4. next'[merge[a]] = Lowest(fresh[a]) /\ [next' EXCEPT ![merge[a]] = NoHash] = next
      <4>1. [[next EXCEPT ![merge[a]] = Lowest(fresh[a])] EXCEPT ![merge[a]]
               = next[merge[a]]] = next
        BY <3>2, PutBack
      <4>2. QED
        BY <3>1, <3>2, <4>1
    <3>5. Stack(a, merge[a])'
      BY <3>1, <3>3 DEF Stack
    <3>6. Lists(inChain, [next EXCEPT ![merge[a]] = NoHash], merge[a])'
      <4>1. inChain' = inChain /\ merge'[a] = merge[a]
        BY <3>1, <3>3
      <4>2. [next' EXCEPT ![merge'[a]] = NoHash] = next
        BY <3>4, <4>1
      <4>3. Lists(inChain, next, merge[a])
        BY <3>1
      <4>4. QED
        BY <4>1, <4>2, <4>3
    <3>9. pc'[a] = "relinkOwn" /\ Added(a)' /\ fresh'[a] # <<>>
          /\ (next[merge[a]] = Lowest(fresh[a]))'
      BY <3>1, <3>4 DEF Added
    <3>7. Phase(a)'
      BY <3>5, <3>6, <3>9 DEF Phase
    <3>8. QED
      BY <1>2, <2>1, <2>3, <3>1, <3>3, <3>7
  <2>20. CASE RelinkOwn(a)
    <3>1. /\ UNCHANGED <<blocks, top, cur>>
          /\ fresh[a] # <<>>
          /\ inChain' = inChain \cup {Lowest(fresh[a])}
          /\ next' = [next EXCEPT ![Lowest(fresh[a])] = NoHash]
          /\ merge' = [merge EXCEPT ![a] = Lowest(fresh[a])]
          /\ fresh' = [fresh EXCEPT ![a] = AllButLowest(fresh[a])]
          /\ pc' = [pc EXCEPT ![a] = "relink"]
          /\ Added(a) /\ Stack(a, merge[a])
          /\ Lists(inChain, [next EXCEPT ![merge[a]] = NoHash], merge[a])
          /\ next[merge[a]] = Lowest(fresh[a])
      BY <2>2, <2>20 DEF RelinkOwn, PutRecord, PutNext, Goto, Phase
    <3>2. /\ Lowest(fresh[a]) \in blocks \ inChain
          /\ Prev[Lowest(fresh[a])] = merge[a]
          /\ Links(AllButLowest(fresh[a]), cur[a], Lowest(fresh[a]),
                   (blocks \ inChain) \ {Lowest(fresh[a])})
      <4>1. /\ fresh[a] \in Seq(Block)
            /\ blocks \ inChain \in SUBSET Block
            /\ Links(fresh[a], cur[a], merge[a], blocks \ inChain)
        BY <3>1 DEF Stack
      <4>2. fresh[a] # <<>> /\ cur[a] \in Block
        BY <2>2, <3>1
      <4> HIDE DEF TypeInv, TypeOK, LocalsOK, Hash
      <4>3. QED
        BY <4>1, <4>2, LinksPop
    <3>3. merge[a] \in Block
      BY <3>1 DEF Lists
    <3>4. Lists(inChain', next', Lowest(fresh[a]))
      BY <3>1, <3>2, <3>3, ListsAppend
    <3>5. Stack(a, merge[a])'
      <4>1. blocks' \ inChain' = (blocks \ inChain) \ {Lowest(fresh[a])}
        BY <3>1
      <4>2. fresh'[a] = AllButLowest(fresh[a]) /\ merge'[a] = Lowest(fresh[a])
        BY <3>1
      <4>3. Links(fresh'[a], cur'[a], merge'[a], blocks' \ inChain')
        BY <3>1, <3>2, <4>1, <4>2
      <4>4. QED
        BY <4>3 DEF Stack
    <3>6. (inChain \subseteq blocks)'
      BY <1>2, <3>1, <3>2
    <3>7. Lists(inChain, next, merge[a])'
      BY <3>1, <3>4
    <3>8. Phase(a)'
      BY <2>1, <3>1, <3>5, <3>7 DEF Phase, Added
    <3>9. QED
      BY <2>1, <2>3, <3>1, <3>6, <3>8
  <2>21. CASE RelinkDone(a)
    <3>1. /\ Return(a) /\ UNCHANGED db
          /\ merge[a] = cur[a] /\ Added(a) /\ Lists(inChain, next, merge[a])
      BY <2>2, <2>21 DEF RelinkDone, Phase, Stack, Links
    <3>2. QED
      BY <1>2, <2>4, <3>1 DEF db, Added
  <2>22. QED
    BY <1>5, <2>5, <2>6, <2>7, <2>8, <2>9, <2>10, <2>11, <2>12, <2>13, <2>14,
       <2>15, <2>16, <2>17, <2>18, <2>19, <2>20, <2>21, <2>23, <2>24, <2>25, <2>26
    DEF AddStep
<1>6. CASE UNCHANGED vars
  BY <1>2, <1>6 DEF vars, Phase, Idle, Stack, Added
<1>7. QED
  BY <1>1, <1>4, <1>5, <1>6 DEF Next

\* The parts of the invariant together.
LEMMA Invariant ==
  ASSUME OneNode
  PROVE  Spec => []IInv
<1>1. Init => ChainInv
  BY BlockTree DEF Init, ChainInv, Idle, Lists, Phase
<1>2. TypeInv /\ TypeInv' /\ Serial /\ StoreInv /\ ChainInv /\ [Next]_vars => ChainInv'
  BY ChainStep
<1>3. QED
  BY <1>1, <1>2, StoreInvariant, PTL DEF Spec, IInv

\* With one Node object and without faults, whenever no block is being added the
\* chain table lists exactly the path from the genesis block to the top: for
\* every tree of blocks and every order in which they arrive, a replacement of
\* branches removes all of the old one and links all of the new one.
THEOREM ChainTableCorrect ==
  ASSUME OneNode
  PROVE  Spec => []ChainIsPrimaryBranch
<1>1. IInv => ChainIsPrimaryBranch
  BY DEF IInv, ChainInv, ChainIsPrimaryBranch, Lists, ListsPathTo
<1>2. QED
  BY <1>1, Invariant, PTL

(***************************************************************************)
(* The top                                                                 *)
(***************************************************************************)

\* Only SaveTop and DropSave write the top hash.
LEMMA TopWrites ==
  ASSUME [Next]_vars, top' # top, ~DropSave
  PROVE  \E a \in Adder : SaveTop(a)
<1>1. \A a \in Adder, b \in Block : Start(a, b) => top' = top
  BY DEF Start, db
<1>2. \A a \in Adder : AddStep(a) => top' = top \/ SaveTop(a)
  BY DEF AddStep, db, Refuse, Accept, PutBlock, ReadTop, ReadTopLower,
         ReadTopNotLower, ReadTopFails, Link, LinkFails, LinkPrev, LinkOwn, Iterate,
         Walk, WalkDown, WalkMeets, WalkPanics, Unlink, UnlinkPrev, UnlinkOwn,
         UnlinkFails, UnlinkDone, Relink, RelinkPrev, RelinkOwn, RelinkFails,
         RelinkDone
<1>3. Crash \/ UNCHANGED vars => top' = top
  BY DEF Crash, db, vars
<1>4. DropBlock => top' = top
  BY DEF DropBlock, DropRead, DropDelete, DropRemove, DropRemoveFails,
         DropRemovePrev, DropRemoveOwn, DropDies, db
<1>5. QED
  BY <1>1, <1>2, <1>3, <1>4 DEF Next

\* The block that is about to be saved as the top is higher than the top, the top
\* that was read is not lower than the one that is there (it can have been dropped
\* since), and nor is the block that the command is about to drop higher.
SaveRises ==
  /\ \A a \in Adder : pc[a] = "saveTop" => Higher(cur[a], top)
  /\ \A a \in Adder : pc[a] = "readBlock" => last[a] = top \/ Higher(last[a], top)
  /\ cmd = "save" => victim = top \/ Higher(top, victim)

\* A block above one that is not lower is above the lower one, too.
LEMMA HigherStill ==
  ASSUME NEW h \in Hash, NEW k \in Hash, NEW t \in Hash,
         Higher(h, k), k = t \/ Higher(k, t)
  PROVE  Higher(h, t)
  BY BlockTree DEF Hash, Higher

\* Every step keeps it that a top that is about to be saved is a higher block.
LEMMA SaveRisesStep ==
  ASSUME OneNode, TypeInv, Serial, SaveRises, [Next]_vars
  PROVE  SaveRises'
<1> USE DEF TypeInv, TypeOK, LocalsOK, SaveRises
<1>1. ASSUME NEW a \in Adder, NEW b \in Block, Start(a, b) PROVE SaveRises'
  BY <1>1, StartAlone DEF Start, Idle, db, outside
<1>2. ASSUME NEW a \in Adder, AddStep(a) PROVE SaveRises'
  <2>1. pc[a] # "idle" /\ \A b \in Adder \ {a} : pc[b] = "idle"
    BY <1>2, StepAlone
  <2>2. cur[a] \in Hash /\ last[a] \in Hash /\ top \in Hash /\ UNCHANGED <<cmd, victim>>
    BY <1>2, StepOutside DEF outside
  <2>3. CASE ReadTop(a)
    BY <2>1, <2>2, <2>3 DEF ReadTop, Goto, db
  <2>4. CASE ReadTopLower(a)
    <3>1. Higher(cur[a], last[a]) /\ (last[a] = top \/ Higher(last[a], top))
      BY <2>1, <2>4, BlockTree DEF ReadTopLower, Higher
    <3>2. Higher(cur[a], top)
      BY <2>2, <3>1, HigherStill
    <3>3. QED
      BY <2>1, <2>2, <2>4, <3>2 DEF ReadTopLower, Goto, db, locals
  <2>5. CASE SaveTop(a)
    <3>1. Higher(cur[a], top) /\ top' = cur[a]
      BY <2>5 DEF SaveTop
    <3>2. \A b \in Adder : pc'[b] \notin {"readBlock", "saveTop"}
      BY <2>1, <2>5 DEF SaveTop, Goto
    <3>3. cmd = "save" => Higher(cur[a], victim)
      BY <2>2, <3>1, HigherStill
    <3>4. QED
      BY <2>2, <3>1, <3>2, <3>3
  <2>6. CASE ~ReadTop(a) /\ ~ReadTopLower(a) /\ ~SaveTop(a)
    <3>1. \A b \in Adder : pc'[b] \notin {"readBlock", "saveTop"}
      BY <1>2, <2>1, <2>6
      DEF AddStep, Refuse, Accept, PutBlock, ReadTopNotLower, ReadTopFails, Link,
          LinkFails, LinkPrev, LinkOwn, Iterate, Walk, WalkDown, WalkMeets,
          WalkPanics, Unlink, UnlinkPrev, UnlinkOwn, UnlinkFails, UnlinkDone,
          Relink, RelinkPrev, RelinkOwn, RelinkFails, RelinkDone, Goto, Return,
          Restart
    <3>2. top' = top
      BY <1>2, <2>6
      DEF AddStep, db, Refuse, Accept, PutBlock, ReadTopNotLower, ReadTopFails, Link,
          LinkFails, LinkPrev, LinkOwn, Iterate, Walk, WalkDown, WalkMeets,
          WalkPanics, Unlink, UnlinkPrev, UnlinkOwn, UnlinkFails, UnlinkDone,
          Relink, RelinkPrev, RelinkOwn, RelinkFails, RelinkDone
    <3>3. QED
      BY <2>2, <3>1, <3>2
  <2>7. QED
    BY <2>3, <2>4, <2>5, <2>6
<1>3. CASE Crash
  BY <1>3 DEF Crash, Restart, db
<1>4. CASE DropBlock
  <2>1. UNCHANGED <<pc, cur, last>>
    BY <1>4, DropStep DEF daemon, locals
  <2>2. CASE DropSave
    <3>1. cmd = "save" /\ cmd' # "save" /\ victim \in Block /\ top' = Prev[victim]
      BY <2>2 DEF DropSave
    <3>2. Higher(victim, top')
      BY <3>1, BlockTree, HeightOfParent DEF Higher
    <3>3. top \in Hash /\ top' \in Hash /\ victim \in Hash
      BY <3>1, BlockTree DEF Hash
    <3>4. Higher(top, top')
      BY <3>1, <3>2, <3>3, HigherStill
    <3>5. ASSUME NEW a \in Adder, pc[a] = "saveTop" PROVE Higher(cur[a], top')
      BY <3>3, <3>4, <3>5, HigherStill
    <3>6. ASSUME NEW a \in Adder, pc[a] = "readBlock" PROVE Higher(last[a], top')
      BY <3>3, <3>4, <3>6, HigherStill
    <3>7. QED
      BY <2>1, <3>1, <3>5, <3>6
  <2>3. CASE DropRead
    BY <2>1, <2>3 DEF DropRead, db
  <2>4. CASE ~DropSave /\ ~DropRead
    <3>1. top' = top /\ cmd' # "save"
      BY <1>4, <2>4
      DEF DropBlock, DropDelete, DropRemove, DropRemoveFails, DropRemovePrev,
          DropRemoveOwn, DropDies, DropEnds, db
    <3>2. QED
      BY <2>1, <3>1
  <2>5. QED
    BY <2>2, <2>3, <2>4
<1>5. CASE UNCHANGED vars
  BY <1>5 DEF vars
<1>6. QED
  BY <1>1, <1>2, <1>3, <1>4, <1>5 DEF Next

\* With one Node object, the top only changes to a higher block, except when the
\* command dropblock saves a lower one: also after crashes, and with the statements
\* of the command between those of AddBlock.
THEOREM TopRises ==
  ASSUME OneNode
  PROVE  Spec => TopOnlyRises
<1>1. Init => SaveRises
  BY DEF Init, SaveRises
<1>2. TypeInv /\ Serial /\ SaveRises /\ [Next]_vars => SaveRises'
  BY SaveRisesStep
<1>3. TypeInv /\ SaveRises /\ [Next]_vars =>
        [top' # top /\ ~DropSave => Higher(top', top)]_vars
  <2> SUFFICES ASSUME TypeInv, SaveRises, [Next]_vars, top' # top, ~DropSave
               PROVE  Higher(top', top)
    OBVIOUS
  <2>1. PICK a \in Adder : SaveTop(a)
    BY TopWrites
  <2>2. QED
    BY <2>1 DEF SaveRises, SaveTop
<1>4. QED
  BY <1>1, <1>2, <1>3, StoreInvariant, PTL DEF Spec, TopOnlyRises

(***************************************************************************)
(* AddBlock implements LongestChain                                        *)
(***************************************************************************)

\* With one call under way, the blocks whose top is still to be saved are its own.
LEMMA PendingOf ==
  ASSUME NEW a \in Adder, NEW f, NEW c, \A b \in Adder \ {a} : f[b] = "idle"
  PROVE  {c[x] : x \in {y \in Adder : f[y] \in {"readTop", "readBlock", "saveTop"}}} =
           IF f[a] \in {"readTop", "readBlock", "saveTop"} THEN {c[a]} ELSE {}
<1> DEFINE X == {y \in Adder : f[y] \in {"readTop", "readBlock", "saveTop"}}
<1>1. X = IF f[a] \in {"readTop", "readBlock", "saveTop"} THEN {a} ELSE {}
  OBVIOUS
<1> HIDE DEF X
<1>2. {c[x] : x \in X} = IF f[a] \in {"readTop", "readBlock", "saveTop"} THEN {c[a]} ELSE {}
  BY <1>1
<1>3. QED
  BY <1>2 DEF X

\* A step that stores nothing and decides nothing is a stutter of LongestChain,
\* ReadTopNotLower is AddParallel and SaveTop is AddHigher.
LEMMA Implements ==
  ASSUME OneNode, TypeInv, TypeInv', Serial, StoreInv, drops = 0, crashes = 0,
         drops' = 0, crashes' = 0, [Next]_vars
  PROVE  [Abstract!Next]_(Abstract!vars)
<1> USE BlockTree DEF TypeInv, TypeOK, LocalsOK, Promoting
<1>1. StoredClosed /\ CurStored
  BY DEF StoreInv
<1>2. UNCHANGED <<blocks, top, Pending>> => UNCHANGED Abstract!vars
  BY DEF Abstract!vars
<1>3. ASSUME NEW a \in Adder, NEW b \in Block, Start(a, b)
      PROVE  UNCHANGED <<blocks, top, Pending>>
  <2>1. \A c \in Adder : pc[c] = "idle"
    BY <1>3, StartAlone DEF Idle
  <2>2. \A c \in Adder : pc'[c] \notin {"readTop", "readBlock", "saveTop"}
    BY <1>3, <2>1 DEF Start
  <2>3. Pending = {} /\ Pending' = {}
    BY <2>1, <2>2 DEF Pending
  <2>4. QED
    BY <1>3, <2>3 DEF Start, db
<1>4. ASSUME NEW a \in Adder, AddStep(a)
      PROVE  [Abstract!Next]_(Abstract!vars)
  <2>1. pc[a] # "idle" /\ \A b \in Adder \ {a} : pc[b] = "idle"
    BY <1>4, StepAlone
  <2>2. Pending = IF Promoting(a) THEN {cur[a]} ELSE {}
    <3>1. {cur[x] : x \in {y \in Adder : pc[y] \in {"readTop", "readBlock", "saveTop"}}}
            = IF pc[a] \in {"readTop", "readBlock", "saveTop"} THEN {cur[a]} ELSE {}
      <4> HIDE DEF TypeInv, TypeOK, LocalsOK, Promoting
      <4>1. QED
        BY <2>1, PendingOf, Zenon
    <3>2. QED
      BY <3>1 DEF Pending
  <2>20. ASSUME \A b \in Adder \ {a} : pc'[b] = "idle"
         PROVE  Pending' = IF Promoting(a)' THEN {cur'[a]} ELSE {}
    BY <2>20, PendingOf DEF Pending
  <2>3. /\ ~ReadTopFails(a) /\ ~WalkPanics(a)
        /\ cur[a] \in Block
    BY <1>1, <2>1 DEF ReadTopFails, WalkPanics, StoredClosed, CurStored
  <2>4. CASE PutBlock(a)
    <3>1. /\ cur[a] \notin blocks /\ blocks' = blocks \cup {cur[a]}
          /\ top' = top /\ cur' = cur /\ pc' = [pc EXCEPT ![a] = "readTop"]
          /\ pc[a] = "put"
      BY <1>1, <2>4 DEF PutBlock, Goto, locals, CurStored
    <3>2. Pending = {} /\ Pending' = {cur[a]}
      BY <2>1, <2>2, <2>20, <3>1
    <3>3. QED
      BY <3>1, <3>2 DEF Abstract!vars
  <2>5. ASSUME Promoting(a), Promoting(a)' , \A b \in Adder \ {a} : pc'[b] = "idle",
               cur' = cur, UNCHANGED <<blocks, top>>
        PROVE  UNCHANGED <<blocks, top, Pending>>
    BY <2>2, <2>20, <2>5
  <2>6. CASE ReadTop(a) \/ ReadTopLower(a)
    BY <1>2, <2>1, <2>5, <2>6 DEF ReadTop, ReadTopLower, Goto, db, locals
  <2>7. ASSUME Promoting(a)
        PROVE  /\ cur[a] \in blocks \ {Genesis} /\ Prev[cur[a]] \in blocks \ {cur[a]}
               /\ Pending = {cur[a]}
    BY <1>1, <2>2, <2>7, HeightOfParent DEF StoredClosed, CurStored
  <2>8. CASE ReadTopNotLower(a)
    <3>1. /\ Promoting(a) /\ UNCHANGED <<blocks, top>>
          /\ Height[cur[a]] <= Height[top]
          /\ \A b \in Adder : pc'[b] = "idle"
      BY <1>1, <2>1, <2>8 DEF ReadTopNotLower, Return, db, CurStored
    <3>2. Pending' = {}
      BY <2>20, <3>1
    <3>3. Abstract!AddParallel(cur[a])
      BY <2>3, <2>7, <3>1, <3>2 DEF Abstract!AddParallel
    <3>4. QED
      <4>1. \E b \in Block : Abstract!AddHigher(b) \/ Abstract!AddParallel(b)
        BY <2>3, <3>3
      <4>2. QED
        BY <4>1 DEF Abstract!Next
  <2>9. CASE SaveTop(a)
    <3>1. /\ Promoting(a) /\ UNCHANGED <<blocks, cur>> /\ top' = cur[a]
          /\ Height[cur[a]] > Height[top]
          /\ pc'[a] \in {"link", "iterate"}
          /\ \A b \in Adder \ {a} : pc'[b] = "idle"
      BY <1>1, <2>1, <2>9 DEF SaveTop, Goto, locals, CurStored
    <3>2. Pending' = {}
      BY <2>20, <3>1
    <3>3. Abstract!AddHigher(cur[a])
      BY <2>3, <2>7, <3>1, <3>2 DEF Abstract!AddHigher
    <3>4. QED
      <4>1. \E b \in Block : Abstract!AddHigher(b) \/ Abstract!AddParallel(b)
        BY <2>3, <3>3
      <4>2. QED
        BY <4>1 DEF Abstract!Next
  <2>10. ASSUME ~Promoting(a), ~Promoting(a)', \A b \in Adder \ {a} : pc'[b] = "idle",
                UNCHANGED <<blocks, top>>
         PROVE  UNCHANGED <<blocks, top, Pending>>
    BY <2>2, <2>20, <2>10
  <2>11. CASE Refuse(a) \/ LinkFails(a) \/ LinkOwn(a) \/ UnlinkFails(a)
              \/ RelinkFails(a) \/ RelinkDone(a)
    BY <1>2, <2>1, <2>10, <2>11
    DEF Refuse, LinkFails, LinkOwn, UnlinkFails, RelinkFails, RelinkDone, Return, db
  <2>12. CASE Accept(a) \/ Link(a) \/ LinkPrev(a)
    BY <1>2, <2>1, <2>10, <2>12 DEF Accept, Link, LinkPrev, Goto, db
  <2>15. CASE Iterate(a) \/ Walk(a) \/ WalkMeets(a)
    BY <1>2, <2>1, <2>10, <2>15 DEF Iterate, Walk, WalkMeets, Goto, db
  <2>16. CASE WalkDown(a)
    BY <1>2, <2>1, <2>10, <2>16 DEF WalkDown, Goto, db
  <2>13. CASE Unlink(a) \/ UnlinkPrev(a) \/ UnlinkOwn(a) \/ UnlinkDone(a)
              \/ Relink(a) \/ RelinkPrev(a) \/ RelinkOwn(a)
    BY <1>2, <2>1, <2>10, <2>13
    DEF Unlink, UnlinkPrev, UnlinkOwn, UnlinkDone, Relink, RelinkPrev, RelinkOwn,
        Goto, db
  <2>14. QED
    BY <1>4, <2>3, <2>4, <2>6, <2>8, <2>9, <2>11, <2>12, <2>13,
       <2>15, <2>16 DEF AddStep
<1>5. ~Crash /\ ~DropBlock
  <2>1. ~Crash
    BY DEF Crash
  <2>2. ~DropBlock
    BY DropCounts DEF StoreInv
  <2>3. QED
    BY <2>1, <2>2
<1>6. CASE UNCHANGED vars
  BY <1>2, <1>6 DEF vars, Pending
<1>7. QED
  BY <1>2, <1>3, <1>4, <1>5, <1>6 DEF Next

\* With one Node object and without faults, the steps of AddBlock implement
\* LongestChain: seen from outside, a block is added in one step, and the top is
\* always the first stored block that reached the greatest height.
THEOREM Refinement ==
  ASSUME OneNode, MaxCrashes = 0, MaxDrops = 0
  PROVE  Spec => IsLongestChain
<1>1. Init => Abstract!Init
  BY BlockTree DEF Init, Abstract!Init, Pending, Promoting
<1>2. /\ TypeInv => drops = 0 /\ crashes = 0
      /\ TypeInv' => drops' = 0 /\ crashes' = 0
  BY DEF TypeInv, TypeOK
<1>3. /\ TypeInv /\ Serial /\ StoreInv
      /\ (TypeInv /\ Serial /\ StoreInv)'
      /\ [Next]_vars
      => [Abstract!Next]_(Abstract!vars)
  BY <1>2, Implements
<1>4. QED
  BY <1>1, <1>3, StoreInvariant, PTL DEF Spec, IsLongestChain, Abstract!Spec
=============================================================================
