----------------------------- MODULE SyncProofs -----------------------------
(***************************************************************************)
(* Theorems about Sync: every state is well typed, nobody is asked for or  *)
(* sends a block that is not stored, and a list of announced blocks is     *)
(* never left behind.                                                      *)
(***************************************************************************)
EXTENDS Sync, SequenceTheorems, TLAPS

(***************************************************************************)
(* The blocks that a node can list.                                        *)
(***************************************************************************)

\* One more block at the end of a path.
AtEnd(c, path, b) == Append(path, b)
Paths == INSTANCE Folding WITH Op <- AtEnd

\* The blocks are a tree whose depths are the heights.
LEMMA BlocksAreTree == Paths!IsTree(Block, Genesis, Prev, Height)
BY BlockTree
   DEF Paths!IsTree

\* The path to a block is the path to its parent and the block.
LEMMA PathStep ==
  ASSUME NEW b \in Block
  PROVE  Path[b] = IF b = Genesis THEN <<b>> ELSE Append(Path[Prev[b]], b)
<1>1. \E f : Paths!IsAlong(f, 0, <<>>, Block, Genesis, Prev)
  BY BlocksAreTree, Paths!AlongExists DEF Paths!IsTree
<1>2. \A x : Append(<<>>, x) = <<x>>
  OBVIOUS
<1>3. \E f : f = [x \in Block |-> IF x = Genesis THEN <<x>> ELSE Append(f[Prev[x]], x)]
  BY <1>1, <1>2
     DEF Paths!IsAlong, AtEnd
<1>4. Path = [x \in Block |-> IF x = Genesis THEN <<x>> ELSE Append(Path[Prev[x]], x)]
  BY <1>3
     DEF Path
<1> QED  BY <1>4

\* Some blocks of which each has its parent among them.
Connected(S) == S \subseteq Block /\ \A b \in S : b = Genesis \/ Prev[b] \in S

\* The path to a block of connected ones has only such blocks, and at least as many as
\* the height of the block needs.
LEMMA PathInside ==
  ASSUME NEW S, Connected(S), NEW b \in S
  PROVE  /\ Path[b] \in Seq(S) /\ Genesis \in S
         /\ Height[b] >= Height[Genesis] /\ Len(Path[b]) = Height[b] - Height[Genesis] + 1
<1> DEFINE G == {x \in Block : x \in S =>
                    /\ Path[x] \in Seq(S) /\ Genesis \in S
                    /\ Height[x] >= Height[Genesis]
                    /\ Len(Path[x]) = Height[x] - Height[Genesis] + 1}
<1>1. Genesis \in G
  <2>1. Genesis \in Block /\ Path[Genesis] = <<Genesis>> /\ Height[Genesis] \in Nat
    BY BlockTree, PathStep
  <2>2. Genesis \in S => <<Genesis>> \in Seq(S)
    OBVIOUS
  <2>3. Len(<<Genesis>>) = 1
    OBVIOUS
  <2>4. Height[Genesis] >= Height[Genesis] /\ 1 = Height[Genesis] - Height[Genesis] + 1
    BY <2>1
  <2> QED  BY <2>1, <2>2, <2>3, <2>4
<1>2. ASSUME NEW x \in Block \ {Genesis}, Prev[x] \in G  PROVE  x \in G
  <2> SUFFICES ASSUME x \in S
               PROVE  /\ Path[x] \in Seq(S) /\ Genesis \in S
                      /\ Height[x] >= Height[Genesis]
                      /\ Len(Path[x]) = Height[x] - Height[Genesis] + 1
    OBVIOUS
  <2>1. /\ Prev[x] \in S /\ Path[x] = Append(Path[Prev[x]], x)
        /\ Height[x] = Height[Prev[x]] + 1 /\ Height[Prev[x]] \in Nat /\ Height[Genesis] \in Nat
    BY BlockTree, PathStep DEF Connected
  <2>2. Path[Prev[x]] \in Seq(S) /\ Genesis \in S
    BY <1>2, <2>1
  <2>3. Path[x] \in Seq(S) /\ Len(Path[x]) = Len(Path[Prev[x]]) + 1
    BY <2>1, <2>2, AppendProperties
  <2> QED  BY <1>2, <2>1, <2>2, <2>3
<1>3. Block \subseteq G
  <2> HIDE DEF G
  <2> QED  BY <1>1, <1>2, BlocksAreTree, Paths!AlongTree
<1>4. b \in Block
  BY DEF Connected
<1> QED  BY <1>3, <1>4

\* A part of a list at its beginning.
LEMMA FirstUpToIsPart ==
  ASSUME NEW S, NEW s \in Seq(S), NEW k \in Nat
  PROVE  FirstUpTo(s, k) \in Seq(S)
<1>1. Len(s) \in Nat /\ \A i \in 1..Len(s) : s[i] \in S
  BY LenProperties, ElementOfSeq
<1>2. 1 \in Int /\ (IF Len(s) < k THEN Len(s) ELSE k) \in 0..Len(s)
  BY <1>1
<1> QED  BY <1>1, <1>2, SubSeqProperties DEF FirstUpTo

\* A list turned round.
LEMMA ReverseIsList ==
  ASSUME NEW S, NEW s \in Seq(S)
  PROVE  Reverse(s) \in Seq(S)
<1>1. Len(s) \in Nat /\ \A i \in 1..Len(s) : s[i] \in S
  BY LenProperties, ElementOfSeq
<1>2. \A i \in 1..Len(s) : (Len(s) - i) + 1 \in 1..Len(s)
  BY <1>1
<1> QED  BY <1>1, <1>2 DEF Reverse

\* The list of the blocks below a block of connected ones.
LEMMA BelowInside ==
  ASSUME NEW S, Connected(S), NEW b \in S, NEW k \in Nat
  PROVE  Below(b, k) \in Seq(S)
BY PathInside, FirstUpToIsPart, ReverseIsList DEF Below

\* The list of the blocks above a block, when the top is one of connected ones.
LEMMA AboveInside ==
  ASSUME NEW n, NEW S, Connected(S), best[n] \in S, NEW b \in S, NEW k \in Nat
  PROVE  Above(n, b, k) \in Seq(S)
<1> DEFINE path == Path[best[n]]
           from == Height[b] - Height[Genesis] + 1
<1>1. path \in Seq(S) /\ from \in Nat /\ from >= 1 /\ Len(path) \in Nat
  <2>1. path \in Seq(S) /\ Height[b] >= Height[Genesis]
    BY PathInside
  <2>2. Height[b] \in Nat /\ Height[Genesis] \in Nat
    BY BlockTree DEF Connected
  <2> QED  BY <2>1, <2>2, LenProperties
<1> HIDE DEF path, from
<1>2. SubSeq(path, from, Len(path)) \in Seq(S)
  <2>1. \A i \in 1..Len(path) : path[i] \in S
    BY <1>1, ElementOfSeq
  <2> QED  BY <1>1, <2>1, SubSeqProperties
<1>3. <<b>> \in Seq(S)
  OBVIOUS
<1>4. FirstUpTo(SubSeq(path, from, Len(path)), k) \in Seq(S)
  BY <1>2, FirstUpToIsPart
<1> QED  BY <1>3, <1>4 DEF Above, path, from

(***************************************************************************)
(* The network.                                                            *)
(***************************************************************************)

\* What a step takes from the network and gives to it.
LEMMA NetIsBag ==
  ASSUME IsABag(msgs), NEW in, NEW out, Net(in, out)
  PROVE  /\ IsABag(msgs')
         /\ DOMAIN msgs' \subseteq DOMAIN msgs \cup {x \in out : x.to \in Reachable}
         /\ (DOMAIN msgs) \ in \subseteq DOMAIN msgs'
         /\ {x \in out : x.to \in Reachable} \subseteq DOMAIN msgs'
<1> DEFINE left == msgs (-) SetToBag(in)
           new == {x \in out : x.to \in Reachable}
<1>1. IsABag(left) /\ DOMAIN left \subseteq DOMAIN msgs /\ (DOMAIN msgs) \ in \subseteq DOMAIN left
  BY DEF IsABag, SetToBag, (-)
<1>2. msgs' = left (+) SetToBag(new)
  BY DEF Net, Sent
<1> HIDE DEF left, new
<1>3. IsABag(left (+) SetToBag(new)) /\ DOMAIN (left (+) SetToBag(new)) = DOMAIN left \cup new
  BY <1>1 DEF IsABag, SetToBag, (+)
<1> QED  BY <1>1, <1>2, <1>3 DEF new

(***************************************************************************)
(* The invariant.                                                          *)
(***************************************************************************)

\* The storage of the nodes, as TypeOK has it.
StorageOK ==
  /\ stored \in [Node -> SUBSET Block] /\ best \in [Node -> Block]
  /\ known \in [Node -> SUBSET Tx]
  /\ \A n \in Node :
       /\ best[n] \in stored[n] /\ Carried(best[n]) \subseteq known[n]
       /\ \A b \in stored[n] :
            Height[b] <= Height[best[n]] /\ (b = Genesis \/ Prev[b] \in stored[n])

\* What the contents of a message say of its two nodes.  A list is only sent to a node
\* that can ask for its blocks, by one that can be asked.
MsgOK(x) ==
  /\ x.from \in Node /\ x.to \in Reachable
  /\ x.type = "inv" => x.from \in Reachable /\ x.data \in Seq(stored[x.from])
  /\ x.type = "getdata" => x.from \in Reachable /\ x.data \in stored[x.to]
  /\ x.type = "getblocks" => x.data \in stored[x.to]
  /\ x.type = "block" => x.data \in stored[x.from]
  /\ x.type = "tx" => x.data \in Tx

\* The bag of messages.
MsgsOK == IsABag(msgs) /\ \A x \in DOMAIN msgs : MsgOK(x)

\* A list that waits has blocks that its sender stores, and both nodes can be reached.
TransitOK ==
  /\ transit \in [Node -> [Node -> Seq(Block)]]
  /\ \A n, m \in Node :
       /\ transit[n][m] \in Seq(stored[m])
       /\ transit[n][m] # <<>> => {n, m} \subseteq Reachable

\* A round of polling.
PullType == [tops : Seq(Block), todo : SUBSET Node, list : Seq(Block), txs : SUBSET Tx]

\* The rest of the types; a block is made on a stored one.
RestOK ==
  /\ loops \in [Node -> [Node -> Nat]]
  /\ verified \in [Node -> SUBSET Node] /\ \A n \in Node : verified[n] \subseteq Others(n)
  /\ pull \in [Node -> PullType]
  /\ minting \in [Node -> Block \cup {NoHash}]
  /\ \A n \in Node : minting[n] # NoHash => Prev[minting[n]] \in stored[n]
  /\ faults \in 0 .. MaxFaults /\ hurt \subseteq Node

\* The inductive invariant.
SyncInv == StorageOK /\ MsgsOK /\ TransitOK /\ RestOK

\* It has the types of TypeOK, and what a message asks for or carries is stored.
LEMMA InvMeans == SyncInv => TypeOK /\ AskedIsStored
BY DEF SyncInv, TypeOK, AskedIsStored, StorageOK, MsgsOK, MsgOK, TransitOK, RestOK, PullType

\* The blocks that a node stores are connected.
LEMMA StoredConnected ==
  ASSUME StorageOK, NEW n \in Node
  PROVE  Connected(stored[n]) /\ best[n] \in stored[n] /\ Genesis \in stored[n]
<1>1. Connected(stored[n]) /\ best[n] \in stored[n]
  BY DEF StorageOK, Connected
<1> QED  BY <1>1, PathInside

\* The blocks are connected, and what a branch carries are transactions.
LEMMA CarriedIsTx ==
  ASSUME NEW b \in Block
  PROVE  Carried(b) \subseteq Tx
<1>1. Connected(Block)
  BY BlockTree DEF Connected
<1>2. Path[b] \in Seq(Block)
  BY <1>1, PathInside
<1>3. \A i \in DOMAIN Path[b] : Path[b][i] \in Block
  BY <1>2
<1> QED  BY <1>3, Carrying DEF Carried, Range

\* The three answers of CheckBlockState.
LEMMA StateMeans ==
  ASSUME NEW n, NEW b
  PROVE  /\ State(n, b) = "exists" <=> b \in stored[n]
         /\ State(n, b) = "canAdd" <=> b \notin stored[n] /\ Prev[b] \in stored[n]
         /\ State(n, b) = "noPrev" <=> b \notin stored[n] /\ Prev[b] \notin stored[n]
<1>1. CASE b \in stored[n]
  BY <1>1 DEF State
<1>2. CASE b \notin stored[n] /\ Prev[b] \in stored[n]
  BY <1>2 DEF State
<1>3. CASE b \notin stored[n] /\ Prev[b] \notin stored[n]
  BY <1>3 DEF State
<1> QED  BY <1>1, <1>2, <1>3

\* Stored blocks stay.
Grows == \A k \in Node : stored[k] \subseteq stored'[k]

\* A block whose parent is stored can be added.
LEMMA StoreKeeps ==
  ASSUME StorageOK, NEW n \in Node, NEW b \in Block, Prev[b] \in stored[n], Store(n, b)
  PROVE  StorageOK' /\ Grows /\ b \in stored'[n]
<1>1. /\ stored \in [Node -> SUBSET Block] /\ best \in [Node -> Block]
      /\ known \in [Node -> SUBSET Tx]
      /\ \A c \in Block : Height[c] \in Nat
  BY BlockTree DEF StorageOK
<1>2. /\ stored' = [stored EXCEPT ![n] = @ \cup {b}]
      /\ best' = [best EXCEPT ![n] = IF Height[b] > Height[@] THEN b ELSE @]
      /\ known' = [known EXCEPT ![n] =
                 IF Height[b] > Height[best[n]] THEN @ \cup Carried(b) ELSE @]
  BY DEF Store
<1>3. /\ stored' \in [Node -> SUBSET Block] /\ best' \in [Node -> Block]
      /\ known' \in [Node -> SUBSET Tx]
  BY <1>1, <1>2, CarriedIsTx
<1>4. /\ stored'[n] = stored[n] \cup {b}
      /\ best'[n] = IF Height[b] > Height[best[n]] THEN b ELSE best[n]
      /\ known'[n] = IF Height[b] > Height[best[n]] THEN known[n] \cup Carried(b) ELSE known[n]
      /\ \A k \in Node \ {n} : stored'[k] = stored[k] /\ best'[k] = best[k] /\ known'[k] = known[k]
  BY <1>1, <1>2
<1>5. ASSUME NEW k \in Node
      PROVE  /\ best'[k] \in stored'[k] /\ Carried(best'[k]) \subseteq known'[k]
             /\ \A c \in stored'[k] :
                  Height[c] <= Height[best'[k]] /\ (c = Genesis \/ Prev[c] \in stored'[k])
  <2>1. /\ best[k] \in stored[k] /\ Carried(best[k]) \subseteq known[k]
        /\ stored[k] \subseteq Block /\ best[k] \in Block
        /\ \A c \in stored[k] :
             Height[c] <= Height[best[k]] /\ (c = Genesis \/ Prev[c] \in stored[k])
    BY DEF StorageOK
  <2>2. CASE k # n
    BY <1>4, <2>1, <2>2
  <2>3. CASE k = n
    <3>1. best'[n] \in stored'[n] /\ Carried(best'[n]) \subseteq known'[n]
      BY <1>4, <2>1, <2>3
    <3>2. ASSUME NEW c \in stored'[n]  PROVE  Height[c] <= Height[best'[n]]
      BY <1>1, <1>4, <2>1, <2>3
    <3>3. ASSUME NEW c \in stored'[n]  PROVE  c = Genesis \/ Prev[c] \in stored'[n]
      BY <1>4, <2>1, <2>3
    <3> QED  BY <2>3, <3>1, <3>2, <3>3
  <2> QED  BY <2>2, <2>3
<1>6. StorageOK'
  BY <1>3, <1>5 DEF StorageOK
<1> QED  BY <1>4, <1>6 DEF Grows

\* The messages that are left and those that are sent are right.
LEMMA NetKeeps ==
  ASSUME MsgsOK, Grows, NEW in, NEW out, Net(in, out),
         \A x \in out : x.to \in Reachable => MsgOK(x)'
  PROVE  MsgsOK'
<1>1. /\ IsABag(msgs')
      /\ DOMAIN msgs' \subseteq DOMAIN msgs \cup {x \in out : x.to \in Reachable}
  BY NetIsBag DEF MsgsOK
<1>2. ASSUME NEW x \in DOMAIN msgs  PROVE  MsgOK(x)'
  <2>1. MsgOK(x) /\ x.from \in Node /\ x.to \in Node
    BY Nodes DEF MsgsOK, MsgOK
  <2>2. stored[x.from] \subseteq stored'[x.from] /\ stored[x.to] \subseteq stored'[x.to]
    BY <2>1 DEF Grows
  <2>3. ASSUME NEW s \in Seq(stored[x.from])  PROVE s \in Seq(stored'[x.from])
    <3>1. Len(s) \in Nat /\ DOMAIN s = 1..Len(s) /\ \A i \in 1..Len(s) : s[i] \in stored'[x.from]
      BY <2>2, LenProperties, ElementOfSeq
    <3> QED  BY <3>1
  <2> QED  BY <2>1, <2>2, <2>3 DEF MsgOK
<1> QED  BY <1>1, <1>2 DEF MsgsOK

\* Lists of some blocks are lists of more blocks.
LEMMA ListsOfMore ==
  ASSUME NEW S, NEW T, S \subseteq T, NEW s \in Seq(S)
  PROVE  s \in Seq(T)
<1>1. Len(s) \in Nat /\ DOMAIN s = 1..Len(s) /\ \A i \in 1..Len(s) : s[i] \in T
  BY LenProperties, ElementOfSeq
<1> QED  BY <1>1

\* Lists that wait stay right while blocks are added.
LEMMA TransitStays ==
  ASSUME TransitOK, Grows, UNCHANGED transit
  PROVE  TransitOK'
<1>1. ASSUME NEW n \in Node, NEW m \in Node  PROVE  transit[n][m] \in Seq(stored'[m])
  BY ListsOfMore DEF TransitOK, Grows
<1> QED  BY <1>1 DEF TransitOK

\* The rest stays right while blocks are added.
LEMMA RestStays ==
  ASSUME RestOK, Grows, UNCHANGED <<loops, verified, pull, minting, failures>>
  PROVE  RestOK'
<1>1. ASSUME NEW n \in Node, minting[n] # NoHash  PROVE  Prev[minting[n]] \in stored'[n]
  BY <1>1 DEF RestOK, Grows
<1> QED  BY <1>1 DEF RestOK, failures

\* The storage of a node that stores nothing.
LEMMA StorageStays ==
  ASSUME StorageOK, UNCHANGED storage
  PROVE  StorageOK' /\ Grows
BY DEF StorageOK, Grows, storage

\* The nodes of a message.
LEMMA MsgNodes ==
  ASSUME MsgsOK, NEW x \in DOMAIN msgs
  PROVE  MsgOK(x) /\ x.from \in Node /\ x.to \in Node /\ x.to \in Reachable
BY Nodes DEF MsgsOK, MsgOK

\* The contacts of a node are nodes.
LEMMA OthersAreNodes ==
  ASSUME NEW n \in Node
  PROVE  Others(n) \subseteq Node /\ Last(Contacts[n]) \in Node
<1>1. Contacts[n] \in Seq(Node) /\ Contacts[n] # <<>>
  BY Nodes
<1>2. Len(Contacts[n]) \in Nat /\ DOMAIN Contacts[n] = 1..Len(Contacts[n]) /\ Len(Contacts[n]) # 0
  BY <1>1, LenProperties, EmptySeq
<1>3. \A i \in 1..Len(Contacts[n]) : Contacts[n][i] \in Node
  BY <1>1, ElementOfSeq
<1> QED  BY <1>2, <1>3 DEF Others, Range, Last

\* A handler that only answers: what it sends is right.
LEMMA AnswerKeeps ==
  ASSUME SyncInv, NEW in, NEW out, Net(in, out),
         UNCHANGED <<storage, lists, verified, pull, minting, failures>>,
         \A x \in out : x.to \in Reachable => MsgOK(x)
  PROVE  SyncInv'
<1>1. StorageOK' /\ Grows /\ stored' = stored
  BY StorageStays DEF SyncInv, storage
<1>2. \A x \in out : x.to \in Reachable => MsgOK(x)'
  BY <1>1 DEF MsgOK
<1>3. MsgsOK'
  BY <1>1, <1>2, NetKeeps DEF SyncInv
<1> QED  BY <1>1, <1>3, TransitStays, RestStays DEF SyncInv, lists

\* A version is answered, by a question to a reachable node or not at all.
LEMMA VersionKeeps ==
  ASSUME SyncInv, NEW x \in DOMAIN msgs, HandleVersion(x)
  PROVE  SyncInv'
<1>1. MsgOK(x) /\ x.from \in Node /\ x.to \in Node /\ x.to \in Reachable
  BY MsgNodes DEF SyncInv
<1> DEFINE mine == Height[best[x.to]]
           out == IF mine < x.data
                    THEN {Msg(x.to, x.from, "getupper", best[x.to])}
                    ELSE IF mine > x.data THEN {Msg(x.to, x.from, "version", mine)} ELSE {}
<1>2. ASSUME NEW y \in out, y.to \in Reachable  PROVE  MsgOK(y)
  <2>1. y.from = x.to /\ y.type \in {"getupper", "version"}
    BY DEF Msg
  <2> QED  BY <1>1, <1>2, <2>1 DEF MsgOK
<1>3. Net({x}, out) /\ UNCHANGED <<storage, lists, verified, pull, minting, failures>>
  BY DEF HandleVersion
<1> HIDE DEF out
<1> QED  BY <1>2, <1>3, AnswerKeeps

\* A list of blocks is sent of those that its sender stores.
LEMMA InvIsRight ==
  ASSUME NEW n \in Reachable, NEW m \in Node, NEW s \in Seq(stored[n]), n \in Node
  PROVE  MsgOK(Msg(n, m, "inv", s)) \/ m \notin Reachable
BY DEF MsgOK, Msg

\* The blocks above are listed from what is stored.
LEMMA GetBlocksUpperKeeps ==
  ASSUME SyncInv, NEW x \in DOMAIN msgs, HandleGetBlocksUpper(x)
  PROVE  SyncInv'
<1>1. MsgOK(x) /\ x.from \in Node /\ x.to \in Node /\ x.to \in Reachable
  BY MsgNodes DEF SyncInv
<1>2. Connected(stored[x.to]) /\ best[x.to] \in stored[x.to]
  BY <1>1, StoredConnected DEF SyncInv
<1>3. UpperPage \in Nat /\ ShortPage + 1 \in Nat
  BY Pages
<1>4. UpperReply(x.to, x.data) \in Seq(stored[x.to])
  <2>1. Below(best[x.to], ShortPage + 1) \in Seq(stored[x.to])
    BY <1>2, <1>3, BelowInside
  <2>2. x.data \in stored[x.to] => Above(x.to, x.data, UpperPage) \in Seq(stored[x.to])
    BY <1>2, <1>3, AboveInside
  <2> QED  BY <2>1, <2>2, ReverseIsList DEF UpperReply
<1> DEFINE out == {Msg(x.to, x.from, "inv", UpperReply(x.to, x.data))}
<1>5. \A y \in out : y.to = x.from /\ (y.to \in Reachable => MsgOK(y))
  BY <1>1, <1>4, InvIsRight DEF Msg
<1>6. Net({x}, out) /\ UNCHANGED <<storage, lists, verified, pull, minting, failures>>
  BY DEF HandleGetBlocksUpper
<1> HIDE DEF out
<1> QED  BY <1>5, <1>6, AnswerKeeps

\* So are the blocks below a stored one.
LEMMA GetBlocksKeeps ==
  ASSUME SyncInv, NEW x \in DOMAIN msgs, HandleGetBlocks(x)
  PROVE  SyncInv'
<1>1. MsgOK(x) /\ x.from \in Node /\ x.to \in Node /\ x.to \in Reachable
  BY MsgNodes DEF SyncInv
<1>2. Connected(stored[x.to]) /\ x.data \in stored[x.to] /\ ShortPage + 1 \in Nat
  BY <1>1, StoredConnected, Pages DEF SyncInv, MsgOK, HandleGetBlocks
<1>3. Reverse(Below(x.data, ShortPage + 1)) \in Seq(stored[x.to])
  BY <1>2, BelowInside, ReverseIsList
<1> DEFINE out == {Msg(x.to, x.from, "inv", Reverse(Below(x.data, ShortPage + 1)))}
<1>4. \A y \in out : y.to = x.from /\ (y.to \in Reachable => MsgOK(y))
  BY <1>1, <1>3, InvIsRight DEF Msg
<1>5. Net({x}, out) /\ UNCHANGED <<storage, lists, verified, pull, minting, failures>>
  BY DEF HandleGetBlocks
<1> HIDE DEF out
<1> QED  BY <1>4, <1>5, AnswerKeeps

\* A block is sent if it is stored.
LEMMA GetDataKeeps ==
  ASSUME SyncInv, NEW x \in DOMAIN msgs, HandleGetData(x)
  PROVE  SyncInv'
<1>1. MsgOK(x) /\ x.from \in Node /\ x.to \in Node /\ x.to \in Reachable
  BY MsgNodes DEF SyncInv
<1> DEFINE out == IF x.data \in stored[x.to] THEN {Msg(x.to, x.from, "block", x.data)} ELSE {}
<1>2. ASSUME NEW y \in out, y.to \in Reachable  PROVE  MsgOK(y)
  <2>1. y.from = x.to /\ y.type = "block" /\ y.data \in stored[x.to]
    BY DEF Msg
  <2> QED  BY <1>1, <1>2, <2>1 DEF MsgOK
<1>3. Net({x}, out) /\ UNCHANGED <<storage, lists, verified, pull, minting, failures>>
  BY DEF HandleGetData
<1> HIDE DEF out
<1> QED  BY <1>2, <1>3, AnswerKeeps

\* A list that comes in has stored blocks of a sender that can be asked.
LEMMA InvKeeps ==
  ASSUME SyncInv, NEW x \in DOMAIN msgs, HandleInv(x)
  PROVE  SyncInv'
<1>1. /\ MsgOK(x) /\ x.from \in Node /\ x.to \in Node
      /\ x.from \in Reachable /\ x.to \in Reachable /\ x.data \in Seq(stored[x.from])
  <2>1. MsgOK(x) /\ x.from \in Node /\ x.to \in Node /\ x.to \in Reachable
    BY MsgNodes DEF SyncInv
  <2> QED  BY <2>1 DEF MsgOK, HandleInv
<1>2. StorageOK' /\ Grows /\ stored' = stored
  BY StorageStays DEF SyncInv, storage, HandleInv
<1>3. MsgsOK'
  BY <1>2, NetKeeps DEF SyncInv, HandleInv
<1> DEFINE list == transit[x.to][x.from] \o x.data
<1>4. list \in Seq(stored[x.from]) /\ list \in Seq(Block)
  <2>1. list \in Seq(stored[x.from])
    BY <1>1, ConcatProperties DEF SyncInv, TransitOK
  <2>2. stored[x.from] \subseteq Block
    BY <1>1 DEF SyncInv, StorageOK
  <2> HIDE DEF list
  <2> QED  BY <2>1, <2>2, ListsOfMore
<1>5. transit' = [transit EXCEPT ![x.to][x.from] = list]
  BY DEF HandleInv
<1>6. transit \in [Node -> [Node -> Seq(Block)]]
  BY DEF SyncInv, TransitOK
<1> HIDE DEF list
<1>7. /\ transit' \in [Node -> [Node -> Seq(Block)]]
      /\ \A n, m \in Node : transit'[n][m] = IF n = x.to /\ m = x.from THEN list ELSE transit[n][m]
  BY <1>1, <1>4, <1>5, <1>6
<1>8. TransitOK'
  <2>1. ASSUME NEW n \in Node, NEW m \in Node
        PROVE  /\ transit'[n][m] \in Seq(stored'[m])
               /\ transit'[n][m] # <<>> => {n, m} \subseteq Reachable
    <3>1. CASE n = x.to /\ m = x.from
      BY <1>1, <1>2, <1>4, <1>7, <3>1
    <3>2. CASE ~(n = x.to /\ m = x.from)
      BY <1>2, <1>7, <3>2 DEF SyncInv, TransitOK
    <3> QED  BY <3>1, <3>2
  <2> QED  BY <1>7, <2>1 DEF TransitOK
<1>9. RestOK'
  <2>1. loops' \in [Node -> [Node -> Nat]]
    BY <1>1 DEF SyncInv, RestOK, HandleInv
  <2> QED  BY <1>2, <2>1 DEF SyncInv, RestOK, HandleInv, failures
<1> QED  BY <1>2, <1>3, <1>8, <1>9 DEF SyncInv

\* A node that announced a block has verified those of its contacts that answered.
LEMMA AnsweredKeeps ==
  ASSUME verified \in [Node -> SUBSET Node], \A k \in Node : verified[k] \subseteq Others(k),
         NEW n \in Node, verified' = Answered(n)
  PROVE  /\ verified' \in [Node -> SUBSET Node]
         /\ \A k \in Node : verified'[k] \subseteq Others(k)
<1>1. verified' = [verified EXCEPT ![n] = verified[n] \cup (Others(n) \cap Reachable)]
  BY DEF Answered
<1>2. Others(n) \subseteq Node
  BY OthersAreNodes
<1>3. \A k \in Node : verified'[k] = IF k = n THEN verified[n] \cup (Others(n) \cap Reachable)
                                              ELSE verified[k]
  BY <1>1
<1> QED  BY <1>1, <1>2, <1>3

\* A block that is stored and announced.
LEMMA AnnouncementKeeps ==
  ASSUME SyncInv, NEW n \in Node, NEW b \in Block, Prev[b] \in stored[n], Store(n, b),
         NEW in, Net(in, Announcement(n, b))
  PROVE  StorageOK' /\ Grows /\ MsgsOK'
<1>1. StorageOK' /\ Grows /\ b \in stored'[n]
  BY StoreKeeps DEF SyncInv
<1>2. ASSUME NEW y \in Announcement(n, b), y.to \in Reachable  PROVE  MsgOK(y)'
  <2>1. y.from = n /\ y.type = "block" /\ y.data = b
    BY DEF Announcement, Msg
  <2> QED  BY <1>1, <1>2, <2>1 DEF MsgOK
<1> QED  BY <1>1, <1>2, NetKeeps DEF SyncInv

\* A block that comes in is added, announced, or left alone.
LEMMA BlockKeeps ==
  ASSUME SyncInv, NEW x \in DOMAIN msgs, HandleBlock(x)
  PROVE  SyncInv'
<1>1. MsgOK(x) /\ x.from \in Node /\ x.to \in Node /\ x.data \in Block
  <2>1. MsgOK(x) /\ x.from \in Node /\ x.to \in Node
    BY MsgNodes DEF SyncInv
  <2> QED  BY <2>1 DEF MsgOK, HandleBlock, SyncInv, StorageOK
<1>2. /\ StorageOK' /\ Grows /\ MsgsOK'
      /\ verified' \in [Node -> SUBSET Node] /\ \A k \in Node : verified'[k] \subseteq Others(k)
  <2>1. CASE State(x.to, x.data) = "canAdd"
    <3>1. Prev[x.data] \in stored[x.to]
      BY <2>1, StateMeans
    <3>2. /\ Store(x.to, x.data) /\ Net({x}, Announcement(x.to, x.data))
          /\ verified' = Answered(x.to)
      BY <2>1 DEF HandleBlock
    <3>3. StorageOK' /\ Grows /\ MsgsOK'
      BY <1>1, <3>1, <3>2, AnnouncementKeeps
    <3> QED  BY <1>1, <3>2, <3>3, AnsweredKeeps DEF SyncInv, RestOK
  <2>2. CASE State(x.to, x.data) # "canAdd"
    <3>1. UNCHANGED <<storage, verified>> /\ Net({x}, {})
      BY <2>2 DEF HandleBlock
    <3>2. StorageOK' /\ Grows
      BY <3>1, StorageStays DEF SyncInv
    <3>3. MsgsOK'
      BY <3>1, <3>2, NetKeeps DEF SyncInv
    <3> QED  BY <3>1, <3>2, <3>3 DEF SyncInv, RestOK
  <2> QED  BY <2>1, <2>2
<1>3. TransitOK'
  BY <1>2, TransitStays DEF SyncInv, HandleBlock
<1>4. RestOK'
  <2>1. loops' \in [Node -> [Node -> Nat]]
    BY <1>1 DEF SyncInv, RestOK, HandleBlock
  <2>2. \A n \in Node : minting[n] # NoHash => Prev[minting[n]] \in stored'[n]
    BY <1>2 DEF SyncInv, RestOK, Grows
  <2> QED  BY <1>2, <2>1, <2>2 DEF SyncInv, RestOK, HandleBlock, failures
<1> QED  BY <1>2, <1>3, <1>4 DEF SyncInv

\* A transaction that becomes known.
LEMMA KnownKeeps ==
  ASSUME StorageOK, NEW n \in Node, NEW t \in Tx,
         known' = [known EXCEPT ![n] = @ \cup {t}], UNCHANGED <<stored, best>>
  PROVE  StorageOK' /\ Grows
<1>1. known' \in [Node -> SUBSET Tx] /\ \A k \in Node : known[k] \subseteq known'[k]
  BY DEF StorageOK
<1> QED  BY <1>1 DEF StorageOK, Grows

\* A transaction that comes in becomes known,
LEMMA TxKeeps ==
  ASSUME SyncInv, NEW x \in DOMAIN msgs, HandleTx(x)
  PROVE  SyncInv'
<1>1. MsgOK(x) /\ x.to \in Node /\ x.data \in Tx
  <2>1. MsgOK(x) /\ x.to \in Node
    BY MsgNodes DEF SyncInv
  <2> QED  BY <2>1 DEF MsgOK, HandleTx
<1>2. StorageOK' /\ Grows
  BY <1>1, KnownKeeps DEF SyncInv, HandleTx
<1>3. MsgsOK'
  BY <1>2, NetKeeps DEF SyncInv, HandleTx
<1> QED  BY <1>2, <1>3, TransitStays, RestStays DEF SyncInv, HandleTx, lists

\* and one of a client, which may be announced.
LEMMA SubmitKeeps ==
  ASSUME SyncInv, NEW n \in Node, NEW t \in Tx, Submit(n, t)
  PROVE  SyncInv'
<1>1. StorageOK' /\ Grows
  BY KnownKeeps DEF SyncInv, Submit
<1>2. /\ MsgsOK'
      /\ verified' \in [Node -> SUBSET Node] /\ \A k \in Node : verified'[k] \subseteq Others(k)
  <2>1. CASE Net({}, TxToAll(n, t)) /\ verified' = Answered(n)
    <3>1. ASSUME NEW y \in TxToAll(n, t), y.to \in Reachable  PROVE  MsgOK(y)'
      <4>1. y.from = n /\ y.type = "tx" /\ y.data = t
        BY DEF TxToAll, Msg
      <4> QED  BY <3>1, <4>1 DEF MsgOK
    <3>2. MsgsOK'
      BY <1>1, <2>1, <3>1, NetKeeps DEF SyncInv
    <3> QED  BY <2>1, <3>2, AnsweredKeeps DEF SyncInv, RestOK
  <2>2. CASE UNCHANGED <<msgs, verified>>
    <3>1. IsABag(msgs') /\ \A x \in DOMAIN msgs' : MsgOK(x)
      BY <2>2 DEF SyncInv, MsgsOK
    <3>2. stored' = stored
      BY DEF Submit
    <3> QED  BY <2>2, <3>1, <3>2 DEF SyncInv, RestOK, MsgsOK, MsgOK
  <2> QED  BY <2>1, <2>2 DEF Submit
<1>3. TransitOK'
  BY <1>1, TransitStays DEF SyncInv, Submit, lists
<1>4. RestOK'
  <2>1. \A k \in Node : minting[k] # NoHash => Prev[minting[k]] \in stored'[k]
    BY <1>1 DEF SyncInv, RestOK, Grows
  <2> QED  BY <1>2, <2>1 DEF SyncInv, RestOK, Submit, failures, lists
<1> QED  BY <1>1, <1>2, <1>3, <1>4 DEF SyncInv

\* What the loop goes on with is a part of the list, and the block at its head is stored
\* by the sender of the list.
LEMMA ListParts ==
  ASSUME SyncInv, NEW n \in Node, NEW m \in Node, transit[n][m] # <<>>
  PROVE  /\ Head(transit[n][m]) \in stored[m]
         /\ Tail(transit[n][m]) \in Seq(stored[m])
         /\ Tail(transit[n][m]) # <<>> => Len(transit[n][m]) > 1
         /\ n \in Reachable /\ m \in Reachable
<1>1. transit[n][m] \in Seq(stored[m]) /\ n \in Reachable /\ m \in Reachable
  BY DEF SyncInv, TransitOK
<1>2. Head(transit[n][m]) \in stored[m] /\ Tail(transit[n][m]) \in Seq(stored[m])
  BY <1>1, HeadTailProperties
<1>3. Len(Tail(transit[n][m])) = Len(transit[n][m]) - 1 /\ Len(transit[n][m]) \in Nat
  BY <1>1, HeadTailProperties
<1>4. Tail(transit[n][m]) # <<>> => Len(Tail(transit[n][m])) # 0
  BY <1>2, EmptySeq
<1> QED  BY <1>1, <1>2, <1>3, <1>4

\* What a turn of the loop leaves of the list, and what it asks for.
TurnLeaves(n, m, list, again, out) ==
  /\ transit' = [transit EXCEPT ![n][m] = list]
  /\ loops' = [loops EXCEPT ![n][m] = IF again THEN @ ELSE @ - 1]
  /\ Net({}, out)

\* The ways in which a turn ends.
LEMMA TurnEnds ==
  ASSUME NEW n, NEW m, Turn(n, m)
  PROVE  \/ transit[n][m] = <<>> /\ TurnLeaves(n, m, <<>>, FALSE, {})
         \/ /\ transit[n][m] # <<>>
            /\ LET b == Head(transit[n][m])
               IN  \/ /\ b \in stored[n]
                      /\ TurnLeaves(n, m, Tail(transit[n][m]), Len(transit[n][m]) > 1, {})
                   \/ /\ b \notin stored[n] /\ Prev[b] \in stored[n]
                      /\ TurnLeaves(n, m, Tail(transit[n][m]), FALSE, {Msg(n, m, "getdata", b)})
                   \/ /\ b \notin stored[n] /\ Prev[b] \notin stored[n]
                      /\ TurnLeaves(n, m, <<>>, FALSE, {Msg(n, m, "getblocks", Prev[b])})
<1>1. CASE transit[n][m] = <<>>
  BY <1>1 DEF Turn, TurnLeaves
<1> DEFINE b == Head(transit[n][m])
<1>2. CASE transit[n][m] # <<>> /\ b \in stored[n]
  BY <1>2 DEF Turn, TurnLeaves, State
<1>3. CASE transit[n][m] # <<>> /\ b \notin stored[n] /\ Prev[b] \in stored[n]
  BY <1>3 DEF Turn, TurnLeaves, State
<1>4. CASE transit[n][m] # <<>> /\ b \notin stored[n] /\ Prev[b] \notin stored[n]
  BY <1>4 DEF Turn, TurnLeaves, State
<1> QED  BY <1>1, <1>2, <1>3, <1>4

\* A turn whose remaining list and whose questions are about stored blocks.
LEMMA TurnLeavesKeeps ==
  ASSUME SyncInv, NEW n \in Node, NEW m \in Node, loops[n][m] > 0,
         NEW list \in Seq(stored[m]), list # <<>> => {n, m} \subseteq Reachable,
         NEW again, NEW out, TurnLeaves(n, m, list, again, out),
         \A x \in out : x.to \in Reachable => MsgOK(x),
         UNCHANGED <<storage, verified, pull, minting, failures>>
  PROVE  SyncInv'
<1>1. StorageOK' /\ Grows /\ stored' = stored
  BY StorageStays DEF SyncInv, storage
<1>2. MsgsOK'
  <2>1. \A x \in out : x.to \in Reachable => MsgOK(x)'
    BY <1>1 DEF MsgOK
  <2> QED  BY <1>1, <2>1, NetKeeps DEF SyncInv, TurnLeaves
<1>3. list \in Seq(Block)
  BY ListsOfMore DEF SyncInv, StorageOK
<1>4. /\ transit' \in [Node -> [Node -> Seq(Block)]]
      /\ \A i, j \in Node : transit'[i][j] = IF i = n /\ j = m THEN list ELSE transit[i][j]
  <2>1. transit \in [Node -> [Node -> Seq(Block)]]
    BY DEF SyncInv, TransitOK
  <2> QED  BY <1>3, <2>1 DEF TurnLeaves
<1>5. TransitOK'
  <2>1. ASSUME NEW i \in Node, NEW j \in Node
        PROVE  /\ transit'[i][j] \in Seq(stored'[j])
               /\ transit'[i][j] # <<>> => {i, j} \subseteq Reachable
    <3>1. CASE i = n /\ j = m
      BY <1>1, <1>4, <3>1
    <3>2. CASE ~(i = n /\ j = m)
      BY <1>1, <1>4, <3>2 DEF SyncInv, TransitOK
    <3> QED  BY <3>1, <3>2
  <2> QED  BY <1>4, <2>1 DEF TransitOK
<1>6. RestOK'
  <2>1. loops \in [Node -> [Node -> Nat]] /\ loops[n][m] \in Nat
    BY DEF SyncInv, RestOK
  <2>2. loops[n][m] - 1 \in Nat
    BY <2>1
  <2>3. loops' \in [Node -> [Node -> Nat]]
    BY <2>1, <2>2 DEF TurnLeaves
  <2> QED  BY <1>1, <2>3 DEF SyncInv, RestOK, failures
<1> QED  BY <1>1, <1>2, <1>5, <1>6 DEF SyncInv

\* A turn of the loop asks for what the sender of the list stores: a block of the list, or
\* the parent of one, which is not the first block.
LEMMA TurnKeeps ==
  ASSUME SyncInv, NEW n \in Node, NEW m \in Node, Turn(n, m)
  PROVE  SyncInv'
<1>1. loops[n][m] > 0 /\ UNCHANGED <<storage, verified, pull, minting, failures>>
  BY DEF Turn
<1>2. <<>> \in Seq(stored[m])
  OBVIOUS
<1>3. CASE transit[n][m] = <<>> /\ TurnLeaves(n, m, <<>>, FALSE, {})
  <2> DEFINE list == <<>>
             out == {}
  <2>1. list \in Seq(stored[m]) /\ (list # <<>> => {n, m} \subseteq Reachable)
    BY <1>2
  <2>2. TurnLeaves(n, m, list, FALSE, out) /\ \A x \in out : x.to \in Reachable => MsgOK(x)
    BY <1>3
  <2> HIDE DEF list, out
  <2> QED  BY <1>1, <2>1, <2>2, TurnLeavesKeeps
<1> DEFINE b == Head(transit[n][m])
           rest == Tail(transit[n][m])
<1>4. CASE transit[n][m] # <<>>
  <2>1. /\ b \in stored[m] /\ rest \in Seq(stored[m])
        /\ n \in Reachable /\ m \in Reachable
    BY <1>4, ListParts
  <2>2. b = Genesis => b \in stored[n]
    BY StoredConnected DEF SyncInv
  <2>3. b \in stored[n] \/ Prev[b] \in stored[m]
    BY <2>1, <2>2 DEF SyncInv, StorageOK
  <2> HIDE DEF b, rest
  <2>4. CASE TurnLeaves(n, m, rest, Len(transit[n][m]) > 1, {})
    BY <1>1, <2>1, <2>4, TurnLeavesKeeps
  <2>5. CASE TurnLeaves(n, m, rest, FALSE, {Msg(n, m, "getdata", b)})
    <3>1. \A x \in {Msg(n, m, "getdata", b)} : MsgOK(x)
      BY <2>1 DEF Msg, MsgOK
    <3> QED  BY <1>1, <2>1, <2>5, <3>1, TurnLeavesKeeps
  <2>6. CASE b \notin stored[n] /\ TurnLeaves(n, m, <<>>, FALSE, {Msg(n, m, "getblocks", Prev[b])})
    <3>1. \A x \in {Msg(n, m, "getblocks", Prev[b])} : MsgOK(x)
      BY <2>1, <2>3, <2>6 DEF Msg, MsgOK
    <3> QED  BY <1>1, <1>2, <2>6, <3>1, TurnLeavesKeeps
  <2> QED  BY <1>4, <2>4, <2>5, <2>6, TurnEnds DEF b, rest
<1> QED  BY <1>3, <1>4, TurnEnds

\* A step of a poll that stores nothing.
LEMMA PullKeeps ==
  ASSUME SyncInv, UNCHANGED <<storage, msgs, lists, verified, minting>>,
         pull' \in [Node -> PullType],
         faults' \in 0 .. MaxFaults, hurt' \subseteq Node
  PROVE  SyncInv'
<1>1. StorageOK' /\ Grows /\ stored' = stored
  BY StorageStays DEF SyncInv, storage
<1>2. MsgsOK'
  BY <1>1 DEF SyncInv, MsgsOK, MsgOK
<1>3. TransitOK'
  BY <1>1, TransitStays DEF SyncInv, lists
<1>4. RestOK'
  BY <1>1 DEF SyncInv, RestOK, lists
<1> QED  BY <1>1, <1>2, <1>3, <1>4 DEF SyncInv

\* The empty round and the parts of a round.
LEMMA PullParts ==
  ASSUME SyncInv, NEW n \in Node
  PROVE  /\ NoPull \in PullType /\ pull[n] \in PullType
         /\ pull \in [Node -> PullType]
         /\ faults \in 0 .. MaxFaults /\ hurt \subseteq Node
         /\ \A l \in Seq(Block) : [pull[n] EXCEPT !.list = l] \in PullType
         /\ \A l \in SUBSET Node : [pull[n] EXCEPT !.todo = l] \in PullType
         /\ \A l \in SUBSET Tx : [pull[n] EXCEPT !.txs = l] \in PullType
         /\ <<>> \in Seq(Block)
         /\ pull[n].list # <<>> =>
              Head(pull[n].list) \in Block /\ Tail(pull[n].list) \in Seq(Block)
<1>1. pull[n] \in PullType /\ pull \in [Node -> PullType]
      /\ faults \in 0 .. MaxFaults /\ hurt \subseteq Node
  BY DEF SyncInv, RestOK
<1>2. pull[n].list \in Seq(Block)
  BY <1>1 DEF PullType
<1>3. pull[n].list # <<>> =>
              Head(pull[n].list) \in Block /\ Tail(pull[n].list) \in Seq(Block)
  BY <1>2, HeadTailProperties
<1>4. /\ <<>> \in Seq(Block) /\ {} \in SUBSET Node /\ {} \in SUBSET Tx
  OBVIOUS
<1>5. NoPull \in PullType
  BY <1>4 DEF NoPull, PullType
<1>6. \A l \in Seq(Block) : [pull[n] EXCEPT !.list = l] \in PullType
  BY <1>1 DEF PullType
<1>7. \A l \in SUBSET Node : [pull[n] EXCEPT !.todo = l] \in PullType
  BY <1>1 DEF PullType
<1>8. \A l \in SUBSET Tx : [pull[n] EXCEPT !.txs = l] \in PullType
  BY <1>1 DEF PullType
<1> QED  BY <1>1, <1>3, <1>4, <1>5, <1>6, <1>7, <1>8

\* A round of polling begins with the hashes under the top.
LEMMA PollStartKeeps ==
  ASSUME SyncInv, NEW n \in Node, PollStart(n)
  PROVE  SyncInv'
<1>1. Connected(stored[n]) /\ best[n] \in stored[n] /\ TopPage + 1 \in Nat /\ stored[n] \subseteq Block
  BY StoredConnected, Pages DEF SyncInv, StorageOK
<1>2. TopHashes(n) \in Seq(Block)
  BY <1>1, BelowInside, ListsOfMore DEF TopHashes
<1>3. PollList(n) \ {n} \subseteq Node
  BY OthersAreNodes DEF PollList, SyncInv, RestOK
<1>4. [NoPull EXCEPT !.tops = TopHashes(n), !.todo = PollList(n) \ {n}] \in PullType
  <2>1. NoPull \in PullType
    BY PullParts
  <2> QED  BY <1>2, <1>3, <2>1 DEF PullType
<1>5. pull' \in [Node -> PullType]
  BY <1>4, PullParts DEF PollStart
<1> QED  BY <1>5, PullKeeps, PullParts DEF PollStart, failures

\* What a node is answered are blocks.
LEMMA UpdatesAreBlocks ==
  ASSUME StorageOK, NEW m \in Node, NEW tops \in Seq(Block)
  PROVE  Updates(m, tops) \in Seq(Block)
<1>1. Connected(Block) /\ best[m] \in Block /\ UpdatePage \in Nat /\ UpdatePage + 1 \in Nat
  BY BlockTree, Pages DEF Connected, StorageOK
<1>2. Below(best[m], UpdatePage + 1) \in Seq(Block)
  BY <1>1, BelowInside
<1> DEFINE common == {i \in DOMAIN tops : OnBranch(m, tops[i])}
<1>3. ASSUME common # {}  PROVE  tops[Min(common)] \in Block
  <2>1. common \subseteq Nat /\ common \subseteq DOMAIN tops
    BY LenProperties
  <2>2. \E i \in common : \A j \in common : i <= j
    <3> HIDE DEF common
    <3> QED  BY <1>3, <2>1, Paths!LeastNumber
  <2>3. Min(common) \in common
    BY <2>2 DEF Min
  <2> QED  BY <2>1, <2>3
<1>4. ASSUME NEW b \in Block  PROVE  Above(m, b, UpdatePage) \in Seq(Block)
  BY <1>1, AboveInside
<1> QED  BY <1>2, <1>3, <1>4 DEF Updates

\* A node is asked.
LEMMA PollNodeKeeps ==
  ASSUME SyncInv, NEW n \in Node, PollNode(n)
  PROVE  SyncInv'
<1>1. PICK m \in pull[n].todo : pull' = [pull EXCEPT ![n] = Answer(@, m)]
  BY DEF PollNode
<1>2. pull[n] \in PullType /\ m \in Node
  BY PullParts DEF PullType
<1>3. Updates(m, pull[n].tops) \in Seq(Block)
  BY <1>2, UpdatesAreBlocks DEF PullType, SyncInv
<1>4. Offered(m) \subseteq Tx
  BY <1>2 DEF Offered, Pending, SyncInv, StorageOK
<1>5. Answer(pull[n], m) \in PullType
  BY <1>2, <1>3, <1>4 DEF Answer, PullType
<1>6. pull' \in [Node -> PullType]
  BY <1>1, <1>5, PullParts
<1> QED  BY <1>6, PullKeeps, PullParts DEF PollNode, failures

\* A block of the answer is added, skipped, or ends the work.
LEMMA PollBlockKeeps ==
  ASSUME SyncInv, NEW n \in Node, PollBlock(n)
  PROVE  SyncInv'
<1> DEFINE b == Head(pull[n].list)
<1>1. b \in Block /\ Tail(pull[n].list) \in Seq(Block)
  BY PullParts DEF PollBlock
<1>2. pull' \in [Node -> PullType]
  <2>1. [pull[n] EXCEPT !.list = IF State(n, b) = "noPrev" THEN <<>> ELSE Tail(pull[n].list)]
          \in PullType
    BY <1>1, PullParts
  <2> QED  BY <2>1, PullParts DEF PollBlock
<1> HIDE DEF b
<1>3. CASE State(n, b) = "canAdd"
  <2>1. Store(n, b) /\ Prev[b] \in stored[n]
    BY <1>3, StateMeans DEF PollBlock, b
  <2>2. StorageOK' /\ Grows
    BY <1>1, <2>1, StoreKeeps DEF SyncInv
  <2>3. MsgsOK'
    <3>1. ASSUME NEW x \in DOMAIN msgs  PROVE  MsgOK(x)'
      <4>1. MsgOK(x) /\ x.from \in Node /\ x.to \in Node
        BY MsgNodes DEF SyncInv
      <4> QED  BY <2>2, <4>1, ListsOfMore DEF MsgOK, Grows
    <3> QED  BY <3>1 DEF SyncInv, MsgsOK, PollBlock
  <2>4. TransitOK'
    BY <2>2, TransitStays DEF SyncInv, PollBlock, lists
  <2>5. RestOK'
    <3>1. \A k \in Node : minting[k] # NoHash => Prev[minting[k]] \in stored'[k]
      BY <2>2 DEF SyncInv, RestOK, Grows
    <3> QED  BY <1>2, <3>1 DEF SyncInv, RestOK, PollBlock, lists, failures
  <2> QED  BY <2>2, <2>3, <2>4, <2>5 DEF SyncInv
<1>4. CASE State(n, b) # "canAdd"
  BY <1>2, <1>4, PullKeeps, PullParts DEF PollBlock, failures, b
<1> QED  BY <1>3, <1>4

\* A transaction of the answer becomes known.
LEMMA PollTxKeeps ==
  ASSUME SyncInv, NEW n \in Node, PollTx(n)
  PROVE  SyncInv'
<1>1. PICK t \in pull[n].txs : /\ pull' = [pull EXCEPT ![n].txs = @ \ {t}]
                               /\ known' = [known EXCEPT ![n] = @ \cup {t}]
  BY DEF PollTx
<1>2. pull[n].txs \subseteq Tx
  BY PullParts DEF PullType
<1>3. StorageOK' /\ Grows /\ stored' = stored
  BY <1>1, <1>2, KnownKeeps DEF SyncInv, PollTx
<1>4. pull' \in [Node -> PullType]
  <2>1. [pull[n] EXCEPT !.txs = pull[n].txs \ {t}] \in PullType
    BY <1>2, PullParts
  <2> QED  BY <1>1, <2>1, PullParts
<1>5. MsgsOK'
  BY <1>3 DEF SyncInv, MsgsOK, MsgOK, PollTx
<1>6. TransitOK'
  BY <1>3, TransitStays DEF SyncInv, PollTx, lists
<1>7. RestOK'
  BY <1>3, <1>4 DEF SyncInv, RestOK, PollTx, lists, failures
<1> QED  BY <1>3, <1>5, <1>6, <1>7 DEF SyncInv

\* A round ends.
LEMMA PollEndKeeps ==
  ASSUME SyncInv, NEW n \in Node, PollEnd(n)
  PROVE  SyncInv'
<1>1. pull' \in [Node -> PullType]
  BY PullParts DEF PollEnd
<1> QED  BY <1>1, PullKeeps, PullParts DEF PollEnd, failures

\* A block is prepared on the top,
LEMMA PrepareBlockKeeps ==
  ASSUME SyncInv, NEW n \in Node, PrepareBlock(n)
  PROVE  SyncInv'
<1>1. PICK b \in Block : Prev[b] = best[n] /\ minting' = [minting EXCEPT ![n] = b]
  BY DEF PrepareBlock
<1>2. StorageOK' /\ Grows /\ stored' = stored
  BY StorageStays DEF SyncInv, PrepareBlock, storage
<1>3. MsgsOK'
  BY <1>2 DEF SyncInv, MsgsOK, MsgOK, PrepareBlock
<1>4. TransitOK'
  BY <1>2, TransitStays DEF SyncInv, PrepareBlock, lists
<1>5. RestOK'
  <2>1. minting \in [Node -> Block \cup {NoHash}]
    BY DEF SyncInv, RestOK
  <2>2. /\ minting' \in [Node -> Block \cup {NoHash}]
        /\ \A k \in Node : minting'[k] = IF k = n THEN b ELSE minting[k]
    BY <1>1, <2>1
  <2>3. best[n] \in stored[n]
    BY DEF SyncInv, StorageOK
  <2>4. \A k \in Node : minting'[k] # NoHash => Prev[minting'[k]] \in stored'[k]
    BY <1>1, <1>2, <2>2, <2>3 DEF SyncInv, RestOK
  <2> QED  BY <2>2, <2>4 DEF SyncInv, RestOK, PrepareBlock, lists, failures
<1> QED  BY <1>2, <1>3, <1>4, <1>5 DEF SyncInv

\* whose place it keeps until it is completed, added and announced.
LEMMA CompleteBlockKeeps ==
  ASSUME SyncInv, NEW n \in Node, CompleteBlock(n)
  PROVE  SyncInv'
<1> DEFINE b == minting[n]
<1>1. b \in Block /\ Prev[b] \in stored[n] /\ minting \in [Node -> Block \cup {NoHash}]
  BY DEF SyncInv, RestOK, CompleteBlock
<1>2. StorageOK' /\ Grows /\ MsgsOK'
  BY <1>1, AnnouncementKeeps DEF CompleteBlock
<1> HIDE DEF b
<1>3. TransitOK'
  BY <1>2, TransitStays DEF SyncInv, CompleteBlock, lists
<1>4. verified' \in [Node -> SUBSET Node] /\ \A k \in Node : verified'[k] \subseteq Others(k)
  BY AnsweredKeeps DEF SyncInv, RestOK, CompleteBlock
<1>5. RestOK'
  <2>1. /\ minting' \in [Node -> Block \cup {NoHash}]
        /\ \A k \in Node : minting'[k] = IF k = n THEN NoHash ELSE minting[k]
    BY <1>1 DEF CompleteBlock
  <2>2. \A k \in Node : minting'[k] # NoHash => Prev[minting'[k]] \in stored'[k]
    BY <1>2, <2>1 DEF SyncInv, RestOK, Grows
  <2> QED  BY <1>4, <2>1, <2>2 DEF SyncInv, RestOK, CompleteBlock, lists, failures
<1> QED  BY <1>2, <1>3, <1>5 DEF SyncInv

\* A fault is counted, and its nodes are remembered.
LEMMA FaultCounts ==
  ASSUME SyncInv, NEW nodes \in SUBSET Node, Fault(nodes)
  PROVE  faults' \in 0 .. MaxFaults /\ hurt' \subseteq Node
BY Faults DEF SyncInv, RestOK, Fault

\* A message that is taken away.
LEMMA LossKeeps ==
  ASSUME SyncInv, NEW x \in DOMAIN msgs, Net({x}, {}), NEW nodes \in SUBSET Node, Fault(nodes),
         UNCHANGED <<storage, lists, verified, pull, minting>>
  PROVE  SyncInv'
<1>1. StorageOK' /\ Grows /\ stored' = stored
  BY StorageStays DEF SyncInv, storage
<1>2. MsgsOK'
  BY <1>1, NetKeeps DEF SyncInv
<1>3. TransitOK'
  BY <1>1, TransitStays DEF SyncInv, lists
<1>4. RestOK'
  BY <1>1, FaultCounts DEF SyncInv, RestOK, lists
<1> QED  BY <1>1, <1>2, <1>3, <1>4 DEF SyncInv

\* A connection fails.
LEMMA LoseKeeps ==
  ASSUME SyncInv, Lose
  PROVE  SyncInv'
<1>1. PICK x \in DOMAIN msgs : Net({x}, {}) /\ Fault({x.from, x.to})
  BY DEF Lose
<1>2. {x.from, x.to} \in SUBSET Node
  BY MsgNodes DEF SyncInv
<1> QED  BY <1>1, <1>2, LossKeeps DEF Lose

\* A received block is not added.
LEMMA BlockFailsKeeps ==
  ASSUME SyncInv, BlockFails
  PROVE  SyncInv'
<1>1. PICK x \in DOMAIN msgs : Net({x}, {}) /\ Fault({x.to})
  BY DEF BlockFails
<1>2. {x.to} \in SUBSET Node
  BY MsgNodes DEF SyncInv
<1> QED  BY <1>1, <1>2, LossKeeps DEF BlockFails

\* A request of a poll fails.
LEMMA PollFailsKeeps ==
  ASSUME SyncInv, NEW n \in Node, PollFails(n)
  PROVE  SyncInv'
<1>1. pull[n] \in PullType /\ pull \in [Node -> PullType]
  BY PullParts
<1>2. CASE SkipNode(n)
  <2>1. PICK m \in pull[n].todo : pull' = [pull EXCEPT ![n].todo = @ \ {m}]
    BY <1>2 DEF SkipNode
  <2>2. pull[n].todo \ {m} \in SUBSET Node
    BY <1>1 DEF PullType
  <2>3. [pull[n] EXCEPT !.todo = pull[n].todo \ {m}] \in PullType
    BY <2>2, PullParts
  <2>4. pull' \in [Node -> PullType]
    BY <1>1, <2>1, <2>3
  <2> QED  BY <2>4, FaultCounts, PullKeeps DEF PollFails
<1>3. CASE SkipBlock(n)
  <2>1. pull' = [pull EXCEPT ![n].list = Tail(@)] /\ Tail(pull[n].list) \in Seq(Block)
    BY <1>3, PullParts DEF SkipBlock
  <2>2. [pull[n] EXCEPT !.list = Tail(pull[n].list)] \in PullType
    BY <2>1, PullParts
  <2>3. pull' \in [Node -> PullType]
    BY <1>1, <2>1, <2>2
  <2> QED  BY <2>3, FaultCounts, PullKeeps DEF PollFails
<1>4. CASE SkipTx(n)
  <2>1. PICK t \in pull[n].txs : pull' = [pull EXCEPT ![n].txs = @ \ {t}]
    BY <1>4 DEF SkipTx
  <2>2. pull[n].txs \ {t} \in SUBSET Tx
    BY <1>1 DEF PullType
  <2>3. [pull[n] EXCEPT !.txs = pull[n].txs \ {t}] \in PullType
    BY <2>2, PullParts
  <2>4. pull' \in [Node -> PullType]
    BY <1>1, <2>1, <2>3
  <2> QED  BY <2>4, FaultCounts, PullKeeps DEF PollFails
<1> QED  BY <1>2, <1>3, <1>4 DEF PollFails

\* What a node sends when it starts.
LEMMA VersionsAreRight ==
  ASSUME NEW n \in Node, NEW x \in Versions(n), x.to \in Reachable
  PROVE  MsgOK(x)
<1>1. x.from = n /\ x.type = "version"
  BY DEF Versions, Msg
<1> QED  BY <1>1 DEF MsgOK

\* A node starts again with the storage it had.
LEMMA RestartKeeps ==
  ASSUME SyncInv, NEW n \in Node, Restart(n)
  PROVE  SyncInv'
<1>1. StorageOK' /\ Grows /\ stored' = stored
  BY StorageStays DEF SyncInv, Restart, storage
<1>2. MsgsOK'
  <2> DEFINE left == [m \in {k \in DOMAIN msgs : k.to # n} |-> msgs[m]]
             new == {x \in Versions(n) : x.to \in Reachable}
  <2>1. IsABag(left) /\ DOMAIN left \subseteq DOMAIN msgs
    BY DEF SyncInv, MsgsOK, IsABag
  <2>2. msgs' = left (+) SetToBag(new)
    BY DEF Restart, Sent
  <2> HIDE DEF left, new
  <2>3. IsABag(left (+) SetToBag(new)) /\ DOMAIN (left (+) SetToBag(new)) = DOMAIN left \cup new
    BY <2>1 DEF IsABag, SetToBag, (+)
  <2>4. ASSUME NEW x \in DOMAIN msgs'  PROVE  MsgOK(x)
    <3>1. CASE x \in DOMAIN left
      BY <2>1, <3>1 DEF SyncInv, MsgsOK
    <3>2. CASE x \in new
      BY <3>2, VersionsAreRight DEF new
    <3> QED  BY <2>2, <2>3, <3>1, <3>2
  <2> QED  BY <1>1, <2>2, <2>3, <2>4 DEF MsgsOK, MsgOK
<1>3. TransitOK'
  <2>1. transit \in [Node -> [Node -> Seq(Block)]]
    BY DEF SyncInv, TransitOK
  <2>2. [m \in Node |-> <<>>] \in [Node -> Seq(Block)]
    OBVIOUS
  <2>3. /\ transit' \in [Node -> [Node -> Seq(Block)]]
        /\ \A i, j \in Node : transit'[i][j] = IF i = n THEN <<>> ELSE transit[i][j]
    BY <2>1, <2>2 DEF Restart
  <2>4. ASSUME NEW i \in Node, NEW j \in Node
        PROVE  /\ transit'[i][j] \in Seq(stored'[j])
               /\ transit'[i][j] # <<>> => {i, j} \subseteq Reachable
    <3>1. CASE i = n
      BY <2>3, <3>1
    <3>2. CASE i # n
      BY <1>1, <2>3, <3>2 DEF SyncInv, TransitOK
    <3> QED  BY <3>1, <3>2
  <2> QED  BY <2>3, <2>4 DEF TransitOK
<1>4. RestOK'
  <2>1. faults' \in 0 .. MaxFaults /\ hurt' \subseteq Node
    BY FaultCounts DEF Restart
  <2>2. loops' \in [Node -> [Node -> Nat]]
    BY DEF SyncInv, RestOK, Restart
  <2>3. pull' \in [Node -> PullType]
    BY PullParts DEF Restart
  <2>4. /\ verified' \in [Node -> SUBSET Node]
        /\ \A k \in Node : verified'[k] \subseteq Others(k)
    BY DEF SyncInv, RestOK, Restart
  <2>5. /\ minting' \in [Node -> Block \cup {NoHash}]
        /\ \A k \in Node : minting'[k] = IF k = n THEN NoHash ELSE minting[k]
    BY DEF SyncInv, RestOK, Restart
  <2>6. \A k \in Node : minting'[k] # NoHash => Prev[minting'[k]] \in stored'[k]
    BY <1>1, <2>5 DEF SyncInv, RestOK
  <2> QED  BY <2>1, <2>2, <2>3, <2>4, <2>5, <2>6 DEF RestOK
<1> QED  BY <1>1, <1>2, <1>3, <1>4 DEF SyncInv

(***************************************************************************)
(* The invariant holds in every state.                                     *)
(***************************************************************************)

\* The nodes begin with the storage of the instance and, some, with their versions sent.
LEMMA SyncInit == Init => SyncInv
<1> SUFFICES ASSUME Init PROVE SyncInv
  OBVIOUS
<1>1. StorageOK
  <2>1. \A n \in Node : Best0[n] \in Block /\ Carried(Best0[n]) \subseteq Tx
    BY Starts, CarriedIsTx
  <2>2. /\ known \in [Node -> SUBSET Tx]
        /\ \A n \in Node : known[n] = Carried(best[n])
    BY <2>1 DEF Init
  <2> QED  BY <2>2, Starts DEF Init, StorageOK
<1>2. MsgsOK
  <2> DEFINE new == {x \in (UNION {Versions(n) : n \in Starting}) : x.to \in Reachable}
  <2>1. msgs = SetToBag(new)
    BY DEF Init, Sent
  <2>2. \A x \in new : MsgOK(x)
    BY Nodes, VersionsAreRight
  <2> HIDE DEF new
  <2>3. IsABag(SetToBag(new)) /\ DOMAIN SetToBag(new) = new
    BY DEF IsABag, SetToBag
  <2> QED  BY <2>1, <2>2, <2>3 DEF MsgsOK
<1>3. TransitOK
  <2>1. \A n, m \in Node : transit[n][m] = <<>>
    BY DEF Init
  <2>2. [m \in Node |-> <<>>] \in [Node -> Seq(Block)]
    OBVIOUS
  <2> QED  BY <2>1, <2>2 DEF Init, TransitOK
<1>4. RestOK
  <2>1. NoPull \in PullType
    <3>1. <<>> \in Seq(Block) /\ {} \in SUBSET Node /\ {} \in SUBSET Tx
      OBVIOUS
    <3> QED  BY <3>1 DEF NoPull, PullType
  <2> QED  BY <2>1, Faults DEF Init, RestOK
<1> QED  BY <1>1, <1>2, <1>3, <1>4 DEF SyncInv

\* Every step keeps the invariant.
LEMMA SyncStep == SyncInv /\ [Next]_vars => SyncInv'
<1> SUFFICES ASSUME SyncInv, [Next]_vars PROVE SyncInv'
  OBVIOUS
<1>1. CASE UNCHANGED vars
  BY <1>1 DEF SyncInv, StorageOK, MsgsOK, MsgOK, TransitOK, RestOK, vars
<1>2. CASE Deliver
  BY <1>2, VersionKeeps, GetBlocksUpperKeeps, GetBlocksKeeps, InvKeeps, GetDataKeeps, BlockKeeps,
     TxKeeps DEF Deliver
<1>3. ASSUME NEW n \in Node, NEW m \in Node, Turn(n, m)  PROVE  SyncInv'
  BY <1>3, TurnKeeps
<1>4. ASSUME NEW n \in Client, NEW t \in Tx, Submit(n, t)  PROVE  SyncInv'
  BY <1>4, Nodes, SubmitKeeps
<1>5. ASSUME NEW n \in Node, Poll(n)  PROVE  SyncInv'
  BY <1>5, PollStartKeeps, PollNodeKeeps, PollBlockKeeps, PollTxKeeps, PollEndKeeps DEF Poll
<1>6. ASSUME NEW n \in Node, PrepareBlock(n) \/ CompleteBlock(n)  PROVE  SyncInv'
  BY <1>6, PrepareBlockKeeps, CompleteBlockKeeps
<1>7. CASE Lose \/ BlockFails
  BY <1>7, LoseKeeps, BlockFailsKeeps
<1>8. ASSUME NEW n \in Node, PollFails(n) \/ Restart(n)  PROVE  SyncInv'
  BY <1>8, PollFailsKeeps, RestartKeeps
<1> QED  BY <1>1, <1>2, <1>3, <1>4, <1>5, <1>6, <1>7, <1>8 DEF Next

\* The inductive invariant holds.
THEOREM SyncInvHolds == Spec => []SyncInv
<1> QED  BY SyncInit, SyncStep, PTL DEF Spec

\* Every state of the nodes is well typed: the stored blocks are connected, none is higher
\* than the top, and what the branch of the top carries is known.
THEOREM SyncTypes == Spec => []TypeOK
<1>1. SyncInv => TypeOK
  BY InvMeans
<1> QED  BY <1>1, SyncInvHolds, PTL

\* Nobody is asked for a block it does not have, and no block is sent by a node that does
\* not store it (handleGetBlocks, handleGetData).
THEOREM AskedIsAlwaysStored == Spec => []AskedIsStored
<1>1. SyncInv => AskedIsStored
  BY InvMeans
<1> QED  BY <1>1, SyncInvHolds, PTL

(***************************************************************************)
(* Lists that wait are served.                                             *)
(***************************************************************************)

\* The message by which the block comes that a list of n waits for: the question of n to
\* the sender of the list, or the answer.
OnItsWay(x, n, m) ==
  \/ x.type = "getdata" /\ x.from = n /\ x.to = m
  \/ x.type = "block" /\ x.from = m /\ x.to = n

Served(n, m) ==
  transit[n][m] # <<>> => loops[n][m] > 0 \/ \E x \in DOMAIN msgs : OnItsWay(x, n, m)

\* ListIsServed in these terms.
LEMMA ServedMeans == ListIsServed <=> \A n \in Node \ hurt, m \in Node : Served(n, m)
BY DEF ListIsServed, Served, OnItsWay

\* A list stays served when the step is not about it and keeps its message.
LEMMA ServedStays ==
  ASSUME NEW n, NEW m, Served(n, m),
         transit'[n][m] = transit[n][m], loops'[n][m] = loops[n][m],
         \A x \in DOMAIN msgs : OnItsWay(x, n, m) => x \in DOMAIN msgs'
  PROVE  Served(n, m)'
BY DEF Served, OnItsWay

\* The same when one message is taken from the network that is another one.
LEMMA ServedBeside ==
  ASSUME MsgsOK, NEW n, NEW m, Served(n, m),
         transit'[n][m] = transit[n][m], loops'[n][m] = loops[n][m],
         NEW in, NEW out, Net(in, out), \A x \in in : ~OnItsWay(x, n, m)
  PROVE  Served(n, m)'
<1>1. (DOMAIN msgs) \ in \subseteq DOMAIN msgs'
  BY NetIsBag DEF MsgsOK
<1> QED  BY <1>1, ServedStays

\* A handler serves: what it takes from the network is replaced or serves in its place.
LEMMA HandlersServe ==
  ASSUME SyncInv, NEW x \in DOMAIN msgs, NEW n \in Node, NEW m \in Node, Served(n, m),
         \/ HandleVersion(x) \/ HandleGetBlocksUpper(x) \/ HandleGetBlocks(x) \/ HandleTx(x)
  PROVE  Served(n, m)'
<1>1. UNCHANGED <<transit, loops>> /\ ~OnItsWay(x, n, m) /\ \E out : Net({x}, out)
  BY DEF HandleVersion, HandleGetBlocksUpper, HandleGetBlocks, HandleTx, OnItsWay, lists
<1> QED  BY <1>1, ServedBeside DEF SyncInv

\* The handler of a list goes on with it itself.
LEMMA InvServes ==
  ASSUME SyncInv, NEW x \in DOMAIN msgs, NEW n \in Node, NEW m \in Node, Served(n, m),
         HandleInv(x)
  PROVE  Served(n, m)'
<1>1. x.from \in Node /\ x.to \in Node
  BY MsgNodes DEF SyncInv
<1>2. loops \in [Node -> [Node -> Nat]] /\ transit \in [Node -> [Node -> Seq(Block)]]
  BY DEF SyncInv, RestOK, TransitOK
<1>3. CASE n = x.to /\ m = x.from
  <2>1. loops'[n][m] = loops[n][m] + 1 /\ loops[n][m] \in Nat
    BY <1>1, <1>2, <1>3 DEF HandleInv
  <2> QED  BY <2>1 DEF Served
<1>4. CASE ~(n = x.to /\ m = x.from)
  <2>1. transit'[n][m] = transit[n][m] /\ loops'[n][m] = loops[n][m]
    BY <1>1, <1>2, <1>4 DEF HandleInv
  <2>2. ~OnItsWay(x, n, m) /\ Net({x}, {})
    BY DEF HandleInv, OnItsWay
  <2> QED  BY <2>1, <2>2, ServedBeside DEF SyncInv
<1> QED  BY <1>3, <1>4

\* A node that is asked has the block and can reach the one that asks.
LEMMA GetDataServes ==
  ASSUME SyncInv, NEW x \in DOMAIN msgs, NEW n \in Node, NEW m \in Node, Served(n, m),
         HandleGetData(x)
  PROVE  Served(n, m)'
<1> DEFINE out == {Msg(x.to, x.from, "block", x.data)}
<1>1. x.type = "getdata" /\ UNCHANGED <<transit, loops>>
  BY DEF HandleGetData, lists
<1>2. x.from \in Reachable /\ x.data \in stored[x.to]
  BY <1>1, MsgNodes DEF SyncInv, MsgOK
<1>3. Net({x}, out)
  BY <1>2 DEF HandleGetData
<1>4. CASE OnItsWay(x, n, m)
  <2>1. \A y \in out : OnItsWay(y, n, m) /\ y.to \in Reachable
    BY <1>1, <1>2, <1>4 DEF OnItsWay, Msg
  <2>2. {y \in out : y.to \in Reachable} \subseteq DOMAIN msgs'
    <3> HIDE DEF out
    <3> QED  BY <1>3, NetIsBag DEF SyncInv, MsgsOK
  <2>3. \E y \in out : OnItsWay(y, n, m) /\ y \in DOMAIN msgs'
    BY <2>1, <2>2
  <2> HIDE DEF out
  <2> QED  BY <2>3 DEF Served, OnItsWay
<1>5. CASE ~OnItsWay(x, n, m)
  <2> HIDE DEF out
  <2> QED  BY <1>1, <1>3, <1>5, ServedBeside DEF SyncInv
<1> QED  BY <1>4, <1>5

\* Whatever becomes of a block that has come, its handler goes on with the list.
LEMMA BlockServes ==
  ASSUME SyncInv, NEW x \in DOMAIN msgs, NEW n \in Node, NEW m \in Node, Served(n, m),
         HandleBlock(x)
  PROVE  Served(n, m)'
<1>1. x.from \in Node /\ x.to \in Node
  BY MsgNodes DEF SyncInv
<1>2. loops \in [Node -> [Node -> Nat]]
  BY DEF SyncInv, RestOK
<1>3. loops' = [loops EXCEPT ![x.to][x.from] = @ + 1] /\ UNCHANGED transit
  BY DEF HandleBlock
<1>4. CASE n = x.to /\ m = x.from
  <2>1. loops'[n][m] = loops[n][m] + 1 /\ loops[n][m] \in Nat
    BY <1>1, <1>2, <1>3, <1>4
  <2> QED  BY <2>1 DEF Served
<1>5. CASE ~(n = x.to /\ m = x.from)
  <2>1. loops'[n][m] = loops[n][m]
    BY <1>1, <1>2, <1>3, <1>5
  <2>2. ~OnItsWay(x, n, m) /\ \E out : Net({x}, out)
    BY <1>5 DEF HandleBlock, OnItsWay
  <2> QED  BY <1>3, <2>1, <2>2, ServedBeside DEF SyncInv
<1> QED  BY <1>4, <1>5

\* A turn ends with an empty list, with another turn, or with the question for a block.
LEMMA TurnServes ==
  ASSUME SyncInv, NEW i \in Node, NEW j \in Node, NEW n \in Node, NEW m \in Node,
         Served(n, m), Turn(i, j)
  PROVE  Served(n, m)'
<1>1. loops \in [Node -> [Node -> Nat]] /\ transit \in [Node -> [Node -> Seq(Block)]]
  BY DEF SyncInv, RestOK, TransitOK
<1>2. PICK list, again, out : TurnLeaves(i, j, list, again, out)
  BY TurnEnds
<1>3. CASE ~(n = i /\ m = j)
  <2>1. /\ transit'[n][m] = transit[n][m] /\ loops'[n][m] = loops[n][m]
        /\ Net({}, out)
    BY <1>1, <1>2, <1>3 DEF TurnLeaves
  <2> QED  BY <2>1, ServedBeside DEF SyncInv
<1>4. CASE n = i /\ m = j
  <2>1. ASSUME NEW l, NEW a, NEW o, TurnLeaves(n, m, l, a, o)
        PROVE  transit'[n][m] = l /\ (a => loops'[n][m] = loops[n][m]) /\ Net({}, o)
    BY <1>1, <2>1 DEF TurnLeaves
  <2>2. CASE TurnLeaves(n, m, <<>>, FALSE, {})
    BY <2>1, <2>2 DEF Served
  <2> DEFINE b == Head(transit[n][m])
             rest == Tail(transit[n][m])
  <2>3. CASE transit[n][m] # <<>>
    <3>1. /\ rest # <<>> => Len(transit[n][m]) > 1
          /\ n \in Reachable /\ m \in Reachable
      BY <2>3, ListParts
    <3> HIDE DEF b, rest
    <3>2. CASE TurnLeaves(n, m, rest, Len(transit[n][m]) > 1, {})
      <4>1. transit'[n][m] = rest /\ (rest # <<>> => loops'[n][m] = loops[n][m])
        BY <2>1, <3>1, <3>2
      <4>2. loops[n][m] > 0
        BY <1>4 DEF Turn
      <4> QED  BY <4>1, <4>2 DEF Served
    <3>3. CASE TurnLeaves(n, m, rest, FALSE, {Msg(n, m, "getdata", b)})
      <4> DEFINE new == {Msg(n, m, "getdata", b)}
      <4>1. Net({}, new)
        BY <2>1, <3>3
      <4>2. \A y \in new : OnItsWay(y, n, m) /\ y.to \in Reachable
        BY <3>1 DEF OnItsWay, Msg
      <4>3. {y \in new : y.to \in Reachable} \subseteq DOMAIN msgs'
        <5> HIDE DEF new
        <5> QED  BY <4>1, NetIsBag DEF SyncInv, MsgsOK
      <4>4. \E y \in new : OnItsWay(y, n, m) /\ y \in DOMAIN msgs'
        BY <4>2, <4>3
      <4> HIDE DEF new
      <4> QED  BY <4>4 DEF Served, OnItsWay
    <3>4. CASE TurnLeaves(n, m, <<>>, FALSE, {Msg(n, m, "getblocks", Prev[b])})
      <4>1. transit'[n][m] = <<>>
        BY <2>1, <3>4
      <4> QED  BY <4>1 DEF Served
    <3> QED  BY <1>4, <2>3, <3>2, <3>3, <3>4, TurnEnds DEF b, rest
  <2> QED  BY <1>4, <2>2, <2>3, TurnEnds
<1> QED  BY <1>3, <1>4

\* A message is lost, or a block of one is not added: the nodes of the list are marked.
LEMMA FaultsServe ==
  ASSUME SyncInv, NEW n \in Node \ hurt', NEW m \in Node, n \notin hurt => Served(n, m),
         Lose \/ BlockFails
  PROVE  Served(n, m)'
<1>1. PICK x \in DOMAIN msgs :
        Net({x}, {}) /\ n \notin hurt /\ n # x.to /\ (x.type # "block" => n # x.from)
  BY DEF Lose, BlockFails, Fault
<1>2. ~OnItsWay(x, n, m) /\ UNCHANGED <<transit, loops>>
  BY <1>1 DEF OnItsWay, Lose, BlockFails, lists
<1> QED  BY <1>1, <1>2, ServedBeside DEF SyncInv

\* A node that starts again has no list.
LEMMA RestartServes ==
  ASSUME SyncInv, NEW k \in Node, Restart(k), NEW n \in Node \ hurt', NEW m \in Node
  PROVE  Served(n, m)'
<1>1. n = k
  BY DEF Restart, Fault
<1>2. transit \in [Node -> [Node -> Seq(Block)]]
  BY DEF SyncInv, TransitOK
<1>3. transit'[n][m] = <<>>
  BY <1>1, <1>2 DEF Restart
<1> QED  BY <1>3 DEF Served

\* The other steps send at most, and leave the lists alone.
LEMMA OthersServe ==
  ASSUME SyncInv, NEW n \in Node, NEW m \in Node, Served(n, m),
         UNCHANGED <<transit, loops>>, UNCHANGED msgs \/ \E out : Net({}, out)
  PROVE  Served(n, m)'
<1>1. CASE UNCHANGED msgs
  BY <1>1, ServedStays
<1>2. CASE \E out : Net({}, out)
  BY <1>2, ServedBeside DEF SyncInv
<1> QED  BY <1>1, <1>2

\* Every step leaves the lists served that it does not empty.
LEMMA ServedStep == SyncInv /\ ListIsServed /\ [Next]_vars => ListIsServed'
<1> SUFFICES ASSUME SyncInv, \A n \in Node \ hurt, m \in Node : Served(n, m), [Next]_vars,
                    NEW n \in Node \ hurt', NEW m \in Node
             PROVE  Served(n, m)'
  <2>1. (\A n \in Node \ hurt', m \in Node : Served(n, m)') => ListIsServed'
    BY DEF ListIsServed, Served, OnItsWay
  <2> QED  BY <2>1, ServedMeans
<1>1. CASE UNCHANGED vars
  BY <1>1, OthersServe DEF vars
<1>2. CASE Deliver
  <2>1. hurt' = hurt
    BY <1>2 DEF Deliver, HandleVersion, HandleGetBlocksUpper, HandleGetBlocks, HandleInv,
                HandleGetData, HandleBlock, HandleTx, failures
  <2> QED  BY <1>2, <2>1, HandlersServe, InvServes, GetDataServes, BlockServes DEF Deliver
<1>3. ASSUME NEW i \in Node, NEW j \in Node, Turn(i, j)  PROVE  Served(n, m)'
  <2>1. hurt' = hurt
    BY <1>3 DEF Turn, failures
  <2> QED  BY <1>3, <2>1, TurnServes
<1>4. ASSUME NEW i \in Client, NEW t \in Tx, Submit(i, t)  PROVE  Served(n, m)'
  <2>1. /\ UNCHANGED <<transit, loops, hurt>>
        /\ UNCHANGED msgs \/ \E out : Net({}, out)
    BY <1>4 DEF Submit, failures, lists
  <2> QED  BY <2>1, OthersServe
<1>5. ASSUME NEW i \in Node, Poll(i)  PROVE  Served(n, m)'
  <2>1. UNCHANGED <<msgs, transit, loops, hurt>>
    BY <1>5 DEF Poll, PollStart, PollNode, PollBlock, PollTx, PollEnd, lists, failures
  <2> QED  BY <2>1, OthersServe
<1>6. ASSUME NEW i \in Node, PrepareBlock(i) \/ CompleteBlock(i)  PROVE  Served(n, m)'
  <2>1. /\ UNCHANGED <<transit, loops, hurt>>
        /\ UNCHANGED msgs \/ \E out : Net({}, out)
    BY <1>6 DEF PrepareBlock, CompleteBlock, lists, failures
  <2> QED  BY <2>1, OthersServe
<1>7. CASE Lose \/ BlockFails
  BY <1>7, FaultsServe
<1>8. ASSUME NEW i \in Node, PollFails(i)  PROVE  Served(n, m)'
  <2>1. UNCHANGED <<msgs, transit, loops>> /\ n \notin hurt
    BY <1>8 DEF PollFails, Fault, lists
  <2> QED  BY <2>1, OthersServe
<1>9. ASSUME NEW i \in Node, Restart(i)  PROVE  Served(n, m)'
  BY <1>9, RestartServes
<1> QED  BY <1>1, <1>2, <1>3, <1>4, <1>5, <1>6, <1>7, <1>8, <1>9 DEF Next

\* A list of announced blocks is never left behind, except by a fault of one of its two
\* nodes: a handler works on it, or the block it waits for is on its way
\* (handleInv, handleGetData, handleBlock and the loop they share).
THEOREM ListIsAlwaysServed == Spec => []ListIsServed
<1>1. Init => ListIsServed
  BY DEF Init, ListIsServed
<1> QED  BY <1>1, SyncInvHolds, ServedStep, PTL DEF Spec
=============================================================================
