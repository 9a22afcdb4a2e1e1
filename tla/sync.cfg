SPECIFICATION Spec
CONSTANTS
  n1 = n1
  n2 = n2
  n3 = n3
  g = g
  a1 = a1
  b1 = b1
  b2 = b2
  b3 = b3
  t = t
  Tx = {t}
  Txs <- MCTxs
  NoHash = NoHash
  Node = {n1, n2}
  Contacts <- PairContacts
  Reachable = {n1, n2}
  Block <- MCBlock
  Genesis = g
  Prev <- MCPrev
  Height <- MCHeight
  Stored0 <- PairStored
  Best0 <- PairBest
  Starting = {}
  Client = {n1}
  Poller = {n1, n2}
  Miner = {n2}
  ShortPage = 1
  UpperPage = 3
  UpdatePage = 3
  TopPage = 1
  MaxFaults = 1
INVARIANTS TypeOK AskedIsStored ListIsServed
PROPERTIES Silence CatchUp TxSpreads
