SPECIFICATION Spec
CONSTANTS
  n1 = n1
  n2 = n2
  n3 = n3
  g = g
  a1 = a1
  b1 = b1
  b2 = b2
  b3 = b3
  t = t
  Tx = {}
  Txs <- MCTxs
  NoHash = NoHash
  Node = {n1, n2}
  Contacts <- PairContacts
  Reachable = {n1, n2}
  Block <- MCBlock
  Genesis = g
  Prev <- MCPrev
  Height <- MCHeight
  Stored0 <- AheadStored
  Best0 <- AheadBest
  Starting = {n1}
  Client = {n1}
  Poller = {}
  Miner = {}
  ShortPage = 3
  UpperPage = 3
  UpdatePage = 3
  TopPage = 1
  MaxFaults = 0
INVARIANT VersionLoadsTheRest
