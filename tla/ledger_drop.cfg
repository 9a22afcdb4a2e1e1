SPECIFICATION Spec
CONSTANTS
  g = g
  c1 = c1
  d1 = d1
  a2 = a2
  a3 = a3
  b2 = b2
  b3 = b3
  b4 = b4
  no = no
  t0 = t0
  k1 = k1
  q = q
  x = x
  y = y
  w = w
  z = z
  v = v
  u = u
  s1 = s1
  s2 = s2
  s3 = s3
  r1 = r1
  Block <- MCBlock
  Genesis = g
  NoHash = no
  Prev <- MCPrev
  Height <- MCHeight
  Tx <- MCTx
  Txs <- MCTxs
  Ins <- MCIns
  Outs <- MCOuts
  Row = {r1}
  Ref <- MCRef
  NoRow = no
  Base <- MCBase
  NoTx = no
  MaxDrops = 1
CHECK_DEADLOCK FALSE
INVARIANTS
  UnspentFollowsTop
