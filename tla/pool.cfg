SPECIFICATION SpecPayments
CONSTANTS
  g = g
  b1 = b1
  b2 = b2
  d1 = d1
  d2 = d2
  d3 = d3
  no = no
  t0 = t0
  mk = mk
  kb = kb
  ins = ins
  upd = upd
  del = del
  again = again
  pay = pay
  due = due
  next = next
  tab = tab
  row = row
  ca = ca
  cb = cb
  ann = ann
  bob = bob
  Block <- MCBlock
  Genesis = g
  NoHash = no
  Prev <- MCPrev
  Height <- MCHeight
  Tx <- MCTx
  Txs <- MCTxs
  Ins <- MCIns
  Outs <- MCOuts
  Row = {tab, row}
  Ref <- MCRef
  NoRow = no
  Base <- MCBase
  NoTx = no
  MaxDrops = 1
  Coinbase = {t0, kb}
  Kind <- MCKind
  Sets <- MCSets
  Table = tab
  Absent = no
  Timeline <- MCTimeline
  CacheLimit = 3
  NoCache = no
  MaxTxs = 2
  ProxyTx = {ins, upd}
  LateTx = {ins, pay}
  MaxLate = 1
  Busy = FALSE
  Key = {ann, bob}
  Owner <- MCOwner
  Value <- MCValue
  Amount = {2, 4, 5}
CHECK_DEADLOCK FALSE
INVARIANTS
  TypeOKPool
  PoolNotOnChain
  RowsAreReplayed
  CacheIsPool
  PoolHasBases
  PoolHasNoRivals
  PreparedIsValid
  RivalsAreCancelled
  PaymentsAreFunded
  BalanceIsAvailable
  HistoryIsBalance
  StatementsArePrepared
PROPERTIES
  SwitchKeepsTransactions
