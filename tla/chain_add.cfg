SPECIFICATION Spec
CONSTANTS
  g = g
  a1 = a1
  a2 = a2
  b1 = b1
  b2 = b2
  b3 = b3
  c2 = c2
  no = no
  p = p
  q = q
  server = server
  handler = handler
  Block <- MCBlock
  Genesis = g
  NoHash = no
  Prev <- MCPrev
  Height <- MCHeight
  Adder = {p, q}
  NoAdder = no
  NodeObject = {server}
  NodeOf <- OneNodeOf
  MaxCrashes = 0
  MaxDrops = 0
INVARIANTS
  ChainIsPrimaryBranch
PROPERTIES
  IsLongestChain
