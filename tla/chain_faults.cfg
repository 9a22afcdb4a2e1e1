SPECIFICATION Spec
CONSTANTS
  g = g
  a1 = a1
  a2 = a2
  b1 = b1
  b2 = b2
  b3 = b3
  c2 = c2
  no = no
  p = p
  q = q
  server = server
  handler = handler
  Block <- MCBlock
  Genesis = g
  NoHash = no
  Prev <- MCPrev
  Height <- MCHeight
  Adder = {p}
  NoAdder = no
  NodeObject = {server}
  NodeOf <- SoleNodeOf
  MaxCrashes = 2
  MaxDrops = 1
INVARIANTS
  TypeOK
  WalkFindsItsBlocks
  TopLagsOnlyByCrashes
PROPERTIES
  TopOnlyRises
  EveryAddEnds
