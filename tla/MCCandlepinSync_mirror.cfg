SPECIFICATION FairMirror
CONSTANTS
  p1 = p1
  p2 = p2
  a = a
  b = b
  Pools = {p1, p2}
  Products = {a, b}
  ProductOf <- MCProductOf
  MaxStamp = 2
  MaxChanges = 4
  MaxFailures = 1
INVARIANTS OnePoolPerProduct PoolsMirrored
PROPERTIES NothingListedIsLost SyncEnds
