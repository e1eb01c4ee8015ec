CONSTANTS
  o1 = o1
  o2 = o2
  p1 = p1
  p2 = p2
  c1 = c1
  c2 = c2
  l1 = l1
  l2 = l2
  l3 = l3
  l4 = l4
  l5 = l5
  l6 = l6
  Orders = {o1, o2}
  Products = {p1, p2}
  Lines = {l1, l2, l3, l4, l5, l6}
  Calls = {c1, c2}
  LineOrder <- MCLineOrder
  LineProduct <- MCLineProduct
  Quantity <- MCQuantity
  StockSyncs = {0}
  Series = {"own", "other"}
  Own = "own"
  First = 4200
  Supplied <- MCSupplied
SPECIFICATION FairSpec
INVARIANTS TypeOK AllocationAddsUp ReservedOnce NumbersFollow
PROPERTIES ImplementsOrderBook EveryCallEnds
