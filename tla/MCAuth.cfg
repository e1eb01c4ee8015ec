CONSTANTS
  u1 = u1
  u2 = u2
  c1 = c1
  c2 = c2
  Users = {u1, u2}
  Address <- MCAddress
  DemoOwners = {u2}
  MaxLinks = 3
  Calls = {c1, c2}
  LinkTTL = 1
  SessionTTL = 2
  DemoTTL = 1
  Grace = 0
  MaxClock = 2
  MaxDemo = 1
SPECIFICATION Spec
INVARIANTS TypeOK LinkOpensOneSession OpenLinksWereRaced
PROPERTY ImplementsSignIn
