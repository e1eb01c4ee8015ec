CONSTANTS
  l1 = l1
  l2 = l2
  x1 = x1
  x2 = x2
  x3 = x3
  c1 = c1
  c2 = c2
  Nil = Nil
  Leads = {l1, l2}
  Customers = {x1, x2, x3}
  Calls = {c1, c2}
SYMMETRY Symmetry
SPECIFICATION Spec
INVARIANT OneCustomerPerLead
