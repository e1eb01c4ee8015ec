CONSTANTS
  i1 = i1
  i2 = i2
  i3 = i3
  p1 = p1
  p2 = p2
  p3 = p3
  Payments = {p1, p2, p3}
  Invoices <- MCInvoices
  Amount <- MCAmount
  IssueStatus <- MCIssueStatus
  Requests <- MCRequests
SPECIFICATION Spec
INVARIANT CoveredIsClosed
\* Every call has committed or aborted in the end.
CHECK_DEADLOCK FALSE
