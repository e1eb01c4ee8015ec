----------------------------- MODULE MCBilling -----------------------------
(* A small instance of Billing: two open invoices and one that is issued   *)
(* as paid (as the demo importer does), three payments.                    *)
EXTENDS Billing

CONSTANTS i1, i2, i3, p1, p2, p3

MCInvoices == {i1, i2, i3}
MCAmount == [i \in MCInvoices |-> 2]
MCIssueStatus == [i \in MCInvoices |-> IF i = i3 THEN "paid" ELSE "open"]

Give(i, n) == [invoice |-> i, amount |-> n]

(* Half of an invoice, all of one, both in either order, the same twice,   *)
(* one that is already paid, and a payment on account with no allocation.  *)
MCRequests ==
  { <<>>, <<Give(i1, 1)>>, <<Give(i1, 2)>>,
    <<Give(i1, 2), Give(i2, 2)>>, <<Give(i2, 2), Give(i1, 2)>>,
    <<Give(i1, 1), Give(i1, 1)>>, <<Give(i3, 1)>> }
=============================================================================
