------------------------------- MODULE Ledger -------------------------------
(***************************************************************************)
(* What the billing part of Bossi promises about invoices, stated without  *)
(* sessions, locks or statements (packages/db/src/billing.ts and           *)
(* migrations/0009_money.sql): a payment reaches the invoices it is        *)
(* allocated to in one step or not at all, an allocation is never taken    *)
(* back, and an invoice turns "paid" only in a step that adds money to it  *)
(* and completes its cover.  The module says "may turn paid", not    *)
(* "must": the code keeps the weaker promise only (see CoveredIsClosed in  *)
(* Billing).                                                               *)
(***************************************************************************)
EXTENDS Naturals

CONSTANTS Invoices,     \* invoice rows
          Amount,       \* invoices.amount of each, in agorot
          IssueStatus   \* the status createInvoice is called with

VARIABLES status,       \* invoices.status, "none" before the row exists
          covered       \* sum of the invoice's payment_allocations.amount

InvoiceStatus == {"none", "draft", "open", "paid", "void", "written_off"}

Init ==
  /\ status = [i \in Invoices |-> "none"]
  /\ covered = [i \in Invoices |-> 0]

(* An invoice appears with the status its creator chose. *)
Issue(i) ==
  /\ status[i] = "none"
  /\ status' = [status EXCEPT ![i] = IssueStatus[i]]
  /\ UNCHANGED covered

(* A payment's allocations arrive together; only open invoices that they  *)
(* touch and fully cover may close.                                        *)
Settle ==
  /\ covered' \in [Invoices -> Nat]
  /\ status' \in [Invoices -> InvoiceStatus]
  /\ \A i \in Invoices :
        /\ covered'[i] >= covered[i]
        /\ \/ status'[i] = status[i]
           \/ /\ status[i] = "open" /\ status'[i] = "paid"
              /\ covered'[i] > covered[i]
              /\ covered'[i] >= Amount[i]
        /\ covered'[i] > covered[i] => status[i] # "none"

Next == Settle \/ \E i \in Invoices : Issue(i)

Spec == Init /\ [][Next]_<<status, covered>>
=============================================================================
