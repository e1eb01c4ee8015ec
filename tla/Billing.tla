------------------------------ MODULE Billing ------------------------------
(***************************************************************************)
(* recordPayment and createInvoice (packages/db/src/billing.ts) as         *)
(* Postgres runs them: every call is a READ COMMITTED transaction opened   *)
(* by withTenant (packages/db/src/client.ts), every statement sees what is *)
(* committed when it starts plus the transaction's own writes, and an      *)
(* UPDATE waits for the row lock of a transaction that already wrote the   *)
(* row.  recordPayment inserts the payment and then, for each allocation,  *)
(* inserts the payment_allocations row and runs the UPDATE that closes the *)
(* invoice if it is fully covered.                                         *)
(*                                                                         *)
(* Amounts are agorot.  The committed allocations of an invoice are kept   *)
(* as their sum, which is all that any statement reads of them.            *)
(***************************************************************************)
EXTENDS Naturals, Sequences, FiniteSets

CONSTANTS Invoices,     \* invoice rows
          Payments,     \* calls of recordPayment, one payments row each
          Amount,       \* invoices.amount
          IssueStatus,  \* the status createInvoice is called with
          Requests      \* the allocation lists recordPayment is called with

(* invoices_status_known, invoices_amount_positive and                     *)
(* payment_allocations_amount_positive.                                    *)
ASSUME BillingAssumption ==
  /\ Amount \in [Invoices -> Nat \ {0}]
  /\ IssueStatus \in [Invoices -> {"draft", "open", "paid", "void", "written_off"}]
  /\ Requests \subseteq Seq([invoice : Invoices, amount : Nat \ {0}])

VARIABLES status,   \* committed invoices.status, "none" before the row exists
          covered,  \* committed sum of payment_allocations.amount per invoice
          pc,       \* where each call of recordPayment is
          todo,     \* allocations a call has still to make, the current one first
          own,      \* amount the call's own allocation row gives each invoice
          wrote,    \* invoices the call has closed and not committed: its row locks
          overlap   \* history: calls whose transactions were open at the same time

vars == <<status, covered, pc, todo, own, wrote, overlap>>

InvoiceStatus == {"none", "draft", "open", "paid", "void", "written_off"}

Allocation == [invoice : Invoices, amount : Nat \ {0}]

NoAllocations == [i \in Invoices |-> 0]

TypeOK ==
  /\ status \in [Invoices -> InvoiceStatus]
  /\ covered \in [Invoices -> Nat]
  /\ pc \in [Payments -> {"idle", "allocate", "close", "committed", "aborted"}]
  /\ todo \in [Payments -> Seq(Allocation)]
  /\ own \in [Payments -> [Invoices -> Nat]]
  /\ wrote \in [Payments -> SUBSET Invoices]
  /\ overlap \in [Payments -> SUBSET Payments]

----------------------------------------------------------------------------
(* What one statement of call p sees. *)

Active == {p \in Payments : pc[p] \in {"allocate", "close"}}

Current(p) == Head(todo[p]).invoice

VisibleCover(p, i) == covered[i] + own[p][i]

VisibleStatusClosed(p, i) == IF i \in wrote[p] THEN "closed" ELSE status[i] \* variant: unknown status

VisibleStatus(p, i) == IF i \in wrote[p] THEN "paid" ELSE status[i]

LockedByOther(p, i) == \E q \in Active \ {p} : i \in wrote[q]

\* Variants: strict comparison, no comparison.
ClosableStrictly(p, i) == VisibleStatus(p, i) = "open" /\ Amount[i] < VisibleCover(p, i)

ClosableOnAnyCover(p, i) == VisibleStatus(p, i) = "open" /\ VisibleCover(p, i) > 0

(* The WHERE of the closing UPDATE: open, and amount <= sum of allocations. *)
Closable(p, i) == VisibleStatus(p, i) = "open" /\ Amount[i] <= VisibleCover(p, i)

(* Call p stands in front of a row lock that call q holds. *)
WaitsFor(p, q) ==
  /\ pc[p] = "close" /\ q \in Active \ {p}
  /\ Closable(p, Current(p)) /\ Current(p) \in wrote[q]

----------------------------------------------------------------------------
Init ==
  /\ status = [i \in Invoices |-> "none"]
  /\ covered = [i \in Invoices |-> 0]
  /\ pc = [p \in Payments |-> "idle"]
  /\ todo = [p \in Payments |-> <<>>]
  /\ own = [p \in Payments |-> NoAllocations]
  /\ wrote = [p \in Payments |-> {}]
  /\ overlap = [p \in Payments |-> {}]

(* createInvoice: one INSERT. *)
CreateInvoice(i) ==
  /\ status[i] = "none"
  /\ status' = [status EXCEPT ![i] = IssueStatus[i]]
  /\ UNCHANGED <<covered, pc, todo, own, wrote, overlap>>

(* BEGIN and the INSERT of the payment itself. *)
RecordPayment(p, request) ==
  /\ pc[p] = "idle"
  /\ pc' = [pc EXCEPT ![p] = "allocate"]
  /\ todo' = [todo EXCEPT ![p] = request]
  /\ overlap' = [q \in Payments |->
                   IF q = p THEN Active
                   ELSE IF q \in Active THEN overlap[q] \cup {p} ELSE overlap[q]]
  /\ UNCHANGED <<status, covered, own, wrote>>

(* The INSERT of an allocation.  The foreign key needs the invoice to be   *)
(* committed, and (payment, invoice) is unique: otherwise see Fail.        *)
InsertAllocation(p) ==
  /\ pc[p] = "allocate" /\ todo[p] # <<>>
  /\ status[Current(p)] # "none" /\ own[p][Current(p)] = 0
  /\ own' = [own EXCEPT ![p][Current(p)] = Head(todo[p]).amount]
  /\ pc' = [pc EXCEPT ![p] = "close"]
  /\ UNCHANGED <<status, covered, todo, wrote, overlap>>

(* The closing UPDATE.  A row that matches and is locked by another call   *)
(* is waited for and its WHERE evaluated again; one that does not match is *)
(* not waited for.                                                         *)
CloseInvoice(p) ==
  /\ pc[p] = "close"
  /\ \/ /\ Closable(p, Current(p)) /\ ~LockedByOther(p, Current(p))
        /\ wrote' = [wrote EXCEPT ![p] = @ \cup {Current(p)}]
     \/ ~Closable(p, Current(p)) /\ UNCHANGED wrote
  /\ todo' = [todo EXCEPT ![p] = Tail(@)]
  /\ pc' = [pc EXCEPT ![p] = "allocate"]
  /\ UNCHANGED <<status, covered, own, overlap>>

\* Variant: a call that closed nothing returns before its COMMIT.
CommitIfClosed(p) ==
  /\ pc[p] = "allocate" /\ todo[p] = <<>> /\ wrote[p] # {}
  /\ pc' = [pc EXCEPT ![p] = "committed"]
  /\ status' = [i \in Invoices |-> VisibleStatus(p, i)]
  /\ covered' = [i \in Invoices |-> VisibleCover(p, i)]
  /\ wrote' = [wrote EXCEPT ![p] = {}]
  /\ UNCHANGED <<todo, own, overlap>>

(* COMMIT publishes the allocations and the closed invoices together. *)
Commit(p) ==
  /\ pc[p] = "allocate" /\ todo[p] = <<>>
  /\ pc' = [pc EXCEPT ![p] = "committed"]
  /\ status' = [i \in Invoices |-> VisibleStatus(p, i)]
  /\ covered' = [i \in Invoices |-> VisibleCover(p, i)]
  /\ wrote' = [wrote EXCEPT ![p] = {}]
  /\ UNCHANGED <<todo, own, overlap>>

\* Variant: the closing UPDATE outlives the ROLLBACK of the allocations.
RollbackLeavesStatus(p) ==
  /\ pc' = [pc EXCEPT ![p] = "aborted"]
  /\ todo' = [todo EXCEPT ![p] = <<>>]
  /\ own' = [own EXCEPT ![p] = NoAllocations]
  /\ wrote' = [wrote EXCEPT ![p] = {}]
  /\ status' = [i \in Invoices |-> VisibleStatus(p, i)]
  /\ UNCHANGED <<covered, overlap>>

(* ROLLBACK: nothing of the transaction stays. *)
Rollback(p) ==
  /\ pc' = [pc EXCEPT ![p] = "aborted"]
  /\ todo' = [todo EXCEPT ![p] = <<>>]
  /\ own' = [own EXCEPT ![p] = NoAllocations]
  /\ wrote' = [wrote EXCEPT ![p] = {}]
  /\ UNCHANGED <<status, covered, overlap>>

(* The INSERT is refused: unknown invoice, or the same invoice twice. *)
Refused(p) ==
  /\ pc[p] = "allocate" /\ todo[p] # <<>>
  /\ status[Current(p)] = "none" \/ own[p][Current(p)] > 0
  /\ Rollback(p)

(* Postgres aborts one member of a cycle of waiting transactions. *)
DeadlockVictim(p) ==
  /\ \E ring \in SUBSET Active :
        /\ p \in ring
        /\ \A x \in ring : /\ \E y \in ring : WaitsFor(x, y)
                           /\ \E y \in ring : WaitsFor(y, x)
  /\ Rollback(p)

(* The connection is lost, or a statement fails for any other reason. *)
Fail(p) == p \in Active /\ Rollback(p)

Step(p) == InsertAllocation(p) \/ CloseInvoice(p) \/ Commit(p) \/ Refused(p)

Next ==
  \/ \E i \in Invoices : CreateInvoice(i)
  \/ \E p \in Payments : \E request \in Requests : RecordPayment(p, request)
  \/ \E p \in Payments : Step(p) \/ DeadlockVictim(p) \/ Fail(p)

Spec == Init /\ [][Next]_vars

(* A call runs its statements to the end (the driver awaits each one), and *)
(* Postgres resolves every deadlock after deadlock_timeout.  Nothing says  *)
(* that a payment is ever recorded or that a connection is ever lost.      *)
Fairness == \A p \in Payments : WF_vars(Step(p)) /\ WF_vars(DeadlockVictim(p))

FairSpec == Spec /\ Fairness

----------------------------------------------------------------------------
(* An invoice that was not issued as paid is shown as paid only when the   *)
(* committed allocations cover its amount, whatever calls ran at the same  *)
(* time, waited for each other or were rolled back (recordPayment's UPDATE *)
(* reads allocations that may never commit: its own).                      *)
PaidIsCovered ==
  \A i \in Invoices :
    status[i] = "paid" /\ IssueStatus[i] # "paid" => covered[i] >= Amount[i]

(* An open invoice that is fully covered is always the trace of a race:    *)
(* two committed payments on that very invoice had their transactions open *)
(* at the same time, so neither UPDATE saw the other's allocation.  A      *)
(* single payment, or payments one after the other, always close it.       *)
CoveredOpenWasRaced ==
  \A i \in Invoices :
    status[i] = "open" /\ covered[i] >= Amount[i] =>
      \E p, q \in Payments :
        /\ q \in overlap[p]
        /\ pc[p] = "committed" /\ own[p][i] > 0
        /\ pc[q] = "committed" /\ own[q][i] > 0

(* The comment of recordPayment: an invoice that is fully covered changes  *)
(* status at once.  Read where nothing is in flight.                       *)
CoveredIsClosed ==
  Active = {} => \A i \in Invoices : status[i] = "open" => covered[i] < Amount[i]

(* Every call that starts comes to an end: calls that lock each other's    *)
(* invoices in opposite orders do not wait for ever.                       *)
EveryCallEnds ==
  \A p \in Payments : (p \in Active) ~> (pc[p] \in {"committed", "aborted"})

(* The sessions together keep the promise of Ledger. *)
Promise == INSTANCE Ledger
             WITH Invoices <- Invoices, Amount <- Amount, IssueStatus <- IssueStatus,
                  status <- status, covered <- covered
ImplementsLedger == Promise!Spec
=============================================================================
