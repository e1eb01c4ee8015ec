---------------------------- MODULE Collections ----------------------------
(***************************************************************************)
(* What is owed and whom to call: the open invoices and what is paid on    *)
(* them (packages/db/src/billing.ts), ageing (packages/core/src/money/     *)
(* receivables.ts), promises to pay, reminders and the queue of calls      *)
(* (money/collections.ts), and the pages of billing and collections.       *)
(* Payments are whole transactions here; Billing says how they race.       *)
(***************************************************************************)
EXTENDS Integers, FiniteSets, FiniteSetsExt

CONSTANTS Debtors,      \* customers
          Bills,        \* invoices that may be issued
          BillOf,       \* the customer of each
          BillAmount,   \* its amount
          Terms,        \* days from issue to due date
          Tomorrow,     \* day |-> the days the clock may show next
          PromiseDays,  \* how far ahead payment is promised
          ListLimit,    \* rows that a list of invoices returns
          MoneyScore    \* balance |-> points for the amount (a logarithm)

NoDate == -1000

ASSUME CollectionsAssumption ==
  /\ IsFiniteSet(Debtors) /\ IsFiniteSet(Bills)
  /\ BillOf \in [Bills -> Debtors] /\ BillAmount \in [Bills -> Nat] /\ Terms \in Nat
  /\ ListLimit \in Nat /\ PromiseDays \subseteq Nat
  /\ 0 \in DOMAIN Tomorrow /\ DOMAIN Tomorrow \subseteq Nat
  /\ \A d \in DOMAIN Tomorrow : Tomorrow[d] \subseteq DOMAIN Tomorrow

VARIABLES debtDay,      \* current day
          issuedOn,     \* day of issue of each invoice, NoDate before
          billStatus,   \* "open" or "paid"
          paidOn,       \* what is allocated to each invoice
          promise,      \* last promise of each customer: [on, for] or NoPromise
          contact       \* day of the last reminder of each customer, or NoDate

debtVars == <<debtDay, issuedOn, billStatus, paidOn, promise, contact>>

NoPromise == [on |-> NoDate, for |-> NoDate]

CollectionsTypeOK ==
  /\ debtDay \in Nat
  /\ issuedOn \in [Bills -> Int] /\ billStatus \in [Bills -> {"open", "paid"}]
  /\ \A b \in Bills : paidOn[b] \in 0..BillAmount[b]
  /\ promise \in [Debtors -> [on : Int, for : Int]] /\ contact \in [Debtors -> Int]

----------------------------------------------------------------------------

Issued == {b \in Bills : issuedOn[b] # NoDate}
DueOnDay(b) == issuedOn[b] + Terms

(* listInvoices with openOnly: open, with a balance, the first rows by the *)
(* date they are due.                                                      *)
Unpaid == {b \in Issued : billStatus[b] = "open" /\ BillAmount[b] > paidOn[b]}
OpenBills ==
  {b \in Unpaid : Cardinality({a \in Unpaid : DueOnDay(a) < DueOnDay(b)}) < ListLimit}

OpenBalance(b) == BillAmount[b] - paidOn[b]
DaysOverdue(b) == debtDay - DueOnDay(b)

BucketOf(b) ==
  LET late == DaysOverdue(b)
  IN  CASE late <= 0 -> "current" [] late \in 1..30 -> "d1_30" [] late \in 31..60 -> "d31_60"
        [] late \in 61..90 -> "d61_90" [] OTHER -> "d90_plus"

(* aging, over a list of invoices. *)
Aging(S) ==
  LET Late == {b \in S : DaysOverdue(b) > 0}
  IN  [buckets |-> [k \in {"current", "d1_30", "d31_60", "d61_90", "d90_plus"} |->
                      MapThenSumSet(OpenBalance, {b \in S : BucketOf(b) = k})],
       total |-> MapThenSumSet(OpenBalance, S), overdue |-> MapThenSumSet(OpenBalance, Late),
       overdueCount |-> Cardinality(Late)]

(* customerBalances: the same, as the database sums it. *)
CustomerBalance(c) ==
  LET Of == {b \in Unpaid : BillOf[b] = c}
  IN  [open |-> MapThenSumSet(OpenBalance, Of),
       overdue |-> MapThenSumSet(OpenBalance, {b \in Of : DueOnDay(b) < debtDay}),
       count |-> Cardinality(Of)]

\* Variant: an invoice is late on the day that it is due.
CasesDueToday(S) ==
  [c \in {BillOf[b] : b \in {x \in S : DaysOverdue(x) >= 0}} |->
     LET Late == {b \in S : BillOf[b] = c /\ DaysOverdue(b) >= 0}
     IN  [balance |-> MapThenSumSet(OpenBalance, Late), count |-> Cardinality(Late),
          oldest |-> Max({DaysOverdue(b) : b \in Late})]]

(* casesFromInvoices: a case for every customer with a late balance. *)
CasesFromInvoices(S) ==
  [c \in {BillOf[b] : b \in {x \in S : DaysOverdue(x) > 0}} |->
     LET Late == {b \in S : BillOf[b] = c /\ DaysOverdue(b) > 0}
     IN  [balance |-> MapThenSumSet(OpenBalance, Late), count |-> Cardinality(Late),
          oldest |-> Max({DaysOverdue(b) : b \in Late})]]

----------------------------------------------------------------------------
(* scoreCase and decide.  A promise stays open until its date and counts   *)
(* as broken from then on: nothing in the code marks one as kept.          *)
PromiseBroken(c) == promise[c] # NoPromise /\ promise[c].for < debtDay
Score(c, case) ==
  Min({case.oldest, 120}) + (IF PromiseBroken(c) THEN 60 ELSE 0) + MoneyScore[case.balance]
Action(c, case) ==
  IF PromiseBroken(c) THEN "call_now"
  ELSE IF promise[c] # NoPromise THEN "wait_promise"
  ELSE IF contact[c] # NoDate /\ debtDay - contact[c] <= 3 THEN "recently_contacted"
  ELSE IF case.oldest > 90 THEN "escalate"
  ELSE IF case.oldest > 14 THEN "call_now" ELSE "remind"

(* The queue: by action, then by score. *)
ActionRank == [a \in {"call_now", "escalate", "remind", "wait_promise", "recently_contacted"} |->
  CASE a = "call_now" -> 0 [] a = "escalate" -> 1 [] a = "remind" -> 2
    [] a = "wait_promise" -> 3 [] a = "recently_contacted" -> 4]
Before(c, d, cases) ==
  LET rc == ActionRank[Action(c, cases[c])]
      rd == ActionRank[Action(d, cases[d])]
  IN  rc < rd \/ (rc = rd /\ Score(c, cases[c]) > Score(d, cases[d]))

(* The page of collections: whom to call today, and the others. *)
CollectionsPage ==
  LET cases == CasesFromInvoices(OpenBills)
      With(A) == {c \in DOMAIN cases : Action(c, cases[c]) \in A}
  IN  [cases |-> cases, overdue |-> Aging(OpenBills).overdue,
       today |-> With({"call_now", "escalate"}),
       later |-> With({"remind", "wait_promise", "recently_contacted"}),
       first |-> {c \in DOMAIN cases : \A d \in DOMAIN cases : ~Before(d, c, cases)}]

(* The page of billing: the ageing, and the invoices of one bucket. *)
BillingPage(bucket) ==
  [book |-> Aging(OpenBills), shown |-> {b \in OpenBills : BucketOf(b) = bucket}]

(* orderGate, for an order of a customer on the page of orders: credit     *)
(* before debt, and debt before stock.  A limit of 0 is no limit.          *)
OrderGate(c, gross, limit, short) ==
  IF limit > 0 /\ CustomerBalance(c).open + gross > limit THEN "hold_credit"
  ELSE IF CustomerBalance(c).overdue > 0 THEN "hold_overdue"
  ELSE IF short > 0 THEN "hold_stock" ELSE "approve"

----------------------------------------------------------------------------
CollectionsInit ==
  /\ debtDay = 0 /\ issuedOn = [b \in Bills |-> NoDate]
  /\ billStatus = [b \in Bills |-> "open"] /\ paidOn = [b \in Bills |-> 0]
  /\ promise = [c \in Debtors |-> NoPromise] /\ contact = [c \in Debtors |-> NoDate]

IssueBill ==
  \E b \in Bills \ Issued :
    /\ issuedOn' = [issuedOn EXCEPT ![b] = debtDay]
    /\ UNCHANGED <<debtDay, billStatus, paidOn, promise, contact>>

(* recordPayment: a covered invoice closes, unless the payments raced.     *)
PayBill ==
  \E b \in Unpaid : \E amount \in 1..OpenBalance(b), closes \in BOOLEAN :
    /\ paidOn' = [paidOn EXCEPT ![b] = @ + amount]
    /\ closes => amount = OpenBalance(b)
    /\ billStatus' = [billStatus EXCEPT ![b] = IF closes THEN "paid" ELSE @]
    /\ UNCHANGED <<debtDay, issuedOn, promise, contact>>

(* The page of one customer.  An invoice is badged as late from the day    *)
(* that it is due, whatever its status.                                    *)
CustomerBillingPage(c) ==
  [balance |-> CustomerBalance(c),
   late |-> {b \in Issued : BillOf[b] = c /\ OpenBalance(b) > 0 /\ DaysOverdue(b) >= 0}]

(* logPromise and sendReminder, for a case of the page.  Of the promises   *)
(* of a customer listPromises puts the one for the latest day first.       *)
Latest(S) == {p \in S : \A q \in S : q.for <= p.for}
LogPromise ==
  \E c \in DOMAIN CasesFromInvoices(OpenBills), d \in PromiseDays :
    /\ \E p \in Latest({promise[c], [on |-> debtDay, for |-> debtDay + d]}) :
         promise' = [promise EXCEPT ![c] = p]
    /\ UNCHANGED <<debtDay, issuedOn, billStatus, paidOn, contact>>

SendReminder ==
  \E c \in DOMAIN CasesFromInvoices(OpenBills) :
    /\ contact' = [contact EXCEPT ![c] = debtDay]
    /\ UNCHANGED <<debtDay, issuedOn, billStatus, paidOn, promise>>

DebtDayPasses ==
  \E d \in Tomorrow[debtDay] : debtDay' = d /\ UNCHANGED <<issuedOn, billStatus, paidOn, promise, contact>>

CollectionsNext == IssueBill \/ PayBill \/ LogPromise \/ SendReminder \/ DebtDayPasses

CollectionsSpec == CollectionsInit /\ [][CollectionsNext]_debtVars

----------------------------------------------------------------------------
(* What is owed is computed four times, in SQL and in TypeScript; while    *)
(* the open invoices fit the list they agree: the buckets, the total, the  *)
(* balances of the customers, and the cases of the queue, where everybody  *)
(* who is late stands exactly once; every open invoice is in one bucket of *)
(* the page of billing, and an order is held for debt exactly when its     *)
(* customer is in the queue.  The page of a customer badges what is late,  *)
(* and a day early what is due today.                                      *)
DebtIsCountedOnce ==
  LET book == Aging(OpenBills)
      buckets == DOMAIN book.buckets
      queue == CollectionsPage
  IN  Cardinality(Unpaid) <= ListLimit =>
        /\ book.total = MapThenSumSet(LAMBDA k : book.buckets[k], buckets)
        /\ book.total = MapThenSumSet(LAMBDA c : CustomerBalance(c).open, Debtors)
        /\ book.overdue = MapThenSumSet(LAMBDA c : CustomerBalance(c).overdue, Debtors)
        /\ book.overdue = MapThenSumSet(LAMBDA c : queue.cases[c].balance, DOMAIN queue.cases)
        /\ \A b \in OpenBills : Cardinality({k \in buckets : b \in BillingPage(k).shown}) = 1
        /\ \A c \in Debtors :
             /\ CustomerBalance(c).overdue > 0 <=>
                  (c \in queue.today \cup queue.later /\ c \notin queue.today \cap queue.later)
             /\ {b \in CustomerBillingPage(c).late : DaysOverdue(b) # 0} =
                  {b \in OpenBills : BillOf[b] = c /\ BucketOf(b) # "current"}
             /\ OrderGate(c, 1, 0, 1) = "hold_overdue" <=> c \in DOMAIN queue.cases
=============================================================================
