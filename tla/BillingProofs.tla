--------------------------- MODULE BillingProofs ----------------------------
(***************************************************************************)
(* Theorems about Billing, for every set of invoices, payments and         *)
(* requests, and about Collections, for every set of customers, invoices,  *)
(* days and limits. The inductive invariant IInv adds to the properties of *)
(* Billing what makes them inductive: the row locks are exclusive, a       *)
(* closing UPDATE that is not committed yet is already covered,            *)
(* transactions that are open together overlap, and a call that left an    *)
(* invoice open was either short of its amount or has since been joined by *)
(* a committed payment it overlaps. That of Collections is about types;    *)
(* the agreement of its pages is one of sums.                              *)
(***************************************************************************)
EXTENDS Billing, Collections, SequenceTheorems, Sums

(* A call's row locks: held only while it runs, on open invoices that it   *)
(* covers together with the committed allocations, and by no other call.   *)
Locks ==
  \A p \in Payments : \A i \in wrote[p] :
    /\ p \in Active
    /\ status[i] = "open"
    /\ own[p][i] > 0
    /\ covered[i] + own[p][i] >= Amount[i]
    /\ \A q \in Payments \ {p} : i \notin wrote[q]

(* Allocation rows exist only for invoices that exist, in calls that run   *)
(* or committed; between the two statements of an allocation its row is in. *)
Rows ==
  \A p \in Payments :
    /\ \A i \in Invoices : own[p][i] > 0 =>
          status[i] # "none" /\ pc[p] \in {"allocate", "close", "committed"}
    /\ pc[p] = "close" => todo[p] # <<>> /\ own[p][Current(p)] > 0

(* No money is allocated to an invoice that does not exist. *)
Unissued == \A i \in Invoices : status[i] = "none" => covered[i] = 0

(* Two transactions open now have been open at the same time. *)
Concurrent == \A p \in Active : \A q \in Active \ {p} : q \in overlap[p]

(* Call p has run the closing UPDATE of i and left it as it was. *)
LeftOpen(p, i) ==
  /\ own[p][i] > 0 /\ i \notin wrote[p] /\ status[i] = "open"
  /\ ~(pc[p] = "close" /\ Current(p) = i)

(* A committed payment on i was in flight together with p. *)
Joined(p, i) == \E q \in overlap[p] : pc[q] = "committed" /\ own[q][i] > 0

Short ==
  \A p \in Active : \A i \in Invoices :
    LeftOpen(p, i) => covered[i] + own[p][i] < Amount[i] \/ Joined(p, i)

IInv ==
  /\ TypeOK /\ Locks /\ Rows /\ Unissued /\ Concurrent /\ Short
  /\ PaidIsCovered /\ CoveredOpenWasRaced

----------------------------------------------------------------------------
LEMMA CurrentType ==
  ASSUME TypeOK, NEW p \in Payments, todo[p] # <<>>
  PROVE  /\ Current(p) \in Invoices
         /\ Head(todo[p]).amount \in Nat \ {0}
         /\ Tail(todo[p]) \in Seq(Allocation)
<1>1. todo[p] \in Seq(Allocation)
  BY DEF TypeOK
<1>2. Head(todo[p]) \in Allocation /\ Tail(todo[p]) \in Seq(Allocation)
  BY <1>1, HeadTailProperties
<1>3. QED
  BY <1>2 DEF Current, Allocation

(* Every variable keeps its type. *)
LEMMA TypeStep == TypeOK /\ Rows /\ [Next]_vars => TypeOK'
<1> SUFFICES ASSUME TypeOK, Rows, [Next]_vars PROVE TypeOK'
  OBVIOUS
<1> USE BillingAssumption
<1>1. ASSUME NEW i \in Invoices, CreateInvoice(i) PROVE TypeOK'
  BY <1>1 DEF TypeOK, CreateInvoice, InvoiceStatus
<1>2. ASSUME NEW p \in Payments, NEW request \in Requests, RecordPayment(p, request) PROVE TypeOK'
  <2>1. request \in Seq(Allocation)
    BY DEF BillingAssumption, Allocation
  <2>2. QED
    BY <1>2, <2>1 DEF TypeOK, RecordPayment, Active
<1>3. ASSUME NEW p \in Payments, InsertAllocation(p) PROVE TypeOK'
  BY <1>3, CurrentType DEF TypeOK, InsertAllocation
<1>4. ASSUME NEW p \in Payments, CloseInvoice(p) PROVE TypeOK'
  <2>1. todo[p] # <<>>
    BY <1>4 DEF CloseInvoice, Rows
  <2>2. Current(p) \in Invoices /\ Tail(todo[p]) \in Seq(Allocation)
    BY <2>1, CurrentType
  <2>3. wrote' \in [Payments -> SUBSET Invoices]
    <3>1. wrote[p] \cup {Current(p)} \in SUBSET Invoices
      BY <2>2 DEF TypeOK
    <3>2. CASE wrote' = [wrote EXCEPT ![p] = @ \cup {Current(p)}]
      BY <3>1, <3>2 DEF TypeOK
    <3>3. CASE UNCHANGED wrote
      BY <3>3 DEF TypeOK
    <3>4. QED
      BY <1>4, <3>2, <3>3 DEF CloseInvoice
  <2>4. todo' \in [Payments -> Seq(Allocation)]
    BY <1>4, <2>2 DEF TypeOK, CloseInvoice
  <2>5. QED
    BY <1>4, <2>3, <2>4 DEF TypeOK, CloseInvoice
<1>5. ASSUME NEW p \in Payments, Commit(p) PROVE TypeOK'
  BY <1>5 DEF TypeOK, Commit, VisibleStatus, VisibleCover, InvoiceStatus
<1>6. ASSUME NEW p \in Payments, Rollback(p) PROVE TypeOK'
  BY <1>6 DEF TypeOK, Rollback, NoAllocations
<1>7. CASE UNCHANGED vars
  BY <1>7 DEF TypeOK, vars
<1>8. QED
  BY <1>1, <1>2, <1>3, <1>4, <1>5, <1>6, <1>7 DEF Next, Step, Refused, DeadlockVictim, Fail

(* The row locks stay exclusive and stay on open, covered invoices: no     *)
(* call commits a status over another call's row, because the UPDATE       *)
(* waited for it.                                                          *)
LEMMA LocksStep == TypeOK /\ Locks /\ Rows /\ [Next]_vars => Locks'
<1> SUFFICES ASSUME TypeOK, Locks, Rows, [Next]_vars PROVE Locks'
  OBVIOUS
<1> USE BillingAssumption
<1>1. ASSUME NEW i \in Invoices, CreateInvoice(i) PROVE Locks'
  BY <1>1 DEF TypeOK, CreateInvoice, Locks, Active
<1>2. ASSUME NEW p \in Payments, NEW request \in Requests, RecordPayment(p, request) PROVE Locks'
  BY <1>2 DEF TypeOK, RecordPayment, Locks, Active
<1>3. ASSUME NEW p \in Payments, InsertAllocation(p) PROVE Locks'
  <2>1. Current(p) \in Invoices /\ Head(todo[p]).amount \in Nat \ {0}
    BY <1>3, CurrentType DEF InsertAllocation
  <2>2. QED
    BY <1>3, <2>1 DEF TypeOK, InsertAllocation, Locks, Active
<1>4. ASSUME NEW p \in Payments, CloseInvoice(p) PROVE Locks'
  <2>1. todo[p] # <<>> /\ own[p][Current(p)] > 0
    BY <1>4 DEF CloseInvoice, Rows
  <2>2. Current(p) \in Invoices
    BY <2>1, CurrentType
  <2>3. CASE UNCHANGED wrote
    BY <1>4, <2>3 DEF TypeOK, CloseInvoice, Locks, Active
  <2>4. CASE /\ Closable(p, Current(p)) /\ ~LockedByOther(p, Current(p))
             /\ wrote' = [wrote EXCEPT ![p] = @ \cup {Current(p)}]
    <3>1. status[Current(p)] = "open" /\ Current(p) \notin wrote[p]
      BY <2>4 DEF Closable, VisibleStatus
    <3>2. covered[Current(p)] + own[p][Current(p)] >= Amount[Current(p)]
      BY <2>2, <2>4 DEF Closable, VisibleCover, TypeOK, BillingAssumption
    <3>3. \A q \in Payments \ {p} : Current(p) \notin wrote[q]
      BY <2>4 DEF LockedByOther, Locks
    <3>4. Active' = Active /\ p \in Active
      BY <1>4 DEF CloseInvoice, Active, TypeOK
    <3>5. \A q \in Payments : wrote'[q] = IF q = p THEN wrote[p] \cup {Current(p)} ELSE wrote[q]
      BY <2>4 DEF TypeOK
    <3>6. UNCHANGED <<status, covered, own>>
      BY <1>4 DEF CloseInvoice
    <3>7. QED
      BY <2>1, <2>2, <3>1, <3>2, <3>3, <3>4, <3>5, <3>6 DEF Locks
  <2>5. QED
    BY <1>4, <2>3, <2>4 DEF CloseInvoice
<1>5. ASSUME NEW p \in Payments, Commit(p) PROVE Locks'
  <2> SUFFICES ASSUME NEW q \in Payments, NEW i \in wrote'[q]
               PROVE  /\ q \in Active'
                      /\ status'[i] = "open"
                      /\ own'[q][i] > 0
                      /\ covered'[i] + own'[q][i] >= Amount[i]
                      /\ \A r \in Payments \ {q} : i \notin wrote'[r]
    BY DEF Locks
  <2>1. q # p /\ i \in wrote[q] /\ i \in Invoices /\ i \notin wrote[p]
    BY <1>5 DEF Commit, TypeOK, Locks
  <2>2. status'[i] = status[i] /\ covered'[i] = covered[i] + own[p][i]
    BY <1>5, <2>1 DEF Commit, VisibleStatus, VisibleCover
  <2>3. covered[i] \in Nat /\ own[p][i] \in Nat /\ own[q][i] \in Nat /\ Amount[i] \in Nat
    BY <2>1 DEF TypeOK, BillingAssumption
  <2>4. /\ status[i] = "open" /\ own[q][i] > 0 /\ covered[i] + own[q][i] >= Amount[i]
        /\ q \in Active /\ \A r \in Payments \ {q} : i \notin wrote[r]
    BY <2>1 DEF Locks
  <2>5. own' = own /\ q \in Active'
    BY <1>5, <2>1, <2>4 DEF Commit, Active, TypeOK
  <2>6. \A r \in Payments \ {q} : i \notin wrote'[r]
    BY <1>5, <2>4 DEF Commit, TypeOK
  <2>7. covered'[i] + own'[q][i] >= Amount[i]
    BY <2>2, <2>3, <2>4, <2>5
  <2>8. QED
    BY <2>2, <2>4, <2>5, <2>6, <2>7
<1>6. ASSUME NEW p \in Payments, Rollback(p) PROVE Locks'
  BY <1>6 DEF TypeOK, Rollback, Locks, Active
<1>7. CASE UNCHANGED vars
  BY <1>7 DEF vars, Locks, Active
<1>8. QED
  BY <1>1, <1>2, <1>3, <1>4, <1>5, <1>6, <1>7 DEF Next, Step, Refused, DeadlockVictim, Fail

(* An allocation row needs its invoice, and a rollback takes it away. *)
LEMMA RowsStep == TypeOK /\ Rows /\ [Next]_vars => Rows'
<1> SUFFICES ASSUME TypeOK, Rows, [Next]_vars PROVE Rows'
  OBVIOUS
<1> USE BillingAssumption
<1>1. ASSUME NEW i \in Invoices, CreateInvoice(i) PROVE Rows'
  BY <1>1 DEF TypeOK, CreateInvoice, Rows, Current, BillingAssumption
<1>2. ASSUME NEW p \in Payments, NEW request \in Requests, RecordPayment(p, request) PROVE Rows'
  BY <1>2 DEF TypeOK, RecordPayment, Rows, Current
<1>3. ASSUME NEW p \in Payments, InsertAllocation(p) PROVE Rows'
  <2>1. Current(p) \in Invoices /\ Head(todo[p]).amount \in Nat \ {0}
    BY <1>3, CurrentType DEF InsertAllocation
  <2>2. QED
    BY <1>3, <2>1 DEF TypeOK, InsertAllocation, Rows, Current
<1>4. ASSUME NEW p \in Payments, CloseInvoice(p) PROVE Rows'
  BY <1>4 DEF TypeOK, CloseInvoice, Rows, Current
<1>5. ASSUME NEW p \in Payments, Commit(p) PROVE Rows'
  BY <1>5 DEF TypeOK, Commit, Rows, Current, VisibleStatus
<1>6. ASSUME NEW p \in Payments, Rollback(p) PROVE Rows'
  BY <1>6 DEF TypeOK, Rollback, Rows, Current, NoAllocations
<1>7. CASE UNCHANGED vars
  BY <1>7 DEF vars, Rows, Current
<1>8. QED
  BY <1>1, <1>2, <1>3, <1>4, <1>5, <1>6, <1>7 DEF Next, Step, Refused, DeadlockVictim, Fail

(* A commit adds nothing to an invoice that does not exist. *)
LEMMA UnissuedStep == TypeOK /\ Rows /\ Unissued /\ [Next]_vars => Unissued'
<1> SUFFICES ASSUME TypeOK, Rows, Unissued, [Next]_vars PROVE Unissued'
  OBVIOUS
<1> USE BillingAssumption
<1>1. ASSUME NEW i \in Invoices, CreateInvoice(i) PROVE Unissued'
  BY <1>1 DEF TypeOK, CreateInvoice, Unissued, BillingAssumption
<1>2. ASSUME NEW p \in Payments, Commit(p) PROVE Unissued'
  <2> SUFFICES ASSUME NEW i \in Invoices, status'[i] = "none" PROVE covered'[i] = 0
    BY DEF Unissued
  <2>1. status[i] = "none" /\ covered'[i] = covered[i] + own[p][i]
    BY <1>2 DEF Commit, VisibleStatus, VisibleCover
  <2>2. covered[i] = 0 /\ own[p][i] = 0
    BY <2>1 DEF Unissued, Rows, TypeOK
  <2>3. QED
    BY <2>1, <2>2
<1>3. CASE UNCHANGED <<status, covered>>
  BY <1>3 DEF Unissued
<1>4. QED
  BY <1>1, <1>2, <1>3
     DEF Next, Step, Refused, DeadlockVictim, Fail, RecordPayment, InsertAllocation,
         CloseInvoice, Rollback, vars

(* A transaction that starts overlaps every one that is open. *)
LEMMA ConcurrentStep == TypeOK /\ Concurrent /\ [Next]_vars => Concurrent'
<1> SUFFICES ASSUME TypeOK, Concurrent, [Next]_vars PROVE Concurrent'
  OBVIOUS
<1>1. ASSUME NEW i \in Invoices, CreateInvoice(i) PROVE Concurrent'
  BY <1>1 DEF CreateInvoice, Concurrent, Active
<1>2. ASSUME NEW p \in Payments, NEW request \in Requests, RecordPayment(p, request) PROVE Concurrent'
  BY <1>2 DEF TypeOK, RecordPayment, Concurrent, Active
<1>3. ASSUME NEW p \in Payments, InsertAllocation(p) PROVE Concurrent'
  BY <1>3 DEF TypeOK, InsertAllocation, Concurrent, Active
<1>4. ASSUME NEW p \in Payments, CloseInvoice(p) PROVE Concurrent'
  BY <1>4 DEF TypeOK, CloseInvoice, Concurrent, Active
<1>5. ASSUME NEW p \in Payments, Commit(p) PROVE Concurrent'
  BY <1>5 DEF TypeOK, Commit, Concurrent, Active
<1>6. ASSUME NEW p \in Payments, Rollback(p) PROVE Concurrent'
  BY <1>6 DEF TypeOK, Rollback, Concurrent, Active
<1>7. CASE UNCHANGED vars
  BY <1>7 DEF vars, Concurrent, Active
<1>8. QED
  BY <1>1, <1>2, <1>3, <1>4, <1>5, <1>6, <1>7 DEF Next, Step, Refused, DeadlockVictim, Fail

(* What another step may do to a call that left an invoice open: nothing   *)
(* it was joined by goes away while p runs.                                *)
LEMMA JoinedStays ==
  ASSUME TypeOK, NEW p \in Payments, NEW i \in Invoices, Joined(p, i),
         \A q \in Payments : pc[q] = "committed" => pc'[q] = "committed" /\ own'[q] = own[q],
         \A q \in overlap[p] : q \in overlap'[p]
  PROVE  Joined(p, i)'
  BY DEF Joined, TypeOK

(* Short is kept: the statement that decides leaves an invoice open only   *)
(* when it is short, and later only a commit that overlaps p can cover it. *)
LEMMA ShortStep == TypeOK /\ Locks /\ Rows /\ Concurrent /\ Short /\ [Next]_vars => Short'
<1> SUFFICES ASSUME TypeOK, Locks, Rows, Concurrent, Short, [Next]_vars,
                    NEW p \in Active', NEW i \in Invoices, LeftOpen(p, i)'
             PROVE  (covered[i] + own[p][i] < Amount[i])' \/ Joined(p, i)'
  BY DEF Short, Active
<1> p \in Payments
  BY DEF Active
<1> USE BillingAssumption
<1>1. ASSUME NEW j \in Invoices, CreateInvoice(j)
      PROVE  (covered[i] + own[p][i] < Amount[i])' \/ Joined(p, i)'
  BY <1>1 DEF TypeOK, CreateInvoice, Short, LeftOpen, Joined, Active, Current, Rows
<1>2. ASSUME NEW q \in Payments, NEW request \in Requests, RecordPayment(q, request)
      PROVE  (covered[i] + own[p][i] < Amount[i])' \/ Joined(p, i)'
  BY <1>2 DEF TypeOK, RecordPayment, Short, LeftOpen, Joined, Active, Current, Rows
<1>3. ASSUME NEW q \in Payments, InsertAllocation(q)
      PROVE  (covered[i] + own[p][i] < Amount[i])' \/ Joined(p, i)'
  <2>1. Current(q) \in Invoices /\ Head(todo[q]).amount \in Nat \ {0}
    BY <1>3, CurrentType DEF InsertAllocation
  <2>2. p \in Active /\ LeftOpen(p, i) /\ own'[p][i] = own[p][i] /\ covered' = covered
    BY <1>3, <2>1 DEF TypeOK, InsertAllocation, LeftOpen, Active, Current
  <2>3. Joined(p, i) => Joined(p, i)'
    BY <1>3, <2>2, JoinedStays DEF TypeOK, InsertAllocation
  <2>4. QED
    BY <2>2, <2>3 DEF Short
<1>4. ASSUME NEW q \in Payments, CloseInvoice(q)
      PROVE  (covered[i] + own[p][i] < Amount[i])' \/ Joined(p, i)'
  <2>1. p \in Active /\ covered' = covered /\ own' = own /\ status' = status
    BY <1>4 DEF TypeOK, CloseInvoice, Active
  <2>2. Joined(p, i) => Joined(p, i)'
    BY <1>4, <2>1, JoinedStays DEF TypeOK, CloseInvoice
  <2>3. i \notin wrote[p] /\ own[p][i] > 0 /\ status[i] = "open"
    BY <1>4, <2>1 DEF TypeOK, CloseInvoice, LeftOpen
  <2>4. CASE LeftOpen(p, i)
    BY <2>1, <2>2, <2>4 DEF Short
  <2>5. CASE q = p /\ pc[p] = "close" /\ Current(p) = i
    <3>1. ~Closable(p, i)
      BY <1>4, <2>5 DEF TypeOK, CloseInvoice, LeftOpen
    <3>2. covered[i] + own[p][i] < Amount[i]
      BY <2>3, <3>1 DEF Closable, VisibleStatus, VisibleCover, TypeOK, BillingAssumption
    <3>3. QED
      BY <2>1, <3>2
  <2>6. QED
    BY <1>4, <2>3, <2>4, <2>5 DEF TypeOK, CloseInvoice, LeftOpen, Current
<1>5. ASSUME NEW q \in Payments, Commit(q)
      PROVE  (covered[i] + own[p][i] < Amount[i])' \/ Joined(p, i)'
  <2>1. q # p /\ p \in Active /\ q \in Active /\ own' = own /\ overlap' = overlap
    BY <1>5 DEF TypeOK, Commit, Active
  <2>2. LeftOpen(p, i)
    BY <1>5, <2>1 DEF TypeOK, Commit, LeftOpen, VisibleStatus, Current
  <2>3. Joined(p, i) => Joined(p, i)'
    BY <1>5, <2>1, JoinedStays DEF TypeOK, Commit
  <2>4. CASE own[q][i] = 0
    BY <1>5, <2>1, <2>2, <2>3, <2>4 DEF TypeOK, Commit, VisibleCover, Short
  <2>5. CASE own[q][i] > 0
    <3>1. q \in overlap'[p] /\ pc'[q] = "committed" /\ own'[q][i] > 0
      BY <1>5, <2>1, <2>5 DEF TypeOK, Commit, Concurrent
    <3>2. QED
      BY <3>1 DEF Joined
  <2>6. QED
    BY <2>4, <2>5 DEF TypeOK
<1>6. ASSUME NEW q \in Payments, Rollback(q), q \in Active
      PROVE  (covered[i] + own[p][i] < Amount[i])' \/ Joined(p, i)'
  <2>1. q # p /\ p \in Active /\ LeftOpen(p, i) /\ own'[p] = own[p] /\ covered' = covered
    BY <1>6 DEF TypeOK, Rollback, LeftOpen, Active, Current, NoAllocations
  <2>2. Joined(p, i) => Joined(p, i)'
    BY <1>6, <2>1, JoinedStays DEF TypeOK, Rollback, Active
  <2>3. QED
    BY <2>1, <2>2 DEF Short
<1>7. CASE UNCHANGED vars
  BY <1>7 DEF vars, Short, LeftOpen, Joined, Active, Current
<1>8. QED
  BY <1>1, <1>2, <1>3, <1>4, <1>5, <1>6, <1>7
     DEF Next, Step, Refused, DeadlockVictim, Fail, Active

(* Only the commit of a call that holds the lock turns an invoice paid, and *)
(* the lock is on a covered invoice; no step takes cover away.             *)
LEMMA PaidStep == TypeOK /\ Locks /\ PaidIsCovered /\ [Next]_vars => PaidIsCovered'
<1> SUFFICES ASSUME TypeOK, Locks, PaidIsCovered, [Next]_vars PROVE PaidIsCovered'
  OBVIOUS
<1> USE BillingAssumption
<1>1. ASSUME NEW i \in Invoices, CreateInvoice(i) PROVE PaidIsCovered'
  BY <1>1 DEF TypeOK, CreateInvoice, PaidIsCovered, BillingAssumption
<1>2. ASSUME NEW p \in Payments, Commit(p) PROVE PaidIsCovered'
  <2> SUFFICES ASSUME NEW i \in Invoices, status'[i] = "paid", IssueStatus[i] # "paid"
               PROVE  covered'[i] >= Amount[i]
    BY DEF PaidIsCovered
  <2>1. covered'[i] = covered[i] + own[p][i]
    BY <1>2 DEF Commit, VisibleCover
  <2>2. covered[i] \in Nat /\ own[p][i] \in Nat /\ Amount[i] \in Nat
    BY DEF TypeOK, BillingAssumption
  <2>3. CASE i \in wrote[p]
    BY <2>1, <2>3 DEF Locks
  <2>4. CASE i \notin wrote[p]
    <3>1. status[i] = "paid"
      BY <1>2, <2>4 DEF Commit, VisibleStatus
    <3>2. covered[i] >= Amount[i]
      BY <3>1 DEF PaidIsCovered
    <3>3. QED
      BY <2>1, <2>2, <3>2
  <2>5. QED
    BY <2>3, <2>4
<1>3. CASE UNCHANGED <<status, covered>>
  BY <1>3 DEF PaidIsCovered
<1>4. QED
  BY <1>1, <1>2, <1>3
     DEF Next, Step, Refused, DeadlockVictim, Fail, RecordPayment, InsertAllocation,
         CloseInvoice, Rollback, vars

(* The two payments of a race stay as they are, and a commit that leaves a *)
(* covered invoice open finds its partner in Short.                        *)
LEMMA RacedStep ==
  /\ TypeOK /\ Locks /\ Rows /\ Unissued /\ Short /\ CoveredOpenWasRaced
  /\ [Next]_vars 
  => CoveredOpenWasRaced'
<1> SUFFICES ASSUME TypeOK, Locks, Rows, Unissued, Short, CoveredOpenWasRaced, [Next]_vars,
                    NEW i \in Invoices, status'[i] = "open", covered'[i] >= Amount[i]
             PROVE  \E p, q \in Payments :
                      /\ q \in overlap'[p]
                      /\ pc'[p] = "committed" /\ own'[p][i] > 0
                      /\ pc'[q] = "committed" /\ own'[q][i] > 0
  BY DEF CoveredOpenWasRaced
<1> DEFINE Race == \E p, q \in Payments :
                      /\ q \in overlap[p]
                      /\ pc[p] = "committed" /\ own[p][i] > 0
                      /\ pc[q] = "committed" /\ own[q][i] > 0
<1> USE BillingAssumption
<1>a. status[i] = "open" /\ covered[i] >= Amount[i] => Race
  BY DEF CoveredOpenWasRaced
<1> HIDE DEF Race
<1>1. ASSUME NEW j \in Invoices, CreateInvoice(j) PROVE Race'
  <2>1. covered[i] >= Amount[i] /\ Amount[i] > 0
    BY <1>1 DEF CreateInvoice, BillingAssumption
  <2>2. i # j
    BY <1>1, <2>1 DEF CreateInvoice, TypeOK, Unissued
  <2>3. Race
    BY <1>1, <1>a, <2>1, <2>2 DEF CreateInvoice, TypeOK
  <2>4. QED
    BY <1>1, <2>3 DEF CreateInvoice, Race
<1>2. ASSUME NEW r \in Payments, NEW request \in Requests, RecordPayment(r, request) PROVE Race'
  <2>1. Race
    BY <1>2, <1>a DEF RecordPayment
  <2>2. QED
    BY <1>2, <2>1 DEF RecordPayment, Race, TypeOK
<1>3. ASSUME NEW r \in Payments, InsertAllocation(r) PROVE Race'
  <2>1. Race
    BY <1>3, <1>a DEF InsertAllocation
  <2>2. QED
    BY <1>3, <2>1 DEF InsertAllocation, Race, TypeOK
<1>4. ASSUME NEW r \in Payments, CloseInvoice(r) PROVE Race'
  <2>1. Race
    BY <1>4, <1>a DEF CloseInvoice
  <2>2. QED
    BY <1>4, <2>1 DEF CloseInvoice, Race, TypeOK
<1>5. ASSUME NEW r \in Payments, Commit(r) PROVE Race'
  <2>1. i \notin wrote[r] /\ status[i] = "open" /\ covered'[i] = covered[i] + own[r][i]
    BY <1>5 DEF Commit, VisibleStatus, VisibleCover
  <2>2. CASE own[r][i] = 0
    <3>1. Race
      BY <1>a, <2>1, <2>2 DEF TypeOK
    <3>2. QED
      BY <1>5, <3>1 DEF Commit, Race, TypeOK
  <2>3. CASE own[r][i] > 0
    <3>1. r \in Active /\ LeftOpen(r, i)
      BY <1>5, <2>1, <2>3 DEF Commit, Active, LeftOpen
    <3>2. covered[i] + own[r][i] >= Amount[i]
      BY <2>1
    <3>3. covered[i] \in Nat /\ own[r][i] \in Nat /\ Amount[i] \in Nat
      BY DEF TypeOK, BillingAssumption
    <3>4. Joined(r, i)
      BY <3>1, <3>2, <3>3 DEF Short
    <3>5. PICK q \in overlap[r] : pc[q] = "committed" /\ own[q][i] > 0
      BY <3>4 DEF Joined
    <3>6. q \in Payments
      BY <3>5 DEF TypeOK
    <3>7. /\ q \in overlap'[r]
          /\ pc'[r] = "committed" /\ own'[r][i] > 0
          /\ pc'[q] = "committed" /\ own'[q][i] > 0
      BY <1>5, <2>3, <3>5, <3>6 DEF Commit, TypeOK
    <3>8. QED
      BY <3>6, <3>7 DEF Race
  <2>4. QED
    BY <2>2, <2>3 DEF TypeOK
<1>6. ASSUME NEW r \in Payments, r \in Active, Rollback(r) PROVE Race'
  <2>1. Race
    BY <1>6, <1>a DEF Rollback
  <2>2. QED
    BY <1>6, <2>1 DEF Rollback, Race, TypeOK, Active
<1>7. CASE UNCHANGED vars
  BY <1>7, <1>a DEF vars, Race
<1>8. Race'
  BY <1>1, <1>2, <1>3, <1>4, <1>5, <1>6, <1>7
     DEF Next, Step, Refused, DeadlockVictim, Fail, Active, Race
<1>9. QED
  BY <1>8 DEF Race

----------------------------------------------------------------------------
(* The inductive invariant holds in every reachable state. *)
THEOREM Invariance == Spec => []IInv
<1> USE BillingAssumption
<1>1. Init => IInv
  <2> SUFFICES ASSUME Init PROVE IInv
    OBVIOUS
  <2>1. TypeOK
    BY DEF Init, TypeOK, InvoiceStatus, NoAllocations
  <2>2. Active = {}
    BY DEF Init, Active
  <2>3. Locks /\ Rows /\ Unissued
    BY DEF Init, Locks, Rows, NoAllocations, Unissued
  <2>4. Concurrent /\ Short
    BY <2>2 DEF Concurrent, Short
  <2>5. PaidIsCovered /\ CoveredOpenWasRaced
    BY DEF Init, PaidIsCovered, CoveredOpenWasRaced
  <2>6. QED
    BY <2>1, <2>3, <2>4, <2>5 DEF IInv
<1>2. IInv /\ [Next]_vars => IInv'
  BY TypeStep, LocksStep, RowsStep, UnissuedStep, ConcurrentStep, ShortStep, PaidStep,
     RacedStep DEF IInv
<1>3. QED
  BY <1>1, <1>2, PTL DEF Spec

(* Every variable of a reachable state has its type. *)
THEOREM TypeCorrect == Spec => []TypeOK
  BY Invariance, PTL DEF IInv

(* In every reachable state an invoice that was not issued as paid is paid *)
(* only if the committed allocations cover it.                             *)
THEOREM PaidCovered == Spec => []PaidIsCovered
  BY Invariance, PTL DEF IInv

(* A covered invoice stays open only after two payments on it overlapped:  *)
(* payments recorded one after the other always close it.                  *)
THEOREM StaleOpenNeedsRace == Spec => []CoveredOpenWasRaced
  BY Invariance, PTL DEF IInv

(* One step of the sessions is one step of the ledger, or none. *)
LEMMA LedgerStep == IInv /\ [Next]_vars => [Promise!Next]_<<status, covered>>
<1> SUFFICES ASSUME IInv, [Next]_vars, ~UNCHANGED <<status, covered>> PROVE Promise!Next
  OBVIOUS
<1> USE BillingAssumption DEF IInv
<1>1. ASSUME NEW i \in Invoices, CreateInvoice(i) PROVE Promise!Next
  BY <1>1 DEF CreateInvoice, Promise!Next, Promise!Issue
<1>2. ASSUME NEW p \in Payments, Commit(p) PROVE Promise!Next
  <2>1. covered' \in [Invoices -> Nat] /\ status' \in [Invoices -> InvoiceStatus]
    BY <1>2, TypeStep DEF TypeOK
  <2>2. ASSUME NEW i \in Invoices
        PROVE  /\ covered'[i] >= covered[i]
               /\ \/ status'[i] = status[i]
                  \/ /\ status[i] = "open" /\ status'[i] = "paid"
                     /\ covered'[i] > covered[i]
                     /\ covered'[i] >= Amount[i]
               /\ covered'[i] > covered[i] => status[i] # "none"
    <3>1. covered'[i] = covered[i] + own[p][i] /\ status'[i] = VisibleStatus(p, i)
      BY <1>2 DEF Commit, VisibleCover
    <3>2. covered[i] \in Nat /\ own[p][i] \in Nat /\ Amount[i] \in Nat
      BY DEF TypeOK, BillingAssumption
    <3>3. CASE i \in wrote[p]
      BY <3>1, <3>2, <3>3 DEF VisibleStatus, Locks
    <3>4. CASE i \notin wrote[p]
      BY <3>1, <3>2, <3>4 DEF VisibleStatus, Rows
    <3>5. QED
      BY <3>3, <3>4
  <2>3. Promise!Settle
    BY <2>1, <2>2 DEF Promise!Settle, Promise!InvoiceStatus, InvoiceStatus
  <2>4. QED
    BY <2>3 DEF Promise!Next
<1>3. QED
  BY <1>1, <1>2
     DEF Next, Step, Refused, DeadlockVictim, Fail, RecordPayment, InsertAllocation,
         CloseInvoice, Rollback, vars

(* The interleaved statements of all calls implement the one-step ledger. *)
THEOREM Implementation == Spec => ImplementsLedger
<1>1. Init => Promise!Init
  BY DEF Init, Promise!Init
<1>2. QED
  BY <1>1, Invariance, LedgerStep, PTL DEF Spec, ImplementsLedger, Promise!Spec

(* Transactions that wait for each other in a circle.  Each of them has    *)
(* closed one invoice of its payment and waits to close another.           *)
Ring(S) ==
  S # {} /\ \A p \in S : (\E q \in S : WaitsFor(p, q)) /\ (\E q \in S : WaitsFor(q, p))

DeadlocksSpanInvoices ==
  \A S \in SUBSET Active : Ring(S) =>
    \A p \in S : \E i \in wrote[p] : i # Current(p) /\ own[p][i] > 0 /\ own[p][Current(p)] > 0

(* packages/db/src/billing.ts, recordPayment: a payment on one invoice is  *)
(* never part of a deadlock, however many are recorded on it at the same   *)
(* time; the list of allocations, in the order of the caller, is what can  *)
(* make two payments wait for each other.                                  *)
THEOREM OnlySplitPaymentsDeadlock == Spec => []DeadlocksSpanInvoices
<1>1. ASSUME IInv, NEW S \in SUBSET Active, Ring(S), NEW p \in S
      PROVE  \E i \in wrote[p] : i # Current(p) /\ own[p][i] > 0 /\ own[p][Current(p)] > 0
  <2>1. PICK q \in S, r \in S : WaitsFor(p, q) /\ WaitsFor(r, p) BY <1>1 DEF Ring
  <2>2. p \in Payments /\ q \in Payments /\ p # q BY <2>1 DEF Active, WaitsFor
  <2>3. Current(r) \in wrote[p] /\ Current(p) \in wrote[q] /\ pc[p] = "close" BY <2>1 DEF WaitsFor
  <2>4. own[p][Current(r)] > 0 /\ Current(r) \notin wrote[q] BY <1>1, <2>2, <2>3 DEF IInv, Locks
  <2>5. own[p][Current(p)] > 0 BY <1>1, <2>2, <2>3 DEF IInv, Rows
  <2> QED BY <2>3, <2>4, <2>5
<1>2. IInv => DeadlocksSpanInvoices BY <1>1 DEF DeadlocksSpanInvoices
<1> QED BY <1>2, Invariance, PTL

----------------------------------------------------------------------------
(* The pages of what is owed.                                              *)

(* What is owed, as numbers; an invoice that is closed is covered. *)
DebtTypes ==
  /\ debtDay \in DOMAIN Tomorrow
  /\ issuedOn \in [Bills -> Int] /\ billStatus \in [Bills -> {"open", "paid"}]
  /\ paidOn \in [Bills -> Nat]
  /\ \A b \in Bills : /\ paidOn[b] <= BillAmount[b]
                      /\ billStatus[b] = "paid" => paidOn[b] = BillAmount[b]
  /\ promise \in [Debtors -> [on : Int, for : Int]] /\ contact \in [Debtors -> Int]

Owed == [b \in Bills |-> OpenBalance(b)]
Late == {b \in Unpaid : DaysOverdue(b) > 0}

LEMMA OwedFinite == ASSUME NEW X, X \subseteq Bills PROVE IsFiniteSet(X)
BY FS_Subset, CollectionsAssumption

LEMMA OwedSum ==
  ASSUME NEW X, X \subseteq Bills
  PROVE  MapThenSumSet(OpenBalance, X) = SumOf(Owed, X)
<1>1. IsFiniteSet(X)
  BY OwedFinite
<1>2. MapThenSumSet(OpenBalance, X) = SumOf([b \in X |-> OpenBalance(b)], X)
  BY DEF SumOf, MapThenSumSet, MapThenFoldSet
<1>3. SumOf([b \in X |-> OpenBalance(b)], X) = SumOf(Owed, X)
  BY <1>1, SumOfAgrees DEF Owed
<1>. QED
  BY <1>2, <1>3

Buckets == {"current", "d1_30", "d31_60", "d61_90", "d90_plus"}

LEMMA OwedTypes ==
  ASSUME DebtTypes
  PROVE  /\ Unpaid \subseteq Bills /\ Late \subseteq Unpaid
         /\ \A b \in Bills : /\ OpenBalance(b) \in Nat /\ Owed[b] = OpenBalance(b)
                             /\ OpenBalance(b) > 0 => billStatus[b] = "open"
         /\ \A b \in Unpaid : OpenBalance(b) > 0 /\ BillOf[b] \in Debtors
         /\ \A b \in Unpaid : DueOnDay(b) \in Int /\ DaysOverdue(b) \in Int
BY CollectionsAssumption DEF DebtTypes, Unpaid, Issued, Late, OpenBalance, Owed, DueOnDay, DaysOverdue

(* An invoice that fits the list of open ones is on it: fewer than all the *)
(* unpaid ones are due before it.                                          *)
LEMMA ListHoldsAll ==
  ASSUME DebtTypes, Cardinality(Unpaid) <= ListLimit
  PROVE  OpenBills = Unpaid
<1>1. IsFiniteSet(Unpaid) /\ Cardinality(Unpaid) \in Nat
  BY OwedTypes, FS_Subset, FS_CardinalityType, CollectionsAssumption
<1>2. ASSUME NEW b \in Unpaid
      PROVE  Cardinality({a \in Unpaid : DueOnDay(a) < DueOnDay(b)}) < ListLimit
  <2>. DEFINE E == {a \in Unpaid : DueOnDay(a) < DueOnDay(b)}
  <2>1. E \subseteq Unpaid \ {b}
    BY <1>2, OwedTypes
  <2>2. IsFiniteSet(Unpaid \ {b}) /\ Cardinality(Unpaid \ {b}) = Cardinality(Unpaid) - 1
    BY <1>1, <1>2, FS_RemoveElement
  <2>3. Cardinality(E) <= Cardinality(Unpaid \ {b}) /\ Cardinality(E) \in Nat
    BY <2>1, <2>2, FS_Subset, FS_CardinalityType
  <2>. QED
    BY <1>1, <2>2, <2>3, CollectionsAssumption
<1>. QED
  BY <1>2 DEF OpenBills

(* Each way to count is a sum over groups of the same invoices. *)
LEMMA DebtByBucket ==
  ASSUME DebtTypes
  PROVE  /\ DOMAIN Aging(Unpaid).buckets = Buckets
         /\ Aging(Unpaid).total = MapThenSumSet(LAMBDA k : Aging(Unpaid).buckets[k], DOMAIN Aging(Unpaid).buckets)
<1>. DEFINE key == [b \in Unpaid |-> BucketOf(b)]
            f == [k \in Buckets |-> SumOf(Owed, {b \in Unpaid : key[b] = k})]
            buckets == [k \in Buckets |-> MapThenSumSet(OpenBalance, {b \in Unpaid : BucketOf(b) = k})]
<1>1. Aging(Unpaid).buckets = buckets /\ Aging(Unpaid).total = MapThenSumSet(OpenBalance, Unpaid)
  BY DEF Aging, Buckets
<1>2. \A k \in Buckets : MapThenSumSet(OpenBalance, {b \in Unpaid : BucketOf(b) = k})
                           = SumOf(Owed, {b \in Unpaid : key[b] = k})
  <2>1. SUFFICES ASSUME NEW k \in Buckets
                 PROVE  MapThenSumSet(OpenBalance, {b \in Unpaid : BucketOf(b) = k})
                          = SumOf(Owed, {b \in Unpaid : key[b] = k})
    OBVIOUS
  <2>2. {b \in Unpaid : key[b] = k} = {b \in Unpaid : BucketOf(b) = k}
    OBVIOUS
  <2>3. {b \in Unpaid : BucketOf(b) = k} \subseteq Bills
    BY OwedTypes
  <2>. QED
    BY <2>2, <2>3, OwedSum
<1>3. buckets = f
  BY <1>2
<1>4. \A b \in Unpaid : key[b] \in Buckets
  BY OwedTypes DEF BucketOf, Buckets
<1>5. IsFiniteSet(Buckets)
  <2>. DEFINE S1 == {"current"}
              S2 == S1 \cup {"d1_30"}
              S3 == S2 \cup {"d31_60"}
              S4 == S3 \cup {"d61_90"}
  <2>1. IsFiniteSet(S1)
    BY FS_Singleton
  <2>2. IsFiniteSet(S2)
    BY <2>1, FS_AddElement
  <2>3. IsFiniteSet(S3)
    BY <2>2, FS_AddElement
  <2>4. IsFiniteSet(S4)
    BY <2>3, FS_AddElement
  <2>5. IsFiniteSet(S4 \cup {"d90_plus"})
    BY <2>4, FS_AddElement
  <2>6. S4 \cup {"d90_plus"} = Buckets
    BY DEF Buckets
  <2>. QED
    BY <2>5, <2>6
<1>6. IsFiniteSet(Unpaid) /\ \A b \in Unpaid : Owed[b] \in Int
  BY OwedTypes, OwedFinite
<1>7. SumOf(f, Buckets) = SumOf(Owed, Unpaid)
  <2>. HIDE DEF key
  <2>. QED
    BY <1>4, <1>5, <1>6, SumOfGroups
<1>8. MapThenSumSet(OpenBalance, Unpaid) = SumOf(Owed, Unpaid)
  BY OwedTypes, OwedSum
<1>9. DOMAIN Aging(Unpaid).buckets = Buckets
  BY <1>1
<1>10. MapThenSumSet(LAMBDA k : Aging(Unpaid).buckets[k], DOMAIN Aging(Unpaid).buckets) = SumOf(f, Buckets)
  <2>1. MapThenSumSet(LAMBDA k : Aging(Unpaid).buckets[k], DOMAIN Aging(Unpaid).buckets)
          = SumOf(Aging(Unpaid).buckets, DOMAIN Aging(Unpaid).buckets)
    BY DEF SumOf
  <2>. QED
    BY <1>1, <1>3, <1>9, <2>1
<1>. QED
  BY <1>1, <1>7, <1>8, <1>9, <1>10

(* Sums by customer: of any of the unpaid invoices, over any customers     *)
(* among whom theirs are.                                                  *)
LEMMA DebtByCustomer ==
  ASSUME DebtTypes, NEW X, X \subseteq Unpaid, NEW K, K \subseteq Debtors, \A b \in X : BillOf[b] \in K
  PROVE  SumOf([c \in K |-> SumOf(Owed, {b \in X : BillOf[b] = c})], K) = MapThenSumSet(OpenBalance, X)
<1>1. IsFiniteSet(K) /\ IsFiniteSet(X)
  BY OwedTypes, OwedFinite, FS_Subset, CollectionsAssumption
<1>2. \A b \in X : Owed[b] \in Int
  BY OwedTypes
<1>3. SumOf([c \in K |-> SumOf(Owed, {b \in X : BillOf[b] = c})], K) = SumOf(Owed, X)
  BY <1>1, <1>2, SumOfGroups
<1>4. MapThenSumSet(OpenBalance, X) = SumOf(Owed, X)
  BY OwedTypes, OwedSum
<1>. QED
  BY <1>3, <1>4

LEMMA BalanceIs ==
  ASSUME DebtTypes, NEW c
  PROVE  /\ CustomerBalance(c).open = SumOf(Owed, {b \in Unpaid : BillOf[b] = c})
         /\ CustomerBalance(c).overdue = SumOf(Owed, {b \in Late : BillOf[b] = c})
<1>1. /\ CustomerBalance(c).open = MapThenSumSet(OpenBalance, {b \in Unpaid : BillOf[b] = c})
      /\ CustomerBalance(c).overdue
           = MapThenSumSet(OpenBalance, {b \in {x \in Unpaid : BillOf[x] = c} : DueOnDay(b) < debtDay})
  BY DEF CustomerBalance
<1>2. {b \in {x \in Unpaid : BillOf[x] = c} : DueOnDay(b) < debtDay} = {b \in Late : BillOf[b] = c}
  BY OwedTypes, CollectionsAssumption DEF Late, DaysOverdue, DebtTypes
<1>3. {b \in Unpaid : BillOf[b] = c} \subseteq Bills /\ {b \in Late : BillOf[b] = c} \subseteq Bills
  BY OwedTypes
<1>. QED
  BY <1>1, <1>2, <1>3, OwedSum

(* The customers of late invoices, and what each of them is in the queue.  *)
LateOf(c) == {b \in Late : BillOf[b] = c}
LateDebtors == {BillOf[b] : b \in Late}

LEMMA QueueIs ==
  ASSUME DebtTypes
  PROVE  /\ DOMAIN CasesFromInvoices(Unpaid) = LateDebtors /\ LateDebtors \subseteq Debtors
         /\ \A c \in LateDebtors : CasesFromInvoices(Unpaid)[c].balance = SumOf(Owed, LateOf(c))
<1>1. {x \in Unpaid : DaysOverdue(x) > 0} = Late
  BY DEF Late
<1>2. DOMAIN CasesFromInvoices(Unpaid) = {BillOf[b] : b \in {x \in Unpaid : DaysOverdue(x) > 0}}
  BY DEF CasesFromInvoices
<1>3. DOMAIN CasesFromInvoices(Unpaid) = LateDebtors
  BY <1>1, <1>2 DEF LateDebtors
<1>4. ASSUME NEW c \in LateDebtors
      PROVE  CasesFromInvoices(Unpaid)[c].balance = SumOf(Owed, LateOf(c))
  <2>1. c \in {BillOf[b] : b \in {x \in Unpaid : DaysOverdue(x) > 0}}
    BY <1>1, <1>4 DEF LateDebtors
  <2>2. CasesFromInvoices(Unpaid)[c].balance
          = MapThenSumSet(OpenBalance, {b \in Unpaid : BillOf[b] = c /\ DaysOverdue(b) > 0})
    BY <2>1 DEF CasesFromInvoices
  <2>3. {b \in Unpaid : BillOf[b] = c /\ DaysOverdue(b) > 0} = LateOf(c)
    BY DEF LateOf, Late
  <2>4. LateOf(c) \subseteq Bills
    BY OwedTypes DEF LateOf
  <2>. QED
    BY <2>2, <2>3, <2>4, OwedSum
<1>. QED
  BY <1>3, <1>4, OwedTypes DEF LateDebtors

(* A customer owes something late exactly when one of his invoices is.     *)
LEMMA LateOwes ==
  ASSUME DebtTypes, NEW c
  PROVE  /\ CustomerBalance(c).overdue \in Nat
         /\ CustomerBalance(c).overdue > 0 <=> c \in LateDebtors
<1>1. LateOf(c) \subseteq Late /\ IsFiniteSet(LateOf(c)) /\ \A b \in LateOf(c) : Owed[b] \in Nat /\ Owed[b] > 0
  BY OwedTypes, OwedFinite DEF LateOf
<1>2. CustomerBalance(c).overdue = SumOf(Owed, LateOf(c))
  BY BalanceIs DEF LateOf
<1>3. SumOf(Owed, LateOf(c)) \in Nat /\ \A b \in LateOf(c) : Owed[b] <= SumOf(Owed, LateOf(c))
  BY <1>1, SumOfNatural
<1>4. CASE LateOf(c) = {}
  <2>1. SumOf(Owed, LateOf(c)) = 0
    BY <1>4, SumOfEmpty
  <2>. QED
    BY <1>2, <1>4, <2>1 DEF LateOf, LateDebtors
<1>5. CASE LateOf(c) # {}
  BY <1>1, <1>2, <1>3, <1>5 DEF LateOf, LateDebtors
<1>. QED
  BY <1>4, <1>5

(* The three sums over customers. *)
LEMMA DebtByBalance ==
  ASSUME DebtTypes
  PROVE  /\ Aging(Unpaid).total = MapThenSumSet(LAMBDA c : CustomerBalance(c).open, Debtors)
         /\ Aging(Unpaid).overdue = MapThenSumSet(LAMBDA c : CustomerBalance(c).overdue, Debtors)
         /\ Aging(Unpaid).overdue = MapThenSumSet(LAMBDA c : CasesFromInvoices(Unpaid)[c].balance,
                                                  DOMAIN CasesFromInvoices(Unpaid))
<1>1. /\ Aging(Unpaid).total = MapThenSumSet(OpenBalance, Unpaid)
      /\ Aging(Unpaid).overdue = MapThenSumSet(OpenBalance, Late)
  BY DEF Aging, Late
<1>2. \A b \in Unpaid : BillOf[b] \in Debtors
  BY OwedTypes
<1>3. MapThenSumSet(OpenBalance, Unpaid) = MapThenSumSet(LAMBDA c : CustomerBalance(c).open, Debtors)
  <2>1. MapThenSumSet(LAMBDA c : CustomerBalance(c).open, Debtors)
          = SumOf([c \in Debtors |-> CustomerBalance(c).open], Debtors)
    BY DEF SumOf, MapThenSumSet, MapThenFoldSet
  <2>2. [c \in Debtors |-> CustomerBalance(c).open]
          = [c \in Debtors |-> SumOf(Owed, {b \in Unpaid : BillOf[b] = c})]
    BY BalanceIs
  <2>. QED
    BY <1>2, <2>1, <2>2, DebtByCustomer
<1>4. MapThenSumSet(OpenBalance, Late) = MapThenSumSet(LAMBDA c : CustomerBalance(c).overdue, Debtors)
  <2>1. MapThenSumSet(LAMBDA c : CustomerBalance(c).overdue, Debtors)
          = SumOf([c \in Debtors |-> CustomerBalance(c).overdue], Debtors)
    BY DEF SumOf, MapThenSumSet, MapThenFoldSet
  <2>2. [c \in Debtors |-> CustomerBalance(c).overdue]
          = [c \in Debtors |-> SumOf(Owed, {b \in Late : BillOf[b] = c})]
    BY BalanceIs
  <2>. QED
    BY <1>2, <2>1, <2>2, OwedTypes, DebtByCustomer
<1>5. MapThenSumSet(OpenBalance, Late)
        = MapThenSumSet(LAMBDA c : CasesFromInvoices(Unpaid)[c].balance, DOMAIN CasesFromInvoices(Unpaid))
  <2>1. MapThenSumSet(LAMBDA c : CasesFromInvoices(Unpaid)[c].balance, LateDebtors)
          = SumOf([c \in LateDebtors |-> CasesFromInvoices(Unpaid)[c].balance], LateDebtors)
    BY DEF SumOf, MapThenSumSet, MapThenFoldSet
  <2>2. [c \in LateDebtors |-> CasesFromInvoices(Unpaid)[c].balance]
          = [c \in LateDebtors |-> SumOf(Owed, {b \in Late : BillOf[b] = c})]
    BY QueueIs DEF LateOf
  <2>3. LateDebtors \subseteq Debtors /\ \A b \in Late : BillOf[b] \in LateDebtors
    BY QueueIs DEF LateDebtors
  <2>4. MapThenSumSet(OpenBalance, Late) = SumOf([c \in LateDebtors |-> SumOf(Owed, {b \in Late : BillOf[b] = c})], LateDebtors)
    BY <2>3, OwedTypes, DebtByCustomer
  <2>5. DOMAIN CasesFromInvoices(Unpaid) = LateDebtors
    BY QueueIs
  <2>. QED
    BY <2>1, <2>2, <2>4, <2>5
<1>. QED
  BY <1>1, <1>3, <1>4, <1>5

(* The pages: every open invoice is in one bucket, everybody who is late   *)
(* has one place in the queue, and the badges of a customer are the late   *)
(* invoices and those that are due today.                                  *)
LEMMA OneBucket ==
  ASSUME DebtTypes, OpenBills = Unpaid, NEW b \in OpenBills
  PROVE  Cardinality({k \in DOMAIN Aging(OpenBills).buckets : b \in BillingPage(k).shown}) = 1
<1>1. DOMAIN Aging(OpenBills).buckets = Buckets
  BY DebtByBucket
<1>2. BucketOf(b) \in Buckets
  BY OwedTypes DEF BucketOf, Buckets
<1>3. {k \in Buckets : b \in BillingPage(k).shown} = {BucketOf(b)}
  BY <1>2 DEF BillingPage
<1>. QED
  BY <1>1, <1>3, FS_Singleton

Urgent == {"call_now", "escalate"}
Other == {"remind", "wait_promise", "recently_contacted"}

LEMMA OnePlace ==
  ASSUME DebtTypes, OpenBills = Unpaid, NEW c
  PROVE  /\ c \in CollectionsPage.today \cup CollectionsPage.later <=> c \in LateDebtors
         /\ c \notin CollectionsPage.today \cap CollectionsPage.later
<1>. DEFINE cases == CasesFromInvoices(OpenBills)
<1>1. DOMAIN cases = LateDebtors
  BY QueueIs
<1>2. \A d \in LateDebtors : Action(d, cases[d]) \in Urgent \cup Other
  BY DEF Action, Urgent, Other
<1>3. /\ CollectionsPage.today = {d \in DOMAIN cases : Action(d, cases[d]) \in Urgent}
      /\ CollectionsPage.later = {d \in DOMAIN cases : Action(d, cases[d]) \in Other}
  BY DEF CollectionsPage, Urgent, Other
<1>4. Urgent \cap Other = {}
  BY DEF Urgent, Other
<1>. HIDE DEF cases
<1>. QED
  BY <1>1, <1>2, <1>3, <1>4

LEMMA SamePage ==
  ASSUME DebtTypes, OpenBills = Unpaid, NEW c \in Debtors
  PROVE  {b \in CustomerBillingPage(c).late : DaysOverdue(b) # 0}
           = {b \in OpenBills : BillOf[b] = c /\ BucketOf(b) # "current"}
<1>1. CustomerBillingPage(c).late = {b \in Issued : BillOf[b] = c /\ OpenBalance(b) > 0 /\ DaysOverdue(b) >= 0}
  BY DEF CustomerBillingPage
<1>2. \A b \in Issued : b \in Bills /\ (OpenBalance(b) > 0 <=> b \in Unpaid)
  BY CollectionsAssumption DEF DebtTypes, Unpaid, Issued, OpenBalance
<1>3. \A b \in Unpaid : DaysOverdue(b) \in Int /\ (BucketOf(b) # "current" <=> DaysOverdue(b) > 0)
  BY OwedTypes DEF BucketOf
<1>4. Unpaid \subseteq Issued
  BY DEF Unpaid
<1>5. \A b : b \in {x \in Issued : BillOf[x] = c /\ OpenBalance(x) > 0 /\ DaysOverdue(x) >= 0}
              /\ DaysOverdue(b) # 0
            <=> b \in Unpaid /\ BillOf[b] = c /\ BucketOf(b) # "current"
  BY <1>2, <1>3, <1>4
<1>. QED
  BY <1>1, <1>5

LEMMA SameGate ==
  ASSUME DebtTypes, NEW c
  PROVE  OrderGate(c, 1, 0, 1) = "hold_overdue" <=> c \in LateDebtors
BY LateOwes DEF OrderGate

LEMMA CountedOnce ==
  ASSUME DebtTypes
  PROVE  DebtIsCountedOnce
<1>1. SUFFICES ASSUME Cardinality(Unpaid) <= ListLimit
               PROVE  DebtIsCountedOnce
  BY DEF DebtIsCountedOnce
<1>2. OpenBills = Unpaid
  BY <1>1, ListHoldsAll
<1>3. /\ Aging(OpenBills).total
           = MapThenSumSet(LAMBDA k : Aging(OpenBills).buckets[k], DOMAIN Aging(OpenBills).buckets)
      /\ Aging(OpenBills).total = MapThenSumSet(LAMBDA c : CustomerBalance(c).open, Debtors)
      /\ Aging(OpenBills).overdue = MapThenSumSet(LAMBDA c : CustomerBalance(c).overdue, Debtors)
      /\ Aging(OpenBills).overdue = MapThenSumSet(LAMBDA c : CasesFromInvoices(OpenBills)[c].balance,
                                                  DOMAIN CasesFromInvoices(OpenBills))
  BY <1>2, DebtByBucket, DebtByBalance
<1>4. CollectionsPage.cases = CasesFromInvoices(OpenBills)
  BY DEF CollectionsPage
<1>5. \A b \in OpenBills :
        Cardinality({k \in DOMAIN Aging(OpenBills).buckets : b \in BillingPage(k).shown}) = 1
  BY <1>2, OneBucket
<1>6. \A c \in Debtors :
        /\ CustomerBalance(c).overdue > 0 <=>
             (c \in CollectionsPage.today \cup CollectionsPage.later
                /\ c \notin CollectionsPage.today \cap CollectionsPage.later)
        /\ {b \in CustomerBillingPage(c).late : DaysOverdue(b) # 0} =
             {b \in OpenBills : BillOf[b] = c /\ BucketOf(b) # "current"}
        /\ OrderGate(c, 1, 0, 1) = "hold_overdue" <=> c \in DOMAIN CollectionsPage.cases
  <2>1. SUFFICES ASSUME NEW c \in Debtors
        PROVE
        /\ CustomerBalance(c).overdue > 0 <=>
             (c \in CollectionsPage.today \cup CollectionsPage.later
                /\ c \notin CollectionsPage.today \cap CollectionsPage.later)
        /\ {b \in CustomerBillingPage(c).late : DaysOverdue(b) # 0} =
             {b \in OpenBills : BillOf[b] = c /\ BucketOf(b) # "current"}
        /\ OrderGate(c, 1, 0, 1) = "hold_overdue" <=> c \in DOMAIN CollectionsPage.cases
    OBVIOUS
  <2>2. DOMAIN CollectionsPage.cases = LateDebtors
    BY <1>2, <1>4, QueueIs
  <2>. QED
    BY <1>2, <2>2, LateOwes, OnePlace, SamePage, SameGate
<1>. QED
  BY <1>3, <1>4, <1>5, <1>6 DEF DebtIsCountedOnce

LEMMA DebtInit == CollectionsInit => DebtTypes
BY CollectionsAssumption DEF CollectionsInit, DebtTypes, NoPromise, NoDate

LEMMA DebtStep == DebtTypes /\ [CollectionsNext]_debtVars => DebtTypes'
<1>1. SUFFICES ASSUME DebtTypes, [CollectionsNext]_debtVars PROVE DebtTypes'
  OBVIOUS
<1>2. CASE IssueBill
  BY <1>1, <1>2, CollectionsAssumption DEF IssueBill, DebtTypes
<1>3. CASE PayBill
  <2>0. PICK b \in Unpaid : \E amount \in 1..OpenBalance(b), closes \in BOOLEAN :
             /\ paidOn' = [paidOn EXCEPT ![b] = @ + amount]
             /\ closes => amount = OpenBalance(b)
             /\ billStatus' = [billStatus EXCEPT ![b] = IF closes THEN "paid" ELSE @]
             /\ UNCHANGED <<debtDay, issuedOn, promise, contact>>
    BY <1>3 DEF PayBill
  <2>1. PICK amount \in 1..OpenBalance(b), closes \in BOOLEAN :
             /\ paidOn' = [paidOn EXCEPT ![b] = @ + amount]
             /\ closes => amount = OpenBalance(b)
             /\ billStatus' = [billStatus EXCEPT ![b] = IF closes THEN "paid" ELSE @]
             /\ UNCHANGED <<debtDay, issuedOn, promise, contact>>
    BY <2>0
  <2>2. b \in Bills /\ BillAmount[b] \in Nat /\ billStatus[b] = "open" /\ paidOn[b] \in Nat
        /\ amount \in Nat /\ amount <= BillAmount[b] - paidOn[b]
    <3>1. b \in Bills /\ billStatus[b] = "open"
      BY DEF Unpaid, Issued
    <3>2. BillAmount[b] \in Nat /\ paidOn[b] \in Nat /\ paidOn[b] <= BillAmount[b]
      BY <1>1, <3>1, CollectionsAssumption DEF DebtTypes
    <3>3. amount \in 1..(BillAmount[b] - paidOn[b])
      BY DEF OpenBalance
    <3>. QED
      BY <3>1, <3>2, <3>3
  <2>. QED
    BY <1>1, <2>1, <2>2, CollectionsAssumption DEF DebtTypes, OpenBalance
<1>4. CASE LogPromise
  <2>0. PICK c \in DOMAIN CasesFromInvoices(OpenBills), d \in PromiseDays :
             \E p \in Latest({promise[c], [on |-> debtDay, for |-> debtDay + d]}) :
               promise' = [promise EXCEPT ![c] = p]
    BY <1>4 DEF LogPromise
  <2>1. PICK p \in Latest({promise[c], [on |-> debtDay, for |-> debtDay + d]}) :
             promise' = [promise EXCEPT ![c] = p]
    BY <2>0
  <2>2. p \in {promise[c], [on |-> debtDay, for |-> debtDay + d]}
    BY <2>1 DEF Latest
  <2>3. debtDay \in Nat /\ d \in Nat
    BY <1>1, <2>1, CollectionsAssumption DEF DebtTypes
  <2>4. c \in Debtors => p \in [on : Int, for : Int]
    BY <1>1, <2>2, <2>3 DEF DebtTypes
  <2>. QED
    BY <1>1, <1>4, <2>1, <2>4 DEF DebtTypes, LogPromise
<1>5. CASE SendReminder
  <2>1. PICK c \in DOMAIN CasesFromInvoices(OpenBills) : contact' = [contact EXCEPT ![c] = debtDay]
    BY <1>5 DEF SendReminder
  <2>2. debtDay \in Int
    BY <1>1, CollectionsAssumption DEF DebtTypes
  <2>3. contact' \in [Debtors -> Int]
    BY <1>1, <2>1, <2>2 DEF DebtTypes
  <2>. QED
    BY <1>1, <1>5, <2>3 DEF DebtTypes, SendReminder
<1>6. CASE DebtDayPasses
  BY <1>1, <1>6, CollectionsAssumption DEF DebtDayPasses, DebtTypes
<1>7. CASE UNCHANGED debtVars
  BY <1>1, <1>7 DEF debtVars, DebtTypes
<1>. QED
  BY <1>1, <1>2, <1>3, <1>4, <1>5, <1>6, <1>7 DEF CollectionsNext

(* What is owed is counted the same by every page, whatever is issued,     *)
(* paid, promised and whichever days pass (collections.ts, receivables.ts).*)
THEOREM DebtAgrees == CollectionsSpec => [](CollectionsTypeOK /\ DebtIsCountedOnce)
<1>1. CollectionsInit => DebtTypes
  BY DebtInit
<1>2. DebtTypes /\ [CollectionsNext]_debtVars => DebtTypes'
  BY DebtStep
<1>3. DebtTypes => CollectionsTypeOK
  BY CollectionsAssumption DEF DebtTypes, CollectionsTypeOK
<1>4. DebtTypes => DebtIsCountedOnce
  BY CountedOnce
<1>. QED
  BY <1>1, <1>2, <1>3, <1>4, PTL DEF CollectionsSpec
=============================================================================
