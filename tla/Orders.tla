------------------------------- MODULE Orders -------------------------------
(***************************************************************************)
(* Orders, their numbers and the stock they reserve: nextOrderNumber with  *)
(* createOrder, approveOrder, rejectOrder and setStock                     *)
(* (packages/db/src/commerce.ts) as READ COMMITTED transactions, with the  *)
(* server actions that call them (apps/web/app/(app)/orders).  Each call   *)
(* is one transaction of Calls; its writes stay private, and its rows      *)
(* locked, until Commit.  approveOrder runs two statements: the UPDATE of  *)
(* the order and then the UPDATE ... FROM of inventory_levels, which takes *)
(* its row locks one by one in the order the plan visits the rows, and     *)
(* adds to each row the quantity of ONE matching line.                     *)
(*                                                                         *)
(* createOrder inserts the number and the status that its caller gives it. *)
(* The form takes the number from nextOrderNumber and leaves the status    *)
(* pending; a queue, a synchronisation or the demo brings both.  A number  *)
(* is a text: a series and the digits at its end, if it has any.           *)
(* Quantities are whole.  No code of the repository deletes an order.      *)
(***************************************************************************)
EXTENDS Naturals, Sequences, FiniteSets, FiniteSetsExt, SequencesExt

CONSTANTS Orders,       \* orders rows
          Products,     \* catalogue products
          Lines,        \* order_lines rows
          LineOrder,    \* order_lines.order_id
          LineProduct,  \* order_lines.product_id, outside Products when null
          Quantity,     \* order_lines.quantity
          StockSyncs,   \* values of "allocated" that setStock is called with
          Series,       \* what stands before the digits of an order number
          Own,          \* the series of nextOrderNumber
          First,        \* its number when no order has digits
          Supplied,     \* numbers and statuses that orders are brought with
          Calls         \* connections, each running one call at a time

(* orders_status_known. *)
Statuses == {"draft", "pending", "approved", "shipped", "rejected", "cancelled"}

Numbers == [series : Series, digits : SUBSET Nat]

(* order_lines_quantity_positive and the foreign key to orders; a number   *)
(* ends in one row of digits or in none.                                   *)
ASSUME OrdersAssumption ==
  /\ LineOrder \in [Lines -> Orders]
  /\ Quantity \in [Lines -> Nat \ {0}]
  /\ StockSyncs \subseteq Nat
  /\ Own \in Series /\ First \in Nat
  /\ Supplied \subseteq [number : Numbers, status : Statuses]
  /\ \A s \in Supplied : \A n, m \in s.number.digits : n = m
  /\ Orders # {} /\ IsFiniteSet(Orders) /\ IsFiniteSet(Products)

VARIABLES number,     \* orders.number, NoNumber before the row is committed
          status,     \* orders.status, "none" before the row is committed
          stocked,    \* products that have a committed inventory_levels row
          allocated,  \* inventory_levels.allocated
          pc,         \* where each call is
          order,      \* the order a call is about
          entry,      \* what createOrder inserts, and whether the number was drawn
          input,      \* the value setStock writes
          todo,       \* inventory rows the statement has still to write, in plan order
          wrote,      \* inventory rows written: the value, and the quantity in it
          drawn,      \* history: orders that nextOrderNumber numbered
          base,       \* history: what the last setStock of a product wrote
          since,      \* history: what each order reserved of a product since then
          shelf       \* history: products in stock when each order was placed

vars == <<number, status, stocked, allocated, pc, order, entry, input, todo, wrote,
          drawn, base, since, shelf>>

rows == <<number, status, stocked, allocated, drawn, base, since, shelf>>

NoNumber == [series |-> Own, digits |-> {}]
NoEntry == [number |-> NoNumber, status |-> "none", drawn |-> FALSE]

Nowhere == [p \in {} |-> 0]

(* The rows written so far, and one more. *)
Written(f, p, row) == [q \in DOMAIN f \cup {p} |-> IF q = p THEN row ELSE f[q]]

LinesOf(o, p) == {l \in Lines : LineOrder[l] = o /\ LineProduct[l] = p}

Undecided == CHOOSE o \in Orders : TRUE

TypeOK ==
  /\ number \in [Orders -> Numbers]
  /\ status \in [Orders -> Statuses \cup {"none"}]
  /\ stocked \subseteq Products
  /\ allocated \in [Products -> Nat]
  /\ pc \in [Calls -> {"idle", "insert", "inserted", "approve", "reserve",
                     "reject", "rejected", "restock", "restocked"}]
  /\ order \in [Calls -> Orders]
  /\ entry \in [Calls -> [number : Numbers, status : Statuses \cup {"none"}, drawn : BOOLEAN]]
  /\ input \in [Calls -> Nat]
  /\ todo \in [Calls -> Seq(Products)]
  /\ DOMAIN wrote = Calls
  /\ \A c \in Calls : /\ DOMAIN wrote[c] \subseteq Products
                      /\ wrote[c] \in [DOMAIN wrote[c] -> [value : Nat, quantity : Nat]]
  /\ drawn \subseteq Orders
  /\ base \in [Products -> Nat]
  /\ since \in [Products -> [Orders -> Nat]]
  /\ shelf \in [Orders -> SUBSET Products]

----------------------------------------------------------------------------
(* Row locks, and who waits for whom. *)

Open == {c \in Calls : pc[c] # "idle"}

HoldsOrder(c) == pc[c] \in {"reserve", "rejected"}

OrderLocked(c) == \E d \in Calls \ {c} : HoldsOrder(d) /\ order[d] = order[c]

\* Variant: the sum is computed from a row that is not locked.
RowNeverLocked(c, p) == FALSE

RowLocked(c, p) == \E d \in Open \ {c} : p \in DOMAIN wrote[d]

\* Variant: approving again is not refused.
ApprovableAgain(o) == status[o] \in {"pending", "approved"}

(* The WHERE of approveOrder and of rejectOrder. *)
Approvable(o) == status[o] = "pending"
Rejectable(o) == status[o] \in {"pending", "approved"}

Matches(c) == \/ pc[c] = "approve" /\ Approvable(order[c])
              \/ pc[c] = "reject" /\ Rejectable(order[c])

WaitsFor(c, d) ==
  /\ c # d /\ d \in Open
  /\ \/ Matches(c) /\ HoldsOrder(d) /\ order[c] = order[d]
     \/ pc[c] \in {"reserve", "restock"} /\ todo[c] # <<>> /\ Head(todo[c]) \in DOMAIN wrote[d]
     \/ pc[c] = "insert" /\ pc[d] = "inserted" /\ entry[c].number = entry[d].number

----------------------------------------------------------------------------
Init ==
  /\ number = [o \in Orders |-> NoNumber]
  /\ status = [o \in Orders |-> "none"]
  /\ stocked = {}
  /\ allocated = [p \in Products |-> 0]
  /\ pc = [c \in Calls |-> "idle"]
  /\ order = [c \in Calls |-> Undecided]
  /\ entry = [c \in Calls |-> NoEntry]
  /\ input = [c \in Calls |-> 0]
  /\ todo = [c \in Calls |-> <<>>]
  /\ wrote = [c \in Calls |-> Nowhere]
  /\ drawn = {}
  /\ base = allocated
  /\ since = [p \in Products |-> [o \in Orders |-> 0]]
  /\ shelf = [o \in Orders |-> {}]

Goto(c, label) == pc' = [pc EXCEPT ![c] = label]

(* The transaction is over and the connection back in the pool. *)
Close(c) ==
  /\ Goto(c, "idle")
  /\ order' = [order EXCEPT ![c] = Undecided]
  /\ entry' = [entry EXCEPT ![c] = NoEntry]
  /\ input' = [input EXCEPT ![c] = 0]
  /\ todo' = [todo EXCEPT ![c] = <<>>]
  /\ wrote' = [wrote EXCEPT ![c] = Nowhere]

(* A new row with this number and this status: no other call has it. *)
Bring(c, o, e) ==
  /\ pc[c] = "idle" /\ status[o] = "none"
  /\ \A d \in Open : pc[d] \in {"insert", "inserted"} => order[d] # o
  /\ Goto(c, "insert")
  /\ order' = [order EXCEPT ![c] = o]
  /\ entry' = [entry EXCEPT ![c] = e]
  /\ UNCHANGED <<input, todo, wrote, rows>>

(* The digits at the end of the committed numbers, of whatever series. *)
Trailing == UNION {number[o].digits : o \in Orders}

NextNumber == IF Trailing = {} THEN First ELSE Max(Trailing) + 1

(* orders/new: nextOrderNumber, and createOrder with it. *)
NextOrderNumber(c, o) ==
  Bring(c, o, [number |-> [series |-> Own, digits |-> {NextNumber}],
               status |-> "pending", drawn |-> TRUE])

(* createOrder with a number and a status of the caller's. *)
SupplyNumber(c, o, s) ==
  Bring(c, o, [number |-> s.number, status |-> s.status, drawn |-> FALSE])

\* Variant: no unique constraint on the number.
NumberNeverTaken(c) == FALSE

NumberTaken(c) == \E o \in Orders : status[o] # "none" /\ number[o] = entry[c].number

(* The INSERT of the order and of its lines.  orders_number_uq makes it    *)
(* wait for another call that has inserted the same number.                *)
InsertOrder(c) ==
  /\ pc[c] = "insert" /\ ~NumberTaken(c)
  /\ ~\E d \in Calls : WaitsFor(c, d)
  /\ Goto(c, "inserted")
  /\ UNCHANGED <<order, entry, input, todo, wrote, rows>>

(* A request to decide an order that some page shows. *)
Decide(c, o) ==
  /\ pc[c] = "idle" /\ status[o] # "none"
  /\ Goto(c, "approve") \/ Goto(c, "reject")
  /\ order' = [order EXCEPT ![c] = o]
  /\ UNCHANGED <<entry, input, todo, wrote, rows>>

SetStock(c, p, n) ==
  /\ pc[c] = "idle"
  /\ Goto(c, "restock")
  /\ todo' = [todo EXCEPT ![c] = <<p>>]
  /\ input' = [input EXCEPT ![c] = n]
  /\ UNCHANGED <<order, entry, wrote, rows>>

(* The UPDATE that approves the order.  Its second statement will update   *)
(* the inventory rows that are committed when it starts.                   *)
ApproveOrder(c) ==
  /\ pc[c] = "approve" /\ Approvable(order[c]) /\ ~OrderLocked(c)
  /\ Goto(c, "reserve")
  /\ \E plan \in SetToSeqs({p \in stocked : LinesOf(order[c], p) # {}}) :
        todo' = [todo EXCEPT ![c] = plan]
  /\ UNCHANGED <<order, entry, input, wrote, rows>>

(* One inventory row: one of the lines of that product is added to it. *)
Reserve(c) ==
  /\ pc[c] = "reserve" /\ todo[c] # <<>>
  /\ LET p == Head(todo[c]) IN
       /\ ~RowLocked(c, p)
       /\ \E l \in LinesOf(order[c], p) :
            wrote' = [wrote EXCEPT ![c] =
              Written(@, p, [value |-> allocated[p] + Quantity[l], quantity |-> Quantity[l]])]
  /\ todo' = [todo EXCEPT ![c] = Tail(@)]
  /\ UNCHANGED <<pc, order, entry, input, rows>>

RejectOrder(c) ==
  /\ pc[c] = "reject" /\ Rejectable(order[c]) /\ ~OrderLocked(c)
  /\ Goto(c, "rejected")
  /\ UNCHANGED <<order, entry, input, todo, wrote, rows>>

(* The UPDATE matches no row: the call returns false and writes nothing. *)
NotMatched(c) ==
  /\ pc[c] \in {"approve", "reject"} /\ ~Matches(c)
  /\ Close(c) /\ UNCHANGED rows

(* setStock's upsert writes the row whatever it holds. *)
Restock(c) ==
  /\ pc[c] = "restock" /\ ~RowLocked(c, Head(todo[c]))
  /\ Goto(c, "restocked")
  /\ wrote' = [wrote EXCEPT ![c] =
               Written(@, Head(todo[c]), [value |-> input[c], quantity |-> 0])]
  /\ todo' = [todo EXCEPT ![c] = <<>>]
  /\ UNCHANGED <<order, entry, input, rows>>

(* COMMIT publishes what the call wrote. *)
CommitInsert(c) ==
  /\ pc[c] = "inserted"
  /\ number' = [number EXCEPT ![order[c]] = entry[c].number]
  /\ status' = [status EXCEPT ![order[c]] = entry[c].status]
  /\ drawn' = IF entry[c].drawn THEN drawn \cup {order[c]} ELSE drawn
  /\ shelf' = [shelf EXCEPT ![order[c]] = stocked]
  /\ UNCHANGED <<stocked, allocated, base, since>>

\* Variant: the statement that reserves is not awaited before the commit.
CommitUnreserved(c) ==
  /\ pc[c] = "reserve"
  /\ status' = [status EXCEPT ![order[c]] = "approved"]
  /\ allocated' = [p \in Products |->
                     IF p \in DOMAIN wrote[c] THEN wrote[c][p].value ELSE allocated[p]]
  /\ since' = [p \in Products |->
                 IF p \in DOMAIN wrote[c]
                 THEN [since[p] EXCEPT ![order[c]] = @ + wrote[c][p].quantity]
                 ELSE since[p]]
  /\ UNCHANGED <<number, stocked, drawn, base, shelf>>

\* Variant: an approval that reserves nothing is not committed.
CommitReservation(c) ==
  /\ pc[c] = "reserve" /\ todo[c] = <<>> /\ wrote[c] # Nowhere
  /\ status' = [status EXCEPT ![order[c]] = "approved"]
  /\ allocated' = [p \in Products |->
                     IF p \in DOMAIN wrote[c] THEN wrote[c][p].value ELSE allocated[p]]
  /\ since' = [p \in Products |->
                 IF p \in DOMAIN wrote[c]
                 THEN [since[p] EXCEPT ![order[c]] = @ + wrote[c][p].quantity]
                 ELSE since[p]]
  /\ UNCHANGED <<number, stocked, drawn, base, shelf>>

CommitApproval(c) ==
  /\ pc[c] = "reserve" /\ todo[c] = <<>>
  /\ status' = [status EXCEPT ![order[c]] = "approved"]
  /\ allocated' = [p \in Products |->
                     IF p \in DOMAIN wrote[c] THEN wrote[c][p].value ELSE allocated[p]]
  /\ since' = [p \in Products |->
                 IF p \in DOMAIN wrote[c]
                 THEN [since[p] EXCEPT ![order[c]] = @ + wrote[c][p].quantity]
                 ELSE since[p]]
  /\ UNCHANGED <<number, stocked, drawn, base, shelf>>

\* Variant: a status that orders_status_known does not know.
CommitCancellation(c) ==
  /\ pc[c] = "rejected"
  /\ status' = [status EXCEPT ![order[c]] = "closed"]
  /\ UNCHANGED <<number, stocked, allocated, drawn, base, since, shelf>>

CommitRejection(c) ==
  /\ pc[c] = "rejected"
  /\ status' = [status EXCEPT ![order[c]] = "rejected"]
  /\ UNCHANGED <<number, stocked, allocated, drawn, base, since, shelf>>

CommitStock(c) ==
  /\ pc[c] = "restocked"
  /\ stocked' = stocked \cup DOMAIN wrote[c]
  /\ allocated' = [p \in Products |->
                     IF p \in DOMAIN wrote[c] THEN wrote[c][p].value ELSE allocated[p]]
  /\ base' = [p \in Products |-> IF p \in DOMAIN wrote[c] THEN allocated'[p] ELSE base[p]]
  /\ since' = [p \in Products |->
                 IF p \in DOMAIN wrote[c] THEN [o \in Orders |-> 0] ELSE since[p]]
  /\ UNCHANGED <<number, status, drawn, shelf>>

Commit(c) ==
  /\ CommitInsert(c) \/ CommitApproval(c) \/ CommitRejection(c) \/ CommitStock(c)
  /\ Close(c)

(* ROLLBACK: nothing of the transaction stays. *)
Rollback(c) == Close(c) /\ UNCHANGED rows

(* orders_number_uq: another call has committed the number meanwhile. *)
Refused(c) == pc[c] = "insert" /\ NumberTaken(c) /\ Rollback(c)

(* Postgres aborts one member of a cycle of waiting transactions. *)
DeadlockVictim(c) ==
  /\ \E ring \in SUBSET Open :
        /\ c \in ring
        /\ \A x \in ring : /\ \E y \in ring : WaitsFor(x, y)
                           /\ \E y \in ring : WaitsFor(y, x)
  /\ Rollback(c)

(* The connection is lost, or a statement fails for any other reason. *)
Fail(c) == c \in Open /\ Rollback(c)

Step(c) ==
  \/ InsertOrder(c) \/ ApproveOrder(c) \/ Reserve(c) \/ RejectOrder(c) \/ NotMatched(c)
  \/ Restock(c) \/ Commit(c) \/ Refused(c)

Start(c) ==
  \/ \E o \in Orders : NextOrderNumber(c, o) \/ Decide(c, o)
  \/ \E o \in Orders, s \in Supplied : SupplyNumber(c, o, s)
  \/ \E p \in Products : \E n \in StockSyncs : SetStock(c, p, n)

Next == \E c \in Calls : Start(c) \/ Step(c) \/ DeadlockVictim(c) \/ Fail(c)

Spec == Init /\ [][Next]_vars

(* The driver runs every statement of a call that has started.  Fairness   *)
(* is strong because lock queues are first come, first served: a call that *)
(* waits for a row is not overtaken for ever.  The database resolves every *)
(* deadlock; nobody has to make a call.                                    *)
Fairness == \A c \in Calls : SF_vars(Step(c)) /\ WF_vars(DeadlockVictim(c))

FairSpec == Spec /\ Fairness

----------------------------------------------------------------------------
(* No reservation is lost or counted twice: a stock row holds what the     *)
(* last setStock wrote plus what every approval since has added, although  *)
(* each approval computes the sum from the row it read before its commit.  *)
AllocationAddsUp ==
  \A p \in stocked :
    allocated[p] = base[p] + MapThenSumSet(LAMBDA o : since[p][o], Orders)

(* An order takes stock at most once: what it holds of a product is the    *)
(* quantity of one of its lines, never of two approvals, and only an order *)
(* that was approved (and perhaps rejected later) holds any.               *)
ReservedOnce ==
  \A p \in Products, o \in Orders :
    since[p][o] > 0 =>
      /\ status[o] \in {"approved", "rejected"}
      /\ since[p][o] \in {Quantity[l] : l \in LinesOf(o, p)}

Placed == {o \in Orders : status[o] # "none"}

(* A number that nextOrderNumber may have given: none before it is skipped. *)
Follows(n) == n = First \/ \E o \in Placed : \E m \in number[o].digits : n = m + 1

(* No two orders have one number, although two calls may draw the same and *)
(* others bring theirs, and drawing skips none: a number that was drawn is *)
(* the first, or comes right after a number that an order has, although    *)
(* calls that drew one fail and the order it followed may be one that a    *)
(* synchronisation brought, in another series and in any status.           *)
NumbersFollow ==
  /\ \A o, x \in Placed : number[o] = number[x] => o = x
  /\ \A o \in drawn : \E n \in number[o].digits :
       number[o] = [series |-> Own, digits |-> {n}] /\ Follows(n)

(* A decision to reject is final, and an approval is only ever taken back  *)
(* by a rejection: an approval that waited for it must not overwrite it.   *)
DecisionsStand ==
  [][\A o \in Orders :
       /\ status[o] = "rejected" => status'[o] = "rejected"
       /\ status[o] = "approved" => status'[o] # "pending"]_vars

(* The calls, whose statements interleave, wait for each other and fail,   *)
(* are together the order book that acts in one step: an approval takes    *)
(* its stock with the decision and of every product that was there when    *)
(* the order was placed, on top of whatever is allocated at that moment.   *)
Book == INSTANCE OrderBook

ImplementsOrderBook == Book!Spec

(* A call that starts comes to an end, also when two approvals take the    *)
(* same two stock rows in opposite orders.                                 *)
EveryCallEnds == \A c \in Calls : (c \in Open) ~> (c \notin Open)

(* The comment of approveOrder: approval without allocation promises the   *)
(* same item twice.  An approved order holds all it promised of a product  *)
(* that is in stock, in a system whose stock nobody has overwritten.       *)
ApprovalReservesEveryLine ==
  \A o \in Orders, p \in stocked :
    status[o] = "approved" /\ since[p][o] > 0 =>
      since[p][o] = MapThenSumSet(LAMBDA l : Quantity[l], LinesOf(o, p))
=============================================================================
