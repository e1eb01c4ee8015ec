------------------------------ MODULE OrderBook ------------------------------
(***************************************************************************)
(* What the orders part of Bossi promises, stated without calls, locks or  *)
(* statements (packages/db/src/commerce.ts): each thing that a user sees   *)
(* happen to an order or to the stock happens in one step, on the values   *)
(* that are committed then.  An order gets a number that no other has: it  *)
(* is drawn after one that is taken, or brought with the order.  It is     *)
(* approved once and takes its stock in that step: of every product that   *)
(* was in stock when it was placed, the quantity of one of its lines.  A   *)
(* rejection gives nothing back, and a synchronisation of the stock        *)
(* overwrites what was taken.  That an approval takes ONE line of a        *)
(* product, and that a rejection leaves the stock as it is, is what the    *)
(* code does and not what its comments ask for.                            *)
(***************************************************************************)
EXTENDS Naturals

CONSTANTS Orders, Products, Lines, LineOrder, LineProduct, Quantity,
          StockSyncs,   \* values that a synchronisation writes
          Own, First,   \* the series of the numbers that are drawn, and the first
          Supplied      \* numbers and statuses that orders are brought with

VARIABLES number,       \* of each order, without digits before it is placed
          status,       \* of each order, "none" before it is placed
          shelf,        \* products that were in stock when the order was placed
          stocked,      \* products in stock
          allocated     \* what is taken of each product

LinesOf(o, p) == {l \in Lines : LineOrder[l] = o /\ LineProduct[l] = p}

Init ==
  /\ number = [o \in Orders |-> [series |-> Own, digits |-> {}]]
  /\ status = [o \in Orders |-> "none"]
  /\ shelf = [o \in Orders |-> {}]
  /\ stocked = {}
  /\ allocated = [p \in Products |-> 0]

Taken == {number[x] : x \in {y \in Orders : status[y] # "none"}}

(* Drawing a number skips none that could be drawn before it. *)
Drawn(text) ==
  \E n \in text.digits :
    /\ text = [series |-> Own, digits |-> {n}]
    /\ n = First \/ \E x \in Taken : \E m \in x.digits : n = m + 1

Place(o) ==
  /\ status[o] = "none"
  /\ number'[o] \notin Taken
  /\ \/ Drawn(number'[o]) /\ status'[o] = "pending"
     \/ [number |-> number'[o], status |-> status'[o]] \in Supplied
  /\ number' = [number EXCEPT ![o] = number'[o]]
  /\ status' = [status EXCEPT ![o] = status'[o]]
  /\ shelf' = [shelf EXCEPT ![o] = stocked]
  /\ UNCHANGED <<stocked, allocated>>

(* A product that came into stock after the order may or may not be taken. *)
Takes(o, p) ==
  /\ p \in stocked
  /\ \E l \in LinesOf(o, p) : allocated'[p] = allocated[p] + Quantity[l]

Leaves(o, p) ==
  /\ p \in shelf[o] => LinesOf(o, p) = {}
  /\ allocated'[p] = allocated[p]

Approve(o) ==
  /\ status[o] = "pending"
  /\ status' = [status EXCEPT ![o] = "approved"]
  /\ DOMAIN allocated' = Products
  /\ \A p \in Products : Takes(o, p) \/ Leaves(o, p)
  /\ UNCHANGED <<number, shelf, stocked>>

Reject(o) ==
  /\ status[o] \in {"pending", "approved"}
  /\ status' = [status EXCEPT ![o] = "rejected"]
  /\ UNCHANGED <<number, shelf, stocked, allocated>>

Synchronise(p, n) ==
  /\ stocked' = stocked \cup {p}
  /\ allocated' = [allocated EXCEPT ![p] = n]
  /\ UNCHANGED <<number, status, shelf>>

Next ==
  \/ \E o \in Orders : Place(o) \/ Approve(o) \/ Reject(o)
  \/ \E p \in Products, n \in StockSyncs : Synchronise(p, n)

Spec == Init /\ [][Next]_<<number, status, shelf, stocked, allocated>>
=============================================================================
