---------------------------- MODULE OrdersProofs ----------------------------
(***************************************************************************)
(* Theorems about Orders, for any number of orders, lines, products and    *)
(* connections: numbers, decisions, reservations, what the stock adds up   *)
(* to, that the calls implement OrderBook, and which of them can wait for  *)
(* each other in a circle.  The inductive invariant says what a call       *)
(* relies on while it runs: nobody else has the number it has inserted,    *)
(* and one that it drew follows a committed one; the order it has written  *)
(* is still undecided, nothing has been reserved for the order it is       *)
(* approving, and the row of the stock that it has written is still what   *)
(* it read.                                                                *)
(***************************************************************************)
EXTENDS Orders, Sums

Placing == {"insert", "inserted"}
Deciding == {"approve", "reserve", "reject", "rejected"}

WroteIsFunction == wrote = [c \in Calls |-> wrote[c]]

(* What a call inserts: what its caller supplied, or a number it drew.     *)
EntryHolds(e) ==
  /\ e.number \in Numbers /\ e.status \in Statuses
  /\ \A n, m \in e.number.digits : n = m
  /\ e.drawn => /\ e.status = "pending"
                /\ \E n \in e.number.digits :
                     e.number = [series |-> Own, digits |-> {n}] /\ Follows(n)
  /\ ~e.drawn => [number |-> e.number, status |-> e.status] \in Supplied

(* An order that is being placed is not there yet, and of one call; a      *)
(* number that has been inserted is not taken.                             *)
PlacingIsNew ==
  \A c \in Calls :
    /\ pc[c] \in Placing => /\ status[order[c]] = "none" /\ EntryHolds(entry[c])
                            /\ \A d \in Calls \ {c} : pc[d] \in Placing => order[d] # order[c]
    /\ pc[c] = "inserted" =>
         /\ ~NumberTaken(c)
         /\ \A d \in Calls \ {c} : pc[d] = "inserted" => entry[d].number # entry[c].number

(* The number of an order is there when the order is, and of all digits    *)
(* that numbers end in there is a largest.                                 *)
NumbersOfPlaced ==
  /\ \A o \in Orders : status[o] = "none" => number[o] = NoNumber /\ o \notin drawn
  /\ Trailing # {} => \E m \in Trailing : \A k \in Trailing : k <= m

(* What a call that decides may rely on: only its lock keeps the row. *)
DecidingIsLocked ==
  \A c \in Calls :
    /\ pc[c] \in Deciding => status[order[c]] # "none"
    /\ pc[c] = "reserve" => status[order[c]] = "pending"
    /\ pc[c] = "rejected" => status[order[c]] \in {"pending", "approved"}
    /\ \A d \in Calls \ {c} : HoldsOrder(c) /\ HoldsOrder(d) => order[c] # order[d]

(* Rows a call has written: by an approval, the quantity of a line each. *)
WritesLines(c) ==
  /\ pc[c] \notin {"reserve", "restocked"} => DOMAIN wrote[c] = {}
  /\ pc[c] = "restock" => todo[c] # <<>>
  /\ pc[c] = "reserve" =>
       \A p \in DOMAIN wrote[c] :
         \E l \in LinesOf(order[c], p) : wrote[c][p].quantity = Quantity[l]

WritesAreLines == \A c \in Calls : WritesLines(c)

IInv ==
  /\ TypeOK /\ WroteIsFunction /\ PlacingIsNew /\ NumbersOfPlaced /\ DecidingIsLocked
  /\ WritesAreLines /\ NumbersFollow /\ ReservedOnce

(* What the steps need of the constants. *)
LEMMA Given ==
  /\ LineOrder \in [Lines -> Orders] /\ Quantity \in [Lines -> Nat \ {0}] /\ StockSyncs \subseteq Nat
  /\ Orders # {} /\ IsFiniteSet(Orders) /\ IsFiniteSet(Products)
  /\ {"pending", "approved", "rejected"} \subseteq Statuses /\ "none" \notin Statuses
BY OrdersAssumption DEF OrdersAssumption, Statuses

LEMMA Nothing ==
  /\ NoNumber \in Numbers
  /\ NoEntry \in [number : Numbers, status : Statuses \cup {"none"}, drawn : BOOLEAN]
<1>1. NoNumber \in Numbers BY OrdersAssumption DEF OrdersAssumption, NoNumber, Numbers
<1> QED BY <1>1 DEF NoEntry

(* A row of n of them is a sequence. *)
LEMMA Row == ASSUME NEW S, NEW n \in Nat, NEW f \in [1 .. n -> S] PROVE f \in Seq(S)
OBVIOUS

(* The largest of the numbers, if there is one, is there to be followed. *)
LEMMA NextFollows ==
  ASSUME IInv PROVE NextNumber \in Nat /\ Follows(NextNumber)
<1>1. Trailing \subseteq Nat BY DEF IInv, TypeOK, Trailing, Numbers
<1>2. CASE Trailing = {} BY <1>2, OrdersAssumption DEF NextNumber, Follows, OrdersAssumption
<1>3. CASE Trailing # {}
  <2>1. PICK m \in Trailing : \A k \in Trailing : k <= m BY <1>3 DEF IInv, NumbersOfPlaced
  <2>2. \A x \in Trailing : (\A y \in Trailing : x >= y) => x = m BY <1>1, <2>1
  <2>3. m \in Nat /\ \A y \in Trailing : m >= y BY <1>1, <2>1
  <2>4. Max(Trailing) = m BY <2>1, <2>2, <2>3 DEF Max
  <2>5. PICK o \in Orders : m \in number[o].digits BY <2>1 DEF Trailing
  <2>6. o \in Placed BY <2>5 DEF IInv, NumbersOfPlaced, NoNumber, Placed
  <2> QED BY <1>3, <2>3, <2>4, <2>5, <2>6 DEF NextNumber, Follows
<1> QED BY <1>2, <1>3

(* What is said of an entry and of the numbers speaks of these only. *)
LEMMA SameNumbers ==
  ASSUME number' = number, drawn' = drawn,
         \A o \in Orders : status[o] = "none" <=> status'[o] = "none"
  PROVE  /\ Placed' = Placed /\ Trailing' = Trailing
         /\ \A n : Follows(n)' <=> Follows(n)
         /\ NumbersOfPlaced => NumbersOfPlaced'
         /\ NumbersFollow => NumbersFollow'
<1>1. Placed' = Placed /\ Trailing' = Trailing BY DEF Placed, Trailing
<1>2. \A n : Follows(n)' <=> Follows(n) BY <1>1 DEF Follows
<1>3. NumbersOfPlaced => NumbersOfPlaced' BY <1>1 DEF NumbersOfPlaced, NoNumber
<1>4. NumbersFollow => NumbersFollow' BY <1>1, <1>2 DEF NumbersFollow
<1> QED BY <1>1, <1>2, <1>3, <1>4

LEMMA EntryStays ==
  ASSUME NEW d, EntryHolds(entry[d]), entry'[d] = entry[d], \A n : Follows(n) => Follows(n)'
  PROVE  EntryHolds(entry[d])'
BY DEF EntryHolds

(* Who is placing what stays when nobody begins, inserts or ends.          *)
LEMMA SamePlacing ==
  ASSUME PlacingIsNew, UNCHANGED <<order, entry, rows>>,
         \A d \in Calls : pc'[d] \in Placing \/ pc[d] \in Placing => pc'[d] = pc[d]
  PROVE  PlacingIsNew'
<1>1. \A n : Follows(n) => Follows(n)' BY SameNumbers DEF rows
<1>2. \A d \in Calls : EntryHolds(entry[d]) => EntryHolds(entry[d])' BY <1>1, EntryStays
<1> QED BY <1>2 DEF PlacingIsNew, NumberTaken, Placing, rows

(* Another call's rows stay as they are. *)
LEMMA SameLines ==
  ASSUME NEW d, WritesLines(d), pc'[d] = pc[d], order'[d] = order[d],
         todo'[d] = todo[d], wrote'[d] = wrote[d]
  PROVE  WritesLines(d)'
BY DEF WritesLines, LinesOf

(* One more row written. *)
LEMMA WrittenRows ==
  ASSUME NEW f, NEW p \in Products, NEW row \in [value : Nat, quantity : Nat],
         DOMAIN f \subseteq Products, f \in [DOMAIN f -> [value : Nat, quantity : Nat]]
  PROVE  /\ DOMAIN Written(f, p, row) = DOMAIN f \cup {p}
         /\ DOMAIN Written(f, p, row) \subseteq Products
         /\ Written(f, p, row) \in [DOMAIN Written(f, p, row) -> [value : Nat, quantity : Nat]]
         /\ Written(f, p, row)[p] = row
         /\ \A q \in DOMAIN f : q # p => Written(f, p, row)[q] = f[q]
BY DEF Written

LEMMA InitIInv == ASSUME Init PROVE IInv
<1> USE Given DEF Init
<1>1. Undecided \in Orders BY DEF Undecided
<1>2. TypeOK /\ WroteIsFunction
  BY <1>1, Nothing DEF TypeOK, Nowhere, WroteIsFunction
<1>3. PlacingIsNew /\ NumbersOfPlaced /\ DecidingIsLocked /\ WritesAreLines
  BY DEF PlacingIsNew, NumbersOfPlaced, NoNumber, Trailing, DecidingIsLocked, WritesAreLines, WritesLines, Placing, Deciding, Nowhere,
         HoldsOrder
<1>4. NumbersFollow BY DEF NumbersFollow, Placed
<1>5. ReservedOnce BY DEF ReservedOnce
<1> QED BY <1>2, <1>3, <1>4, <1>5 DEF IInv

(* A call begins to place an order. *)
LEMMA BringStep ==
  ASSUME IInv, NEW c \in Calls, NEW o \in Orders, NEW e, Bring(c, o, e), EntryHolds(e),
         e \in [number : Numbers, status : Statuses \cup {"none"}, drawn : BOOLEAN]
  PROVE  IInv'
<1> USE Given DEF IInv, Goto, rows, Bring
<1>1. /\ pc[c] = "idle" /\ pc'[c] = "insert" /\ order'[c] = o /\ entry'[c] = e
      /\ \A d \in Calls : d # c => pc'[d] = pc[d] /\ order'[d] = order[d] /\ entry'[d] = entry[d]
  BY DEF TypeOK
<1>2. \A n : Follows(n) <=> Follows(n)' BY SameNumbers
<1>3. TypeOK' /\ WroteIsFunction' BY DEF TypeOK, WroteIsFunction
<1>4. PlacingIsNew'
  <2>1. \A d \in Calls : pc[d] \in Placing => order[d] # o BY DEF Open, Placing
  <2>2. \A d \in Calls : d # c /\ EntryHolds(entry[d]) => EntryHolds(entry[d])'
    BY <1>1, <1>2, EntryStays
  <2>3. EntryHolds(entry[c])' BY <1>1, <1>2 DEF EntryHolds
  <2>4. status[o] = "none" OBVIOUS
  <2> QED BY <1>1, <2>1, <2>2, <2>3, <2>4 DEF PlacingIsNew, NumberTaken, Placing
<1>5. DecidingIsLocked' BY DEF DecidingIsLocked, Deciding, HoldsOrder, TypeOK
<1>6. WritesAreLines'
  <2>1. \A d \in Calls : d # c => WritesLines(d)' BY <1>1, SameLines DEF WritesAreLines
  <2>2. WritesLines(c)' BY <1>1 DEF WritesAreLines, WritesLines
  <2> QED BY <2>1, <2>2 DEF WritesAreLines
<1>7. ReservedOnce' BY DEF ReservedOnce
<1>8. NumbersOfPlaced' /\ NumbersFollow' BY SameNumbers
<1> QED BY <1>3, <1>4, <1>5, <1>6, <1>7, <1>8

LEMMA DrawStep == ASSUME IInv, NEW c \in Calls, NEW o \in Orders, NextOrderNumber(c, o) PROVE IInv'
<1> DEFINE t == [series |-> Own, digits |-> {NextNumber}]
           e == [number |-> t, status |-> "pending", drawn |-> TRUE]
<1>1. NextNumber \in Nat /\ Follows(NextNumber) BY NextFollows
<1>2. t \in Numbers BY <1>1, OrdersAssumption DEF OrdersAssumption, Numbers
<1>3. t.digits = {NextNumber} OBVIOUS
<1>4. Bring(c, o, e) BY DEF NextOrderNumber
<1> HIDE DEF t
<1>5. e \in [number : Numbers, status : Statuses \cup {"none"}, drawn : BOOLEAN]
  BY <1>2 DEF Statuses
<1>6. EntryHolds(e)
  <2>1. e.number = t /\ e.status = "pending" /\ e.drawn = TRUE OBVIOUS
  <2>2. \E n \in t.digits : t = [series |-> Own, digits |-> {n}] /\ Follows(n)
    BY <1>1, <1>3 DEF t
  <2> QED BY <1>2, <1>3, <2>1, <2>2 DEF EntryHolds, Statuses
<1> HIDE DEF e
<1> QED BY <1>4, <1>5, <1>6, BringStep

LEMMA SupplyStep ==
  ASSUME IInv, NEW c \in Calls, NEW o \in Orders, NEW s \in Supplied, SupplyNumber(c, o, s)
  PROVE  IInv'
<1> DEFINE e == [number |-> s.number, status |-> s.status, drawn |-> FALSE]
<1>1. /\ s.number \in Numbers /\ s.status \in Statuses /\ \A n, m \in s.number.digits : n = m
      /\ [number |-> s.number, status |-> s.status] = s
  BY OrdersAssumption DEF OrdersAssumption
<1>2. Bring(c, o, e) BY DEF SupplyNumber
<1>3. e \in [number : Numbers, status : Statuses \cup {"none"}, drawn : BOOLEAN] BY <1>1
<1>4. EntryHolds(e)
  <2>1. e.number = s.number /\ e.status = s.status /\ e.drawn = FALSE OBVIOUS
  <2> QED BY <1>1, <2>1 DEF EntryHolds
<1> HIDE DEF e
<1> QED BY <1>2, <1>3, <1>4, BringStep

(* A call begins. *)
LEMMA StartStep == ASSUME IInv, NEW c \in Calls, Start(c) PROVE IInv'
<1> USE Given DEF IInv, Goto, rows
<1>1. CASE \E o \in Orders : NextOrderNumber(c, o) BY <1>1, DrawStep
<1>2. CASE \E o \in Orders, s \in Supplied : SupplyNumber(c, o, s) BY <1>2, SupplyStep
<1>3. ASSUME NEW o \in Orders, Decide(c, o) PROVE IInv'
  <2> USE <1>3 DEF Decide
  <2>1. /\ UNCHANGED <<entry, wrote, rows>> /\ pc[c] = "idle" /\ pc'[c] \in {"approve", "reject"}
        /\ \A d \in Calls : d # c => /\ pc'[d] = pc[d] /\ order'[d] = order[d]
                                      /\ todo'[d] = todo[d] /\ wrote'[d] = wrote[d]
    BY DEF TypeOK
  <2>2. TypeOK' /\ WroteIsFunction'
    <3>1. pc' = [pc EXCEPT ![c] = "approve"] \/ pc' = [pc EXCEPT ![c] = "reject"] OBVIOUS
    <3>2. pc' \in [Calls -> {"idle", "insert", "inserted", "approve", "reserve",
                           "reject", "rejected", "restock", "restocked"}]
      BY <3>1 DEF TypeOK
    <3>3. order' \in [Calls -> Orders] BY DEF TypeOK
    <3> QED BY <2>1, <3>2, <3>3 DEF TypeOK, WroteIsFunction
  <2>3. PlacingIsNew'
    <3>1. \A k : Follows(k) => Follows(k)' BY <2>1, SameNumbers
    <3>2. \A d \in Calls : EntryHolds(entry[d]) => EntryHolds(entry[d])' BY <2>1, <3>1, EntryStays
    <3> QED BY <2>1, <3>2 DEF PlacingIsNew, NumberTaken, Placing
  <2>4. DecidingIsLocked' BY <2>1 DEF DecidingIsLocked, Deciding, HoldsOrder, TypeOK
  <2>5. WritesAreLines'
    <3>1. \A d \in Calls : d # c => WritesLines(d)' BY <2>1, SameLines DEF WritesAreLines
    <3>2. WritesLines(c)' BY <2>1 DEF WritesAreLines, WritesLines, TypeOK
    <3> QED BY <3>1, <3>2 DEF WritesAreLines
  <2>6. NumbersOfPlaced' /\ NumbersFollow' BY <2>1, SameNumbers
  <2>7. ReservedOnce' BY <2>1 DEF ReservedOnce
  <2> QED BY <2>2, <2>3, <2>4, <2>5, <2>6, <2>7
<1>4. ASSUME NEW p \in Products, NEW n \in StockSyncs, SetStock(c, p, n) PROVE IInv'
  <2> USE <1>4 DEF SetStock
  <2>1. /\ UNCHANGED <<entry, wrote, rows>> /\ pc[c] = "idle" /\ pc'[c] \in {"restock"}
        /\ \A d \in Calls : d # c => /\ pc'[d] = pc[d] /\ order'[d] = order[d]
                                      /\ todo'[d] = todo[d] /\ wrote'[d] = wrote[d]
    BY DEF TypeOK
  <2>2. TypeOK' /\ WroteIsFunction' BY <2>1 DEF TypeOK, WroteIsFunction
  <2>3. PlacingIsNew'
    <3>1. \A k : Follows(k) => Follows(k)' BY <2>1, SameNumbers
    <3>2. \A d \in Calls : EntryHolds(entry[d]) => EntryHolds(entry[d])' BY <2>1, <3>1, EntryStays
    <3> QED BY <2>1, <3>2 DEF PlacingIsNew, NumberTaken, Placing
  <2>4. DecidingIsLocked' BY <2>1 DEF DecidingIsLocked, Deciding, HoldsOrder, TypeOK
  <2>5. WritesAreLines'
    <3>1. \A d \in Calls : d # c => WritesLines(d)' BY <2>1, SameLines DEF WritesAreLines
    <3>2. WritesLines(c)' BY <2>1 DEF WritesAreLines, WritesLines, TypeOK
    <3> QED BY <3>1, <3>2 DEF WritesAreLines
  <2>6. NumbersOfPlaced' /\ NumbersFollow' BY <2>1, SameNumbers
  <2>7. ReservedOnce' BY <2>1 DEF ReservedOnce
  <2> QED BY <2>2, <2>3, <2>4, <2>5, <2>6, <2>7
<1> QED BY <1>1, <1>2, <1>3, <1>4 DEF Start

(* A call ends and leaves nothing. *)
LEMMA RollbackStep == ASSUME IInv, NEW c \in Calls, Rollback(c) PROVE IInv'
<1> USE Given DEF IInv, Rollback, Close, Goto, rows
<1>1. Undecided \in Orders BY DEF Undecided
<1>2. \A n : Follows(n) => Follows(n)' BY SameNumbers
<1>3. TypeOK' /\ WroteIsFunction'
  <2>1. /\ DOMAIN wrote' = Calls /\ wrote' = [d \in Calls |-> wrote'[d]]
        /\ DOMAIN wrote'[c] = {} /\ wrote'[c] = Nowhere
        /\ \A d \in Calls : d # c => wrote'[d] = wrote[d]
    BY DEF TypeOK, WroteIsFunction, Nowhere
  <2>2. wrote'[c] \in [DOMAIN wrote'[c] -> [value : Nat, quantity : Nat]] BY <2>1 DEF Nowhere
  <2>3. todo' \in [Calls -> Seq(Products)] BY DEF TypeOK
  <2>4. entry' \in [Calls -> [number : Numbers, status : Statuses \cup {"none"}, drawn : BOOLEAN]]
    BY Nothing DEF TypeOK
  <2> QED BY <1>1, <2>1, <2>2, <2>3, <2>4 DEF TypeOK, WroteIsFunction
<1>4. PlacingIsNew'
  <2>1. /\ pc'[c] = "idle"
        /\ \A d \in Calls : d # c => pc'[d] = pc[d] /\ order'[d] = order[d] /\ entry'[d] = entry[d]
    BY DEF TypeOK
  <2>2. \A d \in Calls : d # c /\ EntryHolds(entry[d]) => EntryHolds(entry[d])'
    BY <1>2, <2>1, EntryStays
  <2> QED BY <2>1, <2>2 DEF PlacingIsNew, NumberTaken, Placing
<1>5. DecidingIsLocked' BY DEF DecidingIsLocked, Deciding, HoldsOrder, TypeOK
<1>6. WritesAreLines'
  <2>1. \A d \in Calls : d # c => WritesLines(d)'
    <3>1. \A d \in Calls : d # c => /\ pc'[d] = pc[d] /\ order'[d] = order[d]
                                    /\ todo'[d] = todo[d] /\ wrote'[d] = wrote[d]
      BY DEF TypeOK
    <3> QED BY <3>1, SameLines DEF WritesAreLines
  <2>2. WritesLines(c)' BY DEF WritesLines, WroteIsFunction, Nowhere, TypeOK
  <2> QED BY <2>1, <2>2 DEF WritesAreLines
<1>7. NumbersOfPlaced' /\ NumbersFollow' /\ ReservedOnce' BY SameNumbers DEF ReservedOnce
<1> QED BY <1>3, <1>4, <1>5, <1>6, <1>7

(* The statements of a call, before it commits. *)
LEMMA StatementStep ==
  ASSUME IInv, NEW c \in Calls,
         InsertOrder(c) \/ ApproveOrder(c) \/ Reserve(c) \/ RejectOrder(c) \/ Restock(c)
  PROVE  IInv'
<1> USE Given DEF IInv, Goto, rows
<1>1. UNCHANGED <<order, entry, input, rows>>
  BY DEF InsertOrder, ApproveOrder, Reserve, RejectOrder, Restock
<1>2. NumbersOfPlaced' /\ NumbersFollow' /\ ReservedOnce' BY <1>1, SameNumbers DEF ReservedOnce
<1>3. \A d \in Calls : d # c => /\ pc'[d] = pc[d] /\ todo'[d] = todo[d] /\ wrote'[d] = wrote[d]
  BY DEF InsertOrder, ApproveOrder, Reserve, RejectOrder, Restock, TypeOK
<1>4. \A d \in Calls : d # c => WritesLines(d)' BY <1>1, <1>3, SameLines DEF WritesAreLines
<1>5. CASE InsertOrder(c)
  <2> USE <1>5 DEF InsertOrder
  <2>1. TypeOK' /\ WroteIsFunction' BY <1>1 DEF TypeOK, WroteIsFunction
  <2>2. \A d \in Calls \ {c} : pc[d] = "inserted" => entry[d].number # entry[c].number
    BY DEF WaitsFor, Open
  <2>3. PlacingIsNew'
    <3>1. \A n : Follows(n) => Follows(n)' BY <1>1, SameNumbers
    <3>2. \A d \in Calls : EntryHolds(entry[d]) => EntryHolds(entry[d])' BY <1>1, <3>1, EntryStays
    <3>3. pc[c] = "insert" /\ pc'[c] = "inserted" /\ ~NumberTaken(c) BY DEF TypeOK
    <3> QED BY <1>1, <1>3, <2>2, <3>2, <3>3 DEF PlacingIsNew, NumberTaken, Placing
  <2>4. DecidingIsLocked' BY <1>1 DEF DecidingIsLocked, Deciding, HoldsOrder, TypeOK
  <2>5. WritesLines(c)' BY <1>1 DEF WritesAreLines, WritesLines, TypeOK
  <2> QED BY <1>2, <1>4, <2>1, <2>3, <2>4, <2>5 DEF WritesAreLines
<1>6. CASE ApproveOrder(c)
  <2> USE <1>6 DEF ApproveOrder
  <2> DEFINE P == {p \in stocked : LinesOf(order[c], p) # {}}
  <2>1. PICK plan \in SetToSeqs(P) : todo' = [todo EXCEPT ![c] = plan] OBVIOUS
  <2>2. P \subseteq Products BY DEF TypeOK
  <2> HIDE DEF P
  <2>3. plan \in Seq(Products)
    <3>1. Cardinality(P) \in Nat BY <2>2, FS_Subset, FS_CardinalityType
    <3>2. plan \in [1 .. Cardinality(P) -> P] BY <2>1 DEF SetToSeqs
    <3>3. plan \in [1 .. Cardinality(P) -> Products] BY <2>2, <3>2
    <3> QED BY <3>1, <3>3, Row
  <2>4. TypeOK' /\ WroteIsFunction' BY <1>1, <2>1, <2>3 DEF TypeOK, WroteIsFunction
  <2>5. PlacingIsNew' BY <1>1, <1>3, SamePlacing DEF Placing, TypeOK
  <2>6. DecidingIsLocked'
    BY <1>1 DEF DecidingIsLocked, Deciding, HoldsOrder, OrderLocked, Approvable, TypeOK
  <2>7. WritesLines(c)' BY <1>1 DEF WritesAreLines, WritesLines, TypeOK
  <2> QED BY <1>2, <1>4, <2>4, <2>5, <2>6, <2>7 DEF WritesAreLines
<1>7. CASE Reserve(c)
  <2>1. pc[c] = "reserve" /\ pc' = pc /\ Head(todo[c]) \in Products /\ Tail(todo[c]) \in Seq(Products)
    <3>1. todo[c] \in Seq(Products) /\ todo[c] # <<>> BY <1>7 DEF TypeOK, Reserve
    <3> QED BY <1>7, <3>1 DEF Reserve
  <2>2. PICK l \in LinesOf(order[c], Head(todo[c])) :
          wrote' = [wrote EXCEPT ![c] =
            Written(@, Head(todo[c]), [value |-> allocated[Head(todo[c])] + Quantity[l],
                                       quantity |-> Quantity[l]])]
    BY <1>7 DEF Reserve
  <2> DEFINE p == Head(todo[c])
             row == [value |-> allocated[p] + Quantity[l], quantity |-> Quantity[l]]
  <2>3. row \in [value : Nat, quantity : Nat] /\ row.quantity = Quantity[l] /\ l \in LinesOf(order[c], p)
    BY <2>1 DEF LinesOf, TypeOK
  <2>4. wrote' = [wrote EXCEPT ![c] = Written(wrote[c], p, row)] BY <2>2
  <2> HIDE DEF p, row
  <2>5. /\ DOMAIN wrote' = Calls /\ wrote' = [d \in Calls |-> wrote'[d]]
        /\ wrote'[c] = Written(wrote[c], p, row)
    BY <2>4 DEF TypeOK, WroteIsFunction
  <2>6. /\ DOMAIN wrote'[c] = DOMAIN wrote[c] \cup {p}
        /\ wrote'[c] \in [DOMAIN wrote'[c] -> [value : Nat, quantity : Nat]]
        /\ wrote'[c][p] = row
        /\ \A q \in DOMAIN wrote[c] : q # p => wrote'[c][q] = wrote[c][q]
        /\ DOMAIN wrote'[c] \subseteq Products
    <3> DEFINE w == wrote[c]
    <3>1. DOMAIN w \subseteq Products /\ w \in [DOMAIN w -> [value : Nat, quantity : Nat]] BY DEF TypeOK
    <3>2. p \in Products BY <2>1 DEF p
    <3>3. wrote'[c] = Written(w, p, row) BY <2>5
    <3> HIDE DEF w
    <3>4. /\ DOMAIN Written(w, p, row) = DOMAIN w \cup {p}
          /\ DOMAIN Written(w, p, row) \subseteq Products
          /\ Written(w, p, row) \in [DOMAIN Written(w, p, row) -> [value : Nat, quantity : Nat]]
          /\ Written(w, p, row)[p] = row
          /\ \A q \in DOMAIN w : q # p => Written(w, p, row)[q] = w[q]
      BY <2>3, <3>1, <3>2, WrittenRows
    <3> QED BY <3>3, <3>4 DEF w
  <2>8. todo' \in [Calls -> Seq(Products)] BY <1>7, <2>1 DEF TypeOK, Reserve
  <2>9. TypeOK' /\ WroteIsFunction'
    BY <1>1, <1>3, <2>1, <2>5, <2>6, <2>8 DEF TypeOK, WroteIsFunction
  <2>10. PlacingIsNew' BY <1>1, <1>3, <2>1, SamePlacing DEF Placing, TypeOK
  <2>11. DecidingIsLocked' BY <1>1, <2>1 DEF DecidingIsLocked, HoldsOrder
  <2>12. WritesLines(c)'
    <3> SUFFICES ASSUME NEW q \in DOMAIN wrote'[c]
                 PROVE  \E k \in LinesOf(order[c], q) : wrote'[c][q].quantity = Quantity[k]
      BY <1>1, <2>1 DEF WritesLines, LinesOf
    <3>1. CASE q = p BY <2>3, <2>6, <3>1
    <3>2. CASE q # p BY <2>1, <2>6, <3>2 DEF WritesAreLines, WritesLines
    <3> QED BY <3>1, <3>2
  <2> QED BY <1>2, <1>4, <2>9, <2>10, <2>11, <2>12 DEF WritesAreLines
<1>8. CASE RejectOrder(c)
  <2> USE <1>8 DEF RejectOrder
  <2>1. TypeOK' /\ WroteIsFunction' BY <1>1 DEF TypeOK, WroteIsFunction
  <2>2. PlacingIsNew' BY <1>1, <1>3, SamePlacing DEF Placing, TypeOK
  <2>3. DecidingIsLocked'
    BY <1>1 DEF DecidingIsLocked, Deciding, HoldsOrder, OrderLocked, Rejectable, TypeOK
  <2>4. WritesLines(c)' BY <1>1 DEF WritesAreLines, WritesLines, TypeOK
  <2> QED BY <1>2, <1>4, <2>1, <2>2, <2>3, <2>4 DEF WritesAreLines
<1>9. CASE Restock(c)
  <2> USE <1>9 DEF Restock
  <2> DEFINE p == Head(todo[c])
             row == [value |-> input[c], quantity |-> 0]
  <2>1. p \in Products /\ row \in [value : Nat, quantity : Nat]
    <3>1. todo[c] \in Seq(Products) /\ todo[c] # <<>> BY DEF TypeOK, WritesAreLines, WritesLines
    <3> QED BY <3>1 DEF TypeOK
  <2>2. wrote' = [wrote EXCEPT ![c] = Written(wrote[c], p, row)] OBVIOUS
  <2> HIDE DEF p, row
  <2>3. /\ DOMAIN wrote' = Calls /\ wrote' = [d \in Calls |-> wrote'[d]]
        /\ wrote'[c] = Written(wrote[c], p, row)
    BY <2>2 DEF TypeOK, WroteIsFunction
  <2>4. /\ DOMAIN wrote'[c] = DOMAIN wrote[c] \cup {p}
        /\ wrote'[c] \in [DOMAIN wrote'[c] -> [value : Nat, quantity : Nat]]
        /\ DOMAIN wrote'[c] \subseteq Products
    <3> DEFINE w == wrote[c]
    <3>1. DOMAIN w \subseteq Products /\ w \in [DOMAIN w -> [value : Nat, quantity : Nat]] BY DEF TypeOK
    <3>2. wrote'[c] = Written(w, p, row) BY <2>3
    <3> HIDE DEF w
    <3>3. /\ DOMAIN Written(w, p, row) = DOMAIN w \cup {p}
          /\ DOMAIN Written(w, p, row) \subseteq Products
          /\ Written(w, p, row) \in [DOMAIN Written(w, p, row) -> [value : Nat, quantity : Nat]]
      BY <2>1, <3>1, WrittenRows
    <3> QED BY <3>2, <3>3 DEF w
  <2>5. todo' \in [Calls -> Seq(Products)] BY DEF TypeOK
  <2>6. TypeOK' /\ WroteIsFunction'
    BY <1>1, <1>3, <2>1, <2>3, <2>4, <2>5 DEF TypeOK, WroteIsFunction
  <2>7. PlacingIsNew' BY <1>1, <1>3, SamePlacing DEF Placing, TypeOK
  <2>8. DecidingIsLocked' BY <1>1 DEF DecidingIsLocked, Deciding, HoldsOrder, TypeOK
  <2>9. WritesLines(c)' BY <1>1 DEF WritesLines, TypeOK
  <2> QED BY <1>2, <1>4, <2>6, <2>7, <2>8, <2>9 DEF WritesAreLines
<1> QED BY <1>5, <1>6, <1>7, <1>8, <1>9

(* COMMIT: what a transaction leaves behind, apart from the rows. *)
LEMMA Closed ==
  ASSUME IInv, NEW c \in Calls, Close(c)
  PROVE  /\ pc' \in [Calls -> {"idle", "insert", "inserted", "approve", "reserve",
                              "reject", "rejected", "restock", "restocked"}]
         /\ order' \in [Calls -> Orders] /\ input' \in [Calls -> Nat] /\ todo' \in [Calls -> Seq(Products)]
         /\ entry' \in [Calls -> [number : Numbers, status : Statuses \cup {"none"}, drawn : BOOLEAN]]
         /\ DOMAIN wrote' = Calls
         /\ \A d \in Calls : /\ DOMAIN wrote'[d] \subseteq Products
                             /\ wrote'[d] \in [DOMAIN wrote'[d] -> [value : Nat, quantity : Nat]]
         /\ WroteIsFunction' /\ WritesAreLines'
         /\ pc'[c] = "idle"
         /\ \A d \in Calls : d # c => /\ pc'[d] = pc[d] /\ order'[d] = order[d] /\ input'[d] = input[d]
                                      /\ entry'[d] = entry[d]
                                      /\ todo'[d] = todo[d] /\ wrote'[d] = wrote[d]
<1> USE Given DEF Close, Goto
<1>1. Undecided \in Orders BY DEF Undecided
<1>2. /\ DOMAIN wrote' = Calls /\ wrote' = [d \in Calls |-> wrote'[d]]
      /\ DOMAIN wrote'[c] = {} /\ wrote'[c] = Nowhere
      /\ \A d \in Calls : d # c => wrote'[d] = wrote[d]
  BY DEF IInv, TypeOK, WroteIsFunction, Nowhere
<1>3. wrote'[c] \in [DOMAIN wrote'[c] -> [value : Nat, quantity : Nat]] BY <1>2 DEF Nowhere
<1>4. /\ pc'[c] = "idle"
      /\ \A d \in Calls : d # c => /\ pc'[d] = pc[d] /\ order'[d] = order[d] /\ input'[d] = input[d]
                                   /\ entry'[d] = entry[d]
                                   /\ todo'[d] = todo[d] /\ wrote'[d] = wrote[d]
  BY <1>2 DEF IInv, TypeOK
<1>5. \A d \in Calls : d # c => WritesLines(d)' BY <1>4, SameLines DEF IInv, WritesAreLines
<1>6. WritesLines(c)' BY <1>2, <1>4 DEF WritesLines
<1>7. todo' \in [Calls -> Seq(Products)] BY DEF IInv, TypeOK
<1>8. entry' \in [Calls -> [number : Numbers, status : Statuses \cup {"none"}, drawn : BOOLEAN]]
  BY Nothing DEF IInv, TypeOK
<1> QED BY <1>1, <1>2, <1>3, <1>4, <1>5, <1>6, <1>7, <1>8 DEF IInv, TypeOK, WroteIsFunction, WritesAreLines

(* What is said of the calls that place orders is said of the others too. *)
LEMMA PlacingStays ==
  ASSUME IInv, NEW c \in Calls, Close(c), \A n : Follows(n) => Follows(n)',
         \A d \in Calls : d # c =>
           /\ pc[d] \in Placing => status'[order[d]] = "none"
           /\ pc[d] = "inserted" => \A o \in Orders : status'[o] # "none" => number'[o] # entry[d].number
  PROVE  PlacingIsNew'
<1>1. /\ pc'[c] = "idle"
      /\ \A d \in Calls : d # c => pc'[d] = pc[d] /\ order'[d] = order[d] /\ entry'[d] = entry[d]
  BY Closed
<1>2. \A d, e \in Calls : d # e /\ pc[d] \in Placing /\ pc[e] \in Placing => order[e] # order[d]
  BY DEF IInv, PlacingIsNew
<1>3. \A d, e \in Calls : d # e /\ pc[d] = "inserted" /\ pc[e] = "inserted" =>
                           entry[e].number # entry[d].number
  BY DEF IInv, PlacingIsNew
<1>4. ASSUME NEW d \in Calls, pc'[d] \in Placing
      PROVE  /\ status'[order'[d]] = "none" /\ EntryHolds(entry[d])'
             /\ \A e \in Calls \ {d} : pc'[e] \in Placing => order'[e] # order'[d]
  <2>1. d # c /\ pc[d] \in Placing BY <1>1, <1>4 DEF Placing
  <2>2. EntryHolds(entry[d])' BY <1>1, <2>1, EntryStays DEF IInv, PlacingIsNew
  <2> QED BY <1>1, <1>2, <1>4, <2>1, <2>2 DEF Placing
<1>5. ASSUME NEW d \in Calls, pc'[d] = "inserted"
      PROVE  /\ \A o \in Orders : status'[o] # "none" => number'[o] # entry'[d].number
             /\ \A e \in Calls \ {d} : pc'[e] = "inserted" => entry'[e].number # entry'[d].number
  BY <1>1, <1>3, <1>5
<1> QED BY <1>4, <1>5 DEF PlacingIsNew, NumberTaken

(* A decision stands on what the other calls leave of the orders. *)
LEMMA DecidingStays ==
  ASSUME IInv, NEW c \in Calls, Close(c),
         \A d \in Calls : d # c =>
           /\ pc[d] \in Deciding => status'[order[d]] # "none"
           /\ pc[d] = "reserve" => status'[order[d]] = "pending"
           /\ pc[d] = "rejected" => status'[order[d]] \in {"pending", "approved"}
  PROVE  DecidingIsLocked'
<1>1. /\ pc'[c] = "idle"
      /\ \A d \in Calls : d # c => pc'[d] = pc[d] /\ order'[d] = order[d]
  BY Closed
<1>2. \A d, e \in Calls : HoldsOrder(d) /\ HoldsOrder(e) /\ d # e => order[d] # order[e]
  BY DEF IInv, DecidingIsLocked
<1>3. \A d, e \in Calls : HoldsOrder(d)' /\ HoldsOrder(e)' /\ d # e => order'[d] # order'[e]
  BY <1>1, <1>2 DEF HoldsOrder
<1>4. \A d \in Calls :
        /\ pc'[d] \in Deciding => status'[order'[d]] # "none"
        /\ pc'[d] = "reserve" => status'[order'[d]] = "pending"
        /\ pc'[d] = "rejected" => status'[order'[d]] \in {"pending", "approved"}
  BY <1>1 DEF Deciding
<1> QED BY <1>3, <1>4 DEF DecidingIsLocked, Deciding

(* A number that is committed is new, and no other call has inserted it. *)
LEMMA CommitInsertStep ==
  ASSUME IInv, NEW c \in Calls, CommitInsert(c), Close(c) PROVE IInv'
<1> DEFINE o == order[c]
           e == entry[c]
<1>1. /\ pc[c] = "inserted" /\ o \in Orders /\ status[o] = "none" /\ number[o] = NoNumber
      /\ o \notin drawn /\ EntryHolds(e) /\ ~NumberTaken(c)
      /\ number' = [number EXCEPT ![o] = e.number] /\ status' = [status EXCEPT ![o] = e.status]
      /\ drawn' = IF e.drawn THEN drawn \cup {o} ELSE drawn
      /\ shelf' = [shelf EXCEPT ![o] = stocked] /\ UNCHANGED <<stocked, allocated, base, since>>
  BY DEF CommitInsert, IInv, TypeOK, PlacingIsNew, Placing, NumbersOfPlaced
<1>2. e.number \in Numbers /\ e.status \in Statuses /\ e.status # "none" BY <1>1 DEF EntryHolds, Statuses
<1>3. /\ number'[o] = e.number /\ status'[o] = e.status
      /\ \A x \in Orders : x # o => number'[x] = number[x] /\ status'[x] = status[x]
  BY <1>1 DEF IInv, TypeOK
<1>4. Placed' = Placed \cup {o} /\ o \notin Placed BY <1>1, <1>2, <1>3 DEF Placed
<1> HIDE DEF o, e
<1>5. \A n : Follows(n) => Follows(n)'
  <2>1. \A x \in Placed : number'[x] = number[x] BY <1>3, <1>4 DEF Placed
  <2> QED BY <1>4, <2>1 DEF Follows
<1>6. TypeOK'
  <2>1. /\ number' \in [Orders -> Numbers] /\ status' \in [Orders -> Statuses \cup {"none"}]
        /\ drawn' \subseteq Orders /\ shelf' \in [Orders -> SUBSET Products]
    BY <1>1, <1>2 DEF IInv, TypeOK
  <2> QED BY <1>1, <2>1, Closed DEF IInv, TypeOK
<1>7. PlacingIsNew'
  <2>1. ASSUME NEW d \in Calls, d # c, pc[d] \in Placing PROVE status'[order[d]] = "none"
    <3>1. pc[c] \in Placing BY <1>1 DEF Placing
    <3>2. status[order[d]] = "none" /\ order[d] # o /\ order[d] \in Orders
      BY <2>1, <3>1 DEF IInv, PlacingIsNew, TypeOK, o
    <3> QED BY <1>3, <3>2
  <2>2. ASSUME NEW d \in Calls, d # c, pc[d] = "inserted", NEW x \in Orders, status'[x] # "none"
        PROVE  number'[x] # entry[d].number
    <3>1. CASE x = o
      <4>1. entry[d].number # entry[c].number BY <1>1, <2>2 DEF IInv, PlacingIsNew
      <4> QED BY <1>3, <3>1, <4>1 DEF e
    <3>2. CASE x # o BY <1>3, <2>2, <3>2 DEF IInv, PlacingIsNew, NumberTaken
    <3> QED BY <3>1, <3>2
  <2> QED BY <1>5, <2>1, <2>2, PlacingStays
<1>8. NumbersOfPlaced'
  <2>1. \A x \in Orders : status'[x] = "none" => number'[x] = NoNumber /\ x \notin drawn'
    BY <1>1, <1>2, <1>3 DEF IInv, NumbersOfPlaced
  <2>2. Trailing' = Trailing \cup e.number.digits
    <3>1. number[o].digits = {} BY <1>1 DEF NoNumber
    <3> QED BY <1>1, <1>3, <3>1 DEF Trailing
  <2>3. Trailing \subseteq Nat /\ e.number.digits \subseteq Nat
    BY <1>2 DEF IInv, TypeOK, Trailing, Numbers
  <2>4. \A n, m \in e.number.digits : n = m BY <1>1 DEF EntryHolds
  <2>5. Trailing # {} => \E m \in Trailing : \A k \in Trailing : k <= m BY DEF IInv, NumbersOfPlaced
  <2>6. Trailing' # {} => \E m \in Trailing' : \A k \in Trailing' : k <= m
    <3>1. CASE e.number.digits = {} BY <2>2, <2>5, <3>1
    <3>2. CASE Trailing = {} /\ e.number.digits # {} BY <2>2, <2>3, <2>4, <3>2
    <3>3. CASE Trailing # {} /\ e.number.digits # {}
      <4>1. PICK m \in Trailing : \A k \in Trailing : k <= m BY <2>5, <3>3
      <4>2. PICK n \in e.number.digits : TRUE BY <3>3
      <4>3. m \in Nat /\ n \in Nat /\ \A k \in Trailing' : k <= m \/ k = n
        BY <2>2, <2>3, <2>4, <4>1, <4>2
      <4>4. CASE m <= n
        <5>1. \A k \in Trailing' : k <= n BY <2>2, <2>3, <4>3, <4>4
        <5> QED BY <2>2, <4>2, <5>1
      <4>5. CASE n <= m
        <5>1. \A k \in Trailing' : k <= m BY <4>3, <4>5
        <5> QED BY <2>2, <4>1, <5>1
      <4> QED BY <4>3, <4>4, <4>5
    <3> QED BY <3>1, <3>2, <3>3
  <2> QED BY <2>1, <2>6 DEF NumbersOfPlaced, NoNumber
<1>9. DecidingIsLocked'
  <2>1. \A d \in Calls : pc[d] \in Deciding => order[d] # o /\ order[d] \in Orders
    BY <1>1 DEF IInv, DecidingIsLocked, TypeOK
  <2>2. \A d \in Calls : pc[d] \in Deciding => status'[order[d]] = status[order[d]] BY <1>3, <2>1
  <2> QED BY <2>2, DecidingStays DEF IInv, DecidingIsLocked, Deciding
<1>10. NumbersFollow'
  <2>1. ASSUME NEW x \in Placed', NEW y \in Placed', number'[x] = number'[y] PROVE x = y
    <3>1. \A z \in Placed : z # o /\ number'[z] = number[z] /\ number[z] # e.number
      BY <1>1, <1>3, <1>4 DEF Placed, NumberTaken, e
    <3>2. \A z, w \in Placed : number[z] = number[w] => z = w BY DEF IInv, NumbersFollow
    <3> QED BY <1>3, <1>4, <2>1, <3>1, <3>2
  <2>2. ASSUME NEW x \in drawn'
        PROVE  \E n \in number'[x].digits :
                 number'[x] = [series |-> Own, digits |-> {n}] /\ Follows(n)'
    <3>1. CASE x \in drawn
      <4>1. x \in Orders /\ x # o BY <1>1, <3>1 DEF IInv, TypeOK
      <4>2. \E n \in number[x].digits :
              number[x] = [series |-> Own, digits |-> {n}] /\ Follows(n)
        BY <3>1 DEF IInv, NumbersFollow
      <4> QED BY <1>3, <1>5, <4>1, <4>2
    <3>2. CASE x = o /\ e.drawn
      <4>1. \E n \in e.number.digits :
              e.number = [series |-> Own, digits |-> {n}] /\ Follows(n)
        BY <1>1, <3>2 DEF EntryHolds
      <4> QED BY <1>3, <1>5, <3>2, <4>1
    <3> QED BY <1>1, <2>2, <3>1, <3>2
  <2> QED BY <2>1, <2>2 DEF NumbersFollow
<1>11. ReservedOnce'
  <2>1. ASSUME NEW p \in Products, NEW x \in Orders, since[p][x] > 0 PROVE x # o
    BY <1>1, <2>1 DEF IInv, ReservedOnce
  <2> QED BY <1>1, <1>3, <2>1 DEF IInv, ReservedOnce, LinesOf
<1> QED BY <1>6, <1>7, <1>8, <1>9, <1>10, <1>11, Closed DEF IInv

(* Decisions and stock leave the numbers and who is placing what alone. *)
LEMMA NumbersStay ==
  ASSUME IInv, NEW c \in Calls, Close(c), number' = number, drawn' = drawn,
         \A o \in Orders : status[o] = "none" <=> status'[o] = "none"
  PROVE  PlacingIsNew' /\ NumbersOfPlaced' /\ NumbersFollow'
<1>1. NumbersOfPlaced' /\ NumbersFollow' /\ \A n : Follows(n) => Follows(n)'
  BY SameNumbers DEF IInv
<1>2. PlacingIsNew'
  <2>1. ASSUME NEW d \in Calls, d # c
        PROVE  /\ pc[d] \in Placing => status'[order[d]] = "none"
               /\ pc[d] = "inserted" =>
                    \A o \in Orders : status'[o] # "none" => number'[o] # entry[d].number
    <3>1. order[d] \in Orders BY DEF IInv, TypeOK
    <3>2. pc[d] \in Placing => status[order[d]] = "none" BY DEF IInv, PlacingIsNew
    <3>3. pc[d] = "inserted" => \A o \in Orders : status[o] # "none" => number[o] # entry[d].number
      BY DEF IInv, PlacingIsNew, NumberTaken
    <3> QED BY <3>1, <3>2, <3>3
  <2> QED BY <1>1, <2>1, PlacingStays
<1> QED BY <1>1, <1>2

LEMMA CommitStep == ASSUME IInv, NEW c \in Calls, Commit(c) PROVE IInv'
<1> USE Given
<1>1. Close(c) BY DEF Commit
<1>2. CASE CommitInsert(c) BY <1>1, <1>2, CommitInsertStep
<1>3. CASE CommitApproval(c)
  <2>1. /\ pc[c] = "reserve" /\ order[c] \in Orders /\ status[order[c]] = "pending"
        /\ status' = [status EXCEPT ![order[c]] = "approved"]
        /\ UNCHANGED <<number, stocked, drawn, base, shelf>>
        /\ allocated' = [p \in Products |->
             IF p \in DOMAIN wrote[c] THEN wrote[c][p].value ELSE allocated[p]]
        /\ since' = [p \in Products |->
             IF p \in DOMAIN wrote[c]
             THEN [since[p] EXCEPT ![order[c]] = @ + wrote[c][p].quantity]
             ELSE since[p]]
    BY <1>3 DEF CommitApproval, IInv, TypeOK, DecidingIsLocked
  <2>2. \A p \in DOMAIN wrote[c] : /\ p \in Products /\ wrote[c][p].value \in Nat /\ wrote[c][p].quantity \in Nat
                                   /\ \E l \in LinesOf(order[c], p) : wrote[c][p].quantity = Quantity[l]
    BY <2>1 DEF IInv, TypeOK, WritesAreLines, WritesLines
  <2>3. \A p \in Products : since[p][order[c]] = 0
    <3> SUFFICES ASSUME NEW p \in Products PROVE since[p][order[c]] = 0 OBVIOUS
    <3>1. since[p][order[c]] \in Nat BY <2>1 DEF IInv, TypeOK
    <3>2. ~(since[p][order[c]] > 0) BY <2>1 DEF IInv, ReservedOnce
    <3> QED BY <3>1, <3>2
  <2>4. PlacingIsNew' /\ NumbersOfPlaced' /\ NumbersFollow'
    <3>1. \A o \in Orders : status[o] = "none" <=> status'[o] = "none" BY <2>1 DEF IInv, TypeOK
    <3> QED BY <1>1, <2>1, <3>1, NumbersStay
  <2>5. TypeOK'
    <3>1. allocated' \in [Products -> Nat] BY <2>1, <2>2 DEF IInv, TypeOK
    <3>2. since' \in [Products -> [Orders -> Nat]]
      <4>1. ASSUME NEW p \in DOMAIN wrote[c]
            PROVE  [since[p] EXCEPT ![order[c]] = @ + wrote[c][p].quantity] \in [Orders -> Nat]
        <5>1. since[p] \in [Orders -> Nat] /\ wrote[c][p].quantity \in Nat BY <2>2 DEF IInv, TypeOK
        <5> QED BY <2>1, <5>1
      <4> QED BY <2>1, <4>1 DEF IInv, TypeOK
    <3>3. status' \in [Orders -> Statuses \cup {"none"}] BY <2>1 DEF IInv, TypeOK
    <3> QED BY <1>1, <2>1, <3>1, <3>2, <3>3, Closed DEF IInv, TypeOK
  <2>6. DecidingIsLocked'
    <3>1. \A d \in Calls : d # c /\ HoldsOrder(d) => order[d] # order[c]
      BY <2>1 DEF IInv, DecidingIsLocked, HoldsOrder
    <3>2. ASSUME NEW d \in Calls, d # c
          PROVE  /\ pc[d] \in Deciding => status'[order[d]] # "none"
                 /\ pc[d] = "reserve" => status'[order[d]] = "pending"
                 /\ pc[d] = "rejected" => status'[order[d]] \in {"pending", "approved"}
      <4>1. /\ order[d] \in Orders /\ status \in [Orders -> Statuses \cup {"none"}]
            /\ pc[d] \in Deciding => status[order[d]] # "none"
            /\ pc[d] = "reserve" => status[order[d]] = "pending"
            /\ pc[d] = "rejected" => status[order[d]] \in {"pending", "approved"}
        BY DEF IInv, DecidingIsLocked, TypeOK
      <4>2. HoldsOrder(d) => order[d] # order[c] BY <3>1, <3>2
      <4> QED BY <2>1, <4>1, <4>2 DEF HoldsOrder
    <3> QED BY <1>1, <3>2, DecidingStays
  <2>7. ReservedOnce'
    <3> SUFFICES ASSUME NEW p \in Products, NEW o \in Orders, since'[p][o] > 0
                 PROVE  /\ status'[o] \in {"approved", "rejected"}
                        /\ since'[p][o] \in {Quantity[l] : l \in LinesOf(o, p)}
      BY DEF ReservedOnce
    <3>1. CASE o = order[c] /\ p \in DOMAIN wrote[c]
      <4>1. since'[p][o] = wrote[c][p].quantity BY <2>1, <2>2, <2>3, <3>1 DEF IInv, TypeOK
      <4>2. status'[o] = "approved" BY <2>1, <3>1 DEF IInv, TypeOK
      <4> QED BY <2>2, <3>1, <4>1, <4>2
    <3>2. CASE o = order[c] /\ p \notin DOMAIN wrote[c] BY <2>1, <2>3, <3>2
    <3>3. CASE o # order[c]
      <4>1. since'[p][o] = since[p][o] /\ status'[o] = status[o] BY <2>1, <3>3 DEF IInv, TypeOK
      <4> QED BY <4>1 DEF IInv, ReservedOnce
    <3> QED BY <3>1, <3>2, <3>3
  <2> QED BY <1>1, <2>4, <2>5, <2>6, <2>7, Closed DEF IInv
<1>4. CASE CommitRejection(c)
  <2>1. /\ pc[c] = "rejected" /\ order[c] \in Orders /\ status[order[c]] \in {"pending", "approved"}
        /\ status' = [status EXCEPT ![order[c]] = "rejected"]
        /\ UNCHANGED <<number, stocked, allocated, drawn, base, since, shelf>>
    BY <1>4 DEF CommitRejection, IInv, TypeOK, DecidingIsLocked
  <2>2. PlacingIsNew' /\ NumbersOfPlaced' /\ NumbersFollow'
    <3>1. \A o \in Orders : status[o] = "none" <=> status'[o] = "none" BY <2>1 DEF IInv, TypeOK
    <3> QED BY <1>1, <2>1, <3>1, NumbersStay
  <2>3. TypeOK' BY <1>1, <2>1, Closed DEF IInv, TypeOK
  <2>4. DecidingIsLocked'
    <3>1. \A d \in Calls : d # c /\ HoldsOrder(d) => order[d] # order[c]
      BY <2>1 DEF IInv, DecidingIsLocked, HoldsOrder
    <3>2. ASSUME NEW d \in Calls, d # c
          PROVE  /\ pc[d] \in Deciding => status'[order[d]] # "none"
                 /\ pc[d] = "reserve" => status'[order[d]] = "pending"
                 /\ pc[d] = "rejected" => status'[order[d]] \in {"pending", "approved"}
      <4>1. /\ order[d] \in Orders /\ status \in [Orders -> Statuses \cup {"none"}]
            /\ pc[d] \in Deciding => status[order[d]] # "none"
            /\ pc[d] = "reserve" => status[order[d]] = "pending"
            /\ pc[d] = "rejected" => status[order[d]] \in {"pending", "approved"}
        BY DEF IInv, DecidingIsLocked, TypeOK
      <4>2. HoldsOrder(d) => order[d] # order[c] BY <3>1, <3>2
      <4> QED BY <2>1, <4>1, <4>2 DEF HoldsOrder
    <3> QED BY <1>1, <3>2, DecidingStays
  <2>5. ReservedOnce' BY <2>1 DEF IInv, ReservedOnce, TypeOK, LinesOf
  <2> QED BY <1>1, <2>2, <2>3, <2>4, <2>5, Closed DEF IInv
<1>5. CASE CommitStock(c)
  <2>1. /\ pc[c] = "restocked" /\ UNCHANGED <<number, status, drawn, shelf>>
        /\ stocked' = stocked \cup DOMAIN wrote[c]
        /\ allocated' = [p \in Products |->
             IF p \in DOMAIN wrote[c] THEN wrote[c][p].value ELSE allocated[p]]
        /\ base' = [p \in Products |-> IF p \in DOMAIN wrote[c] THEN allocated'[p] ELSE base[p]]
        /\ since' = [p \in Products |->
             IF p \in DOMAIN wrote[c] THEN [o \in Orders |-> 0] ELSE since[p]]
    BY <1>5 DEF CommitStock
  <2>2. \A p \in DOMAIN wrote[c] : p \in Products /\ wrote[c][p].value \in Nat BY DEF IInv, TypeOK
  <2>3. PlacingIsNew' /\ NumbersOfPlaced' /\ NumbersFollow' BY <1>1, <2>1, NumbersStay
  <2>4. TypeOK'
    <3>1. allocated' \in [Products -> Nat] BY <2>1, <2>2 DEF IInv, TypeOK
    <3>2. base' \in [Products -> Nat] BY <2>1, <3>1 DEF IInv, TypeOK
    <3>3. since' \in [Products -> [Orders -> Nat]] BY <2>1 DEF IInv, TypeOK
    <3> QED BY <1>1, <2>1, <2>2, <3>1, <3>2, <3>3, Closed DEF IInv, TypeOK
  <2>5. DecidingIsLocked'
    <3>1. ASSUME NEW d \in Calls
          PROVE  /\ pc[d] \in Deciding => status'[order[d]] # "none"
                 /\ pc[d] = "reserve" => status'[order[d]] = "pending"
                 /\ pc[d] = "rejected" => status'[order[d]] \in {"pending", "approved"}
      BY <2>1 DEF IInv, DecidingIsLocked
    <3> QED BY <1>1, <3>1, DecidingStays
  <2>6. ReservedOnce' BY <2>1 DEF IInv, ReservedOnce, TypeOK
  <2> QED BY <1>1, <2>3, <2>4, <2>5, <2>6, Closed DEF IInv
<1> QED BY <1>2, <1>3, <1>4, <1>5 DEF Commit

LEMMA NextIInv == ASSUME IInv, [Next]_vars PROVE IInv'
<1>1. CASE UNCHANGED vars
  <2> USE <1>1 DEF vars, IInv
  <2>1. UNCHANGED <<order, entry, rows>> /\ pc' = pc BY DEF rows
  <2>2. TypeOK' /\ WroteIsFunction' BY DEF TypeOK, WroteIsFunction
  <2>3. PlacingIsNew' BY <2>1, SamePlacing
  <2>4. DecidingIsLocked' BY DEF DecidingIsLocked, HoldsOrder
  <2>5. WritesAreLines' BY SameLines DEF WritesAreLines
  <2>6. NumbersOfPlaced' /\ NumbersFollow' /\ ReservedOnce' BY SameNumbers DEF ReservedOnce
  <2> QED BY <2>2, <2>3, <2>4, <2>5, <2>6
<1>2. CASE Next
  <2> PICK c \in Calls : Start(c) \/ Step(c) \/ DeadlockVictim(c) \/ Fail(c) BY <1>2 DEF Next
  <2>1. CASE Start(c) BY <2>1, StartStep
  <2>2. CASE NotMatched(c) \/ Refused(c) \/ DeadlockVictim(c) \/ Fail(c)
    BY <2>2, RollbackStep DEF NotMatched, Refused, DeadlockVictim, Fail, Rollback
  <2>3. CASE InsertOrder(c) \/ ApproveOrder(c) \/ Reserve(c) \/ RejectOrder(c) \/ Restock(c)
    BY <2>3, StatementStep
  <2>4. CASE Commit(c) BY <2>4, CommitStep
  <2> QED BY <2>1, <2>2, <2>3, <2>4 DEF Step
<1> QED BY <1>1, <1>2

(* What the calls rely on, and with it everything below. *)
THEOREM Invariance == Spec => []IInv
<1> QED BY InitIInv, NextIInv, PTL DEF Spec

(* The variables keep their types. *)
THEOREM TypeCorrect == Spec => []TypeOK
<1>1. IInv => TypeOK BY DEF IInv
<1> QED BY Invariance, <1>1, PTL

(* packages/db/src/commerce.ts, nextOrderNumber and createOrder: no two    *)
(* orders have one number, and drawing skips none, whatever a queue, a     *)
(* synchronisation or the demo brings, and although calls draw the same    *)
(* number and some of them fail.                                           *)
THEOREM Numbered == Spec => []NumbersFollow
<1>1. IInv => NumbersFollow BY DEF IInv
<1> QED BY Invariance, <1>1, PTL

(* Only a decided order holds stock, and of one line of each product. *)
THEOREM OneReservation == Spec => []ReservedOnce
<1>1. IInv => ReservedOnce BY DEF IInv
<1> QED BY Invariance, <1>1, PTL

(* A rejection is final, and an approval is taken back by one only. *)
THEOREM Decisions == Spec => DecisionsStand
<1>1. ASSUME IInv, [Next]_vars, NEW o \in Orders
      PROVE  /\ status[o] = "rejected" => status'[o] = "rejected"
             /\ status[o] = "approved" => status'[o] # "pending"
  <2>1. CASE status' = status BY <2>1
  <2>2. CASE status' # status
    <3>1. PICK c \in Calls : CommitInsert(c) \/ CommitApproval(c) \/ CommitRejection(c)
      BY <1>1, <2>2 DEF Next, vars, rows, Start, NextOrderNumber, SupplyNumber, Bring, Decide, SetStock, Step, InsertOrder,
         ApproveOrder, Reserve, RejectOrder, NotMatched, Restock, Commit, CommitStock, Refused,
         Rollback, DeadlockVictim, Fail
    <3>2. order[c] \in Orders /\ status \in [Orders -> Statuses \cup {"none"}]
      BY <1>1 DEF IInv, TypeOK
    <3>3. CASE CommitInsert(c) BY <1>1, <3>2, <3>3 DEF CommitInsert, IInv, PlacingIsNew, Placing
    <3>4. CASE CommitApproval(c) BY <1>1, <3>2, <3>4 DEF CommitApproval, IInv, DecidingIsLocked
    <3>5. CASE CommitRejection(c) BY <1>1, <3>2, <3>5 DEF CommitRejection, IInv, DecidingIsLocked
    <3> QED BY <3>1, <3>3, <3>4, <3>5
  <2> QED BY <2>1, <2>2
<1>2. IInv /\ [Next]_vars =>
        [\A o \in Orders :
           /\ status[o] = "rejected" => status'[o] = "rejected"
           /\ status[o] = "approved" => status'[o] # "pending"]_vars
  BY <1>1
<1> QED BY Invariance, <1>2, PTL DEF Spec, DecisionsStand

----------------------------------------------------------------------------
(* The stock: what is reserved is the sum of what was approved.            *)

(* No row of the stock is written by two open calls, and the value that an *)
(* approval wrote is the committed one and its line: nobody commits        *)
(* another one while the row is locked.                                    *)
RowsAreLocked == \A c, d \in Calls : c # d => DOMAIN wrote[c] \cap DOMAIN wrote[d] = {}
SumsAreCurrent ==
  \A c \in Calls : pc[c] = "reserve" =>
    \A p \in DOMAIN wrote[c] : wrote[c][p].value = allocated[p] + wrote[c][p].quantity

(* The stock as a sum that the lemmas above are about. *)
StockAddsUp == \A p \in stocked : allocated[p] = base[p] + SumOf(since[p], Orders)

StockIInv == IInv /\ RowsAreLocked /\ SumsAreCurrent /\ StockAddsUp

LEMMA AddsUpByTotal == StockAddsUp => AllocationAddsUp
BY DEF AllocationAddsUp, StockAddsUp, SumOf

LEMMA StockInit == ASSUME Init PROVE StockIInv
<1>1. IInv BY InitIInv
<1>2. RowsAreLocked /\ SumsAreCurrent /\ StockAddsUp
  BY DEF Init, RowsAreLocked, SumsAreCurrent, StockAddsUp, Nowhere
<1> QED BY <1>1, <1>2 DEF StockIInv

(* A step that commits nothing, and leaves what the other calls wrote.     *)
LEMMA UncommittedStock ==
  ASSUME StockIInv, NEW c \in Calls, UNCHANGED rows,
         \A d \in Calls \ {c} : pc'[d] = pc[d] /\ wrote'[d] = wrote[d],
         \A d \in Calls \ {c} : DOMAIN wrote'[c] \cap DOMAIN wrote[d] = {},
         pc'[c] = "reserve" =>
           \A p \in DOMAIN wrote'[c] : wrote'[c][p].value = allocated[p] + wrote'[c][p].quantity
  PROVE  RowsAreLocked' /\ SumsAreCurrent' /\ StockAddsUp'
<1>1. RowsAreLocked' BY DEF StockIInv, RowsAreLocked
<1>2. SumsAreCurrent' BY DEF StockIInv, SumsAreCurrent, rows
<1>3. StockAddsUp' BY DEF StockIInv, StockAddsUp, rows
<1> QED BY <1>1, <1>2, <1>3

(* A row that is not locked is in nobody else's writes. *)
LEMMA NotLocked ==
  ASSUME IInv, NEW c \in Calls, NEW p, ~RowLocked(c, p), NEW d \in Calls \ {c}
  PROVE  p \notin DOMAIN wrote[d]
BY DEF IInv, RowLocked, Open, WritesAreLines, WritesLines

(* The row lock is what the sum relies on. *)
LEMMA ReserveStock ==
  ASSUME StockIInv, NEW c \in Calls, Reserve(c)
  PROVE  RowsAreLocked' /\ SumsAreCurrent' /\ StockAddsUp'
<1> USE DEF StockIInv
<1>1. /\ pc[c] = "reserve" /\ todo[c] # <<>> /\ todo[c] \in Seq(Products)
      /\ UNCHANGED <<pc, order, input, rows>> /\ ~RowLocked(c, Head(todo[c]))
  BY DEF Reserve, IInv, TypeOK
<1>2. PICK l \in LinesOf(order[c], Head(todo[c])) :
        wrote' = [wrote EXCEPT ![c] =
          Written(@, Head(todo[c]), [value |-> allocated[Head(todo[c])] + Quantity[l], quantity |-> Quantity[l]])]
  BY DEF Reserve
<1> DEFINE p == Head(todo[c])
           row == [value |-> allocated[p] + Quantity[l], quantity |-> Quantity[l]]
<1>3. wrote'[c] = Written(wrote[c], p, row) /\ \A d \in Calls \ {c} : wrote'[d] = wrote[d]
  BY <1>2 DEF IInv, TypeOK, WroteIsFunction
<1>4. /\ DOMAIN wrote'[c] = DOMAIN wrote[c] \cup {p}
      /\ wrote'[c][p] = row
      /\ \A q \in DOMAIN wrote[c] : q # p => wrote'[c][q] = wrote[c][q]
  BY <1>3 DEF Written
<1>5. \A d \in Calls \ {c} : DOMAIN wrote'[c] \cap DOMAIN wrote[d] = {}
  <2>1. \A d \in Calls \ {c} : p \notin DOMAIN wrote[d] BY <1>1, NotLocked
  <2> QED BY <1>4, <2>1 DEF RowsAreLocked
<1>6. \A q \in DOMAIN wrote'[c] : wrote'[c][q].value = allocated[q] + wrote'[c][q].quantity
  <2>1. \A q \in DOMAIN wrote[c] : wrote[c][q].value = allocated[q] + wrote[c][q].quantity
    BY <1>1 DEF SumsAreCurrent
  <2>2. wrote'[c][p].value = allocated[p] + wrote'[c][p].quantity BY <1>4
  <2> QED BY <1>4, <2>1, <2>2
<1> QED BY <1>1, <1>3, <1>5, <1>6, UncommittedStock

LEMMA RestockStock ==
  ASSUME StockIInv, NEW c \in Calls, Restock(c)
  PROVE  RowsAreLocked' /\ SumsAreCurrent' /\ StockAddsUp'
<1> USE DEF StockIInv
<1> DEFINE p == Head(todo[c])
<1>1. /\ pc[c] = "restock" /\ UNCHANGED rows /\ ~RowLocked(c, p) /\ pc'[c] = "restocked"
      /\ \A d \in Calls \ {c} : pc'[d] = pc[d]
      /\ wrote' = [wrote EXCEPT ![c] = Written(@, p, [value |-> input[c], quantity |-> 0])]
  BY DEF Restock, IInv, TypeOK, Goto, rows
<1>2. /\ wrote'[c] = Written(wrote[c], p, [value |-> input[c], quantity |-> 0])
      /\ \A d \in Calls \ {c} : wrote'[d] = wrote[d]
  BY <1>1 DEF IInv, TypeOK, WroteIsFunction
<1>3. DOMAIN wrote'[c] = DOMAIN wrote[c] \cup {p} BY <1>2 DEF Written
<1>4. \A d \in Calls \ {c} : DOMAIN wrote'[c] \cap DOMAIN wrote[d] = {}
  <2>1. \A d \in Calls \ {c} : p \notin DOMAIN wrote[d] BY <1>1, NotLocked
  <2> QED BY <1>3, <2>1 DEF RowsAreLocked
<1> QED BY <1>1, <1>2, <1>4, UncommittedStock

(* A call that closes keeps no row; the others keep theirs.                *)
LEMMA ClosedRows ==
  ASSUME IInv, NEW c \in Calls, Close(c)
  PROVE  /\ pc'[c] = "idle" /\ wrote'[c] = Nowhere /\ DOMAIN wrote'[c] = {}
         /\ \A d \in Calls \ {c} : pc'[d] = pc[d] /\ wrote'[d] = wrote[d]
BY DEF IInv, TypeOK, WroteIsFunction, Close, Goto, Nowhere

(* What an approval publishes is the committed value and its line.         *)
LEMMA ApprovalStock ==
  ASSUME StockIInv, NEW c \in Calls, CommitApproval(c), Close(c)
  PROVE  RowsAreLocked' /\ SumsAreCurrent' /\ StockAddsUp'
<1> USE Given DEF StockIInv
<1>1. /\ pc[c] = "reserve" /\ order[c] \in Orders /\ UNCHANGED <<stocked, base>>
      /\ allocated' = [p \in Products |->
           IF p \in DOMAIN wrote[c] THEN wrote[c][p].value ELSE allocated[p]]
      /\ since' = [p \in Products |->
           IF p \in DOMAIN wrote[c]
           THEN [since[p] EXCEPT ![order[c]] = @ + wrote[c][p].quantity]
           ELSE since[p]]
  BY DEF CommitApproval, IInv, TypeOK
<1>2. /\ DOMAIN wrote'[c] = {} /\ pc'[c] = "idle"
      /\ \A d \in Calls \ {c} : pc'[d] = pc[d] /\ wrote'[d] = wrote[d]
  BY ClosedRows
<1>3. \A p \in DOMAIN wrote[c] : /\ p \in Products /\ wrote[c][p].quantity \in Nat
                                 /\ wrote[c][p].value = allocated[p] + wrote[c][p].quantity
  BY <1>1 DEF IInv, TypeOK, SumsAreCurrent
<1>4. RowsAreLocked' BY <1>2 DEF RowsAreLocked
<1>5. SumsAreCurrent'
  <2> SUFFICES ASSUME NEW d \in Calls, pc'[d] = "reserve", NEW p \in DOMAIN wrote'[d]
               PROVE  wrote'[d][p].value = allocated'[p] + wrote'[d][p].quantity
    BY DEF SumsAreCurrent
  <2>1. d # c /\ wrote'[d] = wrote[d] /\ pc[d] = "reserve" BY <1>2
  <2>2. p \in Products /\ p \notin DOMAIN wrote[c] BY <2>1 DEF RowsAreLocked, IInv, TypeOK
  <2> QED BY <1>1, <2>1, <2>2 DEF SumsAreCurrent
<1>6. ASSUME NEW p \in stocked PROVE allocated'[p] = base[p] + SumOf(since'[p], Orders)
  <2>1. /\ p \in Products /\ allocated[p] = base[p] + SumOf(since[p], Orders)
        /\ since[p] \in [Orders -> Nat] /\ base[p] \in Nat /\ allocated[p] \in Nat
    BY DEF IInv, TypeOK, StockAddsUp
  <2>2. CASE p \notin DOMAIN wrote[c] BY <1>1, <2>1, <2>2
  <2>3. CASE p \in DOMAIN wrote[c]
    <3> DEFINE g == since[p]
               h == since'[p]
               n == wrote[c][p].quantity
    <3>1. n \in Nat /\ allocated'[p] = allocated[p] + n BY <1>1, <1>3, <2>1, <2>3
    <3>2. h = [g EXCEPT ![order[c]] = @ + n]
      <4>1. since'[p] = [since[p] EXCEPT ![order[c]] = @ + wrote[c][p].quantity] BY <1>1, <2>1, <2>3
      <4> QED BY <4>1
    <3>3. g \in [Orders -> Nat] BY <2>1
    <3> HIDE DEF g, h, n
    <3>4. SumOf(g, Orders) \in Nat /\ SumOf([g EXCEPT ![order[c]] = @ + n], Orders) = SumOf(g, Orders) + n
      BY <1>1, <3>1, <3>3, SumOfMore
    <3>5. allocated[p] = base[p] + SumOf(g, Orders) BY <2>1 DEF g
    <3>6. allocated'[p] = base[p] + SumOf(h, Orders) BY <2>1, <3>1, <3>2, <3>4, <3>5
    <3> QED BY <3>6 DEF h
  <2> QED BY <2>2, <2>3
<1> QED BY <1>1, <1>4, <1>5, <1>6 DEF StockAddsUp

(* setStock overwrites: from there on the sum begins anew. *)
LEMMA SyncStock ==
  ASSUME StockIInv, NEW c \in Calls, CommitStock(c), Close(c)
  PROVE  RowsAreLocked' /\ SumsAreCurrent' /\ StockAddsUp'
<1> USE Given DEF StockIInv
<1>1. /\ stocked' = stocked \cup DOMAIN wrote[c]
      /\ allocated' = [p \in Products |->
           IF p \in DOMAIN wrote[c] THEN wrote[c][p].value ELSE allocated[p]]
      /\ base' = [p \in Products |-> IF p \in DOMAIN wrote[c] THEN allocated'[p] ELSE base[p]]
      /\ since' = [p \in Products |->
           IF p \in DOMAIN wrote[c] THEN [o \in Orders |-> 0] ELSE since[p]]
  BY DEF CommitStock
<1>2. /\ DOMAIN wrote'[c] = {} /\ pc'[c] = "idle"
      /\ \A d \in Calls \ {c} : pc'[d] = pc[d] /\ wrote'[d] = wrote[d]
  BY ClosedRows
<1>3. RowsAreLocked' BY <1>2 DEF RowsAreLocked
<1>4. SumsAreCurrent'
  <2> SUFFICES ASSUME NEW d \in Calls, pc'[d] = "reserve", NEW p \in DOMAIN wrote'[d]
               PROVE  wrote'[d][p].value = allocated'[p] + wrote'[d][p].quantity
    BY DEF SumsAreCurrent
  <2>1. d # c /\ wrote'[d] = wrote[d] /\ pc[d] = "reserve" BY <1>2
  <2>2. p \in Products /\ p \notin DOMAIN wrote[c] BY <2>1 DEF RowsAreLocked, IInv, TypeOK
  <2> QED BY <1>1, <2>1, <2>2 DEF SumsAreCurrent
<1>5. ASSUME NEW p \in stocked' PROVE allocated'[p] = base'[p] + SumOf(since'[p], Orders)
  <2>1. p \in Products /\ (p \in DOMAIN wrote[c] => wrote[c][p].value \in Nat) BY <1>1 DEF IInv, TypeOK
  <2>2. CASE p \notin DOMAIN wrote[c] BY <1>1, <2>1, <2>2 DEF StockAddsUp
  <2>3. CASE p \in DOMAIN wrote[c]
    <3> DEFINE h == since'[p]
    <3>1. h = [o \in Orders |-> 0] BY <1>1, <2>1, <2>3
    <3>2. base'[p] = allocated'[p] /\ allocated'[p] \in Nat BY <1>1, <2>1, <2>3
    <3> HIDE DEF h
    <3>3. SumOf(h, Orders) = 0 BY <3>1, SumOfZero
    <3>4. allocated'[p] = base'[p] + SumOf(h, Orders) BY <3>2, <3>3
    <3> QED BY <3>4 DEF h
  <2> QED BY <2>2, <2>3
<1> QED BY <1>3, <1>4, <1>5 DEF StockAddsUp

LEMMA StockNext == ASSUME StockIInv, [Next]_vars PROVE StockIInv'
<1>1. IInv' BY NextIInv DEF StockIInv
<1>2. CASE UNCHANGED vars
  BY <1>1, <1>2 DEF vars, StockIInv, RowsAreLocked, SumsAreCurrent, StockAddsUp
<1>3. CASE Next
  <2> USE DEF StockIInv
  <2> PICK c \in Calls : Start(c) \/ Step(c) \/ DeadlockVictim(c) \/ Fail(c) BY <1>3 DEF Next
  <2>1. CASE Start(c) \/ InsertOrder(c) \/ ApproveOrder(c) \/ RejectOrder(c)
    <3>1. /\ UNCHANGED <<wrote, rows>> /\ pc[c] # "reserve" /\ pc[c] # "restocked"
          /\ \A d \in Calls \ {c} : pc'[d] = pc[d]
      BY <2>1 DEF Start, NextOrderNumber, SupplyNumber, Bring, Decide, SetStock, InsertOrder, ApproveOrder, RejectOrder, Goto,
                  IInv, TypeOK
    <3>2. DOMAIN wrote[c] = {} BY <3>1 DEF IInv, WritesAreLines, WritesLines
    <3> QED BY <1>1, <3>1, <3>2, UncommittedStock
  <2>2. CASE Reserve(c) BY <1>1, <2>2, ReserveStock
  <2>3. CASE Restock(c) BY <1>1, <2>3, RestockStock
  <2>4. CASE NotMatched(c) \/ Refused(c) \/ DeadlockVictim(c) \/ Fail(c)
    <3>1. Close(c) /\ UNCHANGED rows BY <2>4 DEF NotMatched, Refused, DeadlockVictim, Fail, Rollback
    <3> QED BY <1>1, <3>1, ClosedRows, UncommittedStock
  <2>5. CASE Commit(c)
    <3>1. Close(c) BY <2>5 DEF Commit
    <3>2. CASE CommitApproval(c) BY <1>1, <3>1, <3>2, ApprovalStock
    <3>3. CASE CommitStock(c) BY <1>1, <3>1, <3>3, SyncStock
    <3>4. CASE CommitInsert(c) \/ CommitRejection(c)
      <4>1. UNCHANGED <<stocked, allocated, base, since>> BY <3>4 DEF CommitInsert, CommitRejection
      <4>2. /\ DOMAIN wrote'[c] = {} /\ pc'[c] = "idle"
            /\ \A d \in Calls \ {c} : pc'[d] = pc[d] /\ wrote'[d] = wrote[d]
        BY <3>1, ClosedRows
      <4> QED BY <1>1, <4>1, <4>2 DEF RowsAreLocked, SumsAreCurrent, StockAddsUp
    <3> QED BY <2>5, <3>2, <3>3, <3>4 DEF Commit
  <2> QED BY <2>1, <2>2, <2>3, <2>4, <2>5 DEF Step
<1> QED BY <1>2, <1>3

(* packages/db/src/commerce.ts, approveOrder and setStock: what a row of   *)
(* the stock holds is what the last synchronisation wrote and what every   *)
(* approval since has added, however the calls interleave, fail or wait    *)
(* for each other: the row lock makes each sum current when it commits.    *)
THEOREM NoReservationLost == Spec => []AllocationAddsUp
<1>1. Spec => []StockIInv BY StockInit, StockNext, PTL DEF Spec
<1>2. StockIInv => AllocationAddsUp BY AddsUpByTotal DEF StockIInv
<1> QED BY <1>1, <1>2, PTL
----------------------------------------------------------------------------
(* The calls together are the order book: what a commit publishes is one   *)
(* step of it, and nothing else is seen.                                   *)

(* What an open call will publish: an approval has written, or has still   *)
(* to write, every row that it has to, and rows that are there only; a     *)
(* synchronisation writes one row, and the value it was called with.       *)
PlanHolds(c) ==
  /\ pc[c] = "reserve" =>
       /\ DOMAIN wrote[c] \subseteq stocked
       /\ \A i \in 1 .. Len(todo[c]) : todo[c][i] \in stocked /\ LinesOf(order[c], todo[c][i]) # {}
       /\ \A p \in shelf[order[c]] :
            LinesOf(order[c], p) # {} =>
              p \in DOMAIN wrote[c] \/ \E i \in 1 .. Len(todo[c]) : todo[c][i] = p
  /\ pc[c] = "restock" => input[c] \in StockSyncs
  /\ pc[c] = "restocked" =>
       \E p \in Products : DOMAIN wrote[c] = {p} /\ wrote[c][p].value \in StockSyncs

ShelfIsStocked == \A o \in Orders : shelf[o] \subseteq stocked

BookIInv == StockIInv /\ ShelfIsStocked /\ \A c \in Calls : PlanHolds(c)

(* A plan visits every one of its rows. *)
LEMMA PlanVisits ==
  ASSUME NEW P, IsFiniteSet(P), NEW plan \in SetToSeqs(P)
  PROVE  /\ plan \in Seq(P) /\ Len(plan) = Cardinality(P)
         /\ \A i \in 1 .. Len(plan) : plan[i] \in P
         /\ \A p \in P : \E i \in 1 .. Len(plan) : plan[i] = p
<1> DEFINE D == 1 .. Cardinality(P)
<1>1. Cardinality(P) \in Nat BY FS_CardinalityType
<1>2. plan \in [D -> P] /\ \A i, j \in D : i # j => plan[i] # plan[j] BY DEF SetToSeqs
<1>3. plan \in Injection(D, P) BY <1>2 DEF Injection, IsInjective
<1>4. Cardinality(D) = Cardinality(P)
  <2>1. 0 \in Int /\ 1 \in Int /\ Cardinality(P) \in Int BY <1>1
  <2> QED BY <1>1, <2>1, FS_Interval
<1>5. plan \in Surjection(D, P) BY <1>3, <1>4, FS_Injection
<1>6. \A p \in P : \E i \in D : plan[i] = p BY <1>5 DEF Surjection
<1>7. plan \in Seq(P) /\ Len(plan) = Cardinality(P) BY <1>1, <1>2
<1> QED BY <1>2, <1>6, <1>7

(* What a call will publish stays while it and its order stay. *)
LEMMA SamePlan ==
  ASSUME NEW d, PlanHolds(d), pc'[d] = pc[d], order'[d] = order[d], todo'[d] = todo[d],
         input'[d] = input[d], wrote'[d] = wrote[d], stocked \subseteq stocked',
         pc[d] = "reserve" => shelf'[order[d]] = shelf[order[d]]
  PROVE  PlanHolds(d)'
BY DEF PlanHolds, LinesOf

(* A call that starts, writes or ends without publishing anything. *)
LEMMA UnpublishedPlans ==
  ASSUME BookIInv, NEW c \in Calls, UNCHANGED rows, PlanHolds(c)',
         \A d \in Calls : d # c =>
           /\ pc'[d] = pc[d] /\ order'[d] = order[d] /\ input'[d] = input[d]
           /\ todo'[d] = todo[d] /\ wrote'[d] = wrote[d]
  PROVE  ShelfIsStocked' /\ \A d \in Calls : PlanHolds(d)'
<1>1. ShelfIsStocked' BY DEF BookIInv, ShelfIsStocked, rows
<1>2. ASSUME NEW d \in Calls, d # c PROVE PlanHolds(d)'
  <2>1. PlanHolds(d) BY DEF BookIInv
  <2>2. stocked' = stocked /\ shelf' = shelf BY DEF rows
  <2> QED BY <1>2, <2>1, <2>2, SamePlan
<1> QED BY <1>1, <1>2

LEMMA StartPlans ==
  ASSUME BookIInv, NEW c \in Calls, Start(c)
  PROVE  ShelfIsStocked' /\ \A d \in Calls : PlanHolds(d)'
<1> USE DEF BookIInv, StockIInv, IInv, TypeOK, Goto
<1>1. /\ UNCHANGED <<wrote, rows>> /\ pc'[c] \in {"insert", "approve", "reject", "restock"}
      /\ pc'[c] = "restock" => input'[c] \in StockSyncs
  BY DEF Start, NextOrderNumber, SupplyNumber, Bring, Decide, SetStock
<1>2. \A d \in Calls : d # c => /\ pc'[d] = pc[d] /\ order'[d] = order[d] /\ input'[d] = input[d]
                                /\ todo'[d] = todo[d] /\ wrote'[d] = wrote[d]
  BY DEF Start, NextOrderNumber, SupplyNumber, Bring, Decide, SetStock
<1>3. PlanHolds(c)' BY <1>1 DEF PlanHolds
<1> QED BY <1>1, <1>2, <1>3, UnpublishedPlans

(* The statements of a call, one by one. *)
LEMMA StatementPlans ==
  ASSUME BookIInv, NEW c \in Calls,
         InsertOrder(c) \/ ApproveOrder(c) \/ Reserve(c) \/ RejectOrder(c) \/ Restock(c)
  PROVE  ShelfIsStocked' /\ \A d \in Calls : PlanHolds(d)'
<1> USE Given
<1>1. UNCHANGED <<order, input, rows>>
  BY DEF InsertOrder, ApproveOrder, Reserve, RejectOrder, Restock
<1>2. \A d \in Calls : d # c => /\ pc'[d] = pc[d] /\ order'[d] = order[d] /\ input'[d] = input[d]
                                /\ todo'[d] = todo[d] /\ wrote'[d] = wrote[d]
  BY <1>1 DEF InsertOrder, ApproveOrder, Reserve, RejectOrder, Restock, Goto, BookIInv, StockIInv, IInv, TypeOK
<1>3. IInv /\ TypeOK /\ WroteIsFunction /\ PlanHolds(c) BY DEF BookIInv, StockIInv, IInv
<1>4. CASE InsertOrder(c) \/ RejectOrder(c)
  <2>1. pc'[c] \in {"inserted", "rejected"} BY <1>3, <1>4 DEF InsertOrder, RejectOrder, Goto, TypeOK
  <2>2. PlanHolds(c)' BY <2>1 DEF PlanHolds
  <2> QED BY <1>1, <1>2, <2>2, UnpublishedPlans
<1>5. CASE ApproveOrder(c)
  <2> DEFINE P == {p \in stocked : LinesOf(order[c], p) # {}}
  <2>1. PICK plan \in SetToSeqs(P) : todo' = [todo EXCEPT ![c] = plan] BY <1>5 DEF ApproveOrder
  <2>2. /\ pc[c] = "approve" /\ pc'[c] = "reserve" /\ wrote' = wrote /\ todo'[c] = plan
        /\ order[c] \in Orders /\ order'[c] = order[c]
    BY <1>1, <1>3, <1>5, <2>1 DEF ApproveOrder, Goto, TypeOK
  <2>3. IsFiniteSet(P) BY <1>3, FS_Subset DEF TypeOK
  <2>4. /\ P \subseteq stocked /\ \A p \in P : LinesOf(order[c], p) # {}
        /\ \A p \in shelf[order[c]] : LinesOf(order[c], p) # {} => p \in P
    BY <2>2 DEF BookIInv, ShelfIsStocked
  <2> HIDE DEF P
  <2>5. /\ \A i \in 1 .. Len(plan) : plan[i] \in P
        /\ \A p \in P : \E i \in 1 .. Len(plan) : plan[i] = p
    BY <2>3, PlanVisits
  <2>6. DOMAIN wrote'[c] = {} BY <1>3, <2>2 DEF IInv, WritesAreLines, WritesLines
  <2>7. \A p : LinesOf(order[c], p)' = LinesOf(order[c], p) BY <2>2 DEF LinesOf
  <2>8. stocked' = stocked /\ shelf' = shelf BY <1>1 DEF rows
  <2>9. PlanHolds(c)' BY <2>2, <2>4, <2>5, <2>6, <2>7, <2>8 DEF PlanHolds
  <2> QED BY <1>1, <1>2, <2>9, UnpublishedPlans
<1>6. CASE Reserve(c)
  <2>1. /\ pc[c] = "reserve" /\ pc' = pc /\ todo[c] \in Seq(Products) /\ todo[c] # <<>>
        /\ todo'[c] = Tail(todo[c]) /\ order' = order
    BY <1>3, <1>6 DEF Reserve, TypeOK
  <2>2. DOMAIN wrote'[c] = DOMAIN wrote[c] \cup {Head(todo[c])}
    <3>1. PICK l : wrote' = [wrote EXCEPT ![c] =
            Written(@, Head(todo[c]), [value |-> allocated[Head(todo[c])] + Quantity[l],
                                       quantity |-> Quantity[l]])]
      BY <1>6 DEF Reserve
    <3>2. wrote'[c] = Written(wrote[c], Head(todo[c]),
            [value |-> allocated[Head(todo[c])] + Quantity[l], quantity |-> Quantity[l]])
      BY <1>3, <3>1 DEF TypeOK, WroteIsFunction
    <3> QED BY <3>2 DEF Written
  <2> DEFINE q == todo[c]
             r == todo'[c]
  <2>3. /\ q \in Seq(Products) /\ q # <<>> /\ r = Tail(q) BY <2>1
  <2> HIDE DEF q, r
  <2>4. /\ Len(q) \in Nat \ {0} /\ Len(r) = Len(q) - 1 /\ Head(q) = q[1]
        /\ \A i \in 1 .. Len(r) : r[i] = q[i + 1]
    BY <2>3
  <2>5. ASSUME NEW i \in 1 .. Len(q), i # 1 PROVE i - 1 \in 1 .. Len(r) /\ r[i - 1] = q[i]
    <3>1. i - 1 \in 1 .. Len(r) /\ (i - 1) + 1 = i BY <2>4, <2>5
    <3> QED BY <2>4, <3>1
  <2>6. \A p : (\E i \in 1 .. Len(q) : q[i] = p) => p = Head(q) \/ \E i \in 1 .. Len(r) : r[i] = p
    BY <2>4, <2>5
  <2>7. \A i \in 1 .. Len(r) : i + 1 \in 1 .. Len(q) /\ r[i] = q[i + 1] BY <2>4
  <2>8. /\ DOMAIN wrote[c] \subseteq stocked
        /\ \A i \in 1 .. Len(q) : q[i] \in stocked /\ LinesOf(order[c], q[i]) # {}
        /\ \A p \in shelf[order[c]] : LinesOf(order[c], p) # {} =>
              p \in DOMAIN wrote[c] \/ \E i \in 1 .. Len(q) : q[i] = p
    BY <1>3, <2>1 DEF PlanHolds, q
  <2>9. /\ DOMAIN wrote'[c] \subseteq stocked
        /\ \A i \in 1 .. Len(r) : r[i] \in stocked /\ LinesOf(order[c], r[i]) # {}
    <3>1. 1 \in 1 .. Len(q) BY <2>4
    <3>2. DOMAIN wrote'[c] \subseteq stocked BY <2>2, <2>4, <2>8, <3>1 DEF q
    <3>3. \A i \in 1 .. Len(r) : r[i] \in stocked /\ LinesOf(order[c], r[i]) # {}
      BY <2>7, <2>8
    <3> QED BY <3>2, <3>3
  <2>10. \A p \in shelf[order[c]] : LinesOf(order[c], p) # {} =>
            p \in DOMAIN wrote'[c] \/ \E i \in 1 .. Len(r) : r[i] = p
    BY <2>2, <2>6, <2>8 DEF q
  <2>11. stocked' = stocked /\ shelf' = shelf BY <1>1 DEF rows
  <2>12. PlanHolds(c)' BY <2>1, <2>9, <2>10, <2>11 DEF PlanHolds, LinesOf, r
  <2> QED BY <1>1, <1>2, <2>12, UnpublishedPlans
<1>7. CASE Restock(c)
  <2>1. /\ pc[c] = "restock" /\ pc'[c] = "restocked" /\ input[c] \in StockSyncs
        /\ todo[c] \in Seq(Products) /\ todo[c] # <<>> /\ DOMAIN wrote[c] = {}
    BY <1>3, <1>7 DEF Restock, Goto, TypeOK, IInv, WritesAreLines, WritesLines, PlanHolds
  <2>2. Head(todo[c]) \in Products BY <2>1
  <2>3. wrote'[c] = Written(wrote[c], Head(todo[c]), [value |-> input[c], quantity |-> 0])
    BY <1>3, <1>7 DEF Restock, TypeOK, WroteIsFunction
  <2>4. DOMAIN wrote'[c] = {Head(todo[c])} /\ wrote'[c][Head(todo[c])].value = input[c]
    BY <2>1, <2>3 DEF Written
  <2>5. PlanHolds(c)' BY <2>1, <2>2, <2>4 DEF PlanHolds
  <2> QED BY <1>1, <1>2, <2>5, UnpublishedPlans
<1> QED BY <1>4, <1>5, <1>6, <1>7

(* A commit: the order of another approval is not the one it places. *)
LEMMA CommitPlans ==
  ASSUME BookIInv, NEW c \in Calls, Commit(c)
  PROVE  ShelfIsStocked' /\ \A d \in Calls : PlanHolds(d)'
<1>1. IInv /\ Close(c) BY DEF BookIInv, StockIInv, Commit
<1>2. /\ pc'[c] = "idle"
      /\ \A d \in Calls : d # c => /\ pc'[d] = pc[d] /\ order'[d] = order[d] /\ input'[d] = input[d]
                                   /\ todo'[d] = todo[d] /\ wrote'[d] = wrote[d]
  BY <1>1, Closed
<1>3. /\ stocked \subseteq stocked'
      /\ \/ shelf' = shelf
         \/ status[order[c]] = "none" /\ shelf' = [shelf EXCEPT ![order[c]] = stocked]
  BY <1>1 DEF Commit, CommitInsert, CommitApproval, CommitRejection, CommitStock, IInv, PlacingIsNew, Placing
<1>4. ShelfIsStocked'
  <2>1. shelf \in [Orders -> SUBSET Products] BY <1>1 DEF IInv, TypeOK
  <2> QED BY <1>3, <2>1 DEF BookIInv, ShelfIsStocked
<1>5. ASSUME NEW d \in Calls, d # c PROVE PlanHolds(d)'
  <2>1. PlanHolds(d) BY DEF BookIInv
  <2>2. pc[d] = "reserve" => shelf'[order[d]] = shelf[order[d]]
    <3>1. pc[d] = "reserve" => status[order[d]] = "pending" /\ order[d] \in Orders
      BY <1>1 DEF IInv, DecidingIsLocked, TypeOK
    <3>2. shelf \in [Orders -> SUBSET Products] BY <1>1 DEF IInv, TypeOK
    <3> QED BY <1>3, <3>1, <3>2
  <2> QED BY <1>2, <1>3, <1>5, <2>1, <2>2, SamePlan
<1>6. PlanHolds(c)' BY <1>2 DEF PlanHolds
<1> QED BY <1>4, <1>5, <1>6

LEMMA BookInit == ASSUME Init PROVE BookIInv
<1>1. StockIInv BY StockInit
<1>2. ShelfIsStocked BY DEF Init, ShelfIsStocked
<1>3. \A c \in Calls : PlanHolds(c) BY DEF Init, PlanHolds
<1> QED BY <1>1, <1>2, <1>3 DEF BookIInv

LEMMA BookNext == ASSUME BookIInv, [Next]_vars PROVE BookIInv'
<1>1. StockIInv' BY StockNext DEF BookIInv
<1>2. CASE UNCHANGED vars
  <2>1. ShelfIsStocked' BY <1>2 DEF vars, BookIInv, ShelfIsStocked
  <2>2. \A d \in Calls : PlanHolds(d)'
    <3>1. \A d \in Calls : PlanHolds(d) BY DEF BookIInv
    <3> QED BY <1>2, <3>1, SamePlan DEF vars
  <2> QED BY <1>1, <2>1, <2>2 DEF BookIInv
<1>3. CASE Next
  <2> PICK c \in Calls : Start(c) \/ Step(c) \/ DeadlockVictim(c) \/ Fail(c) BY <1>3 DEF Next
  <2>1. CASE Start(c) BY <1>1, <2>1, StartPlans DEF BookIInv
  <2>2. CASE InsertOrder(c) \/ ApproveOrder(c) \/ Reserve(c) \/ RejectOrder(c) \/ Restock(c)
    BY <1>1, <2>2, StatementPlans DEF BookIInv
  <2>3. CASE Commit(c) BY <1>1, <2>3, CommitPlans DEF BookIInv
  <2>4. CASE NotMatched(c) \/ Refused(c) \/ DeadlockVictim(c) \/ Fail(c)
    <3>1. IInv /\ Close(c) /\ UNCHANGED rows
      BY <2>4 DEF NotMatched, Refused, DeadlockVictim, Fail, Rollback, BookIInv, StockIInv
    <3>2. /\ pc'[c] = "idle"
          /\ \A d \in Calls : d # c => /\ pc'[d] = pc[d] /\ order'[d] = order[d] /\ input'[d] = input[d]
                                       /\ todo'[d] = todo[d] /\ wrote'[d] = wrote[d]
      BY <3>1, Closed
    <3>3. PlanHolds(c)' BY <3>2 DEF PlanHolds
    <3> QED BY <1>1, <3>1, <3>2, <3>3, UnpublishedPlans DEF BookIInv
  <2> QED BY <2>1, <2>2, <2>3, <2>4 DEF Step
<1> QED BY <1>2, <1>3

bookVars == <<number, status, shelf, stocked, allocated>>

(* The number inserted is still new, and still follows, when it is committed. *)
LEMMA PlaceStep ==
  ASSUME BookIInv, NEW c \in Calls, CommitInsert(c) PROVE Book!Place(order[c])
<1> DEFINE o == order[c]
           e == entry[c]
<1>1. /\ pc[c] = "inserted" /\ o \in Orders /\ status[o] = "none"
      /\ EntryHolds(e) /\ ~NumberTaken(c)
  BY DEF CommitInsert, BookIInv, StockIInv, IInv, TypeOK, PlacingIsNew, Placing
<1>2. /\ number' = [number EXCEPT ![o] = e.number] /\ number \in [Orders -> Numbers]
      /\ status' = [status EXCEPT ![o] = e.status] /\ status \in [Orders -> Statuses \cup {"none"}]
      /\ shelf' = [shelf EXCEPT ![o] = stocked] /\ UNCHANGED <<stocked, allocated>>
  BY DEF CommitInsert, BookIInv, StockIInv, IInv, TypeOK
<1>3. number'[o] = e.number /\ status'[o] = e.status BY <1>1, <1>2
<1>4. Book!Taken = {number[x] : x \in Placed} BY DEF Book!Taken, Placed
<1>5. e.number \notin Book!Taken BY <1>1, <1>4 DEF NumberTaken, Placed
<1>6. ASSUME e.drawn PROVE Book!Drawn(e.number) /\ e.status = "pending"
  <2>1. PICK n \in e.number.digits : e.number = [series |-> Own, digits |-> {n}] /\ Follows(n)
    BY <1>1, <1>6 DEF EntryHolds
  <2>2. n = First \/ \E x \in Book!Taken : \E m \in x.digits : n = m + 1 BY <1>4, <2>1 DEF Follows
  <2> QED BY <1>1, <1>6, <2>1, <2>2 DEF Book!Drawn, EntryHolds
<1>7. ASSUME ~e.drawn PROVE [number |-> e.number, status |-> e.status] \in Supplied
  BY <1>1, <1>7 DEF EntryHolds
<1> HIDE DEF o, e
<1>8. \/ Book!Drawn(number'[o]) /\ status'[o] = "pending"
      \/ [number |-> number'[o], status |-> status'[o]] \in Supplied
  BY <1>3, <1>6, <1>7
<1>9. number'[o] \notin Book!Taken BY <1>3, <1>5
<1>10. number' = [number EXCEPT ![o] = number'[o]] /\ status' = [status EXCEPT ![o] = status'[o]]
  BY <1>2, <1>3
<1>11. Book!Place(o) BY <1>1, <1>2, <1>8, <1>9, <1>10 DEF Book!Place
<1> QED BY <1>11 DEF o

(* What an approval publishes, row by row. *)
LEMMA ApproveStep ==
  ASSUME BookIInv, NEW c \in Calls, CommitApproval(c) PROVE Book!Approve(order[c])
<1> DEFINE o == order[c]
<1>1. IInv /\ PlanHolds(c) /\ SumsAreCurrent BY DEF BookIInv, StockIInv
<1>2. /\ pc[c] = "reserve" /\ todo[c] = <<>> /\ status[o] = "pending"
      /\ status' = [status EXCEPT ![o] = "approved"]
      /\ allocated' = [p \in Products |->
           IF p \in DOMAIN wrote[c] THEN wrote[c][p].value ELSE allocated[p]]
      /\ UNCHANGED <<number, shelf, stocked>>
  BY <1>1 DEF CommitApproval, IInv, DecidingIsLocked
<1>3. \A i \in 1 .. Len(todo[c]) : FALSE BY <1>2
<1>4. /\ DOMAIN wrote[c] \subseteq stocked
      /\ \A p \in shelf[o] : LinesOf(o, p) # {} => p \in DOMAIN wrote[c]
  BY <1>1, <1>2, <1>3 DEF PlanHolds
<1>5. ASSUME NEW p \in Products PROVE Book!Takes(o, p) \/ Book!Leaves(o, p)
  <2>1. Book!LinesOf(o, p) = LinesOf(o, p) BY DEF Book!LinesOf, LinesOf
  <2>2. CASE p \in DOMAIN wrote[c]
    <3>1. PICK l \in LinesOf(o, p) : wrote[c][p].quantity = Quantity[l]
      BY <1>1, <1>2, <2>2 DEF IInv, WritesAreLines, WritesLines
    <3>2. wrote[c][p].value = allocated[p] + wrote[c][p].quantity BY <1>1, <1>2, <2>2 DEF SumsAreCurrent
    <3>3. allocated'[p] = allocated[p] + Quantity[l] BY <1>2, <2>2, <3>1, <3>2
    <3> QED BY <1>4, <2>1, <2>2, <3>3 DEF Book!Takes
  <2>3. CASE p \notin DOMAIN wrote[c]
    <3>1. allocated'[p] = allocated[p] BY <1>2, <2>3
    <3> QED BY <1>4, <2>1, <2>3, <3>1 DEF Book!Leaves
  <2> QED BY <2>2, <2>3
<1> QED BY <1>2, <1>5 DEF Book!Approve

LEMMA SynchroniseStep ==
  ASSUME BookIInv, NEW c \in Calls, CommitStock(c)
  PROVE  \E p \in Products, n \in StockSyncs : Book!Synchronise(p, n)
<1>1. allocated \in [Products -> Nat] BY DEF BookIInv, StockIInv, IInv, TypeOK
<1>2. /\ stocked' = stocked \cup DOMAIN wrote[c] /\ UNCHANGED <<number, status, drawn, shelf>>
      /\ allocated' = [p \in Products |->
           IF p \in DOMAIN wrote[c] THEN wrote[c][p].value ELSE allocated[p]]
  BY DEF CommitStock
<1>3. PICK p \in Products : DOMAIN wrote[c] = {p} /\ wrote[c][p].value \in StockSyncs
  BY DEF CommitStock, BookIInv, PlanHolds
<1>4. allocated' = [allocated EXCEPT ![p] = wrote[c][p].value] BY <1>1, <1>2, <1>3
<1>5. Book!Synchronise(p, wrote[c][p].value) BY <1>2, <1>3, <1>4 DEF Book!Synchronise
<1> QED BY <1>3, <1>5

LEMMA OrderBookStep == BookIInv /\ [Next]_vars => [Book!Next]_bookVars
<1> SUFFICES ASSUME BookIInv, [Next]_vars, ~UNCHANGED bookVars PROVE Book!Next
  OBVIOUS
<1>1. PICK c \in Calls : Commit(c)
  BY DEF bookVars, Next, vars, rows, Start, NextOrderNumber, SupplyNumber, Bring, Decide, SetStock, Step, InsertOrder,
         ApproveOrder, Reserve, RejectOrder, NotMatched, Restock, Refused, Rollback, DeadlockVictim, Fail
<1>2. IInv /\ order[c] \in Orders BY DEF BookIInv, StockIInv, IInv, TypeOK
<1>3. CASE CommitInsert(c) BY <1>2, <1>3, PlaceStep DEF Book!Next
<1>4. CASE CommitApproval(c) BY <1>2, <1>4, ApproveStep DEF Book!Next
<1>5. CASE CommitRejection(c)
  <2>1. status[order[c]] \in {"pending", "approved"} BY <1>2, <1>5 DEF CommitRejection, IInv, DecidingIsLocked
  <2>2. Book!Reject(order[c]) BY <1>5, <2>1 DEF CommitRejection, Book!Reject
  <2> QED BY <1>2, <2>2 DEF Book!Next
<1>6. CASE CommitStock(c) BY <1>6, SynchroniseStep DEF Book!Next
<1> QED BY <1>1, <1>3, <1>4, <1>5, <1>6 DEF Commit

(* packages/db/src/commerce.ts, createOrder, approveOrder, rejectOrder and *)
(* setStock: however the calls interleave, wait, fail or are aborted, what *)
(* is committed changes by steps of the order book only.                   *)
THEOREM Implementation == Spec => ImplementsOrderBook
<1>1. Init => Book!Init BY DEF Init, Book!Init, NoNumber
<1>2. Spec => []BookIInv BY BookInit, BookNext, PTL DEF Spec
<1> QED BY <1>1, <1>2, OrderBookStep, PTL DEF Spec, ImplementsOrderBook, Book!Spec, bookVars

----------------------------------------------------------------------------
(* Circles of calls that wait for each other, which the database breaks by *)
(* aborting one of them.                                                   *)
Circle(S) ==
  S # {} /\ \A c \in S : (\E d \in S : WaitsFor(c, d)) /\ (\E d \in S : WaitsFor(d, c))

(* The order of such a call has lines of two products that are in stock.   *)
DeadlocksAreOfApprovals ==
  \A S \in SUBSET Open : Circle(S) =>
    \A c \in S : /\ pc[c] = "reserve"
                 /\ \E p, q \in stocked : p # q /\ LinesOf(order[c], p) # {} /\ LinesOf(order[c], q) # {}

(* packages/db/src/commerce.ts: orders that are placed, rejected or turned *)
(* down, a synchronisation of the stock and an approval of one product are *)
(* never part of a deadlock: a call that waits and is waited for has       *)
(* written one row of the stock and waits for another.                     *)
THEOREM OnlyApprovalsDeadlock == Spec => []DeadlocksAreOfApprovals
<1>1. ASSUME BookIInv, NEW S \in SUBSET Open, Circle(S), NEW c \in S
      PROVE  /\ pc[c] = "reserve"
             /\ \E p, q \in stocked : p # q /\ LinesOf(order[c], p) # {} /\ LinesOf(order[c], q) # {}
  <2> USE <1>1 DEF BookIInv, StockIInv, IInv
  <2>1. PICK d \in S, e \in S : WaitsFor(c, d) /\ WaitsFor(e, c) BY DEF Circle
  <2>2. c \in Calls /\ d \in Calls /\ e \in Calls BY DEF Open
  <2>3. pc[c] = "reserve" /\ todo[c] # <<>> /\ Head(todo[c]) \in DOMAIN wrote[d]
    <3>1. pc[c] \in {"approve", "reject", "reserve", "restock", "insert"}
      BY <2>1 DEF WaitsFor, Matches
    <3>2. HoldsOrder(c) \/ DOMAIN wrote[c] # {} \/ pc[c] = "inserted" BY <2>1 DEF WaitsFor
    <3>3. pc[c] = "reserve" BY <2>2, <3>1, <3>2 DEF HoldsOrder, WritesAreLines, WritesLines
    <3> QED BY <2>1, <3>3 DEF WaitsFor, Matches
  <2>4. DOMAIN wrote[c] # {}
    <3>1. pc[e] \in {"approve", "reject", "reserve", "restock", "insert"} BY <2>1 DEF WaitsFor, Matches
    <3>2. CASE Matches(e) /\ HoldsOrder(c) /\ order[e] = order[c]
      (* An order that waits to be decided holds nothing: nobody waits for it. *)
      <4>1. pc[e] \in {"approve", "reject"} BY <3>2 DEF Matches
      <4>2. PICK f \in S : WaitsFor(f, e) BY DEF Circle
      <4>3. DOMAIN wrote[e] # {} \/ HoldsOrder(e) \/ pc[e] = "inserted" BY <4>2 DEF WaitsFor
      <4> QED BY <2>2, <4>1, <4>3 DEF HoldsOrder, WritesAreLines, WritesLines
    <3> QED BY <2>1, <2>3, <3>2 DEF WaitsFor
  <2>5. PICK p : p \in DOMAIN wrote[c] BY <2>4
  <2>6. p # Head(todo[c]) BY <2>1, <2>2, <2>3, <2>5 DEF RowsAreLocked, WaitsFor
  <2>7. p \in stocked /\ LinesOf(order[c], p) # {}
    BY <2>2, <2>3, <2>5 DEF PlanHolds, WritesAreLines, WritesLines
  <2>8. 1 \in 1 .. Len(todo[c]) /\ Head(todo[c]) = todo[c][1]
    <3>1. todo[c] \in Seq(Products) BY <2>2 DEF TypeOK
    <3> QED BY <2>3, <3>1
  <2>9. Head(todo[c]) \in stocked /\ LinesOf(order[c], Head(todo[c])) # {}
    BY <2>2, <2>3, <2>8 DEF PlanHolds
  <2> QED BY <2>3, <2>6, <2>7, <2>9
<1>2. BookIInv => DeadlocksAreOfApprovals BY <1>1 DEF DeadlocksAreOfApprovals
<1>3. Spec => []BookIInv BY BookInit, BookNext, PTL DEF Spec
<1> QED BY <1>2, <1>3, PTL

(* What an approved order holds of a product of which it has one line. *)
SingleLinesAreReserved ==
  \A o \in Orders, p \in stocked :
    status[o] = "approved" /\ since[p][o] > 0 /\ (\A l, k \in LinesOf(o, p) : l = k) =>
      since[p][o] = MapThenSumSet(LAMBDA l : Quantity[l], LinesOf(o, p))

(* The comment of approveOrder holds as far as the statement lets it: what *)
(* ApprovalReservesEveryLine says of every order and product is true of    *)
(* those with at most one line; two lines of a product are what breaks it. *)
THEOREM OneLineIsReserved == Spec => []SingleLinesAreReserved
<1>1. ASSUME NEW o \in Orders, NEW p \in Products, NEW l \in LinesOf(o, p), LinesOf(o, p) = {l}
      PROVE  MapThenSumSet(LAMBDA x : Quantity[x], LinesOf(o, p)) = Quantity[l]
  <2>1. Quantity[l] \in Int BY OrdersAssumption DEF OrdersAssumption, LinesOf
  <2>2. IsFiniteSet({l}) BY FS_Singleton
  <2>3. SumOf(Quantity, {l}) = Quantity[l] + SumOf(Quantity, {l} \ {l}) BY <2>1, <2>2, SumOfAny
  <2>4. {l} \ {l} = {} /\ SumOf(Quantity, {}) = 0 BY SumOfEmpty
  <2>5. SumOf(Quantity, {l}) = Quantity[l] BY <2>1, <2>3, <2>4
  <2> QED BY <1>1, <2>5 DEF SumOf
<1>2. TypeOK /\ ReservedOnce => SingleLinesAreReserved
  <2> SUFFICES ASSUME TypeOK, ReservedOnce, NEW o \in Orders, NEW p \in stocked,
                      status[o] = "approved", since[p][o] > 0, \A l, k \in LinesOf(o, p) : l = k
               PROVE  since[p][o] = MapThenSumSet(LAMBDA x : Quantity[x], LinesOf(o, p))
    BY DEF SingleLinesAreReserved
  <2>1. p \in Products BY DEF TypeOK
  <2>2. PICK l \in LinesOf(o, p) : since[p][o] = Quantity[l] BY <2>1 DEF ReservedOnce
  <2>3. LinesOf(o, p) = {l} BY <2>2
  <2> QED BY <1>1, <2>1, <2>2, <2>3
<1> QED BY <1>2, TypeCorrect, OneReservation, PTL
=============================================================================
