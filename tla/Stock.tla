-------------------------------- MODULE Stock --------------------------------
(***************************************************************************)
(* What may be promised of a product (packages/core/src/commerce/          *)
(* availability.ts), as the pages of the stock, of the catalogue and of    *)
(* orders show it.  A level is a row of inventory_levels; how approvals    *)
(* change one is Orders.                                                   *)
(***************************************************************************)
EXTENDS Integers, FiniteSets, FiniteSetsExt

AvailableToPromise(level) == level.onHand - level.allocated

StockStatus(level) ==
  LET available == AvailableToPromise(level)
      Within(part) == level.reorder > 0 /\ 2 * available <= part * level.reorder
  IN  IF available <= 0 THEN "out"
      ELSE IF Within(2) THEN "critical" ELSE IF Within(3) THEN "low" ELSE "ok"

(* The page of the stock: products by status, how many have to be ordered, *)
(* how much is taken by approved orders, and how much is missing.          *)
InventoryPage(levels) ==
  LET With(status) == {p \in DOMAIN levels : StockStatus(levels[p]) = status}
      risky == DOMAIN levels \ With("ok")
  IN  [out |-> With("out"), critical |-> With("critical"), low |-> With("low"), risky |-> Cardinality(risky),
       allocated |-> MapThenSumSet(LAMBDA p : levels[p].allocated, DOMAIN levels),
       missing |-> MapThenSumSet(LAMBDA p : Max({0, levels[p].reorder - AvailableToPromise(levels[p])}), risky)]

(* The page of the catalogue: what cannot be promised to a customer. *)
CatalogPage(levels) == {p \in DOMAIN levels : AvailableToPromise(levels[p]) <= 0}

(* The list of orders: lines of an order that ask for more than there is.  *)
(* A product without a level has nothing on hand.                          *)
ShortLines(quantities, levels) ==
  Cardinality({p \in DOMAIN quantities :
    quantities[p] > (IF p \in DOMAIN levels THEN AvailableToPromise(levels[p]) ELSE 0)})
=============================================================================
