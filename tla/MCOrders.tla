------------------------------ MODULE MCOrders ------------------------------
(* Two orders of the same two products: one with a line of each, one with  *)
(* two lines of the first product, one of the second and a free-text line. *)
EXTENDS Orders

CONSTANTS o1, o2, p1, p2, c1, c2, l1, l2, l3, l4, l5, l6

MCLineOrder == [l \in {l1, l2, l3, l4, l5, l6} |-> IF l \in {l1, l2} THEN o1 ELSE o2]
MCLineProduct ==
  [l \in {l1, l2, l3, l4, l5, l6} |->
     IF l \in {l1, l3, l4} THEN p1 ELSE IF l = l6 THEN "null" ELSE p2]
MCQuantity == [l \in {l1, l2, l3, l4, l5, l6} |-> IF l = l4 THEN 2 ELSE 1]

(* A shipped order of the own series, with the number that is drawn first, *)
(* and an approved one of another series whose digits are further on.      *)
MCSupplied ==
  {[number |-> [series |-> "own", digits |-> {4200}], status |-> "shipped"],
   [number |-> [series |-> "other", digits |-> {5100}], status |-> "approved"]}
=============================================================================
