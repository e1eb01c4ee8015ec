------------------------------ MODULE MCLeads ------------------------------
(* Two leads of which three customers may be made, by two connections.     *)
EXTENDS Leads, TLC

CONSTANTS l1, l2, x1, x2, x3, c1, c2

(* Leads, customers and connections are interchangeable, in the invariants *)
(* and the action property too.                                            *)
Symmetry == Permutations(Leads) \cup Permutations(Customers) \cup Permutations(Calls)
=============================================================================
