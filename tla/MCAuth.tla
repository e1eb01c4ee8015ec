------------------------------- MODULE MCAuth -------------------------------
(* Two users with the same address, one of them owner of a demo tenant;    *)
(* three links, and two connections that request, click and race.          *)
EXTENDS Auth

CONSTANTS u1, u2, c1, c2

MCAddress == [u \in {u1, u2} |-> "address"]
=============================================================================
