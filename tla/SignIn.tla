------------------------------- MODULE SignIn -------------------------------
(***************************************************************************)
(* What the staff login promises, stated without calls and their locks     *)
(* (packages/db/migrations/0004_auth.sql, 0006_demo_login.sql): a link is  *)
(* issued to the one active user of an address and may cancel others of    *)
(* that user, and of nobody else; it is exchanged for a session in one     *)
(* step, once, by a click made while it was valid; a session begins in no  *)
(* other way but for the demo owners, and ends by being revoked or by      *)
(* running out.  A link that was used, cancelled or purged stays so.  The  *)
(* module says "may cancel", not "cancels": requests that run beside each  *)
(* other overlook each other's links (see OneOpenLink in Auth).            *)
(***************************************************************************)
EXTENDS Naturals

CONSTANTS Users, Address, DemoOwners, Links, MaxDemo, LinkTTL, SessionTTL, DemoTTL, Grace

VARIABLES clock, active, link, owner, expires, sessions

Init ==
  /\ clock = 0
  /\ active \in SUBSET Users
  /\ link = [t \in Links |-> "none"]
  /\ owner \in [Links -> Users]
  /\ expires = [t \in Links |-> 0]
  /\ sessions = {}

(* What was asked for or clicked at some time is done now. *)
Issue(t, u, asked) ==
  /\ link[t] = "none"
  /\ u \in active /\ \A v \in active : Address[v] = Address[u] => v = u
  /\ \E others \in SUBSET {x \in Links : link[x] = "open" /\ owner[x] = u} :
       link' = [x \in Links |-> IF x = t THEN "open" ELSE IF x \in others THEN "cancelled" ELSE link[x]]
  /\ owner' = [owner EXCEPT ![t] = u]
  /\ expires' = [expires EXCEPT ![t] = asked + LinkTTL]
  /\ UNCHANGED <<clock, active, sessions>>

Exchange(t, clicked) ==
  /\ link[t] = "open" /\ clicked < expires[t]
  /\ link' = [link EXCEPT ![t] = "used"]
  /\ sessions' = sessions \cup
       {[link |-> t, user |-> owner[t], nth |-> 1, expires |-> clicked + SessionTTL]}
  /\ UNCHANGED <<clock, active, owner, expires>>

Demonstrate(u, n) ==
  /\ u \in DemoOwners \cap active
  /\ sessions' = sessions \cup {[demo |-> n, user |-> u, expires |-> clock + DemoTTL]}
  /\ UNCHANGED <<clock, active, link, owner, expires>>

Revoke(s) ==
  /\ sessions' = sessions \ {s}
  /\ UNCHANGED <<clock, active, link, owner, expires>>

Purge ==
  /\ link' = [t \in Links |-> IF link[t] # "none" /\ expires[t] + Grace < clock THEN "purged" ELSE link[t]]
  /\ sessions' = {s \in sessions : s.expires >= clock}
  /\ UNCHANGED <<clock, active, owner, expires>>

TimePasses ==
  /\ clock' = clock + 1
  /\ UNCHANGED <<active, link, owner, expires, sessions>>

Next ==
  \/ \E t \in Links, at \in 0 .. clock : Exchange(t, at) \/ \E u \in Users : Issue(t, u, at)
  \/ \E u \in Users, n \in 1 .. MaxDemo : Demonstrate(u, n)
  \/ \E s \in sessions : Revoke(s)
  \/ Purge \/ TimePasses

Spec == Init /\ [][Next]_<<clock, active, link, owner, expires, sessions>>
=============================================================================
