------------------------------- MODULE Portal -------------------------------
(***************************************************************************)
(* The people of the customers who may enter the portal (packages/db/src/  *)
(* portal.ts, the page settings/portal).  Nothing in the repository signs  *)
(* one of them in, and only the demonstration invites any.                 *)
(***************************************************************************)
EXTENDS Integers

CONSTANT PortalContacts   \* contacts that have an address, by their place in the list

VARIABLE portalUsers      \* contact |-> [status, permissions, seen (days ago, or Unseen)]

Unseen == -1
PortalStatuses == {"invited", "active", "revoked"}
PortalPermissions(modules) ==
  {"documents.read", "invoices.read"} \cup (IF "orders" \in modules THEN {"orders.read", "orders.place"} ELSE {})

(* invitePortalUser: an address that has a row keeps the day it was seen.  *)
Invited(users, contact, user) ==
  IF contact \in DOMAIN users THEN [users EXCEPT ![contact] = [user EXCEPT !.seen = users[contact].seen]]
  ELSE [c \in DOMAIN users \cup {contact} |-> IF c = contact THEN user ELSE users[c]]

(* The page: what a customer sees follows from the modules that are on.    *)
Surfaces(modules) == {"documents", "billing", "orders"} \cap modules
PortalPage ==
  LET With(status) == {c \in DOMAIN portalUsers : portalUsers[c].status = status}
  IN  [invited |-> With("invited"), active |-> With("active"),
       recent |-> {c \in With("active") : portalUsers[c].seen # Unseen /\ portalUsers[c].seen < 30}]

(* Seats of the portal that the plan counts. *)
PortalSeats == {c \in DOMAIN portalUsers : portalUsers[c].status # "revoked"}

PortalTypeOK ==
  /\ DOMAIN portalUsers \subseteq PortalContacts
  /\ \A c \in DOMAIN portalUsers : /\ portalUsers[c].status \in PortalStatuses
                                   /\ portalUsers[c].permissions \subseteq PortalPermissions({"orders"})
                                   /\ portalUsers[c].seen \in {Unseen} \cup Nat
=============================================================================
