-------------------------------- MODULE Leads --------------------------------
(***************************************************************************)
(* Leads and the customers they become: createLead, setLeadStage,          *)
(* convertLead and deleteLead (packages/db/src/leads.ts), each called by a *)
(* server action in one READ COMMITTED transaction.  convertLead reads the *)
(* lead without locking it, inserts a customer (and its primary contact),  *)
(* and then marks the lead as won with an UPDATE that does not look at the *)
(* stage again.  The four stages of a live lead are one stage here.  A     *)
(* customer may be deleted, which no page does but the schema provides     *)
(* for: the foreign key then sets the link of its lead to null, and        *)
(* nothing else of the lead.                                               *)
(***************************************************************************)
EXTENDS Naturals, FiniteSets

CONSTANTS Leads,      \* leads rows
          Customers,  \* customers rows that conversions insert
          Calls,      \* connections, each running one call at a time
          Nil         \* null

ASSUME LeadsAssumption == Nil \notin Leads \cup Customers

VARIABLES stage,      \* leads.stage, "none" before the row and "deleted" after it
          converted,  \* leads.converted_customer_id
          origin,     \* the lead each committed customer was made from
          removed,    \* customers whose row is deleted
          pc,         \* where each call is
          lead,       \* the lead it is about
          target,     \* the stage setLeadStage writes
          made,       \* the customer convertLead has inserted
          doomed,     \* the customer a DELETE is about
          stale,      \* history: calls whose lead was closed after they read it
          raced,      \* history: customers that such a call committed
          recent,     \* history: customers made from a lead since it was last reopened
          latest      \* history: the customer a lead was last linked to

vars == <<stage, converted, origin, removed, pc, lead, target, made, doomed,
          stale, raced, recent, latest>>
rows == <<stage, converted, origin, removed>>
history == <<stale, raced, recent, latest>>

Stages == {"live", "lost"}      \* what setLeadStage is called with

TypeOK ==
  /\ stage \in [Leads -> {"none", "deleted", "won"} \cup Stages]
  /\ converted \in [Leads -> Customers \cup {Nil}]
  /\ origin \in [Customers -> Leads \cup {Nil}]
  /\ removed \subseteq Customers
  /\ pc \in [Calls -> {"idle", "created", "convert", "insert", "mark", "won", "orphan",
                     "stage", "staged", "delete", "deleted", "unlink", "removed"}]
  /\ lead \in [Calls -> Leads \cup {Nil}]
  /\ target \in [Calls -> Stages \cup {Nil}]
  /\ made \in [Calls -> Customers \cup {Nil}]
  /\ doomed \in [Calls -> Customers \cup {Nil}]
  /\ stale \subseteq Calls
  /\ raced \subseteq Customers
  /\ recent \in [Leads -> SUBSET Customers]
  /\ latest \in [Leads -> Customers \cup {Nil}]

Exists(l) == stage[l] \notin {"none", "deleted"}

Open == {c \in Calls : pc[c] # "idle"}

(* Another call has written the row of the lead and has not ended. *)
LockedRow(c, l) ==
  \E d \in Calls \ {c} : lead[d] = l /\ pc[d] \in {"won", "staged", "deleted", "removed"}

Locked(c) == LockedRow(c, lead[c])

MadeFrom(l) == {x \in Customers : origin[x] = l}

----------------------------------------------------------------------------
Init ==
  /\ stage = [l \in Leads |-> "none"]
  /\ converted = [l \in Leads |-> Nil]
  /\ origin = [x \in Customers |-> Nil]
  /\ removed = {}
  /\ pc = [c \in Calls |-> "idle"]
  /\ lead = [c \in Calls |-> Nil]
  /\ target = [c \in Calls |-> Nil]
  /\ made = [c \in Calls |-> Nil]
  /\ doomed = [c \in Calls |-> Nil]
  /\ stale = {} /\ raced = {}
  /\ recent = [l \in Leads |-> {}]
  /\ latest = [l \in Leads |-> Nil]

Goto(c, label) == pc' = [pc EXCEPT ![c] = label]

(* The transaction is over and the connection back in the pool. *)
Close(c) ==
  /\ Goto(c, "idle")
  /\ lead' = [lead EXCEPT ![c] = Nil]
  /\ target' = [target EXCEPT ![c] = Nil]
  /\ made' = [made EXCEPT ![c] = Nil]
  /\ doomed' = [doomed EXCEPT ![c] = Nil]

(* Nothing of the call stays: ROLLBACK, or a COMMIT that has no rows. *)
EndWithout(c) == Close(c) /\ stale' = stale \ {c} /\ UNCHANGED <<rows, raced, recent, latest>>

(* createLead of a row that no other call is inserting. *)
CreateLead(c, l) ==
  /\ pc[c] = "idle" /\ stage[l] = "none"
  /\ \A d \in Open : lead[d] # l
  /\ Goto(c, "created")
  /\ lead' = [lead EXCEPT ![c] = l]
  /\ UNCHANGED <<rows, history, target, made, doomed>>

(* A form of a page that once showed the lead: it may be closed or deleted *)
(* by now.                                                                 *)
Submit(c, l) ==
  /\ pc[c] = "idle" /\ stage[l] # "none"
  /\ \/ Goto(c, "convert") /\ UNCHANGED target
     \/ Goto(c, "delete") /\ UNCHANGED target
     \/ /\ Goto(c, "stage")
        /\ \E s \in Stages : target' = [target EXCEPT ![c] = s]
  /\ lead' = [lead EXCEPT ![c] = l]
  /\ UNCHANGED <<rows, history, made, doomed>>

\* Variant: a lead that was won may be converted again.
ConvertibleAgain(l) == Exists(l) /\ stage[l] # "lost"

(* The early return of convertLead. *)
Convertible(l) == Exists(l) /\ stage[l] \notin {"won", "lost"}

GetLead(c) ==
  /\ pc[c] = "convert" /\ Convertible(lead[c])
  /\ Goto(c, "insert")
  /\ UNCHANGED <<rows, history, lead, target, made, doomed>>

ReturnNull(c) == pc[c] = "convert" /\ ~Convertible(lead[c]) /\ EndWithout(c)

(* createCustomer and createContact insert new rows: no lock is waited for. *)
CreateCustomer(c) ==
  /\ pc[c] = "insert"
  /\ \E x \in Customers :
       /\ origin[x] = Nil /\ \A d \in Calls : made[d] # x
       /\ made' = [made EXCEPT ![c] = x]
  /\ Goto(c, "mark")
  /\ UNCHANGED <<rows, history, lead, target, doomed>>

(* The UPDATE by id: without a row it changes nothing, and the call goes on. *)
MarkWon(c) ==
  /\ pc[c] = "mark" /\ ~Locked(c)
  /\ Goto(c, IF Exists(lead[c]) THEN "won" ELSE "orphan")
  /\ UNCHANGED <<rows, history, lead, target, made, doomed>>

SetLeadStage(c) ==
  /\ pc[c] = "stage" /\ ~Locked(c) /\ Exists(lead[c])
  /\ Goto(c, "staged")
  /\ UNCHANGED <<rows, history, lead, target, made, doomed>>

DeleteLead(c) ==
  /\ pc[c] = "delete" /\ ~Locked(c) /\ Exists(lead[c])
  /\ Goto(c, "deleted")
  /\ UNCHANGED <<rows, history, lead, target, made, doomed>>

NoSuchLead(c) ==
  /\ pc[c] \in {"stage", "delete"} /\ ~Locked(c) /\ ~Exists(lead[c])
  /\ EndWithout(c)

(* DELETE FROM customers: the row is there, and nobody else is deleting it. *)
DeleteCustomer(c, x) ==
  /\ pc[c] = "idle" /\ origin[x] # Nil /\ x \notin removed
  /\ \A d \in Calls : doomed[d] # x
  /\ Goto(c, "unlink")
  /\ doomed' = [doomed EXCEPT ![c] = x]
  /\ UNCHANGED <<rows, history, lead, target, made>>

(* ON DELETE SET NULL (converted_customer_id): the UPDATE of the lead that *)
(* is linked to the customer waits for the row, and finds it by its link   *)
(* again once it has it.                                                   *)
Unlink(c) ==
  /\ pc[c] = "unlink"
  /\ \/ \E l \in Leads : /\ converted[l] = doomed[c] /\ ~LockedRow(c, l)
                         /\ lead' = [lead EXCEPT ![c] = l]
     \/ (\A l \in Leads : converted[l] # doomed[c]) /\ UNCHANGED lead
  /\ Goto(c, "removed")
  /\ UNCHANGED <<rows, history, target, made, doomed>>

----------------------------------------------------------------------------
(* COMMIT publishes what the call wrote. *)

ReadersOf(l) == {d \in Calls : lead[d] = l /\ pc[d] \in {"insert", "mark", "won", "orphan"}}

CommitLead(c) ==
  /\ pc[c] = "created"
  /\ stage' = [stage EXCEPT ![lead[c]] = "live"]
  /\ UNCHANGED <<converted, origin, removed, history>>

\* Variant: the lead is closed, and its link to the customer is left out.
CommitWithoutLink(c) ==
  /\ pc[c] = "won"
  /\ stage' = [stage EXCEPT ![lead[c]] = "won"]
  /\ origin' = [origin EXCEPT ![made[c]] = lead[c]]
  /\ stale' = (stale \cup ReadersOf(lead[c])) \ {c}
  /\ raced' = IF c \in stale THEN raced \cup {made[c]} ELSE raced
  /\ recent' = [recent EXCEPT ![lead[c]] = @ \cup {made[c]}]
  /\ UNCHANGED <<converted, removed, latest>>

CommitConversion(c) ==
  /\ pc[c] = "won"
  /\ stage' = [stage EXCEPT ![lead[c]] = "won"]
  /\ converted' = [converted EXCEPT ![lead[c]] = made[c]]
  /\ origin' = [origin EXCEPT ![made[c]] = lead[c]]
  /\ stale' = (stale \cup ReadersOf(lead[c])) \ {c}
  /\ raced' = IF c \in stale THEN raced \cup {made[c]} ELSE raced
  /\ recent' = [recent EXCEPT ![lead[c]] = @ \cup {made[c]}]
  /\ latest' = [latest EXCEPT ![lead[c]] = made[c]]
  /\ UNCHANGED removed

(* The lead was deleted after it was read: the customer stays without it. *)
CommitOrphan(c) ==
  /\ pc[c] = "orphan"
  /\ origin' = [origin EXCEPT ![made[c]] = lead[c]]
  /\ stale' = stale \ {c}
  /\ raced' = IF c \in stale THEN raced \cup {made[c]} ELSE raced
  /\ UNCHANGED <<stage, converted, removed, recent, latest>>

\* Variant: the new stage is committed, and the link to the customer is cleared.
CommitCleared(c) ==
  /\ pc[c] = "staged"
  /\ stage' = [stage EXCEPT ![lead[c]] = target[c]]
  /\ converted' = [converted EXCEPT ![lead[c]] = Nil]
  /\ stale' = (IF target[c] = "lost" THEN stale \cup ReadersOf(lead[c]) ELSE stale) \ {c}
  /\ recent' = IF target[c] = "live" THEN [recent EXCEPT ![lead[c]] = {}] ELSE recent
  /\ UNCHANGED <<origin, removed, raced, latest>>

\* Variant: the commit writes a stage that the table does not know.
CommitUnknown(c) ==
  /\ pc[c] = "staged"
  /\ stage' = [stage EXCEPT ![lead[c]] = "archived"]
  /\ stale' = (IF target[c] = "lost" THEN stale \cup ReadersOf(lead[c]) ELSE stale) \ {c}
  /\ recent' = IF target[c] = "live" THEN [recent EXCEPT ![lead[c]] = {}] ELSE recent
  /\ UNCHANGED <<converted, origin, removed, raced, latest>>

(* A won lead is reopened like any other; its link to the customer stays. *)
CommitStage(c) ==
  /\ pc[c] = "staged"
  /\ stage' = [stage EXCEPT ![lead[c]] = target[c]]
  /\ stale' = (IF target[c] = "lost" THEN stale \cup ReadersOf(lead[c]) ELSE stale) \ {c}
  /\ recent' = IF target[c] = "live" THEN [recent EXCEPT ![lead[c]] = {}] ELSE recent
  /\ UNCHANGED <<converted, origin, removed, raced, latest>>

CommitDelete(c) ==
  /\ pc[c] = "deleted"
  /\ stage' = [stage EXCEPT ![lead[c]] = "deleted"]
  /\ converted' = [converted EXCEPT ![lead[c]] = Nil]
  /\ stale' = (stale \cup ReadersOf(lead[c])) \ {c}
  /\ UNCHANGED <<origin, removed, raced, recent, latest>>

(* The customer is gone, and so is the link of the lead that had it: the   *)
(* lead keeps its stage.                                                   *)
CommitRemoval(c) ==
  /\ pc[c] = "removed"
  /\ removed' = removed \cup {doomed[c]}
  /\ converted' = [l \in Leads |-> IF l = lead[c] THEN Nil ELSE converted[l]]
  /\ UNCHANGED <<stage, origin, history>>

Commit(c) ==
  /\ \/ CommitLead(c) \/ CommitConversion(c) \/ CommitOrphan(c)
     \/ CommitStage(c) \/ CommitDelete(c) \/ CommitRemoval(c)
  /\ Close(c)

(* The connection is lost, or a statement fails. *)
Fail(c) == c \in Open /\ EndWithout(c)

Step(c) ==
  \/ GetLead(c) \/ ReturnNull(c) \/ CreateCustomer(c) \/ MarkWon(c)
  \/ SetLeadStage(c) \/ DeleteLead(c) \/ NoSuchLead(c) \/ Unlink(c) \/ Commit(c)

Start(c) ==
  \/ \E l \in Leads : CreateLead(c, l) \/ Submit(c, l)
  \/ \E x \in Customers : DeleteCustomer(c, x)

Next == \E c \in Calls : Start(c) \/ Step(c) \/ Fail(c)

Spec == Init /\ [][Next]_vars

----------------------------------------------------------------------------
(* The comments of setLeadStage and of convertLead, and the test of the    *)
(* deletion of a customer: a lead that is won, or that customers were made *)
(* from, is linked to the customer made last, also if the lead was         *)
(* reopened, lost or converted again meanwhile; only the deletion of that  *)
(* very customer takes the link away, and no link leads to a customer that *)
(* is deleted.                                                             *)
ConversionsAreLinked ==
  \A l \in Leads :
    /\ Exists(l) /\ (stage[l] = "won" \/ MadeFrom(l) # {}) =>
         latest[l] # Nil /\ (converted[l] = Nil => latest[l] \in removed)
    /\ converted[l] # Nil =>
         converted[l] = latest[l] /\ origin[converted[l]] = l /\ converted[l] \notin removed

(* A second customer is made from a lead only after someone reopened it,   *)
(* or by a conversion that had read the lead before it was closed.         *)
DuplicatesWereRaced ==
  \A l \in Leads : Exists(l) => Cardinality(recent[l] \ raced) <= 1

(* "If the customer was created, the lead is always won and linked": a     *)
(* commit of convertLead that leaves a customer without its lead had read  *)
(* the lead before another call closed or deleted it.                      *)
OrphansWereRaced ==
  [][\A x \in Customers :
       origin[x] = Nil /\ origin'[x] # Nil =>
         \/ stage'[origin'[x]] = "won" /\ converted'[origin'[x]] = x
         \/ x \in raced']_vars

(* The test of convertLead: a lead that is already won or lost is not      *)
(* converted and makes no duplicate.  No lead that nobody reopened has     *)
(* two customers.                                                          *)
OneCustomerPerLead == \A l \in Leads : Cardinality(recent[l]) <= 1
==============================================================================
