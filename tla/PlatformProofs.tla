--------------------------- MODULE PlatformProofs ---------------------------
(***************************************************************************)
(* Theorems about Leads, for any number of leads, customers and calls, and *)
(* about Console, for any number of attempts, addresses and limits: the    *)
(* links between leads and customers, where a customer without a lead or a *)
(* second card of one can come from, and how many attempts fail in a       *)
(* window. The inductive invariant of Leads says what each call may rely   *)
(* on at each place: which rows it has locked, that the customer it made   *)
(* is its own and not committed, that the customer it deletes is linked to *)
(* the lead it has locked and to no other, and that a lead which has gone  *)
(* since it was read has been noted in stale. That of Console counts, for every     *)
(* address and window, what has failed and what may still fail.            *)
(***************************************************************************)
EXTENDS Leads, Console, FiniteSetTheorems, TLAPS

Writing == {"won", "staged", "deleted", "removed"}   \* holding the lock of the lead
Making == {"mark", "won", "orphan"}                  \* holding an uncommitted customer
Removing == {"unlink", "removed"}                    \* deleting a customer

(* A call that is open is about a lead, but for one that deletes a         *)
(* customer: it has found the lead of that customer, or there is none.     *)
CallsHaveLeads ==
  \A c \in Calls :
    /\ pc[c] \in {"idle", "unlink"} => lead[c] = Nil
    /\ lead[c] = Nil => pc[c] \in {"idle", "unlink", "removed"}
    /\ pc[c] \in {"stage", "staged"} => target[c] \in Stages

(* What a call knows about the committed row of its lead.  Only a lock     *)
(* keeps the row; a conversion that has only read it finds it gone or not. *)
LeadsAreThere ==
  \A c \in Calls : lead[c] # Nil =>
    /\ pc[c] = "created" <=> stage[lead[c]] = "none"
    /\ pc[c] \in Writing => Exists(lead[c])
    /\ pc[c] = "orphan" => ~Exists(lead[c])
    /\ pc[c] \in {"insert", "mark", "orphan"} /\ ~Exists(lead[c]) => c \in stale

(* Nobody else inserts the row that a call inserts, or writes the row that *)
(* a call has written.                                                     *)
WritesAreExclusive ==
  \A c, d \in Calls : c # d /\ lead[c] = lead[d] /\ lead[c] # Nil =>
    /\ pc[c] # "created"
    /\ ~(pc[c] \in Writing /\ pc[d] \in Writing)

(* A customer that is being made has no origin yet, and one maker. *)
CustomersAreNew ==
  \A c \in Calls :
    /\ made[c] # Nil <=> pc[c] \in Making
    /\ made[c] # Nil => origin[made[c]] = Nil
    /\ \A d \in Calls : c # d /\ made[c] # Nil => made[c] # made[d]

(* A customer that is being deleted is committed, is there and is deleted  *)
(* by one call; once that call has looked for the link, the lead it has    *)
(* locked, and no other, is linked to the customer.                        *)
RemovalsAreExclusive ==
  /\ \A x \in removed : origin[x] # Nil
  /\ \A c \in Calls :
       /\ doomed[c] # Nil <=> pc[c] \in Removing
       /\ doomed[c] # Nil => origin[doomed[c]] # Nil /\ doomed[c] \notin removed
       /\ \A d \in Calls : c # d /\ doomed[c] # Nil => doomed[c] # doomed[d]
       /\ pc[c] = "removed" => \A l \in Leads : converted[l] = doomed[c] <=> l = lead[c]

(* A lead that does not exist yet has no customer and was never linked. *)
UnbornHaveNone ==
  \A l \in Leads : stage[l] = "none" => latest[l] = Nil /\ \A x \in Customers : origin[x] # l

(* A lead without a link was never linked, and then has made no customer   *)
(* and is not won, or the customer it was linked to last is deleted.       *)
Linked ==
  \A l \in Leads :
    /\ converted[l] # Nil =>
         /\ Exists(l) /\ converted[l] = latest[l]
         /\ origin[converted[l]] = l /\ converted[l] \notin removed
    /\ Exists(l) /\ converted[l] = Nil => latest[l] \in removed \cup {Nil}
    /\ Exists(l) /\ latest[l] = Nil =>
         stage[l] # "won" /\ \A x \in Customers : origin[x] # l

IInv ==
  /\ TypeOK /\ CallsHaveLeads /\ LeadsAreThere /\ WritesAreExclusive
  /\ CustomersAreNew /\ RemovalsAreExclusive /\ UnbornHaveNone /\ Linked

LEMMA InitIInv == ASSUME Init PROVE IInv
<1> USE LeadsAssumption DEF LeadsAssumption, Init
<1>1. TypeOK BY DEF TypeOK
<1>2. /\ CallsHaveLeads /\ LeadsAreThere /\ WritesAreExclusive
      /\ CustomersAreNew /\ RemovalsAreExclusive
  BY DEF CallsHaveLeads, LeadsAreThere, WritesAreExclusive, CustomersAreNew, Making,
         RemovalsAreExclusive, Removing
<1>3. UnbornHaveNone /\ Linked
  BY DEF UnbornHaveNone, Linked, Exists
<1> QED BY <1>1, <1>2, <1>3 DEF IInv

(* A call about a lead begins. *)
LEMMA StartStep ==
  ASSUME IInv, NEW c \in Calls, NEW l \in Leads, CreateLead(c, l) \/ Submit(c, l)
  PROVE  IInv'
<1> USE LeadsAssumption DEF LeadsAssumption, IInv, Goto, rows, history
<1>1. PICK label \in {"created", "convert", "delete", "stage"} :
        /\ pc' = [pc EXCEPT ![c] = label]
        /\ label = "created" => stage[l] = "none" /\ \A d \in Open : lead[d] # l
        /\ label # "created" => stage[l] # "none"
        /\ label = "stage" => \E s \in Stages : target' = [target EXCEPT ![c] = s]
        /\ label # "stage" => target' = target
  BY DEF CreateLead, Submit
<1>2. /\ pc[c] = "idle" /\ lead' = [lead EXCEPT ![c] = l]
      /\ UNCHANGED <<stage, converted, origin, removed, made, doomed, stale, raced, recent, latest>>
  BY DEF CreateLead, Submit
<1>3. TypeOK' BY <1>1, <1>2 DEF TypeOK
<1>4. CallsHaveLeads' BY <1>1, <1>2 DEF CallsHaveLeads, TypeOK
<1>5. LeadsAreThere' BY <1>1, <1>2 DEF LeadsAreThere, Writing, Exists, TypeOK
<1>6. WritesAreExclusive'
  BY <1>1, <1>2 DEF WritesAreExclusive, LeadsAreThere, CallsHaveLeads, Writing, Open, TypeOK
<1>7. CustomersAreNew' /\ RemovalsAreExclusive'
  BY <1>1, <1>2 DEF CustomersAreNew, Making, RemovalsAreExclusive, Removing, TypeOK
<1>8. UnbornHaveNone' /\ Linked' BY <1>2 DEF UnbornHaveNone, Linked, Exists
<1> QED BY <1>3, <1>4, <1>5, <1>6, <1>7, <1>8

(* The deletion of a customer begins. *)
LEMMA DeletionStep ==
  ASSUME IInv, NEW c \in Calls, NEW x \in Customers, DeleteCustomer(c, x)
  PROVE  IInv'
<1> USE LeadsAssumption DEF LeadsAssumption, IInv, DeleteCustomer, Goto, rows, history
<1>1. TypeOK' BY DEF TypeOK
<1>2. CallsHaveLeads' /\ LeadsAreThere' /\ WritesAreExclusive'
  BY DEF CallsHaveLeads, LeadsAreThere, WritesAreExclusive, Writing, Exists, TypeOK
<1>3. CustomersAreNew' BY DEF CustomersAreNew, Making, TypeOK
<1>4. RemovalsAreExclusive' BY DEF RemovalsAreExclusive, Removing, TypeOK
<1>5. UnbornHaveNone' /\ Linked' BY DEF UnbornHaveNone, Linked, Exists
<1> QED BY <1>1, <1>2, <1>3, <1>4, <1>5

(* The deletion looks for the link of a lead. *)
LEMMA UnlinkStep == ASSUME IInv, NEW c \in Calls, Unlink(c) PROVE IInv'
<1> USE LeadsAssumption DEF LeadsAssumption, IInv, Goto, rows, history
<1>1. /\ pc[c] = "unlink" /\ pc' = [pc EXCEPT ![c] = "removed"]
      /\ UNCHANGED <<stage, converted, origin, removed, target, made, doomed, stale, raced, recent, latest>>
  BY DEF Unlink
<1>2. lead[c] = Nil /\ doomed[c] \in Customers
  BY <1>1 DEF CallsHaveLeads, RemovalsAreExclusive, Removing, TypeOK
<1>3. PICK l \in Leads \cup {Nil} :
        /\ lead' = [lead EXCEPT ![c] = l]
        /\ l # Nil => converted[l] = doomed[c] /\ ~LockedRow(c, l)
        /\ l = Nil => \A m \in Leads : converted[m] # doomed[c]
  <2>1. CASE \E l \in Leads : /\ converted[l] = doomed[c] /\ ~LockedRow(c, l)
                              /\ lead' = [lead EXCEPT ![c] = l]
    BY <2>1
  <2>2. CASE (\A l \in Leads : converted[l] # doomed[c]) /\ UNCHANGED lead
    <3>1. lead' = [lead EXCEPT ![c] = Nil] BY <1>2, <2>2 DEF TypeOK
    <3> QED BY <2>2, <3>1
  <2> QED BY <2>1, <2>2 DEF Unlink
<1>4. l # Nil => Exists(l) BY <1>2, <1>3 DEF Linked
<1>5. \A m \in Leads : converted[m] = doomed[c] <=> m = l
  BY <1>2, <1>3 DEF Linked
<1>6. TypeOK' BY <1>1, <1>3 DEF TypeOK
<1>7. CallsHaveLeads' BY <1>1, <1>3 DEF CallsHaveLeads, TypeOK
<1>8. LeadsAreThere' BY <1>1, <1>3, <1>4 DEF LeadsAreThere, Writing, Exists, TypeOK
<1>9. WritesAreExclusive'
  <2>1. \A d \in Calls \ {c} : lead[d] = l /\ l # Nil => pc[d] # "created" /\ pc[d] \notin Writing
    BY <1>3, <1>4 DEF LockedRow, LeadsAreThere, Writing, Exists
  <2> QED BY <1>1, <1>3, <2>1 DEF WritesAreExclusive, TypeOK
<1>10. CustomersAreNew' BY <1>1 DEF CustomersAreNew, Making, TypeOK
<1>11. RemovalsAreExclusive' BY <1>1, <1>3, <1>5 DEF RemovalsAreExclusive, Removing, TypeOK
<1>12. UnbornHaveNone' /\ Linked' BY <1>1 DEF UnbornHaveNone, Linked, Exists
<1> QED BY <1>6, <1>7, <1>8, <1>9, <1>10, <1>11, <1>12

(* A call ends and leaves nothing. *)
LEMMA EndStep == ASSUME IInv, NEW c \in Calls, EndWithout(c) PROVE IInv'
<1> USE LeadsAssumption DEF LeadsAssumption, IInv, EndWithout, Close, Goto, rows
<1>1. TypeOK' BY DEF TypeOK
<1>2. CallsHaveLeads' BY DEF CallsHaveLeads, TypeOK
<1>3. LeadsAreThere' BY DEF LeadsAreThere, Exists, TypeOK
<1>4. WritesAreExclusive' BY DEF WritesAreExclusive, CallsHaveLeads, TypeOK
<1>5. CustomersAreNew' BY DEF CustomersAreNew, Making, TypeOK
<1>6. RemovalsAreExclusive' BY DEF RemovalsAreExclusive, Removing, TypeOK
<1>7. UnbornHaveNone' /\ Linked' BY DEF UnbornHaveNone, Linked, Exists
<1> QED BY <1>1, <1>2, <1>3, <1>4, <1>5, <1>6, <1>7

(* The statements of a call, before it commits. *)
LEMMA StatementStep ==
  ASSUME IInv, NEW c \in Calls,
         GetLead(c) \/ CreateCustomer(c) \/ MarkWon(c) \/ SetLeadStage(c) \/ DeleteLead(c)
  PROVE  IInv'
<1> USE LeadsAssumption DEF LeadsAssumption, IInv, Goto, rows, history
<1>1. UNCHANGED <<stage, converted, origin, removed, stale, raced, recent, latest, lead, target, doomed>>
  BY DEF GetLead, CreateCustomer, MarkWon, SetLeadStage, DeleteLead
<1>2. UnbornHaveNone' /\ Linked' BY <1>1 DEF UnbornHaveNone, Linked, Exists
<1>3. CASE GetLead(c)
  <2> USE <1>3 DEF GetLead, Convertible
  <2>1. TypeOK' /\ CallsHaveLeads' BY <1>1 DEF TypeOK, CallsHaveLeads
  <2>2. LeadsAreThere' BY <1>1 DEF LeadsAreThere, Writing, Exists, TypeOK
  <2>3. WritesAreExclusive' BY <1>1 DEF WritesAreExclusive, Writing, TypeOK
  <2>4. CustomersAreNew' /\ RemovalsAreExclusive'
    BY <1>1 DEF CustomersAreNew, Making, RemovalsAreExclusive, Removing, TypeOK
  <2> QED BY <1>2, <2>1, <2>2, <2>3, <2>4
<1>4. CASE CreateCustomer(c)
  <2> USE <1>4 DEF CreateCustomer
  <2>1. TypeOK' /\ CallsHaveLeads' BY <1>1 DEF TypeOK, CallsHaveLeads
  <2>2. LeadsAreThere' BY <1>1 DEF LeadsAreThere, Writing, Exists, TypeOK
  <2>3. WritesAreExclusive' BY <1>1 DEF WritesAreExclusive, Writing, TypeOK
  <2>4. CustomersAreNew' /\ RemovalsAreExclusive'
    BY <1>1 DEF CustomersAreNew, Making, RemovalsAreExclusive, Removing, TypeOK
  <2> QED BY <1>2, <2>1, <2>2, <2>3, <2>4
<1>5. CASE MarkWon(c) \/ SetLeadStage(c) \/ DeleteLead(c)
  <2>1. PICK label \in {"won", "orphan", "staged", "deleted"} :
          /\ pc' = [pc EXCEPT ![c] = label] /\ made' = made
          /\ label \in {"won", "orphan"} => pc[c] = "mark"
          /\ label = "orphan" <=> ~Exists(lead[c])
          /\ label = "staged" => pc[c] = "stage"
          /\ label = "deleted" => pc[c] = "delete"
    BY <1>5 DEF MarkWon, SetLeadStage, DeleteLead
  <2>2. ~Locked(c) /\ pc[c] \in {"mark", "stage", "delete"}
    BY <1>5 DEF MarkWon, SetLeadStage, DeleteLead
  <2>3. TypeOK' /\ CallsHaveLeads' BY <1>1, <2>1, <2>2 DEF TypeOK, CallsHaveLeads
  <2>4. LeadsAreThere' BY <1>1, <2>1, <2>2 DEF LeadsAreThere, Writing, Exists, TypeOK
  <2>5. WritesAreExclusive'
    BY <1>1, <2>1, <2>2 DEF WritesAreExclusive, CallsHaveLeads, Locked, LockedRow, Writing, TypeOK
  <2>6. CustomersAreNew' /\ RemovalsAreExclusive'
    BY <1>1, <2>1, <2>2 DEF CustomersAreNew, Making, RemovalsAreExclusive, Removing, TypeOK
  <2> QED BY <1>2, <2>3, <2>4, <2>5, <2>6
<1> QED BY <1>3, <1>4, <1>5

(* COMMIT. *)
LEMMA CommitStep == ASSUME IInv, NEW c \in Calls, Commit(c) PROVE IInv'
<1> USE LeadsAssumption DEF LeadsAssumption, IInv, Close, Goto
<1>1. /\ pc[c] # "idle" /\ Close(c)
      /\ pc[c] # "removed" => lead[c] \in Leads
      /\ pc[c] \in Making => made[c] \in Customers /\ origin[made[c]] = Nil /\ made[c] \notin removed
  BY DEF Commit, CommitLead, CommitConversion, CommitOrphan, CommitStage, CommitDelete,
         CommitRemoval, TypeOK, CallsHaveLeads, CustomersAreNew, RemovalsAreExclusive
<1>2. CallsHaveLeads' /\ WritesAreExclusive'
  BY <1>1 DEF CallsHaveLeads, WritesAreExclusive, TypeOK
<1>3. CASE CommitLead(c)
  <2> USE <1>3 DEF CommitLead, history
  <2>1. TypeOK' BY <1>1 DEF TypeOK, Stages
  <2>2. LeadsAreThere'
    BY <1>1 DEF LeadsAreThere, WritesAreExclusive, Writing, Exists, TypeOK
  <2>3. CustomersAreNew' BY <1>1 DEF CustomersAreNew, Making, TypeOK
  <2>4. RemovalsAreExclusive' BY <1>1 DEF RemovalsAreExclusive, Removing, TypeOK
  <2>5. UnbornHaveNone' /\ Linked'
    BY <1>1 DEF UnbornHaveNone, Linked, LeadsAreThere, Exists, TypeOK
  <2> QED BY <1>2, <2>1, <2>2, <2>3, <2>4, <2>5
<1>4. CASE CommitConversion(c)
  <2> USE <1>4 DEF CommitConversion
  <2>1. TypeOK' BY <1>1 DEF TypeOK, Making, ReadersOf
  <2>2. LeadsAreThere'
    BY <1>1 DEF LeadsAreThere, WritesAreExclusive, Writing, Exists, TypeOK
  <2>3. CustomersAreNew' BY <1>1 DEF CustomersAreNew, Making, TypeOK
  <2>4. \A d \in Calls \ {c} : pc[d] = "removed" => lead[d] # lead[c]
    BY <1>1 DEF WritesAreExclusive, Writing
  <2>5. RemovalsAreExclusive'
    BY <1>1, <2>4 DEF RemovalsAreExclusive, Removing, Making, TypeOK
  <2>6. UnbornHaveNone' BY <1>1 DEF UnbornHaveNone, LeadsAreThere, Writing, Exists, TypeOK, Making
  <2>7. Exists(lead[c]) BY <1>1 DEF LeadsAreThere, Writing
  <2>8. Linked' BY <1>1, <2>7 DEF Linked, Exists, TypeOK, Making
  <2> QED BY <1>2, <2>1, <2>2, <2>3, <2>5, <2>6, <2>8
<1>5. CASE CommitOrphan(c)
  <2> USE <1>5 DEF CommitOrphan
  <2>1. TypeOK' BY <1>1 DEF TypeOK, Making
  <2>2. LeadsAreThere' BY <1>1 DEF LeadsAreThere, Exists, TypeOK
  <2>3. CustomersAreNew' BY <1>1 DEF CustomersAreNew, Making, TypeOK
  <2>4. RemovalsAreExclusive' BY <1>1 DEF RemovalsAreExclusive, Removing, Making, TypeOK
  <2>5. UnbornHaveNone' BY <1>1 DEF UnbornHaveNone, LeadsAreThere, Exists, TypeOK, Making
  <2>6. Linked' BY <1>1 DEF Linked, LeadsAreThere, Exists, TypeOK, Making
  <2> QED BY <1>2, <2>1, <2>2, <2>3, <2>4, <2>5, <2>6
<1>6. CASE CommitStage(c)
  <2> USE <1>6 DEF CommitStage
  <2>1. target[c] \in Stages /\ Exists(lead[c])
    BY <1>1 DEF CallsHaveLeads, LeadsAreThere, Writing
  <2>2. TypeOK' BY <1>1, <2>1 DEF TypeOK, ReadersOf, Stages
  <2>3. LeadsAreThere' BY <1>1, <2>1 DEF LeadsAreThere, Exists, TypeOK, Stages
  <2>4. CustomersAreNew' BY <1>1 DEF CustomersAreNew, Making, TypeOK
  <2>5. RemovalsAreExclusive' BY <1>1 DEF RemovalsAreExclusive, Removing, TypeOK
  <2>6. UnbornHaveNone' /\ Linked'
    BY <1>1, <2>1 DEF UnbornHaveNone, Linked, Exists, TypeOK, Stages
  <2> QED BY <1>2, <2>2, <2>3, <2>4, <2>5, <2>6
<1>7. CASE CommitDelete(c)
  <2> USE <1>7 DEF CommitDelete
  <2>1. TypeOK' BY <1>1 DEF TypeOK, ReadersOf
  <2>2. LeadsAreThere'
    BY <1>1 DEF LeadsAreThere, WritesAreExclusive, Writing, ReadersOf, Exists, TypeOK
  <2>3. CustomersAreNew' BY <1>1 DEF CustomersAreNew, Making, TypeOK
  <2>4. \A d \in Calls \ {c} : pc[d] = "removed" => lead[d] # lead[c]
    BY <1>1 DEF WritesAreExclusive, Writing
  <2>5. RemovalsAreExclusive' BY <1>1, <2>4 DEF RemovalsAreExclusive, Removing, TypeOK
  <2>6. UnbornHaveNone' /\ Linked' BY <1>1 DEF UnbornHaveNone, Linked, Exists, TypeOK
  <2> QED BY <1>2, <2>1, <2>2, <2>3, <2>5, <2>6
<1>8. CASE CommitRemoval(c)
  <2> USE <1>8 DEF CommitRemoval, history
  <2>1. /\ doomed[c] \in Customers /\ origin[doomed[c]] # Nil
        /\ \A l \in Leads : converted[l] = doomed[c] <=> l = lead[c]
    BY DEF RemovalsAreExclusive, Removing, TypeOK
  <2>2. TypeOK' BY <1>1, <2>1 DEF TypeOK
  <2>3. LeadsAreThere' BY <1>1 DEF LeadsAreThere, Exists, TypeOK
  <2>4. CustomersAreNew' BY <1>1 DEF CustomersAreNew, Making, TypeOK
  <2>5. RemovalsAreExclusive'
    <3>1. \A d \in Calls \ {c} : doomed[d] # Nil =>
            doomed[d] # doomed[c] /\ \A l \in Leads : converted'[l] = doomed[d] <=> converted[l] = doomed[d]
      BY <2>1 DEF RemovalsAreExclusive, TypeOK
    <3> QED BY <1>1, <2>1, <3>1 DEF RemovalsAreExclusive, Removing, TypeOK
  <2>6. UnbornHaveNone' BY DEF UnbornHaveNone
  <2>7. Linked' BY <2>1 DEF Linked, Exists, TypeOK
  <2> QED BY <1>2, <2>2, <2>3, <2>4, <2>5, <2>6, <2>7
<1> QED BY <1>3, <1>4, <1>5, <1>6, <1>7, <1>8 DEF Commit

LEMMA NextIInv == ASSUME IInv, [Next]_vars PROVE IInv'
<1>1. CASE UNCHANGED vars
  BY <1>1 DEF IInv, vars, TypeOK, CallsHaveLeads, LeadsAreThere, WritesAreExclusive,
              CustomersAreNew, RemovalsAreExclusive, UnbornHaveNone, Linked, Exists
<1>2. CASE Next
  <2> PICK c \in Calls : Start(c) \/ Step(c) \/ Fail(c) BY <1>2 DEF Next
  <2>1. CASE Start(c) BY <2>1, StartStep, DeletionStep DEF Start
  <2>2. CASE Step(c)
    BY <2>2, EndStep, StatementStep, UnlinkStep, CommitStep DEF Step, ReturnNull, NoSuchLead
  <2>3. CASE Fail(c) BY <2>3, EndStep DEF Fail
  <2> QED BY <2>1, <2>2, <2>3
<1> QED BY <1>1, <1>2

(* What the calls rely on, and with it every link. *)
THEOREM Invariance == Spec => []IInv
<1> QED BY InitIInv, NextIInv, PTL DEF Spec

(* The variables keep their types. *)
THEOREM TypeCorrect == Spec => []TypeOK
<1>1. IInv => TypeOK BY DEF IInv
<1> QED BY Invariance, <1>1, PTL

(* While it exists, a lead that is won or that customers were made from is *)
(* linked to the one made last, until that very customer is deleted, and   *)
(* no link leads to a deleted customer: whatever conversions, stage        *)
(* changes, and deletions of leads and of customers race.                  *)
THEOREM Links == Spec => []ConversionsAreLinked
<1>1. IInv => ConversionsAreLinked
  BY LeadsAssumption DEF LeadsAssumption, IInv, TypeOK, Linked, ConversionsAreLinked, MadeFrom
<1> QED BY Invariance, <1>1, PTL

(* A customer is committed without its lead only by a conversion that had  *)
(* read the lead before another call closed or deleted it.                 *)
THEOREM OrphansNeedRace == Spec => OrphansWereRaced
<1>1. ASSUME IInv, [Next]_vars, NEW x \in Customers, origin[x] = Nil, origin'[x] # Nil
      PROVE  \/ stage'[origin'[x]] = "won" /\ converted'[origin'[x]] = x
             \/ x \in raced'
  <2>1. PICK c \in Calls : CommitConversion(c) \/ CommitOrphan(c)
    BY <1>1 DEF Next, vars, rows, history, Start, CreateLead, Submit, DeleteCustomer, Step, GetLead,
                ReturnNull, EndWithout, CreateCustomer, MarkWon, SetLeadStage, DeleteLead,
                NoSuchLead, Unlink, Commit, CommitLead, CommitStage, CommitDelete,
                CommitRemoval, Fail
  <2>2. x = made[c] /\ lead[c] \in Leads
    BY <1>1, <2>1 DEF IInv, TypeOK, CallsHaveLeads, CommitConversion, CommitOrphan
  <2>3. CASE CommitConversion(c)
    BY <1>1, <2>2, <2>3 DEF CommitConversion, IInv, TypeOK
  <2>4. CASE CommitOrphan(c)
    BY <1>1, <2>2, <2>4 DEF CommitOrphan, IInv, LeadsAreThere
  <2> QED BY <2>1, <2>3, <2>4
<1>2. IInv /\ [Next]_vars =>
        [\A x \in Customers :
           origin[x] = Nil /\ origin'[x] # Nil =>
             \/ stage'[origin'[x]] = "won" /\ converted'[origin'[x]] = x
             \/ x \in raced']_vars
  BY <1>1
<1> QED BY Invariance, <1>2, PTL DEF Spec, OrphansWereRaced
----------------------------------------------------------------------------
(* No customer of a lead is recent while it can be converted; a conversion *)
(* that is under way after another one committed had read the lead before  *)
(* that, unless somebody reopened it; so all but one of them are raced.    *)
RecentOnce ==
  \A l \in Leads :
    /\ stage[l] \in {"none", "live"} => recent[l] = {}
    /\ recent[l] # {} =>
         \A c \in Calls : lead[c] = l /\ pc[c] \in {"insert", "mark", "won"} => c \in stale
    /\ \A x, y \in recent[l] \ raced : x = y

RecentIInv == IInv /\ RecentOnce

LEMMA RecentStep == ASSUME RecentIInv, [Next]_vars PROVE RecentOnce'
<1> USE LeadsAssumption DEF LeadsAssumption, RecentIInv
<1>1. CASE UNCHANGED vars
  BY <1>1 DEF vars, RecentOnce
<1>2. CASE Next
  <2> PICK c \in Calls : Start(c) \/ Step(c) \/ Fail(c) BY <1>2 DEF Next
  <2>1. CASE Start(c) \/ Unlink(c)
    <3>1. /\ UNCHANGED <<stage, recent, raced, stale>>
          /\ \E label \in {"created", "convert", "delete", "stage", "unlink", "removed"} :
               pc' = [pc EXCEPT ![c] = label]
          /\ lead' = lead \/ \E l \in Leads : lead' = [lead EXCEPT ![c] = l]
      BY <2>1 DEF Start, CreateLead, Submit, DeleteCustomer, Unlink, Goto, rows, history
    <3> QED BY <3>1 DEF RecentOnce, IInv, TypeOK
  <2>2. CASE EndWithout(c)
    <3>1. /\ pc' = [pc EXCEPT ![c] = "idle"] /\ lead' = [lead EXCEPT ![c] = Nil]
          /\ UNCHANGED <<stage, recent, raced>> /\ stale' = stale \ {c}
      BY <2>2 DEF EndWithout, Close, Goto, rows
    <3> QED BY <3>1 DEF RecentOnce, IInv, TypeOK
  <2>3. CASE GetLead(c) \/ CreateCustomer(c) \/ MarkWon(c) \/ SetLeadStage(c) \/ DeleteLead(c)
    <3>1. UNCHANGED <<stage, recent, raced, stale, lead>>
      BY <2>3 DEF GetLead, CreateCustomer, MarkWon, SetLeadStage, DeleteLead, rows, history
    <3>2. \E label \in {"insert", "mark", "won", "orphan", "staged", "deleted"} :
            /\ pc' = [pc EXCEPT ![c] = label]
            /\ label = "insert" => Convertible(lead[c]) /\ lead[c] \in Leads
            /\ label \in {"mark", "won"} => pc[c] \in {"insert", "mark"}
      BY <2>3 DEF GetLead, CreateCustomer, MarkWon, SetLeadStage, DeleteLead, Goto, IInv, TypeOK, CallsHaveLeads
    <3>3. \A l \in Leads : Convertible(l) => recent[l] = {}
      BY DEF RecentOnce, IInv, TypeOK, Convertible, Exists, Stages
    <3> QED BY <3>1, <3>2, <3>3 DEF RecentOnce, IInv, TypeOK
  <2>4. CASE Commit(c)
    <3>1. /\ pc' = [pc EXCEPT ![c] = "idle"] /\ lead' = [lead EXCEPT ![c] = Nil]
          /\ pc[c] # "removed" => lead[c] \in Leads
      BY <2>4 DEF Commit, Close, Goto, IInv, CallsHaveLeads, TypeOK, CommitLead, CommitConversion,
                  CommitOrphan, CommitStage, CommitDelete, CommitRemoval
    <3>2. CASE CommitLead(c)
      <4>1. recent[lead[c]] = {}
        BY <3>1, <3>2 DEF CommitLead, IInv, LeadsAreThere, RecentOnce
      <4> QED BY <3>1, <3>2, <4>1 DEF CommitLead, RecentOnce, history, IInv, TypeOK
    <3>3. CASE CommitConversion(c)
      <4>1. recent[lead[c]] # {} => c \in stale
        BY <3>1, <3>3 DEF CommitConversion, RecentOnce
      <4>2. \A d \in Calls \ {c} : lead[d] = lead[c] /\ pc[d] \in {"insert", "mark", "won"} => d \in stale'
        BY <3>3 DEF CommitConversion, ReadersOf
      <4>3. raced \subseteq raced' /\ (recent[lead[c]] # {} => made[c] \in raced')
        BY <3>3, <4>1 DEF CommitConversion
      <4>4. \A x, y \in recent'[lead[c]] \ raced' : x = y
        BY <3>1, <3>3, <4>3 DEF CommitConversion, RecentOnce, IInv, TypeOK
      <4>5. \A l \in Leads \ {lead[c]} : recent'[l] = recent[l] /\ stage'[l] = stage[l]
        BY <3>3 DEF CommitConversion, IInv, TypeOK
      <4>6. stage'[lead[c]] = "won" /\ stale \ {c} \subseteq stale'
        BY <3>1, <3>3 DEF CommitConversion, IInv, TypeOK
      <4> QED BY <3>1, <4>2, <4>3, <4>4, <4>5, <4>6 DEF RecentOnce, IInv, TypeOK
    <3>4. CASE CommitOrphan(c)
      <4>1. UNCHANGED <<stage, recent>> /\ stale' = stale \ {c} /\ raced \subseteq raced'
        BY <3>4 DEF CommitOrphan
      <4> QED BY <3>1, <4>1 DEF RecentOnce, IInv, TypeOK
    <3>5. CASE CommitStage(c)
      <4>1. target[c] \in Stages
        BY <3>5 DEF CommitStage, IInv, CallsHaveLeads
      <4>2. stale \ {c} \subseteq stale' /\ UNCHANGED raced
        BY <3>5 DEF CommitStage
      <4>3. \A l \in Leads : /\ recent'[l] \in {recent[l], {}}
                             /\ stage'[l] \in {"none", "live"} => recent'[l] = {}
        BY <3>1, <3>5, <4>1 DEF CommitStage, RecentOnce, IInv, TypeOK, Stages
      <4> QED BY <3>1, <4>2, <4>3 DEF RecentOnce, IInv, TypeOK
    <3>6. CASE CommitDelete(c)
      <4>1. stale \ {c} \subseteq stale' /\ UNCHANGED <<raced, recent>>
            /\ stage' = [stage EXCEPT ![lead[c]] = "deleted"]
        BY <3>6 DEF CommitDelete
      <4> QED BY <3>1, <4>1 DEF CommitDelete, RecentOnce, IInv, TypeOK
    <3>7. CASE CommitRemoval(c)
      BY <3>1, <3>7 DEF CommitRemoval, history, RecentOnce, IInv, TypeOK
    <3> QED BY <2>4, <3>2, <3>3, <3>4, <3>5, <3>6, <3>7 DEF Commit
  <2> QED BY <2>1, <2>2, <2>3, <2>4 DEF Step, ReturnNull, NoSuchLead, Fail
<1> QED BY <1>1, <1>2

(* Of the customers made from a lead since somebody last reopened it, all  *)
(* but one come from conversions that had read it before it was closed.    *)
THEOREM DuplicatesNeedRace == Spec => []DuplicatesWereRaced
<1>1. Init => RecentIInv
  <2>1. Init => IInv BY InitIInv
  <2>2. Init => RecentOnce BY DEF Init, RecentOnce
  <2> QED BY <2>1, <2>2 DEF RecentIInv
<1>2. RecentIInv /\ [Next]_vars => RecentIInv'
  BY NextIInv, RecentStep DEF RecentIInv
<1>3. RecentIInv => DuplicatesWereRaced
  <2>1. SUFFICES ASSUME RecentOnce, NEW l \in Leads PROVE Cardinality(recent[l] \ raced) <= 1
    BY DEF RecentIInv, DuplicatesWereRaced
  <2>2. recent[l] \ raced = {} \/ \E x : recent[l] \ raced = {x}
    BY <2>1 DEF RecentOnce
  <2>3. Cardinality({}) = 0 BY FS_EmptySet
  <2>4. \A x : Cardinality({x}) = 1 BY FS_Singleton
  <2>5. CASE recent[l] \ raced = {} BY <2>3, <2>5
  <2>6. CASE \E x : recent[l] \ raced = {x} BY <2>4, <2>6
  <2> QED BY <2>2, <2>5, <2>6
<1> QED BY <1>1, <1>2, <1>3, PTL DEF Spec

----------------------------------------------------------------------------
(* The console: an attempt is judged by what had failed when it was let    *)
(* through.                                                                *)

(* What the sign-in variables hold, as a set; ConsoleTypeOK says the same  *)
(* of the audit without its being a sequence.                              *)
ConsoleTypes ==
  /\ ConsoleTypeOK
  /\ audit \in Seq([kind : {"login_failed", "login_ok", "logout"},
                    from : Addresses \cup {NoAddress}, at : Nat])
  /\ sessions \subseteq [email : Emails, until : Nat]

(* Attempts that were let through and may yet count against the address.   *)
Claims(from) == {t \in Tries : tries[t].at \in {"judge", "failing"} /\ tries[t].from = from}

(* What is recorded in the window and what is still under way together.    *)
ClaimsAreBounded ==
  \A from \in Addresses :
    Cardinality(Failures(from)) + Cardinality(Claims(from)) <= LockoutAttempts + Cardinality(Tries) - 1

ConsoleIInv == ConsoleTypes /\ ClaimsAreBounded

LEMMA FewerOf ==
  ASSUME NEW S, NEW T, IsFiniteSet(S), T \subseteq S
  PROVE  IsFiniteSet(T) /\ Cardinality(T) \in Nat /\ Cardinality(S) \in Nat
           /\ Cardinality(T) <= Cardinality(S)
BY FS_Subset, FS_CardinalityType

(* The failures and the claims of an address are finitely many.            *)
LEMMA CountsAreFinite ==
  ASSUME ConsoleTypes, NEW from
  PROVE  /\ IsFiniteSet(Failures(from)) /\ Cardinality(Failures(from)) \in Nat
         /\ IsFiniteSet(Claims(from)) /\ Cardinality(Claims(from)) \in Nat
         /\ Cardinality(Tries) \in Nat /\ Cardinality(Claims(from)) <= Cardinality(Tries)
<1>1. DOMAIN audit = 1..Len(audit) /\ Len(audit) \in Nat
  BY DEF ConsoleTypes
<1>2. IsFiniteSet(1..Len(audit))
  BY <1>1, FS_Interval
<1>3. Failures(from) \subseteq 1..Len(audit)
  BY <1>1 DEF Failures
<1>4. Claims(from) \subseteq Tries
  BY DEF Claims
<1>. QED
  BY <1>2, <1>3, <1>4, FewerOf, ConsoleAssumption

(* What an entry of the audit is, and where it stands in it.               *)
Entries == [kind : {"login_failed", "login_ok", "logout"}, from : Addresses \cup {NoAddress}, at : Nat]

LEMMA RecordAppends ==
  ASSUME ConsoleTypes, NEW kind \in {"login_failed", "login_ok", "logout"},
         NEW from \in Addresses \cup {NoAddress}, Record(kind, from)
  PROVE  /\ audit' \in Seq(Entries) /\ Len(audit) \in Nat /\ DOMAIN audit = 1..Len(audit)
         /\ DOMAIN audit' = 1..(Len(audit) + 1)
         /\ \A i \in 1..Len(audit) : audit'[i] = audit[i]
         /\ audit'[Len(audit) + 1] = [kind |-> kind, from |-> from, at |-> minute]
         /\ \A i \in DOMAIN audit' : i \in 1..Len(audit) \/ i = Len(audit) + 1
<1>. DEFINE e == [kind |-> kind, from |-> from, at |-> minute]
<1>1. Len(audit) \in Nat /\ DOMAIN audit = 1..Len(audit) /\ audit \in Seq(Entries) /\ e \in Entries
  BY ConsoleAssumption DEF ConsoleTypes, ConsoleTypeOK, Entries
<1>2. audit' = Append(audit, e)
  BY DEF Record
<1>3. /\ audit' \in Seq(Entries) /\ DOMAIN audit' = 1..(Len(audit) + 1)
      /\ \A i \in 1..Len(audit) : audit'[i] = audit[i]
      /\ audit'[Len(audit) + 1] = e
  BY <1>1, <1>2
<1>. QED
  BY <1>1, <1>3

(* An entry keeps the types, whatever else the step does to the tries and  *)
(* the sessions as long as that keeps theirs.                              *)
LEMMA RecordKeepsTypes ==
  ASSUME ConsoleTypes, NEW kind \in {"login_failed", "login_ok", "logout"},
         NEW from \in Addresses \cup {NoAddress}, Record(kind, from),
         UNCHANGED <<admin, minute>>, sessions' \subseteq sessions,
         tries' \in [Tries -> [at : {"idle", "judge", "failing", "opening", "opened"},
                               from : Addresses \cup {NoAddress}]]
  PROVE  ConsoleTypes'
<1>1. \A i \in DOMAIN audit' : /\ audit'[i].kind \in {"login_failed", "login_ok", "logout"}
                               /\ audit'[i].from \in Addresses \cup {NoAddress}
                               /\ audit'[i].at \in 0..minute
  <2>1. minute \in Nat
    BY ConsoleAssumption DEF ConsoleTypes, ConsoleTypeOK
  <2>2. ASSUME NEW i \in 1..Len(audit)
        PROVE  /\ audit'[i].kind \in {"login_failed", "login_ok", "logout"}
               /\ audit'[i].from \in Addresses \cup {NoAddress}
               /\ audit'[i].at \in 0..minute
    BY RecordAppends DEF ConsoleTypes, ConsoleTypeOK
  <2>3. audit'[Len(audit) + 1] = [kind |-> kind, from |-> from, at |-> minute]
    BY RecordAppends
  <2>4. \A i \in DOMAIN audit' : i \in 1..Len(audit) \/ i = Len(audit) + 1
    BY RecordAppends
  <2>. QED
    BY <2>1, <2>2, <2>3, <2>4
<1>2. audit' \in Seq(Entries)
  BY RecordAppends
<1>. QED
  BY <1>1, <1>2 DEF ConsoleTypes, ConsoleTypeOK, Entries

(* An entry that is no failure of the address changes nothing of what is   *)
(* counted for it; any entry adds at most one.                             *)
LEMMA RecordCounts ==
  ASSUME ConsoleTypes, NEW kind \in {"login_failed", "login_ok", "logout"},
         NEW from \in Addresses \cup {NoAddress},
         Record(kind, from), UNCHANGED minute, NEW a \in Addresses
  PROVE  /\ kind # "login_failed" \/ a # from => Failures(a)' = Failures(a)
         /\ Failures(a)' \subseteq Failures(a) \cup {Len(audit) + 1}
<1>1. Failures(a)' \subseteq Failures(a) \cup {Len(audit) + 1}
  BY RecordAppends DEF Failures
<1>2. ASSUME kind # "login_failed" \/ a # from
      PROVE  Failures(a)' = Failures(a)
  <2>1. /\ audit'[Len(audit) + 1] = [kind |-> kind, from |-> from, at |-> minute]
        /\ \A i \in 1..Len(audit) : audit'[i] = audit[i]
        /\ \A i \in DOMAIN audit' : i \in 1..Len(audit) \/ i = Len(audit) + 1
        /\ DOMAIN audit = 1..Len(audit) /\ Len(audit) \in Nat /\ DOMAIN audit' = 1..(Len(audit) + 1)
    BY RecordAppends
  <2>2. Len(audit) + 1 \notin Failures(a)'
    BY <1>2, <2>1 DEF Failures
  <2>3. \A i \in 1..Len(audit) : i \in Failures(a)' <=> i \in Failures(a)
    BY <2>1 DEF Failures
  <2>. QED
    BY <2>1, <2>2, <2>3 DEF Failures
<1>. QED
  BY <1>1, <1>2

(* A sum of two finite counts that does not grow, as the sets shrink.      *)
LEMMA NoMoreCounted ==
  ASSUME ConsoleTypes, ClaimsAreBounded, NEW a \in Addresses,
         Failures(a)' \subseteq Failures(a), Claims(a)' \subseteq Claims(a)
  PROVE  Cardinality(Failures(a))' + Cardinality(Claims(a))' <= LockoutAttempts + Cardinality(Tries) - 1
<1>1. /\ Cardinality(Failures(a)') \in Nat /\ Cardinality(Failures(a)') <= Cardinality(Failures(a))
      /\ Cardinality(Claims(a)') \in Nat /\ Cardinality(Claims(a)') <= Cardinality(Claims(a))
      /\ Cardinality(Failures(a)) \in Nat /\ Cardinality(Claims(a)) \in Nat /\ Cardinality(Tries) \in Nat
  BY CountsAreFinite, FewerOf
<1>2. Cardinality(Failures(a)) + Cardinality(Claims(a)) <= LockoutAttempts + Cardinality(Tries) - 1
  BY DEF ClaimsAreBounded
<1>. QED
  BY <1>1, <1>2, ConsoleAssumption

(* What a try that ends leaves of the claims.                              *)
LEMMA AnsweredClaims ==
  ASSUME ConsoleTypes, NEW t \in Tries, Answered(t), NEW a \in Addresses
  PROVE  /\ tries' \in [Tries -> [at : {"idle", "judge", "failing", "opening", "opened"},
                                  from : Addresses \cup {NoAddress}]]
         /\ Claims(a)' = Claims(a) \ {t}
BY DEF ConsoleTypes, ConsoleTypeOK, Answered, Claims

(* With no address there is nothing to be counted.                         *)
LEMMA ConsoleInitIInv ==
  ASSUME ConsoleInit
  PROVE  ConsoleIInv
<1>1. ConsoleTypes
  BY ConsoleAssumption DEF ConsoleInit, ConsoleTypes, ConsoleTypeOK
<1>2. ASSUME NEW a \in Addresses PROVE Failures(a) = {} /\ Claims(a) = {}
  BY DEF ConsoleInit, Failures, Claims
<1>3. Cardinality({}) = 0 /\ Cardinality(Tries) \in Nat
  BY FS_EmptySet, FS_CardinalityType, ConsoleAssumption
<1>. QED
  BY <1>1, <1>2, <1>3, ConsoleAssumption DEF ConsoleIInv, ClaimsAreBounded

(* An attempt is let through only below the limit, when all the other      *)
(* requests may already be claims.                                         *)
LEMMA AttemptCounts ==
  ASSUME ConsoleIInv, NEW t \in Tries, Attempt(t)
  PROVE  ConsoleIInv'
<1>1. PICK from \in Addresses \cup {NoAddress} :
        ~IsLocked(from) /\ tries' = [tries EXCEPT ![t] = [at |-> "judge", from |-> from]]
  BY DEF Attempt
<1>2. ConsoleTypes'
  BY <1>1 DEF ConsoleIInv, ConsoleTypes, ConsoleTypeOK, Attempt
<1>3. ASSUME NEW a \in Addresses
      PROVE  Cardinality(Failures(a))' + Cardinality(Claims(a))' <= LockoutAttempts + Cardinality(Tries) - 1
  <2>1. Failures(a)' = Failures(a)
    BY DEF Attempt, Failures
  <2>2. CASE a # from
    <3>1. Claims(a)' \subseteq Claims(a)
      BY <1>1, <2>2 DEF Claims, ConsoleIInv, ConsoleTypes, ConsoleTypeOK
    <3>. QED
      BY <2>1, <3>1, NoMoreCounted DEF ConsoleIInv
  <2>3. CASE a = from
    <3>1. Cardinality(Failures(a)) < LockoutAttempts
      BY <1>1, <2>3, ConsoleAssumption, CountsAreFinite DEF IsLocked, ConsoleIInv
    <3>2. Claims(a)' \subseteq Tries
      BY DEF Claims
    <3>3. /\ Cardinality(Claims(a)') \in Nat /\ Cardinality(Tries) \in Nat
          /\ Cardinality(Claims(a)') <= Cardinality(Tries)
      BY <3>2, FewerOf, ConsoleAssumption
    <3>. QED
      BY <2>1, <3>1, <3>3, CountsAreFinite, ConsoleAssumption DEF ConsoleIInv
  <2>. QED
    BY <2>2, <2>3
<1>. QED
  BY <1>2, <1>3 DEF ConsoleIInv, ClaimsAreBounded

(* A failure that is recorded was a claim until now.                       *)
LEMMA FailureCounts ==
  ASSUME ConsoleIInv, NEW t \in Tries, RecordFailure(t)
  PROVE  ConsoleIInv'
<1>. DEFINE from == tries[t].from
<1>1. /\ ConsoleTypes /\ from \in Addresses \cup {NoAddress} /\ Record("login_failed", from)
      /\ Answered(t) /\ UNCHANGED <<admin, sessions, minute>>
  BY DEF RecordFailure, ConsoleIInv, ConsoleTypes, ConsoleTypeOK
<1>2. PICK a0 \in Addresses \cup {NoAddress} : a0 = from
  BY <1>1
<1>3. tries' \in [Tries -> [at : {"idle", "judge", "failing", "opening", "opened"},
                            from : Addresses \cup {NoAddress}]]
  BY <1>1 DEF Answered, ConsoleTypes, ConsoleTypeOK
<1>4. ConsoleTypes'
  BY <1>1, <1>2, <1>3, RecordKeepsTypes
<1>5. ASSUME NEW a \in Addresses
      PROVE  Cardinality(Failures(a))' + Cardinality(Claims(a))' <= LockoutAttempts + Cardinality(Tries) - 1
  <2>1. Claims(a)' = Claims(a) \ {t}
    BY <1>1, AnsweredClaims
  <2>2. CASE a # from
    BY <1>1, <1>2, <2>1, <2>2, RecordCounts, NoMoreCounted DEF ConsoleIInv
  <2>3. CASE a = from
    <3>1. t \in Claims(a)
      BY <2>3 DEF RecordFailure, Claims
    <3>2. Cardinality(Claims(a)') = Cardinality(Claims(a)) - 1
      BY <1>1, <2>1, <3>1, CountsAreFinite, FS_RemoveElement
    <3>3. Failures(a)' \subseteq Failures(a) \cup {Len(audit) + 1}
      BY <1>1, <1>2, RecordCounts
    <3>4. /\ IsFiniteSet(Failures(a) \cup {Len(audit) + 1})
          /\ Cardinality(Failures(a) \cup {Len(audit) + 1}) <= Cardinality(Failures(a)) + 1
      <4>1. IsFiniteSet(Failures(a)) /\ Cardinality(Failures(a)) \in Nat
        BY <1>1, CountsAreFinite
      <4>2. /\ IsFiniteSet(Failures(a) \cup {Len(audit) + 1})
            /\ \/ Cardinality(Failures(a) \cup {Len(audit) + 1}) = Cardinality(Failures(a))
               \/ Cardinality(Failures(a) \cup {Len(audit) + 1}) = Cardinality(Failures(a)) + 1
        BY <4>1, FS_AddElement
      <4>. QED
        BY <4>1, <4>2
    <3>5. /\ Cardinality(Failures(a)') \in Nat
          /\ Cardinality(Failures(a) \cup {Len(audit) + 1}) \in Nat
          /\ Cardinality(Failures(a)') <= Cardinality(Failures(a) \cup {Len(audit) + 1})
      BY <3>3, <3>4, FewerOf
    <3>6. /\ Cardinality(Failures(a)) \in Nat /\ Cardinality(Claims(a)) \in Nat /\ Cardinality(Tries) \in Nat
          /\ Cardinality(Failures(a)) + Cardinality(Claims(a)) <= LockoutAttempts + Cardinality(Tries) - 1
      BY <1>1, CountsAreFinite DEF ConsoleIInv, ClaimsAreBounded
    <3>. QED
      BY <3>2, <3>4, <3>5, <3>6, ConsoleAssumption
  <2>. QED
    BY <2>2, <2>3
<1>. QED
  BY <1>4, <1>5 DEF ConsoleIInv, ClaimsAreBounded

(* No other step adds to what is counted.                                  *)
LEMMA ConsoleStepIInv ==
  ASSUME ConsoleIInv, [ConsoleNext]_consoleVars
  PROVE  ConsoleIInv'
<1>. ConsoleTypes /\ ClaimsAreBounded
  BY DEF ConsoleIInv
<1>1. ASSUME ConsoleTypes', \A a \in Addresses : Failures(a)' \subseteq Failures(a) /\ Claims(a)' \subseteq Claims(a)
      PROVE  ConsoleIInv'
  BY <1>1, NoMoreCounted DEF ConsoleIInv, ClaimsAreBounded
<1>2. ASSUME NEW t \in Tries, Attempt(t) PROVE ConsoleIInv'
  BY <1>2, AttemptCounts
<1>3. ASSUME NEW t \in Tries, Judge(t) PROVE ConsoleIInv'
  <2>1. ConsoleTypes'
    BY <1>3 DEF Judge, ConsoleTypes, ConsoleTypeOK
  <2>2. ASSUME NEW a \in Addresses PROVE Failures(a)' \subseteq Failures(a) /\ Claims(a)' \subseteq Claims(a)
    BY <1>3 DEF Judge, ConsoleTypes, ConsoleTypeOK, Failures, Claims
  <2>. QED
    BY <1>1, <2>1, <2>2
<1>4. ASSUME NEW t \in Tries, RecordFailure(t) PROVE ConsoleIInv'
  BY <1>4, FailureCounts
<1>5. ASSUME NEW t \in Tries, OpenSession(t) PROVE ConsoleIInv'
  <2>1. ConsoleTypes'
    BY <1>5, ConsoleAssumption DEF OpenSession, ConsoleTypes, ConsoleTypeOK
  <2>2. ASSUME NEW a \in Addresses PROVE Failures(a)' \subseteq Failures(a) /\ Claims(a)' \subseteq Claims(a)
    BY <1>5 DEF OpenSession, ConsoleTypes, ConsoleTypeOK, Failures, Claims
  <2>. QED
    BY <1>1, <2>1, <2>2
<1>6. ASSUME NEW t \in Tries, RecordSuccess(t) PROVE ConsoleIInv'
  <2>1. /\ tries[t].from \in Addresses \cup {NoAddress} /\ Record("login_ok", tries[t].from)
        /\ Answered(t) /\ UNCHANGED <<admin, sessions, minute>>
    BY <1>6 DEF RecordSuccess, ConsoleTypes, ConsoleTypeOK
  <2>2. tries' \in [Tries -> [at : {"idle", "judge", "failing", "opening", "opened"},
                              from : Addresses \cup {NoAddress}]]
    BY <2>1 DEF Answered, ConsoleTypes, ConsoleTypeOK
  <2>3. PICK from \in Addresses \cup {NoAddress} : from = tries[t].from
    BY <2>1
  <2>4. ConsoleTypes'
    BY <2>1, <2>2, <2>3, RecordKeepsTypes
  <2>5. ASSUME NEW a \in Addresses PROVE Failures(a)' \subseteq Failures(a) /\ Claims(a)' \subseteq Claims(a)
    <3>1. Failures(a)' = Failures(a)
      BY <2>1, <2>3, RecordCounts
    <3>2. Claims(a)' = Claims(a) \ {t}
      BY <2>1, AnsweredClaims
    <3>. QED
      BY <3>1, <3>2
  <2>. QED
    BY <1>1, <2>4, <2>5
<1>7. ASSUME NEW t \in Tries, LoseTry(t) PROVE ConsoleIInv'
  <2>1. Answered(t) /\ UNCHANGED <<admin, audit, sessions, minute>>
    BY <1>7 DEF LoseTry
  <2>2. ConsoleTypes'
    BY <2>1 DEF Answered, ConsoleTypes, ConsoleTypeOK
  <2>3. ASSUME NEW a \in Addresses PROVE Failures(a)' \subseteq Failures(a) /\ Claims(a)' \subseteq Claims(a)
    BY <2>1, AnsweredClaims DEF Failures
  <2>. QED
    BY <1>1, <2>2, <2>3
<1>8. ASSUME SignOut PROVE ConsoleIInv'
  <2>1. /\ sessions' \subseteq sessions /\ Record("logout", NoAddress) /\ UNCHANGED <<admin, tries, minute>>
    BY <1>8 DEF SignOut
  <2>2. ConsoleTypes'
    BY <2>1, RecordKeepsTypes DEF ConsoleTypes, ConsoleTypeOK
  <2>3. ASSUME NEW a \in Addresses PROVE Failures(a)' \subseteq Failures(a) /\ Claims(a)' \subseteq Claims(a)
    BY <2>1, RecordCounts DEF Claims
  <2>. QED
    BY <1>1, <2>2, <2>3
<1>9. ASSUME Configure PROVE ConsoleIInv'
  BY <1>9, <1>1 DEF Configure, ConsoleTypes, ConsoleTypeOK, Failures, Claims
<1>10. ASSUME PurgePlatform PROVE ConsoleIInv'
  BY <1>10, <1>1 DEF PurgePlatform, ConsoleTypes, ConsoleTypeOK, Failures, Claims
<1>11. ASSUME MinutePasses PROVE ConsoleIInv'
  <2>1. ConsoleTypes'
    BY <1>11, ConsoleAssumption DEF MinutePasses, ConsoleTypes, ConsoleTypeOK
  <2>2. ASSUME NEW a \in Addresses PROVE Failures(a)' \subseteq Failures(a) /\ Claims(a)' \subseteq Claims(a)
    BY <1>11, ConsoleAssumption DEF MinutePasses, ConsoleTypes, ConsoleTypeOK, Failures, Claims
  <2>. QED
    BY <1>1, <2>1, <2>2
<1>12. CASE UNCHANGED consoleVars
  BY <1>12, <1>1 DEF consoleVars, ConsoleTypes, ConsoleTypeOK, Failures, Claims
<1>. QED
  BY <1>2, <1>3, <1>4, <1>5, <1>6, <1>7, <1>8, <1>9, <1>10, <1>11, <1>12 DEF ConsoleNext

(* packages/db/src/platform-auth.ts: however the attempts overlap, no      *)
(* window of an address ever holds more failures than the limit and the    *)
(* other requests that can be under way, for every limit, every window and *)
(* any number of requests and addresses.                                   *)
THEOREM AttemptsStayBounded == ConsoleSpec => [](ConsoleTypeOK /\ AttemptsAreBounded)
<1>1. ConsoleInit => ConsoleIInv
  BY ConsoleInitIInv
<1>2. ConsoleIInv /\ [ConsoleNext]_consoleVars => ConsoleIInv'
  BY ConsoleStepIInv
<1>3. ConsoleIInv => ConsoleTypeOK /\ AttemptsAreBounded
  <2>1. SUFFICES ASSUME ConsoleIInv, NEW a \in Addresses
                 PROVE  ConsoleTypeOK /\ Cardinality(Failures(a)) <= LockoutAttempts + Cardinality(Tries) - 1
    BY DEF AttemptsAreBounded, ConsoleIInv, ConsoleTypes
  <2>. QED
    BY <2>1, CountsAreFinite, ConsoleAssumption DEF ConsoleIInv, ClaimsAreBounded, ConsoleTypes
<1>. QED
  BY <1>1, <1>2, <1>3, PTL DEF ConsoleSpec
=============================================================================
