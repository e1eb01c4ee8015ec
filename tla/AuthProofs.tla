----------------------------- MODULE AuthProofs -----------------------------
(***************************************************************************)
(* Theorems about Auth, for any number of users, links and connections:    *)
(* every safety property its runs check, that the calls implement SignIn,  *)
(* and that they never deadlock.  The inductive invariant says             *)
(* what a call relies on while it runs: which rows it alone has written    *)
(* and that they are still open, that the link it inserts is its own, and  *)
(* that of the open links of its user none has been overlooked but those   *)
(* of requests that ran beside it.                                         *)
(***************************************************************************)
EXTENDS Auth, WellFoundedInduction, TLAPS

Asking == {"find", "cancel"}       \* the link of the call is not committed yet
Clicking == {"consume", "opened"}

(* Rows a call has written are open, and no other call has written them.   *)
LocksHold ==
  \A c \in Calls :
    /\ pc[c] \in {"idle", "find", "consume"} => wrote[c] = {}
    /\ \A t \in wrote[c] : link[t] = "open"
    /\ \A d \in Calls : c # d => wrote[c] \cap wrote[d] = {}

(* What each call is about. *)
CallsHaveLinks ==
  \A c \in Calls :
    /\ pc[c] \in Asking => link[about[c]] = "none"
    /\ pc[c] \in Clicking => link[about[c]] # "none"
    /\ pc[c] = "opened" => /\ wrote[c] = {about[c]} /\ user[c] = owner[about[c]]
                           /\ began[c] < expires[about[c]]
    /\ \A d \in Calls : c # d /\ pc[c] \in Asking /\ pc[d] \in Asking => about[c] # about[d]

(* A session of a link: the link is committed, so its row stays. *)
SessionsHaveLinks ==
  \A s \in sessions :
    \/ "demo" \in DOMAIN s
    \/ /\ s.link \in Links /\ link[s.link] # "none"
       /\ s.user = owner[s.link] /\ s.expires < expires[s.link] + SessionTTL

(* Overlapping is mutual, and requests that are open overlap. *)
OverlapIsMutual ==
  /\ \A t, x \in Links : t \in overlap[x] => x \in overlap[t]
  /\ \A c, d \in Calls :
       c # d /\ pc[c] \in Asking /\ pc[d] \in Asking => about[d] \in overlap[about[c]]

(* The UPDATE of a request overlooks nothing but what ran beside it. *)
NothingOverlooked ==
  \A c \in Calls, t \in Links :
    pc[c] = "cancel" /\ link[t] = "open" /\ owner[t] = user[c] =>
      t \in todo[c] \/ t \in wrote[c] \/ t \in overlap[about[c]]

IInv ==
  /\ TypeOK /\ LocksHold /\ CallsHaveLinks /\ SessionsHaveLinks
  /\ OverlapIsMutual /\ NothingOverlooked /\ LinkOpensOneSession /\ OpenLinksWereRaced

LEMMA InitIInv == ASSUME Init PROVE IInv
<1> USE AuthAssumption DEF AuthAssumption, Init, Links
<1>1. TypeOK
  <2>1. (CHOOSE u \in Users : TRUE) \in Users OBVIOUS
  <2> QED BY <2>1 DEF TypeOK
<1>2. LocksHold /\ CallsHaveLinks BY DEF LocksHold, CallsHaveLinks, Asking, Clicking
<1>3. SessionsHaveLinks /\ OverlapIsMutual /\ NothingOverlooked
  BY DEF SessionsHaveLinks, OverlapIsMutual, NothingOverlooked, Asking
<1>4. LinkOpensOneSession /\ OpenLinksWereRaced BY DEF LinkOpensOneSession, OpenLinksWereRaced
<1> QED BY <1>1, <1>2, <1>3, <1>4 DEF IInv

(* A request begins: its token is of no other request, and it overlaps     *)
(* every one that is open.                                                 *)
LEMMA RequestStep ==
  ASSUME IInv, NEW c \in Calls, NEW t \in Links, RequestLogin(c, t) PROVE IInv'
<1> USE AuthAssumption DEF AuthAssumption, IInv, RequestLogin, Begin, Goto, Fresh, rows
<1> DEFINE others == {about[d] : d \in Requesting}
<1>1. /\ t \notin others /\ others \subseteq Links
      /\ \A d \in Calls : pc[d] \in Asking => about[d] \in others
  BY DEF Requesting, Open, Asking, TypeOK
<1>2. overlap' = [x \in Links |-> IF x = t THEN others
                                  ELSE IF x \in others THEN overlap[x] \cup {t}
                                  ELSE overlap[x] \ {t}]
  OBVIOUS
<1> HIDE DEF others
<1>3. TypeOK' BY <1>1, <1>2 DEF TypeOK
<1>4. LocksHold' BY DEF LocksHold, TypeOK
<1>5. CallsHaveLinks' BY <1>1 DEF CallsHaveLinks, Asking, Clicking, TypeOK
<1>6. SessionsHaveLinks' BY DEF SessionsHaveLinks
<1>7. OverlapIsMutual'
  <2>1. ASSUME NEW x \in Links, NEW y \in Links, x \in overlap'[y] PROVE y \in overlap'[x]
    BY <1>1, <1>2, <2>1 DEF OverlapIsMutual
  <2>2. ASSUME NEW d \in Calls, NEW e \in Calls, d # e, pc'[d] \in Asking, pc'[e] \in Asking
        PROVE  about'[e] \in overlap'[about'[d]]
    <3>1. CASE d = c BY <1>1, <1>2, <2>2, <3>1 DEF TypeOK
    <3>2. CASE e = c BY <1>1, <1>2, <2>2, <3>2 DEF TypeOK
    <3>3. CASE d # c /\ e # c BY <1>1, <1>2, <2>2, <3>3 DEF OverlapIsMutual, TypeOK
    <3> QED BY <3>1, <3>2, <3>3
  <2> QED BY <2>1, <2>2 DEF OverlapIsMutual
<1>8. NothingOverlooked' BY <1>1, <1>2 DEF NothingOverlooked, CallsHaveLinks, Asking, TypeOK
<1>9. LinkOpensOneSession' /\ OpenLinksWereRaced'
  BY <1>2 DEF LinkOpensOneSession, OpenLinksWereRaced
<1> QED BY <1>3, <1>4, <1>5, <1>6, <1>7, <1>8, <1>9

(* A click begins. *)
LEMMA ClickStep ==
  ASSUME IInv, NEW c \in Calls, NEW t \in Links, Click(c, t) PROVE IInv'
<1> USE AuthAssumption DEF AuthAssumption, IInv, Click, Begin, Goto, rows
<1>1. TypeOK' BY DEF TypeOK
<1>2. LocksHold' BY DEF LocksHold, TypeOK
<1>3. CallsHaveLinks' BY DEF CallsHaveLinks, Asking, Clicking, TypeOK
<1>4. SessionsHaveLinks' BY DEF SessionsHaveLinks
<1>5. OverlapIsMutual' BY DEF OverlapIsMutual, Asking, TypeOK
<1>6. NothingOverlooked' BY DEF NothingOverlooked, TypeOK
<1>7. LinkOpensOneSession' /\ OpenLinksWereRaced' BY DEF LinkOpensOneSession, OpenLinksWereRaced
<1> QED BY <1>1, <1>2, <1>3, <1>4, <1>5, <1>6, <1>7

(* A call ends and leaves nothing. *)
LEMMA RollbackStep == ASSUME IInv, NEW c \in Calls, Rollback(c) PROVE IInv'
<1> USE AuthAssumption DEF AuthAssumption, IInv, Rollback, Close, Goto, rows
<1>1. TypeOK'
  <2>1. (CHOOSE u \in Users : TRUE) \in Users /\ 1 \in Links /\ 0 \in 0 .. MaxClock BY DEF Links
  <2> QED BY <2>1 DEF TypeOK
<1>2. LocksHold' BY DEF LocksHold, TypeOK
<1>3. CallsHaveLinks' BY DEF CallsHaveLinks, Asking, Clicking, TypeOK
<1>4. SessionsHaveLinks' BY DEF SessionsHaveLinks
<1>5. OverlapIsMutual' BY DEF OverlapIsMutual, Asking, TypeOK
<1>6. NothingOverlooked' BY DEF NothingOverlooked, TypeOK
<1>7. LinkOpensOneSession' /\ OpenLinksWereRaced' BY DEF LinkOpensOneSession, OpenLinksWereRaced
<1> QED BY <1>1, <1>2, <1>3, <1>4, <1>5, <1>6, <1>7

(* The statements of a call, before it commits. *)
LEMMA StatementStep ==
  ASSUME IInv, NEW c \in Calls, FindUser(c) \/ CancelOpenLink(c) \/ ConsumeLink(c) PROVE IInv'
<1> USE AuthAssumption DEF AuthAssumption, IInv, Goto, rows
<1>1. UNCHANGED <<clock, active, about, began, link, owner, expires, sessions, opened, overlap>>
  BY DEF FindUser, CancelOpenLink, ConsumeLink
<1>2. SessionsHaveLinks' /\ LinkOpensOneSession' /\ OpenLinksWereRaced'
  BY <1>1 DEF SessionsHaveLinks, LinkOpensOneSession, OpenLinksWereRaced
<1>3. CASE FindUser(c)
  <2> USE <1>3 DEF FindUser
  <2>1. TypeOK' BY <1>1 DEF TypeOK, OpenLinksOf
  <2>2. LocksHold' BY <1>1 DEF LocksHold, TypeOK
  <2>3. CallsHaveLinks' BY <1>1 DEF CallsHaveLinks, Asking, Clicking, TypeOK
  <2>4. OverlapIsMutual' BY <1>1 DEF OverlapIsMutual, Asking, TypeOK
  <2>5. NothingOverlooked' BY <1>1 DEF NothingOverlooked, OpenLinksOf, TypeOK
  <2> QED BY <1>2, <2>1, <2>2, <2>3, <2>4, <2>5
<1>4. CASE CancelOpenLink(c)
  <2> PICK t \in todo[c] :
        /\ \/ /\ link[t] = "open" /\ ~Locked(c, t)
              /\ wrote' = [wrote EXCEPT ![c] = @ \cup {t}]
           \/ link[t] # "open" /\ UNCHANGED wrote
        /\ todo' = [todo EXCEPT ![c] = @ \ {t}]
    BY <1>4 DEF CancelOpenLink
  <2>1. pc[c] = "cancel" /\ pc' = pc /\ user' = user /\ t \in Links
    BY <1>4 DEF CancelOpenLink, TypeOK
  <2>2. TypeOK' BY <1>1, <2>1 DEF TypeOK
  <2>3. LocksHold' BY <1>1, <2>1 DEF LocksHold, Locked, Open, TypeOK
  <2>4. CallsHaveLinks' BY <1>1, <2>1 DEF CallsHaveLinks, TypeOK
  <2>5. OverlapIsMutual' BY <1>1, <2>1 DEF OverlapIsMutual
  <2>6. NothingOverlooked' BY <1>1, <2>1 DEF NothingOverlooked, TypeOK
  <2> QED BY <1>2, <2>2, <2>3, <2>4, <2>5, <2>6
<1>5. CASE ConsumeLink(c)
  <2> USE <1>5 DEF ConsumeLink, Usable
  <2>1. TypeOK' BY <1>1 DEF TypeOK
  <2>2. LocksHold' BY <1>1 DEF LocksHold, Locked, Open, TypeOK
  <2>3. CallsHaveLinks' BY <1>1 DEF CallsHaveLinks, Asking, Clicking, TypeOK
  <2>4. OverlapIsMutual' BY <1>1 DEF OverlapIsMutual, Asking, TypeOK
  <2>5. NothingOverlooked' BY <1>1 DEF NothingOverlooked, TypeOK
  <2> QED BY <1>2, <2>1, <2>2, <2>3, <2>4, <2>5
<1> QED BY <1>3, <1>4, <1>5

(* COMMIT of a request: the link it inserts, and those it cancels. *)
LEMMA CommitRequestStep == ASSUME IInv, NEW c \in Calls, CommitRequest(c) PROVE IInv'
<1> USE AuthAssumption DEF AuthAssumption, IInv, CommitRequest, Close, Goto
<1>1. /\ pc[c] = "cancel" /\ about[c] \in Links /\ link[about[c]] = "none" /\ todo[c] = {}
      /\ about[c] \notin wrote[c] /\ user[c] \in Users
      /\ \A t \in wrote[c] : link[t] = "open"
  BY DEF LocksHold, CallsHaveLinks, Asking, TypeOK
<1>2. TypeOK'
  <2>1. (CHOOSE u \in Users : TRUE) \in Users /\ 1 \in Links /\ 0 \in 0 .. MaxClock BY DEF Links
  <2>2. began[c] + LinkTTL \in Nat BY DEF TypeOK
  <2> QED BY <1>1, <2>1, <2>2 DEF TypeOK
<1>3. LocksHold' BY <1>1 DEF LocksHold, TypeOK
<1>4. CallsHaveLinks' BY <1>1 DEF CallsHaveLinks, LocksHold, Asking, Clicking, TypeOK
<1>5. SessionsHaveLinks' BY <1>1 DEF SessionsHaveLinks, TypeOK
<1>6. OverlapIsMutual' BY DEF OverlapIsMutual, Asking, TypeOK
<1>7. NothingOverlooked'
  BY <1>1 DEF NothingOverlooked, CallsHaveLinks, OverlapIsMutual, Asking, TypeOK
<1>8. LinkOpensOneSession' BY <1>1 DEF LinkOpensOneSession, TypeOK
<1>9. OpenLinksWereRaced'
  <2> SUFFICES ASSUME NEW t \in Links, NEW x \in Links, t # x, owner'[t] = owner'[x],
                      link'[t] = "open", link'[x] = "open"
               PROVE  x \in overlap[t]
    BY DEF OpenLinksWereRaced
  <2>1. CASE t = about[c] BY <1>1, <2>1 DEF NothingOverlooked, TypeOK
  <2>2. CASE x = about[c] BY <1>1, <2>2 DEF NothingOverlooked, OverlapIsMutual, TypeOK
  <2>3. CASE t # about[c] /\ x # about[c] BY <1>1, <2>3 DEF OpenLinksWereRaced, TypeOK
  <2> QED BY <2>1, <2>2, <2>3
<1> QED BY <1>2, <1>3, <1>4, <1>5, <1>6, <1>7, <1>8, <1>9

(* COMMIT of a click: the link is used and its session there. *)
LEMMA CommitSessionStep == ASSUME IInv, NEW c \in Calls, CommitSession(c) PROVE IInv'
<1> USE AuthAssumption DEF AuthAssumption, IInv, CommitSession, Close, Goto
<1>1. /\ pc[c] = "opened" /\ about[c] \in Links /\ link[about[c]] = "open" /\ wrote[c] = {about[c]}
      /\ user[c] = owner[about[c]] /\ began[c] < expires[about[c]] /\ opened[about[c]] = 0
      /\ user[c] \in Users /\ began[c] \in Nat /\ expires[about[c]] \in Nat
  BY DEF LocksHold, CallsHaveLinks, LinkOpensOneSession, TypeOK
<1> DEFINE s == [link |-> about[c], user |-> user[c],
                 nth |-> opened'[about[c]], expires |-> began[c] + SessionTTL]
<1>2. opened'[about[c]] = 1 /\ sessions' = sessions \cup {s} BY <1>1 DEF TypeOK
<1>3. TypeOK'
  <2>1. (CHOOSE u \in Users : TRUE) \in Users /\ 1 \in Links /\ 0 \in 0 .. MaxClock BY DEF Links
  <2>2. s \in [link : Links, user : Users, nth : Nat, expires : Nat] BY <1>1, <1>2
  <2> HIDE DEF s
  <2> QED BY <1>1, <1>2, <2>1, <2>2 DEF TypeOK
<1>4. LocksHold' BY <1>1 DEF LocksHold, TypeOK
<1>5. CallsHaveLinks' BY <1>1 DEF CallsHaveLinks, LocksHold, Asking, Clicking, TypeOK
<1>6. SessionsHaveLinks'
  <2>1. s.link = about[c] /\ s.user = user[c] /\ s.expires = began[c] + SessionTTL OBVIOUS
  <2>2. s.expires < expires[about[c]] + SessionTTL BY <1>1, <2>1
  <2> HIDE DEF s
  <2> QED BY <1>1, <1>2, <2>1, <2>2 DEF SessionsHaveLinks, TypeOK
<1>7. OverlapIsMutual' BY <1>1 DEF OverlapIsMutual, Asking, TypeOK
<1>8. NothingOverlooked' BY <1>1 DEF NothingOverlooked, TypeOK
<1>9. LinkOpensOneSession' BY <1>1, <1>2 DEF LinkOpensOneSession, TypeOK
<1>10. OpenLinksWereRaced' BY <1>1 DEF OpenLinksWereRaced, TypeOK
<1> QED BY <1>3, <1>4, <1>5, <1>6, <1>7, <1>8, <1>9, <1>10

(* Calls of one statement, and the clock. *)
LEMMA OneStatementStep ==
  ASSUME IInv,
         \/ \E u \in Users : \E n \in 1 .. MaxDemo : DemoSession(u, n)
         \/ \E s \in sessions : RevokeSession(s)
         \/ PurgeExpired \/ Tick
  PROVE  IInv'
<1> USE AuthAssumption DEF AuthAssumption, IInv, calls, rows
<1> DEFINE old == {t \in Links : link[t] \notin {"none", "purged"} /\ expires[t] + Grace < clock}
<1>1. /\ UNCHANGED <<calls, active, owner, expires, opened, overlap>>
      /\ clock' \in 0 .. MaxClock
      /\ \/ UNCHANGED link
         \/ /\ link' = [t \in Links |-> IF t \in old THEN "purged" ELSE link[t]]
            /\ \A d \in Open : wrote[d] \cap old = {}
  BY DEF DemoSession, RevokeSession, PurgeExpired, Tick, TypeOK
<1>2. /\ old \subseteq Links /\ \A t \in old : link[t] # "none"
      /\ \/ UNCHANGED link
         \/ link' = [t \in Links |-> IF t \in old THEN "purged" ELSE link[t]]
  BY <1>1
<1>3. \A t \in Links : \/ link'[t] = link[t]
                       \/ link'[t] = "purged" /\ link[t] # "none" /\ \A d \in Calls : t \notin wrote[d]
  BY <1>1 DEF LocksHold, Open, TypeOK
<1>4. \/ sessions' \subseteq sessions
      \/ \E u \in Users, n \in 1 .. MaxDemo :
           /\ u \in DemoOwners
           /\ sessions' = sessions \cup {[demo |-> n, user |-> u, expires |-> clock + DemoTTL]}
  BY DEF DemoSession, RevokeSession, PurgeExpired, Tick
<1> HIDE DEF old
<1>5. TypeOK'
  <2>1. clock + DemoTTL \in Nat BY DEF TypeOK
  <2>2. /\ sessions' \subseteq [link : Links, user : Users, nth : Nat, expires : Nat]
                          \cup [demo : 1 .. MaxDemo, user : DemoOwners, expires : Nat]
    BY <1>4, <2>1 DEF TypeOK
  <2>3. link' \in [Links -> {"none", "open", "used", "cancelled", "purged"}] BY <1>2 DEF TypeOK
  <2> QED BY <1>1, <2>2, <2>3 DEF TypeOK
<1>6. LocksHold'
  <2>1. \A d \in Calls : wrote[d] \subseteq Links BY DEF TypeOK
  <2> QED BY <1>1, <1>3, <2>1 DEF LocksHold
<1>7. CallsHaveLinks' BY <1>1, <1>3 DEF CallsHaveLinks, Clicking, Asking, TypeOK
<1>8. SessionsHaveLinks'
  <2> SUFFICES ASSUME NEW s \in sessions'
               PROVE  \/ "demo" \in DOMAIN s
                      \/ /\ s.link \in Links /\ link'[s.link] # "none"
                         /\ s.user = owner[s.link] /\ s.expires < expires[s.link] + SessionTTL
    BY <1>1 DEF SessionsHaveLinks
  <2>1. CASE s \in sessions BY <1>3, <2>1 DEF SessionsHaveLinks
  <2>2. CASE s \notin sessions
    <3>1. PICK u, n : s = [demo |-> n, user |-> u, expires |-> clock + DemoTTL] BY <1>4, <2>2
    <3> QED BY <3>1
  <2> QED BY <2>1, <2>2
<1>9. OverlapIsMutual' BY <1>1 DEF OverlapIsMutual
<1>10. NothingOverlooked' BY <1>1, <1>3 DEF NothingOverlooked
<1>11. LinkOpensOneSession' BY <1>1, <1>3 DEF LinkOpensOneSession, TypeOK
<1>12. OpenLinksWereRaced' BY <1>1, <1>3 DEF OpenLinksWereRaced
<1> QED BY <1>5, <1>6, <1>7, <1>8, <1>9, <1>10, <1>11, <1>12

LEMMA NextIInv == ASSUME IInv, [Next]_vars PROVE IInv'
<1>1. CASE UNCHANGED vars
  BY <1>1 DEF IInv, vars, TypeOK, LocksHold, CallsHaveLinks, SessionsHaveLinks, OverlapIsMutual,
              NothingOverlooked, LinkOpensOneSession, OpenLinksWereRaced
<1>2. CASE \E c \in Calls, t \in Links : RequestLogin(c, t) \/ Click(c, t)
  BY <1>2, RequestStep, ClickStep
<1>3. ASSUME NEW c \in Calls, Step(c) \/ Fail(c) PROVE IInv'
  <2>1. CASE NobodyFound(c) \/ LinkRefused(c) \/ Fail(c)
    BY <2>1, RollbackStep DEF NobodyFound, LinkRefused, Fail, Rollback
  <2>2. CASE FindUser(c) \/ CancelOpenLink(c) \/ ConsumeLink(c) BY <2>2, StatementStep
  <2>3. CASE CommitRequest(c) BY <2>3, CommitRequestStep
  <2>4. CASE CommitSession(c) BY <2>4, CommitSessionStep
  <2> QED BY <1>3, <2>1, <2>2, <2>3, <2>4 DEF Step
<1> QED BY <1>1, <1>2, <1>3, OneStatementStep DEF Next

(* What the calls rely on, and with it everything below. *)
THEOREM Invariance == Spec => []IInv
<1> QED BY InitIInv, NextIInv, PTL DEF Spec

(* The variables keep their types. *)
THEOREM TypeCorrect == Spec => []TypeOK
<1>1. IInv => TypeOK BY DEF IInv
<1> QED BY Invariance, <1>1, PTL

(* However many clicks, requests and purges run beside each other, a link  *)
(* opens one session if it was used, and none if it was cancelled.         *)
THEOREM OneSession == Spec => []LinkOpensOneSession
<1>1. IInv => LinkOpensOneSession BY DEF IInv
<1> QED BY Invariance, <1>1, PTL

(* Every session that is no demo session is of the user of its link, and   *)
(* was opened in time.                                                     *)
THEOREM Earned == Spec => []SessionsAreEarned
<1>1. IInv => SessionsAreEarned BY DEF IInv, SessionsHaveLinks, SessionsAreEarned
<1> QED BY Invariance, <1>1, PTL

(* Two links of a user are open together only if their requests ran beside *)
(* each other.                                                             *)
THEOREM TwoOpenNeedRace == Spec => []OpenLinksWereRaced
<1>1. IInv => OpenLinksWereRaced BY DEF IInv
<1> QED BY Invariance, <1>1, PTL

----------------------------------------------------------------------------
(* The refinement of SignIn.  Beyond the inductive invariant it rests on   *)
(* what a request knows since it read: its user is still the only active   *)
(* one of the address, and the links it cancels are of that user.          *)
CancelsItsOwn ==
  \A c \in Calls :
    /\ began[c] <= clock
    /\ pc[c] = "cancel" =>
         /\ Holders(Address[user[c]]) = {user[c]}
         /\ \A t \in todo[c] \cup wrote[c] : t \in Links /\ link[t] # "none" /\ owner[t] = user[c]

SignInInv == IInv /\ CancelsItsOwn

LEMMA InitSignIn == ASSUME Init PROVE SignInInv /\ Promise!Init
<1> USE AuthAssumption DEF AuthAssumption
<1>1. CancelsItsOwn BY DEF Init, CancelsItsOwn
<1>2. (CHOOSE u \in Users : TRUE) \in Users OBVIOUS
<1>3. Promise!Init BY <1>2 DEF Init, Promise!Init
<1> QED BY <1>1, <1>3, InitIInv DEF SignInInv

(* A link that is committed keeps its row and its owner, no step changes   *)
(* who is active, and time does not run backwards.                         *)
LEMMA CommittedStays ==
  ASSUME IInv, [Next]_vars
  PROVE  /\ active' = active /\ clock' \in Nat /\ clock <= clock'
         /\ \A t \in Links : link[t] # "none" => link'[t] # "none" /\ owner'[t] = owner[t]
<1> USE AuthAssumption DEF AuthAssumption, IInv, calls, rows
<1>0. clock \in Nat BY DEF TypeOK
<1>1. CASE UNCHANGED vars BY <1>0, <1>1 DEF vars
<1>2. CASE \E c \in Calls, t \in Links : RequestLogin(c, t) \/ Click(c, t)
  BY <1>0, <1>2 DEF RequestLogin, Click
<1>3. ASSUME NEW c \in Calls, Step(c) \/ Fail(c)
      PROVE  /\ active' = active /\ clock' = clock
             /\ \A t \in Links : link[t] # "none" => link'[t] # "none" /\ owner'[t] = owner[t]
  <2>1. CASE CommitRequest(c)
    <3>1. about[c] \in Links /\ link[about[c]] = "none"
      BY <2>1 DEF CommitRequest, CallsHaveLinks, Asking, TypeOK
    <3> QED BY <2>1, <3>1 DEF CommitRequest, Close, TypeOK
  <2>2. CASE CommitSession(c) BY <2>2 DEF CommitSession, Close, TypeOK
  <2>3. CASE NobodyFound(c) \/ LinkRefused(c) \/ Fail(c)
    BY <2>3 DEF NobodyFound, LinkRefused, Fail, Rollback, Close
  <2>4. CASE FindUser(c) \/ CancelOpenLink(c) \/ ConsumeLink(c)
    BY <2>4 DEF FindUser, CancelOpenLink, ConsumeLink
  <2> QED BY <1>3, <2>1, <2>2, <2>3, <2>4 DEF Step
<1>4. CASE \/ \E u \in Users : \E n \in 1 .. MaxDemo : DemoSession(u, n)
           \/ \E s \in sessions : RevokeSession(s)
           \/ PurgeExpired \/ Tick
  BY <1>0, <1>4 DEF DemoSession, RevokeSession, PurgeExpired, Tick, TypeOK
<1> QED BY <1>0, <1>1, <1>2, <1>3, <1>4 DEF Next

(* One call moves, or none; what the others know stays true. *)
LEMMA CancelsItsOwnStep == ASSUME SignInInv, [Next]_vars PROVE CancelsItsOwn'
<1> USE AuthAssumption DEF AuthAssumption, SignInInv, IInv, rows
<1>1. /\ active' = active /\ clock' \in Nat /\ clock \in Nat /\ clock <= clock'
      /\ \A t \in Links : link[t] # "none" => link'[t] # "none" /\ owner'[t] = owner[t]
      /\ \A c \in Calls : began[c] \in Nat
  BY CommittedStays DEF TypeOK
<1>2. \A u \in Users : Holders(Address[u])' = Holders(Address[u]) BY <1>1 DEF Holders
<1>3. CASE UNCHANGED calls
  <2>1. UNCHANGED <<pc, user, began, todo, wrote>> BY <1>3 DEF calls
  <2>2. \A c \in Calls : user[c] \in Users BY DEF TypeOK
  <2>3. ASSUME NEW c \in Calls PROVE began'[c] <= clock' BY <1>1, <2>1 DEF CancelsItsOwn
  <2>4. ASSUME NEW c \in Calls, pc'[c] = "cancel"
        PROVE  /\ Holders(Address[user[c]])' = {user'[c]}
               /\ \A t \in todo'[c] \cup wrote'[c] : t \in Links /\ link'[t] # "none" /\ owner'[t] = user'[c]
    BY <1>1, <2>1, <2>4 DEF CancelsItsOwn, Holders
  <2> QED BY <2>1, <2>3, <2>4 DEF CancelsItsOwn
<1>4. ASSUME NEW c \in Calls,
             \A d \in Calls \ {c} : /\ pc'[d] = pc[d] /\ user'[d] = user[d] /\ began'[d] = began[d]
                                    /\ todo'[d] = todo[d] /\ wrote'[d] = wrote[d],
             began'[c] <= clock',
             pc'[c] = "cancel" =>
               /\ Holders(Address[user'[c]]) = {user'[c]}
               /\ \A t \in todo'[c] \cup wrote'[c] : t \in Links /\ link[t] # "none" /\ owner[t] = user'[c]
      PROVE  CancelsItsOwn'
  <2>1. ASSUME NEW d \in Calls, d # c
        PROVE  /\ began'[d] <= clock'
               /\ pc'[d] = "cancel" =>
                    /\ Holders(Address[user'[d]]) = {user'[d]}
                    /\ \A t \in todo'[d] \cup wrote'[d] : t \in Links /\ link[t] # "none" /\ owner[t] = user'[d]
    BY <1>1, <1>4, <2>1 DEF CancelsItsOwn
  <2> QED BY <1>1, <1>4, <2>1 DEF CancelsItsOwn, Holders
<1>5. ASSUME NEW c \in Calls, NEW t \in Links, RequestLogin(c, t) \/ Click(c, t) PROVE CancelsItsOwn'
  <2>1. /\ pc' = [pc EXCEPT ![c] = IF RequestLogin(c, t) THEN "find" ELSE "consume"]
        /\ began' = [began EXCEPT ![c] = clock] /\ clock' = clock
        /\ UNCHANGED <<user, todo, wrote>>
    BY <1>5 DEF RequestLogin, Click, Begin, Goto, TypeOK
  <2> QED BY <1>1, <1>4, <2>1 DEF TypeOK
<1>6. ASSUME NEW c \in Calls, Close(c) PROVE CancelsItsOwn'
  BY <1>1, <1>4, <1>6 DEF Close, Goto, TypeOK
<1>7. ASSUME NEW c \in Calls, FindUser(c) PROVE CancelsItsOwn'
  <2>1. /\ pc[c] = "find" /\ began' = began /\ wrote' = wrote /\ clock' = clock
        /\ Holders(Address[user'[c]]) = {user'[c]} /\ todo'[c] = OpenLinksOf(user'[c])
        /\ \A d \in Calls \ {c} : pc'[d] = pc[d] /\ user'[d] = user[d] /\ todo'[d] = todo[d]
    BY <1>7 DEF FindUser, Goto, TypeOK
  <2>2. wrote'[c] = {} /\ began'[c] <= clock' BY <2>1 DEF LocksHold, CancelsItsOwn
  <2> QED BY <1>1, <1>4, <2>1, <2>2 DEF OpenLinksOf
<1>8. ASSUME NEW c \in Calls, CancelOpenLink(c) PROVE CancelsItsOwn'
  <2>1. /\ pc[c] = "cancel" /\ pc' = pc /\ began' = began /\ user' = user /\ clock' = clock
        /\ todo'[c] \cup wrote'[c] \subseteq todo[c] \cup wrote[c]
        /\ \A d \in Calls \ {c} : wrote'[d] = wrote[d] /\ todo'[d] = todo[d]
    BY <1>8 DEF CancelOpenLink, TypeOK
  <2>2. /\ began'[c] <= clock' /\ Holders(Address[user'[c]]) = {user'[c]}
        /\ \A t \in todo'[c] \cup wrote'[c] : t \in Links /\ link[t] # "none" /\ owner[t] = user'[c]
    BY <2>1 DEF CancelsItsOwn
  <2> QED BY <1>4, <2>1, <2>2
<1>9. ASSUME NEW c \in Calls, ConsumeLink(c) PROVE CancelsItsOwn'
  <2>1. /\ pc'[c] = "opened" /\ began' = began /\ clock' = clock
        /\ \A d \in Calls \ {c} : /\ pc'[d] = pc[d] /\ user'[d] = user[d]
                                  /\ wrote'[d] = wrote[d] /\ todo'[d] = todo[d]
    BY <1>9 DEF ConsumeLink, Goto, TypeOK
  <2>2. began'[c] <= clock' BY <2>1 DEF CancelsItsOwn
  <2> QED BY <1>4, <2>1, <2>2
<1>10. ASSUME NEW c \in Calls, Step(c) \/ Fail(c) PROVE CancelsItsOwn'
  BY <1>6, <1>7, <1>8, <1>9, <1>10
     DEF Step, Fail, Rollback, NobodyFound, LinkRefused, CommitRequest, CommitSession
<1>11. CASE \/ \E u \in Users : \E n \in 1 .. MaxDemo : DemoSession(u, n)
            \/ \E s \in sessions : RevokeSession(s)
            \/ PurgeExpired \/ Tick
  BY <1>3, <1>11 DEF DemoSession, RevokeSession, PurgeExpired, Tick
<1>12. CASE UNCHANGED vars BY <1>3, <1>12 DEF vars, calls
<1> QED BY <1>5, <1>10, <1>11, <1>12 DEF Next

promised == <<clock, active, link, owner, expires, sessions>>

(* COMMIT of a request issues its link and cancels those it has written. *)
LEMMA IssueStep ==
  ASSUME SignInInv, NEW c \in Calls, CommitRequest(c)
  PROVE  Promise!Issue(about[c], user[c], began[c])
<1> USE DEF SignInInv, IInv, CommitRequest
<1>1. /\ pc[c] = "cancel" /\ about[c] \in Links /\ link[about[c]] = "none" /\ user[c] \in Users
      /\ UNCHANGED <<clock, active, sessions>>
  BY DEF CallsHaveLinks, Asking, TypeOK, Close
<1>2. user[c] \in active /\ \A v \in active : Address[v] = Address[user[c]] => v = user[c]
  BY <1>1 DEF CancelsItsOwn, Holders
<1>3. wrote[c] \in SUBSET {x \in Links : link[x] = "open" /\ owner[x] = user[c]}
  BY <1>1 DEF CancelsItsOwn, LocksHold, TypeOK
<1>4. link' = [x \in Links |-> IF x = about[c] THEN "open"
                               ELSE IF x \in wrote[c] THEN "cancelled" ELSE link[x]]
  OBVIOUS
<1>5. \E others \in SUBSET {x \in Links : link[x] = "open" /\ owner[x] = user[c]} :
         link' = [x \in Links |-> IF x = about[c] THEN "open"
                                  ELSE IF x \in others THEN "cancelled" ELSE link[x]]
  <2> HIDE DEF SignInInv, IInv, CommitRequest
  <2> WITNESS wrote[c] \in SUBSET {x \in Links : link[x] = "open" /\ owner[x] = user[c]}
  <2> QED BY <1>4
<1> QED BY <1>1, <1>2, <1>5 DEF Promise!Issue

(* COMMIT of a click exchanges its link for the session. *)
LEMMA ExchangeStep ==
  ASSUME SignInInv, NEW c \in Calls, CommitSession(c)
  PROVE  Promise!Exchange(about[c], began[c])
<1> USE DEF SignInInv, IInv, CommitSession
<1>1. /\ about[c] \in Links /\ link[about[c]] = "open" /\ user[c] = owner[about[c]]
      /\ began[c] < expires[about[c]] /\ opened[about[c]] = 0
  BY DEF LocksHold, CallsHaveLinks, LinkOpensOneSession, TypeOK
<1>2. opened'[about[c]] = 1 BY <1>1 DEF TypeOK
<1>3. /\ link' = [link EXCEPT ![about[c]] = "used"]
      /\ sessions' = sessions \cup {[link |-> about[c], user |-> owner[about[c]],
                                     nth |-> 1, expires |-> began[c] + SessionTTL]}
      /\ UNCHANGED <<clock, active, owner, expires>>
  BY <1>1, <1>2 DEF Close
<1> QED BY <1>1, <1>3 DEF Promise!Exchange

(* Every step of the calls is a step of the promise or leaves it alone. *)
LEMMA SignInStep == ASSUME SignInInv, [Next]_vars PROVE [Promise!Next]_promised
<1> USE DEF promised
<1>1. CASE UNCHANGED vars BY <1>1 DEF vars
<1>2. CASE \E c \in Calls, t \in Links : RequestLogin(c, t) \/ Click(c, t)
  BY <1>2 DEF RequestLogin, Click, rows
<1>3. ASSUME NEW c \in Calls, Step(c) \/ Fail(c) PROVE [Promise!Next]_promised
  <2>1. about[c] \in Links /\ user[c] \in Users /\ began[c] \in 0 .. clock
    BY DEF SignInInv, IInv, TypeOK, CancelsItsOwn
  <2>2. CASE CommitRequest(c)
    <3>1. Promise!Issue(about[c], user[c], began[c]) BY <2>2, IssueStep
    <3> QED BY <2>1, <3>1 DEF Promise!Next
  <2>3. CASE CommitSession(c)
    <3>1. Promise!Exchange(about[c], began[c]) BY <2>3, ExchangeStep
    <3> QED BY <2>1, <3>1 DEF Promise!Next
  <2>4. CASE NobodyFound(c) \/ LinkRefused(c) \/ Fail(c)
    BY <2>4 DEF NobodyFound, LinkRefused, Fail, Rollback, Close, rows
  <2>5. CASE FindUser(c) \/ CancelOpenLink(c) \/ ConsumeLink(c)
    BY <2>5 DEF FindUser, CancelOpenLink, ConsumeLink, rows
  <2> QED BY <1>3, <2>2, <2>3, <2>4, <2>5 DEF Step
<1>4. ASSUME NEW u \in Users, NEW n \in 1 .. MaxDemo, DemoSession(u, n) PROVE Promise!Next
  <2>1. Promise!Demonstrate(u, n) BY <1>4 DEF DemoSession, Promise!Demonstrate
  <2> QED BY <2>1 DEF Promise!Next
<1>5. ASSUME NEW s \in sessions, RevokeSession(s) PROVE Promise!Next
  <2>1. Promise!Revoke(s) BY <1>5 DEF RevokeSession, Promise!Revoke
  <2> QED BY <2>1 DEF Promise!Next
<1>6. CASE PurgeExpired
  <2>1. /\ sessions' = {s \in sessions : s.expires >= clock}
        /\ UNCHANGED <<clock, active, owner, expires>>
        /\ link' = [t \in Links |->
             IF t \in {x \in Links : link[x] \notin {"none", "purged"} /\ expires[x] + Grace < clock}
             THEN "purged" ELSE link[t]]
    BY <1>6 DEF PurgeExpired
  <2>2. link' = [t \in Links |-> IF link[t] # "none" /\ expires[t] + Grace < clock
                                 THEN "purged" ELSE link[t]]
    BY <2>1
  <2>3. Promise!Purge BY <2>1, <2>2 DEF Promise!Purge
  <2> QED BY <2>3 DEF Promise!Next
<1>7. CASE Tick
  <2>1. Promise!TimePasses BY <1>7 DEF Tick, rows, Promise!TimePasses
  <2> QED BY <2>1 DEF Promise!Next
<1> QED BY <1>1, <1>2, <1>3, <1>4, <1>5, <1>6, <1>7 DEF Next

(* The calls, interleaved and waiting for each other's rows, implement the *)
(* login of SignIn, where a link is exchanged for its session in one step  *)
(* and what was used, cancelled or purged stays so.                        *)
THEOREM Implementation == Spec => ImplementsSignIn
<1>1. SignInInv /\ [Next]_vars => SignInInv'
  BY NextIInv, CancelsItsOwnStep DEF SignInInv
<1>2. Spec => []SignInInv BY <1>1, InitSignIn, PTL DEF Spec
<1>3. Init => Promise!Init BY InitSignIn
<1>4. SignInInv /\ [Next]_vars => [Promise!Next]_<<clock, active, link, owner, expires, sessions>>
  BY SignInStep DEF promised
<1> QED BY <1>2, <1>3, <1>4, PTL DEF Spec, ImplementsSignIn, Promise!Spec

----------------------------------------------------------------------------
(* Who waits for whom.  A request waits for the row its UPDATE has come    *)
(* to, a click for the row of its link; the purge, one step here, waits    *)
(* and holds nothing.                                                      *)
WaitsFor(c, d) ==
  /\ c # d /\ d \in Open
  /\ \/ pc[c] = "cancel" /\ \E t \in todo[c] \cap wrote[d] : \A x \in todo[c] : t <= x
     \/ pc[c] = "consume" /\ Usable(c) /\ about[c] \in wrote[d]

(* In any set of calls one waits for no other of the set. *)
NobodyWaitsInACircle ==
  \A S \in SUBSET Open : S # {} => \E c \in S : \A d \in S : ~WaitsFor(c, d)

(* The scan of the UPDATE goes up: what it has written lies behind it. *)
ScansAscend ==
  \A c \in Calls : pc[c] = "cancel" => \A w \in wrote[c], x \in todo[c] : w < x

LEMMA ScansStep == ASSUME IInv, ScansAscend, [Next]_vars PROVE ScansAscend'
<1> USE DEF IInv
<1>1. ASSUME NEW c \in Calls,
             \A d \in Calls \ {c} : pc'[d] = pc[d] /\ todo'[d] = todo[d] /\ wrote'[d] = wrote[d],
             pc'[c] = "cancel" => \A w \in wrote'[c], x \in todo'[c] : w < x
      PROVE  ScansAscend'
  BY <1>1 DEF ScansAscend
<1>2. CASE UNCHANGED vars BY <1>2 DEF vars, ScansAscend
<1>3. ASSUME NEW c \in Calls, NEW t \in Links, RequestLogin(c, t) \/ Click(c, t) PROVE ScansAscend'
  BY <1>1, <1>3 DEF RequestLogin, Click, Begin, Goto, TypeOK
<1>4. ASSUME NEW c \in Calls, Close(c) PROVE ScansAscend' BY <1>1, <1>4 DEF Close, Goto, TypeOK
<1>5. ASSUME NEW c \in Calls, FindUser(c) PROVE ScansAscend'
  <2>1. wrote'[c] = {} BY <1>5 DEF FindUser, LocksHold
  <2> QED BY <1>1, <1>5, <2>1 DEF FindUser, Goto, TypeOK
<1>6. ASSUME NEW c \in Calls, CancelOpenLink(c) PROVE ScansAscend'
  <2> PICK t \in todo[c] :
        /\ \A x \in todo[c] : t <= x
        /\ \/ wrote' = [wrote EXCEPT ![c] = @ \cup {t}]
           \/ UNCHANGED wrote
        /\ todo' = [todo EXCEPT ![c] = @ \ {t}]
    BY <1>6 DEF CancelOpenLink
  <2>1. /\ pc[c] = "cancel" /\ pc' = pc /\ todo[c] \subseteq Links /\ wrote[c] \subseteq Links
        /\ todo'[c] = todo[c] \ {t} /\ wrote'[c] \subseteq wrote[c] \cup {t}
    BY <1>6 DEF CancelOpenLink, TypeOK
  <2>2. \A x \in todo'[c] : t < x BY <2>1 DEF Links
  <2>3. \A w \in wrote'[c], x \in todo'[c] : w < x BY <2>1, <2>2 DEF ScansAscend
  <2> QED BY <1>1, <2>1, <2>3 DEF TypeOK
<1>7. ASSUME NEW c \in Calls, ConsumeLink(c) PROVE ScansAscend'
  BY <1>1, <1>7 DEF ConsumeLink, Goto, TypeOK
<1>8. ASSUME NEW c \in Calls, Step(c) \/ Fail(c) PROVE ScansAscend'
  BY <1>4, <1>5, <1>6, <1>7, <1>8
     DEF Step, Fail, Rollback, NobodyFound, LinkRefused, CommitRequest, CommitSession
<1>9. CASE \/ \E u \in Users : \E n \in 1 .. MaxDemo : DemoSession(u, n)
           \/ \E s \in sessions : RevokeSession(s)
           \/ PurgeExpired \/ Tick
  BY <1>9 DEF DemoSession, RevokeSession, PurgeExpired, Tick, calls, ScansAscend
<1> QED BY <1>2, <1>3, <1>8, <1>9 DEF Next

(* A bounded set of links has a last one. *)
LEMMA LastLink == ASSUME NEW S, S \subseteq Links, S # {} PROVE \E t \in S : \A x \in S : x <= t
<1> USE AuthAssumption DEF AuthAssumption, Links
<1> DEFINE B == {MaxLinks - x : x \in S}
<1>1. B \subseteq Nat /\ B # {}
  <2>1. \A x \in S : MaxLinks - x \in Nat OBVIOUS
  <2> QED BY <2>1
<1>2. PICK b \in B : \A y \in B : ~(<<y, b>> \in OpToRel(<, Nat))
  BY <1>1, WFMin, NatLessThanWellFounded
<1>3. PICK t \in S : b = MaxLinks - t OBVIOUS
<1>4. ASSUME NEW x \in S PROVE x <= t
  <2>1. ~(MaxLinks - x < MaxLinks - t) BY <1>1, <1>2, <1>3 DEF OpToRel
  <2> QED BY <2>1
<1> QED BY <1>4

(* If each of them waited for another, those that are waited for would be  *)
(* requests that have come further; the one that has come furthest waits   *)
(* for nobody.                                                             *)
LEMMA Furthest == ASSUME IInv, ScansAscend PROVE NobodyWaitsInACircle
<1> USE DEF IInv
<1> SUFFICES ASSUME NEW S \in SUBSET Open, S # {}, \A c \in S : \E d \in S : WaitsFor(c, d)
             PROVE  FALSE
  BY DEF NobodyWaitsInACircle
<1>1. S \subseteq Calls /\ \A c \in Calls : todo[c] \subseteq Links /\ wrote[c] \subseteq Links
  BY DEF Open, TypeOK
<1>2. ASSUME NEW c \in S, NEW d \in S, WaitsFor(c, d) PROVE pc[d] = "cancel" /\ wrote[d] # {}
  <2>1. wrote[d] # {} /\ pc[d] \notin {"find", "consume", "idle"} BY <1>1, <1>2 DEF WaitsFor, LocksHold
  <2>2. PICK e \in S : WaitsFor(d, e) OBVIOUS
  <2> QED BY <2>1, <2>2 DEF WaitsFor
<1> DEFINE Least(c, t) == t \in todo[c] /\ \A x \in todo[c] : t <= x
           T == {t \in Links : \E c \in S : pc[c] = "cancel" /\ Least(c, t)}
<1>3. ASSUME NEW c \in S, pc[c] = "cancel" PROVE \E t \in T : Least(c, t)
  <2>1. PICK d \in S : WaitsFor(c, d) OBVIOUS
  <2> QED BY <1>1, <1>3, <2>1 DEF WaitsFor
<1>4. T # {}
  <2>1. PICK c \in S, d \in S : WaitsFor(c, d) OBVIOUS
  <2>2. pc[d] = "cancel" BY <1>2, <2>1
  <2> QED BY <1>3, <2>2
<1>5. PICK t \in T : \A x \in T : x <= t BY <1>4, LastLink
<1>6. PICK c \in S : pc[c] = "cancel" /\ Least(c, t) OBVIOUS
<1>7. PICK d \in S : WaitsFor(c, d) OBVIOUS
<1>8. t \in wrote[d]
  <2>1. PICK x \in todo[c] \cap wrote[d] : \A y \in todo[c] : x <= y BY <1>6, <1>7 DEF WaitsFor
  <2>2. x \in Nat /\ t \in Nat /\ x <= t /\ t <= x BY <1>1, <1>6, <2>1 DEF Links
  <2> QED BY <2>1, <2>2
<1>9. pc[d] = "cancel" BY <1>2, <1>7
<1>10. PICK x \in T : Least(d, x) BY <1>3, <1>9
<1>11. t < x BY <1>1, <1>8, <1>9, <1>10 DEF ScansAscend
<1> QED BY <1>5, <1>11 DEF Links

(* What FindUser says of the order of the scan: requests and clicks, of    *)
(* however many connections, never wait for each other in a circle, so     *)
(* Postgres has no deadlock to break.                                      *)
THEOREM NoDeadlock == Spec => []NobodyWaitsInACircle
<1>1. Init => ScansAscend BY DEF Init, ScansAscend
<1>2. IInv /\ ScansAscend /\ [Next]_vars => ScansAscend' BY ScansStep
<1>3. IInv /\ ScansAscend => NobodyWaitsInACircle BY Furthest
<1> QED BY <1>1, <1>2, <1>3, Invariance, PTL DEF Spec
=============================================================================
