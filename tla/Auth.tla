-------------------------------- MODULE Auth --------------------------------
(***************************************************************************)
(* Staff login: the SECURITY DEFINER functions of                          *)
(* packages/db/migrations/0004_auth.sql and 0006_demo_login.sql, each      *)
(* called in a transaction of its own (packages/db/src/auth.ts).  A link   *)
(* is a row of login_tokens; a click on it is auth_consume_login_token.    *)
(* Every statement of a function sees what is committed when it starts,    *)
(* an UPDATE waits for rows that another call has written, and now() is    *)
(* the time at which the transaction began.                                *)
(*                                                                         *)
(* auth_issue_login_token counts the active users of the address and then  *)
(* reads the one it found: one step here, and no operation of the          *)
(* repository changes users.status.  auth_resolve_session only reads, but  *)
(* for sessions.last_seen_at, which nothing else reads: it is left out.    *)
(***************************************************************************)
EXTENDS Naturals, FiniteSets

CONSTANTS Users,        \* users rows
          Address,      \* users.email
          DemoOwners,   \* owners of the demo tenants that the environment allows
          MaxLinks,     \* bound: login_tokens rows
          Calls,        \* connections, each running one call at a time
          LinkTTL, SessionTTL, DemoTTL, Grace,   \* in ticks of the clock
          MaxClock, MaxDemo                      \* bounds of the instance

ASSUME AuthAssumption ==
  /\ LinkTTL \in Nat /\ SessionTTL \in Nat /\ DemoTTL \in Nat /\ Grace \in Nat
  /\ MaxClock \in Nat /\ MaxDemo \in Nat
  /\ DemoOwners \subseteq Users /\ Users # {} /\ MaxLinks \in Nat \ {0}

VARIABLES clock,
          active,    \* users whose status is active
          link,      \* the committed row of each link
          owner,     \* login_tokens.user_id
          expires,   \* login_tokens.expires_at
          sessions,  \* committed sessions rows
          pc,        \* where each call is
          about,     \* the link a call inserts or consumes
          user,      \* the user it found
          began,     \* its now()
          todo,      \* open links the cancelling UPDATE has still to write
          wrote,     \* links the call has written: its row locks
          opened,    \* history: sessions that each link has ever opened
          overlap    \* history: links requested by calls open at the same time

vars == <<clock, active, link, owner, expires, sessions,
          pc, about, user, began, todo, wrote, opened, overlap>>
calls == <<pc, about, user, began, todo, wrote>>
rows == <<link, owner, expires, sessions, opened>>

Links == 1 .. MaxLinks

TypeOK ==
  /\ clock \in 0 .. MaxClock
  /\ active \subseteq Users
  /\ link \in [Links -> {"none", "open", "used", "cancelled", "purged"}]
  /\ owner \in [Links -> Users]
  /\ expires \in [Links -> Nat]
  /\ sessions \subseteq [link : Links, user : Users, nth : Nat, expires : Nat]
                  \cup [demo : 1 .. MaxDemo, user : DemoOwners, expires : Nat]
  /\ pc \in [Calls -> {"idle", "find", "cancel", "consume", "opened"}]
  /\ about \in [Calls -> Links]
  /\ user \in [Calls -> Users]
  /\ began \in [Calls -> 0 .. MaxClock]
  /\ todo \in [Calls -> SUBSET Links]
  /\ wrote \in [Calls -> SUBSET Links]
  /\ opened \in [Links -> Nat]
  /\ overlap \in [Links -> SUBSET Links]

----------------------------------------------------------------------------
Open == {c \in Calls : pc[c] # "idle"}

Requesting == {c \in Open : pc[c] \in {"find", "cancel"}}

\* Variant: row locks are not respected.
NeverLocked(c, t) == FALSE

Locked(c, t) == \E d \in Open \ {c} : t \in wrote[d]

\* Variant: without the expiry.
UsableForEver(c) == link[about[c]] = "open"

(* The WHERE of auth_consume_login_token. *)
Usable(c) == link[about[c]] = "open" /\ began[c] < expires[about[c]]

Init ==
  /\ clock = 0
  /\ active \in SUBSET Users
  /\ link = [t \in Links |-> "none"]
  /\ owner = [t \in Links |-> CHOOSE u \in Users : TRUE]
  /\ expires = [t \in Links |-> 0]
  /\ sessions = {}
  /\ pc = [c \in Calls |-> "idle"]
  /\ about = [c \in Calls |-> 1]
  /\ user = [c \in Calls |-> CHOOSE u \in Users : TRUE]
  /\ began = [c \in Calls |-> 0]
  /\ todo = [c \in Calls |-> {}]
  /\ wrote = [c \in Calls |-> {}]
  /\ opened = [t \in Links |-> 0]
  /\ overlap = [t \in Links |-> {}]

Goto(c, label) == pc' = [pc EXCEPT ![c] = label]

Begin(c, label, t) ==
  /\ pc[c] = "idle" /\ Goto(c, label)
  /\ about' = [about EXCEPT ![c] = t]
  /\ began' = [began EXCEPT ![c] = clock]

(* The transaction is over and the connection back in the pool. *)
Close(c) ==
  /\ Goto(c, "idle")
  /\ about' = [about EXCEPT ![c] = 1]
  /\ user' = [user EXCEPT ![c] = CHOOSE u \in Users : TRUE]
  /\ began' = [began EXCEPT ![c] = 0]
  /\ todo' = [todo EXCEPT ![c] = {}]
  /\ wrote' = [wrote EXCEPT ![c] = {}]
  /\ UNCHANGED <<clock, active, overlap>>

----------------------------------------------------------------------------
(* A token that no link has and no running request has drawn. *)
Fresh(t) == link[t] = "none" /\ \A d \in Requesting : about[d] # t

(* requestLogin draws a new token and asks for the link of an address. *)
RequestLogin(c, t) ==
  /\ Fresh(t) /\ \A x \in 1 .. t - 1 : ~Fresh(x)
  /\ Begin(c, "find", t)
  /\ LET others == {about[d] : d \in Requesting}
     IN  overlap' = [x \in Links |-> IF x = t THEN others
                                     ELSE IF x \in others THEN overlap[x] \cup {t}
                                     ELSE overlap[x] \ {t}]
  /\ UNCHANGED <<clock, active, user, todo, wrote, rows>>

Holders(address) == {u \in active : Address[u] = address}

\* Variant: links that have expired are not cancelled.
ValidLinksOf(u) == {t \in Links : link[t] = "open" /\ owner[t] = u /\ clock < expires[t]}

OpenLinksOf(u) == {t \in Links : link[t] = "open" /\ owner[t] = u}

(* The address of the request is chosen here, where it is first read.      *)
(* No link unless exactly one active user has the address.  The UPDATE     *)
(* that follows will visit the open links of that user that are committed  *)
(* when it starts, in the order of the scan: the same one in every call,   *)
(* and a click writes one row only, so no cycle of waiting calls arises.   *)
FindUser(c) ==
  /\ pc[c] = "find"
  /\ \E u \in Users :
       /\ Holders(Address[u]) = {u}
       /\ user' = [user EXCEPT ![c] = u]
  /\ Goto(c, "cancel")
  /\ todo' = [todo EXCEPT ![c] = OpenLinksOf(user'[c])]
  /\ UNCHANGED <<clock, active, about, began, wrote, rows, overlap>>

NobodyFound(c) ==
  /\ pc[c] = "find"
  /\ \E u \in Users : Cardinality(Holders(Address[u])) # 1
  /\ Close(c) /\ UNCHANGED rows

(* A new request cancels the previous link: row by row, waiting for a row  *)
(* that another call has written and then leaving it if it is consumed.    *)
CancelOpenLink(c) ==
  /\ pc[c] = "cancel"
  /\ \E t \in todo[c] :
       /\ \A x \in todo[c] : t <= x
       /\ \/ /\ link[t] = "open" /\ ~Locked(c, t)
             /\ wrote' = [wrote EXCEPT ![c] = @ \cup {t}]
          \/ link[t] # "open" /\ UNCHANGED wrote
       /\ todo' = [todo EXCEPT ![c] = @ \ {t}]
  /\ UNCHANGED <<clock, active, pc, about, user, began, rows, overlap>>

(* The INSERT of the new link and COMMIT. *)
CommitRequest(c) ==
  /\ pc[c] = "cancel" /\ todo[c] = {}
  /\ link' = [t \in Links |-> IF t = about[c] THEN "open"
                              ELSE IF t \in wrote[c] THEN "cancelled" ELSE link[t]]
  /\ owner' = [owner EXCEPT ![about[c]] = user[c]]
  /\ expires' = [expires EXCEPT ![about[c]] = began[c] + LinkTTL]
  /\ Close(c) /\ UNCHANGED <<sessions, opened>>

(* A click on a link, or the second click on it. *)
Click(c, t) ==
  /\ link[t] # "none"
  /\ Begin(c, "consume", t)
  /\ UNCHANGED <<clock, active, user, todo, wrote, rows, overlap>>

ConsumeLink(c) ==
  /\ pc[c] = "consume" /\ Usable(c) /\ ~Locked(c, about[c])
  /\ wrote' = [wrote EXCEPT ![c] = {about[c]}]
  /\ user' = [user EXCEPT ![c] = owner[about[c]]]
  /\ Goto(c, "opened")
  /\ UNCHANGED <<clock, active, about, began, todo, rows, overlap>>

(* Used, cancelled, expired or purged: the click is sent back to sign in. *)
LinkRefused(c) ==
  /\ pc[c] = "consume" /\ ~Usable(c)
  /\ Close(c) /\ UNCHANGED rows

(* The session is committed together with the consumption of its link. *)
CommitSession(c) ==
  /\ pc[c] = "opened"
  /\ link' = [link EXCEPT ![about[c]] = "used"]
  /\ opened' = [opened EXCEPT ![about[c]] = @ + 1]
  /\ sessions' = sessions \cup {[link |-> about[c], user |-> user[c],
                                 nth |-> opened'[about[c]], expires |-> began[c] + SessionTTL]}
  /\ Close(c) /\ UNCHANGED <<owner, expires>>

(* ROLLBACK: the connection is lost or a statement fails. *)
Rollback(c) == Close(c) /\ UNCHANGED rows

Fail(c) == c \in Open /\ Rollback(c)

----------------------------------------------------------------------------
(* Calls of one statement. *)

\* Variant: any active user of the tenant.
DemoSessionForAll(u, n) ==
  /\ u \in active
  /\ ~\E s \in sessions : "demo" \in DOMAIN s /\ s.demo = n
  /\ sessions' = sessions \cup {[demo |-> n, user |-> u, expires |-> clock + DemoTTL]}
  /\ UNCHANGED <<clock, active, link, owner, expires, calls, opened, overlap>>

(* auth_demo_session: only for an active owner of an allowed demo tenant. *)
DemoSession(u, n) ==
  /\ u \in DemoOwners \cap active
  /\ ~\E s \in sessions : "demo" \in DOMAIN s /\ s.demo = n
  /\ sessions' = sessions \cup {[demo |-> n, user |-> u, expires |-> clock + DemoTTL]}
  /\ UNCHANGED <<clock, active, link, owner, expires, calls, opened, overlap>>

RevokeSession(s) ==
  /\ sessions' = sessions \ {s}
  /\ UNCHANGED <<clock, active, link, owner, expires, calls, opened, overlap>>

(* auth_purge_expired.  A link that a call has written is waited for. *)
PurgeExpired ==
  LET old == {t \in Links : link[t] \notin {"none", "purged"} /\ expires[t] + Grace < clock}
  IN  /\ \A c \in Open : wrote[c] \cap old = {}
      /\ link' = [t \in Links |-> IF t \in old THEN "purged" ELSE link[t]]
      /\ sessions' = {s \in sessions : s.expires >= clock}
      /\ UNCHANGED <<clock, active, owner, expires, calls, opened, overlap>>

Tick ==
  /\ clock < MaxClock
  /\ clock' = clock + 1
  /\ UNCHANGED <<active, rows, calls, overlap>>

Step(c) ==
  \/ FindUser(c) \/ NobodyFound(c) \/ CancelOpenLink(c) \/ CommitRequest(c)
  \/ ConsumeLink(c) \/ LinkRefused(c) \/ CommitSession(c)

Next ==
  \/ \E c \in Calls, t \in Links : RequestLogin(c, t) \/ Click(c, t)
  \/ \E c \in Calls : Step(c) \/ Fail(c)
  \/ \E u \in Users : \E n \in 1 .. MaxDemo : DemoSession(u, n)
  \/ \E s \in sessions : RevokeSession(s)
  \/ PurgeExpired \/ Tick

Spec == Init /\ [][Next]_vars

----------------------------------------------------------------------------
(* A link opens one session if it was used and none if a newer request     *)
(* cancelled it, whatever clicks and requests run at the same time.        *)
LinkOpensOneSession ==
  \A t \in Links :
    /\ link[t] = "used" => opened[t] = 1
    /\ link[t] = "purged" => opened[t] <= 1
    /\ link[t] \in {"none", "open", "cancelled"} => opened[t] = 0

(* A session belongs to the user its link was issued to, and was opened    *)
(* while the link was valid, also when the click had to wait; any other    *)
(* session is a demo session.                                              *)
SessionsAreEarned ==
  \A s \in sessions :
    \/ "demo" \in DOMAIN s
    \/ s.user = owner[s.link] /\ s.expires < expires[s.link] + SessionTTL

(* Two links of a user are open together only if the requests for them     *)
(* ran at the same time: a request cancels every link that was committed.  *)
OpenLinksWereRaced ==
  \A t1, t2 \in Links :
    t1 # t2 /\ link[t1] = "open" /\ link[t2] = "open" /\ owner[t1] = owner[t2] =>
      t2 \in overlap[t1]

(* The calls, whose statements interleave and wait for each other's rows,  *)
(* are together the login that acts in one step: a link is exchanged for   *)
(* its session at once, and whatever was used, cancelled or purged stays   *)
(* so, although clicks, requests and purges decide on rows that change.    *)
Promise == INSTANCE SignIn

ImplementsSignIn == Promise!Spec

(* The comment of auth_issue_login_token and the test of auth.test.ts say: *)
(* a new request cancels the old link.  So a user never has two.           *)
OneOpenLink ==
  \A t1, t2 \in Links :
    t1 # t2 /\ link[t1] = "open" /\ link[t2] = "open" => owner[t1] # owner[t2]
=============================================================================
