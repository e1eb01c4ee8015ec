------------------------------ MODULE Console ------------------------------
(***************************************************************************)
(* Sign-in to the console of the platform (packages/db/src/platform-auth.ts*)
(* with its routes, apps/web/lib/platform-session.ts, 0011_platform_admin):*)
(* attempts are counted per address, judged and recorded in three steps of *)
(* their own; sessions live for some hours and only while the environment  *)
(* names their email; the audit is append only, which stops the purge.     *)
(* migrate() and seedDefaultPackages(), which go first, are Migrate and    *)
(* Packages.                                                               *)
(***************************************************************************)
EXTENDS Integers, Sequences, FiniteSets

CONSTANTS Tries,        \* requests, each carrying one attempt at a time
          Addresses,    \* where they come from
          Emails,       \* what PLATFORM_ADMIN_EMAIL may say, or Off
          LockoutAttempts, LockoutMinutes,
          SessionMinutes, AuditMinutes,    \* life of a session, of an audit row
          LastMinute, AuditBound           \* bounds

Off == "not set"
NoAddress == "unknown"

ASSUME ConsoleAssumption ==
  /\ LockoutAttempts \in Nat \ {0} /\ LockoutMinutes \in Nat /\ SessionMinutes \in Nat
  /\ AuditMinutes \in Nat /\ LastMinute \in Nat /\ AuditBound \in Nat /\ IsFiniteSet(Tries)
  /\ NoAddress \notin Addresses

VARIABLES admin,      \* the email of the environment, or Off
          tries,      \* try |-> [at, from]: "idle", "judge", "failing", "opening", "opened"
          audit,      \* rows of platform_audit: [kind, from, at]
          sessions,   \* rows of platform_sessions: [email, until]
          minute      \* now()

consoleVars == <<admin, tries, audit, sessions, minute>>

ConsoleTypeOK ==
  /\ admin \in Emails \cup {Off}
  /\ tries \in [Tries -> [at : {"idle", "judge", "failing", "opening", "opened"},
                          from : Addresses \cup {NoAddress}]]
  /\ \A i \in DOMAIN audit : /\ audit[i].kind \in {"login_failed", "login_ok", "logout"}
                             /\ audit[i].from \in Addresses \cup {NoAddress}
                             /\ audit[i].at \in 0..minute
  /\ \A s \in sessions : s.email \in Emails /\ s.until \in SessionMinutes..(LastMinute + SessionMinutes)
  /\ minute \in 0..LastMinute

----------------------------------------------------------------------------
ConsoleInit ==
  /\ admin \in Emails \cup {Off} /\ audit = <<>> /\ sessions = {} /\ minute = 0
  /\ tries = [t \in Tries |-> [at |-> "idle", from |-> NoAddress]]

Record(kind, from) ==
  /\ Len(audit) < AuditBound
  /\ audit' = Append(audit, [kind |-> kind, from |-> from, at |-> minute])

Failures(from) ==
  {i \in DOMAIN audit : audit[i].kind = "login_failed" /\ audit[i].from = from
                          /\ audit[i].at + LockoutMinutes > minute}

\* Variant: the failure that makes the limit does not lock yet.
IsLockedLate(from) == from # NoAddress /\ Cardinality(Failures(from)) > LockoutAttempts

(* isLocked: failures of the address in the window; an unknown address is  *)
(* never locked.                                                           *)
IsLocked(from) == from # NoAddress /\ Cardinality(Failures(from)) >= LockoutAttempts

(* A request that is not refused goes on to be judged. *)
Attempt(t) ==
  /\ tries[t].at = "idle" /\ admin # Off
  /\ \E from \in Addresses \cup {NoAddress} :
       ~IsLocked(from) /\ tries' = [tries EXCEPT ![t] = [at |-> "judge", from |-> from]]
  /\ UNCHANGED <<admin, audit, sessions, minute>>

(* The credentials are those of the environment as the request began. *)
Judge(t) ==
  /\ tries[t].at = "judge"
  /\ \E verdict \in {"failing", "opening"} : tries' = [tries EXCEPT ![t].at = verdict]
  /\ UNCHANGED <<admin, audit, sessions, minute>>

Answered(t) == tries' = [tries EXCEPT ![t] = [at |-> "idle", from |-> NoAddress]]

RecordFailure(t) ==
  /\ tries[t].at = "failing" /\ Record("login_failed", tries[t].from)
  /\ Answered(t) /\ UNCHANGED <<admin, sessions, minute>>

(* The session is committed first, and then its entry in the audit. *)
OpenSession(t) ==
  /\ tries[t].at = "opening"
  /\ \E email \in Emails : sessions' = sessions \cup {[email |-> email, until |-> minute + SessionMinutes]}
  /\ tries' = [tries EXCEPT ![t].at = "opened"]
  /\ UNCHANGED <<admin, audit, minute>>

RecordSuccess(t) ==
  /\ tries[t].at = "opened" /\ Record("login_ok", tries[t].from)
  /\ Answered(t) /\ UNCHANGED <<admin, sessions, minute>>

(* The request breaks off between two steps. *)
LoseTry(t) ==
  /\ tries[t].at # "idle" /\ Answered(t) /\ UNCHANGED <<admin, audit, sessions, minute>>

(* resolvePlatformSession, for a cookie: not expired, and of the email     *)
(* that the environment has now.                                           *)
Recognised(s) == s.until > minute /\ admin # Off /\ s.email = admin

(* sign-out deletes the session in one transaction, whoever it was of.     *)
SignOut ==
  \E s \in sessions :
    /\ sessions' = sessions \ {s} /\ Record("logout", NoAddress)
    /\ UNCHANGED <<admin, tries, minute>>

(* A deployment with another environment. *)
Configure == \E email \in Emails \cup {Off} : admin' = email /\ UNCHANGED <<tries, audit, sessions, minute>>

(* platform_purge_expired: once an audit row is old enough to go, the      *)
(* trigger refuses its DELETE and the whole purge is undone.               *)
PurgePlatform ==
  /\ \A i \in DOMAIN audit : audit[i].at + AuditMinutes >= minute
  /\ sessions' = {s \in sessions : s.until >= minute}
  /\ UNCHANGED <<admin, tries, audit, minute>>

MinutePasses == minute < LastMinute /\ minute' = minute + 1 /\ UNCHANGED <<admin, tries, audit, sessions>>

ConsoleNext ==
  \/ \E t \in Tries : Attempt(t) \/ Judge(t) \/ RecordFailure(t) \/ OpenSession(t) \/ RecordSuccess(t) \/ LoseTry(t)
  \/ SignOut \/ Configure \/ PurgePlatform \/ MinutePasses

ConsoleSpec == ConsoleInit /\ [][ConsoleNext]_consoleVars

----------------------------------------------------------------------------
(* "Five failures from one address lock it for a quarter of an hour": the  *)
(* count is read before the attempt is recorded, so attempts that are      *)
(* under way together all pass; but no window of an address ever holds     *)
(* more failures than the limit and the other requests that can be under   *)
(* way.                                                                    *)
AttemptsAreBounded ==
  \A from \in Addresses : Cardinality(Failures(from)) <= LockoutAttempts + Cardinality(Tries) - 1
=============================================================================
