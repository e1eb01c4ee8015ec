------------------------------- MODULE Alerts -------------------------------
(***************************************************************************)
(* The list of alerts (packages/core/src/alerts/build.ts): what the active *)
(* modules feed into it (apps/web/lib/alerts.ts) and how it is grouped     *)
(* (the page of alerts).  It composes Checks, the leases of Records and    *)
(* the modules of Shell with documents that expire and customers that went *)
(* quiet (packages/db/src/documents.ts).                                   *)
(***************************************************************************)
EXTENDS Shell, Checks, Records

CONSTANTS Papers,       \* documents that have a date of expiry
          ExpiresOn,    \* the day of each
          FeedLimit,    \* rows that expiringDocuments returns
          Accounts,     \* active customers
          QuietAfter    \* days without an event that make one quiet

\* Ids of different tables are never equal.
ASSUME AlertsAssumption ==
  /\ IsFiniteSet(Papers) /\ ExpiresOn \in [Papers -> Int] /\ FeedLimit \in Nat
  /\ CheckIds \cap Leases = {} /\ CheckIds \cap Papers = {} /\ Leases \cap Papers = {}

VARIABLES papers,       \* paper |-> status
          lastSeen      \* account |-> day of its last event, or NoDay

alertVars == <<papers, lastSeen>>

AlertsTypeOK ==
  /\ DOMAIN papers \subseteq Papers /\ papers \in [DOMAIN papers -> {"filed", "needs_review"}]
  /\ lastSeen \in [Accounts -> {NoDay} \cup 0..today]

----------------------------------------------------------------------------
(* loadAlerts: what each module hands over when it is on.  The register of *)
(* checks hands over those that are past their day and not marked.         *)
ChecksFed == OverdueChecks(today)

Expiring == {d \in DOMAIN papers : ExpiresOn[d] <= today + 60}
PapersFed ==
  {d \in Expiring : Cardinality({e \in Expiring : ExpiresOn[e] < ExpiresOn[d]}) < FeedLimit}
    \cup {d \in DOMAIN papers : papers[d] = "needs_review"}
LeasesFed == {l \in DOMAIN leaseOf : leaseOf[l].status = "active"}
Quiet == {a \in Accounts : lastSeen[a] = NoDay \/ today - lastSeen[a] > QuietAfter}

(* buildAlerts, part by part.  An alert is a matter of days: before the    *)
(* day it is about, or (negative) after it.                                *)
Alert(kind, of, severity, days) == [kind |-> kind, of |-> of, severity |-> severity, days |-> days]

CheckAlerts(S) ==
  {Alert("check_bounced", c, "critical", DueOn[c] - today) : c \in {x \in S : DisplayStatus(x) = "bounced"}}
    \cup {Alert("check_overdue", c, IF today - DueOn[c] > 14 THEN "critical" ELSE "attention",
                DueOn[c] - today) : c \in {x \in S : DisplayStatus(x) = "overdue"}}

PaperAlert(d) ==
  LET left == ExpiresOn[d] - today
  IN  IF papers[d] = "needs_review" THEN Alert("document_review", d, "info", 0)
      ELSE IF left < 0 THEN Alert("document_expired", d, "critical", left)
      ELSE Alert("document_expiring", d, IF left <= 21 THEN "attention" ELSE "info", left)

LeaseAlert(l) ==
  LET t == leaseOf[l]
  IN  CASE UrgencyOf(t) = "passed" -> Alert("lease_passed", l, "critical", DaysToEnd(t))
        [] UrgencyOf(t) = "critical" -> Alert("lease_notice_closed", l, "critical", DaysToNotice(t))
        [] UrgencyOf(t) = "due" -> Alert("lease_notice_due", l, "attention", DaysToNotice(t))
        [] UrgencyOf(t) = "upcoming" -> Alert("lease_ending", l, "info", DaysToEnd(t))

QuietAlert(a) ==
  Alert("customer_quiet", a, "info", IF lastSeen[a] = NoDay THEN -999 ELSE lastSeen[a] - today)

On(module, S) == IF module \in Modules THEN S ELSE {}
BuildAlerts ==
  CheckAlerts(On("checks", ChecksFed))
    \cup {PaperAlert(d) : d \in On("documents", PapersFed)}
    \cup {LeaseAlert(l) : l \in {k \in On("leases", LeasesFed) : UrgencyOf(leaseOf[k]) \notin {"quiet", "ended"}}}
    \cup {QuietAlert(a) : a \in Quiet}

(* The page: three groups, the first two of which ask for a decision.      *)
GroupOf(severity) == {a \in BuildAlerts : a.severity = severity}
Decisions == GroupOf("critical") \cup GroupOf("attention")

(* The dashboard, whatever modules are on: it counts documents that expire *)
(* and those under review, so that one that is both counts twice; it marks *)
(* what expires within two weeks, and names the customers that went quiet. *)
Dashboard ==
  LET expiring == PapersFed \cap Expiring
      review == {d \in DOMAIN papers : papers[d] = "needs_review"}
  IN  [attention |-> Cardinality(expiring) + Cardinality(review), review |-> review,
       red |-> {d \in expiring : ExpiresOn[d] - today <= 14}, quiet |-> Quiet]

----------------------------------------------------------------------------
AlertsInit == papers = [d \in {} |-> "filed"] /\ lastSeen = [a \in Accounts |-> NoDay]

FilePaper ==
  \E d \in Papers \ DOMAIN papers, status \in {"filed", "needs_review"} :
    /\ papers' = [e \in DOMAIN papers \cup {d} |-> IF e = d THEN status ELSE papers[e]]
    /\ UNCHANGED <<lastSeen, shellVars, checkVars, recordVars>>

(* Somebody chooses the type of a document that waits for review. *)
ReviewPaper ==
  \E d \in DOMAIN papers :
    /\ papers' = [papers EXCEPT ![d] = "filed"]
    /\ UNCHANGED <<lastSeen, shellVars, checkVars, recordVars>>

(* Any event of a customer. *)
HearFrom ==
  \E a \in Accounts :
    lastSeen' = [lastSeen EXCEPT ![a] = today] /\ UNCHANGED <<papers, shellVars, checkVars, recordVars>>

(* One clock for all. *)
AlertDayPasses ==
  /\ \E d \in RecordDays : today < d /\ d <= LastCheckDay /\ today' = d /\ recordDay' = d
  /\ UNCHANGED <<alertVars, shellVars, checkStatus, clearedAmount, markSigned, lastEvent, shownMonth, checkPage,
                 retainer, periods, leaseOf, homeStatus, requests, trail>>

AlertsNext ==
  \/ FilePaper \/ ReviewPaper \/ HearFrom \/ AlertDayPasses
  \/ (CreateCheck \/ MarkFromCustomer) /\ UNCHANGED <<alertVars, shellVars, recordVars>>
  \/ CreateLease /\ UNCHANGED <<alertVars, shellVars, checkVars>>

AlertsSpec ==
  /\ ShellInit /\ ChecksInit /\ RecordsInit /\ AlertsInit
  /\ [][AlertsNext]_<<alertVars, shellVars, checkVars, recordVars>>

----------------------------------------------------------------------------
(* Every screen asks for the same decisions: no check that is due is lost  *)
(* from the monthly page, and a check that this page calls overdue, a      *)
(* lease in force that the radar counts as a decision and a document that  *)
(* has run out are each raised once, and nothing else asks for a decision; *)
(* a module that is off raises nothing.  Of the documents that holds while *)
(* those that expire fit their list.  A dashboard that asks for nothing    *)
(* hides no document that the alerts ask about.                            *)
NothingDueIsSilent ==
  LET now == MonthOf(today)
      asked == {a.of : a \in Decisions}
      Asked(S) == {a \in Decisions : a.of \in S}
      overdue == {c \in DOMAIN MonthlyPage(now) : MonthlyPage(now)[c] = "overdue"}
      decisions == {l \in LeasesPage.decisions : leaseOf[l].status = "active"}
  IN  /\ NoCheckIsLost
      /\ asked \cap CheckIds = On("checks", overdue)
      /\ asked \cap Leases = On("leases", decisions)
      /\ Cardinality(Expiring) <= FeedLimit =>
           On("documents", {d \in DOMAIN papers : papers[d] = "filed" /\ ExpiresOn[d] < today}) \subseteq asked
      /\ \A d \in asked \cap Papers : Dashboard.attention > 0 /\ (ExpiresOn[d] < today => d \in Dashboard.red)
      /\ \A x \in asked : Cardinality(Asked({x})) = 1

(* "A check that bounced yesterday outranks a certificate that runs out in *)
(* two months": while its module is on, a check that bounced is an alert.  *)
BouncedIsRaised ==
  "checks" \in Modules =>
    \A c \in CheckRows : checkStatus[c] = "bounced" =>
      \E a \in BuildAlerts : a.kind = "check_bounced" /\ a.of = c
=============================================================================
