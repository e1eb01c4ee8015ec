------------------------------ MODULE Records ------------------------------
(***************************************************************************)
(* Agreements that run in time: retainers and their monthly periods        *)
(* (packages/db/src/retainers.ts, packages/core/src/retainers/burn.ts),    *)
(* leases and their notice windows (leases.ts, core/src/leases/renewal.ts) *)
(* and requests for a signature (signing.ts), with what their pages show.  *)
(* Hours are in hundredths, as the columns keep them.                      *)
(***************************************************************************)
EXTENDS Integers, FiniteSets, FiniteSetsExt

CONSTANTS RecordDays,    \* days that the clock may show
          RetainerTerms, \* [fee, ends, notice, priced]: ends may be NoDay
          PeriodStarts, PeriodDays,  \* first days of periods, and their length
          QuotaAmounts, Entries,     \* quotas, and quantities that are logged
          FullUse,       \* bound on what is logged in a period
          Homes, Leases, \* properties and leases that may be created
          LeaseTerms,    \* [home, ends, notice, status]
          Signings       \* requests for a signature that may be made

NoDay == -1
NoRate == -1
SignTtl == 14

ASSUME RecordsAssumption ==
  /\ RecordDays \subseteq Nat /\ RecordDays # {} /\ PeriodStarts \subseteq Nat /\ PeriodDays \in Nat
  /\ QuotaAmounts \subseteq Nat /\ Entries \subseteq Nat \ {0} /\ FullUse \in Nat
  /\ \A t \in LeaseTerms : t.home \in Homes /\ t.ends \in Int /\ t.notice \in Int

VARIABLES recordDay,     \* current day
          retainer,      \* its terms, {} before it is created
          periods,       \* first day |-> [quota, status, used]
          leaseOf,       \* lease |-> its terms
          homeStatus,    \* status of each property
          requests,      \* request |-> [status, sent, viewed, signed, declined]
          trail          \* <<request, kind>> of signing_events

recordVars == <<recordDay, retainer, periods, leaseOf, homeStatus, requests, trail>>

SignStatuses == {"sent", "viewed", "signed", "declined", "expired", "void"}

RecordsTypeOK ==
  /\ recordDay \in RecordDays
  /\ retainer \subseteq RetainerTerms /\ Cardinality(retainer) <= 1
  /\ DOMAIN periods \subseteq PeriodStarts
  /\ \A s \in DOMAIN periods : /\ periods[s].quota \in QuotaAmounts
                               /\ periods[s].status \in {"open", "closed", "billed"}
                               /\ periods[s].used \in 0..FullUse
  /\ DOMAIN leaseOf \subseteq Leases /\ \A l \in DOMAIN leaseOf : leaseOf[l].home \in Homes
  /\ homeStatus \in [Homes -> {"available", "rented"}]
  /\ DOMAIN requests \subseteq Signings
  /\ \A r \in DOMAIN requests : requests[r].status \in SignStatuses

----------------------------------------------------------------------------
(* Retainers.  The period shown is the open one that starts last. *)
CurrentPeriods ==
  LET Open == {s \in DOMAIN periods : periods[s].status = "open"}
  IN  {s \in Open : \A t \in Open : t <= s}

Total == Max({1, PeriodDays - 1})
Passed(s) == Max({0, Min({recordDay - s, Total})})

(* burn and statusOf: the pace is use over quota divided by the part of    *)
(* the period that has passed, and counts after a fifth of it.             *)
Faster(hundredths, s, quota, used) ==
  5 * Passed(s) > Total /\ 100 * used * Total > hundredths * quota * Passed(s)
Projected(s, used) ==
  IF Passed(s) = 0 THEN used ELSE (2 * used * Total + Passed(s)) \div (2 * Passed(s))
BurnStatus(s, quota, used) ==
  CASE used = 0 -> "idle"
    [] used > 0 /\ quota > 0 /\ used > quota -> "overrun"
    [] used > 0 /\ quota = 0 -> "healthy"
    [] OTHER -> IF Faster(135, s, quota, used) /\ Projected(s, used) > quota THEN "projected_overrun"
                ELSE IF Faster(115, s, quota, used) THEN "watch" ELSE "healthy"

EffectiveRate(fee, used) == IF used = 0 THEN NoRate ELSE (200 * fee + used) \div (2 * used)

(* renewalSignal: the notice window first, then a price that is 18 months  *)
(* (of 30.44 days) old.                                                    *)
RenewalSignal(r) ==
  LET d == r.ends - r.notice - recordDay
  IN  IF r.ends # NoDay /\ d <= 45 THEN (IF d < 0 THEN "notice_passed" ELSE "notice_due")
      ELSE IF 100 * (recordDay - r.priced) >= 18 * 3044 THEN "price_stale" ELSE "none"

(* The list of retainers, and the page of one. *)
Burning(s) == BurnStatus(s, periods[s].quota, periods[s].used)
RetainersPage ==
  [atRisk |-> {s \in CurrentPeriods : Burning(s) \in {"overrun", "projected_overrun"}},
   rates |-> {EffectiveRate(r.fee, periods[s].used) : r \in retainer, s \in CurrentPeriods},
   signals |-> {r \in retainer : RenewalSignal(r) # "none"}]
RetainerPage ==
  [current |-> {[status |-> Burning(s), left |-> periods[s].quota - periods[s].used] : s \in CurrentPeriods},
   over |-> {s \in DOMAIN periods \ CurrentPeriods : periods[s].used > periods[s].quota}]

----------------------------------------------------------------------------
(* Leases: how urgent one is today, by its notice window before its end. *)
DaysToEnd(l) == l.ends - recordDay
DaysToNotice(l) == DaysToEnd(l) - l.notice

\* Variant: the window of three months is asked before the notice window.
UrgencyEndFirst(l) ==
  CASE l.status \in {"ended", "cancelled"} -> "ended"
    [] OTHER -> IF DaysToEnd(l) < 0 THEN "passed" ELSE IF DaysToNotice(l) < 0 THEN "critical"
                ELSE IF DaysToEnd(l) <= 120 THEN "upcoming"
                ELSE IF DaysToNotice(l) <= 30 THEN "due" ELSE "quiet"

UrgencyOf(l) ==
  CASE l.status \in {"ended", "cancelled"} -> "ended"
    [] OTHER -> IF DaysToEnd(l) < 0 THEN "passed" ELSE IF DaysToNotice(l) < 0 THEN "critical"
                ELSE IF DaysToNotice(l) <= 30 THEN "due"
                ELSE IF DaysToEnd(l) <= 120 THEN "upcoming" ELSE "quiet"

Rank == [u \in {"passed", "critical", "due", "upcoming", "quiet", "ended"} |->
  CASE u = "passed" -> 0 [] u = "critical" -> 1 [] u = "due" -> 2 [] u = "upcoming" -> 3
    [] u = "quiet" -> 4 [] u = "ended" -> 5]

(* The radar: four groups of leases, and how many ask for a decision.      *)
LeasesIn(urgencies) == {l \in DOMAIN leaseOf : UrgencyOf(leaseOf[l]) \in urgencies}
LeasesPage ==
  [now |-> LeasesIn({"passed", "critical"}), soon |-> LeasesIn({"due"}),
   later |-> LeasesIn({"upcoming"}), quiet |-> LeasesIn({"quiet", "ended"}),
   decisions |-> LeasesIn({"passed", "critical", "due"})]
NeedsDecision == LeasesIn({"passed", "critical", "due", "upcoming"})

(* Properties are vacant unless an active lease names them, whatever their *)
(* own status says; of several leases the one that ends last is shown.     *)
LeaseShown(h) ==
  LET Of == {l \in DOMAIN leaseOf : leaseOf[l].home = h /\ leaseOf[l].status = "active"}
  IN  {l \in Of : \A k \in Of : leaseOf[k].ends <= leaseOf[l].ends}
PropertiesPage ==
  [rented |-> {h \in Homes : LeaseShown(h) # {}}, vacant |-> {h \in Homes : LeaseShown(h) = {}}]

----------------------------------------------------------------------------
(* Signatures: what waits unopened, what was opened, and what is over. *)
SigningPage ==
  LET With(S) == {r \in DOMAIN requests : requests[r].status \in S}
  IN  [notOpened |-> With({"sent"}), opened |-> With({"viewed"}),
       recent |-> {r \in With({"signed"}) : recordDay - requests[r].signed < 30},
       again |-> With({"declined", "expired", "void"})]

----------------------------------------------------------------------------
RecordsInit ==
  /\ recordDay = Min(RecordDays) /\ retainer = {}
  /\ periods = [s \in {} |-> {}] /\ leaseOf = [l \in {} |-> {}]
  /\ homeStatus = [h \in Homes |-> "available"]
  /\ requests = [r \in {} |-> {}] /\ trail = {}

CreateRetainer ==
  /\ retainer = {}
  /\ \E r \in RetainerTerms : retainer' = {r}
  /\ UNCHANGED <<recordDay, periods, leaseOf, homeStatus, requests, trail>>

(* openPeriod: of a period that is there already only the quota changes.   *)
OpenPeriod ==
  /\ retainer # {}
  /\ \E s \in PeriodStarts, q \in QuotaAmounts, st \in {"open", "billed"} :
       periods' = IF s \in DOMAIN periods THEN [periods EXCEPT ![s].quota = q]
                  ELSE [t \in DOMAIN periods \cup {s} |->
                          IF t = s THEN [quota |-> q, status |-> st, used |-> 0] ELSE periods[t]]
  /\ UNCHANGED <<recordDay, retainer, leaseOf, homeStatus, requests, trail>>

(* logConsumption: any period takes it, also one that was billed.          *)
LogConsumption ==
  \E s \in DOMAIN periods, q \in Entries :
    /\ periods[s].used + q <= FullUse
    /\ periods' = [periods EXCEPT ![s].used = @ + q]
    /\ UNCHANGED <<recordDay, retainer, leaseOf, homeStatus, requests, trail>>

(* createLease: whatever its status, the property becomes rented. *)
CreateLease ==
  \E l \in Leases \ DOMAIN leaseOf, t \in LeaseTerms :
    /\ leaseOf' = [k \in DOMAIN leaseOf \cup {l} |-> IF k = l THEN t ELSE leaseOf[k]]
    /\ homeStatus' = [homeStatus EXCEPT ![t.home] = "rented"]
    /\ UNCHANGED <<recordDay, retainer, periods, requests, trail>>

CreateSigningRequest ==
  \E r \in Signings \ DOMAIN requests :
    /\ requests' = [k \in DOMAIN requests \cup {r} |->
                      IF k # r THEN requests[k]
                      ELSE [status |-> "sent", sent |-> recordDay, viewed |-> NoDay,
                            signed |-> NoDay, declined |-> NoDay]]
    /\ trail' = trail \cup {<<r, "sent">>}
    /\ UNCHANGED <<recordDay, retainer, periods, leaseOf, homeStatus>>

(* markSigningStatus, from any status to any other; the caller logs the    *)
(* event first.  Nothing expires a request by itself.                      *)
MarkSigningStatus ==
  \E r \in DOMAIN requests, s \in SignStatuses \ {"sent"} :
    /\ trail' = trail \cup {<<r, s>>}
    /\ requests' = [requests EXCEPT ![r].status = s,
         ![r].viewed = IF s = "viewed" THEN recordDay ELSE @,
         ![r].signed = IF s = "signed" THEN recordDay ELSE @,
         ![r].declined = IF s = "declined" THEN recordDay ELSE @]
    /\ UNCHANGED <<recordDay, retainer, periods, leaseOf, homeStatus>>

RecordDayPasses ==
  /\ \E d \in RecordDays : d > recordDay /\ recordDay' = d
  /\ UNCHANGED <<retainer, periods, leaseOf, homeStatus, requests, trail>>

RecordsNext ==
  \/ CreateRetainer \/ OpenPeriod \/ LogConsumption \/ CreateLease
  \/ CreateSigningRequest \/ MarkSigningStatus \/ RecordDayPasses

RecordsSpec == RecordsInit /\ [][RecordsNext]_recordVars

----------------------------------------------------------------------------
Severity == [s \in {"idle", "healthy", "watch", "projected_overrun", "overrun"} |->
  CASE s = "idle" -> 0 [] s = "healthy" -> 1 [] s = "watch" -> 2
    [] s = "projected_overrun" -> 3 [] s = "overrun" -> 4]

(* A warning is never taken back by what should make it worse: a lease     *)
(* that runs on only moves up the radar, and more hours on the same day    *)
(* and quota never lower what the list of retainers says of a period.      *)
WarningsOnlyRise ==
  [][/\ \A l \in DOMAIN leaseOf : Rank[UrgencyOf(leaseOf[l])'] <= Rank[UrgencyOf(leaseOf[l])]
     /\ \A s \in DOMAIN periods :
          recordDay' = recordDay /\ periods'[s].quota = periods[s].quota
            => Severity[Burning(s)'] >= Severity[Burning(s)]]_recordVars
=============================================================================
