-------------------------------- MODULE Demo --------------------------------
(***************************************************************************)
(* The demonstration tenants.  A run (apps/web/app/admin/system, packages/ *)
(* db/src/cli/demo.ts) deletes and seeds them in transactions of their     *)
(* own, so that it may stop between any two, and runs may overlap          *)
(* (demo/seed.ts, demo/realestate.ts).  What is seeded goes through the    *)
(* rows of Checks, Records, Collections, Board, Stock and Portal, and each *)
(* scenario of demo/business.ts and demo/realestate.ts is meant to show    *)
(* what it is named for.                                                   *)
(***************************************************************************)
EXTENDS Checks, Records, Collections, Board, Stock, Portal, Functions, Sequences

CONSTANTS DemoSlugs,    \* sequence of the slugs, the estate last
          DemoRuns,     \* run |-> [guarded, resets]: the console or the script
          TenantIds,    \* bound on the tenants that are created
          CreditLimits, \* 0 for none; the others are kept by customers without debts
          Buyers        \* contacts whose role is to order

ASSUME DemoAssumption ==
  /\ DemoSlugs \in Seq(STRING) /\ "real" \notin Range(DemoSlugs) /\ TenantIds \in Nat

Estate == "demo-masika"

VARIABLES tenants,      \* slug |-> [id, demo, parts]: the rows of tenants
          runs,         \* run |-> [at, slug, id]: where it is
          interrupted,  \* ids that a run was at work on when it stopped
          told          \* the scenario that was seeded last

demoVars == <<tenants, runs, interrupted, told, portalUsers>>

DemoTypeOK ==
  /\ \A s \in DOMAIN tenants : /\ tenants[s].id \in 0..TenantIds
                               /\ tenants[s].demo \in BOOLEAN
  /\ \A r \in DOMAIN DemoRuns : /\ runs[r].slug \in 1..(Len(DemoSlugs) + 1)
                                /\ runs[r].id \in 0..TenantIds
  /\ interrupted \subseteq 1..TenantIds
  /\ PortalTypeOK

----------------------------------------------------------------------------
(* The modules of each tenant, and what the money part seeds for them. *)
DemoModules(slug) ==
  CASE slug = "demo-lavi" -> {"retainers", "portal"}
    [] slug = "demo-tavor" -> {"catalog", "orders", "portal"}
    [] slug = "demo-dbplast" -> {"catalog", "orders"}
    [] OTHER -> {}

MoneyParts(slug) ==
  {"invoices", "payments"}
    \cup (DemoModules(slug) \cap {"retainers"})
    \cup (IF "catalog" \in DemoModules(slug) THEN {"products", "stock", "orders"} ELSE {})
    \cup (IF slug = "demo-dbplast" THEN {"production", "permissions"} ELSE {})
    \cup (DemoModules(slug) \cap {"portal"})

\* Variant: the tenant of the estate is never marked as a demo.
StagesUnmarked(slug) ==
  IF slug = Estate THEN <<"check", "create", "owner", "estate">>
  ELSE <<"check", "create", "flag", "people", "highlights", "money">>

(* The transactions of seedTenant and seedRealEstate, in order. *)
Stages(slug) ==
  IF slug = Estate THEN <<"check", "create", "flag", "owner", "estate">>
  ELSE <<"check", "create", "flag", "people", "highlights", "money">>

PeopleParts == {"users", "customers", "contacts", "documents"}
HighlightParts == {"expiring", "arriving"}
EstateParts == {"users", "customers", "leases", "checks", "invoices", "signing", "notes"}
PartsOf(stage, slug) ==
  CASE stage = "people" -> PeopleParts [] stage = "highlights" -> HighlightParts
    [] stage = "money" -> MoneyParts(slug) [] stage = "owner" -> {"owner"}
    [] stage = "estate" -> EstateParts [] OTHER -> {}
AllParts(slug) == UNION {PartsOf(Stages(slug)[i], slug) : i \in DOMAIN Stages(slug)}

Put(f, s, x) == [t \in DOMAIN f \cup {s} |-> IF t = s THEN x ELSE f[t]]

----------------------------------------------------------------------------
DemoInit ==
  /\ tenants = [s \in {} |-> {}]
  /\ runs = [r \in DOMAIN DemoRuns |-> [at |-> "start", slug |-> 1, id |-> 0]]
  /\ interrupted = {} /\ told = {} /\ portalUsers = [c \in {} |-> {}]

SlugOf(r) == DemoSlugs[runs[r].slug]
Working(r) == runs[r].slug <= Len(DemoSlugs)
OnStage(r, stage) == Working(r) /\ runs[r].at = stage

(* The next transaction of a run: of this tenant, or of the next one.      *)
Go(r, id) ==
  LET stages == Stages(SlugOf(r))
      i == CHOOSE k \in DOMAIN stages : stages[k] = runs[r].at
  IN  runs' = [runs EXCEPT ![r] =
        IF i < Len(stages) THEN [at |-> stages[i + 1], slug |-> @.slug, id |-> id]
        ELSE [at |-> "check", slug |-> @.slug + 1, id |-> 0]]

Stop(r) ==
  /\ runs' = [runs EXCEPT ![r].at = "stopped", ![r].id = 0]
  /\ interrupted' = interrupted \cup ({runs[r].id} \ {0})

(* reseedDemo refuses when a tenant is not a demo; the script never does.  *)
Locked == \E s \in DOMAIN tenants : ~tenants[s].demo
StartRun(r) ==
  /\ runs[r].at = "start"
  /\ runs' = [runs EXCEPT ![r].at =
                IF DemoRuns[r].guarded /\ Locked THEN "refused"
                ELSE IF DemoRuns[r].resets THEN "reset" ELSE "check"]
  /\ UNCHANGED <<tenants, interrupted, told>>

ResetDemo(r) ==
  /\ runs[r].at = "reset"
  /\ tenants' = [s \in {t \in DOMAIN tenants : ~tenants[t].demo} |-> tenants[s]]
  /\ runs' = [runs EXCEPT ![r].at = "check"]
  /\ UNCHANGED <<interrupted, told>>

(* "Idempotent": a tenant that is there is skipped, whatever it holds.     *)
CheckTenant(r) ==
  /\ OnStage(r, "check")
  /\ IF SlugOf(r) \in DOMAIN tenants THEN runs' = [runs EXCEPT ![r].slug = @ + 1] ELSE Go(r, 0)
  /\ UNCHANGED <<tenants, interrupted, told>>

(* createTenant: the slug is unique, so the second of two runs throws.     *)
NextId == Max({0} \cup {tenants[s].id : s \in DOMAIN tenants} \cup {runs[r].id : r \in DOMAIN runs}
                \cup interrupted) + 1
SeedTenant(r) ==
  /\ OnStage(r, "create")
  /\ IF SlugOf(r) \in DOMAIN tenants THEN Stop(r) /\ UNCHANGED tenants
     ELSE /\ NextId <= TenantIds
          /\ tenants' = Put(tenants, SlugOf(r), [id |-> NextId, demo |-> FALSE, parts |-> {}])
          /\ Go(r, NextId) /\ UNCHANGED interrupted
  /\ UNCHANGED told

(* The other transactions: on a tenant that is gone the update of is_demo  *)
(* finds no row and goes on, and an insert throws.                         *)
Mine(r) == SlugOf(r) \in DOMAIN tenants /\ tenants[SlugOf(r)].id = runs[r].id
FlagTenant(r) ==
  /\ OnStage(r, "flag")
  /\ tenants' = IF Mine(r) THEN [tenants EXCEPT ![SlugOf(r)].demo = TRUE] ELSE tenants
  /\ Go(r, runs[r].id)
  /\ UNCHANGED <<interrupted, told>>

SeedPart(r) ==
  /\ Working(r) /\ PartsOf(runs[r].at, SlugOf(r)) # {}
  /\ IF Mine(r) THEN /\ tenants' = [tenants EXCEPT ![SlugOf(r)].parts = @ \cup PartsOf(runs[r].at, SlugOf(r))]
                     /\ Go(r, runs[r].id) /\ UNCHANGED interrupted
     ELSE Stop(r) /\ UNCHANGED tenants
  /\ UNCHANGED told

(* The process is killed, or a statement fails and its transaction is      *)
(* undone: what was committed stays.                                       *)
Interrupt(r) ==
  /\ Working(r) /\ runs[r].at \notin {"start", "refused", "stopped"}
  /\ Stop(r) /\ UNCHANGED <<tenants, told>>

(* The other seed script, and whoever signs up, make tenants that are no demo. *)
Enroll ==
  /\ "real" \notin DOMAIN tenants
  /\ tenants' = Put(tenants, "real", [id |-> 0, demo |-> FALSE, parts |-> {}])
  /\ UNCHANGED <<runs, interrupted, told>>

DemoNext ==
  \/ Enroll
  \/ \E r \in DOMAIN DemoRuns :
       StartRun(r) \/ ResetDemo(r) \/ CheckTenant(r) \/ SeedTenant(r) \/ FlagTenant(r)
         \/ SeedPart(r) \/ Interrupt(r)

DemoSpec == DemoInit /\ [][DemoNext /\ UNCHANGED portalUsers]_demoVars

----------------------------------------------------------------------------
(* seedRetainers: the hours of the current month for a scenario, out of    *)
(* its quota and of the part of the month that has passed (at least 15     *)
(* hundredths), in quarters of an hour.                                    *)
BurnOrder == <<"overrun", "projected", "healthy", "quiet">>
TargetHours(profile, s, quota) ==
  LET share == Max({3 * Total, 20 * Passed(s)})
      num == quota * (CASE profile = "overrun" -> 112 [] profile = "projected" -> 160 * share
                        [] profile = "healthy" -> 102 * share [] profile = "quiet" -> 35 * share)
      den == IF profile = "overrun" THEN 100 ELSE 2000 * Total
  IN  25 * ((2 * num + 25 * den) \div (50 * den))

SeedRetainer ==
  \E i \in DOMAIN BurnOrder, s \in PeriodStarts, q \in QuotaAmounts \ {0}, r \in RetainerTerms :
    /\ s <= recordDay /\ recordDay < s + PeriodDays
    /\ retainer' = {r}
    /\ periods' = Put([t \in {} |-> {}], s, [quota |-> q, status |-> "open",
                                            used |-> TargetHours(BurnOrder[i], s, q)])
    /\ told' = {BurnOrder[i]}
    /\ UNCHANGED <<recordDay, leaseOf, homeStatus, requests, trail>>

(* seedBilling for one customer: how late each invoice is, the promise     *)
(* (days ahead of today) and the last reminder (days ago); {} for none.    *)
ProfileOrder == <<"broken_promise", "escalate", "will_pay", "contacted", "late", "clean">>
\* Variant: the oldest invoices are not that old.
OpenInvoicePlanYoung(profile) ==
  CASE profile = "escalate" -> <<75..90, 50..65, 35..50>>
    [] profile = "broken_promise" -> <<38..52, 12..20>> [] profile = "will_pay" -> <<20..34>>
    [] profile = "contacted" -> <<24..40, 8..14>> [] profile = "late" -> <<5..12>> [] OTHER -> <<>>

OpenInvoicePlan(profile) ==
  CASE profile = "broken_promise" -> <<38..52, 12..20>>
    [] profile = "escalate" -> <<115..150, 70..95, 35..50>>
    [] profile = "will_pay" -> <<20..34>>
    [] profile = "contacted" -> <<24..40, 8..14>>
    [] profile = "late" -> <<5..12>>
    [] profile = "clean" -> <<>>
CollectionSignal(profile) ==
  [promise |-> CASE profile = "broken_promise" -> -9..-4 [] profile = "will_pay" -> 3..8 [] OTHER -> {},
   contact |-> CASE profile = "broken_promise" -> 6..14 [] profile = "contacted" -> {1}
                 [] profile = "escalate" -> 9..22 [] OTHER -> {}]

Edge(S, latest) == IF latest THEN Max(S) ELSE Min(S)
SeedDebt ==
  \E i \in DOMAIN ProfileOrder, c \in Debtors, latest \in BOOLEAN :
    LET profile == ProfileOrder[i]
        plan == OpenInvoicePlan(profile)
        signal == CollectionSignal(profile)
        Of == {b \in Bills : BillOf[b] = c}
    IN  \E late \in Injection(DOMAIN plan, Of), recent \in SUBSET Of :
          /\ Cardinality(recent) = (IF profile = "escalate" THEN 0 ELSE 1)
          /\ recent \cap Range(late) = {}
          /\ issuedOn' = [b \in Bills |->
               CASE b \in recent -> debtDay - Edge(2..12, latest)
                 [] b \in Range(late) ->
                      debtDay - Terms - Edge(plan[CHOOSE j \in DOMAIN plan : late[j] = b], latest)
                 [] OTHER -> NoDate]
          /\ paidOn' = [b \in Bills |-> IF profile = "escalate" /\ b = late[2] THEN 1 ELSE 0]
          /\ promise' = [promise EXCEPT ![c] = IF signal.promise = {} THEN @
                           ELSE [on |-> debtDay, for |-> debtDay + Edge(signal.promise, latest)]]
          /\ contact' = [contact EXCEPT ![c] = IF signal.contact = {} THEN @
                           ELSE debtDay - Edge(signal.contact, latest)]
          /\ told' = {profile}
          /\ UNCHANGED <<debtDay, billStatus>>

(* seedCommerce: the catalogue with what is on hand and when to reorder.   *)
Catalog ==
  [BRG_M8_40 |-> <<480, 120>>, BRG_M10_60 |-> <<96, 100>>, BRG_M12_80 |-> <<0, 60>>, DSK_M8 |-> <<640, 150>>,
   UM_M8 |-> <<140, 130>>, KBL_3X25 |-> <<1200, 400>>, KBL_5X4 |-> <<310, 300>>, MMS_16A |-> <<210, 80>>,
   MMS_32A |-> <<42, 40>>, ARN_12M |-> <<28, 15>>, LED_18W |-> <<620, 200>>, LED_36W |-> <<84, 90>>,
   PRJ_50W |-> <<156, 60>>, PRJ_150W |-> <<19, 25>>, SLL_12V_7 |-> <<240, 80>>, SLL_12V_100 |-> <<11, 8>>,
   MTN_24V |-> <<46, 20>>, CRR_R410 |-> <<14, 10>>, CRR_FLT |-> <<168, 60>>, CRR_CMP |-> <<6, 4>>,
   KLI_SET |-> <<37, 12>>, KLI_MKD |-> <<22, 10>>, KLI_DSK |-> <<1840, 500>>, KLI_SGR |-> <<95, 100>>]
FabricCatalog ==
  [FBR_COT100 |-> <<840, 200>>, FBR_COT_PRT |-> <<260, 150>>, FBR_POLY |-> <<1120, 300>>, FBR_LINEN |-> <<95, 80>>,
   FBR_VELVET |-> <<0, 40>>, FBR_TRICOT |-> <<410, 150>>, FBR_DENIM |-> <<180, 90>>, FBR_CANVAS |-> <<220, 100>>,
   FBR_SATIN |-> <<60, 60>>, FBR_FELT |-> <<340, 120>>]
SeededLevels(catalog) ==
  [p \in DOMAIN catalog |-> [onHand |-> catalog[p][1], allocated |-> 0, reorder |-> catalog[p][2]]]

(* The orders that wait for approval, by the scenario of their customer,   *)
(* and the least and the most of a line: of what is not sold by the piece  *)
(* more is ordered.                                                        *)
Bulk == {"BRG_M8_40", "BRG_M10_60", "BRG_M12_80", "DSK_M8", "UM_M8", "KBL_3X25", "KBL_5X4"}
OrderPlan ==
  [broken_promise |-> {{"LED_36W", "PRJ_150W", "MMS_32A"}}, escalate |-> {{"BRG_M12_80", "KLI_DSK"}},
   clean |-> {{"BRG_M8_40", "DSK_M8", "UM_M8"}, {"KBL_5X4", "ARN_12M"}}]
Ordered(skus, most) ==
  [p \in skus |-> IF p \in Bulk THEN (IF most THEN 140 ELSE 20) ELSE (IF most THEN 40 ELSE 2)]
GatesOf(profile, c) ==
  {OrderGate(c, 1, limit, ShortLines(Ordered(skus, most), SeededLevels(Catalog))) :
     limit \in CreditLimits, skus \in OrderPlan[profile], most \in BOOLEAN}

(* seedPortalUsers: of each three contacts with an address two are let in, *)
(* if their customer is no prospect; the second and the fifth of those     *)
(* were invited and did not come.                                          *)
SeedPortal ==
  \E slug \in {"demo-lavi", "demo-tavor"}, ours \in SUBSET PortalContacts, ago \in {0, 25} :
    LET granted == {k \in ours : k % 3 # 0}
        Earlier(k) == Cardinality({j \in granted : j < k})
        status == [k \in granted |-> IF Earlier(k) \in {1, 4} THEN "invited" ELSE "active"]
        user == [k \in granted |->
          [status |-> status[k], seen |-> IF status[k] = "invited" THEN Unseen ELSE ago,
           permissions |-> PortalPermissions(IF k \in Buyers THEN DemoModules(slug) ELSE {})]]
    IN  /\ portalUsers' = FoldSet(LAMBDA k, users : Invited(users, k, user[k]), portalUsers, granted)
        /\ told' = {"portal", slug}

----------------------------------------------------------------------------
(* seedRealEstate: how many days each lease has left, by its notice.       *)
LeaseOrder == <<"ending", "due", "closed", "forgotten", "calm">>
LeasePlan(profile, notice) ==
  CASE profile = "ending" -> 95..118
    [] profile = "due" -> (notice + 4)..(notice + 26)
    [] profile = "closed" -> (notice - 40)..(notice - 8)
    [] profile = "forgotten" -> -60..-20
    [] profile = "calm" -> 150..600

SeedLease ==
  \E i \in DOMAIN LeaseOrder, l \in Leases, h \in Homes, notice \in {60, 90, 120}, latest \in BOOLEAN :
    /\ LeaseOrder[i] = "ending" => notice = 60
    /\ leaseOf' = Put([k \in {} |-> {}], l,
         [home |-> h, ends |-> recordDay + Edge(LeasePlan(LeaseOrder[i], notice), latest),
          notice |-> notice, status |-> "active"])
    /\ homeStatus' = [homeStatus EXCEPT ![h] = "rented"]
    /\ told' = {LeaseOrder[i]}
    /\ UNCHANGED <<recordDay, retainer, periods, requests, trail>>

(* The checks of a lease: those whose day has come are marked, but for     *)
(* some of this month and of the one before.                               *)
SeedChecks ==
  \E marks \in [CheckIds -> {"pending", "cleared", "partial", "bounced"}], kept \in {1, 2} :
    /\ \A c \in CheckIds :
         /\ DueOn[c] > today => marks[c] = "pending"
         /\ marks[c] = "pending" /\ DueOn[c] <= today => MonthOf(today) - MonthOf(DueOn[c]) \in {0, 1}
         /\ marks[c] = "partial" => kept < Amount[c]
    /\ checkStatus' = marks
    /\ clearedAmount' = [c \in CheckIds |-> IF marks[c] = "partial" THEN kept ELSE 0]
    /\ markSigned' = [c \in CheckIds |-> marks[c] \in {"cleared", "partial"}]
    /\ lastEvent' = [c \in CheckIds |-> IF marks[c] = "bounced" THEN "checks.bounced" ELSE "none"]
    /\ told' = {"checks"}
    /\ UNCHANGED <<today, shownMonth, checkPage>>

(* seedSigning: how long ago each request was sent; what is not only sent  *)
(* was first viewed, within two days, and signed or declined soon after.   *)
SignPlan == [viewed |-> {4, 9}, sent |-> {2, 6}, signed |-> {12, 26}, declined |-> {17}, expired |-> {40}]
SeedRequest ==
  \E s \in DOMAIN SignPlan, r \in Signings, later \in 0..2 : \E ago \in SignPlan[s] :
    LET Day(statuses) == IF s \in statuses THEN recordDay - ago + later ELSE NoDay
    IN  /\ requests' = Put([k \in {} |-> {}], r,
             [status |-> s, sent |-> recordDay - ago, viewed |-> Day(DOMAIN SignPlan \ {"sent"}),
              signed |-> Day({"signed"}), declined |-> Day({"declined"})])
        /\ trail' = {<<r, "sent">>, <<r, s>>} \cup (IF s = "sent" THEN {} ELSE {<<r, "viewed">>})
        /\ told' = {s}
        /\ UNCHANGED <<recordDay, retainer, periods, leaseOf, homeStatus>>

(* seedManufacturing: lines of approved orders are put into their columns; *)
(* of those that are ready some were announced to the customer.            *)
SeedJob ==
  \E j \in Jobs, stage \in ProductionStages : \E notified \in {FALSE, stage = "ready"} :
    /\ orderStatus' = [orderStatus EXCEPT ![OrderOf[j]] = "approved"]
    /\ stageOf' = [stageOf EXCEPT ![j] = stage]
    /\ readyAt' = [readyAt EXCEPT ![j] = IF stage = "ready" THEN hour ELSE NotYet]
    /\ notifiedAt' = [notifiedAt EXCEPT ![j] = IF notified THEN hour ELSE NotYet]
    /\ told' = {IF notified THEN "notified" ELSE stage}
    /\ UNCHANGED <<announced, hour>>

----------------------------------------------------------------------------
(* "Idempotent" seeding never repairs: a demonstration tenant that is not  *)
(* marked as one, or that lacks a part, is what a run was at work on when  *)
(* it stopped, or is at work on now.                                       *)
DemoOrphansWereInterrupted ==
  \A s \in Range(DemoSlugs) \cap DOMAIN tenants :
    \/ tenants[s].demo /\ tenants[s].parts = AllParts(s)
    \/ tenants[s].id \in interrupted \cup {runs[r].id : r \in DOMAIN runs}

(* "The screen exists for these": what each scenario seeds puts its        *)
(* customer where its name says in the queue of calls, the retainers that  *)
(* run over or are hardly used are listed as that, requests for signature  *)
(* and lines in production stand in their groups, and leases in theirs,    *)
(* but for a calm one of 150 days with a notice of 120: it is due.  Orders *)
(* of customers in debt are held for it, one of the others is clean, and   *)
(* one may be held for stock; the stock has products of every status; a    *)
(* check that was left unmarked is dragged along from the month before at  *)
(* the most; and once two people are let into the portal, there is one who *)
(* was invited and did not come, and none may order where there are no     *)
(* orders.                                                                 *)
Reached(profile) ==
  CASE profile = "broken_promise" -> "call_now" [] profile = "escalate" -> "escalate"
    [] profile = "will_pay" -> "wait_promise" [] profile = "contacted" -> "recently_contacted"
    [] profile = "late" -> "remind"
RadarOf(profile) ==
  CASE profile = "ending" -> "upcoming" [] profile = "due" -> "due" [] profile = "closed" -> "critical"
    [] profile = "forgotten" -> "passed" [] profile = "calm" -> "quiet"
GroupOfRequests(status) ==
  CASE status = "sent" -> SigningPage.notOpened [] status = "viewed" -> SigningPage.opened
    [] status = "signed" -> SigningPage.recent [] OTHER -> SigningPage.again
StoryIsTold ==
  LET cases == CollectionsPage.cases
  IN  /\ \A p \in told \cap (Range(ProfileOrder) \ {"clean"}) :
           {Action(c, cases[c]) : c \in DOMAIN cases} = {Reached(p)}
      /\ "clean" \in told => DOMAIN cases = {}
      /\ \A c \in DOMAIN cases, p \in told \cap (DOMAIN OrderPlan \ {"clean"}) : GatesOf(p, c) \subseteq {"hold_credit", "hold_overdue"}
      /\ "clean" \in told => \A c \in Debtors : GatesOf("clean", c) = {"approve", "hold_stock"}
      /\ "clean" \in told => \A catalog \in {Catalog, FabricCatalog} :
           LET page == InventoryPage(SeededLevels(catalog))
           IN  /\ page.out # {} /\ page.out = CatalogPage(SeededLevels(catalog))
               /\ page.critical # {} /\ page.low # {} /\ page.missing > 0
      /\ "portal" \in told =>
           /\ PortalPage.recent = PortalPage.active
           /\ PortalPage.invited = {} => Cardinality(PortalSeats) < 2
           /\ \A k \in PortalSeats, s \in told \ {"portal"} :
                "orders.place" \in portalUsers[k].permissions => "orders" \in Surfaces(DemoModules(s))
      /\ "checks" \in told =>
           \A c \in OverdueChecks(today) : MonthOf(DueOn[c]) \in {MonthOf(today), MonthOf(today) - 1}
      /\ "overrun" \in told => RetainersPage.atRisk = CurrentPeriods
      /\ "quiet" \in told => {Burning(s) : s \in CurrentPeriods} = {"healthy"}
      /\ \A p \in told \cap Range(LeaseOrder), l \in DOMAIN leaseOf :
           \/ UrgencyOf(leaseOf[l]) = RadarOf(p)
           \/ p = "calm" /\ DaysToEnd(leaseOf[l]) = 150 /\ leaseOf[l].notice = 120
      /\ \A s \in told \cap DOMAIN SignPlan : GroupOfRequests(s) = DOMAIN requests
      /\ \A s \in told \cap ProductionStages : Column(s, Everything) = Queue
      /\ told \cap {"ready", "notified"} # {} =>
           ListReadyToNotify = (IF "ready" \in told THEN Column("ready", Everything) ELSE {})
=============================================================================
