------------------------------- MODULE Shell -------------------------------
(***************************************************************************)
(* What a tenant gets from its modules and its subscription: the console   *)
(* toggles modules and changes plans (packages/db/src/platform.ts, the     *)
(* page of a tenant), the application composes its shell from the modules  *)
(* that are on (apps/web/lib/navigation.ts), events are routed to the      *)
(* handlers of the composition (packages/kernel/src/dispatch.ts), and use  *)
(* is compared with the quotas of the plan (packages/modules/src/plans.ts, *)
(* the page of the plan).  How a composition is computed is Compose.       *)
(***************************************************************************)
EXTENDS Naturals, Sequences

CONSTANTS Toggled,    \* the modules that the administrator toggles
          Uses        \* the amounts of use that are looked at

M == INSTANCE Manifests

ASSUME ShellAssumption == Toggled \subseteq M!ModuleIds /\ Uses \subseteq Nat

VARIABLES enabledModules,   \* rows of tenant_modules that are on
          plan,             \* 1, 2 or 3: the plan of the subscription
          meter, used       \* a meter and its use in this cycle

shellVars == <<enabledModules, plan, meter, used>>

ShellTypeOK ==
  /\ enabledModules \subseteq M!ModuleIds
  /\ plan \in 1..3 /\ meter \in M!Meters /\ used \in Nat

----------------------------------------------------------------------------
(* A tenant that has no module yet gets those of the smallest plan, so     *)
(* that its screen is not empty.                                           *)
Requested == IF enabledModules # {} THEN enabledModules ELSE M!PlanModules["starter"]

(* The composition: hard dependencies are added (two rounds are enough for *)
(* these manifests: no module that is required requires another).          *)
Requires(S) == S \cup UNION {M!ALL_MODULES[m].requires : m \in S}
Modules == Requires(Requires(Requested))

Emitted == UNION {M!ALL_MODULES[m].emits : m \in Modules}

(* The handlers that events are routed to, and the slots that are shown.   *)
Routes == {h \in UNION {M!ALL_MODULES[m].handlers : m \in Modules} : h.requires \subseteq Modules}

(* dispatch: every handler of the event runs, whatever becomes of others.  *)
Dispatch(event) == {h \in Routes : event \in h.events}

(* The sidebar: the two entries of the core, then a group per category.    *)
CATEGORY_ORDER == <<"sales", "documents", "money", "commerce", "intelligence">>
CORE_NAV == {"/dashboard", "/customers"}
Group(category) ==
  UNION {M!ALL_MODULES[m].nav : m \in {x \in Modules : M!ALL_MODULES[x].category = category}}
Sidebar ==
  <<CORE_NAV>> \o SelectSeq([i \in 1..Len(CATEGORY_ORDER) |-> Group(CATEGORY_ORDER[i])],
                            LAMBDA g : g # {})

----------------------------------------------------------------------------
Limit(p) == M!Quotas(meter)[p][1]
OveragePrice(p) == M!Quotas(meter)[p][2]

(* evaluateUsage, for the meter at hand: what is over the quota of plan p  *)
(* is blocked when the quota is hard and charged when it is soft.          *)
Breached(p) == Limit(p) # M!NoLimit /\ used > Limit(p)
Blocked(p) == Breached(p) /\ OveragePrice(p) = M!NoLimit
Overage(p) == IF Breached(p) /\ ~Blocked(p) THEN (used - Limit(p)) * OveragePrice(p) ELSE 0

(* The page of the plan: meters that are not sold are hidden until used,   *)
(* and the next plan is offered.                                           *)
ShownMeter == Limit(plan) = M!NoLimit \/ Limit(plan) # 0 \/ used > 0
NextPlan == IF plan < 3 THEN plan + 1 ELSE plan

(* smallestPlanFor: the cheapest plan with all of some modules. *)
Sold(S) == {p \in 1..3 : S \subseteq M!PlanModules[M!Plans[p]]}
SmallestPlanFor(S) == CHOOSE p \in Sold(S) : \A q \in Sold(S) : p <= q

----------------------------------------------------------------------------
ShellInit ==
  /\ enabledModules \in {{}} \cup {M!PRESETS[preset] : preset \in DOMAIN M!PRESETS}
  /\ plan = 1 /\ meter \in M!Meters /\ used = 0

(* The buttons of the tenant page: a module that is not in the plan may be *)
(* turned on as well, and what depends on a module stays on without it.    *)
ToggleModule ==
  \E m \in Toggled :
    /\ enabledModules' = IF m \in enabledModules THEN enabledModules \ {m} ELSE enabledModules \cup {m}
    /\ UNCHANGED <<plan, meter, used>>

(* A plan changes quotas and what is sold; it turns no module on or off.   *)
ChangePlan ==
  \E p \in 1..3 : plan' = p /\ UNCHANGED <<enabledModules, meter, used>>

(* tenantUsage counts rows: files, people and customers come and go.       *)
Use == \E n \in Uses : used' = n /\ UNCHANGED <<enabledModules, plan, meter>>

ShellNext == ToggleModule \/ ChangePlan \/ Use

ShellSpec == ShellInit /\ [][ShellNext]_shellVars

----------------------------------------------------------------------------
(* No handler is left listening to silence: whatever modules are toggled,  *)
(* each handler that the composition routes to has an event that some      *)
(* module of the composition emits.  validate() only looks at the registry *)
(* as a whole.                                                             *)
HandlersAreFed == \A h \in Routes : h.events \cap Emitted # {}
=============================================================================
