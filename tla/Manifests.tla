----------------------------- MODULE Manifests -----------------------------
(***************************************************************************)
(* The modules of the product as packages/modules/src/manifests.ts         *)
(* declares them: what each one requires, the ports it consumes and        *)
(* provides, the events it emits, its handlers and its conditional slots,  *)
(* and its entries in the staff menu.  Titles, settings, jobs and tables   *)
(* are left out.                                                           *)
(***************************************************************************)
EXTENDS Integers

(* A handler listens to some events when all the modules it requires are   *)
(* active; a slot is shown under the same condition.                       *)
On(events, requires) == [events |-> events, requires |-> requires]

Declared(category, requires, consumes, provides, emits, handlers, slots, nav) ==
  [category |-> category, requires |-> requires, consumes |-> consumes, provides |-> provides,
   emits |-> emits, handlers |-> handlers, slots |-> slots, nav |-> nav]

leads ==
  Declared("sales", {}, {}, {}, {"leads.created", "leads.stage_changed", "leads.converted"},
           {}, {}, {"/leads"})

documents ==
  Declared("documents", {}, {}, {"documents.repository"},
           {"documents.received", "documents.classified", "documents.filed",
            "documents.needs_review", "documents.expiring", "documents.expired",
            "documents.shared", "documents.uploaded"},
           {}, {}, {"/documents"})

search ==
  Declared("intelligence", {}, {}, {"search.engine"}, {"search.indexed"},
           {On({"documents.filed"}, {"documents"})}, {}, {"/search"})

billing ==
  Declared("money", {}, {}, {"billing.invoicing", "billing.receivables"},
           {"billing.invoice_issued", "billing.invoice_due_soon", "billing.invoice_overdue",
            "billing.payment_received", "billing.payment_failed"},
           {}, {}, {"/billing"})

collections ==
  Declared("money", {"billing"}, {"billing.receivables"}, {},
           {"collections.reminder_sent", "collections.promise_made",
            "collections.promise_broken", "collections.escalated", "collections.paused"},
           {On({"billing.invoice_overdue"}, {}), On({"billing.payment_received"}, {})},
           {{"documents"}}, {"/collections"})

retainers ==
  Declared("money", {"billing"}, {"billing.invoicing"}, {},
           {"retainers.period_opened", "retainers.consumed", "retainers.threshold_crossed",
            "retainers.overrun", "retainers.renewal_due", "retainers.price_stale",
            "retainers.period_closed"},
           {On({"retainers.period_closed"}, {})}, {}, {"/retainers"})

catalog ==
  Declared("commerce", {}, {}, {"catalog.pricing"},
           {"catalog.product_created", "catalog.price_changed"}, {}, {}, {"/catalog"})

inventory ==
  Declared("commerce", {"catalog"}, {}, {"inventory.availability"},
           {"inventory.low", "inventory.out", "inventory.synced"}, {}, {}, {"/inventory"})

orders ==
  Declared("commerce", {"catalog", "billing"}, {"catalog.pricing", "billing.invoicing"}, {},
           {"orders.placed", "orders.approved", "orders.rejected", "orders.shipped",
            "orders.reorder_due", "orders.line_ready"},
           {On({"orders.placed"}, {"inventory"}), On({"orders.rejected"}, {"inventory"})},
           {}, {"/orders", "/orders/production"})

portal ==
  Declared("commerce", {}, {}, {}, {"portal.user_invited", "portal.user_signed_in"},
           {}, {}, {"/settings/portal"})

\* Variant: stock alerts are not conditional on the inventory module.
alertsAlways ==
  Declared("intelligence", {}, {}, {"alerts.sink"},
           {"alerts.raised", "alerts.dismissed", "alerts.digest_sent"},
           {On({"billing.invoice_overdue", "billing.payment_failed"}, {"billing"}),
            On({"inventory.low", "inventory.out"}, {})},
           {}, {"/alerts"})

alerts ==
  Declared("intelligence", {}, {}, {"alerts.sink"},
           {"alerts.raised", "alerts.dismissed", "alerts.digest_sent"},
           {On({"billing.invoice_overdue", "billing.payment_failed"}, {"billing"}),
            On({"retainers.overrun", "retainers.renewal_due", "retainers.price_stale"}, {"retainers"}),
            On({"documents.expiring", "documents.expired"}, {"documents"}),
            On({"inventory.low", "inventory.out"}, {"inventory"}),
            On({"collections.promise_broken"}, {"collections"})},
           {}, {"/alerts"})

metering ==
  Declared("intelligence", {}, {}, {"metering.usage", "metering.entitlements"},
           {"metering.recorded", "metering.quota_warning", "metering.quota_exceeded",
            "metering.blocked", "metering.plan_changed"},
           {On({"documents.received"}, {"documents"}),
            On({"collections.reminder_sent"}, {"collections"})},
           {}, {"/settings/plan"})

checks ==
  Declared("money", {}, {}, {"checks.register"},
           {"checks.batch_received", "checks.cleared", "checks.partial", "checks.bounced",
            "checks.overdue", "checks.voided"},
           {}, {}, {"/checks"})

leases ==
  Declared("money", {}, {}, {"leases.repository"},
           {"leases.signed", "leases.notice_due", "leases.notice_passed", "leases.ending",
            "leases.ended", "leases.renewed"},
           {}, {}, {"/leases", "/properties"})

signing ==
  Declared("documents", {"documents"}, {"documents.repository"}, {"signing.requests"},
           {"signing.sent", "signing.viewed", "signing.signed", "signing.declined",
            "signing.expired", "signing.reminded"},
           {}, {}, {"/signing"})

ModuleIds ==
  {"leads", "documents", "search", "billing", "collections", "retainers", "catalog", "inventory",
   "orders", "portal", "alerts", "metering", "checks", "leases", "signing"}

ALL_MODULES ==
  [m \in ModuleIds |->
     CASE m = "leads" -> leads [] m = "documents" -> documents [] m = "search" -> search
       [] m = "billing" -> billing [] m = "collections" -> collections
       [] m = "retainers" -> retainers [] m = "catalog" -> catalog
       [] m = "inventory" -> inventory [] m = "orders" -> orders [] m = "portal" -> portal
       [] m = "alerts" -> alerts [] m = "metering" -> metering [] m = "checks" -> checks
       [] m = "leases" -> leases [] m = "signing" -> signing]

(* PRESETS: what a business of each kind starts with. *)
PRESETS ==
  [preset \in {"documents", "services", "commerce", "realestate", "full"} |->
     CASE preset = "documents" -> {"documents", "search", "metering"}
       [] preset = "services" -> {"leads", "documents", "search", "billing", "collections",
                                  "retainers", "alerts", "metering"}
       [] preset = "commerce" -> ModuleIds \ {"retainers", "checks", "leases", "signing"}
       [] preset = "realestate" -> ModuleIds \ {"retainers", "catalog", "inventory", "orders", "portal"}
       [] preset = "full" -> ModuleIds]

(* PLANS: the modules of each subscription, and its monthly price. *)
starter == {"documents", "search", "billing", "collections", "metering"}
pro == starter \cup {"leads", "retainers", "alerts", "portal"}
Plans == <<"starter", "pro", "mega">>
PlanModules == [plan \in {"starter", "pro", "mega"} |->
  CASE plan = "starter" -> starter [] plan = "pro" -> pro [] plan = "mega" -> ModuleIds]

(* The quotas: <<limit, price of a unit beyond it in hundredths>>.  Without *)
(* a limit nothing is charged; without a price the use is to be blocked.   *)
NoLimit == -1
Quotas(meter) ==
  CASE meter = "storage_gb" -> <<<<20, 900>>, <<150, 700>>, <<750, 500>>>>
    [] meter = "documents_processed" -> <<<<300, 40>>, <<2000, 30>>, <<10000, 20>>>>
    [] meter = "ocr_pages" -> <<<<600, 20>>, <<5000, 15>>, <<25000, 10>>>>
    [] meter = "emails_sent" -> <<<<1000, 5>>, <<10000, 4>>, <<50000, 3>>>>
    [] meter = "whatsapp_messages" -> <<<<0, NoLimit>>, <<500, 25>>, <<3000, 20>>>>
    [] meter = "ai_operations" -> <<<<500, 10>>, <<5000, 8>>, <<30000, 6>>>>
    [] meter = "seats" -> <<<<2, 8900>>, <<8, 7900>>, <<25, 6900>>>>
    [] meter = "portal_users" -> <<<<0, NoLimit>>, <<50, 600>>, <<500, 400>>>>
    [] meter = "active_customers" -> <<<<50, NoLimit>>, <<300, NoLimit>>, <<NoLimit, NoLimit>>>>
Meters ==
  {"storage_gb", "documents_processed", "ocr_pages", "emails_sent", "whatsapp_messages",
   "ai_operations", "seats", "portal_users", "active_customers"}
=============================================================================
