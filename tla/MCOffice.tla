------------------------------ MODULE MCOffice ------------------------------
(***************************************************************************)
(* The parts of the office that share no state, checked side by side: a    *)
(* behaviour moves in one area, and the other parts stay as they begin.    *)
(***************************************************************************)
EXTENDS Compose, Alerts, Demo, Intake, Console

CONSTANTS m1, m2, m3, ghost, p, q,           \* modules and ports of the kernel
          k1, k2, paper, client,             \* checks, a document, a customer
          l1, h1, r1,                        \* a lease, a property, a request
          d1, d2, b1, b2, b3, b4, console, script,
          c1, c2, u1, u2, deed, party,       \* contents and uploads
          t1, t2, j1, j2, o1, o2, white

VARIABLE area

\* Every graph of requirements over three modules without a self-loop in two.
MCGraphs ==
  {g \in [{m1, m2, m3} -> SUBSET {m1, m2, m3}] : m1 \notin g[m1] /\ m2 \notin g[m2]}
    \cup {[m \in {m1, m2, m3} |-> IF m = m1 THEN {m2} ELSE IF m = m2 THEN {ghost} ELSE {}]}
MCProvides == [m \in Ids |-> IF m = m1 THEN {p} ELSE IF m = m2 THEN {q} ELSE {}]
MCConsumes == [m \in Ids |-> IF m = m3 THEN {p} ELSE IF m = m2 THEN {p, q} ELSE {}]
MCConditional == [m \in Ids |-> IF m = m3 THEN {{m1, m2}} ELSE IF m = m1 THEN {{}} ELSE {}]

MCToggled == {"documents", "billing", "collections", "retainers", "catalog", "inventory", "orders", "search"}
MCUses == {0, 1, 51, 301, 700, 30001}

MCDue == [c \in CheckIds |-> IF c = k1 THEN 1 ELSE 3]
MCWorth == [c \in CheckIds |-> IF c = k1 THEN 2 ELSE 1]
MCExpires == [d \in Papers |-> 2]

MCTerms == {[fee |-> 400, ends |-> 100, notice |-> 30, priced |-> 0]}
MCLeaseTerms ==
  {[home |-> h1, ends |-> e, notice |-> n, status |-> s] :
     e \in {90, 150}, n \in {60, 100}, s \in {"active", "cancelled"}}

MCBillOf == [b \in Bills |-> IF b = b4 THEN d2 ELSE d1]
MCBillAmount == [b \in Bills |-> 2]
MCTomorrow ==
  [d \in {0, 15, 31, 120} |->
     CASE d = 0 -> {15} [] d = 15 -> {31} [] d = 31 -> {120} [] OTHER -> {}]
MCMoney == [b \in 0..10 |-> b]

MCSlugs == <<"demo-lavi", "demo-masika">>
MCRuns ==
  (console :> [guarded |-> TRUE, resets |-> TRUE]) @@ (script :> [guarded |-> FALSE, resets |-> FALSE])

MCFilesOf == (u1 :> <<c1, c2>>) @@ (u2 :> <<c1, c1>>)
MCGiven == (u1 :> party) @@ (u2 :> Nobody)
MCReads == (c1 :> deed) @@ (c2 :> Untyped)
MCMatches == (c1 :> Nobody) @@ (c2 :> party)

MCOrderOf == (j1 :> o1) @@ (j2 :> o2)
MCColorOf == (j1 :> white) @@ (j2 :> Plain)

----------------------------------------------------------------------------
Areas ==
  {"compose", "shell", "plan", "checks", "alerts", "hours", "lease", "sign", "debt", "demo", "story",
   "upload", "share", "attempts", "console", "board"}

officeVars ==
  <<area, composeVars, shellVars, checkVars, recordVars, alertVars, debtVars, demoVars, intakeVars,
    consoleVars, boardVars>>

OfficeTypeOK ==
  /\ area \in Areas
  /\ ComposeTypeOK /\ ShellTypeOK /\ ChecksTypeOK /\ RecordsTypeOK /\ AlertsTypeOK
  /\ CollectionsTypeOK /\ DemoTypeOK /\ IntakeTypeOK /\ ConsoleTypeOK /\ BoardTypeOK

OfficeInit ==
  /\ area \in Areas
  /\ ComposeInit
  /\ area # "compose" => request = {} /\ needs = [m \in {m1, m2, m3} |-> {}]
  /\ ShellInit
  /\ area # "plan" => meter = "seats"
  /\ area \in {"checks", "alerts"} => enabledModules \in {M!PRESETS["documents"], M!PRESETS["realestate"]}
  /\ area \notin {"checks", "alerts", "shell"} => enabledModules = {}
  /\ ChecksInit /\ RecordsInit /\ AlertsInit /\ CollectionsInit /\ DemoInit /\ IntakeInit /\ BoardInit
  /\ ConsoleInit
  /\ area # "console" => admin = "boss"

ComposeStep == area = "compose" /\ ComposeNext

ShellStep ==
  \/ area = "shell" /\ ToggleModule
  \/ area = "plan" /\ (ChangePlan \/ Use)

CheckStep == area = "checks" /\ ChecksNext

AlertStep == area = "alerts" /\ AlertsNext

RecordStep ==
  \/ area = "hours" /\ (CreateRetainer \/ OpenPeriod \/ LogConsumption)
  \/ area = "lease" /\ CreateLease
  \/ area = "sign" /\ (CreateSigningRequest \/ MarkSigningStatus)
  \/ area \in {"hours", "lease"} /\ RecordDayPasses
  \/ area = "sign" /\ RecordDayPasses /\ recordDay' \in {0, 8, 60}

\* Three invoices, and one customer who promises or is reminded.
DebtStep ==
  /\ area = "debt" /\ CollectionsNext
  /\ issuedOn'[b3] = NoDate /\ promise'[d2] = NoPromise /\ contact'[d2] = NoDate

DemoStep ==
  \/ area = "demo" /\ DemoNext /\ UNCHANGED <<portalUsers, checkVars, recordVars, debtVars, boardVars>>
  \/ /\ area = "story" /\ told = {} /\ recordDay = 0 /\ today = 0 /\ SeedPortal
     /\ UNCHANGED <<tenants, runs, interrupted, checkVars, recordVars, debtVars, boardVars>>
  \/ /\ area = "story" /\ told = {} /\ UNCHANGED <<tenants, runs, interrupted, portalUsers>>
     /\ \/ RecordDayPasses /\ UNCHANGED <<checkVars, debtVars, boardVars, told>>
        \/ NextCheckDay /\ recordDay = 0 /\ UNCHANGED <<recordVars, debtVars, boardVars, told>>
        \/ (SeedRetainer \/ SeedLease \/ SeedRequest) /\ UNCHANGED <<checkVars, debtVars, boardVars>>
        \/ SeedDebt /\ UNCHANGED <<checkVars, recordVars, boardVars>>
        \/ SeedChecks /\ UNCHANGED <<recordVars, debtVars, boardVars>>
        \/ SeedJob /\ UNCHANGED <<checkVars, recordVars, debtVars>>

IntakeStep ==
  \/ area = "upload" /\ UploadNext
  \/ area = "share" /\ (ShareNext \/ FindByHash(u2) \/ StoreFile(u2) \/ InsertDocument(u2))

\* In "console" one request at a time.
ConsoleStep ==
  \/ /\ area = "attempts" /\ (MinutePasses \/ \E t \in Tries : Attempt(t) \/ Judge(t) \/ RecordFailure(t) \/ LoseTry(t))
  \/ /\ area = "console" /\ ConsoleNext
     /\ tries'[t2] = tries[t2] /\ minute' <= 2 /\ Len(audit') <= 2 /\ Cardinality(sessions') <= 2

BoardStep == area = "board" /\ BoardNext

Rest == <<shellVars, checkVars, recordVars, alertVars, debtVars, demoVars, intakeVars, consoleVars, boardVars>>

OfficeNext ==
  /\ area' = area
  /\ \/ ComposeStep /\ UNCHANGED Rest
     \/ /\ UNCHANGED composeVars
        /\ \/ ShellStep /\ UNCHANGED <<checkVars, recordVars, alertVars, debtVars, demoVars, intakeVars, consoleVars, boardVars>>
           \/ CheckStep /\ UNCHANGED <<shellVars, recordVars, alertVars, debtVars, demoVars, intakeVars, consoleVars, boardVars>>
           \/ AlertStep /\ UNCHANGED <<debtVars, demoVars, intakeVars, consoleVars, boardVars>>
           \/ RecordStep /\ UNCHANGED <<shellVars, checkVars, alertVars, debtVars, demoVars, intakeVars, consoleVars, boardVars>>
           \/ DebtStep /\ UNCHANGED <<shellVars, checkVars, recordVars, alertVars, demoVars, intakeVars, consoleVars, boardVars>>
           \/ DemoStep /\ UNCHANGED <<shellVars, alertVars, intakeVars, consoleVars>>
           \/ IntakeStep /\ UNCHANGED <<shellVars, checkVars, recordVars, alertVars, debtVars, demoVars, consoleVars, boardVars>>
           \/ ConsoleStep /\ UNCHANGED <<shellVars, checkVars, recordVars, alertVars, debtVars, demoVars, intakeVars, boardVars>>
           \/ BoardStep /\ UNCHANGED <<shellVars, checkVars, recordVars, alertVars, debtVars, demoVars, intakeVars, consoleVars>>

OfficeSpec == OfficeInit /\ [][OfficeNext]_officeVars /\ WF_composeVars(ComposeStep)
=============================================================================
