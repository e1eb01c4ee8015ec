CONSTANTS
  m1 = m1
  m2 = m2
  m3 = m3
  ghost = ghost
  p = p
  q = q
  Ids = {m1, m2, m3, ghost}
  Ports = {p, q}
  Graphs <- MCGraphs
  Provides <- MCProvides
  Consumes <- MCConsumes
  Conditional <- MCConditional
  Toggled <- MCToggled
  Uses <- MCUses
  k1 = k1
  k2 = k2
  CheckIds = {k1, k2}
  DueOn <- MCDue
  Amount <- MCWorth
  LastCheckDay = 5
  MonthLength = 2
  paper = paper
  client = client
  Papers = {paper}
  ExpiresOn <- MCExpires
  FeedLimit = 2
  Accounts = {client}
  QuietAfter = 2
  r1 = r1
  l1 = l1
  h1 = h1
  RecordDays = {0, 4, 6, 8, 20, 25, 30, 60, 155, 600}
  RetainerTerms <- MCTerms
  PeriodStarts = {0, 31}
  PeriodDays = 31
  QuotaAmounts = {0, 400}
  Entries = {100, 250}
  FullUse = 750
  Homes = {h1}
  Leases = {l1}
  LeaseTerms <- MCLeaseTerms
  Signings = {r1}
  d1 = d1
  d2 = d2
  b1 = b1
  b2 = b2
  b3 = b3
  b4 = b4
  Debtors = {d1, d2}
  Bills = {b1, b2, b3, b4}
  BillOf <- MCBillOf
  BillAmount <- MCBillAmount
  Terms = 15
  Tomorrow <- MCTomorrow
  PromiseDays = {1}
  ListLimit = 2
  MoneyScore <- MCMoney
  console = console
  script = script
  DemoSlugs <- MCSlugs
  DemoRuns <- MCRuns
  TenantIds = 4
  CreditLimits = {0, 3}
  PortalContacts = {1, 2, 3, 4, 5, 6, 7}
  Buyers = {1, 4, 5}
  c1 = c1
  c2 = c2
  u1 = u1
  u2 = u2
  deed = deed
  party = party
  Contents = {c1, c2}
  FilesOf <- MCFilesOf
  Given <- MCGiven
  Reads <- MCReads
  Matches <- MCMatches
  DocTypes = {deed}
  Parties = {party}
  BulkLimit = 2
  ShareTtl = 2
  UrlTtl = 1
  LastTick = 3
  MaxShares = 2
  t1 = t1
  t2 = t2
  Tries = {t1, t2}
  Addresses = {"home"}
  Emails = {"boss"}
  LockoutAttempts = 2
  LockoutMinutes = 2
  SessionMinutes = 1
  AuditMinutes = 2
  LastMinute = 3
  AuditBound = 4
  j1 = j1
  j2 = j2
  o1 = o1
  o2 = o2
  white = white
  Jobs = {j1, j2}
  OrderOf <- MCOrderOf
  ColorOf <- MCColorOf
  LastHour = 1
SPECIFICATION OfficeSpec
INVARIANTS OfficeTypeOK HandlersAreFed NothingDueIsSilent DebtIsCountedOnce DemoOrphansWereInterrupted StoryIsTold FilesAreAccountedFor LinksDieSoon AttemptsAreBounded
PROPERTIES ComposeRefines EveryRequestEnds WarningsOnlyRise
CHECK_DEADLOCK FALSE
