------------------------------- MODULE Checks -------------------------------
(***************************************************************************)
(* Post-dated checks and their monthly reconciliation: rows of checks and  *)
(* the updates of packages/db/src/checks.ts, the totals of packages/core/  *)
(* src/checks/reconciliation.ts, the monthly page (apps/web/app/(app)/     *)
(* checks) and the page of a customer.  A page that was opened keeps what  *)
(* it showed; its buttons act on the row as it is by then.                 *)
(***************************************************************************)
EXTENDS Naturals, FiniteSets, FiniteSetsExt

CONSTANTS CheckIds,      \* checks that may be received
          DueOn,         \* the day each one is due
          Amount,        \* its amount
          LastCheckDay,  \* bound on the clock
          MonthLength    \* days of a month

ASSUME ChecksAssumption ==
  /\ IsFiniteSet(CheckIds) /\ MonthLength \in Nat \ {0} /\ LastCheckDay \in Nat
  /\ DueOn \in [CheckIds -> Nat] /\ Amount \in [CheckIds -> Nat \ {0}]

NoCheck == "no row"
CheckStatuses == {"pending", "cleared", "partial", "bounced", "void"}
Months == 0..(LastCheckDay \div MonthLength + 1)
ShownStatuses == CheckStatuses \cup {"overdue", "due_today", "upcoming"}

VARIABLES checkStatus,    \* status of each check, or NoCheck
          clearedAmount,  \* its cleared_amount, 0 for null
          markSigned,     \* whether cleared_by and cleared_at are set
          lastEvent,      \* the last event of the check in the timeline
          today,          \* current date
          shownMonth,     \* the month of the open page
          checkPage       \* its rows, as it shows them

checkVars == <<checkStatus, clearedAmount, markSigned, lastEvent, today, shownMonth, checkPage>>

ChecksTypeOK ==
  /\ checkStatus \in [CheckIds -> CheckStatuses \cup {NoCheck}]
  /\ clearedAmount \in [CheckIds -> Nat] /\ markSigned \in [CheckIds -> BOOLEAN]
  /\ lastEvent \in [CheckIds -> {"none", "checks.cleared", "checks.partial", "checks.bounced"}]
  /\ today \in 0..LastCheckDay
  /\ shownMonth \in Months
  /\ DOMAIN checkPage \subseteq CheckIds /\ checkPage \in [DOMAIN checkPage -> ShownStatuses]

----------------------------------------------------------------------------
CheckRows == {c \in CheckIds : checkStatus[c] # NoCheck}
MonthOf(d) == d \div MonthLength
FirstOf(mo) == mo * MonthLength

ChecksForMonth(mo) == {c \in CheckRows : MonthOf(DueOn[c]) = mo}

\* Variant: only the month before is looked at for what was dragged along.
OverdueLastMonth(before) ==
  {c \in CheckRows : checkStatus[c] = "pending" /\ DueOn[c] < before /\ DueOn[c] + MonthLength >= before}

(* What was due before some day and is not marked, from any month. *)
OverdueChecks(before) == {c \in CheckRows : checkStatus[c] = "pending" /\ DueOn[c] < before}

DisplayStatus(c) ==
  IF checkStatus[c] # "pending" THEN checkStatus[c]
  ELSE IF DueOn[c] < today THEN "overdue" ELSE IF DueOn[c] = today THEN "due_today" ELSE "upcoming"

(* reconcile: what was to come in, and what became of it. *)
Reconcile(S) ==
  LET Live == {c \in S : checkStatus[c] # "void"}
      With(s) == {c \in Live : checkStatus[c] = s}
  IN  [expected |-> MapThenSumSet(LAMBDA c : Amount[c], Live),
       received |-> MapThenSumSet(LAMBDA c : Amount[c], With("cleared"))
                      + MapThenSumSet(LAMBDA c : clearedAmount[c], With("partial")),
       shortfall |-> MapThenSumSet(LAMBDA c : Amount[c] - clearedAmount[c], With("partial")),
       bounced |-> MapThenSumSet(LAMBDA c : Amount[c], With("bounced")),
       outstanding |-> MapThenSumSet(LAMBDA c : Amount[c], With("pending")),
       settled |-> \A c \in S : DisplayStatus(c) \notin {"overdue", "due_today", "pending"}]

NeedsAttention(S) == {c \in S : DisplayStatus(c) \in {"overdue", "due_today", "bounced"}}

(* The monthly page: what is dragged from earlier months comes first, and  *)
(* is labelled overdue; then the month.                                    *)
MonthlyPage(mo) ==
  LET dragged == OverdueChecks(FirstOf(mo))
      thisMonth == ChecksForMonth(mo)
  IN  [c \in dragged \cup thisMonth |-> IF c \in thisMonth THEN DisplayStatus(c) ELSE "overdue"]

(* The headline: how many checks are to be looked up at the bank. *)
Attention(mo) ==
  Cardinality(OverdueChecks(FirstOf(mo)))
    + Cardinality({c \in ChecksForMonth(mo) : DisplayStatus(c) \in {"overdue", "due_today"}})

(* The page of one customer, and that of a lease, which counts as open     *)
(* what is still to come.                                                  *)
CustomerChecks == [book |-> Reconcile(CheckRows), attention |-> NeedsAttention(CheckRows)]
LeaseChecks ==
  [book |-> Reconcile(CheckRows), open |-> {c \in CheckRows : checkStatus[c] = "pending" /\ DueOn[c] > today}]

(* The buttons of a row: a marked check can only be unmarked. *)
Buttons(shown) ==
  IF shown \in {"cleared", "partial", "bounced", "void"} THEN {"pending"}
  ELSE {"cleared", "partial", "bounced"}

----------------------------------------------------------------------------
ChecksInit ==
  /\ checkStatus = [c \in CheckIds |-> NoCheck] /\ clearedAmount = [c \in CheckIds |-> 0]
  /\ markSigned = [c \in CheckIds |-> FALSE] /\ lastEvent = [c \in CheckIds |-> "none"]
  /\ today = 0 /\ shownMonth = 0 /\ checkPage = [c \in {} |-> "pending"]

CreateCheck ==
  \E c \in CheckIds :
    /\ checkStatus[c] = NoCheck
    /\ checkStatus' = [checkStatus EXCEPT ![c] = "pending"]
    /\ UNCHANGED <<clearedAmount, markSigned, lastEvent, today, shownMonth, checkPage>>

OpenPage ==
  \E mo \in Months :
    /\ shownMonth' = mo /\ checkPage' = MonthlyPage(mo)
    /\ UNCHANGED <<checkStatus, clearedAmount, markSigned, lastEvent, today>>

(* mark: the row takes the status, the signature and the amount that go    *)
(* with it, and the timeline an event unless the mark is taken back.  The  *)
(* table refuses a partial payment of the whole amount.                    *)
MarkCheck(c, s, amount) ==
  /\ s = "partial" => amount < Amount[c]
  /\ checkStatus' = [checkStatus EXCEPT ![c] = s]
  /\ clearedAmount' = [clearedAmount EXCEPT ![c] =
                   CASE s = "partial" -> amount [] s = "cleared" -> Amount[c] [] OTHER -> 0]
  /\ markSigned' = [markSigned EXCEPT ![c] = s \in {"cleared", "partial"}]
  /\ lastEvent' = [lastEvent EXCEPT ![c] =
                     CASE s = "pending" -> @ [] s = "cleared" -> "checks.cleared"
                       [] s = "partial" -> "checks.partial" [] OTHER -> "checks.bounced"]

(* A button of the open page, which is then rendered again. *)
MarkFromPage ==
  \E c \in DOMAIN checkPage : \E s \in Buttons(checkPage[c]) : \E amount \in 1..Amount[c] :
    /\ MarkCheck(c, s, amount)
    /\ UNCHANGED <<today, shownMonth>>
    /\ checkPage' = MonthlyPage(shownMonth)'

(* The same from the page of the customer, which somebody else has open.   *)
MarkFromCustomer ==
  \E c \in CheckRows : \E s \in Buttons(checkStatus[c]) : \E amount \in 1..Amount[c] :
    MarkCheck(c, s, amount) /\ UNCHANGED <<today, shownMonth, checkPage>>

NextCheckDay ==
  /\ today < LastCheckDay /\ today' = today + 1
  /\ UNCHANGED <<checkStatus, clearedAmount, markSigned, lastEvent, shownMonth, checkPage>>

ChecksNext == CreateCheck \/ OpenPage \/ MarkFromPage \/ MarkFromCustomer \/ NextCheckDay

ChecksSpec == ChecksInit /\ [][ChecksNext]_checkVars

----------------------------------------------------------------------------
(* "A check of July that was not marked must still show in September": on  *)
(* the page of the current month every check that is due and unmarked has  *)
(* a row, is counted in the headline exactly once, and nothing that is     *)
(* received, short, returned or open is lost from the month's total.  What *)
(* the customer has outstanding is what the page of the lease counts as    *)
(* open, and what is due.                                                  *)
NoCheckIsLost ==
  LET now == MonthOf(today)
      due == {c \in CheckRows : checkStatus[c] = "pending" /\ DueOn[c] <= today}
      sum == Reconcile(ChecksForMonth(now))
      open == LeaseChecks.open
  IN  /\ CustomerChecks.book.outstanding = MapThenSumSet(LAMBDA c : Amount[c], open \cup due)
      /\ due \subseteq CustomerChecks.attention /\ open \cap CustomerChecks.attention = {}
      /\ due \subseteq DOMAIN MonthlyPage(now)
      /\ Attention(now) = Cardinality(due)
      /\ sum.expected = sum.received + sum.shortfall + sum.bounced + sum.outstanding
=============================================================================
