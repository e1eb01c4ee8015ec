------------------------------- MODULE Board -------------------------------
(***************************************************************************)
(* The board of production (packages/db/src/commerce.ts and the pages of   *)
(* orders and of production): the lines of approved orders move between    *)
(* three columns in any direction, and the customer of a line that is      *)
(* ready is told.  How an approval takes stock is Orders.                  *)
(***************************************************************************)
EXTENDS Integers, FiniteSets

CONSTANTS Jobs,        \* lines of orders
          OrderOf,     \* the order of each
          ColorOf,     \* its colour, or Plain
          LastHour     \* bound on the clock

ASSUME BoardAssumption == LastHour \in Nat

Plain == "no colour"
ProductionStages == {"started", "near_completion", "ready"}
NotYet == -1

VARIABLES orderStatus,   \* "pending", "approved" or "rejected"
          stageOf,       \* production_stage of each line
          readyAt,       \* ready_at: an hour, or NotYet
          notifiedAt,    \* notified_at: an hour, or NotYet
          announced,     \* lines with an event orders.line_ready
          hour

boardVars == <<orderStatus, stageOf, readyAt, notifiedAt, announced, hour>>

JobOrders == {OrderOf[j] : j \in Jobs}
Hours == {NotYet} \cup 0..LastHour

(* A line that is ready, that was announced or whose customer was told has *)
(* been made ready.                                                        *)
BoardTypeOK ==
  /\ orderStatus \in [JobOrders -> {"pending", "approved", "rejected"}]
  /\ stageOf \in [Jobs -> ProductionStages] /\ readyAt \in [Jobs -> Hours] /\ notifiedAt \in [Jobs -> Hours]
  /\ hour \in 0..LastHour
  /\ \A j \in Jobs : /\ stageOf[j] = "ready" => readyAt[j] # NotYet
                     /\ notifiedAt[j] # NotYet => readyAt[j] # NotYet
                     /\ j \in announced => readyAt[j] # NotYet

----------------------------------------------------------------------------
(* Only the lines of approved orders are in the queue.  A filter that is   *)
(* an empty string is a filter all the same, and finds nothing.            *)
Everything == "null"
Queue == {j \in Jobs : orderStatus[OrderOf[j]] = "approved"}
ListProductionQueue(color) == {j \in Queue : color = Everything \/ (ColorOf[j] = color /\ color # Plain)}
Column(stage, color) == {j \in ListProductionQueue(color) : stageOf[j] = stage}
Colors == {ColorOf[j] : j \in Queue} \ {Plain}

ListReadyToNotify == {j \in Queue : stageOf[j] = "ready" /\ notifiedAt[j] = NotYet}

----------------------------------------------------------------------------
BoardInit ==
  /\ orderStatus = [o \in JobOrders |-> "pending"] /\ stageOf = [j \in Jobs |-> "started"]
  /\ readyAt = [j \in Jobs |-> NotYet] /\ notifiedAt = [j \in Jobs |-> NotYet]
  /\ announced = {} /\ hour = 0

ApproveJob ==
  \E o \in JobOrders :
    /\ orderStatus[o] = "pending" /\ orderStatus' = [orderStatus EXCEPT ![o] = "approved"]
    /\ UNCHANGED <<stageOf, readyAt, notifiedAt, announced, hour>>

RejectJob ==
  \E o \in JobOrders :
    /\ orderStatus[o] \in {"pending", "approved"} /\ orderStatus' = [orderStatus EXCEPT ![o] = "rejected"]
    /\ UNCHANGED <<stageOf, readyAt, notifiedAt, announced, hour>>

(* setStage, on a page that may be old: the update names the line alone.   *)
SetStage ==
  \E j \in Jobs, stage \in ProductionStages :
    /\ orderStatus[OrderOf[j]] # "pending"
    /\ stageOf' = [stageOf EXCEPT ![j] = stage]
    /\ readyAt' = [readyAt EXCEPT ![j] = IF stage = "ready" THEN hour ELSE @]
    /\ announced' = IF stage = "ready" THEN announced \cup {j} ELSE announced
    /\ UNCHANGED <<orderStatus, notifiedAt, hour>>

\* Variant: the line is not looked at.
NotifyAlways ==
  \E j \in Jobs :
    /\ notifiedAt' = [notifiedAt EXCEPT ![j] = hour]
    /\ UNCHANGED <<orderStatus, stageOf, readyAt, announced, hour>>

(* notify: refused by the row unless the line is ready now; nothing ever   *)
(* clears what it writes.                                                  *)
Notify ==
  \E j \in Jobs :
    /\ stageOf[j] = "ready" /\ notifiedAt' = [notifiedAt EXCEPT ![j] = hour]
    /\ UNCHANGED <<orderStatus, stageOf, readyAt, announced, hour>>

HourPasses == hour < LastHour /\ hour' = hour + 1 /\ UNCHANGED <<orderStatus, stageOf, readyAt, notifiedAt, announced>>

BoardNext == ApproveJob \/ RejectJob \/ SetStage \/ Notify \/ HourPasses

BoardSpec == BoardInit /\ [][BoardNext]_boardVars
=============================================================================
