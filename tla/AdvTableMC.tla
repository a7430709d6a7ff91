----------------------------- MODULE AdvTableMC -----------------------------
(***************************************************************************)
(* AdvTable for TLC: the interrupt stops after MaxReports reports.          *)
(***************************************************************************)
EXTENDS AdvTable

CONSTANT MaxReports

ASSUME BoundAssumption == MaxReports \in Nat

NextMC ==
  \/ received < MaxReports /\ \E t \in Tag : AdvReport(t)
  \/ MainStep
  \/ Switch

SpecMC == Init /\ [][NextMC]_vars

FairSpecMC == SpecMC /\ Fairness

(* The purpose of adv_post: a report that waits in the table is posted in    *)
(* the end, or a later report of its tag is.                                 *)
EveryReportPosted ==
  \A t \in Tag, n \in 1 .. MaxReports : kept[t] = n ~> posted[t] >= n

(* The same as far as the code keeps it: a report that waits is posted, or a *)
(* later one of its tag, unless a report came in while main held the mutex   *)
(* and a work queue thread ran, which the kernel then pended.                *)
PostedUnlessPended ==
  \A t \in Tag, n \in 1 .. MaxReports :
    kept[t] = n ~> \/ posted[t] >= n
                   \/ mutex.waiting # {}
                   \/ mutex.owner \in Worker
=============================================================================
