------------------------------- MODULE Reports -------------------------------
(***************************************************************************)
(* What the read-only packages say of the orders of module Bunkering: the  *)
(* compliance findings and the readiness they decide, the overview of the  *)
(* operations and the custody report.  They keep no state; a caller reads  *)
(* the rows and hands them over.                                           *)
(***************************************************************************)
EXTENDS Bunkering

Rows == { o \in Orders : state[o] # "absent" }

-----------------------------------------------------------------------------
(* internal/compliance and internal/bunkering/readiness.go *)

\* What CheckVessel and SafetyRule.Validate object to in the vessel, the weather
\* and the crew, of which no table keeps anything.
OutsideCodes == {"VESSEL_IMO", "CERTIFICATE_EXPIRED", "VESSEL_DIMENSIONS", "FLAG_MISSING",
                 "WEATHER_OR_CREW"}

\* BUG: a window that nobody has claimed is not available.
TestsOfClaimed(o) ==
    [STATE_NOT_READY    |-> state[o] \notin {"approved", "alongside"},
     WINDOW_UNAVAILABLE |-> window[berth[o]] # "claimed",
     FUEL_EMPTY         |-> available[fuelLot[o]] = 0,
     PERMIT_MISSING     |-> permit[o] # "approved"]

\* What CheckOperation asks of the rows; every lot is approved (module Fuel).
Tests(o) ==
    [STATE_NOT_READY    |-> state[o] \notin {"approved", "alongside"},
     WINDOW_UNAVAILABLE |-> window[berth[o]] \notin {"open", "claimed"},
     FUEL_EMPTY         |-> available[fuelLot[o]] = 0,
     PERMIT_MISSING     |-> permit[o] # "approved"]

CheckOperation(o, outside) == outside \cup { code \in DOMAIN Tests(o) : Tests(o)[code] }

\* Every finding blocks except the missing flag.
Blocked(findings) == findings \ {"FLAG_MISSING"} # {}

\* Readiness.Require
Ready(o, outside) == ~ Blocked(CheckOperation(o, outside))

-----------------------------------------------------------------------------
(* internal/reporting *)

\* The counters of Build, and the states each counts.
Overview ==
    LET Counted(states) == Cardinality({ o \in Rows : state[o] \in states })
    IN  [Planned         |-> Counted({"planned", "approved"}),
         Active          |-> Counted({"alongside", "transferring"}),
         AwaitingQuality |-> Counted({"sampled"}),
         Completed       |-> Counted({"completed"}),
         Cancelled       |-> Counted({"cancelled"}),
         TargetKG        |-> Total(target, Rows),
         TransferredKG   |-> Total(transferred, Rows)]

Overdue(now) == { o \in Rows : span[berth[o]][2] < now /\ state[o] \in ActiveStates }

\* The custody rows of an order, and what BuildCustody counts of them.
CustodyRows(o) == { s \in Samples : sampleOrder[s] = o }

BuildCustody(o) == [v \in Verdicts |-> Cardinality({ s \in CustodyRows(o) : verdict[s] = v })]

\* ReceiveSamples writes the custody event ValidateCustody asks for.
CustodyComplete(o) ==
    /\ CustodyRows(o) # {}
    /\ \A s \in CustodyRows(o) : verdict[s] = "approved"

-----------------------------------------------------------------------------

\* Readiness never holds back a transfer that StartTransfer would start: an order
\* alongside whose lot holds its target has no finding of its own, unless recovery
\* replayed it, whatever the planners did to its window since (Check, Require).
ReadinessAdmits ==
    \A o \in Orders :
        state[o] = "alongside" /\ available[fuelLot[o]] >= target[o] /\ replays[o] = 0
            => Ready(o, {}) /\ Ready(o, {"FLAG_MISSING"})

\* The overview's open orders are those that hold windows back, and it
\* reports as transferred what announced completions delivered: a batch that
\* completes orders adds to Completed but nothing to TransferredKG.
OverviewAgrees ==
    /\ Overview.Planned + Overview.Active + Overview.AwaitingQuality
         = Total([w \in Windows |-> Cardinality(ActiveOrders(w))], Windows)
    /\ Overview.TransferredKG
         = Total(target, { o \in Rows : "bunkering.completed" \in outbox[o] })
    /\ \A now \in 0..(Horizon + 1) :
           Cardinality(Overdue(now)) <= Overview.Planned + Overview.Active + Overview.AwaitingQuality

\* A complete chain of custody suffices to complete the order, and an order whose
\* completion was announced has an approved sample in its report.
CustodyAgrees ==
    \A o \in Rows :
        /\ CustodyComplete(o) => ApprovedForOrder(o)
        /\ "bunkering.completed" \in outbox[o] => BuildCustody(o)["approved"] > 0

\* The reports agree with what the handlers did and will do (CheckOperation,
\* Build, BuildCustody, CustodyComplete).
ReportsAgree == ReadinessAdmits /\ OverviewAgrees /\ CustodyAgrees

=============================================================================
