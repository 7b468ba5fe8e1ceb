------------------------------ MODULE Quality -------------------------------
(***************************************************************************)
(* Custody samples and their verdicts (internal/quality/service.go).  A    *)
(* sample is named by its chain reference, which the schema makes UNIQUE.  *)
(***************************************************************************)
CONSTANTS Samples,     \* chain references
          Orders,      \* transfer orders
          NoOrder      \* the order of a sample that has no row yet

ASSUME NoOrderAssumption == NoOrder \notin Orders

VARIABLES sampleOrder, verdict

qualityVars == <<sampleOrder, verdict>>

Verdicts == {"received", "approved", "rejected"}

QualityTypeOK ==
    /\ sampleOrder \in [Samples -> Orders \cup {NoOrder}]
    /\ verdict     \in [Samples -> Verdicts]

QualityInit ==
    /\ sampleOrder = [s \in Samples |-> NoOrder]
    /\ verdict     = [s \in Samples |-> "received"]

\* ReceiveSamples inserts the whole list or nothing: a chain reference that
\* exists already breaks the UNIQUE constraint and rolls the insert back.
InsertSamples(o, refs) ==
    /\ refs # {}
    /\ \A s \in refs : sampleOrder[s] = NoOrder
    /\ sampleOrder' = [s \in Samples |-> IF s \in refs THEN o ELSE sampleOrder[s]]
    /\ UNCHANGED verdict

\* BUG: the verdict of a sample that was judged already can be replaced.
MayReviewAgain(s) == sampleOrder[s] # NoOrder

MayReview(s) == sampleOrder[s] # NoOrder /\ verdict[s] = "received"

Review(s, v) ==
    /\ MayReview(s)
    /\ verdict' = [verdict EXCEPT ![s] = v]
    /\ UNCHANGED sampleOrder

ApprovedForOrder(o) ==
    \E s \in Samples : sampleOrder[s] = o /\ verdict[s] = "approved"

=============================================================================
