------------------------------ MODULE Weighing ------------------------------
(***************************************************************************)
(* Weighing a transfer (internal/weighing).  Devices measure; captured     *)
(* readings reach a series in any order, twice or never, and whichever     *)
(* device and order they are of: nothing in the package compares DeviceID  *)
(* or OrderID.  A reading is named by its device and its sequence number.  *)
(***************************************************************************)
EXTENDS Counting, Sequences

CONSTANTS Devices,      \* the devices, each weighing one order
          Readings,     \* bound: how many readings a device takes, 1..Readings
          Nets,         \* the net weights it may show; 0 stands for a bad reading
          Times,        \* the times it may show, whatever its clock does
          MaxCaptures   \* bound: how many readings are captured

ASSUME ReadingsAssumption == Readings \in Nat /\ Nets \subseteq Nat /\ Times \subseteq Nat

VARIABLES net,          \* what the device shows of each reading
          at,           \* and when
          series        \* the readings captured, in the order of the captures

weighingVars == <<net, at, series>>

Taken == Devices \X (1..Readings)

\* Reading.Sequence
Number(r) == r[2]

WeighingInit ==
    /\ net \in [Taken -> Nets]
    /\ at \in [Taken -> Times]
    /\ series = << >>

\* Capture: Reading.Validate refuses gross weights up to the tare.
Capture(r) ==
    /\ Len(series) < MaxCaptures
    /\ net[r] > 0
    /\ series' = Append(series, r)
    /\ UNCHANGED <<net, at>>

WeighingNext == \E r \in Taken : Capture(r)

\* The stable sort by sequence number and time: readings that agree in both stay in
\* the order of their captures.
Ordered(s) ==
    LET before == { p \in (DOMAIN s) \X (DOMAIN s) :
                      LET r == s[p[1]]
                          q == s[p[2]]
                      IN  \/ Number(r) < Number(q)
                          \/ Number(r) = Number(q) /\ at[r] < at[q]
                          \/ Number(r) = Number(q) /\ at[r] = at[q] /\ p[1] < p[2] }
        places == Ranked(DOMAIN s, before)
    IN  [n \in DOMAIN s |-> s[places[n]]]

TimeMovedBackwards(s, i) == i > 1 /\ at[s[i]] < at[s[i - 1]]

\* BUG: a gap in the sequence is not noticed.
NoGap(s, i) == TRUE

InSequence(s, i) == Number(s[i]) = i

\* Series.Validate
Validated(s) ==
    LET o == Ordered(s)
    IN  /\ \A i, j \in DOMAIN o : Number(o[i]) = Number(o[j]) => i = j
        /\ \A i \in DOMAIN o : InSequence(o, i) /\ ~ TimeMovedBackwards(o, i)

\* DeliveredKG returns a quantity and no error.
HasDelivered(s) ==
    LET o == Ordered(s)
    IN  Validated(s) /\ Len(s) >= 2 /\ net[o[Len(s)]] >= net[o[1]]

DeliveredKG(s) == LET o == Ordered(s) IN net[o[Len(s)]] - net[o[1]]

WithinTolerance(s, target, percent) ==
    LET delta == IF DeliveredKG(s) < target THEN target - DeliveredKG(s) ELSE DeliveredKG(s) - target
    IN  HasDelivered(s) /\ delta * 100 <= target * percent

WeighingSpec == WeighingInit /\ [][WeighingNext]_weighingVars

\* In whatever order, twice or never the readings were captured, a series that
\* is accepted has the sequence numbers from 1 on, each once, in the order of the
\* times.  If all its readings are of one device, and only then is this sure, they are
\* the first ones of that device and the quantity is the difference between the last
\* and the first of them: no target but that one is met without a tolerance (Ordered,
\* Validate, DeliveredKG, WithinTolerance).
SeriesAsMeasured ==
    Validated(series) =>
        /\ { Number(series[i]) : i \in DOMAIN series } = 1..Len(series)
        /\ \A i, j \in DOMAIN series :
              Number(series[i]) < Number(series[j]) => at[series[i]] <= at[series[j]]
        /\ \A d \in Devices : (\A i \in DOMAIN series : series[i][1] = d) =>
              \A target \in Nets \ {0} :
                  WithinTolerance(series, target, 0)
                      => net[<<d, Len(series)>>] = net[<<d, 1>>] + target

=============================================================================
