---------------------------- MODULE Calculations ----------------------------
(***************************************************************************)
(* The calculations no handler calls yet, on the arguments around their    *)
(* boundaries: prices and taxes (internal/billing), opening hours          *)
(* (internal/terminal), the ledger of a fuel lot (internal/fuel) and the   *)
(* delay of a retry (internal/worker).  A state is one call with its       *)
(* arguments.                                                              *)
(***************************************************************************)
EXTENDS Counting, SequencesExt

CONSTANTS Weights,     \* quantities to price, in kg
          Rates,       \* tax rates, in hundredths
          Day,         \* minutes of a day
          Offsets,     \* how far, in minutes, the clocks of a location are ahead of UTC
          Changes,     \* when a location sets its clocks
          EntryKG,     \* quantities of ledger entries, which Append wants positive
          Moments,     \* times of ledger entries
          Openings,    \* what a lot may hold when its ledger begins
          MaxEntries,  \* bound: the entries of a ledger
          LastAttempt  \* bound: the attempts of a retry

\* Quote refuses quantities up to 0; the rates are none, the 6% and the 8% of TaxRules.
ASSUME WeightAssumption == Weights \subseteq Nat \ {0} /\ Rates \subseteq {0, 6, 8}
ASSUME DayAssumption == Day \in Nat \ {0}
ASSUME ClockAssumption == Offsets \subseteq Int /\ Changes \subseteq Int
ASSUME EntryAssumption == EntryKG \subseteq Nat \ {0} /\ Moments \subseteq Nat /\ Openings \subseteq Nat

VARIABLE call

-----------------------------------------------------------------------------
(* internal/billing/pricing.go and tax.go: cents.  The multiplier of a     *)
(* currency is counted in tenths, a rate in hundredths.                    *)

\* DefaultPolicy; the last band has no end.
Bands == << [from |-> 0, cents |-> 120], [from |-> 10000, cents |-> 100], [from |-> 50000, cents |-> 80] >>

Multiplier == [USD |-> 10, CNY |-> 71]

\* A band ends where the next begins, so the first that fits starts last.
Band(kg) == Bands[CHOOSE i \in DOMAIN Bands :
                      /\ kg >= Bands[i].from
                      /\ \A j \in DOMAIN Bands : kg >= Bands[j].from => j <= i]

IsNight(hour) == hour >= 22 \/ hour < 6

\* int64(float64(cents)*multiplier) cuts the fraction off.  The double next to 7.1 is
\* short of it by less than half a unit in the last place of a product, so that of a
\* multiple of ten cents rounds to the whole number (below 2^53 cents).
Convert(cents, currency) == (cents * Multiplier[currency]) \div 10

Quote(kg, hour, hazardous, currency) ==
    LET subtotal  == 5000 + kg * Band(kg).cents
        surcharge == (IF IsNight(hour) THEN 10000 ELSE 0) + (IF hazardous THEN 15000 ELSE 0)
    IN  [subtotal   |-> Convert(subtotal, currency),
         surcharges |-> Convert(surcharge, currency),
         total      |-> Convert(subtotal + surcharge, currency)]

\* math.Round of the tax rounds halves up.
Apply(rate, cents) == cents + (cents * rate + 50) \div 100

-----------------------------------------------------------------------------
(* internal/terminal/policy.go.  Moments are minutes in UTC.  A location   *)
(* sets its clocks once near the moment asked about.                       *)

Offset(zone, time) == IF time < zone.change THEN zone.before ELSE zone.after

\* value.In(h.Location)
Local(zone, time) == time + Offset(zone, time)

\* time.Date: of the offset that holds where the clock reading is read as UTC it
\* tries the moment, and takes the offset that holds there.
Date(zone, clock) == clock - Offset(zone, clock - Offset(zone, clock))

\* The minute both operators start from: the midnight that began the local day.
Midnight(zone, time) == Date(zone, (Local(zone, time) \div Day) * Day)

\* BUG: hours that run over midnight are not thought of.
OpenByDay(from, until, zone, time) ==
    LET minute == Local(zone, time) % Day IN from <= minute /\ minute <= until

\* Both ends belong to the hours, which may run over midnight.
OpenAt(from, until, zone, time) ==
    LET minute == Local(zone, time) % Day
    IN  IF from <= until THEN from <= minute /\ minute <= until
                         ELSE from <= minute \/ minute <= until

\* From after midnight of the same day unless that is over, or Day after that: both
\* are added to a moment, whatever the clocks do meanwhile.
NextOpening(from, until, zone, time) ==
    LET candidate == Midnight(zone, time) + from
    IN  IF OpenAt(from, until, zone, time) THEN time
        ELSE IF candidate > time THEN candidate ELSE candidate + Day

-----------------------------------------------------------------------------
(* internal/fuel/ledger.go: the entries of one lot. *)

\* The balance over some of the entries: what came in is added, the rest subtracted.
Balance(entries, counted, opening) ==
    LET kg == [i \in DOMAIN entries |-> entries[i].kg]
        in == { i \in counted : entries[i].direction = "in" }
    IN  opening + Total(kg, in) - Total(kg, counted \ in)

\* sort.Slice leaves open in which order it puts the entries of one time.
Sortings(entries) ==
    { order \in SetToSeqs(DOMAIN entries) :
          \A i, j \in DOMAIN order : i < j => entries[order[i]].at <= entries[order[j]].at }

\* Validate, after one of the sortings.  Append lets any direction in.
Validate(order, entries, opening) ==
    \A n \in DOMAIN order :
        /\ entries[order[n]].direction \in {"in", "out"}
        /\ Balance(entries, { order[i] : i \in 1..n }, opening) >= 0

-----------------------------------------------------------------------------
(* internal/worker/backoff.go: DefaultRetryPolicy, in seconds. *)

\* From the 35th attempt on Initial * 2^(attempt-1) nanoseconds exceed an int64, and
\* what the conversion of such a float64 gives is up to the machine: the smallest
\* int64, which no maximum caps, or the largest.
Delays(attempt) ==
    CASE attempt < 1  -> {1}
      [] attempt \in 1..9   -> {2 ^ (attempt - 1)}
      [] attempt \in 10..34 -> {300}
      [] OTHER -> {300, 0 - 2 ^ 30}

\* RetryPolicy.Terminal
Terminal(attempt) == attempt >= 5

-----------------------------------------------------------------------------

Entries == [kg : EntryKG, direction : {"in", "out", "other"}, at : Moments]

Computations ==
    [what : {"quote"}, kg : Weights, hour : 0..23, hazardous : BOOLEAN,
     currency : DOMAIN Multiplier, rate : Rates]
    \cup [what : {"hours"}, from : 0..(Day - 1), until : 0..(Day - 1), time : 0..(2 * Day - 1),
          zone : [change : Changes, before : Offsets, after : Offsets]]
    \cup [what : {"ledger"}, entries : UNION { [1..n -> Entries] : n \in 0..MaxEntries },
          opening : Openings]
    \cup [what : {"retry"}, attempt : 0..LastAttempt]

CalculationsInit == call \in Computations

\* A call is computed at once.
CalculationsSpec == CalculationsInit /\ [][FALSE]_call

\* The parts of a quote add up to its total in every currency, although each is cut
\* to whole cents on its own: the amounts of the default policy are multiples of
\* ten cents.  The tax on the total is within a cent of the taxes on its parts
\* (DefaultPolicy, Quote, Apply).
QuoteAddsUp ==
    call.what = "quote" =>
        LET q == Quote(call.kg, call.hour, call.hazardous, call.currency)
        IN  /\ q.total = q.subtotal + q.surcharges
            /\ Apply(call.rate, q.total) - (Apply(call.rate, q.subtotal) + Apply(call.rate, q.surcharges))
                 \in -1..1

\* The clocks of a zone stand the same way from the midnight of a moment, which the day
\* has, to another.
ClocksLeftAlone(zone, time, next) ==
    LET midnight == Midnight(zone, time)
    IN  /\ Local(zone, midnight) = (Local(zone, time) \div Day) * Day
        /\ Offset(zone, midnight) = Offset(zone, time)
        /\ Offset(zone, next) = Offset(zone, time)

\* On a day whose clocks are left alone NextOpening is the first moment from the given
\* one on at which OpenAt holds, also when the hours run over midnight.  When they are
\* set it may be a closed moment, a later one or one that is past: it is off by what
\* they are set by and no more, in the moment and in the time of day.
NextOpeningIsFirst ==
    call.what = "hours" =>
        LET next == NextOpening(call.from, call.until, call.zone, call.time)
            set  == call.zone.after - call.zone.before
        IN  /\ ClocksLeftAlone(call.zone, call.time, next) =>
                  /\ next >= call.time /\ next < call.time + Day
                  /\ OpenAt(call.from, call.until, call.zone, next)
                  /\ \A time \in call.time..(next - 1) : ~ OpenAt(call.from, call.until, call.zone, time)
            /\ next # call.time =>
                  /\ \E off \in {0, set, 0 - set} : next > call.time + off
                  /\ \E off \in {0, set, 0 - set} : next < call.time + Day + off
                  /\ \E off \in {0, set, 0 - set} :
                        (Local(call.zone, next) - call.from - off) % Day = 0

\* A ledger that Validate accepts has a balance that is not negative, in the order
\* Balance adds it up; and whether it is accepted depends on the sort only when
\* fuel came in and went out at one time.
LedgerBalances ==
    call.what = "ledger" =>
        LET accepted == { order \in Sortings(call.entries) : Validate(order, call.entries, call.opening) }
        IN  /\ accepted # {} => Balance(call.entries, DOMAIN call.entries, call.opening) >= 0
            /\ accepted \notin {{}, Sortings(call.entries)} =>
                  \E i, j \in DOMAIN call.entries :
                      /\ call.entries[i].at = call.entries[j].at
                      /\ call.entries[i].direction = "in" /\ call.entries[j].direction = "out"

\* As long as the policy has not ended the retries each waits at least as long as the
\* one before it and never more than the maximum; a delay that is negative takes
\* thirty attempts more than the policy allows (Delay, Terminal).
DelaysGrow ==
    call.what = "retry" =>
        /\ \A d \in Delays(call.attempt) : d <= 300
        /\ ~ Terminal(call.attempt) =>
              \A d \in Delays(call.attempt), e \in Delays(call.attempt + 1) : 0 < d /\ d <= e
        /\ (\E d \in Delays(call.attempt) : d < 0) => Terminal(call.attempt - 30)

\* The calculations agree with what they promise, up to their boundaries
\* (pricing.go, tax.go, policy.go, ledger.go, backoff.go).
CalculationsAgree == QuoteAddsUp /\ NextOpeningIsFirst /\ LedgerBalances /\ DelaysGrow

=============================================================================
