------------------------------- MODULE Ledger -------------------------------
(***************************************************************************)
(* cost/records.ts, pricing.ts and ledger.ts: how the billing events of a   *)
(* session become samples, amounts, the slice a scan stores and the totals  *)
(* of a day, a week and a month.                                            *)
(*                                                                         *)
(* An instant is a natural number and a day is DayLength of them.  A route  *)
(* is a provider and a model, whose name is a value; an alias is the set of *)
(* names it covers.  A usage is its token buckets with the reported total.  *)
(***************************************************************************)
EXTENDS Integers, Sequences, SequencesExt, FiniteSetsExt

CONSTANTS
    DayLength,   \* instants of a day
    WindowDays,  \* COST_WINDOW_DAYS
    Months,      \* the first days of the months
    None

-----------------------------------------------------------------------------
(* records.ts: one sample per model attempt.                               *)

BillingEvents == {"request/context", "assistant/message", "assistant/attempt",
                  "llm/retry-started", "session/end-seed", "compaction/summary"}

\* A summary written without a model call has no usage and is not billed.
CostRecords(records) ==
    SelectSeq(records, LAMBDA e : /\ e.type \in BillingEvents
                                  /\ e.type = "compaction/summary" => e.usage # None)

ValidUsage(usage) ==
    IF \/ usage = None
       \/ usage.total \notin {None, usage.input + usage.output + usage.cacheRead + usage.cacheWrite}
    THEN None ELSE usage

\* What a fork inherited was billed to the session it was forked from.
InheritedCut(events) ==
    Max({-1} \cup {e.seq : e \in {x \in ToSet(events) : x.type = "session/end-seed" /\ x.inherited}})

\* Pages arrive in any order and may overlap; the later copy of an event counts.
Ordered(events) ==
    SetToSortSeq({events[i] : i \in {k \in DOMAIN events :
                     \A j \in DOMAIN events : j > k => events[j].seq # events[k].seq}},
                 LAMBDA d, e : d.seq < e.seq)

SameStep(last, e) == last # None /\ last.turn = e.turn /\ last.step = e.step

\* The sample the event updates, or a new one.
Billed(state, e) ==
    LET joins == SameStep(state.last, e) /\ None \notin {e.turn, e.step}
        before == IF joins THEN Last(state.samples) ELSE [key |-> e.seq, usage |-> None]
        sample == [key |-> before.key, time |-> e.time, usage |-> ValidUsage(e.usage),
                   route |-> IF e.source # None THEN e.source ELSE state.route]
    IN  IF sample.usage = None /\ before.usage # None THEN state
        ELSE [state EXCEPT !.samples = Append(IF joins THEN Front(@) ELSE @, sample),
                           !.last = [turn |-> e.turn, step |-> e.step]]

Folded(state, e, cut) ==
    CASE e.type = "request/context" -> [state EXCEPT !.route = e.source]
      [] e.type = "session/end-seed" \/ (e.seq <= cut /\ e.type # "request/context") -> state
      [] e.type = "llm/retry-started" /\ e.seq > cut ->
            IF SameStep(state.last, e) THEN [state EXCEPT !.last = None] ELSE state
      [] OTHER -> Billed(state, e)

FoldSamples(events) ==
    FoldLeft(LAMBDA state, e : Folded(state, e, InheritedCut(events)),
             [samples |-> <<>>, route |-> None, last |-> None], Ordered(events)).samples

-----------------------------------------------------------------------------
(* pricing.ts: the decision about one sample.                              *)

DayOf(time) == time \div DayLength

\* Day 0 is a Thursday, as the epoch is.
Weekday(day) == (day + 4) % 7
WeekStart(day) == day - ((Weekday(day) + 6) % 7)
MonthStart(day) == Max({m \in Months : m <= day})
WindowStart(now) == DayOf(now) - (WindowDays - 1)

Applies(price, time) == price.from <= time /\ (price.until = None \/ time < price.until)

\* pricesFrom() takes no table in which two intervals of one model overlap.
Accepted(prices) ==
    \A i, j \in DOMAIN prices :
        i < j /\ prices[i].model = prices[j].model /\ prices[i].provider = prices[j].provider =>
            ~(/\ prices[j].until = None \/ prices[i].from < prices[j].until
              /\ prices[i].until = None \/ prices[j].from < prices[i].until)

\* A version of that very model, or else one with an alias for it.
Candidates(prices, route) ==
    LET exact == SelectSeq(prices, LAMBDA p : [provider |-> p.provider, model |-> p.model] = route)
        alias == SelectSeq(prices, LAMBDA p : p.provider = route.provider /\ route.model \in p.aliases)
    IN  IF route = None THEN <<>> ELSE IF exact # <<>> THEN exact ELSE alias

\* Windows are half open, and a holiday has no peak.
IsPeak(price, time, holidays) ==
    /\ Weekday(DayOf(time)) \in price.weekdays
    /\ \E w \in price.windows : w[1] <= time % DayLength /\ time % DayLength < w[2]
    /\ DayOf(time) \notin holidays

\* The amount, or None when there is nothing to decide it with; the published table
\* has no price for a cache write.
ChargeFor(prices, sample, holidays) ==
    LET usage == sample.usage
        versions == SelectSeq(Candidates(prices, sample.route), LAMBDA p : Applies(p, sample.time))
        rates == IF IsPeak(Head(versions), sample.time, holidays)
                 THEN Head(versions).peak ELSE Head(versions).offPeak
    IN  IF \/ usage = None \/ sample.time = None
           \/ usage.cacheWrite # 0 /\ sample.route # None /\ sample.route.provider = "deepseek-official"
           \/ versions = <<>>
        THEN None
        ELSE usage.input * rates.input + usage.output * rates.output
             + usage.cacheRead * rates.cacheRead + usage.cacheWrite * rates.cacheWrite

-----------------------------------------------------------------------------
(* ledger.ts: the slice of a session, and the totals over all slices.      *)

Zero == [amount |-> 0, unknown |-> 0, records |-> 0]

Plus(s, t) == [f \in DOMAIN Zero |-> s[f] + t[f]]

\* What one sample adds to a bucket.
Charged(prices, sample, holidays) ==
    LET amount == ChargeFor(prices, sample, holidays)
    IN  [amount |-> IF amount = None THEN 0 ELSE amount,
         unknown |-> IF amount = None THEN 1 ELSE 0, records |-> 1]

\* A sample without a time belongs to the day of the scan.
SampleDay(sample, now) == IF sample.time = None THEN DayOf(now) ELSE DayOf(sample.time)

TotalOf(prices, samples, holidays) ==
    FoldLeft(LAMBDA sum, sample : Plus(sum, Charged(prices, sample, holidays)), Zero, samples)

\* replace(): everything is decided again; the days inside the window are kept.
Slice(prices, samples, now, holidays) ==
    LET stored == {SampleDay(samples[i], now) : i \in DOMAIN samples} \ (0 .. WindowStart(now) - 1)
    IN  [total |-> TotalOf(prices, samples, holidays),
         days |-> [d \in stored |-> TotalOf(prices,
                      SelectSeq(samples, LAMBDA s : SampleDay(s, now) = d), holidays)]]

\* pruneLedgers(): what is left of the slices of the sessions, those with a day that
\* is still inside the window.
Pruned(slices, now) ==
    Restrict(slices, {s \in DOMAIN slices : \E d \in DOMAIN slices[s].days : d >= WindowStart(now)})

\* period(): the days of a range, over all sessions.
Period(slices, from, to) ==
    LET days(s) == {d \in DOMAIN slices[s].days : d >= from /\ d <= to}
        part(s) == FoldSet(LAMBDA d, sum : Plus(sum, slices[s].days[d]), Zero, days(s))
    IN  FoldSet(LAMBDA s, sum : Plus(sum, part(s)), Zero, DOMAIN slices)

Today(slices, now) == Period(slices, DayOf(now), DayOf(now))
Week(slices, now) == Period(slices, WeekStart(DayOf(now)), DayOf(now))
Month(slices, now) == Period(slices, MonthStart(DayOf(now)), DayOf(now))
=============================================================================
