------------------------------ MODULE MCLedger ------------------------------
(* The fold, the decision and the totals of Ledger, each against a           *)
(* definition that says what it is for, on all small inputs.  A day has four *)
(* instants; the window and the months have the lengths of the real ones.    *)
EXTENDS Integers, Sequences, SequencesExt

CONSTANT Missing

L == INSTANCE Ledger WITH
        DayLength <- 4, WindowDays <- 60, None <- Missing,
        Months <- {0, 31, 59, 90, 120, 151}

-----------------------------------------------------------------------------
(* Samples.                                                                *)

MCUse(n) == [input |-> n, output |-> 0, cacheRead |-> 0, cacheWrite |-> 0, total |-> n]
MCWrong == [MCUse(1) EXCEPT !.total = 7]

MCEvent(type, turn, usage, source) ==
    [type |-> type, turn |-> turn, step |-> IF turn = Missing THEN Missing ELSE 1, usage |-> usage,
     source |-> source, time |-> 0, inherited |-> type = "session/end-seed"]

MCKinds == {
    MCEvent("request/context", Missing, Missing, "r2"),
    MCEvent("assistant/message", "t1", MCUse(1), "r1"),
    MCEvent("assistant/attempt", "t1", MCWrong, Missing),
    MCEvent("assistant/message", "t2", MCUse(2), Missing),
    MCEvent("llm/retry-started", "t1", Missing, Missing),
    MCEvent("session/end-seed", Missing, Missing, Missing),
    MCEvent("compaction/summary", Missing, MCUse(3), "r1"),
    MCEvent("compaction/summary", Missing, Missing, "r1"),
    MCEvent("user/message", "t1", Missing, Missing) }

MCLog(kinds) == [i \in DOMAIN kinds |-> [kinds[i] EXCEPT !.time = i] @@ [seq |-> i]]
MCLogs == {MCLog(kinds) : kinds \in UNION {[1 .. n -> MCKinds] : n \in 0 .. 4}}

\* The calls of a log: what is billable, not inherited and no mere context.
IsCall(log, i) ==
    /\ log[i].type \in {"assistant/message", "assistant/attempt"}
       \/ (log[i].type = "compaction/summary" /\ log[i].usage # Missing)
    /\ ~\E j \in DOMAIN log : j >= i /\ log[j].type = "session/end-seed"

\* Two calls are reports of one attempt when nothing between them is a call of
\* another step or a retry of theirs.
SameAttempt(log, i, j) ==
    \/ i = j
    \/ /\ i < j /\ log[i].turn # Missing /\ log[i].turn = log[j].turn
       /\ \A k \in i .. j : /\ IsCall(log, k) => log[k].turn = log[i].turn
                            /\ log[k].type = "llm/retry-started" => log[k].turn # log[i].turn

Routed(log, i) ==
    LET contexts == {j \in 1 .. i : log[j].type = "request/context"} IN
    IF log[i].source # Missing THEN log[i].source
    ELSE IF contexts = {} THEN Missing ELSE log[L!Max(contexts)].source

\* One sample per attempt, with its last valid usage, or its last report without one.
ExpectedSamples(log) ==
    LET firsts == {j \in DOMAIN log : IsCall(log, j)
                     /\ ~\E i \in 1 .. j - 1 : IsCall(log, i) /\ SameAttempt(log, i, j)}
        reports(i) == {j \in i .. Len(log) : IsCall(log, j) /\ SameAttempt(log, i, j)}
        valid(i) == {j \in reports(i) : L!ValidUsage(log[j].usage) # Missing}
        told(i) == L!Max(IF valid(i) = {} THEN reports(i) ELSE valid(i))
    IN  [n \in 1 .. L!Cardinality(firsts) |->
            LET i == L!SetToSortSeq(firsts, <)[n] IN
            [key |-> i, time |-> told(i), usage |-> L!ValidUsage(log[told(i)].usage),
             route |-> Routed(log, told(i))]]

\* Folding the pages of a log gives one sample per attempt, in any order of the
\* pages and with pages that overlap.
ASSUME FoldIsOneSamplePerAttempt ==
    \A log \in MCLogs :
        LET pages == L!CostRecords(log) IN
        /\ L!FoldSamples(pages) = ExpectedSamples(log)
        /\ L!FoldSamples(Reverse(pages)) = ExpectedSamples(log)
        /\ L!FoldSamples(pages \o pages) = ExpectedSamples(log)

-----------------------------------------------------------------------------
(* Prices.                                                                 *)

MCRates(n) == [input |-> n, output |-> 2 * n, cacheRead |-> 1, cacheWrite |-> n]
MCPrice(model, aliases, from, until) ==
    [provider |-> "deepseek-official", model |-> model, aliases |-> aliases, from |-> from,
     until |-> until, weekdays |-> {1, 2, 3, 4, 5}, windows |-> {<<1, 2>>, <<2, 3>>},
     peak |-> MCRates(2), offPeak |-> MCRates(1)]

MCPrices == [model : {"m1", "m2"}, from : {0, 4}, until : {4, 8, Missing}]
MCTables == {<<MCPrice(p.model, {"m2", "m3"}, p.from, p.until), MCPrice(q.model, {"m1"}, q.from, q.until)>> :
                p \in {r \in MCPrices : r.until = Missing \/ r.from < r.until},
                q \in {r \in MCPrices : r.until = Missing \/ r.from < r.until}}

\* In a table that is accepted no two versions of a model apply at one instant, so
\* their order decides nothing; and exactly the tables that say so are accepted.
ASSUME AcceptedIsUnambiguous ==
    \A table \in MCTables :
        L!Accepted(table) <=>
            \A model \in {"m1", "m2"}, time \in 0 .. 12 :
                L!Cardinality({i \in DOMAIN table : table[i].model = model /\ L!Applies(table[i], time)}) <= 1

-----------------------------------------------------------------------------
(* Totals.                                                                 *)

MCTable == <<MCPrice("m1", {"m2"}, 8, Missing)>>
MCTimes == {Missing, 3, 237, 238, 241, 366, 477, 478}
MCSample(time, n) == [key |-> 1, time |-> time, usage |-> MCUse(n),
                      route |-> [provider |-> "deepseek-official", model |-> "m2"]]
MCScans == {<<MCSample(s, 1), MCSample(t, 2)>> : s \in MCTimes, t \in MCTimes}
MCHolidays == {91}

\* The samples of a day range, added up one by one.
Direct(samples, from, to, now) ==
    L!TotalOf(MCTable, SelectSeq(samples, LAMBDA s : L!SampleDay(s, now) \in from .. to), MCHolidays)

\* A month to date, and so a week and a day, lies inside the window, and its total is
\* that of its samples: no day of it was left out when the slice was stored, on that
\* day or one before, nor deleted with a slice.
ASSUME TotalsAreOfTheirSamples ==
    \A samples \in MCScans, scanned \in {477, 479}, now \in {479, 483, 599} :
        LET day == L!DayOf(now)
            slices == L!Pruned("s" :> L!Slice(MCTable, samples, scanned, MCHolidays), now)
        IN  /\ L!WindowStart(now) <= L!MonthStart(day) /\ L!WindowStart(now) <= L!WeekStart(day)
            /\ L!Weekday(L!WeekStart(day)) = 1 /\ day - L!WeekStart(day) \in 0 .. 6
            /\ L!Today(slices, now) = Direct(samples, day, day, scanned)
            /\ L!Week(slices, now) = Direct(samples, L!WeekStart(day), day, scanned)
            /\ L!Month(slices, now) = Direct(samples, L!MonthStart(day), day, scanned)

\* Half-open windows, weekdays and holidays: the instants that are charged the peak rate.
ASSUME PeaksAreWithinWindows ==
    \A time \in 0 .. 60 :
        L!IsPeak(MCTable[1], time, {8}) <=>
            /\ time % 4 \in {1, 2}
            /\ time \div 4 \in {0, 1, 4, 5, 6, 7, 11, 12, 13, 14, 15}
=============================================================================
