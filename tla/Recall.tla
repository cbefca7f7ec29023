------------------------------- MODULE Recall -------------------------------
(***************************************************************************)
(* session/info.ts (PromptIndex and PromptCache), session/                 *)
(* prompt-backfill.ts and the recall parts of session/controller.ts: what  *)
(* the up and down keys bring back in one session.                         *)
(*                                                                         *)
(* Every record of the session is a prompt, known by its sequence 1, 2, .. *)
(* and its text.  Budgets count entries.  The record a reader has loaded   *)
(* is the set of sequences in it; a page is requested and added in one     *)
(* step, since Reading is about what happens to it in between.             *)
(***************************************************************************)
EXTENDS Integers, Sequences, SequencesExt

CONSTANTS
    Texts,       \* what a prompt can say
    Text,        \* what each prompt of the session says, in Texts
    Internal,    \* texts the client sent itself: suppressed from recall
    Local,       \* texts the reader types as commands
    Before,      \* prompts from before the client came, at most Len(Text)
    MaxEntries,  \* PromptLimits of the index
    CacheSize,   \* budget of the cache, in prompts
    SnapSize, PageSize, Limit, Target,  \* as in Reading
    PageLimit,   \* PAGE_LIMIT of a backfill
    MaxSelects,  \* bound: times the session is opened
    MaxScans     \* bound: cost scans of the session

Prompts == 1 .. Len(Text)

VARIABLES
    last,      \* the newest prompt of the session
    index,     \* PromptIndex
    loaded,    \* sequences in the selected record
    ready,     \* the record has its snapshot
    selects,   \* times the session was opened
    cache,     \* PromptCache's entry of the session
    fill,      \* the backfill: none, waiting, or the sequence its next page ends before
    pages,     \* pages it has read
    scan,      \* the cost scan of the session: none, or what its next page ends before
    scans

session == <<last, loaded, ready, selects>>
vars == <<session, index, cache, fill, pages, scan, scans>>

Nowhere == 0

-----------------------------------------------------------------------------
(* PromptIndex: oldest first; position is the index of the entry recalled,  *)
(* counted from 1, or Nowhere.                                              *)

Empty == [entries |-> <<>>, newest |-> 0, complete |-> FALSE, shed |-> FALSE, position |-> Nowhere]

Entry(n) == [seq |-> n, text |-> Text[n], durable |-> TRUE]

Durable(x) == SelectSeq(x.entries, LAMBDA e : e.durable)
Oldest(x) == IF Durable(x) = <<>> THEN Nowhere ELSE Head(Durable(x)).seq
AtOldest(x) == x.position = 1

\* A plausible bug: the cursor does not follow its entry when the oldest go.
MutantTrim(x) ==
    LET removed == Len(x.entries) - MaxEntries IN
    IF removed <= 0 THEN x
    ELSE [x EXCEPT !.entries = SubSeq(@, removed + 1, Len(@)), !.shed = TRUE, !.complete = FALSE]

\* trim(): the oldest entries go, and with them the claim to be complete.
Trim(x) ==
    LET removed == Len(x.entries) - MaxEntries IN
    IF removed <= 0 THEN x
    ELSE [x EXCEPT !.entries = SubSeq(@, removed + 1, Len(@)), !.shed = TRUE, !.complete = FALSE,
                   !.position = IF @ = Nowhere THEN Nowhere ELSE IF @ > removed THEN @ - removed ELSE 1]

\* markComplete().
MarkComplete(x) == [x EXCEPT !.complete = @ \/ ~x.shed]

Repeats(x, text) == x.entries # <<>> /\ Last(x.entries).text = text

\* push(): a durable echo of the last entry upgrades it.
Push(x, n) ==
    IF Text[n] \in Internal THEN x
    ELSE IF Repeats(x, Text[n])
    THEN [x EXCEPT !.entries[Len(x.entries)] = Entry(n)]
    ELSE Trim([x EXCEPT !.entries = Append(@, Entry(n))])

\* promptsSince() and fold().
Fold(x, known) ==
    LET newer == SetToSortSeq({n \in known : n > x.newest}, <)
        y == FoldLeft(Push, x, newer) IN
    IF newer = <<>> THEN y ELSE [y EXCEPT !.newest = Last(newer)]

\* prepend(): what is older than the oldest durable entry, each sequence once and
\* in the order given; the cursor stays on its entry.
Older(x, list) ==
    LET add(kept, n) == IF \/ Oldest(x) # Nowhere /\ n >= Oldest(x)
                           \/ n \in ToSet(kept) \/ Text[n] \in Internal
                        THEN kept ELSE Append(kept, n) IN
    FoldLeft(add, <<>>, list)

Prepend(x, list) ==
    LET older == Older(x, list) IN
    [x EXCEPT !.entries = [i \in DOMAIN older |-> Entry(older[i])] \o @,
              !.position = IF @ = Nowhere THEN Nowhere ELSE @ + Len(older)]

-----------------------------------------------------------------------------
(* PromptCache: put(), observe() and drop().                               *)

NoEntry == [list |-> <<>>, complete |-> FALSE]

\* An entry above the budget keeps the end of its list and is incomplete.
Put(list, complete) ==
    IF Len(list) > CacheSize
    THEN [list |-> SubSeq(list, Len(list) - CacheSize + 1, Len(list)), complete |-> FALSE]
    ELSE [list |-> list, complete |-> complete]

Observe(list, complete) == cache' = Put(list \o cache.list, complete)

Stretch(lo, hi) == [i \in 1 .. (hi - lo + 1) |-> lo + i - 1]

\* A page that ends before a sequence.
From(before) == IF before > PageSize THEN before - PageSize ELSE 1

-----------------------------------------------------------------------------
TypeOK ==
    /\ last \in Before .. Len(Text)
    /\ loaded \subseteq 1 .. last /\ ready \in BOOLEAN
    /\ selects \in 0 .. MaxSelects /\ scans \in 0 .. MaxScans
    /\ index.position \in {Nowhere} \cup DOMAIN index.entries
    /\ \A i \in DOMAIN index.entries :
        /\ index.entries[i].seq \in 0 .. last
        /\ index.entries[i].text \in Texts \ Internal
    /\ index.shed => ~index.complete
    /\ cache.complete \in BOOLEAN /\ ToSet(cache.list) \subseteq 1 .. last
    /\ Len(cache.list) <= CacheSize
    /\ fill.phase \in {"none", "waiting", "paging"} /\ fill.before \in 0 .. last
    /\ pages \in 0 .. PageLimit
    /\ scan \in 0 .. last + 1

NoFill == [phase |-> "none", before |-> 0]

Init ==
    /\ last = Before /\ loaded = {} /\ ready = FALSE /\ selects = 0
    /\ index = Empty
    /\ cache = NoEntry
    /\ fill = NoFill /\ pages = 0
    /\ scan = Nowhere /\ scans = 0

-----------------------------------------------------------------------------
(* The selected record.                                                    *)

\* followSession(): the index is reset, and a backfill waits for the snapshot.
Select ==
    /\ selects < MaxSelects /\ selects' = selects + 1
    /\ index' = Empty /\ loaded' = {} /\ ready' = FALSE
    /\ fill' = [NoFill EXCEPT !.phase = "waiting"] /\ pages' = 0
    /\ UNCHANGED <<last, cache, scan, scans>>

Snapshot ==
    /\ selects > 0 /\ ~ready /\ ready' = TRUE
    /\ loaded' = (IF last > SnapSize THEN last - SnapSize + 1 ELSE 1) .. last
    /\ index' = Fold(index, loaded')
    /\ UNCHANGED <<last, selects, cache, fill, pages, scan, scans>>

\* Another prompt, followed if the session is open; the record is trimmed if it is
\* above its budget and the reader is at the tail.
Prompt ==
    /\ last < Len(Text) /\ last' = last + 1
    /\ IF ready
       THEN /\ index' = Fold(index, loaded \cup {last'})
            /\ \E pinned \in BOOLEAN :
                 loaded' = IF ~pinned /\ Cardinality(loaded) + 1 > Limit
                           THEN {n \in loaded \cup {last'} :
                                   Cardinality({m \in loaded \cup {last'} : m > n}) < Target}
                           ELSE loaded \cup {last'}
       ELSE UNCHANGED <<index, loaded>>
    /\ UNCHANGED <<ready, selects, cache, fill, pages, scan, scans>>

HasMore == ready /\ loaded # {} /\ 1 \notin loaded
BeforeSeq == CHOOSE n \in loaded : \A m \in loaded : n <= m

-----------------------------------------------------------------------------
(* The reader.                                                             *)

\* record(): a command typed here, unless it repeats the last entry.
Record(text) ==
    /\ text \notin Internal
    /\ ~Repeats(index, text)
    /\ index' = Trim([index EXCEPT !.entries =
                        Append(@, [seq |-> index.newest, text |-> text, durable |-> FALSE])])
    /\ UNCHANGED <<session, cache, fill, pages, scan, scans>>

\* move(): up from the draft starts at the newest entry; down from it ends recall.
Moved(x, by) ==
    LET from == IF x.position = Nowhere THEN Len(x.entries) + 1 ELSE x.position
        to == IF from + by < 1 THEN 1 ELSE from + by IN
    IF x.entries = <<>> \/ (x.position = Nowhere /\ by > 0) THEN x
    ELSE [x EXCEPT !.position = IF to > Len(x.entries) THEN Nowhere ELSE to]

Up ==
    /\ index.entries # <<>> /\ ~AtOldest(index)
    /\ index' = Moved(index, -1)
    /\ UNCHANGED <<session, cache, fill, pages, scan, scans>>

Down ==
    /\ index.position # Nowhere
    /\ index' = Moved(index, 1)
    /\ UNCHANGED <<session, cache, fill, pages, scan, scans>>

\* resetCursor(): the composer is edited.
Edit ==
    /\ index' = [index EXCEPT !.position = Nowhere]
    /\ UNCHANGED <<session, cache, fill, pages, scan, scans>>

\* recallHasOlder: in the loaded window, or on the host.
Refillable == ready /\ Oldest(index) # Nowhere /\ loaded # {} /\ Oldest(index) > BeforeSeq
HasOlder == Refillable \/ (~index.complete /\ HasMore)

\* refillRecall(): the loaded prompts before the oldest.
Refilled ==
    IF Oldest(index) = Nowhere THEN index
    ELSE Prepend(index, SetToSortSeq({n \in loaded : n < Oldest(index)}, <))

\* Up at the oldest entry: what is loaded comes first, then a page.
UpAtOldest ==
    /\ ready /\ HasOlder
    /\ index.entries = <<>> \/ AtOldest(index)
    /\ IF Len(Refilled.entries) > Len(index.entries)
       THEN index' = Moved(Refilled, -1) /\ UNCHANGED loaded
       ELSE /\ HasMore
            /\ loaded' = loaded \cup (From(BeforeSeq) .. BeforeSeq - 1)
            /\ UNCHANGED index
    /\ UNCHANGED <<last, ready, selects, cache, fill, pages, scan, scans>>

-----------------------------------------------------------------------------
(* The backfill of an open session.                                        *)

Adopted(x) == MarkComplete(Trim(Prepend(x, cache.list)))

EndFill == fill' = NoFill /\ pages' = 0

\* With a complete list in the cache there is nothing to read; otherwise pages are
\* read from the window's oldest record.
Begin ==
    /\ fill.phase = "waiting" /\ ready
    /\ IF cache.complete
       THEN index' = Adopted(index) /\ EndFill /\ UNCHANGED cache
       ELSE IF HasMore
       THEN fill' = [phase |-> "paging", before |-> BeforeSeq] /\ UNCHANGED <<index, cache, pages>>
       ELSE /\ index' = MarkComplete(index)
            /\ cache' = Put([i \in DOMAIN Durable(index') |-> Durable(index')[i].seq], index'.complete)
            /\ EndFill
    /\ UNCHANGED <<session, scan, scans>>

\* A page is folded in, and trimmed at once; a list completed meanwhile ends the walk.
FillPage ==
    LET lo == From(fill.before)
        paged == Trim(Prepend(index, Stretch(lo, fill.before - 1))) IN
    /\ fill.phase = "paging"
    /\ IF cache.complete
       THEN index' = Adopted(paged) /\ EndFill /\ UNCHANGED cache
       ELSE IF lo > 1
       THEN /\ index' = paged /\ UNCHANGED cache
            /\ IF pages + 1 = PageLimit THEN EndFill
               ELSE fill' = [fill EXCEPT !.before = lo] /\ pages' = pages + 1
       ELSE /\ index' = MarkComplete(paged)
            /\ cache' = Put([i \in DOMAIN Durable(index') |-> Durable(index')[i].seq], index'.complete)
            /\ EndFill
    /\ UNCHANGED <<session, scan, scans>>

\* Cancelled, offline, refused or too slow: the lazy path is left.
FillFails ==
    /\ fill.phase # "none"
    /\ EndFill
    /\ UNCHANGED <<session, index, cache, scan, scans>>

-----------------------------------------------------------------------------
(* The cache's other writers.                                              *)

\* A cost scan hands over the pages it reads, newest first.
ScanStarts ==
    /\ scan = Nowhere /\ last > 0
    /\ scans < MaxScans /\ scans' = scans + 1
    /\ scan' = last + 1
    /\ UNCHANGED <<session, index, cache, fill, pages>>

\* rememberScanPage(), and rememberScanDone() after the first page of the session.
ScanPage ==
    LET lo == From(scan) IN
    /\ scan > 1
    /\ scan' = lo
    /\ Observe(Stretch(lo, scan - 1), FALSE)
    /\ UNCHANGED <<session, index, fill, pages, scans>>

ScanDone ==
    /\ scan = 1
    /\ scan' = Nowhere
    /\ Observe(<<>>, TRUE)
    /\ UNCHANGED <<session, index, fill, pages, scans>>

ScanFails ==
    /\ scan # Nowhere
    /\ scan' = Nowhere
    /\ UNCHANGED <<session, index, cache, fill, pages, scans>>

\* Evicted for another session's prompts, or dropped because /compact rewrote the log.
Forget ==
    /\ cache # NoEntry
    /\ cache' = NoEntry
    /\ UNCHANGED <<session, index, fill, pages, scan, scans>>

Next ==
    \/ Select \/ Snapshot \/ Prompt
    \/ \E text \in Local : Record(text)
    \/ Up \/ Down \/ Edit \/ UpAtOldest
    \/ Begin \/ FillPage \/ FillFails
    \/ ScanStarts \/ ScanPage \/ ScanDone \/ ScanFails \/ Forget

Spec == Init /\ [][Next]_vars

-----------------------------------------------------------------------------
(* What is checked.                                                        *)

\* Whoever filled the index, from the stream, the window, pages or the cache, recall
\* walks the session's prompts in order and meets none twice.  Of a list that was cut to
\* the budget of the cache this is not so (MCDerived, EntriesInOrder).
RecallInOrder ==
    \A i, j \in DOMAIN Durable(index) :
        i < j => Durable(index)[i].seq < Durable(index)[j].seq

\* What arrives while the reader recalls leaves the cursor on its entry, unless that
\* entry was evicted; then it is on the oldest that is left.
CursorStays ==
    [][ Prompt \/ Begin \/ FillPage =>
          (index.position # Nowhere =>
             \/ index'.position # Nowhere
                /\ index'.entries[index'.position].text = index.entries[index.position].text
             \/ index'.position = 1 /\ index'.shed) ]_vars

\* Eviction bounds memory and does not decide what can be reached: once the budget
\* has dropped a prompt, another step up finds the next older one or asks for a page.
ShedIsReachable ==
    ready /\ index.shed /\ Oldest(index) # Nowhere
    /\ (\E n \in 1 .. Oldest(index) - 1 : Text[n] \notin Internal) => HasOlder

\* Stepping up meets every prompt once, in order, down to the oldest the log holds.
RecallHolds == RecallInOrder /\ ShedIsReachable

\* What the design says of a list taken from the cache: it has no hole, so every
\* prompt between the oldest and the newest entry is recalled.
RecallHasNoHole ==
    \A n \in 1 .. index.newest :
        Oldest(index) # Nowhere /\ n >= Oldest(index) =>
            Text[n] \in Internal \cup {index.entries[i].text : i \in DOMAIN index.entries}
=============================================================================
