----------------------------- MODULE MCReading -----------------------------
(* Session s has history from before; the host goes on with it.             *)
(*                                                                          *)
(* Below, the rows a history is laid out in: every list of up to three      *)
(* messages after every other one, each read through a cache that holds the *)
(* rows of two messages or so.                                              *)
EXTENDS Reading, TLC, SequencesExt

MCPast == ("s" :> 3) @@ ("t" :> 1)

H == INSTANCE HistoryLayout WITH MaxRows <- 6, Overrides <- {2}

MCMessage(seq, version, role, compact, rows) ==
    [seq |-> seq, version |-> version, role |-> role, compact |-> compact,
     folded |-> rows, unfolded |-> rows + 2]

MCHistory == {
    MCMessage(1, 1, "You", FALSE, 1), MCMessage(1, 1, "Assistant", FALSE, 1),
    MCMessage(2, 1, "Assistant", FALSE, 2), MCMessage(2, 2, "Assistant", FALSE, 1),
    MCMessage(2, 1, "Context", TRUE, 1),
    MCMessage(3, 1, "Assistant", FALSE, 6), MCMessage(3, 1, "You", FALSE, 1) }
MCLists == {l \in UNION {[1 .. n -> MCHistory] : n \in 0 .. 3} :
               \A i, j \in DOMAIN l : i < j => l[i].seq < l[j].seq}

\* Every row of a list, one message after the other: a heading where one is due.
MCAllRows(list) ==
    LET headed(i) ==
            /\ ~list[i].compact
            /\ list[i].role = "Assistant" =>
                  ~\E j \in 1 .. i - 1 : /\ list[j].role = "Assistant" /\ ~list[j].compact
                                         /\ \A k \in j .. i : list[k].role # "You"
    IN  FlattenSeq([i \in DOMAIN list |->
            H!MessageRows(list[i], IF list[i].seq = 2 THEN "full" ELSE "row", headed(i))])

\* However the list came about - a reply that grew, an older page, a replaced or a
\* trimmed message - and whatever was read meanwhile, the rows of every viewport are
\* those of the whole list, every message is found where it starts, and the cache
\* keeps within its bound.
ASSUME LayoutIsThatOfTheList ==
    \A before, list \in MCLists :
        LET first == H!Update(H!NoIndex, before, "row")
            seen == [first EXCEPT !.cache = H!Viewport(first, 0, 4).cache]
            index == H!Update(seen, list, "row")
            all == MCAllRows(list)
        IN  /\ index.length = Len(all)
            /\ \A start \in 0 .. Len(all), size \in {1, 3, 20} :
                  LET end == IF start + size < Len(all) THEN start + size ELSE Len(all)
                      viewed == H!Viewport(index, start, end)
                  IN  /\ viewed.rows = SubSeq(all, start + 1, end)
                      /\ H!CacheSize(viewed.cache) <= 6
            /\ \A i \in DOMAIN list :
                  H!Offset(index, list[i].seq) + 1 =
                      CHOOSE k \in DOMAIN all : all[k].message = list[i]
                                                /\ \A j \in 1 .. k - 1 : all[j].message # list[i]
            /\ H!CacheSize(index.cache) <= 6
            /\ \A i \in DOMAIN index.cache : index.cache[i].message \in ToSet(list)
=============================================================================
