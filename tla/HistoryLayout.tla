---------------------------- MODULE HistoryLayout ----------------------------
(***************************************************************************)
(* session/history.ts: the index that lays a transcript out in rows.  It is *)
(* brought up to date from the list before, keeps the rows of the messages  *)
(* seen last and the height of every message, and makes only the rows of a  *)
(* viewport.                                                                *)
(*                                                                         *)
(* A message is a value: its sequence number, its role, whether it is       *)
(* compact, and how many rows its parts take when folded and when unfolded; *)
(* two objects of one sequence number differ in their version.  One index   *)
(* serves one width, fold mode and set of overrides.  A row is its message, *)
(* how that was folded, and its place, 0 for the heading.                   *)
(***************************************************************************)
EXTENDS Naturals, Sequences, SequencesExt, Functions

CONSTANTS
    MaxRows,   \* maxRows: rows the cache holds
    Overrides  \* sequence numbers folded the other way than the mode says

Modes == {"row", "full"}
Reasoning(mode, message) ==
    IF message.seq \in Overrides THEN CHOOSE other \in Modes : other # mode ELSE mode

\* A heading, the parts and an empty row.
MessageRows(message, reasoning, heading) ==
    LET parts == IF reasoning = "row" THEN message.folded ELSE message.unfolded
        first == IF heading THEN 0 ELSE 1
    IN  [i \in 1 .. parts + 2 - first |-> [message |-> message, fold |-> reasoning, place |-> i - 1 + first]]

NoIndex == [messages |-> <<>>, segments |-> <<>>, length |-> 0, cache |-> <<>>, heights |-> <<>>]

-----------------------------------------------------------------------------
(* The row cache, least recently used first.                               *)

CacheSize(cache) == FoldLeft(LAMBDA sum, entry : sum + Len(entry.rows), 0, cache)

\* The most recent entries that leave room for so many rows.
Evicted(cache, room) ==
    LET drops == {n \in 0 .. Len(cache) :
                     CacheSize(SubSeq(cache, n + 1, Len(cache))) + room <= MaxRows}
    IN  SubSeq(cache, 1 + CHOOSE n \in drops : \A k \in drops : n <= k, Len(cache))

\* rows(): the rows asked for and the cache afterwards.
Rows(cache, message, reasoning, heading) ==
    LET other == SelectSeq(cache, LAMBDA entry : entry.message # message)
        kept == SelectSeq(cache, LAMBDA entry : /\ entry.message = message
                                                /\ entry.reasoning = reasoning /\ entry.heading = heading)
        rows == IF kept # <<>> THEN Head(kept).rows ELSE MessageRows(message, reasoning, heading)
        entry == [message |-> message, reasoning |-> reasoning, heading |-> heading, rows |-> rows]
    IN  [rows |-> rows,
         cache |-> IF kept # <<>> THEN Append(other, entry)
                   ELSE IF Len(rows) <= MaxRows THEN Append(Evicted(other, Len(rows)), entry)
                   ELSE other]

-----------------------------------------------------------------------------
(* update() and viewport().                                                *)

\* A reply has one heading, however many messages it consists of.
AssistantSeen(segments) == segments # <<>> /\ Last(segments).assistantSeen

Extended(index, message, mode) ==
    LET seen == message.role # "You" /\ AssistantSeen(index.segments)
        heading == ~message.compact /\ (message.role # "Assistant" \/ ~seen)
        reasoning == Reasoning(mode, message)
        known == /\ message \in DOMAIN index.heights
                 /\ index.heights[message].reasoning = reasoning
                 /\ index.heights[message].heading = heading
        made == Rows(index.cache, message, reasoning, heading)
        count == IF known THEN index.heights[message].count ELSE Len(made.rows)
        height == [reasoning |-> reasoning, heading |-> heading, count |-> count]
    IN  [index EXCEPT
            !.segments = Append(@, [message |-> message, start |-> index.length, count |-> count,
                                    reasoning |-> reasoning, heading |-> heading,
                                    assistantSeen |-> seen \/ (message.role = "Assistant" /\ heading)]),
            !.length = @ + count,
            !.cache = IF known THEN @ ELSE made.cache,
            !.heights = [m \in DOMAIN @ \cup {message} |-> IF m = message THEN height ELSE @[m]]]

\* The messages that were in the list before, in their places.
Prefix(index, messages) ==
    CHOOSE n \in 0 .. Len(messages) :
        /\ n <= Len(index.messages) /\ SubSeq(messages, 1, n) = SubSeq(index.messages, 1, n)
        /\ n = Len(messages) \/ n = Len(index.messages) \/ messages[n + 1] # index.messages[n + 1]

\* What follows the prefix is laid out again; messages that are gone leave the cache.
Update(index, messages, mode) ==
    LET n == Prefix(index, messages)
        cut == [index EXCEPT
                   !.segments = SubSeq(@, 1, n),
                   !.length = IF n = 0 THEN 0 ELSE index.segments[n].start + index.segments[n].count,
                   !.cache = SelectSeq(@, LAMBDA entry : entry.message \in ToSet(messages))]
    IN  [FoldLeft(LAMBDA i, m : Extended(i, m, mode), IF n < Len(index.messages) THEN cut ELSE index,
                  SubSeq(messages, n + 1, Len(messages)))
            EXCEPT !.messages = messages]

\* The first row of each message, by its sequence number.
Offset(index, seq) == Last(SelectSeq(index.segments, LAMBDA s : s.message.seq = seq)).start

\* The segments that have a row from start on and before end are read through the cache.
Viewport(index, start, end) ==
    LET touched == SelectSeq(index.segments, LAMBDA s : s.start + s.count > start /\ s.start < end)
        read(state, s) ==
            LET made == Rows(state.cache, s.message, s.reasoning, s.heading)
                from == IF start > s.start THEN start - s.start ELSE 0
            IN  [cache |-> made.cache,
                 rows |-> state.rows \o SubSeq(made.rows, from + 1,
                              IF end - s.start < Len(made.rows) THEN end - s.start ELSE Len(made.rows))]
    IN  FoldLeft(read, [cache |-> index.cache, rows |-> <<>>], touched)
=============================================================================
