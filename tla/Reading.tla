------------------------------- MODULE Reading -------------------------------
(***************************************************************************)
(* session/transcript.ts, session/history-reader.ts and the parts of       *)
(* session/controller.ts that select, trim and pin: the record of the      *)
(* selected session, which a follow stream extends at the new end, pages   *)
(* extend at the old end and a budget trims, and the detached window a     *)
(* jump opens.                                                             *)
(*                                                                         *)
(* A record of history is its session and sequence.  The frames a host has *)
(* streamed of a session are one sequence, and a client is at a position   *)
(* in it.  Legacy hosts, which log chunks as records, are left out.        *)
(***************************************************************************)
EXTENDS Integers, Sequences, FiniteSets, FiniteSetsExt

CONSTANTS
    Sessions,
    NoSession,
    Past,        \* records of each session from before the client came
    Talking,     \* sessions the host goes on with
    MaxFrames,   \* bound: frames the host streams of a session
    SnapSize,    \* records of an opening snapshot
    PageSize,    \* records of a page
    Limit,       \* historyLimits.maxRecords
    Target       \* what a trim leaves: three quarters of the limit

ASSUME ReadingAssumption ==
    /\ NoSession \notin Sessions
    /\ Past \in [Sessions -> Nat]
    /\ Talking \subseteq Sessions
    /\ {MaxFrames, SnapSize, PageSize, Limit, Target} \subseteq Nat
    /\ 0 < PageSize /\ 0 < Target /\ Target < Limit /\ Target <= SnapSize

VARIABLES
    stream,    \* frames of each session since the client came
    online,
    session,   \* state.sessionId
    chat,      \* whether the conversation is on screen, not a picker
    record,    \* info.record
    live,      \* the active attempt as the record shows it
    at,        \* position of the follow stream, 0 .. Len(stream)
    follow,    \* none, opening, open, ended
    window,    \* info.window: at most one transcript
    pinned,    \* historyPinned
    task       \* the history read in flight: foreground, so at most one

view == <<record, live, at, follow, window>>
vars == <<stream, online, session, chat, view, pinned, task>>

-----------------------------------------------------------------------------
(* The host's log and stream.                                              *)

Frames == {"record", "start", "chunk", "end"}

Count(s, p, kinds) == Cardinality({i \in 1 .. p : stream[s][i] \in kinds})

\* Records logged, assistant frames sent and attempts begun when frame p was out.
Logged(s, p) == Past[s] + Count(s, p, {"record"})
Sent(s, p) == Count(s, p, {"start", "chunk", "end"})
Attempt(s, p) == Count(s, p, {"start"})

\* Chunks of the attempt that was active then; none is active after its end.
LastMark(s, p) == Max({0} \cup {i \in 1 .. p : stream[s][i] \in {"start", "end"}})
Active(s, p) == LastMark(s, p) > 0 /\ stream[s][LastMark(s, p)] = "start"
Chunks(s, p) == IF Active(s, p)
                THEN Cardinality({i \in LastMark(s, p) .. p : stream[s][i] = "chunk"}) ELSE 0

Now(s) == Len(stream[s])
Span(s, lo, hi) == {<<s, n>> : n \in lo .. hi}

\* A page ends before a sequence; its lowest record tells whether there are more.
Page(s, before) ==
    LET lo == Max({1, before - PageSize}) IN
    [records |-> Span(s, lo, before - 1), hasMore |-> lo > 1]

-----------------------------------------------------------------------------
(* A transcript.                                                           *)

Seqs(records) == {r[2] : r \in records}

Blank == [events |-> {}, oldest |-> 0, through |-> 0, cursor |-> 0, hasMore |-> FALSE, ready |-> FALSE]
NotLive == [revision |-> 0, attempt |-> 0, next |-> 0, shown |-> 0]

\* addRecords(): whatever arrives is stored by sequence, and moves both ends.
AddRecords(t, records) ==
    IF records = {} THEN t
    ELSE [t EXCEPT !.events = @ \cup records,
                   !.oldest = Min(Seqs(records) \cup (IF t.oldest = 0 THEN {} ELSE {t.oldest})),
                   !.through = Max({t.through} \cup Seqs(records))]

AddPage(t, page) == [AddRecords(t, page.records) EXCEPT !.hasMore = page.hasMore]

\* openPage() and open(): everything is reset to the snapshot.
Open(page, cut) ==
    [AddRecords(Blank, page.records) EXCEPT !.cursor = cut, !.hasMore = page.hasMore, !.ready = TRUE]

ReadThrough(t) == Max({t.cursor, t.through})

\* trimHistory(): above the limit the oldest records go, down to the target.
Trimmed(t) ==
    IF Cardinality(t.events) <= Limit THEN t
    ELSE LET keep == {r \in t.events : Cardinality({q \in t.events : q[2] > r[2]}) < Target}
         IN [t EXCEPT !.events = keep, !.oldest = Min(Seqs(keep)), !.hasMore = TRUE,
                      !.cursor = ReadThrough(t)]

\* reclaimHistory(): not while the reader is away from the tail.
Reclaimed(t) == IF pinned \/ ~online THEN t ELSE Trimmed(t)

-----------------------------------------------------------------------------
(* Reads in flight.                                                        *)

NoTask == [kind |-> "none", on |-> "record", before |-> 0, seen |-> {}, miss |-> {},
           aborted |-> FALSE]

\* What a transcript lacks between its ends.
Holes(t) == (t.oldest .. t.through) \ Seqs(t.events)

\* history.cancel(): the read in flight is told, and ends when it next looks.
Abort(t) == [t EXCEPT !.aborted = t.kind # "none"]

TypeOK ==
    /\ \A s \in Sessions : stream[s] \in Seq(Frames) /\ Now(s) <= MaxFrames
    /\ online \in BOOLEAN /\ chat \in BOOLEAN /\ pinned \in BOOLEAN
    /\ session \in Sessions \cup {NoSession}
    /\ follow \in {"none", "opening", "open", "ended"}
    /\ follow # "none" => online /\ session # NoSession
    /\ record.ready => follow = "open"
    /\ Cardinality(window) <= 1
    /\ task.kind \in {"none", "older", "first", "search", "jump"}

Init ==
    /\ stream = [s \in Sessions |-> <<>>]
    /\ online = TRUE /\ chat = TRUE /\ pinned = FALSE
    /\ session = NoSession
    /\ record = Blank /\ live = NotLive /\ at = 0 /\ follow = "none" /\ window = {}
    /\ task = NoTask

-----------------------------------------------------------------------------
(* Selection and generations.                                              *)

\* bumpSelection() and info.reset(), with every read in flight cancelled.  A read is
\* of the current selection revision exactly as long as it has not been cancelled so.
Reset ==
    /\ task' = Abort(task)
    /\ record' = Blank /\ live' = NotLive /\ at' = 0 /\ window' = {}

\* followSession(): a fresh record, filled by the snapshot of a new stream.
FollowSession(s) ==
    /\ Reset
    /\ session' = s
    /\ follow' = "opening"

Select(s) ==
    /\ online
    /\ FollowSession(s)
    /\ chat' = TRUE
    /\ UNCHANGED <<stream, online, pinned>>

\* pickWorkspace() leaves the session.
Leave ==
    /\ session # NoSession
    /\ Reset
    /\ session' = NoSession /\ follow' = "none" /\ chat' = FALSE
    /\ UNCHANGED <<stream, online, pinned>>

\* A picker covers the conversation, which stays selected; showChat() returns to it.
Picker ==
    /\ session # NoSession
    /\ chat' = ~chat
    /\ UNCHANGED <<stream, online, session, view, pinned, task>>

\* A plausible bug: the record still counts as ready.
MutantDown ==
    /\ online /\ online' = FALSE
    /\ follow' = "none"
    /\ task' = Abort(task)
    /\ UNCHANGED record

\* endGeneration(): the record stays on screen, no longer ready.
Down ==
    /\ online /\ online' = FALSE
    /\ record' = [record EXCEPT !.ready = FALSE]
    /\ follow' = "none"
    /\ task' = Abort(task)

Disconnect ==
    /\ Down
    /\ UNCHANGED <<stream, session, chat, live, at, window, pinned>>

\* A new generation reattaches the selected conversation: restoreSelectedSession().
Reconnect ==
    /\ ~online /\ online' = TRUE
    /\ IF session = NoSession THEN UNCHANGED <<session, view, task>>
                              ELSE FollowSession(session)
    /\ UNCHANGED <<stream, chat, pinned>>

-----------------------------------------------------------------------------
(* The follow stream.                                                      *)

Snapshot ==
    LET n == Logged(session, Now(session)) IN
    /\ follow = "opening"
    /\ follow' = "open"
    /\ at' = Now(session)
    /\ record' = Reclaimed(Open([records |-> Span(session, Max({1, n - SnapSize + 1}), n),
                                 hasMore |-> n > SnapSize], n))
    /\ live' = [revision |-> Sent(session, at'), next |-> Chunks(session, at'),
                shown |-> Chunks(session, at'),
                attempt |-> IF Active(session, at') THEN Attempt(session, at') ELSE 0]
    /\ UNCHANGED <<stream, online, session, chat, window, pinned, task>>

\* The next frame, and what it carries.
Arriving == follow = "open" /\ at < Now(session)
Frame == stream[session][at + 1]
Index == Chunks(session, at)

Arrives(kinds) == Arriving /\ Frame \in kinds /\ at' = at + 1

RecordFrame ==
    /\ Arrives({"record"})
    /\ LET n == Logged(session, at') IN record' = Reclaimed(AddRecords(record, Span(session, n, n)))
    /\ UNCHANGED <<stream, online, session, chat, live, follow, window, pinned, task>>

\* The frame follows the last one the record has applied.
InSequence ==
    /\ Sent(session, at + 1) = live.revision + 1
    /\ Frame # "start" => live.attempt = Attempt(session, at + 1) /\ live.next = Index

Applied ==
    CASE Frame = "start" -> [revision |-> live.revision + 1, attempt |-> Attempt(session, at + 1),
                             next |-> 0, shown |-> 0]
      [] Frame = "chunk" -> [live EXCEPT !.revision = @ + 1, !.next = @ + 1, !.shown = @ + 1]
      [] Frame = "end"   -> [live EXCEPT !.revision = @ + 1, !.attempt = 0, !.shown = 0]

\* accept() of an assistant frame: a gap fails the connection, for a new snapshot.
AssistantFrame ==
    /\ Arrives({"start", "chunk", "end"})
    /\ IF InSequence
       THEN live' = Applied /\ record' = Reclaimed(record)
            /\ UNCHANGED <<online, follow, task>>
       ELSE Down /\ UNCHANGED live
    /\ UNCHANGED <<stream, session, chat, window, pinned>>

\* An assistant frame never arrives.
FrameLost ==
    /\ Arriving /\ Frame # "record"
    /\ at' = at + 1
    /\ UNCHANGED <<stream, online, session, chat, record, live, follow, window, pinned, task>>

\* The stream ends and the connection lives: the record is no longer ready.
StreamEnds ==
    /\ follow \in {"opening", "open"}
    /\ follow' = "ended"
    /\ record' = [record EXCEPT !.ready = FALSE]
    /\ UNCHANGED <<stream, online, session, chat, live, at, window, pinned, task>>

\* The host goes on.
Talk(s, frame) ==
    /\ Now(s) < MaxFrames
    /\ frame = "start" => ~Active(s, Now(s))
    /\ frame \in {"chunk", "end"} => Active(s, Now(s))
    /\ stream' = [stream EXCEPT ![s] = Append(@, frame)]
    /\ UNCHANGED <<online, session, chat, view, pinned, task>>

-----------------------------------------------------------------------------
(* The reader.                                                             *)

Displayed == IF window = {} THEN record ELSE CHOOSE w \in window : TRUE

\* pinHistory(): scrolling away from the tail, or a panel; reaching it again trims.
PinHistory ==
    /\ pinned' = ~pinned
    /\ record' = IF pinned /\ online THEN Trimmed(record) ELSE record
    /\ UNCHANGED <<stream, online, session, chat, live, at, follow, window, task>>

\* setViewWindow(): another view closes the window and cancels its pages.
Closing == task' = IF window # {} /\ task.on = "window" THEN Abort(task) ELSE task

ShowLatest ==
    /\ window # {} /\ window' = {}
    /\ Closing
    /\ UNCHANGED <<stream, online, session, chat, record, live, at, follow, pinned>>

Free == online /\ session # NoSession /\ task.kind = "none"

\* older(): of what is displayed; the recall scan asks for the record's.
Older(on) ==
    LET t == IF on = "window" THEN Displayed ELSE record IN
    /\ Free
    /\ on = "window" => window # {}
    /\ t.ready /\ t.hasMore
    /\ task' = [NoTask EXCEPT !.kind = "older", !.on = on, !.before = t.oldest]
    /\ UNCHANGED <<stream, online, session, chat, view, pinned>>

\* historyThrough("first") pages until there is nothing older.
First ==
    /\ Free
    /\ record.ready /\ record.hasMore
    /\ task' = [NoTask EXCEPT !.kind = "first", !.before = record.oldest]
    /\ UNCHANGED <<stream, online, session, chat, view, pinned>>

\* searchHistory() looks through what is loaded, then through the pages before it.
Search ==
    /\ Free
    /\ record.ready /\ record.hasMore
    /\ task' = [NoTask EXCEPT !.kind = "search", !.before = record.oldest,
                              !.seen = Seqs(record.events), !.miss = Holes(record)]
    /\ UNCHANGED <<stream, online, session, chat, view, pinned>>

\* openHistory() of a message that is loaded shows it where it is.
JumpWithin(n) ==
    /\ Free /\ chat
    /\ n \in Seqs(record.events) /\ n \notin Seqs(Displayed.events)
    /\ window' = {}
    /\ UNCHANGED <<stream, online, session, chat, record, live, at, follow, pinned, task>>

\* Otherwise historyAt() reads the page that ends with it.
Jump(n) ==
    /\ Free
    /\ n \in 1 .. ReadThrough(record)
    /\ n \notin Seqs(record.events) \cup Seqs(Displayed.events)
    /\ task' = [NoTask EXCEPT !.kind = "jump", !.before = n + 1]
    /\ UNCHANGED <<stream, online, session, chat, view, pinned>>

-----------------------------------------------------------------------------
(* Answers.                                                                *)

\* A plausible bug: a page is added to whatever record is there when it comes.
MutantCurrent == online /\ session # NoSession

\* check(): the read still belongs to what is selected.
Current == ~task.aborted /\ online

\* The read asks for the page before the record's new oldest entry.
Again(t) == task' = [task EXCEPT !.before = t.oldest]

\* A plausible bug: nobody looks whether the page advanced.
MutantPageAdded(page) ==
    LET t == AddPage(IF task.on = "window" THEN Displayed ELSE record, page) IN
    /\ IF task.on = "window" THEN window' = {t} /\ UNCHANGED record
                              ELSE record' = t /\ UNCHANGED window
    /\ IF task.kind = "first" /\ t.hasMore THEN Again(t) ELSE task' = NoTask

\* page(): added where it was asked for, however that was trimmed meanwhile.
PageAdded(page) ==
    LET t == AddPage(IF task.on = "window" THEN Displayed ELSE record, page) IN
    /\ IF task.on = "window" THEN window' = {t} /\ UNCHANGED record
                              ELSE record' = t /\ UNCHANGED window
    /\ IF task.kind = "first" /\ t.hasMore /\ t.oldest < task.before THEN Again(t)
                                                                     ELSE task' = NoTask

\* A page of a search is looked through and dropped.
PageScanned(page) ==
    /\ task' = IF page.hasMore /\ page.records # {}
               THEN [task EXCEPT !.before = Min(Seqs(page.records)), !.seen = @ \cup Seqs(page.records)]
               ELSE NoTask
    /\ UNCHANGED <<record, window>>

\* The page of a jump becomes the window, if the conversation is still on screen.
PageShown(page) ==
    /\ window' = IF chat /\ page.records # {}
                 THEN {Open(page, ReadThrough(record))} ELSE window
    /\ task' = NoTask
    /\ UNCHANGED record

Take(page) ==
    CASE task.kind \in {"older", "first"} -> PageAdded(page)
      [] task.kind = "search" -> PageScanned(page)
      [] task.kind = "jump" -> PageShown(page)

\* The page comes; a read that is no longer current ends without an effect.
Answer ==
    /\ task.kind # "none"
    /\ IF Current THEN Take(Page(session, task.before))
                  ELSE task' = NoTask /\ UNCHANGED <<record, window>>
    /\ UNCHANGED <<stream, online, session, chat, live, at, follow, pinned>>

\* A host whose page has nothing and still says there is more.
Stall ==
    /\ task.kind # "none" /\ Current
    /\ Take([records |-> {}, hasMore |-> TRUE])
    /\ UNCHANGED <<stream, online, session, chat, live, at, follow, pinned>>

\* The request fails, its deadline passes or the reader cancels the operation.
ReadFails ==
    /\ task.kind # "none"
    /\ task' = NoTask
    /\ UNCHANGED <<stream, online, session, chat, view, pinned>>

Next ==
    \/ \E s \in Sessions : Select(s)
    \/ Leave \/ Picker \/ Disconnect \/ Reconnect
    \/ Snapshot \/ RecordFrame \/ AssistantFrame \/ FrameLost \/ StreamEnds
    \/ \E s \in Talking, frame \in Frames : Talk(s, frame)
    \/ PinHistory \/ ShowLatest
    \/ \E on \in {"record", "window"} : Older(on)
    \/ First \/ Search
    \/ session # NoSession /\ \E n \in 1 .. Logged(session, Now(session)) : JumpWithin(n) \/ Jump(n)
    \/ Answer \/ Stall \/ ReadFails

\* A read has a deadline, so it ends; a stream opens and delivers.  Reading goes on
\* only as long as somebody reads.
Fairness ==
    /\ WF_vars(Answer \/ Stall)
    /\ WF_vars(Snapshot) /\ WF_vars(RecordFrame \/ AssistantFrame)
    /\ WF_vars(Reconnect)

Spec == Init /\ [][Next]_vars /\ Fairness

-----------------------------------------------------------------------------
(* What is checked.                                                        *)

Transcripts == {record} \cup window

\* Whatever was trimmed, paged or answered meanwhile, what is on screen is of the
\* selected session, nothing older is out of reach, and the newest records that the
\* stream has delivered are loaded.
OneSessionInReach ==
    /\ \A t \in Transcripts :
        /\ \A r \in t.events : r[1] = session
        /\ t.ready /\ ~t.hasMore => t.events = {} \/ t.oldest = 1
    /\ record.ready =>
          LET n == Logged(session, at) IN
          Span(session, Max({1, n - Target + 1}), n) \subseteq record.events

\* While the record has missed no frame, the answer it shows is that of the one
\* attempt that is active, chunk for chunk.
LiveIsOneAttempt ==
    record.ready /\ live.revision = Sent(session, at) =>
        /\ live.shown = Chunks(session, at)
        /\ live.attempt = IF Active(session, at) THEN Attempt(session, at) ELSE 0

\* A search has looked at every record between its cut and where it has got to, but
\* those that the record already lacked when it began: trimming the record under it,
\* or records that arrive, make it pass over nothing.
SearchMissesOnlyHoles ==
    task.kind = "search" => task.before .. Max(task.seen) \subseteq task.seen \cup task.miss

\* What the window promises at every moment, whatever was trimmed, paged, searched or
\* answered meanwhile: one session, within reach, with the one answer that is written.
WindowHolds == OneSessionInReach /\ LiveIsOneAttempt /\ SearchMissesOnlyHoles

\* A read ends, however short the pages and whatever is trimmed under it.
HistoryReadsEnd == task.kind # "none" ~> task.kind = "none"

\* The conversation on screen gets its snapshot, unless its stream or connection ends.
SnapshotArrives ==
    []<>(record.ready \/ session = NoSession \/ follow = "ended" \/ ~online)

\* Neither a read nor an opened conversation is left waiting for ever.
ReadingSettles == HistoryReadsEnd /\ SnapshotArrives

\* What trimHistory()'s doc asks of its callers: no page is being read while it trims,
\* so the loaded history has no hole.
HistoryHasNoHole == record.ready => Holes(record) = {}
=============================================================================
