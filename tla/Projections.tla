---------------------------- MODULE Projections -----------------------------
(***************************************************************************)
(* session/telemetry.ts: what the client shows of the host's projections   *)
(* of a session (its title, its model, its inbox, ...).                    *)
(*                                                                         *)
(* The values come on two streams that are not ordered with each other:    *)
(* the control stream brings a baseline and then one update per change,    *)
(* the stream of a followed session brings a snapshot of all of them, as   *)
(* of a record the host chooses.  One session: an entry knows nothing of   *)
(* the others.  The retired queue section and the job counts are plain     *)
(* assignments and left out.                                               *)
(***************************************************************************)
EXTENDS Integers, Sequences

CONSTANTS
    Keys, Retained,  \* projections, and those this client keeps
    Inbox,           \* the one the pending inputs are derived from
    Values, Absent,  \* what a projection can be; it can be missing
    MaxSeq,          \* bound: changes on the host
    MaxFollows,      \* bound: times the session is followed
    MaxResets,       \* bound: generations after the first
    MaxQueue         \* bound: updates under way

ASSUME ProjectionsAssumption ==
    /\ Retained \subseteq Keys /\ Inbox \in Retained /\ Absent \notin Values
    /\ MaxSeq \in Nat /\ MaxFollows \in Nat /\ MaxResets \in Nat /\ MaxQueue \in Nat

VARIABLES
    now, past,    \* the host: its newest record, the values after each record
    control,      \* frames under way on the control stream
    follow,       \* the snapshot under way on the session's stream, or none
    opened,       \* the control stream had its first frame
    ready,        \* Telemetry.ready: the baseline was applied
    entry,        \* the session's entry: baseline, values and revisions
    inbox,        \* what the pending inputs were derived from
    cached,       \* the view handed to the interface, until it is dropped
    follows, resets

host == <<now, past>>
streams == <<control, follow, opened>>
client == <<ready, entry, inbox, cached>>
vars == <<host, streams, client, follows, resets>>

All == Values \cup {Absent}
Row == [Keys -> All]
Nothing == [k \in Keys |-> Absent]
NoSeq == -1

Whole(kind, n, values) ==
    [kind |-> kind, seq |-> n, key |-> Inbox, value |-> Absent, values |-> values]

NoFrame == Whole("none", NoSeq, Nothing)
Baseline == Whole("baseline", now, past[now])
SnapshotAt(n) == Whole("snapshot", n, past[n])
Update(k) ==
    [kind |-> "update", seq |-> now, key |-> k, value |-> past[now][k], values |-> Nothing]

NoView == [none |-> TRUE]
NoEntry == [baseline |-> NoSeq, values |-> Nothing, revisions |-> [k \in Keys |-> NoSeq]]

\* How new a key is: its own update, or the snapshot it is from.
Mark(e, k) == IF e.revisions[k] # NoSeq THEN e.revisions[k] ELSE e.baseline

Seqs == NoSeq .. now
Frames == [kind : {"none", "baseline", "update", "snapshot"}, seq : Seqs, key : Keys, value : All, values : Row]

TypeOK ==
    /\ now \in Nat /\ past \in [0 .. now -> Row]
    /\ control \in Seq(Frames) /\ follow \in Frames
    /\ opened \in BOOLEAN /\ ready \in BOOLEAN
    /\ entry \in [baseline : Seqs, values : Row, revisions : [Keys -> Seqs]]
    /\ inbox \in All
    /\ cached \in Row \cup {NoView}
    /\ follows \in Nat /\ resets \in Nat

Init ==
    /\ now = 0 /\ past = [n \in {0} |-> Nothing]
    /\ control = <<>> /\ follow = NoFrame /\ opened = FALSE
    /\ ready = FALSE /\ entry = NoEntry /\ inbox = Absent /\ cached = NoView
    /\ follows = 0 /\ resets = 0

-----------------------------------------------------------------------------
(* The host.                                                               *)

\* A record changes one projection; an update is sent for a value, none for its loss.
Change(k, value) ==
    /\ now < MaxSeq /\ Len(control) < MaxQueue
    /\ now' = now + 1
    /\ past' = [n \in 0 .. now + 1 |-> IF n = now + 1 THEN [past[now] EXCEPT ![k] = value] ELSE past[n]]
    /\ control' = IF (control = <<>> /\ ~opened) \/ value = Absent THEN control
                  ELSE Append(control, Update(k)')
    /\ UNCHANGED <<follow, opened, client, follows, resets>>

\* A generation opens the control stream.
Subscribe ==
    /\ ~opened /\ control = <<>>
    /\ control' = <<Baseline>>
    /\ UNCHANGED <<host, follow, opened, client, follows, resets>>

\* The session is followed, once there is a baseline; what its preceding stream still
\* brings is refused.
Follow ==
    /\ opened /\ follows < MaxFollows /\ follows' = follows + 1
    /\ \E n \in 0 .. now : follow' = SnapshotAt(n)
    /\ UNCHANGED <<host, control, opened, client, resets>>

-----------------------------------------------------------------------------
(* Telemetry.                                                              *)

\* A plausible bug: a key that the snapshot is newer for keeps its own revision.
MutantMerged(e, frame) ==
    [baseline |-> frame.seq,
     values |-> [k \in Keys |-> IF k \notin Retained \/ e.revisions[k] > frame.seq
                                THEN e.values[k] ELSE frame.values[k]],
     revisions |-> e.revisions]

\* A plausible bug: asOfSeq is taken for the first record that is not in the snapshot.
MutantMergedNext(e, frame) ==
    [baseline |-> frame.seq + 1,
     values |-> [k \in Keys |-> IF k \in Retained THEN frame.values[k] ELSE e.values[k]],
     revisions |-> [k \in Keys |-> NoSeq]]

\* snapshot(): older snapshots are ignored; a key with a newer update keeps it; what
\* the snapshot does not have is deleted.
Merged(e, frame) ==
    IF frame.seq < e.baseline THEN e
    ELSE [baseline |-> frame.seq,
          values |-> [k \in Keys |-> IF k \notin Retained \/ e.revisions[k] > frame.seq
                                     THEN e.values[k] ELSE frame.values[k]],
          revisions |-> [k \in Keys |-> IF k \notin Retained \/ e.revisions[k] > frame.seq
                                        THEN e.revisions[k] ELSE NoSeq]]

\* The pending inputs are derived again, and the view is dropped, unless the snapshot
\* was ignored.
ApplySnapshot(e, frame) ==
    /\ entry' = Merged(e, frame)
    /\ inbox' = IF frame.seq < e.baseline THEN inbox ELSE entry'.values[Inbox]
    /\ cached' = IF frame.seq < e.baseline THEN cached ELSE NoView

\* accept() of a baseline: everything is replaced.
ApplyBaseline(frame) ==
    /\ ApplySnapshot(NoEntry, frame)
    /\ ready' = TRUE

\* A plausible bug: whatever arrives last is the newest.
MutantIsNews(frame) == frame.key \in Retained

IsNews(frame) == frame.seq >= Mark(entry, frame.key) /\ frame.key \in Retained

\* accept() of an update: nothing older than what is there, and only what is retained.
ApplyUpdate(frame) ==
    /\ IF IsNews(frame)
       THEN /\ entry' = [entry EXCEPT !.values[frame.key] = frame.value,
                                      !.revisions[frame.key] = frame.seq]
            /\ inbox' = IF frame.key = Inbox THEN frame.value ELSE inbox
            /\ cached' = NoView
       ELSE UNCHANGED <<entry, inbox, cached>>
    /\ UNCHANGED ready

\* A frame of the control stream; an update before the baseline is refused.
ReceiveControl ==
    /\ control # <<>> /\ control' = Tail(control) /\ opened' = TRUE
    /\ CASE Head(control).kind = "baseline" -> ApplyBaseline(Head(control))
         [] Head(control).kind # "baseline" /\ ready -> ApplyUpdate(Head(control))
         [] OTHER -> UNCHANGED client
    /\ UNCHANGED <<host, follow, follows, resets>>

\* A frame that cannot be read degrades the metrics and is skipped.
Unreadable ==
    /\ control # <<>> /\ control' = Tail(control) /\ opened' = TRUE
    /\ UNCHANGED <<host, follow, client, follows, resets>>

ReceiveSnapshot ==
    /\ follow # NoFrame /\ follow' = NoFrame
    /\ ApplySnapshot(entry, follow)
    /\ UNCHANGED <<host, control, opened, ready, follows, resets>>

\* view(): computed once and kept.
View ==
    /\ cached = NoView /\ cached' = entry.values
    /\ UNCHANGED <<host, streams, ready, entry, inbox, follows, resets>>

\* A new generation starts with a new Telemetry.
Reset ==
    /\ resets < MaxResets /\ resets' = resets + 1
    /\ control' = <<>> /\ follow' = NoFrame /\ opened' = FALSE
    /\ ready' = FALSE /\ entry' = NoEntry /\ inbox' = Absent /\ cached' = NoView
    /\ UNCHANGED <<host, follows>>

Next ==
    \/ \E k \in Keys, value \in All : Change(k, value)
    \/ Subscribe \/ Follow
    \/ ReceiveControl \/ Unreadable \/ ReceiveSnapshot \/ View \/ Reset

Spec == Init /\ [][Next]_vars

-----------------------------------------------------------------------------
(* What is checked.                                                        *)

At(k, n) == IF n = NoSeq THEN Absent ELSE past[n][k]

\* In whatever order the two streams arrive, each value is the one the host had as of
\* the mark the client has for it.
ValuesAreTrue ==
    \A k \in Keys : entry.values[k] = IF k \in Retained THEN At(k, Mark(entry, k)) ELSE Absent

\* The pending inputs and the view handed out are of the values as they are now.
DerivedAreCurrent ==
    /\ inbox = entry.values[Inbox]
    /\ cached # NoView => cached = entry.values

ShownIsTrue == ValuesAreTrue /\ DerivedAreCurrent

\* Within a generation no key goes back to an older mark, whatever is late.
NeverOlder ==
    [][ resets' = resets => \A k \in Retained : Mark(entry', k) >= Mark(entry, k) ]_vars
=============================================================================
