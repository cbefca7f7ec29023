--------------------------- MODULE Derived_proofs ---------------------------
(***************************************************************************)
(* Theorems about what is kept and shown beside the transcript:            *)
(* Projections, Peek and Catalog, for any keys, values and sessions and    *)
(* however long the host runs.                                             *)
(***************************************************************************)
EXTENDS Projections, Peek, Catalog, SequenceTheorems, TLAPS

EntryType == [baseline : Seqs, values : Row, revisions : [Keys -> Seqs]]

\* An entry whose values are those of the host as of its marks.
EntryTrue(e) ==
    \A k \in Keys : e.values[k] = IF k \in Retained THEN At(k, Mark(e, k)) ELSE Absent

\* Each frame under way says what the host had at the record it names.
FrameTrue(frame, newest, rows) ==
    /\ frame.seq \in 0 .. newest
    /\ frame.kind \in {"baseline", "snapshot"} => frame.values = rows[frame.seq]
    /\ frame.kind = "update" => frame.value = rows[frame.seq][frame.key]

FramesTrue ==
    /\ \A i \in 1 .. Len(control) :
          FrameTrue(control[i], now, past) /\ control[i].kind \in {"baseline", "update"}
    /\ follow # NoFrame => FrameTrue(follow, now, past) /\ follow.kind = "snapshot"

\* A baseline is the first frame of its stream, and finds nothing.
BaselineFirst ==
    /\ \A i \in 1 .. Len(control) : control[i].kind = "baseline" => i = 1 /\ ~opened
    /\ ~opened => entry = NoEntry /\ follow = NoFrame

IInv == TypeOK /\ FramesTrue /\ BaselineFirst /\ ShownIsTrue

-----------------------------------------------------------------------------
(* Entries and frames.                                                     *)

LEMMA MarkTyped ==
    ASSUME NEW e, e.baseline \in Seqs, e.revisions \in [Keys -> Seqs], NEW k \in Keys
    PROVE  Mark(e, k) \in Seqs
  BY DEF Mark

LEMMA NoEntryTyped ==
    ASSUME TypeOK
    PROVE  NoEntry \in EntryType
  BY DEF TypeOK, NoEntry, EntryType, Seqs, NoSeq, Row, All, Nothing

LEMMA NoEntryTrue == EntryTrue(NoEntry)
  BY DEF EntryTrue, NoEntry, Nothing, Mark, At

\* A merged entry is an entry.
LEMMA MergedTyped ==
    ASSUME TypeOK, NEW e \in EntryType, NEW frame \in Frames
    PROVE  Merged(e, frame) \in EntryType
<1>1. frame.seq \in Seqs /\ frame.values \in Row /\ NoSeq \in Seqs
  BY DEF Frames, Seqs, NoSeq, TypeOK
<1>2. e.values \in Row /\ e.revisions \in [Keys -> Seqs] /\ e.baseline \in Seqs
  BY DEF EntryType
<1>3. CASE frame.seq < e.baseline
  BY <1>3 DEF Merged
<1>4. CASE ~(frame.seq < e.baseline)
  <2> DEFINE v == [k \in Keys |-> IF k \notin Retained \/ e.revisions[k] > frame.seq
                                  THEN e.values[k] ELSE frame.values[k]]
             r == [k \in Keys |-> IF k \notin Retained \/ e.revisions[k] > frame.seq
                                  THEN e.revisions[k] ELSE NoSeq]
  <2>1. v \in Row
    BY <1>1, <1>2 DEF Row
  <2>2. r \in [Keys -> Seqs]
    BY <1>1, <1>2
  <2>3. Merged(e, frame) = [baseline |-> frame.seq, values |-> v, revisions |-> r]
    BY <1>4 DEF Merged
  <2> QED BY <2>1, <2>2, <2>3, <1>1 DEF EntryType
<1> QED BY <1>3, <1>4

\* What a true snapshot is merged into stays true, in either order of arrival.
LEMMA MergedTrue ==
    ASSUME TypeOK, NEW e \in EntryType, EntryTrue(e),
           NEW frame \in Frames, FrameTrue(frame, now, past), frame.kind \in {"baseline", "snapshot"}
    PROVE  EntryTrue(Merged(e, frame))
<1>1. CASE frame.seq < e.baseline
  BY <1>1 DEF Merged
<1>2. CASE ~(frame.seq < e.baseline)
  <2> DEFINE m == Merged(e, frame)
  <2>1. SUFFICES ASSUME NEW k \in Keys
                 PROVE  m.values[k] = IF k \in Retained THEN At(k, Mark(m, k)) ELSE Absent
    BY DEF EntryTrue
  <2>2. /\ m.baseline = frame.seq
        /\ m.values[k] = IF k \notin Retained \/ e.revisions[k] > frame.seq
                         THEN e.values[k] ELSE frame.values[k]
        /\ m.revisions[k] = IF k \notin Retained \/ e.revisions[k] > frame.seq
                            THEN e.revisions[k] ELSE NoSeq
    BY <1>2 DEF Merged
  <2>3. e.values[k] = IF k \in Retained THEN At(k, Mark(e, k)) ELSE Absent
    BY DEF EntryTrue
  <2>4. frame.seq \in Nat /\ frame.values[k] = past[frame.seq][k] /\ now \in Nat
    BY DEF FrameTrue, TypeOK
  <2> HIDE DEF m
  <2>5. CASE k \notin Retained
    BY <2>2, <2>3, <2>5
  <2>6. CASE k \in Retained /\ e.revisions[k] > frame.seq
    <3>1. e.revisions[k] # NoSeq
      BY <2>4, <2>6 DEF NoSeq
    <3>2. Mark(m, k) = e.revisions[k] /\ Mark(e, k) = e.revisions[k]
      BY <2>2, <2>6, <3>1 DEF Mark
    <3> QED BY <2>2, <2>3, <2>6, <3>2
  <2>7. CASE k \in Retained /\ ~(e.revisions[k] > frame.seq)
    <3>1. Mark(m, k) = frame.seq /\ m.values[k] = past[frame.seq][k]
      BY <2>2, <2>4, <2>7 DEF Mark
    <3>2. At(k, frame.seq) = past[frame.seq][k]
      BY <2>4 DEF At, NoSeq
    <3> QED BY <2>7, <3>1, <3>2
  <2> QED BY <2>5, <2>6, <2>7
<1> QED BY <1>1, <1>2

\* A merged entry is nowhere older than it was.
LEMMA MergedNewer ==
    ASSUME TypeOK, NEW e \in EntryType, NEW frame \in Frames, frame.seq \in 0 .. now,
           NEW k \in Retained
    PROVE  Mark(Merged(e, frame), k) >= Mark(e, k)
<1>1. k \in Keys /\ now \in Nat
  BY ProjectionsAssumption DEF TypeOK
<1>2. e.baseline \in Int /\ e.revisions[k] \in Int /\ frame.seq \in Nat
  BY <1>1 DEF EntryType, Seqs, NoSeq
<1>3. CASE frame.seq < e.baseline
  BY <1>2, <1>3 DEF Merged, Mark
<1>4. CASE ~(frame.seq < e.baseline)
  <2>1. /\ Merged(e, frame).baseline = frame.seq
        /\ Merged(e, frame).revisions[k] = IF e.revisions[k] > frame.seq THEN e.revisions[k] ELSE NoSeq
    BY <1>1, <1>4 DEF Merged
  <2> QED BY <1>2, <1>4, <2>1 DEF Mark, NoSeq
<1> QED BY <1>3, <1>4

-----------------------------------------------------------------------------
(* One step.                                                               *)

\* What is received is typed, true and of the kinds of its stream.
LEMMA HeadOfControl ==
    ASSUME TypeOK, FramesTrue, control # <<>>
    PROVE  /\ Head(control) \in Frames /\ FrameTrue(Head(control), now, past)
           /\ Head(control).kind \in {"baseline", "update"}
           /\ Tail(control) \in Seq(Frames) /\ Len(Tail(control)) = Len(control) - 1
           /\ Len(control) \in Nat /\ Len(control) > 0
           /\ \A i \in 1 .. Len(control) - 1 : Tail(control)[i] = control[i + 1]
<1>1. control \in Seq(Frames) /\ Len(control) \in Nat /\ Len(control) > 0
  BY DEF TypeOK
<1>2. Head(control) = control[1] /\ 1 \in 1 .. Len(control)
  BY <1>1
<1> QED BY <1>1, <1>2 DEF FramesTrue

\* The rest of the control stream is true and has no baseline.
LEMMA RestOfControl ==
    ASSUME IInv, control # <<>>, control' = Tail(control), opened' = TRUE,
           UNCHANGED <<now, past>>
    PROVE  /\ control' \in Seq(Frames')
           /\ \A i \in 1 .. Len(control') :
                 FrameTrue(control'[i], now', past') /\ control'[i].kind = "update"
<1> USE DEF IInv
<1>1. Frames' = Frames
  BY DEF Frames, Seqs, Row, All
<1>2. SUFFICES ASSUME NEW i \in 1 .. Len(control')
               PROVE  FrameTrue(control'[i], now', past') /\ control'[i].kind = "update"
  BY <1>1, HeadOfControl
<1>3. i + 1 \in 1 .. Len(control) /\ i + 1 # 1 /\ control'[i] = control[i + 1]
  BY HeadOfControl
<1>4. FrameTrue(control[i + 1], now, past) /\ control[i + 1].kind = "update"
  BY <1>3 DEF FramesTrue, BaselineFirst
<1>5. FrameTrue(control[i + 1], now', past')
  BY <1>4 DEF FrameTrue
<1> QED BY <1>3, <1>4, <1>5

\* The host only adds to its past.
LEMMA HostGrows ==
    ASSUME TypeOK, NEW k \in Keys, NEW value \in All, Change(k, value)
    PROVE  /\ now' = now + 1 /\ now' \in Nat
           /\ past' \in [0 .. now' -> Row]
           /\ \A n \in 0 .. now : past'[n] = past[n]
           /\ Seqs \subseteq Seqs'
<1>1. now \in Nat /\ now' = now + 1 /\ past \in [0 .. now -> Row] /\ past[now] \in Row
  BY DEF Change, TypeOK
<1>2. [past[now] EXCEPT ![k] = value] \in Row
  BY <1>1 DEF Row
<1>3. past' = [n \in 0 .. now + 1 |-> IF n = now + 1 THEN [past[now] EXCEPT ![k] = value] ELSE past[n]]
  BY DEF Change
<1> HIDE DEF Row
<1>4. past' \in [0 .. now' -> Row]
  BY <1>1, <1>2, <1>3
<1> QED BY <1>1, <1>3, <1>4 DEF Seqs

\* A change of the host leaves everything the client has true.
LEMMA ChangeStep ==
    ASSUME IInv, NEW k \in Keys, NEW value \in All, Change(k, value)
    PROVE  IInv'
<1> USE DEF IInv
<1>1. /\ now \in Nat /\ now' = now + 1 /\ now' \in Nat /\ past' \in [0 .. now' -> Row]
      /\ \A n \in 0 .. now : past'[n] = past[n]
      /\ Seqs \subseteq Seqs'
  BY HostGrows DEF TypeOK
<1>2. UNCHANGED <<follow, opened, ready, entry, inbox, cached, follows, resets>>
  BY DEF Change, client
<1>3. Row' = Row /\ Frames \subseteq Frames'
  BY <1>1 DEF Frames, Row, All
<1>4. \A frame \in Frames : FrameTrue(frame, now, past) => FrameTrue(frame, now', past')
  BY <1>1 DEF FrameTrue
<1> DEFINE new == [kind |-> "update", seq |-> now', key |-> k, value |-> past'[now'][k],
                   values |-> Nothing]
<1>5. new \in Frames' /\ FrameTrue(new, now', past') /\ new.kind = "update"
  <2>2. now' \in Seqs' /\ past'[now'][k] \in All /\ Nothing \in Row
    BY <1>1 DEF Seqs, Row, All, Nothing, NoSeq
  <2>3. new \in Frames'
    BY <2>2, <1>3 DEF Frames, All
  <2>4. FrameTrue(new, now', past')
    BY <1>1 DEF FrameTrue
  <2> QED BY <2>3, <2>4
<1> HIDE DEF new
<1>6. control' = control \/ (control' = Append(control, new) /\ (control # <<>> \/ opened))
  <2>1. Update(k)' = new
    BY DEF Update, NoFrame, Whole, Nothing, NoSeq, new
  <2> QED BY <2>1 DEF Change
<1>7. control \in Seq(Frames) /\ control \in Seq(Frames') /\ Len(control) \in Nat
  BY <1>3 DEF TypeOK
<1>8. /\ control' \in Seq(Frames')
      /\ \A i \in 1 .. Len(control') :
            \/ control'[i] = new /\ i = Len(control) + 1
            \/ i \in 1 .. Len(control) /\ control'[i] = control[i]
  BY <1>5, <1>6, <1>7
<1>9. TypeOK'
  <2>1. entry \in [baseline : Seqs', values : Row, revisions : [Keys -> Seqs']]
    BY <1>1 DEF TypeOK
  <2>2. follow \in Frames'
    BY <1>3 DEF TypeOK
  <2> QED BY <1>1, <1>2, <1>3, <1>8, <2>1, <2>2 DEF TypeOK, All
<1>10. FramesTrue'
  <2>1. ASSUME NEW i \in 1 .. Len(control')
        PROVE  FrameTrue(control'[i], now', past') /\ control'[i].kind \in {"baseline", "update"}
    <3>1. CASE control'[i] = new
      BY <1>5, <3>1
    <3>2. CASE i \in 1 .. Len(control) /\ control'[i] = control[i]
      <4>1. control[i] \in Frames /\ FrameTrue(control[i], now, past) /\ control[i].kind \in {"baseline", "update"}
        BY <1>7, <3>2 DEF FramesTrue
      <4>2. FrameTrue(control[i], now', past')
        BY <4>1, <1>4
      <4> QED BY <3>2, <4>1, <4>2
    <3> QED BY <1>8, <3>1, <3>2
  <2>2. follow # NoFrame => FrameTrue(follow, now', past') /\ follow.kind = "snapshot"
    BY <1>4 DEF FramesTrue, TypeOK
  <2> QED BY <1>2, <2>1, <2>2 DEF FramesTrue, NoFrame, Whole, Nothing
<1>11. BaselineFirst'
  <2>1. \A i \in 1 .. Len(control') : control'[i].kind = "baseline" => i = 1 /\ ~opened
    BY <1>5, <1>8 DEF BaselineFirst
  <2> QED BY <1>2, <2>1 DEF BaselineFirst, NoFrame, NoEntry, Nothing
<1>12. ShownIsTrue'
  <2>1. ASSUME NEW p \in Keys PROVE At(p, Mark(entry, p))' = At(p, Mark(entry, p))
    <3>1. Mark(entry, p) \in Seqs /\ Mark(entry, p)' = Mark(entry, p)
      BY <1>2, MarkTyped DEF TypeOK, Mark
    <3> QED BY <1>1, <3>1 DEF At, Seqs, NoSeq
  <2> QED BY <1>2, <2>1 DEF ShownIsTrue, ValuesAreTrue, DerivedAreCurrent, NoView
<1> QED BY <1>9, <1>10, <1>11, <1>12

\* Values of unchanged rows are of the same records.
LEMMA SameRows ==
    ASSUME UNCHANGED <<now, past>>
    PROVE  /\ \A k, n : At(k, n)' = At(k, n)
           /\ Seqs' = Seqs /\ Row' = Row /\ Frames' = Frames /\ EntryType' = EntryType
  BY DEF At, NoSeq, Seqs, Row, All, Frames, EntryType

\* What the client has may be replaced by an entry that is true.
LEMMA ReplacedEntry ==
    ASSUME UNCHANGED <<now, past>>, entry' \in EntryType, EntryTrue(entry'),
           inbox' = entry'.values[Inbox], cached' = NoView \/ cached' = entry'.values
    PROVE  /\ entry' \in EntryType' /\ inbox' \in All /\ cached' \in Row \cup {NoView}
           /\ ShownIsTrue'
<1>1. entry'.values \in Row /\ Inbox \in Keys
  BY ProjectionsAssumption DEF EntryType
<1>2. ValuesAreTrue'
  BY DEF EntryTrue, ValuesAreTrue, At, NoSeq, Mark
<1>3. DerivedAreCurrent'
  BY DEF DerivedAreCurrent, NoView
<1> QED BY <1>1, <1>2, <1>3, SameRows DEF ShownIsTrue, Row

LEMMA SnapshotApplied ==
    ASSUME IInv, UNCHANGED <<now, past>>,
           NEW frame \in Frames, FrameTrue(frame, now, past),
           frame.kind \in {"baseline", "snapshot"},
           NEW e, e = entry \/ e = NoEntry, ApplySnapshot(e, frame)
    PROVE  /\ entry' \in EntryType' /\ inbox' \in All /\ cached' \in Row \cup {NoView}
           /\ ShownIsTrue'
<1> USE DEF IInv
<1>1. e \in EntryType /\ EntryTrue(e)
  BY NoEntryTyped, NoEntryTrue DEF TypeOK, EntryType, EntryTrue, ShownIsTrue, ValuesAreTrue
<1>2. entry' \in EntryType /\ EntryTrue(entry')
  BY <1>1, MergedTyped, MergedTrue DEF ApplySnapshot
<1>3. frame.seq \in Nat
  BY DEF FrameTrue, TypeOK
<1>4. CASE frame.seq < e.baseline
  <2>1. e = entry
    BY <1>3, <1>4 DEF NoEntry, NoSeq
  <2>2. entry' = entry /\ inbox' = inbox /\ cached' = cached
    BY <1>4, <2>1 DEF ApplySnapshot, Merged
  <2>3. inbox = entry.values[Inbox] /\ (cached = NoView \/ cached = entry.values)
    BY DEF ShownIsTrue, DerivedAreCurrent
  <2> QED BY <1>2, <2>2, <2>3, ReplacedEntry
<1>5. CASE ~(frame.seq < e.baseline)
  BY <1>2, <1>5, ReplacedEntry DEF ApplySnapshot
<1> QED BY <1>4, <1>5

\* An update that is news makes its key as true as it is; any other changes nothing.
LEMMA UpdateApplied ==
    ASSUME IInv, UNCHANGED <<now, past>>,
           NEW frame \in Frames, FrameTrue(frame, now, past), frame.kind = "update",
           ApplyUpdate(frame)
    PROVE  /\ entry' \in EntryType' /\ inbox' \in All /\ cached' \in Row \cup {NoView}
           /\ ShownIsTrue'
<1> USE DEF IInv
<1>1. entry \in EntryType /\ EntryTrue(entry)
  BY DEF TypeOK, EntryType, EntryTrue, ShownIsTrue, ValuesAreTrue
<1>2. inbox = entry.values[Inbox] /\ (cached = NoView \/ cached = entry.values)
  BY DEF ShownIsTrue, DerivedAreCurrent
<1>3. CASE ~IsNews(frame)
  <2>1. entry' = entry /\ inbox' = inbox /\ cached' = cached
    BY <1>3 DEF ApplyUpdate
  <2> QED BY <1>1, <1>2, <2>1, ReplacedEntry
<1>4. CASE IsNews(frame)
  <2> DEFINE key == frame.key
  <2>1. /\ key \in Keys /\ key \in Retained /\ frame.seq \in Seqs /\ frame.seq \in Nat
        /\ frame.value \in All /\ frame.value = past[frame.seq][key]
    BY <1>4 DEF IsNews, FrameTrue, Frames, TypeOK
  <2>2. /\ entry.values \in [Keys -> All] /\ entry.revisions \in [Keys -> Seqs]
        /\ entry.baseline \in Seqs
    BY <1>1 DEF EntryType, Row
  <2>3. entry' = [entry EXCEPT !.values[frame.key] = frame.value, !.revisions[frame.key] = frame.seq]
    BY <1>4 DEF ApplyUpdate
  <2>4. /\ entry' = [baseline |-> entry.baseline,
                     values |-> [entry.values EXCEPT ![key] = frame.value],
                     revisions |-> [entry.revisions EXCEPT ![key] = frame.seq]]
    BY <1>1, <2>3 DEF EntryType
  <2>5. /\ [entry.values EXCEPT ![key] = frame.value] \in [Keys -> All]
        /\ [entry.revisions EXCEPT ![key] = frame.seq] \in [Keys -> Seqs]
    BY <2>1, <2>2
  <2>6. entry' \in EntryType
    BY <2>2, <2>4, <2>5 DEF EntryType, Row
  <2>7. EntryTrue(entry')
    <3>1. SUFFICES ASSUME NEW k \in Keys
                   PROVE  entry'.values[k] = IF k \in Retained THEN At(k, Mark(entry', k)) ELSE Absent
      BY DEF EntryTrue
    <3>2. CASE k = key
      <4>1. entry'.values[k] = frame.value /\ entry'.revisions[k] = frame.seq
        BY <2>2, <2>4, <3>2
      <4>2. Mark(entry', k) = frame.seq
        BY <2>1, <4>1 DEF Mark, NoSeq
      <4> QED BY <2>1, <3>2, <4>1, <4>2 DEF At, NoSeq
    <3>3. CASE k # key
      <4>1. entry'.values[k] = entry.values[k] /\ Mark(entry', k) = Mark(entry, k)
        BY <2>2, <2>4, <3>3 DEF Mark
      <4> QED BY <1>1, <4>1 DEF EntryTrue
    <3> QED BY <3>2, <3>3
  <2>8. inbox' = entry'.values[Inbox] /\ cached' = NoView
    BY <1>2, <1>4, <2>1, <2>2, <2>4, ProjectionsAssumption DEF ApplyUpdate
  <2> QED BY <2>6, <2>7, <2>8, ReplacedEntry
<1> QED BY <1>3, <1>4

\* The host's part of the types does not change with the client's.
LEMMA HostTyped ==
    ASSUME TypeOK, UNCHANGED <<now, past>>
    PROVE  /\ now' \in Nat /\ past' \in [0 .. now' -> Row']
           /\ entry \in EntryType' /\ follow \in Frames' /\ NoFrame \in Frames'
           /\ control \in Seq(Frames')
<1>1. Seqs' = Seqs /\ Row' = Row /\ Frames' = Frames
  BY DEF Seqs, Row, All, Frames
<1>2. NoFrame \in Frames
  BY ProjectionsAssumption DEF NoFrame, Whole, Nothing, Frames, Row, All, Seqs, NoSeq, TypeOK
<1> QED BY <1>1, <1>2 DEF TypeOK, EntryType

\* A step that leaves the host, the frames and the entry shows nothing else.
LEMMA SameEntry ==
    ASSUME ShownIsTrue, UNCHANGED <<now, past, entry, inbox>>,
           cached' = cached \/ cached' = entry.values
    PROVE  ShownIsTrue'
<1>1. ValuesAreTrue'
  BY DEF ShownIsTrue, ValuesAreTrue, Mark, At, NoSeq
<1>2. DerivedAreCurrent'
  BY DEF ShownIsTrue, DerivedAreCurrent, NoView
<1> QED BY <1>1, <1>2 DEF ShownIsTrue

LEMMA SubscribeStep ==
    ASSUME IInv, Subscribe
    PROVE  IInv'
<1> USE DEF IInv
<1>1. /\ UNCHANGED <<now, past, follow, opened, ready, entry, inbox, cached, follows, resets>>
      /\ control' = <<Baseline>> /\ ~opened
  BY DEF Subscribe, host, client
<1>2. Baseline \in Frames /\ FrameTrue(Baseline, now, past) /\ Baseline.kind = "baseline"
  <2>1. now \in 0 .. now /\ past[now] \in Row
    BY DEF TypeOK
  <2> QED BY <2>1, ProjectionsAssumption DEF Baseline, Whole, Frames, FrameTrue, All, Seqs,
                                                 NoSeq, TypeOK
<1>3. Len(control') = 1 /\ control'[1] = Baseline /\ control' \in Seq(Frames)
  BY <1>1, <1>2
<1>4. TypeOK'
  BY <1>1, <1>3, HostTyped, SameRows DEF TypeOK, EntryType, All
<1>5. FramesTrue'
  BY <1>1, <1>2, <1>3 DEF FramesTrue, NoFrame, Whole, Nothing
<1>6. BaselineFirst'
  BY <1>1, <1>3 DEF BaselineFirst, NoEntry, NoFrame, Whole, Nothing
<1> QED BY <1>1, <1>4, <1>5, <1>6, SameEntry

LEMMA FollowStep ==
    ASSUME IInv, Follow
    PROVE  IInv'
<1> USE DEF IInv
<1>1. /\ UNCHANGED <<now, past, control, opened, ready, entry, inbox, cached, resets>>
      /\ opened /\ follows' = follows + 1
  BY DEF Follow, host, client
<1>2. PICK n \in 0 .. now : follow' = SnapshotAt(n)
  BY DEF Follow
<1>3. /\ follow' \in Frames /\ FrameTrue(follow', now, past) /\ follow'.kind = "snapshot"
  <2>1. n \in Seqs /\ past[n] \in Row
    BY DEF TypeOK, Seqs, NoSeq
  <2> QED BY <1>2, <2>1, ProjectionsAssumption DEF SnapshotAt, Whole, Frames, FrameTrue, All
<1>4. TypeOK'
  BY <1>1, <1>3, HostTyped, SameRows DEF TypeOK, EntryType, All
<1>5. FramesTrue'
  BY <1>1, <1>3 DEF FramesTrue
<1>6. BaselineFirst'
  BY <1>1 DEF BaselineFirst
<1> QED BY <1>1, <1>4, <1>5, <1>6, SameEntry

LEMMA ReceiveControlStep ==
    ASSUME IInv, ReceiveControl
    PROVE  IInv'
<1> USE DEF IInv
<1> DEFINE frame == Head(control)
<1>1. /\ UNCHANGED <<now, past, follow, follows, resets>>
      /\ control # <<>> /\ control' = Tail(control) /\ opened' = TRUE
  BY DEF ReceiveControl, host
<1>2. frame \in Frames /\ FrameTrue(frame, now, past) /\ frame.kind \in {"baseline", "update"}
  BY <1>1, HeadOfControl
<1>3. /\ entry' \in EntryType' /\ inbox' \in All /\ cached' \in Row \cup {NoView}
      /\ ready' \in BOOLEAN /\ ShownIsTrue'
  <2>1. CASE frame.kind = "baseline"
    <3>1. ApplySnapshot(NoEntry, frame) /\ ready' = TRUE
      BY <2>1 DEF ReceiveControl, ApplyBaseline
    <3>2. /\ entry' \in EntryType' /\ inbox' \in All /\ cached' \in Row \cup {NoView}
          /\ ShownIsTrue'
      <4> DEFINE e == NoEntry
      <4>1. (e = entry \/ e = NoEntry) /\ ApplySnapshot(e, frame)
        BY <3>1
      <4> HIDE DEF e, frame
      <4> QED BY <1>1, <1>2, <2>1, <4>1, SnapshotApplied
    <3> QED BY <3>1, <3>2
  <2>2. CASE frame.kind # "baseline" /\ ready
    <3>1. ApplyUpdate(frame) /\ ready' = ready
      BY <2>2 DEF ReceiveControl, ApplyUpdate
    <3> QED BY <1>1, <1>2, <2>2, <3>1, UpdateApplied DEF TypeOK
  <2>3. CASE frame.kind # "baseline" /\ ~ready
    <3>1. UNCHANGED <<ready, entry, inbox, cached>>
      BY <2>3 DEF ReceiveControl, client
    <3> QED BY <1>1, <3>1, HostTyped, SameEntry DEF TypeOK
  <2> QED BY <2>1, <2>2, <2>3
<1>4. /\ control' \in Seq(Frames')
      /\ \A i \in 1 .. Len(control') :
            FrameTrue(control'[i], now', past') /\ control'[i].kind = "update"
  BY <1>1, RestOfControl
<1>5. TypeOK'
  BY <1>1, <1>3, <1>4, HostTyped, SameRows DEF TypeOK, EntryType, All
<1>6. FramesTrue'
  BY <1>1, <1>4 DEF FramesTrue, NoFrame, Whole, Nothing
<1>7. BaselineFirst'
  BY <1>1, <1>4 DEF BaselineFirst
<1> QED BY <1>3, <1>5, <1>6, <1>7

LEMMA UnreadableStep ==
    ASSUME IInv, Unreadable
    PROVE  IInv'
<1> USE DEF IInv
<1>1. /\ UNCHANGED <<now, past, follow, ready, entry, inbox, cached, follows, resets>>
      /\ control # <<>> /\ control' = Tail(control) /\ opened' = TRUE
  BY DEF Unreadable, host, client
<1>2. /\ control' \in Seq(Frames')
      /\ \A i \in 1 .. Len(control') :
            FrameTrue(control'[i], now', past') /\ control'[i].kind = "update"
  BY <1>1, RestOfControl
<1>3. TypeOK'
  BY <1>1, <1>2, HostTyped, SameRows DEF TypeOK, EntryType, All
<1>4. FramesTrue'
  BY <1>1, <1>2 DEF FramesTrue, NoFrame, Whole, Nothing
<1>5. BaselineFirst'
  BY <1>1, <1>2 DEF BaselineFirst
<1> QED BY <1>1, <1>3, <1>4, <1>5, SameEntry

LEMMA ReceiveSnapshotStep ==
    ASSUME IInv, ReceiveSnapshot
    PROVE  IInv'
<1> USE DEF IInv
<1>1. /\ UNCHANGED <<now, past, control, opened, ready, follows, resets>>
      /\ follow # NoFrame /\ follow' = NoFrame /\ ApplySnapshot(entry, follow)
  BY DEF ReceiveSnapshot, host
<1>2. follow \in Frames /\ FrameTrue(follow, now, past) /\ follow.kind = "snapshot"
  BY <1>1 DEF TypeOK, FramesTrue
<1>3. /\ entry' \in EntryType' /\ inbox' \in All /\ cached' \in Row \cup {NoView}
      /\ ShownIsTrue'
  BY <1>1, <1>2, SnapshotApplied
<1>4. TypeOK'
  BY <1>1, <1>3, HostTyped, SameRows DEF TypeOK, EntryType, All
<1>5. FramesTrue'
  BY <1>1 DEF FramesTrue, NoFrame, Whole, Nothing
<1>6. opened
  BY <1>1 DEF BaselineFirst
<1>7. BaselineFirst'
  BY <1>1, <1>6 DEF BaselineFirst
<1> QED BY <1>3, <1>4, <1>5, <1>7

LEMMA ViewStep ==
    ASSUME IInv, View
    PROVE  IInv'
<1> USE DEF IInv
<1>1. /\ UNCHANGED <<now, past, control, follow, opened, ready, entry, inbox, follows, resets>>
      /\ cached' = entry.values
  BY DEF View, host, streams
<1>2. TypeOK'
  BY <1>1, HostTyped, SameRows DEF TypeOK, EntryType, All
<1>3. FramesTrue' /\ BaselineFirst'
  BY <1>1 DEF FramesTrue, BaselineFirst, NoFrame, NoEntry, Whole, Nothing
<1> QED BY <1>1, <1>2, <1>3, SameEntry

LEMMA ResetStep ==
    ASSUME IInv, Reset
    PROVE  IInv'
<1> USE DEF IInv
<1>1. /\ UNCHANGED <<now, past, follows>> /\ resets' = resets + 1
      /\ control' = <<>> /\ follow' = NoFrame /\ opened' = FALSE /\ ready' = FALSE
      /\ entry' = NoEntry /\ inbox' = Absent /\ cached' = NoView
  BY DEF Reset, host
<1>2. /\ entry' \in EntryType' /\ inbox' \in All /\ cached' \in Row \cup {NoView}
      /\ ShownIsTrue'
  <2>1. inbox' = entry'.values[Inbox]
    BY <1>1, ProjectionsAssumption DEF NoEntry, Nothing
  <2>2. entry' \in EntryType /\ EntryTrue(entry')
    BY <1>1, NoEntryTyped, NoEntryTrue
  <2> QED BY <1>1, <2>1, <2>2, ReplacedEntry
<1>3. control' \in Seq(Frames') /\ Len(control') = 0
  BY <1>1
<1>4. TypeOK'
  <2>1. /\ now' \in Nat /\ past' \in [0 .. now' -> Row'] /\ follow' \in Frames'
        /\ Row' = Row /\ All' = All /\ NoView' = NoView
    BY <1>1, HostTyped, SameRows DEF All, NoView
  <2>2. follows' \in Nat /\ resets' \in Nat
    BY <1>1 DEF TypeOK
  <2> QED BY <1>1, <1>2, <1>3, <2>1, <2>2 DEF TypeOK, EntryType
<1>5. FramesTrue' /\ BaselineFirst'
  BY <1>1, <1>3 DEF FramesTrue, BaselineFirst, NoFrame, NoEntry, Whole, Nothing
<1> QED BY <1>2, <1>4, <1>5

-----------------------------------------------------------------------------
(* The theorems.                                                           *)

LEMMA InitialState ==
    ASSUME Init
    PROVE  IInv
<1>1. /\ now = 0 /\ past = [n \in {0} |-> Nothing]
      /\ control = <<>> /\ follow = NoFrame /\ opened = FALSE
      /\ ready = FALSE /\ entry = NoEntry /\ inbox = Absent /\ cached = NoView
      /\ follows = 0 /\ resets = 0
  BY DEF Init
<1>2. Nothing \in Row /\ 0 .. now = {0} /\ NoSeq \in Seqs
  BY <1>1 DEF Nothing, Row, All, Seqs, NoSeq
<1>3. NoFrame \in Frames
  BY <1>2, ProjectionsAssumption DEF NoFrame, Whole, Frames, All
<1>4. entry \in [baseline : Seqs, values : Row, revisions : [Keys -> Seqs]]
  BY <1>1, <1>2 DEF NoEntry
<1>5. TypeOK
  <2>1. past \in [0 .. now -> Row]
    BY <1>1, <1>2
  <2>2. control \in Seq(Frames)
    BY <1>1
  <2>3. now \in Nat /\ follows \in Nat /\ resets \in Nat /\ opened \in BOOLEAN /\ ready \in BOOLEAN
    BY <1>1
  <2> QED BY <1>1, <1>3, <1>4, <2>1, <2>2, <2>3 DEF TypeOK, All
<1>6. Len(control) = 0
  BY <1>1
<1>7. FramesTrue /\ BaselineFirst
  BY <1>1, <1>6 DEF FramesTrue, BaselineFirst
<1>8. ShownIsTrue
  BY <1>1, NoEntryTrue, ProjectionsAssumption
     DEF ShownIsTrue, ValuesAreTrue, DerivedAreCurrent, EntryTrue, NoEntry, Nothing
<1> QED BY <1>5, <1>7, <1>8 DEF IInv

LEMMA EveryStep ==
    ASSUME IInv, [Next]_vars
    PROVE  IInv'
<1>1. ASSUME NEW k \in Keys, NEW value \in All, Change(k, value) PROVE IInv'
  BY <1>1, ChangeStep
<1>2. CASE Subscribe
  BY <1>2, SubscribeStep
<1>3. CASE Follow
  BY <1>3, FollowStep
<1>4. CASE ReceiveControl
  BY <1>4, ReceiveControlStep
<1>5. CASE Unreadable
  BY <1>5, UnreadableStep
<1>6. CASE ReceiveSnapshot
  BY <1>6, ReceiveSnapshotStep
<1>7. CASE View
  BY <1>7, ViewStep
<1>8. CASE Reset
  BY <1>8, ResetStep
<1>9. CASE UNCHANGED vars
  <2>1. UNCHANGED <<now, past, control, follow, opened, ready, entry, inbox, cached, follows, resets>>
    BY <1>9 DEF vars, host, streams, client
  <2>2. TypeOK'
    BY <2>1, HostTyped, SameRows DEF IInv, TypeOK, EntryType, All
  <2>3. FramesTrue' /\ BaselineFirst'
    BY <2>1 DEF IInv, FramesTrue, BaselineFirst, NoFrame, NoEntry, Whole, Nothing
  <2>4. ShownIsTrue'
    BY <2>1, SameEntry DEF IInv
  <2> QED BY <2>2, <2>3, <2>4 DEF IInv
<1> QED BY <1>1, <1>2, <1>3, <1>4, <1>5, <1>6, <1>7, <1>8, <1>9 DEF Next

\* The invariant all the others follow from: every frame under way, on either stream,
\* is what the host had at the record it names, and so is every value kept.
THEOREM ProjectionsInvariant == Spec => []IInv
<1>1. Init => IInv
  BY InitialState
<1>2. IInv /\ [Next]_vars => IInv'
  BY EveryStep
<1> QED BY <1>1, <1>2, PTL DEF Spec

\* The types of the host, the frames and what Telemetry keeps.
THEOREM ProjectionsTyped == Spec => []TypeOK
<1>1. IInv => TypeOK
  BY DEF IInv
<1> QED BY <1>1, ProjectionsInvariant, PTL

\* Telemetry.accept and snapshot(): in whatever order the control stream and the
\* snapshots of followed sessions come, each projection shown is the one the host had at
\* the mark kept for it, and the pending inputs and the view follow.
THEOREM ValuesShownAreTrue == Spec => []ShownIsTrue
<1>1. IInv => ShownIsTrue
  BY DEF IInv
<1> QED BY <1>1, ProjectionsInvariant, PTL

LEMMA NoStepGoesBack ==
    ASSUME IInv, Next, resets' = resets, NEW k \in Retained
    PROVE  Mark(entry', k) >= Mark(entry, k)
<1> USE DEF IInv
<1>1. k \in Keys /\ entry \in EntryType /\ Mark(entry, k) \in Int /\ Mark(entry, k) >= NoSeq
  <2>1. k \in Keys /\ entry \in EntryType
    BY ProjectionsAssumption DEF TypeOK, EntryType
  <2>2. Mark(entry, k) \in Seqs
    BY <2>1, MarkTyped DEF EntryType
  <2> QED BY <2>1, <2>2 DEF Seqs, NoSeq, TypeOK
<1>2. CASE entry' = entry
  BY <1>1, <1>2
<1>3. CASE ReceiveSnapshot
  <2>1. follow \in Frames /\ follow.seq \in 0 .. now /\ entry' = Merged(entry, follow)
    BY <1>3 DEF ReceiveSnapshot, ApplySnapshot, FramesTrue, FrameTrue, TypeOK
  <2> QED BY <1>1, <2>1, MergedNewer
<1>4. CASE ReceiveControl
  <2> DEFINE frame == Head(control)
  <2>1. frame \in Frames /\ FrameTrue(frame, now, past) /\ control # <<>>
    BY <1>4, HeadOfControl DEF ReceiveControl
  <2>2. frame.seq \in 0 .. now /\ frame.seq \in Nat
    BY <2>1 DEF FrameTrue, TypeOK
  <2>3. CASE frame.kind = "baseline"
    <3>1. entry = NoEntry
      <4>1. 1 \in 1 .. Len(control) /\ frame = control[1]
        BY <2>1 DEF TypeOK
      <4> QED BY <2>3, <4>1 DEF BaselineFirst
    <3>2. entry' = Merged(entry, frame)
      BY <1>4, <2>3, <3>1 DEF ReceiveControl, ApplyBaseline, ApplySnapshot
    <3> QED BY <1>1, <2>1, <2>2, <3>2, MergedNewer
  <2>4. CASE frame.kind # "baseline" /\ ready /\ IsNews(frame)
    <3>1. entry' = [entry EXCEPT !.values[frame.key] = frame.value, !.revisions[frame.key] = frame.seq]
      BY <1>4, <2>4 DEF ReceiveControl, ApplyUpdate
    <3>2. entry'.baseline = entry.baseline
          /\ entry'.revisions = [entry.revisions EXCEPT ![frame.key] = frame.seq]
      BY <1>1, <3>1 DEF EntryType
    <3>3. entry.revisions \in [Keys -> Seqs] /\ frame.seq >= Mark(entry, frame.key)
      BY <1>1, <2>4 DEF EntryType, IsNews
    <3>4. CASE k = frame.key
      <4>1. entry'.revisions[k] = frame.seq
        BY <1>1, <3>2, <3>3, <3>4
      <4>2. Mark(entry', k) = frame.seq
        BY <2>2, <4>1 DEF Mark, NoSeq
      <4> QED BY <3>3, <3>4, <4>2
    <3>5. CASE k # frame.key
      <4>1. Mark(entry', k) = Mark(entry, k)
        BY <1>1, <3>2, <3>3, <3>5 DEF Mark
      <4> QED BY <1>1, <4>1
    <3> QED BY <3>4, <3>5
  <2>5. CASE frame.kind # "baseline" /\ ~(ready /\ IsNews(frame))
    <3>1. entry' = entry
      BY <1>4, <2>5 DEF ReceiveControl, ApplyUpdate, client
    <3> QED BY <1>2, <3>1
  <2> QED BY <2>3, <2>4, <2>5
<1>5. ~Reset
  BY DEF Reset, TypeOK
<1>6. (\E p \in Keys, value \in All : Change(p, value)) \/ Subscribe \/ Follow \/ Unreadable \/ View
      => entry' = entry
  BY DEF Change, Subscribe, Follow, Unreadable, View, client
<1> QED BY <1>2, <1>3, <1>4, <1>5, <1>6 DEF Next

\* Within a generation nothing late takes a projection back to an older record.
THEOREM NoKeyGoesBack == Spec => NeverOlder
<1>1. IInv /\ [Next]_vars
      => [ resets' = resets => \A k \in Retained : Mark(entry', k) >= Mark(entry, k) ]_vars
  <2> SUFFICES ASSUME IInv, Next, resets' = resets, NEW k \in Retained
               PROVE  Mark(entry', k) >= Mark(entry, k)
    OBVIOUS
  <2> QED BY NoStepGoesBack
<1> QED BY <1>1, ProjectionsInvariant, PTL DEF Spec, NeverOlder

-----------------------------------------------------------------------------
(* Another session's output.                                              *)

\* The fields of the view and of its streams.
PeekStates == PeekView \cup {NothingOnView}
PeekRecords(pending) ==
    [open : 0 .. MaxOpens, pending : pending, sub : 0 .. 2, state : PeekStates]

PeekFields ==
    /\ peek \in PeekRecords(0 .. 1)
    /\ peeks \subseteq [open : 1 .. MaxOpens, form : 1 .. 2, of : Sources, live : BOOLEAN]

\* A loop runs in the conversation the reader is at, or was at last, and a view is
\* that conversation's.
LoopIsHome ==
    loop # None => /\ selected \in {None, loop}
                   /\ peekId # None /\ home # None => home = loop

\* An open stream is of the session whose state is kept, and that one is on view unless
\* a local run took the view over.
StreamFeeds == \A s \in peeks : peek.state.of = s.of /\ (peekId # Run => s.of = peekId)

PeekInv == PeekTypeOK /\ PeekFields /\ PeekHolds /\ LoopIsHome /\ StreamFeeds

\* A view's record, field by field, after a step that writes some of its fields.
Rewritten(p, x, y, z) == [p EXCEPT !.pending = x, !.sub = y, !.state = z]

LEMMA RewrittenFields ==
    ASSUME NEW forms, NEW p \in PeekRecords(forms), NEW x, NEW y, NEW z
    PROVE  Rewritten(p, x, y, z) = [open |-> p.open, pending |-> x, sub |-> y, state |-> z]
<1> DEFINE q == [p EXCEPT !.pending = x, !.sub = y, !.state = z]
           fields == {"open", "pending", "sub", "state"}
<1>0. PICK A, B, C, S : p \in [open : A, pending : B, sub : C, state : S]
  BY DEF PeekRecords
<1>1. DOMAIN q = fields /\ q = [f \in DOMAIN q |-> q[f]]
  BY <1>0
<1>2. q.open = p.open /\ q.pending = x /\ q.sub = y /\ q.state = z
  BY <1>0
<1>3. Rewritten(p, x, y, z) = q BY DEF Rewritten
<1> HIDE DEF q
<1> QED BY <1>1, <1>2, <1>3

Opened(p, x, y) == [p EXCEPT !.open = x, !.pending = y]

LEMMA OpenedFields ==
    ASSUME NEW forms, NEW p \in PeekRecords(forms), NEW x, NEW y
    PROVE  Opened(p, x, y) = [open |-> x, pending |-> y, sub |-> p.sub, state |-> p.state]
<1> DEFINE q == [p EXCEPT !.open = x, !.pending = y]
           fields == {"open", "pending", "sub", "state"}
<1>0. PICK A, B, C, S : p \in [open : A, pending : B, sub : C, state : S]
  BY DEF PeekRecords
<1>1. DOMAIN q = fields /\ q = [f \in DOMAIN q |-> q[f]]
  BY <1>0
<1>2. q.open = x /\ q.pending = y /\ q.sub = p.sub /\ q.state = p.state
  BY <1>0
<1>3. Opened(p, x, y) = q BY DEF Opened
<1> HIDE DEF q
<1> QED BY <1>1, <1>2, <1>3

\* The record an open or a further form leaves behind.
LEMMA TriedFields ==
    ASSUME NEW p \in PeekRecords(1 .. 2), NEW of \in Sources, online \in BOOLEAN
    PROVE  /\ Tried(p, of) \in PeekRecords(0 .. 1)
           /\ Tried(p, of).open = p.open
           /\ Tried(p, of).state.of = of
           /\ Tried(p, of).state.ended = ~online
           /\ online => Tried(p, of).sub = p.pending
<1> DEFINE off == ~online
           state == [of |-> of, ended |-> off, error |-> off, records |-> "none"]
           sub == IF online THEN p.pending ELSE p.sub
<1>0. /\ p.open \in 0 .. MaxOpens /\ p.pending \in 1 .. 2 /\ p.sub \in 0 .. 2
  BY DEF PeekRecords
<1>1. off \in BOOLEAN OBVIOUS
<1>a. Tried(p, of) = Rewritten(p, p.pending - 1, sub, state)
  BY Zenon DEF Tried, Rewritten
<1>3. sub \in 0 .. 2 /\ (online => sub = p.pending) BY <1>0
<1> HIDE DEF off
<1>4. state \in PeekStates
  BY <1>1 DEF PeekView, PeekStates
<1>5. p.pending - 1 \in 0 .. 1 BY <1>0
<1>6. state.of = of /\ state.ended = off
  OBVIOUS
<1> HIDE DEF state, sub
<1>2. Tried(p, of) = [open |-> p.open, pending |-> p.pending - 1, sub |-> sub, state |-> state]
  BY <1>a, RewrittenFields
<1>7. /\ Tried(p, of) \in PeekRecords(0 .. 1)
      /\ Tried(p, of).open = p.open /\ Tried(p, of).state = state /\ Tried(p, of).sub = sub
  BY <1>0, <1>2, <1>3, <1>4, <1>5 DEF PeekRecords
<1> QED BY <1>3, <1>6, <1>7 DEF off

\* What was open is what close() cancels.
LEMMA NothingKept == ASSUME PeekHolds PROVE Kept = {}
  BY DEF PeekHolds, OneStream, Kept

LEMMA ClosedFields ==
    ASSUME PeekFields
    PROVE  /\ Closed \in PeekRecords(0 .. 1)
           /\ Closed.state = NothingOnView /\ Closed.open = peek.open
<1>1. NothingOnView \in PeekStates BY DEF PeekStates
<1>a. peek \in PeekRecords(0 .. 1) BY DEF PeekFields
<1>b. Closed = Rewritten(peek, 0, 0, NothingOnView)
  BY DEF Closed, Rewritten
<1>2. Closed = [open |-> peek.open, pending |-> 0, sub |-> 0, state |-> NothingOnView]
  BY <1>a, <1>b, RewrittenFields
<1>3. peek.open \in 0 .. MaxOpens BY DEF PeekFields, PeekRecords
<1> HIDE DEF NothingOnView
<1> QED BY <1>1, <1>2, <1>3 DEF PeekRecords

\* The part of the invariant that is not about the sources listed.
ViewInv ==
    /\ online \in BOOLEAN /\ drops \in 0 .. MaxDrops
    /\ selected \in Sessions \cup {None} /\ loop \in Sessions \cup {None}
    /\ peekId \in Sources \cup {None} /\ home \in Sessions \cup {None}
    /\ PeekFields /\ PeekHolds /\ LoopIsHome /\ StreamFeeds

SourcesInv ==
    /\ created \in Seq([id : Verifiers, running : BOOLEAN]) /\ Len(created) <= SourceLimit
    /\ judging \subseteq Verifiers

LEMMA PeekInvParts == PeekInv <=> ViewInv /\ SourcesInv
<1>1. ASSUME PeekFields
      PROVE  /\ peek.open \in 0 .. MaxOpens /\ peek.pending \in 0 .. 1
             /\ peek.state \in PeekView \cup {NothingOnView}
             /\ \A s \in peeks : s.open \in 1 .. MaxOpens /\ s.form \in 1 .. 2 /\ s.of \in Sources
  BY <1>1 DEF PeekFields, PeekRecords, PeekStates
<1> QED BY <1>1 DEF PeekInv, ViewInv, SourcesInv, PeekTypeOK

LEMMA PeekInitInv == PeekInit => PeekInv
<1> SUFFICES ASSUME PeekInit PROVE ViewInv /\ SourcesInv
  BY PeekInvParts
<1>1. PeekFields
  BY PeekAssumption DEF PeekInit, PeekFields, PeekRecords, PeekStates
<1>2. ViewInv
  BY <1>1, PeekAssumption
  DEF PeekInit, ViewInv, PeekHolds, OneStream, ViewStaysHome, ViewIsFed, LoopIsHome, StreamFeeds
<1>3. SourcesInv
  BY PeekAssumption DEF PeekInit, SourcesInv
<1> QED BY <1>2, <1>3

\* Closing leaves no stream.
LEMMA ShutCloses ==
    ASSUME ViewInv, Shut
    PROVE  /\ PeekFields' /\ peeks' = {} /\ peekId' = None /\ home' = None
<1>1. CASE peekId = None
  <2>1. peeks = {}
    BY <1>1 DEF ViewInv, PeekHolds, OneStream
  <2> QED BY <1>1, <2>1 DEF ViewInv, Shut, PeekFields
<1>2. CASE peekId # None
  <2>1. Kept = {} BY NothingKept DEF ViewInv
  <2>2. peek' = Closed /\ peeks' = {}
    BY <1>2, <2>1 DEF Shut
  <2>3. PeekFields'
    BY <2>2, ClosedFields DEF ViewInv, PeekFields
  <2> QED BY <2>2, <2>3 DEF Shut
<1> QED BY <1>1, <1>2

LEMMA ShutInv ==
    ASSUME ViewInv, Shut, UNCHANGED <<online, drops>>,
           selected' \in Sessions \cup {None}, loop' \in Sessions \cup {None},
           loop' # None => selected' \in {None, loop'}
    PROVE  ViewInv'
  BY ShutCloses
  DEF ViewInv, PeekHolds, OneStream, ViewStaysHome, ViewIsFed, LoopIsHome, StreamFeeds

LEMMA OpenPeekInv == ASSUME ViewInv, NEW id \in Sources, OpenPeek(id) PROVE ViewInv'
<1> DEFINE p == [Closed EXCEPT !.open = @ + 1, !.pending = Forms(id)]
<1>1. /\ peekId' = id /\ home' = selected /\ id # None
      /\ UNCHANGED <<online, selected, loop, drops>>
  BY PeekAssumption DEF OpenPeek
<1>2. CASE id = Run
  <2>1. UNCHANGED <<peek, peeks>> /\ id # None
    BY <1>2, <1>1 DEF OpenPeek
  <2> QED
    BY <1>1, <1>2, <2>1
    DEF ViewInv, PeekFields, PeekHolds, OneStream, ViewStaysHome, ViewIsFed, LoopIsHome, StreamFeeds
<1>3. CASE id # Run
  <2>1. peek.open < MaxOpens /\ peek' = Tried(p, id) /\ peeks' = Followed(p, id)
    BY <1>3, NothingKept DEF OpenPeek, ViewInv
  <2>2. /\ p \in PeekRecords(1 .. 2)
        /\ p.open = peek.open + 1 /\ p.open \in 1 .. MaxOpens
        /\ p.pending = Forms(id) /\ Forms(id) \in 1 .. 2
    <3>1. Forms(id) \in 1 .. 2 BY DEF Forms
    <3>2. Closed \in PeekRecords(0 .. 1) /\ Closed.open = peek.open
      BY ClosedFields DEF ViewInv
    <3>3. peek.open \in 0 .. MaxOpens /\ MaxOpens \in Nat
      BY PeekAssumption DEF ViewInv, PeekFields, PeekRecords
    <3>4. Closed.sub \in 0 .. 2 /\ Closed.state \in PeekStates
      BY <3>2 DEF PeekRecords
    <3>5. p = Opened(Closed, Closed.open + 1, Forms(id)) BY DEF Opened
    <3>6. p = [open |-> peek.open + 1, pending |-> Forms(id), sub |-> Closed.sub, state |-> Closed.state]
      BY <3>2, <3>5, OpenedFields
    <3> HIDE DEF p
    <3> QED BY <3>1, <3>3, <3>4, <3>6, <2>1 DEF PeekRecords
  <2> HIDE DEF p
  <2>4. /\ peek' \in PeekRecords(0 .. 1)
        /\ peek'.open = p.open
        /\ peek'.state.of = id /\ peek'.state.ended = ~online
        /\ online => peek'.sub = p.pending
    BY <2>1, <2>2, TriedFields DEF ViewInv
  <2>5. /\ peeks' \subseteq [open : 1 .. MaxOpens, form : 1 .. 2, of : Sources, live : BOOLEAN]
        /\ \A s \in peeks' : online /\ s = [open |-> p.open, form |-> p.pending, of |-> id, live |-> TRUE]
        /\ online => \E s \in peeks' : s.of = id
    <3>1. CASE online
      <4>1. peeks' = {[open |-> p.open, form |-> p.pending, of |-> id, live |-> TRUE]}
        BY <3>1, <2>1 DEF Followed
      <4> QED BY <3>1, <4>1, <2>2
    <3>2. CASE ~online
      BY <3>2, <2>1 DEF Followed
    <3> QED BY <3>1, <3>2
  <2>6. PeekFields' BY <2>4, <2>5 DEF PeekFields
  <2>7. OneStream'
    BY <2>4, <2>5, <1>1 DEF OneStream
  <2>8. ViewStaysHome' /\ LoopIsHome'
    BY <1>1 DEF ViewInv, ViewStaysHome, LoopIsHome
  <2>9. ViewIsFed' /\ StreamFeeds'
    BY <1>1, <2>4, <2>5 DEF ViewIsFed, StreamFeeds
  <2> QED BY <1>1, <2>6, <2>7, <2>8, <2>9 DEF ViewInv, PeekHolds
<1> QED BY <1>2, <1>3

\* A step that only writes the state keeps the rest of the view.
LEMMA StateWritten ==
    ASSUME PeekFields, NEW st \in PeekStates, peek' = [peek EXCEPT !.state = st]
    PROVE  /\ peek' \in PeekRecords(0 .. 1)
           /\ peek'.open = peek.open /\ peek'.sub = peek.sub /\ peek'.state = st
<1>1. PICK A, B, C : /\ A = 0 .. MaxOpens /\ B = 0 .. 1 /\ C = 0 .. 2
                    /\ peek \in [open : A, pending : B, sub : C, state : PeekStates]
  BY DEF PeekFields, PeekRecords
<1>2. /\ peek' \in [open : A, pending : B, sub : C, state : PeekStates]
      /\ peek'.open = peek.open /\ peek'.sub = peek.sub /\ peek'.state = st
  BY <1>1
<1> QED BY <1>1, <1>2 DEF PeekRecords

\* What a frame, an error and an end make of the state.
LEMMA StatesWritten ==
    ASSUME NEW st \in PeekView, NEW e \in BOOLEAN
    PROVE  /\ [st EXCEPT !.records = "some"] \in PeekView
           /\ [st EXCEPT !.records = "some"].of = st.of
           /\ [st EXCEPT !.records = "some"].ended = st.ended
           /\ [st EXCEPT !.ended = TRUE, !.error = e] \in PeekView
           /\ [st EXCEPT !.ended = TRUE, !.error = e].of = st.of
           /\ [st EXCEPT !.ended = TRUE, !.error = e].ended = TRUE
  BY DEF PeekView

\* A stream has the view it feeds.
LEMMA StreamHasState ==
    ASSUME ViewInv, NEW s \in peeks
    PROVE  /\ peek.state \in PeekView /\ peek.state.of = s.of
           /\ s.open = peek.open /\ s.form = peek.sub /\ peeks = {s} /\ peekId # None
           /\ s.open \in 1 .. MaxOpens /\ s.of \in Sources
<1>1. peek.state \in PeekStates /\ s.open \in 1 .. MaxOpens /\ s.of \in Sources
  BY DEF ViewInv, PeekFields, PeekRecords
<1>2. peek.state.of = s.of BY DEF ViewInv, StreamFeeds
<1>3. peek.state # NothingOnView
  BY <1>1, <1>2, PeekAssumption DEF NothingOnView
<1> QED
  BY <1>1, <1>2, <1>3 DEF ViewInv, PeekHolds, OneStream, PeekStates

LEMMA SeenInv ==
    ASSUME ViewInv, NEW st \in PeekView, st.of = peek.state.of,
           peek' = [peek EXCEPT !.state = st], peeks' \subseteq peeks,
           UNCHANGED <<online, selected, loop, peekId, home, drops>>,
           st.ended = TRUE \/ (peeks' = peeks /\ st.ended = peek.state.ended)
    PROVE  ViewInv'
<1>1. /\ peek' \in PeekRecords(0 .. 1)
      /\ peek'.open = peek.open /\ peek'.sub = peek.sub /\ peek'.state = st
  BY StateWritten DEF ViewInv, PeekStates
<1>2. PeekFields' BY <1>1 DEF ViewInv, PeekFields
<1>3. OneStream' BY <1>1 DEF ViewInv, PeekHolds, OneStream
<1>4. ViewStaysHome' /\ LoopIsHome' BY DEF ViewInv, PeekHolds, ViewStaysHome, LoopIsHome
<1>5. ViewIsFed' BY <1>1 DEF ViewInv, PeekHolds, ViewIsFed
<1>6. StreamFeeds' BY <1>1 DEF ViewInv, StreamFeeds
<1> QED BY <1>2, <1>3, <1>4, <1>5, <1>6 DEF ViewInv, PeekHolds

LEMMA FrameInv == ASSUME ViewInv, NEW s \in peeks, Frame(s) PROVE ViewInv'
<1> DEFINE st == [peek.state EXCEPT !.records = "some"]
<1>1. peek.state \in PeekView BY StreamHasState
<1>2. st \in PeekView /\ st.of = peek.state.of /\ st.ended = peek.state.ended
  BY <1>1, StatesWritten
<1>3. /\ peek' = [peek EXCEPT !.state = st] /\ peeks' = peeks
      /\ UNCHANGED <<online, selected, loop, peekId, home, drops>>
  BY DEF Frame, Seen
<1> HIDE DEF st
<1> QED BY <1>2, <1>3, SeenInv

LEMMA EndsInv ==
    ASSUME ViewInv, NEW s \in peeks, NEW e \in BOOLEAN, peeks' \subseteq peeks,
           peek' = [peek EXCEPT !.state = [peek.state EXCEPT !.ended = TRUE, !.error = e]],
           UNCHANGED <<online, selected, loop, peekId, home, drops>>
    PROVE  ViewInv'
<1> DEFINE st == [peek.state EXCEPT !.ended = TRUE, !.error = e]
<1>1. peek.state \in PeekView BY StreamHasState
<1>2. st \in PeekView /\ st.of = peek.state.of /\ st.ended = TRUE
  BY <1>1, StatesWritten
<1>3. peek' = [peek EXCEPT !.state = st]
  OBVIOUS
<1> HIDE DEF st
<1> QED BY <1>2, <1>3, SeenInv

LEMMA UnappliedInv == ASSUME ViewInv, NEW s \in peeks, Unapplied(s) \/ Invalid(s) PROVE ViewInv'
<1>1. /\ peek' = [peek EXCEPT !.state = [peek.state EXCEPT !.ended = TRUE, !.error = TRUE]]
      /\ peeks' \subseteq peeks
      /\ UNCHANGED <<online, selected, loop, peekId, home, drops>>
  BY DEF Unapplied, Invalid, Seen
<1> QED BY <1>1, EndsInv

\* The end of a stream: the next form is followed, or the view is over.
LEMMA EndedInv ==
    ASSUME ViewInv, NEW s \in peeks, NEW e \in BOOLEAN, Ended(s, e)
    PROVE  ViewInv'
<1>0. /\ peek.state.of = s.of /\ s.open = peek.open /\ peeks = {s} /\ peekId # None
      /\ s.open \in 1 .. MaxOpens /\ s.of \in Sources
  BY StreamHasState
<1>u. UNCHANGED <<online, selected, loop, created, judging, peekId, home, drops>>
  BY DEF Ended
<1>1. CASE TriesNext(e)
  <2>1. peek' = Tried(peek, s.of) /\ peeks' = Followed(peek, s.of)
    BY <1>0, <1>1 DEF Ended
  <2>2. peek \in PeekRecords(1 .. 2) /\ peek.pending \in 1 .. 2
    <3>1. peek.pending > 0 BY <1>1 DEF TriesNext
    <3>2. peek.pending \in 0 .. 1 BY DEF ViewInv, PeekFields, PeekRecords
    <3>3. peek.pending \in 1 .. 2 BY <3>1, <3>2
    <3> QED BY <3>3 DEF ViewInv, PeekFields, PeekRecords
  <2>3. /\ peek' \in PeekRecords(0 .. 1) /\ peek'.open = peek.open
        /\ peek'.state.of = s.of /\ peek'.state.ended = ~online
        /\ online => peek'.sub = peek.pending
    BY <1>0, <2>1, <2>2, TriedFields DEF ViewInv
  <2>4. /\ peeks' \subseteq [open : 1 .. MaxOpens, form : 1 .. 2, of : Sources, live : BOOLEAN]
        /\ \A t \in peeks' : online /\ t = [open |-> peek.open, form |-> peek.pending, of |-> s.of, live |-> TRUE]
        /\ online => \E t \in peeks' : t.of = s.of
    <3>1. CASE online
      <4>1. peeks' = {[open |-> peek.open, form |-> peek.pending, of |-> s.of, live |-> TRUE]}
        BY <3>1, <2>1 DEF Followed
      <4> QED BY <3>1, <4>1, <2>2, <1>0
    <3>2. CASE ~online
      BY <3>2, <2>1 DEF Followed
    <3> QED BY <3>1, <3>2
  <2>5. PeekFields' BY <2>3, <2>4 DEF PeekFields
  <2>6. OneStream' BY <1>0, <1>u, <2>3, <2>4 DEF OneStream
  <2>7. ViewStaysHome' /\ LoopIsHome'
    BY <1>u DEF ViewInv, PeekHolds, ViewStaysHome, LoopIsHome
  <2>8. peekId # Run => s.of = peekId BY DEF ViewInv, StreamFeeds
  <2>9. ViewIsFed' /\ StreamFeeds'
    BY <1>u, <2>3, <2>4, <2>8 DEF ViewIsFed, StreamFeeds
  <2> QED BY <1>u, <2>5, <2>6, <2>7, <2>9 DEF ViewInv, PeekHolds
<1>2. CASE ~TriesNext(e)
  <2>1. peek' = [peek EXCEPT !.state.ended = TRUE, !.state.error = e] /\ peeks' = peeks \ {s}
    BY <1>0, <1>2 DEF Ended
  <2>2. peek' = [peek EXCEPT !.state = [peek.state EXCEPT !.ended = TRUE, !.error = e]]
    BY <2>1 DEF ViewInv, PeekFields, PeekRecords
  <2> QED BY <1>u, <2>1, <2>2, EndsInv
<1> QED BY <1>1, <1>2

\* The end is reported to every stream before anything else happens.
LEMMA LostInv == ASSUME ViewInv, Lost PROVE ViewInv'
<1>1. /\ online' \in BOOLEAN /\ drops' \in 0 .. MaxDrops
      /\ UNCHANGED <<selected, loop, peekId, home, peek>>
  <2>1. drops < MaxDrops /\ drops \in 0 .. MaxDrops /\ MaxDrops \in Nat
    BY PeekAssumption DEF ViewInv, Lost
  <2>2. drops + 1 \in 0 .. MaxDrops BY <2>1
  <2>3. drops' = drops + 1 /\ online' = FALSE /\ UNCHANGED <<selected, loop, peekId, home, peek>>
    BY DEF Lost
  <2> QED BY <2>2, <2>3
<1>2. \A t \in peeks' : \E s \in peeks :
          /\ t.open = s.open /\ t.form = s.form /\ t.of = s.of /\ t = [s EXCEPT !.live = FALSE]
          /\ t \in [open : 1 .. MaxOpens, form : 1 .. 2, of : Sources, live : BOOLEAN]
  <2> SUFFICES ASSUME NEW s \in peeks, NEW t, t = [s EXCEPT !.live = FALSE]
               PROVE  /\ t.open = s.open /\ t.form = s.form /\ t.of = s.of
                      /\ t \in [open : 1 .. MaxOpens, form : 1 .. 2, of : Sources, live : BOOLEAN]
    BY DEF Lost
  <2>1. s \in [open : 1 .. MaxOpens, form : 1 .. 2, of : Sources, live : BOOLEAN]
    BY DEF ViewInv, PeekFields
  <2> QED BY <2>1
<1>3. \A t \in peeks' : t \in [open : 1 .. MaxOpens, form : 1 .. 2, of : Sources, live : BOOLEAN]
  BY <1>2
<1>4. \A s \in peeks : \E t \in peeks' : t.of = s.of
  <2> TAKE s \in peeks
  <2>1. s \in [open : 1 .. MaxOpens, form : 1 .. 2, of : Sources, live : BOOLEAN]
    BY DEF ViewInv, PeekFields
  <2> DEFINE t == [s EXCEPT !.live = FALSE]
  <2>2. t \in peeks' BY DEF Lost
  <2>3. t.of = s.of BY <2>1
  <2> QED BY <2>2, <2>3
<1>5. \A s, t \in peeks' : s = t
  BY <1>2 DEF ViewInv, PeekHolds, OneStream
<1>6. PeekFields' BY <1>1, <1>3 DEF ViewInv, PeekFields
<1>7. OneStream' BY <1>1, <1>2, <1>5 DEF ViewInv, PeekHolds, OneStream
<1>8. ViewStaysHome' /\ LoopIsHome' BY <1>1 DEF ViewInv, PeekHolds, ViewStaysHome, LoopIsHome
<1>9. ViewIsFed' BY <1>1, <1>4 DEF ViewInv, PeekHolds, ViewIsFed
<1>10. StreamFeeds' BY <1>1, <1>2 DEF ViewInv, StreamFeeds
<1> QED BY <1>1, <1>6, <1>7, <1>8, <1>9, <1>10 DEF ViewInv, PeekHolds

\* A step that leaves the view alone.
LEMMA AsideInv ==
    ASSUME ViewInv, UNCHANGED <<peekId, home, peek, peeks, drops>>, online' \in BOOLEAN,
           selected' \in Sessions \cup {None}, loop' \in Sessions \cup {None}, LoopIsHome',
           peekId # None /\ home # None /\ selected' # None => home = selected'
    PROVE  ViewInv'
  BY DEF ViewInv, PeekFields, PeekHolds, OneStream, ViewStaysHome, ViewIsFed, StreamFeeds

LEMMA SelectSessionInv ==
    ASSUME ViewInv, NEW session \in Sessions, SelectSession(session)
    PROVE  ViewInv'
<1>1. selected' = session /\ session # None /\ UNCHANGED <<online, drops>>
  BY PeekAssumption DEF SelectSession
<1>2. CASE Leaves(session)
  <2>1. Shut /\ loop' = None BY <1>2 DEF SelectSession
  <2> QED BY <1>1, <2>1, ShutInv
<1>3. CASE ~Leaves(session)
  <2>1. UNCHANGED <<loop, peekId, home, peek, peeks>> BY <1>3 DEF SelectSession
  <2>2. session = selected \/ session = loop BY <1>3 DEF Leaves
  <2>3. LoopIsHome'
    BY <1>1, <2>1, <2>2 DEF ViewInv, LoopIsHome
  <2>4. peekId # None /\ home # None => home = session
    BY <1>1, <2>2 DEF ViewInv, LoopIsHome, PeekHolds, ViewStaysHome
  <2> QED BY <1>1, <2>1, <2>3, <2>4, AsideInv DEF ViewInv
<1> QED BY <1>2, <1>3

\* No step of the reader, of the host or of the loop breaks what the view shows.
LEMMA PeekViewStep == ASSUME ViewInv, PeekNext PROVE ViewInv'
<1>1. ASSUME NEW id \in Sources, OpenPeek(id) PROVE ViewInv'
  BY <1>1, OpenPeekInv
<1>2. CASE ClosePeek
  <2>1. Shut /\ UNCHANGED <<online, drops, selected, loop>> BY <1>2 DEF ClosePeek
  <2> QED BY <2>1, ShutInv DEF ViewInv, LoopIsHome
<1>3. ASSUME NEW s \in peeks, Frame(s) \/ Unapplied(s) \/ Invalid(s) \/ HearsLost(s)
      PROVE  ViewInv'
  BY <1>3, FrameInv, UnappliedInv, EndedInv DEF HearsLost
<1>4. ASSUME NEW s \in peeks, NEW error \in BOOLEAN, HostEnds(s, error) PROVE ViewInv'
  BY <1>4, EndedInv DEF HostEnds
<1>5. CASE Lost BY <1>5, LostInv
<1>6. CASE Back
  BY <1>6, AsideInv DEF Back, ViewInv, PeekHolds, ViewStaysHome, LoopIsHome
<1>7. ASSUME NEW session \in Sessions, SelectSession(session) PROVE ViewInv'
  BY <1>7, SelectSessionInv
<1>8. CASE Deselect
  BY <1>8, AsideInv DEF Deselect, ViewInv, LoopIsHome
<1>9. CASE LoopTurns
  <2>1. LoopIsHome' /\ loop' \in Sessions \cup {None}
    BY <1>9 DEF LoopTurns, ViewInv, LoopIsHome, PeekHolds, ViewStaysHome
  <2> QED BY <1>9, <2>1, AsideInv DEF LoopTurns, ViewInv, PeekHolds, ViewStaysHome
<1>10. ASSUME NEW v \in Verifiers, CreateVerifier(v) \/ CancelVerifier(v) \/ Judged(v)
       PROVE  ViewInv'
  BY <1>10, AsideInv
  DEF CreateVerifier, CancelVerifier, Judged, ViewInv, PeekHolds, ViewStaysHome, LoopIsHome
<1> QED BY <1>1, <1>2, <1>3, <1>4, <1>5, <1>6, <1>7, <1>8, <1>9, <1>10 DEF PeekNext

\* The list of sources keeps its bound: beyond the limit the oldest goes.
LEMMA SourcesStep == ASSUME SourcesInv, PeekNext PROVE SourcesInv'
<1>1. ASSUME NEW v \in Verifiers, CreateVerifier(v) PROVE SourcesInv'
  <2> DEFINE row == [id |-> v, running |-> TRUE]
             all == Append(created, row)
  <2>0. row \in [id : Verifiers, running : BOOLEAN] OBVIOUS
  <2> HIDE DEF row
  <2>1. /\ all \in Seq([id : Verifiers, running : BOOLEAN])
        /\ Len(all) = Len(created) + 1 /\ all # <<>>
    BY <2>0 DEF SourcesInv
  <2>2. /\ Tail(all) \in Seq([id : Verifiers, running : BOOLEAN])
        /\ Len(Tail(all)) = Len(all) - 1
    BY <2>1, HeadTailProperties
  <2>3. created' = IF Len(all) > SourceLimit THEN Tail(all) ELSE all
    BY <1>1 DEF CreateVerifier, row
  <2> HIDE DEF all
  <2>4. Len(created) \in Nat /\ SourceLimit \in Nat
    BY PeekAssumption DEF SourcesInv
  <2>5. created' \in Seq([id : Verifiers, running : BOOLEAN]) /\ Len(created') <= SourceLimit
    BY <2>1, <2>2, <2>3, <2>4 DEF SourcesInv
  <2>6. judging' \subseteq Verifiers
    BY <1>1 DEF CreateVerifier, SourcesInv
  <2> QED BY <2>5, <2>6 DEF SourcesInv
<1>2. ASSUME NEW v \in Verifiers, CancelVerifier(v) PROVE SourcesInv'
  <2> DEFINE R == [id : Verifiers, running : BOOLEAN]
  <2>1. created \in Seq(R) BY DEF SourcesInv
  <2> HIDE DEF R
  <2>2. /\ DOMAIN created = 1 .. Len(created) /\ Len(created) \in Nat
        /\ \A i \in 1 .. Len(created) : created[i] \in R
    BY <2>1
  <2>3. \A i \in 1 .. Len(created) : [created[i] EXCEPT !.running = FALSE] \in R
    BY <2>2 DEF R
  <2>4. created' = [i \in 1 .. Len(created) |->
                      IF created[i].id = v THEN [created[i] EXCEPT !.running = FALSE] ELSE created[i]]
    BY <1>2, <2>2 DEF CancelVerifier
  <2>5. created' \in [1 .. Len(created) -> R]
    BY <2>2, <2>3, <2>4
  <2>6. created' \in Seq(R) /\ Len(created') = Len(created)
    BY <2>2, <2>5
  <2>7. judging' \subseteq Verifiers
    BY <1>2 DEF CancelVerifier, SourcesInv
  <2> QED BY <2>6, <2>7 DEF SourcesInv, R
<1>3. ASSUME UNCHANGED created, judging' \subseteq judging PROVE SourcesInv'
  BY <1>3 DEF SourcesInv
<1>4. CASE \E id \in Sources : OpenPeek(id)
  BY <1>3, <1>4 DEF OpenPeek
<1>5. CASE \E s \in peeks : Frame(s) \/ Unapplied(s) \/ Invalid(s) \/ HearsLost(s)
  BY <1>3, <1>5 DEF Frame, Unapplied, Invalid, HearsLost, Ended, Seen
<1>6. CASE \E s \in peeks, error \in BOOLEAN : HostEnds(s, error)
  BY <1>3, <1>6 DEF HostEnds, Ended
<1>7. CASE ClosePeek \/ Lost \/ Back \/ Deselect \/ LoopTurns
  BY <1>3, <1>7 DEF ClosePeek, Lost, Back, Deselect, LoopTurns
<1>8. CASE \E session \in Sessions : SelectSession(session)
  BY <1>3, <1>8 DEF SelectSession
<1>9. ASSUME NEW v \in Verifiers, Judged(v) PROVE SourcesInv'
  BY <1>3, <1>9 DEF Judged
<1> QED BY <1>1, <1>2, <1>4, <1>5, <1>6, <1>7, <1>8, <1>9 DEF PeekNext

LEMMA PeekStepInv == PeekInv /\ [PeekNext]_peekVars => PeekInv'
<1> SUFFICES ASSUME PeekInv, [PeekNext]_peekVars PROVE (ViewInv /\ SourcesInv)'
  BY PeekInvParts, PTL
<1>0. ViewInv /\ SourcesInv BY PeekInvParts
<1>1. CASE PeekNext BY <1>0, <1>1, PeekViewStep, SourcesStep
<1>2. CASE UNCHANGED peekVars
  BY <1>0, <1>2
  DEF peekVars, ViewInv, SourcesInv, PeekFields, PeekHolds, OneStream, ViewStaysHome, ViewIsFed,
      LoopIsHome, StreamFeeds
<1> QED BY <1>1, <1>2

\* The view, its source, its stream and the list of sources keep their types.
THEOREM PeekTypeCorrect == PeekSpec => []PeekTypeOK
<1>1. PeekInv => PeekTypeOK BY DEF PeekInv
<1> QED BY <1>1, PeekInitInv, PeekStepInv, PTL DEF PeekSpec

\* The view of another session keeps one stream at most, the one that close() would cancel;
\* it is shown in no conversation but the one it was opened in; and what it shows came from
\* the session it names, called live only while its stream is open.
THEOREM PeekIsSafe == PeekSpec => []PeekHolds
<1>1. PeekInv => PeekHolds BY DEF PeekInv
<1> QED BY <1>1, PeekInitInv, PeekStepInv, PTL DEF PeekSpec

-----------------------------------------------------------------------------
(* The host's catalog.                                                     *)

Asked(r) == r.gen = gen /\ r.revision = revision

\* One read belongs to a refresh, and none is of a refresh to come.
ReadsAreCounted ==
    /\ \A r \in reads : r.revision <= revision /\ r.gen <= gen
    /\ \A r, q \in reads : r.revision = q.revision => r = q
    /\ connected => gen >= 1

\* Unless a change is yet to be announced or was missed, the model shown is the host's, or
\* the newest refresh will bring it.
ModelIsAsked ==
    connected /\ ~aborted /\ ~invalidated /\ ~missed /\ select # "accepted" =>
        \/ \E r \in reads : Asked(r) /\ r.version \in {Unread, version, Failed}
        \/ (\A r \in reads : ~Asked(r)) /\ model \in {version, Failed}

\* What was read is no newer than the host's catalog, and what the newest refresh has
\* read is no older than the model shown.
VersionsGrow ==
    /\ model <= MaxVersions => model <= version
    /\ \A r \in reads : r.version <= MaxVersions =>
           /\ r.version <= version
           /\ Asked(r) /\ model <= MaxVersions => model <= r.version

CatalogInv == CatalogTypeOK /\ ReadsAreCounted /\ ModelIsAsked /\ VersionsGrow

USE CatalogAssumption

LEMMA CatalogInitInv == CatalogInit => CatalogInv
<1> SUFFICES ASSUME CatalogInit PROVE CatalogInv
  OBVIOUS
<1>1. CatalogTypeOK
  <2>1. /\ version \in 0 .. MaxVersions /\ gen \in 0 .. MaxGens /\ revision \in 0 .. MaxReads
        /\ reads \subseteq Reads /\ model \in 0 .. MaxVersions + 3
        /\ presetClient \in 0 .. MaxGens /\ presets \in 0 .. MaxGens /\ presetRead \in SUBSET (1 .. MaxGens)
    BY DEF CatalogInit, NothingShown
  <2>2. invalidated \in BOOLEAN /\ connected \in BOOLEAN /\ aborted \in BOOLEAN /\ missed \in BOOLEAN
    BY Zenon DEF CatalogInit
  <2> QED BY <2>1, <2>2 DEF CatalogInit, CatalogTypeOK
<1>2. ReadsAreCounted /\ ModelIsAsked BY DEF CatalogInit, ReadsAreCounted, ModelIsAsked
<1>3. VersionsGrow BY DEF CatalogInit, VersionsGrow, NothingShown
<1> QED BY <1>1, <1>2, <1>3 DEF CatalogInv

\* What every read is.
LEMMA ReadFields ==
    ASSUME CatalogTypeOK, NEW r \in reads
    PROVE  /\ r.revision \in 1 .. MaxReads /\ r.gen \in 1 .. MaxGens
           /\ r.version \in 0 .. MaxVersions + 2
           /\ r = [revision |-> r.revision, gen |-> r.gen, version |-> r.version]
  BY DEF CatalogTypeOK, Reads

\* A refresh is the newest, and supersedes those before it: g is the generation it is in.
LEMMA NewRead ==
    ASSUME CatalogInv, NEW g \in 1 .. MaxGens, gen <= g, revision < MaxReads,
           revision' = revision + 1, gen' = g,
           reads' = reads \cup {[revision |-> revision + 1, gen |-> g, version |-> Unread]},
           UNCHANGED version,
           model' = model \/ model' = NothingShown
    PROVE  /\ revision' \in 0 .. MaxReads /\ reads' \subseteq Reads
           /\ ReadsAreCounted' /\ ModelIsAsked' /\ VersionsGrow'
<1> DEFINE n == [revision |-> revision + 1, gen |-> g, version |-> Unread]
<1>0. revision \in 0 .. MaxReads /\ gen \in 0 .. MaxGens BY DEF CatalogInv, CatalogTypeOK
<1>1. n.revision = revision' /\ n.gen = gen' /\ n.version = Unread /\ n \in reads' /\ n \in Reads
  BY <1>0 DEF Reads, Unread
<1>2. \A r \in reads' : r \in reads \/ r = n OBVIOUS
<1> HIDE DEF n
<1>3. \A r \in reads : r.revision < revision' /\ r.gen <= gen' /\ r # n
  BY <1>0, <1>1, ReadFields DEF CatalogInv, ReadsAreCounted
<1>4. revision' \in 0 .. MaxReads /\ reads' \subseteq Reads
  BY <1>0, <1>1, <1>2 DEF CatalogInv, CatalogTypeOK
<1>5. ReadsAreCounted'
  <2>1. \A r \in reads' : r.revision <= revision' /\ r.gen <= gen'
    BY <1>0, <1>1, <1>2, <1>3, ReadFields DEF CatalogInv
  <2>2. \A r, q \in reads' : r.revision = q.revision => r = q
    BY <1>0, <1>1, <1>2, <1>3, ReadFields DEF CatalogInv, ReadsAreCounted
  <2>3. gen' >= 1 OBVIOUS
  <2> QED BY <2>1, <2>2, <2>3 DEF ReadsAreCounted
<1>6. ModelIsAsked'
  BY <1>1 DEF ModelIsAsked, Asked
<1>7. VersionsGrow'
  <2>1. \A r \in reads : ~Asked(r)'
    BY <1>0, <1>3, ReadFields DEF Asked, CatalogInv
  <2> QED
    BY <1>1, <1>2, <2>1 DEF VersionsGrow, Unread, NothingShown, CatalogInv
<1> QED BY <1>4, <1>5, <1>6, <1>7

\* A step that asks for nothing, reads nothing and shows nothing.
LEMMA NoRead ==
    ASSUME CatalogInv, UNCHANGED <<gen, revision, reads, model>>, version' \in 0 .. MaxVersions,
           version' >= version, connected' => gen >= 1,
           \/ ~connected' \/ aborted' \/ invalidated' \/ missed' \/ select' = "accepted"
           \/ /\ version' = version /\ connected /\ ~aborted /\ ~invalidated /\ ~missed
              /\ select # "accepted"
    PROVE  ReadsAreCounted' /\ ModelIsAsked' /\ VersionsGrow'
<1>1. ReadsAreCounted' BY DEF CatalogInv, ReadsAreCounted
<1>2. ModelIsAsked' BY DEF CatalogInv, ModelIsAsked, Asked
<1>3. VersionsGrow'
  <2>1. version \in 0 .. MaxVersions /\ model \in 0 .. MaxVersions + 3
    BY DEF CatalogInv, CatalogTypeOK
  <2> QED BY <2>1, ReadFields DEF CatalogInv, VersionsGrow, Asked
<1> QED BY <1>1, <1>2, <1>3

LEMMA BeginInv == ASSUME CatalogInv, Begin PROVE CatalogInv'
<1>1. gen \in 0 .. MaxGens /\ gen < MaxGens /\ gen' = gen + 1
  BY DEF Begin, CatalogInv, CatalogTypeOK
<1>2. gen + 1 \in 1 .. MaxGens /\ gen <= gen + 1 BY <1>1
<1>3. /\ revision' \in 0 .. MaxReads /\ reads' \subseteq Reads
      /\ ReadsAreCounted' /\ ModelIsAsked' /\ VersionsGrow'
  BY <1>2, NewRead DEF Begin
<1>4. CatalogTypeOK'
  <2>1. model' \in 0 .. MaxVersions + 3 BY DEF Begin, NothingShown
  <2>2. gen' \in 0 .. MaxGens /\ presetClient' \in 0 .. MaxGens /\ presets' \in 0 .. MaxGens
    BY <1>1, <1>2 DEF Begin
  <2>3. /\ invalidated' \in BOOLEAN /\ connected' \in BOOLEAN /\ aborted' \in BOOLEAN
        /\ missed' \in BOOLEAN /\ select' \in {"none", "sent", "accepted"}
    BY Zenon DEF Begin
  <2>4. UNCHANGED <<version, presetRead>> BY DEF Begin
  <2> QED BY <1>3, <2>1, <2>2, <2>3, <2>4 DEF CatalogInv, CatalogTypeOK
<1> QED BY <1>3, <1>4 DEF CatalogInv

\* A change that is announced, or a selection that stays, asks again.
LEMMA RefreshInv ==
    ASSUME CatalogInv, Refresh, connected, revision < MaxReads,
           UNCHANGED <<version, conn, model, roster>>,
           invalidated' \in BOOLEAN, select' \in {"none", "sent", "accepted"}, missed' \in BOOLEAN
    PROVE  CatalogInv'
<1>1. gen \in 1 .. MaxGens /\ gen' = gen /\ connected' = connected /\ aborted' = aborted
  BY DEF conn, CatalogInv, CatalogTypeOK, ReadsAreCounted
<1>2. CASE ~aborted
  <2>1. /\ revision' \in 0 .. MaxReads /\ reads' \subseteq Reads
        /\ ReadsAreCounted' /\ ModelIsAsked' /\ VersionsGrow'
    BY <1>1, <1>2, NewRead DEF Refresh, Refreshed
  <2>2. CatalogTypeOK'
    BY <2>1 DEF CatalogInv, CatalogTypeOK, conn, roster
  <2> QED BY <2>1, <2>2 DEF CatalogInv
<1>3. CASE aborted
  <2>1. UNCHANGED <<revision, reads>> BY <1>3 DEF Refresh
  <2>2. version \in 0 .. MaxVersions BY DEF CatalogInv, CatalogTypeOK
  <2>3. ReadsAreCounted' /\ ModelIsAsked' /\ VersionsGrow'
    BY <1>1, <1>3, <2>1, <2>2, NoRead
  <2>4. CatalogTypeOK'
    BY <2>1 DEF CatalogInv, CatalogTypeOK, conn, roster
  <2> QED BY <2>3, <2>4 DEF CatalogInv
<1> QED BY <1>2, <1>3

\* The host reads its catalog for a request, or refuses it.
LEMMA ReadingInv ==
    ASSUME CatalogInv, NEW r \in reads, NEW ok \in BOOLEAN, Reading(r, ok)
    PROVE  CatalogInv'
<1> DEFINE v == IF ok THEN version ELSE Failed
           n == [r EXCEPT !.version = v]
<1>0. /\ version \in 0 .. MaxVersions /\ model \in 0 .. MaxVersions + 3
      /\ r \in Reads /\ r.version = Unread
  BY DEF CatalogInv, CatalogTypeOK, Reading
<1>1. v \in 0 .. MaxVersions + 2 /\ v \in {version, Failed} BY <1>0 DEF Failed
<1>2. /\ reads' = (reads \ {r}) \cup {n}
      /\ UNCHANGED <<version, invalidated, connected, gen, aborted, revision, model, presetClient,
                     presets, presetRead, select, missed>>
  BY DEF Reading, hostCatalog, conn, roster, choice
<1> HIDE DEF v
<1>3. n \in Reads /\ n.revision = r.revision /\ n.gen = r.gen /\ n.version = v
  BY <1>0, <1>1 DEF Reads
<1> HIDE DEF n
<1>4. CatalogTypeOK'
  BY <1>2, <1>3 DEF CatalogInv, CatalogTypeOK
<1>5. ReadsAreCounted'
  BY <1>2, <1>3 DEF CatalogInv, ReadsAreCounted
<1>6. ModelIsAsked'
  BY <1>0, <1>1, <1>2, <1>3 DEF CatalogInv, ModelIsAsked, Asked
<1>7. VersionsGrow'
  <2>1. \A q \in reads' : q \in reads \/ q = n BY <1>2
  <2>2. v <= MaxVersions => v = version BY <1>0, <1>1 DEF Failed
  <2> QED BY <1>0, <1>2, <1>3, <2>1, <2>2, ReadFields DEF CatalogInv, VersionsGrow, Asked
<1> QED BY <1>4, <1>5, <1>6, <1>7 DEF CatalogInv

\* Only the answer of the newest refresh is shown.
LEMMA ArrivesInv == ASSUME CatalogInv, NEW r \in reads, Arrives(r) PROVE CatalogInv'
<1>0. /\ version \in 0 .. MaxVersions /\ model \in 0 .. MaxVersions + 3
      /\ r.version \in 0 .. MaxVersions + 2
  BY ReadFields DEF CatalogInv, CatalogTypeOK
<1>1. /\ reads' = reads \ {r}
      /\ UNCHANGED <<version, invalidated, connected, gen, aborted, revision, presetClient,
                     presets, presetRead, select, missed>>
  BY DEF Arrives, hostCatalog, conn, roster, choice
<1>2. ReadsAreCounted'
  BY <1>1 DEF CatalogInv, ReadsAreCounted
<1>3. CASE Newest(r)
  <2>1. model' = r.version /\ Asked(r) /\ r.version # Unread
    BY <1>3 DEF Arrives, Newest, Asked
  <2>2. \A q \in reads' : ~Asked(q)
    BY <1>1, <2>1 DEF CatalogInv, ReadsAreCounted, Asked
  <2>3. CatalogTypeOK' BY <1>0, <1>1, <2>1 DEF CatalogInv, CatalogTypeOK
  <2>4. ModelIsAsked'
    BY <1>1, <2>1, <2>2 DEF CatalogInv, ModelIsAsked, ReadsAreCounted, Asked
  <2>5. VersionsGrow'
    BY <1>0, <1>1, <2>1, <2>2 DEF CatalogInv, VersionsGrow, Asked
  <2> QED BY <1>2, <2>3, <2>4, <2>5 DEF CatalogInv
<1>4. CASE ~Newest(r)
  <2>1. model' = model BY <1>4 DEF Arrives
  <2>2. CatalogTypeOK' BY <1>1, <2>1 DEF CatalogInv, CatalogTypeOK
  <2>3. ModelIsAsked'
    BY <1>1, <1>4, <2>1 DEF CatalogInv, ModelIsAsked, Asked, Newest
  <2>4. VersionsGrow'
    BY <1>1, <2>1 DEF CatalogInv, VersionsGrow, Asked
  <2> QED BY <1>2, <2>2, <2>3, <2>4 DEF CatalogInv
<1> QED BY <1>3, <1>4

\* The steps that neither ask, read nor show.
LEMMA OtherCatalogInv ==
    ASSUME CatalogInv,
           \/ Down \/ CloseCatalog \/ Changes \/ LoadPresetNames \/ SelectModel \/ SelectTaken
           \/ SelectFails \/ UNCHANGED catalogVars \/ \E g \in presetRead : PresetsArrive(g)
    PROVE  CatalogInv'
<1>0. version \in 0 .. MaxVersions BY DEF CatalogInv, CatalogTypeOK
<1>1. CASE Down \/ CloseCatalog
  <2>1. /\ UNCHANGED <<version, invalidated, gen, revision, reads, model, presetClient, presets,
                       presetRead, select, missed>>
        /\ connected' \in BOOLEAN /\ aborted' \in BOOLEAN /\ (~connected' \/ aborted')
        /\ connected' => connected
    <3>1. CASE Down
      BY <3>1, Zenon DEF Down, CatalogInv, CatalogTypeOK, hostCatalog, roster, choice
    <3>2. CASE CloseCatalog
      BY <3>2, Zenon DEF CloseCatalog, CatalogInv, CatalogTypeOK, hostCatalog, roster, choice
    <3> QED BY <1>1, <3>1, <3>2
  <2>2. CatalogTypeOK' BY <2>1 DEF CatalogInv, CatalogTypeOK
  <2>3. connected' => gen >= 1 BY <2>1 DEF CatalogInv, ReadsAreCounted
  <2>4. version' \in 0 .. MaxVersions /\ version' >= version BY <1>0, <2>1
  <2> QED BY <2>1, <2>2, <2>3, <2>4, NoRead DEF CatalogInv
<1>2. CASE Changes
  <2>1. version' \in 0 .. MaxVersions /\ version' >= version BY <1>0, <1>2 DEF Changes
  <2> QED
    BY <1>0, <1>2, <2>1, NoRead
    DEF Changes, CatalogInv, CatalogTypeOK, ReadsAreCounted, conn, roster, choice
<1>3. CASE LoadPresetNames
  <2>1. connected /\ gen \in 1 .. MaxGens
    BY <1>3 DEF LoadPresetNames, CatalogInv, CatalogTypeOK, ReadsAreCounted
  <2> QED
    BY <1>0, <1>3, <2>1, NoRead
    DEF LoadPresetNames, CatalogInv, CatalogTypeOK, ReadsAreCounted, hostCatalog, conn, choice
<1>4. ASSUME NEW g \in presetRead, PresetsArrive(g) PROVE CatalogInv'
  <2>1. g \in 1 .. MaxGens BY DEF CatalogInv, CatalogTypeOK
  <2> QED
    BY <1>0, <1>4, <2>1, NoRead
    DEF PresetsArrive, CatalogInv, CatalogTypeOK, ReadsAreCounted, hostCatalog, conn, choice
<1>5. CASE SelectModel
  BY <1>0, <1>5, NoRead
  DEF SelectModel, CatalogInv, CatalogTypeOK, ReadsAreCounted, hostCatalog, conn, roster
<1>6. CASE SelectTaken
  <2>1. version' \in 0 .. MaxVersions /\ version' >= version BY <1>0, <1>6 DEF SelectTaken
  <2> QED
    BY <1>0, <1>6, <2>1, NoRead
    DEF SelectTaken, CatalogInv, CatalogTypeOK, ReadsAreCounted, conn, roster
<1>7. CASE SelectFails
  BY <1>0, <1>7, NoRead
  DEF SelectFails, CatalogInv, CatalogTypeOK, ReadsAreCounted, hostCatalog, conn, roster
<1>8. CASE UNCHANGED catalogVars
  BY <1>0, <1>8, NoRead DEF catalogVars, CatalogInv, CatalogTypeOK, ReadsAreCounted
<1> QED BY <1>1, <1>2, <1>3, <1>4, <1>5, <1>6, <1>7, <1>8

LEMMA SelectAnsweredInv ==
    ASSUME CatalogInv, NEW stays \in BOOLEAN, SelectAnswered(stays)
    PROVE  CatalogInv'
<1>1. CASE stays
  BY <1>1, RefreshInv
  DEF SelectAnswered, Selected, hostCatalog, CatalogInv, CatalogTypeOK
<1>2. CASE ~stays
  <2>1. version \in 0 .. MaxVersions BY DEF CatalogInv, CatalogTypeOK
  <2> QED
    BY <1>2, <2>1, NoRead
    DEF SelectAnswered, Selected, hostCatalog, conn, roster, CatalogInv, CatalogTypeOK, ReadsAreCounted
<1> QED BY <1>1, <1>2

LEMMA CatalogStepInv == CatalogInv /\ [CatalogNext]_catalogVars => CatalogInv'
<1> SUFFICES ASSUME CatalogInv, [CatalogNext]_catalogVars PROVE CatalogInv'
  OBVIOUS
<1>1. CASE Begin BY <1>1, BeginInv
<1>2. CASE Invalidated
  BY <1>2, RefreshInv DEF Invalidated, choice, CatalogInv, CatalogTypeOK
<1>3. ASSUME NEW r \in reads, Arrives(r) \/ \E ok \in BOOLEAN : Reading(r, ok) PROVE CatalogInv'
  BY <1>3, ArrivesInv, ReadingInv
<1>4. ASSUME NEW stays \in BOOLEAN, SelectAnswered(stays) PROVE CatalogInv'
  BY <1>4, SelectAnsweredInv
<1> QED BY <1>1, <1>2, <1>3, <1>4, OtherCatalogInv DEF CatalogNext

\* The host's catalog, its reads and what is shown keep their types.
THEOREM CatalogTypeCorrect == CatalogSpec => []CatalogTypeOK
<1>1. CatalogInv => CatalogTypeOK BY DEF CatalogInv
<1> QED BY <1>1, CatalogInitInv, CatalogStepInv, PTL DEF CatalogSpec

\* However the requests overtake one another, once they have answered the model shown is
\* the one the host has, or the error of the newest of them.
THEOREM CatalogSettled == CatalogSpec => []CatalogSettles
<1>1. CatalogInv => CatalogSettles
  BY DEF CatalogInv, ModelIsAsked, CatalogSettles, Newest, Asked
<1> QED BY <1>1, CatalogInitInv, CatalogStepInv, PTL DEF CatalogSpec

\* Within a generation no older model replaces the one shown, and nothing asked of an
\* earlier generation is shown.
THEOREM CatalogMovedOn == CatalogSpec => CatalogMovesOn
<1>1. ASSUME CatalogInv, NEW r \in reads, Arrives(r), gen' = gen,
             model \in 0 .. MaxVersions, model' \in 0 .. MaxVersions
      PROVE  model' >= model
  BY <1>1 DEF Arrives, Newest, CatalogInv, VersionsGrow, Asked
<1>b. ASSUME CatalogInv, gen' = gen PROVE ~Begin
  <2>1. gen \in Nat BY <1>b DEF CatalogInv, CatalogTypeOK
  <2> QED BY <1>b, <2>1 DEF Begin
<1>2. ASSUME CatalogNext, ~Begin, ~\E r \in reads : Arrives(r)
      PROVE  model' = model
  BY <1>2
  DEF CatalogNext, Down, CloseCatalog, Changes, Invalidated, Reading,
      LoadPresetNames, PresetsArrive, SelectModel, SelectTaken, SelectFails, SelectAnswered
<1>3. ASSUME CatalogNext, ~Begin
      PROVE  presets' \in {presets, gen}
  BY <1>3
  DEF CatalogNext, Down, CloseCatalog, Changes, Invalidated, Reading, Arrives,
      LoadPresetNames, PresetsArrive, SelectModel, SelectTaken, SelectFails, SelectAnswered, roster
<1>4. CatalogInv /\ [CatalogNext]_catalogVars =>
        [gen' = gen =>
          /\ model \in 0 .. MaxVersions /\ model' \in 0 .. MaxVersions => model' >= model
          /\ presets' \in {presets, gen}]_catalogVars
  BY <1>1, <1>b, <1>2, <1>3 DEF catalogVars
<1> QED BY <1>4, CatalogInitInv, CatalogStepInv, PTL DEF CatalogSpec, CatalogMovesOn
=============================================================================
