--------------------------- MODULE Reading_proofs ---------------------------
(***************************************************************************)
(* What is on screen is of the selected session and within reach, for any  *)
(* sessions, streams, page sizes and limits.                               *)
(***************************************************************************)
EXTENDS Reading, FiniteSetTheorems, SequenceTheorems, TLAPS

-----------------------------------------------------------------------------
(* The frames of one session, f, as functions of how many were sent.       *)

CountOf(f, p, kinds) == Cardinality({i \in 1 .. p : f[i] \in kinds})
LoggedOf(s, f, p) == Past[s] + CountOf(f, p, {"record"})
SentOf(f, p) == CountOf(f, p, {"start", "chunk", "end"})
StartsOf(f, p) == CountOf(f, p, {"start"})

MarksOf(f, p) == {0} \cup {i \in 1 .. p : f[i] \in {"start", "end"}}
MarkOf(f, p) == Max(MarksOf(f, p))
ActiveOf(f, p) == MarkOf(f, p) > 0 /\ f[MarkOf(f, p)] = "start"
ChunksOf(f, p) == IF ActiveOf(f, p)
                  THEN Cardinality({i \in MarkOf(f, p) .. p : f[i] = "chunk"}) ELSE 0

\* Chunks and ends are of an attempt that is active when they are sent.
Proper(f) ==
    /\ f \in Seq(Frames)
    /\ \A i \in 1 .. Len(f) : f[i] \in {"chunk", "end"} => ActiveOf(f, i - 1)

-----------------------------------------------------------------------------
(* The invariant.                                                          *)

TranscriptFields ==
    [events : SUBSET (Sessions \X (Nat \ {0})), oldest : Nat, through : Nat,
     cursor : Nat, hasMore : BOOLEAN, ready : BOOLEAN]

\* A transcript is of one session, and its two ends are those of what it holds; it
\* asks for more as long as the first record is not loaded.
Bounded(t, s) ==
    /\ t \in TranscriptFields
    /\ \A r \in t.events : r[1] = s /\ t.oldest <= r[2] /\ r[2] <= t.through
    /\ t.events # {} => <<s, t.oldest>> \in t.events
    /\ t.events = {} => t.oldest = 0

Whole(t, s) ==
    /\ Bounded(t, s)
    /\ IF t.hasMore THEN t.events # {} /\ t.oldest >= 2
                    ELSE t.events = {} \/ t.oldest = 1

\* It holds nothing beyond sequence n, and the newest records up to it.
Reaches(t, s, n) ==
    /\ \A r \in t.events : r[2] <= n
    /\ \A k \in 1 .. n : k > n - Target => <<s, k>> \in t.events

LiveFields == [revision : Nat, attempt : Nat, next : Nat, shown : Nat]

\* The live answer lags behind, or is that of the attempt that is active.
Fits(l, f, p) ==
    /\ l.revision <= SentOf(f, p)
    /\ l.revision = SentOf(f, p) =>
          /\ l.shown = ChunksOf(f, p)
          /\ l.attempt = IF ActiveOf(f, p) THEN StartsOf(f, p) ELSE 0

TaskFields ==
    [kind : {"none", "older", "first", "search", "jump"}, on : {"record", "window"},
     before : Nat, seen : SUBSET Nat, miss : SUBSET Nat, aborted : BOOLEAN]

StreamsProper ==
    /\ stream \in [Sessions -> Seq(Frames)]
    /\ \A s \in Sessions : Proper(stream[s]) /\ Len(stream[s]) <= MaxFrames

\* The record is ready exactly while its stream is open, and is what the stream
\* has delivered so far.
Followed ==
    /\ online \in BOOLEAN /\ chat \in BOOLEAN /\ pinned \in BOOLEAN
    /\ session \in Sessions \cup {NoSession} /\ at \in Nat /\ live \in LiveFields
    /\ follow \in {"none", "opening", "open", "ended"}
    /\ follow # "none" => online /\ session # NoSession
    /\ record.ready <=> follow = "open"
    /\ record.ready =>
          /\ at <= Len(stream[session])
          /\ Reaches(record, session, LoggedOf(session, stream[session], at))
          /\ Fits(live, stream[session], at)

OnScreen ==
    /\ Whole(record, session)
    /\ \A u, w \in window : u = w
    /\ \A t \in window : Whole(t, session)

\* A search has seen all there is from where it is to the newest it has seen.
Covers(t) ==
    /\ \E m \in t.seen : t.before <= m /\ \A n \in t.seen : n <= m
    /\ \A m \in t.seen : t.before .. m \subseteq t.seen \cup t.miss

\* The page a read asks for is older than what was there when it asked.
Asks(t) ==
    /\ online /\ session # NoSession /\ t.before >= 2
    /\ t.kind \in {"older", "first"} /\ t.on = "record" =>
          /\ record.hasMore /\ follow \in {"open", "ended"}
          /\ record.ready => t.before <= LoggedOf(session, stream[session], at)
    /\ t.kind \in {"older", "first"} /\ t.on = "window" =>
          t.kind = "older" /\ window # {} /\ \A w \in window : w.hasMore

Reads ==
    /\ task \in TaskFields
    /\ task.kind = "search" => Covers(task)
    /\ task.kind # "none" /\ ~task.aborted => Asks(task)

ReadingInv == StreamsProper /\ Followed /\ OnScreen /\ Reads

-----------------------------------------------------------------------------
(* Least and greatest numbers.                                             *)

\* A set of naturals that is not empty has a least element.
LEMMA MinIs ==
    ASSUME NEW T \in SUBSET Nat, T # {}
    PROVE  Min(T) \in T /\ \A y \in T : Min(T) <= y
<1> DEFINE R == {ss \in Nat \X Nat : ss[1] < ss[2]}
<1>1. IsWellFoundedOn(R, Nat)
  BY NatLessThanWellFounded, Zenon DEF OpToRel
<1>2. \A x, y \in Nat : <<y, x>> \notin R => x <= y
  OBVIOUS
<1> HIDE DEF R
<1>3. PICK x \in T : \A y \in T : ~(<<y, x>> \in R)
  BY <1>1, WFMin
<1>4. \A y \in T : x <= y
  BY <1>2, <1>3
<1> QED
  BY <1>4 DEF Min

\* A bounded one has a greatest.
LEMMA MaxIs ==
    ASSUME NEW T \in SUBSET Nat, T # {}, NEW n \in Nat, \A y \in T : y <= n
    PROVE  Max(T) \in T /\ \A y \in T : y <= Max(T)
<1> DEFINE U == {n - y : y \in T}
<1>1. U \in SUBSET Nat /\ U # {}
  <2>1. \A y \in T : n - y \in Nat
    OBVIOUS
  <2> QED
    BY <2>1
<1>2. Min(U) \in U /\ \A u \in U : Min(U) <= u
  BY <1>1, MinIs
<1>3. PICK x \in T : Min(U) = n - x
  BY <1>2
<1>4. \A y \in T : x >= y
  <2> SUFFICES ASSUME NEW y \in T PROVE x >= y
    OBVIOUS
  <2>1. n - y \in U
    OBVIOUS
  <2>2. Min(U) <= n - y
    BY <1>2, <2>1
  <2> HIDE DEF U
  <2> QED
    BY <1>3, <2>2
<1>5. \E z \in T : \A y \in T : z >= y
  BY <1>4
<1>6. Max(T) \in T /\ \A y \in T : Max(T) >= y
  BY <1>5 DEF Max
<1> QED
  BY <1>6

LEMMA MaxOfTwo ==
    ASSUME NEW a \in Int, NEW b \in Int
    PROVE  Max({a, b}) = IF a >= b THEN a ELSE b
<1>1. \E x \in {a, b} : \A y \in {a, b} : x >= y
  OBVIOUS
<1>2. Max({a, b}) \in {a, b} /\ \A y \in {a, b} : Max({a, b}) >= y
  BY <1>1 DEF Max
<1> QED
  BY <1>2

-----------------------------------------------------------------------------
(* How a stream counts.                                                    *)

LEMMA CountTyped ==
    ASSUME NEW f, NEW p \in Nat, NEW K
    PROVE  CountOf(f, p, K) \in Nat
<1>1. IsFiniteSet(1 .. p)
  BY FS_Interval
<1>2. IsFiniteSet({i \in 1 .. p : f[i] \in K})
  BY <1>1, FS_Subset
<1> QED
  BY <1>2, FS_CardinalityType DEF CountOf

\* One more frame.
LEMMA CountNext ==
    ASSUME NEW f, NEW p \in Nat, NEW K
    PROVE  CountOf(f, p + 1, K) = CountOf(f, p, K) + (IF f[p + 1] \in K THEN 1 ELSE 0)
<1> DEFINE S == {i \in 1 .. p : f[i] \in K}
           T == {i \in 1 .. (p + 1) : f[i] \in K}
<1>1. 1 .. (p + 1) = (1 .. p) \cup {p + 1} /\ p + 1 \notin 1 .. p
  OBVIOUS
<1>2. IsFiniteSet(S) /\ p + 1 \notin S
  <2>1. IsFiniteSet(1 .. p) /\ S \in SUBSET (1 .. p)
    BY FS_Interval
  <2> QED
    BY <1>1, <2>1, FS_Subset
<1>3. T = IF f[p + 1] \in K THEN S \cup {p + 1} ELSE S
  BY <1>1
<1> HIDE DEF S, T
<1>4. Cardinality(S \cup {p + 1}) = Cardinality(S) + 1 /\ Cardinality(S) \in Nat
  BY <1>2, FS_AddElement, FS_CardinalityType
<1>5. Cardinality(T) = Cardinality(S) + (IF f[p + 1] \in K THEN 1 ELSE 0)
  BY <1>3, <1>4
<1> QED
  BY <1>5 DEF CountOf, S, T

LEMMA MarksTyped ==
    ASSUME NEW f, NEW p \in Nat
    PROVE  /\ MarksOf(f, p) \in SUBSET Nat /\ MarksOf(f, p) # {}
           /\ \A y \in MarksOf(f, p) : y <= p
           /\ MarkOf(f, p) \in MarksOf(f, p)
           /\ \A y \in MarksOf(f, p) : y <= MarkOf(f, p)
<1>1. /\ MarksOf(f, p) \in SUBSET Nat /\ MarksOf(f, p) # {}
      /\ \A y \in MarksOf(f, p) : y <= p
  BY DEF MarksOf
<1> QED
  BY <1>1, MaxIs DEF MarkOf

LEMMA MarkNext ==
    ASSUME NEW f, NEW p \in Nat
    PROVE  MarkOf(f, p + 1) = IF f[p + 1] \in {"start", "end"} THEN p + 1 ELSE MarkOf(f, p)
<1> DEFINE M == MarksOf(f, p)
           N == MarksOf(f, p + 1)
<1>1. N = IF f[p + 1] \in {"start", "end"} THEN M \cup {p + 1} ELSE M
  BY DEF MarksOf
<1>2. /\ M \in SUBSET Nat /\ \A y \in M : y <= p
      /\ MarkOf(f, p + 1) \in N /\ \A y \in N : y <= MarkOf(f, p + 1)
  BY MarksTyped
<1> HIDE DEF M, N
<1>3. CASE f[p + 1] \in {"start", "end"}
  <2>1. p + 1 \in N /\ (\A y \in N : y <= p + 1) /\ N \in SUBSET Nat
    BY <1>1, <1>2, <1>3
  <2>2. p + 1 <= MarkOf(f, p + 1) /\ MarkOf(f, p + 1) <= p + 1
    BY <1>2, <2>1
  <2>3. MarkOf(f, p + 1) \in Nat
    BY <1>2, <2>1
  <2> QED
    BY <1>3, <2>2, <2>3
<1>4. CASE f[p + 1] \notin {"start", "end"}
  BY <1>1, <1>4 DEF M, N, MarkOf
<1> QED
  BY <1>3, <1>4

LEMMA ActiveNext ==
    ASSUME NEW f, NEW p \in Nat
    PROVE  ActiveOf(f, p + 1) <=>
               \/ f[p + 1] = "start"
               \/ f[p + 1] # "end" /\ ActiveOf(f, p)
<1>1. CASE f[p + 1] \in {"start", "end"}
  BY <1>1, MarkNext DEF ActiveOf
<1>2. CASE f[p + 1] \notin {"start", "end"}
  BY <1>2, MarkNext DEF ActiveOf
<1> QED
  BY <1>1, <1>2

\* The chunks of the active attempt: none at its start, one more with each.
LEMMA ChunksNext ==
    ASSUME NEW f, NEW p \in Nat
    PROVE  /\ ChunksOf(f, p) \in Nat
           /\ f[p + 1] = "start" => ChunksOf(f, p + 1) = 0
           /\ f[p + 1] = "end" => ChunksOf(f, p + 1) = 0
           /\ f[p + 1] = "record" => ChunksOf(f, p + 1) = ChunksOf(f, p)
           /\ f[p + 1] = "chunk" /\ ActiveOf(f, p) =>
                 ChunksOf(f, p + 1) = ChunksOf(f, p) + 1
<1> DEFINE m == MarkOf(f, p)
           S == {i \in m .. p : f[i] = "chunk"}
           T == {i \in m .. (p + 1) : f[i] = "chunk"}
<1>1. m \in Nat /\ m <= p
  BY MarksTyped
<1> HIDE DEF m
<1>2. m .. (p + 1) = (m .. p) \cup {p + 1} /\ p + 1 \notin m .. p
  BY <1>1
<1>3. IsFiniteSet(m .. p)
  BY <1>1, FS_Interval
<1>4. IsFiniteSet(S) /\ p + 1 \notin S
  BY <1>2, <1>3, FS_Subset
<1>5. Cardinality(S) \in Nat /\ Cardinality(S \cup {p + 1}) = Cardinality(S) + 1
  BY <1>4, FS_AddElement, FS_CardinalityType
<1>6. T = IF f[p + 1] = "chunk" THEN S \cup {p + 1} ELSE S
  BY <1>2
<1>7. ChunksOf(f, p) = IF ActiveOf(f, p) THEN Cardinality(S) ELSE 0
  BY DEF ChunksOf, m
<1>8. f[p + 1] \notin {"start", "end"} =>
          ChunksOf(f, p + 1) = IF ActiveOf(f, p) THEN Cardinality(T) ELSE 0
  BY MarkNext, ActiveNext DEF ChunksOf, m
<1>9. ASSUME f[p + 1] = "start" PROVE ChunksOf(f, p + 1) = 0
  <2>1. MarkOf(f, p + 1) = p + 1
    BY <1>9, MarkNext
  <2>2. {i \in (p + 1) .. (p + 1) : f[i] = "chunk"} = {}
    BY <1>9
  <2> QED
    BY <2>1, <2>2, FS_EmptySet DEF ChunksOf
<1>10. ASSUME f[p + 1] = "end" PROVE ChunksOf(f, p + 1) = 0
  <2>1. ~ActiveOf(f, p + 1)
    BY <1>10, ActiveNext
  <2> QED
    BY <2>1 DEF ChunksOf
<1> HIDE DEF S, T
<1>11. ChunksOf(f, p) \in Nat
  BY <1>5, <1>7
<1>12. ASSUME f[p + 1] = "record" PROVE ChunksOf(f, p + 1) = ChunksOf(f, p)
  BY <1>6, <1>7, <1>8, <1>12
<1>13. ASSUME f[p + 1] = "chunk", ActiveOf(f, p)
       PROVE  ChunksOf(f, p + 1) = ChunksOf(f, p) + 1
  BY <1>5, <1>6, <1>7, <1>8, <1>13
<1> QED
  BY <1>9, <1>10, <1>11, <1>12, <1>13

\* What was counted stays when the stream goes on.
LEMMA PrefixSame ==
    ASSUME NEW f, NEW g, NEW p \in Nat, \A i \in 1 .. p : g[i] = f[i]
    PROVE  /\ \A K : CountOf(g, p, K) = CountOf(f, p, K)
           /\ MarkOf(g, p) = MarkOf(f, p) /\ ActiveOf(g, p) = ActiveOf(f, p)
           /\ ChunksOf(g, p) = ChunksOf(f, p)
<1>1. \A K : CountOf(g, p, K) = CountOf(f, p, K)
  <2> SUFFICES ASSUME NEW K PROVE CountOf(g, p, K) = CountOf(f, p, K)
    OBVIOUS
  <2>1. {i \in 1 .. p : g[i] \in K} = {i \in 1 .. p : f[i] \in K}
    OBVIOUS
  <2> QED
    BY <2>1 DEF CountOf
<1>2. MarkOf(g, p) = MarkOf(f, p)
  <2>1. MarksOf(g, p) = MarksOf(f, p)
    BY DEF MarksOf
  <2> QED
    BY <2>1 DEF MarkOf
<1> DEFINE m == MarkOf(f, p)
<1>3. m \in 0 .. p
  BY MarksTyped
<1>4. ActiveOf(g, p) <=> ActiveOf(f, p)
  <2>1. m > 0 => g[m] = f[m]
    BY <1>3
  <2> QED
    BY <1>2, <2>1 DEF ActiveOf
<1>5. ASSUME m > 0 PROVE {i \in m .. p : g[i] = "chunk"} = {i \in m .. p : f[i] = "chunk"}
  BY <1>3, <1>5
<1>6. ChunksOf(g, p) = ChunksOf(f, p)
  BY <1>2, <1>4, <1>5 DEF ChunksOf, ActiveOf
<1>7. ActiveOf(g, p) = ActiveOf(f, p)
  BY <1>4 DEF ActiveOf
<1> QED
  BY <1>1, <1>2, <1>6, <1>7

-----------------------------------------------------------------------------
(* What is done to a transcript.                                           *)

LEMMA BlankWhole ==
    ASSUME NEW s
    PROVE  Whole(Blank, s) /\ ~Blank.ready
BY DEF Blank, Whole, Bounded, TranscriptFields

\* The records of a transcript are numbered once each.
LEMMA SeqsIs ==
    ASSUME NEW t, NEW s, Bounded(t, s)
    PROVE  /\ \A n \in Nat : n \in Seqs(t.events) <=> <<s, n>> \in t.events
           /\ \A r \in t.events : r = <<s, r[2]>> /\ r[2] \in 1 .. t.through
           /\ Seqs(t.events) \subseteq 1 .. t.through
           /\ IsFiniteSet(t.events)
<1>1. /\ t.events \subseteq Sessions \X (Nat \ {0}) /\ t.through \in Nat
      /\ \A r \in t.events : r[1] = s /\ r[2] <= t.through
  BY DEF Bounded, TranscriptFields
<1>2. \A r \in t.events : r = <<s, r[2]>> /\ r[2] \in 1 .. t.through
  BY <1>1
<1>3. \A n \in Nat : n \in Seqs(t.events) <=> <<s, n>> \in t.events
  BY <1>2 DEF Seqs
<1>4. Seqs(t.events) \subseteq 1 .. t.through
  BY <1>2 DEF Seqs
<1>5. IsFiniteSet({s} \X (1 .. t.through))
  <2>1. IsFiniteSet({s})
    BY FS_Singleton
  <2>2. t.through \in Int
    BY <1>1
  <2>3. IsFiniteSet(1 .. t.through)
    BY <2>2, FS_Interval
  <2> QED
    BY <2>1, <2>3, FS_Product
<1>6. t.events \in SUBSET ({s} \X (1 .. t.through))
  BY <1>2
<1>7. IsFiniteSet(t.events)
  BY <1>5, <1>6, FS_Subset
<1> QED
  BY <1>2, <1>3, <1>4, <1>7

LEMMA SpanIs ==
    ASSUME NEW s \in Sessions, NEW lo \in Nat \ {0}, NEW hi \in Nat
    PROVE  /\ Span(s, lo, hi) \subseteq Sessions \X (Nat \ {0})
           /\ Seqs(Span(s, lo, hi)) = lo .. hi
           /\ \A r \in Span(s, lo, hi) : r[1] = s /\ r[2] \in lo .. hi
           /\ \A n \in lo .. hi : <<s, n>> \in Span(s, lo, hi)
<1> DEFINE R == Span(s, lo, hi)
<1>1. \A n \in lo .. hi : n \in Nat \ {0} /\ <<s, n>> \in R
  BY DEF Span
<1>2. \A r \in R : \E n \in lo .. hi : r = <<s, n>>
  BY DEF Span
<1> HIDE DEF R
<1>3. \A r \in R : r[1] = s /\ r[2] \in lo .. hi /\ r \in Sessions \X (Nat \ {0})
  BY <1>1, <1>2
<1>4. {r[2] : r \in R} = lo .. hi
  <2>1. \A n \in lo .. hi : \E r \in R : r[2] = n
    BY <1>1
  <2> QED
    BY <1>3, <2>1
<1> QED
  BY <1>1, <1>3, <1>4 DEF R, Seqs

\* Records that are added move both ends.
Added(t, s, lo, hi, u) ==
    /\ Bounded(u, s)
    /\ u.events = t.events \cup Span(s, lo, hi)
    /\ u.oldest = IF t.events # {} /\ t.oldest <= lo THEN t.oldest ELSE lo
    /\ u.hasMore = t.hasMore /\ u.ready = t.ready

LEMMA AddRecordsIs ==
    ASSUME NEW t, NEW s \in Sessions, Bounded(t, s),
           NEW lo \in Nat \ {0}, NEW hi \in Nat, lo <= hi
    PROVE  Added(t, s, lo, hi, AddRecords(t, Span(s, lo, hi)))
<1> DEFINE R == Span(s, lo, hi)
           o == Min(Seqs(R) \cup (IF t.oldest = 0 THEN {} ELSE {t.oldest}))
           h == Max({t.through} \cup Seqs(R))
           u == [t EXCEPT !.events = @ \cup R, !.oldest = o, !.through = h]
           v == IF t.events # {} /\ t.oldest <= lo THEN t.oldest ELSE lo
<1> HIDE DEF R
<1>1. /\ R \subseteq Sessions \X (Nat \ {0}) /\ Seqs(R) = lo .. hi
      /\ \A r \in R : r[1] = s /\ r[2] \in lo .. hi
      /\ \A n \in lo .. hi : <<s, n>> \in R
  BY SpanIs DEF R
<1>2. AddRecords(t, R) = u
  <2>1. lo \in lo .. hi
    OBVIOUS
  <2>2. R # {}
    BY <1>1, <2>1
  <2> QED
    BY <2>2 DEF AddRecords
<1>3. /\ t \in TranscriptFields /\ t.oldest \in Nat /\ t.through \in Nat
      /\ t.events \subseteq Sessions \X (Nat \ {0})
      /\ \A r \in t.events : r[1] = s /\ t.oldest <= r[2] /\ r[2] <= t.through
      /\ t.events # {} => <<s, t.oldest>> \in t.events
      /\ t.events = {} => t.oldest = 0
  BY DEF Bounded, TranscriptFields
<1>4. t.oldest = 0 <=> t.events = {}
  BY <1>3
<1>5. o = v /\ v \in Nat \ {0}
  <2> DEFINE S == (lo .. hi) \cup (IF t.oldest = 0 THEN {} ELSE {t.oldest})
  <2>1. o = Min(S)
    BY <1>1
  <2>2. v \in S /\ (\A y \in S : v <= y) /\ v \in Nat \ {0} /\ S \in SUBSET Nat
    BY <1>3, <1>4
  <2> HIDE DEF S, o, v
  <2>3. Min(S) \in S /\ \A y \in S : Min(S) <= y
    BY <2>2, MinIs
  <2>4. Min(S) <= v /\ v <= Min(S) /\ Min(S) \in Nat
    BY <2>2, <2>3
  <2>5. Min(S) = v
    BY <2>2, <2>4
  <2> QED
    BY <2>1, <2>2, <2>5
<1>6. h \in Nat /\ t.through <= h /\ hi <= h
  <2> DEFINE S == {t.through} \cup (lo .. hi)
             n == IF t.through >= hi THEN t.through ELSE hi
  <2>1. S \in SUBSET Nat /\ S # {} /\ h = Max(S) /\ n \in Nat /\ (\A y \in S : y <= n)
        /\ t.through \in S /\ hi \in S
    BY <1>1, <1>3
  <2> HIDE DEF S, n, h
  <2>2. Max(S) \in S /\ \A y \in S : y <= Max(S)
    BY <2>1, MaxIs
  <2> QED
    BY <2>1, <2>2
<1> HIDE DEF o, h
<1>7. /\ u \in TranscriptFields /\ u.events = t.events \cup R /\ u.oldest = o
      /\ u.through = h /\ u.hasMore = t.hasMore /\ u.ready = t.ready
  BY <1>1, <1>3, <1>5, <1>6 DEF TranscriptFields
<1> HIDE DEF u
<1>8. Bounded(u, s)
  <2>1. \A r \in u.events : r[1] = s /\ u.oldest <= r[2] /\ r[2] <= u.through
    <3> SUFFICES ASSUME NEW r \in u.events
                 PROVE  r[1] = s /\ u.oldest <= r[2] /\ r[2] <= u.through
      OBVIOUS
    <3>1. CASE r \in t.events
      BY <1>3, <1>5, <1>6, <1>7, <3>1
    <3>2. CASE r \in R
      BY <1>1, <1>3, <1>5, <1>6, <1>7, <3>2
    <3> QED
      BY <1>7, <3>1, <3>2
  <2>2. <<s, u.oldest>> \in u.events
    BY <1>1, <1>3, <1>5, <1>7
  <2> QED
    BY <1>7, <2>1, <2>2 DEF Bounded
<1> QED
  BY <1>2, <1>5, <1>7, <1>8 DEF R, Added

\* A page before sequence b has at least one record, and ends with b - 1.
LEMMA PageIs ==
    ASSUME NEW s \in Sessions, NEW b \in Nat, b >= 2
    PROVE  \E lo \in 1 .. (b - 1) :
               Page(s, b) = [records |-> Span(s, lo, b - 1), hasMore |-> lo > 1]
<1> DEFINE lo == Max({1, b - PageSize})
<1>1. PageSize \in Nat /\ 0 < PageSize
  BY ReadingAssumption
<1>2. lo \in 1 .. (b - 1)
  BY <1>1, MaxOfTwo
<1>3. Page(s, b) = [records |-> Span(s, lo, b - 1), hasMore |-> lo > 1]
  BY DEF Page
<1> QED
  BY <1>2, <1>3

\* A page that is added, or one that is empty and promises more.
LEMMA AddPageIs ==
    ASSUME NEW t, NEW s \in Sessions, Whole(t, s), t.hasMore,
           NEW b \in Nat, b >= 2,
           NEW page, page = Page(s, b) \/ page = [records |-> {}, hasMore |-> TRUE]
    PROVE  LET u == AddPage(t, page) IN
           /\ Whole(u, s) /\ u.ready = t.ready /\ t.events \subseteq u.events
           /\ \A r \in u.events \ t.events : r[2] < b
<1>1. CASE page = [records |-> {}, hasMore |-> TRUE]
  <2>1. AddPage(t, page) = [t EXCEPT !.hasMore = TRUE]
    BY <1>1 DEF AddPage, AddRecords
  <2>2. [t EXCEPT !.hasMore = TRUE] = t
    BY DEF Whole, Bounded, TranscriptFields
  <2> QED
    BY <2>1, <2>2
<1>2. CASE page = Page(s, b)
  <2>1. PICK lo \in 1 .. (b - 1) :
            page = [records |-> Span(s, lo, b - 1), hasMore |-> lo > 1]
    BY <1>2, PageIs
  <2> DEFINE a == AddRecords(t, Span(s, lo, b - 1))
             m == (lo > 1)
             u == [a EXCEPT !.hasMore = m]
  <2>2. lo \in Nat \ {0} /\ b - 1 \in Nat /\ lo <= b - 1
    BY <2>1
  <2>3. Bounded(t, s) /\ t.events # {} /\ t.oldest >= 2 /\ t.oldest \in Nat
    BY DEF Whole, Bounded, TranscriptFields
  <2>4. /\ Bounded(a, s) /\ a.events = t.events \cup Span(s, lo, b - 1)
        /\ a.oldest = (IF t.oldest <= lo THEN t.oldest ELSE lo) /\ a.ready = t.ready
    <3> DEFINE hi == b - 1
    <3>1. hi \in Nat /\ lo <= hi /\ lo \in Nat \ {0} /\ Bounded(t, s)
      BY <2>2, <2>3
    <3> HIDE DEF hi
    <3>2. Added(t, s, lo, hi, AddRecords(t, Span(s, lo, hi)))
      BY <3>1, AddRecordsIs
    <3> QED
      BY <2>3, <3>2 DEF Added, hi
  <2>5. AddPage(t, page) = u /\ m \in BOOLEAN
    BY <2>1 DEF AddPage
  <2> HIDE DEF a
  <2>6. /\ Bounded(u, s) /\ u.events = a.events /\ u.oldest = a.oldest
        /\ u.ready = a.ready /\ u.hasMore = m
    <3> HIDE DEF m
    <3> QED
      BY <2>4, <2>5 DEF Bounded, TranscriptFields
  <2> HIDE DEF u
  <2>7. Whole(u, s)
    <3>1. u.events # {}
      BY <2>3, <2>4, <2>6
    <3>2. u.hasMore = (lo > 1) /\ Bounded(u, s)
      BY <2>6
    <3>3. CASE lo = 1
      <4>1. u.oldest = 1
        BY <2>3, <2>4, <2>6, <3>3
      <4>2. m = FALSE
        BY <3>3
      <4>3. ~u.hasMore
        BY <2>6, <4>2
      <4> QED
        BY <3>2, <4>1, <4>3 DEF Whole
    <3>4. CASE lo > 1
      <4>1. u.oldest >= 2
        BY <2>2, <2>3, <2>4, <2>6, <3>4
      <4>2. m = TRUE
        BY <3>4
      <4>3. u.hasMore
        BY <2>6, <4>2
      <4> QED
        BY <3>1, <3>2, <4>1, <4>3 DEF Whole
    <3> QED
      BY <2>2, <3>3, <3>4
  <2>8. \A r \in Span(s, lo, b - 1) : r[2] < b
    BY <2>2, SpanIs
  <2> QED
    BY <2>4, <2>5, <2>6, <2>7, <2>8
<1> QED
  BY <1>1, <1>2

\* A transcript that is opened with a page or a snapshot.
LEMMA OpenIs ==
    ASSUME NEW s \in Sessions, NEW lo \in Nat \ {0}, NEW hi \in Nat, NEW cut \in Nat,
           NEW more \in BOOLEAN, lo <= hi => (more <=> lo > 1), hi < lo => ~more
    PROVE  LET u == Open([records |-> Span(s, lo, hi), hasMore |-> more], cut) IN
           Whole(u, s) /\ u.ready /\ u.events = Span(s, lo, hi)
<1> DEFINE a == AddRecords(Blank, Span(s, lo, hi))
           u == [a EXCEPT !.cursor = cut, !.hasMore = more, !.ready = TRUE]
<1>1. Open([records |-> Span(s, lo, hi), hasMore |-> more], cut) = u
  BY DEF Open
<1>2. Bounded(Blank, s) /\ Blank.events = {} /\ Blank.oldest = 0
  BY BlankWhole DEF Whole, Blank
<1>3. /\ Bounded(a, s) /\ a.events = Span(s, lo, hi)
      /\ (lo <= hi => a.oldest = lo /\ a.events # {}) /\ (hi < lo => a.events = {})
  <2>1. CASE lo <= hi
    <3>1. /\ Bounded(a, s) /\ a.events = Blank.events \cup Span(s, lo, hi)
          /\ a.oldest = lo
      <4>1. Added(Blank, s, lo, hi, a)
        BY <1>2, <2>1, AddRecordsIs
      <4> QED
        BY <1>2, <4>1 DEF Added
    <3>2. <<s, lo>> \in Span(s, lo, hi)
      BY <2>1, SpanIs
    <3> QED
      BY <1>2, <2>1, <3>1, <3>2
  <2>2. CASE hi < lo
    <3>1. Span(s, lo, hi) = {}
      BY <2>2 DEF Span
    <3>2. a = Blank
      BY <3>1 DEF AddRecords
    <3> QED
      BY <1>2, <2>2, <3>1, <3>2
  <2> QED
    BY <2>1, <2>2
<1> HIDE DEF a
<1>4. Bounded(u, s) /\ u.events = a.events /\ u.oldest = a.oldest /\ u.ready /\ u.hasMore = more
  BY <1>3 DEF Bounded, TranscriptFields
<1> HIDE DEF u
<1>5. Whole(u, s)
  BY <1>3, <1>4 DEF Whole
<1> QED
  BY <1>1, <1>3, <1>4, <1>5

\* The newest record that came extends what was loaded.
LEMMA RecordAdded ==
    ASSUME NEW t, NEW s \in Sessions, Whole(t, s), NEW n \in Nat, Reaches(t, s, n)
    PROVE  LET u == AddRecords(t, Span(s, n + 1, n + 1)) IN
           Whole(u, s) /\ Reaches(u, s, n + 1) /\ u.ready = t.ready /\ u.hasMore = t.hasMore
<1> DEFINE m == n + 1
           u == AddRecords(t, Span(s, m, m))
<1>1. m \in Nat \ {0} /\ n < m /\ \A k \in 1 .. m : k = m \/ k \in 1 .. n
  OBVIOUS
<1>2. Bounded(t, s) /\ t.oldest \in Nat
  BY DEF Whole, Bounded, TranscriptFields
<1> HIDE DEF m
<1>3. Added(t, s, m, m, u)
  BY <1>1, <1>2, AddRecordsIs
<1>4. /\ \A r \in Span(s, m, m) : r[2] = m
      /\ <<s, m>> \in Span(s, m, m)
  <2>1. m \in m .. m /\ \A k \in m .. m : k = m
    BY <1>1
  <2> QED
    BY <1>1, <2>1, SpanIs
<1> HIDE DEF u
<1>5. Reaches(u, s, m)
  <2>1. \A r \in u.events : r[2] <= m
    <3> SUFFICES ASSUME NEW r \in u.events PROVE r[2] <= m
      OBVIOUS
    <3>1. r \in t.events \/ r[2] = m
      BY <1>3, <1>4 DEF Added
    <3>2. r \in t.events => r[2] <= n /\ r[2] \in Nat
      BY <1>2 DEF Reaches, Bounded, TranscriptFields
    <3> QED
      BY <1>1, <3>1, <3>2
  <2>2. ASSUME NEW k \in 1 .. m, k > m - Target PROVE <<s, k>> \in u.events
    <3>1. CASE k = m
      BY <1>3, <1>4, <3>1 DEF Added
    <3>2. CASE k \in 1 .. n
      <4>1. k > n - Target
        BY <1>1, <2>2, ReadingAssumption
      <4> QED
        BY <1>3, <3>2, <4>1 DEF Added, Reaches
    <3> QED
      BY <1>1, <3>1, <3>2
  <2> QED
    BY <2>1, <2>2 DEF Reaches
<1>6. u.events # {} /\ Bounded(u, s) /\ u.hasMore = t.hasMore /\ u.ready = t.ready
  BY <1>3, <1>4 DEF Added
<1>7. u.oldest = IF t.events # {} /\ t.oldest <= m THEN t.oldest ELSE m
  BY <1>3 DEF Added
<1>8. ASSUME t.hasMore PROVE u.oldest >= 2
  <2>1. t.events # {} /\ t.oldest >= 2 /\ <<s, t.oldest>> \in t.events
    BY <1>8 DEF Whole, Bounded
  <2>2. t.oldest <= n
    BY <2>1 DEF Reaches
  <2> QED
    BY <1>1, <1>2, <1>7, <2>1, <2>2
<1>9. ASSUME ~t.hasMore PROVE u.oldest = 1
  <2>1. CASE t.events = {}
    <3>1. n = 0
      <4> SUFFICES ASSUME n # 0 PROVE FALSE
        OBVIOUS
      <4>1. n \in 1 .. n /\ n > n - Target
        BY ReadingAssumption
      <4> QED
        BY <2>1, <4>1 DEF Reaches
    <3> QED
      BY <1>7, <2>1, <3>1 DEF m
  <2>2. CASE t.events # {}
    <3>1. t.oldest = 1
      BY <1>9, <2>2 DEF Whole
    <3> QED
      BY <1>1, <1>7, <2>2, <3>1
  <2> QED
    BY <2>1, <2>2
<1>10. Whole(u, s)
  BY <1>6, <1>8, <1>9 DEF Whole
<1> QED
  BY <1>5, <1>6, <1>10 DEF m, u

\* Newer than a record of a transcript.
Newer(t, r) == {q \in t.events : q[2] > r[2]}
Kept(t) == {r \in t.events : Cardinality(Newer(t, r)) < Target}

LEMMA NewerFinite ==
    ASSUME NEW t, NEW s, Bounded(t, s), NEW r
    PROVE  Newer(t, r) \subseteq t.events /\ IsFiniteSet(Newer(t, r))
           /\ Cardinality(Newer(t, r)) \in Nat
<1>1. IsFiniteSet(t.events) /\ Newer(t, r) \in SUBSET t.events
  BY SeqsIs DEF Newer
<1>2. IsFiniteSet(Newer(t, r))
  BY <1>1, FS_Subset
<1> QED
  BY <1>1, <1>2, FS_CardinalityType

\* A trim keeps the newest records, of which there are Target at most up to one.
LEMMA NewestKept ==
    ASSUME NEW t, NEW s, Bounded(t, s), NEW n \in Nat, Reaches(t, s, n)
    PROVE  \A k \in 1 .. n : k > n - Target => <<s, k>> \in Kept(t)
<1> SUFFICES ASSUME NEW k \in 1 .. n, k > n - Target
             PROVE  <<s, k>> \in Kept(t)
  OBVIOUS
<1> DEFINE N == Newer(t, <<s, k>>)
           S == {s} \X ((k + 1) .. n)
<1>1. k + 1 \in Int /\ n \in Int /\ Target \in Nat
  BY ReadingAssumption
<1>2. /\ IsFiniteSet((k + 1) .. n)
      /\ Cardinality((k + 1) .. n) = IF k + 1 > n THEN 0 ELSE n - (k + 1) + 1
  BY <1>1, FS_Interval
<1>3. IsFiniteSet({s}) /\ Cardinality({s}) = 1
  BY FS_Singleton
<1>4. IsFiniteSet(S) /\ Cardinality(S) = Cardinality({s}) * Cardinality((k + 1) .. n)
  BY <1>2, <1>3, FS_Product
<1>5. Cardinality((k + 1) .. n) < Target /\ Cardinality((k + 1) .. n) \in Nat
  BY <1>1, <1>2, ReadingAssumption
<1>6. Cardinality(S) < Target /\ Cardinality(S) \in Nat
  BY <1>3, <1>4, <1>5
<1>7. N \in SUBSET S
  <2> SUFFICES ASSUME NEW q \in N PROVE q \in S
    OBVIOUS
  <2>1. q \in t.events /\ q[2] > k
    BY DEF Newer
  <2>2. q = <<s, q[2]>> /\ q[2] \in Nat /\ q[2] <= n
    BY <2>1, SeqsIs DEF Reaches, Bounded, TranscriptFields
  <2> QED
    BY <2>1, <2>2
<1> HIDE DEF S, N
<1>8. Cardinality(N) <= Cardinality(S)
  BY <1>4, <1>7, FS_Subset
<1>9. Cardinality(N) < Target
  BY <1>1, <1>6, <1>8, NewerFinite DEF N
<1>10. <<s, k>> \in t.events
  BY DEF Reaches
<1> QED
  BY <1>9, <1>10 DEF Kept, N

\* The first record of the session never survives a trim.
LEMMA FirstIsTrimmed ==
    ASSUME NEW t, NEW s, Bounded(t, s), Cardinality(t.events) > Limit
    PROVE  <<s, 1>> \notin Kept(t)
<1> SUFFICES ASSUME <<s, 1>> \in t.events PROVE Cardinality(Newer(t, <<s, 1>>)) >= Target
  <2>1. Cardinality(Newer(t, <<s, 1>>)) \in Nat
    BY NewerFinite
  <2> QED
    BY <2>1, ReadingAssumption DEF Kept
<1>1. IsFiniteSet(t.events) /\ Cardinality(t.events) \in Nat
  BY SeqsIs, FS_CardinalityType
<1>2. Newer(t, <<s, 1>>) = t.events \ {<<s, 1>>}
  <2>1. \A q \in t.events : q = <<s, q[2]>> /\ q[2] \in Nat /\ q[2] >= 1
    BY SeqsIs DEF Bounded, TranscriptFields
  <2>2. \A q \in t.events : q[2] > 1 <=> q # <<s, 1>>
    BY <2>1
  <2> QED
    BY <2>2 DEF Newer
<1>3. Cardinality(t.events \ {<<s, 1>>}) = Cardinality(t.events) - 1
  BY <1>1, FS_RemoveElement
<1> QED
  BY <1>1, <1>2, <1>3, ReadingAssumption

\* A trim leaves a transcript that is within reach, and asks for what it dropped.
LEMMA TrimmedIs ==
    ASSUME NEW t, NEW s, Whole(t, s)
    PROVE  /\ Whole(Trimmed(t), s) /\ Trimmed(t).ready = t.ready
           /\ t.hasMore => Trimmed(t).hasMore
           /\ \A n \in Nat : Reaches(t, s, n) => Reaches(Trimmed(t), s, n)
<1>1. Bounded(t, s) /\ t \in TranscriptFields /\ t.through \in Nat
  BY DEF Whole, Bounded, TranscriptFields
<1>2. CASE Cardinality(t.events) <= Limit
  BY <1>2 DEF Trimmed
<1>3. CASE ~(Cardinality(t.events) <= Limit)
  <2> DEFINE K == Kept(t)
             o == Min(Seqs(K))
             c == ReadThrough(t)
             u == [t EXCEPT !.events = K, !.oldest = o, !.hasMore = TRUE, !.cursor = c]
  <2>1. Trimmed(t) = u
    BY <1>3 DEF Trimmed, Kept, Newer
  <2>2. Cardinality(t.events) \in Nat /\ Cardinality(t.events) > Limit
    BY <1>1, <1>3, SeqsIs, FS_CardinalityType, ReadingAssumption
  <2>3. t.events # {}
    BY <2>2, FS_EmptySet, ReadingAssumption
  <2>4. K # {}
    <3> DEFINE S == Seqs(t.events)
               m == Max(S)
    <3>1. S \in SUBSET Nat /\ S # {} /\ \A y \in S : y <= t.through
      BY <1>1, <2>3, SeqsIs DEF Seqs
    <3>2. m \in S /\ \A y \in S : y <= m
      BY <1>1, <3>1, MaxIs
    <3> HIDE DEF m
    <3>3. <<s, m>> \in t.events /\ m \in Nat
      BY <1>1, <3>1, <3>2, SeqsIs
    <3>4. \A q \in t.events : q[2] <= m /\ q[2] \in Nat
      BY <3>1, <3>2 DEF Seqs
    <3>5. Newer(t, <<s, m>>) = {}
      BY <3>3, <3>4 DEF Newer
    <3>6. Cardinality(Newer(t, <<s, m>>)) < Target
      BY <3>5, FS_EmptySet, ReadingAssumption
    <3> QED
      BY <3>3, <3>6 DEF Kept
  <2>5. K \subseteq t.events
    BY DEF Kept
  <2>6. /\ \A r \in K : r = <<s, r[2]>> /\ r[2] \in Nat
        /\ Seqs(K) \in SUBSET Nat /\ Seqs(K) # {}
    BY <1>1, <2>4, <2>5, SeqsIs DEF Seqs
  <2>7. o \in Seqs(K) /\ \A y \in Seqs(K) : o <= y
    BY <2>6, MinIs
  <2>8. c \in Nat
    <3>1. t.cursor \in Nat
      BY <1>1 DEF TranscriptFields
    <3>2. c = Max({t.cursor, t.through})
      BY DEF ReadThrough
    <3> QED
      BY <1>1, <3>1, <3>2, MaxOfTwo
  <2> HIDE DEF o, c
  <2>9. <<s, o>> \in K /\ o \in Nat
    BY <2>6, <2>7 DEF Seqs
  <2>10. \A r \in K : o <= r[2]
    BY <2>7 DEF Seqs
  <2>11. o >= 2
    <3>1. o # 1
      BY <1>1, <2>2, <2>9, FirstIsTrimmed
    <3>2. o # 0
      BY <1>1, <2>5, <2>9, SeqsIs
    <3> QED
      BY <2>9, <3>1, <3>2
  <2> HIDE DEF K
  <2>12. /\ u \in TranscriptFields /\ u.events = K /\ u.oldest = o /\ u.through = t.through
         /\ u.hasMore = TRUE /\ u.ready = t.ready
    <3>1. K \subseteq Sessions \X (Nat \ {0})
      BY <1>1, <2>5 DEF TranscriptFields
    <3> QED
      BY <1>1, <2>8, <2>9, <3>1 DEF TranscriptFields
  <2> HIDE DEF u
  <2>13. Bounded(u, s)
    BY <1>1, <2>4, <2>5, <2>9, <2>10, <2>12 DEF Bounded
  <2>14. Whole(u, s)
    BY <2>4, <2>11, <2>12, <2>13 DEF Whole
  <2>15. ASSUME NEW n \in Nat, Reaches(t, s, n) PROVE Reaches(u, s, n)
    <3>1. \A k \in 1 .. n : k > n - Target => <<s, k>> \in K
      BY <1>1, <2>15, NewestKept DEF K
    <3> QED
      BY <2>5, <2>12, <2>15, <3>1 DEF Reaches
  <2> QED
    BY <2>1, <2>12, <2>14, <2>15
<1> QED
  BY <1>2, <1>3

\* The budget trims or it does not.
LEMMA ReclaimedIs ==
    ASSUME NEW t, NEW s, Whole(t, s)
    PROVE  /\ Whole(Reclaimed(t), s) /\ Reclaimed(t).ready = t.ready
           /\ t.hasMore => Reclaimed(t).hasMore
           /\ \A n \in Nat : Reaches(t, s, n) => Reaches(Reclaimed(t), s, n)
<1>1. Reclaimed(t) = t \/ Reclaimed(t) = Trimmed(t)
  BY DEF Reclaimed
<1> QED
  BY <1>1, TrimmedIs

-----------------------------------------------------------------------------
(* Selection and generations.                                              *)

LEMMA StreamOperators ==
    ASSUME NEW s, NEW p
    PROVE  /\ Logged(s, p) = LoggedOf(s, stream[s], p)
           /\ Sent(s, p) = SentOf(stream[s], p)
           /\ Attempt(s, p) = StartsOf(stream[s], p)
           /\ Active(s, p) <=> ActiveOf(stream[s], p)
           /\ Chunks(s, p) = ChunksOf(stream[s], p)
<1>1. LastMark(s, p) = MarkOf(stream[s], p)
  BY DEF LastMark, MarkOf, MarksOf
<1>2. Active(s, p) <=> ActiveOf(stream[s], p)
  BY <1>1 DEF Active, ActiveOf
<1>3. Chunks(s, p) = ChunksOf(stream[s], p)
  BY <1>1, <1>2 DEF Chunks, ChunksOf
<1> QED
  BY <1>2, <1>3 DEF Logged, LoggedOf, Sent, SentOf, Attempt, StartsOf, Count, CountOf

LEMMA NoTaskIs == NoTask \in TaskFields /\ NoTask.kind = "none"
BY DEF NoTask, TaskFields

\* A read that is told to end asks for nothing, and what it has seen stays.
LEMMA AbortIs ==
    ASSUME NEW t \in TaskFields
    PROVE  /\ Abort(t) \in TaskFields /\ Abort(t).kind = t.kind
           /\ Abort(t).aborted <=> t.kind # "none"
           /\ Covers(t) => Covers(Abort(t))
<1> DEFINE b == (t.kind # "none")
           u == [t EXCEPT !.aborted = b]
<1>1. Abort(t) = u /\ b \in BOOLEAN
  BY DEF Abort
<1> HIDE DEF b
<1>2. /\ u \in TaskFields /\ u.kind = t.kind /\ u.aborted = b
      /\ u.before = t.before /\ u.seen = t.seen /\ u.miss = t.miss
  BY <1>1 DEF TaskFields
<1> HIDE DEF u
<1> QED
  BY <1>1, <1>2 DEF Covers, b

\* With its read cancelled the reader is owed nothing.
LEMMA AbortedReads ==
    ASSUME ReadingInv, task' = Abort(task)
    PROVE  Reads'
<1>1. /\ task' \in TaskFields /\ (task').kind = task.kind
      /\ (task').aborted <=> task.kind # "none"
      /\ task.kind = "search" => Covers(task')
  BY AbortIs DEF ReadingInv, Reads
<1>2. task.kind = "search" => Covers(task)'
  BY <1>1 DEF Covers
<1> QED
  BY <1>1, <1>2 DEF Reads

LEMMA FollowSessionStep ==
    ASSUME ReadingInv, NEW s \in Sessions, FollowSession(s), online' = TRUE,
           chat' \in BOOLEAN, UNCHANGED <<stream, pinned>>
    PROVE  ReadingInv'
<1>1. /\ task' = Abort(task) /\ record' = Blank /\ live' = NotLive /\ at' = 0
      /\ window' = {} /\ session' = s /\ follow' = "opening"
      /\ stream' = stream /\ pinned' = pinned
  BY DEF FollowSession, Reset
<1>2. StreamsProper'
  BY <1>1 DEF ReadingInv, StreamsProper
<1>3. Whole(Blank, s) /\ ~Blank.ready
  BY BlankWhole
<1>4. Followed'
  <2>1. NotLive \in LiveFields /\ pinned \in BOOLEAN /\ s # NoSession
    BY ReadingAssumption DEF NotLive, LiveFields, ReadingInv, Followed
  <2> QED
    BY <1>1, <1>3, <2>1 DEF Followed
<1>5. OnScreen'
  BY <1>1, <1>3 DEF OnScreen, Whole, Bounded
<1>6. Reads'
  BY <1>1, AbortedReads
<1> QED
  BY <1>2, <1>4, <1>5, <1>6 DEF ReadingInv

LEMMA SelectStep ==
    ASSUME ReadingInv, NEW s \in Sessions, Select(s)
    PROVE  ReadingInv'
<1>1. /\ FollowSession(s) /\ chat' = TRUE /\ online' = online /\ online = TRUE
      /\ UNCHANGED <<stream, pinned>>
  BY DEF Select, ReadingInv, Followed
<1> QED
  BY <1>1, FollowSessionStep

LEMMA LeaveStep ==
    ASSUME ReadingInv, Leave
    PROVE  ReadingInv'
<1>1. /\ task' = Abort(task) /\ record' = Blank /\ live' = NotLive /\ at' = 0
      /\ window' = {} /\ session' = NoSession /\ follow' = "none" /\ chat' = FALSE
      /\ stream' = stream /\ pinned' = pinned /\ online' = online
  BY DEF Leave, Reset
<1>2. StreamsProper'
  BY <1>1 DEF ReadingInv, StreamsProper
<1>3. Whole(Blank, NoSession) /\ ~Blank.ready
  BY BlankWhole
<1>4. Followed'
  <2>1. NotLive \in LiveFields /\ pinned \in BOOLEAN /\ online \in BOOLEAN
    BY DEF NotLive, LiveFields, ReadingInv, Followed
  <2> QED
    BY <1>1, <1>3, <2>1 DEF Followed
<1>5. OnScreen'
  BY <1>1, <1>3 DEF OnScreen, Whole, Bounded
<1>6. Reads'
  BY <1>1, AbortedReads
<1> QED
  BY <1>2, <1>4, <1>5, <1>6 DEF ReadingInv

LEMMA PickerStep ==
    ASSUME ReadingInv, Picker
    PROVE  ReadingInv'
<1>1. /\ chat' \in BOOLEAN
      /\ UNCHANGED <<stream, online, session, record, live, at, follow, window, pinned, task>>
  BY DEF Picker, view, ReadingInv, Followed
<1>2. StreamsProper' /\ OnScreen'
  BY <1>1 DEF ReadingInv, StreamsProper, OnScreen
<1>3. Followed'
  BY <1>1 DEF ReadingInv, Followed
<1>4. Reads'
  BY <1>1 DEF ReadingInv, Reads, Covers, Asks
<1> QED
  BY <1>2, <1>3, <1>4 DEF ReadingInv

\* A record that is no longer followed stays as it is.
LEMMA NotReadyIs ==
    ASSUME NEW t, NEW s, Whole(t, s)
    PROVE  LET u == [t EXCEPT !.ready = FALSE] IN
           Whole(u, s) /\ ~u.ready /\ u.hasMore = t.hasMore
<1> DEFINE u == [t EXCEPT !.ready = FALSE]
<1>1. /\ u \in TranscriptFields /\ u.events = t.events /\ u.oldest = t.oldest
      /\ u.through = t.through /\ u.hasMore = t.hasMore /\ u.ready = FALSE
  BY DEF Whole, Bounded, TranscriptFields
<1> HIDE DEF u
<1>2. Whole(u, s)
  BY <1>1 DEF Whole, Bounded
<1> QED
  BY <1>1, <1>2 DEF u

LEMMA DownStep ==
    ASSUME ReadingInv, Down, at' \in Nat,
           UNCHANGED <<stream, session, chat, live, window, pinned>>
    PROVE  ReadingInv'
<1>1. /\ online' = FALSE /\ record' = [record EXCEPT !.ready = FALSE]
      /\ follow' = "none" /\ task' = Abort(task)
  BY DEF Down
<1>2. StreamsProper'
  BY DEF ReadingInv, StreamsProper
<1>3. Whole(record', session) /\ ~(record').ready
  BY <1>1, NotReadyIs DEF ReadingInv, OnScreen
<1>4. Followed'
  BY <1>1, <1>3 DEF ReadingInv, Followed
<1>5. OnScreen'
  BY <1>3 DEF ReadingInv, OnScreen, Whole, Bounded
<1>6. Reads'
  BY <1>1, AbortedReads
<1> QED
  BY <1>2, <1>4, <1>5, <1>6 DEF ReadingInv

LEMMA DisconnectStep ==
    ASSUME ReadingInv, Disconnect
    PROVE  ReadingInv'
<1>1. Down /\ at' \in Nat /\ UNCHANGED <<stream, session, chat, live, window, pinned>>
  BY DEF Disconnect, ReadingInv, Followed
<1> QED
  BY <1>1, DownStep

LEMMA ReconnectStep ==
    ASSUME ReadingInv, Reconnect
    PROVE  ReadingInv'
<1>1. /\ online' = TRUE /\ UNCHANGED <<stream, chat, pinned>> /\ ~online
      /\ chat \in BOOLEAN /\ session \in Sessions \cup {NoSession}
  BY DEF Reconnect, ReadingInv, Followed
<1>2. CASE session # NoSession
  <2>1. FollowSession(session) /\ chat' \in BOOLEAN /\ session \in Sessions
    BY <1>1, <1>2 DEF Reconnect
  <2> QED
    BY <1>1, <2>1, FollowSessionStep
<1>3. CASE session = NoSession
  <2>1. UNCHANGED <<session, record, live, at, follow, window, task>>
    BY <1>3 DEF Reconnect, view
  <2>2. StreamsProper' /\ OnScreen'
    BY <1>1, <2>1 DEF ReadingInv, StreamsProper, OnScreen
  <2>3. Followed'
    BY <1>1, <2>1 DEF ReadingInv, Followed
  <2>4. Reads'
    BY <1>1, <1>3, <2>1 DEF ReadingInv, Reads, Covers, Asks
  <2> QED
    BY <2>2, <2>3, <2>4 DEF ReadingInv
<1> QED
  BY <1>2, <1>3

-----------------------------------------------------------------------------
(* The follow stream.                                                      *)

\* What the invariant says while the stream is open.
LEMMA OpenStream ==
    ASSUME ReadingInv, follow \in {"opening", "open"}
    PROVE  /\ online /\ session \in Sessions
           /\ Proper(stream[session]) /\ stream[session] \in Seq(Frames)
           /\ Len(stream[session]) \in Nat
           /\ at \in Nat /\ live \in LiveFields /\ Whole(record, session)
           /\ record.ready <=> follow = "open"
           /\ record.ready =>
                 /\ at <= Len(stream[session])
                 /\ Reaches(record, session, LoggedOf(session, stream[session], at))
                 /\ Fits(live, stream[session], at)
<1>1. online /\ session \in Sessions
  BY DEF ReadingInv, Followed
<1>2. Proper(stream[session]) /\ stream[session] \in Seq(Frames)
  BY <1>1 DEF ReadingInv, StreamsProper, Proper
<1>3. Len(stream[session]) \in Nat
  BY <1>2
<1> QED
  BY <1>1, <1>2, <1>3 DEF ReadingInv, Followed, OnScreen

LEMMA LoggedTyped ==
    ASSUME NEW s \in Sessions, NEW f, NEW p \in Nat
    PROVE  /\ LoggedOf(s, f, p) \in Nat /\ SentOf(f, p) \in Nat /\ StartsOf(f, p) \in Nat
           /\ LoggedOf(s, f, p + 1) =
                 LoggedOf(s, f, p) + (IF f[p + 1] = "record" THEN 1 ELSE 0)
           /\ SentOf(f, p + 1) =
                 SentOf(f, p) + (IF f[p + 1] \in {"start", "chunk", "end"} THEN 1 ELSE 0)
           /\ StartsOf(f, p + 1) = StartsOf(f, p) + (IF f[p + 1] = "start" THEN 1 ELSE 0)
<1>1. Past[s] \in Nat
  BY ReadingAssumption
<1>2. /\ CountOf(f, p, {"record"}) \in Nat
      /\ CountOf(f, p, {"start", "chunk", "end"}) \in Nat
      /\ CountOf(f, p, {"start"}) \in Nat
  BY CountTyped
<1>3. /\ CountOf(f, p + 1, {"record"}) = CountOf(f, p, {"record"})
              + (IF f[p + 1] \in {"record"} THEN 1 ELSE 0)
      /\ CountOf(f, p + 1, {"start", "chunk", "end"}) = CountOf(f, p, {"start", "chunk", "end"})
              + (IF f[p + 1] \in {"start", "chunk", "end"} THEN 1 ELSE 0)
      /\ CountOf(f, p + 1, {"start"}) = CountOf(f, p, {"start"})
              + (IF f[p + 1] \in {"start"} THEN 1 ELSE 0)
  BY CountNext
<1> QED
  BY <1>1, <1>2, <1>3 DEF LoggedOf, SentOf, StartsOf

LEMMA SnapshotStep ==
    ASSUME ReadingInv, Snapshot
    PROVE  ReadingInv'
<1> DEFINE f == stream[session]
           p == Len(f)
           n == LoggedOf(session, f, p)
           lo == Max({1, n - SnapSize + 1})
           more == (n > SnapSize)
           o == Open([records |-> Span(session, lo, n), hasMore |-> more], n)
<1>1. /\ follow = "opening" /\ follow' = "open" /\ at' = p
      /\ UNCHANGED <<stream, online, session, chat, window, pinned, task>>
  BY DEF Snapshot, Now
<1>2. /\ online /\ session \in Sessions /\ p \in Nat /\ session # NoSession
  BY <1>1, OpenStream, ReadingAssumption
<1>3. n \in Nat /\ SnapSize \in Nat /\ 0 < SnapSize /\ Target <= SnapSize /\ Target \in Nat
  BY <1>2, LoggedTyped, ReadingAssumption
<1>4. record' = Reclaimed(o)
  <2>1. Logged(session, Now(session)) = n
    BY StreamOperators DEF Now
  <2> QED
    BY <2>1 DEF Snapshot
<1>5. /\ (live').revision = SentOf(f, p) /\ (live').shown = ChunksOf(f, p)
      /\ (live').attempt = IF ActiveOf(f, p) THEN StartsOf(f, p) ELSE 0
      /\ live' \in LiveFields
  <2>1. SentOf(f, p) \in Nat /\ StartsOf(f, p) \in Nat /\ ChunksOf(f, p) \in Nat
    BY <1>2, LoggedTyped, ChunksNext
  <2>2. live' = [revision |-> SentOf(f, p), next |-> ChunksOf(f, p), shown |-> ChunksOf(f, p),
                 attempt |-> IF ActiveOf(f, p) THEN StartsOf(f, p) ELSE 0]
    BY <1>1, StreamOperators DEF Snapshot
  <2> HIDE DEF f, p
  <2> QED
    BY <2>1, <2>2 DEF LiveFields
<1> HIDE DEF n
<1>6. lo = IF n >= SnapSize THEN n - SnapSize + 1 ELSE 1
  BY <1>3, MaxOfTwo
<1>7. /\ lo \in Nat \ {0} /\ more \in BOOLEAN
      /\ lo <= n => (more <=> lo > 1)
      /\ n < lo => ~more
      /\ \A k \in 1 .. n : k > n - Target => k \in lo .. n
  BY <1>3, <1>6
<1> HIDE DEF lo, more
<1>8. Whole(o, session) /\ o.ready /\ o.events = Span(session, lo, n)
  BY <1>2, <1>3, <1>7, OpenIs
<1>9. Reaches(o, session, n)
  <2>1. /\ \A r \in o.events : r[2] \in lo .. n
        /\ \A k \in lo .. n : <<session, k>> \in o.events
    BY <1>2, <1>3, <1>7, <1>8, SpanIs
  <2> QED
    BY <1>3, <1>7, <2>1 DEF Reaches
<1> HIDE DEF o
<1>10. Whole(record', session) /\ (record').ready /\ Reaches(record', session, n)
  BY <1>3, <1>4, <1>8, <1>9, ReclaimedIs
<1>11. StreamsProper'
  BY <1>1 DEF ReadingInv, StreamsProper
<1>12. Followed'
  <2>1. Reaches(record', session', LoggedOf(session', (stream')[session'], at'))
    BY <1>1, <1>10 DEF n
  <2>2. Fits(live', (stream')[session'], at') /\ at' <= Len((stream')[session'])
    BY <1>1, <1>2, <1>5, LoggedTyped DEF Fits
  <2> QED
    BY <1>1, <1>2, <1>5, <1>10, <2>1, <2>2 DEF ReadingInv, Followed
<1>13. OnScreen'
  BY <1>1, <1>10 DEF ReadingInv, OnScreen, Whole, Bounded
<1>14. Reads'
  <2>1. ASSUME task.kind \in {"older", "first"}, task.on = "record" PROVE task.aborted
    BY <1>1, <2>1 DEF ReadingInv, Reads, Asks
  <2> QED
    BY <1>1, <2>1 DEF ReadingInv, Reads, Covers, Asks
<1> QED
  BY <1>11, <1>12, <1>13, <1>14 DEF ReadingInv

\* A step that changes the record but neither what is selected nor what is read.
LEMMA RecordStep ==
    ASSUME ReadingInv, follow = "open", at' \in Nat, live' \in LiveFields,
           UNCHANGED <<stream, online, session, chat, follow, window, pinned, task>>,
           Whole(record', session), (record').ready, record.hasMore => (record').hasMore,
           at' <= Len(stream[session]),
           Reaches(record', session, LoggedOf(session, stream[session], at')),
           Fits(live', stream[session], at'),
           LoggedOf(session, stream[session], at) <= LoggedOf(session, stream[session], at'),
           LoggedOf(session, stream[session], at') \in Nat
    PROVE  ReadingInv'
<1>1. StreamsProper'
  BY DEF ReadingInv, StreamsProper
<1>2. Followed'
  BY DEF ReadingInv, Followed
<1>3. OnScreen'
  BY DEF ReadingInv, OnScreen, Whole, Bounded
<1>4. Reads'
  <2>1. task \in TaskFields /\ (task.kind = "search" => Covers(task)')
    BY DEF ReadingInv, Reads, Covers
  <2>2. ASSUME task.kind # "none", ~task.aborted PROVE Asks(task)'
    <3>1. Asks(task) /\ record.ready /\ task.before \in Nat
      BY <2>2 DEF ReadingInv, Reads, Followed, TaskFields
    <3>2. LoggedOf(session, stream[session], at) \in Nat
      BY OpenStream, LoggedTyped
    <3> DEFINE n == LoggedOf(session, stream[session], at)
               m == LoggedOf(session, stream[session], at')
    <3>3. task.before <= n => task.before <= m
      BY <3>1, <3>2
    <3> QED
      BY <3>1, <3>3 DEF Asks
  <2> QED
    BY <2>1, <2>2 DEF Reads
<1> QED
  BY <1>1, <1>2, <1>3, <1>4 DEF ReadingInv

\* The frame that arrives.
LEMMA ArrivingIs ==
    ASSUME ReadingInv, Arriving
    PROVE  /\ follow = "open" /\ online /\ session \in Sessions /\ record.ready
           /\ at \in Nat /\ at + 1 \in Nat /\ at + 1 <= Len(stream[session])
           /\ Frame = stream[session][at + 1] /\ Frame \in Frames
           /\ Frame \in {"chunk", "end"} => ActiveOf(stream[session], at)
           /\ Whole(record, session) /\ live \in LiveFields
           /\ Reaches(record, session, LoggedOf(session, stream[session], at))
           /\ Fits(live, stream[session], at)
<1> DEFINE f == stream[session]
<1>1. follow = "open" /\ at < Len(f)
  BY DEF Arriving, Now
<1>2. /\ online /\ session \in Sessions /\ record.ready /\ at \in Nat /\ Len(f) \in Nat
      /\ Proper(f) /\ f \in Seq(Frames)
      /\ Whole(record, session) /\ live \in LiveFields
      /\ Reaches(record, session, LoggedOf(session, f, at)) /\ Fits(live, f, at)
  BY <1>1, OpenStream
<1>3. at + 1 \in 1 .. Len(f) /\ (at + 1) - 1 = at
  BY <1>1, <1>2
<1>4. f[at + 1] \in Frames
  BY <1>2, <1>3
<1>5. f[at + 1] \in {"chunk", "end"} => ActiveOf(f, at)
  BY <1>2, <1>3 DEF Proper
<1> QED
  BY <1>1, <1>2, <1>3, <1>4, <1>5 DEF Frame

LEMMA RecordFrameStep ==
    ASSUME ReadingInv, RecordFrame
    PROVE  ReadingInv'
<1> DEFINE f == stream[session]
           n == LoggedOf(session, f, at)
           m == n + 1
           a == AddRecords(record, Span(session, m, m))
<1>1. /\ Arriving /\ Frame = "record" /\ at' = at + 1
      /\ UNCHANGED <<stream, online, session, chat, live, follow, window, pinned, task>>
  BY DEF RecordFrame, Arrives
<1>2. /\ follow = "open" /\ session \in Sessions /\ record.ready /\ at \in Nat
      /\ at + 1 \in Nat /\ at + 1 <= Len(f) /\ f[at + 1] = "record"
      /\ Whole(record, session) /\ live \in LiveFields
      /\ Reaches(record, session, n) /\ Fits(live, f, at)
  BY <1>1, ArrivingIs
<1>3. n \in Nat /\ LoggedOf(session, f, at + 1) = m
  BY <1>2, LoggedTyped
<1>4. record' = Reclaimed(a)
  <2>1. Logged(session, at') = m
    BY <1>1, <1>3, StreamOperators
  <2> QED
    BY <2>1 DEF RecordFrame
<1> HIDE DEF n
<1>5. Whole(a, session) /\ Reaches(a, session, m) /\ a.ready /\ a.hasMore = record.hasMore
  BY <1>2, <1>3, RecordAdded
<1> HIDE DEF a
<1>6. m \in Nat /\ n <= m
  BY <1>3
<1> HIDE DEF m
<1>7. /\ Whole(record', session) /\ (record').ready /\ Reaches(record', session, m)
      /\ record.hasMore => (record').hasMore
  BY <1>4, <1>5, <1>6, ReclaimedIs
<1>8. Fits(live, f, at + 1)
  <2>1. SentOf(f, at + 1) = SentOf(f, at) /\ StartsOf(f, at + 1) = StartsOf(f, at)
    <3>1. /\ SentOf(f, at) \in Nat /\ StartsOf(f, at) \in Nat
          /\ SentOf(f, at + 1) = SentOf(f, at)
                 + (IF f[at + 1] \in {"start", "chunk", "end"} THEN 1 ELSE 0)
          /\ StartsOf(f, at + 1) = StartsOf(f, at) + (IF f[at + 1] = "start" THEN 1 ELSE 0)
      BY <1>2, LoggedTyped
    <3> QED
      BY <1>2, <3>1
  <2>2. ActiveOf(f, at + 1) <=> ActiveOf(f, at)
    BY <1>2, ActiveNext
  <2>3. ChunksOf(f, at + 1) = ChunksOf(f, at)
    BY <1>2, ChunksNext
  <2> QED
    BY <1>2, <2>1, <2>2, <2>3 DEF Fits
<1> QED
  <2>1. /\ at' \in Nat /\ live' \in LiveFields /\ at' <= Len(f)
        /\ Reaches(record', session, LoggedOf(session, f, at')) /\ Fits(live', f, at')
        /\ n <= LoggedOf(session, f, at') /\ LoggedOf(session, f, at') \in Nat
    BY <1>1, <1>2, <1>3, <1>6, <1>7, <1>8
  <2> QED
    BY <1>1, <1>2, <1>7, <2>1, RecordStep DEF n

LEMMA FitsIs ==
    ASSUME NEW l, NEW f, NEW q, l.revision <= SentOf(f, q), l.shown = ChunksOf(f, q),
           \/ ActiveOf(f, q) /\ l.attempt = StartsOf(f, q)
           \/ ~ActiveOf(f, q) /\ l.attempt = 0
    PROVE  Fits(l, f, q)
<1>1. l.attempt = IF ActiveOf(f, q) THEN StartsOf(f, q) ELSE 0
  OBVIOUS
<1> QED
  BY <1>1, Zenon DEF Fits

\* A frame that follows the last one applied leaves the answer that of its attempt.
LEMMA AppliedFits ==
    ASSUME ReadingInv, Arriving, Frame \in {"start", "chunk", "end"}, InSequence
    PROVE  Applied \in LiveFields /\ Fits(Applied, stream[session], at + 1)
<1> DEFINE f == stream[session]
           q == at + 1
<1>1. /\ session \in Sessions /\ at \in Nat /\ Frame = f[q] /\ live \in LiveFields
      /\ Fits(live, f, at) /\ (Frame \in {"chunk", "end"} => ActiveOf(f, at))
  BY ArrivingIs
<1>2. /\ SentOf(f, at) \in Nat /\ StartsOf(f, at) \in Nat /\ StartsOf(f, q) \in Nat
      /\ SentOf(f, q) = SentOf(f, at) + 1
      /\ StartsOf(f, q) = StartsOf(f, at) + (IF Frame = "start" THEN 1 ELSE 0)
      /\ ChunksOf(f, at) \in Nat
  BY <1>1, LoggedTyped, ChunksNext
<1>3. /\ live.revision \in Nat /\ live.next \in Nat /\ live.shown \in Nat
      /\ live.attempt \in Nat
  BY <1>1 DEF LiveFields
<1>4. SentOf(f, q) = live.revision + 1 /\ Attempt(session, q) = StartsOf(f, q)
  BY StreamOperators DEF InSequence
<1>5. live.revision = SentOf(f, at)
  BY <1>2, <1>3, <1>4
<1>6. live.shown = ChunksOf(f, at) /\ live.attempt = IF ActiveOf(f, at) THEN StartsOf(f, at) ELSE 0
  BY <1>1, <1>5 DEF Fits
<1>7. CASE Frame = "start"
  <2>1. Applied = [revision |-> live.revision + 1, attempt |-> StartsOf(f, q),
                   next |-> 0, shown |-> 0]
    BY <1>4, <1>7 DEF Applied
  <2> HIDE DEF f
  <2>2. ActiveOf(f, q)
    BY <1>1, <1>7, ActiveNext
  <2>3. ChunksOf(f, q) = 0
    <3>1. at \in Nat /\ f[at + 1] = "start"
      BY <1>1, <1>7
    <3> QED
      BY <3>1, ChunksNext
  <2> DEFINE v == live.revision + 1
  <2>4. v = SentOf(f, q) /\ v \in Nat /\ v <= v
    BY <1>3, <1>4
  <2> HIDE DEF q, v
  <2>5. /\ Applied \in LiveFields /\ Applied.revision = v
        /\ Applied.shown = 0 /\ Applied.attempt = StartsOf(f, q)
    BY <1>2, <2>1, <2>4 DEF LiveFields, v
  <2> QED
    <3>1. Applied.revision <= SentOf(f, q) /\ Applied.shown = ChunksOf(f, q)
      BY <2>3, <2>4, <2>5
    <3>2. Fits(Applied, f, q)
      BY <2>2, <2>5, <3>1, FitsIs
    <3> QED
      BY <2>5, <3>2 DEF f, q
<1>8. CASE Frame = "chunk"
  <2> DEFINE v == live.revision + 1
             x == live.next + 1
             h == live.shown + 1
             l == [live EXCEPT !.revision = v, !.next = x, !.shown = h]
  <2>1. Applied = l /\ v \in Nat /\ x \in Nat /\ h \in Nat
    BY <1>3, <1>8 DEF Applied
  <2>2. ActiveOf(f, q) /\ ChunksOf(f, q) = ChunksOf(f, at) + 1 /\ ActiveOf(f, at)
    BY <1>1, <1>8, ActiveNext, ChunksNext
  <2>3. v = SentOf(f, q) /\ h = ChunksOf(f, q) /\ live.attempt = StartsOf(f, q)
    BY <1>2, <1>4, <1>6, <1>8, <2>2
  <2> HIDE DEF f, q, v, x, h
  <2>4. /\ l \in LiveFields /\ l.revision = v /\ l.shown = h /\ l.attempt = live.attempt
    BY <1>1, <2>1 DEF LiveFields
  <2> HIDE DEF l
  <2>5. l.revision <= SentOf(f, q)
    BY <2>1, <2>3, <2>4
  <2> QED
    <3>1. l.shown = ChunksOf(f, q) /\ l.attempt = StartsOf(f, q)
      BY <2>3, <2>4
    <3>2. Fits(l, f, q)
      BY <2>2, <2>5, <3>1, FitsIs
    <3> QED
      BY <2>1, <2>4, <3>2 DEF f, q
<1>9. CASE Frame = "end"
  <2> DEFINE v == live.revision + 1
             l == [live EXCEPT !.revision = v, !.attempt = 0, !.shown = 0]
  <2>1. Applied = l /\ v \in Nat
    BY <1>3, <1>9 DEF Applied
  <2> HIDE DEF f
  <2>2. ~ActiveOf(f, q)
    BY <1>1, <1>9, ActiveNext
  <2>3. ChunksOf(f, q) = 0
    <3>1. at \in Nat /\ f[at + 1] = "end"
      BY <1>1, <1>9
    <3> QED
      BY <3>1, ChunksNext
  <2>4. v = SentOf(f, q)
    BY <1>4
  <2> HIDE DEF q, v
  <2>5. l \in LiveFields /\ l.revision = v /\ l.shown = 0 /\ l.attempt = 0
    BY <1>1, <2>1 DEF LiveFields
  <2> HIDE DEF l
  <2>6. l.revision <= SentOf(f, q)
    BY <2>1, <2>4, <2>5
  <2> QED
    <3>1. l.shown = ChunksOf(f, q)
      BY <2>3, <2>5
    <3>2. Fits(l, f, q)
      BY <2>2, <2>5, <2>6, <3>1, FitsIs
    <3> QED
      BY <2>1, <2>5, <3>2 DEF f, q
<1> QED
  BY <1>7, <1>8, <1>9

\* An assistant frame brings no record.
LEMMA NoRecordCame ==
    ASSUME ReadingInv, Arriving, Frame # "record"
    PROVE  /\ LoggedOf(session, stream[session], at + 1) = LoggedOf(session, stream[session], at)
           /\ LoggedOf(session, stream[session], at) \in Nat
           /\ SentOf(stream[session], at + 1) = SentOf(stream[session], at) + 1
           /\ SentOf(stream[session], at) \in Nat
<1>1. /\ session \in Sessions /\ at \in Nat
      /\ stream[session][at + 1] \in {"start", "chunk", "end"}
  BY ArrivingIs DEF Frames
<1> QED
  BY <1>1, LoggedTyped

LEMMA AssistantFrameStep ==
    ASSUME ReadingInv, AssistantFrame
    PROVE  ReadingInv'
<1>1. /\ Arriving /\ Frame \in {"start", "chunk", "end"} /\ at' = at + 1
      /\ UNCHANGED <<stream, session, chat, window, pinned>>
  BY DEF AssistantFrame, Arrives
<1>2. /\ follow = "open" /\ at + 1 \in Nat /\ at + 1 <= Len(stream[session])
      /\ record.ready /\ Whole(record, session)
      /\ Reaches(record, session, LoggedOf(session, stream[session], at))
  BY <1>1, ArrivingIs
<1>3. CASE InSequence
  <2>1. live' = Applied /\ record' = Reclaimed(record) /\ UNCHANGED <<online, follow, task>>
    BY <1>3 DEF AssistantFrame
  <2>2. live' \in LiveFields /\ Fits(live', stream[session], at')
    BY <1>1, <1>3, <2>1, AppliedFits
  <2>3. /\ LoggedOf(session, stream[session], at') = LoggedOf(session, stream[session], at)
        /\ LoggedOf(session, stream[session], at) \in Nat
    BY <1>1, NoRecordCame
  <2>4. /\ Whole(record', session) /\ (record').ready
        /\ Reaches(record', session, LoggedOf(session, stream[session], at'))
        /\ record.hasMore => (record').hasMore
    BY <1>2, <2>1, <2>3, ReclaimedIs
  <2>5. /\ LoggedOf(session, stream[session], at) <= LoggedOf(session, stream[session], at')
        /\ LoggedOf(session, stream[session], at') \in Nat
    BY <2>3
  <2> QED
    BY <1>1, <1>2, <2>1, <2>2, <2>4, <2>5, RecordStep
<1>4. CASE ~InSequence
  <2>1. Down /\ live' = live
    BY <1>4 DEF AssistantFrame
  <2> QED
    BY <1>1, <1>2, <2>1, DownStep
<1> QED
  BY <1>3, <1>4

LEMMA FrameLostStep ==
    ASSUME ReadingInv, FrameLost
    PROVE  ReadingInv'
<1>1. /\ Arriving /\ Frame # "record" /\ at' = at + 1
      /\ UNCHANGED <<stream, online, session, chat, record, live, follow, window, pinned, task>>
  BY DEF FrameLost
<1>2. /\ follow = "open" /\ at + 1 \in Nat /\ at + 1 <= Len(stream[session])
      /\ record.ready /\ Whole(record, session) /\ live \in LiveFields
      /\ Reaches(record, session, LoggedOf(session, stream[session], at))
      /\ Fits(live, stream[session], at)
  BY <1>1, ArrivingIs
<1>3. /\ LoggedOf(session, stream[session], at') = LoggedOf(session, stream[session], at)
      /\ LoggedOf(session, stream[session], at) \in Nat
  BY <1>1, NoRecordCame
<1>4. Fits(live, stream[session], at')
  <2>1. live.revision \in Nat
    BY <1>2 DEF LiveFields
  <2>2. live.revision < SentOf(stream[session], at')
    BY <1>1, <1>2, <2>1, NoRecordCame DEF Fits
  <2>3. SentOf(stream[session], at') \in Nat
    BY <1>1, NoRecordCame
  <2> QED
    BY <2>1, <2>2, <2>3 DEF Fits
<1>5. /\ Reaches(record', session, LoggedOf(session, stream[session], at'))
      /\ LoggedOf(session, stream[session], at) <= LoggedOf(session, stream[session], at')
      /\ LoggedOf(session, stream[session], at') \in Nat
  BY <1>1, <1>2, <1>3
<1> QED
  BY <1>1, <1>2, <1>4, <1>5, RecordStep

LEMMA StreamEndsStep ==
    ASSUME ReadingInv, StreamEnds
    PROVE  ReadingInv'
<1>1. /\ follow \in {"opening", "open"} /\ follow' = "ended"
      /\ record' = [record EXCEPT !.ready = FALSE]
      /\ UNCHANGED <<stream, online, session, chat, live, at, window, pinned, task>>
  BY DEF StreamEnds
<1>2. StreamsProper'
  BY <1>1 DEF ReadingInv, StreamsProper
<1>3. Whole(record', session) /\ ~(record').ready /\ (record').hasMore = record.hasMore
  BY <1>1, NotReadyIs DEF ReadingInv, OnScreen
<1>4. Followed'
  BY <1>1, <1>3 DEF ReadingInv, Followed
<1>5. OnScreen'
  BY <1>1, <1>3 DEF ReadingInv, OnScreen, Whole, Bounded
<1>6. Reads'
  BY <1>1, <1>3 DEF ReadingInv, Reads, Covers, Asks
<1> QED
  BY <1>2, <1>4, <1>5, <1>6 DEF ReadingInv

\* What one more frame changes of a stream is in its last place.
LEMMA ProperNext ==
    ASSUME NEW f, Proper(f), NEW x \in Frames,
           x \in {"chunk", "end"} => ActiveOf(f, Len(f))
    PROVE  /\ Proper(Append(f, x)) /\ Len(Append(f, x)) = Len(f) + 1
           /\ \A p \in 0 .. Len(f) : \A i \in 1 .. p : Append(f, x)[i] = f[i]
<1> DEFINE g == Append(f, x)
<1>1. f \in Seq(Frames) /\ Len(f) \in Nat
  BY DEF Proper
<1>2. /\ g \in Seq(Frames) /\ Len(g) = Len(f) + 1 /\ g[Len(f) + 1] = x
      /\ \A i \in 1 .. Len(f) : g[i] = f[i]
  BY <1>1, AppendProperties
<1> HIDE DEF g
<1>3. \A p \in 0 .. Len(f) : \A i \in 1 .. p : g[i] = f[i]
  BY <1>1, <1>2
<1>4. ASSUME NEW p \in 0 .. Len(f)
      PROVE  ActiveOf(g, p) = ActiveOf(f, p)
  <2>1. p \in Nat /\ \A i \in 1 .. p : g[i] = f[i]
    BY <1>1, <1>3
  <2> QED
    BY <2>1, PrefixSame
<1>5. ASSUME NEW i \in 1 .. Len(g), g[i] \in {"chunk", "end"}
      PROVE  ActiveOf(g, i - 1)
  <2>1. CASE i \in 1 .. Len(f)
    <3>1. g[i] = f[i] /\ i - 1 \in 0 .. Len(f)
      BY <1>1, <1>2, <2>1
    <3>2. ActiveOf(f, i - 1)
      BY <1>5, <2>1, <3>1 DEF Proper
    <3> QED
      BY <1>4, <3>1, <3>2
  <2>2. CASE i = Len(f) + 1
    <3>1. i - 1 = Len(f) /\ Len(f) \in 0 .. Len(f)
      BY <1>1, <2>2
    <3>2. ActiveOf(f, Len(f))
      BY <1>2, <1>5, <2>2
    <3> QED
      BY <1>4, <3>1, <3>2
  <2> QED
    BY <1>1, <1>2, <2>1, <2>2
<1> QED
  BY <1>2, <1>3, <1>5 DEF Proper, g

LEMMA TalkStep ==
    ASSUME ReadingInv, NEW s \in Talking, NEW frame \in Frames, Talk(s, frame)
    PROVE  ReadingInv'
<1> DEFINE f == stream[s]
           g == Append(f, frame)
<1>1. /\ s \in Sessions /\ stream \in [Sessions -> Seq(Frames)]
      /\ Proper(f) /\ Len(f) < MaxFrames /\ Len(f) \in Nat
  BY ReadingAssumption DEF Talk, Now, ReadingInv, StreamsProper, Proper
<1>2. /\ stream' = [stream EXCEPT ![s] = g]
      /\ UNCHANGED <<online, session, chat, record, live, at, follow, window, pinned, task>>
  BY DEF Talk, view
<1>3. frame \in {"chunk", "end"} => ActiveOf(f, Len(f))
  BY StreamOperators DEF Talk, Now
<1>4. /\ Proper(g) /\ Len(g) = Len(f) + 1
      /\ \A p \in 0 .. Len(f) : \A i \in 1 .. p : g[i] = f[i]
  BY <1>1, <1>3, ProperNext
<1> HIDE DEF g
<1>5. (stream')[s] = g /\ \A r \in Sessions : r # s => (stream')[r] = stream[r]
  BY <1>1, <1>2
<1>6. g \in Seq(Frames)
  BY <1>4 DEF Proper
<1>7. StreamsProper'
  <2>1. stream' \in [Sessions -> Seq(Frames)]
    BY <1>1, <1>2, <1>6
  <2>2. MaxFrames \in Nat /\ Len(g) <= MaxFrames
    BY <1>1, <1>4, ReadingAssumption
  <2>3. ASSUME NEW r \in Sessions
        PROVE  Proper((stream')[r]) /\ Len((stream')[r]) <= MaxFrames
    BY <1>4, <1>5, <2>2 DEF ReadingInv, StreamsProper
  <2> QED
    BY <2>1, <2>3 DEF StreamsProper
<1>8. ASSUME record.ready
      PROVE  /\ at <= Len((stream')[session])
             /\ LoggedOf(session, (stream')[session], at) = LoggedOf(session, stream[session], at)
             /\ Fits(live, (stream')[session], at)
  <2>1. /\ session \in Sessions /\ at \in 0 .. Len(stream[session]) /\ at \in Nat
        /\ Fits(live, stream[session], at)
    BY <1>8, OpenStream DEF ReadingInv, Followed
  <2>2. CASE session # s
    BY <1>5, <2>1, <2>2
  <2>3. CASE session = s
    <3>1. \A i \in 1 .. at : g[i] = f[i]
      BY <1>4, <2>1, <2>3
    <3>2. /\ \A K : CountOf(g, at, K) = CountOf(f, at, K)
          /\ ActiveOf(g, at) = ActiveOf(f, at) /\ ChunksOf(g, at) = ChunksOf(f, at)
      BY <2>1, <3>1, PrefixSame
    <3>3. /\ LoggedOf(s, g, at) = LoggedOf(s, f, at) /\ SentOf(g, at) = SentOf(f, at)
          /\ StartsOf(g, at) = StartsOf(f, at)
      BY <3>2 DEF LoggedOf, SentOf, StartsOf
    <3>4. Fits(live, g, at)
      BY <2>1, <2>3, <3>2, <3>3 DEF Fits
    <3>5. at <= Len(g)
      BY <1>1, <1>4, <2>1, <2>3
    <3> QED
      BY <1>5, <2>3, <3>3, <3>4, <3>5
  <2> QED
    BY <2>2, <2>3
<1>9. Followed'
  BY <1>2, <1>8 DEF ReadingInv, Followed
<1>10. OnScreen'
  BY <1>2 DEF ReadingInv, OnScreen
<1>11. Reads'
  BY <1>2, <1>8 DEF ReadingInv, Reads, Covers, Asks
<1> QED
  BY <1>7, <1>9, <1>10, <1>11 DEF ReadingInv

-----------------------------------------------------------------------------
(* The reader.                                                             *)

LEMMA PinHistoryStep ==
    ASSUME ReadingInv, PinHistory
    PROVE  ReadingInv'
<1>1. /\ pinned' \in BOOLEAN /\ (record' = record \/ record' = Trimmed(record))
      /\ UNCHANGED <<stream, online, session, chat, live, at, follow, window, task>>
  BY DEF PinHistory
<1>2. Whole(record, session)
  BY DEF ReadingInv, OnScreen
<1>3. /\ Whole(record', session) /\ (record').ready = record.ready
      /\ record.hasMore => (record').hasMore
      /\ \A n \in Nat : Reaches(record, session, n) => Reaches(record', session, n)
  BY <1>1, <1>2, TrimmedIs
<1>4. StreamsProper'
  BY <1>1 DEF ReadingInv, StreamsProper
<1>5. ASSUME record.ready
      PROVE  Reaches(record', session, LoggedOf(session, stream[session], at))
  <2>1. /\ session \in Sessions /\ at \in Nat
        /\ Reaches(record, session, LoggedOf(session, stream[session], at))
    BY <1>5, OpenStream DEF ReadingInv, Followed
  <2>2. LoggedOf(session, stream[session], at) \in Nat
    BY <2>1, LoggedTyped
  <2> QED
    BY <1>3, <2>1, <2>2
<1>6. Followed'
  BY <1>1, <1>3, <1>5 DEF ReadingInv, Followed
<1>7. OnScreen'
  BY <1>1, <1>3 DEF ReadingInv, OnScreen, Whole, Bounded
<1>8. Reads'
  BY <1>1, <1>3 DEF ReadingInv, Reads, Covers, Asks
<1> QED
  BY <1>4, <1>6, <1>7, <1>8 DEF ReadingInv

LEMMA ShowLatestStep ==
    ASSUME ReadingInv, ShowLatest
    PROVE  ReadingInv'
<1>1. /\ window' = {} /\ task' = IF task.on = "window" THEN Abort(task) ELSE task
      /\ UNCHANGED <<stream, online, session, chat, record, live, at, follow, pinned>>
  BY DEF ShowLatest, Closing
<1>2. StreamsProper' /\ Followed'
  BY <1>1 DEF ReadingInv, StreamsProper, Followed
<1>3. OnScreen'
  BY <1>1 DEF ReadingInv, OnScreen
<1>4. Reads'
  <2>1. CASE task.on = "window"
    BY <1>1, <2>1, AbortedReads
  <2>2. CASE task.on # "window"
    BY <1>1, <2>2 DEF ReadingInv, Reads, Covers, Asks
  <2> QED
    BY <2>1, <2>2
<1> QED
  BY <1>2, <1>3, <1>4 DEF ReadingInv

\* A step that only begins a read.
LEMMA AskStep ==
    ASSUME ReadingInv, UNCHANGED <<stream, online, session, chat, view, pinned>>,
           task' \in TaskFields, ~(task').aborted,
           (task').kind = "search" => Covers(task'), Asks(task')
    PROVE  ReadingInv'
<1>1. UNCHANGED <<record, live, at, follow, window>>
  BY DEF view
<1>2. StreamsProper' /\ Followed' /\ OnScreen'
  BY <1>1 DEF ReadingInv, StreamsProper, Followed, OnScreen
<1>3. Reads'
  BY <1>1 DEF Reads, Covers, Asks
<1> QED
  BY <1>2, <1>3 DEF ReadingInv

\* A record that is ready and has more begins after the first, within what was logged.
LEMMA OlderIs ==
    ASSUME ReadingInv, record.ready, record.hasMore
    PROVE  /\ online /\ session # NoSession /\ follow = "open" /\ Bounded(record, session)
           /\ record.oldest \in Nat /\ record.oldest >= 2 /\ record.through \in Nat
           /\ <<session, record.oldest>> \in record.events
           /\ record.oldest <= LoggedOf(session, stream[session], at)
<1>1. /\ online /\ session # NoSession /\ follow = "open"
      /\ Whole(record, session)
      /\ Reaches(record, session, LoggedOf(session, stream[session], at))
  BY DEF ReadingInv, Followed, OnScreen
<1>2. /\ Bounded(record, session) /\ record.oldest >= 2
      /\ <<session, record.oldest>> \in record.events
  BY <1>1 DEF Whole, Bounded
<1>3. record.oldest <= LoggedOf(session, stream[session], at)
  BY <1>1, <1>2 DEF Reaches
<1>4. record.oldest \in Nat /\ record.through \in Nat
  BY <1>2 DEF Bounded, TranscriptFields
<1> QED
  BY <1>1, <1>2, <1>3, <1>4

LEMMA DisplayedIs ==
    ASSUME window # {}
    PROVE  Displayed \in window
BY DEF Displayed

LEMMA OlderStep ==
    ASSUME ReadingInv, NEW on \in {"record", "window"}, Older(on)
    PROVE  ReadingInv'
<1> DEFINE t == IF on = "window" THEN Displayed ELSE record
<1>1. /\ Free /\ (on = "window" => window # {}) /\ t.ready /\ t.hasMore
      /\ task' = [NoTask EXCEPT !.kind = "older", !.on = on, !.before = t.oldest]
      /\ UNCHANGED <<stream, online, session, chat, view, pinned>>
  BY DEF Older
<1>2. online /\ session # NoSession
  BY <1>1 DEF Free
<1>3. t.oldest \in Nat /\ t.oldest >= 2
  <2>1. Whole(t, session)
    BY <1>1, DisplayedIs DEF ReadingInv, OnScreen
  <2> QED
    BY <1>1, <2>1 DEF Whole, Bounded, TranscriptFields
<1>4. ASSUME on = "record"
      PROVE  /\ record.hasMore /\ follow = "open"
             /\ t.oldest <= LoggedOf(session, stream[session], at)
  BY <1>1, <1>4, OlderIs
<1>5. ASSUME on = "window"
      PROVE  window # {} /\ \A w \in window : w.hasMore
  BY <1>1, <1>5, DisplayedIs DEF ReadingInv, OnScreen
<1> DEFINE b == t.oldest
<1> HIDE DEF b
<1>6. /\ task' \in TaskFields /\ (task').kind = "older" /\ (task').on = on
      /\ (task').before = b /\ ~(task').aborted
  BY <1>1, <1>3 DEF NoTask, TaskFields, b
<1>7. Asks(task')
  BY <1>2, <1>3, <1>4, <1>5, <1>6 DEF Asks, b
<1> QED
  BY <1>1, <1>6, <1>7, AskStep

LEMMA FirstStep ==
    ASSUME ReadingInv, First
    PROVE  ReadingInv'
<1>1. /\ record.ready /\ record.hasMore
      /\ task' = [NoTask EXCEPT !.kind = "first", !.before = record.oldest]
      /\ UNCHANGED <<stream, online, session, chat, view, pinned>>
  BY DEF First
<1>2. /\ online /\ session # NoSession /\ follow = "open"
      /\ record.oldest \in Nat /\ record.oldest >= 2
      /\ record.oldest <= LoggedOf(session, stream[session], at)
  BY <1>1, OlderIs
<1>3. /\ task' \in TaskFields /\ (task').kind = "first" /\ (task').on = "record"
      /\ (task').before = record.oldest /\ ~(task').aborted
  BY <1>1, <1>2 DEF NoTask, TaskFields
<1>4. Asks(task')
  BY <1>1, <1>2, <1>3 DEF Asks
<1> QED
  BY <1>1, <1>3, <1>4, AskStep

LEMMA SearchStep ==
    ASSUME ReadingInv, Search
    PROVE  ReadingInv'
<1> DEFINE S == Seqs(record.events)
           H == Holes(record)
<1>1. /\ record.ready /\ record.hasMore
      /\ task' = [NoTask EXCEPT !.kind = "search", !.before = record.oldest,
                                !.seen = S, !.miss = H]
      /\ UNCHANGED <<stream, online, session, chat, view, pinned>>
  BY DEF Search
<1>2. /\ online /\ session # NoSession /\ Bounded(record, session)
      /\ record.oldest \in Nat /\ record.oldest >= 2 /\ record.through \in Nat
      /\ <<session, record.oldest>> \in record.events
  BY <1>1, OlderIs
<1>3. S \subseteq 1 .. record.through /\ record.oldest \in S
  BY <1>2, SeqsIs
<1>4. H = (record.oldest .. record.through) \ S
  BY DEF Holes
<1>5. S \in SUBSET Nat /\ H \in SUBSET Nat
  BY <1>2, <1>3, <1>4
<1> HIDE DEF S, H
<1> DEFINE m == Max(S)
<1>6. m \in S /\ \A n \in S : n <= m
  <2>1. \A n \in S : n <= record.through
    BY <1>2, <1>3
  <2> QED
    BY <1>2, <1>3, <1>5, <2>1, MaxIs
<1> HIDE DEF m
<1>7. /\ task' \in TaskFields /\ (task').kind = "search" /\ (task').seen = S
      /\ (task').miss = H /\ (task').before = record.oldest /\ ~(task').aborted
  BY <1>1, <1>2, <1>5 DEF NoTask, TaskFields
<1>8. record.oldest <= m
  BY <1>3, <1>6
<1>9. \A n \in S : record.oldest .. n \subseteq S \cup H
  <2> SUFFICES ASSUME NEW n \in S, NEW k \in record.oldest .. n
               PROVE  k \in S \cup H
    OBVIOUS
  <2>1. k \in record.oldest .. record.through
    BY <1>2, <1>3
  <2> QED
    BY <1>4, <2>1
<1>10. Covers(task')
  BY <1>6, <1>7, <1>8, <1>9 DEF Covers
<1>11. Asks(task')
  BY <1>2, <1>7 DEF Asks
<1> QED
  BY <1>1, <1>7, <1>10, <1>11, AskStep

LEMMA JumpWithinStep ==
    ASSUME ReadingInv, NEW n, JumpWithin(n)
    PROVE  ReadingInv'
<1>1. /\ window' = {} /\ task.kind = "none"
      /\ UNCHANGED <<stream, online, session, chat, record, live, at, follow, pinned, task>>
  BY DEF JumpWithin, Free
<1>2. StreamsProper' /\ Followed' /\ OnScreen'
  BY <1>1 DEF ReadingInv, StreamsProper, Followed, OnScreen
<1>3. Reads'
  BY <1>1 DEF ReadingInv, Reads
<1> QED
  BY <1>2, <1>3 DEF ReadingInv

LEMMA JumpStep ==
    ASSUME ReadingInv, NEW n, Jump(n)
    PROVE  ReadingInv'
<1>1. /\ online /\ session # NoSession /\ n \in 1 .. ReadThrough(record)
      /\ task' = [NoTask EXCEPT !.kind = "jump", !.before = n + 1]
      /\ UNCHANGED <<stream, online, session, chat, view, pinned>>
  BY DEF Jump, Free
<1>2. n + 1 \in Nat /\ n + 1 >= 2
  <2>1. record.cursor \in Nat /\ record.through \in Nat
    BY DEF ReadingInv, OnScreen, Whole, Bounded, TranscriptFields
  <2>2. ReadThrough(record) \in Nat
    BY <2>1, MaxOfTwo DEF ReadThrough
  <2> QED
    BY <1>1, <2>2
<1> DEFINE b == n + 1
<1> HIDE DEF b
<1>3. /\ task' \in TaskFields /\ (task').kind = "jump" /\ (task').before = b
      /\ ~(task').aborted
  BY <1>1, <1>2 DEF NoTask, TaskFields, b
<1>4. Asks(task')
  BY <1>1, <1>2, <1>3 DEF Asks, b
<1> QED
  BY <1>1, <1>3, <1>4, AskStep

-----------------------------------------------------------------------------
(* Answers.                                                                *)

\* A step that ends the read and adds to what is on screen.
LEMMA EndOfRead ==
    ASSUME ReadingInv, StreamsProper', Followed', OnScreen', task' = NoTask
    PROVE  ReadingInv'
<1>1. Reads'
  BY NoTaskIs DEF Reads
<1> QED
  BY <1>1 DEF ReadingInv

\* The page that a read in flight takes: the one it asked for, or an empty one.
Pages == {Page(session, task.before), [records |-> {}, hasMore |-> TRUE]}

LEMMA PageAddedStep ==
    ASSUME ReadingInv, NEW page \in Pages, task.kind \in {"older", "first"}, Current,
           PageAdded(page), UNCHANGED <<stream, online, session, chat, live, at, follow, pinned>>
    PROVE  ReadingInv'
<1> DEFINE d == IF task.on = "window" THEN Displayed ELSE record
           t == AddPage(d, page)
           n == LoggedOf(session, stream[session], at)
<1>1. /\ task \in TaskFields /\ task.before \in Nat /\ task.before >= 2 /\ Asks(task)
      /\ session \in Sessions /\ task.on \in {"record", "window"}
  <2>1. task \in TaskFields /\ Asks(task)
    BY DEF ReadingInv, Reads, Current
  <2> QED
    BY <2>1 DEF Asks, TaskFields, ReadingInv, Followed
<1>2. Whole(d, session) /\ d.hasMore
  BY <1>1, DisplayedIs DEF ReadingInv, OnScreen, Asks
<1>3. /\ Whole(t, session) /\ t.ready = d.ready /\ d.events \subseteq t.events
      /\ \A r \in t.events \ d.events : r[2] < task.before
  BY <1>1, <1>2, AddPageIs DEF Pages
<1>4. /\ IF task.on = "window" THEN window' = {t} /\ UNCHANGED record
                               ELSE record' = t /\ UNCHANGED window
      /\ IF task.kind = "first" /\ t.hasMore /\ t.oldest < task.before THEN Again(t)
                                                                       ELSE task' = NoTask
  BY DEF PageAdded
<1>5. StreamsProper'
  BY DEF ReadingInv, StreamsProper
<1>6. CASE task.on = "window"
  <2>1. window' = {t} /\ record' = record /\ task' = NoTask
    BY <1>1, <1>4, <1>6 DEF Asks
  <2> HIDE DEF t
  <2>2. Followed'
    BY <2>1 DEF ReadingInv, Followed
  <2>3. OnScreen'
    BY <1>3, <2>1 DEF ReadingInv, OnScreen, Whole, Bounded
  <2> QED
    BY <1>5, <2>1, <2>2, <2>3, EndOfRead
<1>7. CASE task.on = "record"
  <2>1. d = record /\ record' = t /\ window' = window
    BY <1>4, <1>7
  <2>2. ASSUME record.ready
        PROVE  Reaches(t, session, n) /\ task.before <= n /\ n \in Nat
    <3>1. Reaches(record, session, n) /\ at \in Nat
      BY <2>2, OpenStream DEF ReadingInv, Followed
    <3>2. task.before <= n
      BY <1>1, <1>7, <2>2 DEF Asks
    <3>3. n \in Nat
      BY <1>1, <3>1, LoggedTyped
    <3> HIDE DEF t, n, d
    <3>4. \A r \in t.events : r[2] <= n
      <4> SUFFICES ASSUME NEW r \in t.events PROVE r[2] <= n
        OBVIOUS
      <4>1. CASE r \in record.events
        BY <3>1, <4>1 DEF Reaches
      <4>2. CASE r \notin record.events
        <5>1. r[2] < task.before /\ r[2] \in Nat
          BY <1>3, <2>1, <4>2 DEF Whole, Bounded, TranscriptFields
        <5> QED
          BY <1>1, <3>2, <3>3, <5>1
      <4> QED
        BY <4>1, <4>2
    <3>5. Reaches(t, session, n)
      BY <1>3, <2>1, <3>1, <3>4 DEF Reaches
    <3> QED
      BY <3>2, <3>3, <3>5
  <2>3. t.ready = record.ready /\ Whole(t, session)
    BY <1>3, <2>1
  <2> HIDE DEF t, d
  <2>4. Followed'
    BY <2>1, <2>2, <2>3 DEF ReadingInv, Followed, n
  <2>5. OnScreen'
    BY <2>1, <2>3 DEF ReadingInv, OnScreen, Whole, Bounded
  <2>6. CASE task' = NoTask
    BY <1>5, <2>4, <2>5, <2>6, EndOfRead
  <2>7. CASE task' # NoTask
    <3> DEFINE o == t.oldest
    <3>1. /\ task.kind = "first" /\ t.hasMore /\ o < task.before
          /\ task' = [task EXCEPT !.before = o]
      BY <1>4, <2>7 DEF Again
    <3>2. o \in Nat /\ o >= 2
      BY <2>3, <3>1 DEF Whole, Bounded, TranscriptFields
    <3> HIDE DEF o
    <3>3. /\ task' \in TaskFields /\ (task').kind = "first" /\ (task').on = "record"
          /\ (task').before = o /\ (task').aborted = task.aborted
      BY <1>1, <1>7, <3>1, <3>2 DEF TaskFields
    <3>4. ASSUME record.ready PROVE o <= n
      BY <1>1, <2>2, <3>1, <3>2, <3>4
    <3>5. online /\ session # NoSession /\ follow \in {"open", "ended"}
      BY <1>1, <1>7, <3>1 DEF Asks
    <3>6. Asks(task)'
      BY <2>1, <2>3, <3>1, <3>2, <3>3, <3>4, <3>5 DEF Asks, n
    <3>7. Reads'
      BY <3>3, <3>6 DEF Reads
    <3> QED
      BY <1>5, <2>4, <2>5, <3>7 DEF ReadingInv
  <2> QED
    BY <2>6, <2>7
<1> QED
  BY <1>1, <1>6, <1>7

LEMMA PageScannedStep ==
    ASSUME ReadingInv, NEW page \in Pages, task.kind = "search", Current,
           PageScanned(page), UNCHANGED <<stream, online, session, chat, live, at, follow, pinned>>
    PROVE  ReadingInv'
<1>1. /\ task \in TaskFields /\ Asks(task) /\ Covers(task)
      /\ task.before \in Nat /\ task.before >= 2 /\ task.seen \in SUBSET Nat
      /\ session \in Sessions /\ ~task.aborted
  <2>1. task \in TaskFields /\ Asks(task) /\ Covers(task)
    BY DEF ReadingInv, Reads, Current
  <2> QED
    BY <2>1 DEF Asks, TaskFields, ReadingInv, Followed, Current
<1>2. record' = record /\ window' = window
  BY DEF PageScanned
<1>3. StreamsProper' /\ Followed' /\ OnScreen'
  BY <1>2 DEF ReadingInv, StreamsProper, Followed, OnScreen
<1>4. CASE task' = NoTask
  BY <1>3, <1>4, EndOfRead
<1>5. CASE task' # NoTask
  <2> DEFINE b == task.before
             S == Seqs(page.records)
             seen == task.seen \cup S
  <2>1. /\ page.hasMore /\ page.records # {}
        /\ task' = [task EXCEPT !.before = Min(S), !.seen = seen]
    BY <1>5 DEF PageScanned
  <2>2. page = Page(session, b)
    BY <2>1 DEF Pages
  <2>3. PICK lo \in 1 .. (b - 1) :
            Page(session, b) = [records |-> Span(session, lo, b - 1), hasMore |-> lo > 1]
    BY <1>1, PageIs
  <2>4. /\ lo \in Nat \ {0} /\ b - 1 \in Nat /\ lo > 1 /\ lo < b /\ lo \in lo .. (b - 1)
        /\ page.records = Span(session, lo, b - 1)
    <3>1. page.records = Span(session, lo, b - 1) /\ page.hasMore = (lo > 1)
      BY <2>2, <2>3
    <3>2. lo > 1
      BY <2>1, <3>1
    <3>3. lo \in Nat \ {0} /\ b - 1 \in Nat /\ lo < b /\ lo \in lo .. (b - 1)
      BY <1>1
    <3> QED
      BY <3>1, <3>2, <3>3
  <2>5. S = lo .. (b - 1)
    <3> DEFINE hi == b - 1
    <3>1. hi \in Nat /\ page.records = Span(session, lo, hi)
      BY <2>4
    <3> HIDE DEF hi
    <3>2. Seqs(Span(session, lo, hi)) = lo .. hi
      BY <1>1, <2>4, <3>1, SpanIs
    <3> QED
      BY <3>1, <3>2 DEF hi
  <2>6. Min(S) = lo
    <3>1. S \in SUBSET Nat /\ lo \in S /\ \A k \in S : lo <= k
      BY <2>4, <2>5
    <3> HIDE DEF S
    <3>2. Min(S) \in S /\ \A k \in S : Min(S) <= k
      BY <3>1, MinIs
    <3>3. Min(S) <= lo /\ lo <= Min(S) /\ Min(S) \in Nat
      BY <3>1, <3>2
    <3> QED
      BY <2>4, <3>3
  <2>7. seen \in SUBSET Nat /\ seen = task.seen \cup (lo .. (b - 1))
    BY <1>1, <2>4, <2>5
  <2> HIDE DEF S, seen
  <2>8. /\ task' \in TaskFields /\ (task').kind = "search" /\ (task').before = lo
        /\ (task').seen = seen /\ (task').miss = task.miss
    BY <1>1, <2>1, <2>4, <2>6, <2>7 DEF TaskFields
  <2>9. PICK m \in task.seen : b <= m /\ \A k \in task.seen : k <= m
    BY <1>1 DEF Covers
  <2>10. m \in seen /\ lo <= m /\ \A k \in seen : k <= m
    BY <1>1, <2>4, <2>7, <2>9
  <2>11. ASSUME NEW k \in seen, NEW j \in lo .. k
         PROVE  j \in seen \cup task.miss
    <3>1. j \in Nat /\ k \in Nat /\ lo <= j /\ j <= k
      BY <2>4, <2>7, <2>11
    <3>2. CASE j < b
      BY <1>1, <2>4, <2>7, <3>1, <3>2
    <3>3. CASE b <= j
      <4>1. k \in task.seen /\ j \in b .. k
        BY <1>1, <2>4, <2>7, <2>11, <3>1, <3>3
      <4> QED
        BY <1>1, <2>7, <4>1 DEF Covers
    <3> QED
      BY <1>1, <3>1, <3>2, <3>3
  <2>12. Covers(task)'
    BY <2>8, <2>10, <2>11 DEF Covers
  <2>13. Asks(task)'
    BY <1>1, <2>4, <2>8 DEF Asks
  <2>14. Reads'
    BY <2>8, <2>12, <2>13 DEF Reads
  <2> QED
    BY <1>3, <2>14 DEF ReadingInv
<1> QED
  BY <1>4, <1>5

LEMMA PageShownStep ==
    ASSUME ReadingInv, NEW page \in Pages, task.kind = "jump", Current,
           PageShown(page), UNCHANGED <<stream, online, session, chat, live, at, follow, pinned>>
    PROVE  ReadingInv'
<1> DEFINE w == Open(page, ReadThrough(record))
<1>1. /\ session \in Sessions /\ task.before \in Nat /\ task.before >= 2
  <2>1. task \in TaskFields /\ Asks(task)
    BY DEF ReadingInv, Reads, Current
  <2> QED
    BY <2>1 DEF Asks, TaskFields, ReadingInv, Followed
<1>2. /\ record' = record /\ task' = NoTask
      /\ window' = IF chat /\ page.records # {} THEN {w} ELSE window
  BY DEF PageShown
<1>3. StreamsProper' /\ Followed'
  BY <1>2 DEF ReadingInv, StreamsProper, Followed
<1>4. CASE window' = window
  <2>1. OnScreen'
    BY <1>2, <1>4 DEF ReadingInv, OnScreen
  <2> QED
    BY <1>2, <1>3, <2>1, EndOfRead
<1>5. CASE window' # window
  <2> DEFINE b == task.before
             c == ReadThrough(record)
  <2>1. page.records # {} /\ window' = {w} /\ page = Page(session, b)
    BY <1>2, <1>5 DEF Pages
  <2>2. PICK lo \in 1 .. (b - 1) :
            Page(session, b) = [records |-> Span(session, lo, b - 1), hasMore |-> lo > 1]
    BY <1>1, PageIs
  <2> DEFINE more == (lo > 1)
             hi == b - 1
  <2>3. lo \in Nat \ {0} /\ hi \in Nat /\ lo <= hi /\ more \in BOOLEAN /\ (more <=> lo > 1)
    BY <1>1, <2>2
  <2>4. c \in Nat
    <3>1. record.cursor \in Nat /\ record.through \in Nat
      BY DEF ReadingInv, OnScreen, Whole, Bounded, TranscriptFields
    <3> QED
      BY <3>1, MaxOfTwo DEF ReadThrough
  <2>5. w = Open([records |-> Span(session, lo, hi), hasMore |-> more], c)
    BY <2>1, <2>2
  <2>6. lo <= hi => (more <=> lo > 1)
    BY <2>3
  <2>7. hi < lo => ~more
    BY <2>3
  <2> HIDE DEF more, hi, c
  <2>8. Whole(w, session)
    BY <1>1, <2>3, <2>4, <2>5, <2>6, <2>7, OpenIs
  <2> HIDE DEF w
  <2>9. OnScreen'
    BY <1>2, <2>1, <2>8 DEF ReadingInv, OnScreen, Whole, Bounded
  <2> QED
    BY <1>2, <1>3, <2>9, EndOfRead
<1> QED
  BY <1>4, <1>5

LEMMA TakeStep ==
    ASSUME ReadingInv, NEW page \in Pages, task.kind # "none", Current, Take(page),
           UNCHANGED <<stream, online, session, chat, live, at, follow, pinned>>
    PROVE  ReadingInv'
<1>1. task.kind \in {"older", "first", "search", "jump"}
  BY DEF ReadingInv, Reads, TaskFields
<1>2. CASE task.kind \in {"older", "first"}
  <2>1. PageAdded(page)
    BY <1>2 DEF Take
  <2> QED
    BY <1>2, <2>1, PageAddedStep
<1>3. CASE task.kind = "search"
  <2>1. PageScanned(page)
    BY <1>3 DEF Take
  <2> QED
    BY <1>3, <2>1, PageScannedStep
<1>4. CASE task.kind = "jump"
  <2>1. PageShown(page)
    BY <1>4 DEF Take
  <2> QED
    BY <1>4, <2>1, PageShownStep
<1> QED
  BY <1>1, <1>2, <1>3, <1>4

\* A read that ends without an effect.
LEMMA NoEffect ==
    ASSUME ReadingInv, task' = NoTask,
           UNCHANGED <<stream, online, session, chat, record, live, at, follow, window, pinned>>
    PROVE  ReadingInv'
<1>1. StreamsProper' /\ Followed' /\ OnScreen'
  BY DEF ReadingInv, StreamsProper, Followed, OnScreen
<1> QED
  BY <1>1, EndOfRead

LEMMA AnswerStep ==
    ASSUME ReadingInv, Answer
    PROVE  ReadingInv'
<1>1. /\ task.kind # "none"
      /\ UNCHANGED <<stream, online, session, chat, live, at, follow, pinned>>
  BY DEF Answer
<1>2. CASE Current
  <2>1. Take(Page(session, task.before)) /\ Page(session, task.before) \in Pages
    BY <1>2 DEF Answer, Pages
  <2> QED
    BY <1>1, <1>2, <2>1, TakeStep
<1>3. CASE ~Current
  <2>1. task' = NoTask /\ UNCHANGED <<record, window>>
    BY <1>3 DEF Answer
  <2> QED
    BY <1>1, <2>1, NoEffect
<1> QED
  BY <1>2, <1>3

LEMMA StallStep ==
    ASSUME ReadingInv, Stall
    PROVE  ReadingInv'
<1>1. /\ task.kind # "none" /\ Current /\ Take([records |-> {}, hasMore |-> TRUE])
      /\ UNCHANGED <<stream, online, session, chat, live, at, follow, pinned>>
  BY DEF Stall
<1>2. [records |-> {}, hasMore |-> TRUE] \in Pages
  BY DEF Pages
<1> QED
  BY <1>1, <1>2, TakeStep

LEMMA ReadFailsStep ==
    ASSUME ReadingInv, ReadFails
    PROVE  ReadingInv'
<1>1. /\ task' = NoTask
      /\ UNCHANGED <<stream, online, session, chat, record, live, at, follow, window, pinned>>
  BY DEF ReadFails, view
<1> QED
  BY <1>1, NoEffect

-----------------------------------------------------------------------------
(* Theorems.                                                               *)

LEMMA InitInv ==
    ASSUME Init
    PROVE  ReadingInv
<1>1. /\ stream = [s \in Sessions |-> <<>>] /\ online = TRUE /\ chat = TRUE
      /\ pinned = FALSE /\ session = NoSession /\ record = Blank /\ live = NotLive
      /\ at = 0 /\ follow = "none" /\ window = {} /\ task = NoTask
  BY DEF Init
<1>2. Whole(Blank, NoSession) /\ ~Blank.ready
  BY BlankWhole
<1>3. StreamsProper
  <2>1. <<>> \in Seq(Frames) /\ Len(<<>>) = 0 /\ MaxFrames \in Nat
    BY ReadingAssumption
  <2>2. Proper(<<>>)
    BY <2>1 DEF Proper
  <2>3. ASSUME NEW s \in Sessions PROVE stream[s] = <<>>
    BY <1>1
  <2> QED
    BY <1>1, <2>1, <2>2, <2>3 DEF StreamsProper
<1>4. Followed
  <2>1. NotLive \in LiveFields
    BY DEF NotLive, LiveFields
  <2> QED
    BY <1>1, <1>2, <2>1 DEF Followed
<1>5. OnScreen
  BY <1>1, <1>2 DEF OnScreen
<1>6. Reads
  BY <1>1, NoTaskIs DEF Reads
<1> QED
  BY <1>3, <1>4, <1>5, <1>6 DEF ReadingInv

LEMMA NextInv ==
    ASSUME ReadingInv, [Next]_vars
    PROVE  ReadingInv'
<1>1. ASSUME NEW s \in Sessions, Select(s) PROVE ReadingInv'
  BY <1>1, SelectStep
<1>2. CASE Leave
  BY <1>2, LeaveStep
<1>3. CASE Picker
  BY <1>3, PickerStep
<1>4. CASE Disconnect
  BY <1>4, DisconnectStep
<1>5. CASE Reconnect
  BY <1>5, ReconnectStep
<1>6. CASE Snapshot
  BY <1>6, SnapshotStep
<1>7. CASE RecordFrame
  BY <1>7, RecordFrameStep
<1>8. CASE AssistantFrame
  BY <1>8, AssistantFrameStep
<1>9. CASE FrameLost
  BY <1>9, FrameLostStep
<1>10. CASE StreamEnds
  BY <1>10, StreamEndsStep
<1>11. ASSUME NEW s \in Talking, NEW frame \in Frames, Talk(s, frame) PROVE ReadingInv'
  BY <1>11, TalkStep
<1>12. CASE PinHistory
  BY <1>12, PinHistoryStep
<1>13. CASE ShowLatest
  BY <1>13, ShowLatestStep
<1>14. ASSUME NEW on \in {"record", "window"}, Older(on) PROVE ReadingInv'
  BY <1>14, OlderStep
<1>15. CASE First
  BY <1>15, FirstStep
<1>16. CASE Search
  BY <1>16, SearchStep
<1>17. ASSUME NEW n, JumpWithin(n) \/ Jump(n) PROVE ReadingInv'
  BY <1>17, JumpWithinStep, JumpStep
<1>18. CASE Answer
  BY <1>18, AnswerStep
<1>19. CASE Stall
  BY <1>19, StallStep
<1>20. CASE ReadFails
  BY <1>20, ReadFailsStep
<1>21. CASE UNCHANGED vars
  <2>1. UNCHANGED <<stream, online, session, chat, record, live, at, follow, window, pinned, task>>
    BY <1>21 DEF vars, view
  <2> QED
    BY <2>1 DEF ReadingInv, StreamsProper, Followed, OnScreen, Reads, Covers, Asks
<1> QED
  BY <1>1, <1>2, <1>3, <1>4, <1>5, <1>6, <1>7, <1>8, <1>9, <1>10, <1>11, <1>12,
     <1>13, <1>14, <1>15, <1>16, <1>17, <1>18, <1>19, <1>20, <1>21 DEF Next

\* What is on screen is whole, what is followed is loaded as far as it was
\* delivered, and a read in flight asks for what was older than the screen.
THEOREM ReadingInvariant == Spec => []ReadingInv
<1>1. Init => ReadingInv
  BY InitInv
<1>2. ReadingInv /\ [Next]_vars => ReadingInv'
  BY NextInv
<1> QED
  BY <1>1, <1>2, PTL DEF Spec

\* The variables of the reader have their types, for any sizes and limits.
THEOREM ReadingTyped == Spec => []TypeOK
<1>1. ReadingInv => TypeOK
  <2> SUFFICES ASSUME ReadingInv PROVE TypeOK
    OBVIOUS
  <2>1. /\ \A s \in Sessions : stream[s] \in Seq(Frames) /\ Now(s) <= MaxFrames
        /\ task.kind \in {"none", "older", "first", "search", "jump"}
    BY DEF ReadingInv, StreamsProper, Reads, TaskFields, Now
  <2>2. Cardinality(window) <= 1
    <3>1. CASE window = {}
      BY <3>1, FS_EmptySet
    <3>2. CASE window # {}
      <4>1. PICK w \in window : TRUE
        BY <3>2
      <4>2. window = {w}
        BY <4>1 DEF ReadingInv, OnScreen
      <4>3. Cardinality({w}) = 1
        BY FS_Singleton
      <4> QED
        BY <4>2, <4>3
    <3> QED
      BY <3>1, <3>2
  <2> QED
    BY <2>1, <2>2 DEF ReadingInv, Followed, TypeOK
<1> QED
  BY <1>1, ReadingInvariant, PTL

\* Whatever was trimmed, paged, searched or answered meanwhile, what is on screen
\* is of the selected session and within reach, with the newest records delivered;
\* the answer shown is that of the one active attempt, chunk for chunk; and a search
\* passes over nothing.
THEOREM WindowHeld == Spec => []WindowHolds
<1>1. ReadingInv => WindowHolds
  <2> SUFFICES ASSUME ReadingInv PROVE WindowHolds
    OBVIOUS
  <2>1. ASSUME NEW t \in Transcripts
        PROVE  /\ \A r \in t.events : r[1] = session
               /\ t.ready /\ ~t.hasMore => t.events = {} \/ t.oldest = 1
    <3>1. Whole(t, session)
      BY DEF Transcripts, ReadingInv, OnScreen
    <3> QED
      BY <3>1 DEF Whole, Bounded
  <2>2. ASSUME record.ready
        PROVE  LET n == Logged(session, at) IN
               Span(session, Max({1, n - Target + 1}), n) \subseteq record.events
    <3> DEFINE n == LoggedOf(session, stream[session], at)
    <3>1. Reaches(record, session, n) /\ session \in Sessions /\ at \in Nat
      BY <2>2, OpenStream DEF ReadingInv, Followed
    <3>2. n \in Nat /\ Target \in Nat /\ Logged(session, at) = n
      BY <3>1, LoggedTyped, StreamOperators, ReadingAssumption
    <3> HIDE DEF n
    <3>3. ASSUME NEW k \in Max({1, n - Target + 1}) .. n
          PROVE  <<session, k>> \in record.events
      <4>1. k \in 1 .. n /\ k > n - Target
        BY <3>2, <3>3, MaxOfTwo
      <4> QED
        BY <3>1, <4>1 DEF Reaches
    <3> QED
      BY <3>2, <3>3 DEF Span
  <2>3. OneSessionInReach
    BY <2>1, <2>2 DEF OneSessionInReach
  <2>4. LiveIsOneAttempt
    <3> SUFFICES ASSUME record.ready, live.revision = Sent(session, at)
                 PROVE  /\ live.shown = Chunks(session, at)
                        /\ live.attempt = IF Active(session, at) THEN Attempt(session, at) ELSE 0
      BY DEF LiveIsOneAttempt
    <3>1. Fits(live, stream[session], at)
      BY DEF ReadingInv, Followed
    <3> QED
      BY <3>1, StreamOperators DEF Fits
  <2>5. SearchMissesOnlyHoles
    <3> SUFFICES ASSUME task.kind = "search"
                 PROVE  task.before .. Max(task.seen) \subseteq task.seen \cup task.miss
      BY DEF SearchMissesOnlyHoles
    <3>1. Covers(task) /\ task.seen \in SUBSET Nat
      BY DEF ReadingInv, Reads, TaskFields
    <3>2. PICK m \in task.seen : \A k \in task.seen : k <= m
      BY <3>1 DEF Covers
    <3>3. Max(task.seen) \in task.seen
      BY <3>1, <3>2, MaxIs
    <3> QED
      BY <3>1, <3>3 DEF Covers
  <2> QED
    BY <2>3, <2>4, <2>5 DEF WindowHolds
<1> QED
  BY <1>1, ReadingInvariant, PTL

=============================================================================
