------------------------ MODULE SessionWrites_proofs ------------------------
(***************************************************************************)
(* What holds of the writes of a session for any messages, any number of   *)
(* faults and any number of frames under way.                              *)
(***************************************************************************)
EXTENDS SessionWrites, SequenceTheorems, FiniteSetTheorems, TLAPS

-----------------------------------------------------------------------------
(* The invariant, of a client, a host, the frames and the history: most    *)
(* actions compute the next client in steps, and it holds after each.      *)

Shaped(c, h, f, k) ==
    /\ c \in ClientFields(Nat)
    /\ h \in HostFields(Nat)
    /\ f \in Seq(Frames(Nat))
    /\ k \in [faults : 0..MaxFaults, foreign : 0..MaxFaults, lost : BOOLEAN]
    /\ k.faults + k.foreign <= MaxFaults

\* The requests that the client knows or the host has are requests sent.
Numbers(c, h) ==
    /\ c.wire \cap h.received = {}
    /\ c.wire \cup h.received \cup c.open \cup c.outbox \subseteq DOMAIN c.requests
    /\ Range(c.steering) \cup Range(c.queued) \cup c.claimed \subseteq h.received
    /\ c.row \in {0} \cup h.received
    /\ c.admission = Len(c.requests)
    /\ c.awaits <= Len(c.requests)

FrameOf(g, ids) ==
    g.kind = "inbox" =>
        Range(g.steering) \cup Range(g.queued) \cup g.ids \subseteq ids

FramesOf(f, h) == \A n \in DOMAIN f : FrameOf(f[n], h.received)

\* Where the host keeps what it received; a moved message is never parked again.
Places(c, h) ==
    /\ Range(h.steering) \cup Range(h.queued) \cup h.recorded \subseteq h.received
    /\ \A m, n \in DOMAIN h.steering : h.steering[m] = h.steering[n] => m = n
    /\ Range(h.steering) \cap (Range(h.queued) \cup h.recorded) = {}
    /\ \A i \in DOMAIN c.requests :
          c.requests[i].by = "mover" =>
              /\ c.requests[i].delivery = "queue"
              /\ i \in h.received => i \in Range(h.queued) \cup h.recorded

\* A prompt of the foreground slot that is not answered is the last one sent.
Slots(c) ==
    /\ c.move # "no" => c.slot = "mover"
    /\ c.move \in {"removing", "removed", "missing"} => c.row # 0 /\ ~c.removed
    /\ c.move = "sending" => c.removed
    /\ c.row = 0 => ~c.removed
    /\ \A i \in c.open :
          /\ c.requests[i].by # "loop" => i = Len(c.requests)
          /\ c.requests[i].by = "typed" => c.slot = "typed"
          /\ c.requests[i].by = "mover" =>
                c.move = "sending" /\ c.requests[i].text = c.requests[c.row].text

\* The mover has a message that nobody else has.
Owed(c) == c.move = "removed" \/ (c.removed /\ c.move # "sending")

Movers(c) == {i \in DOMAIN c.requests : c.requests[i].by = "mover"}
Firsts(c) == DOMAIN c.requests \ Movers(c)

\* First sendings that the mover took out of the inbox.
Dropped(c, h) ==
    {i \in Firsts(c) \cap h.received :
        i \notin Range(h.steering) \cup Range(h.queued) \cup h.recorded}

Credit(c) == IF Owed(c) THEN 1 ELSE 0

\* A message is sent first once, and moved once and again for every fault.
Sent(c, h, k) ==
    /\ \A i, j \in Firsts(c) : c.requests[i].text = c.requests[j].text => i = j
    /\ Cardinality(Movers(c)) + Credit(c) <= Cardinality(Dropped(c, h)) + k.faults

Live(c, h) == c.wire \cup Range(h.steering) \cup Range(h.queued) \cup h.recorded

Carries(c, h, text) == \E i \in Live(c, h) : c.requests[i].text = text

\* As long as no answer is lost there is one carrier of a message, or the
\* mover has it.
Counted(c, h) ==
    /\ c.wire \subseteq c.open
    /\ c.open \subseteq c.wire \cup h.received
    /\ \A i, j \in Live(c, h) : c.requests[i].text = c.requests[j].text => i = j
    /\ Owed(c) => ~Carries(c, h, c.requests[c.row].text)
    /\ c.row # 0 /\ ~c.removed /\ c.move \in {"no", "removing", "missing"} =>
          Carries(c, h, c.requests[c.row].text)
    /\ \A i \in c.wire, j \in h.received :
          c.requests[i].text = c.requests[j].text => c.requests[i].by = "mover"
    /\ \A i \in h.received :
          \/ Carries(c, h, c.requests[i].text)
          \/ c.row # 0 /\ c.requests[c.row].text = c.requests[i].text

WInv(c, h, f, k) ==
    /\ Shaped(c, h, f, k)
    /\ Numbers(c, h)
    /\ FramesOf(f, h)
    /\ Places(c, h)
    /\ Slots(c)
    /\ Sent(c, h, k)
    /\ ~k.lost => Counted(c, h)

WritesInv == WInv(client, host, frames, hist)

-----------------------------------------------------------------------------
(* Sequences of request numbers, and the frames that carry them.           *)

LEMMA RangeOfAppend ==
    ASSUME NEW S, NEW s \in Seq(S), NEW x \in S
    PROVE  /\ Append(s, x) \in Seq(S)
           /\ Range(Append(s, x)) = Range(s) \cup {x}
<1>1. /\ Append(s, x) \in Seq(S)
      /\ Len(Append(s, x)) = Len(s) + 1
      /\ \A n \in 1..Len(s) : Append(s, x)[n] = s[n]
      /\ Append(s, x)[Len(s) + 1] = x
  BY AppendProperties
<1> DEFINE t == Append(s, x)
<1> HIDE DEF t
<1>2. t \in Seq(S) /\ Len(t) = Len(s) + 1 /\ (\A n \in 1..Len(s) : t[n] = s[n])
      /\ t[Len(s) + 1] = x
  BY <1>1 DEF t
<1>3. Range(t) = {t[n] : n \in 1..Len(t)} /\ Range(s) = {s[n] : n \in 1..Len(s)}
  BY <1>2, RangeEquality
<1>4. Len(s) \in Nat
  OBVIOUS
<1>5. 1..Len(t) = (1..Len(s)) \cup {Len(s) + 1}
  BY <1>2, <1>4
<1>6. Range(t) = Range(s) \cup {x}
  BY <1>2, <1>3, <1>5
<1> QED
  BY <1>1, <1>6 DEF t

LEMMA RangeOfTail ==
    ASSUME NEW S, NEW s \in Seq(S), s # <<>>
    PROVE  /\ Tail(s) \in Seq(S)
           /\ Head(s) \in S
           /\ Range(s) = Range(Tail(s)) \cup {Head(s)}
<1>1. /\ Head(s) = s[1] /\ Tail(s) \in Seq(S) /\ Len(Tail(s)) = Len(s) - 1
      /\ \A n \in 1..Len(Tail(s)) : Tail(s)[n] = s[n + 1]
      /\ Len(s) \in Nat \ {0}
  BY HeadTailProperties, EmptySeq
<1> DEFINE t == Tail(s)
<1>2. Range(t) = {t[n] : n \in 1..Len(t)} /\ Range(s) = {s[n] : n \in 1..Len(s)}
  BY <1>1, RangeEquality, ZenonT(60)
<1> HIDE DEF t
<1>3. /\ Len(t) = Len(s) - 1
      /\ \A n \in 1..Len(t) : t[n] = s[n + 1]
  BY <1>1 DEF t
<1>4. \A n \in 1..Len(s) : n = 1 \/ (n - 1 \in 1..Len(t) /\ t[n - 1] = s[n])
  BY <1>1, <1>3
<1>5. Range(s) \subseteq Range(t) \cup {s[1]}
  BY <1>2, <1>4
<1>6. \A n \in 1..Len(t) : n + 1 \in 1..Len(s)
  BY <1>1, <1>3
<1>7. Range(t) \cup {s[1]} \subseteq Range(s)
  BY <1>1, <1>2, <1>3, <1>6
<1> QED
  BY <1>1, <1>5, <1>7, ElementOfSeq DEF t

LEMMA RangeOfRemoveAt ==
    ASSUME NEW S, NEW s \in Seq(S), NEW n \in DOMAIN s,
           \A i, j \in DOMAIN s : s[i] = s[j] => i = j
    PROVE  /\ RemoveAt(s, n) \in Seq(S)
           /\ Range(RemoveAt(s, n)) = Range(s) \ {s[n]}
           /\ \A i, j \in DOMAIN RemoveAt(s, n) :
                 RemoveAt(s, n)[i] = RemoveAt(s, n)[j] => i = j
<1>1. DOMAIN s = 1..Len(s) /\ Len(s) \in Nat /\ n \in 1..Len(s)
  BY LenProperties
<1> DEFINE a == SubSeq(s, 1, n - 1)
           b == SubSeq(s, n + 1, Len(s))
           r == RemoveAt(s, n)
<1>2. a \in Seq(S) /\ Len(a) = n - 1 /\ \A i \in 1 .. n - 1 : a[i] = s[i]
  <2>1. 1 \in 1..Len(s) + 1 /\ n - 1 \in 0..Len(s)
    BY <1>1
  <2> QED
    BY <1>1, SubSeqProperties
<1>3. b \in Seq(S) /\ Len(b) = Len(s) - n /\ \A i \in 1 .. Len(s) - n : b[i] = s[n + i]
  BY <1>1, SubSeqProperties
<1>4. r = a \o b
  BY DEF RemoveAt
<1> HIDE DEF a, b, r
<1>5. /\ r \in Seq(S) /\ Len(r) = Len(a) + Len(b)
      /\ \A i \in 1 .. Len(a) + Len(b) : r[i] = IF i <= Len(a) THEN a[i] ELSE b[i - Len(a)]
  <2>1. a \in Seq(S) /\ b \in Seq(S)
    BY <1>2, <1>3
  <2> QED
    BY <1>4, <2>1, ConcatProperties
<1>6. /\ Len(r) = Len(s) - 1 /\ DOMAIN r = 1..Len(r)
      /\ \A i \in 1..Len(r) : r[i] = IF i < n THEN s[i] ELSE s[i + 1]
  <2>1. Len(r) = Len(s) - 1 /\ DOMAIN r = 1..Len(r)
    BY <1>1, <1>2, <1>3, <1>5
  <2>2. ASSUME NEW i \in 1..Len(r), i < n PROVE r[i] = s[i]
    <3>1. i \in 1 .. n - 1 /\ i <= Len(a) /\ i \in 1 .. Len(a) + Len(b)
      BY <1>1, <1>2, <1>3, <2>1, <2>2
    <3> QED
      BY <1>2, <1>5, <3>1
  <2>3. ASSUME NEW i \in 1..Len(r), ~(i < n) PROVE r[i] = s[i + 1]
    <3>1. /\ i - Len(a) \in 1 .. Len(s) - n /\ n + (i - Len(a)) = i + 1
          /\ ~(i <= Len(a)) /\ i \in 1 .. Len(a) + Len(b)
      BY <1>1, <1>2, <1>3, <2>1, <2>3, SMTT(40)
    <3> QED
      BY <1>3, <1>5, <3>1
  <2> QED
    BY <2>1, <2>2, <2>3
<1>7. Range(r) = {r[i] : i \in 1..Len(r)} /\ Range(s) = {s[i] : i \in 1..Len(s)}
  <2>1. r \in Seq(S)
    BY <1>5
  <2> QED
    BY <2>1, RangeEquality
<1>8. \A i \in 1..Len(r) : /\ i \in 1..Len(s) /\ i + 1 \in 1..Len(s)
                           /\ (i < n => i # n) /\ (~(i < n) => i + 1 # n)
  BY <1>1, <1>6
<1>9. Range(r) \subseteq Range(s) \ {s[n]}
  BY <1>1, <1>6, <1>7, <1>8
<1>10. Range(s) \ {s[n]} \subseteq Range(r)
  <2> SUFFICES ASSUME NEW i \in 1..Len(s), i # n
               PROVE  \E j \in 1..Len(r) : r[j] = s[i]
    BY <1>7
  <2>1. CASE i < n
    BY <1>1, <1>6, <2>1
  <2>2. CASE i > n
    <3>1. i - 1 \in 1..Len(r) /\ ~(i - 1 < n) /\ (i - 1) + 1 = i
      BY <1>1, <1>6, <2>2
    <3> QED
      BY <1>6, <3>1
  <2> QED
    BY <1>1, <2>1, <2>2
<1>11. ASSUME NEW i \in 1..Len(r), NEW j \in 1..Len(r), r[i] = r[j]
       PROVE  i = j
  <2> DEFINE at(x) == IF x < n THEN x ELSE x + 1
  <2>1. at(i) \in 1..Len(s) /\ at(j) \in 1..Len(s)
    BY <1>1, <1>8
  <2>2. s[at(i)] = s[at(j)]
    BY <1>6, <1>11
  <2>3. at(i) = at(j)
    BY <1>1, <2>1, <2>2
  <2> QED
    BY <1>1, <2>3
<1> QED
  BY <1>5, <1>6, <1>9, <1>10, <1>11 DEF r

LEMMA StatusFrame ==
    ASSUME NEW running \in BOOLEAN, NEW ids
    PROVE  Status(running) \in Frames(Nat) /\ FrameOf(Status(running), ids)
BY DEF Status, Frames, FrameOf

LEMMA InboxFrame ==
    ASSUME NEW h \in HostFields(Nat), NEW ids \in SUBSET h.received,
           Range(h.steering) \cup Range(h.queued) \subseteq h.received
    PROVE  Inbox(h, ids) \in Frames(Nat) /\ FrameOf(Inbox(h, ids), h.received)
<1>1. h.steering \in Seq(Nat) /\ h.queued \in Seq(Nat) /\ ids \in SUBSET Nat
  BY DEF HostFields
<1>2. Inbox(h, ids) \in Frames(Nat)
  BY <1>1 DEF Inbox, Frames
<1>3. /\ Inbox(h, ids).steering = h.steering /\ Inbox(h, ids).queued = h.queued
      /\ Inbox(h, ids).ids = ids
  BY DEF Inbox
<1> QED
  BY <1>2, <1>3 DEF FrameOf

LEMMA FramesJoin ==
    ASSUME NEW h, NEW f \in Seq(Frames(Nat)), FramesOf(f, h),
           NEW g \in Seq(Frames(Nat)), FramesOf(g, h)
    PROVE  f \o g \in Seq(Frames(Nat)) /\ FramesOf(f \o g, h)
<1> DEFINE t == f \o g
<1>1. /\ t \in Seq(Frames(Nat)) /\ Len(t) = Len(f) + Len(g)
      /\ \A n \in 1 .. Len(f) + Len(g) : t[n] = IF n <= Len(f) THEN f[n] ELSE g[n - Len(f)]
  BY ConcatProperties
<1> HIDE DEF t
<1>2. \A n \in 1 .. Len(t) : (\E m \in DOMAIN f : t[n] = f[m]) \/ (\E m \in DOMAIN g : t[n] = g[m])
  <2> SUFFICES ASSUME NEW n \in 1 .. Len(t)
               PROVE  (\E m \in DOMAIN f : t[n] = f[m]) \/ (\E m \in DOMAIN g : t[n] = g[m])
    OBVIOUS
  <2>1. DOMAIN f = 1..Len(f) /\ Len(f) \in Nat /\ DOMAIN g = 1..Len(g) /\ Len(g) \in Nat
    BY LenProperties
  <2>2. CASE n <= Len(f)
    BY <1>1, <2>1, <2>2
  <2>3. CASE ~(n <= Len(f))
    <3>1. n - Len(f) \in 1..Len(g)
      BY <1>1, <2>1, <2>3
    <3> QED
      BY <1>1, <2>1, <2>3, <3>1
  <2> QED
    BY <2>2, <2>3
<1>3. DOMAIN t = 1..Len(t)
  BY <1>1, LenProperties
<1>4. FramesOf(t, h)
  BY <1>2, <1>3 DEF FramesOf
<1> QED
  BY <1>1, <1>4 DEF t

\* What the host knew it still knows: frames on their way stay frames.
LEMMA FramesStay ==
    ASSUME NEW h, NEW e, h.received \subseteq e.received, NEW f, FramesOf(f, h)
    PROVE  FramesOf(f, e)
BY DEF FramesOf, FrameOf

LEMMA FramesTail ==
    ASSUME NEW h, NEW f \in Seq(Frames(Nat)), f # <<>>, FramesOf(f, h)
    PROVE  /\ Tail(f) \in Seq(Frames(Nat)) /\ FramesOf(Tail(f), h)
           /\ Head(f) \in Frames(Nat) /\ FrameOf(Head(f), h.received)
<1>1. /\ Head(f) = f[1] /\ Tail(f) \in Seq(Frames(Nat)) /\ Len(Tail(f)) = Len(f) - 1
      /\ \A n \in 1..Len(Tail(f)) : Tail(f)[n] = f[n + 1]
      /\ Len(f) \in Nat \ {0}
  BY HeadTailProperties, EmptySeq
<1> DEFINE t == Tail(f)
<1> HIDE DEF t
<1>2. /\ t \in Seq(Frames(Nat)) /\ Len(t) = Len(f) - 1
      /\ \A n \in 1..Len(t) : t[n] = f[n + 1]
  BY <1>1 DEF t
<1>3. /\ DOMAIN t = 1..Len(t) /\ DOMAIN f = 1..Len(f)
      /\ \A n \in 1..Len(t) : n + 1 \in 1..Len(f)
  BY <1>1, <1>2, LenProperties
<1>4. FramesOf(t, h)
  BY <1>2, <1>3 DEF FramesOf
<1>5. 1 \in DOMAIN f /\ f[1] \in Frames(Nat)
  BY <1>1, <1>3
<1> QED
  BY <1>1, <1>4, <1>5 DEF FramesOf, t

-----------------------------------------------------------------------------
(* What does not touch the prompts keeps the invariant.                    *)

\* The same prompts, in the same places, with the mover at the same point.
Alike(c, d) ==
    /\ d.requests = c.requests /\ d.wire = c.wire /\ d.open = c.open
    /\ d.row = c.row /\ d.removed = c.removed /\ d.move = c.move /\ d.slot = c.slot
    /\ d.admission = c.admission

AlikeHost(h, e) ==
    /\ e.steering = h.steering /\ e.queued = h.queued
    /\ e.received = h.received /\ e.recorded = h.recorded

LEMMA CountsTyped ==
    ASSUME NEW c \in ClientFields(Nat), NEW h
    PROVE  /\ IsFiniteSet(Movers(c)) /\ Cardinality(Movers(c)) \in Nat
           /\ IsFiniteSet(Firsts(c)) /\ Cardinality(Firsts(c)) \in Nat
           /\ IsFiniteSet(Dropped(c, h)) /\ Cardinality(Dropped(c, h)) \in Nat
           /\ Credit(c) \in 0..1
<1>1. c.requests \in Seq(Request)
  BY DEF ClientFields
<1>2. DOMAIN c.requests = 1..Len(c.requests) /\ Len(c.requests) \in Nat
  BY <1>1, LenProperties
<1>3. IsFiniteSet(DOMAIN c.requests)
  BY <1>2, FS_Interval
<1>4. /\ Movers(c) \subseteq DOMAIN c.requests /\ Firsts(c) \subseteq DOMAIN c.requests
      /\ Dropped(c, h) \subseteq DOMAIN c.requests
  BY DEF Movers, Firsts, Dropped
<1>5. IsFiniteSet(Movers(c)) /\ IsFiniteSet(Firsts(c)) /\ IsFiniteSet(Dropped(c, h))
  BY <1>3, <1>4, FS_Subset
<1> QED
  BY <1>5, FS_CardinalityType DEF Credit

LEMMA HistTyped ==
    ASSUME NEW c, NEW h, NEW f, NEW k, Shaped(c, h, f, k)
    PROVE  k.faults \in Nat /\ k.foreign \in Nat /\ k.lost \in BOOLEAN
BY WritesAssumption DEF Shaped

LEMMA AlikeKeepsInv ==
    ASSUME NEW c, NEW h, NEW f, NEW k, WInv(c, h, f, k),
           NEW d, NEW e, NEW g, NEW l, Shaped(d, e, g, l),
           Alike(c, d), AlikeHost(h, e), FramesOf(g, h),
           d.outbox \subseteq DOMAIN c.requests,
           Range(d.steering) \cup Range(d.queued) \cup d.claimed \subseteq h.received,
           d.awaits <= Len(c.requests),
           k.faults <= l.faults, k.lost => l.lost
    PROVE  WInv(d, e, g, l)
<1>1. Numbers(d, e)
  BY DEF WInv, Numbers, Alike, AlikeHost
<1>2. FramesOf(g, e)
  BY FramesStay DEF AlikeHost
<1>3. Places(d, e)
  BY DEF WInv, Places, Alike, AlikeHost
<1>4. Slots(d)
  BY DEF WInv, Slots, Alike
<1>5. Sent(d, e, l)
  <2>1. /\ Movers(d) = Movers(c) /\ Firsts(d) = Firsts(c) /\ Dropped(d, e) = Dropped(c, h)
        /\ Credit(d) = Credit(c)
    BY DEF Movers, Firsts, Dropped, Credit, Owed, Alike, AlikeHost
  <2>2. Cardinality(Movers(c)) + Credit(c) <= Cardinality(Dropped(c, h)) + k.faults
    BY DEF WInv, Sent
  <2>3. /\ Cardinality(Movers(c)) \in Nat /\ Cardinality(Dropped(c, h)) \in Nat
        /\ Credit(c) \in Nat
    <3>1. c \in ClientFields(Nat)
      BY DEF WInv, Shaped
    <3> QED
      BY <3>1, CountsTyped
  <2>4. k.faults \in Nat /\ l.faults \in Nat
    BY HistTyped DEF WInv
  <2>5. Cardinality(Movers(c)) + Credit(c) <= Cardinality(Dropped(c, h)) + l.faults
    BY <2>2, <2>3, <2>4
  <2> QED
    BY <2>1, <2>5 DEF WInv, Sent, Alike
<1>6. ~l.lost => Counted(d, e)
  <2>1. /\ Live(d, e) = Live(c, h) /\ Owed(d) = Owed(c)
        /\ \A text : Carries(d, e, text) = Carries(c, h, text)
    BY DEF Live, Carries, Owed, Alike, AlikeHost
  <2> QED
    BY <2>1 DEF WInv, Counted, Alike, AlikeHost
<1> QED
  BY <1>1, <1>2, <1>3, <1>4, <1>5, <1>6 DEF WInv

-----------------------------------------------------------------------------
(* A prompt is sent.                                                       *)

Issued(c, d, r) ==
    LET i == Len(c.requests) + 1
    IN  /\ d.requests = Append(c.requests, r)
        /\ d.wire = c.wire \cup {i} /\ d.open = c.open \cup {i}
        /\ d.outbox \subseteq c.outbox \cup {i}
        /\ d.admission = i
        /\ d.steering = c.steering /\ d.queued = c.queued /\ d.claimed = c.claimed
        /\ d.row = c.row /\ d.awaits = c.awaits

LEMMA IssueIs ==
    ASSUME NEW c \in ClientFields(Nat), NEW text \in Messages,
           NEW by \in {"typed", "loop", "mover"}, NEW delivery \in {"steer", "queue"}
    PROVE  LET d == Issue(c, text, by, delivery)
               r == [text |-> text, by |-> by, delivery |-> delivery]
           IN  /\ d \in ClientFields(Nat) /\ r \in Request
               /\ Issued(c, d, r)
               /\ d.move = c.move /\ d.removed = c.removed /\ d.slot = c.slot
               /\ d.interrupt = c.interrupt
<1> DEFINE r == [text |-> text, by |-> by, delivery |-> delivery]
           i == Len(c.requests) + 1
           q == Append(c.requests, r)
           w == c.wire \cup {i}
           o == c.open \cup {i}
           b == IF by = "loop" THEN c.outbox ELSE c.outbox \cup {i}
           l == (by = "loop")
           d == [c EXCEPT !.requests = q, !.wire = w, !.open = o, !.shadow = TRUE,
                          !.loop = l, !.admission = i, !.outbox = b]
<1>1. /\ c.requests \in Seq(Request) /\ c.wire \in SUBSET Nat /\ c.open \in SUBSET Nat
      /\ c.outbox \in SUBSET Nat
  BY DEF ClientFields
<1>2. r \in Request
  BY DEF Request
<1>3. i \in Nat
  BY <1>1, LenProperties
<1>4. q \in Seq(Request)
  BY <1>1, <1>2, AppendProperties
<1>5. w \in SUBSET Nat /\ o \in SUBSET Nat /\ b \in SUBSET Nat /\ b \subseteq c.outbox \cup {i}
      /\ l \in BOOLEAN
  BY <1>1, <1>3
<1>6. Issue(c, text, by, delivery) = d
  BY DEF Issue
<1>7. q = Append(c.requests, r) /\ w = c.wire \cup {i} /\ o = c.open \cup {i}
  OBVIOUS
<1> HIDE DEF q, w, o, b, l, i
<1>8. /\ d \in ClientFields(Nat)
      /\ d.requests = q /\ d.wire = w /\ d.open = o /\ d.outbox = b /\ d.admission = i
      /\ d.steering = c.steering /\ d.queued = c.queued /\ d.claimed = c.claimed
      /\ d.row = c.row /\ d.awaits = c.awaits
      /\ d.move = c.move /\ d.removed = c.removed /\ d.slot = c.slot
      /\ d.interrupt = c.interrupt
  BY <1>3, <1>4, <1>5 DEF ClientFields
<1> HIDE DEF d, r
<1>9. Issued(c, d, r)
  BY <1>5, <1>7, <1>8 DEF Issued, i
<1> QED
  BY <1>2, <1>6, <1>8, <1>9 DEF r

LEMMA IssuedNumbers ==
    ASSUME NEW c \in ClientFields(Nat), NEW d, NEW r \in Request, Issued(c, d, r)
    PROVE  LET i == Len(c.requests) + 1
           IN  /\ i \in Nat \ {0} /\ Len(d.requests) = i
               /\ i \notin DOMAIN c.requests
               /\ \A j \in DOMAIN c.requests : j < i /\ j # 0
               /\ DOMAIN d.requests = DOMAIN c.requests \cup {i}
               /\ \A j \in DOMAIN c.requests : d.requests[j] = c.requests[j]
               /\ d.requests[i] = r
<1>1. c.requests \in Seq(Request)
  BY DEF ClientFields
<1>2. DOMAIN c.requests = 1..Len(c.requests) /\ Len(c.requests) \in Nat
  BY <1>1, LenProperties
<1> DEFINE q == Append(c.requests, r)
<1>3. /\ q \in Seq(Request) /\ Len(q) = Len(c.requests) + 1
      /\ \A j \in 1..Len(c.requests) : q[j] = c.requests[j]
      /\ q[Len(c.requests) + 1] = r
  BY <1>1, AppendProperties
<1> HIDE DEF q
<1>4. DOMAIN q = 1..Len(q)
  BY <1>3, LenProperties
<1>5. DOMAIN q = (1..Len(c.requests)) \cup {Len(c.requests) + 1}
  BY <1>2, <1>3, <1>4
<1>6. d.requests = q
  BY DEF Issued, q
<1> QED
  BY <1>2, <1>3, <1>5, <1>6

\* The parts of the invariant that ask nothing of the mover.
LEMMA IssuedKeeps ==
    ASSUME NEW c, NEW h, NEW f, NEW k, WInv(c, h, f, k),
           NEW d \in ClientFields(Nat), NEW r \in Request, Issued(c, d, r),
           r.by = "mover" => r.delivery = "queue"
    PROVE  /\ Shaped(d, h, f, k) /\ Numbers(d, h) /\ Places(d, h)
           /\ DOMAIN d.requests \ DOMAIN c.requests = {Len(c.requests) + 1}
<1>1. c \in ClientFields(Nat)
  BY DEF WInv, Shaped
<1> DEFINE i == Len(c.requests) + 1
<1>2. /\ i \in Nat \ {0} /\ Len(d.requests) = i /\ i \notin DOMAIN c.requests
      /\ \A j \in DOMAIN c.requests : j < i /\ j # 0
      /\ DOMAIN d.requests = DOMAIN c.requests \cup {i}
      /\ \A j \in DOMAIN c.requests : d.requests[j] = c.requests[j]
      /\ d.requests[i] = r
  BY <1>1, IssuedNumbers
<1>3. Shaped(d, h, f, k)
  BY DEF WInv, Shaped
<1>4. Numbers(d, h)
  <2>1. c.awaits \in Nat /\ Len(c.requests) \in Nat
    <3>1. c.requests \in Seq(Request) /\ c.awaits \in Nat
      BY <1>1 DEF ClientFields
    <3> QED
      BY <3>1, LenProperties
  <2>2. d.awaits <= Len(d.requests)
    BY <1>2, <2>1 DEF WInv, Numbers, Issued
  <2>3. d.admission = Len(d.requests)
    BY <1>2 DEF Issued
  <2>4. i \notin h.received
    BY <1>2 DEF WInv, Numbers
  <2> HIDE DEF i
  <2>5. /\ d.wire = c.wire \cup {i} /\ d.open = c.open \cup {i}
        /\ d.outbox \subseteq c.outbox \cup {i}
        /\ d.steering = c.steering /\ d.queued = c.queued /\ d.claimed = c.claimed
        /\ d.row = c.row
    BY DEF Issued, i
  <2> QED
    BY <1>2, <2>2, <2>3, <2>4, <2>5 DEF WInv, Numbers
<1>5. Places(d, h)
  <2> HIDE DEF i
  <2>1. i \notin h.received
    BY <1>2 DEF WInv, Numbers
  <2> QED
    BY <1>2, <2>1 DEF WInv, Places
<1>6. DOMAIN d.requests \ DOMAIN c.requests = {i}
  BY <1>2
<1> QED
  BY <1>3, <1>4, <1>5, <1>6

\* A message that was never sent goes out.
LEMMA FirstKeepsInv ==
    ASSUME NEW c, NEW h, NEW f, NEW k, WInv(c, h, f, k), c.slot = "free",
           NEW d \in ClientFields(Nat), NEW r \in Request, Issued(c, d, r),
           r.by # "mover", \A j \in DOMAIN c.requests : c.requests[j].text # r.text,
           r.by = "typed" => d.slot = "typed",
           d.move = c.move /\ d.removed = c.removed
    PROVE  WInv(d, h, f, k)
<1> DEFINE i == Len(c.requests) + 1
<1>1. c \in ClientFields(Nat)
  BY DEF WInv, Shaped
<1>2. /\ i \in Nat \ {0} /\ Len(d.requests) = i /\ i \notin DOMAIN c.requests
      /\ DOMAIN d.requests = DOMAIN c.requests \cup {i}
      /\ \A j \in DOMAIN c.requests : d.requests[j] = c.requests[j]
      /\ d.requests[i] = r
  BY <1>1, IssuedNumbers
<1>3. /\ d.wire = c.wire \cup {i} /\ d.open = c.open \cup {i}
      /\ d.row = c.row
  BY DEF Issued
<1>4. /\ Shaped(d, h, f, k) /\ Numbers(d, h) /\ Places(d, h)
  BY IssuedKeeps
<1> HIDE DEF i
<1>5. FramesOf(f, h)
  BY DEF WInv
<1>6. Slots(c) /\ Numbers(c, h) /\ Places(c, h) /\ Sent(c, h, k)
  BY DEF WInv
<1>7. c.move = "no"
  BY <1>6 DEF Slots
<1>8. c.row # 0 => c.row \in DOMAIN c.requests /\ d.requests[c.row] = c.requests[c.row]
  BY <1>2, <1>6 DEF Numbers
<1>9. Slots(d)
  <2>1. \A j \in c.open : c.requests[j].by = "loop"
    <3> SUFFICES ASSUME NEW j \in c.open PROVE c.requests[j].by = "loop"
      OBVIOUS
    <3>1. c.requests[j].by # "typed" /\ c.requests[j].by # "mover"
      BY <1>6, <1>7 DEF Slots
    <3>2. j \in DOMAIN c.requests /\ c.requests \in Seq(Request)
      BY <1>1, <1>6 DEF Numbers, ClientFields
    <3>3. c.requests[j] \in Request
      BY <3>2
    <3> QED
      BY <3>1, <3>3 DEF Request
  <2>2. \A j \in c.open : j \in DOMAIN c.requests
    BY <1>6 DEF Numbers
  <2> QED
    BY <1>2, <1>3, <1>6, <1>7, <2>1, <2>2 DEF Slots
<1>10. i \notin h.received
  BY <1>2, <1>6 DEF Numbers
<1>11. Sent(d, h, k)
  <2>1. Movers(d) = Movers(c)
    BY <1>2 DEF Movers
  <2>2. Firsts(d) = Firsts(c) \cup {i}
    BY <1>2, <2>1 DEF Firsts, Movers
  <2>3. Dropped(d, h) = Dropped(c, h)
    BY <1>10, <2>2 DEF Dropped
  <2>4. Credit(d) = Credit(c)
    BY DEF Credit, Owed
  <2>5. \A m \in Firsts(c) : m \in DOMAIN c.requests
    BY DEF Firsts
  <2>6. \A m, n \in Firsts(d) : d.requests[m].text = d.requests[n].text => m = n
    BY <1>2, <1>6, <2>2, <2>5 DEF Sent
  <2> QED
    BY <1>6, <2>1, <2>3, <2>4, <2>6 DEF Sent
<1>12. ~k.lost => Counted(d, h)
  <2> SUFFICES ASSUME ~k.lost PROVE Counted(d, h)
    OBVIOUS
  <2>1. Counted(c, h)
    BY DEF WInv
  <2>2. Live(d, h) = Live(c, h) \cup {i}
    BY <1>3 DEF Live
  <2>3. Live(c, h) \subseteq DOMAIN c.requests /\ h.received \subseteq DOMAIN c.requests
    BY <1>6 DEF Live, Numbers, Places
  <2>4. \A text : Carries(c, h, text) => Carries(d, h, text)
    BY <1>2, <2>2, <2>3 DEF Carries
  <2>5. \A text : Carries(d, h, text) => Carries(c, h, text) \/ text = r.text
    BY <1>2, <2>2, <2>3 DEF Carries
  <2>6. \A m, n \in Live(d, h) : d.requests[m].text = d.requests[n].text => m = n
    BY <1>2, <2>1, <2>2, <2>3 DEF Counted
  <2>7. Owed(d) => ~Carries(d, h, d.requests[d.row].text)
    <3>1. Owed(d) = Owed(c)
      BY DEF Owed
    <3>2. Owed(c) => c.row # 0
      BY <1>6, <1>7 DEF Owed, Slots
    <3> QED
      BY <1>3, <1>8, <2>1, <2>5, <3>1, <3>2 DEF Counted
  <2>8. d.row # 0 /\ ~d.removed /\ d.move \in {"no", "removing", "missing"} =>
          Carries(d, h, d.requests[d.row].text)
    BY <1>3, <1>8, <2>1, <2>4 DEF Counted
  <2>9. \A m \in d.wire, n \in h.received :
          d.requests[m].text = d.requests[n].text => d.requests[m].by = "mover"
    <3>1. c.wire \subseteq DOMAIN c.requests
      BY <1>6 DEF Numbers
    <3> QED
      BY <1>2, <1>3, <2>1, <2>3, <3>1 DEF Counted
  <2>10. \A m \in h.received :
          \/ Carries(d, h, d.requests[m].text)
          \/ d.row # 0 /\ d.requests[d.row].text = d.requests[m].text
    BY <1>2, <1>3, <1>8, <2>1, <2>3, <2>4 DEF Counted
  <2>11. d.wire \subseteq d.open /\ d.open \subseteq d.wire \cup h.received
    BY <1>3, <2>1 DEF Counted
  <2> QED
    BY <2>6, <2>7, <2>8, <2>9, <2>10, <2>11 DEF Counted
<1> QED
  BY <1>4, <1>5, <1>9, <1>11, <1>12 DEF WInv

\* The message that the mover owes goes out again.
LEMMA MoverKeepsInv ==
    ASSUME NEW c, NEW h, NEW f, NEW k, WInv(c, h, f, k), Owed(c), c.slot # "typed",
           NEW d \in ClientFields(Nat), NEW r \in Request, Issued(c, d, r),
           r.by = "mover", r.delivery = "queue", r.text = c.requests[c.row].text,
           d.slot = "mover", d.move = "sending", d.removed = TRUE
    PROVE  WInv(d, h, f, k)
<1> DEFINE i == Len(c.requests) + 1
<1>1. c \in ClientFields(Nat)
  BY DEF WInv, Shaped
<1>2. /\ i \in Nat \ {0} /\ Len(d.requests) = i /\ i \notin DOMAIN c.requests
      /\ DOMAIN d.requests = DOMAIN c.requests \cup {i}
      /\ \A j \in DOMAIN c.requests : d.requests[j] = c.requests[j]
      /\ d.requests[i] = r
  BY <1>1, IssuedNumbers
<1>3. /\ d.wire = c.wire \cup {i} /\ d.open = c.open \cup {i}
      /\ d.row = c.row
  BY DEF Issued
<1>4. /\ Shaped(d, h, f, k) /\ Numbers(d, h) /\ Places(d, h)
  BY IssuedKeeps
<1> HIDE DEF i
<1>5. FramesOf(f, h)
  BY DEF WInv
<1>6. Slots(c) /\ Numbers(c, h) /\ Places(c, h) /\ Sent(c, h, k)
  BY DEF WInv
<1>7. c.row # 0 /\ c.move # "sending"
  BY <1>6 DEF Owed, Slots
<1>8. c.row \in DOMAIN c.requests /\ d.requests[c.row] = c.requests[c.row]
  BY <1>2, <1>6, <1>7 DEF Numbers
<1>9. Slots(d)
  <2>1. \A j \in c.open : c.requests[j].by = "loop"
    <3> SUFFICES ASSUME NEW j \in c.open PROVE c.requests[j].by = "loop"
      OBVIOUS
    <3>1. c.requests[j].by # "typed" /\ c.requests[j].by # "mover"
      BY <1>6, <1>7 DEF Slots
    <3>2. j \in DOMAIN c.requests /\ c.requests \in Seq(Request)
      BY <1>1, <1>6 DEF Numbers, ClientFields
    <3>3. c.requests[j] \in Request
      BY <3>2
    <3> QED
      BY <3>1, <3>3 DEF Request
  <2>2. \A j \in c.open : j \in DOMAIN c.requests
    BY <1>6 DEF Numbers
  <2> QED
    BY <1>2, <1>3, <1>7, <1>8, <2>1, <2>2 DEF Slots
<1>10. i \notin h.received
  BY <1>2, <1>6 DEF Numbers
<1>11. Sent(d, h, k)
  <2>1. Movers(d) = Movers(c) \cup {i}
    BY <1>2 DEF Movers
  <2>2. Firsts(d) = Firsts(c)
    BY <1>2, <2>1 DEF Firsts, Movers
  <2>3. Dropped(d, h) = Dropped(c, h)
    BY <2>2 DEF Dropped
  <2>4. Credit(d) = 0 /\ Credit(c) = 1
    BY DEF Credit, Owed
  <2>5. \A m \in Firsts(c) : m \in DOMAIN c.requests
    BY DEF Firsts
  <2>6. \A m, n \in Firsts(d) : d.requests[m].text = d.requests[n].text => m = n
    BY <1>2, <1>6, <2>2, <2>5 DEF Sent
  <2>7. Cardinality(Movers(d)) = Cardinality(Movers(c)) + 1 /\ Cardinality(Movers(c)) \in Nat
    <3>1. i \notin Movers(c)
      BY <1>2 DEF Movers
    <3> QED
      BY <1>1, <2>1, <3>1, CountsTyped, FS_AddElement
  <2>8. Cardinality(Movers(d)) + Credit(d) <= Cardinality(Dropped(d, h)) + k.faults
    BY <1>6, <2>3, <2>4, <2>7 DEF Sent
  <2> QED
    BY <2>6, <2>8 DEF Sent
<1>12. ~k.lost => Counted(d, h)
  <2> SUFFICES ASSUME ~k.lost PROVE Counted(d, h)
    OBVIOUS
  <2>1. Counted(c, h)
    BY DEF WInv
  <2>2. Live(d, h) = Live(c, h) \cup {i}
    BY <1>3 DEF Live
  <2>3. Live(c, h) \subseteq DOMAIN c.requests /\ h.received \subseteq DOMAIN c.requests
    BY <1>6 DEF Live, Numbers, Places
  <2>4. \A text : Carries(c, h, text) => Carries(d, h, text)
    BY <1>2, <2>2, <2>3 DEF Carries
  <2>5. \A m \in Live(c, h) : c.requests[m].text # r.text
    BY <2>1 DEF Counted, Carries
  <2>6. \A m, n \in Live(d, h) : d.requests[m].text = d.requests[n].text => m = n
    BY <1>2, <2>1, <2>2, <2>3, <2>5 DEF Counted
  <2>7. ~Owed(d)
    BY DEF Owed
  <2>8. \A m \in d.wire, n \in h.received :
          d.requests[m].text = d.requests[n].text => d.requests[m].by = "mover"
    <3>1. c.wire \subseteq DOMAIN c.requests
      BY <1>6 DEF Numbers
    <3> QED
      BY <1>2, <1>3, <2>1, <2>3, <3>1 DEF Counted
  <2>9. \A m \in h.received :
          \/ Carries(d, h, d.requests[m].text)
          \/ d.row # 0 /\ d.requests[d.row].text = d.requests[m].text
    BY <1>2, <1>3, <1>8, <2>1, <2>3, <2>4 DEF Counted
  <2>10. d.wire \subseteq d.open /\ d.open \subseteq d.wire \cup h.received
    BY <1>3, <2>1 DEF Counted
  <2> QED
    BY <2>6, <2>7, <2>8, <2>9, <2>10 DEF Counted
<1> QED
  BY <1>4, <1>5, <1>9, <1>11, <1>12 DEF WInv

-----------------------------------------------------------------------------
(* Calls are answered, and the mover goes on.                              *)

SamePrompts(c, d) ==
    /\ d.requests = c.requests /\ d.admission = c.admission
    /\ d.outbox \subseteq c.outbox /\ d.awaits <= Len(c.requests)
    /\ d.steering = c.steering /\ d.queued = c.queued

SameCalls(c, d) == d.wire = c.wire /\ d.open = c.open
SameMove(c, d) == d.row = c.row /\ d.removed = c.removed /\ d.move = c.move

\* A step of the mover that sends nothing: what it owes, and what it forgets.
LEMMA MoveKeepsInv ==
    ASSUME NEW c, NEW h, NEW f, NEW k, WInv(c, h, f, k),
           NEW d, NEW l, Shaped(d, h, f, l), SamePrompts(c, d), SameCalls(c, d),
           d.claimed \subseteq h.received, d.row \in {0} \cup h.received,
           k.faults <= l.faults, k.lost => l.lost,
           Slots(d),
           Credit(d) + k.faults <= Credit(c) + l.faults,
           ~l.lost => /\ Owed(d) => ~Carries(c, h, c.requests[d.row].text)
                      /\ d.row # 0 /\ ~d.removed /\ d.move \in {"no", "removing", "missing"} =>
                            Carries(c, h, c.requests[d.row].text)
                      /\ \/ d.row = c.row \/ c.row = 0
                         \/ Carries(c, h, c.requests[c.row].text)
    PROVE  WInv(d, h, f, l)
<1>1. Numbers(d, h)
  BY DEF WInv, Numbers, SamePrompts, SameCalls
<1>2. FramesOf(f, h)
  BY DEF WInv
<1>3. Places(d, h)
  BY DEF WInv, Places, SamePrompts
<1>4. Sent(d, h, l)
  <2>1. Movers(d) = Movers(c) /\ Firsts(d) = Firsts(c) /\ Dropped(d, h) = Dropped(c, h)
    BY DEF Movers, Firsts, Dropped, SamePrompts
  <2>2. c \in ClientFields(Nat) /\ d \in ClientFields(Nat)
    BY DEF WInv, Shaped
  <2>3. /\ Cardinality(Movers(c)) \in Nat /\ Cardinality(Dropped(c, h)) \in Nat
        /\ Credit(c) \in 0..1 /\ Credit(d) \in 0..1
    BY <2>2, CountsTyped
  <2>4. k.faults \in Nat /\ l.faults \in Nat
    BY HistTyped DEF WInv
  <2>5. Cardinality(Movers(c)) + Credit(c) <= Cardinality(Dropped(c, h)) + k.faults
    BY DEF WInv, Sent
  <2>6. Cardinality(Movers(c)) + Credit(d) <= Cardinality(Dropped(c, h)) + l.faults
    BY <2>3, <2>4, <2>5
  <2> QED
    BY <2>1, <2>6 DEF WInv, Sent, SamePrompts
<1>5. ~l.lost => Counted(d, h)
  <2> SUFFICES ASSUME ~l.lost PROVE Counted(d, h)
    OBVIOUS
  <2>1. Counted(c, h)
    BY DEF WInv
  <2>2. /\ Live(d, h) = Live(c, h)
        /\ \A text : Carries(d, h, text) = Carries(c, h, text)
    BY DEF Live, Carries, SamePrompts, SameCalls
  <2>3. Owed(d) => ~Carries(d, h, d.requests[d.row].text)
    BY <2>2 DEF SamePrompts
  <2>4. d.row # 0 /\ ~d.removed /\ d.move \in {"no", "removing", "missing"} =>
          Carries(d, h, d.requests[d.row].text)
    BY <2>2 DEF SamePrompts
  <2>5. \A m \in h.received :
          \/ Carries(d, h, d.requests[m].text)
          \/ d.row # 0 /\ d.requests[d.row].text = d.requests[m].text
    <3> SUFFICES ASSUME NEW m \in h.received, ~Carries(c, h, c.requests[m].text)
                 PROVE  d.row # 0 /\ d.requests[d.row].text = d.requests[m].text
      BY <2>2 DEF SamePrompts
    <3>1. c.row # 0 /\ c.requests[c.row].text = c.requests[m].text
      BY <2>1 DEF Counted
    <3>2. d.row = c.row
      BY <3>1
    <3> QED
      BY <3>1, <3>2 DEF SamePrompts
  <2> QED
    BY <2>1, <2>2, <2>3, <2>4, <2>5 DEF Counted, SamePrompts, SameCalls
<1> QED
  BY <1>1, <1>2, <1>3, <1>4, <1>5 DEF WInv

\* One call is answered, or calls end unanswered and an answer may be lost.
LEMMA SettleKeepsInv ==
    ASSUME NEW c, NEW h, NEW f, NEW k, WInv(c, h, f, k),
           NEW d, NEW l, Shaped(d, h, f, l), SamePrompts(c, d), SameMove(c, d),
           d.claimed = c.claimed, k.faults <= l.faults, k.lost => l.lost,
           d.open \subseteq c.open, d.wire \subseteq c.wire,
           d.slot = c.slot \/ (c.move = "no" /\ \A j \in d.open : c.requests[j].by # "typed"),
           ~l.lost => \/ SameCalls(c, d)
                      \/ \E i \in c.open : d.open = c.open \ {i} /\ d.wire = c.wire \ {i}
    PROVE  WInv(d, h, f, l)
<1>1. Numbers(d, h)
  BY DEF WInv, Numbers, SamePrompts, SameMove
<1>2. FramesOf(f, h)
  BY DEF WInv
<1>3. Places(d, h)
  BY DEF WInv, Places, SamePrompts
<1>4. Slots(d)
  BY DEF WInv, Slots, SamePrompts, SameMove
<1>5. Sent(d, h, l)
  <2>1. /\ Movers(d) = Movers(c) /\ Firsts(d) = Firsts(c) /\ Dropped(d, h) = Dropped(c, h)
        /\ Credit(d) = Credit(c)
    BY DEF Movers, Firsts, Dropped, Credit, Owed, SamePrompts, SameMove
  <2>2. c \in ClientFields(Nat)
    BY DEF WInv, Shaped
  <2>3. /\ Cardinality(Movers(c)) \in Nat /\ Cardinality(Dropped(c, h)) \in Nat
        /\ Credit(c) \in 0..1
    BY <2>2, CountsTyped
  <2>4. k.faults \in Nat /\ l.faults \in Nat
    BY HistTyped DEF WInv
  <2>5. Cardinality(Movers(c)) + Credit(c) <= Cardinality(Dropped(c, h)) + k.faults
    BY DEF WInv, Sent
  <2>6. Cardinality(Movers(c)) + Credit(c) <= Cardinality(Dropped(c, h)) + l.faults
    BY <2>3, <2>4, <2>5
  <2> QED
    BY <2>1, <2>6 DEF WInv, Sent, SamePrompts
<1>6. CASE l.lost
  BY <1>1, <1>2, <1>3, <1>4, <1>5, <1>6 DEF WInv
<1>7. CASE ~l.lost /\ SameCalls(c, d)
  <2>1. Counted(c, h)
    BY <1>7 DEF WInv
  <2>2. /\ Live(d, h) = Live(c, h) /\ Owed(d) = Owed(c)
        /\ \A text : Carries(d, h, text) = Carries(c, h, text)
    BY <1>7 DEF Live, Carries, Owed, SamePrompts, SameCalls, SameMove
  <2>3. Counted(d, h)
    BY <1>7, <2>1, <2>2 DEF Counted, SamePrompts, SameCalls, SameMove
  <2> QED
    BY <1>1, <1>2, <1>3, <1>4, <1>5, <2>3 DEF WInv
<1>8. ASSUME NEW i \in c.open, d.open = c.open \ {i}, d.wire = c.wire \ {i}, ~l.lost
      PROVE  WInv(d, h, f, l)
  <2>1. Counted(c, h) /\ Slots(c) /\ Numbers(c, h) /\ Places(c, h)
    BY <1>8 DEF WInv
  <2>2. i \notin h.received => Live(d, h) = Live(c, h) \ {i}
    BY <1>8, <2>1 DEF Live, Places
  <2>3. i \in h.received => Live(d, h) = Live(c, h)
    BY <1>8, <2>1 DEF Live, Numbers
  <2>4. Owed(d) = Owed(c)
    BY DEF Owed, SameMove
  <2>5. /\ Live(d, h) \subseteq Live(c, h)
        /\ \A text : Carries(d, h, text) => Carries(c, h, text)
    BY <2>2, <2>3 DEF Carries, SamePrompts
  <2>6. \A text : Carries(c, h, text) =>
            \/ Carries(d, h, text)
            \/ i \in c.wire /\ c.requests[i].text = text
    <3>1. i \in Live(c, h) \ Live(d, h) => i \in c.wire
      BY <1>8, <2>1, <2>2, <2>3 DEF Counted
    <3> QED
      BY <2>2, <2>3, <3>1 DEF Carries, SamePrompts
  <2>7. ASSUME NEW m \in h.received, i \in c.wire, c.requests[i].text = c.requests[m].text
        PROVE  /\ d.move = "sending" /\ d.row # 0
               /\ c.requests[d.row].text = c.requests[m].text
    <3>1. c.requests[i].by = "mover"
      BY <2>1, <2>7 DEF Counted
    <3>2. c.move = "sending" /\ c.requests[i].text = c.requests[c.row].text
      BY <2>1, <3>1 DEF Slots
    <3>3. c.row # 0
      BY <2>1, <3>2 DEF Slots
    <3> QED
      BY <2>7, <3>2, <3>3 DEF SameMove
  <2>8. d.row # 0 /\ ~d.removed /\ d.move \in {"no", "removing", "missing"} =>
          Carries(d, h, d.requests[d.row].text)
    <3> SUFFICES ASSUME d.row # 0, ~d.removed, d.move \in {"no", "removing", "missing"}
                 PROVE  Carries(d, h, d.requests[d.row].text)
      OBVIOUS
    <3>1. Carries(c, h, c.requests[c.row].text) /\ c.row \in h.received
      BY <2>1 DEF Counted, Numbers, SameMove
    <3> QED
      BY <2>6, <2>7, <3>1 DEF SamePrompts, SameMove
  <2>9. \A m \in h.received :
          \/ Carries(d, h, d.requests[m].text)
          \/ d.row # 0 /\ d.requests[d.row].text = d.requests[m].text
    BY <2>1, <2>6, <2>7 DEF Counted, SamePrompts, SameMove
  <2>10. \A m, n \in Live(d, h) : d.requests[m].text = d.requests[n].text => m = n
    BY <2>1, <2>5 DEF Counted, SamePrompts
  <2>11. Owed(d) => ~Carries(d, h, d.requests[d.row].text)
    BY <2>1, <2>4, <2>5 DEF Counted, SamePrompts, SameMove
  <2>12. /\ d.wire \subseteq d.open /\ d.open \subseteq d.wire \cup h.received
         /\ \A m \in d.wire, n \in h.received :
               d.requests[m].text = d.requests[n].text => d.requests[m].by = "mover"
    BY <1>8, <2>1 DEF Counted, SamePrompts
  <2>13. Counted(d, h)
    BY <2>8, <2>9, <2>10, <2>11, <2>12 DEF Counted
  <2> QED
    BY <1>1, <1>2, <1>3, <1>4, <1>5, <2>13 DEF WInv
<1> QED
  BY <1>6, <1>7, <1>8

\* moveUnclaimed fails: the record, and what is owed, stay.
LEMMA MoveFailsKeepsInv ==
    ASSUME NEW c, NEW h, NEW f, NEW k, WInv(c, h, f, k),
           NEW d, NEW l, Shaped(d, h, f, l), SamePrompts(c, d), SameCalls(c, d),
           d.claimed = c.claimed, d.row = c.row,
           d.move = "no", d.slot = "free",
           \/ d.removed = c.removed /\ c.move # "no"
           \/ d.removed = TRUE /\ c.move = "removed",
           \A i \in c.open : c.requests[i].by = "loop",
           k.lost => l.lost,
           \/ k.faults + 1 <= l.faults
           \/ k.faults <= l.faults /\ c.move = "removed" /\ d.removed = TRUE,
           ~l.lost /\ d.removed => ~Carries(c, h, c.requests[c.row].text),
           ~l.lost /\ ~d.removed => c.move = "removing"
    PROVE  WInv(d, h, f, l)
<1>1. c \in ClientFields(Nat) /\ d \in ClientFields(Nat) /\ Slots(c) /\ Numbers(c, h)
  BY DEF WInv, Shaped
<1>2. Slots(d)
  <2>1. c.move # "no"
    OBVIOUS
  <2>2. d.row = 0 => ~d.removed
    BY <1>1 DEF Slots
  <2> QED
    BY <2>2 DEF Slots, SameCalls, SamePrompts
<1>3. k.faults \in Nat /\ l.faults \in Nat
  BY HistTyped DEF WInv
<1>4. k.faults <= l.faults
  BY <1>3
<1>5. Credit(d) + k.faults <= Credit(c) + l.faults
  <2>1. Credit(d) \in 0..1 /\ Credit(c) \in 0..1
    BY <1>1, CountsTyped
  <2>2. c.move = "removed" => Credit(c) = 1
    BY DEF Credit, Owed
  <2> QED
    BY <1>3, <2>1, <2>2
<1>6. d.claimed \subseteq h.received /\ d.row \in {0} \cup h.received
  BY <1>1 DEF Numbers
<1>7. ~l.lost => /\ Owed(d) => ~Carries(c, h, c.requests[d.row].text)
                 /\ d.row # 0 /\ ~d.removed /\ d.move \in {"no", "removing", "missing"} =>
                       Carries(c, h, c.requests[d.row].text)
                 /\ \/ d.row = c.row \/ c.row = 0
                    \/ Carries(c, h, c.requests[c.row].text)
  <2> SUFFICES ASSUME ~l.lost
               PROVE  /\ Owed(d) => ~Carries(c, h, c.requests[d.row].text)
                      /\ d.row # 0 /\ ~d.removed => Carries(c, h, c.requests[c.row].text)
    OBVIOUS
  <2>1. Owed(d) => d.removed
    BY DEF Owed
  <2>2. Counted(c, h)
    BY DEF WInv
  <2>3. ~d.removed => ~c.removed /\ c.move = "removing"
    BY <1>1 DEF Slots
  <2> QED
    BY <2>1, <2>2, <2>3 DEF Counted
<1> QED
  BY <1>2, <1>4, <1>5, <1>6, <1>7, MoveKeepsInv

\* moveUnclaimed ends, with its message on its way or in the log.
LEMMA MoveEndsKeepsInv ==
    ASSUME NEW c, NEW h, NEW f, NEW k, WInv(c, h, f, k),
           NEW d, Shaped(d, h, f, k), SamePrompts(c, d), SameCalls(c, d),
           d.claimed \subseteq h.received, d.row = 0, ~d.removed,
           d.move = "no", d.slot = "free",
           \A i \in c.open : c.requests[i].by = "loop",
           ~k.lost => c.row = 0 \/ Carries(c, h, c.requests[c.row].text)
    PROVE  WInv(d, h, f, k)
<1>1. c \in ClientFields(Nat) /\ d \in ClientFields(Nat) /\ k.faults \in Nat
  BY HistTyped DEF WInv, Shaped
<1>2. Slots(d)
  BY DEF Slots, SamePrompts, SameCalls
<1>3. ~Owed(d)
  BY DEF Owed
<1>4. Credit(d) = 0 /\ Credit(c) \in 0..1
  BY <1>1, <1>3, CountsTyped DEF Credit
<1>5. Credit(d) + k.faults <= Credit(c) + k.faults /\ k.faults <= k.faults
  BY <1>1, <1>4
<1> QED
  BY <1>2, <1>3, <1>5, MoveKeepsInv

\* queueUnclaimed takes up a row, or one whose removal failed.
LEMMA RowTakenKeepsInv ==
    ASSUME NEW c, NEW h, NEW f, NEW k, WInv(c, h, f, k), c.move = "no", c.slot = "free",
           ~c.removed,
           NEW d, Shaped(d, h, f, k), SamePrompts(c, d), SameCalls(c, d),
           d.claimed = c.claimed, ~d.removed, d.move = "removing", d.slot = "mover",
           d.row = c.row \/ c.row = 0, d.row \in h.received, d.row # 0
    PROVE  WInv(d, h, f, k)
<1>1. /\ c \in ClientFields(Nat) /\ d \in ClientFields(Nat) /\ k.faults \in Nat
      /\ Slots(c) /\ Numbers(c, h)
  BY HistTyped DEF WInv, Shaped
<1>2. Slots(d)
  BY <1>1 DEF Slots, SamePrompts, SameCalls
<1>3. ~Owed(d)
  BY DEF Owed
<1>4. Credit(d) = 0 /\ Credit(c) \in 0..1
  BY <1>1, <1>3, CountsTyped DEF Credit
<1>5. Credit(d) + k.faults <= Credit(c) + k.faults /\ k.faults <= k.faults
  BY <1>1, <1>4
<1>6. ~k.lost => Carries(c, h, c.requests[d.row].text)
  BY DEF WInv, Counted
<1>7. d.claimed \subseteq h.received
  BY <1>1 DEF Numbers
<1> QED
  BY <1>2, <1>3, <1>5, <1>6, <1>7, MoveKeepsInv

LEMMA ResendIs ==
    ASSUME NEW c \in ClientFields(Nat), c.row \in DOMAIN c.requests,
           c.awaits <= Len(c.requests)
    PROVE  LET d == Resend(c)
               r == [text |-> c.requests[c.row].text, by |-> "mover", delivery |-> "queue"]
           IN  /\ d \in ClientFields(Nat) /\ r \in Request
               /\ d.removed = c.removed
               /\ d.interrupt = c.interrupt /\ d.awaits = c.awaits
               /\ c.ready => Issued(c, d, r) /\ d.move = "sending" /\ d.slot = c.slot
               /\ ~c.ready => /\ SamePrompts(c, d) /\ SameCalls(c, d)
                              /\ d.claimed = c.claimed /\ d.row = c.row
                              /\ d.move = "no" /\ d.slot = "free"
<1>1. c.requests \in Seq(Request)
  BY DEF ClientFields
<1>2. c.requests[c.row] \in Request
  BY <1>1
<1> DEFINE text == c.requests[c.row].text
<1>3. text \in Messages
  BY <1>2 DEF Request
<1> HIDE DEF text
<1>4. CASE c.ready
  <2> DEFINE e == Issue(c, text, "mover", "queue")
             r == [text |-> text, by |-> "mover", delivery |-> "queue"]
             d == [e EXCEPT !.move = "sending"]
  <2>1. /\ e \in ClientFields(Nat) /\ r \in Request /\ Issued(c, e, r)
        /\ e.removed = c.removed /\ e.slot = c.slot /\ e.interrupt = c.interrupt
    BY <1>3, IssueIs
  <2>2. Resend(c) = d
    BY <1>4 DEF Resend, text
  <2> HIDE DEF e, r
  <2>3. /\ d \in ClientFields(Nat) /\ d.move = "sending"
        /\ d.requests = e.requests /\ d.wire = e.wire /\ d.open = e.open
        /\ d.outbox = e.outbox /\ d.admission = e.admission /\ d.steering = e.steering
        /\ d.queued = e.queued /\ d.claimed = e.claimed /\ d.row = e.row
        /\ d.awaits = e.awaits /\ d.removed = e.removed /\ d.slot = e.slot
        /\ d.interrupt = e.interrupt
    BY <2>1, ZenonT(60) DEF ClientFields
  <2> HIDE DEF d
  <2>4. Issued(c, d, r) /\ d.awaits = c.awaits
    BY <2>1, <2>3 DEF Issued
  <2> QED
    BY <1>4, <2>1, <2>2, <2>3, <2>4 DEF r, text
<1>5. CASE ~c.ready
  <2>1. Resend(c) = MoveFails([c EXCEPT !.loop = FALSE])
    BY <1>5 DEF Resend
  <2> DEFINE d == MoveFails([c EXCEPT !.loop = FALSE])
  <2>2. /\ d \in ClientFields(Nat) /\ d.move = "no" /\ d.slot = "free"
        /\ d.requests = c.requests /\ d.wire = c.wire /\ d.open = c.open
        /\ d.outbox = c.outbox /\ d.admission = c.admission /\ d.steering = c.steering
        /\ d.queued = c.queued /\ d.claimed = c.claimed /\ d.row = c.row
        /\ d.awaits = c.awaits /\ d.removed = c.removed /\ d.interrupt = c.interrupt
    BY ZenonT(60) DEF MoveFails, ClientFields
  <2>3. [text |-> text, by |-> "mover", delivery |-> "queue"] \in Request
    BY <1>3 DEF Request
  <2> HIDE DEF d
  <2> QED
    BY <1>5, <2>1, <2>2, <2>3 DEF d, SamePrompts, SameCalls, text
<1> QED
  BY <1>4, <1>5

\* The part of every publish that reaches the prompts, and what it leaves.
LEMMA PublishedKeepsInv ==
    ASSUME NEW c, NEW h, NEW f, NEW k, WInv(c, h, f, k)
    PROVE  LET d == Published(c)
           IN  /\ WInv(d, h, f, k)
               /\ d.interrupt = c.interrupt /\ d.awaits = c.awaits
<1> DEFINE d == Published(c)
<1>1. /\ c \in ClientFields(Nat) /\ Slots(c) /\ Numbers(c, h) /\ Shaped(c, h, f, k)
  BY DEF WInv, Shaped
<1>2. CASE ~MayMove(c)
  BY <1>2 DEF Published
<1>3. ASSUME MayMove(c) PROVE c.move = "no" /\ c.slot = "free"
  BY <1>3 DEF MayMove
<1>4. CASE MayMove(c) /\ c.row # 0 /\ c.removed
  <2> DEFINE b == [c EXCEPT !.slot = "mover"]
             r == [text |-> b.requests[b.row].text, by |-> "mover", delivery |-> "queue"]
  <2>1. d = Resend(b)
    BY <1>4 DEF Published
  <2>2. /\ b \in ClientFields(Nat) /\ b.slot = "mover" /\ SamePrompts(c, b)
        /\ SameCalls(c, b) /\ SameMove(c, b) /\ b.claimed = c.claimed /\ b.awaits = c.awaits
        /\ b.interrupt = c.interrupt /\ b.outbox = c.outbox
    BY <1>1 DEF ClientFields, SamePrompts, SameCalls, SameMove, Numbers
  <2>3. b.row \in DOMAIN b.requests /\ b.awaits <= Len(b.requests) /\ b.removed
    BY <1>1, <1>4, <2>2 DEF Numbers, SamePrompts, SameMove
  <2> HIDE DEF b
  <2>4. /\ d \in ClientFields(Nat) /\ r \in Request
        /\ d.removed = b.removed
        /\ d.interrupt = b.interrupt /\ d.awaits = b.awaits
        /\ b.ready => Issued(b, d, r) /\ d.move = "sending" /\ d.slot = b.slot
        /\ ~b.ready => /\ SamePrompts(b, d) /\ SameCalls(b, d)
                       /\ d.claimed = b.claimed /\ d.row = b.row
                       /\ d.move = "no" /\ d.slot = "free"
    BY <2>1, <2>2, <2>3, ResendIs
  <2>5. Owed(c) /\ c.move = "no" /\ c.slot = "free"
    BY <1>3, <1>4 DEF Owed
  <2>6. CASE b.ready
    <3>1. Issued(c, d, r) /\ r.text = c.requests[c.row].text
      BY <2>2, <2>4, <2>6 DEF Issued, SamePrompts, SameCalls, SameMove
    <3>2. d.slot = "mover" /\ d.move = "sending" /\ d.removed = TRUE
      <4>1. c.removed \in BOOLEAN
        BY <1>1 DEF ClientFields
      <4> QED
        BY <1>4, <2>2, <2>4, <2>6, <4>1 DEF SameMove
    <3>3. r.by = "mover" /\ r.delivery = "queue"
      OBVIOUS
    <3>4. WInv(d, h, f, k)
      BY <2>4, <2>5, <3>1, <3>2, <3>3, MoverKeepsInv
    <3> QED
      BY <2>2, <2>4, <3>4
  <2>7. CASE ~b.ready
    <3>1. Alike(c, d)
      BY <2>2, <2>4, <2>5, <2>7 DEF Alike, SamePrompts, SameCalls, SameMove
    <3>2. /\ d.outbox \subseteq DOMAIN c.requests
          /\ Range(d.steering) \cup Range(d.queued) \cup d.claimed \subseteq h.received
          /\ d.awaits <= Len(c.requests)
      BY <1>1, <2>2, <2>4, <2>7 DEF Numbers, SamePrompts
    <3>3. Shaped(d, h, f, k) /\ AlikeHost(h, h) /\ FramesOf(f, h)
      BY <1>1, <2>4 DEF Shaped, AlikeHost, WInv
    <3>4. k.faults <= k.faults
      BY <1>1, HistTyped
    <3>5. WInv(d, h, f, k)
      BY <3>1, <3>2, <3>3, <3>4, AlikeKeepsInv
    <3> QED
      BY <2>2, <2>4, <3>5
  <2> QED
    BY <2>6, <2>7
<1>5. CASE MayMove(c) /\ c.row # 0 /\ ~c.removed
  <2>1. d = [c EXCEPT !.slot = "mover", !.move = "removing"]
    BY <1>5 DEF Published
  <2>2. /\ d \in ClientFields(Nat) /\ d.slot = "mover" /\ d.move = "removing"
        /\ SamePrompts(c, d) /\ SameCalls(c, d) /\ d.claimed = c.claimed
        /\ d.row = c.row /\ d.removed = c.removed
        /\ d.interrupt = c.interrupt /\ d.awaits = c.awaits
    BY <1>1, <2>1, ZenonT(60) DEF ClientFields, SamePrompts, SameCalls, Numbers
  <2>3. Shaped(d, h, f, k) /\ d.row \in h.received
    BY <1>1, <1>5, <2>2 DEF Shaped, Numbers
  <2> HIDE DEF d
  <2>4. WInv(d, h, f, k)
    BY <1>3, <1>5, <2>2, <2>3, RowTakenKeepsInv
  <2> QED
    BY <2>2, <2>4 DEF d
<1>6. CASE MayMove(c) /\ c.row = 0 /\ c.steering # <<>> /\ Head(c.steering) \notin c.claimed
  <2> DEFINE x == Head(c.steering)
  <2>1. x \in h.received /\ x # 0 /\ x \in Nat
    <3>1. c.steering \in Seq(Nat)
      BY <1>1 DEF ClientFields
    <3>2. x \in Range(c.steering) /\ x \in Nat
      BY <1>6, <3>1, RangeOfTail
    <3>3. x \in DOMAIN c.requests /\ c.requests \in Seq(Request)
      BY <1>1, <3>2 DEF Numbers, ClientFields
    <3> QED
      BY <1>1, <3>2, <3>3, LenProperties DEF Numbers
  <2> HIDE DEF x
  <2>2. d = [c EXCEPT !.slot = "mover", !.move = "removing", !.row = x]
    BY <1>6 DEF Published, x
  <2>3. /\ d \in ClientFields(Nat) /\ d.slot = "mover" /\ d.move = "removing"
        /\ SamePrompts(c, d) /\ SameCalls(c, d) /\ d.claimed = c.claimed
        /\ d.row = x /\ d.removed = c.removed
        /\ d.interrupt = c.interrupt /\ d.awaits = c.awaits
    <3> DEFINE e == [c EXCEPT !.slot = "mover", !.move = "removing", !.row = x]
    <3>1. /\ e \in ClientFields(Nat) /\ e.slot = "mover" /\ e.move = "removing"
          /\ e.requests = c.requests /\ e.wire = c.wire /\ e.open = c.open
          /\ e.outbox = c.outbox /\ e.admission = c.admission /\ e.steering = c.steering
          /\ e.queued = c.queued /\ e.claimed = c.claimed /\ e.row = x
          /\ e.removed = c.removed /\ e.awaits = c.awaits /\ e.interrupt = c.interrupt
      BY <1>1, <2>1 DEF ClientFields
    <3> HIDE DEF e
    <3>3. d = e
      BY <2>2 DEF e
    <3>2. c.awaits <= Len(c.requests)
      BY <1>1 DEF Numbers
    <3> QED
      BY <3>1, <3>2, <3>3 DEF SamePrompts, SameCalls
  <2>4. Shaped(d, h, f, k) /\ ~c.removed
    BY <1>1, <1>6, <2>3 DEF Shaped, Slots
  <2> HIDE DEF d
  <2>5. WInv(d, h, f, k)
    BY <1>3, <1>6, <2>1, <2>3, <2>4, RowTakenKeepsInv
  <2> QED
    BY <2>3, <2>5 DEF d
<1>7. CASE MayMove(c) /\ c.row = 0 /\ (c.steering = <<>> \/ Head(c.steering) \in c.claimed)
  BY <1>7 DEF Published
<1> QED
  BY <1>2, <1>4, <1>5, <1>6, <1>7

-----------------------------------------------------------------------------
(* The steps of the host.                                                  *)

LEMMA SendsKeep ==
    ASSUME NEW h, frames \in Seq(Frames(Nat)), FramesOf(frames, h),
           NEW fs \in Seq(Frames(Nat)), FramesOf(fs, h), Sends(fs)
    PROVE  frames' \in Seq(Frames(Nat)) /\ FramesOf(frames', h)
<1>1. CASE client.online
  BY <1>1, FramesJoin DEF Sends
<1>2. CASE ~client.online
  BY <1>2 DEF Sends
<1> QED
  BY <1>1, <1>2

LEMMA FewFrames ==
    ASSUME NEW h, NEW x \in Frames(Nat), FrameOf(x, h.received),
           NEW y \in Frames(Nat), FrameOf(y, h.received)
    PROVE  /\ <<x>> \in Seq(Frames(Nat)) /\ FramesOf(<<x>>, h)
           /\ <<x, y>> \in Seq(Frames(Nat)) /\ FramesOf(<<x, y>>, h)
<1>1. <<x>> \in Seq(Frames(Nat)) /\ <<x, y>> \in Seq(Frames(Nat))
  OBVIOUS
<1>2. FramesOf(<<x>>, h)
  BY DEF FramesOf
<1>3. FramesOf(<<x, y>>, h)
  BY DEF FramesOf
<1> QED
  BY <1>1, <1>2, <1>3

\* Nothing is received or removed: input goes from the inbox to the log.
LEMMA ClaimKeepsInv ==
    ASSUME WritesInv, NEW e \in HostFields(Nat), NEW g \in Seq(Frames(Nat)),
           FramesOf(g, e), e.received = host.received,
           Range(e.steering) \subseteq Range(host.steering),
           \A m, n \in DOMAIN e.steering : e.steering[m] = e.steering[n] => m = n,
           Range(e.queued) \subseteq Range(host.queued),
           host.recorded \subseteq e.recorded,
           Range(e.steering) \cap e.recorded = {},
           Range(e.steering) \cup Range(e.queued) \cup e.recorded
              = Range(host.steering) \cup Range(host.queued) \cup host.recorded,
           Range(e.queued) \cup e.recorded
              = Range(host.queued) \cup host.recorded \cup (Range(host.steering) \ Range(e.steering))
    PROVE  WInv(client, e, g, hist)
<1>1. /\ Shaped(client, e, g, hist) /\ Numbers(client, host) /\ Places(client, host)
      /\ Slots(client) /\ Sent(client, host, hist)
  BY DEF WritesInv, WInv, Shaped
<1>2. Numbers(client, e)
  BY <1>1 DEF Numbers
<1>3. Places(client, e)
  BY <1>1 DEF Places
<1>4. Live(client, e) = Live(client, host)
  BY DEF Live
<1>5. Sent(client, e, hist)
  <2>1. Dropped(client, e) = Dropped(client, host)
    BY DEF Dropped
  <2> QED
    BY <1>1, <2>1 DEF Sent
<1>6. ~hist.lost => Counted(client, e)
  <2>1. \A text : Carries(client, e, text) = Carries(client, host, text)
    BY <1>4 DEF Carries
  <2> QED
    BY <1>4, <2>1 DEF WritesInv, WInv, Counted
<1> QED
  BY <1>1, <1>2, <1>3, <1>5, <1>6 DEF WInv

LEMMA WakeKeepsInv == WritesInv /\ Wake => WritesInv'
<1> SUFFICES ASSUME WritesInv, Wake PROVE WritesInv'
  OBVIOUS
<1> DEFINE x == Head(host.queued)
           t == Tail(host.queued)
<1>1. /\ host \in HostFields(Nat) /\ frames \in Seq(Frames(Nat))
      /\ FramesOf(frames, host) /\ Places(client, host)
  BY DEF WritesInv, WInv, Shaped
<1>2. host.queued \in Seq(Nat) /\ host.recorded \in SUBSET Nat /\ host.queued # <<>>
  BY <1>1 DEF HostFields, Wake
<1>3. t \in Seq(Nat) /\ x \in Nat /\ Range(host.queued) = Range(t) \cup {x}
  BY <1>2, RangeOfTail
<1> HIDE DEF x, t
<1>4. host' = [host EXCEPT !.running = TRUE, !.queued = t, !.recorded = @ \cup {x}]
      /\ UNCHANGED <<client, hist>>
  BY DEF Wake, x, t
<1>5. /\ host' \in HostFields(Nat) /\ host'.queued = t
      /\ host'.recorded = host.recorded \cup {x}
      /\ host'.steering = host.steering /\ host'.received = host.received
  BY <1>1, <1>3, <1>4 DEF HostFields
<1>6. frames' \in Seq(Frames(Nat)) /\ FramesOf(frames', host')
  <2> DEFINE a == Status(TRUE)
             b == Inbox(host', {x})
  <2>1. a \in Frames(Nat) /\ FrameOf(a, host'.received)
    BY StatusFrame
  <2>2. b \in Frames(Nat) /\ FrameOf(b, host'.received)
    <3>1. {x} \in SUBSET host'.received
      BY <1>1, <1>3, <1>5 DEF Places
    <3>2. Range(host'.steering) \cup Range(host'.queued) \subseteq host'.received
      BY <1>1, <1>3, <1>5 DEF Places
    <3> QED
      BY <1>5, <3>1, <3>2, InboxFrame
  <2>3. Sends(<<a, b>>)
    BY DEF Wake, x
  <2>4. FramesOf(frames, host')
    BY <1>1, <1>5, FramesStay
  <2> HIDE DEF a, b
  <2>5. <<a, b>> \in Seq(Frames(Nat)) /\ FramesOf(<<a, b>>, host')
    BY <2>1, <2>2, FewFrames
  <2> QED
    BY <1>1, <2>3, <2>4, <2>5, SendsKeep
<1>7. WInv(client, host', frames', hist)
  <2>1. Range(host.steering) \cap (Range(host.queued) \cup host.recorded) = {}
        /\ \A m, n \in DOMAIN host.steering : host.steering[m] = host.steering[n] => m = n
    BY <1>1 DEF Places
  <2> QED
    BY <1>3, <1>5, <1>6, <2>1, ClaimKeepsInv
<1> QED
  BY <1>4, <1>7 DEF WritesInv

LEMMA BoundaryKeepsInv == WritesInv /\ Boundary => WritesInv'
<1> SUFFICES ASSUME WritesInv, Boundary PROVE WritesInv'
  OBVIOUS
<1> DEFINE xs == Range(host.steering)
<1>1. /\ host \in HostFields(Nat) /\ frames \in Seq(Frames(Nat))
      /\ FramesOf(frames, host) /\ Places(client, host)
  BY DEF WritesInv, WInv, Shaped
<1>2. xs \subseteq Nat /\ <<>> \in Seq(Nat) /\ Range(<<>>) = {}
  <2>1. host.steering \in Seq(Nat)
    BY <1>1 DEF HostFields
  <2>2. xs \in SUBSET Nat
    BY <2>1, RangeOfSeq
  <2> QED
    BY <2>2 DEF Range
<1> HIDE DEF xs
<1>3. host' = [host EXCEPT !.steering = <<>>, !.recorded = @ \cup xs]
      /\ UNCHANGED <<client, hist>>
  BY DEF Boundary, xs
<1>4. /\ host' \in HostFields(Nat) /\ host'.queued = host.queued
      /\ host'.recorded = host.recorded \cup xs
      /\ host'.steering = <<>> /\ host'.received = host.received
  BY <1>1, <1>2, <1>3 DEF HostFields
<1>5. frames' \in Seq(Frames(Nat)) /\ FramesOf(frames', host')
  <2> DEFINE b == Inbox(host', xs)
  <2>1. b \in Frames(Nat) /\ FrameOf(b, host'.received)
    <3>1. xs \in SUBSET host'.received
      BY <1>1, <1>4 DEF Places, xs
    <3>2. Range(host'.steering) \cup Range(host'.queued) \subseteq host'.received
      BY <1>1, <1>2, <1>4 DEF Places
    <3> QED
      BY <1>4, <3>1, <3>2, InboxFrame
  <2>2. Sends(<<b>>)
    BY DEF Boundary, xs
  <2>3. FramesOf(frames, host')
    BY <1>1, <1>4, FramesStay
  <2> HIDE DEF b
  <2>4. <<b>> \in Seq(Frames(Nat)) /\ FramesOf(<<b>>, host')
    BY <2>1, FewFrames
  <2> QED
    BY <1>1, <2>2, <2>3, <2>4, SendsKeep
<1>6. WInv(client, host', frames', hist)
  <2>1. \A m, n \in DOMAIN host'.steering : host'.steering[m] = host'.steering[n] => m = n
    BY <1>4
  <2>2. Range(host'.steering) = {}
    BY <1>2, <1>4
  <2>3. Range(host.steering) = xs
    BY DEF xs
  <2> QED
    BY <1>4, <1>5, <2>1, <2>2, <2>3, ClaimKeepsInv
<1> QED
  BY <1>3, <1>6 DEF WritesInv

LEMMA ReceiveKeepsInv ==
    ASSUME WritesInv, NEW i \in Requests, Receive(i)
    PROVE  WritesInv'
<1> DEFINE h == [host EXCEPT !.received = @ \cup {i}]
           q == IF client.requests[i].delivery = "steer"
                THEN Append(host.steering, i) ELSE host.steering
           t == IF client.requests[i].delivery = "steer"
                THEN host.queued ELSE Append(host.queued, i)
           w == client.wire \ {i}
<1>1. /\ client \in ClientFields(Nat) /\ host \in HostFields(Nat)
      /\ frames \in Seq(Frames(Nat)) /\ FramesOf(frames, host)
      /\ Places(client, host) /\ Numbers(client, host) /\ Slots(client)
      /\ Sent(client, host, hist) /\ Shaped(client, host, frames, hist)
  BY DEF WritesInv, WInv, Shaped
<1>2. /\ i \in client.wire /\ i \in DOMAIN client.requests /\ i \notin host.received
      /\ i \in Nat /\ client.requests \in Seq(Request)
  BY <1>1 DEF Receive, Numbers, ClientFields
<1>3. /\ host.steering \in Seq(Nat) /\ host.queued \in Seq(Nat) /\ client.wire \in SUBSET Nat
      /\ host.received \in SUBSET Nat
  BY <1>1 DEF HostFields, ClientFields
<1>4. /\ q \in Seq(Nat) /\ t \in Seq(Nat)
      /\ \/ /\ client.requests[i].delivery = "steer"
            /\ q = Append(host.steering, i) /\ Range(q) = Range(host.steering) \cup {i}
            /\ t = host.queued
         \/ /\ client.requests[i].delivery # "steer"
            /\ q = host.steering
            /\ t = Append(host.queued, i) /\ Range(t) = Range(host.queued) \cup {i}
  <2>1. /\ Append(host.steering, i) \in Seq(Nat)
        /\ Range(Append(host.steering, i)) = Range(host.steering) \cup {i}
    <3>1. host.steering \in Seq(Nat) /\ i \in Nat
      BY <1>2, <1>3
    <3> QED
      BY <3>1, RangeOfAppend
  <2>2. /\ Append(host.queued, i) \in Seq(Nat)
        /\ Range(Append(host.queued, i)) = Range(host.queued) \cup {i}
    <3>1. host.queued \in Seq(Nat) /\ i \in Nat
      BY <1>2, <1>3
    <3> QED
      BY <3>1, RangeOfAppend
  <2>3. CASE client.requests[i].delivery = "steer"
    BY <1>3, <2>1, <2>3
  <2>4. CASE client.requests[i].delivery # "steer"
    BY <1>3, <2>2, <2>4
  <2> QED
    BY <2>3, <2>4
<1>5. client' = [client EXCEPT !.wire = w]
  BY DEF Receive
<1>6. UNCHANGED hist /\ Sends(<<Inbox(host', {})>>)
  BY DEF Receive
<1>7. /\ host' \in HostFields(Nat) /\ host'.steering = q /\ host'.queued = t
      /\ host'.received = host.received \cup {i} /\ host'.recorded = host.recorded
  <2>1. /\ h \in HostFields(Nat) /\ h.received = host.received \cup {i}
        /\ h.steering = host.steering /\ h.queued = host.queued /\ h.recorded = host.recorded
    <3> DEFINE z == host.received \cup {i}
    <3>1. z \in SUBSET Nat
      BY <1>2, <1>3
    <3> HIDE DEF z
    <3>2. LET e == [host EXCEPT !.received = z]
          IN  /\ e \in HostFields(Nat) /\ e.received = z
              /\ e.steering = host.steering /\ e.queued = host.queued
              /\ e.recorded = host.recorded
      BY <1>1, <3>1 DEF HostFields
    <3> QED
      BY <3>2 DEF z
  <2>2. host' = IF client.requests[i].delivery = "steer"
                THEN [h EXCEPT !.steering = Append(@, i)]
                ELSE [h EXCEPT !.queued = Append(@, i)]
    BY DEF Receive
  <2> HIDE DEF h
  <2>3. host' = IF client.requests[i].delivery = "steer"
                THEN [h EXCEPT !.steering = Append(host.steering, i)]
                ELSE [h EXCEPT !.queued = Append(host.queued, i)]
    BY <2>1, <2>2
  <2>4. host' = IF client.requests[i].delivery = "steer"
                THEN [h EXCEPT !.steering = q] ELSE [h EXCEPT !.queued = t]
    BY <2>3
  <2> HIDE DEF q, t
  <2>5. CASE client.requests[i].delivery = "steer"
    <3>1. host' = [h EXCEPT !.steering = q]
      BY <2>4, <2>5
    <3>2. t = host.queued
      BY <1>4, <2>5
    <3> QED
      BY <1>4, <2>1, <3>1, <3>2 DEF HostFields
  <2>6. CASE client.requests[i].delivery # "steer"
    <3>1. host' = [h EXCEPT !.queued = t]
      BY <2>4, <2>6
    <3>2. q = host.steering
      BY <1>4, <2>6
    <3> QED
      BY <1>4, <2>1, <3>1, <3>2 DEF HostFields
  <2> QED
    BY <2>5, <2>6
<1>8. w \in SUBSET Nat
  BY <1>3
<1> HIDE DEF w
<1>9. /\ client' \in ClientFields(Nat) /\ client'.wire = w
      /\ client'.requests = client.requests /\ client'.open = client.open
      /\ client'.outbox = client.outbox /\ client'.admission = client.admission
      /\ client'.steering = client.steering /\ client'.queued = client.queued
      /\ client'.claimed = client.claimed /\ client'.row = client.row
      /\ client'.awaits = client.awaits /\ client'.removed = client.removed
      /\ client'.move = client.move /\ client'.slot = client.slot
  BY <1>1, <1>5, <1>8 DEF ClientFields
<1>10. Range(q) \cup Range(t) = Range(host.steering) \cup Range(host.queued) \cup {i}
  BY <1>4
<1> HIDE DEF q, t, h
<1>11. Numbers(client', host')
  BY <1>1, <1>2, <1>7, <1>9 DEF Numbers, w
<1>12. frames' \in Seq(Frames(Nat)) /\ FramesOf(frames', host')
  <2> DEFINE b == Inbox(host', {})
  <2>1. b \in Frames(Nat) /\ FrameOf(b, host'.received)
    <3>1. {} \in SUBSET host'.received
      OBVIOUS
    <3>2. Range(host'.steering) \cup Range(host'.queued) \subseteq host'.received
      BY <1>1, <1>7, <1>10 DEF Places
    <3> QED
      BY <1>7, <3>1, <3>2, InboxFrame
  <2>2. Sends(<<b>>)
    BY <1>6
  <2>3. FramesOf(frames, host')
    BY <1>1, <1>7, FramesStay
  <2> HIDE DEF b
  <2>4. <<b>> \in Seq(Frames(Nat)) /\ FramesOf(<<b>>, host')
    BY <2>1, FewFrames
  <2> QED
    BY <1>1, <2>2, <2>3, <2>4, SendsKeep
<1>13. Shaped(client', host', frames', hist')
  BY <1>1, <1>6, <1>7, <1>9, <1>12 DEF Shaped
<1>14. i \notin Range(host.steering) \cup Range(host.queued) \cup host.recorded
  BY <1>1, <1>2 DEF Places
<1>15. Places(client', host')
  <2>1. \A m, n \in DOMAIN q : q[m] = q[n] => m = n
    <3>1. \A m, n \in DOMAIN host.steering : host.steering[m] = host.steering[n] => m = n
      BY <1>1 DEF Places
    <3>2. CASE q = Append(host.steering, i)
      <4>1. /\ Len(q) = Len(host.steering) + 1 /\ Len(host.steering) \in Nat
            /\ \A n \in 1..Len(host.steering) : q[n] = host.steering[n]
            /\ q[Len(host.steering) + 1] = i
            /\ DOMAIN q = 1..Len(q) /\ DOMAIN host.steering = 1..Len(host.steering)
        BY <1>2, <1>3, <1>4, <3>2, AppendProperties, LenProperties
      <4>2. \A n \in 1..Len(host.steering) : q[n] # i
        BY <1>14, <4>1 DEF Range
      <4> QED
        BY <3>1, <4>1, <4>2
    <3>3. CASE q = host.steering
      BY <3>1, <3>3
    <3> QED
      BY <1>4, <3>2, <3>3
  <2>2. Range(q) \cap (Range(t) \cup host.recorded) = {}
    BY <1>1, <1>4, <1>14 DEF Places
  <2>3. Range(q) \cup Range(t) \cup host.recorded \subseteq host'.received
    BY <1>1, <1>7, <1>10 DEF Places
  <2>4. \A j \in DOMAIN client.requests :
          client.requests[j].by = "mover" =>
              /\ client.requests[j].delivery = "queue"
              /\ j \in host'.received => j \in Range(t) \cup host.recorded
    <3> SUFFICES ASSUME NEW j \in DOMAIN client.requests, client.requests[j].by = "mover"
                 PROVE  /\ client.requests[j].delivery = "queue"
                        /\ j \in host'.received => j \in Range(t) \cup host.recorded
      OBVIOUS
    <3>1. /\ client.requests[j].delivery = "queue"
          /\ j \in host.received => j \in Range(host.queued) \cup host.recorded
      BY <1>1 DEF Places
    <3>2. Range(host.queued) \subseteq Range(t)
      BY <1>4
    <3>3. j = i => i \in Range(t)
      BY <1>4, <3>1
    <3> QED
      BY <1>7, <3>1, <3>2, <3>3
  <2> QED
    BY <1>7, <1>9, <2>1, <2>2, <2>3, <2>4 DEF Places
<1>16. Slots(client')
  BY <1>1, <1>9 DEF Slots
<1>17. Sent(client', host', hist')
  <2>1. /\ Movers(client') = Movers(client) /\ Firsts(client') = Firsts(client)
        /\ Credit(client') = Credit(client)
    BY <1>9 DEF Movers, Firsts, Credit, Owed
  <2>2. Dropped(client', host') = Dropped(client, host)
    <3>1. \A j : (j \in host'.received /\ j \notin Range(q) \cup Range(t) \cup host.recorded)
             <=> (j \in host.received
                    /\ j \notin Range(host.steering) \cup Range(host.queued) \cup host.recorded)
      BY <1>2, <1>7, <1>10, <1>14
    <3>2. Dropped(client', host') = {j \in Firsts(client) :
             j \in host'.received /\ j \notin Range(q) \cup Range(t) \cup host.recorded}
      BY <1>7, <2>1 DEF Dropped
    <3>3. Dropped(client, host) = {j \in Firsts(client) :
             j \in host.received
             /\ j \notin Range(host.steering) \cup Range(host.queued) \cup host.recorded}
      BY DEF Dropped
    <3> QED
      BY <3>1, <3>2, <3>3
  <2> QED
    BY <1>1, <1>6, <1>9, <2>1, <2>2 DEF Sent
<1>18. ~hist'.lost => Counted(client', host')
  <2> SUFFICES ASSUME ~hist.lost PROVE Counted(client', host')
    BY <1>6
  <2>1. Counted(client, host)
    BY DEF WritesInv, WInv
  <2>2. Live(client', host') = Live(client, host)
    BY <1>2, <1>7, <1>9, <1>10 DEF Live, w
  <2>3. \A text : Carries(client', host', text) = Carries(client, host, text)
    BY <1>9, <2>2 DEF Carries
  <2>4. i \in Live(client, host) /\ client.wire \subseteq Live(client, host)
    BY <1>2 DEF Live
  <2>5. Carries(client, host, client.requests[i].text)
    BY <2>4 DEF Carries
  <2>6. client'.wire \subseteq client'.open /\ client'.open \subseteq client'.wire \cup host'.received
    BY <1>7, <1>9, <2>1 DEF Counted, w
  <2>7. \A m \in client'.wire, n \in host'.received :
          client.requests[m].text = client.requests[n].text => client.requests[m].by = "mover"
    <3> SUFFICES ASSUME NEW m \in client'.wire, NEW n \in host'.received,
                        client.requests[m].text = client.requests[n].text
                 PROVE  client.requests[m].by = "mover"
      OBVIOUS
    <3>1. m \in client.wire /\ m # i
      BY <1>9 DEF w
    <3>2. n # i
      BY <2>1, <2>4, <3>1 DEF Counted
    <3> QED
      BY <1>7, <2>1, <3>1, <3>2 DEF Counted
  <2>8. \A m \in host'.received :
          \/ Carries(client, host, client.requests[m].text)
          \/ client.row # 0 /\ client.requests[client.row].text = client.requests[m].text
    BY <1>7, <2>1, <2>5 DEF Counted
  <2>9. Owed(client') = Owed(client)
    BY <1>9 DEF Owed
  <2> QED
    BY <1>9, <2>1, <2>2, <2>3, <2>6, <2>7, <2>8, <2>9 DEF Counted
<1> QED
  BY <1>11, <1>12, <1>13, <1>15, <1>16, <1>17, <1>18 DEF WritesInv, WInv

\* The mover has the only copy of the row it removed.
LEMMA RowRemovedKeepsInv ==
    ASSUME WritesInv, client.move = "removing", NEW n \in DOMAIN host.steering,
           host.steering[n] = client.row,
           host' = [host EXCEPT !.steering = RemoveAt(@, n)],
           client' = [client EXCEPT !.move = "removed"],
           Sends(<<Inbox(host', {})>>), UNCHANGED hist
    PROVE  WritesInv'
<1> DEFINE q == RemoveAt(host.steering, n)
           x == client.row
<1>1. /\ client \in ClientFields(Nat) /\ host \in HostFields(Nat)
      /\ frames \in Seq(Frames(Nat)) /\ FramesOf(frames, host)
      /\ Places(client, host) /\ Numbers(client, host) /\ Slots(client)
      /\ Sent(client, host, hist) /\ Shaped(client, host, frames, hist)
  BY DEF WritesInv, WInv, Shaped
<1>2. /\ q \in Seq(Nat) /\ Range(q) = Range(host.steering) \ {x}
      /\ \A i, j \in DOMAIN q : q[i] = q[j] => i = j
  <2>1. host.steering \in Seq(Nat)
    BY <1>1 DEF HostFields
  <2>2. \A i, j \in DOMAIN host.steering : host.steering[i] = host.steering[j] => i = j
    BY <1>1 DEF Places
  <2> QED
    BY <2>1, <2>2, RangeOfRemoveAt
<1> HIDE DEF q
<1>3. host' = [host EXCEPT !.steering = q]
  BY DEF q
<1>4. /\ host' \in HostFields(Nat) /\ host'.steering = q /\ host'.queued = host.queued
      /\ host'.received = host.received /\ host'.recorded = host.recorded
  BY <1>1, <1>2, <1>3 DEF HostFields
<1>5. /\ client' \in ClientFields(Nat) /\ client'.wire = client.wire
      /\ client'.requests = client.requests /\ client'.open = client.open
      /\ client'.outbox = client.outbox /\ client'.admission = client.admission
      /\ client'.steering = client.steering /\ client'.queued = client.queued
      /\ client'.claimed = client.claimed /\ client'.row = client.row
      /\ client'.awaits = client.awaits /\ client'.removed = client.removed
      /\ client'.move = "removed" /\ client'.slot = client.slot
  BY <1>1 DEF ClientFields
<1>6. /\ x \in Range(host.steering) /\ x \in host.received /\ x \in DOMAIN client.requests
      /\ x # 0 /\ ~client.removed
  BY <1>1 DEF Range, Places, Numbers, Slots
<1>7. x \notin Range(host.queued) \cup host.recorded \cup client.wire
  BY <1>1, <1>6 DEF Places, Numbers
<1>8. x \in Firsts(client)
  BY <1>1, <1>6, <1>7 DEF Firsts, Movers, Places
<1>9. Numbers(client', host')
  BY <1>1, <1>4, <1>5 DEF Numbers
<1>10. frames' \in Seq(Frames(Nat)) /\ FramesOf(frames', host')
  <2> DEFINE b == Inbox(host', {})
  <2>1. b \in Frames(Nat) /\ FrameOf(b, host'.received)
    <3>1. {} \in SUBSET host'.received
      OBVIOUS
    <3>2. Range(host'.steering) \cup Range(host'.queued) \subseteq host'.received
      BY <1>1, <1>2, <1>4 DEF Places
    <3> QED
      BY <1>4, <3>1, <3>2, InboxFrame
  <2>2. FramesOf(frames, host')
    BY <1>1, <1>4, FramesStay
  <2>3. Sends(<<b>>)
    OBVIOUS
  <2> HIDE DEF b
  <2>4. <<b>> \in Seq(Frames(Nat)) /\ FramesOf(<<b>>, host')
    BY <2>1, FewFrames
  <2> QED
    BY <1>1, <2>2, <2>3, <2>4, SendsKeep
<1>11. Shaped(client', host', frames', hist')
  BY <1>1, <1>4, <1>5, <1>10 DEF Shaped
<1>12. Places(client', host')
  BY <1>1, <1>2, <1>4, <1>5 DEF Places
<1>13. Slots(client')
  BY <1>1, <1>5, <1>6 DEF Slots
<1>14. Owed(client') /\ ~Owed(client)
  BY <1>5, <1>6 DEF Owed
<1>15. Sent(client', host', hist')
  <2>1. Movers(client') = Movers(client) /\ Firsts(client') = Firsts(client)
    BY <1>5 DEF Movers, Firsts
  <2>2. Dropped(client', host') = Dropped(client, host) \cup {x} /\ x \notin Dropped(client, host)
    BY <1>2, <1>4, <1>6, <1>7, <1>8, <2>1 DEF Dropped
  <2>3. /\ Cardinality(Dropped(client', host')) = Cardinality(Dropped(client, host)) + 1
        /\ Cardinality(Dropped(client, host)) \in Nat /\ Cardinality(Movers(client)) \in Nat
    BY <1>1, <2>2, CountsTyped, FS_AddElement
  <2>4. Credit(client') = 1 /\ Credit(client) = 0
    BY <1>14 DEF Credit
  <2>5. hist.faults \in Nat
    BY <1>1, HistTyped
  <2>6. Cardinality(Movers(client')) + Credit(client')
           <= Cardinality(Dropped(client', host')) + hist.faults
    <3>1. Cardinality(Movers(client)) + Credit(client)
             <= Cardinality(Dropped(client, host)) + hist.faults
      BY <1>1 DEF Sent
    <3> QED
      BY <2>1, <2>3, <2>4, <2>5, <3>1
  <2> QED
    BY <1>1, <1>5, <2>1, <2>6, SMTT(40) DEF Sent
<1>16. ~hist'.lost => Counted(client', host')
  <2> SUFFICES ASSUME ~hist.lost PROVE Counted(client', host')
    OBVIOUS
  <2>1. Counted(client, host)
    BY DEF WritesInv, WInv
  <2>2. Live(client', host') = Live(client, host) \ {x} /\ x \in Live(client, host)
    BY <1>2, <1>4, <1>5, <1>6, <1>7 DEF Live
  <2>3. \A text : Carries(client', host', text) => Carries(client, host, text)
    BY <1>5, <2>2 DEF Carries
  <2>4. \A text : Carries(client, host, text) =>
           Carries(client', host', text) \/ text = client.requests[x].text
    BY <1>5, <2>2 DEF Carries
  <2>5. ~Carries(client', host', client.requests[x].text)
    BY <1>5, <2>1, <2>2 DEF Carries, Counted
  <2>6. \A m, j \in Live(client', host') :
           client.requests[m].text = client.requests[j].text => m = j
    BY <2>1, <2>2 DEF Counted
  <2>7. \A m \in host.received :
          \/ Carries(client', host', client.requests[m].text)
          \/ client.row # 0 /\ client.requests[client.row].text = client.requests[m].text
    BY <1>6, <2>1, <2>4 DEF Counted
  <2>8. /\ client.wire \subseteq client.open
        /\ client.open \subseteq client.wire \cup host.received
        /\ \A m \in client.wire, j \in host.received :
              client.requests[m].text = client.requests[j].text =>
                 client.requests[m].by = "mover"
    BY <2>1 DEF Counted
  <2> QED
    BY <1>4, <1>5, <2>5, <2>6, <2>7, <2>8 DEF Counted
<1> QED
  BY <1>9, <1>10, <1>11, <1>12, <1>13, <1>15, <1>16 DEF WritesInv, WInv

LEMMA DropRowKeepsInv == WritesInv /\ DropRow => WritesInv'
<1> SUFFICES ASSUME WritesInv, DropRow PROVE WritesInv'
  OBVIOUS
<1>1. client.move = "removing" /\ UNCHANGED hist
  BY DEF DropRow
<1>2. ASSUME NEW n \in DOMAIN host.steering, host.steering[n] = client.row,
             host' = [host EXCEPT !.steering = RemoveAt(@, n)],
             client' = [client EXCEPT !.move = "removed"],
             Sends(<<Inbox(host', {})>>)
      PROVE  WritesInv'
  BY <1>1, <1>2, RowRemovedKeepsInv
<1>3. CASE client' = [client EXCEPT !.move = "missing"] /\ UNCHANGED <<host, frames>>
  <2>1. /\ client \in ClientFields(Nat) /\ Slots(client) /\ Numbers(client, host)
        /\ Shaped(client, host, frames, hist) /\ hist.faults \in Nat
    BY HistTyped DEF WritesInv, WInv, Shaped
  <2>2. /\ client' \in ClientFields(Nat) /\ client'.wire = client.wire
        /\ client'.requests = client.requests /\ client'.open = client.open
        /\ client'.outbox = client.outbox /\ client'.admission = client.admission
        /\ client'.steering = client.steering /\ client'.queued = client.queued
        /\ client'.claimed = client.claimed /\ client'.row = client.row
        /\ client'.awaits = client.awaits /\ client'.removed = client.removed
        /\ client'.move = "missing" /\ client'.slot = client.slot
    BY <1>3, <2>1 DEF ClientFields
  <2>3. SamePrompts(client, client') /\ SameCalls(client, client')
    BY <2>1, <2>2 DEF SamePrompts, SameCalls, Numbers
  <2>4. Slots(client')
    BY <1>1, <2>1, <2>2 DEF Slots
  <2>5. ~client.removed /\ ~Owed(client') /\ ~Owed(client)
    BY <1>1, <2>1, <2>2 DEF Owed, Slots
  <2>6. /\ Credit(client') + hist.faults <= Credit(client) + hist.faults
        /\ hist.faults <= hist.faults
    BY <2>1, <2>5 DEF Credit
  <2>7. ~hist.lost /\ client.row # 0 => Carries(client, host, client.requests[client.row].text)
    BY <1>1, <2>5 DEF WritesInv, WInv, Counted
  <2>8. Shaped(client', host, frames, hist)
    BY <2>1, <2>2 DEF Shaped
  <2>9. client'.claimed \subseteq host.received /\ client'.row \in {0} \cup host.received
    BY <2>1, <2>2 DEF Numbers
  <2>10. WInv(client, host, frames, hist)
    BY DEF WritesInv
  <2>11. WInv(client', host, frames, hist)
    BY <2>2, <2>3, <2>4, <2>5, <2>6, <2>7, <2>8, <2>9, <2>10, MoveKeepsInv
  <2> QED
    BY <1>1, <1>3, <2>11 DEF WritesInv
<1> QED
  BY <1>2, <1>3 DEF DropRow

\* The status of the host is told; the prompts are where they were.
LEMMA StatusKeepsInv ==
    ASSUME WritesInv, NEW running \in BOOLEAN, host' = [host EXCEPT !.running = running],
           (\E b \in BOOLEAN : Sends(<<Status(b)>>)) \/ UNCHANGED frames,
           NEW d \in ClientFields(Nat), Alike(client, d),
           d.outbox = client.outbox, d.awaits = client.awaits, d.claimed = client.claimed,
           d.steering = client.steering, d.queued = client.queued,
           NEW l, l \in [faults : 0..MaxFaults, foreign : 0..MaxFaults, lost : BOOLEAN],
           l.faults = hist.faults, l.lost = hist.lost, l.faults + l.foreign <= MaxFaults
    PROVE  WInv(d, host', frames', l)
<1>1. /\ host \in HostFields(Nat) /\ frames \in Seq(Frames(Nat)) /\ FramesOf(frames, host)
      /\ Numbers(client, host) /\ WInv(client, host, frames, hist) /\ hist.faults \in Nat
  BY HistTyped DEF WritesInv, WInv, Shaped
<1>2. host' \in HostFields(Nat) /\ host'.running = running /\ AlikeHost(host, host')
  BY <1>1 DEF HostFields, AlikeHost
<1>3. frames' \in Seq(Frames(Nat)) /\ FramesOf(frames', host)
  <2>1. \A b \in BOOLEAN : <<Status(b)>> \in Seq(Frames(Nat)) /\ FramesOf(<<Status(b)>>, host)
    <3> SUFFICES ASSUME NEW b \in BOOLEAN
                 PROVE  <<Status(b)>> \in Seq(Frames(Nat)) /\ FramesOf(<<Status(b)>>, host)
      OBVIOUS
    <3>1. Status(b) \in Frames(Nat) /\ FrameOf(Status(b), host.received)
      BY StatusFrame
    <3> QED
      BY <3>1, FewFrames
  <2>2. CASE \E b \in BOOLEAN : Sends(<<Status(b)>>)
    BY <1>1, <2>1, <2>2, SendsKeep
  <2>3. CASE UNCHANGED frames
    BY <1>1, <2>3
  <2> QED
    BY <1>2, <2>2, <2>3
<1>4. Shaped(d, host', frames', l)
  BY <1>2, <1>3 DEF Shaped
<1>5. /\ d.outbox \subseteq DOMAIN client.requests /\ d.awaits <= Len(client.requests)
      /\ Range(d.steering) \cup Range(d.queued) \cup d.claimed \subseteq host.received
  BY <1>1 DEF Numbers
<1>6. hist.faults <= l.faults
  BY <1>1
<1> QED
  BY <1>1, <1>2, <1>3, <1>4, <1>5, <1>6, AlikeKeepsInv

LEMMA TurnsKeepInv == WritesInv /\ (EndTurn \/ ForeignTurn \/ Cancel) => WritesInv'
<1>1. ASSUME WritesInv
      PROVE  /\ client \in ClientFields(Nat) /\ Alike(client, client)
             /\ hist \in [faults : 0..MaxFaults, foreign : 0..MaxFaults, lost : BOOLEAN]
             /\ hist.faults + hist.foreign <= MaxFaults
             /\ hist.faults \in Nat /\ hist.foreign \in Nat
  BY <1>1, HistTyped DEF WritesInv, WInv, Shaped, Alike
<1>2. ASSUME WritesInv, EndTurn PROVE WritesInv'
  <2>1. WInv(client, host', frames', hist)
    BY <1>1, <1>2, StatusKeepsInv DEF EndTurn
  <2> QED
    BY <1>2, <2>1 DEF EndTurn, WritesInv
<1>3. ASSUME WritesInv, ForeignTurn PROVE WritesInv'
  <2> DEFINE l == [hist EXCEPT !.foreign = @ + 1]
  <2>1. hist.faults + hist.foreign < MaxFaults
    BY <1>3 DEF ForeignTurn
  <2>2. hist.foreign + 1 \in 0..MaxFaults /\ hist.faults + (hist.foreign + 1) <= MaxFaults
    BY <1>1, <1>3, <2>1, WritesAssumption
  <2>3. /\ l \in [faults : 0..MaxFaults, foreign : 0..MaxFaults, lost : BOOLEAN]
        /\ l.faults = hist.faults /\ l.lost = hist.lost
        /\ l.foreign = hist.foreign + 1
    BY <1>1, <1>3, <2>2
  <2>4. l.faults + l.foreign <= MaxFaults
    BY <2>2, <2>3
  <2>5. hist' = l
    BY <1>3 DEF ForeignTurn
  <2> HIDE DEF l
  <2>6. WInv(client, host', frames', l)
    BY <1>1, <1>3, <2>3, <2>4, StatusKeepsInv DEF ForeignTurn
  <2> QED
    BY <1>3, <2>5, <2>6 DEF ForeignTurn, WritesInv
<1>4. ASSUME WritesInv, Cancel PROVE WritesInv'
  <2>1. client' = [client EXCEPT !.interrupt = "cancelled"]
    BY <1>4 DEF Cancel
  <2>2. /\ client' \in ClientFields(Nat) /\ Alike(client, client')
        /\ client'.outbox = client.outbox /\ client'.awaits = client.awaits
        /\ client'.claimed = client.claimed
        /\ client'.steering = client.steering /\ client'.queued = client.queued
    BY <1>1, <1>4, <2>1 DEF ClientFields, Alike
  <2>3. host' = [host EXCEPT !.running = FALSE] /\ UNCHANGED hist
        /\ ((\E b \in BOOLEAN : Sends(<<Status(b)>>)) \/ UNCHANGED frames)
    BY <1>4 DEF Cancel
  <2>4. WInv(client', host', frames', hist)
    BY <1>1, <1>4, <2>2, <2>3, StatusKeepsInv
  <2> QED
    BY <2>3, <2>4 DEF WritesInv
<1> QED
  BY <1>2, <1>3, <1>4

-----------------------------------------------------------------------------
(* The steps of the client.                                                *)

\* A client that is alike publishes: what most continuations come down to.
LEMMA AlikeThenPublished ==
    ASSUME WritesInv, NEW d \in ClientFields(Nat), Alike(client, d),
           d.outbox \subseteq DOMAIN client.requests, d.awaits <= Len(client.requests),
           Range(d.steering) \cup Range(d.queued) \cup d.claimed \subseteq host.received,
           NEW g \in Seq(Frames(Nat)), FramesOf(g, host),
           NEW l, l \in [faults : 0..MaxFaults, foreign : 0..MaxFaults, lost : BOOLEAN],
           l.faults + l.foreign <= MaxFaults, hist.faults <= l.faults, hist.lost => l.lost
    PROVE  WInv(d, host, g, l) /\ WInv(Published(d), host, g, l)
<1>1. Shaped(d, host, g, l) /\ WInv(client, host, frames, hist) /\ AlikeHost(host, host)
  BY DEF WritesInv, WInv, Shaped, AlikeHost
<1>2. WInv(d, host, g, l)
  BY <1>1, AlikeKeepsInv
<1> QED
  BY <1>2, PublishedKeepsInv

\* What every step may use.
LEMMA WritesFacts ==
    ASSUME WritesInv
    PROVE  /\ WInv(client, host, frames, hist)
           /\ client \in ClientFields(Nat) /\ frames \in Seq(Frames(Nat))
           /\ host \in HostFields(Nat)
           /\ Shaped(client, host, frames, hist) /\ Numbers(client, host)
           /\ FramesOf(frames, host) /\ Slots(client) /\ Places(client, host)
           /\ hist \in [faults : 0..MaxFaults, foreign : 0..MaxFaults, lost : BOOLEAN]
           /\ hist.faults + hist.foreign <= MaxFaults
           /\ hist.faults \in Nat /\ hist.foreign \in Nat /\ hist.faults <= hist.faults
           /\ client.outbox \subseteq DOMAIN client.requests
           /\ client.awaits <= Len(client.requests)
           /\ Range(client.steering) \cup Range(client.queued) \cup client.claimed
                 \subseteq host.received
BY HistTyped DEF WritesInv, WInv, Shaped, Numbers

LEMMA FaultTyped ==
    ASSUME WritesInv, NEW lost \in BOOLEAN, Fault(lost)
    PROVE  /\ hist' \in [faults : 0..MaxFaults, foreign : 0..MaxFaults, lost : BOOLEAN]
           /\ hist'.faults + hist'.foreign <= MaxFaults
           /\ hist'.faults = hist.faults + 1
           /\ hist'.faults \in Nat /\ hist.faults <= hist'.faults
           /\ hist'.lost = (hist.lost \/ lost)
<1>1. /\ hist.faults + hist.foreign < MaxFaults
      /\ hist' = [hist EXCEPT !.faults = hist.faults + 1, !.lost = hist.lost \/ lost]
  BY DEF Fault
<1>2. /\ hist \in [faults : 0..MaxFaults, foreign : 0..MaxFaults, lost : BOOLEAN]
      /\ hist.faults \in Nat /\ hist.foreign \in Nat
  BY WritesFacts
<1>3. hist.faults + 1 \in 0..MaxFaults /\ hist.faults + 1 + hist.foreign <= MaxFaults
      /\ hist.faults + 1 \in Nat /\ hist.faults <= hist.faults + 1
  BY <1>1, <1>2, WritesAssumption
<1> DEFINE n == hist.faults + 1
           b == hist.lost \/ lost
<1>4. b \in BOOLEAN
  OBVIOUS
<1> HIDE DEF n, b
<1>5. hist' = [hist EXCEPT !.faults = n, !.lost = b] /\ n \in 0..MaxFaults
  BY <1>1, <1>3 DEF n, b
<1>6. /\ hist' \in [faults : 0..MaxFaults, foreign : 0..MaxFaults, lost : BOOLEAN]
      /\ hist'.faults = n /\ hist'.lost = b /\ hist'.foreign = hist.foreign
  BY <1>2, <1>4, <1>5
<1> QED
  BY <1>3, <1>6 DEF n, b

\* CancelFollowsPrompts, of one step.
CancelStep ==
    client.interrupt # "cancelling" /\ client'.interrupt = "cancelling" =>
        \/ hist.lost
        \/ \A i \in client.wire :
              client.requests[i].by = "loop" \/ i > client'.awaits

LEMMA SendKeepsInv ==
    ASSUME WritesInv,
           \/ \E text \in Typed : Type(text)
           \/ \E text \in Internal : LoopSends(text)
    PROVE  WritesInv' /\ CancelStep
<1> DEFINE delivery == Delivery(client)
<1>1. delivery \in {"steer", "queue"}
  BY DEF Delivery
<1> HIDE DEF delivery
<1>2. /\ WInv(client, host, frames, hist) /\ client \in ClientFields(Nat)
  BY WritesFacts
<1>3. ASSUME NEW text \in Typed, Type(text) PROVE WritesInv' /\ CancelStep
  <2> DEFINE b == [client EXCEPT !.slot = "typed"]
             r == [text |-> text, by |-> "typed", delivery |-> delivery]
  <2>1. /\ b \in ClientFields(Nat) /\ b.slot = "typed"
        /\ b.requests = client.requests /\ b.wire = client.wire /\ b.open = client.open
        /\ b.outbox = client.outbox /\ b.steering = client.steering
        /\ b.queued = client.queued /\ b.claimed = client.claimed /\ b.row = client.row
        /\ b.awaits = client.awaits /\ b.removed = client.removed /\ b.move = client.move
        /\ b.interrupt = client.interrupt
    BY <1>2 DEF ClientFields
  <2>2. client' = Issue(b, text, "typed", delivery) /\ UNCHANGED <<host, frames, hist>>
        /\ client.slot = "free"
    BY <1>3 DEF Type, delivery
  <2>3. \A j \in DOMAIN client.requests : client.requests[j].text # text
    BY <1>3 DEF Type, Unsent, Text
  <2>4. text \in Messages
    BY DEF Messages
  <2> HIDE DEF b
  <2>5. /\ client' \in ClientFields(Nat) /\ r \in Request /\ Issued(b, client', r)
        /\ client'.move = b.move /\ client'.removed = b.removed /\ client'.slot = b.slot
        /\ client'.interrupt = b.interrupt
    BY <1>1, <2>1, <2>2, <2>4, IssueIs, ZenonT(60)
  <2>6. Issued(client, client', r)
    BY <2>1, <2>5 DEF Issued
  <2>7. r.text = text /\ r.by = "typed"
    OBVIOUS
  <2> HIDE DEF r
  <2>8. WInv(client', host, frames, hist)
    BY <1>2, <2>1, <2>2, <2>3, <2>5, <2>6, <2>7, FirstKeepsInv
  <2> QED
    BY <2>1, <2>2, <2>5, <2>8 DEF WritesInv, CancelStep
<1>4. ASSUME NEW text \in Internal, LoopSends(text) PROVE WritesInv' /\ CancelStep
  <2> DEFINE r == [text |-> text, by |-> "loop", delivery |-> delivery]
  <2>1. client' = Issue(client, text, "loop", delivery) /\ UNCHANGED <<host, frames, hist>>
        /\ client.slot = "free"
    BY <1>4 DEF LoopSends, delivery
  <2>2. \A j \in DOMAIN client.requests : client.requests[j].text # text
    BY <1>4 DEF LoopSends, Unsent, Text
  <2>3. text \in Messages
    BY DEF Messages
  <2>4. /\ client' \in ClientFields(Nat) /\ r \in Request /\ Issued(client, client', r)
        /\ client'.move = client.move /\ client'.removed = client.removed
        /\ client'.interrupt = client.interrupt
    BY <1>1, <1>2, <2>1, <2>3, IssueIs
  <2>5. r.text = text /\ r.by = "loop"
    OBVIOUS
  <2> HIDE DEF r
  <2>6. WInv(client', host, frames, hist)
    BY <1>2, <2>1, <2>2, <2>4, <2>5, FirstKeepsInv
  <2> QED
    BY <2>1, <2>4, <2>6 DEF WritesInv, CancelStep
<1> QED
  BY <1>3, <1>4

\* The admission awaited is the last prompt sent, and only the last prompt of
\* the foreground slot can be unanswered.
LEMMA NothingOvertaken ==
    ASSUME WritesInv, NEW n \in Nat, n <= Len(client.requests), n \notin client.open
    PROVE  hist.lost \/ \A i \in client.wire : client.requests[i].by = "loop" \/ i > n
<1> SUFFICES ASSUME ~hist.lost, NEW i \in client.wire, client.requests[i].by # "loop"
             PROVE  i > n
  OBVIOUS
<1>1. Counted(client, host) /\ Slots(client)
  BY DEF WritesInv, WInv
<1>2. i \in client.open
  BY <1>1 DEF Counted
<1>3. i = Len(client.requests)
  BY <1>1, <1>2 DEF Slots
<1>4. i # n /\ n <= i
  BY <1>2, <1>3
<1>5. i \in Nat
  BY WritesFacts DEF ClientFields
<1> QED
  BY <1>4, <1>5

LEMMA InterruptKeepsInv ==
    ASSUME WritesInv, NEW force \in BOOLEAN, Interrupt(force)
    PROVE  WritesInv' /\ CancelStep
<1> DEFINE b == [client EXCEPT !.awaits = client.admission, !.loop = FALSE]
           i == IF MayCancel(b) THEN "cancelling" ELSE "settling"
           d == [b EXCEPT !.interrupt = i]
<1>1. /\ client \in ClientFields(Nat) /\ Numbers(client, host)
      /\ client.interrupt = "no"
  BY WritesFacts DEF Interrupt
<1>2. /\ client.admission = Len(client.requests) /\ client.admission \in Nat
  BY <1>1 DEF Numbers, ClientFields
<1>3. /\ b \in ClientFields(Nat) /\ b.awaits = client.admission
      /\ b.requests = client.requests /\ b.wire = client.wire /\ b.open = client.open
      /\ b.outbox = client.outbox /\ b.admission = client.admission
      /\ b.steering = client.steering /\ b.queued = client.queued
      /\ b.claimed = client.claimed /\ b.row = client.row
      /\ b.removed = client.removed /\ b.move = client.move /\ b.slot = client.slot
  BY <1>1, <1>2 DEF ClientFields
<1>4. client' = Published(d) /\ UNCHANGED <<host, frames, hist>>
  BY DEF Interrupt
<1>5. i \in {"cancelling", "settling"} /\ (i = "cancelling" => b.awaits \notin b.open)
  BY DEF MayCancel
<1> HIDE DEF b, i
<1>6. /\ d \in ClientFields(Nat) /\ d.awaits = client.admission /\ d.interrupt = i
      /\ d.requests = client.requests /\ d.wire = client.wire /\ d.open = client.open
      /\ d.outbox = client.outbox /\ d.admission = client.admission
      /\ d.steering = client.steering /\ d.queued = client.queued
      /\ d.claimed = client.claimed /\ d.row = client.row
      /\ d.removed = client.removed /\ d.move = client.move /\ d.slot = client.slot
  BY <1>3, <1>5, ZenonT(60) DEF ClientFields
<1> HIDE DEF d
<1>7. Alike(client, d) /\ d.awaits <= Len(client.requests)
  BY <1>2, <1>6 DEF Alike
<1>8. WInv(d, host, frames, hist)
  BY <1>6, <1>7, WritesFacts, AlikeThenPublished
<1>9. /\ WInv(Published(d), host, frames, hist)
      /\ Published(d).interrupt = i /\ Published(d).awaits = client.admission
  BY <1>6, <1>8, PublishedKeepsInv
<1>10. CancelStep
  <2>1. client'.interrupt = "cancelling" => client.admission \notin client.open
    BY <1>3, <1>4, <1>5, <1>9
  <2>2. client'.awaits = client.admission
    BY <1>4, <1>9
  <2>3. client.admission <= Len(client.requests)
    BY <1>2
  <2> QED
    BY <1>2, <2>1, <2>2, <2>3, NothingOvertaken DEF CancelStep
<1> QED
  BY <1>4, <1>9, <1>10 DEF WritesInv

\* interrupt() is over.
LEMMA StoppedIs ==
    ASSUME NEW c \in ClientFields(Nat)
    PROVE  LET d == Stopped(c)
           IN  /\ d \in ClientFields(Nat) /\ d.awaits = 0 /\ d.interrupt = "no"
               /\ d.requests = c.requests /\ d.wire = c.wire /\ d.open = c.open
               /\ d.outbox = c.outbox /\ d.admission = c.admission
               /\ d.steering = c.steering /\ d.queued = c.queued
               /\ d.claimed = c.claimed /\ d.row = c.row
               /\ d.removed = c.removed /\ d.move = c.move /\ d.slot = c.slot
BY DEF Stopped, ClientFields

LEMMA StopKeepsInv ==
    ASSUME WritesInv, client' = Published(Stopped(client)), UNCHANGED <<host, frames>>,
           \/ UNCHANGED hist
           \/ Fault(FALSE)
    PROVE  WritesInv' /\ CancelStep
<1> DEFINE d == Stopped(client)
<1>1. client \in ClientFields(Nat)
  BY WritesFacts
<1>2. /\ d \in ClientFields(Nat) /\ d.awaits = 0 /\ d.interrupt = "no"
      /\ d.requests = client.requests /\ d.wire = client.wire /\ d.open = client.open
      /\ d.outbox = client.outbox /\ d.admission = client.admission
      /\ d.steering = client.steering /\ d.queued = client.queued
      /\ d.claimed = client.claimed /\ d.row = client.row
      /\ d.removed = client.removed /\ d.move = client.move /\ d.slot = client.slot
  BY <1>1, StoppedIs
<1> HIDE DEF d
<1>3. Alike(client, d) /\ d.awaits <= Len(client.requests)
  <2>1. client.requests \in Seq(Request)
    BY <1>1 DEF ClientFields
  <2>2. 0 <= Len(client.requests)
    BY <2>1, LenProperties
  <2> QED
    BY <1>2, <2>2 DEF Alike
<1>4. /\ hist' \in [faults : 0..MaxFaults, foreign : 0..MaxFaults, lost : BOOLEAN]
      /\ hist'.faults + hist'.foreign <= MaxFaults
      /\ hist.faults <= hist'.faults /\ (hist.lost => hist'.lost)
  BY WritesFacts, FaultTyped
<1>5. WInv(d, host, frames, hist')
  BY <1>2, <1>3, <1>4, WritesFacts, AlikeThenPublished
<1>6. WInv(Published(d), host, frames, hist') /\ Published(d).interrupt = "no"
  BY <1>2, <1>5, PublishedKeepsInv
<1>7. client' = Published(d)
  BY DEF d
<1> QED
  BY <1>6, <1>7 DEF WritesInv, CancelStep

LEMMA SendCancelKeepsInv ==
    ASSUME WritesInv, SendCancel
    PROVE  WritesInv' /\ CancelStep
<1>1. CASE client.online
  <2>1. /\ client' = [client EXCEPT !.interrupt = "cancelling"]
        /\ UNCHANGED <<host, frames, hist>> /\ client.awaits \notin client.open
        /\ client \in ClientFields(Nat) /\ client.awaits \in Nat
    BY <1>1, WritesFacts DEF SendCancel, MayCancel, ClientFields
  <2>2. /\ client' \in ClientFields(Nat) /\ Alike(client, client')
        /\ client'.outbox = client.outbox /\ client'.awaits = client.awaits
        /\ client'.claimed = client.claimed
        /\ client'.steering = client.steering /\ client'.queued = client.queued
    BY <2>1 DEF ClientFields, Alike
  <2>3. WInv(client', host, frames, hist)
    BY <2>2, WritesFacts, AlikeThenPublished
  <2>4. CancelStep
    BY <2>1, <2>2, WritesFacts, NothingOvertaken DEF CancelStep
  <2> QED
    BY <2>1, <2>3, <2>4 DEF WritesInv
<1>2. CASE ~client.online
  BY <1>2, StopKeepsInv DEF SendCancel
<1> QED
  BY <1>1, <1>2

\* One call is answered, with the host's yes or no, or with nothing.
LEMMA AnswerKeepsInv ==
    ASSUME WritesInv, NEW i \in client.open,
           NEW d \in ClientFields(Nat), SamePrompts(client, d), SameMove(client, d),
           d.claimed = client.claimed, d.open = client.open \ {i},
           d.slot = client.slot \/ client.requests[i].by = "typed",
           NEW l, l \in [faults : 0..MaxFaults, foreign : 0..MaxFaults, lost : BOOLEAN],
           l.faults + l.foreign <= MaxFaults, hist.faults <= l.faults, hist.lost => l.lost,
           d.wire \subseteq client.wire, ~l.lost => d.wire = client.wire \ {i}
    PROVE  /\ WInv(d, host, frames, l)
           /\ client.requests[i].by # "loop" => \A j \in d.open : client.requests[j].by = "loop"
<1>1. /\ Slots(client) /\ WInv(client, host, frames, hist)
      /\ host \in HostFields(Nat) /\ frames \in Seq(Frames(Nat))
  BY WritesFacts
<1>2. client.requests[i].by # "loop" => \A j \in d.open : client.requests[j].by = "loop"
  BY <1>1 DEF Slots
<1>3. client.requests[i].by = "typed" => client.move = "no"
  BY <1>1 DEF Slots
<1>4. d.slot = client.slot
      \/ (client.move = "no" /\ \A j \in d.open : client.requests[j].by # "typed")
  BY <1>2, <1>3
<1>5. Shaped(d, host, frames, l)
  BY <1>1 DEF Shaped
<1>6. ~l.lost => \E j \in client.open : d.open = client.open \ {j} /\ d.wire = client.wire \ {j}
  OBVIOUS
<1>7. d.open \subseteq client.open
  OBVIOUS
<1>8. WInv(d, host, frames, l)
  BY <1>1, <1>4, <1>5, <1>6, <1>7, SettleKeepsInv
<1> QED
  BY <1>2, <1>8

LEMMA RetiredIs ==
    ASSUME NEW c \in ClientFields(Nat), NEW ids
    PROVE  LET d == Retire(c, ids)
           IN  /\ d \in ClientFields(Nat) /\ d.outbox \subseteq c.outbox
               /\ d.requests = c.requests /\ d.wire = c.wire /\ d.open = c.open
               /\ d.admission = c.admission
               /\ d.steering = c.steering /\ d.queued = c.queued
               /\ d.claimed = c.claimed /\ d.row = c.row /\ d.awaits = c.awaits
               /\ d.removed = c.removed /\ d.move = c.move /\ d.slot = c.slot
               /\ d.interrupt = c.interrupt
<1> DEFINE b == c.outbox \ (ids \cup Range(c.steering) \cup Range(c.queued))
<1>1. b \subseteq c.outbox /\ c.outbox \in SUBSET Nat
  BY DEF ClientFields
<1> HIDE DEF b
<1>2. Retire(c, ids) = [c EXCEPT !.outbox = b]
  BY DEF Retire, b
<1> QED
  BY <1>1, <1>2, ZenonT(60) DEF ClientFields

LEMMA AcceptedKeepsInv ==
    ASSUME WritesInv, NEW i, Accepted(i)
    PROVE  WritesInv' /\ CancelStep
<1> DEFINE o == client.open \ {i}
           a == [client EXCEPT !.open = o]
           s == Retire(a, {})
<1>1. /\ client \in ClientFields(Nat) /\ Slots(client) /\ Numbers(client, host)
      /\ Places(client, host) /\ client.awaits <= Len(client.requests)
      /\ hist \in [faults : 0..MaxFaults, foreign : 0..MaxFaults, lost : BOOLEAN]
      /\ hist.faults + hist.foreign <= MaxFaults /\ hist.faults <= hist.faults
  BY WritesFacts
<1>2. i \in client.open /\ i \notin client.wire /\ UNCHANGED <<host, frames, hist>>
  BY DEF Accepted
<1>3. o \in SUBSET Nat /\ i \in DOMAIN client.requests
  BY <1>1, <1>2 DEF ClientFields, Numbers
<1>4. s = Retire(Settled(client, i), {})
  BY DEF Settled
<1> HIDE DEF o
<1>5. /\ a \in ClientFields(Nat) /\ a.open = o
      /\ a.requests = client.requests /\ a.wire = client.wire /\ a.outbox = client.outbox
      /\ a.admission = client.admission
      /\ a.steering = client.steering /\ a.queued = client.queued
      /\ a.claimed = client.claimed /\ a.row = client.row /\ a.awaits = client.awaits
      /\ a.removed = client.removed /\ a.move = client.move /\ a.slot = client.slot
      /\ a.interrupt = client.interrupt
  BY <1>1, <1>3 DEF ClientFields
<1> HIDE DEF a
<1>6. /\ s \in ClientFields(Nat) /\ s.outbox \subseteq client.outbox /\ s.open = o
      /\ s.requests = client.requests /\ s.wire = client.wire
      /\ s.admission = client.admission
      /\ s.steering = client.steering /\ s.queued = client.queued
      /\ s.claimed = client.claimed /\ s.row = client.row /\ s.awaits = client.awaits
      /\ s.removed = client.removed /\ s.move = client.move /\ s.slot = client.slot
      /\ s.interrupt = client.interrupt
  BY <1>5, RetiredIs
<1> HIDE DEF s
<1>7. SamePrompts(client, s) /\ SameMove(client, s)
  BY <1>1, <1>6 DEF SamePrompts, SameMove
<1>8. o = client.open \ {i} /\ client.wire = client.wire \ {i}
  BY <1>2 DEF o
<1>9. /\ WInv(s, host, frames, hist)
      /\ client.requests[i].by # "loop" => \A j \in s.open : client.requests[j].by = "loop"
  BY <1>1, <1>2, <1>6, <1>7, <1>8, AnswerKeepsInv
<1>10. client' = CASE client.requests[i].by = "mover" -> MoveEnds(s)
                   [] client.requests[i].by = "typed" -> Published([s EXCEPT !.slot = "free"])
                   [] OTHER -> Published(s)
  BY <1>4 DEF Accepted, Accepts
<1>11. CASE client.requests[i].by = "mover"
  <2>1. client' = MoveEnds(s)
    BY <1>10, <1>11
  <2>2. /\ client' \in ClientFields(Nat) /\ client'.row = 0 /\ ~client'.removed
        /\ client'.move = "no" /\ client'.slot = "free"
        /\ client'.requests = s.requests /\ client'.wire = s.wire /\ client'.open = s.open
        /\ client'.outbox = s.outbox /\ client'.admission = s.admission
        /\ client'.steering = s.steering /\ client'.queued = s.queued
        /\ client'.claimed = s.claimed /\ client'.awaits = s.awaits
        /\ client'.interrupt = s.interrupt
    BY <1>6, <2>1 DEF MoveEnds, ClientFields
  <2>3. SamePrompts(s, client') /\ SameCalls(s, client')
    BY <1>1, <1>6, <2>2 DEF SamePrompts, SameCalls
  <2>4. ~hist.lost => Carries(s, host, s.requests[s.row].text)
    <3> SUFFICES ASSUME ~hist.lost PROVE Carries(s, host, s.requests[s.row].text)
      OBVIOUS
    <3>1. client.requests[i].text = client.requests[client.row].text
      BY <1>1, <1>2, <1>11 DEF Slots
    <3>2. i \in host.received
      BY <1>2 DEF WritesInv, WInv, Counted
    <3>3. i \in Live(s, host)
      BY <1>1, <1>3, <1>11, <3>2 DEF Places, Live
    <3> QED
      BY <1>6, <3>1, <3>3 DEF Carries
  <2>5. Shaped(client', host, frames, hist) /\ client'.claimed \subseteq host.received
    BY <1>6, <2>2, WritesFacts DEF Shaped
  <2>6. \A j \in s.open : s.requests[j].by = "loop"
    BY <1>6, <1>9, <1>11
  <2>7. WInv(client', host, frames, hist)
    BY <1>9, <2>2, <2>3, <2>4, <2>5, <2>6, MoveEndsKeepsInv
  <2> QED
    BY <1>2, <1>6, <2>2, <2>7 DEF WritesInv, CancelStep
<1>12. CASE client.requests[i].by = "typed"
  <2> DEFINE d == [s EXCEPT !.slot = "free"]
  <2>1. client' = Published(d)
    BY <1>10, <1>12
  <2>2. /\ d \in ClientFields(Nat) /\ d.outbox \subseteq client.outbox /\ d.open = o
        /\ d.requests = client.requests /\ d.wire = client.wire
        /\ d.admission = client.admission
        /\ d.steering = client.steering /\ d.queued = client.queued
        /\ d.claimed = client.claimed /\ d.row = client.row /\ d.awaits = client.awaits
        /\ d.removed = client.removed /\ d.move = client.move
        /\ d.interrupt = client.interrupt
    BY <1>6 DEF ClientFields
  <2> HIDE DEF d
  <2>3. SamePrompts(client, d) /\ SameMove(client, d)
    BY <1>1, <2>2 DEF SamePrompts, SameMove
  <2>4. WInv(d, host, frames, hist)
    BY <1>1, <1>2, <1>8, <1>12, <2>2, <2>3, AnswerKeepsInv
  <2>5. WInv(Published(d), host, frames, hist) /\ Published(d).interrupt = d.interrupt
    BY <2>4, PublishedKeepsInv
  <2> QED
    BY <1>2, <2>1, <2>2, <2>5 DEF WritesInv, CancelStep
<1>13. CASE client.requests[i].by \notin {"mover", "typed"}
  <2>1. client' = Published(s)
    BY <1>10, <1>13
  <2>2. WInv(Published(s), host, frames, hist) /\ Published(s).interrupt = s.interrupt
    BY <1>9, PublishedKeepsInv
  <2> QED
    BY <1>2, <1>6, <2>1, <2>2 DEF WritesInv, CancelStep
<1> QED
  BY <1>11, <1>12, <1>13

\* The call fails: it never reached the host, or nobody knows.
LEMMA RejectedKeepsInv ==
    ASSUME WritesInv, NEW i \in client.open,
           NEW w, w \subseteq client.wire,
           NEW lost \in BOOLEAN, Fault(lost),
           ~lost => i \in client.wire /\ w = client.wire \ {i},
           client' = Rejects([client EXCEPT !.wire = w], i),
           UNCHANGED <<host, frames>>
    PROVE  WritesInv' /\ CancelStep
<1> DEFINE o == client.open \ {i}
           b == client.outbox \ {i}
           v == [client EXCEPT !.wire = w]
           s == [Settled(v, i) EXCEPT !.outbox = @ \ {i}]
           m == [hist EXCEPT !.lost = hist'.lost]
<1>1. /\ client \in ClientFields(Nat) /\ Slots(client) /\ Numbers(client, host)
      /\ Places(client, host) /\ client.awaits <= Len(client.requests)
      /\ hist \in [faults : 0..MaxFaults, foreign : 0..MaxFaults, lost : BOOLEAN]
      /\ hist.faults + hist.foreign <= MaxFaults /\ hist.faults <= hist.faults
      /\ hist.faults \in Nat
  BY WritesFacts
<1>2. /\ hist' \in [faults : 0..MaxFaults, foreign : 0..MaxFaults, lost : BOOLEAN]
      /\ hist'.faults + hist'.foreign <= MaxFaults
      /\ hist'.faults = hist.faults + 1 /\ hist'.faults \in Nat /\ hist.faults <= hist'.faults
      /\ hist'.lost = (hist.lost \/ lost)
  BY FaultTyped
<1>3. o \in SUBSET Nat /\ b \in SUBSET Nat /\ w \in SUBSET Nat
  BY <1>1 DEF ClientFields
<1>4. /\ v \in ClientFields(Nat) /\ v.wire = w
      /\ v.requests = client.requests /\ v.open = client.open /\ v.outbox = client.outbox
      /\ v.admission = client.admission
      /\ v.steering = client.steering /\ v.queued = client.queued
      /\ v.claimed = client.claimed /\ v.row = client.row /\ v.awaits = client.awaits
      /\ v.removed = client.removed /\ v.move = client.move /\ v.slot = client.slot
      /\ v.interrupt = client.interrupt
  BY <1>1, <1>3 DEF ClientFields
<1>5. client' = CASE v.requests[i].by = "mover" -> MoveFails(s)
                  [] v.requests[i].by = "typed" -> Published([s EXCEPT !.slot = "free"])
                  [] OTHER -> Published([s EXCEPT !.loop = FALSE])
  BY DEF Rejects
<1> HIDE DEF v
<1>6. s = [[v EXCEPT !.open = o] EXCEPT !.outbox = b]
  <2>1. Settled(v, i) = [v EXCEPT !.open = o]
    BY <1>4 DEF Settled
  <2>2. [v EXCEPT !.open = o].outbox = client.outbox
    BY <1>3, <1>4 DEF ClientFields
  <2> QED
    BY <2>1, <2>2
<1> HIDE DEF s, b
<1>7. /\ s \in ClientFields(Nat) /\ s.wire = w /\ s.open = o /\ s.outbox = b
      /\ s.requests = v.requests
      /\ s.admission = v.admission
      /\ s.steering = v.steering /\ s.queued = v.queued
      /\ s.claimed = v.claimed /\ s.row = v.row /\ s.awaits = v.awaits
      /\ s.removed = v.removed /\ s.move = v.move /\ s.slot = v.slot
      /\ s.interrupt = v.interrupt
  <2> HIDE DEF o
  <2> QED
    BY <1>3, <1>4, <1>6 DEF ClientFields
<1>8. SamePrompts(client, s) /\ SameMove(client, s)
  BY <1>1, <1>4, <1>7 DEF SamePrompts, SameMove, b
<1>9. /\ m \in [faults : 0..MaxFaults, foreign : 0..MaxFaults, lost : BOOLEAN]
      /\ m.lost = hist'.lost /\ m.faults = hist.faults /\ m.foreign = hist.foreign
  BY <1>1, <1>2
<1>10. m.faults + m.foreign <= MaxFaults /\ hist.faults <= m.faults /\ (hist.lost => m.lost)
  BY <1>1, <1>2, <1>9
<1> HIDE DEF m
<1>11. ~hist'.lost => i \in client.wire /\ w = client.wire \ {i}
  BY <1>2
<1>12. /\ WInv(s, host, frames, m)
       /\ client.requests[i].by # "loop" => \A j \in s.open : client.requests[j].by = "loop"
  <2>1. ~m.lost => s.wire = client.wire \ {i}
    BY <1>7, <1>9, <1>11
  <2>2. s.wire \subseteq client.wire /\ s.open = client.open \ {i}
        /\ s.claimed = client.claimed /\ s.slot = client.slot
    BY <1>4, <1>7
  <2> QED
    BY <1>7, <1>8, <1>9, <1>10, <2>1, <2>2, AnswerKeepsInv
<1>13. CASE client.requests[i].by = "mover"
  <2>1. client' = MoveFails(s)
    BY <1>4, <1>5, <1>13
  <2>2. /\ client' \in ClientFields(Nat) /\ client'.row = s.row /\ client'.removed = s.removed
        /\ client'.move = "no" /\ client'.slot = "free"
        /\ client'.requests = s.requests /\ client'.wire = s.wire /\ client'.open = s.open
        /\ client'.outbox = s.outbox /\ client'.admission = s.admission
        /\ client'.steering = s.steering /\ client'.queued = s.queued
        /\ client'.claimed = s.claimed /\ client'.awaits = s.awaits
        /\ client'.interrupt = s.interrupt
    BY <1>7, <2>1, ZenonT(60) DEF MoveFails, ClientFields
  <2>3. SamePrompts(s, client') /\ SameCalls(s, client')
    BY <1>1, <1>4, <1>7, <2>2 DEF SamePrompts, SameCalls
  <2>4. /\ s.move = "sending" /\ s.removed
        /\ client.requests[i].text = client.requests[client.row].text
    BY <1>1, <1>4, <1>7, <1>13 DEF Slots
  <2>5. \A j \in s.open : s.requests[j].by = "loop"
    BY <1>4, <1>7, <1>12, <1>13
  <2>6. ~hist'.lost => ~Carries(s, host, s.requests[s.row].text)
    <3> SUFFICES ASSUME ~hist'.lost, NEW j \in Live(s, host),
                        s.requests[j].text = s.requests[s.row].text
                 PROVE  FALSE
      BY DEF Carries
    <3>1. Counted(client, host) /\ i \in client.wire /\ w = client.wire \ {i}
      BY <1>2, <1>11 DEF WritesInv, WInv
    <3>2. i \in Live(client, host) /\ j \in Live(client, host)
      BY <1>7, <3>1 DEF Live
    <3>3. j = i
      BY <1>4, <1>7, <2>4, <3>1, <3>2 DEF Counted
    <3>4. i \notin Live(s, host)
      BY <1>1, <1>7, <3>1 DEF Live, Numbers, Places
    <3> QED
      BY <3>3, <3>4
  <2>7. Shaped(client', host, frames, hist')
    BY <1>2, <2>2, WritesFacts DEF Shaped
  <2>8. m.faults + 1 <= hist'.faults /\ (m.lost => hist'.lost)
    BY <1>2, <1>9
  <2>9. WInv(client', host, frames, hist')
    BY <1>12, <2>2, <2>3, <2>4, <2>5, <2>6, <2>7, <2>8, MoveFailsKeepsInv
  <2> QED
    BY <1>4, <1>7, <2>2, <2>9 DEF WritesInv, CancelStep
<1>14. CASE client.requests[i].by = "typed"
  <2> DEFINE d == [s EXCEPT !.slot = "free"]
  <2>1. client' = Published(d)
    BY <1>4, <1>5, <1>14
  <2>2. /\ d \in ClientFields(Nat) /\ d.outbox = s.outbox /\ d.open = o
        /\ d.requests = client.requests /\ d.wire = w
        /\ d.admission = client.admission
        /\ d.steering = client.steering /\ d.queued = client.queued
        /\ d.claimed = client.claimed /\ d.row = client.row /\ d.awaits = client.awaits
        /\ d.removed = client.removed /\ d.move = client.move
        /\ d.interrupt = client.interrupt
    <3> HIDE DEF o
    <3> QED
      BY <1>4, <1>7, ZenonT(60) DEF ClientFields
  <2> HIDE DEF d
  <2>3. SamePrompts(client, d) /\ SameMove(client, d)
    BY <1>1, <1>7, <2>2 DEF SamePrompts, SameMove, b
  <2>4. WInv(d, host, frames, hist')
    <3>1. ~hist'.lost => d.wire = client.wire \ {i}
      BY <1>11, <2>2
    <3>2. hist.lost => hist'.lost
      BY <1>2
    <3> QED
      BY <1>2, <1>14, <2>2, <2>3, <3>1, <3>2, AnswerKeepsInv
  <2>5. WInv(Published(d), host, frames, hist') /\ Published(d).interrupt = d.interrupt
    BY <2>4, PublishedKeepsInv
  <2> QED
    BY <2>1, <2>2, <2>5 DEF WritesInv, CancelStep
<1>15. CASE client.requests[i].by \notin {"mover", "typed"}
  <2> DEFINE d == [s EXCEPT !.loop = FALSE]
  <2>1. client' = Published(d)
    BY <1>4, <1>5, <1>15
  <2>2. /\ d \in ClientFields(Nat) /\ d.outbox = s.outbox /\ d.open = o
        /\ d.requests = client.requests /\ d.wire = w
        /\ d.admission = client.admission
        /\ d.steering = client.steering /\ d.queued = client.queued
        /\ d.claimed = client.claimed /\ d.row = client.row /\ d.awaits = client.awaits
        /\ d.removed = client.removed /\ d.move = client.move /\ d.slot = client.slot
        /\ d.interrupt = client.interrupt
    <3> HIDE DEF o
    <3> QED
      BY <1>4, <1>7, ZenonT(60) DEF ClientFields
  <2> HIDE DEF d
  <2>3. SamePrompts(client, d) /\ SameMove(client, d)
    BY <1>1, <1>7, <2>2 DEF SamePrompts, SameMove, b
  <2>4. WInv(d, host, frames, hist')
    <3>1. ~hist'.lost => d.wire = client.wire \ {i}
      BY <1>11, <2>2
    <3>2. hist.lost => hist'.lost
      BY <1>2
    <3> QED
      BY <1>2, <2>2, <2>3, <3>1, <3>2, AnswerKeepsInv
  <2>5. WInv(Published(d), host, frames, hist') /\ Published(d).interrupt = d.interrupt
    BY <2>4, PublishedKeepsInv
  <2> QED
    BY <2>1, <2>2, <2>5 DEF WritesInv, CancelStep
<1> QED
  BY <1>13, <1>14, <1>15

LEMMA RemovalAnsweredKeepsInv ==
    ASSUME WritesInv, RemovalAnswered
    PROVE  WritesInv' /\ CancelStep
<1>1. /\ client \in ClientFields(Nat) /\ Slots(client) /\ Numbers(client, host)
      /\ client.awaits <= Len(client.requests) /\ WInv(client, host, frames, hist)
      /\ Shaped(client, host, frames, hist) /\ hist.faults \in Nat
  BY WritesFacts
<1>2. UNCHANGED <<host, frames, hist>> /\ client.move \in {"removed", "missing"}
  BY DEF RemovalAnswered
<1>3. client.row # 0 /\ ~client.removed /\ client.slot = "mover"
      /\ client.row \in host.received
  BY <1>1, <1>2 DEF Slots, Numbers
<1>4. \A j \in client.open : client.requests[j].by = "loop"
  <2> SUFFICES ASSUME NEW j \in client.open PROVE client.requests[j].by = "loop"
    OBVIOUS
  <2>1. client.requests[j].by # "typed" /\ client.requests[j].by # "mover"
    BY <1>1, <1>2, <1>3 DEF Slots
  <2>2. j \in DOMAIN client.requests /\ client.requests \in Seq(Request)
    BY <1>1 DEF Numbers, ClientFields
  <2>3. client.requests[j] \in Request
    BY <2>2
  <2> QED
    BY <2>1, <2>3 DEF Request
<1>5. CASE client.move = "missing"
  <2> DEFINE z == client.claimed \cup {client.row}
             b == [client EXCEPT !.claimed = z]
  <2>1. client' = MoveEnds(b)
    BY <1>5 DEF RemovalAnswered, Claims
  <2>2. z \in SUBSET Nat /\ z \subseteq host.received
    <3>1. client.claimed \in SUBSET Nat /\ client.row \in Nat
      BY <1>1 DEF ClientFields
    <3> QED
      BY <1>1, <1>3, <3>1 DEF Numbers
  <2> HIDE DEF z
  <2>3. /\ b \in ClientFields(Nat) /\ b.claimed = z
        /\ b.requests = client.requests /\ b.wire = client.wire /\ b.open = client.open
        /\ b.outbox = client.outbox /\ b.admission = client.admission
        /\ b.steering = client.steering /\ b.queued = client.queued
        /\ b.awaits = client.awaits /\ b.interrupt = client.interrupt
    BY <1>1, <2>2 DEF ClientFields
  <2> HIDE DEF b
  <2>4. /\ client' \in ClientFields(Nat) /\ client'.row = 0 /\ ~client'.removed
        /\ client'.move = "no" /\ client'.slot = "free"
        /\ client'.requests = client.requests /\ client'.wire = client.wire
        /\ client'.open = client.open
        /\ client'.outbox = client.outbox /\ client'.admission = client.admission
        /\ client'.steering = client.steering /\ client'.queued = client.queued
        /\ client'.claimed = z /\ client'.awaits = client.awaits
        /\ client'.interrupt = client.interrupt
    BY <2>1, <2>3 DEF MoveEnds, ClientFields
  <2>5. SamePrompts(client, client') /\ SameCalls(client, client')
    BY <1>1, <2>4 DEF SamePrompts, SameCalls
  <2>6. ~hist.lost => Carries(client, host, client.requests[client.row].text)
    BY <1>3, <1>5 DEF WritesInv, WInv, Counted
  <2>7. Shaped(client', host, frames, hist)
    BY <1>1, <2>4 DEF Shaped
  <2>8. WInv(client', host, frames, hist)
    BY <1>1, <1>4, <2>2, <2>4, <2>5, <2>6, <2>7, MoveEndsKeepsInv
  <2> QED
    BY <1>2, <2>4, <2>8 DEF WritesInv, CancelStep
<1>6. CASE client.move = "removed"
  <2> DEFINE b == [client EXCEPT !.removed = TRUE]
             r == [text |-> b.requests[b.row].text, by |-> "mover", delivery |-> "queue"]
  <2>1. client' = Resend(b)
    BY <1>6 DEF RemovalAnswered
  <2>2. /\ b \in ClientFields(Nat) /\ b.removed = TRUE /\ b.claimed = client.claimed
        /\ b.requests = client.requests /\ b.wire = client.wire /\ b.open = client.open
        /\ b.outbox = client.outbox /\ b.admission = client.admission
        /\ b.steering = client.steering /\ b.queued = client.queued
        /\ b.awaits = client.awaits /\ b.interrupt = client.interrupt
        /\ b.row = client.row /\ b.slot = client.slot
    BY <1>1 DEF ClientFields
  <2>3. b.row \in DOMAIN b.requests /\ b.awaits <= Len(b.requests)
    BY <1>1, <1>3, <2>2 DEF Numbers
  <2> HIDE DEF b
  <2>4. /\ client' \in ClientFields(Nat) /\ r \in Request
        /\ client'.removed = b.removed
        /\ client'.interrupt = b.interrupt /\ client'.awaits = b.awaits
        /\ b.ready => Issued(b, client', r) /\ client'.move = "sending" /\ client'.slot = b.slot
        /\ ~b.ready => /\ SamePrompts(b, client') /\ SameCalls(b, client')
                       /\ client'.claimed = b.claimed /\ client'.row = b.row
                       /\ client'.move = "no" /\ client'.slot = "free"
    BY <2>1, <2>2, <2>3, ResendIs
  <2>5. Owed(client)
    BY <1>6 DEF Owed
  <2>6. CASE b.ready
    <3>1. Issued(client, client', r) /\ r.text = client.requests[client.row].text
      BY <2>2, <2>4, <2>6 DEF Issued
    <3>2. r.by = "mover" /\ r.delivery = "queue"
      OBVIOUS
    <3>3. client'.slot = "mover" /\ client'.move = "sending" /\ client'.removed = TRUE
      BY <1>3, <2>2, <2>4, <2>6
    <3> HIDE DEF r
    <3>4. WInv(client', host, frames, hist)
      BY <1>1, <1>3, <2>4, <2>5, <3>1, <3>2, <3>3, MoverKeepsInv
    <3> QED
      BY <1>2, <2>2, <2>4, <3>4 DEF WritesInv, CancelStep
  <2>7. CASE ~b.ready
    <3>1. /\ SamePrompts(client, client') /\ SameCalls(client, client')
          /\ client'.claimed = client.claimed /\ client'.row = client.row
          /\ client'.move = "no" /\ client'.slot = "free" /\ client'.removed = TRUE
      BY <2>2, <2>4, <2>7 DEF SamePrompts, SameCalls
    <3>2. Shaped(client', host, frames, hist)
      BY <1>1, <2>4 DEF Shaped
    <3>3. ~hist.lost => ~Carries(client, host, client.requests[client.row].text)
      BY <2>5 DEF WritesInv, WInv, Counted
    <3>4. hist.faults <= hist.faults
      BY <1>1
    <3>5. WInv(client', host, frames, hist)
      BY <1>1, <1>4, <1>6, <3>1, <3>2, <3>3, <3>4, MoveFailsKeepsInv
    <3> QED
      BY <1>2, <2>2, <2>4, <3>5 DEF WritesInv, CancelStep
  <2> QED
    BY <2>6, <2>7
<1> QED
  BY <1>2, <1>5, <1>6

LEMMA RemovalFailsKeepsInv ==
    ASSUME WritesInv, RemovalFails
    PROVE  WritesInv' /\ CancelStep
<1>1. /\ client \in ClientFields(Nat) /\ Slots(client) /\ Numbers(client, host)
      /\ client.awaits <= Len(client.requests) /\ WInv(client, host, frames, hist)
      /\ Shaped(client, host, frames, hist) /\ hist.faults \in Nat
  BY WritesFacts
<1>2. /\ UNCHANGED <<host, frames>> /\ client.move \in {"removing", "removed", "missing"}
      /\ client' = MoveFails(client) /\ Fault(client.move # "removing")
  BY DEF RemovalFails
<1>3. client.row # 0 /\ ~client.removed /\ client.slot = "mover"
  BY <1>1, <1>2 DEF Slots
<1>4. \A j \in client.open : client.requests[j].by = "loop"
  <2> SUFFICES ASSUME NEW j \in client.open PROVE client.requests[j].by = "loop"
    OBVIOUS
  <2>1. client.requests[j].by # "typed" /\ client.requests[j].by # "mover"
    BY <1>1, <1>2, <1>3 DEF Slots
  <2>2. j \in DOMAIN client.requests /\ client.requests \in Seq(Request)
    BY <1>1 DEF Numbers, ClientFields
  <2>3. client.requests[j] \in Request
    BY <2>2
  <2> QED
    BY <2>1, <2>3 DEF Request
<1>5. /\ client' \in ClientFields(Nat) /\ client'.row = client.row
      /\ client'.removed = client.removed
      /\ client'.move = "no" /\ client'.slot = "free"
      /\ client'.requests = client.requests /\ client'.wire = client.wire
      /\ client'.open = client.open
      /\ client'.outbox = client.outbox /\ client'.admission = client.admission
      /\ client'.steering = client.steering /\ client'.queued = client.queued
      /\ client'.claimed = client.claimed /\ client'.awaits = client.awaits
      /\ client'.interrupt = client.interrupt
  BY <1>1, <1>2 DEF MoveFails, ClientFields
<1>6. SamePrompts(client, client') /\ SameCalls(client, client')
  BY <1>1, <1>5 DEF SamePrompts, SameCalls
<1> DEFINE lost == client.move # "removing"
<1>7. lost \in BOOLEAN /\ Fault(lost)
  BY <1>2
<1>8. /\ hist' \in [faults : 0..MaxFaults, foreign : 0..MaxFaults, lost : BOOLEAN]
      /\ hist'.faults + hist'.foreign <= MaxFaults
      /\ hist'.faults = hist.faults + 1 /\ hist'.faults \in Nat
      /\ hist'.lost = (hist.lost \/ lost)
  <2> HIDE DEF lost
  <2> QED
    BY <1>7, FaultTyped
<1>9. Shaped(client', host, frames, hist') /\ hist.faults + 1 <= hist'.faults
  BY <1>1, <1>5, <1>8 DEF Shaped
<1>10. WInv(client', host, frames, hist')
  BY <1>1, <1>2, <1>3, <1>4, <1>5, <1>6, <1>8, <1>9, MoveFailsKeepsInv
<1> QED
  BY <1>2, <1>5, <1>10 DEF WritesInv, CancelStep

LEMMA RetryTimeKeepsInv ==
    ASSUME WritesInv, RetryTime
    PROVE  WritesInv' /\ CancelStep
<1>1. /\ client' = [client EXCEPT !.wait = FALSE] /\ UNCHANGED <<host, frames, hist>>
      /\ client \in ClientFields(Nat)
  BY WritesFacts DEF RetryTime
<1>2. /\ client' \in ClientFields(Nat) /\ Alike(client, client')
      /\ client'.outbox = client.outbox /\ client'.awaits = client.awaits
      /\ client'.claimed = client.claimed /\ client'.interrupt = client.interrupt
      /\ client'.steering = client.steering /\ client'.queued = client.queued
  BY <1>1 DEF ClientFields, Alike
<1>3. WInv(client', host, frames, hist)
  BY <1>2, WritesFacts, AlikeThenPublished
<1> QED
  BY <1>1, <1>2, <1>3 DEF WritesInv, CancelStep

LEMMA PublishKeepsInv ==
    ASSUME WritesInv, Publish
    PROVE  WritesInv' /\ CancelStep
<1>1. client' = Published(client) /\ UNCHANGED <<host, frames, hist>>
  BY DEF Publish
<1>2. /\ WInv(Published(client), host, frames, hist)
      /\ Published(client).interrupt = client.interrupt
  BY PublishedKeepsInv DEF WritesInv
<1> QED
  BY <1>1, <1>2 DEF WritesInv, CancelStep

LEMMA FrameKeepsInv ==
    ASSUME WritesInv, Frame
    PROVE  WritesInv' /\ CancelStep
<1> DEFINE x == Head(frames)
           d == Apply(client, x)
<1>1. /\ client \in ClientFields(Nat) /\ Numbers(client, host)
      /\ frames \in Seq(Frames(Nat)) /\ FramesOf(frames, host)
  BY WritesFacts
<1>2. frames # <<>> /\ client' = Published(d) /\ UNCHANGED <<host, hist>>
      /\ frames' = Tail(frames)
  BY DEF Frame
<1>3. /\ frames' \in Seq(Frames(Nat)) /\ FramesOf(frames', host)
      /\ x \in Frames(Nat) /\ FrameOf(x, host.received)
  BY <1>1, <1>2, FramesTail
<1> HIDE DEF x
<1>4. /\ d \in ClientFields(Nat) /\ Alike(client, d)
      /\ d.outbox \subseteq client.outbox /\ d.awaits = client.awaits
      /\ d.claimed = client.claimed /\ d.interrupt = client.interrupt
      /\ Range(d.steering) \cup Range(d.queued) \subseteq host.received
  <2>1. CASE x.kind = "status"
    <3> DEFINE told == ~client.ready
               shadow == client.shadow /\ ~x.running
               loop == client.loop /\ x.running
               e == [client EXCEPT !.running = x.running, !.told = told, !.shadow = shadow,
                                   !.loop = loop]
    <3>1. x.running \in BOOLEAN
      BY <1>3, <2>1 DEF Frames
    <3>2. told \in BOOLEAN /\ shadow \in BOOLEAN /\ loop \in BOOLEAN
      OBVIOUS
    <3>3. d = e
      BY <2>1 DEF Apply
    <3> HIDE DEF told, shadow, loop
    <3>4. /\ e \in ClientFields(Nat) /\ e.outbox = client.outbox /\ e.awaits = client.awaits
          /\ e.requests = client.requests /\ e.wire = client.wire /\ e.open = client.open
          /\ e.row = client.row /\ e.removed = client.removed /\ e.move = client.move
          /\ e.slot = client.slot /\ e.admission = client.admission
          /\ e.claimed = client.claimed /\ e.interrupt = client.interrupt
          /\ e.steering = client.steering /\ e.queued = client.queued
      BY <1>1, <3>1, <3>2, ZenonT(60) DEF ClientFields
    <3> HIDE DEF e
    <3> QED
      BY <1>1, <3>3, <3>4 DEF Alike, Numbers
  <2>2. CASE x.kind # "status"
    <3> DEFINE e == [client EXCEPT !.steering = x.steering, !.queued = x.queued]
    <3>1. /\ x.steering \in Seq(Nat) /\ x.queued \in Seq(Nat)
          /\ Range(x.steering) \cup Range(x.queued) \subseteq host.received
      BY <1>3, <2>2 DEF Frames, FrameOf
    <3>2. d = Retire(e, x.ids)
      BY <2>2 DEF Apply
    <3>3. /\ e \in ClientFields(Nat) /\ e.outbox = client.outbox /\ e.awaits = client.awaits
          /\ e.requests = client.requests /\ e.wire = client.wire /\ e.open = client.open
          /\ e.row = client.row /\ e.removed = client.removed /\ e.move = client.move
          /\ e.slot = client.slot /\ e.admission = client.admission
          /\ e.claimed = client.claimed /\ e.interrupt = client.interrupt
          /\ e.steering = x.steering /\ e.queued = x.queued
      BY <1>1, <3>1 DEF ClientFields
    <3> HIDE DEF e
    <3>4. /\ d \in ClientFields(Nat) /\ d.outbox \subseteq e.outbox /\ d.awaits = e.awaits
          /\ d.requests = e.requests /\ d.wire = e.wire /\ d.open = e.open
          /\ d.row = e.row /\ d.removed = e.removed /\ d.move = e.move
          /\ d.slot = e.slot /\ d.admission = e.admission
          /\ d.claimed = e.claimed /\ d.interrupt = e.interrupt
          /\ d.steering = e.steering /\ d.queued = e.queued
      BY <3>2, <3>3, RetiredIs
    <3> HIDE DEF d
    <3> QED
      BY <3>1, <3>3, <3>4 DEF Alike
  <2> QED
    BY <2>1, <2>2
<1> HIDE DEF d
<1>5. WInv(d, host, frames', hist)
  <2>1. d.outbox \subseteq DOMAIN client.requests /\ d.awaits <= Len(client.requests)
        /\ Range(d.steering) \cup Range(d.queued) \cup d.claimed \subseteq host.received
    BY <1>1, <1>4 DEF Numbers
  <2> QED
    BY <1>3, <1>4, <2>1, WritesFacts, AlikeThenPublished
<1>6. WInv(Published(d), host, frames', hist) /\ Published(d).interrupt = d.interrupt
  BY <1>5, PublishedKeepsInv
<1> QED
  BY <1>2, <1>4, <1>6 DEF WritesInv, CancelStep

Ended(a, loop, b) ==
    [a EXCEPT !.online = FALSE, !.ready = FALSE, !.open = {}, !.slot = "free",
              !.loop = loop, !.outbox = b]

LEMMA EndedIs ==
    ASSUME NEW a \in ClientFields(Nat), NEW loop \in BOOLEAN, NEW b \in SUBSET Nat
    PROVE  /\ Ended(a, loop, b) \in ClientFields(Nat)
           /\ Ended(a, loop, b).open = {} /\ Ended(a, loop, b).slot = "free"
           /\ Ended(a, loop, b).outbox = b
           /\ Ended(a, loop, b).requests = a.requests /\ Ended(a, loop, b).wire = a.wire
           /\ Ended(a, loop, b).admission = a.admission
           /\ Ended(a, loop, b).steering = a.steering
           /\ Ended(a, loop, b).queued = a.queued
           /\ Ended(a, loop, b).claimed = a.claimed
           /\ Ended(a, loop, b).row = a.row /\ Ended(a, loop, b).awaits = a.awaits
           /\ Ended(a, loop, b).removed = a.removed /\ Ended(a, loop, b).move = a.move
           /\ Ended(a, loop, b).interrupt = a.interrupt
<1> DEFINE c == Ended(a, loop, b)
<1>1. {} \in SUBSET Nat
  OBVIOUS
<1>2. c \in ClientFields(Nat)
  BY <1>1 DEF ClientFields, Ended
<1>3. c.open = {} /\ c.slot = "free" /\ c.outbox = b
  BY DEF ClientFields, Ended
<1>4. /\ c.requests = a.requests /\ c.wire = a.wire /\ c.admission = a.admission
      /\ c.steering = a.steering /\ c.queued = a.queued
  BY DEF ClientFields, Ended
<1>5. /\ c.claimed = a.claimed /\ c.row = a.row /\ c.awaits = a.awaits
      /\ c.removed = a.removed /\ c.move = a.move /\ c.interrupt = a.interrupt
  BY DEF ClientFields, Ended
<1> QED
  BY <1>2, <1>3, <1>4, <1>5

LEMMA DisconnectKeepsInv ==
    ASSUME WritesInv, Disconnect
    PROVE  WritesInv' /\ CancelStep
<1> DEFINE sends == \E i \in client.open : client.requests[i].by = "loop"
           loop == client.loop /\ ~sends
           b == client.outbox \ client.open
           lost == client.open # {} \/ client.move # "no"
           c == Ended(client, loop, b)
           d == IF c.move = "no" THEN c ELSE MoveFails(c)
           m == [hist EXCEPT !.lost = hist'.lost]
<1>1. /\ client \in ClientFields(Nat) /\ Slots(client) /\ Numbers(client, host)
      /\ client.awaits <= Len(client.requests) /\ WInv(client, host, frames, hist)
      /\ host \in HostFields(Nat) /\ frames \in Seq(Frames(Nat))
      /\ hist \in [faults : 0..MaxFaults, foreign : 0..MaxFaults, lost : BOOLEAN]
      /\ hist.faults + hist.foreign <= MaxFaults /\ hist.faults \in Nat
      /\ hist.faults <= hist.faults
  BY WritesFacts
<1>2. /\ client' = IF d.interrupt = "settling" THEN d ELSE Stopped(d)
      /\ frames' = <<>> /\ UNCHANGED host /\ Fault(lost)
  BY DEF Disconnect, Ended
<1>3. /\ hist' \in [faults : 0..MaxFaults, foreign : 0..MaxFaults, lost : BOOLEAN]
      /\ hist'.faults + hist'.foreign <= MaxFaults
      /\ hist'.faults = hist.faults + 1 /\ hist'.faults \in Nat /\ hist.faults <= hist'.faults
      /\ hist'.lost = (hist.lost \/ lost)
  <2>1. lost \in BOOLEAN
    OBVIOUS
  <2> HIDE DEF lost
  <2> QED
    BY <1>2, <2>1, FaultTyped
<1>4. b \in SUBSET Nat /\ loop \in BOOLEAN /\ b \subseteq client.outbox
  BY <1>1 DEF ClientFields
<1> HIDE DEF b, loop
<1>5. /\ c \in ClientFields(Nat) /\ c.open = {} /\ c.slot = "free" /\ c.outbox = b
      /\ c.requests = client.requests /\ c.wire = client.wire
      /\ c.admission = client.admission
      /\ c.steering = client.steering /\ c.queued = client.queued
      /\ c.claimed = client.claimed /\ c.row = client.row /\ c.awaits = client.awaits
      /\ c.removed = client.removed /\ c.move = client.move
      /\ c.interrupt = client.interrupt
  BY <1>1, <1>4, EndedIs
<1> HIDE DEF c
<1>6. /\ m \in [faults : 0..MaxFaults, foreign : 0..MaxFaults, lost : BOOLEAN]
      /\ m.lost = hist'.lost /\ m.faults = hist.faults /\ m.foreign = hist.foreign
  BY <1>1, <1>3
<1> HIDE DEF m
<1>7. m.faults + m.foreign <= MaxFaults /\ hist.faults <= m.faults /\ (hist.lost => m.lost)
      /\ m.faults + 1 <= hist'.faults
  BY <1>1, <1>3, <1>6
<1>8. /\ WInv(d, host, frames, hist') /\ d \in ClientFields(Nat)
      /\ d.interrupt = client.interrupt /\ d.awaits = client.awaits
  <2>1. CASE client.move = "no"
    <3>1. d = c
      BY <1>5, <2>1
    <3>2. SamePrompts(client, c) /\ SameMove(client, c)
      BY <1>1, <1>4, <1>5 DEF SamePrompts, SameMove
    <3>3. ~hist'.lost => SameCalls(client, c)
      BY <1>3, <1>5 DEF SameCalls
    <3>4. Shaped(c, host, frames, hist')
      BY <1>1, <1>3, <1>5 DEF Shaped
    <3>5. /\ c.open \subseteq client.open /\ c.wire \subseteq client.wire
          /\ \A j \in c.open : client.requests[j].by # "typed"
      BY <1>5
    <3>6. hist.lost => hist'.lost
      BY <1>3
    <3>7. WInv(c, host, frames, hist')
      BY <1>1, <1>3, <1>5, <2>1, <3>2, <3>3, <3>4, <3>5, <3>6, SettleKeepsInv
    <3> QED
      BY <1>5, <3>1, <3>7
  <2>2. CASE client.move # "no"
    <3> DEFINE e == [client EXCEPT !.open = {}]
    <3>1. /\ e \in ClientFields(Nat) /\ e.open = {} /\ e.slot = client.slot
          /\ e.outbox = client.outbox
          /\ e.requests = client.requests /\ e.wire = client.wire
          /\ e.admission = client.admission
          /\ e.steering = client.steering /\ e.queued = client.queued
          /\ e.claimed = client.claimed /\ e.row = client.row /\ e.awaits = client.awaits
          /\ e.removed = client.removed /\ e.move = client.move
      BY <1>1 DEF ClientFields
    <3> HIDE DEF e
    <3>2. SamePrompts(client, e) /\ SameMove(client, e)
      BY <1>1, <3>1 DEF SamePrompts, SameMove
    <3>3. hist'.lost /\ m.lost
      BY <1>3, <1>6, <2>2
    <3>4. Shaped(e, host, frames, m)
      BY <1>1, <1>6, <1>7, <3>1 DEF Shaped
    <3>5. e.open \subseteq client.open /\ e.wire \subseteq client.wire
      BY <3>1
    <3>6. WInv(e, host, frames, m)
      BY <1>1, <1>7, <3>1, <3>2, <3>3, <3>4, <3>5, SettleKeepsInv
    <3>7. d = MoveFails(c)
      BY <1>5, <2>2
    <3>8. /\ d \in ClientFields(Nat) /\ d.open = {} /\ d.slot = "free" /\ d.outbox = b
          /\ d.requests = client.requests /\ d.wire = client.wire
          /\ d.admission = client.admission
          /\ d.steering = client.steering /\ d.queued = client.queued
          /\ d.claimed = client.claimed /\ d.row = client.row /\ d.awaits = client.awaits
          /\ d.removed = client.removed /\ d.move = "no"
          /\ d.interrupt = client.interrupt
      <4> DEFINE g == MoveFails(c)
      <4>1. /\ g \in ClientFields(Nat) /\ g.open = c.open /\ g.slot = "free"
            /\ g.outbox = c.outbox
            /\ g.requests = c.requests /\ g.wire = c.wire /\ g.admission = c.admission
            /\ g.steering = c.steering /\ g.queued = c.queued
            /\ g.claimed = c.claimed /\ g.row = c.row /\ g.awaits = c.awaits
            /\ g.removed = c.removed /\ g.move = "no" /\ g.interrupt = c.interrupt
        BY <1>5 DEF MoveFails, ClientFields
      <4> HIDE DEF g
      <4> QED
        BY <1>5, <3>7, <4>1 DEF g
    <3> HIDE DEF d
    <3>9. SamePrompts(e, d) /\ SameCalls(e, d)
      BY <1>1, <1>4, <3>1, <3>8 DEF SamePrompts, SameCalls
    <3>10. Shaped(d, host, frames, hist')
      BY <1>1, <1>3, <3>8 DEF Shaped
    <3>11. \A j \in e.open : e.requests[j].by = "loop"
      BY <3>1
    <3>12. WInv(d, host, frames, hist')
      BY <1>6, <1>7, <2>2, <3>1, <3>3, <3>6, <3>8, <3>9, <3>10, <3>11, MoveFailsKeepsInv, ZenonT(60)
    <3> QED
      BY <3>8, <3>12
  <2> QED
    BY <2>1, <2>2
<1> HIDE DEF d
<1>9. /\ client' \in ClientFields(Nat) /\ Alike(d, client')
      /\ client'.outbox = d.outbox /\ client'.claimed = d.claimed
      /\ client'.steering = d.steering /\ client'.queued = d.queued
      /\ client'.awaits \in {0, d.awaits} /\ client'.interrupt \in {"no", d.interrupt}
  <2>1. CASE client' = d
    BY <1>8, <2>1 DEF Alike
  <2>2. CASE client' = Stopped(d)
    <3> DEFINE g == Stopped(d)
    <3>1. /\ g \in ClientFields(Nat) /\ g.awaits = 0 /\ g.interrupt = "no"
          /\ g.requests = d.requests /\ g.wire = d.wire /\ g.open = d.open
          /\ g.outbox = d.outbox /\ g.admission = d.admission
          /\ g.steering = d.steering /\ g.queued = d.queued
          /\ g.claimed = d.claimed /\ g.row = d.row
          /\ g.removed = d.removed /\ g.move = d.move /\ g.slot = d.slot
      BY <1>8, StoppedIs
    <3> HIDE DEF g
    <3> QED
      BY <2>2, <3>1 DEF Alike, g
  <2> QED
    BY <1>2, <2>1, <2>2
<1>10. Numbers(d, host)
  BY <1>8 DEF WInv
<1>11. client'.awaits <= Len(d.requests)
  <2>1. Len(d.requests) \in Nat
    <3>1. d.requests \in Seq(Request)
      BY <1>8 DEF ClientFields
    <3> QED
      BY <3>1, LenProperties
  <2> QED
    BY <1>9, <1>10, <2>1 DEF Numbers
<1>12. frames' \in Seq(Frames(Nat)) /\ FramesOf(frames', host)
  <2>1. <<>> \in Seq(Frames(Nat)) /\ DOMAIN <<>> = {}
    OBVIOUS
  <2> QED
    BY <1>2, <2>1 DEF FramesOf
<1>13. Shaped(client', host, frames', hist') /\ AlikeHost(host, host)
  BY <1>1, <1>3, <1>9, <1>12 DEF Shaped, AlikeHost
<1>14. /\ client'.outbox \subseteq DOMAIN d.requests
       /\ Range(client'.steering) \cup Range(client'.queued) \cup client'.claimed
             \subseteq host.received
  BY <1>9, <1>10 DEF Numbers
<1>15. hist'.faults <= hist'.faults
  BY <1>3
<1>16. WInv(client', host, frames', hist')
  BY <1>8, <1>9, <1>11, <1>12, <1>13, <1>14, <1>15, AlikeKeepsInv
<1> QED
  BY <1>2, <1>8, <1>9, <1>16 DEF WritesInv, CancelStep

LEMMA ConnectKeepsInv ==
    ASSUME WritesInv, Reconnect \/ Restore
    PROVE  WritesInv' /\ CancelStep
<1>1. /\ client \in ClientFields(Nat) /\ Numbers(client, host) /\ Places(client, host)
      /\ host \in HostFields(Nat)
  BY WritesFacts
<1>2. /\ host.steering \in Seq(Nat) /\ host.queued \in Seq(Nat) /\ host.running \in BOOLEAN
  BY <1>1 DEF HostFields
<1>3. \E d \in ClientFields(Nat) :
         /\ client' = Published(d) /\ Alike(client, d)
         /\ d.outbox = {} /\ d.awaits = client.awaits
         /\ d.claimed = client.claimed /\ d.interrupt = client.interrupt
         /\ Range(d.steering) \cup Range(d.queued) \subseteq host.received
  <2>1. CASE Reconnect
    <3> DEFINE d == [client EXCEPT !.online = TRUE, !.told = FALSE, !.outbox = {},
                                   !.shadow = FALSE, !.steering = host.steering,
                                   !.queued = host.queued]
    <3>1. /\ d \in ClientFields(Nat) /\ Alike(client, d)
          /\ d.outbox = {} /\ d.awaits = client.awaits
          /\ d.claimed = client.claimed /\ d.interrupt = client.interrupt
          /\ d.steering = host.steering /\ d.queued = host.queued
      BY <1>1, <1>2, ZenonT(60) DEF ClientFields, Alike
    <3>2. client' = Published(d)
      BY <2>1 DEF Reconnect
    <3> HIDE DEF d
    <3> QED
      BY <1>1, <3>1, <3>2 DEF Places
  <2>2. CASE Restore
    <3> DEFINE run == IF client.told THEN client.running ELSE host.running
               d == [client EXCEPT !.ready = TRUE, !.told = FALSE, !.outbox = {},
                                   !.shadow = FALSE, !.running = run]
    <3>1. run \in BOOLEAN
      BY <1>1, <1>2 DEF ClientFields
    <3>2. client' = Published(d)
      BY <2>2 DEF Restore
    <3> HIDE DEF run
    <3>3. /\ d \in ClientFields(Nat) /\ Alike(client, d)
          /\ d.outbox = {} /\ d.awaits = client.awaits
          /\ d.claimed = client.claimed /\ d.interrupt = client.interrupt
          /\ d.steering = client.steering /\ d.queued = client.queued
      BY <1>1, <3>1, ZenonT(60) DEF ClientFields, Alike
    <3> HIDE DEF d
    <3> QED
      BY <1>1, <3>2, <3>3 DEF Numbers
  <2> QED
    BY <2>1, <2>2
<1>4. PICK d \in ClientFields(Nat) :
         /\ client' = Published(d) /\ Alike(client, d)
         /\ d.outbox = {} /\ d.awaits = client.awaits
         /\ d.claimed = client.claimed /\ d.interrupt = client.interrupt
         /\ Range(d.steering) \cup Range(d.queued) \subseteq host.received
  BY <1>3
<1>5. WInv(d, host, frames, hist)
  <2>1. d.outbox \subseteq DOMAIN client.requests /\ d.awaits <= Len(client.requests)
        /\ Range(d.steering) \cup Range(d.queued) \cup d.claimed \subseteq host.received
    BY <1>1, <1>4 DEF Numbers
  <2> QED
    BY <1>4, <2>1, WritesFacts, AlikeThenPublished
<1>6. WInv(Published(d), host, frames, hist) /\ Published(d).interrupt = d.interrupt
  BY <1>5, PublishedKeepsInv
<1>7. UNCHANGED <<host, frames, hist>>
  BY DEF Reconnect, Restore
<1> QED
  BY <1>4, <1>6, <1>7 DEF WritesInv, CancelStep

LEMMA SameWire ==
    ASSUME NEW c \in ClientFields(Nat)
    PROVE  [c EXCEPT !.wire = c.wire] = c
BY DEF ClientFields

-----------------------------------------------------------------------------
(* The invariant holds at the start and after every step.                  *)

LEMMA InitInv == Init => WritesInv
<1> SUFFICES ASSUME Init PROVE WritesInv
  OBVIOUS
<1>1. /\ client.requests = <<>> /\ client.wire = {} /\ client.open = {}
      /\ client.outbox = {} /\ client.steering = <<>> /\ client.queued = <<>>
      /\ client.claimed = {} /\ client.row = 0 /\ ~client.removed /\ client.move = "no"
      /\ client.admission = 0 /\ client.awaits = 0
      /\ host.steering = <<>> /\ host.queued = <<>>
      /\ host.received = {} /\ host.recorded = {}
      /\ frames = <<>> /\ hist.faults = 0
  BY DEF Init
<1>2. /\ DOMAIN <<>> = {} /\ Range(<<>>) = {} /\ Len(<<>>) = 0
      /\ <<>> \in Seq(Nat) /\ <<>> \in Seq(Request) /\ <<>> \in Seq(Frames(Nat))
  BY DEF Range
<1>3. Shaped(client, host, frames, hist)
  <2>1. client \in ClientFields(Nat)
    BY <1>2 DEF Init, ClientFields
  <2>2. host \in HostFields(Nat)
    BY <1>2 DEF Init, HostFields
  <2>3. /\ hist \in [faults : 0..MaxFaults, foreign : 0..MaxFaults, lost : BOOLEAN]
        /\ hist.faults + hist.foreign <= MaxFaults
    BY WritesAssumption DEF Init
  <2> QED
    BY <1>1, <1>2, <2>1, <2>2, <2>3 DEF Shaped
<1>4. Numbers(client, host)
  BY <1>1, <1>2 DEF Numbers
<1>5. FramesOf(frames, host)
  BY <1>1, <1>2 DEF FramesOf
<1>6. Places(client, host)
  BY <1>1, <1>2 DEF Places
<1>7. Slots(client)
  BY <1>1 DEF Slots
<1>8. Sent(client, host, hist)
  <2>1. Movers(client) = {} /\ Firsts(client) = {} /\ Dropped(client, host) = {}
    BY <1>1, <1>2 DEF Movers, Firsts, Dropped
  <2>2. Credit(client) = 0
    BY <1>1 DEF Credit, Owed
  <2>3. Cardinality({}) = 0
    BY FS_EmptySet
  <2> QED
    BY <1>1, <2>1, <2>2, <2>3 DEF Sent
<1>9. Counted(client, host)
  BY <1>1, <1>2 DEF Counted, Live, Carries, Owed
<1> QED
  BY <1>3, <1>4, <1>5, <1>6, <1>7, <1>8, <1>9 DEF WritesInv, WInv

LEMMA HostCancelStep ==
    ASSUME \/ \E i \in Requests : Receive(i)
           \/ Wake \/ Boundary \/ EndTurn \/ ForeignTurn \/ DropRow \/ Cancel,
           WritesInv
    PROVE  CancelStep
<1>1. client \in ClientFields(Nat)
  BY WritesFacts
<1>2. CASE \E i \in Requests : Receive(i)
  <2>1. PICK i \in Requests : client' = [client EXCEPT !.wire = @ \ {i}]
    BY <1>2 DEF Receive
  <2>2. client'.interrupt = client.interrupt
    BY <1>1, <2>1 DEF ClientFields
  <2> QED
    BY <2>2 DEF CancelStep
<1>3. CASE Wake \/ Boundary \/ EndTurn \/ ForeignTurn
  BY <1>3 DEF Wake, Boundary, EndTurn, ForeignTurn, CancelStep
<1>4. CASE DropRow
  <2>1. \/ client' = [client EXCEPT !.move = "removed"]
        \/ client' = [client EXCEPT !.move = "missing"]
    BY <1>4 DEF DropRow
  <2>2. client'.interrupt = client.interrupt
    BY <1>1, <2>1 DEF ClientFields
  <2> QED
    BY <2>2 DEF CancelStep
<1>5. CASE Cancel
  <2>1. client.interrupt = "cancelling"
    BY <1>5 DEF Cancel
  <2> QED
    BY <2>1 DEF CancelStep
<1> QED
  BY <1>2, <1>3, <1>4, <1>5

LEMMA NextKeepsInv == WritesInv /\ [Next]_vars => WritesInv' /\ CancelStep
<1> SUFFICES ASSUME WritesInv, [Next]_vars PROVE WritesInv' /\ CancelStep
  OBVIOUS
<1>1. CASE \/ \E text \in Typed : Type(text)
           \/ \E text \in Internal : LoopSends(text)
  BY <1>1, SendKeepsInv
<1>2. CASE \E force \in BOOLEAN : Interrupt(force)
  BY <1>2, InterruptKeepsInv
<1>3. CASE SendCancel
  BY <1>3, SendCancelKeepsInv
<1>4. CASE CancelAnswered
  <2>1. client' = Published(Stopped(client)) /\ UNCHANGED <<host, frames>> /\ UNCHANGED hist
    BY <1>4 DEF CancelAnswered
  <2> QED
    BY <2>1, StopKeepsInv
<1>5. ASSUME NEW i \in Requests, Accepted(i)
      PROVE  WritesInv' /\ CancelStep
  BY <1>5, AcceptedKeepsInv
<1>6. ASSUME NEW i \in Requests, Refuse(i)
      PROVE  WritesInv' /\ CancelStep
  <2> DEFINE w == client.wire \ {i}
  <2>1. /\ i \in client.open /\ i \in client.wire /\ Fault(FALSE)
        /\ client' = Rejects([client EXCEPT !.wire = w], i)
        /\ UNCHANGED <<host, frames>> /\ w \subseteq client.wire /\ w = client.wire \ {i}
    BY <1>6 DEF Refuse
  <2> HIDE DEF w
  <2> QED
    BY <2>1, RejectedKeepsInv
<1>7. ASSUME NEW i \in Requests, LoseAnswer(i)
      PROVE  WritesInv' /\ CancelStep
  <2>1. /\ i \in client.open /\ Fault(TRUE) /\ client' = Rejects(client, i)
        /\ UNCHANGED <<host, frames>>
    BY <1>7 DEF LoseAnswer
  <2>2. [client EXCEPT !.wire = client.wire] = client
    BY WritesFacts, SameWire
  <2>3. client' = Rejects([client EXCEPT !.wire = client.wire], i)
    BY <2>1, <2>2
  <2> QED
    BY <2>1, <2>3, RejectedKeepsInv
<1>8. CASE \E i \in Requests : Receive(i)
  BY <1>8, ReceiveKeepsInv, HostCancelStep
<1>9. CASE RemovalAnswered
  BY <1>9, RemovalAnsweredKeepsInv
<1>10. CASE RetryTime
  BY <1>10, RetryTimeKeepsInv
<1>11. CASE Publish
  BY <1>11, PublishKeepsInv
<1>12. CASE Frame
  BY <1>12, FrameKeepsInv
<1>13. CASE RemovalFails
  BY <1>13, RemovalFailsKeepsInv
<1>14. CASE CancelFails
  <2>1. client' = Published(Stopped(client)) /\ UNCHANGED <<host, frames>> /\ Fault(FALSE)
    BY <1>14 DEF CancelFails
  <2> QED
    BY <2>1, StopKeepsInv
<1>15. CASE Disconnect
  BY <1>15, DisconnectKeepsInv
<1>16. CASE Reconnect \/ Restore
  BY <1>16, ConnectKeepsInv
<1>17. CASE Wake
  BY <1>17, WakeKeepsInv, HostCancelStep
<1>18. CASE Boundary
  BY <1>18, BoundaryKeepsInv, HostCancelStep
<1>19. CASE EndTurn \/ ForeignTurn \/ Cancel
  BY <1>19, TurnsKeepInv, HostCancelStep
<1>20. CASE DropRow
  BY <1>20, DropRowKeepsInv, HostCancelStep
<1>21. CASE UNCHANGED vars
  BY <1>21 DEF vars, WritesInv, CancelStep
<1> QED
  BY <1>1, <1>2, <1>3, <1>4, <1>5, <1>6, <1>7, <1>8, <1>9, <1>10, <1>11, <1>12,
     <1>13, <1>14, <1>15, <1>16, <1>17, <1>18, <1>19, <1>20, <1>21 DEF Next

\* The numbering of the prompts, the slots, the one carrier of every message and
\* the account of what was moved hold in every state of the writes.
THEOREM WritesInvariant == Spec => []WritesInv
<1>1. Init => WritesInv
  BY InitInv
<1>2. WritesInv /\ [Next]_vars => WritesInv'
  BY NextKeepsInv
<1> QED
  BY <1>1, <1>2, PTL DEF Spec

\* CancelFollowsPrompts: once the cancel of an interrupt is sent, no typed or moved
\* prompt sent before the interrupt is still on its way, unless an answer was lost.
THEOREM CancelsComeAfter == Spec => CancelFollowsPrompts
<1>1. WritesInv /\ [Next]_vars => CancelStep
  BY NextKeepsInv
<1>2. Spec => []WritesInv
  BY WritesInvariant
<1>3. CancelStep =>
        [client.interrupt # "cancelling" /\ client'.interrupt = "cancelling" =>
           \/ hist.lost
           \/ \A i \in client.wire :
                 client.requests[i].by = "loop" \/ i > client'.awaits]_vars
  BY DEF CancelStep
<1> QED
  BY <1>1, <1>2, <1>3, PTL DEF Spec, CancelFollowsPrompts

-----------------------------------------------------------------------------
(* What a reader of the runs asks for.                                     *)

LEMMA RequestsBounded ==
    ASSUME WritesInv
    PROVE  Len(client.requests) \in Nat /\ Len(client.requests) <= MaxRequests
<1> DEFINE F == Firsts(client)
           M == Movers(client)
           D == Dropped(client, host)
           text == [i \in F |-> client.requests[i].text]
<1>1. /\ client \in ClientFields(Nat) /\ client.requests \in Seq(Request)
      /\ Sent(client, host, hist) /\ hist.faults \in 0..MaxFaults
  BY WritesFacts DEF ClientFields, WritesInv, WInv, Shaped
<1>2. DOMAIN client.requests = 1..Len(client.requests) /\ Len(client.requests) \in Nat
  BY <1>1, LenProperties
<1>3. /\ IsFiniteSet(M) /\ Cardinality(M) \in Nat /\ IsFiniteSet(F) /\ Cardinality(F) \in Nat
      /\ IsFiniteSet(D) /\ Cardinality(D) \in Nat /\ Credit(client) \in 0..1
  BY <1>1, CountsTyped
<1>4. \A i \in F : client.requests[i].text \in Messages
  <2> SUFFICES ASSUME NEW i \in F PROVE client.requests[i].text \in Messages
    OBVIOUS
  <2>1. i \in 1..Len(client.requests)
    BY <1>2 DEF Firsts
  <2>2. client.requests[i] \in Request
    BY <1>1, <2>1, ElementOfSeq
  <2> QED
    BY <2>2 DEF Request
<1>5. text \in Injection(F, Messages)
  <2>1. text \in [F -> Messages]
    BY <1>4
  <2>2. \A i, j \in F : text[i] = text[j] => i = j
    BY <1>1 DEF Sent
  <2> QED
    BY <2>1, <2>2 DEF Injection, IsInjective
<1>6. Cardinality(F) <= Cardinality(Messages)
  <2> HIDE DEF F, text
  <2> QED
    BY <1>5, WritesAssumption, FS_Injection
<1>7. Cardinality(D) <= Cardinality(F)
  <2>1. D \in SUBSET F
    BY DEF Dropped
  <2> HIDE DEF D, F
  <2> QED
    BY <1>3, <2>1, FS_Subset
<1>8. Cardinality(M) + Credit(client) <= Cardinality(D) + hist.faults
  BY <1>1 DEF Sent
<1>9. Len(client.requests) = Cardinality(F) + Cardinality(M)
  <2>1. F \cup M = 1..Len(client.requests) /\ F \cap M = {}
    BY <1>2 DEF Firsts, Movers
  <2> HIDE DEF F, M
  <2>2. Cardinality(F \cup M) = Cardinality(F) + Cardinality(M) - Cardinality(F \cap M)
    BY <1>3, FS_Union
  <2>3. Cardinality(F \cap M) = 0
    BY <2>1, FS_EmptySet
  <2>4. Cardinality(1..Len(client.requests)) = Len(client.requests)
    <3> DEFINE n == Len(client.requests)
    <3>1. n \in Nat
      BY <1>2
    <3> HIDE DEF n
    <3>2. Cardinality(1..n) = IF 1 > n THEN 0 ELSE n - 1 + 1
      BY <3>1, FS_Interval
    <3>3. Cardinality(1..n) = n
      BY <3>1, <3>2
    <3> QED
      BY <3>3 DEF n
  <2> DEFINE n == Len(client.requests)
             p == Cardinality(F)
             q == Cardinality(M)
  <2>5. n = p + q - 0 /\ p \in Nat /\ q \in Nat
    BY <1>3, <2>1, <2>2, <2>3, <2>4
  <2> HIDE DEF n, p, q
  <2>6. n = p + q
    BY <2>5
  <2> QED
    BY <2>6 DEF n, p, q
<1>10. Cardinality(Messages) \in Nat /\ MaxFaults \in Nat /\ MaxRequests \in Nat
       /\ MaxRequests >= 2 * Cardinality(Messages) + MaxFaults
  BY WritesAssumption, FS_CardinalityType
<1> HIDE DEF F, M, D
<1> QED
  BY <1>1, <1>2, <1>3, <1>6, <1>7, <1>8, <1>9, <1>10

\* A sequence of numbers is one of the requests if all its elements are.
LEMMA SeqOfRequests ==
    ASSUME NEW s \in Seq(Nat), Range(s) \subseteq Requests
    PROVE  s \in Seq(Requests)
<1>1. s \in Seq(Range(s))
  BY SeqOfRange
<1> QED
  BY <1>1, SeqMonotonic

LEMMA TypedByInv ==
    ASSUME WritesInv
    PROVE  TypeOK
<1>1. /\ client \in ClientFields(Nat) /\ host \in HostFields(Nat)
      /\ frames \in Seq(Frames(Nat)) /\ Numbers(client, host)
      /\ FramesOf(frames, host) /\ Places(client, host)
      /\ Shaped(client, host, frames, hist)
  BY WritesFacts
<1>2. /\ Len(client.requests) <= MaxRequests
      /\ DOMAIN client.requests \subseteq Requests
  <2>1. client.requests \in Seq(Request)
    BY <1>1 DEF ClientFields
  <2>2. DOMAIN client.requests = 1..Len(client.requests)
    BY <2>1, LenProperties
  <2> QED
    BY <2>2, RequestsBounded, WritesAssumption DEF Requests
<1>3. /\ client.wire \subseteq Requests /\ client.open \subseteq Requests
      /\ client.outbox \subseteq Requests /\ host.received \subseteq Requests
  BY <1>1, <1>2 DEF Numbers
<1>4. /\ client.steering \in Seq(Requests) /\ client.queued \in Seq(Requests)
      /\ client.claimed \subseteq Requests /\ client.row \in {0} \cup Requests
  <2>1. client.steering \in Seq(Nat) /\ client.queued \in Seq(Nat)
    BY <1>1 DEF ClientFields
  <2>2. /\ Range(client.steering) \subseteq Requests /\ Range(client.queued) \subseteq Requests
        /\ client.claimed \subseteq Requests /\ client.row \in {0} \cup Requests
    BY <1>1, <1>3 DEF Numbers
  <2> QED
    BY <2>1, <2>2, SeqOfRequests
<1>5. client.admission \in {0} \cup Requests /\ client.awaits \in {0} \cup Requests
  <2>1. client.admission = Len(client.requests) /\ client.awaits <= Len(client.requests)
    BY <1>1 DEF Numbers
  <2>2. client.awaits \in Nat
    BY <1>1 DEF ClientFields
  <2> QED
    BY <2>1, <2>2, RequestsBounded, WritesAssumption DEF Requests
<1>6. client \in ClientFields(Requests)
  BY <1>1, <1>3, <1>4, <1>5 DEF ClientFields
<1>7. host \in HostFields(Requests)
  <2>1. host.steering \in Seq(Nat) /\ host.queued \in Seq(Nat)
    BY <1>1 DEF HostFields
  <2>2. /\ Range(host.steering) \subseteq Requests /\ Range(host.queued) \subseteq Requests
        /\ host.recorded \subseteq Requests
    BY <1>1, <1>3 DEF Places
  <2>3. host.steering \in Seq(Requests) /\ host.queued \in Seq(Requests)
    BY <2>1, <2>2, SeqOfRequests
  <2> QED
    BY <1>1, <1>3, <2>2, <2>3 DEF HostFields
<1>8. frames \in Seq(Frames(Requests))
  <2>1. ASSUME NEW n \in 1..Len(frames) PROVE frames[n] \in Frames(Requests)
    <3>1. frames[n] \in Frames(Nat)
      BY <1>1, <2>1, ElementOfSeq
    <3>2. FrameOf(frames[n], host.received)
      <4>1. n \in DOMAIN frames
        BY <1>1, <2>1, LenProperties
      <4> QED
        BY <1>1, <4>1 DEF FramesOf
    <3>3. CASE frames[n] \in [kind : {"status"}, running : BOOLEAN]
      BY <3>3 DEF Frames
    <3>4. CASE frames[n] \in [kind : {"inbox"}, steering : Seq(Nat), queued : Seq(Nat),
                              ids : SUBSET Nat]
      <4> DEFINE g == frames[n]
      <4>1. /\ Range(g.steering) \subseteq Requests /\ Range(g.queued) \subseteq Requests
            /\ g.ids \subseteq Requests
        BY <1>3, <3>2, <3>4 DEF FrameOf
      <4>2. g.steering \in Seq(Nat) /\ g.queued \in Seq(Nat)
        BY <3>4
      <4>3. g.steering \in Seq(Requests) /\ g.queued \in Seq(Requests)
        BY <4>1, <4>2, SeqOfRequests
      <4> HIDE DEF g
      <4>4. g \in [kind : {"inbox"}, steering : Seq(Nat), queued : Seq(Nat),
                   ids : SUBSET Nat]
        BY <3>4 DEF g
      <4>5. g \in [kind : {"inbox"}, steering : Seq(Requests), queued : Seq(Requests),
                   ids : SUBSET Requests]
        BY <4>1, <4>3, <4>4
      <4> QED
        BY <4>5 DEF Frames, g
    <3> QED
      BY <3>1, <3>3, <3>4 DEF Frames
  <2>2. Range(frames) \subseteq Frames(Requests)
    BY <1>1, <2>1, RangeEquality
  <2>3. frames \in Seq(Range(frames))
    BY <1>1, SeqOfRange
  <2> QED
    BY <2>2, <2>3, SeqMonotonic
<1> QED
  BY <1>1, <1>2, <1>6, <1>7, <1>8 DEF TypeOK, Shaped

LEMMA CountedByInv ==
    ASSUME WritesInv
    PROVE  MessagesCounted
<1>1. Numbers(client, host) /\ Places(client, host)
  BY WritesFacts
<1>2. ~hist.lost => Counted(client, host)
  BY DEF WritesInv, WInv
<1>3. host.recorded \subseteq DOMAIN client.requests
  BY <1>1 DEF Numbers, Places
<1>4. RecordedOnce
  <2> SUFFICES ASSUME ~hist.lost, NEW text \in Messages
               PROVE  Cardinality(Carrying(text) \cap host.recorded) <= 1
    BY DEF RecordedOnce
  <2> DEFINE S == Carrying(text) \cap host.recorded
  <2>1. \A i, j \in S : i = j
    BY <1>2 DEF Counted, Live, Carrying, Text
  <2> HIDE DEF S
  <2>2. CASE S = {}
    BY <2>2, FS_EmptySet DEF S
  <2>3. CASE S # {}
    <3>1. PICK i \in S : S = {i}
      BY <2>1, <2>3
    <3>2. Cardinality(S) = 1
      BY <3>1, FS_Singleton
    <3> QED
      BY <3>2 DEF S
  <2> QED
    BY <2>2, <2>3
<1>5. NothingDropped
  <2> SUFFICES ASSUME ~hist.lost, NEW i \in host.received
               PROVE  Kept(Text(i))
    BY DEF NothingDropped
  <2>1. CASE Carries(client, host, client.requests[i].text)
    <3>1. PICK j \in Live(client, host) : client.requests[j].text = client.requests[i].text
      BY <2>1 DEF Carries
    <3>2. j \in DOMAIN client.requests
      BY <1>1 DEF Live, Numbers, Places
    <3> QED
      BY <3>1, <3>2 DEF Kept, Carrying, Text, Live
  <2>2. CASE client.row # 0 /\ client.requests[client.row].text = client.requests[i].text
    <3>1. client.row \in DOMAIN client.requests
      BY <1>1, <2>2 DEF Numbers
    <3> QED
      BY <2>2, <3>1 DEF Kept, Carrying, Text
  <2> QED
    BY <1>2, <2>1, <2>2 DEF Counted
<1> QED
  BY <1>4, <1>5 DEF MessagesCounted

\* TypeOK: the client, the host and the frames keep their types, no more prompts are
\* sent than MaxRequests, and every number anywhere is that of a prompt sent.
THEOREM WritesTyped == Spec => []TypeOK
<1>1. WritesInv => TypeOK
  BY TypedByInv
<1> QED
  BY <1>1, WritesInvariant, PTL

\* MessagesCounted: while no answer is lost, parking, claiming, moving and resending
\* a message neither deliver it twice nor lose it.
THEOREM MessagesStayCounted == Spec => []MessagesCounted
<1>1. WritesInv => MessagesCounted
  BY CountedByInv
<1> QED
  BY <1>1, WritesInvariant, PTL

=============================================================================
