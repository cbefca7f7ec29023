-------------------------- MODULE Exclusion_proofs --------------------------
(***************************************************************************)
(* Proofs about what admits one operation at a time: MutationGate, for any *)
(* set of calls, sessions and targets, and ForegroundSlot, for any set of  *)
(* claims; and about Terminal, whose lines take that slot, for any lines,  *)
(* abbreviations and conversations and any number of drafts and blocks.    *)
(***************************************************************************)
EXTENDS MCExclusion, Terminal, FiniteSetTheorems, TLAPS

\* A pending call captured the Lane the map still holds for its session.
PendingInMap ==
    \A a \in Admissions :
        pc[a] \in {"queued", "admitted"} =>
            state[a] # None /\ state[a] = lanes[Target[a]]

\* A Lane in the map was created for its session, by a call already made, and is
\* held by an admitted one.
MapHeld ==
    \A s \in Sessions :
        lanes[s] # None =>
            /\ Target[lanes[s]] = s
            /\ pc[lanes[s]] # "idle"
            /\ busy[lanes[s]]
            /\ \E b \in Admissions : pc[b] = "admitted" /\ Target[b] = s

\* A Lane that is not in the map is free and nobody waits in it.
OthersEmpty ==
    \A o \in Admissions :
        lanes[Target[o]] # o =>
            ~busy[o] /\ \A l \in MutationLane : queue[o][l] = <<>>

\* A list holds waiting calls of its own lane and session, in arrival order.
Sorted(o, l) ==
    /\ \A i \in 1 .. Len(queue[o][l]) :
          /\ pc[queue[o][l][i]] = "queued"
          /\ LaneOf[queue[o][l][i]] = l
          /\ state[queue[o][l][i]] = o
    /\ \A i, j \in 1 .. Len(queue[o][l]) :
          i < j => ticket[queue[o][l][i]] < ticket[queue[o][l][j]]

QueuesSorted == \A o \in Admissions, l \in MutationLane : Sorted(o, l)

\* Every waiting call is in the list it pushed itself onto.
WaitersListed ==
    \A a \in Admissions :
        pc[a] = "queued" =>
            \E i \in 1 .. Len(queue[state[a]][LaneOf[a]]) :
                queue[state[a]][LaneOf[a]][i] = a

TicketsGiven ==
    \A a \in Admissions :
        ticket[a] <= clock /\ (ticket[a] = 0 <=> pc[a] = "idle")

GateInv ==
    /\ TypeOK
    /\ SectionExclusion
    /\ PendingInMap
    /\ MapHeld
    /\ OthersEmpty
    /\ QueuesSorted
    /\ WaitersListed
    /\ TicketsGiven

-----------------------------------------------------------------------------
LEMMA InitGateInv == Init => GateInv
<1> SUFFICES ASSUME Init PROVE GateInv
  OBVIOUS
<1> USE GateAssumption DEF Init, MutationLane
<1>1. TypeOK
  BY DEF TypeOK
<1>2. SectionExclusion /\ PendingInMap /\ MapHeld /\ WaitersListed
  BY DEF SectionExclusion, PendingInMap, MapHeld, WaitersListed
<1>3. OthersEmpty /\ QueuesSorted
  BY DEF OthersEmpty, QueuesSorted, Sorted
<1>4. TicketsGiven
  <2> SUFFICES ASSUME NEW a \in Admissions
               PROVE  ticket[a] <= clock /\ (ticket[a] = 0 <=> pc[a] = "idle")
    BY DEF TicketsGiven
  <2>1. ticket[a] = 0 /\ pc[a] = "idle" /\ clock = 0
    OBVIOUS
  <2> QED
    BY <2>1
<1> QED
  BY <1>1, <1>2, <1>3, <1>4 DEF GateInv

\* A call that finds the gate free leaves it held by itself alone.
LEMMA AdmitNowKeepsInv ==
    ASSUME GateInv, NEW a \in Admissions, AdmitNow(a)
    PROVE  GateInv'
<1> DEFINE s == Target[a]
           o == LaneFor(a)
<1> USE GateAssumption DEF MutationLane
<1>1. /\ s \in Sessions
      /\ lanes[s] = None
      /\ o = a
  BY DEF GateInv, TypeOK, MapHeld, AdmitNow, Enter, LaneFor
<1>2. \A b \in Admissions :
         Target[b] = s => pc[b] \notin {"queued", "admitted"}
  BY <1>1 DEF GateInv, PendingInMap
<1>3. \A t \in Sessions : lanes[t] # a
  BY <1>1 DEF GateInv, TypeOK, MapHeld, AdmitNow, Enter
<1>4. /\ lanes' = [lanes EXCEPT ![s] = a]
      /\ state' = [state EXCEPT ![a] = a]
      /\ busy' = [busy EXCEPT ![a] = TRUE]
      /\ pc' = [pc EXCEPT ![a] = "admitted"]
      /\ clock' = clock + 1
      /\ ticket' = [ticket EXCEPT ![a] = clock + 1]
      /\ queue' = queue
      /\ pc[a] = "idle"
  BY <1>1 DEF AdmitNow, Enter
<1> HIDE DEF o
<1>5. TypeOK'
  BY <1>1, <1>4 DEF GateInv, TypeOK
<1>6. SectionExclusion'
  BY <1>2, <1>4 DEF GateInv, TypeOK, SectionExclusion
<1>7. PendingInMap'
  BY <1>1, <1>2, <1>4 DEF GateInv, TypeOK, PendingInMap
<1>8. MapHeld'
  BY <1>1, <1>3, <1>4 DEF GateInv, TypeOK, MapHeld
<1>9. OthersEmpty'
  BY <1>1, <1>3, <1>4 DEF GateInv, TypeOK, OthersEmpty
<1>10. QueuesSorted'
  <2> SUFFICES ASSUME NEW p \in Admissions, NEW l \in MutationLane
               PROVE  Sorted(p, l)'
    BY DEF QueuesSorted
  <2>1. CASE p = a
    <3>1. Len(queue[a][l]) = 0
      BY <1>1, <1>3 DEF GateInv, OthersEmpty
    <3> QED
      BY <1>4, <2>1, <3>1 DEF Sorted
  <2>2. CASE p # a
    <3> DEFINE q == queue[p][l]
    <3>1. q \in Seq(Admissions)
      BY DEF GateInv, TypeOK
    <3>2. Sorted(p, l)
      BY DEF GateInv, QueuesSorted
    <3>3. \A i \in 1 .. Len(q) : q[i] \in Admissions /\ q[i] # a
      BY <1>4, <3>1, <3>2 DEF Sorted
    <3>4. \A i \in 1 .. Len(q) :
             /\ pc'[q[i]] = pc[q[i]]
             /\ state'[q[i]] = state[q[i]]
             /\ ticket'[q[i]] = ticket[q[i]]
      BY <1>4, <3>3 DEF GateInv, TypeOK
    <3> QED
      BY <1>4, <3>2, <3>4 DEF Sorted
  <2> QED
    BY <2>1, <2>2
<1>11. WaitersListed'
  BY <1>4 DEF GateInv, TypeOK, WaitersListed
<1>12. TicketsGiven'
  BY <1>4 DEF GateInv, TypeOK, TicketsGiven
<1> QED
  BY <1>5, <1>6, <1>7, <1>8, <1>9, <1>10, <1>11, <1>12 DEF GateInv

\* A call that finds the gate taken joins the end of its list.
LEMMA AdmitLaterKeepsInv ==
    ASSUME GateInv, NEW a \in Admissions, AdmitLater(a)
    PROVE  GateInv'
<1> DEFINE s == Target[a]
           o == LaneFor(a)
<1> USE GateAssumption DEF MutationLane
<1>1. /\ s \in Sessions
      /\ lanes[s] # None
      /\ o = lanes[s]
      /\ o \in Admissions
      /\ o # a
      /\ Target[o] = s
  <2>1. pc[a] = "idle" /\ busy[LaneFor(a)]
    BY DEF AdmitLater, Enter
  <2>2. s \in Sessions /\ lanes[s] \in Admissions \cup {None}
    BY DEF GateInv, TypeOK
  <2>3. lanes[s] # None
    BY <2>1, <2>2 DEF GateInv, OthersEmpty, LaneFor
  <2>4. Target[lanes[s]] = s /\ pc[lanes[s]] # "idle"
    BY <2>2, <2>3 DEF GateInv, MapHeld
  <2> QED
    BY <2>1, <2>2, <2>3, <2>4 DEF LaneFor
<1>4. /\ lanes' = lanes
      /\ state' = [state EXCEPT ![a] = o]
      /\ queue' = [queue EXCEPT ![o][LaneOf[a]] = Append(@, a)]
      /\ pc' = [pc EXCEPT ![a] = "queued"]
      /\ clock' = clock + 1
      /\ ticket' = [ticket EXCEPT ![a] = clock + 1]
      /\ busy' = busy
      /\ pc[a] = "idle"
  BY <1>1 DEF AdmitLater, Enter, GateInv, TypeOK
<1> HIDE DEF o
<1>5. TypeOK'
  <2>1. a \in Admissions /\ LaneOf[a] \in MutationLane /\ clock \in Nat
    BY DEF GateInv, TypeOK
  <2>2. Append(queue[o][LaneOf[a]], a) \in Seq(Admissions)
    BY <1>1, <2>1 DEF GateInv, TypeOK
  <2>3. queue' \in [Admissions -> [MutationLane -> Seq(Admissions)]]
    BY <1>1, <1>4, <2>1, <2>2 DEF GateInv, TypeOK
  <2>4. /\ state' \in [Admissions -> Admissions \cup {None}]
        /\ pc' \in [Admissions -> {"idle", "queued", "admitted", "done"}]
    BY <1>1, <1>4 DEF GateInv, TypeOK
  <2>5. ticket' \in [Admissions -> Nat] /\ clock' \in Nat
    BY <1>4, <2>1 DEF GateInv, TypeOK
  <2> QED
    BY <1>4, <2>3, <2>4, <2>5 DEF GateInv, TypeOK
<1>6. SectionExclusion'
  BY <1>4 DEF GateInv, TypeOK, SectionExclusion
<1>7. PendingInMap'
  BY <1>1, <1>4 DEF GateInv, TypeOK, PendingInMap
<1>8. MapHeld'
  BY <1>1, <1>4 DEF GateInv, TypeOK, MapHeld
<1>9. OthersEmpty'
  BY <1>1, <1>4 DEF GateInv, TypeOK, OthersEmpty
<1>20. \A p \in Admissions, l \in MutationLane :
          queue'[p][l] = IF p = o /\ l = LaneOf[a]
                         THEN Append(queue[p][l], a) ELSE queue[p][l]
  BY <1>1, <1>4 DEF GateInv, TypeOK
<1>10. QueuesSorted'
  <2> SUFFICES ASSUME NEW p \in Admissions, NEW l \in MutationLane
               PROVE  Sorted(p, l)'
    BY DEF QueuesSorted
  <2> DEFINE q == queue[p][l]
  <2>1. q \in Seq(Admissions)
    BY DEF GateInv, TypeOK
  <2>2. Sorted(p, l)
    BY DEF GateInv, QueuesSorted
  <2>3. \A i \in 1 .. Len(q) : q[i] \in Admissions /\ q[i] # a
    BY <1>4, <2>1, <2>2 DEF Sorted
  <2>4. \A i \in 1 .. Len(q) :
           /\ pc'[q[i]] = "queued" /\ LaneOf[q[i]] = l /\ state'[q[i]] = p
           /\ ticket'[q[i]] = ticket[q[i]]
           /\ ticket[q[i]] \in Nat
           /\ ticket[q[i]] <= clock
    <3>1. \A c \in Admissions :
             /\ ticket[c] \in Nat /\ ticket[c] <= clock
             /\ c # a => pc'[c] = pc[c] /\ state'[c] = state[c] /\ ticket'[c] = ticket[c]
      BY <1>4 DEF GateInv, TypeOK, TicketsGiven
    <3>2. \A i \in 1 .. Len(q) : pc[q[i]] = "queued" /\ LaneOf[q[i]] = l /\ state[q[i]] = p
      BY <2>2 DEF Sorted
    <3> QED
      BY <2>3, <3>1, <3>2
  <2>5. \A i, j \in 1 .. Len(q) : i < j => ticket[q[i]] < ticket[q[j]]
    BY <2>2 DEF Sorted
  <2>6. CASE p = o /\ l = LaneOf[a]
    <3>1. queue'[p][l] = Append(q, a)
      BY <1>20, <2>6
    <3> DEFINE r == Append(q, a)
    <3>2. Len(r) = Len(q) + 1 /\ Len(q) \in Nat
      BY <2>1
    <3>3. \A i \in 1 .. Len(q) : r[i] = q[i]
      BY <2>1
    <3>4. r[Len(q) + 1] = a
      BY <2>1
    <3>5. pc'[a] = "queued" /\ state'[a] = p /\ ticket'[a] = clock + 1 /\ clock \in Nat
      BY <1>4, <2>6 DEF GateInv, TypeOK
    <3> HIDE DEF r, q
    <3>6. \A i \in 1 .. Len(r) : i \in 1 .. Len(q) \/ i = Len(q) + 1
      BY <3>2
    <3>7. \A i \in 1 .. Len(r) :
             pc'[r[i]] = "queued" /\ LaneOf[r[i]] = l /\ state'[r[i]] = p
      BY <2>4, <2>6, <3>3, <3>4, <3>5, <3>6
    <3>8. \A i, j \in 1 .. Len(r) : i < j => ticket'[r[i]] < ticket'[r[j]]
      BY <2>4, <2>5, <3>2, <3>3, <3>4, <3>5, <3>6
    <3> QED
      BY <3>1, <3>7, <3>8 DEF r, Sorted
  <2>7. CASE ~(p = o /\ l = LaneOf[a])
    <3>1. queue'[p][l] = q
      BY <1>20, <2>7
    <3> HIDE DEF q
    <3> QED
      BY <2>4, <2>5, <3>1 DEF Sorted
  <2> QED
    BY <2>6, <2>7
<1>11. WaitersListed'
  <2> SUFFICES ASSUME NEW b \in Admissions, pc'[b] = "queued"
               PROVE \E i \in 1 .. Len(queue'[state'[b]][LaneOf[b]]) :
                        queue'[state'[b]][LaneOf[b]][i] = b
    BY DEF WaitersListed
  <2> DEFINE q == queue[state'[b]][LaneOf[b]]
  <2>1. state'[b] \in Admissions /\ q \in Seq(Admissions) /\ LaneOf[b] \in MutationLane
    BY <1>1, <1>4 DEF GateInv, TypeOK, PendingInMap
  <2>2. CASE b = a
    <3>1. queue'[state'[b]][LaneOf[b]] = Append(q, a)
      BY <1>1, <1>4, <1>20, <2>1, <2>2 DEF GateInv, TypeOK
    <3>2. Len(q) + 1 \in 1 .. Len(Append(q, a)) /\ Append(q, a)[Len(q) + 1] = a
      BY <2>1
    <3> QED
      BY <2>2, <3>1, <3>2
  <2>3. CASE b # a
    <3>1. pc[b] = "queued" /\ state'[b] = state[b]
      BY <1>4, <2>3 DEF GateInv, TypeOK
    <3>2. PICK i \in 1 .. Len(q) : q[i] = b
      BY <3>1 DEF GateInv, WaitersListed
    <3>3. i \in 1 .. Len(Append(q, a)) /\ Append(q, a)[i] = b
      BY <2>1, <3>2
    <3>4. queue'[state'[b]][LaneOf[b]] \in {q, Append(q, a)}
      BY <1>20, <2>1
    <3> QED
      BY <3>2, <3>3, <3>4
  <2> QED
    BY <2>2, <2>3
<1>12. TicketsGiven'
  <2>1. clock \in Nat /\ clock' = clock + 1
    BY <1>4 DEF GateInv, TypeOK
  <2>2. \A c \in Admissions :
           /\ ticket[c] \in Nat /\ ticket[c] <= clock /\ (ticket[c] = 0 <=> pc[c] = "idle")
           /\ ticket'[c] = IF c = a THEN clock + 1 ELSE ticket[c]
           /\ pc'[c] = IF c = a THEN "queued" ELSE pc[c]
    BY <1>4 DEF GateInv, TypeOK, TicketsGiven
  <2> QED
    BY <2>1, <2>2 DEF TicketsGiven
<1> QED
  BY <1>5, <1>6, <1>7, <1>8, <1>9, <1>10, <1>11, <1>12 DEF GateInv

\* Where a pending call stands.
LEMMA PendingFacts ==
    ASSUME GateInv, NEW a \in Admissions, pc[a] \in {"queued", "admitted"}
    PROVE  /\ Target[a] \in Sessions
           /\ state[a] \in Admissions
           /\ state[a] = lanes[Target[a]]
           /\ Target[state[a]] = Target[a]
<1> USE GateAssumption
<1>1. Target[a] \in Sessions
  OBVIOUS
<1>2. state[a] \in Admissions \cup {None}
  BY DEF GateInv, TypeOK
<1>3. state[a] # None /\ state[a] = lanes[Target[a]]
  BY DEF GateInv, PendingInMap
<1>4. Target[lanes[Target[a]]] = Target[a]
  BY <1>1, <1>3 DEF GateInv, MapHeld
<1> QED
  BY <1>1, <1>2, <1>3, <1>4

\* The waiter that is woken inherits the gate: it is the only one promised it.
LEMMA HandOffKeepsInv ==
    ASSUME GateInv, NEW a \in Admissions, HandOff(a)
    PROVE  GateInv'
<1> DEFINE s == Target[a]
           o == state[a]
           l == NextLane(o)
           q == queue[o][l]
           h == Head(q)
<1> USE GateAssumption DEF MutationLane
<1>1. /\ pc[a] = "admitted"
      /\ s \in Sessions
      /\ o \in Admissions
      /\ o = lanes[s]
      /\ Target[o] = s
  BY PendingFacts DEF HandOff
<1>2. l \in MutationLane /\ q \in Seq(Admissions) /\ q # <<>>
  BY <1>1 DEF HandOff, NextLane, GateInv, TypeOK
<1>3. h = q[1] /\ 1 \in 1 .. Len(q) /\ h \in Admissions
  BY <1>2
<1>4. pc[h] = "queued" /\ LaneOf[h] = l /\ state[h] = o /\ h # a
  BY <1>1, <1>2, <1>3 DEF GateInv, QueuesSorted, Sorted
<1>5. Target[h] = s
  BY <1>1, <1>3, <1>4, PendingFacts
<1>6. /\ queue' = [queue EXCEPT ![o][l] = Tail(q)]
      /\ pc' = [pc EXCEPT ![a] = "done", ![h] = "admitted"]
      /\ UNCHANGED <<lanes, busy, state, ticket, clock>>
  BY DEF HandOff
<1>7. \A b \in Admissions :
         pc'[b] = IF b = h THEN "admitted" ELSE IF b = a THEN "done" ELSE pc[b]
  BY <1>3, <1>4, <1>6 DEF GateInv, TypeOK
<1>8. \A p \in Admissions, m \in MutationLane :
         queue'[p][m] = IF p = o /\ m = l THEN Tail(q) ELSE queue[p][m]
  BY <1>1, <1>2, <1>6 DEF GateInv, TypeOK
<1>9. /\ Tail(q) \in Seq(Admissions)
      /\ Len(q) \in Nat
      /\ Len(Tail(q)) = Len(q) - 1
      /\ \A i \in 1 .. Len(q) - 1 : Tail(q)[i] = q[i + 1]
  BY <1>2
<1> HIDE DEF l, q, h
<1>10. TypeOK'
  BY <1>1, <1>2, <1>3, <1>6, <1>9 DEF GateInv, TypeOK
<1>11. SectionExclusion'
  BY <1>1, <1>5, <1>7 DEF GateInv, SectionExclusion
<1>12. PendingInMap'
  BY <1>4, <1>6, <1>7 DEF GateInv, TypeOK, PendingInMap
<1>13. MapHeld'
  <2> SUFFICES ASSUME NEW t \in Sessions, lanes[t] # None
               PROVE  /\ Target[lanes[t]] = t
                      /\ pc'[lanes[t]] # "idle"
                      /\ busy[lanes[t]]
                      /\ \E b \in Admissions : pc'[b] = "admitted" /\ Target[b] = t
    BY <1>6 DEF MapHeld
  <2>1. /\ lanes[t] \in Admissions
        /\ Target[lanes[t]] = t
        /\ pc[lanes[t]] # "idle"
        /\ busy[lanes[t]]
    BY DEF GateInv, TypeOK, MapHeld
  <2>2. PICK b \in Admissions : pc[b] = "admitted" /\ Target[b] = t
    BY DEF GateInv, MapHeld
  <2>3. pc'[lanes[t]] # "idle"
    BY <1>7, <2>1
  <2>4. CASE t = s
    BY <1>3, <1>5, <1>7, <2>1, <2>3, <2>4
  <2>5. CASE t # s
    <3>1. b # a /\ b # h
      BY <1>5, <2>2, <2>5
    <3> QED
      BY <1>7, <2>1, <2>2, <2>3, <3>1
  <2> QED
    BY <2>4, <2>5
<1>14. OthersEmpty'
  BY <1>1, <1>6, <1>8 DEF GateInv, OthersEmpty
<1>15. QueuesSorted'
  <2> SUFFICES ASSUME NEW p \in Admissions, NEW m \in MutationLane
               PROVE  Sorted(p, m)'
    BY DEF QueuesSorted
  <2> DEFINE r == queue[p][m]
  <2>1. r \in Seq(Admissions) /\ Len(r) \in Nat
    BY DEF GateInv, TypeOK
  <2>2. \A i \in 1 .. Len(r) : r[i] \in Admissions
    BY <2>1
  <2>3. Sorted(p, m)
    BY DEF GateInv, QueuesSorted
  <2>4. CASE p = o /\ m = l
    <3>1. r = q
      BY <2>4 DEF q
    <3> HIDE DEF r
    <3>2. \A i \in 1 .. Len(q) - 1 : q[i + 1] # h
      <4> SUFFICES ASSUME NEW i \in 1 .. Len(q) - 1 PROVE q[i + 1] # h
        OBVIOUS
      <4>1. i + 1 \in 1 .. Len(q) /\ 1 < i + 1
        BY <1>9
      <4>2. ticket[q[1]] < ticket[q[i + 1]]
        BY <1>3, <2>3, <3>1, <4>1 DEF Sorted, r
      <4>3. ticket[q[1]] \in Nat /\ ticket[q[i + 1]] \in Nat
        BY <1>3, <2>2, <3>1, <4>1 DEF GateInv, TypeOK
      <4> QED
        BY <1>3, <4>2, <4>3
    <3>3. \A i \in 1 .. Len(q) - 1 :
             /\ i + 1 \in 1 .. Len(q)
             /\ q[i + 1] \in Admissions
             /\ pc[q[i + 1]] = "queued" /\ LaneOf[q[i + 1]] = m /\ state[q[i + 1]] = p
      BY <1>9, <2>2, <2>3, <3>1 DEF Sorted, r
    <3>4. \A i \in 1 .. Len(q) - 1 : pc'[q[i + 1]] = "queued"
      BY <1>1, <1>7, <3>2, <3>3
    <3>5. \A i, j \in 1 .. Len(q) - 1 : i < j => ticket[q[i + 1]] < ticket[q[j + 1]]
      BY <1>9, <2>3, <3>1, <3>3 DEF Sorted, r
    <3>6. queue'[p][m] = Tail(q) /\ Len(Tail(q)) = Len(q) - 1
      BY <1>8, <1>9, <2>4
    <3>7. \A i \in 1 .. Len(q) - 1 :
             /\ pc'[Tail(q)[i]] = "queued"
             /\ LaneOf[Tail(q)[i]] = m
             /\ state'[Tail(q)[i]] = p
      BY <1>6, <1>9, <3>3, <3>4
    <3>8. \A i, j \in 1 .. Len(q) - 1 :
             i < j => ticket'[Tail(q)[i]] < ticket'[Tail(q)[j]]
      BY <1>6, <1>9, <3>5
    <3> QED
      BY <3>6, <3>7, <3>8 DEF Sorted
  <2>5. CASE ~(p = o /\ m = l)
    <3>1. queue'[p][m] = r
      BY <1>8, <2>5
    <3>2. \A i \in 1 .. Len(r) : r[i] # h
      BY <1>4, <2>3, <2>5 DEF Sorted
    <3>3. \A i \in 1 .. Len(r) : pc'[r[i]] = "queued"
      BY <1>1, <1>7, <2>2, <2>3, <3>2 DEF Sorted
    <3> QED
      BY <1>6, <2>3, <3>1, <3>3 DEF Sorted
  <2> QED
    BY <2>4, <2>5
<1>16. WaitersListed'
  <2> SUFFICES ASSUME NEW b \in Admissions, pc'[b] = "queued"
               PROVE  \E i \in 1 .. Len(queue'[state[b]][LaneOf[b]]) :
                         queue'[state[b]][LaneOf[b]][i] = b
    BY <1>6 DEF WaitersListed
  <2>1. pc[b] = "queued" /\ b # h
    BY <1>7
  <2>2. state[b] \in Admissions /\ LaneOf[b] \in MutationLane
    BY <2>1 DEF GateInv, TypeOK, PendingInMap
  <2>3. PICK i \in 1 .. Len(queue[state[b]][LaneOf[b]]) :
           queue[state[b]][LaneOf[b]][i] = b
    BY <2>1 DEF GateInv, WaitersListed
  <2>4. CASE state[b] = o /\ LaneOf[b] = l
    <3>1. i \in 1 .. Len(q) /\ q[i] = b
      BY <2>3, <2>4 DEF q
    <3>2. i # 1
      BY <1>3, <2>1, <3>1
    <3>3. i - 1 \in 1 .. Len(Tail(q)) /\ Tail(q)[i - 1] = b
      BY <1>9, <3>1, <3>2
    <3> QED
      BY <1>8, <2>2, <2>4, <3>3
  <2>5. CASE ~(state[b] = o /\ LaneOf[b] = l)
    BY <1>8, <2>2, <2>3, <2>5
  <2> QED
    BY <2>4, <2>5
<1>17. TicketsGiven'
  <2>1. \A b \in Admissions : pc'[b] = "idle" <=> pc[b] = "idle"
    BY <1>1, <1>3, <1>4, <1>7
  <2> QED
    BY <1>6, <2>1 DEF GateInv, TicketsGiven
<1> QED
  BY <1>10, <1>11, <1>12, <1>13, <1>14, <1>15, <1>16, <1>17 DEF GateInv

\* A gate nobody waits for is given back, and its Lane leaves the map.
LEMMA FreeKeepsInv ==
    ASSUME GateInv, NEW a \in Admissions, Free(a)
    PROVE  GateInv'
<1> DEFINE s == Target[a]
           o == state[a]
<1> USE GateAssumption DEF MutationLane
<1>1. /\ pc[a] = "admitted"
      /\ s \in Sessions
      /\ o \in Admissions
      /\ o = lanes[s]
      /\ Target[o] = s
      /\ \A l \in MutationLane : queue[o][l] = <<>>
  <2>1. pc[a] = "admitted" /\ \A l \in MutationLane : queue[o][l] = <<>>
    BY DEF Free
  <2> QED
    BY <2>1, PendingFacts
<1>2. /\ busy' = [busy EXCEPT ![o] = FALSE]
      /\ lanes' = [lanes EXCEPT ![s] = None]
      /\ pc' = [pc EXCEPT ![a] = "done"]
      /\ UNCHANGED <<queue, state, ticket, clock>>
  BY <1>1 DEF Free
<1>3. \A b \in Admissions : Target[b] = s /\ b # a => pc[b] \notin {"queued", "admitted"}
  <2> SUFFICES ASSUME NEW b \in Admissions, Target[b] = s, b # a,
                      pc[b] \in {"queued", "admitted"}
               PROVE  FALSE
    OBVIOUS
  <2>1. pc[b] = "queued"
    BY <1>1 DEF GateInv, SectionExclusion
  <2>2. state[b] = o
    BY <1>1 DEF GateInv, PendingInMap
  <2>3. LaneOf[b] \in MutationLane
    OBVIOUS
  <2>4. Len(queue[o][LaneOf[b]]) = 0
    BY <1>1, <2>3
  <2>5. \E i \in 1 .. Len(queue[o][LaneOf[b]]) : TRUE
    BY <2>1, <2>2 DEF GateInv, WaitersListed
  <2> QED
    BY <2>4, <2>5
<1> HIDE DEF o
<1>4. TypeOK'
  BY <1>1, <1>2 DEF GateInv, TypeOK
<1>5. SectionExclusion'
  BY <1>2 DEF GateInv, TypeOK, SectionExclusion
<1>6. PendingInMap'
  BY <1>2, <1>3 DEF GateInv, TypeOK, PendingInMap
<1>7. MapHeld'
  <2> SUFFICES ASSUME NEW t \in Sessions, t # s, lanes[t] # None
               PROVE  /\ Target[lanes[t]] = t
                      /\ pc'[lanes[t]] # "idle"
                      /\ busy'[lanes[t]]
                      /\ \E b \in Admissions : pc'[b] = "admitted" /\ Target[b] = t
    BY <1>1, <1>2 DEF GateInv, TypeOK, MapHeld
  <2>1. /\ lanes[t] \in Admissions
        /\ Target[lanes[t]] = t
        /\ pc[lanes[t]] # "idle"
        /\ busy[lanes[t]]
    BY DEF GateInv, TypeOK, MapHeld
  <2>2. PICK b \in Admissions : pc[b] = "admitted" /\ Target[b] = t
    BY DEF GateInv, MapHeld
  <2>3. lanes[t] # o /\ b # a
    BY <1>1, <2>1, <2>2
  <2> QED
    BY <1>2, <2>1, <2>2, <2>3 DEF GateInv, TypeOK
<1>8. OthersEmpty'
  BY <1>1, <1>2 DEF GateInv, TypeOK, OthersEmpty
<1>9. QueuesSorted'
  <2> SUFFICES ASSUME NEW p \in Admissions, NEW m \in MutationLane
               PROVE  Sorted(p, m)'
    BY DEF QueuesSorted
  <2> DEFINE r == queue[p][m]
  <2>1. \A i \in 1 .. Len(r) : r[i] \in Admissions
    BY DEF GateInv, TypeOK
  <2>2. Sorted(p, m)
    BY DEF GateInv, QueuesSorted
  <2>3. \A i \in 1 .. Len(r) : pc'[r[i]] = "queued"
    BY <1>1, <1>2, <2>1, <2>2 DEF Sorted, GateInv, TypeOK
  <2> QED
    BY <1>2, <2>2, <2>3 DEF Sorted
<1>10. WaitersListed'
  BY <1>2 DEF GateInv, TypeOK, WaitersListed
<1>11. TicketsGiven'
  BY <1>1, <1>2 DEF GateInv, TypeOK, TicketsGiven
<1> QED
  BY <1>4, <1>5, <1>6, <1>7, <1>8, <1>9, <1>10, <1>11 DEF GateInv

LEMMA NextKeepsGateInv == GateInv /\ [Next]_vars => GateInv'
<1> SUFFICES ASSUME GateInv, [Next]_vars PROVE GateInv'
  OBVIOUS
<1>1. ASSUME NEW a \in Admissions, AdmitNow(a) PROVE GateInv'
  BY <1>1, AdmitNowKeepsInv
<1>2. ASSUME NEW a \in Admissions, AdmitLater(a) PROVE GateInv'
  BY <1>2, AdmitLaterKeepsInv
<1>3. ASSUME NEW a \in Admissions, HandOff(a) PROVE GateInv'
  BY <1>3, HandOffKeepsInv
<1>4. ASSUME NEW a \in Admissions, Free(a) PROVE GateInv'
  BY <1>4, FreeKeepsInv
<1>5. CASE UNCHANGED vars
  BY <1>5 DEF vars, GateInv, TypeOK, SectionExclusion, PendingInMap, MapHeld,
              OthersEmpty, QueuesSorted, Sorted, WaitersListed, TicketsGiven
<1> QED
  BY <1>1, <1>2, <1>3, <1>4, <1>5 DEF Next, Dispatch

\* GateInv holds in every reachable state.
THEOREM GateInvariant == Spec => []GateInv
  BY InitGateInv, NextKeepsGateInv, PTL DEF Spec

\* The session's sections never run two at a time.
THEOREM SectionsExclude == Spec => []SectionExclusion
<1>1. GateInv => SectionExclusion
  BY DEF GateInv
<1> QED
  BY <1>1, GateInvariant, PTL

\* No waiter is forgotten.
THEOREM WaitersHeld == Spec => []NoStrandedWaiter
<1>1. GateInv => NoStrandedWaiter
  <2> USE GateAssumption DEF MutationLane
  <2> SUFFICES ASSUME GateInv, NEW a \in Admissions, pc[a] = "queued"
               PROVE  LET o == lanes[Target[a]]
                      IN  /\ o # None
                          /\ o = state[a]
                          /\ \E i \in DOMAIN queue[o][LaneOf[a]] :
                                /\ queue[o][LaneOf[a]][i] = a
                                /\ \A j \in DOMAIN queue[o][LaneOf[a]] :
                                      queue[o][LaneOf[a]][j] = a => j = i
                          /\ \E b \in Admissions : pc[b] = "admitted" /\ state[b] = o
    BY DEF NoStrandedWaiter
  <2> DEFINE o == lanes[Target[a]]
             q == queue[o][LaneOf[a]]
  <2>1. o # None /\ o = state[a] /\ o \in Admissions /\ Target[a] \in Sessions
    BY PendingFacts
  <2>2. LaneOf[a] \in MutationLane /\ q \in Seq(Admissions)
    BY <2>1 DEF GateInv, TypeOK
  <2>3. PICK i \in 1 .. Len(q) : q[i] = a
    BY <2>1 DEF GateInv, WaitersListed
  <2>4. DOMAIN q = 1 .. Len(q) /\ Len(q) \in Nat
    BY <2>2
  <2>5. \A j \in 1 .. Len(q) : q[j] = a => j = i
    <3> SUFFICES ASSUME NEW j \in 1 .. Len(q), q[j] = a, j # i
                 PROVE  FALSE
      OBVIOUS
    <3>1. i < j \/ j < i
      BY <2>4
    <3>2. ticket[a] < ticket[a]
      BY <2>1, <2>2, <2>3, <3>1 DEF GateInv, QueuesSorted, Sorted
    <3> QED
      BY <3>2 DEF GateInv, TypeOK
  <2>6. PICK b \in Admissions : pc[b] = "admitted" /\ Target[b] = Target[a]
    BY <2>1 DEF GateInv, MapHeld
  <2>7. state[b] = o
    BY <2>6 DEF GateInv, PendingInMap
  <2> QED
    BY <2>1, <2>3, <2>4, <2>5, <2>6, <2>7
<1> QED
  BY <1>1, GateInvariant, PTL

\* What admit() promises holds for any calls on any sessions.
THEOREM GateGuards == Spec => []SectionsGuarded
<1>1. SectionsGuarded <=> SectionExclusion /\ NoStrandedWaiter
  BY DEF SectionsGuarded
<1> QED
  BY <1>1, SectionsExclude, WaitersHeld, PTL

\* Lanes, queues and tickets are well-formed, for any calls on any sessions.
THEOREM GateTyped == Spec => []TypeOK
<1>1. GateInv => TypeOK
  BY DEF GateInv
<1> QED
  BY <1>1, GateInvariant, PTL

-----------------------------------------------------------------------------
(* The gate implements AdmissionOrder. *)

\* The holder of s is its one admitted call.
LEMMA HolderAtSome ==
    ASSUME NEW p, NEW a \in Admissions, Target[a] \in Sessions, p[a] = "admitted",
           \A b \in Admissions :
              p[b] = "admitted" /\ Target[b] = Target[a] => b = a
    PROVE  HolderAt(p)[Target[a]] = a
  BY DEF HolderAt

\* Nobody holds a session none of whose calls is admitted.
LEMMA HolderAtNobody ==
    ASSUME NEW p, NEW s \in Sessions,
           \A b \in Admissions : ~(p[b] = "admitted" /\ Target[b] = s)
    PROVE  HolderAt(p)[s] = None
  BY DEF HolderAt

\* Only the progress of a session's own calls decides who holds it.
LEMMA HolderAtLocal ==
    ASSUME NEW p, NEW r, NEW s \in Sessions,
           \A b \in Admissions :
              Target[b] = s => (p[b] = "admitted" <=> r[b] = "admitted"),
           \A b, c \in Admissions :
              /\ p[b] = "admitted" /\ p[c] = "admitted"
              /\ Target[b] = s /\ Target[c] = s
              => b = c
    PROVE  HolderAt(p)[s] = HolderAt(r)[s]
<1>1. CASE \E a \in Admissions : p[a] = "admitted" /\ Target[a] = s
  <2> PICK a \in Admissions : p[a] = "admitted" /\ Target[a] = s
    BY <1>1
  <2>1. HolderAt(p)[s] = a
    BY HolderAtSome
  <2>2. HolderAt(r)[s] = a
    BY HolderAtSome
  <2> QED
    BY <2>1, <2>2
<1>2. CASE ~\E a \in Admissions : p[a] = "admitted" /\ Target[a] = s
  <2>1. HolderAt(p)[s] = None
    BY <1>2, HolderAtNobody
  <2>2. HolderAt(r)[s] = None
    BY <1>2, HolderAtNobody
  <2> QED
    BY <2>1, <2>2
<1> QED
  BY <1>1, <1>2

\* Who waits, in the specification's sense, is who is queued.
LEMMA WaitingIsQueued ==
    ASSUME GateInv, NEW s \in Sessions, NEW c \in Order!Waiting(s)
    PROVE  c \in Admissions /\ Target[c] = s /\ pc[c] = "queued"
<1>1. /\ c \in Admissions
      /\ Target[c] = s
      /\ ticket[c] # 0
      /\ pc[c] # "done"
      /\ HolderAt(pc)[s] # c
  BY DEF Order!Waiting, Served
<1>2. pc[c] # "idle"
  BY <1>1 DEF GateInv, TicketsGiven
<1>3. pc[c] # "admitted"
  BY <1>1, HolderAtSome DEF GateInv, SectionExclusion
<1> QED
  BY <1>1, <1>2, <1>3 DEF GateInv, TypeOK

LEMMA AdmitNowArrives ==
    ASSUME GateInv, NEW a \in Admissions, AdmitNow(a)
    PROVE  Order!Arrive(a)
<1> DEFINE s == Target[a]
<1> USE GateAssumption
<1>1. s \in Sessions /\ lanes[s] = None /\ pc[a] = "idle"
  BY DEF GateInv, TypeOK, MapHeld, AdmitNow, Enter, LaneFor
<1>2. \A b \in Admissions : ~(pc[b] = "admitted" /\ Target[b] = s)
  BY <1>1 DEF GateInv, PendingInMap
<1>3. \A b \in Admissions : pc'[b] = IF b = a THEN "admitted" ELSE pc[b]
  BY DEF AdmitNow, GateInv, TypeOK
<1>4. HolderAt(pc)[s] = None
  BY <1>1, <1>2, HolderAtNobody
<1>5. HolderAt(pc')[s] = a
  BY <1>1, <1>2, <1>3, HolderAtSome
<1>6. \A t \in Sessions : t # s => HolderAt(pc)[t] = HolderAt(pc')[t]
  BY <1>3, HolderAtLocal DEF GateInv, SectionExclusion
<1>7. HolderAt(pc') = [HolderAt(pc) EXCEPT ![s] = IF @ = None THEN a ELSE @]
  BY <1>1, <1>4, <1>5, <1>6 DEF HolderAt
<1>8. Served' = Served
  BY <1>1, <1>3 DEF Served
<1>9. /\ ticket[a] = 0
      /\ clock' = clock + 1
      /\ ticket' = [ticket EXCEPT ![a] = clock + 1]
  BY <1>1 DEF AdmitNow, Enter, GateInv, TicketsGiven
<1> QED
  BY <1>7, <1>8, <1>9 DEF Order!Arrive

LEMMA AdmitLaterArrives ==
    ASSUME GateInv, NEW a \in Admissions, AdmitLater(a)
    PROVE  Order!Arrive(a)
<1> DEFINE s == Target[a]
<1> USE GateAssumption
<1>1. s \in Sessions /\ pc[a] = "idle" /\ busy[LaneFor(a)]
  BY DEF AdmitLater, Enter
<1>2. lanes[s] # None
  BY <1>1 DEF GateInv, OthersEmpty, LaneFor
<1>3. PICK b \in Admissions : pc[b] = "admitted" /\ Target[b] = s
  BY <1>1, <1>2 DEF GateInv, MapHeld
<1>4. \A c \in Admissions : pc'[c] = IF c = a THEN "queued" ELSE pc[c]
  BY DEF AdmitLater, GateInv, TypeOK
<1>5. HolderAt(pc)[s] = b /\ b # None
  BY <1>1, <1>3, HolderAtSome DEF GateInv, SectionExclusion
<1>6. \A t \in Sessions : HolderAt(pc)[t] = HolderAt(pc')[t]
  <2> SUFFICES ASSUME NEW t \in Sessions
               PROVE  HolderAt(pc)[t] = HolderAt(pc')[t]
    OBVIOUS
  <2>1. \A c \in Admissions :
           Target[c] = t => (pc[c] = "admitted" <=> pc'[c] = "admitted")
    BY <1>1, <1>4
  <2>2. \A d, c \in Admissions :
           pc[d] = "admitted" /\ pc[c] = "admitted" /\ Target[d] = Target[c] => d = c
    BY DEF GateInv, SectionExclusion
  <2> QED
    BY <2>1, <2>2, HolderAtLocal
<1>7. HolderAt(pc') = [HolderAt(pc) EXCEPT ![s] = IF @ = None THEN a ELSE @]
  <2> DEFINE h == HolderAt(pc)
             k == HolderAt(pc')
  <2>1. DOMAIN h = Sessions /\ DOMAIN k = Sessions /\ h = [t \in Sessions |-> h[t]]
        /\ k = [t \in Sessions |-> k[t]]
    BY DEF HolderAt
  <2>2. h[s] # None /\ \A t \in Sessions : h[t] = k[t]
    BY <1>5, <1>6
  <2> HIDE DEF h, k
  <2>3. k = h
    BY <2>1, <2>2
  <2>4. k = [h EXCEPT ![s] = IF @ = None THEN a ELSE @]
    BY <2>1, <2>2, <2>3
  <2> QED
    BY <2>4 DEF h, k
<1>8. Served' = Served
  BY <1>1, <1>4 DEF Served
<1>9. /\ ticket[a] = 0
      /\ clock' = clock + 1
      /\ ticket' = [ticket EXCEPT ![a] = clock + 1]
  BY <1>1 DEF AdmitLater, Enter, GateInv, TicketsGiven
<1> QED
  BY <1>7, <1>8, <1>9 DEF Order!Arrive

\* The head of the list release() shifts precedes everybody who waits.
LEMMA HandOffReturns ==
    ASSUME GateInv, NEW a \in Admissions, HandOff(a)
    PROVE  Order!Return(Target[a])
<1> DEFINE s == Target[a]
           o == state[a]
           l == NextLane(o)
           q == queue[o][l]
           h == Head(q)
<1> USE GateAssumption DEF MutationLane
<1>1. pc[a] = "admitted" /\ q # <<>>
  BY DEF HandOff
<1>2. s \in Sessions /\ o \in Admissions /\ o = lanes[s] /\ Target[o] = s
  BY <1>1, PendingFacts
<1>3. l \in MutationLane /\ q \in Seq(Admissions)
  BY <1>2 DEF NextLane, GateInv, TypeOK
<1>4. h = q[1] /\ 1 \in 1 .. Len(q) /\ h \in Admissions
  BY <1>1, <1>3
<1>5. pc[h] = "queued" /\ LaneOf[h] = l /\ state[h] = o
  BY <1>2, <1>3, <1>4 DEF GateInv, QueuesSorted, Sorted
<1>6. h # a /\ Target[h] = s
  BY <1>1, <1>2, <1>4, <1>5, PendingFacts
<1>7. \A b \in Admissions :
         pc'[b] = IF b = h THEN "admitted" ELSE IF b = a THEN "done" ELSE pc[b]
  BY <1>4, <1>6 DEF HandOff, GateInv, TypeOK
<1>8. HolderAt(pc)[s] = a
  BY <1>1, <1>2, HolderAtSome DEF GateInv, SectionExclusion
<1> HIDE DEF h, q, l
<1>9. HolderAt(pc')[s] = h
  <2>1. \A b \in Admissions : pc'[b] = "admitted" /\ Target[b] = s => b = h
    BY <1>1, <1>7 DEF GateInv, SectionExclusion
  <2> QED
    BY <1>2, <1>4, <1>6, <1>7, <2>1, HolderAtSome
<1>10. \A t \in Sessions : t # s => HolderAt(pc)[t] = HolderAt(pc')[t]
  <2> SUFFICES ASSUME NEW t \in Sessions, t # s
               PROVE  HolderAt(pc)[t] = HolderAt(pc')[t]
    OBVIOUS
  <2>1. \A c \in Admissions :
           Target[c] = t => (pc[c] = "admitted" <=> pc'[c] = "admitted")
    BY <1>6, <1>7
  <2>2. \A b, c \in Admissions :
           pc[b] = "admitted" /\ pc[c] = "admitted" /\ Target[b] = Target[c] => b = c
    BY DEF GateInv, SectionExclusion
  <2> QED
    BY <2>1, <2>2, HolderAtLocal
<1>11. HolderAt(pc') = [HolderAt(pc) EXCEPT ![s] = h]
  <2>1. \A t \in Sessions : HolderAt(pc')[t] = IF t = s THEN h ELSE HolderAt(pc)[t]
    BY <1>9, <1>10
  <2> DEFINE F == HolderAt(pc)
             G == HolderAt(pc')
  <2>2. F = [t \in Sessions |-> F[t]] /\ G = [t \in Sessions |-> G[t]]
    BY DEF HolderAt
  <2> HIDE DEF F, G
  <2>3. G = [F EXCEPT ![s] = h]
    BY <1>2, <2>1, <2>2 DEF F, G
  <2> QED
    BY <2>3 DEF F, G
<1>12. Served' = Served \cup {HolderAt(pc)[s]}
  BY <1>1, <1>4, <1>5, <1>7, <1>8 DEF Served
<1>13. h \in Order!Waiting(s)
  BY <1>4, <1>5, <1>6, <1>8 DEF Order!Waiting, Served, GateInv, TicketsGiven
<1>14. \A c \in Order!Waiting(s) \ {h} : Order!Precedes(h, c)
  <2> SUFFICES ASSUME NEW c \in Order!Waiting(s), c # h
               PROVE  Order!Precedes(h, c)
    OBVIOUS
  <2>1. c \in Admissions /\ Target[c] = s /\ pc[c] = "queued"
    BY <1>2, WaitingIsQueued
  <2>2. state[c] = o /\ LaneOf[c] \in MutationLane
    BY <1>2, <2>1, PendingFacts
  <2>3. PICK i \in 1 .. Len(queue[o][LaneOf[c]]) : queue[o][LaneOf[c]][i] = c
    BY <2>1, <2>2 DEF GateInv, WaitersListed
  <2>4. CASE LaneOf[c] = l
    <3>1. i \in 1 .. Len(q) /\ q[i] = c
      BY <2>3, <2>4 DEF q
    <3>2. 1 < i
      BY <1>4, <2>1, <3>1
    <3>3. ticket[q[1]] < ticket[q[i]]
      BY <1>2, <1>3, <1>4, <3>1, <3>2 DEF GateInv, QueuesSorted, Sorted, q
    <3> QED
      BY <1>4, <1>5, <2>4, <3>1, <3>3 DEF Order!Precedes
  <2>5. CASE LaneOf[c] # l
    <3>1. queue[o]["control"] # <<>> \/ l = "normal"
      BY DEF l, NextLane
    <3>2. l = "normal" => queue[o]["control"] = <<>>
      BY DEF l, NextLane
    <3>3. LaneOf[c] # "control" \/ l = "control"
      BY <1>3, <2>3, <3>2
    <3> QED
      BY <1>3, <1>5, <2>2, <2>5, <3>3 DEF Order!Precedes
  <2> QED
    BY <2>4, <2>5
<1>15. HolderAt(pc)[s] # None /\ UNCHANGED <<ticket, clock>>
  BY <1>8 DEF HandOff
<1> QED
  BY <1>11, <1>12, <1>13, <1>14, <1>15 DEF Order!Return

LEMMA FreeReturns ==
    ASSUME GateInv, NEW a \in Admissions, Free(a)
    PROVE  Order!Return(Target[a])
<1> DEFINE s == Target[a]
           o == state[a]
<1> USE GateAssumption DEF MutationLane
<1>1. pc[a] = "admitted" /\ \A l \in MutationLane : queue[o][l] = <<>>
  BY DEF Free
<1>2. s \in Sessions /\ o \in Admissions /\ o = lanes[s]
  BY <1>1, PendingFacts
<1>3. \A b \in Admissions : pc'[b] = IF b = a THEN "done" ELSE pc[b]
  BY DEF Free, GateInv, TypeOK
<1>4. HolderAt(pc)[s] = a
  BY <1>1, <1>2, HolderAtSome DEF GateInv, SectionExclusion
<1>5. HolderAt(pc')[s] = None
  BY <1>1, <1>2, <1>3, HolderAtNobody DEF GateInv, SectionExclusion
<1>6. \A t \in Sessions : t # s => HolderAt(pc)[t] = HolderAt(pc')[t]
  BY <1>3, HolderAtLocal DEF GateInv, SectionExclusion
<1>7. HolderAt(pc') = [HolderAt(pc) EXCEPT ![s] = None]
  BY <1>2, <1>5, <1>6 DEF HolderAt
<1>8. Served' = Served \cup {HolderAt(pc)[s]}
  BY <1>1, <1>3, <1>4 DEF Served
<1>9. Order!Waiting(s) = {}
  <2> SUFFICES ASSUME NEW c \in Order!Waiting(s) PROVE FALSE
    OBVIOUS
  <2>1. c \in Admissions /\ Target[c] = s /\ pc[c] = "queued"
    BY <1>2, WaitingIsQueued
  <2>2. state[c] = o /\ LaneOf[c] \in MutationLane
    BY <1>2, <2>1, PendingFacts
  <2>3. PICK i \in 1 .. Len(queue[o][LaneOf[c]]) : TRUE
    BY <2>1, <2>2 DEF GateInv, WaitersListed
  <2>4. Len(queue[o][LaneOf[c]]) = 0
    BY <1>1, <2>2
  <2> QED
    BY <2>3, <2>4
<1>10. HolderAt(pc)[s] # None /\ UNCHANGED <<ticket, clock>>
  BY <1>4 DEF Free
<1> QED
  BY <1>7, <1>8, <1>9, <1>10 DEF Order!Return

\* Control before normal, then arrival order, and the gate never idles while an
\* admission waits.
THEOREM GateImplementsOrder == Spec => AdmissionsInOrder
<1> USE GateAssumption
<1>1. Init => Order!Init
  <2> SUFFICES ASSUME Init PROVE Order!Init
    OBVIOUS
  <2>1. \A s \in Sessions : HolderAt(pc)[s] = None
    BY HolderAtNobody DEF Init
  <2>2. HolderAt(pc) = [s \in Sessions |-> None]
    BY <2>1 DEF HolderAt
  <2>3. Served = {}
    BY DEF Served, Init
  <2> QED
    BY <2>2, <2>3 DEF Init, Order!Init
<1>2. GateInv /\ [Next]_vars => [Order!Next]_(Order!vars)
  <2> SUFFICES ASSUME GateInv, [Next]_vars
               PROVE  [Order!Next]_(Order!vars)
    OBVIOUS
  <2>1. ASSUME NEW a \in Admissions, AdmitNow(a) PROVE Order!Next
    BY <2>1, AdmitNowArrives DEF Order!Next
  <2>2. ASSUME NEW a \in Admissions, AdmitLater(a) PROVE Order!Next
    BY <2>2, AdmitLaterArrives DEF Order!Next
  <2>3. ASSUME NEW a \in Admissions, Dispatch(a) PROVE Order!Next
    <3>1. Target[a] \in Sessions
      OBVIOUS
    <3> QED
      BY <2>3, <3>1, HandOffReturns, FreeReturns DEF Dispatch, Order!Next
  <2>4. CASE UNCHANGED vars
    BY <2>4 DEF vars, Order!vars, HolderAt, Served
  <2> QED
    BY <2>1, <2>2, <2>3, <2>4 DEF Next
<1> QED
  BY <1>1, <1>2, GateInvariant, PTL DEF Spec, AdmissionsInOrder, Order!Spec

-----------------------------------------------------------------------------
(* The foreground slot.                                                    *)

\* The line holds the waiting claims and each of them once, and nobody in it
\* came after one that stands behind it.
LineOK ==
    /\ \A i \in 1 .. Len(waiters) : progress[waiters[i]] = "waiting"
    /\ \A i, j \in 1 .. Len(waiters) :
          i < j => /\ waiters[i] # waiters[j]
                   /\ waiters[j] \notin ahead[waiters[i]]
    /\ \A c \in Claims :
          progress[c] = "waiting" => \E i \in 1 .. Len(waiters) : waiters[i] = c

\* Before close() at most one claim is on its way to the slot, and everybody
\* that was in line when it came has gone.
WokenOK ==
    /\ closed => waiters = <<>>
    /\ ~closed =>
          \A c \in Claims : progress[c] = "woken" =>
              /\ ahead[c] \cap InLine = {}
              /\ \A d \in Claims : progress[d] = "woken" => d = c

\* Nobody came after a claim that was not made yet.
AheadMade == \A c, d \in Claims : c \in ahead[d] => progress[c] # "idle"

\* Nobody is ahead of itself.
AheadOthers == \A c \in Claims : c \notin ahead[c]

SlotInv ==
    /\ SlotTypeOK
    /\ OneOperation
    /\ SlotNeverStranded
    /\ ArrivalOrder
    /\ LineOK
    /\ WokenOK
    /\ AheadMade
    /\ AheadOthers

-----------------------------------------------------------------------------
LEMMA InitSlotInv == SlotInit => SlotInv
<1> SUFFICES ASSUME SlotInit PROVE SlotInv
  OBVIOUS
<1> USE ClaimAssumption DEF SlotInit
<1>1. SlotTypeOK
  <2>1. granted \in BOOLEAN /\ closed \in BOOLEAN
    OBVIOUS
  <2>5. waiters \in Seq(Claims)
    OBVIOUS
  <2>2. current \in Claims \cup {Nobody} /\ aborted \in SUBSET Claims
    OBVIOUS
  <2>3. progress \in [Claims -> Progress]
    BY DEF Progress
  <2>4. store \in [Claims -> Claims \cup {Nobody}] /\ ahead \in [Claims -> SUBSET Claims]
    OBVIOUS
  <2> QED
    BY <2>1, <2>2, <2>3, <2>4, <2>5 DEF SlotTypeOK
<1>2. OneOperation /\ ArrivalOrder
  <2>1. Occupants = {}
    BY DEF Occupants
  <2> QED
    BY <2>1 DEF OneOperation, ArrivalOrder
<1>6. SlotNeverStranded
  BY DEF SlotNeverStranded
<1>3. Len(waiters) = 0
  OBVIOUS
<1>4. LineOK
  BY <1>3 DEF LineOK
<1>5. WokenOK /\ AheadMade /\ AheadOthers
  BY DEF WokenOK, AheadMade, AheadOthers
<1> QED
  BY <1>1, <1>2, <1>4, <1>5, <1>6 DEF SlotInv

\* What a new call changes when it neither waits nor takes the slot.
LEMMA PassingCallKeepsInv ==
    ASSUME SlotInv, NEW c \in Claims, NEW context \in Claims \cup {Nobody},
           Refuse(c, context) \/ Nest(c, context)
    PROVE  SlotInv'
<1>1. /\ progress[c] = "idle"
      /\ ahead' = [ahead EXCEPT ![c] = InLine]
      /\ store' = [store EXCEPT ![c] = context]
      /\ \A d \in Claims : d # c => progress'[d] = progress[d]
      /\ progress' \in [Claims -> Progress]
      /\ progress'[c] \in {"refused", "nested"}
      /\ UNCHANGED <<current, aborted, waiters, granted, closed>>
  BY DEF Refuse, Nest, Call, SlotInv, SlotTypeOK, Progress
<1>2. InLine' = InLine /\ Occupants' = Occupants
  BY <1>1 DEF InLine, Occupants
<1>3. SlotTypeOK'
  BY <1>1 DEF SlotInv, SlotTypeOK, InLine
<1>4. OneOperation'
  BY <1>1, <1>2 DEF SlotInv, OneOperation
<1>5. SlotNeverStranded'
  BY <1>1 DEF SlotInv, SlotNeverStranded, Taken
<1>6. ArrivalOrder'
  BY <1>1, <1>2 DEF SlotInv, SlotTypeOK, ArrivalOrder, Occupants
<1>7. LineOK'
  <2>1. \A i \in 1 .. Len(waiters) : waiters[i] # c /\ waiters[i] \in Claims
    BY <1>1 DEF SlotInv, SlotTypeOK, LineOK
  <2> QED
    BY <1>1, <2>1 DEF SlotInv, SlotTypeOK, LineOK
<1>8. WokenOK'
  BY <1>1, <1>2 DEF SlotInv, SlotTypeOK, WokenOK
<1>9. AheadMade' /\ AheadOthers'
  BY <1>1 DEF SlotInv, SlotTypeOK, AheadMade, AheadOthers, InLine
<1> QED
  BY <1>3, <1>4, <1>5, <1>6, <1>7, <1>8, <1>9 DEF SlotInv

\* A waiting call joins the end of the line.
LEMMA WaitKeepsInv ==
    ASSUME SlotInv, NEW c \in Claims, NEW context \in Claims \cup {Nobody},
           Wait(c, context)
    PROVE  SlotInv'
<1>1. /\ progress[c] = "idle"
      /\ ~closed
      /\ Taken
      /\ waiters' = Append(waiters, c)
      /\ ahead' = [ahead EXCEPT ![c] = InLine]
      /\ store' = [store EXCEPT ![c] = context]
      /\ progress' = [progress EXCEPT ![c] = "waiting"]
      /\ UNCHANGED <<current, aborted, granted, closed>>
  BY DEF Wait, Call
<1>2. Occupants' = Occupants /\ InLine' = InLine \cup {c}
  BY <1>1 DEF InLine, Occupants, SlotInv, SlotTypeOK
<1>3. SlotTypeOK'
  BY <1>1 DEF SlotInv, SlotTypeOK, InLine, Progress
<1>4. OneOperation'
  BY <1>1, <1>2 DEF SlotInv, OneOperation
<1>5. SlotNeverStranded'
  BY <1>1 DEF SlotInv, SlotTypeOK, SlotNeverStranded, Taken
<1>6. \A d \in Claims : c \notin ahead[d]
  BY <1>1 DEF SlotInv, AheadMade
<1>7. ArrivalOrder'
  BY <1>1, <1>2, <1>6 DEF SlotInv, SlotTypeOK, ArrivalOrder, Occupants
<1>8. LineOK'
  <2> DEFINE r == Append(waiters, c)
  <2>1. /\ waiters \in Seq(Claims)
        /\ Len(waiters) \in Nat
        /\ Len(r) = Len(waiters) + 1
        /\ \A i \in 1 .. Len(waiters) : r[i] = waiters[i]
        /\ r[Len(waiters) + 1] = c
    BY DEF SlotInv, SlotTypeOK
  <2>2. \A i \in 1 .. Len(waiters) :
           waiters[i] \in Claims /\ waiters[i] # c /\ progress[waiters[i]] = "waiting"
    BY <1>1, <2>1 DEF SlotInv, LineOK
  <2> HIDE DEF r
  <2>3. \A i \in 1 .. Len(r) : i \in 1 .. Len(waiters) \/ i = Len(waiters) + 1
    BY <2>1
  <2>4. \A i \in 1 .. Len(r) : progress'[r[i]] = "waiting"
    BY <1>1, <2>1, <2>2, <2>3 DEF SlotInv, SlotTypeOK
  <2>5. ASSUME NEW i \in 1 .. Len(r), NEW j \in 1 .. Len(r), i < j
        PROVE  r[i] # r[j] /\ r[j] \notin ahead'[r[i]]
    <3>1. i \in 1 .. Len(waiters) /\ r[i] = waiters[i]
      BY <2>1, <2>3, <2>5
    <3>2. waiters[i] # c /\ waiters[i] \in Claims /\ ahead'[waiters[i]] = ahead[waiters[i]]
      BY <1>1, <2>2, <3>1 DEF SlotInv, SlotTypeOK
    <3>3. CASE j = Len(waiters) + 1
      BY <1>6, <2>1, <3>1, <3>2, <3>3
    <3>4. CASE j \in 1 .. Len(waiters)
      BY <2>1, <2>5, <3>1, <3>2, <3>4 DEF SlotInv, LineOK
    <3> QED
      BY <2>3, <3>3, <3>4
  <2>6. ASSUME NEW d \in Claims, progress'[d] = "waiting"
        PROVE  \E i \in 1 .. Len(r) : r[i] = d
    <3>1. CASE d = c
      BY <2>1, <3>1
    <3>2. CASE d # c
      <4>1. progress[d] = "waiting"
        BY <1>1, <2>6, <3>2 DEF SlotInv, SlotTypeOK
      <4>2. PICK i \in 1 .. Len(waiters) : waiters[i] = d
        BY <4>1 DEF SlotInv, LineOK
      <4> QED
        BY <2>1, <4>2
    <3> QED
      BY <3>1, <3>2
  <2> QED
    BY <1>1, <2>4, <2>5, <2>6 DEF LineOK, r
<1>9. WokenOK'
  BY <1>1, <1>2, <1>6 DEF SlotInv, SlotTypeOK, WokenOK
<1>10. AheadMade' /\ AheadOthers'
  BY <1>1 DEF SlotInv, SlotTypeOK, AheadMade, AheadOthers, InLine
<1> QED
  BY <1>3, <1>4, <1>5, <1>7, <1>8, <1>9, <1>10 DEF SlotInv

\* A call that finds the slot free and not promised takes it past nobody.
LEMMA BeginKeepsInv ==
    ASSUME SlotInv, NEW c \in Claims, NEW context \in Claims \cup {Nobody},
           Begin(c, context)
    PROVE  SlotInv'
<1>1. /\ progress[c] = "idle"
      /\ ~closed
      /\ ~Taken
      /\ current' = c
      /\ ahead' = [ahead EXCEPT ![c] = InLine]
      /\ store' = [store EXCEPT ![c] = context]
      /\ progress' = [progress EXCEPT ![c] = "begun"]
      /\ UNCHANGED <<aborted, waiters, granted, closed>>
  BY DEF Begin, Call, Occupy
<1>2. InLine = {}
  <2>1. waiters = <<>> /\ ~granted
    BY <1>1 DEF SlotInv, SlotNeverStranded, Taken
  <2>2. \A d \in Claims : progress[d] # "woken"
    BY <1>1, <2>1 DEF SlotInv, SlotNeverStranded
  <2>3. \A d \in Claims : progress[d] # "waiting"
    BY <2>1 DEF SlotInv, LineOK
  <2> QED
    BY <2>2, <2>3 DEF InLine
<1>3. InLine' = {}
  BY <1>1, <1>2 DEF InLine, SlotInv, SlotTypeOK
<1>4. current = Nobody /\ Occupants = {}
  BY <1>1 DEF Taken, SlotInv, OneOperation
<1>5. Occupants' = {c}
  BY <1>1, <1>4 DEF Occupants, SlotInv, SlotTypeOK
<1>6. SlotTypeOK'
  BY <1>1 DEF SlotInv, SlotTypeOK, InLine, Progress
<1>7. OneOperation'
  BY <1>1, <1>5, ClaimAssumption DEF OneOperation
<1>8. SlotNeverStranded'
  BY <1>1 DEF SlotInv, SlotTypeOK, SlotNeverStranded, Taken
<1>9. ArrivalOrder'
  BY <1>3 DEF ArrivalOrder
<1>10. waiters = <<>>
  BY <1>1 DEF SlotInv, SlotNeverStranded, Taken
<1>11. LineOK' /\ WokenOK'
  BY <1>1, <1>2, <1>3, <1>10 DEF LineOK, WokenOK, InLine
<1>12. AheadMade' /\ AheadOthers'
  BY <1>1, <1>2 DEF SlotInv, SlotTypeOK, AheadMade, AheadOthers
<1> QED
  BY <1>6, <1>7, <1>8, <1>9, <1>11, <1>12 DEF SlotInv

\* The claim the slot was promised to takes it, or finds the slot closed.
LEMMA ResumeKeepsInv ==
    ASSUME SlotInv, NEW c \in Claims, Resume(c)
    PROVE  SlotInv'
<1>1. /\ progress[c] = "woken"
      /\ granted' = FALSE
      /\ UNCHANGED <<aborted, waiters, closed, store, ahead>>
  BY DEF Resume
<1>2. CASE closed
  <2>1. progress' = [progress EXCEPT ![c] = "refused"] /\ current' = current /\ waiters = <<>>
    BY <1>2 DEF Resume, SlotInv, WokenOK
  <2>2. Occupants' = Occupants /\ InLine' = InLine \ {c}
    BY <1>1, <2>1 DEF Occupants, InLine, SlotInv, SlotTypeOK
  <2>3. SlotTypeOK'
    BY <1>1, <2>1 DEF SlotInv, SlotTypeOK, Progress
  <2>4. OneOperation' /\ ArrivalOrder'
    BY <1>1, <2>1, <2>2 DEF SlotInv, OneOperation, ArrivalOrder
  <2>5. SlotNeverStranded' /\ WokenOK'
    BY <1>1, <1>2, <2>1 DEF SlotNeverStranded, WokenOK
  <2>6. Len(waiters) = 0
    BY <2>1
  <2>7. LineOK'
    BY <1>1, <2>1, <2>6 DEF SlotInv, SlotTypeOK, LineOK
  <2>8. AheadMade' /\ AheadOthers'
    BY <1>1, <2>1 DEF SlotInv, SlotTypeOK, AheadMade, AheadOthers
  <2> QED
    BY <2>3, <2>4, <2>5, <2>7, <2>8 DEF SlotInv
<1>3. CASE ~closed
  <2>1. progress' = [progress EXCEPT ![c] = "begun"] /\ current' = c
    BY <1>3 DEF Resume, Occupy
  <2>2. granted /\ current = Nobody
    BY <1>1, <1>3 DEF SlotInv, SlotNeverStranded
  <2>3. Occupants' = {c} /\ InLine' = InLine \ {c}
    BY <1>1, <2>1, <2>2 DEF Occupants, InLine, SlotInv, SlotTypeOK, OneOperation
  <2>4. /\ ahead[c] \cap InLine = {}
        /\ \A d \in Claims : progress[d] = "woken" => d = c
    BY <1>1, <1>3 DEF SlotInv, WokenOK
  <2>5. SlotTypeOK'
    BY <1>1, <2>1 DEF SlotInv, SlotTypeOK, Progress
  <2>6. OneOperation'
    BY <2>1, <2>3, ClaimAssumption DEF OneOperation
  <2>7. ArrivalOrder'
    BY <1>1, <2>3, <2>4 DEF ArrivalOrder
  <2>8. \A d \in Claims : progress'[d] # "woken"
    BY <2>1, <2>4 DEF SlotInv, SlotTypeOK
  <2>9. SlotNeverStranded'
    BY <1>1, <2>1, <2>8, ClaimAssumption DEF SlotNeverStranded, Taken
  <2>10. WokenOK'
    BY <1>1, <1>3, <2>8 DEF WokenOK
  <2>11. LineOK'
    <3>1. \A i \in 1 .. Len(waiters) : waiters[i] \in Claims /\ waiters[i] # c
      BY <1>1 DEF SlotInv, SlotTypeOK, LineOK
    <3> QED
      BY <1>1, <2>1, <3>1 DEF SlotInv, SlotTypeOK, LineOK
  <2>12. AheadMade' /\ AheadOthers'
    BY <1>1, <2>1 DEF SlotInv, SlotTypeOK, AheadMade, AheadOthers
  <2> QED
    BY <2>5, <2>6, <2>7, <2>9, <2>10, <2>11, <2>12 DEF SlotInv
<1> QED
  BY <1>2, <1>3

\* The occupant leaves; the first in line, if any, is on its way.
LEMMA EndKeepsInv ==
    ASSUME SlotInv, NEW c \in Claims, NEW outcome \in {"settled", "refused"},
           progress[c] \in {"begun", "running"}, End(c, outcome)
    PROVE  SlotInv'
<1>1. /\ current' = Nobody
      /\ granted' = (waiters # <<>>)
      /\ UNCHANGED <<aborted, closed, store, ahead>>
  BY DEF End
<1>2. current = c /\ Occupants = {c}
  <2>1. c \in Occupants
    BY DEF Occupants
  <2> QED
    BY <2>1 DEF SlotInv, OneOperation
<1>3. \A d \in Claims : ~closed => progress[d] # "woken"
  BY <1>2, ClaimAssumption DEF SlotInv, SlotNeverStranded
<1>4. CASE waiters = <<>>
  <2>1. progress' = [progress EXCEPT ![c] = outcome] /\ waiters' = waiters /\ granted' = FALSE
    BY <1>1, <1>4 DEF End
  <2>2. Occupants' = {} /\ InLine' = InLine
    BY <1>2, <2>1 DEF Occupants, InLine, SlotInv, SlotTypeOK
  <2>3. SlotTypeOK'
    BY <1>1, <2>1 DEF SlotInv, SlotTypeOK, Progress
  <2>4. OneOperation' /\ ArrivalOrder'
    BY <1>1, <2>2 DEF OneOperation, ArrivalOrder
  <2>5. SlotNeverStranded' /\ WokenOK'
    BY <1>1, <1>3, <1>4, <2>1 DEF SlotNeverStranded, WokenOK, SlotInv, SlotTypeOK
  <2>6. LineOK'
    <3>1. Len(waiters) = 0
      BY <1>4
    <3> QED
      BY <1>1, <2>1, <3>1 DEF SlotInv, SlotTypeOK, LineOK
  <2>7. AheadMade' /\ AheadOthers'
    BY <1>1, <2>1 DEF SlotInv, SlotTypeOK, AheadMade, AheadOthers
  <2> QED
    BY <2>3, <2>4, <2>5, <2>6, <2>7 DEF SlotInv
<1>5. CASE waiters # <<>>
  <2> DEFINE h == Head(waiters)
             r == Tail(waiters)
  <2>1. /\ progress' = [progress EXCEPT ![c] = outcome, ![h] = "woken"]
        /\ waiters' = r
        /\ granted' = TRUE
    BY <1>1, <1>5 DEF End
  <2>2. /\ waiters \in Seq(Claims)
        /\ h = waiters[1]
        /\ 1 \in 1 .. Len(waiters)
        /\ Len(waiters) \in Nat
        /\ r \in Seq(Claims)
        /\ Len(r) = Len(waiters) - 1
        /\ \A i \in 1 .. Len(waiters) - 1 : r[i] = waiters[i + 1]
    BY <1>5 DEF SlotInv, SlotTypeOK
  <2> HIDE DEF h, r
  <2>3. h \in Claims /\ progress[h] = "waiting" /\ h # c
    BY <2>2 DEF SlotInv, LineOK
  <2>4. ~closed
    BY <1>5 DEF SlotInv, WokenOK
  <2>5. \A d \in Claims :
           progress'[d] = IF d = h THEN "woken" ELSE IF d = c THEN outcome ELSE progress[d]
    BY <2>1, <2>3 DEF SlotInv, SlotTypeOK
  <2>6. Occupants' = {} /\ InLine' = InLine
    <3>1. \A d \in Claims : d # c => progress[d] \notin {"begun", "running"}
      BY <1>2 DEF Occupants
    <3> QED
      BY <2>3, <2>5, <3>1 DEF Occupants, InLine
  <2>7. SlotTypeOK'
    BY <1>1, <2>1, <2>2, <2>3 DEF SlotInv, SlotTypeOK, Progress
  <2>8. OneOperation' /\ ArrivalOrder'
    BY <1>1, <2>6 DEF OneOperation, ArrivalOrder
  <2>9. SlotNeverStranded'
    BY <1>1, <2>1, <2>3, <2>5 DEF SlotNeverStranded, Taken
  <2>10. \A i \in 1 .. Len(waiters) - 1 :
            /\ i + 1 \in 1 .. Len(waiters)
            /\ waiters[i + 1] \in Claims
            /\ waiters[i + 1] # h
            /\ waiters[i + 1] # c
            /\ waiters[i + 1] \notin ahead[h]
            /\ progress[waiters[i + 1]] = "waiting"
    <3> SUFFICES ASSUME NEW i \in 1 .. Len(waiters) - 1
                 PROVE  /\ i + 1 \in 1 .. Len(waiters)
                        /\ waiters[i + 1] \in Claims
                        /\ waiters[i + 1] # h
                        /\ waiters[i + 1] # c
                        /\ waiters[i + 1] \notin ahead[h]
                        /\ progress[waiters[i + 1]] = "waiting"
      OBVIOUS
    <3>1. i + 1 \in 1 .. Len(waiters) /\ 1 < i + 1
      BY <2>2
    <3>2. progress[waiters[i + 1]] = "waiting" /\ waiters[i + 1] \in Claims
      BY <2>2, <3>1 DEF SlotInv, LineOK
    <3>3. waiters[1] # waiters[i + 1] /\ waiters[i + 1] \notin ahead[waiters[1]]
      BY <2>2, <3>1 DEF SlotInv, LineOK
    <3> QED
      BY <2>2, <3>1, <3>2, <3>3
  <2>11. \A d \in Claims : progress[d] = "waiting" => d = h \/ d \notin ahead[h]
    <3> SUFFICES ASSUME NEW d \in Claims, progress[d] = "waiting", d # h
                 PROVE  d \notin ahead[h]
      OBVIOUS
    <3>1. PICK i \in 1 .. Len(waiters) : waiters[i] = d
      BY DEF SlotInv, LineOK
    <3>2. i # 1
      BY <2>2, <3>1
    <3>3. i - 1 \in 1 .. Len(waiters) - 1 /\ (i - 1) + 1 = i
      BY <2>2, <3>2
    <3> QED
      BY <2>10, <3>1, <3>3
  <2>12. WokenOK'
    <3>1. \A d \in Claims : progress'[d] = "woken" => d = h
      BY <1>3, <2>4, <2>5
    <3>2. ahead[h] \cap InLine = {}
      <4>1. h \notin ahead[h]
        BY <2>3 DEF SlotInv, AheadOthers
      <4>2. \A d \in InLine : d \in Claims /\ progress[d] = "waiting"
        BY <1>3, <2>4 DEF InLine
      <4> QED
        BY <2>11, <4>1, <4>2
    <3> QED
      BY <1>1, <2>4, <2>6, <3>1, <3>2 DEF WokenOK
  <2>13. LineOK'
    <3>1. \A i \in 1 .. Len(r) : progress'[r[i]] = "waiting"
      <4> TAKE i \in 1 .. Len(r)
      <4>1. i \in 1 .. Len(waiters) - 1 /\ r[i] = waiters[i + 1]
        BY <2>2
      <4> QED
        BY <4>1, <2>5, <2>10
    <3>2. ASSUME NEW i \in 1 .. Len(r), NEW j \in 1 .. Len(r), i < j
          PROVE  r[i] # r[j] /\ r[j] \notin ahead[r[i]]
      <4>1. /\ i + 1 \in 1 .. Len(waiters) /\ j + 1 \in 1 .. Len(waiters)
            /\ i + 1 < j + 1
            /\ r[i] = waiters[i + 1] /\ r[j] = waiters[j + 1]
        BY <2>2, <3>2
      <4> QED
        BY <4>1 DEF SlotInv, LineOK
    <3>3. ASSUME NEW d \in Claims, progress'[d] = "waiting"
          PROVE  \E i \in 1 .. Len(r) : r[i] = d
      <4>1. progress[d] = "waiting" /\ d # h
        BY <2>5, <3>3
      <4>2. PICK i \in 1 .. Len(waiters) : waiters[i] = d
        BY <4>1 DEF SlotInv, LineOK
      <4>3. i - 1 \in 1 .. Len(r) /\ (i - 1) + 1 = i
        BY <2>2, <4>1, <4>2
      <4>4. r[i - 1] = d
        BY <2>2, <4>2, <4>3
      <4> QED
        BY <4>3, <4>4
    <3> QED
      BY <1>1, <2>1, <3>1, <3>2, <3>3 DEF LineOK
  <2>14. AheadMade' /\ AheadOthers'
    BY <1>1, <2>5 DEF SlotInv, AheadMade, AheadOthers
  <2> QED
    BY <2>7, <2>8, <2>9, <2>12, <2>13, <2>14 DEF SlotInv
<1> QED
  BY <1>4, <1>5

\* A claim that goes on without touching the slot or the line.
LEMMA QuietStepKeepsInv ==
    ASSUME SlotInv, NEW c \in Claims, NEW p \in Progress,
           \/ progress[c] = "nested" /\ p = "joined"
           \/ progress[c] = "begun" /\ p = "running",
           progress' = [progress EXCEPT ![c] = p],
           UNCHANGED <<current, aborted, waiters, granted, closed, store, ahead>>
    PROVE  SlotInv'
<1>1. Occupants' = Occupants /\ InLine' = InLine
  BY DEF Occupants, InLine, SlotInv, SlotTypeOK
<1>2. SlotTypeOK'
  BY DEF SlotInv, SlotTypeOK
<1>3. OneOperation' /\ ArrivalOrder'
  BY <1>1 DEF SlotInv, OneOperation, ArrivalOrder
<1>4. \A d \in Claims : /\ progress'[d] = "woken" <=> progress[d] = "woken"
                        /\ progress'[d] = "waiting" <=> progress[d] = "waiting"
                        /\ progress'[d] = "idle" <=> progress[d] = "idle"
  BY DEF SlotInv, SlotTypeOK
<1>5. SlotNeverStranded' /\ WokenOK'
  BY <1>1, <1>4 DEF SlotInv, SlotNeverStranded, WokenOK, Taken
<1>6. LineOK'
  <2>1. \A i \in 1 .. Len(waiters) : waiters[i] \in Claims
    BY DEF SlotInv, SlotTypeOK
  <2> QED
    BY <1>4, <2>1 DEF SlotInv, LineOK
<1>7. AheadMade' /\ AheadOthers'
  BY <1>4 DEF SlotInv, SlotTypeOK, AheadMade, AheadOthers
<1> QED
  BY <1>2, <1>3, <1>5, <1>6, <1>7 DEF SlotInv

LEMMA StartKeepsInv ==
    ASSUME SlotInv, NEW c \in Claims, Start(c)
    PROVE  SlotInv'
<1>1. CASE c \in aborted
  BY <1>1, EndKeepsInv DEF Start
<1>2. CASE c \notin aborted
  BY <1>2, QuietStepKeepsInv DEF Start, Progress
<1> QED
  BY <1>1, <1>2

LEMMA CancelKeepsInv == SlotInv /\ Cancel => SlotInv'
<1> SUFFICES ASSUME SlotInv, Cancel PROVE SlotInv'
  OBVIOUS
<1> USE DEF Cancel
<1>1. Occupants' = Occupants /\ InLine' = InLine
  BY DEF Occupants, InLine
<1>2. SlotTypeOK'
  BY DEF SlotInv, SlotTypeOK
<1> QED
  BY <1>1, <1>2 DEF SlotInv, OneOperation, SlotNeverStranded, Taken, ArrivalOrder,
                    LineOK, WokenOK, AheadMade, AheadOthers

\* Everybody in line is woken and the line is empty.
LEMMA CloseKeepsInv == SlotInv /\ Close => SlotInv'
<1> SUFFICES ASSUME SlotInv, Close PROVE SlotInv'
  OBVIOUS
<1>1. /\ closed' = TRUE
      /\ aborted' = aborted \cup (IF current = Nobody THEN {} ELSE {current})
      /\ progress' = [d \in Claims |-> IF progress[d] = "waiting" THEN "woken" ELSE progress[d]]
      /\ waiters' = <<>>
      /\ UNCHANGED <<current, granted, store, ahead>>
  BY DEF Close
<1>2. Occupants' = Occupants /\ InLine' = InLine
  BY <1>1 DEF Occupants, InLine
<1>3. SlotTypeOK'
  BY <1>1 DEF SlotInv, SlotTypeOK, Progress
<1>4. OneOperation' /\ ArrivalOrder'
  BY <1>1, <1>2 DEF SlotInv, OneOperation, ArrivalOrder
<1>5. SlotNeverStranded' /\ WokenOK'
  BY <1>1 DEF SlotInv, SlotNeverStranded, WokenOK
<1>6. LineOK'
  <2>1. Len(waiters') = 0
    BY <1>1
  <2> QED
    BY <1>1, <2>1 DEF LineOK
<1>7. AheadMade' /\ AheadOthers'
  BY <1>1 DEF SlotInv, AheadMade, AheadOthers
<1> QED
  BY <1>3, <1>4, <1>5, <1>6, <1>7 DEF SlotInv

\* SlotInv holds in every reachable state.
THEOREM SlotInvariant == SlotSpec => []SlotInv
<1>1. SlotInv /\ [SlotNext]_slotVars => SlotInv'
  <2> SUFFICES ASSUME SlotInv, [SlotNext]_slotVars PROVE SlotInv'
    OBVIOUS
  <2>1. ASSUME NEW c \in Claims, NEW context \in Claims \cup {Nobody},
               Refuse(c, context) \/ Nest(c, context)
        PROVE  SlotInv'
    BY <2>1, PassingCallKeepsInv
  <2>2. ASSUME NEW c \in Claims, NEW context \in Claims \cup {Nobody}, Wait(c, context)
        PROVE  SlotInv'
    BY <2>2, WaitKeepsInv
  <2>3. ASSUME NEW c \in Claims, NEW context \in Claims \cup {Nobody}, Begin(c, context)
        PROVE  SlotInv'
    BY <2>3, BeginKeepsInv
  <2>4. ASSUME NEW c \in Claims, Resume(c) PROVE SlotInv'
    BY <2>4, ResumeKeepsInv
  <2>5. ASSUME NEW c \in Claims, Start(c) PROVE SlotInv'
    BY <2>5, StartKeepsInv
  <2>6. ASSUME NEW c \in Claims, Settle(c) PROVE SlotInv'
    BY <2>6, EndKeepsInv DEF Settle
  <2>7. ASSUME NEW c \in Claims, SettleNested(c) PROVE SlotInv'
    BY <2>7, QuietStepKeepsInv DEF SettleNested, Progress
  <2>8. CASE Cancel
    BY <2>8, CancelKeepsInv
  <2>9. CASE Close
    BY <2>9, CloseKeepsInv
  <2>10. CASE UNCHANGED slotVars
    BY <2>10 DEF slotVars, SlotInv, SlotTypeOK, OneOperation, SlotNeverStranded, Taken,
                 ArrivalOrder, Occupants, InLine, LineOK, WokenOK, AheadMade, AheadOthers
  <2> QED
    BY <2>1, <2>2, <2>3, <2>4, <2>5, <2>6, <2>7, <2>8, <2>9, <2>10 DEF SlotNext
<1> QED
  BY <1>1, InitSlotInv, PTL DEF SlotSpec

\* One operation at a time, and the slot names it.
THEOREM OneOperationAtATime == SlotSpec => []OneOperation
<1>1. SlotInv => OneOperation
  BY DEF SlotInv
<1> QED
  BY <1>1, SlotInvariant, PTL

\* The slot passes to its waiters in the order they came.
THEOREM WaitersInArrivalOrder == SlotSpec => [](ArrivalOrder /\ SlotNeverStranded)
<1>1. SlotInv => ArrivalOrder /\ SlotNeverStranded
  BY DEF SlotInv
<1> QED
  BY <1>1, SlotInvariant, PTL

\* What run() promises holds for any number of callers.
THEOREM SlotGuards == SlotSpec => []SlotGuarded
<1>1. SlotInv => SlotGuarded
  BY DEF SlotInv, SlotGuarded
<1> QED
  BY <1>1, SlotInvariant, PTL

\* The slot, its line and its contexts are well-formed, for any number of callers.
THEOREM SlotTyped == SlotSpec => []SlotTypeOK
<1>1. SlotInv => SlotTypeOK
  BY DEF SlotInv
<1> QED
  BY <1>1, SlotInvariant, PTL

\* No work starts under an operation that was cancelled or is over.
THEOREM WorkStartsUnderLiveOperation == SlotSpec => StartsUnderLiveOperation
<1> DEFINE Live ==
       \A c \in Claims :
          /\ progress'[c] = "running" /\ progress[c] # "running" =>
                current' = c /\ c \notin aborted
          /\ progress'[c] = "nested" /\ progress[c] # "nested" =>
                /\ progress[store'[c]] = "running"
                /\ store'[c] \notin aborted
<1>1. SlotInv /\ [SlotNext]_slotVars => [Live]_slotVars
  <2> SUFFICES ASSUME SlotInv, SlotNext, NEW c \in Claims
               PROVE  /\ progress'[c] = "running" /\ progress[c] # "running" =>
                            current' = c /\ c \notin aborted
                      /\ progress'[c] = "nested" /\ progress[c] # "nested" =>
                            /\ progress[store'[c]] = "running"
                            /\ store'[c] \notin aborted
    OBVIOUS
  <2> USE DEF SlotInv, SlotTypeOK
  <2>1. ASSUME NEW d \in Claims, NEW context \in Claims \cup {Nobody},
               Refuse(d, context) \/ Wait(d, context) \/ Begin(d, context)
        PROVE  progress'[c] \in {"running", "nested"} => progress'[c] = progress[c]
    BY <2>1 DEF Refuse, Wait, Begin, Call, Occupy
  <2>2. ASSUME NEW d \in Claims, NEW context \in Claims \cup {Nobody}, Nest(d, context)
        PROVE  /\ progress'[c] = "running" => progress[c] = "running"
               /\ progress'[c] = "nested" /\ progress[c] # "nested" =>
                     /\ progress[store'[c]] = "running"
                     /\ store'[c] \notin aborted
    <3>1. context = current /\ current # Nobody /\ current \notin aborted
      BY <2>2 DEF Nest, OwnsCurrent
    <3>2. progress[context] \in {"running", "settled"}
      BY <2>2, <3>1 DEF Nest, Call, Contexts
    <3>3. current \in Occupants
      BY <3>1 DEF OneOperation
    <3>4. progress[context] = "running"
      BY <3>1, <3>2, <3>3 DEF Occupants
    <3>5. store' = [store EXCEPT ![d] = context] /\ progress' = [progress EXCEPT ![d] = "nested"]
      BY <2>2 DEF Nest, Call
    <3> QED
      BY <3>1, <3>4, <3>5
  <2>3. ASSUME NEW d \in Claims, Resume(d) \/ Settle(d) \/ SettleNested(d)
        PROVE  progress'[c] \in {"running", "nested"} => progress'[c] = progress[c]
    <3>1. CASE Resume(d) \/ SettleNested(d)
      BY <3>1 DEF Resume, SettleNested, Occupy
    <3>2. CASE Settle(d) /\ waiters = <<>>
      BY <3>2 DEF Settle, End
    <3>3. CASE Settle(d) /\ waiters # <<>>
      BY <3>3 DEF Settle, End
    <3> QED
      BY <2>3, <3>1, <3>2, <3>3
  <2>4. ASSUME NEW d \in Claims, Start(d)
        PROVE  /\ progress'[c] = "nested" => progress[c] = "nested"
               /\ progress'[c] = "running" /\ progress[c] # "running" =>
                     current' = c /\ c \notin aborted
    <3>1. CASE d \in aborted /\ waiters = <<>>
      BY <2>4, <3>1 DEF Start, End
    <3>2. CASE d \in aborted /\ waiters # <<>>
      BY <2>4, <3>2 DEF Start, End
    <3>3. CASE d \notin aborted
      <4>1. /\ progress[d] = "begun"
            /\ progress' = [progress EXCEPT ![d] = "running"]
            /\ current' = current
        BY <2>4, <3>3 DEF Start
      <4>2. current = d
        BY <4>1 DEF Occupants, OneOperation
      <4> QED
        BY <3>3, <4>1, <4>2
    <3> QED
      BY <3>1, <3>2, <3>3
  <2>5. CASE Cancel \/ Close
    BY <2>5 DEF Cancel, Close
  <2> QED
    BY <2>1, <2>2, <2>3, <2>4, <2>5 DEF SlotNext
<1> QED
  BY <1>1, SlotInvariant, PTL DEF SlotSpec, StartsUnderLiveOperation

-----------------------------------------------------------------------------
(* The gate and the slot beside each other, as they are checked.            *)

\* A step of the two is a step of one, and the other rests.
LEMMA ExclusionSteps == [ExclusionNext]_exclusionVars => [Next]_vars /\ [SlotNext]_slotVars
  BY DEF ExclusionNext, exclusionVars

\* A behaviour of the two is one of the gate and one of the slot: what is proved of either
\* part holds of both together.
THEOREM ExclusionIsApart == ExclusionSpec => Spec /\ SlotSpec
<1>1. ExclusionInit => Init /\ SlotInit
  BY DEF ExclusionInit
<1> QED BY <1>1, ExclusionSteps, PTL DEF ExclusionSpec, Spec, SlotSpec

\* Lanes, queues, tickets, claims and the slot are well-formed, for any calls on any
\* sessions and any claims.
THEOREM ExclusionTypeCorrect == ExclusionSpec => []ExclusionTypeOK
<1>1. TypeOK /\ SlotTypeOK => ExclusionTypeOK
  BY DEF ExclusionTypeOK
<1> QED BY <1>1, ExclusionIsApart, GateTyped, SlotTyped, PTL

-----------------------------------------------------------------------------
(* Terminal.                                                                *)

\* The application and what the last render showed of it.
FactsTyped ==
    /\ session \in Conversations /\ link \in {"ready", "loading", "offline"}
    /\ {turn, loop, custom, copyMode, armed, asking, insists, exited} \subseteq BOOLEAN
    /\ waiting \in {"no", "approval", "question"}
    /\ events \in 0 .. MaxEvents
    /\ shown \in [session : Conversations, waiting : {"no", "approval", "question"}, custom : BOOLEAN]

\* The drafts, and whose operation owns the slot.
DraftsTyped ==
    /\ text \in Seq(Lines \cup {FormLine}) /\ Len(text) <= MaxDrafts
    /\ {input, parked} \subseteq DOMAIN text \cup {Empty}
    /\ slot \in DOMAIN text \cup {Empty} \cup {Paging(d) : d \in DOMAIN text \cup {Empty}}
    /\ intent \in {"no", "open", "saving"} /\ owned \subseteq {"slot", "save"}
    /\ Busy <=> doing # "none"

\* A draft is in one place: held back once, put aside, or in the composer.
DraftsApart ==
    /\ held \in Seq([draft : DOMAIN text, session : Conversations])
    /\ \A i, j \in DOMAIN held : held[i].draft = held[j].draft => i = j
    /\ \A i \in DOMAIN held : held[i].draft \notin {input, parked}
    /\ input # Empty => input # parked

\* The receipt of the slot's line is kept only while the composer holds the draft the slot
\* was taken for.
ReceiptsOwn == "slot" \in owned => Busy /\ slot \in {input, Paging(input)}

TerminalInv == ShellTypeOK /\ FactsTyped /\ DraftsTyped /\ DraftsApart /\ ReceiptsOwn

LEMMA TerminalInvTyped == TerminalInv => TerminalTypeOK
  BY DEF TerminalInv, TerminalTypeOK, FactsTyped, DraftsTyped, DraftsApart, IsInjective

LEMMA TerminalInitInv == TerminalInit => TerminalInv
<1> SUFFICES ASSUME TerminalInit PROVE TerminalInv
  OBVIOUS
<1>1. MaxDrafts \in Nat /\ MaxEvents \in Nat /\ BlockLimit \in Nat /\ Home \in Conversations
  BY TerminalAssumption, ShellAssumption
<1>2. ShellTypeOK
  BY <1>1 DEF TerminalInit, ShellInit, ShellTypeOK
<1>3. FactsTyped
  <2>1. shown \in [session : Conversations, waiting : {"no", "approval", "question"}, custom : BOOLEAN]
    BY <1>1 DEF TerminalInit
  <2>2. {turn, loop, custom, copyMode, armed, asking, insists, exited} \subseteq BOOLEAN
    BY DEF TerminalInit
  <2> QED BY <1>1, <2>1, <2>2 DEF TerminalInit, FactsTyped
<1>4. DraftsTyped /\ ReceiptsOwn
  BY <1>1 DEF TerminalInit, DraftsTyped, ReceiptsOwn, Busy
<1>5. DraftsApart
  BY DEF TerminalInit, DraftsApart, Empty
<1> QED BY <1>2, <1>3, <1>4, <1>5 DEF TerminalInv

LEMMA PushTyped ==
    ASSUME ShellTypeOK, NEW block \in [kind : {"shell", "note"}, live : BOOLEAN], Push(block)
    PROVE  blocks' \in Seq([kind : {"shell", "note"}, live : BOOLEAN]) /\ Len(blocks') <= BlockLimit
<1> DEFINE all == Append(blocks, block)
<1>1. /\ all \in Seq([kind : {"shell", "note"}, live : BOOLEAN])
      /\ Len(all) = Len(blocks) + 1 /\ Len(blocks) \in Nat
      /\ all # <<>>
  BY DEF ShellTypeOK
<1>2. /\ Tail(all) \in Seq([kind : {"shell", "note"}, live : BOOLEAN])
      /\ Len(Tail(all)) = Len(all) - 1
  BY <1>1
<1>3. blocks' = IF Len(all) > BlockLimit THEN Tail(all) ELSE all
  BY DEF Push
<1> HIDE DEF all
<1> QED BY <1>1, <1>2, <1>3, ShellAssumption DEF ShellTypeOK

\* Whatever the child and its list of blocks go through.
LEMMA ShellStep ==
    ASSUME ShellTypeOK,
           \/ StartShell \/ Note \/ CancelShell \/ KillShell \/ ShellEnds \/ StopShell
           \/ ShellStopped \/ UNCHANGED shell
    PROVE  ShellTypeOK'
<1>1. CASE StartShell
  BY <1>1, PushTyped DEF StartShell, ShellTypeOK
<1>2. CASE Note
  BY <1>2, PushTyped DEF Note, ShellTypeOK
<1>3. CASE CancelShell \/ KillShell \/ StopShell \/ ShellStopped \/ UNCHANGED shell
  BY <1>3 DEF CancelShell, KillShell, StopShell, ShellStopped, Aborted, ShellTypeOK, shell
<1>4. CASE ShellEnds
  <2> DEFINE Block == [kind : {"shell", "note"}, live : BOOLEAN]
  <2>2. DOMAIN blocks = 1 .. Len(blocks) /\ Len(blocks) \in Nat
    BY DEF ShellTypeOK
  <2>3. \A i \in 1 .. Len(blocks) : [blocks[i] EXCEPT !.live = FALSE] \in Block
    <3>1. \A i \in 1 .. Len(blocks) : blocks[i] \in Block
      <4>1. blocks \in Seq(Block)
        BY DEF ShellTypeOK
      <4> HIDE DEF Block
      <4> QED BY <4>1
    <3>2. \A b \in Block : [b EXCEPT !.live = FALSE] \in Block
      OBVIOUS
    <3> QED BY <3>1, <3>2
  <2>4. blocks' = [i \in 1 .. Len(blocks) |-> [blocks[i] EXCEPT !.live = FALSE]]
    BY <1>4, <2>2 DEF ShellEnds
  <2> HIDE DEF Block
  <2>1. blocks' \in Seq(Block) /\ Len(blocks') = Len(blocks)
    BY <2>2, <2>3, <2>4
  <2> QED BY <1>4, <2>1 DEF ShellEnds, ShellTypeOK, Block
<1> QED BY <1>1, <1>2, <1>3, <1>4

-----------------------------------------------------------------------------
(* What the actions have in common.                                         *)

\* The drafts held back were typed.
LEMMA HeldWereTyped ==
    ASSUME TerminalInv
    PROVE  \A i \in DOMAIN held : /\ held[i] \in [draft : DOMAIN text, session : Conversations]
                                  /\ held[i].draft \in DOMAIN text
                                  /\ held[i].draft # Empty
<1> DEFINE D == [draft : DOMAIN text, session : Conversations]
<1>1. held \in Seq(D)
  BY DEF TerminalInv, DraftsApart
<1>2. \A i \in DOMAIN held : held[i] \in D
  <2> HIDE DEF D
  <2> QED BY <1>1
<1>3. \A i \in DOMAIN held : held[i].draft \in DOMAIN text
  BY <1>2
<1>4. \A n \in DOMAIN text : n # Empty
  BY DEF TerminalInv, DraftsTyped, Empty
<1> QED BY <1>2, <1>3, <1>4

\* Nothing of the composer, the lines held back or the slot is touched.
LEMMA FrontKept ==
    ASSUME TerminalInv, UNCHANGED <<composer, held, slot, doing>>, FactsTyped', ShellTypeOK'
    PROVE  TerminalInv'
  BY DEF TerminalInv, DraftsTyped, DraftsApart, ReceiptsOwn, Busy, composer

\* The composer stays as it is, or is emptied.
LEMMA ComposerEmptied ==
    ASSUME TerminalInv, UNCHANGED <<text, parked, held, slot, doing>>,
           intent' \in {"no", "open", "saving"},
           UNCHANGED <<input, owned>> \/ Replace(Empty)
    PROVE  DraftsTyped' /\ DraftsApart' /\ ReceiptsOwn'
<1>1. DraftsTyped' /\ ReceiptsOwn'
  BY DEF TerminalInv, DraftsTyped, ReceiptsOwn, Busy, Replace
<1>2. DraftsApart'
  <2>2. \A i \in DOMAIN held : held[i].draft # Empty
    BY HeldWereTyped
  <2> QED BY <2>2 DEF TerminalInv, DraftsApart, Replace
<1> QED BY <1>1, <1>2

\* A draft is new: nothing refers to it yet.
LEMMA DraftIsNew ==
    ASSUME TerminalInv, NEW line \in Lines \cup {FormLine}, NewDraft(line)
    PROVE  /\ text' \in Seq(Lines \cup {FormLine})
           /\ Len(text) \in Nat
           /\ DOMAIN text = 1 .. Len(text)
           /\ DOMAIN text' = 1 .. (Len(text) + 1)
           /\ Len(text') <= MaxDrafts
<1>1. text \in Seq(Lines \cup {FormLine}) /\ Len(text) < MaxDrafts /\ text' = Append(text, line)
  BY DEF TerminalInv, DraftsTyped, NewDraft
<1> HIDE DEF FormLine
<1>2. /\ text' \in Seq(Lines \cup {FormLine})
      /\ Len(text) \in Nat
      /\ Len(text') = Len(text) + 1
      /\ DOMAIN text = 1 .. Len(text)
      /\ DOMAIN text' = 1 .. (Len(text) + 1)
  BY <1>1
<1> QED BY <1>1, <1>2, TerminalAssumption

\* What was held back stays typed when a draft is added.
LEMMA HeldStaysTyped ==
    ASSUME TerminalInv, DOMAIN text \subseteq DOMAIN text'
    PROVE  held \in Seq([draft : DOMAIN text', session : Conversations])
<1>1. held \in Seq([draft : DOMAIN text, session : Conversations])
  BY DEF TerminalInv, DraftsApart
<1>2. [draft : DOMAIN text, session : Conversations]
         \subseteq [draft : DOMAIN text', session : Conversations]
  OBVIOUS
<1> DEFINE D == [draft : DOMAIN text, session : Conversations]
           E == [draft : DOMAIN text', session : Conversations]
<1> HIDE DEF D, E
<1>3. held \in Seq(D) /\ D \subseteq E
  BY <1>1, <1>2 DEF D, E
<1>4. held \in Seq(E)
  BY <1>3
<1> QED BY <1>4 DEF E

\* A new draft takes the composer, and an operation that waited for it may be over.
LEMMA DraftTakesComposer ==
    ASSUME TerminalInv, NEW line \in Lines \cup {FormLine},
           NewDraft(line), Replace(Len(text) + 1), UNCHANGED <<parked, held>>,
           UNCHANGED <<slot, doing>> \/ (slot' = Empty /\ doing' = "none"),
           intent' \in {"no", "open", "saving"}
    PROVE  DraftsTyped' /\ DraftsApart' /\ ReceiptsOwn'
<1>1. /\ text' \in Seq(Lines \cup {FormLine})
      /\ Len(text) \in Nat
      /\ DOMAIN text = 1 .. Len(text)
      /\ DOMAIN text' = 1 .. (Len(text) + 1)
      /\ Len(text') <= MaxDrafts
  BY DraftIsNew
<1>2. DraftsTyped'
  BY <1>1 DEF TerminalInv, DraftsTyped, Busy, Replace
<1>3. ReceiptsOwn'
  BY DEF ReceiptsOwn, Replace
<1>4. DraftsApart'
  <2>1. held' \in Seq([draft : DOMAIN text', session : Conversations])
    BY <1>1, HeldStaysTyped
  <2>2. \A i \in DOMAIN held : held[i].draft \in 1 .. Len(text)
    BY <1>1, HeldWereTyped
  <2>3. parked \in 0 .. Len(text)
    BY <1>1 DEF TerminalInv, DraftsTyped, Empty
  <2>4. input' = Len(text) + 1
    BY DEF Replace
  <2>5. Len(text) + 1 # parked /\ \A i \in DOMAIN held : held[i].draft # Len(text) + 1
    BY <1>1, <2>2, <2>3
  <2> QED BY <2>1, <2>4, <2>5 DEF TerminalInv, DraftsApart
<1> QED BY <1>2, <1>3, <1>4

-----------------------------------------------------------------------------
(* Each step.                                                               *)

LEMMA RenderInv == ASSUME TerminalInv, Render PROVE TerminalInv'
<1>1. FactsTyped' /\ ShellTypeOK'
  BY DEF Render, TerminalInv, FactsTyped, ShellTypeOK, Current, Pending, host, work, leaving, shell
<1>2. DraftsTyped'
  BY DEF Render, TerminalInv, DraftsTyped, Kept, Replace, Busy, work, Empty
<1>3. ReceiptsOwn'
  BY DEF Render, TerminalInv, ReceiptsOwn, Replace, Busy, work
<1>4. DraftsApart'
  <2>1. \A i \in DOMAIN held : held[i].draft # Empty
    BY HeldWereTyped
  <2>2. /\ text' = text /\ held' = held
        /\ \/ input' = Empty /\ parked' \in {input, parked, Empty}
           \/ input' = parked /\ parked' = Empty
           \/ input' = input /\ parked' \in {parked, Empty}
    BY DEF Render, Kept, Replace
  <2> QED BY <2>1, <2>2 DEF TerminalInv, DraftsApart
<1> QED BY <1>1, <1>2, <1>3, <1>4 DEF TerminalInv

LEMMA HostInv ==
    ASSUME TerminalInv,
           \/ HostTurn \/ TurnEnds \/ LoopEnds \/ Waits \/ WaitSettled
           \/ LinkDown \/ LinkUp \/ Snapshot
    PROVE  TerminalInv'
<1>1. UNCHANGED <<composer, held, slot, doing>> /\ UNCHANGED shell
  BY DEF HostTurn, TurnEnds, LoopEnds, Waits, WaitSettled, LinkDown, LinkUp, Snapshot, Elsewhere
<1>2. ShellTypeOK'
  BY <1>1, ShellStep DEF TerminalInv
<1>3. FactsTyped'
  <2>1. /\ events' \in 0 .. MaxEvents
        /\ session' = session /\ shown' = shown /\ link' \in {"ready", "loading", "offline"}
        /\ waiting' \in {"no", "approval", "question"}
    BY TerminalAssumption
    DEF HostTurn, TurnEnds, LoopEnds, Waits, WaitSettled, LinkDown, LinkUp, Snapshot, Elsewhere,
        TerminalInv, FactsTyped
  <2>2. /\ UNCHANGED <<copyMode, armed, asking, insists, exited>>
        /\ {turn', loop', custom'} \subseteq BOOLEAN
    BY DEF HostTurn, TurnEnds, LoopEnds, Waits, WaitSettled, LinkDown, LinkUp, Snapshot, Elsewhere,
           TerminalInv, FactsTyped, leaving
  <2> QED BY <2>1, <2>2 DEF TerminalInv, FactsTyped
<1> QED BY <1>1, <1>2, <1>3, FrontKept

LEMMA ChildInv ==
    ASSUME TerminalInv,
           Shutdown \/ OfShell(KillShell) \/ OfShell(ShellEnds) \/ OfShell(ShellStopped)
    PROVE  TerminalInv'
<1>1. /\ UNCHANGED <<host, work, shown, custom, composer, held, panels, copyMode, leaving>>
      /\ StopShell \/ KillShell \/ ShellEnds \/ ShellStopped
  BY DEF Shutdown, OfShell
<1>2. ShellTypeOK'
  BY <1>1, ShellStep DEF TerminalInv
<1>3. FactsTyped'
  BY <1>1 DEF TerminalInv, FactsTyped, host, work, leaving
<1> QED BY <1>1, <1>2, <1>3, FrontKept DEF work

LEMMA KeyInv ==
    ASSUME TerminalInv,
           ToggleCopyMode \/ AnswerInFreeText \/ Insist \/ Lapse \/ InterruptEnds
    PROVE  TerminalInv'
<1>1. UNCHANGED <<composer, held, slot, doing>> /\ UNCHANGED shell
  BY DEF ToggleCopyMode, AnswerInFreeText, Insist, Lapse, InterruptEnds, work
<1>2. ShellTypeOK'
  BY <1>1, ShellStep DEF TerminalInv
<1>3. FactsTyped'
  <2>1. events' \in 0 .. MaxEvents /\ UNCHANGED <<session, link, waiting, shown>>
    BY TerminalAssumption
    DEF ToggleCopyMode, AnswerInFreeText, Insist, Lapse, InterruptEnds, host, TerminalInv, FactsTyped
  <2>2. {turn', loop', custom', copyMode', armed', asking', insists', exited'} \subseteq BOOLEAN
    BY DEF ToggleCopyMode, AnswerInFreeText, Insist, Lapse, InterruptEnds, work, host, leaving,
           TerminalInv, FactsTyped
  <2> QED BY <2>1, <2>2 DEF TerminalInv, FactsTyped
<1> QED BY <1>1, <1>2, <1>3, FrontKept

LEMMA TypeInv == ASSUME TerminalInv, NEW x \in Lines, Type(x) PROVE TerminalInv'
<1>1. /\ NewDraft(x) /\ Replace(Len(text) + 1) /\ UNCHANGED <<parked, held, slot, doing, intent>>
      /\ UNCHANGED shell
      /\ UNCHANGED <<host, loop, shown, custom, copyMode, leaving>>
  BY DEF Type, work
<1>2. DraftsTyped' /\ DraftsApart' /\ ReceiptsOwn'
  BY <1>1, DraftTakesComposer DEF TerminalInv, DraftsTyped
<1>3. ShellTypeOK'
  BY <1>1, ShellStep DEF TerminalInv
<1>4. FactsTyped'
  BY <1>1 DEF TerminalInv, FactsTyped, host, leaving
<1> QED BY <1>2, <1>3, <1>4 DEF TerminalInv

LEMMA EditPromptInv == ASSUME TerminalInv, NEW x \in Texts, EditPrompt(x) PROVE TerminalInv'
<1>1. /\ NewDraft(x) /\ Replace(Len(text) + 1) /\ UNCHANGED <<parked, held, slot, doing>>
      /\ intent' = "open"
      /\ UNCHANGED shell
      /\ UNCHANGED <<host, loop, shown, custom, copyMode, leaving>>
  BY DEF EditPrompt, work
<1>2. DraftsTyped' /\ DraftsApart' /\ ReceiptsOwn'
  BY <1>1, DraftTakesComposer DEF Texts
<1>3. ShellTypeOK'
  BY <1>1, ShellStep DEF TerminalInv
<1>4. FactsTyped'
  BY <1>1 DEF TerminalInv, FactsTyped, host, leaving
<1> QED BY <1>2, <1>3, <1>4 DEF TerminalInv

LEMMA CommitInv == ASSUME TerminalInv, Commit PROVE TerminalInv'
<1>1. ShellTypeOK'
  BY ShellStep DEF Commit, TerminalInv
<1>2. FactsTyped'
  BY DEF Commit, TerminalInv, FactsTyped, host, work, leaving
<1>3. DraftsTyped' /\ DraftsApart' /\ ReceiptsOwn'
  BY DEF Commit, TerminalInv, DraftsTyped, DraftsApart, ReceiptsOwn, Busy, work
<1> QED BY <1>1, <1>2, <1>3 DEF TerminalInv

LEMMA CommittedInv == ASSUME TerminalInv, NEW ok \in BOOLEAN, Committed(ok) PROVE TerminalInv'
<1>1. ShellTypeOK'
  BY ShellStep DEF Committed, TerminalInv
<1>2. FactsTyped'
  BY DEF Committed, TerminalInv, FactsTyped, host, work, leaving
<1>3. CASE intent' = "no" /\ Replace(Empty)
  BY <1>1, <1>2, <1>3, ComposerEmptied DEF Committed, work, TerminalInv
<1>4. CASE intent' = "open" /\ owned' = owned \ {"save"} /\ input' = input
  BY <1>1, <1>2, <1>4
  DEF Committed, TerminalInv, DraftsTyped, DraftsApart, ReceiptsOwn, Busy, work
<1> QED BY <1>3, <1>4 DEF Committed

LEMMA RecallOlderInv == ASSUME TerminalInv, RecallOlder PROVE TerminalInv'
<1>1. ShellTypeOK'
  BY ShellStep DEF RecallOlder, TerminalInv
<1>2. FactsTyped'
  BY DEF RecallOlder, TerminalInv, FactsTyped, host, leaving
<1>3. Paging(input) \in {Paging(d) : d \in DOMAIN text \cup {Empty}} /\ Paging(input) # Empty
  BY TerminalAssumption DEF TerminalInv, DraftsTyped, Paging, Empty
<1>4. DraftsTyped' /\ DraftsApart' /\ ReceiptsOwn'
  <2> HIDE DEF Paging
  <2> QED BY <1>3
          DEF RecallOlder, TerminalInv, DraftsTyped, DraftsApart, ReceiptsOwn, Busy
<1> QED BY <1>1, <1>2, <1>4 DEF TerminalInv

LEMMA RecalledInv == ASSUME TerminalInv, NEW x \in Texts, Recalled(x) PROVE TerminalInv'
<1>1. ShellTypeOK'
  BY ShellStep DEF Recalled, TerminalInv
<1>2. FactsTyped'
  BY DEF Recalled, TerminalInv, FactsTyped, host, leaving
<1>3. CASE NewDraft(x) /\ Replace(Len(text) + 1)
  <2>1. DraftsTyped' /\ DraftsApart' /\ ReceiptsOwn'
    BY <1>3, DraftTakesComposer DEF Recalled, TerminalInv, DraftsTyped, Texts
  <2> QED BY <1>1, <1>2, <2>1 DEF TerminalInv
<1>4. CASE text' = text /\ input' = input /\ owned' = owned \ {"slot"}
  BY <1>1, <1>2, <1>4
  DEF Recalled, TerminalInv, DraftsTyped, DraftsApart, ReceiptsOwn, Busy
<1> QED BY <1>3, <1>4 DEF Recalled

LEMMA RunEndsInv == ASSUME TerminalInv, NEW ok \in BOOLEAN, RunEnds(ok) PROVE TerminalInv'
<1> DEFINE went == ok /\ link # "offline"
<1>1. ShellTypeOK'
  <2>1. Note \/ UNCHANGED shell
    BY DEF RunEnds
  <2> QED BY <2>1, ShellStep DEF TerminalInv
<1>2. /\ session' \in Conversations /\ link' \in {"ready", "loading", "offline"}
      /\ waiting' \in {"no", "approval", "question"}
      /\ {turn', loop', custom'} \subseteq BOOLEAN
  <2>1. CASE went /\ doing \in Switches
    BY <2>1 DEF RunEnds
  <2>2. CASE ~(went /\ doing \in Switches)
    BY <2>2 DEF RunEnds, TerminalInv, FactsTyped
  <2> QED BY <2>1, <2>2
<1>3. FactsTyped'
  BY <1>2 DEF RunEnds, TerminalInv, FactsTyped, leaving
<1>4. /\ slot' = Empty /\ doing' = "none" /\ UNCHANGED <<text, parked, intent, held>>
      /\ \/ input' = Empty /\ owned' = {}
         \/ input' = input /\ owned' = owned \ {"slot"}
  BY DEF RunEnds, Replace
<1>5. DraftsTyped' /\ ReceiptsOwn'
  BY <1>4 DEF TerminalInv, DraftsTyped, ReceiptsOwn, Busy
<1>6. DraftsApart'
  BY <1>4, HeldWereTyped DEF TerminalInv, DraftsApart
<1> QED BY <1>1, <1>3, <1>5, <1>6 DEF TerminalInv

LEMMA EscapeInv == ASSUME TerminalInv, Escape PROVE TerminalInv'
<1>1. /\ UNCHANGED <<text, parked, held, slot, doing>>
      /\ UNCHANGED <<input, owned>> \/ Replace(Empty)
      /\ intent' \in {intent, "no"}
      /\ CancelShell \/ UNCHANGED shell
  BY DEF Escape, work
<1>2. DraftsTyped' /\ DraftsApart' /\ ReceiptsOwn'
  BY <1>1, ComposerEmptied DEF TerminalInv, DraftsTyped
<1>3. ShellTypeOK'
  BY <1>1, ShellStep DEF TerminalInv
<1>4. /\ UNCHANGED <<host, shown, leaving>>
      /\ {loop', custom', copyMode'} \subseteq BOOLEAN
  BY DEF Escape, work, TerminalInv, FactsTyped
<1>5. FactsTyped'
  BY <1>4 DEF TerminalInv, FactsTyped, host, leaving
<1> QED BY <1>2, <1>3, <1>5 DEF TerminalInv

LEMMA CtrlCInv == ASSUME TerminalInv, CtrlC PROVE TerminalInv'
<1>1. /\ UNCHANGED <<text, parked, held, slot, doing>>
      /\ UNCHANGED <<input, owned>> \/ Replace(Empty)
      /\ intent' \in {intent, "no"}
      /\ CancelShell \/ UNCHANGED shell
  BY DEF CtrlC
<1>2. DraftsTyped' /\ DraftsApart' /\ ReceiptsOwn'
  BY <1>1, ComposerEmptied DEF TerminalInv, DraftsTyped
<1>3. ShellTypeOK'
  BY <1>1, ShellStep DEF TerminalInv
<1>4. /\ UNCHANGED <<host, shown, custom>>
      /\ {loop', copyMode', armed', asking', insists', exited'} \subseteq BOOLEAN
  BY DEF CtrlC, leaving, TerminalInv, FactsTyped
<1>5. FactsTyped'
  BY <1>4 DEF TerminalInv, FactsTyped, host
<1> QED BY <1>2, <1>3, <1>5 DEF TerminalInv

\* A line that runs takes the free slot, or changes neither the slot nor its receipt unless
\* the composer is emptied.
LEMMA RunCommandStep ==
    ASSUME TerminalInv, NEW d \in DOMAIN text, NEW kind, NEW receipt \in BOOLEAN,
           receipt => d = input, UNCHANGED <<text, parked, intent>>, RunCommand(d, kind, receipt)
    PROVE  /\ DraftsTyped' /\ ReceiptsOwn' /\ ShellTypeOK'
           /\ input' \in {input, Empty}
           /\ {loop', copyMode', exited'} \subseteq BOOLEAN
           /\ slot' # slot => /\ ~Busy /\ link # "offline"
                              /\ slot' = d /\ doing' \in {kind, "costs"}
<1>1. d # Empty
  BY DEF TerminalInv, DraftsTyped, Empty
<1>2. CASE Retain
  <2>1. ShellTypeOK'
    BY <1>2, ShellStep DEF Retain, TerminalInv
  <2> QED BY <1>2, <2>1
          DEF Retain, work, TerminalInv, FactsTyped, DraftsTyped, ReceiptsOwn, Busy
<1>3. CASE RunHere(d, kind, receipt)
  <2>1. StartShell \/ UNCHANGED shell
    BY <1>3 DEF RunHere
  <2>2. ShellTypeOK'
    BY <2>1, ShellStep DEF TerminalInv
  <2>3. {loop', copyMode', exited'} \subseteq BOOLEAN
    BY <1>3 DEF RunHere, TerminalInv, FactsTyped
  <2>4. /\ UNCHANGED <<input, owned>> \/ (input' = Empty /\ owned' = {})
        /\ \/ UNCHANGED <<slot, doing>>
           \/ ~Busy /\ link # "offline" /\ slot' = d /\ doing' = "costs"
    BY <1>3 DEF RunHere, Replace
  <2>5. DraftsTyped' /\ ReceiptsOwn' /\ input' \in {input, Empty}
    BY <1>1, <2>4 DEF TerminalInv, DraftsTyped, ReceiptsOwn, Busy
  <2> QED BY <2>2, <2>3, <2>4, <2>5
<1>4. CASE kind \in ClaimsSlot /\ ~Busy /\ link # "offline" /\ TakeSlot(d, kind, receipt)
  <2>1. ShellTypeOK'
    BY <1>4, ShellStep DEF TakeSlot, TerminalInv
  <2>2. {loop', copyMode', exited'} \subseteq BOOLEAN
    BY <1>4 DEF TakeSlot, TerminalInv, FactsTyped
  <2>3. kind # "none"
    BY <1>4 DEF ClaimsSlot
  <2>4. slot' = d /\ doing' = kind /\ input' = input
    BY <1>4 DEF TakeSlot
  <2>5. DraftsTyped'
    BY <1>1, <1>4, <2>3 DEF TakeSlot, TerminalInv, DraftsTyped, Busy
  <2>6. ReceiptsOwn'
    BY <1>1, <1>4 DEF TakeSlot, TerminalInv, ReceiptsOwn, Busy
  <2> QED BY <1>4, <2>1, <2>2, <2>4, <2>5, <2>6
<1> QED BY <1>2, <1>3, <1>4 DEF RunCommand

\* What was held back, with one more line at the end.
LEMMA HoldStep ==
    ASSUME TerminalInv, NEW d \in DOMAIN text', Hold(d), DOMAIN text \subseteq DOMAIN text',
           \A i \in DOMAIN held : held[i].draft # d
    PROVE  /\ held' \in Seq([draft : DOMAIN text', session : Conversations])
           /\ \A i, j \in DOMAIN held' : held'[i].draft = held'[j].draft => i = j
           /\ \A i \in DOMAIN held' :
                 held'[i].draft = d \/ \E j \in DOMAIN held : held'[i] = held[j]
<1> DEFINE D == [draft : DOMAIN text', session : Conversations]
           h == [draft |-> d, session |-> session]
<1>1. held \in Seq(D)
  BY HeldStaysTyped
<1>2. h \in D /\ h.draft = d
  BY DEF TerminalInv, FactsTyped
<1>3. held' = Append(held, h)
  BY DEF Hold
<1> HIDE DEF D, h
<1>4. /\ Len(held) \in Nat /\ DOMAIN held = 1 .. Len(held)
      /\ held' \in Seq(D) /\ DOMAIN held' = 1 .. (Len(held) + 1)
      /\ \A i \in 1 .. Len(held) : held'[i] = held[i]
      /\ held'[Len(held) + 1] = h
  BY <1>1, <1>2, <1>3
<1>5. \A i \in DOMAIN held' : i \in DOMAIN held \/ i = Len(held) + 1
  BY <1>4
<1>6. \A i, j \in DOMAIN held : held[i].draft = held[j].draft => i = j
  BY DEF TerminalInv, DraftsApart
<1>7. \A i, j \in DOMAIN held' : held'[i].draft = held'[j].draft => i = j
  BY <1>2, <1>4, <1>5, <1>6
<1>8. \A i \in DOMAIN held' :
         held'[i].draft = d \/ \E j \in DOMAIN held : held'[i] = held[j]
  BY <1>2, <1>4, <1>5
<1> QED BY <1>4, <1>7, <1>8 DEF D

\* The lines of this conversation, in their order.
LEMMA DropForeignInv == ASSUME TerminalInv, DropForeign PROVE TerminalInv'
<1> DEFINE D == [draft : DOMAIN text, session : Conversations]
<1>1. UNCHANGED <<host, work, shown, custom, composer, panels, copyMode, leaving, shell>>
  BY DEF DropForeign
<1>2. ShellTypeOK' /\ FactsTyped' /\ DraftsTyped' /\ ReceiptsOwn'
  BY <1>1, ShellStep
  DEF TerminalInv, FactsTyped, DraftsTyped, ReceiptsOwn, Busy, host, work, composer, leaving
<1>3. /\ Len(held) \in Nat /\ DOMAIN held = 1 .. Len(held)
      /\ \A i \in DOMAIN held : held[i] \in D
  BY HeldWereTyped DEF TerminalInv, DraftsApart
<1>4. Cardinality(Local) \in Nat
  <2>1. Local \subseteq 1 .. Len(held)
    BY <1>3 DEF Local
  <2>2. IsFiniteSet(1 .. Len(held))
    BY <1>3, FS_Interval
  <2> QED BY <2>1, <2>2, FS_Subset, FS_CardinalityType
<1>5. PICK kept \in [1 .. Cardinality(Local) -> Local] :
         /\ \A i, j \in DOMAIN kept : i < j => kept[i] < kept[j]
         /\ held' = [i \in DOMAIN kept |-> held[kept[i]]]
  BY DEF DropForeign
<1> DEFINE n == Cardinality(Local)
<1>6. DOMAIN kept = 1 .. n /\ \A i \in 1 .. n : kept[i] \in DOMAIN held
  BY <1>5 DEF Local
<1>7. held' = [i \in 1 .. n |-> held[kept[i]]] /\ \A i \in 1 .. n : held[kept[i]] \in D
  BY <1>3, <1>5, <1>6
<1>8. \A i, j \in 1 .. n : i < j => kept[i] # kept[j]
  BY <1>3, <1>5, <1>6
<1> HIDE DEF D, n
<1>9. held' \in Seq(D) /\ DOMAIN held' = 1 .. n
  BY <1>4, <1>7 DEF n
<1>10. \A i, j \in 1 .. n : i # j => held[kept[i]].draft # held[kept[j]].draft
  <2> SUFFICES ASSUME NEW i \in 1 .. n, NEW j \in 1 .. n, i # j PROVE kept[i] # kept[j]
    BY <1>6 DEF TerminalInv, DraftsApart
  <2>1. i < j \/ j < i
    BY <1>4 DEF n
  <2> QED BY <1>8, <2>1
<1>11. DraftsApart'
  <2>1. \A i, j \in DOMAIN held' : held'[i].draft = held'[j].draft => i = j
    BY <1>7, <1>9, <1>10
  <2>2. \A i \in DOMAIN held' : held'[i].draft \notin {input, parked}
    BY <1>6, <1>7, <1>9 DEF TerminalInv, DraftsApart
  <2> QED BY <1>1, <1>9, <2>1, <2>2 DEF TerminalInv, DraftsApart, D, composer
<1> QED BY <1>2, <1>11 DEF TerminalInv

LEMMA DrainInv == ASSUME TerminalInv, Drain PROVE TerminalInv'
<1> DEFINE D == [draft : DOMAIN text, session : Conversations]
<1>1. PICK d, kind : /\ d = Head(held).draft
                     /\ RunCommand(d, kind, FALSE)
  BY DEF Drain
<1>2. /\ held' = Tail(held) /\ held # <<>>
      /\ UNCHANGED <<host, shown, custom, text, parked, intent, armed, asking, insists>>
  BY DEF Drain, Due, Undecided
<1>3. /\ held \in Seq(D) /\ Len(held) \in Nat /\ DOMAIN held = 1 .. Len(held) /\ Len(held) > 0
      /\ Head(held) = held[1]
  BY <1>2 DEF TerminalInv, DraftsApart
<1>4. d \in DOMAIN text
  BY <1>1, <1>3, HeldWereTyped
<1>5. /\ DraftsTyped' /\ ReceiptsOwn' /\ ShellTypeOK'
      /\ input' \in {input, Empty}
      /\ {loop', copyMode', exited'} \subseteq BOOLEAN
  BY <1>1, <1>2, <1>4, RunCommandStep
<1>6. FactsTyped'
  BY <1>2, <1>5 DEF TerminalInv, FactsTyped, host
<1>7. /\ held' \in Seq(D) /\ DOMAIN held' = 1 .. (Len(held) - 1)
      /\ \A i \in 1 .. (Len(held) - 1) : held'[i] = held[i + 1] /\ i + 1 \in DOMAIN held
  <2> HIDE DEF D
  <2> QED BY <1>2, <1>3
<1>8. DraftsApart'
  <2>1. \A i, j \in DOMAIN held' : held'[i].draft = held'[j].draft => i = j
    <3> SUFFICES ASSUME NEW i \in DOMAIN held', NEW j \in DOMAIN held',
                        held'[i].draft = held'[j].draft
                 PROVE  i = j
      OBVIOUS
    <3>1. i \in Int /\ j \in Int /\ held[i + 1].draft = held[j + 1].draft
      BY <1>7
    <3>2. i + 1 = j + 1
      BY <1>7, <3>1 DEF TerminalInv, DraftsApart
    <3> QED BY <3>1, <3>2
  <2>2. \A i \in DOMAIN held' : held'[i].draft \notin {input, parked, Empty}
    BY <1>7, HeldWereTyped DEF TerminalInv, DraftsApart
  <2> QED BY <1>2, <1>5, <1>7, <2>1, <2>2 DEF TerminalInv, DraftsApart
<1> QED BY <1>5, <1>6, <1>8 DEF TerminalInv

LEMMA SubmitInv == ASSUME TerminalInv, Submit PROVE TerminalInv'
<1>1. /\ input # Empty /\ UNCHANGED <<host, shown, custom, text, parked, intent, armed, asking, insists>>
  BY DEF Submit, Focus
<1>2. input \in DOMAIN text
  BY <1>1 DEF TerminalInv, DraftsTyped
<1>3. CASE Hold(input) /\ Replace(Empty) /\ UNCHANGED <<work, panels, copyMode, exited, shell>>
  <2>1. ShellTypeOK'
    BY <1>3, ShellStep DEF TerminalInv
  <2>2. FactsTyped'
    BY <1>1, <1>3 DEF TerminalInv, FactsTyped, host, work
  <2>3. DraftsTyped' /\ ReceiptsOwn'
    BY <1>1, <1>3 DEF TerminalInv, DraftsTyped, ReceiptsOwn, Replace, Busy, work
  <2>4. /\ held' \in Seq([draft : DOMAIN text', session : Conversations])
        /\ \A i, j \in DOMAIN held' : held'[i].draft = held'[j].draft => i = j
        /\ \A i \in DOMAIN held' :
              held'[i].draft = input \/ \E j \in DOMAIN held : held'[i] = held[j]
    BY <1>1, <1>2, <1>3, HoldStep DEF TerminalInv, DraftsApart
  <2>5. \A i \in DOMAIN held' : held'[i].draft \notin {Empty, parked}
    BY <1>1, <2>4, HeldWereTyped DEF TerminalInv, DraftsApart
  <2> QED BY <1>1, <1>3, <2>1, <2>2, <2>3, <2>4, <2>5 DEF TerminalInv, DraftsApart, Replace
<1>4. ASSUME NEW kind, RunCommand(input, kind, TRUE), UNCHANGED held PROVE TerminalInv'
  <2>1. /\ DraftsTyped' /\ ReceiptsOwn' /\ ShellTypeOK'
        /\ input' \in {input, Empty}
        /\ {loop', copyMode', exited'} \subseteq BOOLEAN
    BY <1>1, <1>2, <1>4, RunCommandStep
  <2>2. FactsTyped'
    BY <1>1, <2>1 DEF TerminalInv, FactsTyped, host
  <2>3. DraftsApart'
    BY <1>1, <1>4, <2>1, HeldWereTyped DEF TerminalInv, DraftsApart
  <2> QED BY <2>1, <2>2, <2>3 DEF TerminalInv
<1> QED BY <1>3, <1>4 DEF Submit

LEMMA StartFormInv == ASSUME TerminalInv, StartForm PROVE TerminalInv'
<1> DEFINE d == Len(text) + 1
<1>1. /\ NewDraft(FormLine) /\ ~Busy /\ link # "offline"
      /\ UNCHANGED <<host, shown, custom, parked, intent, armed, asking, insists>>
  BY DEF StartForm
<1>2. /\ text' \in Seq(Lines \cup {FormLine})
      /\ Len(text) \in Nat
      /\ DOMAIN text = 1 .. Len(text)
      /\ DOMAIN text' = 1 .. (Len(text) + 1)
      /\ Len(text') <= MaxDrafts
  BY <1>1, DraftIsNew
<1>3. d \in DOMAIN text' /\ d # Empty /\ DOMAIN text \subseteq DOMAIN text'
      /\ input # d /\ parked # d /\ \A i \in DOMAIN held : held[i].draft # d
  BY <1>2, HeldWereTyped DEF TerminalInv, DraftsTyped, Empty
<1> HIDE DEF d
<1>4. CASE Hold(d) /\ UNCHANGED <<work, input, owned, copyMode, exited, shell>>
  <2>1. ShellTypeOK'
    BY <1>4, ShellStep DEF TerminalInv
  <2>2. FactsTyped'
    BY <1>1, <1>4 DEF TerminalInv, FactsTyped, host, work
  <2>3. DraftsTyped' /\ ReceiptsOwn'
    BY <1>1, <1>2, <1>3, <1>4 DEF TerminalInv, DraftsTyped, ReceiptsOwn, Busy, work
  <2>4. /\ held' \in Seq([draft : DOMAIN text', session : Conversations])
        /\ \A i, j \in DOMAIN held' : held'[i].draft = held'[j].draft => i = j
        /\ \A i \in DOMAIN held' :
              held'[i].draft = d \/ \E j \in DOMAIN held : held'[i] = held[j]
    BY <1>3, <1>4, HoldStep
  <2>5. \A i \in DOMAIN held' : held'[i].draft \notin {input, parked}
    BY <1>3, <2>4 DEF TerminalInv, DraftsApart
  <2> QED BY <1>1, <1>4, <2>1, <2>2, <2>3, <2>4, <2>5 DEF TerminalInv, DraftsApart
<1>5. CASE (Retain \/ TakeSlot(d, "loop", FALSE)) /\ UNCHANGED held
  <2>1. ShellTypeOK'
    BY <1>5, ShellStep DEF TerminalInv, Retain, TakeSlot
  <2>2. {loop', copyMode', exited'} \subseteq BOOLEAN /\ UNCHANGED <<input, owned>>
    BY <1>5 DEF Retain, TakeSlot, work, TerminalInv, FactsTyped
  <2>3. FactsTyped'
    BY <1>1, <2>2 DEF TerminalInv, FactsTyped, host
  <2>4. (slot' = d /\ doing' = "loop") \/ UNCHANGED <<slot, doing>>
    BY <1>5 DEF Retain, TakeSlot, work
  <2>5. DraftsTyped' /\ ReceiptsOwn'
    BY <1>1, <1>2, <1>3, <2>2, <2>4 DEF TerminalInv, DraftsTyped, ReceiptsOwn, Busy
  <2>6. held' \in Seq([draft : DOMAIN text', session : Conversations])
    BY <1>3, <1>5, HeldStaysTyped
  <2>7. DraftsApart'
    BY <1>1, <1>5, <2>2, <2>6 DEF TerminalInv, DraftsApart
  <2> QED BY <2>1, <2>3, <2>5, <2>7 DEF TerminalInv
<1> QED BY <1>4, <1>5 DEF StartForm, d

LEMMA TerminalStepInv == TerminalInv /\ [TerminalNext]_terminalVars => TerminalInv'
<1> SUFFICES ASSUME TerminalInv, [TerminalNext]_terminalVars PROVE TerminalInv'
  OBVIOUS
<1>1. CASE UNCHANGED terminalVars
  <2>1. UNCHANGED <<composer, held, slot, doing>> /\ UNCHANGED shell
    BY <1>1 DEF terminalVars, work
  <2>2. ShellTypeOK'
    BY <2>1, ShellStep DEF TerminalInv
  <2>3. FactsTyped'
    BY <1>1 DEF TerminalInv, FactsTyped, terminalVars, host, work, leaving
  <2> QED BY <2>1, <2>2, <2>3, FrontKept
<1>2. CASE React
  BY <1>2, RenderInv, DropForeignInv, DrainInv DEF React
<1>3. CASE Reader
  BY <1>3, TypeInv, SubmitInv, StartFormInv, CommitInv, RecallOlderInv, EscapeInv, KeyInv,
     EditPromptInv DEF Reader
<1>4. CASE Results
  BY <1>4, RunEndsInv, CommittedInv, RecalledInv DEF Results
<1>5. CASE CtrlC \/ Insist \/ Lapse \/ InterruptEnds
  BY <1>5, CtrlCInv, KeyInv
<1>6. CASE HostTurn \/ Waits \/ LinkDown \/ Hosts
  BY <1>6, HostInv DEF Hosts
<1>7. CASE Shutdown \/ Child
  BY <1>7, ChildInv DEF Child
<1> QED BY <1>1, <1>2, <1>3, <1>4, <1>5, <1>6, <1>7 DEF TerminalNext

-----------------------------------------------------------------------------
(* What is proved of them.                                                  *)

\* Every draft, held line, receipt and block has its type, a draft is held back at most
\* once, and the slot is busy exactly while something is being done (use-composer.ts,
\* use-deferred-lines.ts, shell/controller.ts).
THEOREM TerminalTypeCorrect == TerminalSpec => []TerminalTypeOK
<1> QED BY TerminalInitInv, TerminalStepInv, TerminalInvTyped, PTL DEF TerminalSpec

\* Where the slot and the composer change in one step, the operation of the slot ended and
\* its receipt was still the composer's.
LEMMA EndsWithReceipt ==
    ASSUME TerminalInv, TerminalNext, Busy, slot' # slot, input' # input
    PROVE  "slot" \in owned
<1>1. ASSUME Drain PROVE FALSE
  <2>1. PICK d, kind : d = Head(held).draft /\ RunCommand(d, kind, FALSE)
    BY <1>1 DEF Drain
  <2> QED BY <2>1 DEF RunCommand, Retain, RunHere, work
<1>2. ASSUME Submit PROVE FALSE
  <2>1. UNCHANGED work \/ \E kind : RunCommand(input, kind, TRUE)
    BY <1>2 DEF Submit
  <2> QED BY <2>1 DEF RunCommand, Retain, RunHere, work
<1>3. ~Render /\ ~DropForeign
  BY DEF Render, DropForeign, work
<1>4. ~StartForm /\ ~RecallOlder /\ ~Commit /\ ~ToggleCopyMode /\ ~AnswerInFreeText /\ ~Escape
  BY DEF StartForm, RecallOlder, Commit, ToggleCopyMode, AnswerInFreeText, Escape, work
<1>5. \A x : ~Type(x) /\ ~EditPrompt(x)
  BY DEF Type, EditPrompt, work
<1>6. \A ok : ~Committed(ok)
  BY DEF Committed, work
<1>7. ~CtrlC /\ ~Insist /\ ~Lapse /\ ~InterruptEnds
  BY DEF CtrlC, Insist, Lapse, InterruptEnds, work
<1>8. ~HostTurn /\ ~Waits /\ ~LinkDown /\ ~Hosts
  BY DEF HostTurn, Waits, LinkDown, Hosts, TurnEnds, LoopEnds, WaitSettled, LinkUp, Snapshot, Elsewhere
<1>9. ~Shutdown /\ ~Child
  BY DEF Shutdown, Child, OfShell, work
<1>10. \/ \E ok \in BOOLEAN : RunEnds(ok)
       \/ \E x \in Texts : Recalled(x)
  BY <1>1, <1>2, <1>3, <1>4, <1>5, <1>6, <1>7, <1>8, <1>9 DEF TerminalNext, React, Reader, Results
<1> QED BY <1>10 DEF RunEnds, Recalled

\* A result that comes late never touches what was typed meanwhile, however often the
\* composer is cleared, parked, borrowed and refilled between.
THEOREM LateResultsSpareNewDrafts == TerminalSpec => OwnDraftOnly
<1>1. ASSUME TerminalInv, [TerminalNext]_terminalVars
      PROVE  [\A d \in Drafts \cup {Empty} :
                 slot \in {d, Paging(d)} /\ Busy /\ slot' # slot /\ input' # input
                    => input = d]_terminalVars
  <2> SUFFICES ASSUME TerminalNext, NEW d \in Drafts \cup {Empty},
                      slot \in {d, Paging(d)}, Busy, slot' # slot, input' # input
               PROVE  input = d
    BY <1>1
  <2>1. slot \in {input, Paging(input)}
    BY <1>1, EndsWithReceipt DEF TerminalInv, ReceiptsOwn
  <2>2. MaxDrafts \in Nat /\ d \in 0 .. MaxDrafts /\ input \in 0 .. MaxDrafts
    BY <1>1, TerminalAssumption DEF TerminalInv, DraftsTyped, Drafts, Empty
  <2> QED BY <2>1, <2>2 DEF Paging
<1> QED BY <1>1, TerminalInitInv, TerminalStepInv, PTL DEF TerminalSpec, OwnDraftOnly

\* What authorize lets run of a compaction or a run finds nothing at work.
LEMMA QuietWhenAuthorized ==
    ASSUME NEW kind \in {"compact", "loop"}, Authorize(kind, Facts) \notin {"turn", "loop", "error"}
    PROVE  Facts.during = "idle"
<1>1. DuringExecution(kind) = "queue"
  BY DEF DuringExecution, QueuesWhileRunning, LocalOrRead, RunsAnyway, Uncatalogued
<1>2. Facts.during \in {"idle", "turn", "loop"}
  BY DEF Facts
<1> HIDE DEF Facts
<1>3. CASE kind \in NeedsNoInteraction /\ Facts.waiting # "no"
  BY <1>3 DEF Authorize
<1>4. CASE ~(kind \in NeedsNoInteraction /\ Facts.waiting # "no") /\ Facts.during # "idle"
  <2>1. Authorize(kind, Facts) = Facts.during
    BY <1>1, <1>4 DEF Authorize
  <2> QED BY <1>2, <1>4, <2>1
<1> QED BY <1>3, <1>4

LEMMA IdleIsQuiet == ASSUME FactsTyped, Facts.during = "idle" PROVE ~turn /\ ~loop
  BY DEF Facts, FactsTyped

\* A compaction or a run takes the slot only in the conversation it was asked for, with
\* neither a turn nor a run at work there, by whichever of the three ways it comes.
THEOREM RunsStartQuiet == TerminalSpec => StartsQuiet
<1> DEFINE Quiet == doing' \in {"compact", "loop"} /\ slot' # slot =>
                      /\ ~turn /\ ~loop /\ link # "offline"
                      /\ \A i \in DOMAIN held : held[i].draft = slot' => held[i].session = session
<1>1. ASSUME TerminalInv, TerminalNext PROVE Quiet
  <2> SUFFICES ASSUME doing' \in {"compact", "loop"}, slot' # slot
               PROVE  /\ ~turn /\ ~loop /\ link # "offline"
                      /\ \A i \in DOMAIN held : held[i].draft = slot' => held[i].session = session
    OBVIOUS
  <2>1. CASE Drain
    <3>1. PICK d, kind : d = Head(held).draft /\ RunCommand(d, kind, FALSE)
      BY <2>1 DEF Drain
    <3>2. /\ held # <<>> /\ Head(held).session = session /\ Facts.during = "idle"
          /\ UNCHANGED <<text, parked, intent>>
      BY <2>1 DEF Drain, Due, Undecided
    <3>3. 1 \in DOMAIN held /\ Head(held) = held[1]
      BY <3>2 DEF TerminalInv, DraftsApart
    <3>4. d \in DOMAIN text
      BY <1>1, <3>1, <3>3, HeldWereTyped
    <3>5. slot' = d /\ link # "offline"
      BY <1>1, <3>1, <3>2, <3>4, RunCommandStep
    <3>6. \A i \in DOMAIN held : held[i].draft = slot' => i = 1
      BY <1>1, <3>1, <3>3, <3>5 DEF TerminalInv, DraftsApart
    <3>7. ~turn /\ ~loop
      BY <1>1, <3>2, IdleIsQuiet DEF TerminalInv
    <3> QED BY <3>2, <3>3, <3>5, <3>6, <3>7
  <2>2. CASE Submit
    <3> DEFINE kind == Normalize(text[input], Facts)
               verdict == Authorize(kind, Facts)
    <3>1. input \in DOMAIN text /\ UNCHANGED <<text, parked, intent>>
      BY <1>1, <2>2 DEF Submit, Focus, TerminalInv, DraftsTyped
    <3>2. /\ verdict \notin {"turn", "loop"}
          /\ RunCommand(input, IF verdict = "error" THEN "error" ELSE kind, TRUE)
      BY <2>2 DEF Submit, work
    <3>3. /\ slot' = input /\ link # "offline"
          /\ doing' = IF verdict = "error" THEN "error" ELSE kind
      <4> HIDE DEF kind, verdict
      <4> QED BY <1>1, <3>1, <3>2, RunCommandStep
    <3>4. Facts.during = "idle"
      BY <3>2, <3>3, QuietWhenAuthorized
    <3>5. ~turn /\ ~loop
      BY <1>1, <3>4, IdleIsQuiet DEF TerminalInv
    <3>6. \A i \in DOMAIN held : held[i].draft # slot'
      BY <1>1, <3>3 DEF TerminalInv, DraftsApart
    <3> QED BY <3>3, <3>5, <3>6
  <2>3. CASE StartForm
    <3>1. /\ NewDraft(FormLine) /\ link # "offline"
          /\ Anew \notin {"turn", "loop", "error"}
          /\ slot' = Len(text) + 1
      BY <2>3 DEF StartForm, Retain, TakeSlot, work
    <3>2. ~turn /\ ~loop
      BY <1>1, <3>1, QuietWhenAuthorized, IdleIsQuiet DEF TerminalInv, Anew
    <3>3. \A i \in DOMAIN held : held[i].draft # slot'
      BY <1>1, <3>1, HeldWereTyped, DraftIsNew
    <3> QED BY <3>1, <3>2, <3>3
  <2>4. CASE ~Drain /\ ~Submit /\ ~StartForm
    <3>1. ~Render /\ ~DropForeign
      BY DEF Render, DropForeign, work
    <3>2. ~RecallOlder /\ ~Commit /\ ~ToggleCopyMode /\ ~AnswerInFreeText /\ ~Escape
      BY DEF RecallOlder, Commit, ToggleCopyMode, AnswerInFreeText, Escape, work
    <3>3. \A x : ~Type(x) /\ ~EditPrompt(x) /\ ~Recalled(x)
      BY DEF Type, EditPrompt, Recalled, work
    <3>4. \A ok : ~Committed(ok) /\ ~RunEnds(ok)
      BY DEF Committed, RunEnds, work
    <3>5. ~CtrlC /\ ~Insist /\ ~Lapse /\ ~InterruptEnds
      BY DEF CtrlC, Insist, Lapse, InterruptEnds, work
    <3>6. ~HostTurn /\ ~Waits /\ ~LinkDown /\ ~Hosts
      BY DEF HostTurn, Waits, LinkDown, Hosts, TurnEnds, LoopEnds, WaitSettled, LinkUp, Snapshot,
             Elsewhere
    <3>7. ~Shutdown /\ ~Child
      BY DEF Shutdown, Child, OfShell, work
    <3> QED BY <1>1, <2>4, <3>1, <3>2, <3>3, <3>4, <3>5, <3>6, <3>7
            DEF TerminalNext, React, Reader, Results
  <2> QED BY <2>1, <2>2, <2>3, <2>4
<1>2. TerminalInv /\ [TerminalNext]_terminalVars => [Quiet]_terminalVars
  BY <1>1
<1> QED BY <1>2, TerminalInitInv, TerminalStepInv, PTL DEF TerminalSpec, StartsQuiet
=============================================================================
