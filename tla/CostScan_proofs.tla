--------------------------- MODULE CostScan_proofs ---------------------------
(***************************************************************************)
(* Proofs about CostScan, for any clients and sessions, logs of any length *)
(* and any number of faults; and about Setup, for any clients, releases    *)
(* and loop records.                                                       *)
(***************************************************************************)
EXTENDS CostScan, Setup, SequenceTheorems, WellFoundedInduction, TLAPS

\* No cut, in memory or in a file, and no recorded update time is ahead of the log.
NothingAhead ==
    \A s \in Sessions :
        /\ file[s] <= Cut(s)
        /\ \A c \in Clients : held[c][s] <= Cut(s) /\ updates[c][s] <= Cut(s)

\* A row was true when it was listed, and the log only grows.
RowsWereTrue ==
    \A c \in Clients : \A i \in 1 .. Len(scan[c].rows) :
        scan[c].rows[i].updated <= log[scan[c].rows[i].session]

\* The opening snapshot came after the row, so its cut covers what the row has seen;
\* what is about to be written does not take anything from the client.
CutCoversRow ==
    \A c \in Clients : scan[c].phase \in {"comparing", "writing"} =>
        /\ Current(c).updated < scan[c].cut
        /\ scan[c].cut <= Cut(Current(c).session)
        /\ scan[c].phase = "writing" => held[c][Current(c).session] <= scan[c].cut

\* The bookkeeping of a client covers a session only when its slice does.
ReadIsHeld ==
    \A c \in Clients, s \in Sessions : updates[c][s] = Cut(s) => held[c][s] >= Cut(s)

\* A client that loads has read nothing, and only a generation scans.
ScansOfGenerations ==
    \A c \in Clients :
        /\ scan[c].phase # "none" => link[c] \notin {"down", "loading"}
        /\ link[c] = "loading" => \A s \in Sessions : updates[c][s] = 0

ScanInv ==
    /\ TypeOK
    /\ NothingAhead
    /\ RowsWereTrue
    /\ CutCoversRow
    /\ ReadIsHeld
    /\ ScansOfGenerations

-----------------------------------------------------------------------------
LEMMA InitScanInv == Init => ScanInv
<1> SUFFICES ASSUME Init PROVE ScanInv
  OBVIOUS
<1> USE ScanAssumption DEF Init, NoScan
<1>1. TypeOK
  BY DEF TypeOK, Phases, Scans
<1>2. NothingAhead /\ ReadIsHeld /\ ScansOfGenerations
  BY DEF NothingAhead, ReadIsHeld, ScansOfGenerations, Cut
<1>3. RowsWereTrue /\ CutCoversRow
  BY DEF RowsWereTrue, CutCoversRow
<1> QED
  BY <1>1, <1>2, <1>3 DEF ScanInv

\* A set of naturals that is not empty has a least element.
LEMMA LeastOfNaturals ==
    ASSUME NEW T \in SUBSET Nat, T # {}
    PROVE  Min(T) \in T /\ \A y \in T : Min(T) <= y
<1> DEFINE R == {ss \in Nat \X Nat : ss[1] < ss[2]}
<1>1. IsWellFoundedOn(R, Nat)
  BY NatLessThanWellFounded, Zenon DEF OpToRel
<1> HIDE DEF R
<1>2. PICK x \in T : \A y \in T : ~(<<y, x>> \in R)
  BY <1>1, WFMin
<1>3. ASSUME NEW y \in T PROVE x <= y
  <2>1. <<y, x>> \notin R
    BY <1>2
  <2>2. ~(y < x)
    BY <2>1 DEF R
  <2> QED
    BY <2>2
<1> QED
  BY <1>3 DEF Min

\* GoOn() ends the scan or leaves it with rows it had, the first of them to be read.
LEMMA GoOnKeepsRows ==
    ASSUME TypeOK, NEW c \in Clients, NEW rows \in Seq(Row), NEW seen, GoOn(c, rows, seen)
    PROVE  /\ scan' \in [Clients -> Scans]
           /\ \A d \in Clients : d # c => scan'[d] = scan[d]
           /\ \/ scan'[c] = NoScan
              \/ /\ scan'[c].phase = "reading"
                 /\ scan'[c].rows # <<>>
                 /\ \A i \in 1 .. Len(scan'[c].rows) :
                       \E j \in 1 .. Len(rows) : scan'[c].rows[i] = rows[j]
<1> DEFINE wanted == {i \in 1 .. Len(rows) : ~Skips(c, rows[i], seen)}
           next == IF wanted # {} THEN Min(wanted) ELSE 0
           left == SubSeq(rows, next, Len(rows))
           after == IF next = 0 \/ scan[c].aborted THEN NoScan
                    ELSE [NoScan EXCEPT !.phase = "reading", !.rows = left]
<1>1. scan' = [scan EXCEPT ![c] = after]
  BY DEF GoOn, SelectInSeq
<1>2. next = 0 \/ next \in 1 .. Len(rows)
  <2>1. wanted \in SUBSET Nat
    OBVIOUS
  <2> QED
    BY <2>1, LeastOfNaturals
<1> HIDE DEF next
<1>3. next # 0 => /\ left \in Seq(Row) /\ left # <<>>
                  /\ \A i \in 1 .. Len(left) : \E j \in 1 .. Len(rows) : left[i] = rows[j]
  <2> HAVE next # 0
  <2>1. /\ left \in Seq(Row) /\ Len(left) = Len(rows) - next + 1
        /\ \A i \in 1 .. Len(rows) - next + 1 : left[i] = rows[next + i - 1]
    BY <1>2, SubSeqProperties, ElementOfSeq
  <2> HIDE DEF left
  <2>2. ASSUME NEW i \in 1 .. Len(left) PROVE \E j \in 1 .. Len(rows) : left[i] = rows[j]
    <3>1. next + i - 1 \in 1 .. Len(rows) /\ left[i] = rows[next + i - 1]
      BY <2>1, <1>2
    <3> QED
      BY <3>1
  <2> QED
    BY <2>1, <2>2, <1>2
<1> HIDE DEF left
<1>4. after \in Scans
  <2>1. NoScan \in Scans
    BY ScanAssumption DEF NoScan, Scans, Phases
  <2>2. next # 0 => [NoScan EXCEPT !.phase = "reading", !.rows = left] \in Scans
    BY <1>3, <2>1 DEF Scans, Phases
  <2> QED
    BY <2>1, <2>2
<1>5. \/ after = NoScan
      \/ after.phase = "reading" /\ after.rows # <<>> /\ next # 0 /\ after.rows = left
  BY <1>3 DEF NoScan
<1> HIDE DEF after
<1>6. scan \in [Clients -> Scans]
  BY DEF TypeOK
<1>7. scan'[c] = after /\ \A d \in Clients : d # c => scan'[d] = scan[d]
  BY <1>1, <1>6
<1>8. scan' \in [Clients -> Scans]
  BY <1>1, <1>4, <1>6
<1> QED
  BY <1>3, <1>5, <1>7, <1>8

-----------------------------------------------------------------------------
(* The steps.  Most of them touch one client; the parts of the invariant    *)
(* about the others follow because nothing goes back.                      *)

\* The state of a client that has no scan meets what is asked of scans.
LEMMA RestingScanHolds ==
    ASSUME ScanInv, NEW c \in Clients, scan' = [scan EXCEPT ![c] = NoScan],
           UNCHANGED <<log, running, faults>>,
           file' \in [Sessions -> 0 .. MaxLog + 1],
           held' \in [Clients -> [Sessions -> 0 .. MaxLog + 1]],
           \A d \in Clients : d # c => held'[d] = held[d]
    PROVE  /\ scan' \in [Clients -> Scans] /\ scan'[c] = NoScan
           /\ \A d \in Clients : d # c => scan'[d] = scan[d]
           /\ RowsWereTrue' /\ CutCoversRow'
           /\ \A d \in Clients :
                 scan'[d].phase \in {"reading", "comparing", "writing"} => scan'[d].rows # <<>>
<1>1. NoScan \in Scans /\ NoScan.phase = "none" /\ Len(NoScan.rows) = 0
  BY ScanAssumption DEF NoScan, Scans, Phases
<1>2. scan \in [Clients -> Scans]
  BY DEF ScanInv, TypeOK
<1>3. /\ scan' \in [Clients -> Scans] /\ scan'[c] = NoScan
      /\ \A d \in Clients : d # c => scan'[d] = scan[d]
  BY <1>1, <1>2
<1>4. RowsWereTrue'
  BY <1>1, <1>3 DEF ScanInv, RowsWereTrue
<1>5. CutCoversRow'
  BY <1>1, <1>3 DEF ScanInv, CutCoversRow, Current, Cut
<1>6. \A d \in Clients :
         scan'[d].phase \in {"reading", "comparing", "writing"} => scan'[d].rows # <<>>
  BY <1>1, <1>3 DEF ScanInv, TypeOK
<1> QED
  BY <1>3, <1>4, <1>5, <1>6

\* Begin and end of a generation.
LEMMA CutTyped ==
    ASSUME TypeOK, NEW s \in Sessions
    PROVE  log[s] \in 0 .. MaxLog /\ Cut(s) \in 1 .. MaxLog + 1
<1>1. log[s] \in 0 .. MaxLog
  BY DEF TypeOK
<1> QED
  BY <1>1, ScanAssumption DEF Cut

\* A scan that begins is one of a client that has none.
LEMMA ListingTyped ==
    /\ [NoScan EXCEPT !.phase = "listing"] \in Scans
    /\ [NoScan EXCEPT !.phase = "listing"].phase = "listing"
    /\ [NoScan EXCEPT !.phase = "listing"].rows = <<>>
<1>1. NoScan \in Scans /\ NoScan.rows = <<>>
  BY ScanAssumption DEF NoScan, Scans, Phases
<1> QED
  BY <1>1 DEF Scans, Phases

LEMMA GenerationKeepsInv ==
    ASSUME ScanInv, NEW c \in Clients,
           Start(c) \/ Refresh(c) \/ Cancel(c) \/ Lose(c) \/ Stopped(c)
    PROVE  ScanInv'
<1>t. TypeOK
  BY DEF ScanInv
<1>i. NothingAhead /\ RowsWereTrue /\ CutCoversRow /\ ReadIsHeld /\ ScansOfGenerations
  BY DEF ScanInv
<1>1. /\ log' = log /\ file' = file /\ held' = held /\ running' = running
  BY DEF Start, Refresh, Cancel, Lose, Stopped, host
<1>u. updates' \in [Clients -> [Sessions -> 0 .. MaxLog + 1]]
      /\ \A d \in Clients, s \in Sessions : updates'[d][s] \in {0, updates[d][s]}
  <2>1. CASE UNCHANGED updates
    BY <1>t, <2>1 DEF TypeOK
  <2>2. CASE updates' = [updates EXCEPT ![c] = [s \in Sessions |-> 0]]
    <3>1. 0 \in 0 .. MaxLog + 1
      BY ScanAssumption
    <3> QED
      BY <1>t, <2>2, <3>1 DEF TypeOK
  <2> QED
    BY <2>1, <2>2 DEF Start, Refresh, Cancel, Lose, Stopped
<1>2. /\ scan' \in [Clients -> Scans]
      /\ \A d \in Clients : d # c => scan'[d] = scan[d]
      /\ \/ scan'[c].phase = "listing" /\ scan'[c].rows = <<>>
         \/ /\ scan'[c].phase = scan[c].phase /\ scan'[c].rows = scan[c].rows
            /\ scan'[c].cut = scan[c].cut
  <2>1. CASE Reserve(c)
    BY <2>1, ListingTyped, <1>t DEF Reserve, TypeOK
  <2>2. CASE UNCHANGED scan
    BY <2>2, <1>t DEF TypeOK
  <2>3. CASE Cancel(c) \/ Lose(c)
    <3>1. PICK x \in BOOLEAN : scan' = [scan EXCEPT ![c].aborted = x]
      <4>1. scan[c].aborted \in BOOLEAN
        BY <1>t DEF TypeOK, Scans
      <4>2. CASE Cancel(c)
        BY <4>2 DEF Cancel
      <4>3. CASE Lose(c)
        BY <4>1, <4>3 DEF Lose
      <4> QED
        BY <2>3, <4>2, <4>3
    <3> QED
      BY <3>1, <1>t DEF TypeOK, Scans
  <2> QED
    BY <2>1, <2>2, <2>3 DEF Start, Refresh, Stopped
<1>4. link' \in [Clients -> {"up", "ending", "down", "loading"}]
      /\ timer' \subseteq {d \in Clients : link'[d] = "up"} /\ faults' \in 0 .. MaxFaults
  <2>1. Fault => faults' \in 0 .. MaxFaults
    BY <1>t, ScanAssumption DEF Fault, TypeOK
  <2>2. CASE Start(c)
    BY <2>2, <1>t DEF Start, TypeOK
  <2>3. CASE Refresh(c) \/ Cancel(c)
    BY <2>1, <2>3, <1>t DEF Refresh, Cancel, TypeOK
  <2>4. CASE Lose(c)
    BY <2>1, <2>4, <1>t DEF Lose, TypeOK
  <2>5. CASE Stopped(c)
    BY <2>5, <1>t DEF Stopped, TypeOK
  <2> QED
    BY <2>2, <2>3, <2>4, <2>5
<1>5. \A d \in Clients :
         scan'[d].phase \in {"reading", "comparing", "writing"} => scan'[d].rows # <<>>
  BY <1>2, <1>t DEF TypeOK
<1>6. TypeOK'
  BY <1>1, <1>2, <1>4, <1>5, <1>u, <1>t DEF TypeOK
<1>7. NothingAhead'
  <2> SUFFICES ASSUME NEW s \in Sessions, NEW d \in Clients
               PROVE  /\ file'[s] <= Cut(s)'
                      /\ held'[d][s] <= Cut(s)' /\ updates'[d][s] <= Cut(s)'
    BY DEF NothingAhead
  <2>1. Cut(s)' = Cut(s) /\ Cut(s) \in 1 .. MaxLog + 1
    BY <1>1, <1>t, CutTyped DEF Cut
  <2>2. updates'[d][s] \in {0, updates[d][s]}
    BY <1>u
  <2> QED
    BY <1>1, <1>i, <2>1, <2>2, ScanAssumption DEF NothingAhead
<1>8. RowsWereTrue'
  <2> SUFFICES ASSUME NEW d \in Clients, NEW i \in 1 .. Len(scan'[d].rows)
               PROVE  scan'[d].rows[i].updated <= log'[scan'[d].rows[i].session]
    BY DEF RowsWereTrue
  <2> QED
    BY <1>1, <1>2, <1>i DEF RowsWereTrue
<1>9. CutCoversRow'
  BY <1>1, <1>2, <1>t, <1>i DEF CutCoversRow, Current, Cut
<1>10. ReadIsHeld'
  <2> SUFFICES ASSUME NEW d \in Clients, NEW s \in Sessions, updates'[d][s] = Cut(s)'
               PROVE  held'[d][s] >= Cut(s)'
    BY DEF ReadIsHeld
  <2>1. Cut(s)' = Cut(s) /\ Cut(s) \in 1 .. MaxLog + 1
    BY <1>1, <1>t, CutTyped DEF Cut
  <2>2. updates'[d][s] = updates[d][s]
    BY <1>u, <2>1, ScanAssumption
  <2> QED
    BY <1>1, <1>i, <2>1, <2>2 DEF ReadIsHeld
<1>11. ScansOfGenerations'
  <2>1. ASSUME NEW d \in Clients, d # c
        PROVE  link'[d] = link[d] /\ updates'[d] = updates[d] /\ scan'[d] = scan[d]
    BY <2>1, <1>1, <1>2, <1>t DEF TypeOK, Start, Refresh, Cancel, Lose, Stopped
  <2>2. /\ scan'[c].phase # "none" => link'[c] \notin {"down", "loading"}
        /\ link'[c] # "loading"
    <3>1. CASE Start(c) \/ Lose(c) \/ Cancel(c)
      BY <3>1, <1>t DEF Start, Lose, Cancel, TypeOK
    <3>2. CASE Refresh(c)
      BY <3>2, <1>t DEF Refresh, TypeOK
    <3>3. CASE Stopped(c)
      BY <3>3, <1>t DEF Stopped, TypeOK
    <3> QED
      BY <3>1, <3>2, <3>3
  <2> QED
    BY <1>i, <2>1, <2>2 DEF ScansOfGenerations
<1> QED
  BY <1>6, <1>7, <1>8, <1>9, <1>10, <1>11 DEF ScanInv

\* Whatever leaves the scan to GoOn() with rows that were true leaves it in order.
LEMMA GoOnKeepsScans ==
    ASSUME ScanInv, NEW c \in Clients, NEW rows \in Seq(Row), NEW seen, GoOn(c, rows, seen),
           \A i \in 1 .. Len(rows) : rows[i].updated <= log[rows[i].session],
           log' = log, \A d \in Clients : d # c => held'[d] = held[d]
    PROVE  /\ scan' \in [Clients -> Scans]
           /\ \A d \in Clients : d # c => scan'[d] = scan[d]
           /\ RowsWereTrue' /\ CutCoversRow'
           /\ \A d \in Clients :
                 scan'[d].phase \in {"reading", "comparing", "writing"} => scan'[d].rows # <<>>
<1>t. TypeOK
  BY DEF ScanInv
<1>1. /\ scan' \in [Clients -> Scans]
      /\ \A d \in Clients : d # c => scan'[d] = scan[d]
      /\ \/ scan'[c] = NoScan
         \/ /\ scan'[c].phase = "reading"
            /\ scan'[c].rows # <<>>
            /\ \A i \in 1 .. Len(scan'[c].rows) :
                  \E j \in 1 .. Len(rows) : scan'[c].rows[i] = rows[j]
  BY <1>t, GoOnKeepsRows
<1>2. NoScan.phase = "none" /\ Len(NoScan.rows) = 0
  BY DEF NoScan
<1>3. RowsWereTrue'
  <2> SUFFICES ASSUME NEW d \in Clients, NEW i \in 1 .. Len(scan'[d].rows)
               PROVE  scan'[d].rows[i].updated <= log[scan'[d].rows[i].session]
    BY DEF RowsWereTrue
  <2>1. CASE d # c
    BY <1>1, <2>1 DEF ScanInv, RowsWereTrue
  <2>2. CASE d = c /\ scan'[c] = NoScan
    BY <1>2, <2>2
  <2>3. CASE d = c /\ scan'[c] # NoScan
    <3>1. PICK j \in 1 .. Len(rows) : scan'[c].rows[i] = rows[j]
      BY <1>1, <2>3
    <3> QED
      BY <2>3, <3>1
  <2> QED
    BY <2>1, <2>2, <2>3
<1>4. CutCoversRow'
  <2> SUFFICES ASSUME NEW d \in Clients, scan'[d].phase \in {"comparing", "writing"}
               PROVE  /\ Current(d)'.updated < scan'[d].cut
                      /\ scan'[d].cut <= Cut(Current(d)'.session)
                      /\ scan'[d].phase = "writing" =>
                            held'[d][Current(d)'.session] <= scan'[d].cut
    BY DEF CutCoversRow, Cut
  <2>1. d # c
    BY <1>1, <1>2
  <2>2. scan'[d] = scan[d] /\ Current(d)' = Current(d) /\ held'[d] = held[d]
    BY <1>1, <2>1 DEF Current
  <2> QED
    BY <2>2 DEF ScanInv, CutCoversRow
<1>5. ASSUME NEW d \in Clients, scan'[d].phase \in {"reading", "comparing", "writing"}
      PROVE  scan'[d].rows # <<>>
  BY <1>1, <1>2, <1>5, <1>t DEF TypeOK
<1> QED
  BY <1>1, <1>3, <1>4, <1>5

\* The row of the scan, and the rows after it.
LEMMA CurrentRow ==
    ASSUME ScanInv, NEW c \in Clients, scan[c].phase \in {"reading", "comparing", "writing"}
    PROVE  /\ Current(c) \in Row
           /\ Current(c).updated <= log[Current(c).session]
           /\ Tail(scan[c].rows) \in Seq(Row)
           /\ \A i \in 1 .. Len(Tail(scan[c].rows)) :
                 Tail(scan[c].rows)[i].updated <= log[Tail(scan[c].rows)[i].session]
<1> DEFINE rows == scan[c].rows
<1>1. rows \in Seq(Row) /\ rows # <<>>
  BY DEF ScanInv, TypeOK, Scans
<1>2. \A i \in 1 .. Len(rows) : rows[i].updated <= log[rows[i].session]
  BY DEF ScanInv, RowsWereTrue
<1>3. Head(rows) = rows[1] /\ 1 \in 1 .. Len(rows) /\ Head(rows) \in Row
  BY <1>1
<1>4. /\ Tail(rows) \in Seq(Row) /\ Len(Tail(rows)) = Len(rows) - 1
      /\ \A i \in 1 .. Len(Tail(rows)) : Tail(rows)[i] = rows[i + 1]
  BY <1>1, HeadTailProperties
<1>5. ASSUME NEW i \in 1 .. Len(Tail(rows))
      PROVE  Tail(rows)[i].updated <= log[Tail(rows)[i].session]
  <2>1. i + 1 \in 1 .. Len(rows) /\ Tail(rows)[i] = rows[i + 1]
    BY <1>1, <1>4
  <2> QED
    BY <1>2, <2>1
<1> QED
  BY <1>2, <1>3, <1>4, <1>5 DEF Current

\* What the steps of a scan leave alone, and what is left to show of them.
LEMMA ScanStepKeepsInv ==
    ASSUME ScanInv, NEW c \in Clients, UNCHANGED <<log, running, link, timer>>,
           faults' \in 0 .. MaxFaults,
           scan[c].phase # "none",
           scan' \in [Clients -> Scans],
           \A d \in Clients : d # c => scan'[d] = scan[d],
           \A d \in Clients :
              scan'[d].phase \in {"reading", "comparing", "writing"} => scan'[d].rows # <<>>,
           RowsWereTrue', CutCoversRow', NothingAhead', ReadIsHeld',
           file' \in [Sessions -> 0 .. MaxLog + 1],
           held' \in [Clients -> [Sessions -> 0 .. MaxLog + 1]],
           updates' \in [Clients -> [Sessions -> 0 .. MaxLog + 1]],
           \A d \in Clients : d # c => updates'[d] = updates[d]
    PROVE  ScanInv'
<1>t. TypeOK
  BY DEF ScanInv
<1>1. TypeOK'
  BY <1>t DEF TypeOK
<1>2. ScansOfGenerations'
  BY DEF ScanInv, ScansOfGenerations
<1> QED
  BY <1>1, <1>2 DEF ScanInv

LEMMA ListKeepsInv ==
    ASSUME ScanInv, NEW c \in Clients, List(c) \/ Interrupted(c)
    PROVE  ScanInv'
<1>t. TypeOK
  BY DEF ScanInv
<1>1. /\ UNCHANGED <<log, running, link, timer, faults, file, held, updates>>
      /\ scan[c].phase # "none"
  BY DEF List, Interrupted, host
<1>2. NothingAhead' /\ ReadIsHeld'
  BY <1>1 DEF ScanInv, NothingAhead, ReadIsHeld, Cut
<1>3. /\ scan' \in [Clients -> Scans]
      /\ \A d \in Clients : d # c => scan'[d] = scan[d]
      /\ RowsWereTrue' /\ CutCoversRow'
      /\ \A d \in Clients :
            scan'[d].phase \in {"reading", "comparing", "writing"} => scan'[d].rows # <<>>
  <2>1. CASE List(c)
    <3> DEFINE rows == [i \in DOMAIN Listed |->
                          [session |-> Listed[i], running |-> Listed[i] \in running,
                           updated |-> log[Listed[i]]]]
    <3>1. /\ rows \in Seq(Row) /\ Len(rows) = Len(Listed)
          /\ \A i \in 1 .. Len(rows) : rows[i].updated <= log[rows[i].session]
      <4>1. DOMAIN Listed = 1 .. Len(Listed) /\ Len(Listed) \in Nat
        BY ScanAssumption, LenProperties
      <4>2. ASSUME NEW i \in 1 .. Len(Listed)
            PROVE  rows[i] \in Row /\ rows[i].updated <= log[rows[i].session]
        <5>1. Listed[i] \in Sessions
          BY ScanAssumption, ElementOfSeq
        <5>2. log[Listed[i]] \in 0 .. MaxLog
          BY <5>1, <1>t, CutTyped
        <5> QED
          BY <4>1, <5>1, <5>2, ScanAssumption DEF Row
      <4> QED
        BY <4>1, <4>2
    <3>2. GoOn(c, rows, updates[c])
      BY <2>1 DEF List
    <3> HIDE DEF rows
    <3> QED
      BY <1>1, <3>1, <3>2, GoOnKeepsScans
  <2>2. CASE Interrupted(c)
    BY <1>1, <1>t, <2>2, RestingScanHolds DEF Interrupted, TypeOK
  <2> QED
    BY <2>1, <2>2
<1> QED
  BY <1>1, <1>2, <1>3, <1>t, ScanStepKeepsInv DEF TypeOK

\* The opening snapshot covers all that the row has seen.
LEMMA ReadKeepsInv ==
    ASSUME ScanInv, NEW c \in Clients, Read(c)
    PROVE  ScanInv'
<1>t. TypeOK
  BY DEF ScanInv
<1>1. /\ UNCHANGED <<log, running, link, timer, faults, file, held, updates>>
      /\ scan[c].phase = "reading"
  BY DEF Read, host
<1>2. NothingAhead' /\ ReadIsHeld'
  BY <1>1 DEF ScanInv, NothingAhead, ReadIsHeld, Cut
<1>3. /\ Current(c) \in Row /\ Current(c).updated <= log[Current(c).session]
      /\ Current(c).session \in Sessions
  BY <1>1, CurrentRow DEF Row
<1>4. Cut(Current(c).session) \in 1 .. MaxLog + 1
  BY <1>3, <1>t, CutTyped
<1>5. /\ scan' \in [Clients -> Scans]
      /\ \A d \in Clients : d # c => scan'[d] = scan[d]
      /\ scan'[c].phase = "comparing" /\ scan'[c].cut = Cut(Current(c).session)
      /\ scan'[c].rows = scan[c].rows
  <2> DEFINE k == Cut(Current(c).session)
  <2>1. scan \in [Clients -> Scans] /\ k \in 0 .. MaxLog + 1
    BY <1>4, <1>t DEF TypeOK
  <2>2. scan' = [scan EXCEPT ![c].phase = "comparing", ![c].cut = k]
    BY DEF Read
  <2> HIDE DEF k
  <2>3. [scan EXCEPT ![c].phase = "comparing"] \in [Clients -> Scans]
    BY <2>1 DEF Scans, Phases
  <2>4. scan' \in [Clients -> Scans]
    BY <2>1, <2>2, <2>3 DEF Scans
  <2>5. /\ \A d \in Clients : d # c => scan'[d] = scan[d]
        /\ scan'[c].phase = "comparing" /\ scan'[c].cut = k /\ scan'[c].rows = scan[c].rows
    BY <2>1, <2>2, <2>3 DEF Scans
  <2> QED
    BY <2>4, <2>5 DEF k
<1>6. scan[c].rows # <<>>
  BY <1>1, <1>t DEF TypeOK
<1>7. RowsWereTrue'
  BY <1>1, <1>5 DEF ScanInv, RowsWereTrue
<1>8. CutCoversRow'
  <2>1. ASSUME NEW d \in Clients, d # c
        PROVE  scan'[d] = scan[d] /\ Current(d)' = Current(d) /\ held'[d] = held[d]
    BY <1>1, <1>5, <2>1 DEF Current
  <2>2. Current(c)' = Current(c)
    BY <1>5 DEF Current
  <2>3. Current(c).updated < Cut(Current(c).session)
    BY <1>3, <1>4, <1>t, CutTyped DEF Cut, Row
  <2> QED
    BY <1>1, <1>4, <1>5, <2>1, <2>2, <2>3 DEF ScanInv, CutCoversRow, Cut
<1>9. \A d \in Clients :
         scan'[d].phase \in {"reading", "comparing", "writing"} => scan'[d].rows # <<>>
  BY <1>5, <1>6, <1>t DEF TypeOK
<1> QED
  BY <1>1, <1>2, <1>5, <1>7, <1>8, <1>9, <1>t, ScanStepKeepsInv DEF TypeOK

LEMMA RowFailsKeepsInv ==
    ASSUME ScanInv, NEW c \in Clients, RowFails(c)
    PROVE  ScanInv'
<1>t. TypeOK
  BY DEF ScanInv
<1>1. /\ UNCHANGED <<log, running, link, timer, file, held, updates>>
      /\ scan[c].phase \in {"reading", "comparing", "writing"}
      /\ GoOn(c, Tail(scan[c].rows), updates[c])
  BY DEF RowFails, host
<1>2. faults' \in 0 .. MaxFaults
  BY <1>t, ScanAssumption DEF RowFails, Fault, TypeOK
<1>3. NothingAhead' /\ ReadIsHeld'
  BY <1>1 DEF ScanInv, NothingAhead, ReadIsHeld, Cut
<1>4. /\ Tail(scan[c].rows) \in Seq(Row)
      /\ \A i \in 1 .. Len(Tail(scan[c].rows)) :
            Tail(scan[c].rows)[i].updated <= log[Tail(scan[c].rows)[i].session]
  BY <1>1, CurrentRow
<1>5. /\ scan' \in [Clients -> Scans]
      /\ \A d \in Clients : d # c => scan'[d] = scan[d]
      /\ RowsWereTrue' /\ CutCoversRow'
      /\ \A d \in Clients :
            scan'[d].phase \in {"reading", "comparing", "writing"} => scan'[d].rows # <<>>
  BY <1>1, <1>4, GoOnKeepsScans
<1> QED
  BY <1>1, <1>2, <1>3, <1>5, <1>t, ScanStepKeepsInv DEF TypeOK

\* What a row that counts as read records.
LEMMA RecordedUpdates ==
    ASSUME ScanInv, NEW c \in Clients, Recorded(c), Current(c) \in Row
    PROVE  /\ updates' \in [Clients -> [Sessions -> 0 .. MaxLog + 1]]
           /\ \A d \in Clients, s \in Sessions :
                 \/ updates'[d][s] = updates[d][s]
                 \/ /\ d = c /\ s = Current(c).session
                    /\ updates'[d][s] = Current(c).updated + 1
<1>1. Current(c).session \in Sessions /\ Current(c).updated + 1 \in 0 .. MaxLog + 1
  BY ScanAssumption DEF Row
<1>2. updates \in [Clients -> [Sessions -> 0 .. MaxLog + 1]]
  BY DEF ScanInv, TypeOK
<1> DEFINE s0 == Current(c).session
           n == Current(c).updated + 1
<1>3. updates' = updates \/ updates' = [updates EXCEPT ![c][s0] = n]
  BY DEF Recorded
<1> HIDE DEF s0, n
<1>4. s0 \in Sessions /\ n \in 0 .. MaxLog + 1
  BY <1>1 DEF s0, n
<1>5. /\ updates' \in [Clients -> [Sessions -> 0 .. MaxLog + 1]]
      /\ \A d \in Clients, s \in Sessions :
            \/ updates'[d][s] = updates[d][s]
            \/ d = c /\ s = s0 /\ updates'[d][s] = n
  <2>1. CASE updates' = updates
    BY <1>2, <2>1
  <2>2. CASE updates' = [updates EXCEPT ![c][s0] = n]
    BY <1>2, <1>4, <2>2
  <2> QED
    BY <1>3, <2>1, <2>2
<1> QED
  BY <1>5 DEF s0, n

\* A row that finds a newer cut counts as read although the client may not hold it:
\* the log has grown since, so the recorded update time is not that of the session.
LEMMA CompareKeepsInv ==
    ASSUME ScanInv, NEW c \in Clients, Compare(c)
    PROVE  ScanInv'
<1>t. TypeOK
  BY DEF ScanInv
<1> DEFINE row == Current(c)
           s0 == Current(c).session
<1>1. /\ UNCHANGED <<log, running, link, timer, faults, file, held>>
      /\ scan[c].phase = "comparing"
  BY DEF Compare, host
<1>2. /\ row \in Row /\ row.updated <= log[s0] /\ s0 \in Sessions
      /\ row.updated \in 0 .. MaxLog
      /\ row.updated < scan[c].cut /\ scan[c].cut <= Cut(s0)
      /\ scan[c].cut \in 0 .. MaxLog + 1 /\ scan[c].rows # <<>>
  <2>1. row \in Row /\ row.updated <= log[s0]
    BY <1>1, CurrentRow
  <2>2. row.updated < scan[c].cut /\ scan[c].cut <= Cut(s0)
    BY <1>1 DEF ScanInv, CutCoversRow
  <2>3. scan[c].cut \in 0 .. MaxLog + 1 /\ scan[c].rows # <<>>
    BY <1>1, <1>t DEF TypeOK, Scans
  <2> QED
    BY <2>1, <2>2, <2>3 DEF Row
<1>3. \A s \in Sessions : Cut(s)' = Cut(s) /\ Cut(s) \in 1 .. MaxLog + 1
  BY <1>1, <1>t, CutTyped DEF Cut
<1>4. /\ file \in [Sessions -> 0 .. MaxLog + 1]
      /\ held \in [Clients -> [Sessions -> 0 .. MaxLog + 1]]
      /\ updates \in [Clients -> [Sessions -> 0 .. MaxLog + 1]]
      /\ scan \in [Clients -> Scans]
  BY <1>t DEF TypeOK
<1>5. ASSUME held[c][s0] > scan[c].cut \/ file[s0] > scan[c].cut, Recorded(c)
      PROVE  ScanInv'
  <2>1. /\ updates' \in [Clients -> [Sessions -> 0 .. MaxLog + 1]]
        /\ \A d \in Clients, s \in Sessions :
              \/ updates'[d][s] = updates[d][s]
              \/ d = c /\ s = s0 /\ updates'[d][s] = row.updated + 1
    BY <1>2, <1>5, RecordedUpdates
  <2>2. row.updated + 1 < Cut(s0)
    <3>1. held[c][s0] <= Cut(s0) /\ file[s0] <= Cut(s0)
      BY <1>2 DEF ScanInv, NothingAhead
    <3>2. held[c][s0] \in 0 .. MaxLog + 1 /\ file[s0] \in 0 .. MaxLog + 1
      BY <1>2, <1>4
    <3> HIDE DEF row, s0
    <3> QED
      BY <1>2, <1>3, <1>5, <3>1, <3>2, ScanAssumption, SMTT(40)
  <2> HIDE DEF row, s0
  <2>c. row.updated + 1 <= Cut(s0) /\ row.updated + 1 # Cut(s0)
    BY <1>2, <1>3, <2>2, ScanAssumption
  <2>3. NothingAhead'
    <3> SUFFICES ASSUME NEW s \in Sessions, NEW d \in Clients
                 PROVE  file[s] <= Cut(s) /\ held[d][s] <= Cut(s) /\ updates'[d][s] <= Cut(s)
      BY <1>1, <1>3 DEF NothingAhead
    <3>1. file[s] <= Cut(s) /\ held[d][s] <= Cut(s) /\ updates[d][s] <= Cut(s)
      BY DEF ScanInv, NothingAhead
    <3>2. updates'[d][s] = updates[d][s] \/ (s = s0 /\ updates'[d][s] = row.updated + 1)
      BY <2>1
    <3> QED
      BY <2>c, <3>1, <3>2
  <2>4. ReadIsHeld'
    <3> SUFFICES ASSUME NEW s \in Sessions, NEW d \in Clients, updates'[d][s] = Cut(s)
                 PROVE  held[d][s] >= Cut(s)
      BY <1>1, <1>3 DEF ReadIsHeld
    <3>1. updates'[d][s] = updates[d][s] \/ (s = s0 /\ updates'[d][s] = row.updated + 1)
      BY <2>1
    <3> QED
      BY <2>c, <3>1 DEF ScanInv, ReadIsHeld
  <2>5. GoOn(c, Tail(scan[c].rows), updates'[c])
    BY <1>5 DEF Recorded
  <2>6. /\ Tail(scan[c].rows) \in Seq(Row)
        /\ \A i \in 1 .. Len(Tail(scan[c].rows)) :
              Tail(scan[c].rows)[i].updated <= log[Tail(scan[c].rows)[i].session]
    BY <1>1, CurrentRow
  <2>7. /\ scan' \in [Clients -> Scans]
        /\ \A d \in Clients : d # c => scan'[d] = scan[d]
        /\ RowsWereTrue' /\ CutCoversRow'
        /\ \A d \in Clients :
              scan'[d].phase \in {"reading", "comparing", "writing"} => scan'[d].rows # <<>>
    BY <1>1, <2>5, <2>6, GoOnKeepsScans
  <2>8. \A d \in Clients : d # c => updates'[d] = updates[d]
    BY <1>4, <1>5 DEF Recorded
  <2> QED
    BY <1>1, <1>4, <2>1, <2>3, <2>4, <2>7, <2>8, <1>t, ScanStepKeepsInv DEF TypeOK
<1>6. ASSUME ~(held[c][s0] > scan[c].cut \/ file[s0] > scan[c].cut),
             scan' = [scan EXCEPT ![c].phase = "writing"], updates' = updates
      PROVE  ScanInv'
  <2>1. NothingAhead' /\ ReadIsHeld'
    BY <1>1, <1>3, <1>6 DEF ScanInv, NothingAhead, ReadIsHeld
  <2>2. /\ scan' \in [Clients -> Scans]
        /\ \A d \in Clients : d # c => scan'[d] = scan[d]
        /\ scan'[c].phase = "writing" /\ scan'[c].cut = scan[c].cut
        /\ scan'[c].rows = scan[c].rows
    BY <1>4, <1>6 DEF Scans, Phases
  <2>3. RowsWereTrue'
    BY <1>1, <2>2 DEF ScanInv, RowsWereTrue
  <2>4. \A d \in Clients : Current(d)' = Current(d)
    BY <2>2 DEF Current
  <2>5. held[c][s0] <= scan[c].cut
    <3>1. held[c][s0] \in 0 .. MaxLog + 1
      BY <1>2, <1>4
    <3> HIDE DEF s0
    <3> QED
      BY <1>2, <1>6, <3>1, ScanAssumption
  <2>6. CutCoversRow'
    <3> SUFFICES ASSUME NEW d \in Clients, scan'[d].phase \in {"comparing", "writing"}
                 PROVE  /\ Current(d).updated < scan'[d].cut
                        /\ scan'[d].cut <= Cut(Current(d).session)
                        /\ scan'[d].phase = "writing" =>
                              held[d][Current(d).session] <= scan'[d].cut
      BY <1>1, <2>4 DEF CutCoversRow, Cut
    <3>1. CASE d = c
      BY <1>2, <2>2, <2>5, <3>1
    <3>2. CASE d # c
      BY <2>2, <3>2 DEF ScanInv, CutCoversRow
    <3> QED
      BY <3>1, <3>2
  <2>7. \A d \in Clients :
           scan'[d].phase \in {"reading", "comparing", "writing"} => scan'[d].rows # <<>>
    BY <1>2, <2>2, <1>t DEF TypeOK
  <2> QED
    BY <1>1, <1>4, <1>6, <2>1, <2>2, <2>3, <2>6, <2>7, <1>t, ScanStepKeepsInv DEF TypeOK
<1> QED
  BY <1>5, <1>6 DEF Compare

\* A slice that is written covers what the row has seen, and more than was held.
LEMMA WriteKeepsInv ==
    ASSUME ScanInv, NEW c \in Clients, Write(c)
    PROVE  ScanInv'
<1>t. TypeOK
  BY DEF ScanInv
<1> DEFINE row == Current(c)
           s0 == Current(c).session
           k == scan[c].cut
<1>1. /\ UNCHANGED <<log, running, link, timer, faults>>
      /\ scan[c].phase = "writing"
      /\ file' = [file EXCEPT ![s0] = k] /\ held' = [held EXCEPT ![c][s0] = k]
      /\ Recorded(c)
  BY DEF Write, host
<1>2. /\ row \in Row /\ row.updated <= log[s0] /\ s0 \in Sessions
      /\ row.updated \in 0 .. MaxLog
      /\ row.updated < k /\ k <= Cut(s0) /\ held[c][s0] <= k
      /\ k \in 0 .. MaxLog + 1
  <2>1. row \in Row /\ row.updated <= log[s0]
    BY <1>1, CurrentRow
  <2>2. row.updated < k /\ k <= Cut(s0) /\ held[c][s0] <= k
    BY <1>1 DEF ScanInv, CutCoversRow
  <2>3. k \in 0 .. MaxLog + 1
    BY <1>t DEF TypeOK, Scans
  <2> QED
    BY <2>1, <2>2, <2>3 DEF Row
<1>3. \A s \in Sessions : Cut(s)' = Cut(s) /\ Cut(s) \in 1 .. MaxLog + 1
  BY <1>1, <1>t, CutTyped DEF Cut
<1>4. /\ file \in [Sessions -> 0 .. MaxLog + 1]
      /\ held \in [Clients -> [Sessions -> 0 .. MaxLog + 1]]
      /\ updates \in [Clients -> [Sessions -> 0 .. MaxLog + 1]]
  BY <1>t DEF TypeOK
<1>5. /\ updates' \in [Clients -> [Sessions -> 0 .. MaxLog + 1]]
      /\ \A d \in Clients, s \in Sessions :
            \/ updates'[d][s] = updates[d][s]
            \/ d = c /\ s = s0 /\ updates'[d][s] = row.updated + 1
  BY <1>1, <1>2, RecordedUpdates
<1>6. \A d \in Clients : d # c => updates'[d] = updates[d]
  BY <1>1, <1>4 DEF Recorded
<1>7. GoOn(c, Tail(scan[c].rows), updates'[c])
  BY <1>1 DEF Recorded
<1>8. /\ Tail(scan[c].rows) \in Seq(Row)
      /\ \A i \in 1 .. Len(Tail(scan[c].rows)) :
            Tail(scan[c].rows)[i].updated <= log[Tail(scan[c].rows)[i].session]
  BY <1>1, CurrentRow
<1> HIDE DEF row, s0, k
<1>9. /\ file' \in [Sessions -> 0 .. MaxLog + 1]
      /\ held' \in [Clients -> [Sessions -> 0 .. MaxLog + 1]]
      /\ \A d \in Clients : d # c => held'[d] = held[d]
      /\ \A s \in Sessions : file'[s] = IF s = s0 THEN k ELSE file[s]
      /\ \A s \in Sessions : held'[c][s] = IF s = s0 THEN k ELSE held[c][s]
  BY <1>1, <1>2, <1>4
<1>10. /\ scan' \in [Clients -> Scans]
       /\ \A d \in Clients : d # c => scan'[d] = scan[d]
       /\ RowsWereTrue' /\ CutCoversRow'
       /\ \A d \in Clients :
             scan'[d].phase \in {"reading", "comparing", "writing"} => scan'[d].rows # <<>>
  BY <1>1, <1>7, <1>8, <1>9, GoOnKeepsScans
<1>11. row.updated + 1 <= k
  BY <1>2, ScanAssumption
<1>12. NothingAhead'
  <2> SUFFICES ASSUME NEW s \in Sessions, NEW d \in Clients
               PROVE  file'[s] <= Cut(s) /\ held'[d][s] <= Cut(s) /\ updates'[d][s] <= Cut(s)
    BY <1>1, <1>3 DEF NothingAhead
  <2>1. file[s] <= Cut(s) /\ held[d][s] <= Cut(s) /\ updates[d][s] <= Cut(s)
    BY DEF ScanInv, NothingAhead
  <2>2. file'[s] <= Cut(s)
    BY <1>2, <1>9, <2>1
  <2>3. held'[d][s] <= Cut(s)
    BY <1>2, <1>9, <2>1
  <2>4. row.updated + 1 <= Cut(s0)
    BY <1>2, <1>3, <1>11, ScanAssumption
  <2>5. updates'[d][s] <= Cut(s)
    BY <1>5, <2>1, <2>4
  <2> QED
    BY <2>2, <2>3, <2>5
<1>13. ReadIsHeld'
  <2> SUFFICES ASSUME NEW s \in Sessions, NEW d \in Clients, updates'[d][s] = Cut(s)
               PROVE  held'[d][s] >= Cut(s)
    BY <1>1, <1>3 DEF ReadIsHeld
  <2>1. CASE d = c /\ s = s0 /\ updates'[d][s] = row.updated + 1
    <3>1. held'[d][s] = k /\ Cut(s0) = row.updated + 1
      BY <1>9, <2>1
    <3> QED
      BY <1>2, <1>3, <1>11, <2>1, <3>1, ScanAssumption
  <2>2. CASE updates'[d][s] = updates[d][s]
    <3>1. held[d][s] >= Cut(s)
      BY <2>2 DEF ScanInv, ReadIsHeld
    <3>2. CASE d = c /\ s = s0
      <4>1. held'[d][s] = k /\ held[d][s] \in 0 .. MaxLog + 1
        BY <1>2, <1>4, <1>9, <3>2
      <4> QED
        BY <1>2, <1>3, <3>1, <3>2, <4>1, ScanAssumption
    <3>3. CASE ~(d = c /\ s = s0)
      BY <1>9, <3>1, <3>3
    <3> QED
      BY <3>2, <3>3
  <2> QED
    BY <1>5, <2>1, <2>2
<1> QED
  BY <1>1, <1>5, <1>6, <1>9, <1>10, <1>12, <1>13, <1>t, ScanStepKeepsInv DEF TypeOK

\* A new process starts from the files, with nothing recorded as read; load() deletes
\* the slices outside the window.
LEMMA RestartKeepsInv ==
    ASSUME ScanInv, NEW c \in Clients, Restart(c)
    PROVE  ScanInv'
<1>t. TypeOK
  BY DEF ScanInv
<1>1. /\ UNCHANGED <<log, running, file>> /\ scan' = [scan EXCEPT ![c] = NoScan]
      /\ timer' = timer \ {c} /\ link' = [link EXCEPT ![c] = "loading"]
      /\ held' = [held EXCEPT ![c] = file]
      /\ updates' = [updates EXCEPT ![c] = [s \in Sessions |-> 0]]
      /\ Fault
  BY DEF Restart, host
<1>2. \A s \in Sessions : Cut(s)' = Cut(s) /\ Cut(s) \in 1 .. MaxLog + 1
  BY <1>1, <1>t, CutTyped DEF Cut
<1>3. /\ held' \in [Clients -> [Sessions -> 0 .. MaxLog + 1]]
      /\ \A d \in Clients : d # c => held'[d] = held[d]
      /\ held'[c] = file
  BY <1>1, <1>t DEF TypeOK
<1>4. /\ updates' \in [Clients -> [Sessions -> 0 .. MaxLog + 1]]
      /\ \A d \in Clients : d # c => updates'[d] = updates[d]
      /\ \A s \in Sessions : updates'[c][s] = 0
  <2>1. 0 \in 0 .. MaxLog + 1
    BY ScanAssumption
  <2> QED
    BY <1>1, <1>t, <2>1 DEF TypeOK
<1>5. /\ link' \in [Clients -> {"up", "ending", "down", "loading"}]
      /\ link'[c] = "loading" /\ \A d \in Clients : d # c => link'[d] = link[d]
  BY <1>1, <1>t DEF TypeOK
<1>6. timer' \subseteq {d \in Clients : link'[d] = "up"}
  BY <1>1, <1>5, <1>t DEF TypeOK
<1>7. faults' \in 0 .. MaxFaults
  BY <1>1, <1>t, ScanAssumption DEF Fault, TypeOK
<1>8. NoScan.phase = "none" /\ NoScan \in Scans /\ Len(NoScan.rows) = 0
  BY ScanAssumption DEF NoScan, Scans, Phases
<1>9. /\ scan' \in [Clients -> Scans] /\ scan'[c] = NoScan
      /\ \A d \in Clients : d # c => scan'[d] = scan[d]
  BY <1>1, <1>8, <1>t DEF TypeOK
<1>10. TypeOK'
  <2>1. \A d \in Clients :
           scan'[d].phase \in {"reading", "comparing", "writing"} => scan'[d].rows # <<>>
    BY <1>8, <1>9, <1>t DEF TypeOK
  <2> QED
    BY <1>1, <1>3, <1>4, <1>5, <1>6, <1>7, <1>9, <1>t, <2>1 DEF TypeOK
<1>11. RowsWereTrue' /\ CutCoversRow'
  <2>1. RowsWereTrue'
    BY <1>1, <1>8, <1>9 DEF ScanInv, RowsWereTrue
  <2>2. CutCoversRow'
    BY <1>1, <1>3, <1>8, <1>9 DEF ScanInv, CutCoversRow, Current, Cut
  <2> QED
    BY <2>1, <2>2
<1>12. NothingAhead'
  <2> SUFFICES ASSUME NEW s \in Sessions, NEW d \in Clients
               PROVE  file[s] <= Cut(s) /\ held'[d][s] <= Cut(s) /\ updates'[d][s] <= Cut(s)
    BY <1>1, <1>2 DEF NothingAhead
  <2>1. file[s] <= Cut(s) /\ held[d][s] <= Cut(s) /\ updates[d][s] <= Cut(s)
    BY DEF ScanInv, NothingAhead
  <2>2. 0 <= Cut(s)
    BY <1>2, ScanAssumption
  <2>3. CASE d = c
    BY <1>3, <1>4, <2>1, <2>2, <2>3
  <2>4. CASE d # c
    BY <1>3, <1>4, <2>1, <2>4
  <2> QED
    BY <2>3, <2>4
<1>13. ReadIsHeld'
  <2> SUFFICES ASSUME NEW s \in Sessions, NEW d \in Clients, updates'[d][s] = Cut(s)
               PROVE  held'[d][s] >= Cut(s)
    BY <1>1, <1>2 DEF ReadIsHeld
  <2>1. d # c
    BY <1>2, <1>4, ScanAssumption
  <2> QED
    BY <1>3, <1>4, <2>1 DEF ScanInv, ReadIsHeld
<1>14. ScansOfGenerations'
  <2> SUFFICES ASSUME NEW d \in Clients
               PROVE  /\ scan'[d].phase # "none" => link'[d] \notin {"down", "loading"}
                      /\ link'[d] = "loading" => \A s \in Sessions : updates'[d][s] = 0
    BY DEF ScansOfGenerations
  <2>1. CASE d = c
    BY <1>4, <1>8, <1>9, <2>1
  <2>2. CASE d # c
    BY <1>4, <1>5, <1>9, <2>2 DEF ScanInv, ScansOfGenerations
  <2> QED
    BY <2>1, <2>2
<1> QED
  BY <1>10, <1>11, <1>12, <1>13, <1>14 DEF ScanInv

LEMMA PruneKeepsInv ==
    ASSUME ScanInv, NEW c \in Clients, Prune(c) \/ PruneFails(c)
    PROVE  ScanInv'
<1>t. TypeOK
  BY DEF ScanInv
<1>1. /\ UNCHANGED <<log, running, updates, timer, scan>>
      /\ link[c] = "loading" /\ link' = [link EXCEPT ![c] = "down"]
  BY DEF Prune, PruneFails, host
<1>2. \A s \in Sessions : Cut(s)' = Cut(s) /\ Cut(s) \in 1 .. MaxLog + 1
  BY <1>1, <1>t, CutTyped DEF Cut
<1>3. /\ file' \in [Sessions -> 0 .. MaxLog + 1]
      /\ held' \in [Clients -> [Sessions -> 0 .. MaxLog + 1]]
      /\ \A s \in Sessions : file'[s] \in {0, file[s]}
      /\ \A s \in Sessions, d \in Clients :
            held'[d][s] = held[d][s] \/ (d = c /\ held'[d][s] = 0)
  <2>1. 0 \in 0 .. MaxLog + 1
    BY ScanAssumption
  <2>2. CASE Prune(c)
    <3> DEFINE out == Outside(c)
               cleared == [s \in Sessions |-> IF s \in out THEN 0 ELSE held[c][s]]
    <3>1. /\ file' = [s \in Sessions |-> IF s \in out THEN 0 ELSE file[s]]
          /\ held' = [held EXCEPT ![c] = cleared]
      BY <2>2 DEF Prune
    <3> HIDE DEF out
    <3>2. cleared \in [Sessions -> 0 .. MaxLog + 1]
      BY <2>1, <1>t DEF TypeOK
    <3>3. \A s \in Sessions : cleared[s] = held[c][s] \/ cleared[s] = 0
      OBVIOUS
    <3> HIDE DEF cleared
    <3>4. file \in [Sessions -> 0 .. MaxLog + 1]
          /\ held \in [Clients -> [Sessions -> 0 .. MaxLog + 1]]
      BY <1>t DEF TypeOK
    <3>5. held' \in [Clients -> [Sessions -> 0 .. MaxLog + 1]]
          /\ held'[c] = cleared /\ \A d \in Clients : d # c => held'[d] = held[d]
      BY <3>1, <3>2, <3>4
    <3>6. file' \in [Sessions -> 0 .. MaxLog + 1]
          /\ \A s \in Sessions : file'[s] \in {0, file[s]}
      BY <2>1, <3>1, <3>4
    <3> QED
      BY <3>3, <3>5, <3>6
  <2>3. CASE UNCHANGED <<file, held>>
    BY <1>t, <2>3 DEF TypeOK
  <2> QED
    BY <2>2, <2>3 DEF PruneFails
<1>4. faults' \in 0 .. MaxFaults
  <2>1. faults \in 0 .. MaxFaults
    BY <1>t DEF TypeOK
  <2>2. CASE Prune(c)
    BY <2>1, <2>2 DEF Prune
  <2>3. CASE PruneFails(c)
    BY <2>1, <2>3, ScanAssumption DEF PruneFails, Fault
  <2> QED
    BY <2>2, <2>3
<1>5. /\ link' \in [Clients -> {"up", "ending", "down", "loading"}]
      /\ timer' \subseteq {d \in Clients : link'[d] = "up"}
      /\ link'[c] = "down" /\ \A d \in Clients : d # c => link'[d] = link[d]
  BY <1>1, <1>t DEF TypeOK
<1>6. TypeOK'
  BY <1>1, <1>3, <1>4, <1>5, <1>t DEF TypeOK
<1>7. \A s \in Sessions : updates[c][s] = 0
  BY <1>1 DEF ScanInv, ScansOfGenerations
<1>8. scan[c].phase = "none"
  BY <1>1 DEF ScanInv, ScansOfGenerations
<1>9. RowsWereTrue'
  BY <1>1 DEF ScanInv, RowsWereTrue
<1>10. CutCoversRow'
  <2>1. \A d \in Clients : scan[d].phase \in {"comparing", "writing"} => held'[d] = held[d]
    <3> SUFFICES ASSUME NEW d \in Clients, scan[d].phase \in {"comparing", "writing"}
                 PROVE  held'[d] = held[d]
      OBVIOUS
    <3>1. d # c
      BY <1>8
    <3>2. \A s \in Sessions : held'[d][s] = held[d][s]
      BY <1>3, <3>1
    <3> QED
      BY <1>3, <1>t, <3>2 DEF TypeOK
  <2>2. \A d \in Clients : Current(d)' = Current(d)
    BY <1>1 DEF Current
  <2> QED
    BY <1>1, <2>1, <2>2 DEF ScanInv, CutCoversRow, Cut
<1>11. NothingAhead'
  <2> SUFFICES ASSUME NEW s \in Sessions, NEW d \in Clients
               PROVE  file'[s] <= Cut(s) /\ held'[d][s] <= Cut(s) /\ updates[d][s] <= Cut(s)
    BY <1>1, <1>2 DEF NothingAhead
  <2>1. file[s] <= Cut(s) /\ held[d][s] <= Cut(s) /\ updates[d][s] <= Cut(s)
    BY DEF ScanInv, NothingAhead
  <2>2. 0 <= Cut(s)
    BY <1>2, ScanAssumption
  <2>3. file'[s] \in {0, file[s]} /\ held'[d][s] \in {0, held[d][s]}
    BY <1>3
  <2> QED
    BY <2>1, <2>2, <2>3
<1>12. ReadIsHeld'
  <2> SUFFICES ASSUME NEW s \in Sessions, NEW d \in Clients, updates[d][s] = Cut(s)
               PROVE  held'[d][s] >= Cut(s)
    BY <1>1, <1>2 DEF ReadIsHeld
  <2>1. d # c
    BY <1>2, <1>7, ScanAssumption
  <2>2. held'[d][s] = held[d][s]
    BY <1>3, <2>1
  <2> QED
    BY <2>2 DEF ScanInv, ReadIsHeld
<1>13. ScansOfGenerations'
  BY <1>1, <1>5, <1>8 DEF ScanInv, ScansOfGenerations
<1> QED
  BY <1>6, <1>9, <1>10, <1>11, <1>12, <1>13 DEF ScanInv

\* The host's log only grows: what covered it before may fall behind, nothing more.
LEMMA HostKeepsInv ==
    ASSUME ScanInv, NEW s \in Busy, TurnStarts(s) \/ Bills(s) \/ TurnEnds(s)
    PROVE  ScanInv'
<1>t. TypeOK
  BY DEF ScanInv
<1>1. /\ UNCHANGED <<file, held, updates, link, timer, scan, faults>>
      /\ s \in Sessions
  BY ScanAssumption DEF TurnStarts, Bills, TurnEnds
<1>2. running' \subseteq Sessions
  BY <1>1, <1>t DEF TurnStarts, Bills, TurnEnds, TypeOK
<1>3. /\ log' \in [Sessions -> 0 .. MaxLog]
      /\ \A q \in Sessions : log[q] <= log'[q]
  <2>1. log \in [Sessions -> 0 .. MaxLog]
    BY <1>t DEF TypeOK
  <2>2. CASE UNCHANGED log
    BY <2>1, <2>2, ScanAssumption
  <2>3. CASE Bills(s)
    <3>1. log[s] < MaxLog /\ log' = [log EXCEPT ![s] = log[s] + 1]
      BY <2>3 DEF Bills
    <3>2. log[s] + 1 \in 0 .. MaxLog /\ log[s] <= log[s] + 1
      BY <1>1, <2>1, <3>1, ScanAssumption
    <3>3. \A q \in Sessions : log[q] <= log[q]
      BY <2>1, ScanAssumption
    <3> QED
      BY <1>1, <2>1, <3>1, <3>2, <3>3
  <2> QED
    BY <2>2, <2>3 DEF TurnStarts, TurnEnds
<1>4. TypeOK'
  BY <1>1, <1>2, <1>3, <1>t DEF TypeOK
<1>5. \A q \in Sessions : /\ log[q] \in 0 .. MaxLog /\ Cut(q) \in 1 .. MaxLog + 1
                          /\ Cut(q)' \in 1 .. MaxLog + 1 /\ Cut(q) <= Cut(q)'
  <2> SUFFICES ASSUME NEW q \in Sessions
               PROVE  /\ log[q] \in 0 .. MaxLog /\ Cut(q) \in 1 .. MaxLog + 1
                      /\ Cut(q)' \in 1 .. MaxLog + 1 /\ Cut(q) <= Cut(q)'
    OBVIOUS
  <2>1. log[q] \in 0 .. MaxLog /\ Cut(q) \in 1 .. MaxLog + 1
    BY <1>t, CutTyped
  <2>2. log'[q] \in 0 .. MaxLog /\ log[q] <= log'[q]
    BY <1>3
  <2> QED
    BY <2>1, <2>2, ScanAssumption DEF Cut
<1>6. /\ file \in [Sessions -> 0 .. MaxLog + 1]
      /\ held \in [Clients -> [Sessions -> 0 .. MaxLog + 1]]
      /\ updates \in [Clients -> [Sessions -> 0 .. MaxLog + 1]]
      /\ scan \in [Clients -> Scans]
  BY <1>t DEF TypeOK
<1>7. NothingAhead'
  <2>1. \A q \in Sessions : file[q] <= Cut(q)'
    <3> SUFFICES ASSUME NEW q \in Sessions
                 PROVE  file[q] <= Cut(q)'
      OBVIOUS
    <3>1. file[q] <= Cut(q) /\ file[q] \in 0 .. MaxLog + 1
      BY <1>6 DEF ScanInv, NothingAhead
    <3> QED
      BY <1>5, <3>1, ScanAssumption
  <2>2. \A q \in Sessions, d \in Clients : held[d][q] <= Cut(q)' /\ updates[d][q] <= Cut(q)'
    <3> SUFFICES ASSUME NEW q \in Sessions, NEW d \in Clients
                 PROVE  held[d][q] <= Cut(q)' /\ updates[d][q] <= Cut(q)'
      OBVIOUS
    <3>1. /\ held[d][q] <= Cut(q) /\ updates[d][q] <= Cut(q)
          /\ held[d][q] \in 0 .. MaxLog + 1 /\ updates[d][q] \in 0 .. MaxLog + 1
      BY <1>6 DEF ScanInv, NothingAhead
    <3> QED
      BY <1>5, <3>1, ScanAssumption
  <2> QED
    BY <1>1, <2>1, <2>2 DEF NothingAhead
<1>8. RowsWereTrue'
  <2> SUFFICES ASSUME NEW d \in Clients, NEW i \in 1 .. Len(scan[d].rows)
               PROVE  scan[d].rows[i].updated <= log'[scan[d].rows[i].session]
    BY <1>1 DEF RowsWereTrue
  <2>1. scan[d].rows[i] \in Row
    BY <1>6, ElementOfSeq DEF Scans
  <2>2. scan[d].rows[i].session \in Sessions /\ scan[d].rows[i].updated \in 0 .. MaxLog
    BY <2>1 DEF Row
  <2>3. scan[d].rows[i].updated <= log[scan[d].rows[i].session]
    BY DEF ScanInv, RowsWereTrue
  <2>4. /\ log[scan[d].rows[i].session] <= log'[scan[d].rows[i].session]
        /\ log[scan[d].rows[i].session] \in 0 .. MaxLog
        /\ log'[scan[d].rows[i].session] \in 0 .. MaxLog
    BY <1>3, <1>5, <2>2
  <2> QED
    BY <2>2, <2>3, <2>4, ScanAssumption
<1>9. CutCoversRow'
  <2> SUFFICES ASSUME NEW d \in Clients, scan[d].phase \in {"comparing", "writing"}
               PROVE  /\ Current(d).updated < scan[d].cut
                      /\ scan[d].cut <= Cut(Current(d).session)'
                      /\ scan[d].phase = "writing" => held[d][Current(d).session] <= scan[d].cut
    BY <1>1 DEF CutCoversRow, Current, Cut
  <2>1. /\ Current(d).updated < scan[d].cut
        /\ scan[d].cut <= Cut(Current(d).session)
        /\ scan[d].phase = "writing" => held[d][Current(d).session] <= scan[d].cut
    BY DEF ScanInv, CutCoversRow
  <2>2. Current(d) \in Row
    BY CurrentRow
  <2>3. Current(d).session \in Sessions /\ scan[d].cut \in 0 .. MaxLog + 1
    BY <1>6, <2>2 DEF Row, Scans
  <2>4. /\ Cut(Current(d).session) \in 1 .. MaxLog + 1
        /\ log'[Current(d).session] + 1 \in 1 .. MaxLog + 1
        /\ Cut(Current(d).session) <= log'[Current(d).session] + 1
    BY <1>5, <2>3 DEF Cut
  <2>5. scan[d].cut <= log'[Current(d).session] + 1
    BY <2>1, <2>3, <2>4, ScanAssumption
  <2>6. Current(d)' = Current(d)
    BY <1>1 DEF Current
  <2> QED
    BY <2>1, <2>5, <2>6 DEF Cut
<1>10. ReadIsHeld'
  <2> SUFFICES ASSUME NEW q \in Sessions, NEW d \in Clients, updates[d][q] = Cut(q)'
               PROVE  held[d][q] >= Cut(q)'
    BY <1>1 DEF ReadIsHeld
  <2>1. updates[d][q] <= Cut(q) /\ updates[d][q] \in 0 .. MaxLog + 1
    BY <1>6 DEF ScanInv, NothingAhead
  <2>2. Cut(q) = Cut(q)'
    BY <1>5, <2>1, ScanAssumption
  <2> QED
    BY <2>2 DEF ScanInv, ReadIsHeld
<1>11. ScansOfGenerations'
  BY <1>1 DEF ScanInv, ScansOfGenerations
<1> QED
  BY <1>4, <1>7, <1>8, <1>9, <1>10, <1>11 DEF ScanInv

LEMMA NextScanInv == ScanInv /\ [Next]_vars => ScanInv'
<1> SUFFICES ASSUME ScanInv, [Next]_vars PROVE ScanInv'
  OBVIOUS
<1>1. ASSUME NEW c \in Clients,
             Start(c) \/ Refresh(c) \/ Cancel(c) \/ Lose(c) \/ Stopped(c)
      PROVE  ScanInv'
  BY <1>1, GenerationKeepsInv
<1>2. ASSUME NEW c \in Clients, Restart(c) PROVE ScanInv'
  BY <1>2, RestartKeepsInv
<1>3. ASSUME NEW c \in Clients, Prune(c) \/ PruneFails(c) PROVE ScanInv'
  BY <1>3, PruneKeepsInv
<1>4. ASSUME NEW c \in Clients, Scan(c) PROVE ScanInv'
  BY <1>4, ListKeepsInv, ReadKeepsInv, CompareKeepsInv, WriteKeepsInv DEF Scan
<1>5. ASSUME NEW c \in Clients, RowFails(c) PROVE ScanInv'
  BY <1>5, RowFailsKeepsInv
<1>6. ASSUME NEW s \in Busy, TurnStarts(s) \/ Bills(s) \/ TurnEnds(s) PROVE ScanInv'
  BY <1>6, HostKeepsInv
<1>7. CASE UNCHANGED vars
  BY <1>7 DEF vars, host, ScanInv, TypeOK, NothingAhead, RowsWereTrue, CutCoversRow,
              ReadIsHeld, ScansOfGenerations, Current, Cut
<1> QED
  BY <1>1, <1>2, <1>3, <1>4, <1>5, <1>6, <1>7 DEF Next

-----------------------------------------------------------------------------
\* No cut or update time is ahead of the host's log, a row was true when it was listed,
\* the slice about to be written covers it and takes nothing away, and bookkeeping that
\* is up to date goes with a slice that is: at every moment, whatever other clients
\* write, delete or bill.
THEOREM ScanInvariant == Spec => []ScanInv
<1>1. Init => ScanInv
  BY InitScanInv
<1>2. ScanInv /\ [Next]_vars => ScanInv'
  BY NextScanInv
<1> QED
  BY <1>1, <1>2, PTL DEF Spec

\* The types of the ledger's files, of what clients hold and of their scans.
THEOREM ScanTyped == Spec => []TypeOK
<1>1. ScanInv => TypeOK
  BY DEF ScanInv
<1> QED
  BY <1>1, ScanInvariant, PTL

\* A session that is passed over has been read: mayHaveChanged() of the cost scan never
\* says no of a log the client does not hold, and no scan outlives its generation.
THEOREM PassedOverIsCurrent == Spec => []SkippedIsCurrent
<1>1. ScanInv => SkippedIsCurrent
  BY DEF ScanInv, ReadIsHeld, ScansOfGenerations, SkippedIsCurrent
<1> QED
  BY <1>1, ScanInvariant, PTL
-----------------------------------------------------------------------------
(* What a start installs over the operator's files.                        *)

\* What the files of prices and loops can hold.
SettingsTyped ==
    /\ prices \in Releases \cup {None, Torn, Mine}
    /\ stamp \in Releases \cup {None}
    /\ loops \in {None, Torn} \/ loops \in [Records -> Releases \cup {None, Mine}]
    /\ seed = None \/ seed \in [Records -> Releases \cup {None}]
    /\ release \in [Processes -> Releases]

\* A record the operator wrote is in a file that parses.
WrittenInPlace ==
    /\ wrote = [prices |-> wrote.prices, records |-> wrote.records,
                texts |-> wrote.texts, removed |-> wrote.removed]
    /\ wrote.records \subseteq Records
    /\ wrote.records # {} => loops \in [Records -> Releases \cup {None, Mine}]

SettingsInv == SettingsTyped /\ WrittenInPlace /\ SettingsSurvive

LEMMA SettingsInit == SetupInit => SettingsInv
<1> SUFFICES ASSUME SetupInit PROVE SettingsInv OBVIOUS
<1>1. SettingsTyped
  BY SetupAssumption DEF SetupInit, SettingsTyped
<1>2. /\ wrote = [prices |-> prices = Mine, records |-> {}, texts |-> {}, removed |-> {}]
      /\ wrote.records = {}
      /\ wrote.prices = (prices = Mine)
  BY DEF SetupInit
<1>3. WrittenInPlace
  BY <1>2 DEF WrittenInPlace
<1>4. SettingsSurvive
  BY <1>2 DEF SettingsSurvive
<1> QED BY <1>1, <1>3, <1>4 DEF SettingsInv

\* A table or a record that is Mine is neither nobody's nor a release's.
LEMMA MineStays ==
    ASSUME SettingsInv, NEW shipped \in [Records -> Releases \cup {None}], NEW n \in Records,
           loops \in [Records -> Releases \cup {None, Mine}]
    PROVE  /\ Merged(shipped, loops) \in [Records -> Releases \cup {None, Mine}]
           /\ loops[n] = Mine => Merged(shipped, loops)[n] = Mine
<1>1. \A m \in Records : seed # None => seed[m] \in Releases \cup {None}
  BY DEF SettingsInv, SettingsTyped
<1> QED BY <1>1, SetupAssumption DEF Merged

LEMMA PricesStep ==
    ASSUME SettingsInv, NEW p \in Processes, InstallPrices(p) \/ StampPrices(p)
    PROVE  SettingsInv'
<1>1. release[p] \in Releases /\ UNCHANGED <<loops, seed, release, wrote>>
  BY DEF SettingsInv, SettingsTyped, InstallPrices, StampPrices
<1>2. prices' \in {prices, release[p]} /\ stamp' \in {stamp, release[p]}
  BY DEF InstallPrices, StampPrices
<1>3. wrote.prices => prices' = prices
  BY SetupAssumption
  DEF SettingsInv, SettingsTyped, SettingsSurvive, InstallPrices, StampPrices, Owned, IsUncorrectedSeed
<1> QED BY <1>1, <1>2, <1>3 DEF SettingsInv, SettingsTyped, WrittenInPlace, SettingsSurvive

LEMMA LoopsStep ==
    ASSUME SettingsInv, NEW p \in Processes, InstallLoops(p) \/ SeedLoops(p)
    PROVE  SettingsInv'
<1>1. /\ release[p] \in Releases /\ UNCHANGED <<prices, stamp, release, wrote>>
      /\ RecordsOf[release[p]] \in [Records -> Releases \cup {None}]
  BY SetupAssumption DEF SettingsInv, SettingsTyped, InstallLoops, SeedLoops
<1>2. CASE loops' = loops /\ (seed' = seed \/ seed' = RecordsOf[release[p]])
  BY <1>1, <1>2 DEF SettingsInv, SettingsTyped, WrittenInPlace, SettingsSurvive
<1>3. CASE InstallLoops(p) /\ loops # Torn
  <2>1. seed' = seed /\ loops' = IF loops = None THEN RecordsOf[release[p]]
                                 ELSE Merged(RecordsOf[release[p]], loops)
    BY <1>3 DEF InstallLoops
  <2>2. CASE loops = None
    <3>1. wrote.records = {}
      BY <2>2, SetupAssumption DEF SettingsInv, WrittenInPlace
    <3>2. loops' \in [Records -> Releases \cup {None, Mine}]
      BY <1>1, <2>1, <2>2
    <3> QED BY <1>1, <2>1, <3>1, <3>2 DEF SettingsInv, SettingsTyped, WrittenInPlace, SettingsSurvive
  <2>3. CASE loops # None
    <3>1. loops \in [Records -> Releases \cup {None, Mine}]
      BY <1>3, <2>3 DEF SettingsInv, SettingsTyped
    <3>2. Merged(RecordsOf[release[p]], loops) \in [Records -> Releases \cup {None, Mine}]
      BY <1>1, <3>1, SetupAssumption DEF Merged, SettingsInv, SettingsTyped
    <3>3. \A n \in Records : loops[n] = Mine => loops'[n] = Mine
      BY <1>1, <2>1, <2>3, <3>1, MineStays
    <3> QED BY <1>1, <2>1, <2>3, <3>2, <3>3
            DEF SettingsInv, SettingsTyped, WrittenInPlace, SettingsSurvive
  <2> QED BY <2>2, <2>3
<1> QED BY <1>2, <1>3 DEF InstallLoops, SeedLoops

\* The prompts have files of their own.
LEMMA PromptsStep ==
    ASSUME SettingsInv, NEW p \in Processes,
           \/ AdoptPrompts(p) \/ InstallPrompts(p) \/ MigrateLegacy(p) \/ LoadPrompts(p) \/ Quits(p)
    PROVE  SettingsInv'
<1>1. UNCHANGED <<prices, stamp, loops, seed, release, wrote>>
  BY DEF AdoptPrompts, InstallPrompts, MigrateLegacy, LoadPrompts, Quits
<1> QED BY <1>1 DEF SettingsInv, SettingsTyped, WrittenInPlace, SettingsSurvive

LEMMA StoreStep ==
    ASSUME SettingsInv, NEW p \in Processes,
           \/ \E text \in Typed : SavePrompt(p, text) \/ \E id \in PromptIds : UpdatePrompt(p, id, text)
           \/ \E id \in PromptIds : RemovePrompt(p, id)
    PROVE  SettingsInv'
<1>1. /\ UNCHANGED <<prices, stamp, loops, seed, release>>
      /\ \E texts, removed : wrote' = [wrote EXCEPT !.texts = texts, !.removed = removed]
  BY DEF SavePrompt, UpdatePrompt, RemovePrompt, Edit
<1>2. /\ wrote'.prices = wrote.prices /\ wrote'.records = wrote.records
      /\ wrote' = [prices |-> wrote'.prices, records |-> wrote'.records,
                   texts |-> wrote'.texts, removed |-> wrote'.removed]
  BY <1>1 DEF SettingsInv, WrittenInPlace
<1> QED BY <1>1, <1>2 DEF SettingsInv, SettingsTyped, WrittenInPlace, SettingsSurvive

LEMMA BeginsStep == ASSUME SettingsInv, NEW p \in Processes, Begins(p) PROVE SettingsInv'
  BY DEF Begins, SettingsInv, SettingsTyped, WrittenInPlace, SettingsSurvive

\* A file is torn only where there was none.
LEMMA CrashStep == ASSUME SettingsInv, NEW p \in Processes, Crashes(p) PROVE SettingsInv'
<1>1. /\ UNCHANGED <<stamp, seed, release, wrote>>
      /\ prices' = prices \/ (prices = None /\ prices' = Torn)
      /\ loops' = loops \/ (loops = None /\ loops' = Torn)
  BY DEF Crashes
<1>2. loops = None => wrote.records = {}
  BY SetupAssumption DEF SettingsInv, WrittenInPlace
<1>3. prices = None => ~wrote.prices
  BY SetupAssumption DEF SettingsInv, SettingsSurvive
<1> QED BY <1>1, <1>2, <1>3 DEF SettingsInv, SettingsTyped, WrittenInPlace, SettingsSurvive

LEMMA HandStep ==
    ASSUME SettingsInv,
           \/ HandPrices \/ \E n \in Records : HandRecord(n)
           \/ \E i \in 1 .. MaxSaved, text \in Typed : HandPrompt(i, text)
    PROVE  SettingsInv'
<1>1. UNCHANGED <<stamp, seed, release>>
  BY DEF HandPrices, HandRecord, HandPrompt, ByHand
<1>2. CASE HandPrices
  BY <1>1, <1>2 DEF HandPrices, SettingsInv, SettingsTyped, WrittenInPlace, SettingsSurvive
<1>3. ASSUME NEW n \in Records, HandRecord(n) PROVE SettingsInv'
  <2>1. /\ loops \in [Records -> Releases \cup {None, Mine}]
        /\ loops' = [loops EXCEPT ![n] = Mine] /\ prices' = prices
        /\ wrote' = [wrote EXCEPT !.records = @ \cup {n}]
    BY <1>3 DEF HandRecord, SettingsInv, SettingsTyped
  <2>2. /\ wrote'.prices = wrote.prices /\ wrote'.records = wrote.records \cup {n}
        /\ wrote' = [prices |-> wrote'.prices, records |-> wrote'.records,
                     texts |-> wrote'.texts, removed |-> wrote'.removed]
    BY <2>1 DEF SettingsInv, WrittenInPlace
  <2> QED BY <1>1, <2>1, <2>2 DEF SettingsInv, SettingsTyped, WrittenInPlace, SettingsSurvive
<1>4. ASSUME NEW i \in 1 .. MaxSaved, NEW text \in Typed, HandPrompt(i, text) PROVE SettingsInv'
  <2>1. /\ UNCHANGED <<prices, loops>>
        /\ \E texts, removed : wrote' = [wrote EXCEPT !.texts = texts, !.removed = removed]
    BY <1>4 DEF HandPrompt
  <2>2. /\ wrote'.prices = wrote.prices /\ wrote'.records = wrote.records
        /\ wrote' = [prices |-> wrote'.prices, records |-> wrote'.records,
                     texts |-> wrote'.texts, removed |-> wrote'.removed]
    BY <2>1 DEF SettingsInv, WrittenInPlace
  <2> QED BY <1>1, <2>1, <2>2 DEF SettingsInv, SettingsTyped, WrittenInPlace, SettingsSurvive
<1> QED BY <1>2, <1>3, <1>4

LEMMA SettingsStep == SettingsInv /\ [SetupNext]_setupVars => SettingsInv'
<1> SUFFICES ASSUME SettingsInv, [SetupNext]_setupVars PROVE SettingsInv'
  OBVIOUS
<1>1. CASE UNCHANGED setupVars
  BY <1>1 DEF setupVars, SettingsInv, SettingsTyped, WrittenInPlace, SettingsSurvive
<1>2. CASE SetupNext
  BY <1>2, BeginsStep, PricesStep, LoopsStep, PromptsStep, StoreStep, CrashStep, HandStep DEF SetupNext
<1> QED BY <1>1, <1>2

\* What the operator wrote into the price table and the loop file stays, whatever is
\* installed over it: for any number of clients that start at once, any releases in any
\* order, and a crash between any two files (cost/config.ts, controller/loop-source.ts).
THEOREM HandEditsSurvive == SetupSpec => []SettingsSurvive
<1>1. SettingsInv => SettingsSurvive BY DEF SettingsInv
<1> QED BY <1>1, SettingsInit, SettingsStep, PTL DEF SetupSpec
=============================================================================
