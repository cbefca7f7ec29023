------------------------------ MODULE CostScan ------------------------------
(***************************************************************************)
(* cost/controller.ts, ledger.ts and ledger-files.ts: the billing scan of  *)
(* several clients of one host that share one ledger directory.            *)
(*                                                                         *)
(* A scan lists the sessions, then reads the history of each that may have *)
(* changed up to the cursor of its opening snapshot (the cut), folds it    *)
(* and writes the slice of the session to its file.  Amounts are left out: *)
(* a slice is its cut, and it is right when it covers the whole log.  A    *)
(* row's update time is the number of billable events it has seen, since   *)
(* billable activity moves it.  All clients run the same pricing engine.   *)
(***************************************************************************)
EXTENDS Naturals, Sequences, SequencesExt

CONSTANTS
    Clients,   \* the processes that share the directory
    Listed,    \* the sessions, in the order the host lists them
    Selected,  \* the session each client has on screen
    Aged,      \* sessions last updated before the window, until something is billed
    Busy,      \* sessions whose turns run while the clients look on
    MaxLog,    \* bound: billable events of a session
    MaxFaults  \* bound: failures, cancelled scans, lost connections, restarts

Sessions == ToSet(Listed)

ASSUME ScanAssumption ==
    /\ Listed \in Seq(Sessions)
    /\ Selected \in [Clients -> Sessions]
    /\ Aged \subseteq Sessions /\ Busy \subseteq Sessions
    /\ MaxLog \in Nat /\ MaxFaults \in Nat

VARIABLES
    log,      \* billable events of each session, at the host
    running,  \* sessions whose turn runs
    file,     \* the cut in each session's ledger file, 0 without a file
    held,     \* ledger.sessions of each client: the cut it shows, 0 when none
    updates,  \* update times each client has recorded, 0 when none
    link,     \* each client's generation: up, ending (stop() waits), down; or loading
    timer,    \* clients whose minute timer is set
    scan,     \* the scan of each client
    faults

host == <<log, running>>
vars == <<log, running, file, held, updates, link, timer, scan, faults>>

\* A cut is one more than the events it covers, so that 0 means no slice.
Cut(s) == log[s] + 1

Row == [session : Sessions, running : BOOLEAN, updated : 0 .. MaxLog]
Phases == {"none", "listing", "reading", "comparing", "writing"}
Scans == [phase : Phases, rows : Seq(Row), cut : 0 .. MaxLog + 1, aborted : BOOLEAN]
NoScan == [phase |-> "none", rows |-> <<>>, cut |-> 0, aborted |-> FALSE]

TypeOK ==
    /\ log \in [Sessions -> 0 .. MaxLog]
    /\ running \subseteq Sessions
    /\ file \in [Sessions -> 0 .. MaxLog + 1]
    /\ held \in [Clients -> [Sessions -> 0 .. MaxLog + 1]]
    /\ updates \in [Clients -> [Sessions -> 0 .. MaxLog + 1]]
    /\ link \in [Clients -> {"up", "ending", "down", "loading"}]
    /\ timer \subseteq {c \in Clients : link[c] = "up"}
    /\ scan \in [Clients -> Scans]
    /\ \A c \in Clients :
          scan[c].phase \in {"reading", "comparing", "writing"} => scan[c].rows # <<>>
    /\ faults \in 0 .. MaxFaults

Init ==
    /\ log = [s \in Sessions |-> 0]
    /\ running = {}
    /\ file = [s \in Sessions |-> 0]
    /\ held = [c \in Clients |-> [s \in Sessions |-> 0]]
    /\ updates = [c \in Clients |-> [s \in Sessions |-> 0]]
    /\ link = [c \in Clients |-> "down"]
    /\ timer = {}
    /\ scan = [c \in Clients |-> NoScan]
    /\ faults = 0

Fault == faults < MaxFaults /\ faults' = faults + 1

-----------------------------------------------------------------------------
(* The generation of a client: start() and stop().                         *)

\* refresh() without a scan to join: the scan is reserved before anybody hears of it.
Reserve(c) == scan' = [scan EXCEPT ![c] = [NoScan EXCEPT !.phase = "listing"]]

\* start(): a generation begins without skip bookkeeping, and scans at once.
Start(c) ==
    /\ link[c] = "down"
    /\ link' = [link EXCEPT ![c] = "up"]
    /\ timer' = timer \cup {c}
    /\ updates' = [updates EXCEPT ![c] = [s \in Sessions |-> 0]]
    /\ Reserve(c)
    /\ UNCHANGED <<host, file, held, faults>>

\* A timer tick, the end of a turn, or /cost; a scan that runs already is joined.
Refresh(c) ==
    /\ c \in timer
    /\ scan[c].phase = "none"
    /\ Reserve(c)
    /\ UNCHANGED <<host, file, held, updates, link, timer, faults>>

\* A caller that started or joined the scan is cancelled: it ends for everybody.
Cancel(c) ==
    /\ Fault
    /\ link[c] = "up"
    /\ scan[c].phase # "none"
    /\ scan' = [scan EXCEPT ![c].aborted = TRUE]
    /\ UNCHANGED <<host, file, held, updates, link, timer>>

\* A plausible bug: the timer survives the generation.
MutantLose(c) ==
    /\ Fault
    /\ link[c] = "up"
    /\ link' = [link EXCEPT ![c] = "ending"]
    /\ scan' = [scan EXCEPT ![c].aborted = @ \/ scan[c].phase # "none"]
    /\ UNCHANGED <<host, file, held, updates, timer>>

\* The connection is lost: stop() clears the timer, aborts the scan and waits.
Lose(c) ==
    /\ Fault
    /\ link[c] = "up"
    /\ link' = [link EXCEPT ![c] = "ending"]
    /\ timer' = timer \ {c}
    /\ scan' = [scan EXCEPT ![c].aborted = @ \/ scan[c].phase # "none"]
    /\ UNCHANGED <<host, file, held, updates>>

\* A plausible bug: stop() does not wait for the scan.
MutantStopped(c) ==
    /\ link[c] = "ending"
    /\ link' = [link EXCEPT ![c] = "down"]
    /\ UNCHANGED <<host, file, held, updates, timer, scan, faults>>

Stopped(c) ==
    /\ link[c] = "ending"
    /\ scan[c].phase = "none"
    /\ link' = [link EXCEPT ![c] = "down"]
    /\ UNCHANGED <<host, file, held, updates, timer, scan, faults>>

\* The client quits or dies, and load() of the next one reads the files.
Restart(c) ==
    /\ Fault
    /\ held' = [held EXCEPT ![c] = file]
    /\ updates' = [updates EXCEPT ![c] = [s \in Sessions |-> 0]]
    /\ link' = [link EXCEPT ![c] = "loading"]
    /\ timer' = timer \ {c}
    /\ scan' = [scan EXCEPT ![c] = NoScan]
    /\ UNCHANGED <<host, file>>

\* A slice that covers no event has no day inside the window.
Outside(c) == {s \in Sessions : held[c][s] = 1}

\* pruneLedgers() then deletes the files of the slices outside the window, whatever
\* another client has written to them by now.
Prune(c) ==
    /\ link[c] = "loading"
    /\ file' = [s \in Sessions |-> IF s \in Outside(c) THEN 0 ELSE file[s]]
    /\ held' = [held EXCEPT ![c] = [s \in Sessions |-> IF s \in Outside(c) THEN 0 ELSE @[s]]]
    /\ link' = [link EXCEPT ![c] = "down"]
    /\ UNCHANGED <<host, updates, timer, scan, faults>>

\* Files that cannot be deleted are still there, and so are their slices.
PruneFails(c) ==
    /\ Fault
    /\ link[c] = "loading"
    /\ link' = [link EXCEPT ![c] = "down"]
    /\ UNCHANGED <<host, file, held, updates, timer, scan>>

-----------------------------------------------------------------------------
(* One scan: refresh(), sessionCostHistory(), replace() and saveLedger().   *)

Current(c) == Head(scan[c].rows)

\* Rows that cannot have changed, or have nothing inside the window, are not read.
Skips(c, row, seen) ==
    /\ ~row.running
    /\ \/ row.session \in Aged /\ row.updated = 0 /\ row.session # Selected[c]
       \/ seen[row.session] = row.updated + 1

\* The scan goes on with the first of these rows that has to be read, if any is left.
GoOn(c, rows, seen) ==
    LET next == SelectInSeq(rows, LAMBDA row : ~Skips(c, row, seen)) IN
    scan' = [scan EXCEPT ![c] =
                IF next = 0 \/ @.aborted THEN NoScan
                ELSE [NoScan EXCEPT !.phase = "reading", !.rows = SubSeq(rows, next, Len(rows))]]

List(c) ==
    /\ scan[c].phase = "listing"
    /\ ~scan[c].aborted
    /\ GoOn(c, [i \in DOMAIN Listed |-> [session |-> Listed[i],
                   running |-> Listed[i] \in running, updated |-> log[Listed[i]]]], updates[c])
    /\ UNCHANGED <<host, file, held, updates, link, timer, faults>>

\* The opening snapshot fixes the cut; the pages before it are read to the first.
Read(c) ==
    /\ scan[c].phase = "reading"
    /\ ~scan[c].aborted
    /\ scan' = [scan EXCEPT ![c].phase = "comparing", ![c].cut = Cut(Current(c).session)]
    /\ UNCHANGED <<host, file, held, updates, link, timer, faults>>

\* A plausible bug: the row of a session that failed counts as read.
MutantRowFails(c) ==
    /\ Fault
    /\ scan[c].phase \in {"reading", "comparing", "writing"}
    /\ updates' = [updates EXCEPT ![c][Current(c).session] = Current(c).updated + 1]
    /\ GoOn(c, Tail(scan[c].rows), updates'[c])
    /\ UNCHANGED <<host, file, held, link, timer>>

\* A session that cannot be read or written does not keep the others from being read.
RowFails(c) ==
    /\ Fault
    /\ scan[c].phase \in {"reading", "comparing", "writing"}
    /\ GoOn(c, Tail(scan[c].rows), updates[c])
    /\ UNCHANGED <<host, file, held, updates, link, timer>>

\* After replace(): the row counts as read, unless the session was running or the
\* scan was cancelled.
Recorded(c) ==
    /\ updates' = IF scan[c].aborted \/ Current(c).running THEN updates
                  ELSE [updates EXCEPT ![c][Current(c).session] = Current(c).updated + 1]
    /\ GoOn(c, Tail(scan[c].rows), updates'[c])

\* replace() and saveLedger() leave a newer cut alone, in memory or in the file.
Compare(c) ==
    LET s == Current(c).session IN
    /\ scan[c].phase = "comparing"
    /\ IF held[c][s] > scan[c].cut \/ file[s] > scan[c].cut
       THEN Recorded(c)
       ELSE scan' = [scan EXCEPT ![c].phase = "writing"] /\ UNCHANGED updates
    /\ UNCHANGED <<host, file, held, link, timer, faults>>

Write(c) ==
    LET s == Current(c).session IN
    /\ scan[c].phase = "writing"
    /\ file' = [file EXCEPT ![s] = scan[c].cut]
    /\ held' = [held EXCEPT ![c][s] = scan[c].cut]
    /\ Recorded(c)
    /\ UNCHANGED <<host, link, timer, faults>>

\* A cancelled scan ends where it would next have asked the host for something.
Interrupted(c) ==
    /\ scan[c].phase \in {"listing", "reading"}
    /\ scan[c].aborted
    /\ scan' = [scan EXCEPT ![c] = NoScan]
    /\ UNCHANGED <<host, file, held, updates, link, timer, faults>>

Scan(c) == List(c) \/ Read(c) \/ Compare(c) \/ Write(c) \/ Interrupted(c)

-----------------------------------------------------------------------------
(* The host.                                                               *)

TurnStarts(s) ==
    /\ log[s] < MaxLog
    /\ running' = running \cup {s}
    /\ s \notin running
    /\ UNCHANGED <<log, file, held, updates, link, timer, scan, faults>>

Bills(s) ==
    /\ s \in running
    /\ log[s] < MaxLog
    /\ log' = [log EXCEPT ![s] = @ + 1]
    /\ UNCHANGED <<running, file, held, updates, link, timer, scan, faults>>

TurnEnds(s) ==
    /\ s \in running
    /\ running' = running \ {s}
    /\ UNCHANGED <<log, file, held, updates, link, timer, scan, faults>>

Next ==
    \/ \E c \in Clients : \/ Start(c) \/ Refresh(c) \/ Cancel(c) \/ Lose(c) \/ Stopped(c)
                          \/ Restart(c) \/ Prune(c) \/ PruneFails(c)
                          \/ Scan(c) \/ RowFails(c)
    \/ \E s \in Busy : TurnStarts(s) \/ Bills(s) \/ TurnEnds(s)

\* load() ends, the minute timer ticks, a scan takes its steps, stop() returns and the
\* connection comes back.  The host owes nothing: its turns may go on for ever.
Fairness == \A c \in Clients :
    /\ WF_vars(Refresh(c))
    /\ WF_vars(Scan(c))
    /\ WF_vars(Stopped(c))
    /\ WF_vars(Prune(c))
    /\ WF_vars(Start(c))

Spec == Init /\ [][Next]_vars /\ Fairness

-----------------------------------------------------------------------------
(* What is checked.                                                        *)

\* A session is passed over only when it has been read: while the recorded update
\* time is that of an idle session, the client holds its whole log, whatever other
\* clients wrote and whatever was cancelled or failed meanwhile.  Nothing scans for
\* a generation that has ended.
SkippedIsCurrent ==
    \A c \in Clients :
        /\ \A s \in Sessions \ running : updates[c][s] = Cut(s) => held[c][s] >= Cut(s)
        /\ scan[c].phase # "none" => link[c] # "down"

\* Costs catch up: once a session is idle for good, every client that does not pass
\* it over for its age ends up with its whole log, in memory and in the shared file:
\* an older cut that won the race for the file does not stay, and a slice that another
\* client deletes as it is written comes back; only one without events may be missing.
CostsCatchUp ==
    \A c \in Clients, s \in Sessions :
        <>[](s \notin running) =>
            <>[](\/ held[c][s] = Cut(s) /\ file[s] \in {Cut(s)} \cup (IF log[s] = 0 THEN {0} ELSE {})
                 \/ s \in Aged /\ log[s] = 0 /\ s # Selected[c])

\* What the comment of saveLedger says: a scan that opened an older snapshot does
\* not replace a cut that another scan has persisted.
NewerCutStays ==
    [][ \A s \in Sessions : file'[s] # 0 => file'[s] >= file[s] ]_vars
=============================================================================
