---------------------------- MODULE MutationGate ----------------------------
(***************************************************************************)
(* session/mutation-gate.ts: SessionMutationGate, which orders the         *)
(* admission of a session's mutations.                                     *)
(*                                                                         *)
(* The client is one JavaScript event loop.  admit() runs without a break  *)
(* up to its await, so its first half is one action (AdmitNow when the     *)
(* gate is free, AdmitLater when it queues); the second half runs in a     *)
(* later microtask, after the gate was promised to it, and is one action   *)
(* too (a dispatch() section is synchronous, and release() follows it in   *)
(* the same turn).  A section that calls admit() again is an AdmitLater    *)
(* just before its Dispatch.                                               *)
(*                                                                         *)
(* A Lane is a heap object that a pending admit() keeps by reference while *)
(* the map may already hold another one, so lanes have identities here:    *)
(* the object that call a creates is named a.                              *)
(***************************************************************************)
EXTENDS Naturals, Sequences

CONSTANTS Admissions, Sessions, Target, LaneOf, None

MutationLane == {"control", "normal"}

ASSUME GateAssumption ==
    /\ Target \in [Admissions -> Sessions]
    /\ LaneOf \in [Admissions -> MutationLane]
    /\ None \notin Admissions

VARIABLES
    lanes,    \* the lanes map: session -> Lane object, None when absent
    busy,     \* Lane.busy of each Lane object
    queue,    \* Lane.control and Lane.normal of each Lane object
    state,    \* the Lane object each pending admit() captured
    pc,       \* how far each call has come
    ticket,   \* history: arrival order of the calls, 0 before a call
    clock     \* history: calls so far

vars == <<lanes, busy, queue, state, pc, ticket, clock>>

TypeOK ==
    /\ lanes \in [Sessions -> Admissions \cup {None}]
    /\ busy \in [Admissions -> BOOLEAN]
    /\ queue \in [Admissions -> [MutationLane -> Seq(Admissions)]]
    /\ state \in [Admissions -> Admissions \cup {None}]
    /\ pc \in [Admissions -> {"idle", "queued", "admitted", "done"}]
    /\ ticket \in [Admissions -> Nat]
    /\ clock \in Nat

Init ==
    /\ lanes = [s \in Sessions |-> None]
    /\ busy = [o \in Admissions |-> FALSE]
    /\ queue = [o \in Admissions |-> [l \in MutationLane |-> <<>>]]
    /\ state = [a \in Admissions |-> None]
    /\ pc = [a \in Admissions |-> "idle"]
    /\ ticket = [a \in Admissions |-> 0]
    /\ clock = 0

\* this.lanes.get(sessionId) ?? a new Lane
LaneFor(a) == IF lanes[Target[a]] = None THEN a ELSE lanes[Target[a]]

\* What both outcomes of admit()'s first half do: look the lane up, store it in
\* the map and capture it.
Enter(a) ==
    /\ pc[a] = "idle"
    /\ lanes' = [lanes EXCEPT ![Target[a]] = LaneFor(a)]
    /\ state' = [state EXCEPT ![a] = LaneFor(a)]
    /\ clock' = clock + 1
    /\ ticket' = [ticket EXCEPT ![a] = clock + 1]

\* acquire() on a free lane takes it before the first await.
AdmitNow(a) ==
    /\ Enter(a)
    /\ ~busy[LaneFor(a)]
    /\ busy' = [busy EXCEPT ![LaneFor(a)] = TRUE]
    /\ pc' = [pc EXCEPT ![a] = "admitted"]
    /\ UNCHANGED queue

\* A plausible bug: one list for both lanes.
MutantAdmitLater(a) ==
    /\ Enter(a)
    /\ busy[LaneFor(a)]
    /\ queue' = [queue EXCEPT ![LaneFor(a)]["normal"] = Append(@, a)]
    /\ pc' = [pc EXCEPT ![a] = "queued"]
    /\ UNCHANGED busy

\* acquire() on a busy lane pushes its resolver onto its own list.
AdmitLater(a) ==
    /\ Enter(a)
    /\ busy[LaneFor(a)]
    /\ queue' = [queue EXCEPT ![LaneFor(a)][LaneOf[a]] = Append(@, a)]
    /\ pc' = [pc EXCEPT ![a] = "queued"]
    /\ UNCHANGED busy

\* The list release() shifts from: control ?? normal.
NextLane(o) == IF queue[o]["control"] # <<>> THEN "control" ELSE "normal"

\* A plausible bug: the gate is freed while the waiter is on its way, so a call
\* that arrives meanwhile takes it as well.
MutantFreedHandOff(a) ==
    /\ pc[a] = "admitted"
    /\ LET o == state[a]
           l == NextLane(o)
       IN  /\ queue[o][l] # <<>>
           /\ queue' = [queue EXCEPT ![o][l] = Tail(@)]
           /\ pc' = [pc EXCEPT ![a] = "done", ![Head(queue[o][l])] = "admitted"]
           /\ busy' = [busy EXCEPT ![o] = FALSE]
    /\ UNCHANGED <<lanes, state, ticket, clock>>

\* A's section runs and release() wakes the next waiter, keeping busy set.
HandOff(a) ==
    /\ pc[a] = "admitted"
    /\ LET o == state[a]
           l == NextLane(o)
       IN  /\ queue[o][l] # <<>>
           /\ queue' = [queue EXCEPT ![o][l] = Tail(@)]
           /\ pc' = [pc EXCEPT ![a] = "done", ![Head(queue[o][l])] = "admitted"]
    /\ UNCHANGED <<lanes, busy, state, ticket, clock>>

\* A's section runs and release() finds nobody waiting.
Free(a) ==
    /\ pc[a] = "admitted"
    /\ LET o == state[a]
       IN  /\ \A l \in MutationLane : queue[o][l] = <<>>
           /\ busy' = [busy EXCEPT ![o] = FALSE]
           /\ lanes' = [lanes EXCEPT ![Target[a]] = IF @ = o THEN None ELSE @]
    /\ pc' = [pc EXCEPT ![a] = "done"]
    /\ UNCHANGED <<queue, state, ticket, clock>>

Dispatch(a) == HandOff(a) \/ Free(a)

Next == \E a \in Admissions : AdmitNow(a) \/ AdmitLater(a) \/ Dispatch(a)

Spec == Init /\ [][Next]_vars

\* A microtask whose promise has resolved always runs; callers may never call.
GateFairness == \A a \in Admissions : WF_vars(Dispatch(a))

-----------------------------------------------------------------------------
\* Only one section of a session may run at a time: the gate is never promised
\* to two admissions of one session, whatever lane objects come and go.
SectionExclusion ==
    \A a, b \in Admissions :
        /\ pc[a] = "admitted"
        /\ pc[b] = "admitted"
        /\ Target[a] = Target[b]
        => a = b

\* A waiter is never forgotten: it waits once, in the Lane the map still holds
\* for its session, and an admitted section of that Lane is there to wake it.
\* A lane dropped from the map with a waiter in it, or a waiter promised the
\* gate and still listed, would break this.
NoStrandedWaiter ==
    \A a \in Admissions :
        pc[a] = "queued" =>
            LET o == lanes[Target[a]]
            IN  /\ o # None
                /\ o = state[a]
                /\ \E i \in DOMAIN queue[o][LaneOf[a]] :
                      /\ queue[o][LaneOf[a]][i] = a
                      /\ \A j \in DOMAIN queue[o][LaneOf[a]] :
                            queue[o][LaneOf[a]][j] = a => j = i
                /\ \E b \in Admissions : pc[b] = "admitted" /\ state[b] = o

\* What admit() promises its callers at every moment: theirs is the only section
\* of the session that runs, and until it does they stand where they will be called.
SectionsGuarded == SectionExclusion /\ NoStrandedWaiter

\* Every call of admit() is eventually dispatched (calls are finitely many, so
\* control calls cannot overtake a normal one for ever).
EveryAdmissionDispatches ==
    \A a \in Admissions : pc[a] # "idle" ~> pc[a] = "done"

\* The refinement mapping: who may run a section of each session when the calls
\* have come as far as p, and whose section has run.
HolderAt(p) ==
    [s \in Sessions |->
        IF \E a \in Admissions : Target[a] = s /\ p[a] = "admitted"
        THEN CHOOSE a \in Admissions : Target[a] = s /\ p[a] = "admitted"
        ELSE None]

Served == {a \in Admissions : pc[a] = "done"}

Order == INSTANCE AdmissionOrder WITH holder <- HolderAt(pc), served <- Served

\* The gate serves control admissions before normal ones, each in the order
\* they arrived, and never idles while one waits.
AdmissionsInOrder == Order!Spec

=============================================================================
