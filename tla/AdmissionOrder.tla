--------------------------- MODULE AdmissionOrder ---------------------------
(***************************************************************************)
(* What a mutation gate promises its callers, without lanes, maps, waiting *)
(* lists or wake-ups.  For each session one section holds the gate at a    *)
(* time; when it returns, the gate passes at once to the waiting admission *)
(* that precedes all others: control before normal, then arrival order.    *)
(* MutationGate implements this specification.                             *)
(***************************************************************************)
EXTENDS Naturals

CONSTANTS
    Admissions,  \* the calls of admit(), each made at most once
    Sessions,    \* the sessions a mutation can target
    Target,      \* the session each call targets: [Admissions -> Sessions]
    LaneOf,      \* the lane each uses: [Admissions -> {"control", "normal"}]
    None         \* "no admission"

VARIABLES
    ticket,  \* ticket[a]: a's place in the arrival order, 0 before it arrives
    clock,   \* tickets given so far
    holder,  \* holder[s]: the admission whose section may run for session s
    served   \* the admissions whose section has run

vars == <<ticket, clock, holder, served>>

Init ==
    /\ ticket = [a \in Admissions |-> 0]
    /\ clock = 0
    /\ holder = [s \in Sessions |-> None]
    /\ served = {}

\* The admissions of session s that arrived and neither hold nor have held it.
Waiting(s) ==
    {a \in Admissions : /\ Target[a] = s
                        /\ ticket[a] # 0
                        /\ a \notin served
                        /\ holder[s] # a}

Precedes(a, b) ==
    \/ LaneOf[a] = "control" /\ LaneOf[b] = "normal"
    \/ LaneOf[a] = LaneOf[b] /\ ticket[a] < ticket[b]

Arrive(a) ==
    /\ ticket[a] = 0
    /\ clock' = clock + 1
    /\ ticket' = [ticket EXCEPT ![a] = clock + 1]
    /\ holder' = [holder EXCEPT ![Target[a]] = IF @ = None THEN a ELSE @]
    /\ UNCHANGED served

\* The section of session s returns and the gate passes on.
Return(s) ==
    /\ holder[s] # None
    /\ served' = served \cup {holder[s]}
    /\ \/ /\ Waiting(s) = {}
          /\ holder' = [holder EXCEPT ![s] = None]
       \/ \E next \in Waiting(s) :
             /\ \A other \in Waiting(s) \ {next} : Precedes(next, other)
             /\ holder' = [holder EXCEPT ![s] = next]
    /\ UNCHANGED <<ticket, clock>>

Next ==
    \/ \E a \in Admissions : Arrive(a)
    \/ \E s \in Sessions : Return(s)

Spec == Init /\ [][Next]_vars

=============================================================================
