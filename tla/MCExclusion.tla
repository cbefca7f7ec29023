---------------------------- MODULE MCExclusion -----------------------------
(* What admits one operation at a time: the gate of a session's writes       *)
(* (MutationGate), and the slot of the operator's operation (ForegroundSlot). *)
(* They share no state, so a behaviour is one of either, beside the other's  *)
(* initial state.                                                            *)
EXTENDS MutationGate, ForegroundSlot

\* Three normal and two control calls on one session and a call on another, so that lanes
\* queue, hand off, empty and are created again.
MCAdmissions == {"n1", "n2", "n3", "c1", "c2", "m1"}
MCTarget == [a \in MCAdmissions |-> IF a = "m1" THEN "other" ELSE "session"]
MCLaneOf == [a \in MCAdmissions |-> IF a \in {"c1", "c2"} THEN "control" ELSE "normal"]

\* Claims are all alike until they are made, so they are made in the order of their
\* numbers: any behaviour is one of these with its claims renamed.
ClaimedInOrder ==
    \A c, d \in Claims : c < d /\ progress[d] # "idle" => progress[c] # "idle"

exclusionVars == <<vars, slotVars>>

\* The types of both parts.
ExclusionTypeOK == TypeOK /\ SlotTypeOK

ExclusionInit == Init /\ SlotInit

ExclusionNext ==
    \/ SlotInit /\ Next /\ UNCHANGED slotVars
    \/ Init /\ SlotNext /\ ClaimedInOrder' /\ UNCHANGED vars

ExclusionSpec ==
    /\ ExclusionInit /\ [][ExclusionNext]_exclusionVars
    /\ GateFairness /\ SlotFairness

\* Nobody waits for ever: every call of admit() is dispatched, and close() of the slot
\* releases every caller (see both modules).
WaitersGoOn == EveryAdmissionDispatches /\ CloseReleases
=============================================================================
