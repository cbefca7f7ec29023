--------------------------- MODULE ForegroundSlot ---------------------------
(***************************************************************************)
(* controller/foreground.ts: ForegroundSlot, the slot for the one          *)
(* operation the operator is running.                                      *)
(*                                                                         *)
(* Each call of run() is a claim.  A claim is made from some async         *)
(* context: none, or that of an operation which may still be running or be *)
(* long over (AsyncLocalStorage follows every callback the work left       *)
(* behind).  run() executes without a break from its call, or from the     *)
(* microtask that resumes a woken waiter, up to the point where the work   *)
(* has begun; the only foreign code inside that stretch are the listeners, *)
(* which may cancel, close or claim, so Begin and Start are two actions.   *)
(* A listener called from the finally block that claims at once is a Claim *)
(* between End and the Resume of the waiter End woke.                      *)
(***************************************************************************)
EXTENDS Naturals, Sequences

CONSTANTS
    Claims,  \* the calls of run(), each made at most once
    Nobody   \* no operation; as a context: outside every operation

ASSUME ClaimAssumption == Nobody \notin Claims

VARIABLES
    current,  \* the operation holding the slot
    aborted,  \* the operations whose signal was aborted
    waiters,  \* the claims waiting for the slot, in arrival order
    granted,  \* whether the empty slot is promised to a woken waiter
    closed,
    progress, \* how far each claim has come
    store,    \* the operation whose context each claim's caller runs in
    ahead     \* history: who was waiting for the slot when each claim came

slotVars == <<current, aborted, waiters, granted, closed, progress, store, ahead>>

Progress == {"idle", "waiting", "woken", "begun", "running", "nested",
             "refused", "settled", "joined"}

SlotTypeOK ==
    /\ current \in Claims \cup {Nobody}
    /\ aborted \in SUBSET Claims
    /\ waiters \in Seq(Claims)
    /\ granted \in BOOLEAN
    /\ closed \in BOOLEAN
    /\ progress \in [Claims -> Progress]
    /\ store \in [Claims -> Claims \cup {Nobody}]
    /\ ahead \in [Claims -> SUBSET Claims]

SlotInit ==
    /\ current = Nobody
    /\ aborted = {}
    /\ waiters = <<>>
    /\ granted = FALSE
    /\ closed = FALSE
    /\ progress = [c \in Claims |-> "idle"]
    /\ store = [c \in Claims |-> Nobody]
    /\ ahead = [c \in Claims |-> {}]

\* The claims that wait for the slot or were woken to take it.
InLine == {c \in Claims : progress[c] \in {"waiting", "woken"}}

\* The contexts a caller can inherit: those of the operations whose work began.
Contexts == {Nobody} \cup {o \in Claims : progress[o] \in {"running", "settled"}}

\* A plausible bug: any inherited context counts, even of an operation long over.
MutantOwnsCurrent(context) == current # Nobody /\ context # Nobody

\* ownsCurrent(): an inherited context owns the slot only while it is current's.
OwnsCurrent(context) == current # Nobody /\ context = current

Taken == current # Nobody \/ granted

\* A new call of run(), up to where it settles, waits or holds the slot.
Call(c, context) ==
    /\ progress[c] = "idle"
    /\ context \in Contexts
    /\ store' = [store EXCEPT ![c] = context]
    /\ ahead' = [ahead EXCEPT ![c] = InLine]

\* run() returns undefined at once: the slot is closed, the owner was cancelled,
\* or the slot is taken and the caller would not wait.
Refuse(c, context) ==
    /\ Call(c, context)
    /\ \/ closed
       \/ OwnsCurrent(context) /\ current \in aborted
       \/ ~OwnsCurrent(context) /\ Taken
    /\ progress' = [progress EXCEPT ![c] = "refused"]
    /\ UNCHANGED <<current, aborted, waiters, granted, closed>>

\* Work called from inside the operation shares its slot and its signal.
Nest(c, context) ==
    /\ Call(c, context)
    /\ ~closed
    /\ OwnsCurrent(context)
    /\ current \notin aborted
    /\ progress' = [progress EXCEPT ![c] = "nested"]
    /\ UNCHANGED <<current, aborted, waiters, granted, closed>>

\* A plausible bug: the newest waiter first.
MutantWait(c, context) ==
    /\ Call(c, context)
    /\ ~closed
    /\ ~OwnsCurrent(context)
    /\ Taken
    /\ waiters' = <<c>> \o waiters
    /\ progress' = [progress EXCEPT ![c] = "waiting"]
    /\ UNCHANGED <<current, aborted, granted, closed>>

Wait(c, context) ==
    /\ Call(c, context)
    /\ ~closed
    /\ ~OwnsCurrent(context)
    /\ Taken
    /\ waiters' = Append(waiters, c)
    /\ progress' = [progress EXCEPT ![c] = "waiting"]
    /\ UNCHANGED <<current, aborted, granted, closed>>

\* The claim becomes the operation and its begin is published.
Occupy(c) ==
    /\ current' = c
    /\ progress' = [progress EXCEPT ![c] = "begun"]

Begin(c, context) ==
    /\ Call(c, context)
    /\ ~closed
    /\ ~Taken
    /\ Occupy(c)
    /\ UNCHANGED <<aborted, waiters, granted, closed>>

\* A woken waiter resumes: it takes the slot promised to it, unless close() came.
Resume(c) ==
    /\ progress[c] = "woken"
    /\ granted' = FALSE
    /\ IF closed
       THEN progress' = [progress EXCEPT ![c] = "refused"] /\ UNCHANGED current
       ELSE Occupy(c)
    /\ UNCHANGED <<aborted, waiters, closed, store, ahead>>

\* The finally block of run(): empty the slot, promise it to the first waiter
\* and wake it.  The claim ends as `outcome`.
End(c, outcome) ==
    /\ current' = Nobody
    /\ granted' = (waiters # <<>>)
    /\ IF waiters = <<>>
       THEN /\ progress' = [progress EXCEPT ![c] = outcome]
            /\ UNCHANGED waiters
       ELSE /\ progress' = [progress EXCEPT ![c] = outcome, ![Head(waiters)] = "woken"]
            /\ waiters' = Tail(waiters)
    /\ UNCHANGED <<aborted, closed, store, ahead>>

\* The work begins, unless a listener cancelled the operation first.
Start(c) ==
    /\ progress[c] = "begun"
    /\ IF c \in aborted
       THEN End(c, "refused")
       ELSE /\ progress' = [progress EXCEPT ![c] = "running"]
            /\ UNCHANGED <<current, aborted, waiters, granted, closed, store, ahead>>

\* The work settles, with a result or an error; a cancelled one in its own time.
Settle(c) == progress[c] = "running" /\ End(c, "settled")

\* Nested work settles; its caller need not have waited for it.
SettleNested(c) ==
    /\ progress[c] = "nested"
    /\ progress' = [progress EXCEPT ![c] = "joined"]
    /\ UNCHANGED <<current, aborted, waiters, granted, closed, store, ahead>>

\* A plausible bug: an empty slot is cancelled as well.
MutantCancel ==
    /\ aborted' = aborted \cup {current}
    /\ UNCHANGED <<current, waiters, granted, closed, progress, store, ahead>>

Cancel ==
    /\ current # Nobody
    /\ aborted' = aborted \cup {current}
    /\ UNCHANGED <<current, waiters, granted, closed, progress, store, ahead>>

\* A plausible bug: close() leaves the waiting callers to the next release.
MutantClose ==
    /\ ~closed
    /\ closed' = TRUE
    /\ aborted' = aborted \cup (IF current = Nobody THEN {} ELSE {current})
    /\ waiters' = <<>>
    /\ UNCHANGED <<current, granted, progress, store, ahead>>

Close ==
    /\ ~closed
    /\ closed' = TRUE
    /\ aborted' = aborted \cup (IF current = Nobody THEN {} ELSE {current})
    /\ progress' = [c \in Claims |-> IF progress[c] = "waiting" THEN "woken" ELSE progress[c]]
    /\ waiters' = <<>>
    /\ UNCHANGED <<current, granted, store, ahead>>

SlotNext ==
    \/ \E c \in Claims :
          \/ \E context \in Claims \cup {Nobody} :
                \/ Refuse(c, context)
                \/ Nest(c, context)
                \/ Wait(c, context)
                \/ Begin(c, context)
          \/ Resume(c)
          \/ Start(c)
          \/ Settle(c)
          \/ SettleNested(c)
    \/ Cancel
    \/ Close

SlotSpec == SlotInit /\ [][SlotNext]_slotVars

\* A promised microtask runs and a begin is followed by its work.  Settle is not
\* fair: the work may wait on the host for ever.
SlotFairness == \A c \in Claims : WF_slotVars(Resume(c)) /\ WF_slotVars(Start(c))

-----------------------------------------------------------------------------
\* The claims whose operation occupies the slot.
Occupants == {c \in Claims : progress[c] \in {"begun", "running"}}

\* One operation at a time, and the slot always names it: begun or running work
\* without the slot, or a slot left pointing at settled work, would break this.
OneOperation == Occupants = IF current = Nobody THEN {} ELSE {current}

\* The empty slot is promised exactly while somebody is on the way to it, and
\* nobody waits at a slot that no occupant or promised waiter will hand on.
SlotNeverStranded ==
    /\ ~closed => (granted <=> \E c \in Claims : progress[c] = "woken")
    /\ granted => current = Nobody
    /\ waiters # <<>> => Taken

\* The slot goes to the callers that wait for it in the order they came, and
\* never past one of them to a later call.
ArrivalOrder == \A c \in Occupants : ahead[c] \cap InLine = {}

\* What run() promises at every moment: the slot is one operation's, it never
\* rests while somebody waits for it, and those who wait take it in their order.
SlotGuarded == OneOperation /\ SlotNeverStranded /\ ArrivalOrder

\* Work starts only under the operation that holds the slot at that moment and
\* was not cancelled: not after a listener cancelled it between its begin and its
\* work, and not from a callback an earlier operation left behind.
StartsUnderLiveOperation ==
    [][\A c \in Claims :
          /\ progress'[c] = "running" /\ progress[c] # "running" =>
                current' = c /\ c \notin aborted
          /\ progress'[c] = "nested" /\ progress[c] # "nested" =>
                /\ progress[store'[c]] = "running"
                /\ store'[c] \notin aborted]_slotVars

\* Closing the slot releases every caller that waits, whatever the occupant does.
CloseReleases ==
    \A c \in Claims : closed /\ progress[c] \in {"waiting", "woken"} ~> progress[c] = "refused"

=============================================================================
