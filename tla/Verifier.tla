------------------------------ MODULE Verifier ------------------------------
(***************************************************************************)
(* cli/verifier.ts: ProcessVerifier.verify, the child client it runs       *)
(* (cli/startup.ts) and the host that owns the child's session.            *)
(*                                                                         *)
(* One attempt may take several tasks: the coordinator starts another one  *)
(* when a verification was unavailable and may be retried.  Tasks follow   *)
(* each other, so the fields of one verify() are plain variables and only  *)
(* the turn of each task's session at the host outlives it.  The operator, *)
(* the deadline, the child, the host and the agent's turn all take their   *)
(* own steps; a step of the parent runs from one await to the next.        *)
(***************************************************************************)
EXTENDS Naturals, Sequences, SequencesExt

CONSTANTS
    MaxTasks,  \* bound: verifications of one attempt, the first and its retries
    Replies    \* what a turn may reply: sequences of JSON objects, by their use

ASSUME VerifierAssumption == MaxTasks \in Nat /\ <<>> \in Replies

VARIABLES
    verification, \* the verification in progress, or the last one
    pc,         \* how far verify() has come
    signalled,  \* the coordinator aborted the signal it passed
    stops,      \* which of "cancelled" and "timedOut" are set
    confirm,    \* the cancel request of this task: none, asked, and its answer
    outcome,    \* what the last finished verify() returned
    child,      \* the forked client
    human,      \* the child printed the line of a request it cannot answer
    file,       \* what is in the verdict file
    changed,    \* the artifact differs from its fingerprint
    turn,       \* the turn of each task's session, at the host
    reply,      \* what the last turn replied
    calls,      \* prompts and cancels on their way to the host
    cut         \* history: the child was told to stop before it ended

parent == <<verification, pc, signalled, stops, confirm, outcome, human>>
remote == <<turn, reply, calls>>
verifierVars == <<verification, pc, signalled, stops, confirm, outcome, child, human, file,
          changed, turn, reply, calls, cut>>

Tasks == 1 .. MaxTasks
NoOutcome == [type |-> "none", retry |-> FALSE]

\* A plausible bug: any outcome may be retried.
MutantOutcome(type) == [type |-> type, retry |-> TRUE]

\* VerifierOutcome: only an unavailable one may say that a retry is of no use.
Outcome(type) == [type |-> type, retry |-> FALSE]
Unavailable(retry) == [type |-> "unavailable", retry |-> retry]

\* Where verify() waits for the host's answer to a cancel, by what it will return.
Waits == {"abandoning", "cancelled", "needs-human", "timedOut"}

VerifierTypeOK ==
    /\ verification \in 0 .. MaxTasks
    /\ pc \in Waits \cup {"idle", "preparing", "creating", "running", "reading", "done"}
    /\ signalled \in BOOLEAN
    /\ stops \subseteq {"cancelled", "timedOut"}
    /\ confirm \in {"none", "asked", "confirmed", "rejected"}
    /\ outcome.type \in {"none", "verified", "unavailable", "cancelled", "needs-human"}
    /\ outcome.retry => outcome.type = "unavailable"
    /\ child \in {"none", "up", "sending", "waiting", "writing", "leaving", "dead"}
    /\ human \in BOOLEAN
    /\ file \in {"none", "verdict", "foreign"}
    /\ changed \in BOOLEAN
    /\ turn \in [Tasks -> {"none", "running", "blocked", "over"}]
    /\ reply \in Replies
    /\ calls \subseteq {"prompt", "cancel"} \X Tasks
    /\ cut \in BOOLEAN

VerifierInit ==
    /\ verification = 0
    /\ pc = "idle"
    /\ signalled = FALSE
    /\ stops = {}
    /\ confirm = "none"
    /\ outcome = NoOutcome
    /\ child = "none"
    /\ human = FALSE
    /\ file \in {"none", "foreign"}
    /\ changed = FALSE
    /\ turn = [t \in Tasks |-> "none"]
    /\ reply = <<>>
    /\ calls = {}
    /\ cut = FALSE

-----------------------------------------------------------------------------
(* The parent: verify().                                                   *)

\* The coordinator's call, and its retry of a verification that may be retried.
Verify ==
    /\ verification < MaxTasks
    /\ \/ pc = "idle"
       \/ /\ pc = "done"
          /\ outcome.retry
          /\ ~signalled
    /\ verification' = verification + 1
    /\ pc' = "preparing"
    /\ stops' = {}
    /\ confirm' = "none"
    /\ human' = FALSE
    /\ child' = "none"
    /\ cut' = FALSE
    /\ UNCHANGED <<signalled, outcome, file, changed, remote>>

\* stop(): ask the host to end the turn of a session that exists, once, and
\* terminate the child.
RequestCancel ==
    /\ confirm' = IF confirm = "none" THEN "asked" ELSE confirm
    /\ calls' = IF confirm = "none" THEN calls \cup {<<"cancel", verification>>} ELSE calls

StopVerifier(why) ==
    /\ stops' = stops \cup {why}
    /\ IF pc \in Waits \cup {"running", "reading"}
       THEN RequestCancel
       ELSE UNCHANGED <<confirm, calls>>
    /\ cut' = (cut \/ (pc = "running" /\ child # "dead"))

\* The old verdict is removed and the artifact fingerprinted; then the deadline
\* starts and the signal is listened to, and looked at once.
Prepared ==
    /\ pc = "preparing"
    /\ pc' = "creating"
    /\ file' = "none"
    /\ changed' = FALSE
    /\ stops' = IF signalled THEN {"cancelled"} ELSE {}
    /\ UNCHANGED <<verification, signalled, confirm, outcome, human, child, remote, cut>>

Listening == pc \in Waits \cup {"creating", "running", "reading"}

Abort ==
    /\ pc \notin {"idle", "done"}
    /\ ~signalled
    /\ signalled' = TRUE
    /\ IF Listening THEN StopVerifier("cancelled") ELSE UNCHANGED <<stops, confirm, calls, cut>>
    /\ UNCHANGED <<verification, pc, outcome, human, child, file, changed, turn, reply>>

Deadline ==
    /\ Listening
    /\ "timedOut" \notin stops
    /\ StopVerifier("timedOut")
    /\ UNCHANGED <<verification, pc, signalled, outcome, human, child, file, changed, turn, reply>>

Return(result) ==
    /\ pc' = "done"
    /\ outcome' = result

\* No session: the slot or the connection refused it, or the host did.
CreateFails ==
    /\ pc = "creating"
    /\ Return(Unavailable(TRUE))
    /\ UNCHANGED <<verification, signalled, stops, confirm, human, child, file, changed, remote, cut>>

\* The session exists: it is cancelled at once when nobody waits for it any more.
Created ==
    /\ pc = "creating"
    /\ IF stops # {}
       THEN pc' = "abandoning" /\ RequestCancel /\ UNCHANGED child
       ELSE pc' = "running" /\ child' = "up" /\ UNCHANGED <<confirm, calls>>
    /\ UNCHANGED <<verification, signalled, stops, outcome, human, file, changed, turn, reply, cut>>

\* A plausible bug: the deadline is not looked at when the child has ended.
MutantAfterChild ==
    IF "cancelled" \in stops THEN "cancelled" ELSE IF human THEN "needs-human" ELSE "reading"

\* What follows the end of the child: nothing it left is read after a stop.
AfterChild ==
    IF "cancelled" \in stops THEN "cancelled"
    ELSE IF human THEN "needs-human"
    ELSE IF "timedOut" \in stops THEN "timedOut" ELSE "reading"

ChildClosed ==
    /\ pc = "running"
    /\ child = "dead"
    /\ pc' = AfterChild
    /\ IF pc' = "needs-human" THEN RequestCancel ELSE UNCHANGED <<confirm, calls>>
    /\ UNCHANGED <<verification, signalled, stops, outcome, human, child, file, changed,
                   turn, reply, cut>>

\* cancelNote(): a turn that may still run is not offered a retry.
Noted(stopped) ==
    CASE pc = "cancelled" \/ (pc = "abandoning" /\ "cancelled" \in stops) -> Outcome("cancelled")
      [] pc = "needs-human" -> Outcome("needs-human")
      [] OTHER -> Unavailable(stopped)

NoteAnswer ==
    /\ pc \in Waits
    /\ confirm \in {"confirmed", "rejected"}
    /\ Return(Noted(confirm = "confirmed"))
    /\ UNCHANGED <<verification, signalled, stops, confirm, human, child, file, changed, remote, cut>>

\* A plausible bug: the wait for the answer has no bound.
MutantNoteTimeout == FALSE /\ UNCHANGED verifierVars

\* CANCEL_CONFIRM_MS passed: local cleanup goes on without the host's answer.
NoteTimeout ==
    /\ pc \in Waits
    /\ confirm = "asked"
    /\ Return(Noted(FALSE))
    /\ UNCHANGED <<verification, signalled, stops, confirm, human, child, file, changed, remote, cut>>

\* The verdict file, the artifact and the identity in the verdict are looked at.
Judge ==
    /\ pc = "reading"
    /\ Return(IF file = "verdict" /\ ~changed THEN Outcome("verified") ELSE Unavailable(TRUE))
    /\ UNCHANGED <<verification, signalled, stops, confirm, human, child, file, changed, remote, cut>>

-----------------------------------------------------------------------------
(* The child: runStartup() with a prompt, --wait and --verdict.            *)

Moves(from, to) ==
    /\ child = from
    /\ child' = to
    /\ UNCHANGED <<parent, changed, turn, reply, cut>>

\* Connected, the session selected and its snapshot there: the prompt is sent.
ChildSends ==
    /\ Moves("up", "sending")
    /\ calls' = calls \cup {<<"prompt", verification>>}
    /\ UNCHANGED file

ChildWaits ==
    /\ Moves("sending", "waiting")
    /\ turn[verification] # "none"
    /\ UNCHANGED <<file, calls>>

\* waitForTurn(): a request for a human is reported on a line, and the child ends.
ChildNeedsHuman ==
    /\ child = "waiting"
    /\ turn[verification] = "blocked"
    /\ human' = TRUE
    /\ child' = "dead"
    /\ UNCHANGED <<verification, pc, signalled, stops, confirm, outcome, file, changed, remote, cut>>

\* parseVerdict(): the last object that declares this round decides; what comes
\* before it is not looked at, and objects of other rounds are passed over.
Parsed(text) ==
    LET own == SelectSeq(text, LAMBDA object : object # "foreign")
    IN  IF own = <<>> THEN "none" ELSE Last(own)

\* The turn is over: the verdict in its reply is renamed into place.
ChildWrites ==
    /\ Moves("waiting", "leaving")
    /\ turn[verification] = "over"
    /\ file' = IF Parsed(reply) = "verdict" THEN "verdict" ELSE file
    /\ UNCHANGED calls

\* The child ends: its work is done, it failed, or it was killed.
ChildEnds ==
    /\ child \notin {"none", "dead"}
    /\ child' = "dead"
    /\ UNCHANGED <<parent, file, changed, remote, cut>>

-----------------------------------------------------------------------------
(* The host, and the agent whose turn judges.                              *)

TurnOf(t, status) ==
    /\ turn' = [turn EXCEPT ![t] = status]
    /\ UNCHANGED <<verification, pc, signalled, stops, outcome, child, human, cut>>

Admit(t) ==
    /\ <<"prompt", t>> \in calls
    /\ calls' = calls \ {<<"prompt", t>>}
    /\ TurnOf(t, "running")
    /\ UNCHANGED <<confirm, file, changed, reply>>

\* A cancel ends the turn there is; without one there is nothing to end.
Cancel(t) ==
    /\ <<"cancel", t>> \in calls
    /\ calls' = calls \ {<<"cancel", t>>}
    /\ TurnOf(t, IF turn[t] = "none" THEN "none" ELSE "over")
    /\ confirm' = IF t = verification THEN "confirmed" ELSE confirm
    /\ UNCHANGED <<file, changed, reply>>

\* The cancel was not accepted: the client is offline, or the host refused.
CancelFails(t) ==
    /\ <<"cancel", t>> \in calls
    /\ calls' = calls \ {<<"cancel", t>>}
    /\ confirm' = IF t = verification THEN "rejected" ELSE confirm
    /\ UNCHANGED <<verification, pc, signalled, stops, outcome, child, human, cut, turn,
                   file, changed, reply>>

TurnEnds(t) ==
    /\ turn[t] = "running"
    /\ TurnOf(t, "over")
    /\ reply' \in IF t = verification THEN Replies ELSE {reply}
    /\ UNCHANGED <<confirm, file, changed, calls>>

TurnBlocks(t) ==
    /\ turn[t] = "running"
    /\ TurnOf(t, "blocked")
    /\ UNCHANGED <<confirm, file, changed, reply, calls>>

\* The agent was told not to, and may: it changes the artifact, or writes a file
\* of its own where the verdict belongs.
Meddle(t) ==
    /\ turn[t] = "running"
    /\ \/ changed' = TRUE /\ UNCHANGED file
       \/ t = verification /\ file' = "foreign" /\ UNCHANGED changed
    /\ UNCHANGED <<parent, child, remote, cut>>

-----------------------------------------------------------------------------
Local == Prepared \/ ChildClosed \/ NoteAnswer \/ NoteTimeout \/ Judge

VerifierNext ==
    \/ Verify \/ Local
    \/ Abort \/ Deadline
    \/ CreateFails \/ Created
    \/ ChildSends \/ ChildWaits \/ ChildNeedsHuman \/ ChildWrites \/ ChildEnds
    \/ \E t \in Tasks : \/ Admit(t) \/ Cancel(t) \/ CancelFails(t)
                        \/ TurnEnds(t) \/ TurnBlocks(t) \/ Meddle(t)

\* The parent's code runs, its timers fire, the creation of a session is answered
\* or refused with the connection, and a child told to stop is killed within the
\* grace.  Neither the agent's turn nor the answer to a cancel has to come.
VerifierFairness ==
    /\ WF_verifierVars(Local)
    /\ WF_verifierVars(Deadline)
    /\ WF_verifierVars(Created \/ CreateFails)
    /\ WF_verifierVars(cut /\ ChildEnds)

VerifierSpec == VerifierInit /\ [][VerifierNext]_verifierVars /\ VerifierFairness

-----------------------------------------------------------------------------
(* What is checked.                                                        *)

\* A verdict decides only when the turn that gave it was over, its child had ended
\* by itself, and the artifact it judged is the one that was fingerprinted:
\* nothing a killed child or an earlier task left behind decides an attempt.
VerdictIsEarned ==
    [][ pc # "done" /\ pc' = "done" /\ outcome'.type = "verified" =>
          /\ turn[verification] = "over"
          /\ Parsed(reply) = "verdict"
          /\ ~cut
          /\ ~changed ]_verifierVars

\* Nobody is left at work for a verification that was stopped: a child is never
\* forked once the stop has come, and no verify() that was cancelled, ran out of
\* time or met a request for a human returns before the host was asked to end the
\* turn of its session.
NobodyLeftAtWork ==
    /\ pc = "done" /\ child # "none" /\ (stops # {} \/ human) => confirm # "none"
    /\ child = "up" /\ pc = "running" /\ (signalled \/ stops # {}) => cut

\* A verification always comes back, also when the host answers no cancel and the
\* agent's turn never ends.
VerifyReturns == pc = "preparing" ~> pc = "done"

\* A verification decides by what it earned, and leaves nobody at work behind it.
VerdictsHold == VerdictIsEarned /\ []NobodyLeftAtWork

\* What the comment of cancelNote asks for: no second remote task while the first
\* may still be running.
RetryMeansStopped ==
    [][ verification' # verification /\ verification # 0 => turn[verification] \in {"none", "over"} ]_verifierVars
=============================================================================
