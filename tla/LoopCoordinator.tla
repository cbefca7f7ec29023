-------------------------- MODULE LoopCoordinator --------------------------
(***************************************************************************)
(* controller/loop-coordinator.ts: LoopCoordinator and LoopExecution, with *)
(* the host turns, frames and facts they react to.                         *)
(*                                                                         *)
(* `exec` is the current execution and the scored loop it owns.  A method  *)
(* runs without a break up to its next await, so each one is a function    *)
(* from an execution to the execution it leaves, and an await leaves a     *)
(* task: the continuation that a later action takes up.  The tasks of      *)
(* executions that were replaced stay in flight.                           *)
(*                                                                         *)
(* update() publishes, and every publish re-enters changed(); the functions*)
(* below make that nested call wherever it can find something to do.       *)
(***************************************************************************)
EXTENDS ScoredLoop, Sequences, SequencesExt

CONSTANTS
    VerifierRetries,  \* VERIFIER_RETRIES
    Setups,           \* the protocols and clients to run
    MaxRuns,          \* bound of every setup's runs
    MaxReplays        \* bound of every setup's replays

SetupFields ==
    [forked : BOOLEAN,       \* a verifier is configured and has a prompt
     verifyFirst : BOOLEAN,  \* protocol.starts = 'verify'
     marker : BOOLEAN,       \* the protocol names an artifact and a marker
     fallback : BOOLEAN,     \* allowSelfFallback
     compacts : BOOLEAN,     \* autoCompactK > 0
     deadline : BOOLEAN,     \* deadlineMs is set
     runs : 1..MaxRuns,          \* bound: runs started under this setup
     replays : 0..MaxReplays]    \* bound: idle frames the host repeats

ASSUME CoordinatorAssumption ==
    /\ VerifierRetries \in Nat
    /\ MaxRuns \in Nat \ {0}
    /\ MaxReplays \in Nat
    /\ Setups \subseteq SetupFields

VARIABLES
    setup,  \* how this client and protocol are configured
    exec,   \* the current execution, and what it reads of the application
    host    \* what goes on at the host

vars == <<setup, exec, host>>

\* Continuations: artifact reads ("section", "check"), verifications,
\* compactions and what follows them.  `first` marks the opening round.
TaskKinds == {"section", "check", "verify", "compact", "compacted"}
Tasks == [kind : TaskKinds, run : 1..MaxRuns, seq : 0..2,
          result : Results \cup {NoResult}, first : BOOLEAN]

ExecFields ==
    [loop : LoopFields,
     run : 0..MaxRuns,               \* begins so far: the latest run
     tasks : SUBSET Tasks,
     prompt : BOOLEAN,               \* pendingPrompt is held
     endedAt : {"no", "recent", "old"},  \* old: the grace is over
     timer : BOOLEAN,                \* settleTimer
     deadline : BOOLEAN,             \* deadlineTimer
     verifying : BOOLEAN,
     compacting : BOOLEAN,
     settling : BOOLEAN,
     identity : 0..2,                \* verificationIdentity
     misses : 0..(VerifierRetries + 1),   \* verifierMisses
     endTraced : BOOLEAN,
     closed : BOOLEAN,
     outgoing : Seq(1..MaxRuns),     \* prompts given to host.send
     answers : SUBSET (1..MaxRuns),  \* prompts accepted, answer outstanding
     \* What LoopHost reports:
     sendable : BOOLEAN,  \* selected, online, ready, not busy, none pending
     over : BOOLEAN,      \* historyTokens is above the threshold
     reply : Results \cup {NoResult},  \* the block in the latest reply
     \* History:
     ends : 0..MaxRuns,   \* `loop end` records written
     own : {"none", "sent", "delivered", "ended"},
                          \* the attempt's own prompt and its turn
     stray : BOOLEAN,     \* an idle frame came that ended no turn of the run
     slipped : BOOLEAN,   \* a flush came between a compaction and its caller
     outages : 0..(VerifierRetries + 1),  \* outages in this attempt
     gaveUp : 0..(VerifierRetries + 1)]   \* outages when last given up

HostFields ==
    [turn : BOOLEAN,      \* the session's turn is running
     owes : BOOLEAN,      \* that turn may still commit its result block
     replays : 0..MaxReplays]

TypeOK ==
    /\ setup \in Setups
    /\ exec \in ExecFields
    /\ host \in HostFields

Init ==
    /\ setup \in Setups
    /\ exec = [loop |-> [NewLoop EXCEPT !.phase = "none"], run |-> 0,
               tasks |-> {}, prompt |-> FALSE, endedAt |-> "no",
               timer |-> FALSE, deadline |-> FALSE, verifying |-> FALSE,
               compacting |-> FALSE, settling |-> FALSE, identity |-> 0,
               misses |-> 0, endTraced |-> FALSE, closed |-> FALSE,
               outgoing |-> <<>>, answers |-> {}, sendable |-> TRUE,
               over |-> FALSE, reply |-> NoResult, ends |-> 0,
               own |-> "none", stray |-> FALSE, slipped |-> FALSE,
               outages |-> 0,
               gaveUp |-> VerifierRetries + 1]
    /\ host = [turn |-> FALSE, owes |-> FALSE, replays |-> 0]

-----------------------------------------------------------------------------
(* Small pieces of an execution.                                           *)

Task(kind, e) == [kind |-> kind, run |-> e.run, seq |-> 0,
                  result |-> NoResult, first |-> FALSE]

Spawn(e, task) == [e EXCEPT !.tasks = @ \cup {task}]

\* isCurrent, for the execution that created a task.
Live(e) == Active(e.loop) /\ ~e.closed
Current(e, r) == r = e.run /\ Live(e)

\* No turn end is being waited on: forgetSettleTimer, endedAt = undefined.
MutantUnended(e) == [e EXCEPT !.timer = FALSE]
Unended(e) == [e EXCEPT !.endedAt = "no", !.timer = FALSE]

AbortWork(e) == [e EXCEPT !.verifying = FALSE, !.compacting = FALSE]

TraceEnd(e) ==
    IF e.endTraced THEN e
    ELSE [e EXCEPT !.endTraced = TRUE, !.ends = @ + 1]

\* The run is over in this phase and its deadline disarmed.
EndRun(e, phase) ==
    TraceEnd([e EXCEPT !.loop = Leave(@, phase), !.deadline = FALSE])

\* stopLoop(reason)
StopLoop(e) ==
    IF Active(e.loop)
    THEN EndRun([Unended(AbortWork(e)) EXCEPT !.prompt = FALSE], "cancelled")
    ELSE e

\* rejectLoopSend; its publish finds the run over and drops endedAt.
MutantRejectSend(e) ==
    [Unended(AbortWork(e)) EXCEPT !.prompt = FALSE, !.deadline = FALSE,
                                  !.loop = Leave(@, "human")]
RejectSend(e) ==
    EndRun([Unended(AbortWork(e)) EXCEPT !.prompt = FALSE], "human")

\* The round is marked as sent before it is handed to host.send.
Mark(e) == [e EXCEPT !.prompt = FALSE, !.loop.awaiting = TRUE, !.own = "sent"]
HandOver(e) == [e EXCEPT !.outgoing = Append(@, e.run)]

CompactDue(e) == setup.compacts /\ e.over
BeginCompact(e, isFirst) ==
    Spawn([e EXCEPT !.compacting = TRUE],
          [Task("compact", e) EXCEPT !.first = isFirst])

\* flushLoop's conditions.
MayFlush(e) ==
    /\ e.prompt
    /\ Live(e)
    /\ ~e.verifying
    /\ ~e.compacting
    /\ e.sendable

-----------------------------------------------------------------------------
(* Verifying a round.                                                      *)

\* A verification's identity.  verificationSeq counts up; here a number is
\* used again once no verification of the run in flight has it.
FreshSeq(e) ==
    IF \E t \in e.tasks : t.run = e.run /\ t.seq = 1 THEN 2 ELSE 1

\* verifyRound, up to its await
VerifyRound(e) ==
    IF Live(e) /\ ~e.verifying /\ setup.forked
    THEN Spawn([e EXCEPT !.verifying = TRUE, !.identity = FreshSeq(e),
                         !.loop.awaiting = TRUE],
               [Task("verify", e) EXCEPT !.seq = FreshSeq(e)])
    ELSE e

\* verifyStep and verifySection, up to the artifact read
VerifyStep(e) ==
    IF ~Live(e) THEN e
    ELSE IF setup.marker THEN Spawn(e, Task("section", e)) ELSE VerifyRound(e)

StartsByVerifying == setup.verifyFirst /\ setup.forked

-----------------------------------------------------------------------------
(* Consuming a verdict.                                                    *)

\* The reply has no block yet and may still get one.
InGrace(e) == e.reply = NoResult /\ e.endedAt = "recent"

\* trySettleLoop reached by a publish while a verdict is being consumed.
Nudge(e) ==
    IF e.endedAt = "no" \/ (e.loop.awaiting /\ setup.forked) THEN e
    ELSE IF e.loop.awaiting /\ InGrace(e) THEN [e EXCEPT !.timer = TRUE]
    ELSE Unended(e)

\* flushLoop reached while a verdict is being consumed.
MutantRelease(e) == Nudge(e)
Release(e) ==
    IF ~MayFlush(e) THEN Nudge(e)
    ELSE IF CompactDue(e) THEN Nudge(BeginCompact(e, FALSE))
    ELSE HandOver(Nudge(Mark(e)))

\* settleWith
SettleWith(e, result) ==
    IF ~Live(e) \/ ~e.loop.awaiting THEN e
    ELSE LET l == Settle(e.loop, result)
             s == [e EXCEPT !.loop = l,
                            !.own = IF l.phase = "paused" THEN @ ELSE "none",
                            !.outages = IF l.phase = "paused" THEN @ ELSE 0]
         IN  IF l.phase # "running"
             THEN IF Active(l) THEN Release(s)
                  ELSE Unended(TraceEnd([s EXCEPT !.deadline = FALSE]))
             ELSE IF l.step # e.loop.step /\ StartsByVerifying
             THEN VerifyStep(Release(s))
             ELSE Release([s EXCEPT !.prompt = TRUE])

\* settleChecked, up to the artifact read
SettleChecked(e, result) ==
    IF ~Live(e) \/ ~e.loop.awaiting \/ e.settling THEN e
    ELSE IF setup.marker /\ result.kind \in {"score", "unscored"}
    THEN Spawn([e EXCEPT !.settling = TRUE],
               [Task("check", e) EXCEPT !.result = result])
    ELSE SettleWith(e, result)

\* trySettleLoop
TrySettle(e) ==
    IF ~Active(e.loop) \/ ~e.loop.awaiting \/ e.endedAt = "no"
    THEN Unended(e)
    ELSE IF setup.forked
    THEN IF e.settling THEN e ELSE VerifyRound(e)
    ELSE IF InGrace(e) THEN [e EXCEPT !.timer = TRUE]
    ELSE SettleChecked(Unended(e), e.reply)

Settled(e) == IF e.endedAt = "no" THEN e ELSE TrySettle(e)

-----------------------------------------------------------------------------
(* Sending the held prompt.                                                *)

\* The prompt is marked sent and published; what that publish settles may
\* end the run before the prompt is handed over.
SendHeld(e) ==
    LET s == Settled(Mark(e)) IN IF Live(s) THEN HandOver(s) ELSE s

\* flushLoop, up to its await
Flush(e) ==
    LET between == \E t \in e.tasks : t.kind = "compacted" /\ t.run = e.run
        s == [e EXCEPT !.slipped = @ \/ between]
    IN  IF ~MayFlush(e) THEN e
        ELSE IF CompactDue(e) THEN Settled(BeginCompact(s, FALSE))
        ELSE SendHeld(s)

\* changed(), reached by every publish
Changed(e) == IF e.closed THEN e ELSE Settled(Flush(e))

\* settleLoop: the host reported the session idle
Idle(e) ==
    IF ~Live(e) \/ ~e.loop.awaiting THEN e
    ELSE TrySettle([e EXCEPT !.endedAt = IF @ = "no" THEN "recent" ELSE @])

-----------------------------------------------------------------------------
(* What the operator and the application call.                             *)

\* start() and startLoop, up to their first await.  /loop is refused while
\* a turn runs (registry.ts), and a run in the way is replaced: the new run has
\* an execution of its own, in which nothing is under way.
Start ==
    /\ ~exec.closed
    /\ ~host.turn
    /\ exec.run < setup.runs
    /\ LET s == StopLoop(exec)
           e == [Unended(AbortWork(s)) EXCEPT
                    !.loop = NewLoop, !.run = @ + 1, !.prompt = FALSE,
                    !.settling = FALSE, !.identity = 0, !.misses = 0,
                    !.deadline = setup.deadline, !.endTraced = FALSE,
                    !.own = "none", !.stray = FALSE, !.slipped = FALSE,
                    !.outages = 0]
       IN  exec' = IF StartsByVerifying THEN VerifyStep(e)
                   ELSE IF CompactDue(e) THEN BeginCompact(e, TRUE)
                   ELSE HandOver(Mark(e))
    /\ UNCHANGED <<setup, host>>

\* stop(): /loop abort, a prompt the operator typed, Esc, a cancelled turn
Stop ==
    /\ Active(exec.loop)
    /\ exec' = StopLoop(exec)
    /\ UNCHANGED <<setup, host>>

\* forget(): another session was selected, or clearResult() found it over
Forget ==
    /\ exec.loop.phase # "none"
    /\ exec' = [StopLoop(exec) EXCEPT !.loop.phase = "none"]
    /\ UNCHANGED <<setup, host>>

\* close()
Close ==
    /\ ~exec.closed
    /\ exec' = [StopLoop(exec) EXCEPT !.closed = TRUE]
    /\ UNCHANGED <<setup, host>>

\* answerLoop.  commands.ts lets it through for a paused run only, and runs
\* it in the foreground slot, so nothing can be flushed until that is free.
Answer ==
    /\ exec.loop.phase = "paused"
    /\ ~exec.closed
    /\ LET e == [exec EXCEPT !.loop = Resume(@), !.sendable = FALSE]
       IN  exec' = IF setup.forked THEN VerifyStep(e)
                   ELSE [e EXCEPT !.prompt = TRUE]
    /\ UNCHANGED <<setup, host>>

\* A publish of anything else.
Publish ==
    /\ exec' = Changed(exec)
    /\ exec' # exec
    /\ UNCHANGED <<setup, host>>

-----------------------------------------------------------------------------
(* Timers.                                                                 *)

\* expireLoopDeadline
Expire ==
    /\ exec.deadline
    /\ exec' = EndRun(Unended(AbortWork(exec)), "deadline")
    /\ UNCHANGED <<setup, host>>

\* LOOP_SETTLE_GRACE_MS pass after the turn ended.
GraceEnds ==
    /\ exec.endedAt = "recent"
    /\ exec' = [exec EXCEPT !.endedAt = "old"]
    /\ UNCHANGED <<setup, host>>

\* settleTimer fires
SettleTimeout ==
    /\ exec.timer
    /\ exec.endedAt = "old"
    /\ exec' = TrySettle([exec EXCEPT !.timer = FALSE])
    /\ UNCHANGED <<setup, host>>

-----------------------------------------------------------------------------
(* Continuations.                                                          *)

Without(t) == [exec EXCEPT !.tasks = @ \ {t}]

Found == {"present", "missing", "unavailable"}

\* verifySection, after the artifact read
SectionRead(t, found) ==
    /\ t.kind = "section"
    /\ exec' = LET e == Without(t)
               IN  IF ~Current(e, t.run) THEN e
                   ELSE IF found # "missing" THEN VerifyRound(e)
                   ELSE Flush(Changed([e EXCEPT !.prompt = TRUE]))
    /\ UNCHANGED <<setup, host>>

\* settleChecked, after the artifact read: a missing section voids the score
CheckRead(t, found) ==
    /\ t.kind = "check"
    /\ exec' = LET e == Without(t)
                   v == IF found = "missing" THEN Unscored ELSE t.result
               IN  IF t.run # e.run THEN e
                   ELSE [SettleWith(e, v) EXCEPT !.settling = FALSE]
    /\ UNCHANGED <<setup, host>>

\* verifyRound, once its verifier's promise settled
Judging(t) ==
    LET e == Without(t)
    IN  IF t.run = e.run /\ t.seq = e.identity
        THEN [e EXCEPT !.verifying = FALSE] ELSE e

\* Whether that verification still decides the attempt in flight.
Decides(t) ==
    /\ t.seq = exec.identity
    /\ Current(exec, t.run)
    /\ exec.loop.awaiting

\* A verdict nobody waits for any more.
Abandoned(t) ==
    /\ t.kind = "verify"
    /\ ~Decides(t)
    /\ exec' = Judging(t)
    /\ UNCHANGED <<setup, host>>

Verified(t, result) ==
    /\ t.kind = "verify"
    /\ Decides(t)
    /\ exec' = SettleChecked([Unended(Judging(t)) EXCEPT !.misses = 0], result)
    /\ UNCHANGED <<setup, host>>

\* The verifier needs a person, or failed for good.
VerifierEnds(t, phase) ==
    /\ t.kind = "verify"
    /\ Decides(t)
    /\ exec' = EndRun(Unended(Judging(t)), phase)
    /\ UNCHANGED <<setup, host>>

\* Counts of outages matter up to the one that exceeds the retries.
OneMore(n) == IF n > VerifierRetries THEN n ELSE n + 1

\* An outage: retried, then replaced by the reply, or the run's end.
Outage(t) ==
    /\ t.kind = "verify"
    /\ Decides(t)
    /\ LET e == [Unended(Judging(t)) EXCEPT !.misses = OneMore(@),
                                                !.outages = OneMore(@)]
           g == [e EXCEPT !.gaveUp = e.outages]
       IN  exec' = IF e.misses <= VerifierRetries THEN VerifyRound(Changed(e))
                   ELSE IF setup.fallback THEN SettleChecked(g, g.reply)
                   ELSE EndRun(g, "unavailable")
    /\ UNCHANGED <<setup, host>>

\* compactNow returns; whether it worked shows in the next measurement.
CompactDone(t, over) ==
    /\ t.kind = "compact"
    /\ over \in {FALSE, exec.over}
    /\ exec' = LET e == [Without(t) EXCEPT !.over = over]
               IN  IF Current(e, t.run)
                   THEN Spawn([Changed(e) EXCEPT !.compacting = FALSE],
                              [t EXCEPT !.kind = "compacted"])
                   ELSE IF t.run = e.run
                   THEN [e EXCEPT !.compacting = FALSE] ELSE e
    /\ UNCHANGED <<setup, host>>

\* startLoop and flushLoop after the compaction they awaited
Compacted(t) ==
    /\ t.kind = "compacted"
    /\ exec' = LET e == Without(t)
               IN  IF ~Current(e, t.run) THEN e
                   ELSE IF t.first THEN HandOver(Settled(Mark(e)))
                   ELSE IF e.prompt THEN SendHeld(e) ELSE e
    /\ UNCHANGED <<setup, host>>

-----------------------------------------------------------------------------
(* The host.                                                               *)

\* Only a client that reads reply blocks can tell when one is committed.
ReadsReply == ~setup.forked \/ setup.fallback

\* The host accepts a prompt: it starts the turn or steers the running one,
\* and the session's latest message is the prompt.
Deliver ==
    /\ exec.outgoing # <<>>
    /\ LET r == Head(exec.outgoing)
           last == r = exec.run /\ r \notin Range(Tail(exec.outgoing))
       IN  exec' = [exec EXCEPT
                      !.outgoing = Tail(@), !.answers = @ \cup {r},
                      !.reply = NoResult,
                      !.own = IF last /\ @ = "sent" THEN "delivered" ELSE @]
    /\ host' = [host EXCEPT !.turn = TRUE, !.owes = ReadsReply]
    /\ UNCHANGED setup

\* host.send rejects: before the host had the prompt, or with its answer lost.
Rejected(e, r) == IF Current(e, r) THEN RejectSend(e) ELSE e

Refuse ==
    /\ exec.outgoing # <<>>
    /\ exec' = Rejected([exec EXCEPT !.outgoing = Tail(@)], Head(exec.outgoing))
    /\ UNCHANGED <<setup, host>>

LoseAnswer(r) ==
    /\ r \in exec.answers
    /\ exec' = Rejected([exec EXCEPT !.answers = @ \ {r}], r)
    /\ UNCHANGED <<setup, host>>

Accept(r) ==
    /\ r \in exec.answers
    /\ exec' = Changed([exec EXCEPT !.answers = @ \ {r}])
    /\ UNCHANGED <<setup, host>>

\* The assistant's message is committed, during the turn or just after it.
CommitReply(result) ==
    /\ host.owes
    /\ host' = [host EXCEPT !.owes = FALSE]
    /\ exec' = Changed([exec EXCEPT !.reply = result])
    /\ UNCHANGED setup

Awaits(e) == Live(e) /\ e.loop.awaiting

\* The turn ends: the frame clears `running` and calls idle().
EndTurn(over) ==
    /\ host.turn
    /\ over \in {exec.over, setup.compacts}
    /\ host' = [host EXCEPT !.turn = FALSE]
    /\ exec' = Idle([exec EXCEPT
                       !.over = over,
                       !.own = IF @ = "delivered" THEN "ended" ELSE @,
                       !.stray = @ \/ (Awaits(exec) /\ exec.own # "delivered")])
    /\ UNCHANGED setup

\* The host repeats an idle frame.
ReplayIdle ==
    /\ host.replays < setup.replays
    /\ ~exec.closed
    /\ Awaits(exec)
    /\ host' = [host EXCEPT !.replays = @ + 1]
    /\ exec' = Idle([exec EXCEPT !.stray = TRUE])
    /\ UNCHANGED setup

\* Connection, interactions and the foreground come and go, each with a
\* publish.
Facts(sendable) ==
    /\ exec.sendable # sendable
    /\ exec' = Changed([exec EXCEPT !.sendable = sendable])
    /\ UNCHANGED <<setup, host>>

Continue(t) ==
    \/ \E found \in Found : SectionRead(t, found) \/ CheckRead(t, found)
    \/ Abandoned(t)
    \/ \E result \in Results : Verified(t, result)
    \/ \E phase \in {"human", "unavailable"} : VerifierEnds(t, phase)
    \/ Outage(t)
    \/ \E over \in BOOLEAN : CompactDone(t, over)
    \/ Compacted(t)

Next ==
    \/ Start \/ Stop \/ Forget \/ Close \/ Answer \/ Publish
    \/ Expire \/ GraceEnds \/ SettleTimeout
    \/ \E t \in exec.tasks : Continue(t)
    \/ Deliver \/ Refuse
    \/ \E r \in exec.answers : LoseAnswer(r) \/ Accept(r)
    \/ \E result \in Results : CommitReply(result)
    \/ \E over \in BOOLEAN : EndTurn(over)
    \/ ReplayIdle
    \/ \E sendable \in BOOLEAN : Facts(sendable)

Spec == Init /\ [][Next]_vars

\* The current run's continuation of this kind is taken up.
Proceed(kind) ==
    \E t \in exec.tasks : t.kind = kind /\ t.run = exec.run /\ Continue(t)

\* Every await comes back (the verifier, a compaction and a file read are
\* bounded in time), timers fire, the host answers what it is sent and ends
\* its turns, and the client can eventually send again.  A publish that
\* happens for another reason is not counted on.
Fairness ==
    /\ \A kind \in TaskKinds : WF_vars(Proceed(kind))
    /\ WF_vars(GraceEnds) /\ WF_vars(SettleTimeout)
    /\ WF_vars(Deliver \/ Refuse)
    /\ WF_vars(\E over \in BOOLEAN : EndTurn(over))
    /\ WF_vars(Facts(TRUE))

FairSpec == Spec /\ Fairness

-----------------------------------------------------------------------------
(* Properties.                                                             *)

\* Every `loop begin` in the trace is paired with one `loop end` at most, and
\* exactly the run that still owns its session lacks one (I9): none of the
\* eight ways a run ends forgets its end or writes it twice, a replacement
\* and a pause included.
SpansPaired ==
    exec.run = exec.ends + (IF Active(exec.loop) THEN 1 ELSE 0)

\* The whole-run budget watches a run for as long as it lives, through
\* retries, compactions and pauses, and never a run that is over.
DeadlineWatches ==
    exec.deadline <=> (setup.deadline /\ Active(exec.loop))

\* No idle frame came that ended no turn of the run, and no flush came
\* between the end of a compaction and the flush that awaited it.
Undisturbed(e) == ~e.stray /\ ~e.slipped

\* Nothing of this loop writes while a verifier judges it or the session is
\* compacted: a prompt handed over before is out before either begins.
HeldPrompts ==
    Undisturbed(exec) /\ (exec.verifying \/ exec.compacting) =>
        exec.run \notin Range(exec.outgoing)

\* A run that waits for a person has nothing else under way: no prompt to
\* send, no judgment, compaction or timer that could move it meanwhile.
PausedIsQuiet ==
    exec.loop.phase = "paused" /\ Undisturbed(exec) =>
        /\ ~exec.prompt /\ ~exec.verifying /\ ~exec.compacting
        /\ ~exec.settling /\ ~exec.timer

\* What an execution keeps to at every moment: its trace and its deadline are
\* paired with the run, and it sends, judges, compacts and pauses one at a time.
ExecutionHolds == SpansPaired /\ DeadlineWatches /\ HeldPrompts /\ PausedIsQuiet

Decided ==
    /\ exec'.run = exec.run
    /\ exec'.loop.phase # "none"
    /\ \/ exec'.loop.step # exec.loop.step
       \/ exec'.loop.attempt # exec.loop.attempt
       \/ /\ exec.loop.phase = "running"
          /\ exec'.loop.phase \in {"passed", "blocked", "stalled", "paused"}

\* The turn of the attempt's own prompt is over, or ends in this step.
TurnOver ==
    \/ exec.own = "ended"
    \/ exec.own = "delivered" /\ host.turn /\ ~host'.turn

\* An attempt is decided only once the turn of its own prompt ended, or,
\* when no prompt was sent for it, by a verifier: a verdict, block or timer
\* of an earlier attempt never decides the one that replaced it.
DecidedByOwnTurn ==
    [][Decided /\ Undisturbed(exec') =>
        TurnOver \/ (exec.own = "none" /\ setup.forked)]_vars

\* "Only a turn that actually ended may be consumed": the same with nothing
\* assumed of the idle frames.
OnlyEndedTurns ==
    [][Decided /\ ~exec'.slipped =>
        TurnOver \/ (exec.own = "none" /\ setup.forked)]_vars

\* What comes late, a verdict, a compaction, a rejected send or a timer,
\* never touches a run that is over: its numbers and its reason stay.
OverIsFinal ==
    [][exec.loop.phase \in Over /\ exec'.run = exec.run =>
        exec'.loop = exec.loop \/ exec'.loop.phase = "none"]_vars

\* A run is moved by its own attempt and by nothing that came too early or too late.
DecisionsStand == DecidedByOwnTurn /\ OverIsFinal

\* A run that works comes to a verdict, a pause or an end: no prompt, turn
\* end or judgment is left behind with nothing that would pick it up.
RunsDecide ==
    (exec.loop.phase = "running") ~>
        (exec.loop.phase # "running" \/ ~Undisturbed(exec))

\* verifierMisses counts "consecutive verifier outages in this attempt", so
\* an attempt is given up on only after VERIFIER_RETRIES retries of its own.
RetriesBeforeGivingUp == exec.gaveUp = VerifierRetries + 1

=============================================================================
