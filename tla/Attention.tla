----------------------------- MODULE Attention ------------------------------
(***************************************************************************)
(* session/interactions.ts, and the part of controller/controller.ts that  *)
(* collects the answers of a question set and lets a policy give them: the *)
(* approvals and questions of the host, which the reader answers, or        *)
(* /auto-ack does, in the session and the slot that Navigation describes.  *)
(*                                                                         *)
(* A request is asked by the host, which delivers it again to every new    *)
(* generation until it is settled or withdrawn.  A delivery makes a new    *)
(* instance of it here.                                                    *)
(***************************************************************************)
EXTENDS Navigation, Sequences, SequencesExt

CONSTANTS
    Requests,
    Owner,       \* the session a request belongs to
    Parts,       \* sub-questions of a request; an approval has none
    Options,     \* options of each of its menus; an approval has three
    Policies,    \* options /auto-ack can be set to; 0 turns it off
    MaxMade      \* bound: deliveries of a request

ASSUME AttentionAssumption ==
    /\ Owner \in [Requests -> Sessions]
    /\ Parts \in [Requests -> Nat] /\ Options \in [Requests -> Nat]
    /\ \A r \in Requests : Parts[r] = 0 => Options[r] = 3
    /\ 0 \in Policies /\ Policies \subseteq Nat /\ MaxMade \in [Requests -> Nat]

VARIABLES
    host,        \* what the host makes of a request: quiet, waiting, settled or withdrawn
    made,        \* deliveries of it
    entries,     \* the retained instances, in the order of the map
    answers,     \* sub-questions answered so far
    reply,       \* the interaction in the slot: which instance, how far, on whose behalf
    policy,
    auto,        \* autoAckTask: none, queued, acting, or returning: ended, not yet released
    answered,    \* what this run of the policy answered last
    blocked      \* autoAckBlocked

ackVars == <<policy, auto, answered, blocked>>
askVars == <<host, made, entries, answers, reply>>
vars == <<navVars, askVars, ackVars>>

NoReply == [id |-> None, n |-> 0, phase |-> "none", auto |-> FALSE]
NoKey == <<>>

Retained(id) == \E i \in DOMAIN entries : entries[i].id = id

\* The interactions of the selected session, on the screen that shows it: where they are
\* among the retained ones.  The first of them is the one that is answered.
PendingIn(list, on, at, session) ==
    {i \in DOMAIN list : on /\ at = "chat" /\ session # None /\ Owner[list[i].id] = session}
Pending == PendingIn(entries, online, screen, shown)
First == entries[Min(Pending)]

\* autoAckKey(): the position the policy looks at.
KeyOf(list, pending, option, collected) ==
    IF option = 0 \/ pending = {} THEN NoKey
    ELSE LET id == list[Min(pending)].id IN <<id, collected[id], option>>
Key == KeyOf(entries, Pending, policy, answers)

TypeOK ==
    /\ NavTypeOK
    /\ host \in [Requests -> {"quiet", "waiting", "settled", "withdrawn"}]
    /\ \A r \in Requests : made[r] \in 0 .. MaxMade[r]
    /\ \A i, j \in DOMAIN entries :
        /\ entries[i].id \in Requests /\ entries[i].n \in 1 .. made[entries[i].id]
        /\ entries[i].id = entries[j].id => i = j
    /\ \A r \in Requests : answers[r] = 0 \/ answers[r] < Parts[r]
    /\ reply = NoReply \/ (reply.id \in Requests /\ reply.phase \in {"gate", "sent", "cancelling"})
    /\ (slot = "interaction") = (reply # NoReply)
    /\ policy \in Policies
    /\ auto \in {"none", "queued", "acting", "returning"}
    /\ (auto = "acting") = (reply # NoReply /\ reply.auto)

Init ==
    /\ NavInit
    /\ host = [r \in Requests |-> "quiet"] /\ made = [r \in Requests |-> 0]
    /\ entries = <<>> /\ answers = [r \in Requests |-> 0]
    /\ reply = NoReply
    /\ policy = 0 /\ auto = "none" /\ answered = NoKey /\ blocked = NoKey

\* update() ends in queueAutoAck(): a publish arms the policy, unless it is running.
\* A step that publishes says so last.
Published ==
    LET key == KeyOf(entries', PendingIn(entries', online', screen', shown'), policy', answers') IN
    auto' = IF auto = "none" /\ key # NoKey /\ key # blocked' THEN "queued" ELSE auto

-----------------------------------------------------------------------------
(* The host.                                                               *)

\* The map forgets the instance it retains under an id.
Without(id) == RemoveAt(entries, CHOOSE i \in DOMAIN entries : entries[i].id = id)

\* accept(): a delivery is a new instance, and makes the policy look again.
Deliver(id) ==
    /\ online /\ made[id] < MaxMade[id] /\ ~Retained(id)
    /\ host[id] \in {"quiet", "waiting"} /\ host' = [host EXCEPT ![id] = "waiting"]
    /\ made' = [made EXCEPT ![id] = @ + 1]
    /\ entries' = Append(entries, [id |-> id, n |-> made'[id]])
    /\ blocked' = NoKey
    /\ UNCHANGED <<navVars, answers, reply, policy, answered>>
    /\ Published

\* cancelled().
Withdraw(id) ==
    /\ online /\ Retained(id)
    /\ host' = [host EXCEPT ![id] = "withdrawn"]
    /\ entries' = Without(id)
    /\ UNCHANGED <<navVars, made, answers, reply, policy, answered, blocked>>
    /\ Published

-----------------------------------------------------------------------------
(* An answer, given by the reader or by the policy.                        *)

\* Respond to the first interaction: approve(), or answer() with the last part.
Respond(phase, byPolicy) ==
    /\ slot' = "interaction"
    /\ reply' = [id |-> First.id, n |-> First.n, phase |-> phase, auto |-> byPolicy]

\* A plausible bug: the set is sent when one answer too many has been asked for.
MutantLastPart(id) == answers[id] + 1 > Parts[id]

LastPart(id) == answers[id] + 1 >= Parts[id]

\* answerQuestion() with sub-questions left: the answer is collected, the slot is free
\* again in the same turn.
Collect(id) == answers' = [answers EXCEPT ![id] = @ + 1]

Answer ==
    /\ Free /\ Pending # {}
    /\ IF LastPart(First.id)
       THEN Respond("gate", FALSE) /\ UNCHANGED answers
       ELSE Collect(First.id) /\ UNCHANGED <<slot, reply>>
    /\ UNCHANGED <<conn, view, lists, op, revision, ops, host, made, entries, policy, answered, blocked>>
    /\ Published

\* The third choice of an approval cancels the turn and answers nothing.
CancelTurn ==
    /\ Free /\ Pending # {} /\ Parts[First.id] = 0
    /\ Respond("cancelling", FALSE)
    /\ UNCHANGED <<conn, view, lists, op, revision, ops, host, made, entries, answers, policy, answered, blocked>>
    /\ Published

\* Esc leaves a question set: its answers are dropped, and it is rejected.
Dismiss ==
    /\ Free /\ Pending # {} /\ Parts[First.id] > 0
    /\ answers' = [answers EXCEPT ![First.id] = 0]
    /\ Respond("gate", FALSE)
    /\ UNCHANGED <<conn, view, lists, op, revision, ops, host, made, entries, policy, answered, blocked>>
    /\ Published

\* A plausible bug: whatever is retained under the id is answered.
MutantIsLive(e) == Retained(e.id)

IsLive(e) == \E i \in DOMAIN entries : entries[i].id = e.id /\ entries[i].n = e.n

\* The gate admits the response, which may have waited: it is sent if the instance is
\* still the retained one.
Dispatch ==
    /\ reply.phase = "gate" /\ online /\ IsLive(reply)
    /\ reply' = [reply EXCEPT !.phase = "sent"]
    /\ UNCHANGED <<navVars, host, made, entries, answers, ackVars>>

\* The action ends: the slot is free; the policy's own run goes on if it was accepted.
Ends(accepted) ==
    /\ reply' = NoReply /\ slot' = "free"
    /\ UNCHANGED <<conn, view, lists, op, revision, ops, made, policy, answered, blocked>>
    /\ IF reply.auto THEN auto' = IF accepted THEN "queued" ELSE "returning" ELSE Published

\* Acknowledged: the instance goes, if it is still the one retained, and its answers.
Acknowledged ==
    /\ reply.phase = "sent" /\ online
    /\ host' = [host EXCEPT ![reply.id] = "settled"]
    /\ entries' = IF IsLive(reply) THEN Without(reply.id) ELSE entries
    /\ answers' = [answers EXCEPT ![reply.id] = 0]
    /\ Ends(TRUE)

\* The instance is gone, the connection lost or the host refuses; it may have taken the
\* answer all the same.
ReplyFails ==
    /\ reply.phase \in {"gate", "sent", "cancelling"}
    /\ \E taken \in {FALSE, reply.phase = "sent"} :
         host' = IF taken THEN [host EXCEPT ![reply.id] = "settled"] ELSE host
    /\ UNCHANGED <<entries, answers>>
    /\ Ends(FALSE)

TurnCancelled ==
    /\ reply.phase = "cancelling" /\ online
    /\ UNCHANGED <<host, entries, answers>>
    /\ Ends(TRUE)

-----------------------------------------------------------------------------
(* The policy.                                                             *)

SetAutoAck(option) ==
    /\ option \in Policies \ {policy} /\ ops < MaxOps /\ ops' = ops + 1
    /\ policy' = option /\ blocked' = NoKey
    /\ UNCHANGED <<conn, view, lists, slot, op, revision, askVars, answered>>
    /\ Published

Returns(declined) == auto' = "returning" /\ blocked' = declined

\* A plausible bug: the policy does not notice that its answer changed nothing.
MutantRepeats == FALSE

\* What was answered still stands.
Repeats == Key = answered

Offered == policy <= Options[First.id]

\* runAutoAck(), one turn of its loop.
RunAutoAck ==
    /\ auto = "queued"
    /\ UNCHANGED <<conn, view, lists, op, revision, ops, host, made, entries, policy>>
    /\ CASE policy = 0 \/ Pending = {} ->
              Returns(blocked) /\ answered' = NoKey /\ UNCHANGED <<slot, reply, answers>>
         [] policy # 0 /\ Pending # {} /\ Repeats ->
              Returns(Key) /\ answered' = NoKey /\ UNCHANGED <<slot, reply, answers>>
         [] policy # 0 /\ Pending # {} /\ ~Repeats /\ ~Free ->
              Returns(blocked) /\ answered' = NoKey /\ UNCHANGED <<slot, reply, answers>>
         [] policy # 0 /\ Pending # {} /\ ~Repeats /\ Free /\ ~Offered ->
              Returns(Key) /\ answered' = NoKey /\ UNCHANGED <<slot, reply, answers>>
         [] OTHER ->
              /\ answered' = Key /\ UNCHANGED blocked
              /\ IF LastPart(First.id)
                 THEN /\ Respond(IF Parts[First.id] = 0 /\ policy = 3 THEN "cancelling" ELSE "gate", TRUE)
                      /\ auto' = "acting" /\ UNCHANGED answers
                 ELSE Collect(First.id) /\ auto' = "queued" /\ UNCHANGED <<slot, reply>>

\* The promise of the run settles, and the task is released.
Release ==
    /\ auto = "returning" /\ auto' = "none" /\ answered' = NoKey
    /\ UNCHANGED <<navVars, askVars, policy, blocked>>

-----------------------------------------------------------------------------
(* The composition.                                                        *)

\* Giving up the selection forgets the answers collected in it; the end of a generation
\* forgets the instances.
Navigate ==
    /\ \/ Selects /\ answers' = [r \in Requests |-> 0]
       \/ Stays /\ UNCHANGED answers
    /\ entries' = IF online' THEN entries ELSE <<>>
    /\ UNCHANGED <<host, made, reply, policy, answered, blocked>>
    /\ IF <<conn, view, slot>>' # <<conn, view, slot>> THEN Published ELSE UNCHANGED auto

Replies == Acknowledged \/ ReplyFails \/ TurnCancelled

Next ==
    \/ Navigate
    \/ \E id \in Requests : Deliver(id) \/ Withdraw(id)
    \/ Answer \/ CancelTurn \/ Dismiss \/ Dispatch \/ Replies
    \/ \E option \in Policies : SetAutoAck(option)
    \/ RunAutoAck \/ Release

\* A call of the host is answered or fails; jobs of the event loop are run.
Fairness == WF_vars(Dispatch) /\ WF_vars(Replies) /\ WF_vars(RunAutoAck) /\ WF_vars(Release)

Spec == Init /\ [][Next]_vars /\ Fairness

-----------------------------------------------------------------------------
(* What is checked.                                                        *)

\* A request is answered through the instance the host delivered last: never through
\* one that a new generation has replaced while the answer waited for the gate, and
\* never after the host has withdrawn it.
RepliesAreCurrent ==
    [][ reply'.phase = "sent" /\ reply.phase # "sent" =>
          reply'.n = made[reply'.id] /\ host[reply'.id] # "withdrawn" ]_vars

\* What was overtaken while it waited, a navigation, a list load or a reply, changes
\* nothing when it comes back.
ActsOnTheNewest == NewestIntentOpens /\ ListsNeverGoBack /\ RepliesAreCurrent

\* Whatever is refused, repeated or withdrawn, the policy comes to rest until the next
\* publish: it does not go on answering what its answers do not change.
AutoAckRests == []<>(auto = "none")

\* What the comment on runAutoAck() says: the publish that reports the client free again
\* arms the policy anew.
AutoAckIsArmed ==
    Free /\ policy # 0 /\ Pending # {} /\ Key # blocked /\ Offered => auto # "none"
=============================================================================
