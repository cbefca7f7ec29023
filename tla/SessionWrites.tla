--------------------------- MODULE SessionWrites ---------------------------
(***************************************************************************)
(* The writes of the selected session: SessionController.prompt, interrupt *)
(* and its outbox (session/controller.ts), the mover of unclaimed messages *)
(* (controller/controller.ts), and the host session they address.          *)
(*                                                                         *)
(* A call of the application runs through the gate and out to the host in  *)
(* microtasks, so deciding and sending are one action here; MutationGate   *)
(* is about the order among them.  Every HTTP call arrives and is answered *)
(* on its own; the frames of the host come in order, on the one socket.    *)
(***************************************************************************)
EXTENDS Naturals, Sequences, FiniteSets, SequencesExt

CONSTANTS
    Typed,        \* messages the operator sends
    Internal,     \* messages a loop sends through promptInternal
    MaxRequests,  \* bound: prompts sent, moved messages included
    MaxFaults,    \* bound: refusals, lost answers, lost connections and
                  \* turns that another client of the host starts
    MaxFrames     \* bound: frames on their way to the client

Messages == Typed \cup Internal
Requests == 1..MaxRequests

\* A message is moved once and sent again once for every fault.
ASSUME WritesAssumption ==
    /\ Typed \cap Internal = {}
    /\ IsFiniteSet(Messages)
    /\ MaxFaults \in Nat
    /\ MaxFrames \in Nat \ (0..1)
    /\ MaxRequests \in Nat
    /\ MaxRequests >= 2 * Cardinality(Messages) + MaxFaults

VARIABLES
    client,  \* SessionController, the mover and the calls they have out
    host,    \* the session at the host
    frames,  \* the host's frames on their way
    hist     \* history

vars == <<client, host, frames, hist>>

Request == [text : Messages, by : {"typed", "loop", "mover"},
            delivery : {"steer", "queue"}]

\* `ids` are the numbers of the prompts, in the order in which they were sent.
ClientFields(ids) ==
    [online : BOOLEAN,
     ready : BOOLEAN,               \* info.record.ready
     running : BOOLEAN,
     told : BOOLEAN,                \* a status came before the list did
     steering : Seq(ids),           \* telemetry.pending, by placement
     queued : Seq(ids),
     shadow : BOOLEAN,              \* admittedTurn has the session
     outbox : SUBSET ids,
     admission : {0} \cup ids,      \* whose promise is stored, 0: undefined
     interrupt : {"no", "settling", "cancelling", "cancelled"},
     awaits : {0} \cup ids,         \* the admission interruptTask awaits
     slot : {"free", "typed", "mover"}, \* the foreground slot
     loop : BOOLEAN,                \* a run awaits the turn of its prompt
     row : {0} \cup ids,            \* unclaimed.itemId, 0: undefined
     removed : BOOLEAN,             \* unclaimed.removed
     move : {"no", "removing", "removed", "missing", "sending"},
     wait : BOOLEAN,                \* unclaimedRetryAt is ahead
     claimed : SUBSET ids,          \* claimedRows
     requests : Seq(Request),       \* the prompts sent, in order
     wire : SUBSET ids,             \* on their way to the host
     open : SUBSET ids]             \* not answered yet

HostFields(ids) ==
    [running : BOOLEAN,
     steering : Seq(ids),           \* the inbox's next-step
     queued : Seq(ids),             \* its next-turn
     received : SUBSET ids,
     recorded : SUBSET ids]         \* claimed, in the durable log

Frames(ids) ==
    [kind : {"status"}, running : BOOLEAN]
    \cup [kind : {"inbox"}, steering : Seq(ids), queued : Seq(ids),
          ids : SUBSET ids]

TypeOK ==
    /\ client \in ClientFields(Requests)
    /\ Len(client.requests) <= MaxRequests
    /\ host \in HostFields(Requests)
    /\ frames \in Seq(Frames(Requests))
    /\ hist \in [faults : 0..MaxFaults, foreign : 0..MaxFaults, lost : BOOLEAN]
    /\ hist.faults + hist.foreign <= MaxFaults

Init ==
    /\ client = [online |-> TRUE, ready |-> TRUE, running |-> FALSE,
                 told |-> FALSE, steering |-> <<>>, queued |-> <<>>,
                 shadow |-> FALSE, outbox |-> {},
                 admission |-> 0, interrupt |-> "no", awaits |-> 0,
                 slot |-> "free", loop |-> FALSE, row |-> 0, removed |-> FALSE,
                 move |-> "no", wait |-> FALSE, claimed |-> {},
                 requests |-> <<>>, wire |-> {}, open |-> {}]
    /\ host = [running |-> FALSE, steering |-> <<>>, queued |-> <<>>,
               received |-> {}, recorded |-> {}]
    /\ frames = <<>>
    /\ hist = [faults |-> 0, foreign |-> 0, lost |-> FALSE]

-----------------------------------------------------------------------------
(* Pieces of the client: functions from a client to the client they leave. *)

Text(i) == client.requests[i].text

\* The admitted step of prompt(): the request goes out, the shadow is set
\* and its promise stored.  A message of a loop is not kept in the outbox;
\* Controller.prompt, which sends the others, stops the loop.
Issue(c, text, by, delivery) ==
    LET i == Len(c.requests) + 1
    IN  [c EXCEPT !.requests = Append(@, [text |-> text, by |-> by,
                                          delivery |-> delivery]),
                  !.wire = @ \cup {i},
                  !.open = @ \cup {i},
                  !.shadow = TRUE,
                  !.loop = (by = "loop"),
                  !.admission = i,
                  !.outbox = IF by = "loop" THEN @ ELSE @ \cup {i}]

\* The delivery of a prompt that does not state one.
Delivery(c) == IF c.running \/ c.shadow THEN "steer" ELSE "queue"

\* retireOutbox, with the records that came in now.  Every row is put in the
\* outbox before its request is sent, so no earlier record can name it.
\* A plausible bug: only the transcript is asked, not the inbox.
Retire(c, ids) ==
    [c EXCEPT !.outbox =
        @ \ (ids \cup Range(c.steering) \cup Range(c.queued))]

\* moveUnclaimed answers 'failed': the record stays, for a later publish.
\* A plausible bug: it is dropped, as after a move that ended.
MoveFails(c) == [c EXCEPT !.slot = "free", !.move = "no", !.wait = TRUE]

\* It answers 'requeued' or 'claimed': the record is dropped.
\* A plausible bug: the record stays, and is sent at every publish.
MutantMoveEnds(c) == [c EXCEPT !.slot = "free", !.move = "no", !.wait = FALSE]
MoveEnds(c) ==
    [c EXCEPT !.slot = "free", !.move = "no", !.wait = FALSE, !.row = 0,
              !.removed = FALSE]

\* The second half of moveUnclaimed.
Resend(c) ==
    IF ~c.ready THEN MoveFails([c EXCEPT !.loop = FALSE])
    ELSE [Issue(c, c.requests[c.row].text, "mover", "queue")
             EXCEPT !.move = "sending"]

\* queueUnclaimed, which every publish reaches, and runUnclaimed up to its
\* first answer.
\* A plausible bug: the local shadow counts as a turn that will claim the row.
MutantMayMove(c) ==
    c.move = "no" /\ c.online /\ ~c.running /\ ~c.shadow /\ c.slot = "free"
    /\ ~c.wait
MayMove(c) ==
    /\ c.move = "no"
    /\ c.online
    /\ ~c.running
    /\ c.slot = "free"
    /\ ~c.wait

Published(c) ==
    IF ~MayMove(c) THEN c
    ELSE IF c.row # 0
    THEN IF c.removed THEN Resend([c EXCEPT !.slot = "mover"])
         ELSE [c EXCEPT !.slot = "mover", !.move = "removing"]
    ELSE IF c.steering = <<>> \/ Head(c.steering) \in c.claimed THEN c
    ELSE [c EXCEPT !.slot = "mover", !.move = "removing",
                   !.row = Head(c.steering)]

\* A prompt's promise settled: the caller goes on and its slot is left.
\* prompt() compares the promise it stored with the value that promise
\* resolved to, so `admission` stays.
Settled(c, i) == [c EXCEPT !.open = @ \ {i}]

Accepts(c, i) ==
    LET s == Retire(Settled(c, i), {})
    IN  CASE c.requests[i].by = "mover" -> MoveEnds(s)
          [] c.requests[i].by = "typed" -> Published([s EXCEPT !.slot = "free"])
          [] OTHER -> Published(s)

Rejects(c, i) ==
    LET s == [Settled(c, i) EXCEPT !.outbox = @ \ {i}]
    IN  CASE c.requests[i].by = "mover" -> MoveFails(s)
          [] c.requests[i].by = "typed" -> Published([s EXCEPT !.slot = "free"])
          [] OTHER -> Published([s EXCEPT !.loop = FALSE])

-----------------------------------------------------------------------------
(* What the operator and a loop do.                                        *)

Unsent(text) == \A i \in DOMAIN client.requests : Text(i) # text

\* actions.prompt, through the foreground slot
Type(text) ==
    /\ client.online /\ client.ready /\ client.slot = "free"
    /\ Unsent(text)
    /\ client' = Issue([client EXCEPT !.slot = "typed"], text, "typed",
                       Delivery(client))
    /\ UNCHANGED <<host, frames, hist>>

\* promptInternal, once a loop finds that it can send
LoopSends(text) ==
    /\ client.online /\ client.ready /\ client.slot = "free"
    /\ Unsent(text)
    /\ client' = Issue(client, text, "loop", Delivery(client))
    /\ UNCHANGED <<host, frames, hist>>

\* Nothing is in flight on either side.
Quiet ==
    /\ ~client.running /\ ~host.running
    /\ client.wire = {} /\ client.open = {} /\ frames = <<>>
    /\ host.steering = <<>> /\ host.queued = <<>>

\* Whether Ctrl+C cancels; where it does not, it exits.
Cancels(c) == c.running \/ c.admission # 0

\* The admission that interrupt() awaits was answered: the cancel can go out.
\* Plausible bugs: no wait for the admission, or one for the report of its turn.
MutantMayCancel(c) == TRUE
MayCancel(c) == c.awaits \notin c.open

\* interrupt(force), up to an await that lasts; a second call joins the first.
\* It fails at once where there is no connection.
Interrupt(force) ==
    /\ client.online
    /\ client.interrupt = "no"
    /\ force \/ Cancels(client)
    /\ LET c == [client EXCEPT !.awaits = client.admission, !.loop = FALSE]
       IN  client' = Published([c EXCEPT
               !.interrupt = IF MayCancel(c) THEN "cancelling" ELSE "settling"])
    /\ UNCHANGED <<host, frames, hist>>

-----------------------------------------------------------------------------
(* Continuations, timers and other publishes.                              *)

\* interruptTask settled.
Stopped(c) == [c EXCEPT !.interrupt = "no", !.awaits = 0]

SendCancel ==
    /\ client.interrupt = "settling"
    /\ MayCancel(client)
    /\ client' = IF client.online
                 THEN [client EXCEPT !.interrupt = "cancelling"]
                 ELSE Published(Stopped(client))
    /\ UNCHANGED <<host, frames, hist>>

CancelAnswered ==
    /\ client.interrupt = "cancelled"
    /\ client' = Published(Stopped(client))
    /\ UNCHANGED <<host, frames, hist>>

Accepted(i) ==
    /\ i \in client.open \ client.wire
    /\ client' = Accepts(client, i)
    /\ UNCHANGED <<host, frames, hist>>

\* The host answered the removal: the message is sent again, or, if the row
\* was claimed before, the move is over.
\* A plausible bug: a row that is gone is sent again like a removed one.
MutantClaims(c) == Resend([c EXCEPT !.removed = TRUE])
Claims(c) == MoveEnds([c EXCEPT !.claimed = @ \cup {c.row}])

RemovalAnswered ==
    /\ client.move \in {"removed", "missing"}
    /\ client' = IF client.move = "missing" THEN Claims(client)
                 ELSE Resend([client EXCEPT !.removed = TRUE])
    /\ UNCHANGED <<host, frames, hist>>

\* UNCLAIMED_RETRY_MS pass; nothing is published.
RetryTime ==
    /\ client.wait
    /\ client' = [client EXCEPT !.wait = FALSE]
    /\ UNCHANGED <<host, frames, hist>>

\* A publish of anything else.
Publish ==
    /\ client' = Published(client)
    /\ client' # client
    /\ UNCHANGED <<host, frames, hist>>

\* The next frame: status(), or acceptControl with the records of the session
\* stream that go with it.
Apply(c, f) ==
    IF f.kind = "status"
    THEN [c EXCEPT !.running = f.running, !.told = ~c.ready,
                   !.shadow = @ /\ ~f.running, !.loop = @ /\ f.running]
    ELSE Retire([c EXCEPT !.steering = f.steering, !.queued = f.queued], f.ids)

Frame ==
    /\ frames # <<>>
    /\ frames' = Tail(frames)
    /\ client' = Published(Apply(client, Head(frames)))
    /\ UNCHANGED <<host, hist>>

-----------------------------------------------------------------------------
(* Faults.  An answer that is lost says nothing about what the host did.   *)

Fault(lost) ==
    /\ hist.faults + hist.foreign < MaxFaults
    /\ hist' = [hist EXCEPT !.faults = @ + 1, !.lost = @ \/ lost]

Refuse(i) ==
    /\ i \in client.open \cap client.wire
    /\ Fault(FALSE)
    /\ client' = Rejects([client EXCEPT !.wire = @ \ {i}], i)
    /\ UNCHANGED <<host, frames>>

LoseAnswer(i) ==
    /\ i \in client.open
    /\ Fault(TRUE)
    /\ client' = Rejects(client, i)
    /\ UNCHANGED <<host, frames>>

\* The removal is refused, or its answer is lost.
RemovalFails ==
    /\ client.move \in {"removing", "removed", "missing"}
    /\ Fault(client.move # "removing")
    /\ client' = MoveFails(client)
    /\ UNCHANGED <<host, frames>>

CancelFails ==
    /\ client.interrupt \in {"cancelling", "cancelled"}
    /\ Fault(FALSE)
    /\ client' = Published(Stopped(client))
    /\ UNCHANGED <<host, frames>>

\* The generation ends, and with it every call that is still open.
Disconnect ==
    /\ client.online
    /\ Fault(client.open # {} \/ client.move # "no")
    /\ client' =
          LET sends == \E i \in client.open : client.requests[i].by = "loop"
              c == [client EXCEPT !.online = FALSE, !.ready = FALSE,
                                  !.open = {}, !.slot = "free",
                                  !.loop = @ /\ ~sends,
                                  !.outbox = @ \ client.open]
              d == IF c.move = "no" THEN c ELSE MoveFails(c)
          IN  IF d.interrupt = "settling" THEN d ELSE Stopped(d)
    /\ frames' = <<>>
    /\ UNCHANGED host

\* The next generation: beginGeneration, then online with a new baseline.
Reconnect ==
    /\ ~client.online
    /\ client' = Published([client EXCEPT
                    !.online = TRUE, !.told = FALSE, !.outbox = {},
                    !.shadow = FALSE, !.steering = host.steering,
                    !.queued = host.queued])
    /\ UNCHANGED <<host, frames, hist>>

\* refreshLists, followSession and the session's snapshot
Restore ==
    /\ client.online /\ ~client.ready
    /\ client' = Published([client EXCEPT
                    !.ready = TRUE, !.told = FALSE, !.outbox = {},
                    !.shadow = FALSE,
                    !.running = IF client.told THEN @ ELSE host.running])
    /\ UNCHANGED <<host, frames, hist>>

-----------------------------------------------------------------------------
(* The host.                                                               *)

\* The host sends these frames to a client that is connected.
Sends(fs) ==
    /\ client.online => Len(frames) + Len(fs) <= MaxFrames
    /\ frames' = IF client.online THEN frames \o fs ELSE frames

Status(running) == [kind |-> "status", running |-> running]
Inbox(h, ids) == [kind |-> "inbox", steering |-> h.steering,
                  queued |-> h.queued, ids |-> ids]

\* A prompt arrives and is put in the inbox.
Receive(i) ==
    /\ i \in client.wire
    /\ client' = [client EXCEPT !.wire = @ \ {i}]
    /\ LET h == [host EXCEPT !.received = @ \cup {i}]
       IN  host' = IF client.requests[i].delivery = "steer"
                   THEN [h EXCEPT !.steering = Append(@, i)]
                   ELSE [h EXCEPT !.queued = Append(@, i)]
    /\ Sends(<<Inbox(host', {})>>)
    /\ UNCHANGED hist

\* Queued input wakes a turn that claims it; steering input alone does not.
Wake ==
    /\ ~host.running
    /\ host.queued # <<>>
    /\ host' = [host EXCEPT !.running = TRUE, !.queued = Tail(@),
                            !.recorded = @ \cup {Head(host.queued)}]
    /\ Sends(<<Status(TRUE), Inbox(host', {Head(host.queued)})>>)
    /\ UNCHANGED <<client, hist>>

\* A step boundary of the running turn claims the steering input.
Boundary ==
    /\ host.running
    /\ host.steering # <<>>
    /\ host' = [host EXCEPT !.steering = <<>>,
                            !.recorded = @ \cup Range(host.steering)]
    /\ Sends(<<Inbox(host', Range(host.steering))>>)
    /\ UNCHANGED <<client, hist>>

EndTurn ==
    /\ host.running
    /\ host' = [host EXCEPT !.running = FALSE]
    /\ Sends(<<Status(FALSE)>>)
    /\ UNCHANGED <<client, hist>>

\* Another client of the host starts a turn.
ForeignTurn ==
    /\ ~host.running
    /\ hist.faults + hist.foreign < MaxFaults
    /\ host' = [host EXCEPT !.running = TRUE]
    /\ hist' = [hist EXCEPT !.foreign = @ + 1]
    /\ Sends(<<Status(TRUE)>>)
    /\ UNCHANGED client

\* The removal arrives: session/queue-item-not-found if the row is gone.
DropRow ==
    /\ client.move = "removing"
    /\ \/ \E n \in DOMAIN host.steering :
            /\ host.steering[n] = client.row
            /\ host' = [host EXCEPT !.steering = RemoveAt(@, n)]
            /\ client' = [client EXCEPT !.move = "removed"]
            /\ Sends(<<Inbox(host', {})>>)
       \/ /\ client.row \notin Range(host.steering)
          /\ client' = [client EXCEPT !.move = "missing"]
          /\ UNCHANGED <<host, frames>>
    /\ UNCHANGED hist

\* The cancel arrives.  Input in the inbox stays.
Cancel ==
    /\ client.interrupt = "cancelling"
    /\ client' = [client EXCEPT !.interrupt = "cancelled"]
    /\ host' = [host EXCEPT !.running = FALSE]
    /\ IF host.running THEN Sends(<<Status(FALSE)>>) ELSE UNCHANGED frames
    /\ UNCHANGED hist

-----------------------------------------------------------------------------
Next ==
    \/ \E text \in Typed : Type(text)
    \/ \E text \in Internal : LoopSends(text)
    \/ \E force \in BOOLEAN : Interrupt(force)
    \/ SendCancel \/ CancelAnswered
    \/ \E i \in Requests : Accepted(i) \/ Refuse(i) \/ LoseAnswer(i) \/ Receive(i)
    \/ RemovalAnswered \/ RetryTime \/ Publish \/ Frame
    \/ RemovalFails \/ CancelFails \/ Disconnect \/ Reconnect \/ Restore
    \/ Wake \/ Boundary \/ EndTurn \/ ForeignTurn \/ DropRow \/ Cancel

Spec == Init /\ [][Next]_vars

\* Calls arrive and are answered, frames are delivered, the host wakes for
\* queued input and ends its turns, and a lost connection comes back.  The
\* cost scan publishes once a minute while the client is online; without it a
\* second parked row would wait for somebody to press a key, for a move ends
\* without a publish.  The operator and step boundaries owe nothing.
Fairness ==
    /\ WF_vars(Frame)
    /\ WF_vars(\E i \in Requests : Receive(i))
    /\ WF_vars(\E i \in Requests : Accepted(i))
    /\ WF_vars(DropRow) /\ WF_vars(RemovalAnswered) /\ WF_vars(RetryTime)
    /\ WF_vars(Publish)
    /\ WF_vars(SendCancel) /\ WF_vars(Cancel) /\ WF_vars(CancelAnswered)
    /\ WF_vars(Wake) /\ WF_vars(EndTurn)
    /\ WF_vars(Reconnect) /\ WF_vars(Restore)

FairSpec == Spec /\ Fairness

-----------------------------------------------------------------------------
(* Properties.                                                             *)

\* The requests that carry this message.
Carrying(text) == {i \in DOMAIN client.requests : Text(i) = text}

\* As long as no answer is lost a message is recorded once, however often it
\* is parked, claimed and moved: "Removing first is what keeps one message
\* from being delivered twice" (moveUnclaimed).
RecordedOnce ==
    ~hist.lost =>
        \A text \in Messages : Cardinality(Carrying(text) \cap host.recorded) <= 1

\* A message the host had taken is never without an owner: it is recorded, in
\* the inbox, on its way again or kept by the mover.
Kept(text) ==
    \/ Carrying(text) \cap (host.recorded \cup client.wire
                            \cup Range(host.steering) \cup Range(host.queued)) # {}
    \/ client.row \in Carrying(text)

NothingDropped ==
    ~hist.lost =>
        \A i \in host.received : Kept(Text(i))

\* Parking, claiming, moving and resending neither double a message nor lose it.
MessagesCounted == RecordedOnce /\ NothingDropped

\* The same with lost answers: what moveUnclaimed removed is "now the only
\* place the message exists", and "session/queue-item-not-found is the one
\* failure that means the message was delivered rather than lost".
MovedNotLost == \A i \in host.received : Kept(Text(i))

\* A steering message that no turn claimed does not wait for the operator to
\* type again: it is recorded in the end, also where a move was refused.
ParkedIsDelivered ==
    \A text \in Messages :
        Carrying(text) \cap Range(host.steering) # {} ~>
            hist.lost \/ Carrying(text) \cap host.recorded # {}

\* The cancel of an interrupt never overtakes a prompt of the foreground slot
\* sent before it: "Admission must settle before cancellation can address
\* the newly submitted turn".
CancelFollowsPrompts ==
    [][client.interrupt # "cancelling" /\ client'.interrupt = "cancelling" =>
        \/ hist.lost
        \/ \A i \in client.wire :
              client.requests[i].by = "loop" \/ i > client'.awaits]_vars

\* interrupt() always comes back, so the next key press is not joined to a
\* cancellation that never ends.
InterruptReturns == client.interrupt # "no" ~> client.interrupt = "no"

\* No line stays above the composer for ever: a prompt in the outbox is
\* retired when it is reported, recorded, rejected or moved.
OutboxEmpties ==
    \A text \in Typed :
        Carrying(text) \cap client.outbox # {} ~> Carrying(text) \cap client.outbox = {}

\* Nothing the operator did stays under way for ever: a steered message, a cancel and
\* a line above the composer all come to their end.
WritesSettle == ParkedIsDelivered /\ InterruptReturns /\ OutboxEmpties

\* queueUnclaimed leaves rows to "a turn that is running - or a loop driving
\* one": it does not move a message while a run awaits its turn.
MoverLeavesLoops ==
    [][client.loop => client'.move = client.move \/ client'.slot # "mover"]_vars

\* README: Ctrl+C "requests cancellation while the selected session is
\* running and exits only when it is idle".
IdleIsLeftAlone == Quiet /\ client.interrupt = "no" => ~Cancels(client)

\* README: Enter "while idle starts a new turn".
IdleStartsTurn ==
    [][Quiet /\ Len(client'.requests) > Len(client.requests) =>
        Last(client'.requests).delivery = "queue"]_vars

=============================================================================
