---------------------------- MODULE Connection ----------------------------
(***************************************************************************)
(* controller/connection.ts: ConnectionController, with the streams of one *)
(* generation (controller/connection-streams.ts) and the client that       *)
(* carries them (transport/client.ts).                                     *)
(*                                                                         *)
(* run() is one task: `task.at` names the await it is suspended in, and    *)
(* every action that moves it stands for the code up to the next await.    *)
(* Frames, socket events, late answers and stop() come in between.         *)
(***************************************************************************)
EXTENDS Naturals, FiniteSets

CONSTANT MaxGenerations   \* bound: generations one run of the client begins

ASSUME GenerationsAssumption == MaxGenerations \in Nat \ {0}

VARIABLES
    task,     \* run(): where it waits, its locals
    conn,     \* the fields of ConnectionController
    gens,     \* per generation: its signal, its client and its streams
    stopper,  \* where a call of stop() waits
    hist      \* history, read only by the properties

vars == <<task, conn, gens, stopper, hist>>

Generations == 1..MaxGenerations

\* The awaits of one generation, in order.
Steps == <<"authenticate", "connect", "events", "control", "ready", "serve">>
Phases == {Steps[i] : i \in DOMAIN Steps}
Following(phase) == Steps[(CHOOSE i \in DOMAIN Steps : Steps[i] = phase) + 1]

Streams == {"events", "control", "session"}
Durations == {"none", "short", "stable"}   \* readyForMs: 0, < and >= 15 s

\* One generation: its signal, its client and its streams.
GenFields ==
    [aborted : BOOLEAN,     \* generation.signal
     closed : BOOLEAN,      \* the client's lifetime is over
     socket : {"none", "opening", "open", "gone"},
     streams : SUBSET Streams,
     replies : BOOLEAN]     \* an unknown waterfall's result

TypeOK ==
    /\ task \in [at : Phases \cup {"idle", "close", "ended", "delay", "done"},
                 gen : 0..MaxGenerations,
                 attempt : 0..MaxGenerations,
                 readyFor : Durations,
                 outcome : {"none", "retry", "login"}]
    /\ conn \in [current : {0, task.gen},
                 clientId : {0, task.gen},
                 online : BOOLEAN,
                 fails : {0, task.gen},     \* whose generationFailed is set
                 aborted : BOOLEAN]
    /\ gens \in [Generations -> GenFields]
    /\ stopper \in {"no", "close", "join", "done"}
    /\ hist \in [strangers : BOOLEAN,   \* a failure ended another generation
                 astray : BOOLEAN,      \* a frame came of a generation gone
                 served : Durations,    \* how long this generation served
                 streak : Nat]          \* generations since a stable one

Unborn == [aborted |-> FALSE, closed |-> FALSE, socket |-> "none",
           streams |-> {}, replies |-> FALSE]

Init ==
    /\ task = [at |-> "idle", gen |-> 0, attempt |-> 0, readyFor |-> "none",
               outcome |-> "none"]
    /\ conn = [current |-> 0, clientId |-> 0, online |-> FALSE, fails |-> 0,
               aborted |-> FALSE]
    /\ gens = [g \in Generations |-> Unborn]
    /\ stopper = "no"
    /\ hist = [strangers |-> FALSE, astray |-> FALSE, served |-> "none",
               streak |-> 0]

-----------------------------------------------------------------------------
(* The client and the generation's failure.                                *)

\* Client.close, its synchronous part: the lifetime ends, every listener is
\* told once, and the socket, if there is one, is left to be terminated.
Close(g) ==
    [g EXCEPT !.closed = TRUE, !.streams = {},
              !.socket = IF @ = "none" THEN "gone" ELSE @]

\* fail(): one failure counts per generation; it ends HTTP and streams.
Fail(g) == IF g.aborted THEN g ELSE Close([g EXCEPT !.aborted = TRUE])

\* generationFailed?.(error), from outside the generation.
FailCurrent ==
    IF conn.fails = 0 THEN gens ELSE [gens EXCEPT ![conn.fails] = Fail(@)]

\* The generation's own signal: AbortSignal.any of the client's and its own.
Aborted(g) == conn.aborted \/ gens[g].aborted

\* A frame reaches a listener: the socket is the client's and it lives.
Hears(g, stream) ==
    /\ gens[g].socket = "open"
    /\ ~gens[g].closed
    /\ stream \in gens[g].streams

-----------------------------------------------------------------------------
(* run(): beginning a generation and going through its phases.             *)

\* The head of the while loop: listener.begin, makeClient, authenticate.
Begin ==
    /\ task.at = "idle" \/ task.at = "delay"
    /\ ~conn.aborted
    /\ task.gen < MaxGenerations
    /\ LET g == task.gen + 1
       IN /\ task' = [task EXCEPT !.at = "authenticate", !.gen = g,
                                  !.outcome = "none"]
          /\ conn' = [conn EXCEPT !.current = g, !.fails = g]
    /\ hist' = [hist EXCEPT !.served = "none"]
    /\ UNCHANGED <<gens, stopper>>

\* The loop is left: aborted before a generation, or during the delay.
Leave ==
    /\ task.at = "idle" \/ task.at = "delay"
    /\ conn.aborted
    /\ task' = [task EXCEPT !.at = "done"]
    /\ UNCHANGED <<conn, gens, stopper, hist>>

\* The phase's own work is done: what it waits for has come.
Reached(g) ==
    CASE task.at \in {"authenticate", "ready"} -> TRUE
      [] task.at = "connect" -> gens[g].socket = "open"
      [] task.at = "events" -> conn.clientId = g
      [] task.at = "control" -> TRUE
      [] task.at = "serve" -> FALSE

\* Entering a phase: the calls made up to its await.  `ready` publishes
\* online before its first await.
Enter(g, phase) ==
    /\ task' = [task EXCEPT !.at = phase]
    /\ gens' = [gens EXCEPT ![g] =
          CASE phase = "connect" -> [@ EXCEPT !.socket = "opening"]
            [] phase \in {"events", "control"} ->
                 [@ EXCEPT !.streams = @ \cup {phase}]
            [] OTHER -> @]
    /\ conn' = [conn EXCEPT !.online = @ \/ phase = "ready"]

MutantAdvances(g) == Following(task.at) = "control" => gens[g].socket = "open"
\* A phase is over and signal.throwIfAborted() lets the next one begin.  A
\* stream cannot be opened on a mux that is gone.
Advances(g) ==
    /\ ~Aborted(g)
    /\ Following(task.at) \in {"events", "control"} => gens[g].socket = "open"

Advance ==
    LET g == task.gen
    IN /\ task.at \in Phases
       /\ Reached(g)
       /\ Advances(g)
       /\ Enter(g, Following(task.at))
       /\ UNCHANGED <<stopper, hist>>

\* The finally block up to `await client.close()`.
Release == [conn EXCEPT !.fails = 0, !.clientId = 0, !.online = FALSE]

Unwind(g) ==
    /\ task.at \in Phases
    /\ conn' = Release
    /\ gens' = [gens EXCEPT ![g] = Close([@ EXCEPT !.aborted = TRUE])]
    /\ UNCHANGED stopper

\* The phase throws, or throwIfAborted does.  `login` is an answer that asks
\* for a new login; the errors passed to fail() are never that.
Throw(outcome) ==
    LET g == task.gen
    IN /\ task.at # "serve"
       /\ Unwind(g)
       /\ outcome = "login" => /\ task.at \in {"authenticate", "ready"}
                               /\ ~Aborted(g)
       /\ task.at = "connect" =>
             \/ gens[g].socket = "gone"
             \/ gens[g].socket = "open" /\ Aborted(g)
       /\ task.at = "events" => conn.clientId # g \/ Aborted(g)
       /\ task' = [task EXCEPT !.at = "close", !.outcome = outcome]
       /\ UNCHANGED hist

\* `await disconnected` returns; readyForMs is how long it served.
Disconnected(readyFor) ==
    /\ task.at = "serve"
    /\ gens[task.gen].aborted
    /\ Unwind(task.gen)
    /\ task' = [task EXCEPT !.at = "close", !.outcome = "retry",
                            !.readyFor = readyFor]
    /\ hist' = [hist EXCEPT !.served = readyFor]

\* The socket is closed; `current` is cleared and listener.ended called.
SocketClosed(g) == gens[g].socket = "gone"

Closed ==
    /\ task.at = "close"
    /\ SocketClosed(task.gen)
    /\ task' = [task EXCEPT !.at = "ended"]
    /\ conn' = [conn EXCEPT !.current = 0]
    /\ UNCHANGED <<gens, stopper, hist>>

\* controller/reconnect.ts: nextReconnectAttempt.
NextAttempt(attempt, readyFor) == IF readyFor = "stable" THEN 0 ELSE attempt + 1

\* listener.ended returns: the loop is left, or the delay begins.
Ended ==
    /\ task.at = "ended"
    /\ IF task.outcome = "login" \/ conn.aborted
         THEN task' = [task EXCEPT !.at = "done"] /\ UNCHANGED hist
         ELSE /\ task' = [task EXCEPT !.at = "delay",
                            !.attempt = NextAttempt(@, task.readyFor)]
              /\ hist' = [hist EXCEPT
                            !.streak = NextAttempt(@, hist.served)]
    /\ UNCHANGED <<conn, gens, stopper>>

-----------------------------------------------------------------------------
(* The socket, the streams and the calls of the application.               *)

\* The handshake ends, in time or by its timeout.
Handshake(g) ==
    /\ gens[g].socket = "opening"
    /\ ~gens[g].closed
    /\ \E socket \in {"open", "gone"} : gens' = [gens EXCEPT ![g].socket = socket]
    /\ UNCHANGED <<task, conn, stopper, hist>>

\* The socket of a closed client has been terminated.
Terminated(g) ==
    /\ gens[g].closed
    /\ gens[g].socket \in {"opening", "open"}
    /\ gens' = [gens EXCEPT ![g].socket = "gone"]
    /\ UNCHANGED <<task, conn, stopper, hist>>

Watched == {"events", "control"}

\* The peer hangs up, and every listener's end() is called: the streams of
\* the connection fail the generation, the session's only says so.
Lost(g) ==
    /\ gens[g].socket = "open"
    /\ ~gens[g].closed
    /\ LET lost == [gens[g] EXCEPT !.socket = "gone", !.streams = {}]
       IN gens' = [gens EXCEPT ![g] =
             IF gens[g].streams \cap Watched = {} \/ Aborted(g)
             THEN lost ELSE Fail(lost)]
    /\ UNCHANGED <<task, conn, stopper, hist>>

\* One stream ends.  A host without the control method costs only metrics.
StreamEnds(g, stream, unavailable) ==
    /\ Hears(g, stream)
    /\ unavailable => stream = "control"
    /\ LET left == [gens[g] EXCEPT !.streams = @ \ {stream}]
       IN gens' = [gens EXCEPT ![g] =
             IF stream \notin Watched \/ unavailable \/ Aborted(g)
             THEN left ELSE Fail(left)]
    /\ UNCHANGED <<task, conn, stopper, hist>>

\* The ready item of the events stream: identified(clientId).
Identified(g) ==
    /\ Hears(g, "events")
    /\ ~Aborted(g)
    /\ conn.clientId # g
    /\ conn' = [conn EXCEPT !.clientId = g]
    /\ UNCHANGED <<task, gens, stopper, hist>>

\* A waterfall nobody knows is answered, so that the host can go on.
Waterfall(g) ==
    /\ Hears(g, "events")
    /\ ~Aborted(g)
    /\ conn.clientId = g
    /\ ~gens[g].replies
    /\ gens' = [gens EXCEPT ![g].replies = TRUE]
    /\ UNCHANGED <<task, conn, stopper, hist>>

\* The generation a stream's own fail() belongs to.
MutantOwner(g) == conn.fails
Owner(g) == g

\* That answer was delivered, or failed, maybe long after its generation.
Replied(g) ==
    /\ gens[g].replies
    /\ gens' = [gens EXCEPT ![g].replies = FALSE]
    /\ UNCHANGED <<task, conn, stopper, hist>>
ReplyFails(g) ==
    /\ gens[g].replies
    /\ LET target == Owner(g)
           answered == [gens EXCEPT ![g].replies = FALSE]
       IN /\ gens' = IF target = 0 THEN answered
                     ELSE [answered EXCEPT ![target] = Fail(@)]
          /\ hist' = [hist EXCEPT !.strangers = @ \/ target \notin {0, g}]
    /\ UNCHANGED <<task, conn, stopper>>

\* SessionController.followSession, through require().
FollowSession ==
    LET g == conn.current
    IN /\ g # 0 /\ conn.online
       /\ gens[g].socket = "open" /\ ~gens[g].closed
       /\ gens' = [gens EXCEPT ![g].streams = @ \cup {"session"}]
       /\ UNCHANGED <<task, conn, stopper, hist>>

\* A session frame; one that cannot be read or applied fails the current
\* generation through fail().
SessionFrame(g, readable) ==
    /\ Hears(g, "session")
    /\ LET target == IF readable THEN 0 ELSE conn.fails
       IN /\ gens' = IF target = 0 THEN gens
                     ELSE [gens EXCEPT ![target] = Fail(@)]
          /\ hist' = [hist EXCEPT !.strangers = @ \/ target \notin {0, g},
                                  !.astray = @ \/ Aborted(g)]
    /\ UNCHANGED <<task, conn, stopper>>

-----------------------------------------------------------------------------
(* stop().                                                                 *)

\* What stop() does before its first await.
Stopped(g) == IF g = 0 THEN gens ELSE [FailCurrent EXCEPT ![g] = Close(@)]

Stop ==
    /\ stopper = "no"
    /\ conn' = [conn EXCEPT !.aborted = TRUE]
    /\ gens' = Stopped(conn.current)
    /\ stopper' = "close"
    /\ UNCHANGED <<task, hist>>

\* current.close() is done; then the task, if there is one.
StopCloses ==
    /\ stopper = "close"
    /\ conn.current # 0 => gens[conn.current].socket = "gone"
    /\ stopper' = "join"
    /\ UNCHANGED <<task, conn, gens, hist>>

StopJoins ==
    /\ stopper = "join"
    /\ task.at \in {"idle", "done"}
    /\ stopper' = "done"
    /\ UNCHANGED <<task, conn, gens, hist>>

-----------------------------------------------------------------------------
Failing == Throw("retry") \/ Throw("login")
Settling == Closed \/ Ended \/ Leave \/ (task.at = "delay" /\ Begin)

Next ==
    \/ Begin
    \/ Leave
    \/ Advance
    \/ Throw("retry")
    \/ Throw("login")
    \/ \E readyFor \in {"short", "stable"} : Disconnected(readyFor)
    \/ Closed
    \/ Ended
    \/ \E g \in Generations :
          \/ Handshake(g)
          \/ Terminated(g)
          \/ Lost(g)
          \/ \E stream \in Streams, unavailable \in BOOLEAN :
                StreamEnds(g, stream, unavailable)
          \/ Identified(g)
          \/ Waterfall(g)
          \/ Replied(g)
          \/ ReplyFails(g)
          \/ \E readable \in BOOLEAN : SessionFrame(g, readable)
    \/ FollowSession
    \/ Stop
    \/ StopCloses
    \/ StopJoins

Spec == Init /\ [][Next]_vars

\* Every phase ends, if only by its timeout; the delay elapses; a handshake
\* ends and a terminated socket closes.  The peer, the host's frames, the
\* operator and the late answers owe nothing.
Fairness ==
    /\ WF_vars(Advance \/ Failing)
    /\ WF_vars(\E readyFor \in {"short", "stable"} : Disconnected(readyFor))
    /\ WF_vars(Settling)
    /\ WF_vars(\E g \in Generations : Handshake(g) \/ Terminated(g))
    /\ WF_vars(StopCloses \/ StopJoins)

FairSpec == Spec /\ Fairness

-----------------------------------------------------------------------------
(* Properties.                                                             *)

\* The next generation starts only after the socket of the one before it is
\* closed, so two of them are never connected to the host at once, and no
\* late socket event can be taken for the new connection's.
OneSocket ==
    \A g, h \in Generations :
        gens[g].socket \in {"opening", "open"} /\ gens[h].socket \in {"opening", "open"}
        => g = h

\* `online` lets commands through require(); it is true only while the
\* current generation is past its baseline, with the client that answers
\* and the identity that replies are sent under.
OnlineIsIdentified ==
    conn.online => /\ task.at \in {"ready", "serve"}
                   /\ conn.current = task.gen
                   /\ conn.clientId = task.gen
                   /\ conn.fails = task.gen

\* A failure, however late it is reported, ends the generation it happened
\* in and never the one that replaced it.
FailuresStayHome == ~hist.strangers

\* Once a generation failed, nothing more of it reaches the session.
NoFrameAfterFailure == ~hist.astray

\* What one generation owns is never another's: the socket, the identity commands
\* are sent under, the failure that ends it and the frames it delivers.
GenerationsApart ==
    OneSocket /\ OnlineIsIdentified /\ FailuresStayHome /\ NoFrameAfterFailure

\* After stop() no phase is entered and no generation begun: run() only
\* winds down (tests/controller/connection.test.ts, "stop during
\* authentication never starts the next connection phase").
StopStartsNothing ==
    [][conn.aborted =>
         /\ task'.gen = task.gen
         /\ task'.at \in Phases => task'.at = task.at]_vars

\* stop() returns, and when it does no socket is left.
StopSettles ==
    conn.aborted ~> /\ stopper = "done"
                    /\ \A g \in Generations : gens[g].socket \in {"none", "gone"}

\* A generation whose socket is gone is followed by another, unless the client was
\* stopped or the host asked for a login.
Reconnects ==
    \A g \in 1..(MaxGenerations - 1) :
        gens[g].socket = "gone" ~>
                           \/ task.gen > g
                           \/ conn.aborted
                           \/ task.outcome = "login"

\* Every way a generation ends is followed up: run() returns after stop(), with no
\* socket left, and otherwise goes on to the next generation or to the login.
GenerationsEnd == StopSettles /\ Reconnects

\* reconnect.ts: the count is that of "consecutive unstable generations",
\* and a generation that was never ready counts.
CountsUnstable == task.at = "delay" => task.attempt = hist.streak

=============================================================================
