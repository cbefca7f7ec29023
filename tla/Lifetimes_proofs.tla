-------------------------- MODULE Lifetimes_proofs --------------------------
(***************************************************************************)
(* Theorems about what the client begins and must be able to stop:         *)
(* Connection, for any number of generations, and Verifier, for any number *)
(* of verifications and whatever their turns reply.                        *)
(***************************************************************************)
EXTENDS MCLifetimes, TLAPS

\* Where the task is between two generations.
Between == {"idle", "ended", "delay", "done"}

\* The fields of the controller follow the task: inside a generation it is
\* the current one and its failure is reported to it; from the finally block
\* on nothing is reported, and nobody is identified or online.
TaskInv ==
    /\ task.at = "idle" => task.gen = 0
    /\ task.at \in Phases \cup {"close", "ended"} => task.gen > 0
    /\ task.at \in Phases => conn.current = task.gen /\ conn.fails = task.gen
    /\ task.at = "close" => conn.current = task.gen
    /\ task.at \in Between => conn.current = 0
    /\ task.at \notin Phases => conn.fails = 0 /\ conn.clientId = 0
    /\ task.at \in {"control", "ready", "serve"} => conn.clientId = task.gen
    /\ conn.online => task.at \in {"ready", "serve"}
    /\ task.attempt <= task.gen
    /\ task.at \in Phases \cup {"close", "ended"} => task.attempt < task.gen

\* The generation of the task, while its client may be used.
Present(g) == g = task.gen /\ task.at \in Phases

\* What a generation is before, after and during its time.
GenInv(g) ==
    /\ g > task.gen => gens[g] = Unborn
    /\ g < task.gen => gens[g].socket = "gone"
    /\ g = task.gen /\ task.at \in Between => gens[g].socket = "gone"
    /\ g <= task.gen /\ ~Present(g) => gens[g].closed /\ gens[g].aborted
    /\ gens[g].aborted => gens[g].closed
    /\ conn.aborted /\ Present(g) => gens[g].closed

HistInv == ~hist.strangers /\ ~hist.astray

ConnInv ==
    /\ TypeOK
    /\ TaskInv
    /\ \A g \in Generations : GenInv(g)
    /\ HistInv

-----------------------------------------------------------------------------
(* The phases, the client and its failure.                                 *)

LEMMA PhaseNames ==
    Phases = {"authenticate", "connect", "events", "control", "ready", "serve"}
  BY DEF Phases, Steps

LEMMA FollowingPhases ==
    /\ Following("authenticate") = "connect"
    /\ Following("connect") = "events"
    /\ Following("events") = "control"
    /\ Following("control") = "ready"
    /\ Following("ready") = "serve"
<1>1. \A n \in DOMAIN Steps : Following(Steps[n]) = Steps[n + 1]
  <2>1. SUFFICES ASSUME NEW n \in DOMAIN Steps
                 PROVE  (CHOOSE i \in DOMAIN Steps : Steps[i] = Steps[n]) = n
    BY DEF Following
  <2>2. \A i \in DOMAIN Steps : Steps[i] = Steps[n] <=> i = n
    BY DEF Steps
  <2> QED
    BY <2>2
<1>2. /\ 1 \in DOMAIN Steps /\ Steps[1] = "authenticate"
      /\ 2 \in DOMAIN Steps /\ Steps[2] = "connect"
      /\ 3 \in DOMAIN Steps /\ Steps[3] = "events"
      /\ 4 \in DOMAIN Steps /\ Steps[4] = "control"
      /\ 5 \in DOMAIN Steps /\ Steps[5] = "ready"
      /\ 6 \in DOMAIN Steps /\ Steps[6] = "serve"
  BY DEF Steps
<1> QED
  BY <1>1, <1>2

\* close() and fail() keep a generation well-formed, and what they end stays
\* ended.
LEMMA CloseEnds ==
    ASSUME NEW g \in GenFields
    PROVE  /\ Close(g) \in GenFields
           /\ Close(g).closed
           /\ Close(g).aborted = g.aborted
           /\ g.socket = "gone" => Close(g).socket = "gone"
  BY DEF Close, GenFields

LEMMA FailEnds ==
    ASSUME NEW g \in GenFields, g.aborted => g.closed
    PROVE  /\ Fail(g) \in GenFields
           /\ Fail(g).closed
           /\ Fail(g).aborted
           /\ g.socket = "gone" => Fail(g).socket = "gone"
<1> DEFINE a == [g EXCEPT !.aborted = TRUE]
<1>1. a \in GenFields /\ a.aborted /\ a.socket = g.socket
  BY DEF GenFields
<1>2. CASE g.aborted
  BY <1>2 DEF Fail
<1>3. CASE ~g.aborted
  <2>1. Fail(g) = Close(a)
    BY <1>3 DEF Fail
  <2> QED
    BY <1>1, <2>1, CloseEnds
<1> QED
  BY <1>2, <1>3

-----------------------------------------------------------------------------
(* Steps that change one generation and nothing of the task.               *)

\* r is g some time later: nothing that ended has come back.
Later(g, r) ==
    /\ r \in GenFields
    /\ r.aborted => r.closed
    /\ g.closed => r.closed
    /\ g.aborted => r.aborted
    /\ g.socket = "gone" => r.socket = "gone"

LEMMA LaterKeeps ==
    ASSUME ConnInv, UNCHANGED <<task, conn, stopper>>,
           NEW g \in Generations, g <= task.gen,
           NEW r, Later(gens[g], r), gens' = [gens EXCEPT ![g] = r]
    PROVE  /\ TaskInv'
           /\ \A h \in Generations : GenInv(h)'
           /\ gens' \in [Generations -> GenFields]
<1> USE DEF ConnInv
<1>1. gens \in [Generations -> GenFields]
  BY DEF TypeOK
<1>2. gens' \in [Generations -> GenFields]
  BY <1>1 DEF Later
<1>3. TaskInv'
  BY DEF TaskInv
<1>4. ASSUME NEW h \in Generations PROVE GenInv(h)'
  <2>1. GenInv(h) /\ (Present(h)' <=> Present(h))
    BY DEF Present
  <2>2. CASE h # g
    <3>1. gens'[h] = gens[h]
      BY <1>1, <2>2
    <3> QED
      BY <2>1, <3>1 DEF GenInv
  <2>3. CASE h = g
    <3>1. gens'[h] = r
      BY <1>1, <2>3
    <3>2. ~(h > task.gen)
      BY <2>3, GenerationsAssumption DEF Generations, TypeOK
    <3> QED
      BY <2>1, <2>3, <3>1, <3>2 DEF GenInv, Later
  <2> QED
    BY <2>2, <2>3
<1> QED
  BY <1>2, <1>3, <1>4

\* A client that is not closed is the one of the task, in one of its phases.
LEMMA OpenIsPresent ==
    ASSUME ConnInv, NEW g \in Generations, ~gens[g].closed,
           gens[g].socket \in {"opening", "open"}
    PROVE  Present(g) /\ g <= task.gen /\ ~Aborted(g)
<1>1. GenInv(g)
  BY DEF ConnInv
<1>2. g <= task.gen
  BY <1>1, GenerationsAssumption DEF GenInv, Unborn, Generations, ConnInv, TypeOK
<1> QED
  BY <1>1, <1>2 DEF GenInv, Aborted

\* The invariant after such a step.
LEMMA LaterInv ==
    ASSUME ConnInv, UNCHANGED <<task, conn, stopper, hist>>,
           NEW g \in Generations, g <= task.gen,
           NEW r, Later(gens[g], r), gens' = [gens EXCEPT ![g] = r]
    PROVE  ConnInv'
<1>1. TaskInv' /\ (\A h \in Generations : GenInv(h)') /\ gens' \in [Generations -> GenFields]
  BY LaterKeeps
<1>2. TypeOK'
  BY <1>1 DEF ConnInv, TypeOK
<1>3. HistInv'
  BY DEF ConnInv, HistInv
<1> QED
  BY <1>1, <1>2, <1>3 DEF ConnInv

\* What replies are out belongs to a generation that has begun.
LEMMA RepliesBegun ==
    ASSUME ConnInv, NEW g \in Generations, gens[g].replies
    PROVE  g <= task.gen
<1>1. GenInv(g)
  BY DEF ConnInv
<1> QED
  BY <1>1, GenerationsAssumption DEF GenInv, Unborn, Generations, ConnInv, TypeOK

LEMMA GenTyped ==
    ASSUME ConnInv, NEW g \in Generations
    PROVE  /\ gens[g] \in GenFields
           /\ gens[g].aborted => gens[g].closed
  BY DEF ConnInv, TypeOK, GenInv

LEMMA HandshakeInv ==
    ASSUME ConnInv, NEW g \in Generations, Handshake(g)
    PROVE  ConnInv'
<1>1. PICK socket \in {"open", "gone"} : gens' = [gens EXCEPT ![g].socket = socket]
  BY DEF Handshake
<1> DEFINE r == [gens[g] EXCEPT !.socket = socket]
<1>2. gens' = [gens EXCEPT ![g] = r] /\ UNCHANGED <<task, conn, stopper, hist>>
  BY <1>1 DEF Handshake
<1>3. Later(gens[g], r)
  BY GenTyped DEF Handshake, Later, GenFields
<1>4. g <= task.gen
  BY OpenIsPresent DEF Handshake
<1> QED
  BY <1>2, <1>3, <1>4, LaterInv

LEMMA TerminatedInv ==
    ASSUME ConnInv, NEW g \in Generations, Terminated(g)
    PROVE  ConnInv'
<1> DEFINE r == [gens[g] EXCEPT !.socket = "gone"]
<1>1. gens' = [gens EXCEPT ![g] = r] /\ UNCHANGED <<task, conn, stopper, hist>>
  BY DEF Terminated
<1>2. Later(gens[g], r)
  BY GenTyped DEF Terminated, Later, GenFields
<1>3. g <= task.gen
  <2>1. GenInv(g)
    BY DEF ConnInv
  <2> QED
    BY <2>1, GenerationsAssumption
    DEF Terminated, GenInv, Unborn, Generations, ConnInv, TypeOK
<1> QED
  BY <1>1, <1>2, <1>3, LaterInv

LEMMA LostInv ==
    ASSUME ConnInv, NEW g \in Generations, Lost(g)
    PROVE  ConnInv'
<1> DEFINE lost == [gens[g] EXCEPT !.socket = "gone", !.streams = {}]
           r == IF gens[g].streams \cap Watched = {} \/ Aborted(g)
                THEN lost ELSE Fail(lost)
<1>1. gens' = [gens EXCEPT ![g] = r] /\ UNCHANGED <<task, conn, stopper, hist>>
  BY DEF Lost
<1>2. /\ lost \in GenFields
      /\ lost.aborted => lost.closed
      /\ lost.socket = "gone"
      /\ lost.closed = gens[g].closed
      /\ lost.aborted = gens[g].aborted
  BY GenTyped DEF GenFields
<1>3. Later(gens[g], r)
  <2>1. CASE gens[g].streams \cap Watched = {} \/ Aborted(g)
    BY <1>2, <2>1 DEF Later
  <2>2. CASE ~(gens[g].streams \cap Watched = {} \/ Aborted(g))
    <3>1. r = Fail(lost)
      BY <2>2
    <3> HIDE DEF lost, r
    <3> QED
      BY <1>2, <3>1, FailEnds DEF Later
  <2> QED
    BY <2>1, <2>2
<1>4. g <= task.gen
  BY OpenIsPresent DEF Lost
<1> HIDE DEF r
<1> QED
  BY <1>1, <1>3, <1>4, LaterInv

LEMMA StreamEndsInv ==
    ASSUME ConnInv, NEW g \in Generations, NEW stream \in Streams,
           NEW unavailable \in BOOLEAN, StreamEnds(g, stream, unavailable)
    PROVE  ConnInv'
<1> DEFINE left == [gens[g] EXCEPT !.streams = @ \ {stream}]
           quiet == stream \notin Watched \/ unavailable \/ Aborted(g)
           r == IF quiet THEN left ELSE Fail(left)
<1>1. gens' = [gens EXCEPT ![g] = r] /\ UNCHANGED <<task, conn, stopper, hist>>
  BY DEF StreamEnds
<1>2. /\ left \in GenFields
      /\ left.aborted => left.closed
      /\ left.socket = gens[g].socket
      /\ left.closed = gens[g].closed
      /\ left.aborted = gens[g].aborted
  BY GenTyped DEF GenFields
<1>3. Later(gens[g], r)
  <2>1. CASE quiet
    BY <1>2, <2>1 DEF Later
  <2>2. CASE ~quiet
    <3>1. r = Fail(left)
      BY <2>2
    <3> HIDE DEF left, r
    <3> QED
      BY <1>2, <3>1, FailEnds DEF Later
  <2> QED
    BY <2>1, <2>2
<1>4. g <= task.gen
  BY OpenIsPresent DEF StreamEnds, Hears
<1> HIDE DEF r
<1> QED
  BY <1>1, <1>3, <1>4, LaterInv

LEMMA WaterfallInv ==
    ASSUME ConnInv, NEW g \in Generations, Waterfall(g)
    PROVE  ConnInv'
<1> DEFINE r == [gens[g] EXCEPT !.replies = TRUE]
<1>1. gens' = [gens EXCEPT ![g] = r] /\ UNCHANGED <<task, conn, stopper, hist>>
  BY DEF Waterfall
<1>2. Later(gens[g], r)
  BY GenTyped DEF Later, GenFields
<1>3. g <= task.gen
  BY OpenIsPresent DEF Waterfall, Hears
<1> QED
  BY <1>1, <1>2, <1>3, LaterInv

LEMMA RepliedInv ==
    ASSUME ConnInv, NEW g \in Generations, Replied(g)
    PROVE  ConnInv'
<1> DEFINE r == [gens[g] EXCEPT !.replies = FALSE]
<1>1. gens' = [gens EXCEPT ![g] = r] /\ UNCHANGED <<task, conn, stopper, hist>>
  BY DEF Replied
<1>2. Later(gens[g], r)
  BY GenTyped DEF Later, GenFields
<1>3. g <= task.gen
  BY RepliesBegun DEF Replied
<1> QED
  BY <1>1, <1>2, <1>3, LaterInv

LEMMA FollowSessionInv ==
    ASSUME ConnInv, FollowSession
    PROVE  ConnInv'
<1> DEFINE g == conn.current
           r == [gens[g] EXCEPT !.streams = @ \cup {"session"}]
<1>1. g \in Generations
  BY GenerationsAssumption DEF FollowSession, ConnInv, TypeOK, Generations
<1>2. gens' = [gens EXCEPT ![g] = r] /\ UNCHANGED <<task, conn, stopper, hist>>
  BY DEF FollowSession
<1>3. Later(gens[g], r)
  BY <1>1, GenTyped DEF Later, GenFields, Streams
<1>4. g <= task.gen
  BY <1>1, OpenIsPresent DEF FollowSession
<1> HIDE DEF g, r
<1> QED
  BY <1>1, <1>2, <1>3, <1>4, LaterInv

LEMMA StutterInv ==
    ASSUME ConnInv, UNCHANGED vars
    PROVE  ConnInv'
<1>1. TypeOK' /\ TaskInv' /\ HistInv'
  BY DEF ConnInv, TypeOK, TaskInv, HistInv, vars
<1>2. \A g \in Generations : GenInv(g)'
  BY DEF ConnInv, GenInv, Present, vars
<1> QED
  BY <1>1, <1>2 DEF ConnInv

\* A late answer fails the generation it was sent in.
LEMMA ReplyFailsInv ==
    ASSUME ConnInv, NEW g \in Generations, ReplyFails(g)
    PROVE  ConnInv'
<1> DEFINE a == [gens[g] EXCEPT !.replies = FALSE]
           answered == [gens EXCEPT ![g].replies = FALSE]
           r == Fail(a)
<1>1. g # 0
  BY GenerationsAssumption DEF Generations
<1>2. gens' = [answered EXCEPT ![g] = Fail(answered[g])]
  BY <1>1 DEF ReplyFails, Owner
<1>3. answered = [gens EXCEPT ![g] = a] /\ answered[g] = a
  BY DEF ConnInv, TypeOK
<1>4. gens' = [gens EXCEPT ![g] = r]
  BY <1>2, <1>3 DEF ConnInv, TypeOK
<1>5. UNCHANGED <<task, conn, stopper, hist>>
  <2>1. hist' = [hist EXCEPT !.strangers = hist.strangers \/ g \notin {0, g}]
    BY DEF ReplyFails, Owner
  <2>2. (hist.strangers \/ g \notin {0, g}) = hist.strangers
    BY DEF ConnInv, TypeOK, HistInv
  <2>3. hist' = hist
    BY <2>1, <2>2 DEF ConnInv, TypeOK
  <2> QED
    BY <2>3 DEF ReplyFails
<1>6. Later(gens[g], r)
  <2>1. /\ a \in GenFields
        /\ a.aborted => a.closed
        /\ a.socket = gens[g].socket
    BY GenTyped DEF GenFields
  <2> HIDE DEF a
  <2> QED
    BY <2>1, FailEnds DEF Later
<1>7. g <= task.gen
  BY RepliesBegun DEF ReplyFails
<1> HIDE DEF r
<1> QED
  BY <1>4, <1>5, <1>6, <1>7, LaterInv

\* A frame reaches the session only while its generation lives, and the
\* failure it may report is that generation's.
LEMMA SessionFrameInv ==
    ASSUME ConnInv, NEW g \in Generations, NEW readable \in BOOLEAN,
           SessionFrame(g, readable)
    PROVE  ConnInv'
<1> DEFINE target == IF readable THEN 0 ELSE conn.fails
<1>1. Present(g) /\ g <= task.gen /\ ~Aborted(g)
  BY OpenIsPresent DEF SessionFrame, Hears
<1>2. conn.fails = g
  BY <1>1 DEF Present, ConnInv, TaskInv
<1>3. UNCHANGED <<task, conn, stopper, hist>>
  <2>1. hist' = [hist EXCEPT !.strangers = hist.strangers \/ target \notin {0, g},
                             !.astray = hist.astray \/ Aborted(g)]
    BY DEF SessionFrame
  <2>2. /\ (hist.strangers \/ target \notin {0, g}) = hist.strangers
        /\ (hist.astray \/ Aborted(g)) = hist.astray
    BY <1>1, <1>2 DEF ConnInv, TypeOK, HistInv
  <2>3. hist' = hist
    BY <2>1, <2>2 DEF ConnInv, TypeOK
  <2> QED
    BY <2>3 DEF SessionFrame
<1>4. CASE readable
  <2>1. gens' = gens
    BY <1>4 DEF SessionFrame
  <2> QED
    BY <1>3, <2>1, StutterInv DEF vars
<1>5. CASE ~readable
  <2>1. g # 0
    BY GenerationsAssumption DEF Generations
  <2>2. gens' = [gens EXCEPT ![g] = Fail(gens[g])]
    BY <1>2, <1>5, <2>1 DEF SessionFrame
  <2>3. Later(gens[g], Fail(gens[g]))
    BY GenTyped, FailEnds DEF Later
  <2> QED
    BY <1>1, <1>3, <2>2, <2>3, LaterInv
<1> QED
  BY <1>4, <1>5

\* The events stream of a live generation says who this client is.
LEMMA IdentifiedInv ==
    ASSUME ConnInv, NEW g \in Generations, Identified(g)
    PROVE  ConnInv'
<1>1. Present(g)
  BY OpenIsPresent DEF Identified, Hears
<1>2. conn' = [conn EXCEPT !.clientId = g] /\ UNCHANGED <<task, gens, stopper, hist>>
  BY DEF Identified
<1>3. TypeOK'
  <2>1. conn' \in [current : {0, task.gen}, clientId : {0, task.gen},
                   online : BOOLEAN, fails : {0, task.gen}, aborted : BOOLEAN]
    BY <1>1, <1>2 DEF ConnInv, TypeOK, Present
  <2> QED
    BY <1>2, <2>1 DEF ConnInv, TypeOK
<1>4. TaskInv'
  BY <1>1, <1>2 DEF ConnInv, TypeOK, TaskInv, Present
<1>5. \A h \in Generations : GenInv(h)'
  BY <1>2 DEF ConnInv, TypeOK, GenInv, Present
<1>6. HistInv'
  BY <1>2 DEF ConnInv, HistInv
<1> QED
  BY <1>3, <1>4, <1>5, <1>6 DEF ConnInv

-----------------------------------------------------------------------------
(* The steps of run().                                                     *)

LEMMA BeginInv ==
    ASSUME ConnInv, Begin
    PROVE  ConnInv'
<1> DEFINE g == task.gen + 1
<1>1. /\ task' = [task EXCEPT !.at = "authenticate", !.gen = g, !.outcome = "none"]
      /\ conn' = [conn EXCEPT !.current = g, !.fails = g]
      /\ hist' = [hist EXCEPT !.served = "none"]
      /\ UNCHANGED <<gens, stopper>>
  BY DEF Begin
<1>2. /\ task.gen \in 0..MaxGenerations /\ g \in Generations /\ g > task.gen
      /\ task.attempt \in Nat /\ task.attempt <= task.gen
  BY GenerationsAssumption DEF Begin, ConnInv, TypeOK, TaskInv, Generations
<1>3. conn.clientId = 0 /\ ~conn.online /\ ~conn.aborted /\ task.at \in Between
  BY PhaseNames DEF Begin, ConnInv, TaskInv, Between
<1>4. TypeOK'
  <2>1. task' \in [at : Phases \cup {"idle", "close", "ended", "delay", "done"},
                   gen : 0..MaxGenerations, attempt : 0..MaxGenerations,
                   readyFor : Durations, outcome : {"none", "retry", "login"}]
    <3>1. "authenticate" \in Phases /\ g \in 0..MaxGenerations
      BY <1>2, PhaseNames, GenerationsAssumption DEF Generations
    <3> HIDE DEF g
    <3> QED
      BY <1>1, <3>1 DEF ConnInv, TypeOK
  <2>2. task'.gen = g
    BY <1>1 DEF ConnInv, TypeOK
  <2>3. conn' \in [current : {0, g}, clientId : {0, g},
                   online : BOOLEAN, fails : {0, g}, aborted : BOOLEAN]
    BY <1>1, <1>3 DEF ConnInv, TypeOK
  <2>4. hist' \in [strangers : BOOLEAN, astray : BOOLEAN, served : Durations, streak : Nat]
    BY <1>1 DEF ConnInv, TypeOK, Durations
  <2> QED
    BY <1>1, <2>1, <2>2, <2>3, <2>4 DEF ConnInv, TypeOK
<1>5. TaskInv'
  <2>1. /\ task'.at = "authenticate" /\ task'.gen = g /\ task'.attempt = task.attempt
        /\ conn'.current = g /\ conn'.fails = g /\ ~conn'.online
    BY <1>1, <1>3 DEF ConnInv, TypeOK
  <2> QED
    BY <1>2, <2>1, PhaseNames DEF TaskInv, Between
<1>6. ASSUME NEW h \in Generations PROVE GenInv(h)'
  <2>1. /\ task'.at = "authenticate" /\ task'.gen = g /\ gens' = gens
        /\ conn'.aborted = conn.aborted
    BY <1>1 DEF ConnInv, TypeOK
  <2>2. h \in Nat /\ task.gen \in Nat
    BY <1>2, GenerationsAssumption DEF Generations
  <2>3. ~Present(h)
    BY <1>3, PhaseNames DEF Present, Between
  <2>4. Present(h)' <=> h = g
    BY <2>1, PhaseNames DEF Present
  <2>5. GenInv(h)
    BY DEF ConnInv
  <2>6. CASE h > task.gen
    <3>1. gens[h] = Unborn
      BY <2>5, <2>6 DEF GenInv
    <3> QED
      BY <1>3, <2>1, <2>2, <2>4, <2>6, <3>1 DEF GenInv, Unborn, Between
  <2>7. CASE h <= task.gen
    <3>1. gens[h].socket = "gone" /\ gens[h].closed /\ gens[h].aborted
      BY <1>3, <2>2, <2>3, <2>5, <2>7 DEF GenInv
    <3> QED
      BY <1>2, <2>1, <2>2, <2>7, <3>1 DEF GenInv
  <2> QED
    BY <2>2, <2>6, <2>7
<1>7. HistInv'
  BY <1>1 DEF ConnInv, TypeOK, HistInv
<1> QED
  BY <1>4, <1>5, <1>6, <1>7 DEF ConnInv

LEMMA LeaveInv ==
    ASSUME ConnInv, Leave
    PROVE  ConnInv'
<1>1. /\ task' = [task EXCEPT !.at = "done"]
      /\ task.at \in {"idle", "delay"}
      /\ UNCHANGED <<conn, gens, stopper, hist>>
  BY DEF Leave
<1>2. task'.at = "done" /\ task'.gen = task.gen /\ task'.attempt = task.attempt
  BY <1>1 DEF ConnInv, TypeOK
<1>3. TypeOK'
  BY <1>1, <1>2 DEF ConnInv, TypeOK
<1>4. TaskInv'
  BY <1>1, <1>2, PhaseNames DEF ConnInv, TypeOK, TaskInv, Between
<1>5. \A h \in Generations : GenInv(h)'
  BY <1>1, <1>2, PhaseNames DEF ConnInv, GenInv, Present, Between
<1>6. HistInv'
  BY <1>1 DEF ConnInv, HistInv
<1> QED
  BY <1>3, <1>4, <1>5, <1>6 DEF ConnInv

\* The phases in their order, with what each of them has waited for.
LEMMA AdvanceInv ==
    ASSUME ConnInv, Advance
    PROVE  ConnInv'
<1> DEFINE g == task.gen
           phase == Following(task.at)
           r == CASE phase = "connect" -> [gens[g] EXCEPT !.socket = "opening"]
                  [] phase \in {"events", "control"} ->
                       [gens[g] EXCEPT !.streams = @ \cup {phase}]
                  [] OTHER -> gens[g]
<1>1. /\ task' = [task EXCEPT !.at = phase]
      /\ gens' = [gens EXCEPT ![g] = r]
      /\ conn' = [conn EXCEPT !.online = @ \/ phase = "ready"]
      /\ UNCHANGED <<stopper, hist>>
      /\ task.at \in Phases /\ Reached(g) /\ ~Aborted(g)
  BY DEF Advance, Enter, Advances
<1>2. g \in Generations /\ task.attempt < g
  BY <1>1, GenerationsAssumption DEF ConnInv, TypeOK, TaskInv, Generations
<1>3. task.at # "serve"
  BY <1>1 DEF Reached
<1>4. /\ phase \in {"connect", "events", "control", "ready", "serve"}
      /\ phase = "control" => task.at = "events"
      /\ phase = "ready" => task.at = "control"
      /\ phase = "serve" => task.at = "ready"
  <2>1. task.at \in {"authenticate", "connect", "events", "control", "ready"}
    BY <1>1, <1>3, PhaseNames
  <2>2. CASE task.at \in {"authenticate", "connect"}
    BY <2>2, FollowingPhases
  <2>3. CASE task.at = "events"
    BY <2>3, FollowingPhases
  <2>4. CASE task.at = "control"
    BY <2>4, FollowingPhases
  <2>5. CASE task.at = "ready"
    BY <2>5, FollowingPhases
  <2> QED
    BY <2>1, <2>2, <2>3, <2>4, <2>5
<1>5. phase \in {"control", "ready", "serve"} => conn.clientId = g
  BY <1>1, <1>4 DEF Reached, ConnInv, TaskInv
<1>6. gens[g] \in GenFields /\ ~gens[g].aborted /\ ~conn.aborted
  BY <1>1, <1>2, GenTyped DEF Aborted
<1>7. r \in GenFields /\ r.aborted = gens[g].aborted /\ r.closed = gens[g].closed
  BY <1>2, <1>4, GenTyped DEF GenFields, Streams
<1>8. /\ task'.at = phase /\ task'.gen = g /\ task'.attempt = task.attempt
      /\ conn'.current = conn.current /\ conn'.fails = conn.fails
      /\ conn'.clientId = conn.clientId /\ conn'.aborted = conn.aborted
      /\ conn'.online = (conn.online \/ phase = "ready")
  <2> HIDE DEF phase
  <2> QED
    BY <1>1 DEF ConnInv, TypeOK
<1> HIDE DEF phase, r
<1>9. gens' \in [Generations -> GenFields] /\ gens'[g] = r
      /\ \A h \in Generations : h # g => gens'[h] = gens[h]
  BY <1>1, <1>2, <1>7 DEF ConnInv, TypeOK
<1>10. TypeOK'
  <2>1. task' \in [at : Phases \cup {"idle", "close", "ended", "delay", "done"},
                   gen : 0..MaxGenerations, attempt : 0..MaxGenerations,
                   readyFor : Durations, outcome : {"none", "retry", "login"}]
    BY <1>1, <1>4, PhaseNames DEF ConnInv, TypeOK
  <2>2. conn' \in [current : {0, g}, clientId : {0, g},
                   online : BOOLEAN, fails : {0, g}, aborted : BOOLEAN]
    BY <1>1 DEF ConnInv, TypeOK
  <2> QED
    BY <1>1, <1>8, <1>9, <2>1, <2>2 DEF ConnInv, TypeOK
<1>11. TaskInv'
  <2>1. /\ phase \in Phases /\ phase \notin Between /\ phase # "close" /\ phase # "idle"
        /\ conn.current = g /\ conn.fails = g /\ task.gen > 0
        /\ task.attempt <= task.gen
    BY <1>1, <1>4, PhaseNames DEF ConnInv, TaskInv, Between
  <2>2. conn.online => task.at = "ready"
    BY <1>3 DEF ConnInv, TaskInv
  <2>3. conn'.online => phase \in {"ready", "serve"}
    <3>1. task.at = "ready" => phase = "serve"
      BY FollowingPhases DEF phase
    <3> QED
      BY <1>8, <2>2, <3>1
  <2> QED
    BY <1>2, <1>5, <1>8, <2>1, <2>3 DEF TaskInv
<1>12. ASSUME NEW h \in Generations PROVE GenInv(h)'
  <2>1. /\ Present(h) <=> h = g
        /\ Present(h)' <=> h = g
        /\ task'.at \notin Between
    BY <1>1, <1>4, <1>8, PhaseNames DEF Present, Between
  <2>2. GenInv(h)
    BY DEF ConnInv
  <2>3. CASE h = g
    <3>1. gens[h].aborted => gens[h].closed
      BY GenTyped
    <3> QED
      BY <1>2, <1>6, <1>7, <1>8, <1>9, <2>1, <2>3, <3>1, GenerationsAssumption
      DEF GenInv, Generations
  <2>4. CASE h # g
    BY <1>8, <1>9, <2>1, <2>2, <2>4 DEF GenInv
  <2> QED
    BY <2>3, <2>4
<1>13. HistInv'
  BY <1>1 DEF ConnInv, HistInv
<1> QED
  BY <1>10, <1>11, <1>12, <1>13 DEF ConnInv

\* The finally block: the generation is over, and nothing of the controller
\* is of any generation but `current`.
LEMMA UnwindKeeps ==
    ASSUME ConnInv, Unwind(task.gen), task'.at = "close",
           task'.gen = task.gen, task'.attempt = task.attempt
    PROVE  /\ TaskInv'
           /\ \A h \in Generations : GenInv(h)'
           /\ gens' \in [Generations -> GenFields]
           /\ conn' \in [current : {0, task.gen}, clientId : {0, task.gen},
                         online : BOOLEAN, fails : {0, task.gen}, aborted : BOOLEAN]
<1> DEFINE g == task.gen
           a == [gens[g] EXCEPT !.aborted = TRUE]
           r == Close(a)
<1>1. /\ task.at \in Phases
      /\ conn' = [conn EXCEPT !.fails = 0, !.clientId = 0, !.online = FALSE]
  BY DEF Unwind, Release
<1>2. g \in Generations /\ g > 0 /\ conn.current = g /\ task.attempt < g
  BY <1>1, GenerationsAssumption DEF ConnInv, TypeOK, TaskInv, Generations
<1>3. gens' = [gens EXCEPT ![g] = r]
  BY <1>2 DEF Unwind
<1>4. a \in GenFields /\ a.aborted
  BY <1>2, GenTyped DEF GenFields
<1> HIDE DEF a
<1>5. r \in GenFields /\ r.aborted /\ r.closed
  BY <1>4, CloseEnds
<1> HIDE DEF r
<1>6. gens' \in [Generations -> GenFields] /\ gens'[g] = r
      /\ \A h \in Generations : h # g => gens'[h] = gens[h]
  BY <1>2, <1>3, <1>5 DEF ConnInv, TypeOK
<1>7. conn' \in [current : {0, g}, clientId : {0, g},
                 online : BOOLEAN, fails : {0, g}, aborted : BOOLEAN]
  BY <1>1 DEF ConnInv, TypeOK
<1>8. conn'.current = g /\ conn'.fails = 0 /\ conn'.clientId = 0 /\ ~conn'.online
  BY <1>1, <1>2 DEF ConnInv, TypeOK
<1>9. TaskInv'
  <2>1. /\ task'.attempt < task'.gen /\ task'.attempt <= task'.gen /\ task'.gen > 0
    BY <1>2 DEF ConnInv, TypeOK
  <2>2. task'.at \notin Phases /\ task'.at \notin Between /\ conn'.current = task'.gen
    BY <1>8, PhaseNames DEF Between
  <2> QED
    BY <1>8, <2>1, <2>2 DEF TaskInv
<1>10. ASSUME NEW h \in Generations PROVE GenInv(h)'
  <2>1. /\ Present(h) => h = g
        /\ ~Present(h)'
        /\ task'.at \notin Between
    BY PhaseNames DEF Present, Between
  <2>2. GenInv(h)
    BY DEF ConnInv
  <2>3. CASE h = g
    BY <1>2, <1>5, <1>6, <2>1, <2>3, GenerationsAssumption DEF GenInv, Generations
  <2>4. CASE h # g
    BY <1>6, <2>1, <2>2, <2>4 DEF GenInv
  <2> QED
    BY <2>3, <2>4
<1> QED
  BY <1>6, <1>7, <1>9, <1>10

LEMMA ThrowInv ==
    ASSUME ConnInv, NEW end \in {"retry", "login"}, Throw(end)
    PROVE  ConnInv'
<1>1. /\ Unwind(task.gen)
      /\ task' = [task EXCEPT !.at = "close", !.outcome = end]
      /\ hist' = hist /\ stopper' = stopper
  BY DEF Throw, Unwind
<1>2. /\ task'.at = "close" /\ task'.gen = task.gen
      /\ task'.attempt = task.attempt
      /\ task' \in [at : Phases \cup {"idle", "close", "ended", "delay", "done"},
                    gen : 0..MaxGenerations, attempt : 0..MaxGenerations,
                    readyFor : Durations, outcome : {"none", "retry", "login"}]
  BY <1>1 DEF ConnInv, TypeOK
<1>3. /\ TaskInv'
      /\ \A h \in Generations : GenInv(h)'
      /\ gens' \in [Generations -> GenFields]
      /\ conn' \in [current : {0, task.gen}, clientId : {0, task.gen},
                    online : BOOLEAN, fails : {0, task.gen}, aborted : BOOLEAN]
  BY <1>1, <1>2, UnwindKeeps
<1>4. TypeOK'
  BY <1>1, <1>2, <1>3 DEF ConnInv, TypeOK
<1> QED
  BY <1>1, <1>3, <1>4 DEF ConnInv, HistInv

LEMMA DisconnectedInv ==
    ASSUME ConnInv, NEW readyFor \in {"short", "stable"}, Disconnected(readyFor)
    PROVE  ConnInv'
<1>1. /\ Unwind(task.gen)
      /\ task' = [task EXCEPT !.at = "close", !.outcome = "retry",
                              !.readyFor = readyFor]
      /\ hist' = [hist EXCEPT !.served = readyFor]
      /\ stopper' = stopper
  BY DEF Disconnected, Unwind
<1>2. /\ task'.at = "close" /\ task'.gen = task.gen
      /\ task'.attempt = task.attempt
  BY <1>1 DEF ConnInv, TypeOK
<1>3. task' \in [at : Phases \cup {"idle", "close", "ended", "delay", "done"},
                 gen : 0..MaxGenerations, attempt : 0..MaxGenerations,
                 readyFor : Durations, outcome : {"none", "retry", "login"}]
  BY <1>1 DEF ConnInv, TypeOK, Durations
<1>4. /\ TaskInv'
      /\ \A h \in Generations : GenInv(h)'
      /\ gens' \in [Generations -> GenFields]
      /\ conn' \in [current : {0, task.gen}, clientId : {0, task.gen},
                    online : BOOLEAN, fails : {0, task.gen}, aborted : BOOLEAN]
  BY <1>1, <1>2, UnwindKeeps
<1>5. /\ hist' \in [strangers : BOOLEAN, astray : BOOLEAN,
                    served : Durations, streak : Nat]
      /\ HistInv'
  BY <1>1 DEF ConnInv, TypeOK, HistInv, Durations
<1>6. TypeOK'
  BY <1>1, <1>2, <1>3, <1>4, <1>5 DEF ConnInv, TypeOK
<1> QED
  BY <1>4, <1>5, <1>6 DEF ConnInv

LEMMA ClosedInv ==
    ASSUME ConnInv, Closed
    PROVE  ConnInv'
<1>1. /\ task.at = "close" /\ gens[task.gen].socket = "gone"
      /\ task' = [task EXCEPT !.at = "ended"]
      /\ conn' = [conn EXCEPT !.current = 0]
      /\ UNCHANGED <<gens, stopper, hist>>
  BY DEF Closed, SocketClosed
<1>2. task'.at = "ended" /\ task'.gen = task.gen /\ task'.attempt = task.attempt
  BY <1>1 DEF ConnInv, TypeOK
<1>3. TypeOK'
  <2>1. conn' \in [current : {0, task.gen}, clientId : {0, task.gen},
                   online : BOOLEAN, fails : {0, task.gen}, aborted : BOOLEAN]
    BY <1>1 DEF ConnInv, TypeOK
  <2> QED
    BY <1>1, <1>2, <2>1 DEF ConnInv, TypeOK
<1>4. TaskInv'
  <2>1. /\ conn'.current = 0 /\ conn'.fails = conn.fails
        /\ conn'.clientId = conn.clientId /\ conn'.online = conn.online
    BY <1>1 DEF ConnInv, TypeOK
  <2> QED
    BY <1>1, <1>2, <2>1, PhaseNames DEF ConnInv, TaskInv, Between
<1>5. ASSUME NEW h \in Generations PROVE GenInv(h)'
  <2>1. ~Present(h) /\ ~Present(h)' /\ gens' = gens
    BY <1>1, <1>2, PhaseNames DEF Present
  <2>2. GenInv(h)
    BY DEF ConnInv
  <2> QED
    BY <1>1, <1>2, <2>1, <2>2 DEF GenInv
<1>6. HistInv'
  BY <1>1 DEF ConnInv, HistInv
<1> QED
  BY <1>3, <1>4, <1>5, <1>6 DEF ConnInv

LEMMA EndedInv ==
    ASSUME ConnInv, Ended
    PROVE  ConnInv'
<1> DEFINE next == NextAttempt(task.attempt, task.readyFor)
           streak == NextAttempt(hist.streak, hist.served)
<1>1. task.at = "ended" /\ UNCHANGED <<conn, gens, stopper>>
  BY DEF Ended
<1>2. next \in 0..MaxGenerations /\ next <= task.gen /\ streak \in Nat
  BY <1>1, GenerationsAssumption DEF NextAttempt, ConnInv, TypeOK, TaskInv
<1>3. \/ task' = [task EXCEPT !.at = "done"] /\ hist' = hist
      \/ /\ task' = [task EXCEPT !.at = "delay", !.attempt = next]
         /\ hist' = [hist EXCEPT !.streak = streak]
  BY DEF Ended
<1> HIDE DEF next, streak
<1>4. /\ task'.at \in {"done", "delay"} /\ task'.gen = task.gen
      /\ task'.attempt <= task.gen
      /\ task' \in [at : Phases \cup {"idle", "close", "ended", "delay", "done"},
                    gen : 0..MaxGenerations, attempt : 0..MaxGenerations,
                    readyFor : Durations, outcome : {"none", "retry", "login"}]
  <2>1. /\ task \in [at : Phases \cup {"idle", "close", "ended", "delay", "done"},
                     gen : 0..MaxGenerations, attempt : 0..MaxGenerations,
                     readyFor : Durations, outcome : {"none", "retry", "login"}]
        /\ task.attempt <= task.gen
    BY DEF ConnInv, TypeOK, TaskInv
  <2>2. CASE task' = [task EXCEPT !.at = "done"]
    BY <2>1, <2>2
  <2>3. CASE task' = [task EXCEPT !.at = "delay", !.attempt = next]
    BY <1>2, <2>1, <2>3
  <2> QED
    BY <1>3, <2>2, <2>3
<1>5. /\ hist' \in [strangers : BOOLEAN, astray : BOOLEAN,
                    served : Durations, streak : Nat]
      /\ HistInv'
  BY <1>2, <1>3 DEF ConnInv, TypeOK, HistInv
<1>6. TypeOK'
  BY <1>1, <1>4, <1>5 DEF ConnInv, TypeOK
<1>7. TaskInv'
  BY <1>1, <1>4, PhaseNames DEF ConnInv, TaskInv, Between
<1>8. ASSUME NEW h \in Generations PROVE GenInv(h)'
  <2>1. ~Present(h) /\ ~Present(h)'
    BY <1>1, <1>4, PhaseNames DEF Present
  <2>2. GenInv(h)
    BY DEF ConnInv
  <2> QED
    BY <1>1, <1>4, <2>1, <2>2 DEF GenInv, Between
<1> QED
  BY <1>5, <1>6, <1>7, <1>8 DEF ConnInv

-----------------------------------------------------------------------------
(* stop().                                                                 *)

\* Whatever stop() closes is the generation of the task.
LEMMA StopInv ==
    ASSUME ConnInv, Stop
    PROVE  ConnInv'
<1>1. /\ conn' = [conn EXCEPT !.aborted = TRUE]
      /\ gens' = Stopped(conn.current)
      /\ stopper' = "close"
      /\ UNCHANGED <<task, hist>>
  BY DEF Stop
<1>2. /\ conn' \in [current : {0, task.gen}, clientId : {0, task.gen},
                    online : BOOLEAN, fails : {0, task.gen}, aborted : BOOLEAN]
      /\ conn'.current = conn.current /\ conn'.fails = conn.fails
      /\ conn'.clientId = conn.clientId /\ conn'.online = conn.online
  BY <1>1 DEF ConnInv, TypeOK
<1>3. TaskInv'
  BY <1>1, <1>2 DEF ConnInv, TaskInv
<1>4. HistInv'
  BY <1>1 DEF ConnInv, HistInv
<1>5. CASE conn.current = 0
  <2>1. gens' = gens
    BY <1>1, <1>5 DEF Stopped
  <2>2. task.at \notin Phases
    BY <1>5 DEF ConnInv, TaskInv
  <2>3. TypeOK'
    BY <1>1, <1>2, <2>1 DEF ConnInv, TypeOK
  <2>4. \A h \in Generations : GenInv(h)'
    BY <1>1, <2>1, <2>2 DEF ConnInv, GenInv, Present
  <2> QED
    BY <1>3, <1>4, <2>3, <2>4 DEF ConnInv
<1>6. CASE conn.current # 0
  <2> DEFINE g == task.gen
             f == IF conn.fails = 0 THEN gens[g] ELSE Fail(gens[g])
             r == Close(f)
  <2>1. conn.current = g /\ g \in Generations /\ conn.fails \in {0, g}
    BY <1>6, GenerationsAssumption DEF ConnInv, TypeOK, Generations
  <2>2. FailCurrent = [gens EXCEPT ![g] = f]
    BY <2>1 DEF FailCurrent, ConnInv, TypeOK
  <2>3. gens' = [FailCurrent EXCEPT ![g] = Close(FailCurrent[g])]
    BY <1>1, <1>6, <2>1 DEF Stopped
  <2>4. Later(gens[g], f)
    BY <2>1, GenTyped, FailEnds DEF Later
  <2> HIDE DEF f
  <2>5. gens' = [gens EXCEPT ![g] = r]
    BY <2>1, <2>2, <2>3 DEF ConnInv, TypeOK
  <2>6. Later(gens[g], r) /\ r.closed
    BY <2>4, CloseEnds DEF Later
  <2> HIDE DEF r
  <2>7. gens' \in [Generations -> GenFields] /\ gens'[g] = r
        /\ \A h \in Generations : h # g => gens'[h] = gens[h]
    BY <2>1, <2>5, <2>6 DEF Later, ConnInv, TypeOK
  <2>8. TypeOK'
    BY <1>1, <1>2, <2>7 DEF ConnInv, TypeOK
  <2>9. ASSUME NEW h \in Generations PROVE GenInv(h)'
    <3>1. (Present(h)' <=> Present(h)) /\ (Present(h) => h = g)
      BY <1>1 DEF Present
    <3>2. GenInv(h)
      BY DEF ConnInv
    <3>3. CASE h = g
      BY <1>1, <2>1, <2>6, <2>7, <3>1, <3>2, <3>3, GenerationsAssumption
      DEF GenInv, Later, Generations
    <3>4. CASE h # g
      BY <1>1, <2>7, <3>1, <3>2, <3>4 DEF GenInv
    <3> QED
      BY <3>3, <3>4
  <2> QED
    BY <1>3, <1>4, <2>8, <2>9 DEF ConnInv
<1> QED
  BY <1>5, <1>6

LEMMA StopperInv ==
    ASSUME ConnInv, StopCloses \/ StopJoins
    PROVE  ConnInv'
<1>1. stopper' \in {"join", "done"} /\ UNCHANGED <<task, conn, gens, hist>>
  BY DEF StopCloses, StopJoins
<1>2. TypeOK' /\ TaskInv' /\ HistInv'
  BY <1>1 DEF ConnInv, TypeOK, TaskInv, HistInv
<1>3. \A g \in Generations : GenInv(g)'
  BY <1>1 DEF ConnInv, GenInv, Present
<1> QED
  BY <1>2, <1>3 DEF ConnInv

-----------------------------------------------------------------------------
(* The invariant, and what it implies.                                     *)

LEMMA InitInv == Init => ConnInv
<1> SUFFICES ASSUME Init PROVE ConnInv
  OBVIOUS
<1>1. task.at = "idle" /\ task.gen = 0 /\ task.attempt = 0
  BY DEF Init
<1>2. TypeOK
  <2>1. Unborn \in GenFields
    BY DEF Unborn, GenFields
  <2>2. gens \in [Generations -> GenFields]
    BY <2>1 DEF Init
  <2>3. task \in [at : Phases \cup {"idle", "close", "ended", "delay", "done"},
                  gen : 0..MaxGenerations, attempt : 0..MaxGenerations,
                  readyFor : Durations, outcome : {"none", "retry", "login"}]
    BY GenerationsAssumption DEF Init, Durations
  <2>4. /\ conn \in [current : {0, task.gen}, clientId : {0, task.gen},
                     online : BOOLEAN, fails : {0, task.gen}, aborted : BOOLEAN]
        /\ stopper \in {"no", "close", "join", "done"}
    BY <1>1 DEF Init
  <2>5. hist \in [strangers : BOOLEAN, astray : BOOLEAN,
                  served : Durations, streak : Nat]
    BY DEF Init, Durations
  <2> QED
    BY <2>2, <2>3, <2>4, <2>5 DEF TypeOK
<1>3. TaskInv
  BY <1>1, PhaseNames DEF Init, TaskInv, Between
<1>4. \A g \in Generations : GenInv(g)
  BY <1>1, PhaseNames, GenerationsAssumption
  DEF Init, GenInv, Present, Unborn, Generations
<1>5. HistInv
  BY DEF Init, HistInv
<1> QED
  BY <1>2, <1>3, <1>4, <1>5 DEF ConnInv

LEMMA NextInv == ConnInv /\ [Next]_vars => ConnInv'
<1> SUFFICES ASSUME ConnInv, [Next]_vars PROVE ConnInv'
  OBVIOUS
<1>1. CASE UNCHANGED vars
  BY <1>1, StutterInv
<1>2. CASE Begin \/ Leave \/ Advance \/ Closed \/ Ended
  BY <1>2, BeginInv, LeaveInv, AdvanceInv, ClosedInv, EndedInv
<1>3. CASE Throw("retry") \/ Throw("login")
  BY <1>3, ThrowInv
<1>4. CASE \E readyFor \in {"short", "stable"} : Disconnected(readyFor)
  BY <1>4, DisconnectedInv
<1>5. CASE FollowSession \/ Stop \/ StopCloses \/ StopJoins
  BY <1>5, FollowSessionInv, StopInv, StopperInv
<1>6. ASSUME NEW g \in Generations,
             \/ Handshake(g) \/ Terminated(g) \/ Lost(g) \/ Identified(g)
             \/ Waterfall(g) \/ Replied(g) \/ ReplyFails(g)
      PROVE  ConnInv'
  BY <1>6, HandshakeInv, TerminatedInv, LostInv, IdentifiedInv, WaterfallInv,
     RepliedInv, ReplyFailsInv
<1>7. ASSUME NEW g \in Generations, NEW stream \in Streams,
             NEW unavailable \in BOOLEAN, StreamEnds(g, stream, unavailable)
      PROVE  ConnInv'
  BY <1>7, StreamEndsInv
<1>8. ASSUME NEW g \in Generations, NEW readable \in BOOLEAN,
             SessionFrame(g, readable)
      PROVE  ConnInv'
  BY <1>8, SessionFrameInv
<1> QED
  BY <1>1, <1>2, <1>3, <1>4, <1>5, <1>6, <1>7, <1>8 DEF Next

\* The task, the controller's fields and every generation agree in every
\* reachable state, for any number of generations.
THEOREM ConnectionInvariant == Spec => []ConnInv
<1> QED
  BY InitInv, NextInv, PTL DEF Spec

\* The state of the controller and of its generations is well-formed: what
\* `current`, the client id and the failure callback refer to is the
\* generation of run() or none.
THEOREM ConnectionTyped == Spec => []TypeOK
<1>1. ConnInv => TypeOK
  BY DEF ConnInv
<1> QED
  BY <1>1, ConnectionInvariant, PTL

\* However the generations fail, are stopped and replaced, two sockets to
\* the host are never alive at once (run() awaits client.close() in finally).
THEOREM OneSocketAtATime == Spec => []OneSocket
<1>1. ConnInv => OneSocket
  <2> SUFFICES ASSUME ConnInv, NEW g \in Generations, NEW h \in Generations,
                      gens[g].socket \in {"opening", "open"},
                      gens[h].socket \in {"opening", "open"}
               PROVE  g = h
    BY DEF OneSocket
  <2>1. ASSUME NEW k \in Generations, gens[k].socket \in {"opening", "open"}
        PROVE  k = task.gen
    BY <2>1, GenerationsAssumption
    DEF ConnInv, GenInv, Unborn, TypeOK, Generations
  <2> QED
    BY <2>1
<1> QED
  BY <1>1, ConnectionInvariant, PTL

\* require() lets a command through only when the client it is given to is
\* that of the running generation, which knows its identity and is told of
\* failures.
THEOREM OnlineOnlyIdentified == Spec => []OnlineIsIdentified
<1>1. ConnInv => OnlineIsIdentified
  BY PhaseNames DEF ConnInv, TaskInv, OnlineIsIdentified
<1> QED
  BY <1>1, ConnectionInvariant, PTL

\* A failure reported late, by an answer or a frame of an earlier
\* generation, never ends the one that replaced it.
THEOREM FailuresStayInTheirGeneration == Spec => []FailuresStayHome
<1>1. ConnInv => FailuresStayHome
  BY DEF ConnInv, HistInv, FailuresStayHome
<1> QED
  BY <1>1, ConnectionInvariant, PTL

\* Nothing of a generation that failed or was stopped reaches the session.
THEOREM FailedGenerationsAreSilent == Spec => []NoFrameAfterFailure
<1>1. ConnInv => NoFrameAfterFailure
  BY DEF ConnInv, HistInv, NoFrameAfterFailure
<1> QED
  BY <1>1, ConnectionInvariant, PTL

\* What one generation owns is never another's, for any number of generations.
THEOREM GenerationsStayApart == Spec => []GenerationsApart
<1>1. GenerationsApart <=>
        OneSocket /\ OnlineIsIdentified /\ FailuresStayHome /\ NoFrameAfterFailure
  BY DEF GenerationsApart
<1> QED
  BY <1>1, OneSocketAtATime, OnlineOnlyIdentified, FailuresStayInTheirGeneration,
     FailedGenerationsAreSilent, PTL

\* After stop() run() begins no generation and enters no phase, whatever it
\* was waiting for.
THEOREM StopEndsStarting == Spec => StopStartsNothing
<1> DEFINE Step == conn.aborted => /\ task'.gen = task.gen
                                   /\ task'.at \in Phases => task'.at = task.at
<1>1. ASSUME ConnInv, [Next]_vars PROVE [Step]_vars
  <2> SUFFICES ASSUME conn.aborted, Next
               PROVE  /\ task'.gen = task.gen
                      /\ task'.at \in Phases => task'.at = task.at
    BY <1>1
  <2>1. ~Begin /\ ~Advance
    BY DEF Begin, Advance, Advances, Aborted
  <2>2. CASE task' = task
    BY <2>2
  <2>3. CASE Leave \/ Closed \/ Ended
    BY <1>1, <2>3, PhaseNames DEF Leave, Closed, Ended, ConnInv, TypeOK
  <2>4. CASE Throw("retry") \/ Throw("login")
    BY <1>1, <2>4, PhaseNames DEF Throw, ConnInv, TypeOK
  <2>5. CASE \E readyFor \in {"short", "stable"} : Disconnected(readyFor)
    BY <1>1, <2>5, PhaseNames DEF Disconnected, ConnInv, TypeOK
  <2>6. CASE FollowSession \/ Stop \/ StopCloses \/ StopJoins
    BY <2>2, <2>6 DEF FollowSession, Stop, StopCloses, StopJoins
  <2>7. CASE \E g \in Generations :
               \/ Handshake(g) \/ Terminated(g) \/ Lost(g) \/ Identified(g)
               \/ Waterfall(g) \/ Replied(g) \/ ReplyFails(g)
               \/ \E stream \in Streams, unavailable \in BOOLEAN :
                     StreamEnds(g, stream, unavailable)
               \/ \E readable \in BOOLEAN : SessionFrame(g, readable)
    BY <2>2, <2>7 DEF Handshake, Terminated, Lost, Identified, Waterfall,
       Replied, ReplyFails, StreamEnds, SessionFrame
  <2> QED
    BY <2>1, <2>3, <2>4, <2>5, <2>6, <2>7 DEF Next
<1>2. ConnInv /\ [Next]_vars => [Step]_vars
  BY <1>1
<1> QED
  BY <1>2, ConnectionInvariant, PTL DEF Spec, StopStartsNothing

-----------------------------------------------------------------------------
(* The verifications.                                                      *)

\* The session of a task exists, or existed.
Forked == child # "none"

\* The child runs only while the parent waits for its end.
ChildIsAwaited ==
    /\ child \notin {"none", "dead"} => pc = "running"
    /\ pc \in {"idle", "preparing", "creating", "abandoning"} => ~Forked
    /\ pc = "running" => Forked
    /\ pc # "idle" => verification \in Tasks

\* A prompt is sent once for each task, by its child; what was sent is not yet a turn.
PromptsAreNew ==
    /\ \A t \in Tasks : <<"prompt", t>> \in calls => turn[t] = "none"
    /\ \A t \in Tasks : t > verification \/ (t = verification /\ child \in {"none", "up"}) =>
           turn[t] = "none" /\ <<"prompt", t>> \notin calls

\* A verdict that is read was taken from the reply of the turn of this very task.
VerdictIsRead ==
    file = "verdict" /\ pc \notin {"idle", "preparing"} =>
        turn[verification] = "over" /\ Parsed(reply) = "verdict"

\* What the parent has done about a stop, wherever it was when the stop came.
StopsAreActedOn ==
    /\ signalled /\ pc \in {"creating", "running", "reading"} => stops # {}
    /\ pc \in Waits \cup {"running", "reading"} /\ stops # {} => confirm # "none"
    /\ pc \in Waits => confirm # "none"
    /\ pc = "running" /\ stops # {} /\ child = "up" => cut
    /\ pc = "running" /\ cut => stops # {}
    /\ pc = "reading" => ~cut /\ ~human
    /\ pc \in {"preparing", "creating"} => ~cut

VerifierInv ==
    /\ VerifierTypeOK /\ ChildIsAwaited /\ PromptsAreNew /\ VerdictIsRead
    /\ StopsAreActedOn /\ NobodyLeftAtWork

USE VerifierAssumption

LEMMA VerifierInitInv == VerifierInit => VerifierInv
<1> SUFFICES ASSUME VerifierInit PROVE VerifierInv
  OBVIOUS
<1>1. VerifierTypeOK
  <2>1. signalled \in BOOLEAN /\ human \in BOOLEAN /\ changed \in BOOLEAN /\ cut \in BOOLEAN
    BY Zenon DEF VerifierInit
  <2>2. outcome.type = "none" /\ outcome.retry = FALSE BY DEF VerifierInit, NoOutcome
  <2>3. verification \in 0 .. MaxTasks BY DEF VerifierInit
  <2>4. turn \in [Tasks -> {"none", "running", "blocked", "over"}] /\ calls = {} /\ stops = {}
    BY DEF VerifierInit
  <2> QED BY <2>1, <2>2, <2>3, <2>4 DEF VerifierInit, VerifierTypeOK
<1>2. ChildIsAwaited /\ PromptsAreNew /\ VerdictIsRead
  BY DEF VerifierInit, ChildIsAwaited, PromptsAreNew, VerdictIsRead, Forked, Tasks
<1>3. StopsAreActedOn /\ NobodyLeftAtWork
  BY DEF VerifierInit, StopsAreActedOn, NobodyLeftAtWork, Waits
<1> QED BY <1>1, <1>2, <1>3 DEF VerifierInv

\* The fields keep their types, whoever takes the step.
LEMMA VerifierTypeOKStep == ASSUME VerifierInv, VerifierNext PROVE VerifierTypeOK'
<1> USE DEF VerifierInv, VerifierTypeOK, ChildIsAwaited, Tasks, Waits
<1>1. CASE Verify
  <2>1. human' \in BOOLEAN /\ cut' \in BOOLEAN BY <1>1, Zenon DEF Verify
  <2> QED BY <1>1, <2>1 DEF Verify, parent, remote
<1>2. CASE Prepared
  BY <1>2 DEF Prepared, parent, remote
<1>3. CASE ChildClosed
  BY <1>3 DEF ChildClosed, AfterChild, RequestCancel, parent, remote
<1>4. CASE NoteAnswer
  BY <1>4 DEF NoteAnswer, Return, Noted, Outcome, Unavailable, parent, remote
<1>5. CASE NoteTimeout
  BY <1>5 DEF NoteTimeout, Return, Noted, Outcome, Unavailable, parent, remote
<1>6. CASE Judge
  BY <1>6 DEF Judge, Return, Outcome, Unavailable, parent, remote
<1>7. CASE Abort
  <2>1. signalled' \in BOOLEAN /\ cut' \in BOOLEAN BY <1>7, Zenon DEF Abort, StopVerifier
  <2>2. /\ stops' \subseteq {"cancelled", "timedOut"}
        /\ confirm' \in {"none", "asked", "confirmed", "rejected"}
        /\ calls' \subseteq {"prompt", "cancel"} \X Tasks
    <3>1. CASE Listening
      <4>1. stops' = stops \cup {"cancelled"} /\ verification \in Tasks
        BY <1>7, <3>1 DEF Abort, StopVerifier
      <4>2. \/ UNCHANGED <<confirm, calls>>
            \/ /\ confirm' \in {confirm, "asked"}
               /\ calls' \in {calls, calls \cup {<<"cancel", verification>>}}
        BY <1>7, <3>1 DEF Abort, StopVerifier, RequestCancel
      <4> QED BY <4>1, <4>2
    <3>2. CASE ~Listening
      BY <1>7, <3>2 DEF Abort
    <3> QED BY <3>1, <3>2
  <2> QED BY <1>7, <2>1, <2>2 DEF Abort
<1>8. CASE Deadline
  BY <1>8 DEF Deadline, Listening, StopVerifier, RequestCancel, parent, remote
<1>9. CASE CreateFails
  BY <1>9 DEF CreateFails, Return, Unavailable, parent, remote
<1>10. CASE Created
  BY <1>10 DEF Created, RequestCancel, parent, remote
<1>11. CASE ChildSends
  BY <1>11 DEF ChildSends, Moves, parent, remote
<1>12. CASE ChildWaits
  BY <1>12 DEF ChildWaits, Moves, parent, remote
<1>13. CASE ChildNeedsHuman
  BY <1>13 DEF ChildNeedsHuman, parent, remote
<1>14. CASE ChildWrites
  BY <1>14 DEF ChildWrites, Moves, parent, remote
<1>15. CASE ChildEnds
  BY <1>15 DEF ChildEnds, parent, remote
<1>16. ASSUME NEW t \in Tasks, Admit(t) PROVE VerifierTypeOK'
  BY <1>16 DEF Admit, TurnOf, parent, remote
<1>17. ASSUME NEW t \in Tasks, Cancel(t) PROVE VerifierTypeOK'
  BY <1>17 DEF Cancel, TurnOf, parent, remote
<1>18. ASSUME NEW t \in Tasks, CancelFails(t) PROVE VerifierTypeOK'
  BY <1>18 DEF CancelFails, parent, remote
<1>19. ASSUME NEW t \in Tasks, TurnEnds(t) PROVE VerifierTypeOK'
  BY <1>19 DEF TurnEnds, TurnOf, parent, remote
<1>20. ASSUME NEW t \in Tasks, TurnBlocks(t) PROVE VerifierTypeOK'
  BY <1>20 DEF TurnBlocks, TurnOf, parent, remote
<1>21. ASSUME NEW t \in Tasks, Meddle(t) PROVE VerifierTypeOK'
  <2>1. changed' \in BOOLEAN BY <1>21, Zenon DEF Meddle
  <2> QED BY <1>21, <2>1 DEF Meddle, parent, remote
<1> QED
  BY <1>1, <1>2, <1>3, <1>4, <1>5, <1>6, <1>7, <1>8, <1>9, <1>10, <1>11, <1>12, <1>13, <1>14,
     <1>15, <1>16, <1>17, <1>18, <1>19, <1>20, <1>21
  DEF VerifierNext, Local

\* A child that runs has a parent that waits for it.
LEMMA ChildIsAwaitedStep == ASSUME VerifierInv, VerifierNext PROVE ChildIsAwaited'
<1> USE DEF VerifierInv, VerifierTypeOK, ChildIsAwaited, Tasks, Waits, Forked
<1>1. CASE Verify
  BY <1>1 DEF Verify, parent, remote
<1>2. CASE Prepared
  BY <1>2 DEF Prepared, parent, remote
<1>3. CASE ChildClosed
  BY <1>3 DEF ChildClosed, AfterChild, RequestCancel, parent, remote
<1>4. CASE NoteAnswer
  BY <1>4 DEF NoteAnswer, Return, Noted, Outcome, Unavailable, parent, remote
<1>5. CASE NoteTimeout
  BY <1>5 DEF NoteTimeout, Return, Noted, Outcome, Unavailable, parent, remote
<1>6. CASE Judge
  BY <1>6 DEF Judge, Return, Outcome, Unavailable, parent, remote
<1>7. CASE Abort
  BY <1>7 DEF Abort, Listening, StopVerifier, RequestCancel, parent, remote
<1>8. CASE Deadline
  BY <1>8 DEF Deadline, Listening, StopVerifier, RequestCancel, parent, remote
<1>9. CASE CreateFails
  BY <1>9 DEF CreateFails, Return, Unavailable, parent, remote
<1>10. CASE Created
  BY <1>10 DEF Created, RequestCancel, parent, remote
<1>11. CASE ChildSends
  BY <1>11 DEF ChildSends, Moves, parent, remote
<1>12. CASE ChildWaits
  BY <1>12 DEF ChildWaits, Moves, parent, remote
<1>13. CASE ChildNeedsHuman
  BY <1>13 DEF ChildNeedsHuman, parent, remote
<1>14. CASE ChildWrites
  BY <1>14 DEF ChildWrites, Moves, parent, remote
<1>15. CASE ChildEnds
  BY <1>15 DEF ChildEnds, parent, remote
<1>16. ASSUME NEW t \in Tasks, Admit(t) PROVE ChildIsAwaited'
  BY <1>16 DEF Admit, TurnOf, parent, remote
<1>17. ASSUME NEW t \in Tasks, Cancel(t) PROVE ChildIsAwaited'
  BY <1>17 DEF Cancel, TurnOf, parent, remote
<1>18. ASSUME NEW t \in Tasks, CancelFails(t) PROVE ChildIsAwaited'
  BY <1>18 DEF CancelFails, parent, remote
<1>19. ASSUME NEW t \in Tasks, TurnEnds(t) PROVE ChildIsAwaited'
  BY <1>19 DEF TurnEnds, TurnOf, parent, remote
<1>20. ASSUME NEW t \in Tasks, TurnBlocks(t) PROVE ChildIsAwaited'
  BY <1>20 DEF TurnBlocks, TurnOf, parent, remote
<1>21. ASSUME NEW t \in Tasks, Meddle(t) PROVE ChildIsAwaited'
  BY <1>21 DEF Meddle, parent, remote
<1> QED
  BY <1>1, <1>2, <1>3, <1>4, <1>5, <1>6, <1>7, <1>8, <1>9, <1>10, <1>11, <1>12, <1>13, <1>14,
     <1>15, <1>16, <1>17, <1>18, <1>19, <1>20, <1>21
  DEF VerifierNext, Local

\* No prompt reaches the host twice, and none precedes its child.
LEMMA PromptsAreNewStep == ASSUME VerifierInv, VerifierNext PROVE PromptsAreNew'
<1> USE DEF VerifierInv, VerifierTypeOK, ChildIsAwaited, PromptsAreNew, Tasks, Forked
<1>1. CASE Verify
  BY <1>1 DEF Verify, parent, remote
<1>2. CASE Prepared
  BY <1>2 DEF Prepared, parent, remote
<1>3. CASE ChildClosed
  BY <1>3 DEF ChildClosed, AfterChild, RequestCancel, parent, remote
<1>4. CASE NoteAnswer
  BY <1>4 DEF NoteAnswer, Return, Noted, Outcome, Unavailable, parent, remote
<1>5. CASE NoteTimeout
  BY <1>5 DEF NoteTimeout, Return, Noted, Outcome, Unavailable, parent, remote
<1>6. CASE Judge
  BY <1>6 DEF Judge, Return, Outcome, Unavailable, parent, remote
<1>7. CASE Abort
  BY <1>7 DEF Abort, Listening, StopVerifier, RequestCancel, parent, remote
<1>8. CASE Deadline
  BY <1>8 DEF Deadline, Listening, StopVerifier, RequestCancel, parent, remote
<1>9. CASE CreateFails
  BY <1>9 DEF CreateFails, Return, Unavailable, parent, remote
<1>10. CASE Created
  BY <1>10 DEF Created, RequestCancel, parent, remote
<1>11. CASE ChildSends
  BY <1>11 DEF ChildSends, Moves, parent, remote
<1>12. CASE ChildWaits
  BY <1>12 DEF ChildWaits, Moves, parent, remote
<1>13. CASE ChildNeedsHuman
  BY <1>13 DEF ChildNeedsHuman, parent, remote
<1>14. CASE ChildWrites
  BY <1>14 DEF ChildWrites, Moves, parent, remote
<1>15. CASE ChildEnds
  BY <1>15 DEF ChildEnds, parent, remote
<1>16. ASSUME NEW t \in Tasks, Admit(t) PROVE PromptsAreNew'
  BY <1>16 DEF Admit, TurnOf, parent, remote
<1>17. ASSUME NEW t \in Tasks, Cancel(t) PROVE PromptsAreNew'
  BY <1>17 DEF Cancel, TurnOf, parent, remote
<1>18. ASSUME NEW t \in Tasks, CancelFails(t) PROVE PromptsAreNew'
  BY <1>18 DEF CancelFails, parent, remote
<1>19. ASSUME NEW t \in Tasks, TurnEnds(t) PROVE PromptsAreNew'
  BY <1>19 DEF TurnEnds, TurnOf, parent, remote
<1>20. ASSUME NEW t \in Tasks, TurnBlocks(t) PROVE PromptsAreNew'
  BY <1>20 DEF TurnBlocks, TurnOf, parent, remote
<1>21. ASSUME NEW t \in Tasks, Meddle(t) PROVE PromptsAreNew'
  BY <1>21 DEF Meddle, parent, remote
<1> QED
  BY <1>1, <1>2, <1>3, <1>4, <1>5, <1>6, <1>7, <1>8, <1>9, <1>10, <1>11, <1>12, <1>13, <1>14,
     <1>15, <1>16, <1>17, <1>18, <1>19, <1>20, <1>21
  DEF VerifierNext, Local

\* The verdict file survives into a later task, but is not read there.
LEMMA VerdictIsReadStep == ASSUME VerifierInv, VerifierNext PROVE VerdictIsRead'
<1> USE DEF VerifierInv, VerifierTypeOK, ChildIsAwaited, PromptsAreNew, VerdictIsRead
<1>1. CASE Verify
  BY <1>1 DEF Verify, parent, remote
<1>2. CASE Prepared
  BY <1>2 DEF Prepared, parent, remote
<1>3. CASE ChildClosed
  BY <1>3 DEF ChildClosed, AfterChild, RequestCancel, parent, remote
<1>4. CASE NoteAnswer
  BY <1>4 DEF NoteAnswer, Return, Waits, parent, remote
<1>5. CASE NoteTimeout
  BY <1>5 DEF NoteTimeout, Return, Waits, parent, remote
<1>6. CASE Judge
  BY <1>6 DEF Judge, Return, Outcome, Unavailable, parent, remote
<1>7. CASE Abort
  BY <1>7 DEF Abort, Listening, StopVerifier, RequestCancel, parent, remote
<1>8. CASE Deadline
  BY <1>8 DEF Deadline, Listening, StopVerifier, RequestCancel, parent, remote
<1>9. CASE CreateFails
  BY <1>9 DEF CreateFails, Return, Unavailable, parent, remote
<1>10. CASE Created
  BY <1>10 DEF Created, RequestCancel, parent, remote
<1>11. CASE ChildSends
  BY <1>11 DEF ChildSends, Moves, parent, remote
<1>12. CASE ChildWaits
  BY <1>12 DEF ChildWaits, Moves, parent, remote
<1>13. CASE ChildNeedsHuman
  BY <1>13 DEF ChildNeedsHuman, parent, remote
<1>14. CASE ChildWrites
  BY <1>14 DEF ChildWrites, Moves, parent, remote
<1>15. CASE ChildEnds
  BY <1>15 DEF ChildEnds, parent, remote
<1>16. ASSUME NEW t \in Tasks, Admit(t) PROVE VerdictIsRead'
  BY <1>16 DEF Admit, TurnOf, parent, remote
<1>17. ASSUME NEW t \in Tasks, Cancel(t) PROVE VerdictIsRead'
  BY <1>17 DEF Cancel, TurnOf, parent, remote
<1>18. ASSUME NEW t \in Tasks, CancelFails(t) PROVE VerdictIsRead'
  BY <1>18 DEF CancelFails, parent, remote
<1>19. ASSUME NEW t \in Tasks, TurnEnds(t) PROVE VerdictIsRead'
  BY <1>19 DEF TurnEnds, TurnOf, parent, remote
<1>20. ASSUME NEW t \in Tasks, TurnBlocks(t) PROVE VerdictIsRead'
  BY <1>20 DEF TurnBlocks, TurnOf, parent, remote
<1>21. ASSUME NEW t \in Tasks, Meddle(t) PROVE VerdictIsRead'
  BY <1>21 DEF Meddle, parent, remote
<1> QED
  BY <1>1, <1>2, <1>3, <1>4, <1>5, <1>6, <1>7, <1>8, <1>9, <1>10, <1>11, <1>12, <1>13, <1>14,
     <1>15, <1>16, <1>17, <1>18, <1>19, <1>20, <1>21
  DEF VerifierNext, Local

\* A stop is acted on in the step it comes in, or by the step that follows it.
LEMMA StopsAreActedOnStep == ASSUME VerifierInv, VerifierNext PROVE StopsAreActedOn'
<1> USE DEF VerifierInv, VerifierTypeOK, ChildIsAwaited, StopsAreActedOn, Waits, Forked
<1>1. CASE Verify
  BY <1>1 DEF Verify, parent, remote
<1>2. CASE Prepared
  BY <1>2 DEF Prepared, parent, remote
<1>3. CASE ChildClosed
  BY <1>3 DEF ChildClosed, AfterChild, RequestCancel, parent, remote
<1>4. CASE NoteAnswer
  BY <1>4 DEF NoteAnswer, Return, Noted, Outcome, Unavailable, parent, remote
<1>5. CASE NoteTimeout
  BY <1>5 DEF NoteTimeout, Return, Noted, Outcome, Unavailable, parent, remote
<1>6. CASE Judge
  BY <1>6 DEF Judge, Return, Outcome, Unavailable, parent, remote
<1>7. CASE Abort
  BY <1>7 DEF Abort, Listening, StopVerifier, RequestCancel, parent, remote
<1>8. CASE Deadline
  BY <1>8 DEF Deadline, Listening, StopVerifier, RequestCancel, parent, remote
<1>9. CASE CreateFails
  BY <1>9 DEF CreateFails, Return, Unavailable, parent, remote
<1>10. CASE Created
  BY <1>10 DEF Created, RequestCancel, parent, remote
<1>11. CASE ChildSends
  BY <1>11 DEF ChildSends, Moves, parent, remote
<1>12. CASE ChildWaits
  BY <1>12 DEF ChildWaits, Moves, parent, remote
<1>13. CASE ChildNeedsHuman
  BY <1>13 DEF ChildNeedsHuman, parent, remote
<1>14. CASE ChildWrites
  BY <1>14 DEF ChildWrites, Moves, parent, remote
<1>15. CASE ChildEnds
  BY <1>15 DEF ChildEnds, parent, remote
<1>16. ASSUME NEW t \in Tasks, Admit(t) PROVE StopsAreActedOn'
  BY <1>16 DEF Admit, TurnOf, parent, remote
<1>17. ASSUME NEW t \in Tasks, Cancel(t) PROVE StopsAreActedOn'
  BY <1>17 DEF Cancel, TurnOf, parent, remote
<1>18. ASSUME NEW t \in Tasks, CancelFails(t) PROVE StopsAreActedOn'
  BY <1>18 DEF CancelFails, parent, remote
<1>19. ASSUME NEW t \in Tasks, TurnEnds(t) PROVE StopsAreActedOn'
  BY <1>19 DEF TurnEnds, TurnOf, parent, remote
<1>20. ASSUME NEW t \in Tasks, TurnBlocks(t) PROVE StopsAreActedOn'
  BY <1>20 DEF TurnBlocks, TurnOf, parent, remote
<1>21. ASSUME NEW t \in Tasks, Meddle(t) PROVE StopsAreActedOn'
  BY <1>21 DEF Meddle, parent, remote
<1> QED
  BY <1>1, <1>2, <1>3, <1>4, <1>5, <1>6, <1>7, <1>8, <1>9, <1>10, <1>11, <1>12, <1>13, <1>14,
     <1>15, <1>16, <1>17, <1>18, <1>19, <1>20, <1>21
  DEF VerifierNext, Local

\* So no verify() returns before the host was asked.
LEMMA NobodyLeftAtWorkStep == ASSUME VerifierInv, VerifierNext PROVE NobodyLeftAtWork'
<1> USE DEF VerifierInv, VerifierTypeOK, ChildIsAwaited, StopsAreActedOn, NobodyLeftAtWork, Waits, Forked
<1>1. CASE Verify
  BY <1>1 DEF Verify, parent, remote
<1>2. CASE Prepared
  BY <1>2 DEF Prepared, parent, remote
<1>3. CASE ChildClosed
  BY <1>3 DEF ChildClosed, AfterChild, RequestCancel, parent, remote
<1>4. CASE NoteAnswer
  BY <1>4 DEF NoteAnswer, Return, Noted, Outcome, Unavailable, parent, remote
<1>5. CASE NoteTimeout
  BY <1>5 DEF NoteTimeout, Return, Noted, Outcome, Unavailable, parent, remote
<1>6. CASE Judge
  BY <1>6 DEF Judge, Return, Outcome, Unavailable, parent, remote
<1>7. CASE Abort
  BY <1>7 DEF Abort, Listening, StopVerifier, RequestCancel, parent, remote
<1>8. CASE Deadline
  BY <1>8 DEF Deadline, Listening, StopVerifier, RequestCancel, parent, remote
<1>9. CASE CreateFails
  BY <1>9 DEF CreateFails, Return, Unavailable, parent, remote
<1>10. CASE Created
  BY <1>10 DEF Created, RequestCancel, parent, remote
<1>11. CASE ChildSends
  BY <1>11 DEF ChildSends, Moves, parent, remote
<1>12. CASE ChildWaits
  BY <1>12 DEF ChildWaits, Moves, parent, remote
<1>13. CASE ChildNeedsHuman
  BY <1>13 DEF ChildNeedsHuman, parent, remote
<1>14. CASE ChildWrites
  BY <1>14 DEF ChildWrites, Moves, parent, remote
<1>15. CASE ChildEnds
  BY <1>15 DEF ChildEnds, parent, remote
<1>16. ASSUME NEW t \in Tasks, Admit(t) PROVE NobodyLeftAtWork'
  BY <1>16 DEF Admit, TurnOf, parent, remote
<1>17. ASSUME NEW t \in Tasks, Cancel(t) PROVE NobodyLeftAtWork'
  BY <1>17 DEF Cancel, TurnOf, parent, remote
<1>18. ASSUME NEW t \in Tasks, CancelFails(t) PROVE NobodyLeftAtWork'
  BY <1>18 DEF CancelFails, parent, remote
<1>19. ASSUME NEW t \in Tasks, TurnEnds(t) PROVE NobodyLeftAtWork'
  BY <1>19 DEF TurnEnds, TurnOf, parent, remote
<1>20. ASSUME NEW t \in Tasks, TurnBlocks(t) PROVE NobodyLeftAtWork'
  BY <1>20 DEF TurnBlocks, TurnOf, parent, remote
<1>21. ASSUME NEW t \in Tasks, Meddle(t) PROVE NobodyLeftAtWork'
  BY <1>21 DEF Meddle, parent, remote
<1> QED
  BY <1>1, <1>2, <1>3, <1>4, <1>5, <1>6, <1>7, <1>8, <1>9, <1>10, <1>11, <1>12, <1>13, <1>14,
     <1>15, <1>16, <1>17, <1>18, <1>19, <1>20, <1>21
  DEF VerifierNext, Local

LEMMA VerifierStepInv == VerifierInv /\ [VerifierNext]_verifierVars => VerifierInv'
<1> SUFFICES ASSUME VerifierInv, [VerifierNext]_verifierVars PROVE VerifierInv'
  OBVIOUS
<1>1. CASE VerifierNext
  BY <1>1, VerifierTypeOKStep, ChildIsAwaitedStep, PromptsAreNewStep, VerdictIsReadStep,
     StopsAreActedOnStep, NobodyLeftAtWorkStep
  DEF VerifierInv
<1>2. CASE UNCHANGED verifierVars
  BY <1>2
  DEF verifierVars, VerifierInv, VerifierTypeOK, ChildIsAwaited, PromptsAreNew, VerdictIsRead,
      StopsAreActedOn, NobodyLeftAtWork, Forked
<1> QED BY <1>1, <1>2

\* Everything a verification keeps has its type, and only an unavailable outcome says that
\* it may be retried.
THEOREM VerifierTypeCorrect == VerifierSpec => []VerifierTypeOK
<1>1. VerifierInv => VerifierTypeOK BY DEF VerifierInv
<1> QED BY <1>1, VerifierInitInv, VerifierStepInv, PTL DEF VerifierSpec

\* Only Judge calls an attempt verified.
LEMMA OnlyJudgeVerifies ==
    ASSUME VerifierInv, VerifierNext, pc # "done", pc' = "done", outcome'.type = "verified"
    PROVE  Judge /\ file = "verdict" /\ ~changed
<1>1. ~NoteAnswer /\ ~NoteTimeout
  BY DEF NoteAnswer, NoteTimeout, Return, Noted, Outcome, Unavailable
<1>2. ~CreateFails BY DEF CreateFails, Return, Unavailable
<1>3. ~ChildClosed BY DEF ChildClosed, AfterChild
<1>4. ~Verify /\ ~Prepared /\ ~Created BY DEF Verify, Prepared, Created
<1>5. ~Abort /\ ~Deadline BY DEF Abort, Deadline
<1>6. /\ ~ChildSends /\ ~ChildWaits /\ ~ChildNeedsHuman /\ ~ChildWrites /\ ~ChildEnds
      /\ \A t \in Tasks : ~Meddle(t)
  BY DEF ChildSends, ChildWaits, ChildNeedsHuman, ChildWrites, ChildEnds, Meddle, Moves, parent
<1>7. \A t \in Tasks : /\ ~Admit(t) /\ ~Cancel(t) /\ ~CancelFails(t)
                       /\ ~TurnEnds(t) /\ ~TurnBlocks(t)
  BY DEF Admit, Cancel, CancelFails, TurnEnds, TurnBlocks, TurnOf
<1>8. Judge BY <1>1, <1>2, <1>3, <1>4, <1>5, <1>6, <1>7 DEF VerifierNext, Local
<1> QED BY <1>8 DEF Judge, Return, Outcome, Unavailable

\* A verdict decides only when the turn that gave it was over, its child had ended by
\* itself and the artifact is the one that was fingerprinted; and nobody is left at work
\* for a verification that was stopped, or met a request for a human.
THEOREM VerdictsAreEarned == VerifierSpec => VerdictsHold
<1>1. VerifierInv => NobodyLeftAtWork BY DEF VerifierInv
<1>2. VerifierInv /\ [VerifierNext]_verifierVars =>
        [ pc # "done" /\ pc' = "done" /\ outcome'.type = "verified" =>
          /\ turn[verification] = "over"
          /\ Parsed(reply) = "verdict"
          /\ ~cut
          /\ ~changed ]_verifierVars
  BY OnlyJudgeVerifies DEF Judge, VerifierInv, VerdictIsRead, StopsAreActedOn, verifierVars
<1> QED BY <1>1, <1>2, VerifierInitInv, VerifierStepInv, PTL
        DEF VerifierSpec, VerdictsHold, VerdictIsEarned

-----------------------------------------------------------------------------
(* Both beside each other, as they are checked.                             *)

\* A step of the two is a step of one, and the other rests.
LEMMA LifetimesSteps ==
    [LifetimesNext]_<<vars, verifierVars>> => [Next]_vars /\ [VerifierNext]_verifierVars
  BY DEF LifetimesNext

\* A behaviour of the two is one of the connection and one of the verifier: what is proved
\* of either part holds of both together.
THEOREM LifetimesAreApart == LifetimesSpec => Spec /\ VerifierSpec
<1>1. LifetimesInit => Init /\ VerifierInit
  BY DEF LifetimesInit
<1> QED BY <1>1, LifetimesSteps, PTL DEF LifetimesSpec, Spec, VerifierSpec

\* The controller, every generation and every verification are well-formed, for any number
\* of generations and of verifications, whatever the turns reply.
THEOREM LifetimesTypeCorrect == LifetimesSpec => []LifetimesTypeOK
<1>1. TypeOK /\ VerifierTypeOK => LifetimesTypeOK
  BY DEF LifetimesTypeOK
<1> QED BY <1>1, LifetimesAreApart, ConnectionTyped, VerifierTypeCorrect, PTL
=============================================================================
