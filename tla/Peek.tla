-------------------------------- MODULE Peek --------------------------------
(***************************************************************************)
(* The read-only view of another session: the sources the controller lists *)
(* (createVerifierSession, endSource, outputSources), the view it opens on *)
(* one of them (openPeek, closePeek, dropPeek in update), and the one      *)
(* stream behind it (session/peek.ts: SessionPeek, on follow() of          *)
(* transport/dsh.ts).                                                      *)
(*                                                                         *)
(* A stream is known by the open it belongs to and the address form it     *)
(* follows.  After a cancel the multiplexer calls nobody; when the socket  *)
(* is lost every listener hears its end before anything else runs.         *)
(***************************************************************************)
EXTENDS Naturals, FiniteSets, Sequences, SequencesExt

CONSTANTS
    Verifiers,    \* the sessions that verifications are made in
    Child,        \* a subagent's session: two address forms
    Run,          \* a local `!` run: lines the client holds, no stream
    Sessions,     \* the conversations
    None,
    SourceLimit,  \* SOURCE_LIMIT
    MaxOpens,     \* bound: views opened
    MaxDrops      \* bound: connections lost

Sources == Verifiers \cup {Child, Run}

ASSUME PeekAssumption ==
    /\ Child # Run /\ {Child, Run} \cap Verifiers = {} /\ None \notin Sources \cup Sessions
    /\ {SourceLimit, MaxOpens, MaxDrops} \subseteq Nat

VARIABLES
    online,
    selected,     \* state.sessionId
    loop,         \* loops.sessionId
    created,      \* createdSources, oldest first
    judging,      \* the verifications that go on
    peekId, home, \* the source on view; history: the conversation it was opened in
    peek,         \* SessionPeek: generation, forms left, subscription, state
    peeks,        \* [open, form, of, live]; not live: its end is being reported
    drops

peekVars == <<online, selected, loop, created, judging, peekId, home, peek, peeks, drops>>

PeekView == [of : Sources, ended : BOOLEAN, error : BOOLEAN, records : {"none", "some"}]
NothingOnView == [of |-> None, ended |-> TRUE, error |-> FALSE, records |-> "none"]

PeekTypeOK ==
    /\ online \in BOOLEAN /\ drops \in 0 .. MaxDrops
    /\ selected \in Sessions \cup {None} /\ loop \in Sessions \cup {None}
    /\ created \in Seq([id : Verifiers, running : BOOLEAN]) /\ Len(created) <= SourceLimit
    /\ judging \subseteq Verifiers
    /\ peekId \in Sources \cup {None} /\ home \in Sessions \cup {None}
    /\ peek.open \in 0 .. MaxOpens /\ peek.pending \in 0 .. 1 /\ peek.state \in PeekView \cup {NothingOnView}
    /\ \A s \in peeks : s.open \in 1 .. MaxOpens /\ s.form \in 1 .. 2 /\ s.of \in Sources

PeekInit ==
    /\ online = TRUE /\ drops = 0
    /\ selected = None /\ loop = None
    /\ created = <<>> /\ judging = {}
    /\ peekId = None /\ home = None
    /\ peek = [open |-> 0, pending |-> 0, sub |-> 0, state |-> NothingOnView]
    /\ peeks = {}

-----------------------------------------------------------------------------
\* A lost socket is reported to every stream before anything else happens.
Calm == \A s \in peeks : s.live

Listed == {created[i].id : i \in DOMAIN created} \cup {Child, Run}

\* costAddresses(): a child's row does not say in which mode it was delivered.
Forms(id) == IF id = Child THEN 2 ELSE 1

\* next(): the next form is followed, or the view says that nobody is connected.
\* It is only called while a form is left.
Tried(p, of) ==
    [p EXCEPT !.pending = @ - 1,
              !.sub = IF online THEN p.pending ELSE @,
              !.state = [of |-> of, ended |-> ~online, error |-> ~online, records |-> "none"]]

Followed(p, of) ==
    IF online THEN {[open |-> p.open, form |-> p.pending, of |-> of, live |-> TRUE]} ELSE {}

\* SessionPeek.close(): the subscription it holds is cancelled, the state released.
Kept == {s \in peeks : s.open # peek.open \/ s.form # peek.sub}
Closed == [peek EXCEPT !.pending = 0, !.sub = 0, !.state = NothingOnView]

\* closePeek(), and dropPeek() within a publish: nothing without a view.
Shut ==
    /\ peekId' = None /\ home' = None
    /\ IF peekId = None THEN UNCHANGED <<peek, peeks>> ELSE peek' = Closed /\ peeks' = Kept

ClosePeek ==
    /\ Calm /\ peekId # None /\ Shut
    /\ UNCHANGED <<online, selected, loop, created, judging, drops>>

\* openPeek(): an unknown source, or the one on view, changes nothing.  Only a session
\* is followed, after what was followed before is released.
OpenPeek(id) ==
    LET p == [Closed EXCEPT !.open = @ + 1, !.pending = Forms(id)] IN
    /\ Calm /\ id \in Listed /\ peekId # id
    /\ peekId' = id /\ home' = selected
    /\ IF id = Run
       THEN UNCHANGED <<peek, peeks>>
       ELSE /\ peek.open < MaxOpens
            /\ peek' = Tried(p, id) /\ peeks' = Kept \cup Followed(p, id)
    /\ UNCHANGED <<online, selected, loop, created, judging, drops>>

-----------------------------------------------------------------------------
(* The stream.                                                             *)

Live(s) == s \in peeks /\ s.live /\ Calm

Seen(patch) ==
    /\ peek' = [peek EXCEPT !.state = patch]
    /\ UNCHANGED <<online, selected, loop, created, judging, peekId, home, drops>>

\* A frame the transcript takes, one it cannot apply, one that cannot be decoded: the
\* second only ends the view, the third cancels its stream as well.
Frame(s) ==
    /\ Live(s) /\ s.open = peek.open
    /\ Seen([peek.state EXCEPT !.records = "some"]) /\ UNCHANGED peeks

Unapplied(s) ==
    /\ Live(s) /\ s.open = peek.open
    /\ Seen([peek.state EXCEPT !.ended = TRUE, !.error = TRUE]) /\ UNCHANGED peeks

Invalid(s) ==
    /\ Live(s) /\ s.open = peek.open
    /\ Seen([peek.state EXCEPT !.ended = TRUE, !.error = TRUE]) /\ peeks' = peeks \ {s}

\* end(): with an error and a form left, the next one is tried, on a new transcript.
TriesNext(error) == error /\ peek.pending > 0

Ended(s, error) ==
    /\ IF s.open # peek.open THEN peeks' = peeks \ {s} /\ UNCHANGED peek
       ELSE IF TriesNext(error)
            THEN /\ peek' = Tried(peek, s.of)
                 /\ peeks' = (peeks \ {s}) \cup Followed(peek, s.of)
            ELSE /\ peek' = [peek EXCEPT !.state.ended = TRUE, !.state.error = error]
                 /\ peeks' = peeks \ {s}
    /\ UNCHANGED <<online, selected, loop, created, judging, peekId, home, drops>>

HostEnds(s, error) == Live(s) /\ Ended(s, error)

\* The socket is lost; the streams hear of it one by one.
Lost ==
    /\ online /\ Calm /\ drops < MaxDrops
    /\ online' = FALSE /\ drops' = drops + 1
    /\ peeks' = {[s EXCEPT !.live = FALSE] : s \in peeks}
    /\ UNCHANGED <<selected, loop, created, judging, peekId, home, peek>>

HearsLost(s) == ~s.live /\ Ended(s, TRUE)

Back ==
    /\ ~online /\ Calm /\ online' = TRUE
    /\ UNCHANGED <<selected, loop, created, judging, peekId, home, peek, peeks, drops>>

-----------------------------------------------------------------------------
(* The conversation, its loop and the sessions made for it.                *)

\* update(): a publish that selects another conversation than the loop's ends the loop
\* and releases the view; one that only gives the selection up does neither.
MutantLeaves(session) == session # selected /\ selected # None
Leaves(session) == session # selected /\ loop # session

SelectSession(session) ==
    /\ Calm /\ selected' = session
    /\ IF Leaves(session) THEN loop' = None /\ Shut ELSE UNCHANGED <<loop, peekId, home, peek, peeks>>
    /\ UNCHANGED <<online, created, judging, drops>>

Deselect ==
    /\ Calm /\ selected' = None
    /\ UNCHANGED <<online, loop, created, judging, peekId, home, peek, peeks, drops>>

LoopTurns ==
    /\ Calm /\ (loop # None \/ selected # None)
    /\ loop' = IF loop = None THEN selected ELSE None
    /\ UNCHANGED <<online, selected, created, judging, peekId, home, peek, peeks, drops>>

\* createVerifierSession(): registered as running; beyond the limit the oldest goes.
CreateVerifier(v) ==
    /\ Calm /\ online /\ loop # None
    /\ v \notin {created[i].id : i \in DOMAIN created} \cup judging
    /\ judging' = judging \cup {v}
    /\ LET all == Append(created, [id |-> v, running |-> TRUE]) IN
       created' = IF Len(all) > SourceLimit THEN Tail(all) ELSE all
    /\ UNCHANGED <<online, selected, loop, peekId, home, peek, peeks, drops>>

\* cancelVerifierSession() came through: endSource() marks it, if it is still listed.
CancelVerifier(v) ==
    /\ Calm /\ online /\ v \in judging
    /\ judging' = judging \ {v}
    /\ created' = [i \in DOMAIN created |->
                     IF created[i].id = v THEN [created[i] EXCEPT !.running = FALSE] ELSE created[i]]
    /\ UNCHANGED <<online, selected, loop, peekId, home, peek, peeks, drops>>

\* A verification that comes to its verdict tells the registry nothing.
Judged(v) ==
    /\ Calm /\ v \in judging
    /\ judging' = judging \ {v}
    /\ UNCHANGED <<online, selected, loop, created, peekId, home, peek, peeks, drops>>

PeekNext ==
    \/ \E id \in Sources : OpenPeek(id)
    \/ ClosePeek
    \/ \E s \in peeks : Frame(s) \/ Unapplied(s) \/ Invalid(s) \/ HearsLost(s)
    \/ \E s \in peeks, error \in BOOLEAN : HostEnds(s, error)
    \/ Lost \/ Back
    \/ \E session \in Sessions : SelectSession(session)
    \/ Deselect \/ LoopTurns
    \/ \E v \in Verifiers : CreateVerifier(v) \/ CancelVerifier(v) \/ Judged(v)

PeekSpec == PeekInit /\ [][PeekNext]_peekVars

-----------------------------------------------------------------------------
(* What is checked.                                                        *)

\* However often a view is opened, refused, ended and reopened, one stream at most is
\* open, it is the one close() would cancel, and none is without a view.
OneStream ==
    \A s, t \in peeks :
        s = t /\ s.open = peek.open /\ s.form = peek.sub /\ peekId # None

\* The view belongs to the conversation it was opened in: no other one is left showing it.
ViewStaysHome == peekId # None /\ home # None /\ selected # None => home = selected

\* What a session's view shows came from that session, and it is called live only while
\* its stream is open.
ViewIsFed ==
    peekId \notin {None, Run} =>
        /\ peek.state.of = peekId
        /\ ~peek.state.ended => \E s \in peeks : s.of = peekId

PeekHolds == OneStream /\ ViewStaysHome /\ ViewIsFed

\* What peek.ts says of itself, "must release its stream when the view closes": a view
\* that gave way to a local run has closed.
StreamIsOnView == \A s \in peeks : s.of = peekId

\* "a malformed frame ends it": an ended view takes no more of the stream.
EndedIsStill == [][ \A s \in peeks : Frame(s) => ~peek.state.ended ]_peekVars

\* A source is listed as running only while its verification goes on.
RunningIsJudging == \A i \in DOMAIN created : created[i].running => created[i].id \in judging
=============================================================================
