----------------------- MODULE LoopCoordinator_proofs -----------------------
(***************************************************************************)
(* What holds of an execution for any protocol limits, any set-ups and any *)
(* number of runs and repeated idle frames.                                *)
(***************************************************************************)
EXTENDS LoopCoordinator, SequenceTheorems, TLAPS

-----------------------------------------------------------------------------
(* The invariant, of an execution: a method computes the next one in steps, *)
(* and it holds after each.                                                *)

\* The numbers of a run that goes on are below their limits.
Sane(l) ==
    /\ l \in LoopFields
    /\ Active(l) => l.attempt <= Tries /\ l.noProgress < StallStreak

\* What holds of a run whatever the host reports.
Spans(e) ==
    /\ Sane(e.loop)
    /\ e.run = e.ends + (IF Active(e.loop) THEN 1 ELSE 0)
    /\ Active(e.loop) => ~e.endTraced
    /\ e.deadline <=> (setup.deadline /\ Active(e.loop))
    /\ e.closed => ~Active(e.loop)
    /\ \A t \in e.tasks : t.run <= e.run
    /\ \A r \in Range(e.outgoing) : r <= e.run

Mine(e) == {t \in e.tasks : t.run = e.run}
Doing(e, kind) == \E t \in Mine(e) : t.kind = kind

\* A run that goes on does one thing at a time.
OneAtATime(e) ==
    /\ \A t, u \in Mine(e) : t = u
    /\ e.verifying <=> Doing(e, "verify")
    /\ e.compacting <=> Doing(e, "compact")
    /\ \A t \in Mine(e) : t.kind = "verify" => t.seq = e.identity
    /\ \A t \in Mine(e) :
          /\ t.kind \in {"section", "verify"} => setup.forked
          /\ t.kind = "check" => setup.forked \/ e.own = "ended"
    /\ e.run \in Range(e.outgoing) => e.own = "sent"
    /\ e.own \in {"sent", "delivered"} =>
          e.loop.awaiting /\ e.endedAt = "no" /\ Mine(e) = {} /\ ~e.prompt
    /\ e.own = "delivered" => e.run \notin Range(e.outgoing)
    /\ e.prompt =>
          e.endedAt = "no" /\ \A t \in Mine(e) : t.kind \in {"compact", "compacted"}
    /\ e.endedAt # "no" =>
          e.own = "ended" /\ e.loop.awaiting /\ \A t \in Mine(e) : t.kind = "verify"
    /\ e.timer => e.endedAt # "no"
    /\ e.loop.phase = "paused" => Mine(e) = {} /\ ~e.prompt /\ ~e.loop.awaiting

\* What holds as long as nothing disturbs the run.
Orderly(e) ==
    IF Active(e.loop) THEN OneAtATime(e) ELSE ~e.verifying /\ ~e.compacting

\* A verdict is being consumed exactly while the artifact is read for it.
Consuming(e) == Active(e.loop) => (e.settling <=> Doing(e, "check"))

ExecInv(e) ==
    /\ e \in ExecFields
    /\ Spans(e)
    /\ Undisturbed(e) => Orderly(e) /\ Consuming(e)

CoordinatorInv == setup \in Setups /\ ExecInv(exec) /\ host \in HostFields

-----------------------------------------------------------------------------
LEMMA AppendedRange ==
    ASSUME NEW S, NEW s \in Seq(S), NEW x \in S
    PROVE  Append(s, x) \in Seq(S) /\ Range(Append(s, x)) = Range(s) \cup {x}
<1>1. /\ Append(s, x) \in Seq(S)
      /\ Len(Append(s, x)) = Len(s) + 1
      /\ \A n \in 1..Len(s) : Append(s, x)[n] = s[n]
      /\ Append(s, x)[Len(s) + 1] = x
  BY AppendProperties
<1> DEFINE t == Append(s, x)
<1> HIDE DEF t
<1>2. t \in Seq(S) /\ Len(t) = Len(s) + 1 /\ (\A n \in 1..Len(s) : t[n] = s[n])
      /\ t[Len(s) + 1] = x
  BY <1>1 DEF t
<1>3. Range(t) = {t[n] : n \in 1..Len(t)} /\ Range(s) = {s[n] : n \in 1..Len(s)}
  BY <1>2, RangeEquality
<1>4. Len(s) \in Nat
  OBVIOUS
<1>5. 1..Len(t) = (1..Len(s)) \cup {Len(s) + 1}
  BY <1>2, <1>4
<1>6. Range(t) = Range(s) \cup {x}
  BY <1>2, <1>3, <1>5
<1> QED
  BY <1>1, <1>6 DEF t

LEMMA RangeTyped ==
    ASSUME NEW S, NEW s \in Seq(S)
    PROVE  \A r \in Range(s) : r \in S
<1>1. Range(s) = {s[n] : n \in 1..Len(s)}
  BY RangeEquality
<1>2. \A n \in 1..Len(s) : s[n] \in S
  OBVIOUS
<1> QED
  BY <1>1, <1>2

\* The first of a queue, and the others.
LEMMA QueueRange ==
    ASSUME NEW S, NEW s \in Seq(S), s # <<>>
    PROVE  /\ Head(s) \in S /\ Tail(s) \in Seq(S)
           /\ Range(s) = {Head(s)} \cup Range(Tail(s))
<1>1. /\ Head(s) \in S /\ Head(s) = s[1] /\ Tail(s) \in Seq(S)
      /\ Len(Tail(s)) = Len(s) - 1 /\ Len(s) \in Nat \ {0}
      /\ \A n \in 1..Len(Tail(s)) : Tail(s)[n] = s[n + 1]
  BY HeadTailProperties
<1> DEFINE t == Tail(s)
<1> HIDE DEF t
<1>2. /\ Len(t) = Len(s) - 1 /\ Len(s) \in Nat \ {0} /\ t \in Seq(S)
      /\ \A n \in 1..Len(t) : t[n] = s[n + 1]
  BY <1>1 DEF t
<1>3. Range(s) = {s[n] : n \in 1..Len(s)} /\ Range(t) = {t[n] : n \in 1..Len(t)}
  BY <1>2, RangeEquality
<1>4. \A n \in 2..Len(s) : n - 1 \in 1..Len(t) /\ s[n] = t[n - 1]
  BY <1>2
<1>5. \A n \in 1..Len(t) : n + 1 \in 1..Len(s)
  BY <1>2
<1>6. 1..Len(s) = {1} \cup (2..Len(s))
  BY <1>2
<1>7. Range(s) = {s[1]} \cup Range(t)
  BY <1>2, <1>3, <1>4, <1>5, <1>6
<1> QED
  BY <1>1, <1>7 DEF t

-----------------------------------------------------------------------------
(* The pieces of an execution: what each of them changes.                  *)

Names == {"loop", "run", "tasks", "prompt", "endedAt", "timer", "deadline",
          "verifying", "compacting", "settling", "identity", "misses",
          "endTraced", "closed", "outgoing", "answers", "sendable", "over",
          "reply", "ends", "own", "stray", "slipped", "outages", "gaveUp"}

\* All but these fields are the same.
SameBut(changed, e, s) == \A x \in Names \ changed : s[x] = e[x]

LEMMA LoopTyped ==
    ASSUME NEW l \in LoopFields
    PROVE  /\ l.phase \in Phases /\ l.step \in 1..LastStep
           /\ l.attempt \in 1..(Tries + 1) /\ l.best \in 0..Pass
           /\ l.noProgress \in 0..StallStreak /\ l.awaiting \in BOOLEAN
BY DEF LoopFields

LEMMA ExecTyped ==
    ASSUME NEW e \in ExecFields
    PROVE  /\ e.loop \in LoopFields /\ e.run \in 0..MaxRuns /\ e.run \in Nat
           /\ e.tasks \in SUBSET Tasks /\ e.prompt \in BOOLEAN
           /\ e.endedAt \in {"no", "recent", "old"} /\ e.timer \in BOOLEAN
           /\ e.deadline \in BOOLEAN /\ e.verifying \in BOOLEAN
           /\ e.compacting \in BOOLEAN /\ e.settling \in BOOLEAN
           /\ e.identity \in 0..2 /\ e.misses \in 0..(VerifierRetries + 1)
           /\ e.endTraced \in BOOLEAN /\ e.closed \in BOOLEAN
           /\ e.outgoing \in Seq(1..MaxRuns) /\ e.answers \in SUBSET (1..MaxRuns)
           /\ e.sendable \in BOOLEAN /\ e.over \in BOOLEAN
           /\ e.reply \in Results \cup {NoResult} /\ e.ends \in 0..MaxRuns
           /\ e.own \in {"none", "sent", "delivered", "ended"}
           /\ e.stray \in BOOLEAN /\ e.slipped \in BOOLEAN
           /\ e.outages \in 0..(VerifierRetries + 1)
           /\ e.gaveUp \in 0..(VerifierRetries + 1)
BY CoordinatorAssumption DEF ExecFields

LEMMA UnendedIs ==
    ASSUME NEW e \in ExecFields
    PROVE  /\ Unended(e) \in ExecFields
           /\ SameBut({"endedAt", "timer"}, e, Unended(e))
           /\ Unended(e).endedAt = "no" /\ Unended(e).timer = FALSE
BY DEF Unended, ExecFields, SameBut, Names

LEMMA AbortWorkIs ==
    ASSUME NEW e \in ExecFields
    PROVE  /\ AbortWork(e) \in ExecFields
           /\ SameBut({"verifying", "compacting"}, e, AbortWork(e))
           /\ AbortWork(e).verifying = FALSE /\ AbortWork(e).compacting = FALSE
BY DEF AbortWork, ExecFields, SameBut, Names

LEMMA TimedIs ==
    ASSUME NEW e \in ExecFields, NEW b \in BOOLEAN
    PROVE  /\ [e EXCEPT !.timer = b] \in ExecFields
           /\ SameBut({"timer"}, e, [e EXCEPT !.timer = b])
           /\ [e EXCEPT !.timer = b].timer = b
BY DEF ExecFields, SameBut, Names

LEMMA PromptedIs ==
    ASSUME NEW e \in ExecFields, NEW b \in BOOLEAN
    PROVE  /\ [e EXCEPT !.prompt = b] \in ExecFields
           /\ SameBut({"prompt"}, e, [e EXCEPT !.prompt = b])
           /\ [e EXCEPT !.prompt = b].prompt = b
BY DEF ExecFields, SameBut, Names

LEMMA AwaitingIs ==
    ASSUME NEW l \in LoopFields, NEW b \in BOOLEAN
    PROVE  /\ [l EXCEPT !.awaiting = b] \in LoopFields
           /\ [l EXCEPT !.awaiting = b].awaiting = b
           /\ [l EXCEPT !.awaiting = b].phase = l.phase
           /\ [l EXCEPT !.awaiting = b].step = l.step
           /\ [l EXCEPT !.awaiting = b].attempt = l.attempt
           /\ [l EXCEPT !.awaiting = b].best = l.best
           /\ [l EXCEPT !.awaiting = b].noProgress = l.noProgress
BY DEF LoopFields

LEMMA MarkedIs ==
    ASSUME NEW e \in ExecFields, NEW l \in LoopFields, NEW s,
           s = [e EXCEPT !.prompt = FALSE, !.loop = l, !.own = "sent"]
    PROVE  /\ s \in ExecFields
           /\ SameBut({"prompt", "loop", "own"}, e, s)
           /\ s.prompt = FALSE /\ s.own = "sent" /\ s.loop = l
BY DEF ExecFields, SameBut, Names

LEMMA MarkIs ==
    ASSUME NEW e \in ExecFields
    PROVE  /\ Mark(e) \in ExecFields
           /\ SameBut({"prompt", "loop", "own"}, e, Mark(e))
           /\ Mark(e).prompt = FALSE /\ Mark(e).own = "sent"
           /\ Mark(e).loop = [e.loop EXCEPT !.awaiting = TRUE]
<1> DEFINE l == [e.loop EXCEPT !.awaiting = TRUE]
<1>1. l \in LoopFields
  BY ExecTyped, AwaitingIs
<1>2. Mark(e) = [e EXCEPT !.prompt = FALSE, !.loop = l, !.own = "sent"]
  BY DEF Mark
<1> HIDE DEF l
<1>3. /\ Mark(e) \in ExecFields
      /\ SameBut({"prompt", "loop", "own"}, e, Mark(e))
      /\ Mark(e).prompt = FALSE /\ Mark(e).own = "sent" /\ Mark(e).loop = l
  BY ZenonT(60), <1>1, <1>2, MarkedIs
<1> QED
  BY <1>3 DEF l

LEMMA HandOverIs ==
    ASSUME NEW e \in ExecFields, e.run >= 1
    PROVE  /\ HandOver(e) \in ExecFields
           /\ SameBut({"outgoing"}, e, HandOver(e))
           /\ Range(HandOver(e).outgoing) = Range(e.outgoing) \cup {e.run}
<1> DEFINE o == Append(e.outgoing, e.run)
<1>1. e.run \in 1..MaxRuns /\ e.outgoing \in Seq(1..MaxRuns)
  BY ExecTyped, CoordinatorAssumption
<1>2. o \in Seq(1..MaxRuns) /\ Range(o) = Range(e.outgoing) \cup {e.run}
  <2> DEFINE S == 1..MaxRuns
  <2> HIDE DEF S
  <2>1. e.run \in S /\ e.outgoing \in Seq(S)
    BY <1>1 DEF S
  <2>2. o \in Seq(S) /\ Range(o) = Range(e.outgoing) \cup {e.run}
    BY <2>1, AppendedRange
  <2> QED
    BY <2>2 DEF S
<1> HIDE DEF o
<1>3. HandOver(e) = [e EXCEPT !.outgoing = o]
  BY DEF HandOver, o
<1> QED
  BY SMTT(40), <1>2, <1>3 DEF ExecFields, SameBut, Names

LEMMA SpawnIs ==
    ASSUME NEW e \in ExecFields, NEW t \in Tasks
    PROVE  /\ Spawn(e, t) \in ExecFields
           /\ SameBut({"tasks"}, e, Spawn(e, t))
           /\ Spawn(e, t).tasks = e.tasks \cup {t}
<1> DEFINE ts == e.tasks \cup {t}
<1>1. ts \in SUBSET Tasks
  BY ExecTyped
<1>2. Spawn(e, t) = [e EXCEPT !.tasks = ts]
  BY DEF Spawn
<1> HIDE DEF ts
<1> QED
  BY SMTT(40), <1>1, <1>2 DEF ExecFields, SameBut, Names, ts

LEMMA TaskTyped ==
    ASSUME NEW e \in ExecFields, e.run >= 1, NEW kind \in TaskKinds
    PROVE  /\ Task(kind, e) \in Tasks
           /\ Task(kind, e).kind = kind /\ Task(kind, e).run = e.run
           /\ Task(kind, e).seq = 0 /\ Task(kind, e).first = FALSE
           /\ Task(kind, e).result = NoResult
<1>1. e.run \in 1..MaxRuns
  BY ExecTyped, CoordinatorAssumption
<1> QED
  BY <1>1 DEF Task, Tasks

\* Another task of the same run.
LEMMA TaskLike ==
    ASSUME NEW t \in Tasks
    PROVE  /\ \A seq \in 0..2 :
                 /\ [t EXCEPT !.seq = seq] \in Tasks
                 /\ [t EXCEPT !.seq = seq].run = t.run
                 /\ [t EXCEPT !.seq = seq].kind = t.kind
                 /\ [t EXCEPT !.seq = seq].seq = seq
           /\ \A first \in BOOLEAN :
                 /\ [t EXCEPT !.first = first] \in Tasks
                 /\ [t EXCEPT !.first = first].run = t.run
                 /\ [t EXCEPT !.first = first].kind = t.kind
           /\ \A result \in Results \cup {NoResult} :
                 /\ [t EXCEPT !.result = result] \in Tasks
                 /\ [t EXCEPT !.result = result].run = t.run
                 /\ [t EXCEPT !.result = result].kind = t.kind
           /\ /\ [t EXCEPT !.kind = "compacted"] \in Tasks
              /\ [t EXCEPT !.kind = "compacted"].run = t.run
              /\ [t EXCEPT !.kind = "compacted"].kind = "compacted"
BY DEF Tasks, TaskKinds

LEMMA BeginCompactIs ==
    ASSUME NEW e \in ExecFields, e.run >= 1, NEW first \in BOOLEAN
    PROVE  /\ BeginCompact(e, first) \in ExecFields
           /\ SameBut({"tasks", "compacting"}, e, BeginCompact(e, first))
           /\ BeginCompact(e, first).compacting = TRUE
           /\ \E t \in Tasks : /\ t.run = e.run /\ t.kind = "compact"
                               /\ BeginCompact(e, first).tasks = e.tasks \cup {t}
<1> DEFINE s == [e EXCEPT !.compacting = TRUE]
           t == [Task("compact", e) EXCEPT !.first = first]
<1>1. s \in ExecFields /\ SameBut({"compacting"}, e, s) /\ s.compacting = TRUE
  BY DEF ExecFields, SameBut, Names
<1>2. t \in Tasks /\ t.run = e.run /\ t.kind = "compact"
  <2>1. Task("compact", e) \in Tasks /\ Task("compact", e).run = e.run
        /\ Task("compact", e).kind = "compact"
    BY TaskTyped DEF TaskKinds
  <2> QED
    BY <2>1, TaskLike
<1>3. BeginCompact(e, first) = Spawn(s, t)
  BY DEF BeginCompact
<1> HIDE DEF s, t
<1>4. /\ Spawn(s, t) \in ExecFields /\ SameBut({"tasks"}, s, Spawn(s, t))
      /\ Spawn(s, t).tasks = s.tasks \cup {t}
  BY <1>1, <1>2, SpawnIs
<1>5. SameBut({"tasks", "compacting"}, e, Spawn(s, t))
  BY <1>1, <1>4 DEF SameBut
<1>6. s.tasks = e.tasks /\ Spawn(s, t).compacting = TRUE
  BY <1>1, <1>4 DEF SameBut, Names
<1> QED
  BY <1>2, <1>3, <1>4, <1>5, <1>6

\* What verifyRound does where it has something to verify.
LEMMA VerifyingIs ==
    ASSUME NEW e \in ExecFields, e.run >= 1, NEW s,
           s = Spawn([e EXCEPT !.verifying = TRUE, !.identity = FreshSeq(e),
                               !.loop.awaiting = TRUE],
                     [Task("verify", e) EXCEPT !.seq = FreshSeq(e)])
    PROVE  /\ s \in ExecFields
           /\ SameBut({"tasks", "verifying", "identity", "loop"}, e, s)
           /\ s.verifying = TRUE /\ s.loop = [e.loop EXCEPT !.awaiting = TRUE]
           /\ \E t \in Tasks : /\ t.run = e.run /\ t.kind = "verify" /\ t.seq = s.identity
                               /\ s.tasks = e.tasks \cup {t}
<1> DEFINE q == FreshSeq(e)
           l == [e.loop EXCEPT !.awaiting = TRUE]
           d == [e EXCEPT !.verifying = TRUE, !.identity = q, !.loop = l]
           t == [Task("verify", e) EXCEPT !.seq = q]
<1>1. q \in 0..2
  BY DEF FreshSeq
<1>2. l \in LoopFields
  BY ExecTyped, AwaitingIs
<1>3. s = Spawn(d, t)
  OBVIOUS
<1> HIDE DEF q, l
<1>4. t \in Tasks /\ t.run = e.run /\ t.kind = "verify" /\ t.seq = q
  <2>1. Task("verify", e) \in Tasks /\ Task("verify", e).run = e.run
        /\ Task("verify", e).kind = "verify"
    BY TaskTyped DEF TaskKinds
  <2> QED
    BY <1>1, <2>1, TaskLike
<1>5. /\ d \in ExecFields /\ SameBut({"verifying", "identity", "loop"}, e, d)
      /\ d.verifying = TRUE /\ d.identity = q /\ d.loop = l
  BY <1>1, <1>2 DEF ExecFields, SameBut, Names
<1> HIDE DEF d, t
<1>6. /\ s \in ExecFields /\ SameBut({"tasks"}, d, s) /\ s.tasks = d.tasks \cup {t}
  BY <1>3, <1>4, <1>5, SpawnIs
<1>7. SameBut({"tasks", "verifying", "identity", "loop"}, e, s)
  BY <1>5, <1>6 DEF SameBut
<1>8. /\ d.tasks = e.tasks /\ s.verifying = TRUE /\ s.identity = q /\ s.loop = l
  BY <1>5, <1>6 DEF SameBut, Names
<1> QED
  BY <1>4, <1>6, <1>7, <1>8 DEF l

-----------------------------------------------------------------------------
(* What a method keeps of the execution it is called on.                   *)

Good(e) == e \in ExecFields /\ Spans(e)

\* The run stands where it stood: nothing was decided about it.
SameStanding(l, m) == m.phase = l.phase /\ m.step = l.step /\ m.attempt = l.attempt

Checks(e) == {t \in e.tasks : t.kind = "check"}
SameChecks(e, s) == s.settling = e.settling /\ Checks(s) = Checks(e)

\* The same run, which goes on, or is over for good.
Steady(e, s) ==
    /\ s.run = e.run /\ s.closed = e.closed /\ s.stray = e.stray
    /\ e.slipped => s.slipped
    /\ Active(s.loop) => Active(e.loop)
    /\ ~Active(e.loop) => s.loop = e.loop

\* A step that ends nothing, decides nothing and consumes nothing.
Still(e, s) ==
    /\ Good(s)
    /\ Steady(e, s)
    /\ s.slipped = e.slipped
    /\ SameStanding(e.loop, s.loop)
    /\ SameChecks(e, s)

\* A step that may decide the attempt or end the run, and leaves to others
\* what is being consumed.
Onward(e, s) == Good(s) /\ Steady(e, s) /\ SameChecks(e, s)

\* A step that may decide the attempt or end the run.
Follows(e, s) ==
    /\ Good(s)
    /\ Steady(e, s)
    /\ Consuming(e) => Consuming(s)

Judged(l, m) ==
    \/ m.step # l.step
    \/ m.attempt # l.attempt
    \/ l.phase = "running" /\ m.phase \in {"passed", "blocked", "stalled", "paused"}

\* The attempt in flight may be decided.
Entitled(e) == e.own = "ended" \/ (e.own = "none" /\ setup.forked)

\* What a method leaves undisturbed is orderly, and what it decided was due.
Right(e, s) ==
    Undisturbed(s) => Orderly(s) /\ (Judged(e.loop, s.loop) => Entitled(e))

\* Nothing of the run is under way.
Resting(e) == OneAtATime(e) /\ Mine(e) = {} /\ e.own \in {"none", "ended"}

LEMMA ActiveStanding ==
    ASSUME NEW l, NEW m, SameStanding(l, m)
    PROVE  (Active(m) <=> Active(l)) /\ ~Judged(l, m)
BY DEF SameStanding, Active, Judged

LEMMA GoodIs ==
    ASSUME NEW e, Good(e)
    PROVE  /\ e \in ExecFields /\ e.loop \in LoopFields
           /\ e.run \in Nat /\ e.ends \in Nat
           /\ Active(e.loop) => e.run >= 1 /\ ~e.closed
           /\ Live(e) <=> Active(e.loop)
           /\ Sane(e.loop)
<1>1. e \in ExecFields /\ Spans(e)
  BY DEF Good
<1>2. e.run \in Nat /\ e.ends \in Nat /\ e.closed \in BOOLEAN /\ e.loop \in LoopFields
  BY <1>1, ExecTyped, CoordinatorAssumption
<1>3. Active(e.loop) => e.run = e.ends + 1
  BY <1>1 DEF Spans
<1>4. Active(e.loop) => e.run >= 1
  BY <1>2, <1>3
<1> QED
  BY <1>1, <1>2, <1>4 DEF Spans, Live

LEMMA GoodLike ==
    ASSUME NEW e, Good(e), NEW s \in ExecFields,
           s.run = e.run, s.ends = e.ends, s.endTraced = e.endTraced,
           s.deadline = e.deadline, s.closed = e.closed,
           Sane(s.loop), Active(s.loop) <=> Active(e.loop),
           \A t \in s.tasks : t \in e.tasks \/ t.run = e.run,
           \A r \in Range(s.outgoing) : r \in Range(e.outgoing) \/ r = e.run
    PROVE  Good(s)
<1>1. e.run \in Nat /\ \A t \in s.tasks : t.run <= s.run
  BY GoodIs DEF Good, Spans
<1>2. \A r \in Range(s.outgoing) : r <= s.run
  BY GoodIs DEF Good, Spans
<1> QED
  BY <1>1, <1>2 DEF Good, Spans

\* What the run's standing does not depend on.
Detail == {"prompt", "endedAt", "timer", "verifying", "compacting", "identity",
           "misses", "own", "outages", "answers", "sendable", "over", "reply",
           "gaveUp"}

\* Whatever a step does to these fields, the run is as it was.
LEMMA StillLike ==
    ASSUME NEW e, Good(e), NEW s \in ExecFields,
           SameBut(Detail \cup {"tasks", "outgoing", "loop"}, e, s),
           Sane(s.loop), SameStanding(e.loop, s.loop),
           Active(e.loop) \/ s.loop = e.loop,
           Checks(s) = Checks(e),
           \A t \in s.tasks : t \in e.tasks \/ t.run = e.run,
           \A r \in Range(s.outgoing) : r \in Range(e.outgoing) \/ r = e.run
    PROVE  Still(e, s)
<1>1. /\ s.run = e.run /\ s.ends = e.ends /\ s.endTraced = e.endTraced
      /\ s.deadline = e.deadline /\ s.closed = e.closed /\ s.stray = e.stray
      /\ s.slipped = e.slipped /\ s.settling = e.settling
  BY DEF SameBut, Names, Detail
<1>2. Active(s.loop) <=> Active(e.loop)
  BY ActiveStanding
<1>3. Good(s)
  BY <1>1, <1>2, GoodLike
<1> QED
  BY <1>1, <1>2, <1>3 DEF Still, Steady, SameChecks

LEMMA StillTwice ==
    ASSUME NEW e, NEW m, NEW s, Still(e, m), Still(m, s)
    PROVE  Still(e, s)
BY DEF Still, Steady, SameStanding, SameChecks

LEMMA CheckedAlike ==
    ASSUME NEW e, NEW s, SameChecks(e, s), s.run = e.run,
           Active(s.loop) => Active(e.loop)
    PROVE  Consuming(e) => Consuming(s)
<1>1. Doing(s, "check") <=> Doing(e, "check")
  <2>1. Doing(e, "check") <=> \E t \in Checks(e) : t.run = e.run
    BY DEF Doing, Mine, Checks
  <2>2. Doing(s, "check") <=> \E t \in Checks(s) : t.run = s.run
    BY DEF Doing, Mine, Checks
  <2> QED
    BY <2>1, <2>2 DEF SameChecks
<1> QED
  BY <1>1 DEF Consuming, SameChecks

LEMMA StillFollows ==
    ASSUME NEW e, NEW s, Still(e, s)
    PROVE  Follows(e, s)
BY CheckedAlike DEF Still, Follows, Steady

LEMMA StillOnward ==
    ASSUME NEW e, NEW s, Still(e, s)
    PROVE  Onward(e, s)
BY DEF Still, Onward

LEMMA OnwardFollows ==
    ASSUME NEW e, NEW s, Onward(e, s)
    PROVE  Follows(e, s)
BY CheckedAlike DEF Onward, Follows, Steady

LEMMA OnwardTwice ==
    ASSUME NEW e, NEW m, NEW s, Onward(e, m), Onward(m, s)
    PROVE  Onward(e, s)
BY DEF Onward, Steady, SameChecks

LEMMA FollowsTwice ==
    ASSUME NEW e, NEW m, NEW s, Follows(e, m), Follows(m, s)
    PROVE  Follows(e, s)
BY DEF Follows, Steady

LEMMA FollowsItself ==
    ASSUME NEW e, Good(e)
    PROVE  Still(e, e) /\ Follows(e, e)
BY DEF Follows, Still, Steady, SameStanding, SameChecks

-----------------------------------------------------------------------------
(* The steps that decide nothing.                                          *)

\* The tasks, the prompts given to the host and the loop are the same.
LEMMA StillRest ==
    ASSUME NEW e, Good(e), NEW s \in ExecFields,
           SameBut(Detail, e, s)
    PROVE  Still(e, s)
<1>1. s.tasks = e.tasks /\ s.outgoing = e.outgoing /\ s.loop = e.loop
  BY DEF SameBut, Names, Detail
<1>2. /\ Sane(s.loop) /\ SameStanding(e.loop, s.loop) /\ Checks(s) = Checks(e)
      /\ \A t \in s.tasks : t \in e.tasks \/ t.run = e.run
      /\ \A r \in Range(s.outgoing) : r \in Range(e.outgoing) \/ r = e.run
  BY <1>1, GoodIs DEF SameStanding, Checks
<1>3. SameBut(Detail \cup {"tasks", "outgoing", "loop"}, e, s)
  BY DEF SameBut
<1> QED
  BY <1>1, <1>2, <1>3, StillLike

LEMMA UnendedStill ==
    ASSUME NEW e, Good(e)
    PROVE  Still(e, Unended(e))
<1>1. Unended(e) \in ExecFields /\ SameBut({"endedAt", "timer"}, e, Unended(e))
  BY UnendedIs, GoodIs
<1>2. SameBut(Detail, e, Unended(e))
  BY <1>1 DEF SameBut, Detail
<1> QED
  BY <1>1, <1>2, StillRest

LEMMA TimedStill ==
    ASSUME NEW e, Good(e), NEW b \in BOOLEAN
    PROVE  Still(e, [e EXCEPT !.timer = b])
<1> DEFINE s == [e EXCEPT !.timer = b]
<1>1. s \in ExecFields /\ SameBut({"timer"}, e, s)
  BY TimedIs, GoodIs
<1> HIDE DEF s
<1>2. SameBut(Detail, e, s)
  BY <1>1 DEF SameBut, Detail
<1>3. Still(e, s)
  BY <1>1, <1>2, StillRest
<1> QED
  BY <1>3 DEF s

LEMMA PromptedStill ==
    ASSUME NEW e, Good(e), NEW b \in BOOLEAN
    PROVE  Still(e, [e EXCEPT !.prompt = b])
<1> DEFINE s == [e EXCEPT !.prompt = b]
<1>1. s \in ExecFields /\ SameBut({"prompt"}, e, s)
  BY PromptedIs, GoodIs
<1> HIDE DEF s
<1>2. SameBut(Detail, e, s)
  BY <1>1 DEF SameBut, Detail
<1>3. Still(e, s)
  BY <1>1, <1>2, StillRest
<1> QED
  BY <1>3 DEF s

LEMMA SaneAwaiting ==
    ASSUME NEW l, Sane(l), NEW b \in BOOLEAN
    PROVE  Sane([l EXCEPT !.awaiting = b]) /\ SameStanding(l, [l EXCEPT !.awaiting = b])
<1> DEFINE m == [l EXCEPT !.awaiting = b]
<1>1. l \in LoopFields
  BY DEF Sane
<1>2. /\ m \in LoopFields /\ m.phase = l.phase /\ m.step = l.step
      /\ m.attempt = l.attempt /\ m.noProgress = l.noProgress
  BY <1>1, AwaitingIs
<1> HIDE DEF m
<1>3. Sane(m) /\ SameStanding(l, m)
  BY <1>2 DEF Sane, Active, SameStanding
<1> QED
  BY <1>3 DEF m

LEMMA MarkStill ==
    ASSUME NEW e, Good(e), Active(e.loop)
    PROVE  Still(e, Mark(e))
<1> DEFINE s == Mark(e)
<1>1. /\ s \in ExecFields /\ SameBut({"prompt", "loop", "own"}, e, s)
      /\ s.loop = [e.loop EXCEPT !.awaiting = TRUE]
  BY MarkIs, GoodIs
<1>2. Sane(s.loop) /\ SameStanding(e.loop, s.loop)
  BY <1>1, SaneAwaiting, GoodIs
<1> HIDE DEF s
<1>3. s.tasks = e.tasks /\ s.outgoing = e.outgoing
  BY <1>1 DEF SameBut, Names
<1>4. /\ Checks(s) = Checks(e)
      /\ \A t \in s.tasks : t \in e.tasks \/ t.run = e.run
      /\ \A r \in Range(s.outgoing) : r \in Range(e.outgoing) \/ r = e.run
  BY <1>3 DEF Checks
<1>5. SameBut(Detail \cup {"tasks", "outgoing", "loop"}, e, s)
  BY <1>1 DEF SameBut, Detail
<1>6. Still(e, s)
  BY <1>1, <1>2, <1>4, <1>5, StillLike
<1> QED
  BY <1>6 DEF s

LEMMA HandOverStill ==
    ASSUME NEW e, Good(e), e.run >= 1
    PROVE  Still(e, HandOver(e))
<1> DEFINE s == HandOver(e)
<1>1. /\ s \in ExecFields /\ SameBut({"outgoing"}, e, s)
      /\ Range(s.outgoing) = Range(e.outgoing) \cup {e.run}
  BY HandOverIs, GoodIs
<1> HIDE DEF s
<1>2. s.tasks = e.tasks /\ s.loop = e.loop
  BY <1>1 DEF SameBut, Names
<1>3. /\ Checks(s) = Checks(e) /\ Sane(s.loop) /\ SameStanding(e.loop, s.loop)
      /\ \A t \in s.tasks : t \in e.tasks \/ t.run = e.run
      /\ \A r \in Range(s.outgoing) : r \in Range(e.outgoing) \/ r = e.run
  BY <1>1, <1>2, GoodIs DEF Checks, SameStanding
<1>4. SameBut(Detail \cup {"tasks", "outgoing", "loop"}, e, s)
  BY <1>1 DEF SameBut, Detail
<1>5. Still(e, s)
  BY <1>1, <1>2, <1>3, <1>4, StillLike
<1> QED
  BY <1>5 DEF s

LEMMA BeginCompactStill ==
    ASSUME NEW e, Good(e), e.run >= 1, NEW first \in BOOLEAN
    PROVE  Still(e, BeginCompact(e, first))
<1> DEFINE s == BeginCompact(e, first)
<1>1. /\ s \in ExecFields /\ SameBut({"tasks", "compacting"}, e, s)
      /\ \E t \in Tasks : t.run = e.run /\ t.kind = "compact" /\ s.tasks = e.tasks \cup {t}
  BY BeginCompactIs, GoodIs
<1> HIDE DEF s
<1>2. s.outgoing = e.outgoing /\ s.loop = e.loop
  BY <1>1 DEF SameBut, Names
<1>3. /\ Checks(s) = Checks(e) /\ Sane(s.loop) /\ SameStanding(e.loop, s.loop)
      /\ \A t \in s.tasks : t \in e.tasks \/ t.run = e.run
      /\ \A r \in Range(s.outgoing) : r \in Range(e.outgoing) \/ r = e.run
  BY <1>1, <1>2, GoodIs DEF Checks, SameStanding
<1>4. SameBut(Detail \cup {"tasks", "outgoing", "loop"}, e, s)
  BY <1>1 DEF SameBut, Detail
<1>5. Still(e, s)
  BY <1>1, <1>2, <1>3, <1>4, StillLike
<1> QED
  BY <1>5 DEF s

LEMMA VerifyRoundStill ==
    ASSUME NEW e, Good(e)
    PROVE  Still(e, VerifyRound(e))
<1> DEFINE s == VerifyRound(e)
<1>1. CASE ~(Live(e) /\ ~e.verifying /\ setup.forked)
  BY <1>1, FollowsItself DEF VerifyRound
<1>2. CASE Live(e) /\ ~e.verifying /\ setup.forked
  <2>1. Active(e.loop) /\ e.run >= 1 /\ e \in ExecFields /\ Sane(e.loop)
    BY <1>2, GoodIs
  <2>2. s = Spawn([e EXCEPT !.verifying = TRUE, !.identity = FreshSeq(e),
                            !.loop.awaiting = TRUE],
                  [Task("verify", e) EXCEPT !.seq = FreshSeq(e)])
    BY <1>2 DEF VerifyRound
  <2> HIDE DEF s
  <2>3. /\ s \in ExecFields
        /\ SameBut({"tasks", "verifying", "identity", "loop"}, e, s)
        /\ s.loop = [e.loop EXCEPT !.awaiting = TRUE]
        /\ \E t \in Tasks : /\ t.run = e.run /\ t.kind = "verify"
                            /\ s.tasks = e.tasks \cup {t}
    BY <2>1, <2>2, VerifyingIs
  <2>4. Sane(s.loop) /\ SameStanding(e.loop, s.loop)
    BY <2>1, <2>3, SaneAwaiting
  <2>5. s.outgoing = e.outgoing
    BY <2>3 DEF SameBut, Names
  <2>6. /\ Checks(s) = Checks(e)
        /\ \A t \in s.tasks : t \in e.tasks \/ t.run = e.run
        /\ \A r \in Range(s.outgoing) : r \in Range(e.outgoing) \/ r = e.run
    BY <2>3, <2>5 DEF Checks
  <2>7. SameBut(Detail \cup {"tasks", "outgoing", "loop"}, e, s)
    BY <2>3 DEF SameBut, Detail
  <2>8. Still(e, s)
    BY <2>1, <2>3, <2>4, <2>6, <2>7, StillLike
  <2> QED
    BY <2>8 DEF s
<1> QED
  BY <1>1, <1>2

LEMMA SpawnStill ==
    ASSUME NEW e, Good(e), NEW t \in Tasks, t.run = e.run, t.kind # "check"
    PROVE  Still(e, Spawn(e, t))
<1> DEFINE s == Spawn(e, t)
<1>1. s \in ExecFields /\ SameBut({"tasks"}, e, s) /\ s.tasks = e.tasks \cup {t}
  BY SpawnIs, GoodIs
<1> HIDE DEF s
<1>2. s.outgoing = e.outgoing /\ s.loop = e.loop
  BY <1>1 DEF SameBut, Names
<1>3. /\ Checks(s) = Checks(e) /\ Sane(s.loop) /\ SameStanding(e.loop, s.loop)
      /\ \A u \in s.tasks : u \in e.tasks \/ u.run = e.run
      /\ \A r \in Range(s.outgoing) : r \in Range(e.outgoing) \/ r = e.run
  BY <1>1, <1>2, GoodIs DEF Checks, SameStanding
<1>4. SameBut(Detail \cup {"tasks", "outgoing", "loop"}, e, s)
  BY <1>1 DEF SameBut, Detail
<1>5. Still(e, s)
  BY <1>1, <1>2, <1>3, <1>4, StillLike
<1> QED
  BY <1>5 DEF s

LEMMA VerifyStepStill ==
    ASSUME NEW e, Good(e)
    PROVE  Still(e, VerifyStep(e))
<1>1. CASE ~Live(e)
  BY <1>1, FollowsItself DEF VerifyStep
<1>2. CASE Live(e) /\ setup.marker
  <2>1. e \in ExecFields /\ e.run >= 1
    BY <1>2, GoodIs
  <2>2. Task("section", e) \in Tasks /\ Task("section", e).run = e.run
        /\ Task("section", e).kind = "section"
    BY <2>1, TaskTyped DEF TaskKinds
  <2>3. Still(e, Spawn(e, Task("section", e)))
    BY <2>2, SpawnStill
  <2> QED
    BY <1>2, <2>3 DEF VerifyStep
<1>3. CASE Live(e) /\ ~setup.marker
  BY <1>3, VerifyRoundStill DEF VerifyStep
<1> QED
  BY <1>1, <1>2, <1>3

LEMMA NudgeStill ==
    ASSUME NEW e, Good(e)
    PROVE  Still(e, Nudge(e))
BY FollowsItself, UnendedStill, TimedStill DEF Nudge

LEMMA ReleaseStill ==
    ASSUME NEW e, Good(e)
    PROVE  Still(e, Release(e))
<1>1. CASE ~MayFlush(e)
  BY <1>1, NudgeStill DEF Release
<1>2. ASSUME MayFlush(e) PROVE Active(e.loop) /\ e.run >= 1
  BY <1>2, GoodIs DEF MayFlush
<1>3. CASE MayFlush(e) /\ CompactDue(e)
  <2> DEFINE m == BeginCompact(e, FALSE)
  <2>1. Still(e, m)
    BY <1>2, <1>3, BeginCompactStill
  <2> HIDE DEF m
  <2>2. Still(m, Nudge(m))
    BY <2>1, NudgeStill DEF Still
  <2>3. Still(e, Nudge(m))
    BY <2>1, <2>2, StillTwice
  <2> QED
    BY <1>3, <2>3 DEF Release, m
<1>4. CASE MayFlush(e) /\ ~CompactDue(e)
  <2> DEFINE m == Mark(e)
             n == Nudge(m)
  <2>1. Still(e, m)
    BY <1>2, <1>4, MarkStill
  <2>2. m.run = e.run
    BY <2>1 DEF Still, Steady
  <2> HIDE DEF m
  <2>3. Still(m, n)
    BY <2>1, NudgeStill DEF Still
  <2>4. Good(n) /\ n.run = m.run
    BY <2>3 DEF Still, Steady
  <2> HIDE DEF n
  <2>5. Still(n, HandOver(n))
    BY <1>2, <1>4, <2>2, <2>4, HandOverStill
  <2>6. Still(e, HandOver(n))
    BY <2>1, <2>3, <2>5, StillTwice
  <2> QED
    BY <1>4, <2>6 DEF Release, m, n
<1> QED
  BY <1>1, <1>3, <1>4

-----------------------------------------------------------------------------
(* Scoring.                                                                *)

\* A judgment keeps the numbers within the limits, and a run it does not end
\* below them.
LEMMA RetryIs ==
    ASSUME NEW l \in LoopFields, Active(l), l.attempt <= Tries, ~l.awaiting
    PROVE  Sane(Retry(l)) /\ ~Retry(l).awaiting
<1>1. /\ l.phase \in Phases /\ l.attempt \in 1..(Tries + 1)
      /\ l.noProgress \in 0..StallStreak /\ Tries \in Nat /\ StallStreak \in Nat
  BY LoopTyped, LimitsAssumption
<1>2. CASE l.noProgress >= StallStreak
  <2> DEFINE m == [l EXCEPT !.phase = "stalled"]
  <2>1. m \in LoopFields /\ m.phase = "stalled" /\ m.awaiting = l.awaiting
    BY DEF LoopFields, Phases, Over
  <2>2. Retry(l) = m
    BY <1>2 DEF Retry
  <2> QED
    BY <2>1, <2>2 DEF Sane, Active
<1>3. CASE ~(l.noProgress >= StallStreak) /\ l.attempt + 1 > Tries
  <2> DEFINE m == [l EXCEPT !.attempt = @ + 1, !.phase = "exhausted"]
  <2>1. l.attempt + 1 \in 1..(Tries + 1)
    BY <1>1
  <2>2. m \in LoopFields /\ m.phase = "exhausted" /\ m.awaiting = l.awaiting
    BY <2>1 DEF LoopFields, Phases, Over
  <2>3. Retry(l) = m
    BY <1>3 DEF Retry
  <2> QED
    BY <2>2, <2>3 DEF Sane, Active
<1>4. CASE ~(l.noProgress >= StallStreak) /\ ~(l.attempt + 1 > Tries)
  <2> DEFINE m == [l EXCEPT !.attempt = @ + 1]
  <2>1. l.attempt + 1 \in 1..(Tries + 1) /\ l.attempt + 1 <= Tries
        /\ l.noProgress < StallStreak
    BY <1>1, <1>4
  <2>2. /\ m \in LoopFields /\ m.phase = l.phase /\ m.awaiting = l.awaiting
        /\ m.attempt = l.attempt + 1 /\ m.noProgress = l.noProgress
    BY <2>1 DEF LoopFields
  <2>3. Retry(l) = m
    BY <1>4 DEF Retry
  <2> QED
    BY <2>1, <2>2, <2>3 DEF Sane
<1> QED
  BY <1>2, <1>3, <1>4

LEMMA AdvanceIs ==
    ASSUME NEW l \in LoopFields, Active(l), ~l.awaiting
    PROVE  Sane(Advance(l)) /\ ~Advance(l).awaiting
<1>1. l.phase \in Phases /\ l.step \in 1..LastStep /\ Tries \in Nat \ {0}
      /\ StallStreak \in Nat \ {0} /\ LastStep \in Nat /\ Pass \in Nat
  BY LoopTyped, LimitsAssumption
<1>2. CASE l.step >= LastStep
  <2> DEFINE m == [l EXCEPT !.phase = "passed"]
  <2>1. m \in LoopFields /\ m.phase = "passed" /\ m.awaiting = l.awaiting
    BY DEF LoopFields, Phases, Over
  <2>2. Advance(l) = m
    BY <1>2 DEF Advance
  <2> QED
    BY <2>1, <2>2 DEF Sane, Active
<1>3. CASE ~(l.step >= LastStep)
  <2> DEFINE m == [l EXCEPT !.step = @ + 1, !.attempt = 1, !.best = 0,
                            !.noProgress = 0]
  <2>1. l.step + 1 \in 1..LastStep /\ 1 \in 1..(Tries + 1) /\ 0 \in 0..Pass
        /\ 0 \in 0..StallStreak /\ 1 <= Tries /\ 0 < StallStreak
    BY <1>1, <1>3
  <2>2. /\ m \in LoopFields /\ m.phase = l.phase /\ m.awaiting = l.awaiting
        /\ m.attempt = 1 /\ m.noProgress = 0
    BY <2>1 DEF LoopFields
  <2>3. Advance(l) = m
    BY <1>3 DEF Advance
  <2> QED
    BY <2>1, <2>2, <2>3 DEF Sane
<1> QED
  BY <1>2, <1>3

LEMMA LeaveIs ==
    ASSUME NEW l \in LoopFields, NEW phase \in Phases
    PROVE  /\ Leave(l, phase) \in LoopFields
           /\ Leave(l, phase).phase = phase /\ ~Leave(l, phase).awaiting
           /\ Leave(l, phase).step = l.step /\ Leave(l, phase).attempt = l.attempt
           /\ Leave(l, phase).noProgress = l.noProgress
BY DEF Leave, LoopFields

LEMMA SettleIs ==
    ASSUME NEW l, Sane(l), Active(l), NEW result \in Results \cup {NoResult}
    PROVE  Sane(Settle(l, result)) /\ ~Settle(l, result).awaiting
<1>1. l \in LoopFields /\ l.attempt <= Tries /\ l.noProgress < StallStreak
  BY DEF Sane
<1>2. CASE result.kind = "abstained"
  <2>1. Settle(l, result) = Leave(l, "paused")
    BY <1>2 DEF Settle
  <2> QED
    BY <1>1, <2>1, LeaveIs DEF Sane, Phases
<1>3. CASE result.kind = "blocked"
  <2>1. Settle(l, result) = Leave(l, "blocked")
    BY <1>3 DEF Settle
  <2>2. Leave(l, "blocked") \in LoopFields /\ Leave(l, "blocked").phase = "blocked"
        /\ ~Leave(l, "blocked").awaiting
    BY <1>1, LeaveIs DEF Phases, Over
  <2> QED
    BY <2>1, <2>2 DEF Sane, Active
<1>4. CASE result.kind = "score"
  <2>1. result.score \in 1..Pass
    BY <1>4 DEF Results, Scored, Unscored, Abstained, Blocked, NoResult
  <2> DEFINE n == Plateau(l, result.score)
             b == IF result.score > l.best THEN result.score ELSE l.best
             s == [l EXCEPT !.awaiting = FALSE, !.noProgress = n, !.best = b]
  <2>2. n \in 0..StallStreak /\ b \in 0..Pass
    BY <1>1, <2>1, LoopTyped, LimitsAssumption DEF Plateau
  <2>3. Settle(l, result) = IF result.score >= Pass THEN Advance(s) ELSE Retry(s)
    BY <1>4 DEF Settle
  <2> HIDE DEF n, b
  <2>4. /\ s \in LoopFields /\ s.phase = l.phase /\ s.attempt = l.attempt
        /\ s.noProgress = n /\ ~s.awaiting
    BY <1>1, <2>2 DEF LoopFields
  <2> HIDE DEF s
  <2>5. Active(s) /\ s.attempt <= Tries
    BY <1>1, <2>4 DEF Active
  <2>6. Sane(Advance(s)) /\ ~Advance(s).awaiting /\ Sane(Retry(s)) /\ ~Retry(s).awaiting
    BY <2>4, <2>5, AdvanceIs, RetryIs
  <2> QED
    BY <2>3, <2>6
<1>5. CASE result.kind \notin {"abstained", "blocked", "score"}
  <2> DEFINE s == [l EXCEPT !.awaiting = FALSE]
  <2>1. Settle(l, result) = Retry(s)
    BY <1>5 DEF Settle
  <2>2. /\ s \in LoopFields /\ s.phase = l.phase /\ s.attempt = l.attempt
        /\ s.noProgress = l.noProgress /\ ~s.awaiting
    BY <1>1, AwaitingIs
  <2> HIDE DEF s
  <2>3. Active(s) /\ s.attempt <= Tries
    BY <1>1, <2>2 DEF Active
  <2>4. Sane(Retry(s)) /\ ~Retry(s).awaiting
    BY <2>2, <2>3, RetryIs
  <2> QED
    BY <2>1, <2>4
<1> QED
  BY <1>2, <1>3, <1>4, <1>5

-----------------------------------------------------------------------------
(* Ending a run.                                                           *)

LEMMA TraceEndIs ==
    ASSUME NEW d \in ExecFields, ~d.endTraced, d.ends + 1 \in 0..MaxRuns
    PROVE  /\ TraceEnd(d) \in ExecFields
           /\ SameBut({"endTraced", "ends"}, d, TraceEnd(d))
           /\ TraceEnd(d).endTraced = TRUE /\ TraceEnd(d).ends = d.ends + 1
<1> DEFINE n == d.ends + 1
           s == [d EXCEPT !.endTraced = TRUE, !.ends = n]
<1>1. TraceEnd(d) = s
  BY DEF TraceEnd
<1>2. n \in 0..MaxRuns
  OBVIOUS
<1> HIDE DEF n
<1>3. s \in ExecFields /\ SameBut({"endTraced", "ends"}, d, s) /\ s.endTraced = TRUE
      /\ s.ends = n
  BY <1>2 DEF ExecFields, SameBut, Names
<1> QED
  BY <1>1, <1>3 DEF n

\* A run that is over, its deadline disarmed, gets its `loop end`.
LEMMA TraceEndOnward ==
    ASSUME NEW e, Good(e), Active(e.loop), NEW d \in ExecFields,
           SameBut(Detail \cup {"loop", "deadline"}, e, d),
           d.loop \in LoopFields, ~Active(d.loop), d.deadline = FALSE
    PROVE  /\ Onward(e, TraceEnd(d))
           /\ SameBut({"endTraced", "ends"}, d, TraceEnd(d))
<1> DEFINE s == TraceEnd(d)
<1>1. /\ d.run = e.run /\ d.ends = e.ends /\ d.endTraced = e.endTraced
      /\ d.closed = e.closed /\ d.stray = e.stray /\ d.slipped = e.slipped
      /\ d.settling = e.settling /\ d.tasks = e.tasks /\ d.outgoing = e.outgoing
  BY DEF SameBut, Names, Detail
<1>2. /\ e \in ExecFields /\ ~e.endTraced /\ e.run = e.ends + 1
      /\ \A t \in e.tasks : t.run <= e.run
      /\ \A r \in Range(e.outgoing) : r <= e.run
  BY DEF Good, Spans
<1>3. d.ends + 1 \in 0..MaxRuns
  BY <1>1, <1>2, ExecTyped
<1>4. /\ s \in ExecFields /\ SameBut({"endTraced", "ends"}, d, s)
      /\ s.endTraced = TRUE /\ s.ends = d.ends + 1
  BY <1>1, <1>2, <1>3, TraceEndIs
<1> HIDE DEF s
<1>5. /\ s.run = d.run /\ s.closed = d.closed /\ s.stray = d.stray
      /\ s.slipped = d.slipped /\ s.settling = d.settling /\ s.tasks = d.tasks
      /\ s.outgoing = d.outgoing /\ s.loop = d.loop /\ s.deadline = d.deadline
  BY <1>4 DEF SameBut, Names
<1>6. Sane(s.loop) /\ ~Active(s.loop)
  BY <1>5 DEF Sane
<1>7. s.run = s.ends + (IF Active(s.loop) THEN 1 ELSE 0)
  BY <1>1, <1>2, <1>4, <1>5, <1>6, ExecTyped
<1>8. Good(s)
  BY <1>1, <1>2, <1>4, <1>5, <1>6, <1>7 DEF Good, Spans
<1>9. Onward(e, s)
  BY <1>1, <1>5, <1>6, <1>8 DEF Onward, Steady, SameChecks, Checks
<1> QED
  BY <1>4, <1>9 DEF s

LEMMA EndRunIs ==
    ASSUME NEW e, Good(e), Active(e.loop), NEW phase \in Over
    PROVE  /\ Onward(e, EndRun(e, phase))
           /\ EndRun(e, phase).loop = Leave(e.loop, phase)
           /\ SameBut({"loop", "deadline", "endTraced", "ends"}, e, EndRun(e, phase))
<1> DEFINE l == Leave(e.loop, phase)
           d == [e EXCEPT !.loop = l, !.deadline = FALSE]
<1>1. l \in LoopFields /\ ~Active(l)
  BY GoodIs, LeaveIs DEF Phases, Over, Active
<1>2. EndRun(e, phase) = TraceEnd(d)
  BY DEF EndRun
<1> HIDE DEF l
<1>3. /\ d \in ExecFields /\ SameBut({"loop", "deadline"}, e, d) /\ d.loop = l
      /\ d.deadline = FALSE
  <2>1. e \in ExecFields /\ FALSE \in BOOLEAN
    BY GoodIs
  <2> QED
    BY <1>1, <2>1 DEF ExecFields, SameBut, Names
<1> HIDE DEF d
<1>4. SameBut(Detail \cup {"loop", "deadline"}, e, d)
  BY <1>3 DEF SameBut
<1>5. Onward(e, TraceEnd(d)) /\ SameBut({"endTraced", "ends"}, d, TraceEnd(d))
  BY <1>1, <1>3, <1>4, TraceEndOnward
<1>6. TraceEnd(d).loop = l
  BY <1>3, <1>5 DEF SameBut, Names
<1>7. SameBut({"loop", "deadline", "endTraced", "ends"}, e, TraceEnd(d))
  BY <1>3, <1>5 DEF SameBut
<1> QED
  BY <1>2, <1>5, <1>6, <1>7 DEF l

\* What stopLoop and rejectLoopSend clear before the run ends.
Cleared(e) == [Unended(AbortWork(e)) EXCEPT !.prompt = FALSE]

LEMMA ClearedIs ==
    ASSUME NEW e, Good(e)
    PROVE  /\ Still(e, Cleared(e))
           /\ SameBut({"verifying", "compacting", "endedAt", "timer", "prompt"},
                      e, Cleared(e))
           /\ Cleared(e).verifying = FALSE /\ Cleared(e).compacting = FALSE
           /\ Cleared(e).endedAt = "no" /\ Cleared(e).timer = FALSE
           /\ Cleared(e).prompt = FALSE
<1> DEFINE a == AbortWork(e)
           u == Unended(a)
           s == [u EXCEPT !.prompt = FALSE]
<1>1. /\ a \in ExecFields /\ SameBut({"verifying", "compacting"}, e, a)
      /\ a.verifying = FALSE /\ a.compacting = FALSE
  BY GoodIs, AbortWorkIs
<1>2. Cleared(e) = s
  BY DEF Cleared
<1> HIDE DEF a
<1>3. /\ u \in ExecFields /\ SameBut({"endedAt", "timer"}, a, u)
      /\ u.endedAt = "no" /\ u.timer = FALSE
  BY <1>1, UnendedIs
<1> HIDE DEF u
<1>4. s \in ExecFields /\ SameBut({"prompt"}, u, s) /\ s.prompt = FALSE
  BY <1>3, PromptedIs
<1> HIDE DEF s
<1>5. SameBut({"verifying", "compacting", "endedAt", "timer", "prompt"}, e, s)
  BY <1>1, <1>3, <1>4 DEF SameBut
<1>6. /\ s.verifying = FALSE /\ s.compacting = FALSE /\ s.endedAt = "no"
      /\ s.timer = FALSE
  BY <1>1, <1>3, <1>4 DEF SameBut, Names
<1>7. SameBut(Detail, e, s)
  BY <1>5 DEF SameBut, Detail
<1>8. Still(e, s)
  BY <1>4, <1>7, StillRest
<1> QED
  BY <1>2, <1>4, <1>5, <1>6, <1>8

\* stopLoop and rejectLoopSend end the run and leave nothing of it under way.
LEMMA ClearEndIs ==
    ASSUME NEW e, Good(e), Active(e.loop), NEW phase \in Over, NEW s,
           s = EndRun(Cleared(e), phase)
    PROVE  /\ Onward(e, s)
           /\ s.loop = Leave(e.loop, phase) /\ ~Active(s.loop)
           /\ s.verifying = FALSE /\ s.compacting = FALSE
           /\ SameBut({"verifying", "compacting", "endedAt", "timer", "prompt",
                       "loop", "deadline", "endTraced", "ends"}, e, s)
<1> DEFINE c == Cleared(e)
<1>1. /\ Still(e, c)
      /\ SameBut({"verifying", "compacting", "endedAt", "timer", "prompt"}, e, c)
      /\ c.verifying = FALSE /\ c.compacting = FALSE
  BY ClearedIs
<1> HIDE DEF c
<1>2. Good(c) /\ c.loop = e.loop
  BY <1>1 DEF Still, SameBut, Names
<1>3. /\ Onward(c, s) /\ s.loop = Leave(c.loop, phase)
      /\ SameBut({"loop", "deadline", "endTraced", "ends"}, c, s)
  BY <1>2, EndRunIs DEF c
<1>4. Onward(e, s)
  BY <1>1, <1>3, StillOnward, OnwardTwice
<1>5. s.verifying = FALSE /\ s.compacting = FALSE
  BY <1>1, <1>3 DEF SameBut, Names
<1>6. SameBut({"verifying", "compacting", "endedAt", "timer", "prompt",
               "loop", "deadline", "endTraced", "ends"}, e, s)
  BY <1>1, <1>3 DEF SameBut
<1>7. ~Active(s.loop)
  BY <1>2, <1>3, GoodIs, LeaveIs DEF Phases, Over, Active
<1> QED
  BY <1>2, <1>3, <1>4, <1>5, <1>6, <1>7

-----------------------------------------------------------------------------
(* Consuming a judgment, whatever disturbed the run.                       *)

\* The run has its judgment in.
WithJudgment(e, l, o, n) == [e EXCEPT !.loop = l, !.own = o, !.outages = n]

LEMMA JudgmentIs ==
    ASSUME NEW e \in ExecFields, NEW l \in LoopFields,
           NEW o \in {"none", "sent", "delivered", "ended"},
           NEW n, n \in 0..(VerifierRetries + 1)
    PROVE  /\ WithJudgment(e, l, o, n) \in ExecFields
           /\ SameBut({"loop", "own", "outages"}, e, WithJudgment(e, l, o, n))
           /\ WithJudgment(e, l, o, n).loop = l /\ WithJudgment(e, l, o, n).own = o
BY DEF WithJudgment, ExecFields, SameBut, Names

LEMMA SettleWithOnward ==
    ASSUME NEW e, Good(e), NEW result \in Results \cup {NoResult}
    PROVE  Onward(e, SettleWith(e, result))
<1>1. CASE ~Live(e) \/ ~e.loop.awaiting
  BY <1>1, FollowsItself, StillOnward DEF SettleWith
<1>2. CASE Live(e) /\ e.loop.awaiting
  <2> DEFINE l == Settle(e.loop, result)
             o == IF l.phase = "paused" THEN e.own ELSE "none"
             n == IF l.phase = "paused" THEN e.outages ELSE 0
             s == [e EXCEPT !.loop = l, !.own = o, !.outages = n]
             over == Unended(TraceEnd([s EXCEPT !.deadline = FALSE]))
             f == [s EXCEPT !.prompt = TRUE]
  <2>1. e \in ExecFields /\ Active(e.loop) /\ Sane(e.loop)
    BY <1>2, GoodIs
  <2>2. Sane(l) /\ l \in LoopFields
    BY <2>1, SettleIs DEF Sane
  <2>3. SettleWith(e, result) =
          IF l.phase # "running"
          THEN IF Active(l) THEN Release(s) ELSE over
          ELSE IF l.step # e.loop.step /\ StartsByVerifying
          THEN VerifyStep(Release(s))
          ELSE Release(f)
    BY <1>2 DEF SettleWith
  <2> HIDE DEF l
  <2>11. o \in {"none", "sent", "delivered", "ended"} /\ n \in 0..(VerifierRetries + 1)
    BY <2>1, ExecTyped, CoordinatorAssumption
  <2> HIDE DEF o, n
  <2>12. s = WithJudgment(e, l, o, n)
    BY DEF WithJudgment
  <2> HIDE DEF s
  <2>4. /\ s \in ExecFields /\ SameBut({"loop", "own", "outages"}, e, s)
        /\ s.loop = l
    BY <2>1, <2>2, <2>11, <2>12, JudgmentIs
  <2>5. ASSUME Active(l) PROVE Onward(e, s)
    <3>1. /\ s.run = e.run /\ s.ends = e.ends /\ s.endTraced = e.endTraced
          /\ s.deadline = e.deadline /\ s.closed = e.closed /\ s.tasks = e.tasks
          /\ s.outgoing = e.outgoing /\ s.stray = e.stray /\ s.slipped = e.slipped
          /\ s.settling = e.settling
      BY <2>4 DEF SameBut, Names
    <3>2. Good(s)
      BY <2>1, <2>2, <2>4, <2>5, <3>1, GoodLike
    <3> QED
      BY <2>1, <3>1, <3>2 DEF Onward, Steady, SameChecks, Checks
  <2>6. ASSUME Active(l) PROVE Onward(e, Release(s))
    BY <2>5, <2>6, ReleaseStill, StillOnward, OnwardTwice DEF Onward
  <2>7. ASSUME Active(l) PROVE Onward(e, VerifyStep(Release(s)))
    BY <2>6, <2>7, VerifyStepStill, StillOnward, OnwardTwice DEF Onward
  <2>8. ASSUME Active(l) PROVE Onward(e, Release(f))
    <3>1. Good(s) /\ Onward(e, s)
      BY <2>5, <2>8 DEF Onward
    <3>2. Still(s, f)
      BY <3>1, PromptedStill
    <3> HIDE DEF f
    <3>3. Still(f, Release(f))
      BY <3>2, ReleaseStill DEF Still
    <3> QED
      BY <3>1, <3>2, <3>3, StillOnward, OnwardTwice
  <2>9. ASSUME ~Active(l) PROVE Onward(e, over)
    <3> DEFINE d == [s EXCEPT !.deadline = FALSE]
    <3>1. d \in ExecFields /\ SameBut({"deadline"}, s, d) /\ d.deadline = FALSE
      BY <2>4 DEF ExecFields, SameBut, Names
    <3>2. d.loop = l
      BY <2>4, <3>1 DEF SameBut, Names
    <3>3. SameBut(Detail \cup {"loop", "deadline"}, e, d)
      BY <2>4, <3>1 DEF SameBut, Detail
    <3>4. over = Unended(TraceEnd(d))
      OBVIOUS
    <3> HIDE DEF d, over
    <3>5. Onward(e, TraceEnd(d))
      BY <2>1, <2>2, <2>9, <3>1, <3>2, <3>3, TraceEndOnward
    <3>6. Onward(TraceEnd(d), Unended(TraceEnd(d)))
      BY <3>5, UnendedStill, StillOnward DEF Onward
    <3> QED
      BY <3>4, <3>5, <3>6, OnwardTwice
  <2>10. l.phase = "running" => Active(l)
    BY DEF Active
  <2> QED
    BY <2>3, <2>6, <2>7, <2>8, <2>9, <2>10
<1> QED
  BY <1>1, <1>2

\* The verdict that waits for the artifact to be read.
Checking(e, result) ==
    Spawn([e EXCEPT !.settling = TRUE], [Task("check", e) EXCEPT !.result = result])

LEMMA CheckingIs ==
    ASSUME NEW e, Good(e), Active(e.loop), NEW result \in Results \cup {NoResult}
    PROVE  /\ Follows(e, Checking(e, result))
           /\ Checking(e, result) \in ExecFields
           /\ SameBut({"settling", "tasks"}, e, Checking(e, result))
           /\ Checking(e, result).settling = TRUE
           /\ \E t \in Tasks : /\ t.run = e.run /\ t.kind = "check"
                               /\ Checking(e, result).tasks = e.tasks \cup {t}
<1> DEFINE d == [e EXCEPT !.settling = TRUE]
           t == [Task("check", e) EXCEPT !.result = result]
           s == Checking(e, result)
<1>1. e \in ExecFields /\ e.run >= 1 /\ Sane(e.loop)
  BY GoodIs
<1>2. d \in ExecFields /\ SameBut({"settling"}, e, d) /\ d.settling = TRUE
  BY <1>1 DEF ExecFields, SameBut, Names
<1>3. t \in Tasks /\ t.run = e.run /\ t.kind = "check"
  <2>1. Task("check", e) \in Tasks /\ Task("check", e).run = e.run
        /\ Task("check", e).kind = "check"
    BY <1>1, TaskTyped DEF TaskKinds
  <2> QED
    BY <2>1, TaskLike
<1>4. s = Spawn(d, t)
  BY DEF Checking
<1> HIDE DEF d, t, s
<1>5. s \in ExecFields /\ SameBut({"tasks"}, d, s) /\ s.tasks = d.tasks \cup {t}
  BY <1>2, <1>3, <1>4, SpawnIs
<1>6. SameBut({"settling", "tasks"}, e, s)
  BY <1>2, <1>5 DEF SameBut
<1>7. s.settling = TRUE /\ s.tasks = e.tasks \cup {t}
  BY <1>2, <1>5 DEF SameBut, Names
<1>8. /\ s.run = e.run /\ s.ends = e.ends /\ s.endTraced = e.endTraced
      /\ s.deadline = e.deadline /\ s.closed = e.closed /\ s.loop = e.loop
      /\ s.outgoing = e.outgoing /\ s.stray = e.stray /\ s.slipped = e.slipped
  BY <1>6 DEF SameBut, Names
<1>9. Good(s)
  BY <1>1, <1>3, <1>5, <1>7, <1>8, GoodLike
<1>10. Consuming(s)
  BY <1>3, <1>7, <1>8 DEF Consuming, Doing, Mine
<1> QED
  BY <1>3, <1>5, <1>6, <1>7, <1>8, <1>9, <1>10 DEF s, Follows, Steady

LEMMA SettleCheckedFollows ==
    ASSUME NEW e, Good(e), NEW result \in Results \cup {NoResult}
    PROVE  Follows(e, SettleChecked(e, result))
<1>1. CASE ~Live(e) \/ ~e.loop.awaiting \/ e.settling
  BY <1>1, FollowsItself DEF SettleChecked
<1>2. CASE /\ Live(e) /\ e.loop.awaiting /\ ~e.settling
           /\ setup.marker /\ result.kind \in {"score", "unscored"}
  <2>1. SettleChecked(e, result) = Checking(e, result)
    BY <1>2 DEF SettleChecked, Checking
  <2>2. Active(e.loop)
    BY <1>2, GoodIs
  <2>3. Follows(e, Checking(e, result))
    BY <2>2, CheckingIs
  <2> QED
    BY <2>1, <2>3
<1>3. CASE /\ Live(e) /\ e.loop.awaiting /\ ~e.settling
           /\ ~(setup.marker /\ result.kind \in {"score", "unscored"})
  <2>1. SettleChecked(e, result) = SettleWith(e, result)
    BY <1>3 DEF SettleChecked
  <2> QED
    BY <2>1, SettleWithOnward, OnwardFollows
<1> QED
  BY <1>1, <1>2, <1>3

LEMMA TrySettleFollows ==
    ASSUME NEW e, Good(e)
    PROVE  Follows(e, TrySettle(e)) /\ Follows(e, Settled(e))
<1>1. Follows(e, e) /\ Follows(e, Unended(e)) /\ Good(Unended(e))
      /\ Follows(e, VerifyRound(e)) /\ Follows(e, [e EXCEPT !.timer = TRUE])
  BY FollowsItself, UnendedStill, VerifyRoundStill, TimedStill, StillFollows DEF Still
<1>2. e.reply \in Results \cup {NoResult}
  BY GoodIs, ExecTyped
<1>3. Follows(Unended(e), SettleChecked(Unended(e), e.reply))
  BY <1>1, <1>2, SettleCheckedFollows
<1>4. Follows(e, SettleChecked(Unended(e), e.reply))
  BY <1>1, <1>3, FollowsTwice
<1>5. Follows(e, TrySettle(e))
  BY <1>1, <1>4 DEF TrySettle
<1> QED
  BY <1>1, <1>5 DEF Settled

-----------------------------------------------------------------------------
(* Sending the held prompt, and publishing, whatever disturbed the run.    *)

\* What flushLoop goes on with: it notes that it came between a compaction
\* and its caller.
Flushing(e) ==
    [e EXCEPT !.slipped = @ \/ \E t \in e.tasks : t.kind = "compacted" /\ t.run = e.run]

LEMMA FlushIs ==
    ASSUME NEW e
    PROVE  Flush(e) = IF ~MayFlush(e) THEN e
                      ELSE IF CompactDue(e) THEN Settled(BeginCompact(Flushing(e), FALSE))
                      ELSE SendHeld(Flushing(e))
BY DEF Flush, Flushing

LEMMA FlushingIs ==
    ASSUME NEW e, Good(e)
    PROVE  /\ Flushing(e) \in ExecFields
           /\ SameBut({"slipped"}, e, Flushing(e))
           /\ Onward(e, Flushing(e))
           /\ ~Flushing(e).slipped => Flushing(e) = e
<1> DEFINE b == e.slipped \/ \E t \in e.tasks : t.kind = "compacted" /\ t.run = e.run
           s == [e EXCEPT !.slipped = b]
<1>1. e \in ExecFields /\ e.slipped \in BOOLEAN /\ b \in BOOLEAN
  BY GoodIs, ExecTyped
<1>2. Flushing(e) = s
  BY DEF Flushing
<1>3. e.slipped => b
  OBVIOUS
<1> HIDE DEF b
<1>4. s \in ExecFields /\ SameBut({"slipped"}, e, s) /\ s.slipped = b
  BY <1>1 DEF ExecFields, SameBut, Names
<1>5. ~b => s = e
  BY <1>1, <1>3 DEF ExecFields
<1> HIDE DEF s
<1>6. /\ s.run = e.run /\ s.ends = e.ends /\ s.endTraced = e.endTraced
      /\ s.deadline = e.deadline /\ s.closed = e.closed /\ s.loop = e.loop
      /\ s.tasks = e.tasks /\ s.outgoing = e.outgoing /\ s.stray = e.stray
      /\ s.settling = e.settling
  BY <1>4 DEF SameBut, Names
<1>7. Good(s)
  BY <1>4, <1>6, GoodIs, GoodLike
<1> QED
  BY <1>2, <1>3, <1>4, <1>5, <1>6, <1>7 DEF Onward, Steady, SameChecks, Checks

LEMMA SendHeldFollows ==
    ASSUME NEW e, Good(e), Active(e.loop)
    PROVE  Follows(e, SendHeld(e))
<1> DEFINE m == Mark(e)
           s == Settled(m)
<1>1. Still(e, m)
  BY MarkStill
<1> HIDE DEF m
<1>2. Follows(m, s)
  BY <1>1, TrySettleFollows DEF Still
<1> HIDE DEF s
<1>3. Follows(e, s) /\ Good(s)
  BY <1>1, <1>2, StillFollows, FollowsTwice DEF Follows
<1>4. CASE Live(s)
  <2>1. Still(s, HandOver(s))
    BY <1>3, <1>4, GoodIs, HandOverStill
  <2>2. SendHeld(e) = HandOver(s)
    BY <1>4 DEF SendHeld, s, m
  <2> QED
    BY <1>3, <2>1, <2>2, StillFollows, FollowsTwice
<1>5. CASE ~Live(s)
  <2>1. SendHeld(e) = s
    BY <1>5 DEF SendHeld, s, m
  <2> QED
    BY <1>3, <2>1
<1> QED
  BY <1>4, <1>5

LEMMA FlushFollows ==
    ASSUME NEW e, Good(e)
    PROVE  /\ Follows(e, Flush(e))
           /\ MayFlush(e) => Follows(Flushing(e), Flush(e))
<1> DEFINE s == Flushing(e)
<1>1. Onward(e, s) /\ s.loop = e.loop /\ s.run = e.run
  BY FlushingIs DEF SameBut, Names
<1>2. Follows(e, s) /\ Good(s)
  BY <1>1, OnwardFollows DEF Onward
<1> HIDE DEF s
<1>3. CASE ~MayFlush(e)
  BY <1>3, FlushIs, FollowsItself
<1>4. ASSUME MayFlush(e) PROVE Active(s.loop) /\ s.run >= 1
  BY <1>1, <1>4, GoodIs DEF MayFlush
<1>5. CASE MayFlush(e) /\ CompactDue(e)
  <2> DEFINE m == BeginCompact(s, FALSE)
  <2>1. Still(s, m)
    BY <1>2, <1>4, <1>5, BeginCompactStill
  <2>2. Flush(e) = Settled(m)
    BY <1>5, FlushIs DEF s
  <2> HIDE DEF m
  <2>3. Follows(m, Settled(m))
    BY <2>1, TrySettleFollows DEF Still
  <2>4. Follows(s, Settled(m))
    BY <2>1, <2>3, StillFollows, FollowsTwice
  <2> QED
    BY <1>2, <2>2, <2>4, FollowsTwice DEF s
<1>6. CASE MayFlush(e) /\ ~CompactDue(e)
  <2>1. Flush(e) = SendHeld(s)
    BY <1>6, FlushIs DEF s
  <2>2. Follows(s, SendHeld(s))
    BY <1>2, <1>4, <1>6, SendHeldFollows
  <2> QED
    BY <1>2, <2>1, <2>2, FollowsTwice DEF s
<1> QED
  BY <1>3, <1>5, <1>6

LEMMA ChangedFollows ==
    ASSUME NEW e, Good(e)
    PROVE  Follows(e, Changed(e))
<1> DEFINE m == Flush(e)
<1>1. Follows(e, m)
  BY FlushFollows
<1>2. Changed(e) = IF e.closed THEN e ELSE Settled(m)
  BY DEF Changed
<1> HIDE DEF m
<1>3. Follows(m, Settled(m))
  BY <1>1, TrySettleFollows DEF Follows
<1> QED
  BY <1>1, <1>2, <1>3, FollowsTwice, FollowsItself

\* The turn end that settleLoop notes.
Noticed(e) == [e EXCEPT !.endedAt = IF @ = "no" THEN "recent" ELSE @]

LEMMA NoticedIs ==
    ASSUME NEW e, Good(e)
    PROVE  /\ Still(e, Noticed(e))
           /\ SameBut({"endedAt"}, e, Noticed(e))
           /\ Noticed(e).endedAt # "no"
<1> DEFINE a == IF e.endedAt = "no" THEN "recent" ELSE e.endedAt
           s == [e EXCEPT !.endedAt = a]
<1>1. a \in {"recent", "old"} /\ e \in ExecFields
  BY GoodIs, ExecTyped
<1>2. Noticed(e) = s
  BY DEF Noticed
<1> HIDE DEF a
<1>3. s \in ExecFields /\ SameBut({"endedAt"}, e, s) /\ s.endedAt = a
  BY <1>1 DEF ExecFields, SameBut, Names
<1> HIDE DEF s
<1>4. SameBut(Detail, e, s)
  BY <1>3 DEF SameBut, Detail
<1>5. Still(e, s)
  BY <1>3, <1>4, StillRest
<1> QED
  BY <1>1, <1>2, <1>3, <1>5

LEMMA IdleFollows ==
    ASSUME NEW e, Good(e)
    PROVE  Follows(e, Idle(e))
<1> DEFINE m == Noticed(e)
<1>1. Still(e, m)
  BY NoticedIs
<1>2. Idle(e) = IF ~Live(e) \/ ~e.loop.awaiting THEN e ELSE TrySettle(m)
  BY DEF Idle, Noticed
<1> HIDE DEF m
<1>3. Follows(m, TrySettle(m))
  BY <1>1, TrySettleFollows DEF Still
<1> QED
  BY <1>1, <1>2, <1>3, StillFollows, FollowsTwice, FollowsItself

-----------------------------------------------------------------------------
(* A run nothing disturbs, with nothing under way, takes one thing up.     *)

LEMMA OneTask ==
    ASSUME NEW e, NEW s, NEW t, Mine(e) = {}, s.run = e.run, t.run = e.run,
           s.tasks = e.tasks \cup {t}
    PROVE  Mine(s) = {t}
BY DEF Mine

LEMMA RestingIs ==
    ASSUME NEW e, Resting(e), e \in ExecFields
    PROVE  /\ e.verifying = FALSE /\ e.compacting = FALSE
           /\ e.run \notin Range(e.outgoing)
           /\ Mine(e) = {} /\ e.own \in {"none", "ended"}
           /\ e.timer => e.endedAt # "no"
           /\ e.endedAt # "no" => e.own = "ended" /\ e.loop.awaiting
           /\ e.prompt => e.endedAt = "no"
           /\ e.loop.phase = "paused" => ~e.prompt /\ ~e.loop.awaiting
BY ExecTyped DEF Resting, OneAtATime, Doing

\* The converse.
LEMMA IsResting ==
    ASSUME NEW e, ~e.verifying, ~e.compacting,
           e.run \notin Range(e.outgoing), Mine(e) = {},
           e.own \in {"none", "ended"}, e.timer => e.endedAt # "no",
           e.endedAt # "no" => e.own = "ended" /\ e.loop.awaiting,
           e.prompt => e.endedAt = "no",
           e.loop.phase = "paused" => ~e.prompt /\ ~e.loop.awaiting
    PROVE  Resting(e)
BY DEF Resting, OneAtATime, Doing

LEMMA VerifyRoundOrderly ==
    ASSUME NEW e, Good(e), Resting(e), ~e.prompt, setup.forked,
           e.loop.phase = "running"
    PROVE  OneAtATime(VerifyRound(e))
<1> DEFINE s == VerifyRound(e)
<1>1. e \in ExecFields /\ Active(e.loop) /\ Live(e) /\ e.run >= 1 /\ e.loop \in LoopFields
  BY GoodIs DEF Active
<1>2. /\ e.verifying = FALSE /\ e.compacting = FALSE /\ Mine(e) = {}
      /\ e.run \notin Range(e.outgoing) /\ e.own \in {"none", "ended"}
      /\ e.timer => e.endedAt # "no"
      /\ e.endedAt # "no" => e.own = "ended"
  BY <1>1, RestingIs
<1>3. s = Spawn([e EXCEPT !.verifying = TRUE, !.identity = FreshSeq(e),
                          !.loop.awaiting = TRUE],
                [Task("verify", e) EXCEPT !.seq = FreshSeq(e)])
  BY <1>1, <1>2 DEF VerifyRound
<1> HIDE DEF s
<1>4. /\ SameBut({"tasks", "verifying", "identity", "loop"}, e, s)
      /\ s.verifying = TRUE /\ s.loop = [e.loop EXCEPT !.awaiting = TRUE]
      /\ \E t \in Tasks : /\ t.run = e.run /\ t.kind = "verify" /\ t.seq = s.identity
                          /\ s.tasks = e.tasks \cup {t}
  BY <1>1, <1>3, VerifyingIs
<1>5. PICK t \in Tasks : /\ t.run = e.run /\ t.kind = "verify" /\ t.seq = s.identity
                         /\ s.tasks = e.tasks \cup {t}
  BY <1>4
<1>6. /\ s.run = e.run /\ s.prompt = e.prompt /\ s.endedAt = e.endedAt
      /\ s.timer = e.timer /\ s.compacting = e.compacting
      /\ s.outgoing = e.outgoing /\ s.own = e.own
  BY <1>4 DEF SameBut, Names
<1>7. Mine(s) = {t}
  BY <1>2, <1>5, <1>6, OneTask
<1>8. s.loop.phase = "running" /\ s.loop.awaiting = TRUE
  BY <1>1, <1>4, AwaitingIs
<1>9. OneAtATime(s)
  BY <1>2, <1>4, <1>5, <1>6, <1>7, <1>8 DEF OneAtATime, Doing
<1> QED
  BY <1>9 DEF s

LEMMA SpawnOrderly ==
    ASSUME NEW e, Good(e), Resting(e), e.endedAt = "no", NEW t \in Tasks,
           t.run = e.run, e.loop.phase = "running",
           \/ t.kind = "section" /\ setup.forked /\ ~e.prompt
           \/ t.kind = "compacted"
    PROVE  OneAtATime(Spawn(e, t))
<1> DEFINE s == Spawn(e, t)
<1>1. e \in ExecFields
  BY GoodIs
<1>2. /\ e.verifying = FALSE /\ e.compacting = FALSE /\ Mine(e) = {}
      /\ e.run \notin Range(e.outgoing) /\ e.own \in {"none", "ended"} /\ ~e.timer
  BY <1>1, RestingIs
<1>3. SameBut({"tasks"}, e, s) /\ s.tasks = e.tasks \cup {t}
  BY <1>1, SpawnIs
<1> HIDE DEF s
<1>4. /\ s.run = e.run /\ s.prompt = e.prompt /\ s.endedAt = e.endedAt
      /\ s.timer = e.timer /\ s.compacting = e.compacting /\ s.loop = e.loop
      /\ s.outgoing = e.outgoing /\ s.own = e.own /\ s.verifying = e.verifying
  BY <1>3 DEF SameBut, Names
<1>5. Mine(s) = {t}
  BY <1>2, <1>3, <1>4, OneTask
<1>6. OneAtATime(s)
  BY <1>2, <1>4, <1>5 DEF OneAtATime, Doing
<1> QED
  BY <1>6 DEF s

LEMMA VerifyStepOrderly ==
    ASSUME NEW e, Good(e), Resting(e), e.endedAt = "no", ~e.prompt, setup.forked,
           e.loop.phase = "running"
    PROVE  OneAtATime(VerifyStep(e))
<1>1. e \in ExecFields /\ Active(e.loop) /\ Live(e) /\ e.run >= 1
  BY GoodIs DEF Active
<1>2. CASE setup.marker
  <2>1. Task("section", e) \in Tasks /\ Task("section", e).run = e.run
        /\ Task("section", e).kind = "section"
    BY <1>1, TaskTyped DEF TaskKinds
  <2>2. OneAtATime(Spawn(e, Task("section", e)))
    BY <2>1, SpawnOrderly
  <2> QED
    BY <1>1, <1>2, <2>2 DEF VerifyStep
<1>3. CASE ~setup.marker
  BY <1>1, <1>3, VerifyRoundOrderly DEF VerifyStep
<1> QED
  BY <1>2, <1>3

LEMMA BeginCompactOrderly ==
    ASSUME NEW e, Good(e), Resting(e), e.endedAt = "no", NEW first \in BOOLEAN,
           e.loop.phase = "running"
    PROVE  OneAtATime(BeginCompact(e, first)) /\ BeginCompact(e, first).endedAt = "no"
<1> DEFINE s == BeginCompact(e, first)
<1>1. e \in ExecFields /\ e.run >= 1
  BY GoodIs DEF Active
<1>2. /\ e.verifying = FALSE /\ e.compacting = FALSE /\ Mine(e) = {}
      /\ e.run \notin Range(e.outgoing) /\ e.own \in {"none", "ended"} /\ ~e.timer
  BY <1>1, RestingIs
<1>3. /\ SameBut({"tasks", "compacting"}, e, s) /\ s.compacting = TRUE
      /\ \E t \in Tasks : t.run = e.run /\ t.kind = "compact" /\ s.tasks = e.tasks \cup {t}
  BY <1>1, BeginCompactIs
<1> HIDE DEF s
<1>4. PICK t \in Tasks : t.run = e.run /\ t.kind = "compact" /\ s.tasks = e.tasks \cup {t}
  BY <1>3
<1>5. /\ s.run = e.run /\ s.prompt = e.prompt /\ s.endedAt = e.endedAt
      /\ s.timer = e.timer /\ s.loop = e.loop
      /\ s.outgoing = e.outgoing /\ s.own = e.own /\ s.verifying = e.verifying
  BY <1>3 DEF SameBut, Names
<1>6. Mine(s) = {t}
  BY <1>2, <1>4, <1>5, OneTask
<1>7. OneAtATime(s)
  BY <1>2, <1>3, <1>4, <1>5, <1>6 DEF OneAtATime, Doing
<1> QED
  BY <1>5, <1>7 DEF s

LEMMA SendOrderly ==
    ASSUME NEW e, Good(e), Resting(e), e.endedAt = "no", e.loop.phase = "running"
    PROVE  OneAtATime(HandOver(Mark(e))) /\ Mark(e).endedAt = "no"
           /\ HandOver(Mark(e)).endedAt = "no"
<1> DEFINE m == Mark(e)
           s == HandOver(m)
<1>1. e \in ExecFields /\ e.run >= 1 /\ e.loop \in LoopFields
  BY GoodIs DEF Active
<1>2. /\ e.verifying = FALSE /\ e.compacting = FALSE /\ Mine(e) = {} /\ ~e.timer
  BY <1>1, RestingIs
<1>3. /\ m \in ExecFields /\ SameBut({"prompt", "loop", "own"}, e, m)
      /\ m.prompt = FALSE /\ m.own = "sent" /\ m.loop = [e.loop EXCEPT !.awaiting = TRUE]
  BY <1>1, MarkIs
<1> HIDE DEF m
<1>4. m.run >= 1
  BY <1>1, <1>3 DEF SameBut, Names
<1>5. SameBut({"outgoing"}, m, s)
  BY <1>3, <1>4, HandOverIs
<1> HIDE DEF s
<1>6. m.endedAt = "no"
  BY <1>3 DEF SameBut, Names
<1>7. /\ s.run = e.run /\ s.prompt = FALSE /\ s.endedAt = "no" /\ s.tasks = e.tasks
      /\ s.timer = e.timer /\ s.loop = m.loop /\ s.compacting = e.compacting
      /\ s.own = "sent" /\ s.verifying = e.verifying
  BY <1>3, <1>5 DEF SameBut, Names
<1>8. Mine(s) = {}
  BY <1>2, <1>7 DEF Mine
<1>9. s.loop.phase = "running" /\ s.loop.awaiting = TRUE
  BY <1>1, <1>3, <1>7, AwaitingIs
<1>10. OneAtATime(s)
  BY <1>2, <1>7, <1>8, <1>9 DEF OneAtATime, Doing
<1> QED
  BY <1>6, <1>7, <1>10 DEF s, m

LEMMA ReleaseOrderly ==
    ASSUME NEW e, Good(e), Resting(e), e.endedAt = "no"
    PROVE  /\ OneAtATime(Release(e)) /\ Release(e).endedAt = "no"
           /\ ~e.prompt => Release(e) = e
<1>1. Nudge(e) = e
  BY DEF Nudge
<1>2. CASE ~MayFlush(e)
  BY <1>1, <1>2 DEF Release, Resting
<1>3. CASE MayFlush(e)
  <2>1. e.prompt /\ e.loop.phase = "running"
    BY <1>3, RestingIs, GoodIs DEF MayFlush, Live, Active
  <2>2. CASE CompactDue(e)
    <3> DEFINE m == BeginCompact(e, FALSE)
    <3>1. OneAtATime(m) /\ m.endedAt = "no"
      BY <2>1, BeginCompactOrderly
    <3>2. Release(e) = Nudge(m)
      BY <1>3, <2>2 DEF Release
    <3> HIDE DEF m
    <3> QED
      BY <2>1, <3>1, <3>2 DEF Nudge
  <2>3. CASE ~CompactDue(e)
    <3> DEFINE m == Mark(e)
    <3>1. OneAtATime(HandOver(m)) /\ m.endedAt = "no" /\ HandOver(m).endedAt = "no"
      BY <2>1, SendOrderly
    <3>2. Release(e) = HandOver(Nudge(m))
      BY <1>3, <2>3 DEF Release
    <3> HIDE DEF m
    <3>3. Nudge(m) = m
      BY <3>1 DEF Nudge
    <3> QED
      BY <2>1, <3>1, <3>2, <3>3
  <2> QED
    BY <2>2, <2>3
<1> QED
  BY <1>2, <1>3

-----------------------------------------------------------------------------
(* Consuming a judgment in a run nothing disturbs.                         *)

\* The attempt's own turn is over, or a verifier speaks: the judgment may be
\* consumed, and one thing is taken up after it.
Due(e) ==
    Resting(e) /\ e.endedAt = "no" /\ ~e.prompt /\ (e.own = "ended" \/ setup.forked)

LEMMA DueIs ==
    ASSUME NEW e, Due(e), e \in ExecFields
    PROVE  Entitled(e) /\ Orderly(e)
BY RestingIs DEF Due, Resting, Entitled, Orderly

LEMMA SettleWithOrderly ==
    ASSUME NEW e, Good(e), Due(e), NEW result \in Results \cup {NoResult}
    PROVE  Orderly(SettleWith(e, result))
<1>1. e \in ExecFields
  BY GoodIs
<1>2. CASE ~Live(e) \/ ~e.loop.awaiting
  BY <1>1, <1>2, DueIs DEF SettleWith
<1>3. CASE Live(e) /\ e.loop.awaiting
  <2> DEFINE l == Settle(e.loop, result)
             o == IF l.phase = "paused" THEN e.own ELSE "none"
             n == IF l.phase = "paused" THEN e.outages ELSE 0
             s == [e EXCEPT !.loop = l, !.own = o, !.outages = n]
             over == Unended(TraceEnd([s EXCEPT !.deadline = FALSE]))
             f == [s EXCEPT !.prompt = TRUE]
  <2>1. Active(e.loop) /\ Sane(e.loop)
    BY <1>3, GoodIs
  <2>2. Sane(l) /\ l \in LoopFields /\ ~l.awaiting
    BY <2>1, SettleIs DEF Sane
  <2>3. SettleWith(e, result) =
          IF l.phase # "running"
          THEN IF Active(l) THEN Release(s) ELSE over
          ELSE IF l.step # e.loop.step /\ StartsByVerifying
          THEN VerifyStep(Release(s))
          ELSE Release(f)
    BY <1>3 DEF SettleWith
  <2>4. /\ e.verifying = FALSE /\ e.compacting = FALSE /\ Mine(e) = {}
        /\ e.run \notin Range(e.outgoing) /\ e.own \in {"none", "ended"}
        /\ ~e.timer /\ ~e.prompt /\ e.endedAt = "no"
    BY <1>1, RestingIs DEF Due
  <2> HIDE DEF l
  <2>5. o \in {"none", "sent", "delivered", "ended"} /\ n \in 0..(VerifierRetries + 1)
        /\ o \in {"none", "ended"}
    BY <1>1, <2>4, ExecTyped, CoordinatorAssumption
  <2> HIDE DEF o, n
  <2>6. s = WithJudgment(e, l, o, n)
    BY DEF WithJudgment
  <2> HIDE DEF s
  <2>7. /\ s \in ExecFields /\ SameBut({"loop", "own", "outages"}, e, s)
        /\ s.loop = l /\ s.own = o
    BY <1>1, <2>2, <2>5, <2>6, JudgmentIs
  <2>8. /\ s.run = e.run /\ s.ends = e.ends /\ s.endTraced = e.endTraced
        /\ s.deadline = e.deadline /\ s.closed = e.closed /\ s.tasks = e.tasks
        /\ s.outgoing = e.outgoing /\ s.verifying = e.verifying
        /\ s.compacting = e.compacting /\ s.timer = e.timer /\ s.prompt = e.prompt
        /\ s.endedAt = e.endedAt
    BY <2>7 DEF SameBut, Names
  <2>9. Mine(s) = {}
    BY <2>4, <2>8 DEF Mine
  <2>10. Resting(s) /\ s.endedAt = "no" /\ ~s.prompt
    BY <2>2, <2>4, <2>5, <2>7, <2>8, <2>9, IsResting
  <2>11. ASSUME Active(l) PROVE Good(s)
    BY <2>1, <2>2, <2>7, <2>8, <2>11, GoodLike
  <2>12. CASE Active(l) /\ l.phase # "running"
    <3>1. SettleWith(e, result) = s /\ OneAtATime(s)
      BY <2>3, <2>10, <2>11, <2>12, ReleaseOrderly DEF Resting
    <3> QED
      BY <2>7, <2>12, <3>1 DEF Orderly
  <2>13. CASE l.phase = "running" /\ l.step # e.loop.step /\ StartsByVerifying
    <3>1. Good(s) /\ s.loop.phase = "running" /\ setup.forked
      BY <2>7, <2>11, <2>13 DEF Active, StartsByVerifying
    <3>2. SettleWith(e, result) = VerifyStep(s)
      BY <2>3, <2>10, <2>13, <3>1, ReleaseOrderly
    <3>3. OneAtATime(VerifyStep(s)) /\ Still(s, VerifyStep(s))
      BY <2>10, <3>1, VerifyStepOrderly, VerifyStepStill
    <3>4. Active(VerifyStep(s).loop)
      BY <3>1, <3>3, ActiveStanding DEF Still, Active
    <3> QED
      BY <3>2, <3>3, <3>4 DEF Orderly
  <2>14. CASE l.phase = "running" /\ ~(l.step # e.loop.step /\ StartsByVerifying)
    <3>1. Good(s) /\ s.loop.phase = "running"
      BY <2>7, <2>11, <2>14 DEF Active
    <3>2. SettleWith(e, result) = Release(f)
      BY <2>3, <2>14
    <3>3. /\ f \in ExecFields /\ SameBut({"prompt"}, s, f) /\ Still(s, f)
      BY <2>7, <3>1, PromptedIs, PromptedStill
    <3> HIDE DEF f
    <3>4. /\ f.run = s.run /\ f.tasks = s.tasks /\ f.verifying = s.verifying
          /\ f.compacting = s.compacting /\ f.timer = s.timer /\ f.own = s.own
          /\ f.endedAt = s.endedAt /\ f.outgoing = s.outgoing /\ f.loop = s.loop
      BY <3>3 DEF SameBut, Names
    <3>5. Mine(f) = {}
      BY <2>9, <3>4 DEF Mine
    <3>6. Resting(f) /\ f.endedAt = "no" /\ Good(f)
      BY <2>4, <2>5, <2>7, <2>8, <3>1, <3>3, <3>4, <3>5, IsResting DEF Still
    <3>7. OneAtATime(Release(f)) /\ Still(f, Release(f))
      BY <3>6, ReleaseOrderly, ReleaseStill
    <3>8. Active(Release(f).loop)
      BY <3>1, <3>4, <3>7, ActiveStanding DEF Still, Active
    <3> QED
      BY <3>2, <3>7, <3>8 DEF Orderly
  <2>15. CASE ~Active(l)
    <3> DEFINE d == [s EXCEPT !.deadline = FALSE]
               u == TraceEnd(d)
    <3>1. d \in ExecFields /\ SameBut({"deadline"}, s, d) /\ d.deadline = FALSE
      BY <2>7 DEF ExecFields, SameBut, Names
    <3>2. SettleWith(e, result) = Unended(u)
      BY <2>3, <2>15 DEF Active
    <3> HIDE DEF d
    <3>3. d.loop = l
      BY <2>7, <3>1 DEF SameBut, Names
    <3>4. SameBut(Detail \cup {"loop", "deadline"}, e, d)
      BY <2>7, <3>1 DEF SameBut, Detail
    <3>5. Onward(e, u) /\ SameBut({"endTraced", "ends"}, d, u)
      BY <1>1, <2>1, <2>2, <2>15, <3>1, <3>3, <3>4, TraceEndOnward
    <3> HIDE DEF u
    <3>6. u \in ExecFields
      BY <3>5 DEF Onward, Good
    <3>7. SameBut({"endedAt", "timer"}, u, Unended(u))
      BY <3>6, UnendedIs
    <3>8. /\ Unended(u).verifying = FALSE /\ Unended(u).compacting = FALSE
          /\ Unended(u).loop = l
      BY <2>4, <2>8, <3>1, <3>3, <3>5, <3>7 DEF SameBut, Names
    <3> QED
      BY <2>15, <3>2, <3>8 DEF Orderly
  <2> QED
    BY <2>12, <2>13, <2>14, <2>15 DEF Active
<1> QED
  BY <1>2, <1>3

LEMMA SettleCheckedOrderly ==
    ASSUME NEW e, Good(e), Due(e), NEW result \in Results \cup {NoResult}
    PROVE  Orderly(SettleChecked(e, result))
<1>1. e \in ExecFields
  BY GoodIs
<1>2. CASE ~Live(e) \/ ~e.loop.awaiting \/ e.settling
  BY <1>1, <1>2, DueIs DEF SettleChecked
<1>3. CASE /\ Live(e) /\ e.loop.awaiting /\ ~e.settling
           /\ setup.marker /\ result.kind \in {"score", "unscored"}
  <2> DEFINE s == Checking(e, result)
  <2>1. SettleChecked(e, result) = s
    BY <1>3 DEF SettleChecked, Checking
  <2>2. Active(e.loop)
    BY <1>3, GoodIs
  <2>3. /\ SameBut({"settling", "tasks"}, e, s)
        /\ \E t \in Tasks : t.run = e.run /\ t.kind = "check" /\ s.tasks = e.tasks \cup {t}
    BY <2>2, CheckingIs
  <2> HIDE DEF s
  <2>4. PICK t \in Tasks : t.run = e.run /\ t.kind = "check" /\ s.tasks = e.tasks \cup {t}
    BY <2>3
  <2>5. /\ e.verifying = FALSE /\ e.compacting = FALSE /\ Mine(e) = {}
        /\ e.run \notin Range(e.outgoing) /\ e.own \in {"none", "ended"}
        /\ ~e.timer /\ ~e.prompt /\ e.endedAt = "no"
        /\ e.own = "ended" \/ setup.forked
        /\ e.loop.phase # "paused"
    BY <1>1, <1>3, RestingIs DEF Due
  <2>6. /\ s.run = e.run /\ s.prompt = e.prompt /\ s.endedAt = e.endedAt
        /\ s.timer = e.timer /\ s.loop = e.loop /\ s.compacting = e.compacting
        /\ s.outgoing = e.outgoing /\ s.own = e.own /\ s.verifying = e.verifying
    BY <2>3 DEF SameBut, Names
  <2>7. Mine(s) = {t}
    BY <2>4, <2>5, <2>6, OneTask
  <2>8. OneAtATime(s)
    BY <2>4, <2>5, <2>6, <2>7 DEF OneAtATime, Doing
  <2> QED
    BY <2>1, <2>2, <2>6, <2>8 DEF Orderly
<1>4. CASE /\ Live(e) /\ e.loop.awaiting /\ ~e.settling
           /\ ~(setup.marker /\ result.kind \in {"score", "unscored"})
  <2>1. SettleChecked(e, result) = SettleWith(e, result)
    BY <1>4 DEF SettleChecked
  <2> QED
    BY <2>1, SettleWithOrderly
<1> QED
  BY <1>2, <1>3, <1>4

-----------------------------------------------------------------------------
(* Settling, sending and publishing in a run nothing disturbs.             *)

Core(e) == Good(e) /\ (Undisturbed(e) => Orderly(e))

LEMMA SameRight ==
    ASSUME NEW e, Core(e)
    PROVE  Right(e, e)
BY DEF Core, Right, Judged

LEMMA StillUndisturbed ==
    ASSUME NEW e, NEW s, Follows(e, s)
    PROVE  Undisturbed(s) => Undisturbed(e)
BY DEF Follows, Steady, Undisturbed

LEMMA UnendedOrderly ==
    ASSUME NEW e, Good(e), Orderly(e)
    PROVE  Orderly(Unended(e))
<1> DEFINE s == Unended(e)
<1>1. SameBut({"endedAt", "timer"}, e, s) /\ s.endedAt = "no" /\ s.timer = FALSE
  BY GoodIs, UnendedIs
<1> HIDE DEF s
<1>2. /\ s.run = e.run /\ s.prompt = e.prompt /\ s.tasks = e.tasks /\ s.loop = e.loop
      /\ s.compacting = e.compacting /\ s.verifying = e.verifying
      /\ s.outgoing = e.outgoing /\ s.own = e.own /\ s.identity = e.identity
  BY <1>1 DEF SameBut, Names
<1>3. Mine(s) = Mine(e)
  BY <1>2 DEF Mine
<1>4. Orderly(s)
  BY <1>1, <1>2, <1>3 DEF Orderly, OneAtATime, Doing
<1> QED
  BY <1>4 DEF s

LEMMA TimedOrderly ==
    ASSUME NEW e, Good(e), Orderly(e), e.endedAt # "no" \/ ~Active(e.loop)
    PROVE  Orderly([e EXCEPT !.timer = TRUE])
<1> DEFINE s == [e EXCEPT !.timer = TRUE]
<1>1. e \in ExecFields /\ TRUE \in BOOLEAN
  BY GoodIs
<1>2. SameBut({"timer"}, e, s)
  BY <1>1 DEF ExecFields, SameBut, Names
<1> HIDE DEF s
<1>3. /\ s.run = e.run /\ s.prompt = e.prompt /\ s.tasks = e.tasks /\ s.loop = e.loop
      /\ s.compacting = e.compacting /\ s.verifying = e.verifying
      /\ s.outgoing = e.outgoing /\ s.own = e.own /\ s.identity = e.identity
      /\ s.endedAt = e.endedAt
  BY <1>2 DEF SameBut, Names
<1>4. Mine(s) = Mine(e)
  BY <1>3 DEF Mine
<1>5. Orderly(s)
  BY <1>3, <1>4 DEF Orderly, OneAtATime, Doing
<1> QED
  BY <1>5 DEF s

LEMMA StillRight ==
    ASSUME NEW e, NEW s, Still(e, s), Undisturbed(e) => Orderly(s)
    PROVE  Right(e, s)
<1>1. Undisturbed(s) => Undisturbed(e)
  BY StillFollows, StillUndisturbed
<1>2. ~Judged(e.loop, s.loop)
  BY ActiveStanding DEF Still
<1> QED
  BY <1>1, <1>2 DEF Right

LEMMA TrySettleRight ==
    ASSUME NEW e, Core(e)
    PROVE  Right(e, TrySettle(e)) /\ Right(e, Settled(e))
<1>1. Good(e) /\ e \in ExecFields
  BY GoodIs DEF Core
<1>2. Right(e, e)
  BY SameRight
<1>3. Right(e, Unended(e))
  BY <1>1, UnendedStill, UnendedOrderly, StillRight DEF Core
<1>4. CASE ~Active(e.loop) \/ ~e.loop.awaiting \/ e.endedAt = "no"
  <2>1. TrySettle(e) = Unended(e)
    BY <1>4 DEF TrySettle
  <2> QED
    BY <1>2, <1>3, <2>1 DEF Settled
<1>5. CASE Active(e.loop) /\ e.loop.awaiting /\ e.endedAt # "no"
  <2>1. Settled(e) = TrySettle(e)
    BY <1>5 DEF Settled
  <2>2. ASSUME Undisturbed(e)
        PROVE  /\ OneAtATime(e) /\ Orderly(e) /\ e.own = "ended" /\ ~e.prompt
               /\ e.loop.phase = "running"
               /\ \A t \in Mine(e) : t.kind = "verify"
    BY <1>5, <2>2 DEF Core, Orderly, OneAtATime, Active
  <2>3. CASE setup.forked /\ (e.settling \/ e.verifying)
    <3>1. TrySettle(e) = e
      BY <1>5, <2>3 DEF TrySettle, VerifyRound
    <3> QED
      BY <1>2, <2>1, <3>1
  <2>4. CASE setup.forked /\ ~e.settling /\ ~e.verifying
    <3>1. TrySettle(e) = VerifyRound(e)
      BY <1>5, <2>4 DEF TrySettle
    <3>2. Still(e, VerifyRound(e))
      BY <1>1, VerifyRoundStill
    <3>3. ASSUME Undisturbed(e) PROVE Orderly(VerifyRound(e))
      <4>1. Mine(e) = {}
        BY <2>2, <2>4, <3>3 DEF OneAtATime, Doing
      <4>2. Resting(e)
        BY <2>2, <3>3, <4>1 DEF Resting
      <4>3. OneAtATime(VerifyRound(e))
        BY <1>1, <2>2, <2>4, <3>3, <4>2, VerifyRoundOrderly
      <4>4. Active(VerifyRound(e).loop)
        BY <1>5, <3>2, ActiveStanding DEF Still
      <4> QED
        BY <4>3, <4>4 DEF Orderly
    <3> QED
      BY <2>1, <3>1, <3>2, <3>3, StillRight
  <2>5. CASE ~setup.forked /\ InGrace(e)
    <3>1. TrySettle(e) = [e EXCEPT !.timer = TRUE]
      BY <1>5, <2>5 DEF TrySettle
    <3>2. Still(e, [e EXCEPT !.timer = TRUE])
      BY <1>1, TimedStill
    <3>3. Undisturbed(e) => Orderly([e EXCEPT !.timer = TRUE])
      BY <1>1, <1>5, TimedOrderly DEF Core
    <3> QED
      BY <2>1, <3>1, <3>2, <3>3, StillRight
  <2>6. CASE ~setup.forked /\ ~InGrace(e)
    <3> DEFINE u == Unended(e)
               s == SettleChecked(u, e.reply)
    <3>1. TrySettle(e) = s
      BY <1>5, <2>6 DEF TrySettle
    <3>2. Good(u)
      BY <1>1, UnendedStill DEF Still
    <3>3. e.reply \in Results \cup {NoResult}
      BY <1>1, ExecTyped
    <3>4. Follows(e, s)
      BY <1>1, <3>1, TrySettleFollows
    <3>5. ASSUME Undisturbed(e) PROVE Due(u)
      <4>1. Mine(e) = {}
        BY <2>2, <2>6, <3>5 DEF OneAtATime
      <4>2. SameBut({"endedAt", "timer"}, e, u) /\ u.endedAt = "no" /\ u.timer = FALSE
        BY <1>1, UnendedIs
      <4> HIDE DEF u
      <4>3. u.run = e.run /\ u.tasks = e.tasks /\ u.loop = e.loop /\ u.own = e.own
            /\ u.prompt = e.prompt
        BY <4>2 DEF SameBut, Names
      <4>4. Mine(u) = {}
        BY <4>1, <4>3 DEF Mine
      <4>5. Orderly(u)
        BY <1>1, <2>2, <3>5, UnendedOrderly DEF u
      <4>6. OneAtATime(u)
        BY <1>5, <4>3, <4>5 DEF Orderly
      <4> QED
        BY <2>2, <3>5, <4>2, <4>3, <4>4, <4>6 DEF Due, Resting
    <3> HIDE DEF u
    <3>6. Undisturbed(e) => Orderly(s)
      BY <3>2, <3>3, <3>5, SettleCheckedOrderly
    <3> HIDE DEF s
    <3>7. Undisturbed(s) => Undisturbed(e)
      BY <3>4, StillUndisturbed
    <3>8. Right(e, s)
      BY <2>2, <3>6, <3>7 DEF Right, Entitled
    <3> QED
      BY <2>1, <3>1, <3>8
  <2> QED
    BY <2>3, <2>4, <2>5, <2>6
<1> QED
  BY <1>4, <1>5

\* Nothing is flushed in an undisturbed run but what it holds, with nothing
\* else under way.
LEMMA FlushRight ==
    ASSUME NEW e, Core(e), Undisturbed(Flush(e))
    PROVE  /\ Undisturbed(e) /\ Orderly(Flush(e)) /\ SameStanding(e.loop, Flush(e).loop)
           /\ Flush(e) = e \/ Flush(e).endedAt = "no"
<1>1. Good(e) /\ e \in ExecFields
  BY GoodIs DEF Core
<1>2. Undisturbed(e)
  BY <1>1, FlushFollows, StillUndisturbed
<1>3. CASE ~MayFlush(e)
  <2>1. Flush(e) = e
    BY <1>3, FlushIs
  <2> QED
    BY <1>2, <2>1 DEF Core, SameStanding
<1>4. CASE MayFlush(e)
  <2> DEFINE s == Flushing(e)
  <2>1. Undisturbed(s)
    BY <1>1, <1>4, FlushFollows, StillUndisturbed
  <2>2. s = e /\ s.slipped = FALSE
    BY <1>1, <2>1, FlushingIs, ExecTyped DEF Undisturbed
  <2>3. ~ \E t \in e.tasks : t.kind = "compacted" /\ t.run = e.run
    <3> DEFINE b == e.slipped \/ \E t \in e.tasks : t.kind = "compacted" /\ t.run = e.run
    <3>1. s = [e EXCEPT !.slipped = b]
      BY DEF Flushing
    <3> HIDE DEF b, s
    <3>2. [e EXCEPT !.slipped = b].slipped = b
      BY <1>1 DEF ExecFields
    <3>3. b = FALSE
      BY <2>2, <3>1, <3>2
    <3> QED
      BY <3>3 DEF b
  <2> HIDE DEF s
  <2>4. e.prompt /\ Active(e.loop) /\ ~e.compacting /\ Live(e)
    BY <1>1, <1>4, GoodIs DEF MayFlush
  <2>5. OneAtATime(e)
    BY <1>2, <2>4 DEF Core, Orderly
  <2>6. Mine(e) = {}
    BY <2>3, <2>4, <2>5 DEF OneAtATime, Doing, Mine
  <2>7. Resting(e) /\ e.endedAt = "no" /\ e.loop.phase = "running"
    BY <1>1, <2>4, <2>5, <2>6, ExecTyped DEF Resting, OneAtATime, Active
  <2>8. CASE CompactDue(e)
    <3> DEFINE m == BeginCompact(e, FALSE)
    <3>1. OneAtATime(m) /\ m.endedAt = "no"
      BY <1>1, <2>7, BeginCompactOrderly
    <3>2. Still(e, m)
      BY <1>1, <2>4, GoodIs, BeginCompactStill
    <3>3. Flush(e) = Settled(m)
      BY <1>4, <2>2, <2>8, FlushIs DEF s
    <3> HIDE DEF m
    <3>4. Flush(e) = m
      BY <3>1, <3>3 DEF Settled
    <3>5. SameStanding(e.loop, m.loop) /\ Active(m.loop)
      BY <2>4, <3>2, ActiveStanding DEF Still
    <3> QED
      BY <1>2, <3>1, <3>4, <3>5 DEF Orderly
  <2>9. CASE ~CompactDue(e)
    <3> DEFINE m == Mark(e)
               h == HandOver(m)
    <3>1. OneAtATime(h) /\ m.endedAt = "no" /\ h.endedAt = "no"
      BY <1>1, <2>7, SendOrderly
    <3>2. Still(e, m)
      BY <1>1, <2>4, MarkStill
    <3>3. Flush(e) = SendHeld(e)
      BY <1>4, <2>2, <2>9, FlushIs DEF s
    <3>4. SendHeld(e) = IF Live(Settled(m)) THEN HandOver(Settled(m)) ELSE Settled(m)
      BY DEF SendHeld
    <3> HIDE DEF m
    <3>5. Good(m) /\ Active(m.loop) /\ m.run >= 1 /\ Live(m)
      BY <2>4, <3>2, ActiveStanding, GoodIs DEF Still
    <3>6. Settled(m) = m
      BY <3>1 DEF Settled
    <3>7. Flush(e) = h
      BY <3>3, <3>4, <3>5, <3>6
    <3>8. Still(m, h)
      BY <3>5, HandOverStill
    <3> HIDE DEF h
    <3>9. SameStanding(e.loop, h.loop) /\ Active(h.loop)
      BY <2>4, <3>2, <3>8, StillTwice, ActiveStanding DEF Still
    <3> QED
      BY <1>2, <3>1, <3>7, <3>9 DEF Orderly
  <2> QED
    BY <2>8, <2>9
<1> QED
  BY <1>3, <1>4

LEMMA ChangedRight ==
    ASSUME NEW e, Core(e)
    PROVE  Right(e, Changed(e))
<1>1. Good(e)
  BY DEF Core
<1>2. CASE e.closed
  BY <1>2, SameRight DEF Changed
<1>3. CASE ~e.closed
  <2> DEFINE m == Flush(e)
             s == Settled(m)
  <2>1. Changed(e) = s
    BY <1>3 DEF Changed
  <2>2. Follows(e, m)
    BY <1>1, FlushFollows
  <2>3. Undisturbed(m) => /\ Orderly(m) /\ SameStanding(e.loop, m.loop)
                          /\ m = e \/ m.endedAt = "no"
    BY FlushRight
  <2>4. Core(m)
    BY <2>2, <2>3 DEF Core, Follows
  <2> HIDE DEF m
  <2>5. Follows(m, s) /\ Right(m, s)
    BY <2>4, TrySettleFollows, TrySettleRight DEF Core
  <2>6. ASSUME Undisturbed(s)
        PROVE  Orderly(s) /\ (Judged(e.loop, s.loop) => Entitled(e))
    <3>1. Undisturbed(m) /\ Orderly(s)
      BY <2>5, <2>6, StillUndisturbed DEF Right
    <3>2. CASE m = e
      BY <2>5, <2>6, <3>2 DEF Right
    <3>3. CASE m.endedAt = "no"
      <4>1. s = m
        BY <3>3 DEF Settled
      <4> QED
        BY <2>3, <3>1, <4>1, ActiveStanding
    <3> QED
      BY <2>3, <3>1, <3>2, <3>3
  <2> QED
    BY <2>1, <2>6 DEF Right
<1> QED
  BY <1>2, <1>3

-----------------------------------------------------------------------------
(* The steps.                                                              *)

\* A step from e to s keeps the invariant, leaves a run that is over as it
\* is, and decides an attempt only where it was due.
Kept(e, s) ==
    /\ ExecInv(s)
    /\ s.run = e.run =>
        /\ e.loop.phase \in Over => s.loop = e.loop \/ s.loop.phase = "none"
        /\ s.loop.phase # "none" /\ Undisturbed(s) /\ Judged(e.loop, s.loop) => Entitled(e)

LEMMA InvIs ==
    ASSUME NEW e, ExecInv(e)
    PROVE  Good(e) /\ Core(e) /\ (Undisturbed(e) => Consuming(e)) /\ e \in ExecFields
BY DEF ExecInv, Good, Core

\* Most steps adjust the execution and then call one method.
LEMMA StepFrom ==
    ASSUME NEW e, ExecInv(e), NEW m, NEW s, m.run = e.run, m.loop = e.loop,
           m.own = e.own, Undisturbed(m) => Consuming(m), Follows(m, s), Right(m, s)
    PROVE  Kept(e, s)
<1>1. Undisturbed(s) => Undisturbed(m)
  BY StillUndisturbed
<1>2. ExecInv(s)
  BY <1>1 DEF ExecInv, Follows, Good, Right
<1>3. s.run = e.run /\ (~Active(e.loop) => s.loop = e.loop)
  BY DEF Follows, Steady
<1>4. e.loop.phase \in Over => ~Active(e.loop)
  BY DEF Over, Active
<1>5. Undisturbed(s) /\ Judged(e.loop, s.loop) => Entitled(e)
  BY DEF Right, Entitled
<1> QED
  BY <1>2, <1>3, <1>4, <1>5 DEF Kept

\* A run that is over in a phase of its own is not decided.
LEMMA ClosingRight ==
    ASSUME NEW e, NEW s, e.loop \in LoopFields,
           NEW phase \in {"cancelled", "human", "deadline", "unavailable"},
           s.loop = Leave(e.loop, phase),
           Undisturbed(s) => ~s.verifying /\ ~s.compacting
    PROVE  Right(e, s) /\ ~Active(s.loop)
<1>1. s.loop.phase = phase /\ s.loop.step = e.loop.step /\ s.loop.attempt = e.loop.attempt
  BY LeaveIs DEF Phases, Over
<1> QED
  BY <1>1 DEF Right, Orderly, Judged, Active

LEMMA StopLoopIs ==
    ASSUME NEW e, Core(e)
    PROVE  /\ Follows(e, StopLoop(e)) /\ Right(e, StopLoop(e))
           /\ ~Active(StopLoop(e).loop)
           /\ SameBut({"verifying", "compacting", "endedAt", "timer", "prompt",
                       "loop", "deadline", "endTraced", "ends"}, e, StopLoop(e))
<1>1. CASE Active(e.loop)
  <2> DEFINE s == EndRun(Cleared(e), "cancelled")
  <2>1. StopLoop(e) = s
    BY <1>1 DEF StopLoop, Cleared
  <2>2. Good(e) /\ e.loop \in LoopFields
    BY GoodIs DEF Core
  <2> HIDE DEF s
  <2>3. /\ Onward(e, s)
        /\ s.loop = Leave(e.loop, "cancelled")
        /\ s.verifying = FALSE /\ s.compacting = FALSE
        /\ SameBut({"verifying", "compacting", "endedAt", "timer", "prompt",
                    "loop", "deadline", "endTraced", "ends"}, e, s)
    BY <1>1, <2>2, ClearEndIs DEF s, Over
  <2> QED
    BY <2>1, <2>2, <2>3, OnwardFollows, ClosingRight
<1>2. CASE ~Active(e.loop)
  <2>1. StopLoop(e) = e
    BY <1>2 DEF StopLoop
  <2> QED
    BY <1>2, <2>1, FollowsItself, SameRight DEF Core, SameBut
<1> QED
  BY <1>1, <1>2

LEMMA StopStep ==
    ASSUME CoordinatorInv, Stop
    PROVE  Kept(exec, exec')
<1>1. ExecInv(exec) /\ exec' = StopLoop(exec)
  BY DEF CoordinatorInv, Stop
<1> QED
  BY <1>1, InvIs, StopLoopIs, StepFrom

LEMMA PublishStep ==
    ASSUME CoordinatorInv, Publish
    PROVE  Kept(exec, exec')
<1>1. ExecInv(exec) /\ exec' = Changed(exec)
  BY DEF CoordinatorInv, Publish
<1> QED
  BY <1>1, InvIs, ChangedFollows, ChangedRight, StepFrom

LEMMA ForgetStep ==
    ASSUME CoordinatorInv, Forget
    PROVE  Kept(exec, exec')
<1> DEFINE m == StopLoop(exec)
           l == [m.loop EXCEPT !.phase = "none"]
           s == [m EXCEPT !.loop = l]
<1>1. ExecInv(exec) /\ exec' = s
  BY DEF CoordinatorInv, Forget
<1>2. Follows(exec, m) /\ Right(exec, m) /\ ~Active(m.loop)
  BY <1>1, InvIs, StopLoopIs
<1>3. Good(m) /\ m \in ExecFields /\ m.loop \in LoopFields /\ Sane(m.loop)
  BY <1>2, GoodIs DEF Follows
<1> HIDE DEF m
<1>4. l \in LoopFields /\ l.phase = "none"
  BY <1>3 DEF LoopFields, Phases
<1> HIDE DEF l
<1>5. s \in ExecFields /\ SameBut({"loop"}, m, s) /\ s.loop = l
  BY <1>3, <1>4 DEF ExecFields, SameBut, Names
<1> HIDE DEF s
<1>6. /\ s.run = m.run /\ s.ends = m.ends /\ s.endTraced = m.endTraced
      /\ s.deadline = m.deadline /\ s.closed = m.closed /\ s.tasks = m.tasks
      /\ s.outgoing = m.outgoing /\ s.stray = m.stray /\ s.slipped = m.slipped
      /\ s.verifying = m.verifying /\ s.compacting = m.compacting
  BY <1>5 DEF SameBut, Names
<1>7. ~Active(s.loop) /\ Sane(s.loop)
  BY <1>4, <1>5 DEF Active, Sane
<1>8. Good(s)
  BY <1>2, <1>3, <1>5, <1>6, <1>7, GoodLike
<1>9. Undisturbed(s) => Orderly(s) /\ Consuming(s)
  BY <1>2, <1>6, <1>7 DEF Undisturbed, Right, Orderly, Consuming
<1> QED
  BY <1>1, <1>4, <1>5, <1>8, <1>9 DEF Kept, ExecInv, Good

LEMMA CloseStep ==
    ASSUME CoordinatorInv, Close
    PROVE  Kept(exec, exec')
<1> DEFINE m == StopLoop(exec)
           s == [m EXCEPT !.closed = TRUE]
<1>1. ExecInv(exec) /\ exec' = s
  BY DEF CoordinatorInv, Close
<1>2. Follows(exec, m) /\ Right(exec, m) /\ ~Active(m.loop)
  BY <1>1, InvIs, StopLoopIs
<1>3. Good(m) /\ m \in ExecFields
  BY <1>2, GoodIs DEF Follows
<1>4. Kept(exec, m)
  BY <1>1, <1>2, InvIs, StepFrom
<1> HIDE DEF m
<1>5. s \in ExecFields /\ SameBut({"closed"}, m, s)
  BY <1>3 DEF ExecFields, SameBut, Names
<1> HIDE DEF s
<1>6. /\ s.run = m.run /\ s.ends = m.ends /\ s.endTraced = m.endTraced
      /\ s.deadline = m.deadline /\ s.tasks = m.tasks /\ s.loop = m.loop
      /\ s.outgoing = m.outgoing /\ s.stray = m.stray /\ s.slipped = m.slipped
      /\ s.verifying = m.verifying /\ s.compacting = m.compacting
  BY <1>5 DEF SameBut, Names
<1>7. Good(s)
  BY <1>2, <1>3, <1>5, <1>6 DEF Good, Spans
<1>8. Undisturbed(s) => Orderly(s) /\ Consuming(s)
  BY <1>2, <1>6 DEF Undisturbed, Right, Orderly, Consuming
<1> QED
  BY <1>1, <1>4, <1>6, <1>7, <1>8 DEF Kept, ExecInv, Good, Undisturbed

LEMMA GraceEndsStep ==
    ASSUME CoordinatorInv, GraceEnds
    PROVE  Kept(exec, exec')
<1> DEFINE s == [exec EXCEPT !.endedAt = "old"]
<1>1. ExecInv(exec) /\ exec' = s /\ exec.endedAt = "recent"
  BY DEF CoordinatorInv, GraceEnds
<1>2. Core(exec) /\ Good(exec) /\ exec \in ExecFields
      /\ (Undisturbed(exec) => Consuming(exec))
  BY <1>1, InvIs
<1>3. s \in ExecFields /\ SameBut({"endedAt"}, exec, s) /\ s.endedAt = "old"
  BY <1>2 DEF ExecFields, SameBut, Names
<1> HIDE DEF s
<1>4. SameBut(Detail, exec, s)
  BY <1>3 DEF SameBut, Detail
<1>5. Still(exec, s)
  BY <1>2, <1>3, <1>4, StillRest
<1>6. /\ s.run = exec.run /\ s.prompt = exec.prompt /\ s.tasks = exec.tasks
      /\ s.loop = exec.loop /\ s.compacting = exec.compacting
      /\ s.verifying = exec.verifying /\ s.outgoing = exec.outgoing
      /\ s.own = exec.own /\ s.identity = exec.identity /\ s.timer = exec.timer
  BY <1>3 DEF SameBut, Names
<1>7. Mine(s) = Mine(exec)
  BY <1>6 DEF Mine
<1>8. Orderly(exec) => Orderly(s)
  BY <1>1, <1>3, <1>6, <1>7 DEF Orderly, OneAtATime, Doing
<1>9. Right(exec, s) /\ Follows(exec, s)
  BY <1>2, <1>5, <1>8, StillRight, StillFollows DEF Core
<1> QED
  BY <1>1, <1>2, <1>9, StepFrom

LEMMA ExpireStep ==
    ASSUME CoordinatorInv, Expire
    PROVE  Kept(exec, exec')
<1> DEFINE a == AbortWork(exec)
           u == Unended(a)
           s == EndRun(u, "deadline")
<1>1. ExecInv(exec) /\ exec' = s /\ exec.deadline
  BY DEF CoordinatorInv, Expire
<1>2. Good(exec) /\ exec \in ExecFields /\ (Undisturbed(exec) => Consuming(exec))
      /\ Active(exec.loop)
  BY <1>1, InvIs DEF ExecInv, Spans
<1>3. /\ a \in ExecFields /\ SameBut({"verifying", "compacting"}, exec, a)
      /\ a.verifying = FALSE /\ a.compacting = FALSE
  BY <1>2, AbortWorkIs
<1> HIDE DEF a
<1>4. SameBut(Detail, exec, a)
  BY <1>3 DEF SameBut, Detail
<1>5. Still(exec, a)
  BY <1>2, <1>3, <1>4, StillRest
<1>6. Still(a, u) /\ SameBut({"endedAt", "timer"}, a, u)
  BY <1>3, <1>5, UnendedStill, UnendedIs DEF Still
<1> HIDE DEF u
<1>7. Good(u) /\ u.loop = exec.loop /\ ~u.verifying /\ ~u.compacting
  BY <1>3, <1>6 DEF Still, SameBut, Names
<1>8. /\ Onward(u, s) /\ s.loop = Leave(u.loop, "deadline")
      /\ SameBut({"loop", "deadline", "endTraced", "ends"}, u, s)
  BY <1>2, <1>7, EndRunIs DEF Over
<1> HIDE DEF s
<1>9. ~s.verifying /\ ~s.compacting
  BY <1>7, <1>8 DEF SameBut, Names
<1>10. Right(exec, s)
  BY <1>2, <1>7, <1>8, <1>9, GoodIs, ClosingRight
<1>11. Follows(exec, s)
  BY <1>5, <1>6, <1>8, StillFollows, OnwardFollows, FollowsTwice
<1> QED
  BY <1>1, <1>2, <1>10, <1>11, StepFrom

LEMMA SettleTimeoutStep ==
    ASSUME CoordinatorInv, SettleTimeout
    PROVE  Kept(exec, exec')
<1> DEFINE m == [exec EXCEPT !.timer = FALSE]
<1>1. ExecInv(exec) /\ exec' = TrySettle(m)
  BY DEF CoordinatorInv, SettleTimeout
<1>2. Core(exec) /\ Good(exec) /\ exec \in ExecFields
      /\ (Undisturbed(exec) => Consuming(exec))
  BY <1>1, InvIs
<1>3. m \in ExecFields /\ SameBut({"timer"}, exec, m) /\ m.timer = FALSE
  BY <1>2 DEF ExecFields, SameBut, Names
<1> HIDE DEF m
<1>4. SameBut(Detail, exec, m)
  BY <1>3 DEF SameBut, Detail
<1>5. Still(exec, m)
  BY <1>2, <1>3, <1>4, StillRest
<1>6. /\ m.run = exec.run /\ m.prompt = exec.prompt /\ m.tasks = exec.tasks
      /\ m.loop = exec.loop /\ m.compacting = exec.compacting
      /\ m.verifying = exec.verifying /\ m.outgoing = exec.outgoing
      /\ m.own = exec.own /\ m.identity = exec.identity /\ m.endedAt = exec.endedAt
      /\ m.stray = exec.stray /\ m.slipped = exec.slipped
  BY <1>3 DEF SameBut, Names
<1>7. Mine(m) = Mine(exec)
  BY <1>6 DEF Mine
<1>8. Orderly(exec) => Orderly(m)
  BY <1>3, <1>6, <1>7 DEF Orderly, OneAtATime, Doing
<1>9. Core(m) /\ (Undisturbed(m) => Consuming(m))
  BY <1>2, <1>5, <1>6, <1>8, StillFollows DEF Core, Follows, Undisturbed
<1>10. Follows(m, TrySettle(m)) /\ Right(m, TrySettle(m))
  BY <1>9, TrySettleFollows, TrySettleRight DEF Core
<1> QED
  BY <1>1, <1>6, <1>9, <1>10, StepFrom

LEMMA AnswerStep ==
    ASSUME CoordinatorInv, Answer
    PROVE  Kept(exec, exec')
<1> DEFINE l == Resume(exec.loop)
           m == [exec EXCEPT !.loop = l, !.sendable = FALSE]
           p == [m EXCEPT !.prompt = TRUE]
           s == exec'
<1>1. /\ ExecInv(exec) /\ exec.loop.phase = "paused"
      /\ s = IF setup.forked THEN VerifyStep(m) ELSE p
  BY DEF CoordinatorInv, Answer
<1>2. /\ Good(exec) /\ exec \in ExecFields /\ Sane(exec.loop) /\ exec.loop \in LoopFields
      /\ Active(exec.loop) /\ (Undisturbed(exec) => Orderly(exec) /\ Consuming(exec))
  BY <1>1, InvIs, GoodIs DEF Core, Active
<1>3. /\ l \in LoopFields /\ l.phase = "running" /\ l.awaiting = TRUE
      /\ l.step = exec.loop.step /\ l.attempt = exec.loop.attempt
      /\ l.noProgress = exec.loop.noProgress
  BY <1>2 DEF Resume, LoopFields, Phases
<1> HIDE DEF l
<1>4. m \in ExecFields /\ SameBut({"loop", "sendable"}, exec, m) /\ m.loop = l
  BY <1>2, <1>3 DEF ExecFields, SameBut, Names
<1> HIDE DEF m
<1>5. /\ m.run = exec.run /\ m.ends = exec.ends /\ m.endTraced = exec.endTraced
      /\ m.deadline = exec.deadline /\ m.closed = exec.closed
      /\ m.prompt = exec.prompt /\ m.tasks = exec.tasks /\ m.own = exec.own
      /\ m.compacting = exec.compacting /\ m.verifying = exec.verifying
      /\ m.outgoing = exec.outgoing /\ m.timer = exec.timer
      /\ m.endedAt = exec.endedAt /\ m.stray = exec.stray /\ m.slipped = exec.slipped
      /\ m.settling = exec.settling
  BY <1>4 DEF SameBut, Names
<1>6. Sane(m.loop) /\ Active(m.loop)
  BY <1>2, <1>3, <1>4 DEF Sane, Active
<1>7. Good(m)
  BY <1>2, <1>4, <1>5, <1>6, GoodLike
<1>8. Undisturbed(m) => Consuming(m)
  BY <1>2, <1>5, <1>6 DEF Undisturbed, Consuming, Doing, Mine
<1>9. ASSUME Undisturbed(m) PROVE Resting(m) /\ m.endedAt = "no" /\ ~m.prompt
  <2>1. OneAtATime(exec)
    BY <1>2, <1>5, <1>9 DEF Undisturbed, Orderly
  <2>2. /\ Mine(exec) = {} /\ ~exec.prompt /\ ~exec.loop.awaiting
        /\ exec.endedAt = "no" /\ exec.own \in {"none", "ended"}
    BY <1>1, <1>2, <2>1, ExecTyped DEF OneAtATime
  <2>3. Resting(exec)
    BY <2>1, <2>2 DEF Resting
  <2>4. /\ exec.verifying = FALSE /\ exec.compacting = FALSE
        /\ exec.run \notin Range(exec.outgoing) /\ ~exec.timer
    BY <1>2, <2>2, <2>3, RestingIs
  <2>5. Mine(m) = {}
    BY <1>5, <2>2 DEF Mine
  <2>6. Resting(m)
    BY <1>3, <1>4, <1>5, <2>2, <2>4, <2>5, IsResting
  <2> QED
    BY <1>5, <2>2, <2>6
<1>10. Still(m, s) /\ (Undisturbed(m) => Orderly(s))
  <2>1. CASE setup.forked
    <3>1. s = VerifyStep(m) /\ Still(m, VerifyStep(m))
      BY <1>1, <1>7, <2>1, VerifyStepStill
    <3>2. Undisturbed(m) => OneAtATime(VerifyStep(m))
      BY <1>3, <1>4, <1>7, <1>9, <2>1, VerifyStepOrderly
    <3>3. Active(VerifyStep(m).loop)
      BY <1>6, <3>1, ActiveStanding DEF Still
    <3> QED
      BY <3>1, <3>2, <3>3 DEF Orderly
  <2>2. CASE ~setup.forked
    <3>1. s = p
      BY <1>1, <2>2
    <3> HIDE DEF s
    <3>2. Still(m, p) /\ p \in ExecFields /\ SameBut({"prompt"}, m, p)
      BY <1>4, <1>7, PromptedStill, PromptedIs
    <3> HIDE DEF p
    <3>3. /\ p.run = m.run /\ p.tasks = m.tasks /\ p.own = m.own /\ p.loop = m.loop
          /\ p.compacting = m.compacting /\ p.verifying = m.verifying
          /\ p.outgoing = m.outgoing /\ p.timer = m.timer /\ p.endedAt = m.endedAt
      BY <3>2 DEF SameBut, Names
    <3>4. ASSUME Undisturbed(m) PROVE OneAtATime(p)
      <4>1. /\ m.verifying = FALSE /\ m.compacting = FALSE /\ Mine(m) = {}
            /\ m.run \notin Range(m.outgoing) /\ m.own \in {"none", "ended"}
            /\ ~m.timer /\ m.endedAt = "no"
        BY <1>4, <1>9, <3>4, RestingIs
      <4>2. Mine(p) = {}
        BY <3>3, <4>1 DEF Mine
      <4>3. Resting(p)
        BY <1>3, <1>4, <3>3, <4>1, <4>2, IsResting
      <4> QED
        BY <4>3 DEF Resting
    <3>5. Active(p.loop)
      BY <1>6, <3>3
    <3> QED
      BY <3>1, <3>2, <3>4, <3>5 DEF Orderly
  <2> QED
    BY <2>1, <2>2
<1> HIDE DEF s
<1>11. Right(m, s) /\ Follows(m, s)
  BY <1>10, StillRight, StillFollows
<1>12. Undisturbed(s) => Undisturbed(m)
  BY <1>11, StillUndisturbed
<1>13. ExecInv(s)
  BY <1>8, <1>11, <1>12 DEF ExecInv, Follows, Good, Right
<1>14. ~Judged(exec.loop, s.loop)
  BY <1>1, <1>3, <1>4, <1>10 DEF Judged, Still, SameStanding
<1>15. exec.loop.phase \notin Over
  BY <1>1 DEF Over
<1> QED
  BY <1>13, <1>14, <1>15 DEF Kept, s

LEMMA StartStep ==
    ASSUME CoordinatorInv, Start
    PROVE  Kept(exec, exec')
<1> DEFINE o == StopLoop(exec)
           a == AbortWork(o)
           u == Unended(a)
           m == [u EXCEPT !.loop = NewLoop, !.run = @ + 1, !.prompt = FALSE,
                          !.settling = FALSE, !.identity = 0, !.misses = 0,
                          !.deadline = setup.deadline, !.endTraced = FALSE,
                          !.own = "none", !.stray = FALSE, !.slipped = FALSE,
                          !.outages = 0]
           s == exec'
<1>1. /\ ExecInv(exec) /\ ~exec.closed /\ exec.run < setup.runs
      /\ s = IF StartsByVerifying THEN VerifyStep(m)
             ELSE IF CompactDue(m) THEN BeginCompact(m, TRUE)
             ELSE HandOver(Mark(m))
  BY DEF CoordinatorInv, Start
<1>2. /\ setup.runs \in 1..MaxRuns /\ setup.deadline \in BOOLEAN
  BY CoordinatorAssumption DEF CoordinatorInv, SetupFields
<1>3. Follows(exec, o) /\ ~Active(o.loop) /\ exec \in ExecFields
      /\ SameBut({"verifying", "compacting", "endedAt", "timer", "prompt",
                  "loop", "deadline", "endTraced", "ends"}, exec, o)
  BY <1>1, InvIs, StopLoopIs
<1> HIDE DEF o
<1>4. o \in ExecFields /\ Spans(o) /\ ~o.closed /\ o.run = exec.run
  BY <1>1, <1>3 DEF Follows, Good, SameBut, Names
<1>5. /\ a \in ExecFields /\ SameBut({"verifying", "compacting"}, o, a)
      /\ a.verifying = FALSE /\ a.compacting = FALSE
  BY <1>4, AbortWorkIs
<1> HIDE DEF a
<1>6. /\ u \in ExecFields /\ SameBut({"endedAt", "timer"}, a, u)
      /\ u.endedAt = "no" /\ u.timer = FALSE
  BY <1>5, UnendedIs
<1> HIDE DEF u
<1>7. u.run = exec.run /\ u.run \in Nat /\ u.run + 1 \in 0..MaxRuns
  <2>1. u.run = exec.run
    BY <1>4, <1>5, <1>6 DEF SameBut, Names
  <2> QED
    BY <1>1, <1>2, <1>3, <2>1, ExecTyped, CoordinatorAssumption
<1>8. NewLoop \in LoopFields /\ Sane(NewLoop) /\ Active(NewLoop)
      /\ NewLoop.phase = "running"
  <2>1. NewLoop \in LoopFields
    BY LimitsAssumption DEF NewLoop, LoopFields, Phases
  <2>2. 1 <= Tries /\ 0 < StallStreak
    BY LimitsAssumption
  <2> QED
    BY <2>1, <2>2 DEF NewLoop, Sane, Active
<1>9. /\ m \in ExecFields
      /\ SameBut({"loop", "run", "prompt", "settling", "identity", "misses",
                  "deadline", "endTraced", "own", "stray", "slipped", "outages"}, u, m)
      /\ m.loop = NewLoop /\ m.run = u.run + 1 /\ m.prompt = FALSE
      /\ m.settling = FALSE /\ m.deadline = setup.deadline /\ m.endTraced = FALSE
      /\ m.own = "none"
  <2> DEFINE n == u.run + 1
  <2>1. n \in 0..MaxRuns /\ 0 \in 0..2 /\ 0 \in 0..(VerifierRetries + 1)
    BY <1>7, CoordinatorAssumption
  <2> HIDE DEF n
  <2> DEFINE w == [u EXCEPT !.loop = NewLoop, !.run = n, !.prompt = FALSE,
                            !.settling = FALSE, !.identity = 0, !.misses = 0,
                            !.deadline = setup.deadline, !.endTraced = FALSE,
                            !.own = "none", !.stray = FALSE, !.slipped = FALSE,
                            !.outages = 0]
  <2>2. m = w
    BY DEF n
  <2>3. w \in ExecFields
    BY ZenonT(60), <1>2, <1>6, <1>8, <2>1 DEF ExecFields
  <2>4. /\ SameBut({"loop", "run", "prompt", "settling", "identity", "misses",
                    "deadline", "endTraced", "own", "stray", "slipped", "outages"}, u, w)
        /\ w.loop = NewLoop /\ w.run = n /\ w.prompt = FALSE
        /\ w.settling = FALSE /\ w.deadline = setup.deadline /\ w.endTraced = FALSE
        /\ w.own = "none"
    BY <1>6 DEF ExecFields, SameBut, Names
  <2> HIDE DEF w, m
  <2> QED
    BY <2>2, <2>3, <2>4 DEF n
<1> HIDE DEF m
<1>10. /\ m.tasks = o.tasks /\ m.outgoing = o.outgoing /\ m.ends = o.ends
       /\ m.closed = o.closed /\ m.verifying = FALSE /\ m.compacting = FALSE
       /\ m.endedAt = "no" /\ m.timer = FALSE
  BY <1>5, <1>6, <1>9 DEF SameBut, Names
<1>11. o.ends \in Nat /\ o.run = o.ends /\ m.run = o.run + 1
  BY <1>3, <1>4, <1>7, <1>9, ExecTyped, CoordinatorAssumption DEF Spans
<1>12. /\ \A t \in m.tasks : t.run <= o.run /\ t.run \in Nat
       /\ \A r \in Range(m.outgoing) : r <= o.run /\ r \in Nat
  <2>1. \A t \in m.tasks : t.run <= o.run
    BY <1>4, <1>10 DEF Spans
  <2>2. \A r \in Range(m.outgoing) : r <= o.run
    BY <1>4, <1>10 DEF Spans
  <2>3. \A t \in Tasks : t.run \in Nat
    BY CoordinatorAssumption DEF Tasks
  <2>4. m.tasks \in SUBSET Tasks /\ m.outgoing \in Seq(1..MaxRuns)
    BY <1>9, ExecTyped
  <2>5. \A r \in Range(m.outgoing) : r \in 1..MaxRuns
    <3> DEFINE S == 1..MaxRuns
    <3>1. m.outgoing \in Seq(S)
      BY <2>4
    <3> HIDE DEF S
    <3>2. \A r \in Range(m.outgoing) : r \in S
      BY <3>1, RangeTyped
    <3> QED
      BY <3>2 DEF S
  <2> QED
    BY <2>1, <2>2, <2>3, <2>4, <2>5
<1>13. Mine(m) = {} /\ m.run \notin Range(m.outgoing)
  BY <1>11, <1>12 DEF Mine
<1>14. Good(m)
  <2>1. /\ \A t \in m.tasks : t.run <= m.run
        /\ \A r \in Range(m.outgoing) : r <= m.run
    BY <1>11, <1>12
  <2>2. m.run = m.ends + 1
    BY <1>10, <1>11
  <2> QED
    BY <1>2, <1>4, <1>8, <1>9, <1>10, <2>1, <2>2 DEF Good, Spans
<1>15. Resting(m)
  BY <1>8, <1>9, <1>10, <1>13, IsResting
<1>16. Consuming(m)
  BY <1>9, <1>13 DEF Consuming, Doing
<1>17. m.run >= 1 /\ Active(m.loop) /\ m.loop.phase = "running"
  BY <1>8, <1>9, <1>14, GoodIs
<1>18. Still(m, s) /\ OneAtATime(s)
  <2>1. CASE StartsByVerifying
    BY <1>1, <1>9, <1>10, <1>14, <1>15, <1>17, <2>1, VerifyStepStill,
       VerifyStepOrderly DEF StartsByVerifying
  <2>2. CASE ~StartsByVerifying /\ CompactDue(m)
    BY <1>1, <1>10, <1>14, <1>15, <1>17, <2>2, BeginCompactStill, BeginCompactOrderly
  <2>3. CASE ~StartsByVerifying /\ ~CompactDue(m)
    <3>1. Still(m, Mark(m))
      BY <1>14, <1>17, MarkStill
    <3>2. Good(Mark(m)) /\ Mark(m).run >= 1
      BY <1>17, <3>1 DEF Still, Steady
    <3>3. Still(m, HandOver(Mark(m)))
      BY <3>1, <3>2, HandOverStill, StillTwice
    <3> QED
      BY <1>1, <1>10, <1>14, <1>15, <1>17, <2>3, <3>3, SendOrderly
  <2> QED
    BY <2>1, <2>2, <2>3
<1> HIDE DEF s
<1>19. Active(s.loop) /\ Follows(m, s)
  BY <1>17, <1>18, ActiveStanding, StillFollows DEF Still
<1>20. ExecInv(s)
  BY <1>16, <1>18, <1>19 DEF ExecInv, Follows, Good, Orderly
<1>21. s.run # exec.run
  BY <1>7, <1>9, <1>18 DEF Still, Steady
<1> QED
  BY <1>20, <1>21 DEF Kept, s

-----------------------------------------------------------------------------
(* The continuations.                                                      *)

\* A continuation is taken up: of another run it leaves this one alone, and of
\* this one, undisturbed, it was the only thing under way.
LEMMA WithoutIs ==
    ASSUME ExecInv(exec), NEW t \in exec.tasks
    PROVE  /\ Without(t) \in ExecFields /\ Good(Without(t))
           /\ SameBut({"tasks"}, exec, Without(t))
           /\ t.kind # "check" => Still(exec, Without(t))
           /\ Without(t).tasks = exec.tasks \ {t}
           /\ Mine(Without(t)) = Mine(exec) \ {t}
<1> DEFINE ts == exec.tasks \ {t}
           m == [exec EXCEPT !.tasks = ts]
<1>1. Good(exec) /\ exec \in ExecFields /\ Sane(exec.loop)
  BY InvIs, GoodIs
<1>2. ts \in SUBSET Tasks
  BY <1>1, ExecTyped
<1>3. Without(t) = m
  BY DEF Without
<1>4. ts \subseteq exec.tasks
  OBVIOUS
<1> HIDE DEF ts
<1>5. m \in ExecFields /\ SameBut({"tasks"}, exec, m) /\ m.tasks = ts
  BY <1>1, <1>2 DEF ExecFields, SameBut, Names
<1> HIDE DEF m
<1>6. /\ m.run = exec.run /\ m.ends = exec.ends /\ m.endTraced = exec.endTraced
      /\ m.deadline = exec.deadline /\ m.closed = exec.closed /\ m.loop = exec.loop
      /\ m.outgoing = exec.outgoing
  BY <1>5 DEF SameBut, Names
<1>7. Good(m)
  BY <1>1, <1>4, <1>5, <1>6, GoodLike
<1>8. Mine(m) = Mine(exec) \ {t}
  BY <1>5, <1>6 DEF Mine, ts
<1>9. t.kind # "check" => Still(exec, m)
  <2>1. SameBut(Detail \cup {"tasks", "outgoing", "loop"}, exec, m)
    BY <1>5 DEF SameBut
  <2>2. t.kind # "check" => Checks(m) = Checks(exec)
    BY <1>5 DEF Checks, ts
  <2> QED
    BY <1>1, <1>4, <1>5, <1>6, <2>1, <2>2, StillLike DEF SameStanding
<1> QED
  BY <1>3, <1>5, <1>7, <1>8, <1>9 DEF ts

LEMMA OthersOrderly ==
    ASSUME ExecInv(exec), NEW t \in exec.tasks,
           t.run # exec.run \/ ~Live(exec), Undisturbed(exec)
    PROVE  Orderly(Without(t))
<1> DEFINE m == Without(t)
<1>1. /\ SameBut({"tasks"}, exec, m) /\ Mine(m) = Mine(exec) \ {t}
      /\ Orderly(exec) /\ (Live(exec) <=> Active(exec.loop))
  BY WithoutIs, InvIs, GoodIs DEF Core
<1> HIDE DEF m
<1>2. /\ m.run = exec.run /\ m.prompt = exec.prompt /\ m.endedAt = exec.endedAt
      /\ m.loop = exec.loop /\ m.compacting = exec.compacting
      /\ m.verifying = exec.verifying /\ m.outgoing = exec.outgoing
      /\ m.own = exec.own /\ m.identity = exec.identity /\ m.timer = exec.timer
  BY <1>1 DEF SameBut, Names
<1>3. CASE ~Active(exec.loop)
  BY <1>1, <1>2, <1>3 DEF Orderly, m
<1>4. CASE Active(exec.loop)
  <2>1. Mine(m) = Mine(exec)
    BY <1>1, <1>4 DEF Mine
  <2> QED
    BY <1>1, <1>2, <1>4, <2>1 DEF Orderly, OneAtATime, Doing, m
<1> QED
  BY <1>3, <1>4

LEMMA MineAlone ==
    ASSUME ExecInv(exec), NEW t \in exec.tasks, t.run = exec.run,
           Active(exec.loop), Undisturbed(exec)
    PROVE  /\ Mine(exec) = {t} /\ Mine(Without(t)) = {}
           /\ exec.verifying <=> t.kind = "verify"
           /\ exec.compacting <=> t.kind = "compact"
           /\ t.kind = "verify" => t.seq = exec.identity
           /\ t.kind \in {"section", "verify"} => setup.forked
           /\ t.kind = "check" => setup.forked \/ exec.own = "ended"
           /\ exec.run \notin Range(exec.outgoing)
           /\ exec.own \in {"none", "ended"}
           /\ exec.loop.phase = "running"
           /\ exec.prompt => t.kind \in {"compact", "compacted"}
           /\ exec.endedAt # "no" =>
                 exec.own = "ended" /\ exec.loop.awaiting /\ t.kind = "verify"
           /\ exec.timer => exec.endedAt # "no"
           /\ exec.prompt => exec.endedAt = "no"
<1>1. OneAtATime(exec) /\ exec \in ExecFields
  BY InvIs DEF Core, Orderly
<1>2. t \in Mine(exec)
  BY DEF Mine
<1>3. Mine(exec) = {t}
  BY <1>1, <1>2 DEF OneAtATime
<1>4. Mine(Without(t)) = {}
  BY <1>3, WithoutIs
<1> QED
  BY <1>1, <1>3, <1>4, ExecTyped DEF OneAtATime, Doing, Active

LEMMA SectionReadStep ==
    ASSUME CoordinatorInv, NEW t \in exec.tasks, NEW found, SectionRead(t, found)
    PROVE  Kept(exec, exec')
<1> DEFINE m == Without(t)
           p == [m EXCEPT !.prompt = TRUE]
           c == Changed(p)
<1>1. /\ ExecInv(exec) /\ t.kind = "section"
      /\ exec' = IF ~Current(m, t.run) THEN m
                 ELSE IF found # "missing" THEN VerifyRound(m)
                 ELSE Flush(c)
  BY DEF CoordinatorInv, SectionRead
<1>2. /\ m \in ExecFields /\ Good(m) /\ SameBut({"tasks"}, exec, m) /\ Still(exec, m)
  BY <1>1, WithoutIs
<1>3. (Undisturbed(exec) => Consuming(exec)) /\ Good(exec)
  BY <1>1, InvIs
<1>4. /\ m.run = exec.run /\ m.loop = exec.loop /\ m.own = exec.own
      /\ m.stray = exec.stray /\ m.slipped = exec.slipped /\ m.closed = exec.closed
      /\ m.verifying = exec.verifying /\ m.compacting = exec.compacting
      /\ m.outgoing = exec.outgoing /\ m.timer = exec.timer
      /\ m.endedAt = exec.endedAt /\ m.prompt = exec.prompt
  BY <1>2 DEF SameBut, Names
<1>5. Undisturbed(m) => Consuming(m)
  BY <1>2, <1>3, <1>4, StillFollows DEF Follows, Undisturbed
<1>6. CASE ~Current(m, t.run)
  <2>1. exec' = m
    BY <1>1, <1>6
  <2>2. t.run # exec.run \/ ~Live(exec)
    BY <1>4, <1>6 DEF Current, Live
  <2>3. Undisturbed(exec) => Orderly(m)
    BY <1>1, <2>2, OthersOrderly
  <2>4. Right(exec, m) /\ Follows(exec, m)
    BY <1>2, <2>3, StillRight, StillFollows
  <2> QED
    BY <1>1, <1>3, <2>1, <2>4, StepFrom
<1>7. CASE Current(m, t.run)
  <2>1. t.run = exec.run /\ Active(exec.loop)
    BY <1>4, <1>7 DEF Current, Live
  <2>2. ASSUME Undisturbed(m)
        PROVE  Resting(m) /\ ~m.prompt /\ m.endedAt = "no" /\ setup.forked
               /\ m.loop.phase = "running"
    <3>1. Undisturbed(exec)
      BY <1>4, <2>2 DEF Undisturbed
    <3>2. /\ Mine(m) = {} /\ ~exec.verifying /\ ~exec.compacting /\ setup.forked
          /\ exec.run \notin Range(exec.outgoing) /\ exec.own \in {"none", "ended"}
          /\ exec.loop.phase = "running" /\ ~exec.prompt /\ exec.endedAt = "no"
          /\ ~exec.timer
      BY <1>1, <2>1, <3>1, MineAlone
    <3>3. Resting(m)
      BY <1>4, <3>2, IsResting
    <3> QED
      BY <1>4, <3>2, <3>3
  <2> HIDE DEF m
  <2>3. CASE found # "missing"
    <3>1. exec' = VerifyRound(m) /\ Still(m, VerifyRound(m))
      BY <1>1, <1>2, <1>7, <2>3, VerifyRoundStill
    <3>2. Undisturbed(m) => OneAtATime(VerifyRound(m))
      BY <1>2, <2>2, VerifyRoundOrderly
    <3>3. Active(VerifyRound(m).loop)
      BY <1>4, <2>1, <3>1, ActiveStanding DEF Still
    <3>4. Undisturbed(m) => Orderly(VerifyRound(m))
      BY <3>2, <3>3 DEF Orderly
    <3>5. Right(m, exec') /\ Follows(m, exec')
      BY <3>1, <3>4, StillRight, StillFollows
    <3> QED
      BY <1>1, <1>4, <1>5, <3>5, StepFrom
  <2>4. CASE found = "missing"
    <3>1. exec' = Flush(c)
      BY <1>1, <1>7, <2>4
    <3>2. /\ p \in ExecFields /\ SameBut({"prompt"}, m, p) /\ Still(m, p)
      BY <1>2, PromptedIs, PromptedStill
    <3> HIDE DEF p
    <3>3. /\ p.run = m.run /\ p.tasks = m.tasks /\ p.own = m.own /\ p.loop = m.loop
          /\ p.compacting = m.compacting /\ p.verifying = m.verifying
          /\ p.outgoing = m.outgoing /\ p.timer = m.timer /\ p.endedAt = m.endedAt
          /\ p.stray = m.stray /\ p.slipped = m.slipped
      BY <3>2 DEF SameBut, Names
    <3>4. ASSUME Undisturbed(p) PROVE Orderly(p)
      <4>1. Undisturbed(m)
        BY <3>3, <3>4 DEF Undisturbed
      <4>2. /\ m.verifying = FALSE /\ m.compacting = FALSE /\ Mine(m) = {}
            /\ m.run \notin Range(m.outgoing) /\ m.own \in {"none", "ended"}
            /\ ~m.timer /\ m.endedAt = "no" /\ m.loop.phase = "running"
        BY <1>2, <2>2, <4>1, RestingIs
      <4>3. Mine(p) = {}
        BY <3>3, <4>2 DEF Mine
      <4>4. Resting(p)
        BY <3>3, <4>2, <4>3, IsResting
      <4> QED
        BY <1>4, <2>1, <3>3, <4>4 DEF Resting, Orderly
    <3>5. Core(p)
      BY <3>2, <3>4 DEF Core, Still
    <3>6. Undisturbed(p) => Consuming(p)
      BY <1>5, <3>2, <3>3, StillFollows DEF Follows, Undisturbed
    <3>7. Follows(p, c) /\ Right(p, c)
      BY <3>5, ChangedFollows, ChangedRight DEF Core
    <3> HIDE DEF c
    <3>8. Core(c)
      BY <3>7 DEF Core, Right, Follows
    <3>9. Follows(c, Flush(c)) /\ Follows(p, Flush(c))
      BY <3>7, <3>8, FlushFollows, FollowsTwice DEF Core
    <3>10. Right(p, Flush(c))
      <4>1. ASSUME Undisturbed(Flush(c))
            PROVE  Orderly(Flush(c)) /\ (Judged(p.loop, Flush(c).loop) => Entitled(p))
        <5>1. Undisturbed(c) /\ Orderly(Flush(c)) /\ SameStanding(c.loop, Flush(c).loop)
          BY <3>8, <4>1, FlushRight
        <5>2. Judged(p.loop, Flush(c).loop) => Judged(p.loop, c.loop)
          BY <5>1 DEF Judged, SameStanding
        <5> QED
          BY <3>7, <5>1, <5>2 DEF Right
      <4> QED
        BY <4>1 DEF Right
    <3> QED
      BY <1>1, <1>4, <3>1, <3>3, <3>6, <3>9, <3>10, StepFrom
  <2> QED
    BY <2>3, <2>4
<1> QED
  BY <1>6, <1>7

LEMMA CheckReadStep ==
    ASSUME CoordinatorInv, NEW t \in exec.tasks, NEW found, CheckRead(t, found)
    PROVE  Kept(exec, exec')
<1> DEFINE m == Without(t)
           v == IF found = "missing" THEN Unscored ELSE t.result
           w == SettleWith(m, v)
           s == [w EXCEPT !.settling = FALSE]
<1>1. /\ ExecInv(exec) /\ t.kind = "check"
      /\ exec' = IF t.run # m.run THEN m ELSE s
  BY DEF CoordinatorInv, CheckRead
<1>2. /\ m \in ExecFields /\ Good(m) /\ SameBut({"tasks"}, exec, m)
      /\ Mine(m) = Mine(exec) \ {t}
  BY <1>1, WithoutIs
<1>3. /\ Undisturbed(exec) => Consuming(exec)
      /\ Good(exec) /\ Core(exec) /\ exec \in ExecFields
  BY <1>1, InvIs
<1>4. /\ m.run = exec.run /\ m.loop = exec.loop /\ m.own = exec.own
      /\ m.stray = exec.stray /\ m.slipped = exec.slipped /\ m.closed = exec.closed
      /\ m.verifying = exec.verifying /\ m.compacting = exec.compacting
      /\ m.outgoing = exec.outgoing /\ m.timer = exec.timer
      /\ m.endedAt = exec.endedAt /\ m.prompt = exec.prompt
      /\ m.settling = exec.settling
  BY <1>2 DEF SameBut, Names
<1>5. CASE t.run # exec.run
  <2>1. exec' = m
    BY <1>1, <1>4, <1>5
  <2>2. Undisturbed(exec) => Orderly(m)
    BY <1>1, <1>5, OthersOrderly
  <2>3. Mine(m) = Mine(exec)
    BY <1>2, <1>5 DEF Mine
  <2>4. Consuming(exec) => Consuming(m)
    BY <1>4, <2>3 DEF Consuming, Doing
  <2>5. Follows(exec, m)
    BY <1>2, <1>4, <2>4 DEF Follows, Steady
  <2>6. Right(exec, m)
    BY <1>4, <2>2 DEF Right, Judged, Undisturbed
  <2> QED
    BY <1>1, <1>3, <2>1, <2>5, <2>6, StepFrom
<1>6. CASE t.run = exec.run
  <2>1. exec' = s
    BY <1>1, <1>4, <1>6
  <2>2. v \in Results \cup {NoResult}
    <3>1. t \in Tasks
      BY <1>3, ExecTyped
    <3> QED
      BY <3>1 DEF Results, Tasks
  <2> HIDE DEF v
  <2>3. Onward(m, w)
    BY <1>2, <2>2, SettleWithOnward
  <2>4. ASSUME Undisturbed(exec), Active(exec.loop)
        PROVE  Due(m) /\ Mine(m) = {}
    <3>1. /\ Mine(m) = {} /\ ~exec.verifying /\ ~exec.compacting
          /\ exec.own = "ended" \/ setup.forked
          /\ exec.run \notin Range(exec.outgoing) /\ exec.own \in {"none", "ended"}
          /\ exec.loop.phase = "running" /\ ~exec.prompt /\ exec.endedAt = "no"
          /\ ~exec.timer
      BY <1>1, <1>6, <2>4, MineAlone
    <3>2. Resting(m)
      BY <1>4, <3>1, IsResting
    <3> QED
      BY <1>4, <3>1, <3>2 DEF Due
  <2>5. ASSUME ~Active(exec.loop) PROVE w = m
    BY <1>4, <2>5 DEF SettleWith, Live
  <2>6. Undisturbed(exec) => Orderly(w)
    <3>1. CASE Active(exec.loop)
      BY <1>2, <2>2, <2>4, <3>1, SettleWithOrderly
    <3>2. CASE ~Active(exec.loop)
      BY <1>1, <2>5, <3>2, OthersOrderly DEF Live
    <3> QED
      BY <3>1, <3>2
  <2>7. /\ w.run = exec.run /\ Checks(w) = Checks(m)
        /\ ~Active(exec.loop) => w.loop = exec.loop
        /\ Undisturbed(w) => Undisturbed(exec)
        /\ Good(w) /\ w \in ExecFields
    BY <1>4, <2>3 DEF Onward, Steady, SameChecks, Undisturbed, Good
  <2> HIDE DEF w
  <2>8. /\ s \in ExecFields /\ SameBut({"settling"}, w, s) /\ s.settling = FALSE
    BY <2>7 DEF ExecFields, SameBut, Names
  <2> HIDE DEF s
  <2>9. /\ s.run = w.run /\ s.ends = w.ends /\ s.endTraced = w.endTraced
        /\ s.deadline = w.deadline /\ s.closed = w.closed /\ s.tasks = w.tasks
        /\ s.loop = w.loop /\ s.outgoing = w.outgoing /\ s.stray = w.stray
        /\ s.slipped = w.slipped /\ s.verifying = w.verifying
        /\ s.compacting = w.compacting /\ s.prompt = w.prompt /\ s.own = w.own
        /\ s.endedAt = w.endedAt /\ s.timer = w.timer /\ s.identity = w.identity
    BY <2>8 DEF SameBut, Names
  <2>10. Good(s)
    BY <2>7, <2>8, <2>9, GoodIs, GoodLike
  <2>11. Mine(s) = Mine(w)
    BY <2>9 DEF Mine
  <2>12. Orderly(w) => Orderly(s)
    BY <2>9, <2>11 DEF Orderly, OneAtATime, Doing
  <2>13. ASSUME Undisturbed(s) PROVE Consuming(s)
    <3>1. Undisturbed(exec)
      BY <2>7, <2>9, <2>13 DEF Undisturbed
    <3>2. ASSUME Active(s.loop) PROVE ~Doing(s, "check")
      <4>1. Active(exec.loop)
        BY <2>7, <2>9, <3>2
      <4>2. Mine(m) = {}
        BY <2>4, <3>1, <4>1
      <4>3. \A u \in Checks(m) : u.run # exec.run
        BY <1>4, <4>2 DEF Mine, Checks
      <4> QED
        BY <2>7, <2>9, <4>3 DEF Doing, Mine, Checks
    <3> QED
      BY <2>8, <3>2 DEF Consuming
  <2>14. ExecInv(s)
    BY <2>6, <2>7, <2>9, <2>10, <2>12, <2>13 DEF ExecInv, Good, Undisturbed
  <2>15. ASSUME Undisturbed(s), Judged(exec.loop, s.loop) PROVE Entitled(exec)
    <3>1. Undisturbed(exec)
      BY <2>7, <2>9, <2>15 DEF Undisturbed
    <3>2. Active(exec.loop)
      BY <2>7, <2>9, <2>15 DEF Judged, Active
    <3>3. Entitled(m)
      BY <1>2, <2>4, <3>1, <3>2, DueIs
    <3> QED
      BY <1>4, <3>3 DEF Entitled
  <2>16. exec.loop.phase \in Over => ~Active(exec.loop)
    BY DEF Over, Active
  <2> QED
    BY <2>1, <2>7, <2>9, <2>14, <2>15, <2>16 DEF Kept
<1> QED
  BY <1>5, <1>6

LEMMA JudgingIs ==
    ASSUME ExecInv(exec), NEW t \in exec.tasks, t.kind = "verify"
    PROVE  /\ Judging(t) \in ExecFields /\ Still(exec, Judging(t))
           /\ SameBut({"tasks", "verifying"}, exec, Judging(t))
           /\ Mine(Judging(t)) = Mine(exec) \ {t}
           /\ Judging(t).tasks = exec.tasks \ {t}
           /\ Judging(t).verifying \in {FALSE, exec.verifying}
           /\ t.run = exec.run /\ t.seq = exec.identity => Judging(t).verifying = FALSE
           /\ ~(t.run = exec.run /\ t.seq = exec.identity) => Judging(t) = Without(t)
<1> DEFINE m == Without(t)
           v == [m EXCEPT !.verifying = FALSE]
           s == Judging(t)
<1>1. /\ m \in ExecFields /\ Still(exec, m) /\ SameBut({"tasks"}, exec, m)
      /\ m.tasks = exec.tasks \ {t} /\ Mine(m) = Mine(exec) \ {t}
  BY WithoutIs
<1>2. m.run = exec.run /\ m.identity = exec.identity /\ m.verifying = exec.verifying
  BY <1>1 DEF SameBut, Names
<1>3. s = IF t.run = exec.run /\ t.seq = exec.identity THEN v ELSE m
  BY <1>2 DEF Judging
<1> HIDE DEF m
<1>4. v \in ExecFields /\ SameBut({"verifying"}, m, v) /\ v.verifying = FALSE
  BY <1>1 DEF ExecFields, SameBut, Names
<1> HIDE DEF v, s
<1>5. SameBut(Detail, m, v) /\ v.tasks = m.tasks /\ v.run = m.run
  BY <1>4 DEF SameBut, Detail, Names
<1>6. Still(exec, v)
  BY <1>1, <1>4, <1>5, StillRest, StillTwice DEF Still
<1>7. SameBut({"tasks", "verifying"}, exec, v) /\ SameBut({"tasks", "verifying"}, exec, m)
  BY <1>1, <1>4 DEF SameBut
<1>8. Mine(v) = Mine(m)
  BY <1>5 DEF Mine
<1> QED
  BY <1>1, <1>2, <1>3, <1>4, <1>5, <1>6, <1>7, <1>8 DEF m, s

LEMMA AbandonedStep ==
    ASSUME CoordinatorInv, NEW t \in exec.tasks, Abandoned(t)
    PROVE  Kept(exec, exec')
<1> DEFINE s == Judging(t)
<1>1. ExecInv(exec) /\ t.kind = "verify" /\ exec' = s
  BY DEF CoordinatorInv, Abandoned
<1>2. /\ s \in ExecFields /\ Still(exec, s) /\ SameBut({"tasks", "verifying"}, exec, s)
      /\ Mine(s) = Mine(exec) \ {t} /\ s.verifying \in {FALSE, exec.verifying}
      /\ t.run = exec.run /\ t.seq = exec.identity => s.verifying = FALSE
      /\ ~(t.run = exec.run /\ t.seq = exec.identity) => s = Without(t)
  BY <1>1, JudgingIs
<1>3. Good(exec) /\ Core(exec) /\ (Undisturbed(exec) => Consuming(exec))
  BY <1>1, InvIs
<1> HIDE DEF s
<1>4. /\ s.run = exec.run /\ s.loop = exec.loop /\ s.own = exec.own
      /\ s.compacting = exec.compacting
      /\ s.outgoing = exec.outgoing /\ s.timer = exec.timer
      /\ s.endedAt = exec.endedAt /\ s.prompt = exec.prompt
  BY <1>2 DEF SameBut, Names
<1>5. ASSUME Undisturbed(exec) PROVE Orderly(s)
  <2>1. CASE ~Active(exec.loop)
    BY <1>2, <1>3, <1>4, <1>5, <2>1 DEF Core, Orderly
  <2>2. CASE Active(exec.loop) /\ t.run # exec.run
    BY <1>1, <1>2, <1>5, <2>2, OthersOrderly
  <2>3. CASE Active(exec.loop) /\ t.run = exec.run
    <3>1. /\ Mine(exec) = {t} /\ ~exec.compacting /\ t.seq = exec.identity
          /\ exec.run \notin Range(exec.outgoing) /\ exec.own \in {"none", "ended"}
          /\ exec.loop.phase = "running"
          /\ exec.endedAt # "no" => exec.own = "ended" /\ exec.loop.awaiting
          /\ exec.timer => exec.endedAt # "no"
          /\ exec.prompt => exec.endedAt = "no"
      BY <1>1, <1>5, <2>3, MineAlone
    <3>2. Mine(s) = {} /\ ~s.verifying
      BY <1>2, <2>3, <3>1
    <3>3. Resting(s)
      BY <1>4, <3>1, <3>2, IsResting
    <3> QED
      BY <1>4, <2>3, <3>3 DEF Resting, Orderly
  <2> QED
    BY <2>1, <2>2, <2>3
<1>6. Right(exec, s) /\ Follows(exec, s)
  BY <1>2, <1>5, StillRight, StillFollows
<1> QED
  BY <1>1, <1>3, <1>6, StepFrom

\* A verification that decides leaves its attempt due.
LEMMA DecidingIs ==
    ASSUME ExecInv(exec), NEW t \in exec.tasks, t.kind = "verify", Decides(t),
           NEW d \in ExecFields,
           SameBut({"endedAt", "timer", "misses", "outages", "gaveUp"}, Judging(t), d),
           d.endedAt = "no", d.timer = FALSE
    PROVE  /\ Still(exec, d) /\ Good(d) /\ Live(d) /\ Active(d.loop)
           /\ d.run = exec.run /\ d.loop = exec.loop /\ d.own = exec.own
           /\ d.reply = exec.reply
           /\ Undisturbed(d) => /\ Undisturbed(exec) /\ Due(d) /\ Consuming(d)
                                /\ d.loop.phase = "running" /\ setup.forked
<1> DEFINE j == Judging(t)
<1>1. /\ Still(exec, j) /\ SameBut({"tasks", "verifying"}, exec, j)
      /\ Mine(j) = Mine(exec) \ {t} /\ Good(j)
      /\ t.run = exec.run /\ t.seq = exec.identity => j.verifying = FALSE
  BY JudgingIs DEF Still
<1>2. t.run = exec.run /\ t.seq = exec.identity /\ Active(exec.loop) /\ Live(exec)
  BY DEF Decides, Current, Live
<1> HIDE DEF j
<1>3. SameBut(Detail, j, d)
  BY DEF SameBut, Detail, j
<1>4. Still(exec, d)
  BY <1>1, <1>3, StillRest, StillTwice
<1>5. /\ d.run = exec.run /\ d.loop = exec.loop /\ d.own = exec.own
      /\ d.reply = exec.reply /\ d.closed = exec.closed
      /\ d.compacting = exec.compacting /\ d.verifying = j.verifying
      /\ d.outgoing = exec.outgoing /\ d.prompt = exec.prompt
      /\ d.stray = exec.stray /\ d.slipped = exec.slipped /\ d.tasks = j.tasks
      /\ j.run = exec.run
  BY <1>1 DEF SameBut, Names, j
<1>6. ASSUME Undisturbed(d)
      PROVE  /\ Undisturbed(exec) /\ Due(d) /\ Consuming(d)
             /\ d.loop.phase = "running" /\ setup.forked
  <2>1. Undisturbed(exec)
    BY <1>5, <1>6 DEF Undisturbed
  <2>2. /\ Mine(exec) = {t} /\ ~exec.compacting /\ setup.forked
        /\ exec.run \notin Range(exec.outgoing) /\ exec.own \in {"none", "ended"}
        /\ exec.loop.phase = "running" /\ ~exec.prompt
    BY <1>2, <2>1, MineAlone
  <2>3. Mine(d) = {}
    BY <1>1, <1>5, <2>2 DEF Mine
  <2>4. Resting(d)
    BY <1>1, <1>2, <1>5, <2>2, <2>3, IsResting
  <2>5. Consuming(d)
    BY <1>4, <2>1, InvIs, StillFollows DEF Follows
  <2> QED
    BY <1>5, <2>1, <2>2, <2>4, <2>5 DEF Due
<1> QED
  BY <1>2, <1>4, <1>5, <1>6 DEF Still, Live

LEMMA VerifiedStep ==
    ASSUME CoordinatorInv, NEW t \in exec.tasks, NEW result \in Results,
           Verified(t, result)
    PROVE  Kept(exec, exec')
<1> DEFINE j == Judging(t)
           u == Unended(j)
           d == [u EXCEPT !.misses = 0]
           s == SettleChecked(d, result)
<1>1. ExecInv(exec) /\ t.kind = "verify" /\ Decides(t) /\ exec' = s
  BY DEF CoordinatorInv, Verified
<1>2. j \in ExecFields
  BY <1>1, JudgingIs
<1> HIDE DEF j
<1>3. /\ u \in ExecFields /\ SameBut({"endedAt", "timer"}, j, u)
      /\ u.endedAt = "no" /\ u.timer = FALSE
  BY <1>2, UnendedIs
<1> HIDE DEF u
<1>4. 0 \in 0..(VerifierRetries + 1)
  BY CoordinatorAssumption
<1>5. d \in ExecFields /\ SameBut({"misses"}, u, d)
  BY <1>3, <1>4 DEF ExecFields, SameBut, Names
<1> HIDE DEF d
<1>6. /\ SameBut({"endedAt", "timer", "misses", "outages", "gaveUp"}, Judging(t), d)
      /\ d.endedAt = "no" /\ d.timer = FALSE
  BY <1>3, <1>5 DEF SameBut, Names, j
<1>7. /\ Still(exec, d) /\ Good(d)
      /\ d.run = exec.run /\ d.loop = exec.loop /\ d.own = exec.own
      /\ Undisturbed(d) => Due(d) /\ Consuming(d)
  BY <1>1, <1>5, <1>6, DecidingIs
<1>8. Follows(d, s)
  BY <1>7, SettleCheckedFollows
<1>9. Undisturbed(d) => Orderly(s) /\ Entitled(d)
  BY <1>5, <1>7, DueIs, SettleCheckedOrderly
<1> HIDE DEF s
<1>10. Right(d, s)
  BY <1>8, <1>9, StillUndisturbed DEF Right
<1> QED
  BY <1>1, <1>7, <1>8, <1>10, StepFrom

LEMMA VerifierEndsStep ==
    ASSUME CoordinatorInv, NEW t \in exec.tasks,
           NEW phase \in {"human", "unavailable"}, VerifierEnds(t, phase)
    PROVE  Kept(exec, exec')
<1> DEFINE j == Judging(t)
           u == Unended(j)
           s == EndRun(u, phase)
<1>1. ExecInv(exec) /\ t.kind = "verify" /\ Decides(t) /\ exec' = s
  BY DEF CoordinatorInv, VerifierEnds
<1>2. j \in ExecFields
  BY <1>1, JudgingIs
<1> HIDE DEF j
<1>3. /\ u \in ExecFields /\ SameBut({"endedAt", "timer"}, j, u)
      /\ u.endedAt = "no" /\ u.timer = FALSE
  BY <1>2, UnendedIs
<1> HIDE DEF u
<1>4. SameBut({"endedAt", "timer", "misses", "outages", "gaveUp"}, Judging(t), u)
  BY <1>3 DEF SameBut, j
<1>5. /\ Good(u) /\ Active(u.loop)
      /\ u.run = exec.run /\ u.loop = exec.loop /\ u.own = exec.own
      /\ Undisturbed(u) => Due(u) /\ Consuming(u)
  BY <1>1, <1>3, <1>4, DecidingIs
<1>6. /\ Onward(u, s) /\ s.loop = Leave(u.loop, phase)
      /\ SameBut({"loop", "deadline", "endTraced", "ends"}, u, s)
  BY <1>5, EndRunIs DEF Over
<1> HIDE DEF s
<1>7. s.verifying = u.verifying /\ s.compacting = u.compacting
  BY <1>6 DEF SameBut, Names
<1>8. Follows(u, s)
  BY <1>6, OnwardFollows
<1>9. Undisturbed(s) => ~s.verifying /\ ~s.compacting
  BY <1>3, <1>5, <1>7, <1>8, StillUndisturbed, RestingIs DEF Due
<1>10. Right(u, s)
  BY <1>5, <1>6, <1>9, GoodIs, ClosingRight
<1> QED
  BY <1>1, <1>5, <1>8, <1>10, StepFrom

LEMMA OneMoreTyped ==
    ASSUME NEW n \in 0..(VerifierRetries + 1)
    PROVE  OneMore(n) \in 0..(VerifierRetries + 1)
BY CoordinatorAssumption DEF OneMore

LEMMA OutageStep ==
    ASSUME CoordinatorInv, NEW t \in exec.tasks, Outage(t)
    PROVE  Kept(exec, exec')
<1> DEFINE j == Judging(t)
           u == Unended(j)
           e == [u EXCEPT !.misses = OneMore(@), !.outages = OneMore(@)]
           g == [e EXCEPT !.gaveUp = e.outages]
<1>1. /\ ExecInv(exec) /\ t.kind = "verify" /\ Decides(t)
      /\ exec' = IF e.misses <= VerifierRetries THEN VerifyRound(Changed(e))
                 ELSE IF setup.fallback THEN SettleChecked(g, g.reply)
                 ELSE EndRun(g, "unavailable")
  BY DEF CoordinatorInv, Outage
<1>2. j \in ExecFields
  BY <1>1, JudgingIs
<1> HIDE DEF j
<1>3. /\ u \in ExecFields /\ SameBut({"endedAt", "timer"}, j, u)
      /\ u.endedAt = "no" /\ u.timer = FALSE
  BY <1>2, UnendedIs
<1> HIDE DEF u
<1>4. e \in ExecFields /\ SameBut({"misses", "outages"}, u, e)
  <2> DEFINE a == OneMore(u.misses)
             b == OneMore(u.outages)
  <2>1. a \in 0..(VerifierRetries + 1) /\ b \in 0..(VerifierRetries + 1)
    BY <1>3, ExecTyped, OneMoreTyped
  <2>2. e = [u EXCEPT !.misses = a, !.outages = b]
    OBVIOUS
  <2> HIDE DEF a, b, e
  <2> QED
    BY <1>3, <2>1, <2>2 DEF ExecFields, SameBut, Names
<1> HIDE DEF e
<1>5. g \in ExecFields /\ SameBut({"gaveUp"}, e, g)
  <2>1. e.outages \in 0..(VerifierRetries + 1)
    BY <1>4, ExecTyped
  <2> QED
    BY <1>4, <2>1 DEF ExecFields, SameBut, Names
<1> HIDE DEF g
<1>6. /\ SameBut({"endedAt", "timer", "misses", "outages", "gaveUp"}, Judging(t), e)
      /\ SameBut({"endedAt", "timer", "misses", "outages", "gaveUp"}, Judging(t), g)
  BY <1>3, <1>4, <1>5 DEF SameBut, j
<1>7. e.endedAt = "no" /\ e.timer = FALSE /\ g.endedAt = "no" /\ g.timer = FALSE
  BY <1>3, <1>4, <1>5 DEF SameBut, Names
<1>8. /\ Good(e) /\ Active(e.loop) /\ Live(e)
      /\ e.run = exec.run /\ e.loop = exec.loop /\ e.own = exec.own
      /\ Undisturbed(e) => /\ Due(e) /\ Consuming(e) /\ e.loop.phase = "running"
                           /\ setup.forked
  BY <1>1, <1>4, <1>6, <1>7, DecidingIs
<1>9. /\ Good(g) /\ Active(g.loop) /\ g.reply = exec.reply
      /\ g.run = exec.run /\ g.loop = exec.loop /\ g.own = exec.own
      /\ Undisturbed(g) => Due(g) /\ Consuming(g)
  BY <1>1, <1>5, <1>6, <1>7, DecidingIs
<1>10. CASE e.misses <= VerifierRetries
  <2> DEFINE c == Changed(e)
             s == VerifyRound(c)
  <2>1. exec' = s
    BY <1>1, <1>10
  <2>2. Follows(e, c) /\ Good(c)
    BY <1>8, ChangedFollows DEF Follows
  <2>3. ASSUME Due(e) PROVE c = e
    <3>1. Flush(e) = e
      BY <2>3 DEF Due, Flush, MayFlush
    <3>2. Settled(e) = e
      BY <1>7 DEF Settled
    <3> QED
      BY <3>1, <3>2 DEF Changed
  <2> HIDE DEF c
  <2>4. Still(c, s) /\ Follows(e, s)
    BY <2>2, VerifyRoundStill, StillFollows, FollowsTwice
  <2>5. ASSUME Undisturbed(s)
        PROVE  Orderly(s) /\ ~Judged(e.loop, s.loop)
    <3>1. Undisturbed(e)
      BY <2>4, <2>5, StillUndisturbed
    <3>2. c = e /\ Resting(e) /\ ~e.prompt /\ setup.forked /\ e.loop.phase = "running"
      BY <1>8, <2>3, <3>1 DEF Due
    <3>3. OneAtATime(s)
      BY <1>8, <3>2, VerifyRoundOrderly
    <3>4. Active(s.loop) /\ ~Judged(e.loop, s.loop)
      BY <1>8, <2>4, <3>2, ActiveStanding DEF Still
    <3> QED
      BY <3>3, <3>4 DEF Orderly
  <2> HIDE DEF s
  <2>6. Right(e, s)
    BY <2>5 DEF Right
  <2> QED
    BY <1>1, <1>8, <2>1, <2>4, <2>6, StepFrom
<1>11. CASE ~(e.misses <= VerifierRetries) /\ setup.fallback
  <2> DEFINE s == SettleChecked(g, g.reply)
  <2>1. exec' = s
    BY <1>1, <1>11
  <2>2. g.reply \in Results \cup {NoResult}
    BY <1>5, ExecTyped
  <2>3. Follows(g, s)
    BY <1>9, <2>2, SettleCheckedFollows
  <2>4. Undisturbed(g) => Orderly(s) /\ Entitled(g)
    BY <1>5, <1>9, <2>2, DueIs, SettleCheckedOrderly
  <2> HIDE DEF s
  <2>5. Right(g, s)
    BY <2>3, <2>4, StillUndisturbed DEF Right
  <2> QED
    BY <1>1, <1>9, <2>1, <2>3, <2>5, StepFrom
<1>12. CASE ~(e.misses <= VerifierRetries) /\ ~setup.fallback
  <2> DEFINE s == EndRun(g, "unavailable")
  <2>1. exec' = s
    BY <1>1, <1>12
  <2>2. /\ Onward(g, s) /\ s.loop = Leave(g.loop, "unavailable")
        /\ SameBut({"loop", "deadline", "endTraced", "ends"}, g, s)
    BY <1>9, EndRunIs DEF Over
  <2> HIDE DEF s
  <2>3. s.verifying = g.verifying /\ s.compacting = g.compacting
    BY <2>2 DEF SameBut, Names
  <2>4. Follows(g, s)
    BY <2>2, OnwardFollows
  <2>5. Undisturbed(s) => ~s.verifying /\ ~s.compacting
    BY <1>5, <1>9, <2>3, <2>4, StillUndisturbed, RestingIs DEF Due
  <2>6. Right(g, s)
    BY <1>9, <2>2, <2>5, GoodIs, ClosingRight
  <2> QED
    BY <1>1, <1>9, <2>1, <2>4, <2>6, StepFrom
<1> QED
  BY <1>10, <1>11, <1>12

LEMMA CompactDoneStep ==
    ASSUME CoordinatorInv, NEW t \in exec.tasks, NEW over \in BOOLEAN,
           CompactDone(t, over)
    PROVE  Kept(exec, exec')
<1> DEFINE m == Without(t)
           e == [m EXCEPT !.over = over]
           c == Changed(e)
           x == [c EXCEPT !.compacting = FALSE]
           y == [e EXCEPT !.compacting = FALSE]
           t2 == [t EXCEPT !.kind = "compacted"]
<1>1. /\ ExecInv(exec) /\ t.kind = "compact"
      /\ exec' = IF Current(e, t.run) THEN Spawn(x, t2)
                 ELSE IF t.run = e.run THEN y ELSE e
  BY DEF CoordinatorInv, CompactDone
<1>2. /\ m \in ExecFields /\ Still(exec, m) /\ Good(m) /\ SameBut({"tasks"}, exec, m)
      /\ Mine(m) = Mine(exec) \ {t}
  BY <1>1, WithoutIs
<1>3. /\ Undisturbed(exec) => Consuming(exec)
      /\ Good(exec) /\ exec \in ExecFields
  BY <1>1, InvIs
<1> HIDE DEF m
<1>4. e \in ExecFields /\ SameBut({"over"}, m, e)
  BY <1>2 DEF ExecFields, SameBut, Names
<1> HIDE DEF e
<1>5. SameBut(Detail, m, e)
  BY <1>4 DEF SameBut, Detail
<1>6. Still(exec, e) /\ Good(e) /\ Follows(exec, e)
  BY <1>2, <1>4, <1>5, StillRest, StillTwice, StillFollows DEF Still
<1>7. /\ e.run = exec.run /\ e.loop = exec.loop /\ e.own = exec.own
      /\ e.stray = exec.stray /\ e.slipped = exec.slipped /\ e.closed = exec.closed
      /\ e.verifying = exec.verifying /\ e.compacting = exec.compacting
      /\ e.outgoing = exec.outgoing /\ e.timer = exec.timer
      /\ e.endedAt = exec.endedAt /\ e.prompt = exec.prompt
      /\ e.tasks = m.tasks /\ m.run = exec.run /\ m.loop = exec.loop
      /\ m.verifying = exec.verifying /\ m.compacting = exec.compacting
      /\ e.identity = m.identity /\ m.timer = exec.timer /\ m.endedAt = exec.endedAt
      /\ m.prompt = exec.prompt /\ m.own = exec.own /\ m.outgoing = exec.outgoing
  BY <1>2, <1>4 DEF SameBut, Names
<1>8. Mine(e) = Mine(m)
  BY <1>7 DEF Mine
<1>9. Undisturbed(e) => Undisturbed(exec)
  BY <1>6, StillUndisturbed
<1>10. Undisturbed(e) => Consuming(e)
  BY <1>3, <1>6, <1>9 DEF Follows
<1>11. CASE Current(e, t.run)
  <2>1. exec' = Spawn(x, t2)
    BY <1>1, <1>11
  <2>2. t.run = exec.run /\ Active(exec.loop) /\ Active(e.loop)
    BY <1>7, <1>11 DEF Current, Live
  <2>3. Follows(e, c) /\ Good(c) /\ c \in ExecFields /\ c.run = e.run
    BY <1>6, ChangedFollows DEF Follows, Good, Steady
  <2>4. ASSUME Undisturbed(e)
        PROVE  /\ c = e
               /\ Mine(e) = {} /\ ~e.verifying /\ e.endedAt = "no" /\ ~e.timer
               /\ e.run \notin Range(e.outgoing) /\ e.own \in {"none", "ended"}
               /\ e.loop.phase = "running"
    <3>1. /\ Mine(e) = {} /\ ~exec.verifying /\ exec.compacting
          /\ exec.run \notin Range(exec.outgoing) /\ exec.own \in {"none", "ended"}
          /\ exec.loop.phase = "running" /\ exec.endedAt = "no" /\ ~exec.timer
      BY <1>1, <1>8, <1>9, <2>2, <2>4, MineAlone DEF m
    <3>2. Flush(e) = e
      BY <1>7, <3>1 DEF Flush, MayFlush
    <3>3. Settled(e) = e
      BY <1>7, <3>1 DEF Settled
    <3>4. c = e
      BY <3>2, <3>3 DEF Changed
    <3> QED
      BY <1>7, <3>1, <3>4
  <2> HIDE DEF c
  <2>5. x \in ExecFields /\ SameBut({"compacting"}, c, x) /\ x.compacting = FALSE
    BY <2>3 DEF ExecFields, SameBut, Names
  <2> HIDE DEF x
  <2>6. SameBut(Detail, c, x)
    BY <2>5 DEF SameBut, Detail
  <2>7. Still(c, x) /\ Good(x) /\ x.run = exec.run
    BY <1>7, <2>3, <2>5, <2>6, StillRest DEF Still, Steady
  <2>8. t2 \in Tasks /\ t2.run = exec.run /\ t2.kind = "compacted"
    <3>1. t \in Tasks
      BY <1>3, ExecTyped
    <3> QED
      BY <2>2, <3>1, TaskLike
  <2> HIDE DEF t2
  <2>9. Still(x, Spawn(x, t2))
    BY <2>7, <2>8, SpawnStill
  <2>10. Still(c, Spawn(x, t2)) /\ Follows(e, Spawn(x, t2))
    BY <2>3, <2>7, <2>9, StillTwice, StillFollows, FollowsTwice
  <2>11. ASSUME Undisturbed(Spawn(x, t2))
         PROVE  Orderly(Spawn(x, t2)) /\ ~Judged(e.loop, Spawn(x, t2).loop)
    <3>1. Undisturbed(e)
      BY <2>10, <2>11, StillUndisturbed
    <3>2. /\ x.verifying = e.verifying /\ x.endedAt = e.endedAt /\ x.timer = e.timer
          /\ x.outgoing = e.outgoing /\ x.own = e.own /\ x.loop = e.loop
          /\ x.tasks = e.tasks /\ x.prompt = e.prompt /\ x.run = e.run
      BY <2>4, <2>5, <3>1 DEF SameBut, Names
    <3>3. Mine(x) = {}
      BY <2>4, <3>1, <3>2 DEF Mine
    <3>4. Resting(x) /\ x.endedAt = "no" /\ x.loop.phase = "running"
      BY <2>4, <2>5, <3>1, <3>2, <3>3, IsResting
    <3>5. OneAtATime(Spawn(x, t2))
      BY <2>7, <2>8, <3>4, SpawnOrderly
    <3>6. Active(Spawn(x, t2).loop) /\ ~Judged(e.loop, Spawn(x, t2).loop)
      BY <2>2, <2>9, <3>2, ActiveStanding DEF Still
    <3> QED
      BY <3>5, <3>6 DEF Orderly
  <2>12. Right(e, Spawn(x, t2))
    BY <2>11 DEF Right
  <2> QED
    BY <1>1, <1>7, <1>10, <2>1, <2>10, <2>12, StepFrom
<1>12. CASE ~Current(e, t.run)
  <2>1. t.run # exec.run \/ ~Live(exec)
    BY <1>7, <1>12 DEF Current, Live
  <2>2. Undisturbed(e) => Orderly(m)
    BY <1>1, <1>9, <2>1, OthersOrderly DEF m
  <2>3. Orderly(m) => Orderly(e)
    BY <1>7, <1>8 DEF Orderly, OneAtATime, Doing
  <2>4. y \in ExecFields /\ SameBut({"compacting"}, e, y) /\ y.compacting = FALSE
    BY <1>4 DEF ExecFields, SameBut, Names
  <2> HIDE DEF y
  <2>5. SameBut(Detail, e, y) /\ y.loop = e.loop /\ y.verifying = e.verifying
    BY <2>4 DEF SameBut, Detail, Names
  <2>6. Still(e, y)
    BY <1>6, <2>4, <2>5, StillRest
  <2>7. CASE t.run = e.run
    <3>1. exec' = y
      BY <1>1, <1>12, <2>7
    <3>2. ~Active(exec.loop)
      BY <1>3, <1>7, <2>1, <2>7, GoodIs
    <3>3. Undisturbed(e) => Orderly(y)
      BY <1>7, <2>2, <2>3, <2>4, <2>5, <3>2 DEF Orderly
    <3>4. Right(e, y) /\ Follows(e, y)
      BY <2>6, <3>3, StillRight, StillFollows
    <3> QED
      BY <1>1, <1>7, <1>10, <3>1, <3>4, StepFrom
  <2>8. CASE t.run # e.run
    <3>1. exec' = e
      BY <1>1, <1>12, <2>8
    <3>2. Core(e) /\ Right(e, e) /\ Follows(e, e)
      BY <1>6, <2>2, <2>3, SameRight, FollowsItself DEF Core
    <3> QED
      BY <1>1, <1>7, <1>10, <3>1, <3>2, StepFrom
  <2> QED
    BY <2>7, <2>8
<1> QED
  BY <1>11, <1>12

LEMMA CompactedStep ==
    ASSUME CoordinatorInv, NEW t \in exec.tasks, Compacted(t)
    PROVE  Kept(exec, exec')
<1> DEFINE m == Without(t)
           k == Mark(m)
           n == Settled(k)
<1>1. /\ ExecInv(exec) /\ t.kind = "compacted"
      /\ exec' = IF ~Current(m, t.run) THEN m
                 ELSE IF t.first THEN HandOver(n)
                 ELSE IF m.prompt THEN SendHeld(m) ELSE m
  BY DEF CoordinatorInv, Compacted
<1>2. /\ m \in ExecFields /\ Good(m) /\ SameBut({"tasks"}, exec, m) /\ Still(exec, m)
  BY <1>1, WithoutIs
<1>3. (Undisturbed(exec) => Consuming(exec)) /\ Good(exec)
  BY <1>1, InvIs
<1>4. /\ m.run = exec.run /\ m.loop = exec.loop /\ m.own = exec.own
      /\ m.stray = exec.stray /\ m.slipped = exec.slipped /\ m.closed = exec.closed
      /\ m.verifying = exec.verifying /\ m.compacting = exec.compacting
      /\ m.outgoing = exec.outgoing /\ m.timer = exec.timer
      /\ m.endedAt = exec.endedAt /\ m.prompt = exec.prompt
  BY <1>2 DEF SameBut, Names
<1>5. Undisturbed(m) => Consuming(m) /\ Undisturbed(exec)
  BY <1>2, <1>3, <1>4, StillFollows DEF Follows, Undisturbed
<1>6. CASE ~Current(m, t.run)
  <2>1. t.run # exec.run \/ ~Live(exec)
    BY <1>4, <1>6 DEF Current, Live
  <2>2. Undisturbed(exec) => Orderly(m)
    BY <1>1, <2>1, OthersOrderly
  <2>3. Right(exec, m) /\ Follows(exec, m)
    BY <1>2, <2>2, StillRight, StillFollows
  <2> QED
    BY <1>1, <1>3, <1>6, <2>3, StepFrom
<1>7. CASE Current(m, t.run)
  <2>1. t.run = exec.run /\ Active(exec.loop) /\ Active(m.loop)
    BY <1>4, <1>7 DEF Current, Live
  <2>2. ASSUME Undisturbed(m)
        PROVE  Resting(m) /\ m.endedAt = "no" /\ m.loop.phase = "running"
    <3>1. /\ Mine(m) = {} /\ ~exec.verifying /\ ~exec.compacting
          /\ exec.run \notin Range(exec.outgoing) /\ exec.own \in {"none", "ended"}
          /\ exec.loop.phase = "running" /\ exec.endedAt = "no" /\ ~exec.timer
      BY <1>1, <1>5, <2>1, <2>2, MineAlone
    <3>2. Resting(m)
      BY <1>4, <3>1, IsResting
    <3> QED
      BY <1>4, <3>1, <3>2
  <2>3. Still(m, k) /\ Good(k) /\ Active(k.loop) /\ k.run = m.run /\ Live(k) /\ k.run >= 1
    BY <1>2, <2>1, MarkStill, ActiveStanding, GoodIs DEF Still, Steady
  <2>4. ASSUME Undisturbed(m) PROVE n = k /\ OneAtATime(HandOver(k))
    <3>1. OneAtATime(HandOver(k)) /\ k.endedAt = "no"
      BY <1>2, <2>2, <2>4, SendOrderly
    <3> QED
      BY <3>1 DEF Settled
  <2>5. SendHeld(m) = IF Live(n) THEN HandOver(n) ELSE n
    BY DEF SendHeld
  <2> HIDE DEF k, m
  <2>6. Follows(k, n) /\ n.run = k.run /\ Good(n)
    BY <2>3, TrySettleFollows DEF Follows, Steady
  <2>7. Still(k, HandOver(k)) /\ Active(HandOver(k).loop)
    BY <2>3, HandOverStill, ActiveStanding DEF Still
  <2> HIDE DEF n
  <2>8. CASE t.first \/ m.prompt
    <3>1. exec' = HandOver(n) \/ (exec' = n /\ ~Live(n))
      BY <1>1, <1>7, <2>5, <2>8
    <3>2. Follows(n, HandOver(n)) /\ Follows(m, n)
      BY <2>3, <2>6, HandOverStill, StillFollows, FollowsTwice
    <3>3. Follows(m, exec')
      BY <3>1, <3>2, FollowsTwice
    <3>4. ASSUME Undisturbed(exec')
          PROVE  Orderly(exec') /\ ~Judged(m.loop, (exec').loop)
      <4>1. Undisturbed(m)
        BY <3>3, <3>4, StillUndisturbed
      <4>2. exec' = HandOver(k)
        BY <2>3, <2>4, <3>1, <4>1
      <4>3. Still(m, HandOver(k))
        BY <2>3, <2>7, StillTwice
      <4> QED
        BY <2>4, <2>7, <4>1, <4>2, <4>3, ActiveStanding DEF Orderly, Still
    <3>5. Right(m, exec')
      BY <3>4 DEF Right
    <3> QED
      BY <1>1, <1>4, <1>5, <3>3, <3>5, StepFrom
  <2>9. CASE ~(t.first \/ m.prompt)
    <3>1. exec' = m
      BY <1>1, <1>7, <2>9
    <3>2. Core(m)
      BY <1>2, <2>1, <2>2 DEF Core, Orderly, Resting
    <3>3. Right(m, m) /\ Follows(m, m)
      BY <1>2, <3>2, SameRight, FollowsItself
    <3> QED
      BY <1>1, <1>4, <1>5, <3>1, <3>3, StepFrom
  <2> QED
    BY <2>8, <2>9
<1> QED
  BY <1>6, <1>7

-----------------------------------------------------------------------------
(* The host.                                                               *)

\* What a step may write down without touching the run.
LEMMA AsideIs ==
    ASSUME ExecInv(exec), NEW d \in ExecFields,
           SameBut({"answers", "sendable", "over", "reply"}, exec, d)
    PROVE  /\ Core(d) /\ (Undisturbed(d) => Consuming(d))
           /\ d.run = exec.run /\ d.loop = exec.loop /\ d.own = exec.own
<1>1. Good(exec) /\ Core(exec) /\ (Undisturbed(exec) => Consuming(exec))
  BY InvIs
<1>2. SameBut(Detail, exec, d)
  BY DEF SameBut, Detail
<1>3. Still(exec, d)
  BY <1>1, <1>2, StillRest
<1>4. /\ d.run = exec.run /\ d.loop = exec.loop /\ d.own = exec.own
      /\ d.tasks = exec.tasks /\ d.verifying = exec.verifying
      /\ d.compacting = exec.compacting /\ d.identity = exec.identity
      /\ d.outgoing = exec.outgoing /\ d.timer = exec.timer
      /\ d.endedAt = exec.endedAt /\ d.prompt = exec.prompt
      /\ d.stray = exec.stray /\ d.slipped = exec.slipped
  BY DEF SameBut, Names
<1>5. Mine(d) = Mine(exec)
  BY <1>4 DEF Mine
<1>6. Orderly(exec) => Orderly(d)
  BY <1>4, <1>5 DEF Orderly, OneAtATime, Doing
<1>7. Undisturbed(d) => Undisturbed(exec)
  BY <1>4 DEF Undisturbed
<1> QED
  BY <1>1, <1>3, <1>4, <1>6, <1>7, StillFollows DEF Core, Follows, Still

LEMMA AcceptStep ==
    ASSUME CoordinatorInv, NEW r, Accept(r)
    PROVE  Kept(exec, exec')
<1> DEFINE a == exec.answers \ {r}
           d == [exec EXCEPT !.answers = a]
<1>1. ExecInv(exec) /\ exec' = Changed(d)
  BY DEF CoordinatorInv, Accept
<1>2. exec \in ExecFields /\ a \in SUBSET (1..MaxRuns)
  BY <1>1, InvIs, ExecTyped
<1> HIDE DEF a
<1>3. d \in ExecFields /\ SameBut({"answers"}, exec, d)
  BY <1>2 DEF ExecFields, SameBut, Names
<1> HIDE DEF d
<1>4. SameBut({"answers", "sendable", "over", "reply"}, exec, d)
  BY <1>3 DEF SameBut
<1>5. /\ Core(d) /\ (Undisturbed(d) => Consuming(d))
      /\ d.run = exec.run /\ d.loop = exec.loop /\ d.own = exec.own
  BY <1>1, <1>3, <1>4, AsideIs
<1>6. Follows(d, Changed(d)) /\ Right(d, Changed(d))
  BY <1>5, ChangedFollows, ChangedRight DEF Core
<1> QED
  BY <1>1, <1>5, <1>6, StepFrom

LEMMA CommitReplyStep ==
    ASSUME CoordinatorInv, NEW result \in Results, CommitReply(result)
    PROVE  Kept(exec, exec')
<1> DEFINE d == [exec EXCEPT !.reply = result]
<1>1. ExecInv(exec) /\ exec' = Changed(d)
  BY DEF CoordinatorInv, CommitReply
<1>2. exec \in ExecFields /\ result \in Results \cup {NoResult}
  BY <1>1, InvIs
<1>3. d \in ExecFields /\ SameBut({"reply"}, exec, d)
  BY <1>2 DEF ExecFields, SameBut, Names
<1> HIDE DEF d
<1>4. SameBut({"answers", "sendable", "over", "reply"}, exec, d)
  BY <1>3 DEF SameBut
<1>5. /\ Core(d) /\ (Undisturbed(d) => Consuming(d))
      /\ d.run = exec.run /\ d.loop = exec.loop /\ d.own = exec.own
  BY <1>1, <1>3, <1>4, AsideIs
<1>6. Follows(d, Changed(d)) /\ Right(d, Changed(d))
  BY <1>5, ChangedFollows, ChangedRight DEF Core
<1> QED
  BY <1>1, <1>5, <1>6, StepFrom

LEMMA FactsStep ==
    ASSUME CoordinatorInv, NEW sendable \in BOOLEAN, Facts(sendable)
    PROVE  Kept(exec, exec')
<1> DEFINE d == [exec EXCEPT !.sendable = sendable]
<1>1. ExecInv(exec) /\ exec' = Changed(d)
  BY DEF CoordinatorInv, Facts
<1>2. exec \in ExecFields
  BY <1>1, InvIs
<1>3. d \in ExecFields /\ SameBut({"sendable"}, exec, d)
  BY <1>2 DEF ExecFields, SameBut, Names
<1> HIDE DEF d
<1>4. SameBut({"answers", "sendable", "over", "reply"}, exec, d)
  BY <1>3 DEF SameBut
<1>5. /\ Core(d) /\ (Undisturbed(d) => Consuming(d))
      /\ d.run = exec.run /\ d.loop = exec.loop /\ d.own = exec.own
  BY <1>1, <1>3, <1>4, AsideIs
<1>6. Follows(d, Changed(d)) /\ Right(d, Changed(d))
  BY <1>5, ChangedFollows, ChangedRight DEF Core
<1> QED
  BY <1>1, <1>5, <1>6, StepFrom

\* A send the host refused ends the run it was for, and no other.
LEMMA RejectedIs ==
    ASSUME NEW e, Core(e), NEW r
    PROVE  Follows(e, Rejected(e, r)) /\ Right(e, Rejected(e, r))
<1>1. CASE ~Current(e, r)
  BY <1>1, FollowsItself, SameRight DEF Rejected, Core
<1>2. CASE Current(e, r)
  <2> DEFINE s == EndRun(Cleared(e), "human")
  <2>1. Rejected(e, r) = s
    BY <1>2 DEF Rejected, RejectSend, Cleared
  <2>2. Good(e) /\ e.loop \in LoopFields /\ Active(e.loop)
    BY <1>2, GoodIs DEF Core, Current, Live
  <2> HIDE DEF s
  <2>3. /\ Onward(e, s) /\ s.loop = Leave(e.loop, "human")
        /\ s.verifying = FALSE /\ s.compacting = FALSE
    BY <2>2, ClearEndIs DEF s, Over
  <2> QED
    BY <2>1, <2>2, <2>3, OnwardFollows, ClosingRight
<1> QED
  BY <1>1, <1>2

LEMMA LoseAnswerStep ==
    ASSUME CoordinatorInv, NEW r, LoseAnswer(r)
    PROVE  Kept(exec, exec')
<1> DEFINE a == exec.answers \ {r}
           d == [exec EXCEPT !.answers = a]
<1>1. ExecInv(exec) /\ exec' = Rejected(d, r)
  BY DEF CoordinatorInv, LoseAnswer
<1>2. exec \in ExecFields /\ a \in SUBSET (1..MaxRuns)
  BY <1>1, InvIs, ExecTyped
<1> HIDE DEF a
<1>3. d \in ExecFields /\ SameBut({"answers"}, exec, d)
  BY <1>2 DEF ExecFields, SameBut, Names
<1> HIDE DEF d
<1>4. SameBut({"answers", "sendable", "over", "reply"}, exec, d)
  BY <1>3 DEF SameBut
<1>5. /\ Core(d) /\ (Undisturbed(d) => Consuming(d))
      /\ d.run = exec.run /\ d.loop = exec.loop /\ d.own = exec.own
  BY <1>1, <1>3, <1>4, AsideIs
<1>6. Follows(d, Rejected(d, r)) /\ Right(d, Rejected(d, r))
  BY <1>5, RejectedIs
<1> QED
  BY <1>1, <1>5, <1>6, StepFrom

\* The first prompt given to the host leaves the queue.
LEMMA Dequeued ==
    ASSUME ExecInv(exec), exec.outgoing # <<>>
    PROVE  /\ Head(exec.outgoing) \in 1..MaxRuns
           /\ Tail(exec.outgoing) \in Seq(1..MaxRuns)
           /\ Range(exec.outgoing) = {Head(exec.outgoing)} \cup Range(Tail(exec.outgoing))
<1> DEFINE S == 1..MaxRuns
<1>1. exec.outgoing \in Seq(S)
  BY InvIs, ExecTyped
<1> HIDE DEF S
<1>2. /\ Head(exec.outgoing) \in S /\ Tail(exec.outgoing) \in Seq(S)
      /\ Range(exec.outgoing) = {Head(exec.outgoing)} \cup Range(Tail(exec.outgoing))
  BY <1>1, QueueRange
<1> QED
  BY <1>2 DEF S

LEMMA RefuseStep ==
    ASSUME CoordinatorInv, Refuse
    PROVE  Kept(exec, exec')
<1> DEFINE o == Tail(exec.outgoing)
           d == [exec EXCEPT !.outgoing = o]
           r == Head(exec.outgoing)
<1>1. ExecInv(exec) /\ exec' = Rejected(d, r) /\ exec.outgoing # <<>>
  BY DEF CoordinatorInv, Refuse
<1>2. /\ exec \in ExecFields /\ o \in Seq(1..MaxRuns)
      /\ \A x \in Range(o) : x \in Range(exec.outgoing)
  BY <1>1, InvIs, Dequeued
<1>3. /\ Good(exec) /\ Core(exec) /\ Sane(exec.loop)
      /\ (Undisturbed(exec) => Consuming(exec))
  BY <1>1, InvIs, GoodIs
<1> HIDE DEF o, r
<1>4. d \in ExecFields /\ SameBut({"outgoing"}, exec, d) /\ d.outgoing = o
  BY <1>2 DEF ExecFields, SameBut, Names
<1> HIDE DEF d
<1>5. /\ d.run = exec.run /\ d.loop = exec.loop /\ d.own = exec.own
      /\ d.tasks = exec.tasks /\ d.verifying = exec.verifying
      /\ d.compacting = exec.compacting /\ d.identity = exec.identity
      /\ d.timer = exec.timer
      /\ d.endedAt = exec.endedAt /\ d.prompt = exec.prompt
      /\ d.stray = exec.stray /\ d.slipped = exec.slipped
  BY <1>4 DEF SameBut, Names
<1>6. Mine(d) = Mine(exec) /\ Checks(d) = Checks(exec)
  BY <1>5 DEF Mine, Checks
<1>7. SameBut(Detail \cup {"tasks", "outgoing", "loop"}, exec, d)
  BY <1>4 DEF SameBut
<1>8. Still(exec, d)
  BY <1>2, <1>3, <1>4, <1>5, <1>6, <1>7, StillLike DEF SameStanding
<1>9. Orderly(exec) => Orderly(d)
  BY <1>2, <1>4, <1>5, <1>6 DEF Orderly, OneAtATime, Doing
<1>10. Core(d) /\ (Undisturbed(d) => Consuming(d))
  BY <1>3, <1>5, <1>8, <1>9, StillFollows DEF Core, Follows, Undisturbed
<1>11. Follows(d, Rejected(d, r)) /\ Right(d, Rejected(d, r))
  BY <1>10, RejectedIs
<1> QED
  BY <1>1, <1>5, <1>10, <1>11, StepFrom

LEMMA DeliverStep ==
    ASSUME CoordinatorInv, Deliver
    PROVE  Kept(exec, exec')
<1> DEFINE q == Tail(exec.outgoing)
           r == Head(exec.outgoing)
           last == r = exec.run /\ r \notin Range(q)
           a == exec.answers \cup {r}
           w == IF last /\ exec.own = "sent" THEN "delivered" ELSE exec.own
           s == [exec EXCEPT !.outgoing = q, !.answers = a, !.reply = NoResult,
                             !.own = w]
<1>1. ExecInv(exec) /\ exec' = s /\ exec.outgoing # <<>>
  BY DEF CoordinatorInv, Deliver
<1>2. /\ exec \in ExecFields /\ q \in Seq(1..MaxRuns) /\ r \in 1..MaxRuns
      /\ \A x \in Range(q) : x \in Range(exec.outgoing)
  BY <1>1, InvIs, Dequeued
<1>3. /\ Good(exec) /\ Core(exec) /\ Sane(exec.loop)
      /\ (Undisturbed(exec) => Consuming(exec))
  BY <1>1, InvIs, GoodIs
<1>4. a \in SUBSET (1..MaxRuns) /\ w \in {"none", "sent", "delivered", "ended"}
  BY <1>2, ExecTyped
<1>5. /\ w = exec.own \/ (w = "delivered" /\ exec.own = "sent" /\ exec.run \notin Range(q))
  OBVIOUS
<1> HIDE DEF q, r, last, a, w
<1>6. /\ s \in ExecFields
      /\ SameBut({"outgoing", "answers", "reply", "own"}, exec, s)
      /\ s.outgoing = q /\ s.own = w
  BY <1>2, <1>4 DEF ExecFields, SameBut, Names
<1> HIDE DEF s
<1>7. /\ s.run = exec.run /\ s.loop = exec.loop
      /\ s.tasks = exec.tasks /\ s.verifying = exec.verifying
      /\ s.compacting = exec.compacting /\ s.identity = exec.identity
      /\ s.timer = exec.timer
      /\ s.endedAt = exec.endedAt /\ s.prompt = exec.prompt
  BY <1>6 DEF SameBut, Names
<1>8. Mine(s) = Mine(exec) /\ Checks(s) = Checks(exec)
  BY <1>7 DEF Mine, Checks
<1>9. SameBut(Detail \cup {"tasks", "outgoing", "loop"}, exec, s)
  BY <1>6 DEF SameBut, Detail
<1>10. Still(exec, s)
  BY <1>2, <1>3, <1>6, <1>7, <1>8, <1>9, StillLike DEF SameStanding
<1>11. Orderly(exec) => Orderly(s)
  <2>1. CASE ~Active(exec.loop)
    BY <1>7, <2>1 DEF Orderly
  <2>2. CASE Active(exec.loop)
    <3>1. ASSUME OneAtATime(exec) PROVE OneAtATime(s)
      BY <1>2, <1>5, <1>6, <1>7, <1>8, <3>1 DEF OneAtATime, Doing
    <3> QED
      BY <1>7, <2>2, <3>1 DEF Orderly
  <2> QED
    BY <2>1, <2>2
<1>12. Right(exec, s) /\ Follows(exec, s)
  BY <1>3, <1>10, <1>11, StillRight, StillFollows DEF Core
<1> QED
  BY <1>1, <1>3, <1>12, StepFrom

LEMMA ReplayIdleStep ==
    ASSUME CoordinatorInv, ReplayIdle
    PROVE  Kept(exec, exec')
<1> DEFINE d == [exec EXCEPT !.stray = TRUE]
           s == Idle(d)
<1>1. ExecInv(exec) /\ exec' = s /\ Active(exec.loop)
  BY DEF CoordinatorInv, ReplayIdle, Awaits, Live
<1>2. exec \in ExecFields /\ Good(exec) /\ Sane(exec.loop)
  BY <1>1, InvIs, GoodIs
<1>3. d \in ExecFields /\ SameBut({"stray"}, exec, d) /\ d.stray = TRUE
  BY <1>2 DEF ExecFields, SameBut, Names
<1> HIDE DEF d
<1>4. /\ d.run = exec.run /\ d.ends = exec.ends /\ d.endTraced = exec.endTraced
      /\ d.deadline = exec.deadline /\ d.closed = exec.closed /\ d.loop = exec.loop
      /\ d.tasks = exec.tasks /\ d.outgoing = exec.outgoing
  BY <1>3 DEF SameBut, Names
<1>5. Good(d)
  BY <1>2, <1>3, <1>4, GoodLike
<1>6. Follows(d, s)
  BY <1>5, IdleFollows
<1> HIDE DEF s
<1>7. Good(s) /\ ~Undisturbed(s)
  BY <1>3, <1>6 DEF Follows, Steady, Undisturbed
<1>8. exec.loop.phase \notin Over
  BY <1>1 DEF Over, Active
<1> QED
  BY <1>1, <1>7, <1>8 DEF Kept, ExecInv, Good

\* The end of the turn may itself make the attempt due.
LEMMA EndTurnStep ==
    ASSUME CoordinatorInv, NEW over \in BOOLEAN, EndTurn(over)
    PROVE  /\ ExecInv(exec') /\ (exec').run = exec.run
           /\ ~Active(exec.loop) => (exec').loop = exec.loop
           /\ Undisturbed(exec') /\ Judged(exec.loop, (exec').loop) =>
                 exec.own = "delivered"
<1> DEFINE w == IF exec.own = "delivered" THEN "ended" ELSE exec.own
           b == exec.stray \/ (Awaits(exec) /\ exec.own # "delivered")
           d == [exec EXCEPT !.over = over, !.own = w, !.stray = b]
           s == Idle(d)
<1>1. ExecInv(exec) /\ exec' = s
  BY DEF CoordinatorInv, EndTurn
<1>2. /\ exec \in ExecFields /\ Good(exec) /\ Core(exec) /\ Sane(exec.loop)
      /\ (Live(exec) <=> Active(exec.loop))
      /\ (Undisturbed(exec) => Consuming(exec))
  BY <1>1, InvIs, GoodIs
<1>3. w \in {"none", "sent", "delivered", "ended"} /\ b \in BOOLEAN
  BY <1>2, ExecTyped
<1>4. /\ ~b => ~exec.stray /\ (Live(exec) /\ exec.loop.awaiting => exec.own = "delivered")
      /\ exec.own = "delivered" => w = "ended"
      /\ exec.own # "delivered" => w = exec.own
  BY DEF Awaits
<1> HIDE DEF w, b
<1>5. /\ d \in ExecFields /\ SameBut({"over", "own", "stray"}, exec, d)
      /\ d.own = w /\ d.stray = b
  BY ZenonT(60), <1>2, <1>3 DEF ExecFields, SameBut, Names
<1> HIDE DEF d
<1>6. /\ d.run = exec.run /\ d.ends = exec.ends /\ d.endTraced = exec.endTraced
      /\ d.deadline = exec.deadline /\ d.closed = exec.closed /\ d.loop = exec.loop
      /\ d.tasks = exec.tasks /\ d.outgoing = exec.outgoing
      /\ d.settling = exec.settling /\ d.slipped = exec.slipped
      /\ d.verifying = exec.verifying /\ d.compacting = exec.compacting
      /\ d.identity = exec.identity /\ d.timer = exec.timer
      /\ d.endedAt = exec.endedAt /\ d.prompt = exec.prompt
  BY <1>5 DEF SameBut, Names
<1>7. Good(d)
  BY <1>2, <1>5, <1>6, GoodLike
<1>8. Mine(d) = Mine(exec)
  BY <1>6 DEF Mine
<1>9. ASSUME Undisturbed(d)
      PROVE  /\ Consuming(d) /\ Orderly(exec)
             /\ Live(exec) /\ exec.loop.awaiting => exec.own = "delivered"
  <2>1. Undisturbed(exec)
    BY <1>4, <1>5, <1>6, <1>9 DEF Undisturbed
  <2> QED
    BY <1>2, <1>4, <1>5, <1>6, <1>8, <1>9, <2>1
       DEF Undisturbed, Core, Consuming, Doing
<1>10. Follows(d, s)
  BY <1>7, IdleFollows
<1>11. CASE ~Live(d) \/ ~d.loop.awaiting
  <2>1. s = d
    BY <1>11 DEF Idle
  <2>2. ASSUME Undisturbed(d) PROVE Orderly(d)
    <3>1. CASE ~Active(exec.loop)
      BY <1>6, <1>9, <2>2, <3>1 DEF Orderly
    <3>2. CASE Active(exec.loop)
      <4>1. OneAtATime(exec) /\ ~exec.loop.awaiting
        BY <1>2, <1>6, <1>9, <1>11, <2>2, <3>2 DEF Orderly, Live
      <4>2. exec.own # "delivered"
        BY <4>1 DEF OneAtATime
      <4>3. OneAtATime(d)
        BY <1>4, <1>5, <1>6, <1>8, <4>1, <4>2 DEF OneAtATime, Doing
      <4> QED
        BY <1>6, <3>2, <4>3 DEF Orderly
    <3> QED
      BY <3>1, <3>2
  <2>3. ExecInv(d) /\ ~Judged(exec.loop, d.loop)
    BY <1>6, <1>7, <1>9, <2>2 DEF ExecInv, Good, Judged
  <2> QED
    BY <1>1, <1>6, <2>1, <2>3
<1>12. CASE Live(d) /\ d.loop.awaiting
  <2> DEFINE n == Noticed(d)
  <2>1. s = TrySettle(n)
    BY <1>12 DEF Idle, Noticed
  <2>2. Still(d, n) /\ SameBut({"endedAt"}, d, n) /\ n.endedAt # "no" /\ Good(n)
    BY <1>7, NoticedIs DEF Still
  <2> HIDE DEF n
  <2>3. /\ n.run = exec.run /\ n.loop = exec.loop /\ n.tasks = exec.tasks
        /\ n.outgoing = exec.outgoing /\ n.verifying = exec.verifying
        /\ n.compacting = exec.compacting /\ n.timer = exec.timer
        /\ n.prompt = exec.prompt /\ n.own = d.own
    BY <1>6, <2>2 DEF SameBut, Names
  <2>4. ASSUME Undisturbed(d) PROVE Orderly(n) /\ exec.own = "delivered"
    <3>1. Active(exec.loop) /\ exec.loop.awaiting /\ exec.own = "delivered"
      BY <1>2, <1>6, <1>9, <1>12, <2>4 DEF Live
    <3>2. OneAtATime(exec)
      BY <1>9, <2>4, <3>1 DEF Orderly
    <3>3. /\ Mine(exec) = {} /\ ~exec.prompt /\ exec.endedAt = "no" /\ ~exec.timer
          /\ ~exec.verifying /\ ~exec.compacting
          /\ exec.run \notin Range(exec.outgoing) /\ exec.loop.phase # "paused"
      BY <1>2, <3>1, <3>2, ExecTyped DEF OneAtATime, Doing
    <3>4. Mine(n) = {} /\ n.own = "ended"
      BY <1>4, <1>5, <2>3, <3>1, <3>3 DEF Mine
    <3>5. Resting(n)
      BY <2>3, <3>1, <3>3, <3>4, IsResting
    <3> QED
      BY <2>3, <3>1, <3>5 DEF Resting, Orderly
  <2>5. Core(n) /\ (Undisturbed(n) => Undisturbed(d))
    BY <2>2, <2>4, StillFollows, StillUndisturbed DEF Core
  <2>6. Follows(n, s) /\ Right(n, s) /\ Follows(d, s)
    BY <2>1, <2>2, <2>5, TrySettleFollows, TrySettleRight, StillFollows, FollowsTwice
  <2> HIDE DEF s
  <2>7. ASSUME Undisturbed(s)
        PROVE  Orderly(s) /\ Consuming(s) /\ exec.own = "delivered"
    <3>1. Undisturbed(d)
      BY <2>6, <2>7, StillUndisturbed
    <3> QED
      BY <1>9, <2>4, <2>6, <2>7, <3>1 DEF Right, Follows
  <2>8. ExecInv(s)
    BY <2>6, <2>7 DEF ExecInv, Follows, Good
  <2> QED
    BY <1>1, <1>6, <2>6, <2>7, <2>8 DEF Follows, Steady
<1> QED
  BY <1>11, <1>12

-----------------------------------------------------------------------------
(* Theorems.                                                               *)

LEMMA InitInv ==
    ASSUME Init
    PROVE  CoordinatorInv
<1> DEFINE l == [NewLoop EXCEPT !.phase = "none"]
<1>1. l \in LoopFields /\ ~Active(l)
  <2>1. NewLoop \in LoopFields
    BY LimitsAssumption DEF NewLoop, LoopFields, Phases
  <2>2. l \in LoopFields /\ l.phase = "none"
    BY <2>1 DEF LoopFields, Phases
  <2> HIDE DEF l
  <2> QED
    BY <2>2 DEF Active
<1> HIDE DEF l
<1>2. setup \in Setups /\ host = [turn |-> FALSE, owes |-> FALSE, replays |-> 0]
  BY DEF Init
<1>3. exec = [loop |-> l, run |-> 0,
              tasks |-> {}, prompt |-> FALSE, endedAt |-> "no",
              timer |-> FALSE, deadline |-> FALSE, verifying |-> FALSE,
              compacting |-> FALSE, settling |-> FALSE, identity |-> 0,
              misses |-> 0, endTraced |-> FALSE, closed |-> FALSE,
              outgoing |-> <<>>, answers |-> {}, sendable |-> TRUE,
              over |-> FALSE, reply |-> NoResult, ends |-> 0,
              own |-> "none", stray |-> FALSE, slipped |-> FALSE,
              outages |-> 0, gaveUp |-> VerifierRetries + 1]
  BY DEF Init, l
<1>4. host \in HostFields
  BY <1>2, CoordinatorAssumption DEF HostFields
<1>5. /\ 0 \in 0..MaxRuns /\ 0 \in 0..2 /\ 0 \in 0..(VerifierRetries + 1)
      /\ VerifierRetries + 1 \in 0..(VerifierRetries + 1)
      /\ <<>> \in Seq(1..MaxRuns)
  BY CoordinatorAssumption
<1>6. exec \in ExecFields
  <2> DEFINE M == 0..MaxRuns
             R == 0..(VerifierRetries + 1)
             Q == Seq(1..MaxRuns)
             n == VerifierRetries + 1
  <2>1. 0 \in M /\ 0 \in R /\ n \in R /\ <<>> \in Q
    BY <1>5
  <2>2. exec.gaveUp = n
    BY <1>3
  <2> HIDE DEF M, R, Q, n
  <2> QED
    BY <1>1, <1>3, <1>5, <2>1 DEF ExecFields, M, R, Q, n
<1>7. /\ exec.loop = l /\ exec.run = 0 /\ exec.tasks = {} /\ exec.outgoing = <<>>
      /\ exec.ends = 0 /\ exec.deadline = FALSE /\ exec.verifying = FALSE
      /\ exec.compacting = FALSE
  BY <1>3
<1>8. Range(exec.outgoing) = {}
  <2> DEFINE q == <<>>
             S == {}
  <2>1. q \in Seq(S)
    OBVIOUS
  <2> HIDE DEF q, S
  <2>2. \A r \in Range(q) : r \in S
    BY <2>1, RangeTyped
  <2> QED
    BY <1>7, <2>2 DEF q, S
<1>9. Spans(exec)
  BY <1>1, <1>7, <1>8 DEF Spans, Sane
<1>10. Orderly(exec) /\ Consuming(exec)
  BY <1>1, <1>7 DEF Orderly, Consuming
<1> QED
  BY <1>2, <1>4, <1>6, <1>9, <1>10 DEF CoordinatorInv, ExecInv

LEMMA HostTyped ==
    ASSUME CoordinatorInv, Next
    PROVE  setup' = setup /\ host' \in HostFields
<1>1. /\ setup \in SetupFields /\ host \in HostFields
  BY CoordinatorAssumption DEF CoordinatorInv
<1>2. CASE UNCHANGED <<setup, host>>
  BY <1>1, <1>2
<1>3. CASE Deliver
  BY <1>1, <1>3 DEF Deliver, HostFields, ReadsReply, SetupFields
<1>4. CASE \E result \in Results : CommitReply(result)
  BY <1>1, <1>4 DEF CommitReply, HostFields
<1>5. CASE \E over \in BOOLEAN : EndTurn(over)
  BY <1>1, <1>5 DEF EndTurn, HostFields
<1>6. CASE ReplayIdle
  <2>1. host.replays + 1 \in 0..MaxReplays
    BY <1>1, <1>6, CoordinatorAssumption DEF ReplayIdle, HostFields, SetupFields
  <2> DEFINE n == host.replays + 1
  <2>2. host' = [host EXCEPT !.replays = n] /\ setup' = setup
    BY <1>6 DEF ReplayIdle
  <2>3. n \in 0..MaxReplays
    BY <2>1
  <2> HIDE DEF n
  <2> QED
    BY <1>1, <2>2, <2>3 DEF HostFields
<1>7. ASSUME NEW t \in exec.tasks, Continue(t) PROVE UNCHANGED <<setup, host>>
  BY <1>7 DEF Continue, SectionRead, CheckRead, Abandoned, Verified, VerifierEnds,
              Outage, CompactDone, Compacted
<1>8. CASE Start \/ Stop \/ Forget \/ Close \/ Answer \/ Publish
  BY <1>2, <1>8 DEF Start, Stop, Forget, Close, Answer, Publish
<1>9. CASE Expire \/ GraceEnds \/ SettleTimeout \/ Refuse
  BY <1>2, <1>9 DEF Expire, GraceEnds, SettleTimeout, Refuse
<1>10. CASE \E r \in exec.answers : LoseAnswer(r) \/ Accept(r)
  BY <1>2, <1>10 DEF LoseAnswer, Accept
<1>11. CASE \E sendable \in BOOLEAN : Facts(sendable)
  BY <1>2, <1>11 DEF Facts
<1> QED
  BY <1>2, <1>3, <1>4, <1>5, <1>6, <1>7, <1>8, <1>9, <1>10, <1>11 DEF Next

\* What every step of the specification does to the execution.
Moved ==
    /\ ExecInv(exec')
    /\ (exec').run = exec.run =>
         /\ exec.loop.phase \in Over =>
              (exec').loop = exec.loop \/ (exec').loop.phase = "none"
         /\ (exec').loop.phase # "none" /\ Undisturbed(exec')
               /\ Judged(exec.loop, (exec').loop) => TurnOver \/ Entitled(exec)

LEMMA ContinueMoves ==
    ASSUME CoordinatorInv, NEW t \in exec.tasks, Continue(t)
    PROVE  Kept(exec, exec')
<1>1. CASE \E found \in Found : SectionRead(t, found) \/ CheckRead(t, found)
  BY <1>1, SectionReadStep, CheckReadStep
<1>2. CASE Abandoned(t)
  BY <1>2, AbandonedStep
<1>3. CASE \E result \in Results : Verified(t, result)
  BY <1>3, VerifiedStep
<1>4. CASE \E phase \in {"human", "unavailable"} : VerifierEnds(t, phase)
  BY <1>4, VerifierEndsStep
<1>5. CASE Outage(t)
  BY <1>5, OutageStep
<1>6. CASE \E over \in BOOLEAN : CompactDone(t, over)
  BY <1>6, CompactDoneStep
<1>7. CASE Compacted(t)
  BY <1>7, CompactedStep
<1> QED
  BY <1>1, <1>2, <1>3, <1>4, <1>5, <1>6, <1>7 DEF Continue

LEMMA NextMoves ==
    ASSUME CoordinatorInv, Next
    PROVE  Moved
<1>1. ASSUME Kept(exec, exec') PROVE Moved
  BY <1>1 DEF Kept, Moved
<1>2. CASE Start \/ Stop \/ Forget \/ Close \/ Answer \/ Publish
  BY <1>1, <1>2, StartStep, StopStep, ForgetStep, CloseStep, AnswerStep, PublishStep
<1>3. CASE Expire \/ GraceEnds \/ SettleTimeout
  BY <1>1, <1>3, ExpireStep, GraceEndsStep, SettleTimeoutStep
<1>4. CASE \E t \in exec.tasks : Continue(t)
  BY <1>1, <1>4, ContinueMoves
<1>5. CASE Deliver \/ Refuse
  BY <1>1, <1>5, DeliverStep, RefuseStep
<1>6. CASE \E r \in exec.answers : LoseAnswer(r) \/ Accept(r)
  BY <1>1, <1>6, LoseAnswerStep, AcceptStep
<1>7. CASE \E result \in Results : CommitReply(result)
  BY <1>1, <1>7, CommitReplyStep
<1>8. CASE \E over \in BOOLEAN : EndTurn(over)
  <2>1. PICK over \in BOOLEAN : EndTurn(over)
    BY <1>8
  <2>2. /\ ExecInv(exec') /\ (exec').run = exec.run
        /\ ~Active(exec.loop) => (exec').loop = exec.loop
        /\ Undisturbed(exec') /\ Judged(exec.loop, (exec').loop) =>
              exec.own = "delivered"
    BY <2>1, EndTurnStep
  <2>3. host.turn /\ ~host'.turn
    <3>1. host \in HostFields /\ host' = [host EXCEPT !.turn = FALSE]
      BY <2>1 DEF EndTurn, CoordinatorInv
    <3>2. host.turn
      BY <2>1 DEF EndTurn
    <3> QED
      BY <3>1, <3>2 DEF HostFields
  <2>4. exec.loop.phase \in Over => ~Active(exec.loop)
    BY DEF Over, Active
  <2> QED
    BY <2>2, <2>3, <2>4 DEF Moved, TurnOver
<1>9. CASE ReplayIdle
  BY <1>1, <1>9, ReplayIdleStep
<1>10. CASE \E sendable \in BOOLEAN : Facts(sendable)
  BY <1>1, <1>10, FactsStep
<1> QED
  BY <1>2, <1>3, <1>4, <1>5, <1>6, <1>7, <1>8, <1>9, <1>10 DEF Next

LEMMA NextInv ==
    ASSUME CoordinatorInv, [Next]_vars
    PROVE  CoordinatorInv'
<1>1. CASE Next
  <2>1. setup' = setup /\ host' \in HostFields /\ ExecInv(exec')
    BY <1>1, HostTyped, NextMoves DEF Moved
  <2>2. ExecInv(exec)'
    BY <2>1 DEF ExecInv, Spans, Orderly, OneAtATime, Undisturbed, Consuming
  <2> QED
    BY <2>1, <2>2 DEF CoordinatorInv
<1>2. CASE UNCHANGED vars
  BY <1>2 DEF vars, CoordinatorInv, ExecInv, Spans, Orderly, OneAtATime,
              Undisturbed, Consuming
<1> QED
  BY <1>1, <1>2

\* Every execution the coordinator reaches is well formed and, as long as
\* nothing disturbs its run, does one thing at a time.
THEOREM CoordinatorInvariant == Spec => []CoordinatorInv
<1>1. Init => CoordinatorInv
  BY InitInv
<1>2. CoordinatorInv /\ [Next]_vars => CoordinatorInv'
  BY NextInv
<1> QED
  BY <1>1, <1>2, PTL DEF Spec

\* The coordinator's variables have their types, for any limits and set-ups.
THEOREM CoordinatorTyped == Spec => []TypeOK
<1>1. CoordinatorInv => TypeOK
  BY DEF CoordinatorInv, ExecInv, TypeOK
<1> QED
  BY <1>1, CoordinatorInvariant, PTL

\* Every run's begin is paired with one end and its deadline watches it to
\* that end; undisturbed, it holds its prompts back while it is judged or the
\* session compacted, and is quiet while it waits for a person.
THEOREM ExecutionHeld == Spec => []ExecutionHolds
<1>1. ASSUME CoordinatorInv PROVE ExecutionHolds
  <2>1. /\ exec \in ExecFields /\ Spans(exec)
        /\ Undisturbed(exec) => Orderly(exec) /\ Consuming(exec)
    BY <1>1 DEF CoordinatorInv, ExecInv
  <2>2. SpansPaired /\ DeadlineWatches
    BY <2>1 DEF Spans, SpansPaired, DeadlineWatches
  <2>3. ASSUME Undisturbed(exec), exec.verifying \/ exec.compacting
        PROVE  exec.run \notin Range(exec.outgoing)
    BY <2>1, <2>3 DEF Orderly, OneAtATime, Doing
  <2>4. ASSUME exec.loop.phase = "paused", Undisturbed(exec)
        PROVE  /\ ~exec.prompt /\ ~exec.verifying /\ ~exec.compacting
               /\ ~exec.settling /\ ~exec.timer
    <3>1. Active(exec.loop) /\ OneAtATime(exec) /\ Consuming(exec)
      BY <2>1, <2>4 DEF Active, Orderly
    <3>2. Mine(exec) = {} /\ ~exec.prompt /\ ~exec.loop.awaiting
      BY <2>4, <3>1 DEF OneAtATime
    <3>3. ~Doing(exec, "verify") /\ ~Doing(exec, "compact") /\ ~Doing(exec, "check")
      BY <3>2 DEF Doing
    <3>4. ~exec.timer
      BY <3>1, <3>2 DEF OneAtATime
    <3> QED
      BY <3>1, <3>2, <3>3, <3>4 DEF OneAtATime, Consuming
  <2> QED
    BY <2>2, <2>3, <2>4 DEF ExecutionHolds, HeldPrompts, PausedIsQuiet
<1> QED
  BY <1>1, CoordinatorInvariant, PTL

\* An attempt is decided only once the turn of its own prompt is over, or by
\* a verifier when no prompt was sent for it; and nothing that comes late
\* touches a run that is over.
THEOREM DecisionsHeld == Spec => DecisionsStand
<1>1. ASSUME CoordinatorInv, [Next]_vars
      PROVE  /\ [Decided /\ Undisturbed(exec') =>
                   TurnOver \/ (exec.own = "none" /\ setup.forked)]_vars
             /\ [exec.loop.phase \in Over /\ exec'.run = exec.run =>
                   exec'.loop = exec.loop \/ exec'.loop.phase = "none"]_vars
  <2>1. CASE Next
    <3>1. Moved
      BY <1>1, <2>1, NextMoves
    <3>2. ASSUME Decided, Undisturbed(exec')
          PROVE  TurnOver \/ (exec.own = "none" /\ setup.forked)
      <4>1. /\ (exec').run = exec.run /\ (exec').loop.phase # "none"
            /\ Judged(exec.loop, (exec').loop)
        BY <3>2 DEF Decided, Judged
      <4>2. TurnOver \/ Entitled(exec)
        BY <3>1, <3>2, <4>1 DEF Moved
      <4> QED
        BY <4>2 DEF Entitled, TurnOver
    <3>3. ASSUME exec.loop.phase \in Over, exec'.run = exec.run
          PROVE  exec'.loop = exec.loop \/ exec'.loop.phase = "none"
      BY <3>1, <3>3 DEF Moved
    <3> QED
      BY <3>2, <3>3
  <2>2. CASE UNCHANGED vars
    BY <2>2
  <2> QED
    BY <1>1, <2>1, <2>2
<1> QED
  BY <1>1, CoordinatorInvariant, PTL
     DEF Spec, DecisionsStand, DecidedByOwnTurn, OverIsFinal

=============================================================================
