----------------------------- MODULE ScoredLoop -----------------------------
(***************************************************************************)
(* controller/loop.ts: ScoredLoop, the scoring rules of one run.           *)
(*                                                                         *)
(* A run is a record and every method a function from a run to the run it  *)
(* leaves.  A score is a number in 1..Pass where Pass stands for every     *)
(* score that reaches limits.score.  Prompt texts, notes and the activity  *)
(* label are left out: nothing is decided from them.                       *)
(***************************************************************************)
EXTENDS Integers

CONSTANTS
    LastStep,    \* limits.to, the first step being 1
    Tries,       \* limits.tries, attempts per step
    Pass,        \* limits.score
    StallStreak  \* STALL_STREAK

ASSUME LimitsAssumption ==
    /\ LastStep \in Nat \ {0}
    /\ Tries \in Nat \ {0}
    /\ Pass \in Nat \ {0}
    /\ StallStreak \in Nat \ {0}

\* needs-human is two phases here: "paused" has no terminalReason and still
\* owns its session, "human" has one and is over.
Over == {"passed", "blocked", "stalled", "exhausted", "cancelled",
         "unavailable", "deadline", "human"}
Phases == Over \cup {"none", "running", "paused"}

\* What a judgment may say; "none" is a reply without a usable block.
Scored(n) == [kind |-> "score", score |-> n]
Unscored == [kind |-> "unscored", score |-> 0]
Abstained == [kind |-> "abstained", score |-> 0]
Blocked == [kind |-> "blocked", score |-> 0]
NoResult == [kind |-> "none", score |-> 0]
Results == {Scored(n) : n \in 1..Pass} \cup {Unscored, Abstained, Blocked}

LoopFields == [phase : Phases, step : 1..LastStep, attempt : 1..(Tries + 1),
               best : 0..Pass, noProgress : 0..StallStreak,
               awaiting : BOOLEAN]

NewLoop == [phase |-> "running", step |-> 1, attempt |-> 1, best |-> 0,
            noProgress |-> 0, awaiting |-> FALSE]

Active(l) == l.phase \in {"running", "paused"}

\* cancel, unavailable, deadline, pause and human differ in the phase only.
Leave(l, phase) == [l EXCEPT !.phase = phase, !.awaiting = FALSE]

\* The plateau count once this score is in.
Plateau(l, score) ==
    IF score > l.best THEN 0
    ELSE IF l.attempt > 1 THEN l.noProgress + 1 ELSE l.noProgress

\* A run that scored, or failed to, without reaching the passing score.
MutantRetry(l) ==
    IF l.noProgress >= StallStreak THEN [l EXCEPT !.phase = "stalled"]
    ELSE [l EXCEPT !.attempt = @ + 1]
Retry(l) ==
    IF l.noProgress >= StallStreak THEN [l EXCEPT !.phase = "stalled"]
    ELSE IF l.attempt + 1 > Tries
         THEN [l EXCEPT !.attempt = @ + 1, !.phase = "exhausted"]
         ELSE [l EXCEPT !.attempt = @ + 1]

\* A run whose step reached the passing score.
Advance(l) ==
    IF l.step >= LastStep THEN [l EXCEPT !.phase = "passed"]
    ELSE [l EXCEPT !.step = @ + 1, !.attempt = 1, !.best = 0,
                   !.noProgress = 0]

\* settle(result)
Settle(l, result) ==
    CASE result.kind = "abstained" -> Leave(l, "paused")
      [] result.kind = "blocked"   -> Leave(l, "blocked")
      [] result.kind = "score"     ->
            LET s == [l EXCEPT !.awaiting = FALSE,
                               !.noProgress = Plateau(l, result.score),
                               !.best = IF result.score > @
                                        THEN result.score ELSE @]
            IN  IF result.score >= Pass THEN Advance(s) ELSE Retry(s)
      [] OTHER                     -> Retry([l EXCEPT !.awaiting = FALSE])

\* resume()
Resume(l) == [l EXCEPT !.phase = "running", !.awaiting = TRUE]

=============================================================================
