------------------------- MODULE MCLoopCoordinator -------------------------
(* One set-up for each way a round is scored, one in which a run replaces   *)
(* another.  Two steps and two tries reach every verdict: a score that does *)
(* not improve on the first try's stalls the step, one that is missing      *)
(* exhausts it.  One repeated idle frame lets it come at every moment.      *)
EXTENDS LoopCoordinator

Plain == [forked |-> FALSE, verifyFirst |-> FALSE, marker |-> FALSE,
          fallback |-> FALSE, compacts |-> FALSE, deadline |-> FALSE,
          runs |-> 1, replays |-> 1]

\* A record that reviews an existing artifact.
Review == [Plain EXCEPT !.forked = TRUE, !.verifyFirst = TRUE,
                        !.marker = TRUE, !.deadline = TRUE]
\* Work first, with a verifier that the reply may stand in for.
Fallback == [Plain EXCEPT !.forked = TRUE, !.fallback = TRUE,
                          !.replays = 0]
\* Long sessions, compacted before a round.
Compacting == [Plain EXCEPT !.forked = TRUE, !.compacts = TRUE]
\* A client without a verifier.
SelfScored == [Plain EXCEPT !.marker = TRUE, !.compacts = TRUE, !.replays = 0]
\* Runs that replace one another.
Replaced == [Plain EXCEPT !.forked = TRUE, !.deadline = TRUE, !.runs = 2]

MCSetups == {Review, Fallback, Compacting, SelfScored, Replaced}

=============================================================================
