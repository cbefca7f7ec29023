---------------------------- MODULE MCLifetimes -----------------------------
(* What the client begins and must be able to stop at any moment: the       *)
(* generations of its connection (Connection), and the verifications that   *)
(* fork a client of their own (Verifier).  They share no state, so a        *)
(* behaviour is one of either, beside the other's initial state.            *)
EXTENDS MCConnection, Verifier

\* A turn replies with no JSON, with its verdict among objects of other rounds, or with
\* an unusable one last.
MCReplies == {<<>>, <<"verdict">>, <<"verdict", "foreign">>, <<"verdict", "broken">>}

\* The types of both parts.
LifetimesTypeOK == TypeOK /\ VerifierTypeOK

LifetimesInit == Init /\ VerifierInit

LifetimesNext ==
    \/ VerifierInit /\ file = "none" /\ Next /\ UNCHANGED verifierVars
    \/ Init /\ VerifierNext /\ UNCHANGED vars

LifetimesSpec ==
    /\ LifetimesInit /\ [][LifetimesNext]_<<vars, verifierVars>>
    /\ Fairness /\ VerifierFairness

\* What was stopped ends: run() of the connection after stop(), a generation whose
\* socket is gone, and a verification whatever the host answers (see both modules).
LifetimesEnd == GenerationsEnd /\ VerifyReturns
=============================================================================
