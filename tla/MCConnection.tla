---------------------------- MODULE MCConnection ----------------------------
(* Four generations: failures of each kind, in every order, and a fresh     *)
(* start after a stable one.                                               *)
EXTENDS Connection

=============================================================================
