-------------------------- MODULE MCSessionWrites --------------------------
(* One message of the operator and one of a loop reach every order of       *)
(* sending, parking, moving and cancelling; one fault lets each call fail,  *)
(* or a turn of another client begin.  The runs that show a finding take    *)
(* the messages its shortest behaviour needs.                               *)
EXTENDS SessionWrites

CONSTANTS m1, m2, l1

MCTyped == {m1, m2}
MCInternal == {l1}
One == {m1}
Nothing == {}

=============================================================================
