---------------------------- MODULE MCCostScan ----------------------------
(* Two clients share the ledger.  Session a is billed while they scan; b   *)
(* has been idle since before the window and is on the screen of c2 only.  *)
EXTENDS CostScan

CONSTANTS c1, c2, a, b

MCClients == {c1, c2}
MCListed == <<a, b>>
MCSelected == (c1 :> a) @@ (c2 :> b)
=============================================================================
