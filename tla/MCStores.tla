------------------------------ MODULE MCStores ------------------------------
(* The files of a client: those of its configuration directory, which a     *)
(* start brings up to date and the prompt store rewrites (Setup), and the    *)
(* cost ledger it shares with other clients (CostScan).  The two share no    *)
(* state, so a behaviour is one of either, beside the other's initial state. *)
(* What a slice and the totals hold is checked in MCLedger.                  *)
EXTENDS MCCostScan, MCSetup, MCLedger

\* The types of both parts.
StoresTypeOK == TypeOK /\ SetupTypeOK

StoresInit == Init /\ SetupInit

StoresNext ==
    \/ Next /\ SetupInit /\ prices = None /\ UNCHANGED setupVars
    \/ SetupNext /\ Init /\ UNCHANGED vars

StoresSpec == StoresInit /\ [][StoresNext]_<<vars, setupVars>> /\ Fairness
=============================================================================
