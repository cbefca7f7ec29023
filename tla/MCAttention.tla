---------------------------- MODULE MCAttention -----------------------------
(* A question set of two parts and an approval, in one session of two.     *)
EXTENDS Attention

MCOwner == "q" :> "s" @@ "p" :> "s"
MCParts == "q" :> 2 @@ "p" :> 0
MCOptions == "q" :> 1 @@ "p" :> 3
MCMade == "q" :> 1 @@ "p" :> 2
=============================================================================
