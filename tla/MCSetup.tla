------------------------------- MODULE MCSetup -------------------------------
(* Three releases: the prices change in each, record r1 too, r2 comes with  *)
(* the second and changes in the third; prompt b is pinned and comes late.  *)
EXTENDS Setup

MCPrompt(id, text, top) == [id |-> id, text |-> text, top |-> top]

MCRecords == {"r1", "r2"}
MCRecordsOf == [r \in {1, 2, 3} |-> [n \in MCRecords |->
                   IF n = "r1" THEN r ELSE IF r = 1 THEN None ELSE r]]
MCPromptsOf == <<
    <<MCPrompt("pa", "ta", "unset")>>,
    <<MCPrompt("pa", "ta2", "unset"), MCPrompt("pb", "tb", "pinned")>>,
    <<MCPrompt("pb", "tb", "pinned")>> >>
MCLegacy == <<MCPrompt("pc", "tc", "unset"), MCPrompt("pa", "ta", "unset")>>
=============================================================================
