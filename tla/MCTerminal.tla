------------------------------ MODULE MCTerminal ------------------------------
EXTENDS Terminal

MCLines == {[head |-> "text", words |-> <<>>], [head |-> "/comp", words |-> <<>>],
            [head |-> "/loop", words |-> <<"word">>], [head |-> "!", words |-> <<"word">>],
            [head |-> "/new", words |-> <<>>], [head |-> "/prompt", words |-> <<>>]}
MCShort == [t \in {"/comp", "/co"} |-> IF t = "/comp" THEN {"/compact"} ELSE {"/compact", "/copy", "/cost", "/coredump"}]
=============================================================================
