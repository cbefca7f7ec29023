----------------------------- MODULE MCDerived ------------------------------
(* What the client keeps and shows beside the transcript: the projections   *)
(* (Projections), the prompts to recall (Recall), another session's output  *)
(* (Peek) and the host's catalog (Catalog).  They share no state, so a      *)
(* behaviour is one of them, beside the initial states of the others.       *)
EXTENDS Projections, Peek, Catalog

VARIABLES last, index, loaded, indexed, selects, cache, fill, pages, scan, scans

recallVars == <<last, index, loaded, indexed, selects, cache, fill, pages, scan, scans>>

\* Four prompts: one sent by the client itself, one repeated, one typed as a command.
\* The budget of the cache is above what a backfill and a scan hand it.
Recalls ==
    INSTANCE Recall WITH
        Text <- <<"b", "c", "c", "d">>, Texts <- {"b", "c", "d"},
        Internal <- {"b"}, Local <- {"d"},
        Before <- 2, MaxEntries <- 3, CacheSize <- 12,
        SnapSize <- 2, PageSize <- 1, Limit <- 2, Target <- 1, PageLimit <- 3,
        MaxSelects <- 2, MaxScans <- 1,
        ready <- indexed

\* The types of the four parts.
DerivedTypeOK ==
    /\ TypeOK
    /\ Recalls!TypeOK
    /\ PeekTypeOK
    /\ CatalogTypeOK

DerivedInit == Init /\ Recalls!Init /\ PeekInit /\ CatalogInit

DerivedNext ==
    \/ /\ Recalls!Init /\ PeekInit /\ CatalogInit
       /\ Next /\ UNCHANGED <<recallVars, peekVars, catalogVars>>
    \/ /\ PeekInit /\ CatalogInit /\ Init
       /\ Recalls!Next /\ UNCHANGED <<vars, peekVars, catalogVars>>
    \/ /\ CatalogInit /\ Recalls!Init /\ Init
       /\ PeekNext /\ UNCHANGED <<vars, recallVars, catalogVars>>
    \/ /\ PeekInit /\ Recalls!Init /\ Init
       /\ CatalogNext /\ UNCHANGED <<vars, recallVars, peekVars>>

DerivedSpec ==
    DerivedInit /\ [][DerivedNext]_<<vars, recallVars, peekVars, catalogVars>>

\* Stepping up meets every prompt once, in order, down to the oldest the log holds; and
\* what arrives meanwhile leaves the cursor on its entry (see Recall).
RecallHolds == []Recalls!RecallHolds /\ Recalls!CursorStays

-----------------------------------------------------------------------------
(* A session of three prompts that is scanned twice, and a cache that holds *)
(* five: the second scan is put in front of the list of the first.          *)
Rescans ==
    INSTANCE Recall WITH
        Text <- <<"b", "c", "d">>, Texts <- {"b", "c", "d"}, Internal <- {}, Local <- {"d"},
        Before <- 3, MaxEntries <- 4, CacheSize <- 5,
        SnapSize <- 1, PageSize <- 1, Limit <- 2, Target <- 1, PageLimit <- 3,
        MaxSelects <- 1, MaxScans <- 2,
        ready <- indexed

RescansSpec ==
    /\ Rescans!Init /\ Init /\ PeekInit /\ CatalogInit
    /\ [][Rescans!Next /\ UNCHANGED <<vars, peekVars, catalogVars>>]_<<vars, recallVars, peekVars, catalogVars>>

\* "Retained entries in session order, oldest first" (info.ts:123): a list cut to the
\* budget while it held the session twice is taken for complete, and adopted out of order.
EntriesInOrder == Rescans!RecallInOrder
=============================================================================
