----------------------------- MODULE PromptStore -----------------------------
(***************************************************************************)
(* controller/prompts.ts and prompt-source.ts: the saved prompts, layered  *)
(* from the file a release installs and the operator's own.                *)
(*                                                                         *)
(* A row is its identity, its text and its `top` mark.  The installed file *)
(* is a sequence of rows; the operator's layer adds the identities of the  *)
(* installed rows they removed.                                            *)
(***************************************************************************)
EXTENDS Naturals, Sequences, SequencesExt

Marks == {"unset", "pinned", "demoted"}

Empty == [rows |-> <<>>, hidden |-> {}]

Texts(rows) == {row.text : row \in ToSet(rows)}
Ids(rows) == {row.id : row \in ToSet(rows)}

-----------------------------------------------------------------------------
(* The list the operator sees.                                             *)

\* A copy that says nothing the installed row does not say is not the operator's.
Custom(installed, own) == SelectSeq(own.rows, LAMBDA row : row \notin ToSet(installed))

\* Rows of the operator that stand in for an installed one, by identity or by text.
StandIns(row, custom) ==
    LET same == SelectSeq(custom, LAMBDA r : r.id = row.id)
    IN  IF same # <<>> THEN same ELSE SelectSeq(custom, LAMBDA r : r.text = row.text)

\* What is shown in the place of an installed row.
Placed(row, custom) ==
    IF StandIns(row, custom) = <<>> THEN row ELSE Last(StandIns(row, custom))

LeadsList(row, custom) ==
    /\ "pinned" \in {row.top, Placed(row, custom).top}
    /\ Placed(row, custom).top # "demoted"

\* The pinned rows, the operator's additions, a row of theirs that has no place
\* left, and the installed rows in their own order.
Listing(installed, own) ==
    LET custom == Custom(installed, own)
        places == SelectSeq(installed, LAMBDA row : row.id \notin own.hidden)
        pinned == SelectSeq(places, LAMBDA row : LeadsList(row, custom))
        others == SelectSeq(places, LAMBDA row : ~LeadsList(row, custom))
        anchored == {r \in ToSet(custom) : r.id \in Ids(installed) \/ r.text \in Texts(installed)}
        added == SelectSeq(custom, LAMBDA r : r \notin anchored)
        show(rows) == [i \in DOMAIN rows |-> Placed(rows[i], custom)]
        stray == SelectSeq(custom, LAMBDA r : r \in anchored /\ r.id \notin Ids(show(places)))
    IN  SelectSeq(added, LAMBDA r : r.top = "pinned") \o show(pinned)
        \o SelectSeq(added, LAMBDA r : r.top # "pinned") \o stray \o show(others)

-----------------------------------------------------------------------------
(* save(), update() and remove(): the operator's layer after each of them.  *)

\* The text of an installed row that was hidden brings it back as the operator's.
Saved(installed, own, id, text) ==
    [rows |-> Append(own.rows, [id |-> id, text |-> text, top |-> "unset"]),
     hidden |-> own.hidden \ Ids(SelectSeq(installed, LAMBDA row : row.text = text))]

Updated(own, id, text) ==
    IF id \in Ids(own.rows)
    THEN [own EXCEPT !.rows = [i \in DOMAIN @ |->
              IF @[i].id = id THEN [@[i] EXCEPT !.text = text] ELSE @[i]]]
    ELSE [rows |-> Append(own.rows, [id |-> id, text |-> text, top |-> "unset"]),
          hidden |-> own.hidden \ {id}]

\* An installed row is remembered as hidden, whosever text it showed.
Removed(installed, own, id) ==
    [rows |-> SelectSeq(own.rows, LAMBDA row : row.id # id),
     hidden |-> own.hidden \cup ({id} \cap Ids(installed))]

-----------------------------------------------------------------------------
(* The installer.                                                          *)

\* adoptIntoLocal(): rows with a text the release does not have are the
\* operator's, unless their layer has the identity or the text already.
Adopted(present, shipped, own) ==
    SelectSeq(present, LAMBDA row : /\ row.text \notin Texts(shipped)
                                    /\ row.id \notin Ids(own.rows)
                                    /\ row.text \notin Texts(own.rows))

\* missingFrom(): what the file of an older build has and the release has not.
MissingFrom(legacy, installed) ==
    SelectSeq(legacy, LAMBDA row : row.id \notin Ids(installed) /\ row.text \notin Texts(installed))
=============================================================================
