------------------------------- MODULE Catalog ------------------------------
(***************************************************************************)
(* catalog/controller.ts: CatalogController, which shows the host's        *)
(* default model, and loads the names of the presets once per connection.  *)
(*                                                                         *)
(* The catalog of the host is a number that grows; a request reads it when *)
(* the host takes it and publishes it when the answer arrives.  `model`    *)
(* says what is shown: nothing, an error or a version.                     *)
(***************************************************************************)
EXTENDS Naturals

CONSTANTS
    MaxVersions,  \* bound: changes of the host's catalog
    MaxGens,      \* bound: connection generations
    MaxReads      \* bound: refreshes, including those of a selection

ASSUME CatalogAssumption == {MaxVersions, MaxGens, MaxReads} \subseteq Nat

VARIABLES
    version, invalidated,  \* the host's catalog; its change is yet to be announced
    connected, gen,        \* the socket is up and `online`; generations begun
    aborted,               \* generation.signal: close() was called
    revision, reads,       \* refreshes; those in flight: [revision, gen, version]
    model,
    presetClient, presets, presetRead,  \* the roster: asked in, shown of, in flight of
    select,                \* selectModel(): none, sent, accepted by the host
    missed                 \* history: an accepted selection was not followed by a refresh

catalogVars == <<version, invalidated, connected, gen, aborted, revision, reads, model,
                 presetClient, presets, presetRead, select, missed>>

hostCatalog == <<version, invalidated>>
conn == <<connected, gen, aborted>>
roster == <<presetClient, presets, presetRead>>
choice == <<select, missed>>

Unread == MaxVersions + 1
Failed == MaxVersions + 2
NothingShown == MaxVersions + 3

Reads == [revision : 1 .. MaxReads, gen : 1 .. MaxGens, version : 0 .. MaxVersions + 2]

CatalogTypeOK ==
    /\ version \in 0 .. MaxVersions /\ invalidated \in BOOLEAN
    /\ connected \in BOOLEAN /\ gen \in 0 .. MaxGens /\ aborted \in BOOLEAN
    /\ revision \in 0 .. MaxReads /\ reads \subseteq Reads
    /\ model \in 0 .. MaxVersions + 3
    /\ presetClient \in 0 .. MaxGens /\ presets \in 0 .. MaxGens /\ presetRead \in SUBSET (1 .. MaxGens)
    /\ select \in {"none", "sent", "accepted"} /\ missed \in BOOLEAN

CatalogInit ==
    /\ version = 0 /\ invalidated = FALSE
    /\ connected = FALSE /\ gen = 0 /\ aborted = FALSE
    /\ revision = 0 /\ reads = {} /\ model = NothingShown
    /\ presetClient = 0 /\ presets = 0 /\ presetRead = {}
    /\ select = "none" /\ missed = FALSE

-----------------------------------------------------------------------------
\* refresh(): the one before it is aborted; its answer is dropped.
Refreshed ==
    /\ revision' = revision + 1
    /\ reads' = reads \cup {[revision |-> revision + 1, gen |-> gen, version |-> Unread]}

Refresh == IF connected /\ ~aborted THEN Refreshed ELSE UNCHANGED <<revision, reads>>

\* begin(): reset() drops what the last generation showed and aborts what it asked;
\* ready() refreshes.
Begin ==
    /\ ~connected /\ gen < MaxGens /\ revision < MaxReads
    /\ gen' = gen + 1 /\ connected' = TRUE /\ aborted' = FALSE
    /\ model' = NothingShown /\ presetClient' = 0 /\ presets' = 0
    /\ revision' = revision + 1
    /\ reads' = reads \cup {[revision |-> revision + 1, gen |-> gen + 1, version |-> Unread]}
    /\ invalidated' = FALSE /\ select' = "none" /\ missed' = FALSE
    /\ UNCHANGED <<version, presetRead>>

\* The connection is gone: nothing is asked, what is shown stays until the next begins.
Down ==
    /\ connected /\ connected' = FALSE
    /\ UNCHANGED <<hostCatalog, gen, aborted, revision, reads, model, roster, choice>>

\* close(): shutdown, before the transport.
CloseCatalog ==
    /\ ~aborted /\ gen = MaxGens /\ aborted' = TRUE
    /\ UNCHANGED <<hostCatalog, connected, gen, revision, reads, model, roster, choice>>

\* The host's catalog changes, and it says so.
Changes ==
    /\ version < MaxVersions /\ version' = version + 1 /\ invalidated' = connected
    /\ UNCHANGED <<conn, revision, reads, model, roster, choice>>

Invalidated ==
    /\ invalidated /\ connected /\ revision < MaxReads
    /\ invalidated' = FALSE /\ Refresh
    /\ UNCHANGED <<version, conn, model, roster, choice>>

\* The host reads its catalog for a request, or refuses it.
Reading(r, ok) ==
    /\ r.version = Unread /\ connected /\ r.gen = gen
    /\ reads' = (reads \ {r}) \cup {[r EXCEPT !.version = IF ok THEN version ELSE Failed]}
    /\ UNCHANGED <<hostCatalog, conn, revision, model, roster, choice>>

\* A plausible bug: an answer is shown when it belongs to the connection.
MutantNewest(r) == ~aborted /\ connected /\ r.gen = gen

\* current(): the newest refresh, of the client that is connected, not aborted.
Newest(r) == ~aborted /\ connected /\ r.gen = gen /\ r.revision = revision

Arrives(r) ==
    /\ r.version # Unread \/ ~connected \/ r.gen # gen
    /\ reads' = reads \ {r}
    /\ model' = IF Newest(r) THEN r.version ELSE model
    /\ UNCHANGED <<hostCatalog, conn, revision, roster, choice>>

-----------------------------------------------------------------------------
\* loadPresetNames(): once per connection, also when it fails.
LoadPresetNames ==
    /\ connected /\ ~aborted /\ presetClient # gen
    /\ presetClient' = gen /\ presetRead' = presetRead \cup {gen}
    /\ UNCHANGED <<hostCatalog, conn, revision, reads, model, presets, choice>>

PresetsArrive(g) ==
    /\ g \in presetRead /\ presetRead' = presetRead \ {g}
    /\ presets' = IF ~aborted /\ connected /\ g = gen THEN g ELSE presets
    /\ UNCHANGED <<hostCatalog, conn, revision, reads, model, presetClient, choice>>

-----------------------------------------------------------------------------
(* selectModel(), in the foreground slot: one at a time.                   *)

SelectModel ==
    /\ select = "none" /\ connected /\ ~aborted /\ select' = "sent"
    /\ UNCHANGED <<hostCatalog, conn, revision, reads, model, roster, missed>>

\* The host takes the selection and saves its default.
SelectTaken ==
    /\ select = "sent" /\ connected /\ version < MaxVersions
    /\ select' = "accepted" /\ version' = version + 1
    /\ UNCHANGED <<invalidated, conn, revision, reads, model, roster, missed>>

\* A plausible bug: what was selected is taken to be on show.
MutantSelected(stays) == UNCHANGED <<revision, reads, missed>>

\* The answer: the newest catalog is asked for, unless another session was selected
\* meanwhile.
Selected(stays) ==
    IF stays THEN Refresh /\ UNCHANGED missed
    ELSE UNCHANGED <<revision, reads>> /\ missed' = TRUE

SelectAnswered(stays) ==
    /\ select = "accepted" /\ connected /\ ~aborted /\ revision < MaxReads
    /\ select' = "none" /\ Selected(stays)
    /\ UNCHANGED <<hostCatalog, conn, model, roster>>

\* It fails, is cancelled, or its answer is lost with the connection.
SelectFails ==
    /\ select # "none" /\ select' = "none"
    /\ missed' = (missed \/ select = "accepted")
    /\ UNCHANGED <<hostCatalog, conn, revision, reads, model, roster>>

CatalogNext ==
    \/ Begin \/ Down \/ CloseCatalog \/ Changes \/ Invalidated
    \/ \E r \in reads : Arrives(r) \/ \E ok \in BOOLEAN : Reading(r, ok)
    \/ LoadPresetNames \/ \E g \in presetRead : PresetsArrive(g)
    \/ SelectModel \/ SelectTaken \/ SelectFails
    \/ \E stays \in BOOLEAN : SelectAnswered(stays)

CatalogSpec == CatalogInit /\ [][CatalogNext]_catalogVars

-----------------------------------------------------------------------------
(* What is checked.                                                        *)

\* Requests overtake one another; once they have all answered the model shown is the
\* host's, or the error of the last one.
CatalogSettles ==
    connected /\ ~aborted /\ ~invalidated /\ ~missed /\ select = "none"
    /\ (\A r \in reads : ~Newest(r)) =>
        model \in {version, Failed}

\* Within a generation the model shown never becomes an older one, and nothing that was
\* asked of an earlier generation is shown in it.
CatalogMovesOn ==
    [][ gen' = gen =>
          /\ model \in 0 .. MaxVersions /\ model' \in 0 .. MaxVersions => model' >= model
          /\ presets' \in {presets, gen} ]_catalogVars
=============================================================================
