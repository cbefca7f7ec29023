-------------------------------- MODULE Setup --------------------------------
(***************************************************************************)
(* What a start does with the files of the configuration directory         *)
(* (cost/config.ts, controller/loop-source.ts, prompt-source.ts), what the  *)
(* running client then does with the saved prompts (prompts.ts), and what  *)
(* the operator does to the files by hand.                                 *)
(*                                                                         *)
(* Every file is written by a step of its own, between two of which the    *)
(* process may die.  writePrivateFile() replaces a file at once;           *)
(* createPrivateFile() does not and can leave a torn one.  A price table,  *)
(* or one loop record (the global defaults count as one), is the release   *)
(* that shipped it, or Mine; a stamp holds what it was made of, since it   *)
(* is a digest.  A torn loop file is taken to be one that does not parse.  *)
(* The operator edits files by hand between runs.                          *)
(***************************************************************************)
EXTENDS PromptStore, FiniteSets

CONSTANTS
    Processes,   \* clients that use the directory
    Releases,    \* the releases, 1 .. n
    Superseded,  \* the release whose price table was seeded without a stamp
    Records,     \* names of loop records
    RecordsOf,   \* the release that last changed each record, None if it has none
    PromptsOf,   \* the saved prompts of each release
    Legacy,      \* the rows of the prompt file of an older build
    Typed,       \* texts the operator types
    NewIds,      \* identities for new prompts
    Rollback,    \* whether an older release may be started after a newer one
    None, Torn, Mine,
    MaxStarts, MaxEdits, MaxCrashes, MaxSaved

ASSUME SetupAssumption ==
    /\ Releases \subseteq Nat /\ Superseded \in Releases
    /\ RecordsOf \in [Releases -> [Records -> Releases \cup {None}]]
    /\ {None, Torn, Mine} \cap Releases = {} /\ Mine # None /\ Rollback \in BOOLEAN
    /\ \A no \in {None, Torn} : no \notin [Records -> Releases \cup {None, Mine}]
    /\ {MaxStarts, MaxEdits, MaxCrashes, MaxSaved} \subseteq Nat

VARIABLES
    prices, stamp,  \* prices.json and the digest in prices.seed.json
    loops, seed,    \* loop.yaml and the digests in loop.yaml.seed.json
    prompts, own,   \* prompt.json and prompt.local.json
    step,           \* how far each process has come
    release,        \* the release each process runs
    store,          \* what the prompt store of each process holds
    wrote,          \* history: what the operator wrote and did not take back
    starts, edits, crashes

setupVars == <<prices, stamp, loops, seed, prompts, own, step, release, store,
               wrote, starts, edits, crashes>>

Steps == {"off", "prices", "stamp", "loops", "seed", "prompts", "installed",
          "legacy", "load", "on", "refused"}
PromptIds == Ids(Legacy) \cup NewIds \cup UNION {Ids(PromptsOf[r]) : r \in Releases}
PromptRow == [id : PromptIds,
              text : Typed \cup Texts(Legacy) \cup UNION {Texts(PromptsOf[r]) : r \in Releases},
              top : Marks]
IsRows(rows) == ToSet(rows) \subseteq PromptRow
IsLayer(layer) == IsRows(layer.rows) /\ layer.hidden \subseteq PromptIds
NoStore == [installed |-> <<>>, own |-> Empty]

SetupTypeOK ==
    /\ prices \in Releases \cup {None, Torn, Mine}
    /\ stamp \in Releases \cup {None}
    /\ loops \in {None, Torn} \/ loops \in [Records -> Releases \cup {None, Mine}]
    /\ seed = None \/ seed \in [Records -> Releases \cup {None}]
    /\ prompts \in {None, Torn} \/ IsRows(prompts)
    /\ own = None \/ IsLayer(own)
    /\ step \in [Processes -> Steps]
    /\ release \in [Processes -> Releases]
    /\ \A p \in Processes : IsRows(store[p].installed) /\ IsLayer(store[p].own)
    /\ starts \in 0 .. MaxStarts /\ edits \in 0 .. MaxEdits /\ crashes \in 0 .. MaxCrashes

\* A new directory, or one that a build without stamps left behind.
SetupInit ==
    /\ prices \in {None, Superseded, Mine}
    /\ stamp = None
    /\ loops = None /\ seed = None
    /\ prompts = None /\ own = None
    /\ step = [p \in Processes |-> "off"]
    /\ release = [p \in Processes |-> Superseded]
    /\ store = [p \in Processes |-> NoStore]
    /\ wrote = [prices |-> prices = Mine, records |-> {}, texts |-> {}, removed |-> {}]
    /\ starts = 0 /\ edits = 0 /\ crashes = 0

GoTo(p, s) == step' = [step EXCEPT ![p] = s]

Begins(p) ==
    /\ step[p] \in {"off", "refused"}
    /\ starts < MaxStarts
    /\ starts' = starts + 1
    /\ \E r \in Releases :
          /\ Rollback \/ \A q \in Processes : r >= release[q]
          /\ release' = [release EXCEPT ![p] = r]
    /\ GoTo(p, "prices")
    /\ UNCHANGED <<prices, stamp, loops, seed, prompts, own, store, wrote, edits, crashes>>

-----------------------------------------------------------------------------
(* loadPrices()                                                            *)

\* The table is the tool's while the stamp is that of the bytes in the file; an
\* unstamped one only when it is the superseded seed.
IsUncorrectedSeed == prices = Superseded
Owned == prices = None \/ IF stamp = None THEN IsUncorrectedSeed ELSE prices = stamp

InstallPrices(p) ==
    /\ step[p] = "prices"
    /\ IF prices = Torn
       THEN GoTo(p, "refused") /\ UNCHANGED prices
       ELSE IF Owned
            THEN GoTo(p, "stamp") /\ prices' = release[p]
            ELSE GoTo(p, "loops") /\ UNCHANGED prices
    /\ UNCHANGED <<stamp, loops, seed, prompts, own, release, store, wrote, starts, edits, crashes>>

StampPrices(p) ==
    /\ step[p] = "stamp"
    /\ stamp' = release[p]
    /\ GoTo(p, "loops")
    /\ UNCHANGED <<prices, loops, seed, prompts, own, release, store, wrote, starts, edits, crashes>>

-----------------------------------------------------------------------------
(* loadLoopSource()                                                        *)

\* A plausible bug: the seed is not looked at.
MutantMerged(shipped, file) ==
    [n \in Records |-> IF shipped[n] = None THEN file[n]
                       ELSE IF file[n] \in {None, shipped[n]} THEN shipped[n] ELSE file[n]]

\* mergeRuntime(): what the operator changed or added stays, the rest follows the
\* release.  Without a digest from before, the release's own stands in for it.
Merged(shipped, file) ==
    LET baseline(n) == IF seed = None \/ seed[n] = None THEN shipped[n] ELSE seed[n]
    IN  [n \in Records |->
            IF shipped[n] # None /\ file[n] \in {None, baseline(n), shipped[n]}
            THEN shipped[n] ELSE file[n]]

InstallLoops(p) ==
    LET shipped == RecordsOf[release[p]] IN
    /\ step[p] = "loops"
    /\ IF loops = Torn
       THEN GoTo(p, "refused") /\ UNCHANGED loops
       ELSE GoTo(p, "seed") /\ loops' = IF loops = None THEN shipped ELSE Merged(shipped, loops)
    /\ UNCHANGED <<prices, stamp, seed, prompts, own, release, store, wrote, starts, edits, crashes>>

SeedLoops(p) ==
    /\ step[p] = "seed"
    /\ seed' = RecordsOf[release[p]]
    /\ GoTo(p, "prompts")
    /\ UNCHANGED <<prices, stamp, loops, prompts, own, release, store, wrote, starts, edits, crashes>>

-----------------------------------------------------------------------------
(* installPromptSource(), migrateLegacyPromptFile() and PromptStore.load()  *)

\* The operator's layer is empty to the store and to the installer without its file.
Readable(layer) == IF layer = None THEN Empty ELSE layer

\* The file is created; or what it holds and the release does not moves into the
\* operator's layer first.
AdoptPrompts(p) ==
    LET shipped == PromptsOf[release[p]]
        moved == IF prompts \in {None, Torn} THEN <<>>
                 ELSE Adopted(prompts, shipped, Readable(own)) IN
    /\ step[p] = "prompts"
    /\ IF prompts = None
       THEN GoTo(p, "legacy") /\ prompts' = shipped /\ UNCHANGED own
       ELSE /\ GoTo(p, IF prompts = shipped THEN "legacy" ELSE "installed")
            /\ own' = IF moved = <<>> THEN own
                      ELSE [Readable(own) EXCEPT !.rows = @ \o moved]
            /\ UNCHANGED prompts
    /\ UNCHANGED <<prices, stamp, loops, seed, release, store, wrote, starts, edits, crashes>>

InstallPrompts(p) ==
    /\ step[p] = "installed"
    /\ prompts' = PromptsOf[release[p]]
    /\ GoTo(p, "legacy")
    /\ UNCHANGED <<prices, stamp, loops, seed, own, release, store, wrote, starts, edits, crashes>>

MigrateLegacy(p) ==
    LET missing == MissingFrom(Legacy, prompts) IN
    /\ step[p] = "legacy"
    /\ own' = IF own = None /\ missing # <<>> THEN [Empty EXCEPT !.rows = missing] ELSE own
    /\ GoTo(p, "load")
    /\ UNCHANGED <<prices, stamp, loops, seed, prompts, release, store, wrote, starts, edits, crashes>>

LoadPrompts(p) ==
    /\ step[p] = "load"
    /\ store' = [store EXCEPT ![p] = [installed |-> prompts, own |-> Readable(own)]]
    /\ GoTo(p, "on")
    /\ UNCHANGED <<prices, stamp, loops, seed, prompts, own, release, wrote, starts, edits, crashes>>

-----------------------------------------------------------------------------
(* The running client: commitLocal() puts the layer in memory and in the    *)
(* file, or in neither when the write fails, which is a step of nothing.    *)

Shown(p) == Listing(store[p].installed, store[p].own)

Edit(p, layer, written) ==
    /\ step[p] = "on"
    /\ edits < MaxEdits
    /\ edits' = edits + 1
    /\ store' = [store EXCEPT ![p].own = layer]
    /\ own' = layer
    /\ wrote' = written
    /\ UNCHANGED <<prices, stamp, loops, seed, prompts, step, release, starts, crashes>>

SavePrompt(p, text) ==
    /\ text \notin Texts(Shown(p))
    /\ Len(store[p].own.rows) < MaxSaved
    /\ \E id \in NewIds \ Ids(store[p].own.rows) :
          Edit(p, Saved(store[p].installed, store[p].own, id, text),
               [wrote EXCEPT !.texts = @ \cup {text},
                             !.removed = @ \ {r.id : r \in {x \in ToSet(store[p].installed) : x.text = text}}])

\* What the operator wrote for a prompt, in whichever file it stands.
TextsOf(p, id) == {row.text : row \in {r \in ToSet(store[p].own.rows) \cup ToSet(prompts) : r.id = id}}

UpdatePrompt(p, id, text) ==
    /\ id \in Ids(store[p].own.rows) \cup Ids(store[p].installed)
    /\ Edit(p, Updated(store[p].own, id, text),
            [wrote EXCEPT !.texts = (@ \ TextsOf(p, id)) \cup {text}, !.removed = @ \ {id}])

RemovePrompt(p, id) ==
    /\ \/ id \in Ids(store[p].own.rows)
       \/ id \in Ids(store[p].installed) \ store[p].own.hidden
    /\ Edit(p, Removed(store[p].installed, store[p].own, id),
            [wrote EXCEPT !.texts = @ \ TextsOf(p, id),
                          !.removed = @ \cup ({id} \cap Ids(store[p].installed))])

Quits(p) ==
    /\ step[p] = "on"
    /\ GoTo(p, "off")
    /\ store' = [store EXCEPT ![p] = NoStore]
    /\ UNCHANGED <<prices, stamp, loops, seed, prompts, own, release, wrote, starts, edits, crashes>>

-----------------------------------------------------------------------------
(* A crash, and the operator's editor.                                     *)

\* The process dies between two steps, or while it creates a file.
Crashes(p) ==
    /\ step[p] \notin {"off", "refused"}
    /\ crashes < MaxCrashes
    /\ crashes' = crashes + 1
    /\ prices' \in IF step[p] = "prices" /\ prices = None THEN {None, Torn} ELSE {prices}
    /\ loops' \in IF step[p] = "loops" /\ loops = None THEN {None, Torn} ELSE {loops}
    /\ prompts' \in IF step[p] = "prompts" /\ prompts = None THEN {None, Torn} ELSE {prompts}
    /\ GoTo(p, "off")
    /\ store' = [store EXCEPT ![p] = NoStore]
    /\ UNCHANGED <<stamp, seed, own, release, wrote, starts, edits>>

ByHand ==
    /\ \A p \in Processes : step[p] \in {"off", "refused"}
    /\ edits < MaxEdits
    /\ edits' = edits + 1
    /\ UNCHANGED <<stamp, seed, own, step, release, store, starts, crashes>>

HandPrices ==
    /\ ByHand
    /\ prices # Mine
    /\ prices' = Mine
    /\ wrote' = [wrote EXCEPT !.prices = TRUE]
    /\ UNCHANGED <<loops, prompts>>

HandRecord(n) ==
    /\ ByHand
    /\ loops \notin {None, Torn}
    /\ loops' = [loops EXCEPT ![n] = Mine]
    /\ wrote' = [wrote EXCEPT !.records = @ \cup {n}]
    /\ UNCHANGED <<prices, prompts>>

\* A new text for an installed prompt the operator has no version of their own of.
HandPrompt(i, text) ==
    /\ ByHand
    /\ \A r \in Releases : text \notin Texts(PromptsOf[r])
    /\ prompts \notin {None, Torn} /\ i \in DOMAIN prompts
    /\ prompts[i].id \notin Ids(Readable(own).rows)
    /\ prompts' = [prompts EXCEPT ![i].text = text]
    /\ wrote' = [wrote EXCEPT !.texts = (@ \ {prompts[i].text}) \cup {text},
                              !.removed = @ \ {prompts[i].id}]
    /\ UNCHANGED <<prices, loops>>

SetupNext ==
    \/ \E p \in Processes :
          \/ Begins(p)
          \/ InstallPrices(p) \/ StampPrices(p)
          \/ InstallLoops(p) \/ SeedLoops(p)
          \/ AdoptPrompts(p) \/ InstallPrompts(p) \/ MigrateLegacy(p) \/ LoadPrompts(p)
          \/ \E text \in Typed :
                SavePrompt(p, text) \/ \E id \in PromptIds : UpdatePrompt(p, id, text)
          \/ \E id \in PromptIds : RemovePrompt(p, id)
          \/ Quits(p)
          \/ Crashes(p)
    \/ HandPrices
    \/ \E n \in Records : HandRecord(n)
    \/ \E i \in 1 .. MaxSaved, text \in Typed : HandPrompt(i, text)

SetupSpec == SetupInit /\ [][SetupNext]_setupVars

-----------------------------------------------------------------------------
(* What is checked.                                                        *)

RowsOf(file) == IF file \in {None, Torn} THEN <<>> ELSE file

\* The price table and the loop records the operator wrote survive every upgrade, every
\* return to an older release and every crash.
SettingsSurvive ==
    /\ wrote.prices => prices = Mine
    /\ \A n \in wrote.records : loops[n] = Mine

\* What the operator wrote survives: their settings, and the text of every prompt they
\* saved, changed or wrote into the installed file and did not take back.
EditsSurvive ==
    /\ SettingsSurvive
    /\ wrote.texts \subseteq Texts(RowsOf(prompts)) \cup Texts(Readable(own).rows)

\* What nobody edited follows the release that runs, unless a start was cut short.
FollowsRelease(p) ==
    LET shipped == RecordsOf[release[p]] IN
    /\ ~wrote.prices => prices = release[p]
    /\ \A n \in Records \ wrote.records : shipped[n] # None => loops[n] = shipped[n]
    /\ prompts = PromptsOf[release[p]]

\* Prompts that some release gave another text than another release.
Reworded == {id \in PromptIds : Cardinality({row.text : row \in
                {x \in UNION {ToSet(PromptsOf[r]) : r \in Releases} : x.id = id}}) > 1}

\* The list of a client that runs shows every text the operator wrote, and the row
\* of no shipped prompt they removed, unless a release reworded it; memory and file
\* agree on their layer.
ShowsTheirs(p) ==
    /\ wrote.texts \subseteq Texts(Shown(p))
    /\ (wrote.removed \ Reworded) \cap Ids(Shown(p)) = {}
    /\ store[p].own = Readable(own)

\* A client that has started works with the files of its release where nobody
\* edited them, and with the operator's where they did.
StartsCurrent ==
    \A p \in Processes : step[p] = "on" =>
        /\ crashes = 0 => FollowsRelease(p)
        /\ ShowsTheirs(p)

\* An upgrade brings the release and keeps what is the operator's, on disk and in the
\* list of the client that made it.
UpgradesKeep == EditsSurvive /\ StartsCurrent

-----------------------------------------------------------------------------
(* What the documentation says beyond that; each is refuted.               *)

\* An installed prompt that was removed does not come back.
RemovedStayAway ==
    \A p \in Processes : step[p] = "on" => wrote.removed \cap Ids(Shown(p)) = {}

\* While the operator has not edited the table, it follows the release.
UneditedPricesFollow ==
    \A p \in Processes : step[p] = "on" /\ ~wrote.prices => prices = release[p]

\* A start leaves no file behind that stops the next one.
NeverRefused == \A p \in Processes : step[p] # "refused"

\* Refreshing the installed prompts drops nothing that the file held.
NothingDropped ==
    [][ \A p \in Processes :
          step[p] = "prompts" /\ step'[p] = "installed" /\ prompts # Torn =>
             Texts(prompts) \subseteq Texts(PromptsOf[release[p]]) \cup Texts(own'.rows) ]_setupVars
=============================================================================
