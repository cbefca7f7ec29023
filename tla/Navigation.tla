----------------------------- MODULE Navigation -----------------------------
(***************************************************************************)
(* session/navigator.ts with the parts of session/controller.ts and        *)
(* controller/controller.ts that drive it: which screen and which session  *)
(* the reader is at, and which lists the pickers show.                     *)
(*                                                                         *)
(* One operation at a time holds the foreground slot.  What runs beside it *)
(* is the connection: a new generation loads the lists, adopts the         *)
(* workspace of the local directory or goes back to a session.  Which      *)
(* workspace is selected only filters the lists and is left out.           *)
(***************************************************************************)
EXTENDS Integers

CONSTANTS
    Sessions,
    Initial,     \* the sessions the client may be started with, None for none
    Local,       \* the host knows a workspace that holds the local directory
    None,
    MaxOps,      \* bound: operations, and changes of screen without one
    MaxDrops     \* bound: lost connections

ASSUME NavigationAssumption ==
    /\ None \notin Sessions /\ Initial \subseteq Sessions \cup {None} /\ Local \in BOOLEAN
    /\ MaxOps \in Nat /\ MaxDrops \in Nat

VARIABLES
    online,
    settled,       \* connectionSettled: this generation's lists and selection are done
    initialized,
    screen, shown, \* what the reader is at: a screen and a selected session
    slot,          \* who holds the foreground slot
    op,            \* the navigator's task, or the removal, in the slot
    refresh,       \* version of the list load of a new generation, or 0
    listsVersion,  \* loads started
    listed,        \* the load whose lists are published
    revision,      \* intents
    ops, drops

conn == <<online, settled, initialized, refresh, drops>>
view == <<screen, shown>>
lists == <<listsVersion, listed>>
navVars == <<conn, view, lists, slot, op, revision, ops>>

Screens == {"workspaces", "sessions", "chat", "path"}
Kinds == {"picker", "open", "workspace", "create", "register", "remove"}
Targets == Screens \cup Sessions \cup {None}

\* An operation: what it is to do, how far it is, the load it waits for, the intent it
\* was started as, and why check() would refuse it.
NoOp == [kind |-> "none", target |-> None, phase |-> "none", version |-> 0, revision |-> 0, stop |-> {}]

NavTypeOK ==
    /\ {online, settled, initialized} \subseteq BOOLEAN
    /\ screen \in Screens /\ shown \in Sessions \cup {None}
    /\ slot \in {"free", "navigation", "interaction"}
    /\ op = NoOp \/ (op.kind \in Kinds /\ op.target \in Targets /\ slot = "navigation"
                     /\ op.phase \in {"starting", "making", "loading", "removing"}
                     /\ op.revision \in 0 .. revision /\ op.version \in 0 .. listsVersion
                     /\ op.stop \subseteq {"aborted", "moved", "lost"})
    /\ refresh \in 0 .. listsVersion /\ listed \in 0 .. listsVersion
    /\ settled => online /\ refresh = 0

NavInit ==
    /\ online = FALSE /\ settled = FALSE /\ initialized = FALSE
    /\ screen = "workspaces" /\ shown = None
    /\ slot = "free" /\ op = NoOp
    /\ refresh = 0 /\ listsVersion = 0 /\ listed = 0
    /\ revision = 0 /\ ops = 0 /\ drops = 0

-----------------------------------------------------------------------------
(* What the operations are made of.                                        *)

Stopped(why) == IF op = NoOp THEN op ELSE [op EXCEPT !.stop = @ \cup why]

\* cancel(): a new intent; the running task is aborted, a removal only compares.
Cancel == revision' = revision + 1 /\ op' = Stopped({"aborted"})

\* followSession() on behalf of a navigation.
Show(session) == shown' = session /\ screen' = "chat"

\* commitWorkspace(): no session is selected.
Leave == shown' = None /\ screen' = "sessions"

\* publishLists(): only the newest load.
Publish(version) == listed' = IF version = listsVersion THEN version ELSE listed

Current == op.stop = {}
End == op' = NoOp /\ slot' = "free"

-----------------------------------------------------------------------------
(* The reader.                                                             *)

Free == slot = "free"

\* showPicker, switchSession, switchWorkspace, createSession and createWorkspace: a
\* navigator's task.  switchSession without a query ends at a picker too.
Start(kind, target) ==
    /\ online /\ Free /\ ops < MaxOps /\ ops' = ops + 1
    /\ slot' = "navigation" /\ revision' = revision + 1
    /\ op' = [NoOp EXCEPT !.kind = kind, !.target = target, !.phase = "starting", !.revision = revision']
    /\ UNCHANGED <<conn, view, lists>>

\* removeTarget() of a session: it notes the intent and archives.
RemoveTarget(session) ==
    /\ online /\ Free /\ ops < MaxOps /\ ops' = ops + 1
    /\ slot' = "navigation"
    /\ op' = [NoOp EXCEPT !.kind = "remove", !.target = session, !.phase = "removing", !.revision = revision]
    /\ UNCHANGED <<conn, view, lists, revision>>

\* The screens change without a load: a row picked, Esc, a session chosen.
Select(session) ==
    /\ online /\ Free /\ ops < MaxOps /\ ops' = ops + 1
    /\ Cancel /\ Show(session)
    /\ UNCHANGED <<conn, lists, slot>>

ShowChat ==
    /\ shown # None /\ screen \in {"workspaces", "sessions"}
    /\ Free /\ ops < MaxOps /\ ops' = ops + 1
    /\ Cancel /\ screen' = "chat"
    /\ UNCHANGED <<conn, shown, lists, slot>>

EnterPath ==
    /\ online /\ screen = "workspaces" /\ Free /\ ops < MaxOps /\ ops' = ops + 1
    /\ Cancel /\ screen' = "path"
    /\ UNCHANGED <<conn, shown, lists, slot>>

PickWorkspace ==
    /\ online /\ screen = "workspaces" /\ Free /\ ops < MaxOps /\ ops' = ops + 1
    /\ Cancel /\ Leave
    /\ UNCHANGED <<conn, lists, slot>>

\* Esc aborts the signal of the operation in the slot; a removal has none.
Escape ==
    /\ slot = "navigation" /\ op.kind # "remove" /\ Current
    /\ op' = Stopped({"aborted"})
    /\ UNCHANGED <<conn, view, lists, slot, revision, ops>>

-----------------------------------------------------------------------------
(* The running operation.                                                  *)

\* run(): a microtask later; then the host makes a session or a workspace, or the
\* lists are loaded.
Begin ==
    /\ op.phase = "starting" /\ Current /\ online
    /\ IF op.kind \in {"create", "register"}
       THEN op' = [op EXCEPT !.phase = "making"] /\ UNCHANGED lists
       ELSE /\ listsVersion' = listsVersion + 1 /\ UNCHANGED listed
            /\ op' = [op EXCEPT !.phase = "loading", !.version = listsVersion']
    /\ UNCHANGED <<conn, view, slot, revision, ops>>

\* createSession() follows what it made; createWorkspace() loads the lists.
Created ==
    /\ op.phase = "making" /\ op.kind = "create" /\ Current
    /\ Show(op.target) /\ End
    /\ UNCHANGED <<conn, lists, revision, ops>>

Registered ==
    /\ op.phase = "making" /\ op.kind = "register" /\ Current
    /\ listsVersion' = listsVersion + 1
    /\ op' = [op EXCEPT !.phase = "loading", !.version = listsVersion']
    /\ UNCHANGED <<conn, view, listed, slot, revision, ops>>

\* load() returns: the lists are published, and the view the operation is for is shown.
Loaded(kinds) ==
    /\ op.phase = "loading" /\ op.kind \in kinds /\ Current
    /\ Publish(op.version) /\ End
    /\ UNCHANGED <<conn, listsVersion, revision, ops>>

LoadedPicker == Loaded({"picker"}) /\ screen' = op.target /\ UNCHANGED shown
LoadedSession == Loaded({"open"}) /\ Show(op.target)
LoadedWorkspace == Loaded({"workspace", "register"}) /\ Leave

\* Archived: the reader leaves that session, or comes to the picker unless something
\* else was asked for since; the lists are loaded.
Archived ==
    /\ op.phase = "removing" /\ "lost" \notin op.stop
    /\ listsVersion' = listsVersion + 1
    /\ op' = [op EXCEPT !.phase = "loading", !.version = listsVersion']
    /\ UNCHANGED <<conn, listed, slot, ops>>

RemovedShown == shown = op.target /\ Archived /\ revision' = revision + 1 /\ Leave

RemovedOther ==
    /\ shown # op.target /\ Archived
    /\ screen' = IF op.revision = revision THEN "sessions" ELSE screen
    /\ UNCHANGED <<revision, shown>>

RemovalListed ==
    /\ op.phase = "loading" /\ op.kind = "remove" /\ "lost" \notin op.stop
    /\ Publish(op.version) /\ End
    /\ UNCHANGED <<conn, view, listsVersion, revision, ops>>

\* check() throws, or the host refuses.
Fails ==
    /\ op # NoOp /\ End
    /\ UNCHANGED <<conn, view, lists, revision, ops>>

-----------------------------------------------------------------------------
(* The connection.                                                         *)

Connect ==
    /\ ~online /\ online' = TRUE
    /\ listsVersion' = listsVersion + 1 /\ refresh' = listsVersion'
    /\ UNCHANGED <<settled, initialized, drops, view, listed, slot, op, revision, ops>>

\* ready() goes on when its lists are there: at first it may adopt the workspace of the
\* directory; a selected session is followed again; else the initial one is selected.
ListsReady ==
    /\ refresh # 0 /\ refresh' = 0
    /\ Publish(refresh)
    /\ settled' = TRUE /\ initialized' = TRUE
    /\ UNCHANGED <<online, drops, listsVersion, slot, ops>>

Adopts == ~initialized /\ screen = "workspaces" /\ shown = None /\ None \in Initial /\ Local

Adopt == Adopts /\ ListsReady /\ listed' > 0 /\ Cancel /\ Leave
Restore == shown # None /\ ListsReady /\ op' = Stopped({"moved"}) /\ UNCHANGED <<revision, view>>
SelectInitial ==
    /\ shown = None /\ ~initialized /\ ListsReady /\ Cancel
    /\ \E session \in Initial \ {None} : Show(session)

StayAtPicker ==
    /\ shown = None /\ (None \in Initial \/ initialized)
    /\ ListsReady /\ (Adopts => listed' = 0)
    /\ UNCHANGED <<op, revision, view>>

\* endGeneration(): every task is aborted, the selection moves, the client is gone.
Down ==
    /\ online /\ drops < MaxDrops /\ drops' = drops + 1
    /\ online' = FALSE /\ settled' = FALSE /\ refresh' = 0
    /\ revision' = revision + 1
    /\ op' = Stopped({"aborted", "moved", "lost"})
    /\ UNCHANGED <<initialized, view, lists, slot, ops>>

\* The selection changes, and what belonged to it is given up; or it stays.
Selects ==
    \/ \E session \in Sessions : Select(session)
    \/ PickWorkspace \/ Created \/ LoadedSession \/ LoadedWorkspace \/ RemovedShown
    \/ Adopt \/ Restore \/ SelectInitial

Stays ==
    \/ \E target \in {"workspaces", "sessions"} : Start("picker", target)
    \/ \E session \in Sessions : Start("open", session) \/ Start("create", session) \/ RemoveTarget(session)
    \/ Start("workspace", None) \/ Start("register", None)
    \/ ShowChat \/ EnterPath \/ Escape
    \/ Begin \/ Registered \/ LoadedPicker \/ RemovedOther \/ RemovalListed \/ Fails
    \/ Connect \/ StayAtPicker \/ Down

-----------------------------------------------------------------------------
(* What is checked.                                                        *)

\* An operation that has been waiting for the host changes what the reader looks at
\* only if nothing was asked for since, by the reader or by a new generation.
NewestIntentOpens ==
    [][ Created \/ LoadedPicker \/ LoadedSession \/ LoadedWorkspace \/ RemovedOther =>
          (view' # view => op.revision = revision /\ online) ]_navVars

\* The lists are loaded beside each other; what is shown never becomes older.
ListsNeverGoBack == [][ listed' >= listed ]_navVars

\* What the navigator says of itself: what the reader intends and gives up does not
\* decide whether a background refresh arrives.  With a generation settled, its lists
\* or newer ones are shown.
NewestLoad == IF op = NoOp THEN 0 ELSE op.version
RefreshArrives == settled => listed > 0 \/ NewestLoad > 0
=============================================================================
