-------------------------- MODULE Attention_proofs --------------------------
(***************************************************************************)
(* Theorems about Navigation and Attention, for any sessions, requests and *)
(* policies, and however long the reader and the host go on.               *)
(***************************************************************************)
EXTENDS Attention, SequenceTheorems, WellFoundedInduction, TLAPS

-----------------------------------------------------------------------------
(* The operation in the slot.                                              *)

Phases == {"starting", "making", "loading", "removing"}

OpRecords ==
    [kind : Kinds \cup {"none"}, target : Targets, phase : Phases \cup {"none"},
     version : Nat, revision : Nat, stop : SUBSET {"aborted", "moved", "lost"}]

\* What an operation is for, and what it may still do: unless it was stopped nothing was
\* asked for since it started, and only a lost generation takes the client from it.
OpFits ==
    /\ op.kind \in Kinds /\ slot = "navigation" /\ op.phase \in Phases
    /\ op.revision <= revision /\ op.version <= listsVersion
    /\ op.kind = "picker" => op.target \in Screens
    /\ op.kind \in {"open", "create"} => op.target \in Sessions
    /\ op.phase = "removing" => op.kind = "remove"
    /\ op.phase = "making" => op.kind \in {"create", "register"}
    /\ op.kind # "remove" /\ op.stop = {} => op.revision = revision
    /\ "lost" \notin op.stop => online

OpInv == op \in OpRecords /\ (op # NoOp => OpFits)

PlaceInv ==
    /\ online \in BOOLEAN /\ settled \in BOOLEAN /\ initialized \in BOOLEAN
    /\ screen \in Screens /\ shown \in Sessions \cup {None}
    /\ slot \in {"free", "navigation", "interaction"}
    /\ revision \in Nat /\ listsVersion \in Nat
    /\ refresh \in 0 .. listsVersion /\ listed \in 0 .. listsVersion
    /\ settled => online /\ refresh = 0
    /\ refresh # 0 => online

NavInv == PlaceInv /\ OpInv

LEMMA NoOpFields ==
    /\ NoOp \in OpRecords /\ NoOp.kind = "none" /\ NoOp.version = 0
    /\ NoOp.stop = {} /\ NoOp.target = None
  BY DEF NoOp, OpRecords, Targets

\* The record of an operation that starts, goes on or is stopped, field by field.
Started(kind, target, phase, at) ==
    [NoOp EXCEPT !.kind = kind, !.target = target, !.phase = phase, !.revision = at]

Advanced(phase, v) == [op EXCEPT !.phase = phase, !.version = v]

LEMMA StartedFields ==
    ASSUME NEW kind \in Kinds, NEW target \in Targets, NEW phase \in Phases, NEW at \in Nat
    PROVE  LET q == Started(kind, target, phase, at) IN
           /\ q \in OpRecords
           /\ q.kind = kind /\ q.target = target /\ q.phase = phase
           /\ q.revision = at /\ q.version = 0 /\ q.stop = {}
<1>1. PICK K, T, P, S : /\ K = Kinds \cup {"none"} /\ T = Targets /\ P = Phases \cup {"none"}
                       /\ S = SUBSET {"aborted", "moved", "lost"}
                       /\ OpRecords = [kind : K, target : T, phase : P, version : Nat, revision : Nat, stop : S]
  BY DEF OpRecords
<1>2. kind \in K /\ target \in T /\ phase \in P BY <1>1
<1> QED BY <1>1, <1>2, NoOpFields DEF Started

LEMMA AdvancedFields ==
    ASSUME op \in OpRecords, NEW phase \in Phases, NEW v \in Nat
    PROVE  LET q == Advanced(phase, v) IN
           /\ q \in OpRecords
           /\ q.kind = op.kind /\ q.target = op.target /\ q.phase = phase
           /\ q.revision = op.revision /\ q.version = v /\ q.stop = op.stop
<1>1. PICK K, T, P, S : /\ P = Phases \cup {"none"}
                       /\ OpRecords = [kind : K, target : T, phase : P, version : Nat, revision : Nat, stop : S]
  BY DEF OpRecords
<1> QED BY <1>1 DEF Advanced

LEMMA StoppedFields ==
    ASSUME op \in OpRecords, op # NoOp, NEW why \in SUBSET {"aborted", "moved", "lost"}
    PROVE  /\ Stopped(why) \in OpRecords
           /\ Stopped(why).kind = op.kind /\ Stopped(why).target = op.target
           /\ Stopped(why).phase = op.phase /\ Stopped(why).revision = op.revision
           /\ Stopped(why).version = op.version /\ Stopped(why).stop = op.stop \cup why
<1>1. PICK K, T, P, S : /\ S = SUBSET {"aborted", "moved", "lost"}
                       /\ OpRecords = [kind : K, target : T, phase : P, version : Nat, revision : Nat, stop : S]
  BY DEF OpRecords
<1>2. op.stop \cup why \in S BY <1>1
<1>3. Stopped(why) = [op EXCEPT !.stop = op.stop \cup why] BY DEF Stopped
<1> QED BY <1>1, <1>2, <1>3

LEMMA NavInvIsTyped == NavInv => NavTypeOK
<1> SUFFICES ASSUME NavInv PROVE NavTypeOK
  OBVIOUS
<1>1. op.stop \subseteq {"aborted", "moved", "lost"} /\ op.target \in Targets
      /\ op.revision \in Nat /\ op.version \in Nat
  BY DEF NavInv, OpInv, OpRecords
<1> QED BY <1>1 DEF NavInv, PlaceInv, OpInv, OpFits, NavTypeOK, Phases

LEMMA NavInitInv == NavInit => NavInv
<1> SUFFICES ASSUME NavInit PROVE NavInv
  OBVIOUS
<1>1. online \in BOOLEAN /\ settled \in BOOLEAN /\ initialized \in BOOLEAN /\ ~settled
  BY Zenon DEF NavInit
<1> QED BY <1>1, NoOpFields DEF NavInit, NavInv, PlaceInv, OpInv, Screens

\* An operation that is left alone still fits, unless its generation is lost.
LEMMA OpKept ==
    ASSUME NavInv, UNCHANGED <<slot, op, revision>>, listsVersion' \in Nat,
           listsVersion' >= listsVersion, online => online'
    PROVE  OpInv'
<1>1. op # NoOp => op.version \in Nat BY DEF NavInv, OpInv, OpRecords
<1> QED BY <1>1 DEF NavInv, PlaceInv, OpInv, OpFits

\* A new intent, or a new place, stops the operation that was running.
LEMMA OpStopped ==
    ASSUME NavInv, NEW why \in SUBSET {"aborted", "moved", "lost"}, why # {}, op' = Stopped(why),
           UNCHANGED slot, revision' \in Nat, revision' >= revision,
           listsVersion' \in Nat, listsVersion' >= listsVersion, online => online' \/ "lost" \in why
    PROVE  OpInv'
<1>1. CASE op = NoOp BY <1>1, NoOpFields DEF Stopped, OpInv
<1>2. CASE op # NoOp
  <2>1. op.version \in Nat /\ op.revision \in Nat BY DEF NavInv, OpInv, OpRecords
  <2> QED BY <1>2, <2>1, StoppedFields DEF NavInv, PlaceInv, OpInv, OpFits
<1> QED BY <1>1, <1>2

\* An operation goes on: it waits for a load, or for the host.
LEMMA OpGoesOn ==
    ASSUME NavInv, op # NoOp, NEW phase \in {"making", "loading"}, NEW v \in Nat,
           op' = [op EXCEPT !.phase = phase, !.version = v],
           UNCHANGED <<online, slot>>, revision' \in Nat, revision' >= revision,
           listsVersion' \in Nat, listsVersion' >= listsVersion, v <= listsVersion',
           phase = "making" => op.kind \in {"create", "register"},
           revision' = revision \/ op.kind = "remove"
    PROVE  OpInv'
<1>1. op.revision \in Nat BY DEF NavInv, OpInv, OpRecords
<1>2. /\ op' \in OpRecords
      /\ op'.kind = op.kind /\ op'.target = op.target /\ op'.phase = phase
      /\ op'.revision = op.revision /\ op'.version = v /\ op'.stop = op.stop
  <2>1. op \in OpRecords /\ phase \in Phases BY DEF NavInv, OpInv, Phases
  <2>2. op' = Advanced(phase, v) BY DEF Advanced
  <2> QED BY <2>1, <2>2, AdvancedFields
<1>3. OpFits' BY <1>1, <1>2 DEF NavInv, PlaceInv, OpInv, OpFits, Phases
<1> QED BY <1>2, <1>3 DEF OpInv

LEMMA OpEnds == ASSUME op' = NoOp PROVE OpInv'
  BY NoOpFields DEF OpInv

-----------------------------------------------------------------------------
(* The steps of the reader, the operation and the connection.              *)

\* The reader goes somewhere, with a new intent, while nothing is in the slot.
LEMMA CancelInv ==
    ASSUME NavInv, Cancel, UNCHANGED <<conn, lists, slot>>,
           screen' \in Screens, shown' \in Sessions \cup {None}
    PROVE  NavInv'
<1>1. revision' = revision + 1 /\ revision \in Nat BY DEF Cancel, NavInv, PlaceInv
<1>2. OpInv' BY <1>1, OpStopped DEF Cancel, conn, lists, NavInv, PlaceInv
<1> QED BY <1>1, <1>2 DEF NavInv, PlaceInv, conn, lists

LEMMA SelectInv == ASSUME NavInv, NEW session \in Sessions, Select(session) PROVE NavInv'
  BY CancelInv DEF Select, Show, Screens

LEMMA PickWorkspaceInv == ASSUME NavInv, PickWorkspace PROVE NavInv'
  BY CancelInv DEF PickWorkspace, Leave, Screens

LEMMA ScreenInv == ASSUME NavInv, ShowChat \/ EnterPath PROVE NavInv'
  BY CancelInv DEF ShowChat, EnterPath, Screens, NavInv, PlaceInv

LEMMA StartInv ==
    ASSUME NavInv, NEW kind \in Kinds \ {"remove"}, NEW target \in Targets, Start(kind, target),
           kind = "picker" => target \in Screens, kind \in {"open", "create"} => target \in Sessions
    PROVE  NavInv'
<1>1. revision' = revision + 1 /\ revision \in Nat /\ slot' = "navigation" /\ online
      /\ UNCHANGED <<conn, view, lists>>
  BY DEF Start, NavInv, PlaceInv
<1>2. op' = [NoOp EXCEPT !.kind = kind, !.target = target, !.phase = "starting", !.revision = revision']
  BY DEF Start
<1>3. /\ op' \in OpRecords /\ op'.kind = kind /\ op'.target = target /\ op'.phase = "starting"
      /\ op'.revision = revision' /\ op'.version = 0 /\ op'.stop = {}
  <2>1. "starting" \in Phases /\ revision' \in Nat /\ kind \in Kinds BY <1>1 DEF Phases
  <2>2. op' = Started(kind, target, "starting", revision') BY <1>2 DEF Started
  <2> QED BY <2>1, <2>2, StartedFields
<1>4. OpInv' BY <1>1, <1>3 DEF OpInv, OpFits, NavInv, PlaceInv, conn, lists, Phases
<1> QED BY <1>1, <1>4 DEF NavInv, PlaceInv, conn, view, lists

LEMMA RemoveTargetInv == ASSUME NavInv, NEW session \in Sessions, RemoveTarget(session) PROVE NavInv'
<1>1. revision' = revision /\ revision \in Nat /\ slot' = "navigation" /\ online
      /\ UNCHANGED <<conn, view, lists>>
  BY DEF RemoveTarget, NavInv, PlaceInv
<1>2. op' = [NoOp EXCEPT !.kind = "remove", !.target = session, !.phase = "removing", !.revision = revision]
  BY DEF RemoveTarget
<1>3. /\ op' \in OpRecords /\ op'.kind = "remove" /\ op'.target = session /\ op'.phase = "removing"
      /\ op'.revision = revision /\ op'.version = 0 /\ op'.stop = {}
  <2>1. "removing" \in Phases /\ revision \in Nat /\ "remove" \in Kinds /\ session \in Targets
    BY <1>1 DEF Phases, Kinds, Targets
  <2>2. op' = Started("remove", session, "removing", revision) BY <1>2 DEF Started
  <2> QED BY <2>1, <2>2, StartedFields
<1>4. OpInv' BY <1>1, <1>3 DEF OpInv, OpFits, NavInv, PlaceInv, conn, lists, Phases, Kinds
<1> QED BY <1>1, <1>4 DEF NavInv, PlaceInv, conn, view, lists

LEMMA EscapeInv == ASSUME NavInv, Escape PROVE NavInv'
<1>1. UNCHANGED <<conn, view, lists, slot, revision>> /\ op' = Stopped({"aborted"})
  BY DEF Escape
<1>2. OpInv' BY <1>1, OpStopped DEF NavInv, PlaceInv, conn, lists
<1> QED BY <1>1, <1>2 DEF NavInv, PlaceInv, conn, view, lists

\* An operation in one of its phases is there, with its numbers.
LEMMA OpIsThere ==
    ASSUME NavInv, op.phase \in Phases
    PROVE  op # NoOp /\ OpFits /\ op.version \in Nat /\ op.revision \in Nat
  BY DEF NavInv, OpInv, OpRecords, NoOp, Phases

\* Waiting for the lists, a load of its own is started.
LEMMA LoadsInv ==
    ASSUME NavInv, op.phase \in Phases, UNCHANGED <<conn, listed, slot>>, listsVersion' = listsVersion + 1,
           op' = [op EXCEPT !.phase = "loading", !.version = listsVersion'],
           screen' \in Screens, shown' \in Sessions \cup {None},
           revision' = revision \/ (op.kind = "remove" /\ revision' = revision + 1)
    PROVE  NavInv'
<1>1. /\ listsVersion \in Nat /\ listsVersion' \in Nat /\ listsVersion' >= listsVersion
      /\ revision' \in Nat /\ revision' >= revision
  BY DEF NavInv, PlaceInv
<1>2. OpInv'
  <2>1. op # NoOp /\ "loading" \in {"making", "loading"} /\ listsVersion' <= listsVersion'
        /\ UNCHANGED <<online, slot>> /\ (revision' = revision \/ op.kind = "remove")
        /\ ("loading" = "making" => op.kind \in {"create", "register"})
    BY <1>1, OpIsThere DEF conn
  <2> QED BY <1>1, <2>1, OpGoesOn, Zenon
<1> QED BY <1>1, <1>2 DEF NavInv, PlaceInv, conn

LEMMA BeginInv == ASSUME NavInv, Begin PROVE NavInv'
<1>1. op.phase \in Phases BY DEF Begin, Phases
<1>2. CASE op.kind \in {"create", "register"}
  <2>1. /\ op' = [op EXCEPT !.phase = "making"] /\ UNCHANGED <<conn, view, lists, slot, revision>>
    BY <1>2 DEF Begin
  <2>2. op # NoOp /\ op \in OpRecords /\ OpFits /\ op.version \in Nat /\ op.revision \in Nat
    BY <1>1, OpIsThere DEF NavInv, OpInv
  <2>3. [op EXCEPT !.phase = "making"] = [op EXCEPT !.phase = "making", !.version = op.version]
    BY <2>2 DEF OpRecords
  <2>4. op' = [op EXCEPT !.phase = "making", !.version = op.version]
    BY <2>1, <2>3
  <2>5. OpInv'
    <3>1. /\ "making" \in {"making", "loading"} /\ UNCHANGED <<online, slot>>
          /\ revision' \in Nat /\ revision' >= revision /\ revision' = revision
          /\ listsVersion' \in Nat /\ listsVersion' >= listsVersion /\ op.version <= listsVersion'
      BY <2>1, <2>2 DEF conn, lists, OpFits, NavInv, PlaceInv
    <3> QED BY <1>2, <2>2, <2>4, <3>1, OpGoesOn, Zenon
  <2> QED BY <2>1, <2>5 DEF NavInv, PlaceInv, conn, view, lists
<1>3. CASE op.kind \notin {"create", "register"}
  BY <1>1, <1>3, LoadsInv DEF Begin, view, NavInv, PlaceInv
<1> QED BY <1>2, <1>3

LEMMA RegisteredInv == ASSUME NavInv, Registered PROVE NavInv'
  BY LoadsInv DEF Registered, Phases, view, NavInv, PlaceInv

LEMMA ArchivedInv == ASSUME NavInv, RemovedShown \/ RemovedOther PROVE NavInv'
<1>1. op.phase \in Phases BY DEF RemovedShown, RemovedOther, Archived, Phases
<1>2. op.kind = "remove" BY <1>1, OpIsThere DEF RemovedShown, RemovedOther, Archived, OpFits
<1>3. screen' \in Screens /\ shown' \in Sessions \cup {None}
  BY DEF RemovedShown, RemovedOther, Leave, Screens, NavInv, PlaceInv
<1> QED BY <1>1, <1>2, <1>3, LoadsInv DEF RemovedShown, RemovedOther, Archived

\* The operation is over.
LEMMA EndInv ==
    ASSUME NavInv, End, UNCHANGED <<conn, listsVersion, revision>>, listed' \in 0 .. listsVersion,
           screen' \in Screens, shown' \in Sessions \cup {None}
    PROVE  NavInv'
  BY OpEnds DEF End, NavInv, PlaceInv, conn

LEMMA CreatedInv == ASSUME NavInv, Created PROVE NavInv'
<1>1. op.target \in Sessions
  BY OpIsThere DEF Created, Phases, OpFits
<1> QED BY <1>1, EndInv DEF Created, Show, Screens, lists, NavInv, PlaceInv

LEMMA LoadedInv ==
    ASSUME NavInv, LoadedPicker \/ LoadedSession \/ LoadedWorkspace \/ RemovalListed
    PROVE  NavInv'
<1>1. op.phase = "loading"
  BY DEF LoadedPicker, LoadedSession, LoadedWorkspace, RemovalListed, Loaded
<1>2. OpFits BY <1>1, OpIsThere DEF Phases
<1>3. /\ End /\ UNCHANGED <<conn, listsVersion, revision>>
      /\ Publish(op.version)
  BY DEF LoadedPicker, LoadedSession, LoadedWorkspace, RemovalListed, Loaded
<1>4. listed' \in 0 .. listsVersion
  BY <1>3 DEF Publish, NavInv, PlaceInv
<1>5. screen' \in Screens /\ shown' \in Sessions \cup {None}
  BY <1>2 DEF LoadedPicker, LoadedSession, LoadedWorkspace, RemovalListed, Loaded, OpFits, Show, Leave,
              view, Screens, NavInv, PlaceInv
<1> QED BY <1>3, <1>4, <1>5, EndInv

LEMMA FailsInv == ASSUME NavInv, Fails PROVE NavInv'
  BY EndInv DEF Fails, view, lists, NavInv, PlaceInv

LEMMA ConnectInv == ASSUME NavInv, Connect PROVE NavInv'
<1>1. /\ listsVersion' = listsVersion + 1 /\ refresh' = listsVersion' /\ listsVersion \in Nat
      /\ listed \in 0 .. listsVersion /\ online' = TRUE /\ ~online
      /\ UNCHANGED <<settled, initialized, view, listed, slot, op, revision>>
  BY DEF Connect, NavInv, PlaceInv
<1>2. online' \in BOOLEAN BY <1>1
<1>3. OpInv' BY <1>1, OpKept
<1> QED BY <1>1, <1>2, <1>3 DEF NavInv, PlaceInv, view

\* The lists of a new generation are there.
LEMMA ReadyPlace ==
    ASSUME NavInv, ListsReady
    PROVE  /\ online' = online /\ online' \in BOOLEAN /\ settled' \in BOOLEAN /\ initialized' \in BOOLEAN
           /\ refresh' = 0 /\ listsVersion' = listsVersion /\ listed' \in 0 .. listsVersion
           /\ listsVersion \in Nat /\ slot' = slot /\ online /\ revision \in Nat
<1>1. refresh # 0 /\ settled' = TRUE /\ initialized' = TRUE /\ online' = online /\ listsVersion' = listsVersion
      /\ slot' = slot /\ refresh' = 0 /\ Publish(refresh)
  BY DEF ListsReady
<1>2. settled' \in BOOLEAN /\ initialized' \in BOOLEAN BY <1>1
<1> QED BY <1>1, <1>2 DEF Publish, NavInv, PlaceInv

\* The lists are there; the reader stays, goes back to a session or is sent somewhere.
LEMMA ReadyInv ==
    ASSUME NavInv, ListsReady, OpInv', revision' \in Nat,
           screen' \in Screens, shown' \in Sessions \cup {None}
    PROVE  NavInv'
  BY ReadyPlace DEF NavInv, PlaceInv

LEMMA SentInv ==
    ASSUME NavInv, ListsReady, Cancel, screen' \in Screens, shown' \in Sessions \cup {None}
    PROVE  NavInv'
<1>1. revision' = revision + 1 /\ revision \in Nat /\ op' = Stopped({"aborted"})
  BY ReadyPlace DEF Cancel
<1>2. OpInv' BY <1>1, ReadyPlace, OpStopped
<1> QED BY <1>1, <1>2, ReadyInv

LEMMA GenerationInv == ASSUME NavInv, Adopt \/ Restore \/ SelectInitial \/ StayAtPicker PROVE NavInv'
<1>1. CASE Adopt BY <1>1, SentInv DEF Adopt, Leave, Screens
<1>2. CASE SelectInitial
  <2>1. PICK session \in Initial \ {None} : Show(session) BY <1>2 DEF SelectInitial
  <2>2. session \in Sessions BY NavigationAssumption
  <2> QED BY <1>2, <2>1, <2>2, SentInv DEF SelectInitial, Show, Screens
<1>3. CASE Restore
  <2>1. OpInv' BY <1>3, ReadyPlace, OpStopped DEF Restore
  <2> QED BY <1>3, <2>1, ReadyPlace, ReadyInv DEF Restore, view, NavInv, PlaceInv
<1>4. CASE StayAtPicker
  <2>1. OpInv' BY <1>4, ReadyPlace, OpKept DEF StayAtPicker
  <2> QED BY <1>4, <2>1, ReadyPlace, ReadyInv DEF StayAtPicker, view, NavInv, PlaceInv
<1> QED BY <1>1, <1>2, <1>3, <1>4

LEMMA DownInv == ASSUME NavInv, Down PROVE NavInv'
<1>1. /\ revision' = revision + 1 /\ revision \in Nat /\ listsVersion \in Nat /\ refresh' = 0
      /\ op' = Stopped({"aborted", "moved", "lost"})
      /\ UNCHANGED <<initialized, view, lists, slot>>
  BY DEF Down, NavInv, PlaceInv
<1>2. online' \in BOOLEAN /\ settled' \in BOOLEAN /\ ~settled' BY Zenon DEF Down
<1>3. OpInv' BY <1>1, OpStopped DEF lists
<1> QED BY <1>1, <1>2, <1>3 DEF NavInv, PlaceInv, view, lists

\* No step of a navigation breaks what the operation in the slot may rely on.
LEMMA NavStepInv == ASSUME NavInv, Selects \/ Stays PROVE NavInv'
<1>1. ASSUME Selects PROVE NavInv'
  <2>1. ASSUME NEW session \in Sessions, Select(session) PROVE NavInv' BY <2>1, SelectInv
  <2> QED
    BY <1>1, <2>1, PickWorkspaceInv, CreatedInv, LoadedInv, ArchivedInv, GenerationInv DEF Selects
<1>2. ASSUME Stays PROVE NavInv'
  <2>1. ASSUME NEW target \in {"workspaces", "sessions"}, Start("picker", target) PROVE NavInv'
    <3>1. target \in Screens /\ target \in Targets /\ "picker" \in Kinds \ {"remove"}
      BY DEF Screens, Targets, Kinds
    <3> QED BY <2>1, <3>1, StartInv
  <2>2. ASSUME NEW session \in Sessions,
               Start("open", session) \/ Start("create", session) \/ RemoveTarget(session)
        PROVE  NavInv'
    <3>1. session \in Targets /\ {"open", "create"} \subseteq Kinds \ {"remove"}
      BY DEF Targets, Kinds
    <3> QED BY <2>2, <3>1, StartInv, RemoveTargetInv
  <2>3. ASSUME Start("workspace", None) \/ Start("register", None) PROVE NavInv'
    <3>1. None \in Targets /\ {"workspace", "register"} \subseteq Kinds \ {"remove"}
      BY DEF Targets, Kinds
    <3> QED BY <2>3, <3>1, StartInv
  <2> QED
    BY <1>2, <2>1, <2>2, <2>3, ScreenInv, EscapeInv, BeginInv, RegisteredInv, LoadedInv, ArchivedInv,
       FailsInv, ConnectInv, GenerationInv, DownInv
    DEF Stays
<1> QED BY <1>1, <1>2

\* Whatever an operation shows, it shows for the newest intent and with a client.
LEMMA NewestOpens ==
    ASSUME NavInv, Created \/ LoadedPicker \/ LoadedSession \/ LoadedWorkspace \/ RemovedOther,
           view' # view
    PROVE  op.revision = revision /\ online
<1>1. op.phase \in Phases
  BY DEF Created, LoadedPicker, LoadedSession, LoadedWorkspace, RemovedOther, Archived, Loaded, Phases
<1>2. OpFits BY <1>1, OpIsThere
<1>3. CASE Created \/ LoadedPicker \/ LoadedSession \/ LoadedWorkspace
  <2>1. op.stop = {} /\ op.kind # "remove"
    BY <1>3 DEF Created, LoadedPicker, LoadedSession, LoadedWorkspace, Loaded, Current
  <2> QED BY <1>2, <2>1 DEF OpFits
<1>4. CASE RemovedOther
  <2>1. "lost" \notin op.stop BY <1>4 DEF RemovedOther, Archived
  <2>2. op.revision = revision BY <1>4 DEF RemovedOther, view
  <2> QED BY <1>2, <2>1, <2>2 DEF OpFits
<1> QED BY <1>3, <1>4

\* A load publishes only when it is the newest.
LEMMA ListsGoOn == ASSUME NavInv, Selects \/ Stays PROVE listed' >= listed
<1>0. listed \in 0 .. listsVersion /\ listsVersion \in Nat BY DEF NavInv, PlaceInv
<1>1. ASSUME NEW version, Publish(version) PROVE listed' >= listed
  BY <1>0, <1>1 DEF Publish
<1>2. CASE listed' = listed BY <1>0, <1>2
<1>3. CASE LoadedPicker \/ LoadedSession \/ LoadedWorkspace \/ RemovalListed
  BY <1>1, <1>3 DEF LoadedPicker, LoadedSession, LoadedWorkspace, RemovalListed, Loaded
<1>4. CASE ListsReady BY <1>1, <1>4 DEF ListsReady
<1>5. CASE Selects
  BY <1>2, <1>3, <1>4, <1>5
  DEF Selects, Select, PickWorkspace, Created, RemovedShown, Archived, Adopt, Restore, SelectInitial, lists
<1>6. CASE Stays
  BY <1>2, <1>3, <1>4, <1>6
  DEF Stays, Start, RemoveTarget, ShowChat, EnterPath, Escape, Begin, Registered, RemovedOther, Archived,
      Fails, Connect, StayAtPicker, Down, lists
<1> QED BY <1>5, <1>6

-----------------------------------------------------------------------------
(* The requests, their instances and their answers.                        *)

Instances == [id : Requests, n : Nat]

\* Each retained instance is the one delivered last, of a request that the host has not
\* withdrawn, and no request has two.
InstancesInv ==
    /\ host \in [Requests -> {"quiet", "waiting", "settled", "withdrawn"}]
    /\ made \in [Requests -> Nat] /\ \A r \in Requests : made[r] <= MaxMade[r]
    /\ entries \in Seq(Instances)
    /\ \A i \in 1 .. Len(entries) :
          /\ entries[i].n >= 1 /\ entries[i].n = made[entries[i].id]
          /\ host[entries[i].id] # "withdrawn"
    /\ \A i, j \in 1 .. Len(entries) : entries[i].id = entries[j].id => i = j

AnswersInv ==
    answers \in [Requests -> Nat] /\ \A r \in Requests : answers[r] = 0 \/ answers[r] < Parts[r]

\* The reply and the policy's run stand for what holds the slot.
ReplyInv ==
    /\ reply = NoReply \/ reply \in [id : Requests, n : Nat, phase : {"gate", "sent", "cancelling"}, auto : BOOLEAN]
    /\ slot = "interaction" <=> reply # NoReply
    /\ policy \in Policies /\ auto \in {"none", "queued", "acting", "returning"}
    /\ auto = "acting" <=> reply # NoReply /\ reply.auto

AskInv == NavInv /\ InstancesInv /\ AnswersInv /\ ReplyInv

LEMMA InstanceFields ==
    ASSUME InstancesInv, NEW i \in 1 .. Len(entries)
    PROVE  entries[i] \in Instances /\ entries[i].id \in Requests /\ entries[i].n \in Nat
<1>1. entries[i] \in Instances BY DEF InstancesInv
<1> QED BY <1>1 DEF Instances

LEMMA AskInvIsTyped == AskInv => TypeOK
<1> SUFFICES ASSUME AskInv PROVE TypeOK
  OBVIOUS
<1>1. NavTypeOK BY NavInvIsTyped DEF AskInv
<1>2. /\ host \in [Requests -> {"quiet", "waiting", "settled", "withdrawn"}]
      /\ \A r \in Requests : made[r] \in 0 .. MaxMade[r]
  BY AttentionAssumption DEF AskInv, InstancesInv
<1>3. \A i, j \in DOMAIN entries :
        /\ entries[i].id \in Requests /\ entries[i].n \in 1 .. made[entries[i].id]
        /\ entries[i].id = entries[j].id => i = j
  <2>1. DOMAIN entries = 1 .. Len(entries) BY DEF AskInv, InstancesInv
  <2>2. \A i \in 1 .. Len(entries) : entries[i].id \in Requests /\ entries[i].n \in Nat
    BY InstanceFields DEF AskInv
  <2> QED BY <2>1, <2>2 DEF AskInv, InstancesInv
<1>4. \A r \in Requests : answers[r] = 0 \/ answers[r] < Parts[r]
  BY DEF AskInv, AnswersInv
<1>5. reply = NoReply \/ (reply.id \in Requests /\ reply.phase \in {"gate", "sent", "cancelling"})
  BY DEF AskInv, ReplyInv
<1>6. /\ policy \in Policies /\ auto \in {"none", "queued", "acting", "returning"}
      /\ (slot = "interaction") = (reply # NoReply)
      /\ (auto = "acting") = (reply # NoReply /\ reply.auto)
  <2>1. reply # NoReply => reply.auto \in BOOLEAN BY DEF AskInv, ReplyInv
  <2> QED BY <2>1, Zenon DEF AskInv, ReplyInv
<1> QED BY <1>1, <1>2, <1>3, <1>4, <1>5, <1>6 DEF TypeOK

LEMMA AskInitInv == Init => AskInv
<1> SUFFICES ASSUME Init PROVE AskInv
  OBVIOUS
<1>1. NavInv BY NavInitInv DEF Init
<1>2. InstancesInv BY AttentionAssumption DEF Init, InstancesInv
<1>3. AnswersInv BY DEF Init, AnswersInv
<1>4. ReplyInv BY AttentionAssumption DEF Init, NavInit, ReplyInv, NoReply
<1> QED BY <1>1, <1>2, <1>3, <1>4 DEF AskInv

\* A set of positions that is not empty has a first one.
LEMMA FirstPosition == ASSUME NEW T \in SUBSET Nat, T # {} PROVE Min(T) \in T
<1> DEFINE R == {ss \in Nat \X Nat : ss[1] < ss[2]}
<1>1. IsWellFoundedOn(R, Nat)
  BY NatLessThanWellFounded, Zenon DEF OpToRel
<1> HIDE DEF R
<1>2. PICK x \in T : \A y \in T : ~(<<y, x>> \in R)
  BY <1>1, WFMin
<1>3. ASSUME NEW y \in T PROVE x <= y
  <2>1. <<y, x>> \notin R BY <1>2
  <2>2. ~(y < x) BY <2>1 DEF R
  <2> QED BY <2>2
<1> QED BY <1>3 DEF Min

\* What is answered is a retained instance.
LEMMA FirstIsRetained ==
    ASSUME InstancesInv, Pending # {}
    PROVE  First.id \in Requests /\ First.n \in Nat
<1>1. DOMAIN entries = 1 .. Len(entries) BY DEF InstancesInv
<1>2. Pending \in SUBSET Nat /\ Pending \subseteq 1 .. Len(entries)
  BY <1>1 DEF Pending, PendingIn
<1>3. Min(Pending) \in 1 .. Len(entries) BY <1>2, FirstPosition
<1> QED BY <1>3, InstanceFields DEF First

\* Forgetting an instance leaves the others, in their order.
LEMMA WithoutKeeps ==
    ASSUME InstancesInv, NEW id \in Requests, Retained(id)
    PROVE  /\ Without(id) \in Seq(Instances)
           /\ \A i \in 1 .. Len(Without(id)) : \E m \in 1 .. Len(entries) :
                 Without(id)[i] = entries[m] /\ entries[m].id # id
           /\ \A i, j \in 1 .. Len(Without(id)) : Without(id)[i].id = Without(id)[j].id => i = j
<1> DEFINE k == CHOOSE m \in DOMAIN entries : entries[m].id = id
           head == SubSeq(entries, 1, k - 1)
           tail == SubSeq(entries, k + 1, Len(entries))
<1>1. entries \in Seq(Instances) /\ Len(entries) \in Nat /\ DOMAIN entries = 1 .. Len(entries)
  BY DEF InstancesInv
<1>2. k \in 1 .. Len(entries) /\ entries[k].id = id
  BY <1>1 DEF Retained
<1> HIDE DEF k
<1>3. /\ head \in Seq(Instances) /\ Len(head) = k - 1
      /\ \A i \in 1 .. k - 1 : head[i] = entries[i]
  BY <1>1, <1>2, SubSeqProperties
<1>4. /\ tail \in Seq(Instances) /\ Len(tail) = Len(entries) - k
      /\ \A i \in 1 .. Len(entries) - k : tail[i] = entries[k + i]
  <2>1. \A i \in k + 1 .. Len(entries) : entries[i] \in Instances BY <1>1, <1>2
  <2>2. k + 1 \in Int /\ Len(entries) \in Int BY <1>1, <1>2
  <2>3. /\ tail \in Seq(Instances)
        /\ Len(tail) = IF k + 1 <= Len(entries) THEN Len(entries) - (k + 1) + 1 ELSE 0
        /\ \A i \in 1 .. Len(entries) - (k + 1) + 1 : tail[i] = entries[k + 1 + i - 1]
    BY <2>1, <2>2, SubSeqProperties
  <2> HIDE DEF tail
  <2>4. Len(tail) = Len(entries) - k
    <3>1. Len(entries) \in Nat BY <1>1
    <3>2. k \in Nat /\ k <= Len(entries) BY <1>2, <3>1
    <3>3. CASE k = Len(entries)
      <4>1. ~(k + 1 <= Len(entries)) /\ Len(entries) - k = 0 BY <3>1, <3>3
      <4> QED BY <2>3, <4>1
    <3>4. CASE k < Len(entries)
      <4>1. k + 1 <= Len(entries) /\ Len(entries) - (k + 1) + 1 = Len(entries) - k BY <3>1, <3>2, <3>4
      <4> QED BY <2>3, <4>1
    <3> QED BY <3>1, <3>2, <3>3, <3>4
  <2>5. ASSUME NEW i \in 1 .. Len(entries) - k PROVE tail[i] = entries[k + i]
    <3>1. Len(entries) - (k + 1) + 1 = Len(entries) - k /\ k + 1 + i - 1 = k + i BY <1>1, <1>2
    <3> QED BY <2>3, <3>1
  <2> QED BY <2>3, <2>4, <2>5
<1>5. Without(id) = head \o tail BY DEF Without, RemoveAt, k
<1> HIDE DEF head, tail
<1>6. /\ Without(id) \in Seq(Instances) /\ Len(Without(id)) = Len(entries) - 1
      /\ \A i \in 1 .. Len(entries) - 1 :
            Without(id)[i] = IF i < k THEN entries[i] ELSE entries[i + 1]
  <2>1. /\ head \o tail \in Seq(Instances) /\ Len(head \o tail) = Len(head) + Len(tail)
        /\ \A i \in 1 .. Len(head) + Len(tail) :
              (head \o tail)[i] = IF i <= Len(head) THEN head[i] ELSE tail[i - Len(head)]
    BY <1>3, <1>4, ConcatProperties
  <2>2. Len(head) + Len(tail) = Len(entries) - 1 BY <1>1, <1>2, <1>3, <1>4
  <2>3. ASSUME NEW i \in 1 .. Len(entries) - 1
        PROVE  Without(id)[i] = IF i < k THEN entries[i] ELSE entries[i + 1]
    <3>1. CASE i < k
      <4>1. i \in 1 .. k - 1 /\ i <= Len(head) BY <1>1, <1>2, <1>3, <3>1
      <4> QED BY <1>3, <1>5, <2>1, <2>2, <3>1, <4>1
    <3>2. CASE ~(i < k)
      <4>1. /\ ~(i <= Len(head)) /\ i - Len(head) \in 1 .. Len(entries) - k
            /\ k + (i - Len(head)) = i + 1
        BY <1>1, <1>2, <1>3, <3>2
      <4> QED BY <1>4, <1>5, <2>1, <2>2, <3>2, <4>1
    <3> QED BY <3>1, <3>2
  <2> QED BY <1>5, <2>1, <2>2, <2>3
<1> DEFINE at(i) == IF i < k THEN i ELSE i + 1
<1>7. \A i \in 1 .. Len(Without(id)) :
        at(i) \in 1 .. Len(entries) /\ Without(id)[i] = entries[at(i)] /\ at(i) # k
  BY <1>1, <1>2, <1>6
<1>8. \A i, j \in 1 .. Len(Without(id)) : at(i) = at(j) => i = j
  BY <1>2
<1> HIDE DEF at
<1>9. \A i \in 1 .. Len(Without(id)) : entries[at(i)].id # id
  BY <1>2, <1>7 DEF InstancesInv
<1>10. \A i, j \in 1 .. Len(Without(id)) : Without(id)[i].id = Without(id)[j].id => i = j
  BY <1>7, <1>8 DEF InstancesInv
<1> QED BY <1>6, <1>7, <1>9, <1>10

-----------------------------------------------------------------------------
(* The parts of the invariant, as the steps disturb them.                  *)

\* An interaction takes the slot or gives it back: no navigation is running.
LEMMA SlotMoves ==
    ASSUME NavInv, UNCHANGED <<conn, view, lists, op, revision>>,
           slot' \in {"free", "navigation", "interaction"}, slot' = slot \/ slot # "navigation"
    PROVE  NavInv'
<1>1. CASE slot' = slot BY <1>1 DEF NavInv, PlaceInv, OpInv, OpFits, conn, view, lists
<1>2. CASE slot # "navigation"
  <2>1. op = NoOp BY <1>2 DEF NavInv, OpInv, OpFits
  <2> QED BY <2>1, OpEnds DEF NavInv, PlaceInv, conn, view, lists
<1> QED BY <1>1, <1>2

\* A navigation never takes the slot from an interaction, and never leaves it to one.
LEMMA SlotNavigates ==
    ASSUME NavInv, Selects \/ Stays
    PROVE  slot' = "interaction" <=> slot = "interaction"
<1>1. CASE slot' = slot BY <1>1
<1>2. ASSUME End, op # NoOp PROVE slot' = "interaction" <=> slot = "interaction"
  BY <1>2 DEF End, NavInv, OpInv, OpFits
<1>3. CASE Created \/ LoadedPicker \/ LoadedSession \/ LoadedWorkspace \/ RemovalListed \/ Fails
  <2>1. End /\ (op.phase \in Phases \/ op # NoOp)
    BY <1>3 DEF Created, LoadedPicker, LoadedSession, LoadedWorkspace, RemovalListed, Loaded, Fails, Phases
  <2> QED BY <1>2, <2>1, OpIsThere
<1>4. ASSUME Free, slot' = "navigation" PROVE slot' = "interaction" <=> slot = "interaction"
  BY <1>4 DEF Free
<1>5. CASE Selects
  BY <1>1, <1>3, <1>5
  DEF Selects, Select, PickWorkspace, RemovedShown, Archived, Adopt, Restore, SelectInitial, ListsReady
<1>6. CASE Stays
  BY <1>1, <1>3, <1>4, <1>6
  DEF Stays, Start, RemoveTarget, ShowChat, EnterPath, Escape, Begin, Registered, RemovedOther, Archived,
      Connect, StayAtPicker, ListsReady, Down
<1> QED BY <1>5, <1>6

Turns == {"none", "queued", "acting", "returning"}

\* A publish may arm the policy, and does not say that it acts.
LEMMA PublishArms ==
    ASSUME Published, auto \in Turns
    PROVE  auto' \in Turns /\ (auto' = "acting" <=> auto = "acting")
  BY DEF Published, Turns

\* The reply stays as it is.
LEMMA ReplyKept ==
    ASSUME ReplyInv, reply' = reply, policy' \in Policies, Published \/ auto' = auto,
           slot' = "interaction" <=> slot = "interaction"
    PROVE  ReplyInv'
<1>1. auto \in Turns BY DEF ReplyInv, Turns
<1>2. auto' \in Turns /\ (auto' = "acting" <=> auto = "acting") BY <1>1, PublishArms
<1> QED BY <1>2 DEF ReplyInv, Turns

\* The slot is free: nothing is being answered.
LEMMA NothingIsAnswered ==
    ASSUME ReplyInv, Free
    PROVE  reply = NoReply /\ auto # "acting" /\ auto \in Turns /\ slot # "navigation"
  BY DEF ReplyInv, Free, Turns

LEMMA RespondInv ==
    ASSUME ReplyInv, InstancesInv, Pending # {}, NEW phase \in {"gate", "sent", "cancelling"},
           NEW byPolicy \in BOOLEAN, Respond(phase, byPolicy), policy' = policy,
           auto' \in Turns, auto' = "acting" <=> byPolicy
    PROVE  ReplyInv'
<1>1. First.id \in Requests /\ First.n \in Nat BY FirstIsRetained
<1>2. /\ reply' = [id |-> First.id, n |-> First.n, phase |-> phase, auto |-> byPolicy]
      /\ slot' = "interaction"
  BY DEF Respond
<1>3. /\ reply' \in [id : Requests, n : Nat, phase : {"gate", "sent", "cancelling"}, auto : BOOLEAN]
      /\ reply'.phase = phase /\ reply'.auto = byPolicy
  BY <1>1, <1>2
<1>4. reply' # NoReply BY <1>3 DEF NoReply
<1>5. auto' = "acting" <=> reply' # NoReply /\ reply'.auto BY <1>3, <1>4
<1> QED BY <1>2, <1>3, <1>4, <1>5 DEF ReplyInv, Turns

\* The host's side and the instances stay as they are.
LEMMA InstancesKept == ASSUME InstancesInv, UNCHANGED <<host, made, entries>> PROVE InstancesInv'
  BY DEF InstancesInv

LEMMA AnswersKept == ASSUME AnswersInv, UNCHANGED answers PROVE AnswersInv'
  BY DEF AnswersInv

LEMMA Dropped ==
    ASSUME AnswersInv, NEW id \in Requests, answers' = [answers EXCEPT ![id] = 0]
    PROVE  AnswersInv'
  BY DEF AnswersInv

LEMMA Collected ==
    ASSUME AnswersInv, NEW id \in Requests, ~LastPart(id), Collect(id)
    PROVE  AnswersInv'
<1>1. answers[id] \in Nat /\ Parts[id] \in Nat BY AttentionAssumption DEF AnswersInv
<1>2. answers[id] + 1 < Parts[id] BY <1>1 DEF LastPart
<1> QED BY <1>1, <1>2 DEF AnswersInv, Collect

\* The host settles a request, whose instance may be gone.
LEMMA Settled ==
    ASSUME InstancesInv, NEW id \in Requests, UNCHANGED made,
           host' = host \/ host' = [host EXCEPT ![id] = "settled"],
           entries' = entries \/ (Retained(id) /\ entries' = Without(id))
    PROVE  InstancesInv'
<1>1. /\ host' \in [Requests -> {"quiet", "waiting", "settled", "withdrawn"}]
      /\ \A r \in Requests : host[r] # "withdrawn" => host'[r] # "withdrawn"
  BY DEF InstancesInv
<1>2. CASE entries' = entries
  BY <1>1, <1>2, InstanceFields DEF InstancesInv
<1>3. CASE Retained(id) /\ entries' = Without(id)
  <2>1. /\ entries' \in Seq(Instances)
        /\ \A i \in 1 .. Len(entries') : \E m \in 1 .. Len(entries) : entries'[i] = entries[m]
        /\ \A i, j \in 1 .. Len(entries') : entries'[i].id = entries'[j].id => i = j
    BY <1>3, WithoutKeeps
  <2>2. ASSUME NEW i \in 1 .. Len(entries')
        PROVE  /\ entries'[i].n >= 1 /\ entries'[i].n = made'[entries'[i].id]
               /\ host'[entries'[i].id] # "withdrawn"
    <3>1. PICK m \in 1 .. Len(entries) : entries'[i] = entries[m] BY <2>1
    <3> QED BY <1>1, <3>1, InstanceFields DEF InstancesInv
  <2> QED BY <1>1, <2>1, <2>2 DEF InstancesInv
<1> QED BY <1>2, <1>3

-----------------------------------------------------------------------------
(* The steps of the host, the answers and the policy.                      *)

LEMMA NavIsKept == ASSUME NavInv, UNCHANGED navVars PROVE NavInv'
  BY DEF NavInv, PlaceInv, OpInv, OpFits, navVars, conn, view, lists

LEMMA DeliverInv == ASSUME AskInv, NEW id \in Requests, Deliver(id) PROVE AskInv'
<1> DEFINE e == [id |-> id, n |-> made'[id]]
<1>1. /\ host' = [host EXCEPT ![id] = "waiting"] /\ made' = [made EXCEPT ![id] = @ + 1]
      /\ made[id] < MaxMade[id] /\ ~Retained(id) /\ entries' = Append(entries, e)
      /\ InstancesInv
  BY DEF Deliver, AskInv
<1>2. made[id] \in Nat /\ MaxMade[id] \in Nat /\ made'[id] = made[id] + 1
  BY <1>1, AttentionAssumption DEF InstancesInv
<1>3. e \in Instances /\ e.id = id /\ e.n = made'[id] /\ e.n >= 1
  BY <1>2 DEF Instances
<1> HIDE DEF e
<1>4. /\ host' \in [Requests -> {"quiet", "waiting", "settled", "withdrawn"}]
      /\ made' \in [Requests -> Nat] /\ \A r \in Requests : made'[r] <= MaxMade[r]
      /\ \A r \in Requests : r # id => made'[r] = made[r] /\ host'[r] = host[r]
      /\ host'[id] = "waiting"
  BY <1>1, <1>2 DEF InstancesInv
<1>5. entries \in Seq(Instances) /\ Len(entries) \in Nat BY <1>1 DEF InstancesInv
<1>6. /\ entries' \in Seq(Instances) /\ Len(entries') = Len(entries) + 1
      /\ \A i \in 1 .. Len(entries) : entries'[i] = entries[i]
      /\ entries'[Len(entries) + 1] = e
  BY <1>1, <1>3, <1>5, AppendProperties
<1>7. \A i \in 1 .. Len(entries) : entries[i].id # id
  BY <1>1 DEF Retained, InstancesInv
<1>8. ASSUME NEW i \in 1 .. Len(entries')
      PROVE  /\ entries'[i].n >= 1 /\ entries'[i].n = made'[entries'[i].id]
             /\ host'[entries'[i].id] # "withdrawn"
  <2>1. CASE i \in 1 .. Len(entries)
    BY <1>1, <1>4, <1>6, <1>7, <2>1, InstanceFields DEF InstancesInv
  <2>2. CASE i = Len(entries) + 1 BY <1>3, <1>4, <1>6, <2>2
  <2> QED BY <1>5, <1>6, <2>1, <2>2
<1>9. ASSUME NEW i \in 1 .. Len(entries'), NEW j \in 1 .. Len(entries'), entries'[i].id = entries'[j].id
      PROVE  i = j
  <2>1. i \in 1 .. Len(entries) \/ i = Len(entries) + 1 BY <1>5, <1>6
  <2>2. j \in 1 .. Len(entries) \/ j = Len(entries) + 1 BY <1>5, <1>6
  <2>3. CASE i \in 1 .. Len(entries) /\ j \in 1 .. Len(entries)
    BY <1>1, <1>6, <1>9, <2>3 DEF InstancesInv
  <2>4. CASE i \in 1 .. Len(entries) /\ j = Len(entries) + 1
    BY <1>3, <1>6, <1>7, <1>9, <2>4
  <2>5. CASE i = Len(entries) + 1 /\ j \in 1 .. Len(entries)
    BY <1>3, <1>6, <1>7, <1>9, <2>5
  <2> QED BY <2>1, <2>2, <2>3, <2>4, <2>5
<1>10. InstancesInv' BY <1>4, <1>6, <1>8, <1>9 DEF InstancesInv
<1>11. NavInv' /\ AnswersInv' BY NavIsKept, AnswersKept DEF Deliver, AskInv
<1>12. ReplyInv'
  <2>1. UNCHANGED <<reply, policy, slot>> /\ Published BY DEF Deliver, navVars
  <2> QED BY <2>1, ReplyKept DEF AskInv, ReplyInv
<1> QED BY <1>10, <1>11, <1>12 DEF AskInv

LEMMA WithdrawInv == ASSUME AskInv, NEW id \in Requests, Withdraw(id) PROVE AskInv'
<1>1. /\ host' = [host EXCEPT ![id] = "withdrawn"] /\ entries' = Without(id) /\ Retained(id)
      /\ InstancesInv /\ made' = made
  BY DEF Withdraw, AskInv
<1>2. /\ entries' \in Seq(Instances)
      /\ \A i \in 1 .. Len(entries') : \E m \in 1 .. Len(entries) :
            entries'[i] = entries[m] /\ entries[m].id # id
      /\ \A i, j \in 1 .. Len(entries') : entries'[i].id = entries'[j].id => i = j
  BY <1>1, WithoutKeeps
<1>3. ASSUME NEW i \in 1 .. Len(entries')
      PROVE  /\ entries'[i].n >= 1 /\ entries'[i].n = made'[entries'[i].id]
             /\ host'[entries'[i].id] # "withdrawn"
  <2>1. PICK m \in 1 .. Len(entries) : entries'[i] = entries[m] /\ entries[m].id # id BY <1>2
  <2> QED BY <1>1, <2>1, InstanceFields DEF InstancesInv
<1>4. InstancesInv' BY <1>1, <1>2, <1>3 DEF InstancesInv
<1>5. NavInv' /\ AnswersInv' BY NavIsKept, AnswersKept DEF Withdraw, AskInv
<1>6. ReplyInv'
  <2>1. UNCHANGED <<reply, policy, slot>> /\ Published BY DEF Withdraw, navVars
  <2> QED BY <2>1, ReplyKept DEF AskInv, ReplyInv
<1> QED BY <1>4, <1>5, <1>6 DEF AskInv

\* The reader or the policy responds: the slot is the interaction's.
LEMMA RespondStep ==
    ASSUME AskInv, Free, Pending # {}, NEW phase \in {"gate", "sent", "cancelling"}, NEW byPolicy \in BOOLEAN,
           Respond(phase, byPolicy), UNCHANGED <<conn, view, lists, op, revision, host, made, entries, policy>>,
           auto' \in Turns, auto' = "acting" <=> byPolicy, AnswersInv'
    PROVE  AskInv'
<1>1. slot' = "interaction" BY DEF Respond
<1>2. slot # "navigation" BY NothingIsAnswered DEF AskInv
<1>3. NavInv' BY <1>1, <1>2, SlotMoves DEF AskInv
<1>4. InstancesInv' BY InstancesKept DEF AskInv
<1>5. ReplyInv' BY RespondInv DEF AskInv
<1> QED BY <1>3, <1>4, <1>5 DEF AskInv

\* One more part is collected, and the slot is free again.
LEMMA CollectStep ==
    ASSUME AskInv, Pending # {}, ~LastPart(First.id), Collect(First.id),
           UNCHANGED <<conn, view, lists, op, revision, slot, host, made, entries, reply, policy>>,
           auto' \in Turns, auto' = "acting" <=> auto = "acting"
    PROVE  AskInv'
<1>1. NavInv'
  <2>1. slot \in {"free", "navigation", "interaction"} BY DEF AskInv, NavInv, PlaceInv
  <2> QED BY <2>1, SlotMoves DEF AskInv
<1>2. InstancesInv' BY InstancesKept DEF AskInv
<1>3. AnswersInv' BY FirstIsRetained, Collected DEF AskInv
<1>4. ReplyInv' BY DEF AskInv, ReplyInv, Turns
<1> QED BY <1>1, <1>2, <1>3, <1>4 DEF AskInv

LEMMA AnswerInv == ASSUME AskInv, Answer PROVE AskInv'
<1>1. /\ Free /\ Pending # {} /\ Published
      /\ UNCHANGED <<conn, view, lists, op, revision, host, made, entries, policy>>
  BY DEF Answer
<1>2. auto \in Turns /\ auto # "acting" BY <1>1, NothingIsAnswered DEF AskInv
<1>3. auto' \in Turns /\ auto' # "acting" BY <1>1, <1>2, PublishArms
<1>4. CASE LastPart(First.id)
  <2>1. Respond("gate", FALSE) /\ UNCHANGED answers BY <1>4 DEF Answer
  <2>2. AnswersInv' BY <2>1, AnswersKept DEF AskInv
  <2> QED BY <1>1, <1>3, <2>1, <2>2, RespondStep
<1>5. CASE ~LastPart(First.id)
  <2>1. Collect(First.id) /\ UNCHANGED <<slot, reply>> BY <1>5 DEF Answer
  <2> QED BY <1>1, <1>2, <1>3, <1>5, <2>1, CollectStep
<1> QED BY <1>4, <1>5

LEMMA CancelTurnInv == ASSUME AskInv, CancelTurn PROVE AskInv'
<1>1. /\ Free /\ Pending # {} /\ Published /\ Respond("cancelling", FALSE) /\ UNCHANGED answers
      /\ UNCHANGED <<conn, view, lists, op, revision, host, made, entries, policy>>
  BY DEF CancelTurn
<1>2. auto \in Turns /\ auto # "acting" BY <1>1, NothingIsAnswered DEF AskInv
<1>3. auto' \in Turns /\ auto' # "acting" BY <1>1, <1>2, PublishArms
<1>4. AnswersInv' BY <1>1, AnswersKept DEF AskInv
<1> QED BY <1>1, <1>3, <1>4, RespondStep

LEMMA DismissInv == ASSUME AskInv, Dismiss PROVE AskInv'
<1>1. /\ Free /\ Pending # {} /\ Published /\ Respond("gate", FALSE)
      /\ answers' = [answers EXCEPT ![First.id] = 0]
      /\ UNCHANGED <<conn, view, lists, op, revision, host, made, entries, policy>>
  BY DEF Dismiss
<1>2. auto \in Turns /\ auto # "acting" BY <1>1, NothingIsAnswered DEF AskInv
<1>3. auto' \in Turns /\ auto' # "acting" BY <1>1, <1>2, PublishArms
<1>4. AnswersInv' BY <1>1, FirstIsRetained, Dropped DEF AskInv
<1> QED BY <1>1, <1>3, <1>4, RespondStep

\* A reply that is on its way has its fields, and the slot.
LEMMA ReplyIsThere ==
    ASSUME ReplyInv, reply.phase \in {"gate", "sent", "cancelling"}
    PROVE  /\ reply \in [id : Requests, n : Nat, phase : {"gate", "sent", "cancelling"}, auto : BOOLEAN]
           /\ reply # NoReply /\ reply.id \in Requests /\ reply.n \in Nat /\ reply.auto \in BOOLEAN
           /\ slot = "interaction"
<1>1. reply # NoReply BY DEF NoReply
<1> QED BY <1>1 DEF ReplyInv

LEMMA DispatchInv == ASSUME AskInv, Dispatch PROVE AskInv'
<1>1. /\ reply.phase = "gate" /\ reply' = [reply EXCEPT !.phase = "sent"]
      /\ UNCHANGED <<navVars, host, made, entries, answers, policy, auto, slot>>
  BY DEF Dispatch, ackVars, navVars
<1>2. NavInv' /\ InstancesInv' /\ AnswersInv'
  BY <1>1, NavIsKept, InstancesKept, AnswersKept DEF AskInv
<1>3. /\ reply \in [id : Requests, n : Nat, phase : {"gate", "sent", "cancelling"}, auto : BOOLEAN]
      /\ reply # NoReply
  BY <1>1, ReplyIsThere DEF AskInv
<1>4. /\ reply' \in [id : Requests, n : Nat, phase : {"gate", "sent", "cancelling"}, auto : BOOLEAN]
      /\ reply'.phase = "sent" /\ reply'.auto = reply.auto
  BY <1>1, <1>3
<1>5. reply' # NoReply BY <1>4 DEF NoReply
<1>6. ReplyInv'
  <2>1. ReplyInv BY DEF AskInv
  <2> QED BY <1>1, <1>3, <1>4, <1>5, <2>1 DEF ReplyInv
<1> QED BY <1>2, <1>6 DEF AskInv

\* However an action ends, the slot is free and nothing is answered.
LEMMA EndsInv ==
    ASSUME AskInv, reply.phase \in {"gate", "sent", "cancelling"}, NEW accepted \in BOOLEAN, Ends(accepted),
           InstancesInv', AnswersInv'
    PROVE  AskInv'
<1>1. /\ reply' = NoReply /\ slot' = "free"
      /\ UNCHANGED <<conn, view, lists, op, revision, policy>>
  BY DEF Ends
<1>2. slot = "interaction" /\ reply # NoReply /\ ReplyInv BY ReplyIsThere DEF AskInv
<1>3. NavInv' BY <1>1, <1>2, SlotMoves DEF AskInv
<1>4. auto \in Turns /\ (auto = "acting" <=> reply.auto) BY <1>2 DEF ReplyInv, Turns
<1>5. auto' \in Turns /\ auto' # "acting"
  <2>1. CASE reply.auto BY <2>1 DEF Ends, Turns
  <2>2. CASE ~reply.auto
    <3>1. Published BY <2>2 DEF Ends
    <3> QED BY <1>4, <2>2, <3>1, PublishArms
  <2> QED BY <2>1, <2>2
<1>6. ReplyInv' BY <1>1, <1>2, <1>5 DEF ReplyInv, Turns
<1> QED BY <1>3, <1>6 DEF AskInv

LEMMA RepliesInv == ASSUME AskInv, Replies PROVE AskInv'
<1>1. CASE Acknowledged
  <2>1. reply.phase = "sent" /\ Ends(TRUE) BY <1>1 DEF Acknowledged
  <2>2. reply.id \in Requests BY <2>1, ReplyIsThere DEF AskInv
  <2>3. host' = [host EXCEPT ![reply.id] = "settled"] /\ made' = made
        /\ answers' = [answers EXCEPT ![reply.id] = 0]
        /\ (entries' = entries \/ (Retained(reply.id) /\ entries' = Without(reply.id)))
    BY <1>1 DEF Acknowledged, Ends, IsLive, Retained
  <2>4. InstancesInv' /\ AnswersInv' BY <2>2, <2>3, Settled, Dropped DEF AskInv
  <2> QED BY <2>1, <2>4, EndsInv
<1>2. CASE ReplyFails
  <2>1. reply.phase \in {"gate", "sent", "cancelling"} /\ Ends(FALSE) BY <1>2 DEF ReplyFails
  <2>2. reply.id \in Requests BY <2>1, ReplyIsThere DEF AskInv
  <2>3. (host' = host \/ host' = [host EXCEPT ![reply.id] = "settled"]) /\ UNCHANGED <<made, entries, answers>>
    BY <1>2 DEF ReplyFails, Ends
  <2>4. InstancesInv' /\ AnswersInv' BY <2>2, <2>3, Settled, AnswersKept DEF AskInv
  <2> QED BY <2>1, <2>4, EndsInv
<1>3. CASE TurnCancelled
  <2>1. reply.phase = "cancelling" /\ Ends(TRUE) BY <1>3 DEF TurnCancelled
  <2>2. UNCHANGED <<host, made, entries, answers>> BY <1>3 DEF TurnCancelled, Ends
  <2>3. InstancesInv' /\ AnswersInv' BY <2>2, InstancesKept, AnswersKept DEF AskInv
  <2> QED BY <2>1, <2>3, EndsInv
<1> QED BY <1>1, <1>2, <1>3 DEF Replies

LEMMA SetAutoAckInv == ASSUME AskInv, NEW option \in Policies, SetAutoAck(option) PROVE AskInv'
<1>1. /\ policy' = option /\ Published
      /\ UNCHANGED <<conn, view, lists, slot, op, revision, host, made, entries, answers, reply>>
  BY DEF SetAutoAck, askVars
<1>2. NavInv'
  <2>1. slot' \in {"free", "navigation", "interaction"} BY <1>1 DEF AskInv, NavInv, PlaceInv
  <2> QED BY <1>1, <2>1, SlotMoves DEF AskInv
<1>3. InstancesInv' /\ AnswersInv' BY <1>1, InstancesKept, AnswersKept DEF AskInv
<1>4. ReplyInv' BY <1>1, ReplyKept DEF AskInv
<1> QED BY <1>2, <1>3, <1>4 DEF AskInv

\* The policy's turn: it gives its task back, or it answers the first interaction.
LEMMA RunAutoAckInv == ASSUME AskInv, RunAutoAck PROVE AskInv'
<1>1. /\ auto = "queued"
      /\ UNCHANGED <<conn, view, lists, op, revision, host, made, entries, policy>>
  BY DEF RunAutoAck
<1>2. ASSUME auto' = "returning", UNCHANGED <<slot, reply, answers>> PROVE AskInv'
  <2>1. slot \in {"free", "navigation", "interaction"} BY DEF AskInv, NavInv, PlaceInv
  <2>2. NavInv' /\ InstancesInv' /\ AnswersInv'
    BY <1>1, <1>2, <2>1, SlotMoves, InstancesKept, AnswersKept DEF AskInv
  <2>3. ReplyInv' BY <1>1, <1>2 DEF AskInv, ReplyInv
  <2> QED BY <2>2, <2>3 DEF AskInv
<1>3. ASSUME policy # 0, Pending # {}, Free,
             IF LastPart(First.id)
             THEN /\ Respond(IF Parts[First.id] = 0 /\ policy = 3 THEN "cancelling" ELSE "gate", TRUE)
                  /\ auto' = "acting" /\ UNCHANGED answers
             ELSE Collect(First.id) /\ auto' = "queued" /\ UNCHANGED <<slot, reply>>
      PROVE  AskInv'
  <2>1. auto \in Turns /\ auto # "acting" BY <1>3, NothingIsAnswered DEF AskInv
  <2>2. CASE LastPart(First.id)
    <3>1. PICK phase \in {"gate", "sent", "cancelling"} : Respond(phase, TRUE)
      BY <1>3, <2>2
    <3>2. auto' \in Turns /\ (auto' = "acting" <=> TRUE) /\ UNCHANGED answers
      BY <1>3, <2>2 DEF Turns
    <3>3. AnswersInv' BY <3>2, AnswersKept DEF AskInv
    <3> QED BY <1>1, <1>3, <3>1, <3>2, <3>3, RespondStep
  <2>3. CASE ~LastPart(First.id)
    <3>1. Collect(First.id) /\ auto' = "queued" /\ UNCHANGED <<slot, reply>> BY <1>3, <2>3
    <3>2. auto' \in Turns /\ (auto' = "acting" <=> auto = "acting") BY <2>1, <3>1 DEF Turns
    <3> QED BY <1>1, <1>3, <2>3, <3>1, <3>2, CollectStep
  <2> QED BY <2>2, <2>3
<1>4. CASE policy = 0 \/ Pending = {} \/ Repeats \/ ~Free \/ ~Offered
  BY <1>2, <1>4, Zenon DEF RunAutoAck, Returns
<1>5. CASE ~(policy = 0 \/ Pending = {} \/ Repeats \/ ~Free \/ ~Offered)
  <2>1. policy # 0 /\ Pending # {} /\ Free BY <1>5
  <2> QED BY <1>3, <1>5, <2>1, Zenon DEF RunAutoAck
<1> QED BY <1>4, <1>5

LEMMA ReleaseInv == ASSUME AskInv, Release PROVE AskInv'
<1>1. auto = "returning" /\ auto' = "none" /\ UNCHANGED <<navVars, host, made, entries, answers, reply, policy, slot>>
  BY DEF Release, askVars, navVars
<1>2. NavInv' /\ InstancesInv' /\ AnswersInv'
  BY <1>1, NavIsKept, InstancesKept, AnswersKept DEF AskInv
<1>3. ReplyInv' BY <1>1 DEF AskInv, ReplyInv
<1> QED BY <1>2, <1>3 DEF AskInv

LEMMA NavigateInv == ASSUME AskInv, Navigate PROVE AskInv'
<1>1. /\ Selects \/ Stays
      /\ answers' = [r \in Requests |-> 0] \/ answers' = answers
      /\ entries' = entries \/ entries' = <<>>
      /\ UNCHANGED <<host, made, reply, policy>>
      /\ Published \/ auto' = auto
  BY DEF Navigate
<1>2. NavInv' BY <1>1, NavStepInv DEF AskInv
<1>3. InstancesInv'
  <2>1. CASE entries' = entries BY <1>1, <2>1, InstancesKept DEF AskInv
  <2>2. CASE entries' = <<>>
    <3>1. entries' \in Seq(Instances) /\ 1 .. Len(entries') = {} BY <2>2, EmptySeq
    <3> QED BY <1>1, <3>1 DEF AskInv, InstancesInv
  <2> QED BY <1>1, <2>1, <2>2
<1>4. AnswersInv' BY <1>1 DEF AskInv, AnswersInv
<1>5. ReplyInv'
  <2>1. slot' = "interaction" <=> slot = "interaction" BY <1>1, SlotNavigates DEF AskInv
  <2> QED BY <1>1, <2>1, ReplyKept DEF AskInv, ReplyInv
<1> QED BY <1>2, <1>3, <1>4, <1>5 DEF AskInv

LEMMA AskStepInv == AskInv /\ [Next]_vars => AskInv'
<1> SUFFICES ASSUME AskInv, [Next]_vars PROVE AskInv'
  OBVIOUS
<1>1. ASSUME NEW id \in Requests, Deliver(id) \/ Withdraw(id) PROVE AskInv'
  BY <1>1, DeliverInv, WithdrawInv
<1>2. ASSUME NEW option \in Policies, SetAutoAck(option) PROVE AskInv'
  BY <1>2, SetAutoAckInv
<1>3. CASE UNCHANGED vars
  <2>1. UNCHANGED <<navVars, host, made, entries, answers, reply, policy, auto, slot>>
    BY <1>3 DEF vars, askVars, ackVars, navVars
  <2>2. NavInv' /\ InstancesInv' /\ AnswersInv'
    BY <2>1, NavIsKept, InstancesKept, AnswersKept DEF AskInv
  <2>3. ReplyInv' BY <2>1, ReplyKept DEF AskInv, ReplyInv
  <2> QED BY <2>2, <2>3 DEF AskInv
<1> QED
  BY <1>1, <1>2, <1>3, NavigateInv, AnswerInv, CancelTurnInv, DismissInv, DispatchInv, RepliesInv,
     RunAutoAckInv, ReleaseInv
  DEF Next

THEOREM AttentionIsSafe == Spec => []AskInv
  BY AskInitInv, AskStepInv, PTL DEF Spec

\* Places, requests, instances, answers and the policy's task are what they should be:
\* the slot is an interaction's exactly while a reply is on its way, and the policy acts
\* exactly while that reply is its own.
THEOREM AttentionTypeCorrect == Spec => []TypeOK
  BY AttentionIsSafe, AskInvIsTyped, PTL

-----------------------------------------------------------------------------
(* What was overtaken while it waited changes nothing.                     *)

LEMMA ListsGoOnStep == ASSUME AskInv, [Next]_vars PROVE [listed' >= listed]_navVars
<1>0. listed \in Nat BY DEF AskInv, NavInv, PlaceInv
<1>1. CASE Navigate BY <1>1, ListsGoOn DEF Navigate, AskInv
<1>2. ASSUME listed' = listed PROVE listed' >= listed BY <1>0, <1>2
<1>3. CASE UNCHANGED vars BY <1>3 DEF vars
<1>4. ASSUME NEW id \in Requests, Deliver(id) \/ Withdraw(id) PROVE listed' = listed
  BY <1>4 DEF Deliver, Withdraw, navVars, lists
<1>5. ASSUME NEW option \in Policies, SetAutoAck(option) PROVE listed' = listed
  BY <1>5 DEF SetAutoAck, lists
<1>6. CASE Answer \/ CancelTurn \/ Dismiss \/ Dispatch \/ Replies \/ RunAutoAck \/ Release
  <2>1. listed' = listed
    BY <1>6 DEF Answer, CancelTurn, Dismiss, Dispatch, Replies, Acknowledged, ReplyFails, TurnCancelled,
       Ends, RunAutoAck, Release, navVars, lists
  <2> QED BY <1>2, <2>1
<1> QED BY <1>1, <1>2, <1>3, <1>4, <1>5, <1>6 DEF Next

\* A reply is sent by a dispatch, and by nothing else.
LEMMA OnlyDispatchSends ==
    ASSUME AskInv, Next, reply'.phase = "sent", reply.phase # "sent"
    PROVE  Dispatch
<1>1. ~(reply' = reply) OBVIOUS
<1>2. ~Navigate BY <1>1 DEF Navigate
<1>3. ASSUME NEW id \in Requests, Deliver(id) \/ Withdraw(id) PROVE FALSE
  BY <1>1, <1>3 DEF Deliver, Withdraw
<1>4. ASSUME NEW option \in Policies, SetAutoAck(option) PROVE FALSE
  BY <1>1, <1>4 DEF SetAutoAck, askVars
<1>5. ~Release BY <1>1 DEF Release, askVars
<1>6. ~Replies
  <2>1. NoReply.phase # "sent" BY DEF NoReply
  <2> QED BY <2>1 DEF Replies, Acknowledged, ReplyFails, TurnCancelled, Ends
<1>7. ASSUME NEW phase \in {"gate", "cancelling"}, NEW byPolicy, Respond(phase, byPolicy) PROVE FALSE
  BY <1>7 DEF Respond
<1>8. ~(Answer \/ CancelTurn \/ Dismiss)
  BY <1>1, <1>7 DEF Answer, CancelTurn, Dismiss
<1>9. ~RunAutoAck
  <2>1. ASSUME RunAutoAck PROVE FALSE
    <3>1. \/ UNCHANGED reply
          \/ Respond(IF Parts[First.id] = 0 /\ policy = 3 THEN "cancelling" ELSE "gate", TRUE)
      BY <2>1, Zenon DEF RunAutoAck
    <3> QED BY <1>1, <1>7, <3>1
  <2> QED BY <2>1
<1> QED BY <1>2, <1>3, <1>4, <1>5, <1>6, <1>8, <1>9 DEF Next

LEMMA RepliesAreCurrentStep ==
    ASSUME AskInv, [Next]_vars
    PROVE  [ reply'.phase = "sent" /\ reply.phase # "sent" =>
               reply'.n = made[reply'.id] /\ host[reply'.id] # "withdrawn" ]_vars
<1> SUFFICES ASSUME Next, reply'.phase = "sent", reply.phase # "sent"
             PROVE  reply'.n = made[reply'.id] /\ host[reply'.id] # "withdrawn"
  BY Zenon DEF vars
<1>1. Dispatch BY OnlyDispatchSends
<1>2. reply \in [id : Requests, n : Nat, phase : {"gate", "sent", "cancelling"}, auto : BOOLEAN]
  BY <1>1, ReplyIsThere DEF Dispatch, AskInv
<1>3. reply'.id = reply.id /\ reply'.n = reply.n BY <1>1, <1>2 DEF Dispatch
<1>4. InstancesInv /\ DOMAIN entries = 1 .. Len(entries) BY DEF AskInv, InstancesInv
<1>5. PICK i \in 1 .. Len(entries) : entries[i].id = reply.id /\ entries[i].n = reply.n
  BY <1>1, <1>4 DEF Dispatch, IsLive
<1> QED BY <1>3, <1>4, <1>5 DEF InstancesInv

\* A navigation shows what the newest intent asked for, with a client; the lists shown
\* never become older; and a request is answered through the instance the host delivered
\* last, never after the host has withdrawn it.
THEOREM OvertakenChangesNothing == Spec => ActsOnTheNewest
<1>1. ASSUME AskInv
      PROVE  [ Created \/ LoadedPicker \/ LoadedSession \/ LoadedWorkspace \/ RemovedOther =>
                 (view' # view => op.revision = revision /\ online) ]_navVars
  BY <1>1, NewestOpens DEF AskInv
<1>2. Spec => [][Next]_vars BY PTL DEF Spec
<1>3. Spec => NewestIntentOpens BY <1>1, AttentionIsSafe, PTL DEF NewestIntentOpens
<1>4. Spec => ListsNeverGoBack BY <1>2, ListsGoOnStep, AttentionIsSafe, PTL DEF ListsNeverGoBack
<1>5. Spec => RepliesAreCurrent BY <1>2, RepliesAreCurrentStep, AttentionIsSafe, PTL DEF RepliesAreCurrent
<1> QED BY <1>3, <1>4, <1>5 DEF ActsOnTheNewest
=============================================================================
