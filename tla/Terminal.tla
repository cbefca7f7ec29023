------------------------------ MODULE Terminal ------------------------------
(***************************************************************************)
(* What the reader's keys do on the conversation screen: the composer      *)
(* (ui/input/use-composer.ts), the lines held back (ui/input/use-deferred- *)
(* lines.ts), the panels (ui/dialogs/use-panels.ts), submission, Escape    *)
(* and Ctrl+C (ui/app.tsx), and how one line is run (controller/           *)
(* commands.ts) under the foreground slot.                                 *)
(*                                                                         *)
(* A draft is known by its number and keeps the line first typed; changing *)
(* a draft makes the next one.  0 is the empty composer.  The app renders  *)
(* every publication before the next key is read, but not before a promise *)
(* continues, so rendering is a step of its own.                           *)
(***************************************************************************)
EXTENDS Commands, Shell

CONSTANTS
    Lines,       \* lines the reader types
    Conversations,
    Home,        \* the conversation open at the start
    MaxDrafts,   \* bound: drafts, the recalled ones and the form's included
    MaxEvents    \* bound: turns of other clients, interactions, free-text answers and lost connections

Drafts == 1 .. MaxDrafts
Empty == 0
Paging(d) == MaxDrafts + 1 + d     \* owns the slot while older prompts are read, for draft d
FormLine == [head |-> "/loop", words |-> <<"word", "8">>]

ASSUME TerminalAssumption ==
    /\ \A x \in Lines : x.head \in CommandNames \cup Aliases \cup DOMAIN Short \cup {"text", "!"}
    /\ \A x \in Lines : x.words \in Seq(Words)
    /\ Home \in Conversations
    /\ {MaxDrafts, MaxEvents} \subseteq Nat

VARIABLES
    (* the application *)
    session, link,   \* selected conversation; ready, loading or offline
    turn, loop,      \* something runs in it
    waiting,         \* the interaction it waits on: no, approval, question
    slot, doing,     \* whose operation owns the foreground slot, and its kind
    events,
    (* the front end *)
    shown,           \* what the last render showed
    custom,          \* the question is being answered in free text
    text,            \* the lines of the drafts so far
    input, parked,   \* drafts in the composer and put aside
    intent,          \* the editor borrowing the composer: no, open, saving
    owned,           \* receipts that still are the composer's: of the slot's line, of the save
    held,            \* lines held back, oldest first: [draft, session]
    panels, copyMode,
    (* leaving *)
    armed, asking, insists, exited

host == <<session, link, turn, waiting, events>>
work == <<loop, slot, doing>>
composer == <<text, input, parked, intent, owned>>
leaving == <<armed, asking, insists, exited>>
terminalVars == <<host, work, shown, custom, composer, held, panels, copyMode, leaving, shell>>

Pending == IF link = "offline" THEN "no" ELSE waiting
Facts == [session |-> session, waiting |-> Pending,
          during |-> IF loop THEN "loop" ELSE IF turn THEN "turn" ELSE "idle"]
Busy == slot # Empty

TerminalTypeOK ==
    /\ ShellTypeOK
    /\ session \in Conversations /\ link \in {"ready", "loading", "offline"}
    /\ {turn, loop, custom, copyMode, armed, asking, insists, exited} \subseteq BOOLEAN
    /\ waiting \in {"no", "approval", "question"}
    /\ events \in 0 .. MaxEvents
    /\ shown \in [session : Conversations, waiting : {"no", "approval", "question"}, custom : BOOLEAN]
    /\ text \in Seq(Lines \cup {FormLine}) /\ Len(text) <= MaxDrafts
    /\ {input, parked} \subseteq DOMAIN text \cup {Empty}
    /\ slot \in DOMAIN text \cup {Empty} \cup {Paging(d) : d \in DOMAIN text \cup {Empty}}
    /\ intent \in {"no", "open", "saving"} /\ owned \subseteq {"slot", "save"}
    /\ held \in Seq([draft : DOMAIN text, session : Conversations])
    /\ IsInjective([i \in DOMAIN held |-> held[i].draft])
    /\ Busy <=> doing # "none"

TerminalInit ==
    /\ session = Home /\ link = "ready" /\ turn = FALSE /\ waiting = "no"
    /\ events = 0 /\ loop = FALSE /\ slot = Empty /\ doing = "none"
    /\ custom = FALSE /\ shown = [session |-> session, waiting |-> "no", custom |-> FALSE]
    /\ text = <<>> /\ input = Empty /\ parked = Empty /\ intent = "no" /\ owned = {}
    /\ held = <<>> /\ panels = {} /\ copyMode = FALSE
    /\ armed = FALSE /\ asking = FALSE /\ insists = FALSE /\ exited = FALSE
    /\ ShellInit

-----------------------------------------------------------------------------
(* Rendering.                                                               *)

Current == [session |-> session, waiting |-> Pending, custom |-> custom]

(* A dialog that demands an answer owns the keyboard.                       *)
Asks(x) == x.waiting = "approval" \/ (x.waiting = "question" /\ ~x.custom)

MutantReplace(d) == input' = d /\ owned' = owned

(* Replacing the text of the composer ends every receipt handed out.        *)
Replace(d) == input' = d /\ owned' = {}

(* Another session clears the composer.  An interaction parks the draft and *)
(* takes the borrowed composer back; the draft returns once none is left.   *)
Moved == shown.session # session
Kept(d) == IF Moved THEN Empty ELSE d

Render ==
    /\ shown # Current
    /\ shown' = Current
    /\ intent' = IF Moved \/ Asks(Current) THEN "no" ELSE intent
    /\ \/ Asks(Current) /\ Kept(input) # Empty /\ Replace(Empty) /\ parked' = input
       \/ Pending = "no" /\ Kept(parked) # Empty /\ Replace(parked) /\ parked' = Empty
       \/ /\ ~(Asks(Current) /\ Kept(input) # Empty) /\ ~(Pending = "no" /\ Kept(parked) # Empty)
          /\ parked' = Kept(parked)
          /\ IF Moved THEN Replace(Empty) ELSE UNCHANGED <<input, owned>>
    /\ panels' = (IF Moved THEN panels \cap {"help", "remove"} ELSE panels)
                   \ (IF Pending = "no" THEN {"queue"} ELSE {"queue", "loop"})
    /\ UNCHANGED <<host, work, custom, text, held, copyMode, leaving, shell>>

-----------------------------------------------------------------------------
(* Running one line: it is over at once, or it owns the slot until its      *)
(* operation settles.  receipt says whether a draft is to be cleared.       *)

(* A line that is not accepted changes nothing else: its draft stays.       *)
Retain == UNCHANGED <<work, input, owned, panels, copyMode, exited, shell>>

PanelsAfter(kind, words) ==
    CASE ~ClosesPanels(kind) -> panels
      [] kind = "panel" -> Opens(kind, words) \ panels
      [] OTHER -> Opens(kind, words)

(* /cost opens its panel and has the costs read behind it, if the slot is   *)
(* free: what the reading comes to touches nothing here.                   *)
RefreshesCosts(d, kind) == kind = "panel" /\ Resolve(text[d].head) = "/cost"

RunHere(d, kind, receipt) ==
    /\ IF receipt THEN Replace(Empty) ELSE UNCHANGED <<input, owned>>
    /\ panels' = IF kind = "loop" THEN {"loop"} ELSE PanelsAfter(kind, text[d].words)
    /\ copyMode' = (copyMode \/ kind = "copy")
    /\ loop' = (loop /\ kind # "loopStop")
    /\ exited' = (kind = "quit")
    /\ IF kind = "shell" THEN StartShell ELSE UNCHANGED shell
    /\ IF RefreshesCosts(d, kind) /\ ~Busy /\ link # "offline"
       THEN slot' = d /\ doing' = "costs"
       ELSE UNCHANGED <<slot, doing>>

(* A run counts as active from here; a prompt and a cancellation end one.   *)
TakeSlot(d, kind, receipt) ==
    /\ slot' = d /\ doing' = kind
    /\ owned' = IF receipt THEN owned \cup {"slot"} ELSE owned
    /\ loop' = (kind = "loop" \/ (loop /\ kind \notin {"prompt", "cancel"}))
    /\ UNCHANGED <<input, panels, copyMode, exited, shell>>

(* A heap snapshot is written in one go: the line is used up even where the *)
(* slot is not free and nothing is written, unless the writing fails.      *)
RunCommand(d, kind, receipt) ==
    IF kind \in ClaimsSlot /\ ~(kind = "loop" /\ AsksForm(text[d]))
    THEN IF Busy \/ link = "offline" THEN Retain ELSE TakeSlot(d, kind, receipt)
    ELSE IF kind \in Refused \/ (kind = "shell" /\ ~CanStart) THEN Retain
    ELSE \/ RunHere(d, kind, receipt)
         \/ kind = "coredump" /\ ~Busy /\ Retain

-----------------------------------------------------------------------------
(* Held lines.  The oldest is run when nothing else goes on; lines of       *)
(* another session are dropped.                                            *)

Undecided == held # <<>> /\ shown = Current /\ ~exited
Foreign == Undecided /\ Head(held).session # session
Due == /\ Undecided /\ Head(held).session = session
       /\ link = "ready" /\ ~Busy /\ Facts.during = "idle"

Local == {i \in DOMAIN held : held[i].session = session}

DropForeign ==
    /\ Foreign
    /\ \E kept \in [1 .. Cardinality(Local) -> Local] :
          /\ \A i, j \in DOMAIN kept : i < j => kept[i] < kept[j]
          /\ held' = [i \in DOMAIN kept |-> held[kept[i]]]
    /\ UNCHANGED <<host, work, shown, custom, composer, panels, copyMode, leaving, shell>>

Drain ==
    /\ Due
    /\ LET d == Head(held).draft
           kind == Parse(text[d])
       IN  RunCommand(d, IF Authorize(kind, Facts) = "error" THEN "error" ELSE kind, FALSE)
    /\ held' = Tail(held)
    /\ UNCHANGED <<host, shown, custom, text, parked, intent, armed, asking, insists>>

(* Everything outside the client, and the next key, come once React is done. *)
Settled == shown = Current /\ ~Foreign /\ ~Due /\ ~exited

-----------------------------------------------------------------------------
(* The reader's keys in the composer.                                       *)

Key == Settled /\ ~insists
Parking == {"queue", "prompts", "remove", "models", "loop", "thoughts", "history", "search"}
Focus == Key /\ ~copyMode /\ ~Asks(Current) /\ panels \cap Parking = {}

NewDraft(line) == Len(text) < MaxDrafts /\ text' = Append(text, line)

Type(line) ==
    /\ Focus
    /\ NewDraft(line) /\ Replace(Len(text) + 1)
    /\ UNCHANGED <<host, work, shown, custom, parked, intent, held, panels, copyMode, leaving, shell>>

(* Enter: a line that is held back uses its draft up; any other keeps it    *)
(* until its result says so.                                               *)
Hold(d) == held' = Append(held, [draft |-> d, session |-> session])

Submit ==
    /\ Focus /\ input # Empty /\ intent = "no"
    /\ LET kind == Normalize(text[input], Facts)
           verdict == Authorize(kind, Facts)
       IN  IF verdict \in {"turn", "loop"}
           THEN Hold(input) /\ Replace(Empty) /\ UNCHANGED <<work, panels, copyMode, exited, shell>>
           ELSE RunCommand(input, IF verdict = "error" THEN "error" ELSE kind, TRUE) /\ UNCHANGED held
    /\ UNCHANGED <<host, shown, custom, text, parked, intent, armed, asking, insists>>

MutantAnew == "run"

Anew == Authorize("loop", Facts)

(* Start in the loop form is a submission of its own, decided anew.         *)
StartForm ==
    /\ Key /\ ~copyMode /\ "loop" \in panels /\ link # "offline" /\ ~Busy /\ NewDraft(FormLine)
    /\ LET d == Len(text) + 1
           verdict == Anew
       IN  IF verdict \in {"turn", "loop"}
           THEN Hold(d) /\ panels' = panels \ {"loop"} /\ UNCHANGED <<work, input, owned, copyMode, exited, shell>>
           ELSE /\ IF verdict = "error" THEN Retain ELSE TakeSlot(d, "loop", FALSE)
                /\ UNCHANGED held
    /\ UNCHANGED <<host, shown, custom, parked, intent, armed, asking, insists>>

(* A saved prompt is edited in the composer, which it borrows.              *)
EditPrompt(line) ==
    /\ Key /\ ~copyMode /\ "prompts" \in panels /\ input = Empty /\ ~Busy
    /\ NewDraft(line) /\ Replace(Len(text) + 1)
    /\ intent' = "open" /\ panels' = panels \ {"prompts"}
    /\ UNCHANGED <<host, work, shown, custom, parked, held, copyMode, leaving, shell>>

(* Enter in a borrowed composer saves; the edit ends when it is saved, and  *)
(* stays for what was typed meanwhile.                                     *)
Commit ==
    /\ Focus /\ input # Empty /\ intent = "open"
    /\ intent' = "saving" /\ owned' = owned \cup {"save"}
    /\ UNCHANGED <<host, work, shown, custom, text, input, parked, held, panels, copyMode, leaving, shell>>

Committed(ok) ==
    /\ Settled /\ intent = "saving"
    /\ IF ok /\ "save" \in owned
       THEN intent' = "no" /\ Replace(Empty)
       ELSE intent' = "open" /\ owned' = owned \ {"save"} /\ input' = input
    /\ UNCHANGED <<host, work, shown, custom, text, parked, held, panels, copyMode, leaving, shell>>

(* Up at the oldest prompt known reads a page, and then replaces the draft  *)
(* with a prompt of it if nobody touched it.  A page that cannot be read,  *)
(* is given up or holds no prompt leaves the draft alone.                  *)
RecallOlder ==
    /\ Focus /\ link = "ready" /\ ~Busy /\ Pending = "no" /\ intent = "no"
    /\ slot' = Paging(input) /\ doing' = "recall" /\ owned' = owned \cup {"slot"}
    /\ UNCHANGED <<host, loop, shown, custom, text, input, parked, intent, held, panels, copyMode, leaving, shell>>

Recalled(line) ==
    /\ Settled /\ doing = "recall"
    /\ slot' = Empty /\ doing' = "none"
    /\ \/ "slot" \in owned /\ NewDraft(line) /\ Replace(Len(text) + 1)
       \/ text' = text /\ input' = input /\ owned' = owned \ {"slot"}
    /\ UNCHANGED <<host, loop, shown, custom, parked, intent, held, panels, copyMode, leaving, shell>>

-----------------------------------------------------------------------------
(* The operation of a line settles.  An accepted line applies its effects   *)
(* and then clears its draft, if that still is what the composer holds.     *)
Switches == {"navigate", "newSession"}

RunEnds(ok) ==
    /\ Settled /\ slot \in Drafts
    /\ slot' = Empty /\ doing' = "none"
    /\ LET went == ok /\ link # "offline" IN
       /\ IF went /\ doing \in Switches
          THEN /\ session' \in Conversations \ {session} /\ link' \in {"ready", "loading"}
               /\ waiting' = "no" /\ custom' = FALSE /\ turn' = FALSE /\ loop' = FALSE
          ELSE /\ waiting' = IF went /\ doing \in {"answer", "approval"} THEN "no" ELSE waiting
               /\ custom' = (custom /\ waiting' # "no")
               /\ turn' = (turn \/ (went /\ doing \in {"prompt", "loop"}))
               /\ loop' = (loop /\ (went \/ doing # "loop"))
               /\ UNCHANGED <<session, link>>
       /\ panels' = IF went THEN PanelsAfter(doing, text[slot].words) ELSE panels
       /\ IF went /\ "slot" \in owned /\ session' = session THEN Replace(Empty)
          ELSE owned' = owned \ {"slot"} /\ input' = input
       /\ IF went /\ doing = "loop" THEN Note ELSE UNCHANGED shell
    /\ UNCHANGED <<events, shown, text, parked, intent, held, copyMode, leaving>>

-----------------------------------------------------------------------------
(* Escape: the first rule that applies.                                     *)
Escape ==
    /\ Key
    /\ CASE copyMode -> copyMode' = FALSE /\ UNCHANGED <<work, input, owned, intent, custom, panels, shell>>
         [] ~copyMode /\ "loop" \in panels ->
              panels' = panels \ {"loop"} /\ UNCHANGED <<work, input, owned, intent, custom, copyMode, shell>>
         [] ~copyMode /\ "loop" \notin panels /\ intent # "no" ->
              Replace(Empty) /\ intent' = "no" /\ UNCHANGED <<work, custom, panels, copyMode, shell>>
         [] OTHER ->
              \/ /\ Busy      \* cancelled: it settles in its own time
                 /\ panels' = panels \ {"history"}
                 /\ UNCHANGED <<work, input, owned, intent, custom, copyMode, shell>>
              \/ /\ ~Busy /\ Pending # "no"
                 /\ panels' = panels \cap {"queue", "prompts"} /\ custom' = FALSE
                 /\ UNCHANGED <<work, input, owned, intent, copyMode, shell>>
              \/ /\ ~Busy /\ Pending = "no"
                 /\ \E p \in panels :
                      /\ panels' = panels \ {p}
                      /\ loop' = (loop /\ ~(turn /\ p \in {"thoughts", "search", "history", "help"}))
                 /\ UNCHANGED <<slot, doing, input, owned, intent, custom, copyMode, shell>>
              \/ /\ ~Busy /\ Pending = "no" /\ panels = {} /\ Running /\ input = Empty
                 /\ CancelShell
                 /\ UNCHANGED <<work, input, owned, intent, custom, panels, copyMode>>
              \/ /\ ~Busy /\ Pending = "no" /\ panels = {} /\ ~(Running /\ input = Empty)
                 /\ loop' = FALSE
                 /\ UNCHANGED <<slot, doing, input, owned, intent, custom, panels, copyMode, shell>>
    /\ UNCHANGED <<host, shown, text, parked, held, leaving>>

(* Ctrl+S freezes the screen; a question may be answered in free text.      *)
ToggleCopyMode ==
    /\ Key /\ "loop" \notin panels /\ copyMode' = ~copyMode
    /\ UNCHANGED <<host, work, shown, custom, composer, held, panels, leaving, shell>>

AnswerInFreeText ==
    /\ Key /\ ~copyMode /\ Pending = "question" /\ ~custom /\ input = Empty /\ ~Busy /\ panels = {}
    /\ custom' = TRUE /\ events < MaxEvents /\ events' = events + 1
    /\ UNCHANGED <<session, link, turn, waiting, work, shown, composer, held, panels, copyMode, leaving, shell>>

(* Ctrl+C: the first of these that applies.  A press that asked the host    *)
(* for something arms the next one, which leaves whatever happens.         *)
CtrlC ==
    /\ Settled
    /\ CASE copyMode -> copyMode' = FALSE /\ UNCHANGED <<loop, input, owned, intent, leaving, shell>>
         [] ~copyMode /\ armed ->
              /\ exited' = TRUE /\ armed' = FALSE
              /\ UNCHANGED <<loop, input, owned, intent, copyMode, asking, insists, shell>>
         [] ~copyMode /\ ~armed /\ Busy ->
              armed' = TRUE /\ UNCHANGED <<loop, input, owned, intent, copyMode, asking, insists, exited, shell>>
         [] ~copyMode /\ ~armed /\ ~Busy /\ Pending # "no" ->
              /\ armed' = TRUE
              /\ IF input # Empty THEN Replace(Empty) ELSE UNCHANGED <<input, owned>>
              /\ UNCHANGED <<loop, intent, copyMode, asking, insists, exited, shell>>
         [] OTHER ->
              IF input = Empty /\ Running
              THEN CancelShell /\ UNCHANGED <<loop, input, owned, intent, copyMode, leaving>>
              ELSE IF input # Empty
              THEN Replace(Empty) /\ UNCHANGED <<loop, intent, copyMode, leaving, shell>>
              ELSE IF intent # "no"
              THEN intent' = "no" /\ UNCHANGED <<loop, input, owned, copyMode, leaving, shell>>
              ELSE /\ loop' = FALSE
                   /\ exited' = ~turn /\ asking' = turn
                   /\ UNCHANGED <<input, owned, intent, copyMode, armed, insists, shell>>
    /\ UNCHANGED <<host, slot, doing, shown, custom, text, parked, held, panels>>

(* The host took the cancellation, or refused it.                           *)
InterruptEnds ==
    /\ Settled /\ asking
    /\ asking' = FALSE /\ armed' = TRUE
    /\ UNCHANGED <<host, work, shown, custom, composer, held, panels, copyMode, insists, exited, shell>>

(* FORCE_EXIT_MS; a reader who insists presses faster.                      *)
Lapse ==
    /\ Key /\ armed /\ armed' = FALSE
    /\ UNCHANGED <<host, work, shown, custom, composer, held, panels, copyMode, asking, insists, exited, shell>>

Insist ==
    /\ Key /\ insists' = TRUE
    /\ UNCHANGED <<host, work, shown, custom, composer, held, panels, copyMode, armed, asking, exited, shell>>

-----------------------------------------------------------------------------
(* The rest of the client and the host, as the front end sees them.         *)
Elsewhere == Settled /\ UNCHANGED <<slot, doing, shown, composer, held, panels, copyMode, leaving, shell>>

HostTurn ==
    /\ events < MaxEvents /\ events' = events + 1 /\ ~turn /\ turn' = TRUE
    /\ UNCHANGED <<session, link, waiting, loop, custom>> /\ Elsewhere

TurnEnds ==
    /\ turn /\ waiting = "no" /\ turn' = FALSE
    /\ UNCHANGED <<session, link, waiting, events, loop, custom>> /\ Elsewhere

LoopEnds ==
    /\ loop /\ doing # "loop" /\ loop' = FALSE
    /\ UNCHANGED <<session, link, turn, waiting, events, custom>> /\ Elsewhere

Waits ==
    /\ turn /\ waiting = "no" /\ events < MaxEvents /\ events' = events + 1
    /\ waiting' \in {"approval", "question"}
    /\ UNCHANGED <<session, link, turn, loop, custom>> /\ Elsewhere

(* Chosen in its menu, dismissed, answered by another client or withdrawn.  *)
WaitSettled ==
    /\ waiting # "no" /\ waiting' = "no" /\ custom' = FALSE
    /\ UNCHANGED <<session, link, turn, events, loop>> /\ Elsewhere

LinkDown ==
    /\ link # "offline" /\ events < MaxEvents /\ events' = events + 1 /\ link' = "offline"
    /\ UNCHANGED <<session, turn, waiting, loop, custom>> /\ Elsewhere

LinkUp ==
    /\ link = "offline" /\ link' = "loading"
    /\ UNCHANGED <<session, turn, waiting, events, loop, custom>> /\ Elsewhere

Snapshot ==
    /\ link = "loading" /\ link' = "ready"
    /\ UNCHANGED <<session, turn, waiting, events, loop, custom>> /\ Elsewhere

(* The child lives beside all this, and is stopped on the way out.          *)
OfShell(step) ==
    /\ Settled \/ exited
    /\ step
    /\ UNCHANGED <<host, work, shown, custom, composer, held, panels, copyMode, leaving>>

Shutdown == exited /\ OfShell(StopShell)

-----------------------------------------------------------------------------
Texts == {x \in Lines : x.head = "text"}
React == Render \/ DropForeign \/ Drain
Results == \/ \E ok \in BOOLEAN : RunEnds(ok) \/ Committed(ok)
           \/ \E x \in Texts : Recalled(x)
Hosts == TurnEnds \/ LoopEnds \/ WaitSettled \/ LinkUp \/ Snapshot
Child == OfShell(KillShell) \/ OfShell(ShellEnds) \/ OfShell(ShellStopped)

Reader ==
    \/ \E x \in Lines : Type(x)
    \/ Submit \/ StartForm \/ Commit \/ RecallOlder \/ Escape \/ ToggleCopyMode \/ AnswerInFreeText
    \/ \E x \in Texts : EditPrompt(x)

TerminalNext ==
    \/ React \/ Reader \/ Results
    \/ CtrlC \/ Insist \/ Lapse \/ InterruptEnds
    \/ HostTurn \/ Waits \/ LinkDown \/ Hosts
    \/ Shutdown \/ Child

(* React renders, operations settle, a turn ends once it is not waited on,  *)
(* and the interaction it waits on is settled by somebody; a lost link      *)
(* comes back.  A reader who insists presses Ctrl+C again.                  *)
Fairness ==
    /\ WF_terminalVars(React) /\ WF_terminalVars(Results) /\ WF_terminalVars(InterruptEnds)
    /\ WF_terminalVars(TurnEnds) /\ WF_terminalVars(LoopEnds) /\ WF_terminalVars(WaitSettled) /\ WF_terminalVars(LinkUp \/ Snapshot)
    /\ WF_terminalVars(insists /\ CtrlC)
    /\ WF_terminalVars(Shutdown \/ OfShell(ShellStopped)) /\ WF_terminalVars(OfShell(KillShell))
    /\ WF_terminalVars(task = "killed" /\ OfShell(ShellEnds))

TerminalSpec == TerminalInit /\ [][TerminalNext]_terminalVars /\ Fairness

-----------------------------------------------------------------------------
(* A result that arrives late clears or replaces only the draft it belongs  *)
(* to: what was typed meanwhile stays (use-composer.ts consume and          *)
(* recallIfCurrent).                                                       *)
OwnDraftOnly ==
    [][\A d \in Drafts \cup {Empty} :
          slot \in {d, Paging(d)} /\ Busy /\ slot' # slot /\ input' # input => input = d]_terminalVars

(* A compaction or a run starts in the conversation it was asked for, and   *)
(* with nothing at work there, whether it was submitted, held back or       *)
(* confirmed in the form (authorize, use-deferred-lines.ts).                *)
StartsQuiet ==
    [][doing' \in {"compact", "loop"} /\ slot' # slot =>
          /\ ~turn /\ ~loop /\ link # "offline"
          /\ \A i \in DOMAIN held : held[i].draft = slot' => held[i].session = session]_terminalVars

(* Lines held back are run or dropped, unless the reader leaves first.      *)
HeldLeave == held # <<>> ~> (held = <<>> \/ exited)

(* Nothing keeps a reader who goes on pressing Ctrl+C (app.tsx:399-402),    *)
(* and no local command outlives the client (shell/controller.ts:171).     *)
Leaves == (insists \/ exited) ~> stopping = "stopped"

Settles == HeldLeave /\ Leaves

-----------------------------------------------------------------------------
(* What the comments say and the code does not do.                         *)

(* "comes back when the last one closes" (app.tsx:257-258): a draft put     *)
(* aside is lost when an answer being written is put aside over it.        *)
ParkedComesBack ==
    [][parked # Empty /\ parked' # parked /\ session = shown.session => input' = parked]_terminalVars

(* "an edit is never delivered" (app.tsx:566): an interaction takes the     *)
(* editor back, and the edit returns as an ordinary draft.                 *)
EditNeverDelivered ==
    \A d \in Drafts : [](intent = "open" /\ input = d => [](slot = d => doing # "prompt"))

(* "the reader can stop the first with Ctrl+C" (shell/controller.ts:91):    *)
(* once its block is dropped, neither key cancels the command.             *)
RunningStaysStoppable == task = "running" => Running
=============================================================================
