# dsht in TLA+

dsht is a terminal client of a remote agent host. One Node process keeps one
WebSocket (a multiplexer of streams) and sends HTTP calls; everything the
operator sees is published from a single state. Its code is single-threaded,
so nothing races on memory: what can go wrong is the order of continuations.
Every `await` lets timers, frames, answers, keystrokes and `stop()` run, and
what was read before it may be stale after it. The models are about that
order, and about a host that answers late, twice or not at all.

Paths below are relative to the implementation directory `src/`, except `README.md`
and `tui-design.md`, which are those at the root of the repository.

## The system

| component | state it keeps | operations | talks to |
| --- | --- | --- | --- |
| `session/mutation-gate.ts` SessionMutationGate | a lane object per session: busy, two queues of waiters | `admit` | every write of a session |
| `controller/foreground.ts` ForegroundSlot | the current operation, waiters, a promised flag, closed | `run`, `cancel`, `close` | every command of the operator |
| `controller/loop.ts` ScoredLoop | step, attempt, best score, plateau count, phase | `begin`, `settle`, `resume`, `cancel`, ... | LoopCoordinator |
| `controller/loop-coordinator.ts` LoopCoordinator | the held prompt, timers, verification identity, abort controllers | `start`, `stop`, `answer`, `changed`, `idle`, `close` | the host session, the verifier, the published state |
| `controller/connection.ts`, `connection-streams.ts`, `reconnect.ts` | the generation, its client, `online`, the back-off count | `run`, `stop`, `fail` | Client, the session streams |
| `transport/client.ts` Client | the socket, the listeners of each stream, its lifetime | `connect`, `subscribe`, calls, `close` | the host |
| `session/controller.ts` SessionController | the transcript, `running` and its local shadow, outbox, the admission in flight, the interrupt in flight | `prompt`, `interrupt`, `followSession`, `status` | gate, host, interactions |
| `controller/controller.ts` | auto-acknowledge, the unclaimed message being moved, the published state | `event`, `publish`, `shutdown` | all of them |
| `session/interactions.ts` | pending questions and approvals, replies in flight | `request`, `answer`, `cancel` | gate, host |
| `session/navigator.ts`, `navigation.ts` | the navigation in flight, list versions, the screen | `refreshLists`, `showPicker`, `select`, `restore` | host, selection |
| `session/transcript.ts`, `history-reader.ts`, `history.ts` | the record of the selected session, a detached window, the row index | `accept`, `addPage`, `trimHistory`, `jump`, `search` | session stream, host pages |
| `session/info.ts`, `prompt-backfill.ts` | the prompt index with its cursor, the prompt cache, a backfill | `push`, `prepend`, `move`, `observe`, `start` | transcript, cost scans |
| `session/telemetry.ts`, `runtime.ts` | projections with their marks, the derived inbox | `accept`, `snapshot`, `reset` | control stream, session stream |
| `session/peek.ts` | the view of another session and its one stream | `open`, `close` | multiplexer, the sources of the controller |
| `catalog/controller.ts` | the default model, the preset roster, revisions | `refresh`, `reset`, `selectModel`, `loadPresetNames` | host |
| `cli/verifier.ts`, `controller/verifier.ts` | the verifier session, its child, deadline, cancellation | `verify`, `settle` | LoopCoordinator, host, a child process |
| `cost/controller.ts`, `ledger*.ts`, `records.ts`, `pricing.ts` | the scan in flight, the slices, their files | `refresh`, `stop`, `replace`, `saveLedger`, `pruneLedgers` | host, files shared by clients |
| `cost/config.ts`, `controller/loop-source.ts`, `prompt-source.ts`, `prompts.ts` | the files of the configuration directory and their stamps, the layers of saved prompts | `installPriceConfig`, `installLoopPrompts`, `installPromptSource`, `save`, `remove` | files, the operator's editor |
| `slash/*`, `controller/commands.ts` | none: what a line means and may do | `parse`, `authorize`, `run` | all of them |
| `shell/*` | bounded blocks, the running child | `start`, `note`, `cancel`, `stop` | child process |
| `ui/app.tsx`, `ui/input/*` | the draft, the parked draft, an edit, held lines, panels | keys, submission, Escape, Ctrl+C | commands, the published state |
| `storage/*`, `cli/*`, `transport/dsh*`, other `ui/*` | files, options, decoding, drawing | | |

### What is hard, and what makes each part correct

* **Promised microtasks** (gate, slot). Resolving a waiter's promise does not
  run it; a caller that arrives in between must find the resource taken.
  Correct: exclusion, arrival order, nobody stranded.
* **Continuations of something that is over** (loop, connection, navigation,
  history). Correct: a late verdict, failure or page changes nothing of what
  replaced its owner.
* **Publish re-enters** (loop). Every update calls `changed()`, which may
  send, settle or end the run inside the caller. Correct: a run always comes
  to a decision, sends nothing twice and writes one end record.
* **Lost and late answers** (writes, verifier). Mutations are sent once; an
  error says nothing about what the host did.
* **Stop at any await** (connection, slot, verifier). Correct: nothing new
  begins, everybody waiting is released, no socket is left.
* **Two ends of one record** (history). Frames extend it at one end, pages at
  the other, a budget trims it in between. Correct: one session, nothing out of
  reach, one live answer, reads that end.
* **Two streams about one value** (projections), requests that overtake one
  another (catalog, lists). Correct: what is shown was true at its mark, and
  nothing goes back.
* **Files shared by processes, and starts that crash** (ledger, configuration).
  Correct: costs catch up whoever wins a write; what the operator wrote
  survives every upgrade.
* **Keys between two renders** (terminal). Correct: a result touches the draft
  it belongs to, a held line runs where it was typed, Ctrl+C always leaves.

## Modules

| module | models | composed of |
| --- | --- | --- |
| `AdmissionOrder` | what the gate promises: one holder per session, control before normal, each in order | |
| `MutationGate` | `session/mutation-gate.ts` | implements `AdmissionOrder` (refinement mapping `Order`) |
| `ForegroundSlot` | `controller/foreground.ts` | |
| `ScoredLoop` | `controller/loop.ts` as functions from a run to a run | |
| `LoopCoordinator` | `controller/loop-coordinator.ts` with the host's turns and frames | extends `ScoredLoop` |
| `Connection` | `controller/connection.ts`, `connection-streams.ts`, `reconnect.ts`, the socket of `transport/client.ts`, the session stream | |
| `SessionWrites` | `prompt`, `interrupt`, the outbox and the local shadow of `session/controller.ts`, the mover of unclaimed messages of `controller/controller.ts`, and the host session they write to | |
| `Verifier` | `cli/verifier.ts`, its child, the host's turn | |
| `Reading` | the record, the window, paging, search and trims: `session/transcript.ts`, `history-reader.ts`, parts of `session/controller.ts` | |
| `HistoryLayout` | `session/history.ts`: the row index and its cache as functions | |
| `Recall` | `session/info.ts`, `prompt-backfill.ts` and the recall keys | |
| `Navigation` | `session/navigator.ts` and the screens | |
| `Attention` | `session/interactions.ts`, the answers to a question set, auto-acknowledge | extends `Navigation` |
| `Projections` | `session/telemetry.ts` | |
| `Peek` | `session/peek.ts`, the output sources and the view on them | |
| `Catalog` | `catalog/controller.ts` | |
| `CostScan` | `cost/controller.ts`, `ledger-files.ts`, `scanner.ts`, two clients | |
| `Ledger` | `cost/records.ts`, `pricing.ts`, `ledger.ts` as functions | |
| `PromptStore` | `controller/prompts.ts`, the layers as functions | |
| `Setup` | a start over three releases: `cost/config.ts`, `loop-source.ts`, `prompt-source.ts` | extends `PromptStore` |
| `Commands` | `slash/*` and `controller/commands.ts` as functions of a line | |
| `Shell` | `shell/controller.ts`, `runner.ts` | |
| `Terminal` | the composer, held lines, panels, keys | extends `Commands`, `Shell` |
| `Exclusion_proofs` | theorems of `MutationGate`, `ForegroundSlot`, the two side by side and `Terminal` | extends `MCExclusion`, `Terminal` |
| `Lifetimes_proofs` | theorems of `Connection`, `Verifier` and the two side by side | extends `MCLifetimes` |
| `Derived_proofs` | theorems of `Projections`, `Peek` and `Catalog` | |
| `CostScan_proofs` | theorems of `CostScan` and `Setup` | |
| `Attention_proofs`, `LoopCoordinator_proofs`, `Reading_proofs`, `SessionWrites_proofs` | theorems of the module named | |
| `MC*` | the instances TLC checks | `MCExclusion`, `MCLifetimes`, `MCStores` and `MCDerived` extend the modules they put side by side; `MCDerived` has instances of `Recall` |

An action is the code between two awaits, all calls included. Definitions
named `Mutant...` stand next to the definition they vary; they are plausible
bugs of the code, used to see that a property would notice them, and no
specification refers to them.

### MutationGate

`lanes` is the map of the gate, `busy` and `queue` the fields of the Lane
objects. A Lane is created when a caller finds none, so each is named by the
call that created it, and `state[a]` is the Lane the call captured. `pc` says
how far a call is: `queued` waits in `acquire`, `admitted` has its promise
resolved (or found the gate free) but its section has not run yet. `Dispatch`
is the section, the answer and `release`: sections do not await. `ticket` and
`clock` record the order of arrival, for the abstract order only.

### ForegroundSlot

`progress` of a claim says where its `run` is: waiting in the array, woken but not
yet continued, begun (the listener of `begin` runs), running or nested.
`store[c]` is the operation in the async context `c` was called in.
A listener may cancel the operation between its begin and its work.
`ahead` is history: the waiters a claim found before it.

### ScoredLoop and LoopCoordinator

`exec` is the current execution with the run it owns. Methods are functions
from `exec` to `exec` and an await leaves a record in `exec.tasks`, tagged with
the run it belongs to; tasks of replaced runs stay in flight. `host` is the
host's turn. What a publish can re-enter is applied where it can have an
effect (`Changed`, `Nudge`, `Release`, `Settled`). Verification numbers count
up in the code; here a number is used again once no verification of the run
has it, which keeps the state space finite and the comparisons the same.
Scores are abstracted to their rank: `Pass` is any score that passes.
`own`, `stray`, `slipped`, `ends`, `outages` and `gaveUp` are history.

### Connection

`task.at` is the await `run` is suspended in, `gens[g]` the signal, client,
socket and listeners of generation `g`. Frames, handshakes, losses, late
answers, a session selected at any time and `stop()` come in between. Times
are abstracted to `none`, `short` and `stable` (15 s and more).

### SessionWrites

`client` has the fields of SessionController and of the mover that a write
reads or changes, and the calls that are out: `requests` are the prompts ever
sent, `wire` those that have not reached the host, `open` those without an
answer. `shadow` is `admittedTurn`, `admission` the stored promise (by the
number of its request), `row`, `removed`, `wait` and `claimed` the record of
`unclaimed`. Every publish ends in `queueUnclaimed`, so every continuation is
wrapped in `Published`, except where the code publishes before the mover is
free again. Which of two writes passes the gate first is `MutationGate`'s
subject; here deciding and sending are one action. `loop` is set while a run
waits for the turn of its prompt. `hist.lost` is set when an answer was lost,
`hist.foreign` counts turns of other clients; both are history.

The host is modelled as the code describes it: queued input wakes a turn, a
turn claims steering input at its step boundaries only, a removal of input
that is gone is answered `session/queue-item-not-found`, and cancelling leaves
the inbox alone. Answers and frames are not ordered with each other; frames
are ordered among themselves.

### Verifier

The parent's code runs from one await to the next (`Local`), the deadline, the
operator, the child, the host and the agent's turn take their own steps. The
file a child writes its verdict to outlives it, `turn` is the agent's turn per
task, so that one task's turn can go on under the next one. What a reply holds
is abstracted to which JSON objects come in it, since the last usable one of
this round decides.

### Reading and HistoryLayout

A frame is of one of four kinds, and a client is at a position of the stream. `record`
and `window` are transcripts: their events, the two ends, the cursor a snapshot
left, whether the host has more. The one read in flight is a foreground
operation; it is of the current selection exactly as long as it has not been
cancelled. An answer comes whole, empty with "more" (`Stall`), or not at all.
`HistoryLayout` is what a list of messages becomes: `Update`, `Viewport`, `Offset`
and the cache, which `MCReading` compares with laying out the whole list.

### Recall

`index` is the bounded list with its cursor, its shed flag and the newest
sequence; `cache` what is kept of a session that was left. The backfill reads
pages of one session while frames arrive, cost scans fold pages of any, and
the reader steps up past the end of the list, which pages the window.

### Navigation and Attention

`op` is the navigation that holds the foreground slot, `refresh` the load a new
generation does beside it; `revision` and `listsVersion` are the counters the code compares. A request of
the host is delivered again to every generation: `made` counts the instances,
a reply remembers the one it is for. Parts of a question set are collected
before one reply is sent; the policy is a task that answers while it is armed.

### Projections, Peek and Catalog

`past[n]` is what the host had after record `n`, so "true at its mark" can be
said. In `Peek` a stream is known by the open and the address form it belongs
to; a lost socket is reported to one listener after the other. In `Catalog` the
host's catalog is a number that grows.

### CostScan and Ledger

A slice is its cut; it covers the log up to there. Reading, comparing and
writing are steps, so another client can write or prune in between. `Ledger`
has the arithmetic: which sample an attempt's events leave, which price row an
instant falls in, which days a slice keeps. `MCLedger` compares these with
definitions that look at all events at once, on all inputs of a bounded size.

### PromptStore and Setup

A file is missing, torn, the file of a release, or the operator's. Each write is
a step and a crash may come between two. `wrote` is history: what the operator
wrote and did not take back.

### Commands, Shell and Terminal

A line is its head and its words as far as the parser tells them apart.
`Commands` says what it becomes, whether it is run, held or refused, and what
running it claims. In `Terminal` a draft is a number; drawing is a step of its
own, because a promise may continue before the next drawing and a key is
handled with what was drawn last. Lines held back for a
conversation the reader has left are dropped, the others stay in their order
(`DropForeign`). A line that is not accepted keeps its draft (`Retain`); two lines
are used up whatever the slot says: `/cost`, which opens its panel and reads the
costs behind it if the slot is free, and `/coredump`. They are not among the lines
of the run, which they would take past its time; with them in `MCLines` TLC finds
632,768 states and the same result.

## Runs

| run | bounds, and why they are enough | shows |
| --- | --- | --- |
| `exclusion` | three normal and two control calls of one session and one call of another: a queue of each kind two deep, and a lane dropped and created again while a call holds the old one; four claims of the slot: an occupant, one promised, one waiting, one arriving, any of them nested in any other | sections and operations exclude one another, no stranded waiter, the promised order, work starts live, everybody waiting goes on |
| `loop` | two steps, two tries, one retry of the verifier, one repeated idle frame; five setups, one of them with a run that replaces another | spans, deadline, held prompts and pauses of an execution; decisions by the attempt itself; every run decides |
| `lifetimes` | four generations, so one may be stable, two unstable and a late answer two generations old; two verifications of one attempt, the second of which meets what the first left behind | generations apart, stop, verdicts earned, everything stopped ends |
| `writes` | one typed message, one of a loop, each moved at most once, one fault or foreign turn: enough for a message sent in any state of the other, and for each call to fail once | recorded once, nothing dropped, cancels in order, nothing waits for ever |
| `stores` | two clients, two sessions, one event and one fault; three releases of every kind of file with two edits, three starts and one crash: an upgrade of an upgrade, each step of it cut short once | passed over means read, costs catch up, edits survive and releases arrive |
| `reading` | three records of history, pages of one, a limit of two, two frames: a page, a trim and a frame in every order, in two sessions | one session in reach, one live answer, searches miss only holes, reads end |
| `attention` | a question set of two parts with one option, an approval with three; two operations and one lost connection | replies through the newest instance, lists and screens of the newest intent, the policy rests |
| `derived` | three records, two follows and a reset; four prompts with one internal, one repeated and one local, an index of three, a cache that is larger than what a backfill and a scan hand it; two verifier sessions, a child and a local run from two conversations; two generations of the catalog with three requests | values true at their marks, recall in order with its cursor, one stream per view, the newest catalog |
| `terminal` | six lines (text, commands with and without claims, `!`), two drafts, two events from outside, a list of one block | results touch their own draft, nothing starts over something else, everything comes to rest |
| `writes_idle`, `backoff`, `rescans` | the same modules, the smallest instance with the behaviour | the findings below |

`exclusion`, `lifetimes`, `stores` and `derived` put modules that share no state side by
side: a behaviour is one of them, from its initial state, beside the initial
states of the others. Nothing is multiplied and nothing is hidden: the
reachable states are those of each part, and a fair action of a part that
rests in its initial state is not enabled. In `exclusion` claims are made in the
order of their numbers, because claims that were not made yet are all alike. `MCReading` and `MCStores`, which
extends `MCLedger`, hold the `ASSUME`s that compare the pure modules with their
references; TLC evaluates them before the run.

Deadlock checking is off where the system may rest: all calls made, a run
over, a client stopped, every message recorded, every read answered.

### Fairness

Weak fairness is assumed of microtasks whose promise has resolved, of timers
that are armed, and of awaits the code bounds with a timeout (handshake,
verifier, compaction, file reads, the phases of a generation). In `loop` the
host is fair in answering sends and ending turns, and the client in becoming
able to send again, because `RunsDecide` is about what the client leaves
undone. In `writes` calls are answered, frames arrive, the host wakes and ends
its turns, and a lost connection comes back; `Publish` is fair because the
cost scan publishes once a minute (`cost/controller.ts:49`). Without that a
second parked row would not be moved: a move ends after the publish that
reports its slot free, while the mover still counts as busy. Step boundaries
are not fair: a turn may end without one.

In `lifetimes` the verifier's own code, its deadline and the grace after which a
child is killed are fair, and the creation of a session is answered or fails;
neither the agent's turn nor the answer to a cancel has to come. In `stores` the minute timer, the
steps of a scan, `stop` and the reconnect are fair; the host's turns may go on
for ever. In `reading` a request is answered or runs into its deadline, an open
stream delivers, and a lost connection comes back; the reader does nothing for
granted. In `attention` the gate dispatches, the calls of a reply end and the
policy's task runs. In `terminal` drawing, results, timers and the child's end
after a kill are fair, turns and loops end, and a reader who insists goes on
pressing Ctrl+C.

Otherwise nothing is assumed of the operator, of publishes for other reasons, of
work in the foreground slot, of late answers or of the host's frames.

### What the code does not keep

Three of these have a run, which TLC ends with the behaviour:

* `backoff` (`CountsUnstable`): the ready time of a generation survives into the
  next ones that never get ready, so a client that was once stable never backs
  off again.
* `writes_idle` (`IdleIsLeftAlone`): the promise of an admission is compared with
  its result, so it is never cleared. An idle session is cancelled by Ctrl+C and
  on exit.
* `rescans` (`EntriesInOrder`): a session that is scanned again is put in front of
  what its first scan left in the prompt cache (`session/info.ts:320-328`). The
  budget then cuts the front off the newer copy, the scan calls what is left the
  complete list (`session/controller.ts:817`), and an open adopts it: the oldest
  prompts come after newer ones, where `info.ts:123` says "in session order,
  oldest first". The run needs two scans and a cache of five entries; `derived`
  has one scan and a cache that does not overflow, so its `RecallHolds` is about
  lists within the budget.

The others are stated in their module, after its properties. To see one, give
the statement to the named cfg in place of its properties, with the changes in
the last column.

| statement | what the source says | what the code does | cfg |
| --- | --- | --- | --- |
| `OnlyEndedTurns` | `loop-coordinator.ts:376` "Only a turn that actually ended may be consumed" | every idle frame is taken for the end of the awaited turn; the properties of `loop` are for runs without such a frame (`Undisturbed`) | `MCLoopCoordinator`, one self-scored set-up with `replays` 1 |
| `RetriesBeforeGivingUp` | `loop-coordinator.ts:136` outages "in this attempt" are counted | the count goes on when the reply stands in for the verifier | `MCLoopCoordinator`, one set-up with `forked` and `fallback` |
| `IdleStartsTurn` | `README.md:317` "while idle it starts a new turn" | the shadow of a message steered into a turn outlives it: the next one is a steer no turn claims, and is late | `MCSessionWrites`, `MaxRequests = 6`, `MaxFaults = 0`, two typed messages |
| `MovedNotLost` | `controller.ts:1482` "not found" means delivered | after a lost answer the row was removed by the client itself, and the message is gone | `MCSessionWrites`, two typed messages, none of a loop |
| `MoverLeavesLoops` | `controller.ts:1429` a loop claims its rows itself | a row is moved while a loop waits for its turn; sending it again stops the loop | `MCSessionWrites`, `MaxRequests = 6`, two typed messages |
| `RetryMeansStopped` | `cli/verifier.ts:163-164` no second remote task while the first may run | a reply that cannot be read is retried at once | `MCLifetimes` |
| `HistoryHasNoHole` | `transcript.ts:282` asks callers not to trim under a page | a page in flight is trimmed under, and what lies between is not shown | `MCReading` |
| `RecallHasNoHole` | `info.ts:300-302`, `tui-design.md:1474` a complete list has no hole | a cached list of an older cut is adopted as complete | `MCDerived`, as `Recalls!RecallHasNoHole` with pages of three and one snapshot record |
| `RefreshArrives` | `navigator.ts:1` a given up intent does not decide a refresh | a cancelled load takes the version of the refresh with it | `MCAttention` |
| `AutoAckIsArmed` | `controller.ts:1386-1388` the next publish arms the policy | a publish that finds its task running does not, and the task ends without one | `MCAttention` |
| `NewerCutStays` | `ledger-files.ts:41-44` an older cut does not replace a newer one | comparing and writing are two steps; a later scan repairs it | `MCStores`, `MaxFaults = 0`, no aged session |
| `UneditedPricesFollow` | `cost/config.ts:16-18` an unedited table follows the release | a crash between the table and its stamp makes it the operator's | `MCStores` |
| `NeverRefused` | | a crash inside `createPrivateFile()` (`storage/files.ts:76`) leaves a torn file and the next start stops there | `MCStores` |
| `RemovedStayAway` | `README.md:386` a removed prompt stays removed | a removed default comes back when a release rewords it | `MCStores` |
| `NothingDropped` | `prompt-source.ts:75-76` nothing is dropped | a hand edit of nothing but the `top` mark is | `MCStores` |
| `EditsSurvive` | `README.md:386` prompts are the operator's | of two clients the one that saves last overwrites the other's list | `MCStores` with two `Processes` and `MaxStarts = 2` |
| `StartsCurrent` | | after a rollback the older release's text stays beside the newer one's | `MCStores` with `Rollback = TRUE`, no crash |
| `ParkedComesBack` | `app.tsx:257-258` a parked draft comes back | another one is parked over it | `MCTerminal`, `MaxEvents = 3` |
| `EditNeverDelivered` | `app.tsx:566` an edit is never delivered | it comes back as an ordinary draft when an interaction took the editor | `MCTerminal`, `MaxDrafts = 3` |
| `RunningStaysStoppable` | `shell/controller.ts:91` Ctrl+C stops the first | once its block is dropped neither key finds it | `MCTerminal`, `MaxDrafts = 3` |
| `StreamIsOnView` | `session/peek.ts:5` the stream is released when the view closes | a local run put on view leaves the earlier stream open (`controller.ts:950`) | `MCDerived` |
| `EndedIsStill` | `session/peek.ts:86` a malformed frame ends it | the view says ended, the stream goes on and fills it | `MCDerived` |
| `RunningIsJudging` | `controller.ts:936` sources are marked as finished | only a cancelled verification is; one that gave its verdict is listed first, as running | `MCDerived` |

Seen while modelling and stated by no property: a shipped prompt updated to a
text another row has is listed twice; a `prompt.local.json` that does not parse
is overwritten by the next save; a catalog selection accepted after the reader
went elsewhere is not followed by a refresh (`catalog/controller.ts:100`);
`command()` drops the cache of the session selected when it is called again
after its await (`session/controller.ts:556`); a trace that is compacted while
lines arrive assigns the lines it read before (`controller/trace-log.ts:120`).

## Proofs

TLAPS proves, for every set of calls, sessions, claims, messages, clients,
releases, requests and set-ups of a loop, any limits and page sizes and any number of
generations, verifications, faults, frames, drafts and runs:

* `GateInvariant`: `Spec => []GateInv`. Exclusion is not inductive: a
  hand-off is safe only if the Lane a waiter captured is the one in the map.
  The invariant says that an admitted call's Lane is the map's and busy, that
  a Lane is busy exactly when one of its calls is admitted, that queues hold
  exactly the queued calls of their lane once each and in ticket order, and
  that a Lane outside the map has nobody. `SectionsExclude` and `WaitersHeld`
  follow, and with them `GateGuards`, the conjunction the run checks;
  `GateTyped` is the type invariant.
* `GateImplementsOrder`: every step of the gate is a step of `AdmissionOrder`
  or a stutter, under the mapping `HolderAt(pc)`, `Served`.
* `SlotInvariant`: the promised flag is set exactly while one claim is woken,
  the array holds exactly the waiting claims in arrival order, and `current`
  is the one claim that is begun or running. `OneOperationAtATime`,
  `WaitersInArrivalOrder` and the action property
  `WorkStartsUnderLiveOperation` follow; `SlotGuards` is what the run checks and
  `SlotTyped` the type invariant.
* `ConnectionInvariant`: `task.at` says what the rest must look like. A
  generation before the running one is closed, failed and has no socket; one
  after it is untouched; the running one may be used only while `run()` is in
  one of its phases, and from the `finally` block on no field of the controller
  names it but `current`, until its socket is gone. That is why `OneSocket`
  holds, and why it is not inductive by itself: `Begin` must know that the
  generation before it is gone, which `SocketClosed` established two steps
  earlier. A failure can be passed only to the running generation
  (`conn.fails`) or to its own (`Owner`), and frames come only from an open
  client, so `FailuresStayHome` and `NoFrameAfterFailure` follow, and
  `OnlineIsIdentified` from what the phases waited for. `Later` is the
  argument for the nine actions that change one generation and nothing of the
  task: what has ended does not come back. `GenerationsStayApart` is the
  conjunction the run checks, `StopEndsStarting` the action property.
* `ProjectionsInvariant`, for any keys, values and bounds: every baseline, update
  and snapshot under way holds what the host had at its sequence, the frames of
  one stream come in the order of their sequences, and an entry's value is the
  host's at its mark. The middle part is why it is inductive: an update can be
  taken over a snapshot only because no frame before it is still to come.
  `ValuesShownAreTrue` and the action property `NoKeyGoesBack` follow.
* `WritesInvariant`, for any messages, faults and frames under way.
  `MessagesCounted` speaks of what is recorded and is far from inductive. The
  invariant `WInv(client, host, frames, hist)` adds, part by part:
  `Numbers` (every number the client or the host knows is that of a prompt
  sent, and `admission` is the last one); `Places` (where the host keeps what
  it received, and that a moved message is never parked again, because the
  mover queues it); `Slots` (a prompt of the foreground slot without an answer
  is the last one sent); `Counted` (while no answer is lost a message has one
  carrier, on the wire, in the inbox or recorded, or it has none and the mover
  owes it, never both); and `Sent`, an account: prompts of the mover, with the
  one it owes, do not exceed the messages it took out of the inbox plus the
  faults. The account is what bounds the prompts: with first sendings injective
  in the messages it gives `Len(requests) <= 2 * |Messages| + MaxFaults`, so
  `MaxRequests` cuts nothing off, and `WritesTyped` is the type invariant. An
  action composes several functions on the client, so the invariant is stated of
  a client, a host, frames and a history, and a lemma for each piece (`Issue`,
  `MoveFails`, `MoveEnds`, `Resend`, `Published`) says that it keeps it; the
  lemmas for the actions put the pieces together. `MessagesStayCounted` is the
  safety property of the run. `CancelsComeAfter` is its action property: the
  cancel leaves when the awaited admission is answered, by `Slots` no prompt of
  the foreground slot before that one is open, and as long as no answer is lost
  what is on the wire is open (`NothingOvertaken`).
* `ScanInvariant`, for any clients, sessions and bounds: no cut, in memory or in a
  file, and no recorded update time is ahead of the log (`NothingAhead`); a row
  was true when it was listed (`RowsWereTrue`); the opening cut covers the row it
  is compared with and takes nothing from what the client holds (`CutCoversRow`);
  bookkeeping that is up to date goes with a slice that is (`ReadIsHeld`). The
  third is what makes it inductive: a scan that is about to write knows that its
  cut was taken after its row, however many other scans wrote, deleted or billed
  since. `PassedOverIsCurrent` follows, and `ScanTyped` is the type invariant.
* `CoordinatorInvariant`, for any limits, retries, set-ups, runs and repeated idle
  frames. The invariant has a part that needs nothing of the host: the numbers of
  a run that goes on are below its limits (`Sane`), begins and ends pair, the
  deadline is armed exactly while a run goes on, and every continuation and prompt
  under way is of a run that was begun (`Spans`). The rest is for a run that no
  idle frame and no flush disturbed: `OneAtATime` says that at most one
  continuation of it is under way, that it is the one `verifying` or `compacting`
  stands for, with the identity `judge()` compares, that an attempt whose prompt is
  out has nothing else to wait for, and that a held prompt waits only behind a
  compaction; `Consuming` that `settling` is set exactly while the artifact is
  read. `HeldPrompts`, `PausedIsQuiet` and `DecidedByOwnTurn` are not inductive
  without it: that a verdict decides nothing while the turn of the attempt runs
  holds because `own` is not `"sent"` or `"delivered"` while a verification is
  under way. A method calls others, so each has a contract between the execution
  it is given and the one it returns, the decisions it makes included: `Still`
  decides nothing, `Onward` may decide but consumes nothing, `Follows` may do
  both, and `Right` says that what it leaves is orderly and what it decided was
  due. A lemma for each method proves its contract, a lemma for each action joins
  them. `ExecutionHeld` and the action property `DecisionsHeld` follow, and
  `CoordinatorTyped` is the type invariant. The proof found a place where the
  model was too generous: `startLoop` makes an execution of its own, so a new run
  starts with no timer and nothing under way, and `Start` now says so
  instead of carrying over what the run in the way had left.
* `ReadingInvariant`, for any sessions, streams, snapshots, pages and limits. A
  transcript is `Whole`: its events are of one session, its ends are those of what
  it holds, and it asks for more exactly as long as the first record is not
  loaded. `Followed` says that the record is ready exactly while its stream is
  open, that it then holds nothing the stream has not delivered and the newest
  `Target` records of what it has (`Reaches`), and that the live answer lags behind
  or is that of the attempt that is active (`Fits`; chunks are counted by the
  position of the last start, so the lemmas first say what one more frame
  changes). `Asks` is what makes it inductive: a read that has not been cancelled is
  of the selected session, the page it wants ends before a record that is logged,
  and what it was asked for still has more, so a late page cannot tell a record
  that was trimmed meanwhile that there is nothing before it. A trim is about
  cardinalities: `NewestKept` counts the records after one of the newest `Target`,
  `FirstIsTrimmed` shows that record 1 always goes. `WindowHeld` and
  `ReadingTyped` follow.
* `VerdictsAreEarned`, for any number of verifications and whatever turns reply.
  `VerifierInv` says that a child is alive only while the parent waits for it
  (`ChildIsAwaited`), that the turn of a task is none before its prompt
  (`PromptsAreNew`), that a verdict file read by the parent came from the reply of
  this task's own turn, which is over (`VerdictIsRead`), and what the parent has
  done about a stop, wherever it was when the stop came (`StopsAreActedOn`). The
  third is the reason `VerdictIsEarned` holds although the file outlives the child
  and an earlier task's turn may still run: the old file is removed before the
  fork, and only the child of this task writes another. `OnlyJudgeVerifies` says
  that no other step calls an attempt verified.
* `ExclusionIsApart` and `LifetimesAreApart`: a behaviour of two modules side by side
  is one of each, so the theorems of the parts hold of the specification TLC runs.
  `ExclusionTypeCorrect` and `LifetimesTypeCorrect` are their type invariants.
* `PeekIsSafe`, for any sources, conversations and opens. `PeekHolds` alone does not
  say whose frames a stream brings. `StreamFeeds` adds that an open stream is of
  the session whose state is kept, and that one is on view unless a local run took
  the view over; `LoopIsHome` that a run's view belongs to the conversation the run
  is in. A view is opened by several calls, so lemmas say of each what it leaves
  (`Rewritten`, the streams closed and opened), and the actions follow.
* `CatalogSettled` and `CatalogMovedOn`, for any numbers of changes, generations and
  refreshes. `ReadsAreCounted`: one read belongs to a refresh, so "the newest" is
  one read. `ModelIsAsked`: unless a change is still to be announced, the model is
  the host's or the newest refresh will bring it. `VersionsGrow`: what the newest
  refresh has read is no older than the model shown, which is why no older one
  replaces it although answers come in any order.
* `AttentionIsSafe`, for any sessions, requests, parts and policies: `AskInv` is
  `NavInv /\ InstancesInv /\ AnswersInv /\ ReplyInv`. A navigation that was not
  stopped is of the newest intent, and only "lost" takes its client (`OpFits`), so
  what it opens at its end was asked for last; a retained instance is the one
  delivered last, of a request that was not withdrawn, and no request has two
  (`InstancesInv`); the slot is an interaction's exactly while a reply is on its
  way, and the policy acts exactly while that reply is its own (`ReplyInv`). TLC
  checked it as an invariant of `attention` before it was proved.
  `OvertakenChangesNothing` is the action property of the run,
  `AttentionTypeCorrect` the type invariant.
* `LateResultsSpareNewDrafts` and `RunsStartQuiet`, for any lines, conversations,
  drafts, events and blocks. `TerminalInv`: a draft is in one place, held back
  once, put aside or in the composer (`DraftsApart`), and what the slot still owes
  its line is kept only while the composer holds the draft the slot was taken for
  (`ReceiptsOwn`). Without the second a late result could not be told from one
  whose draft was parked, sent and replaced. TLC checked it as an invariant of
  `terminal` before it was proved. `TerminalTypeCorrect` is the type invariant,
  the one of the shell included.
* `HandEditsSurvive`, for any clients that start at once, any releases in any order
  (an older one after a newer one too), any loop records, and a crash between two
  files: the price table and every loop record the operator wrote stay. The
  invariant adds that a record of theirs is in a file that parses
  (`WrittenInPlace`), because a crash tears a file only where there was none.

The assumptions are those on the constants in the modules named, which the runs
evaluate.

## What is only model-checked

Liveness everywhere: it needs fairness and ENABLED, which the prover does not
handle. `WaitersGoOn`, `RunsDecide`, `LifetimesEnd`,
`WritesSettle`, `CostsCatchUp`, `ReadingSettles`, `AutoAckRests` and `Settles` are of that
kind.

The recall list (`RecallHolds`) and the saved prompts of a start (what
`UpgradesKeep` says beyond the theorem above): both are filtered and folded lists, whose
elements the provers know only through induction over data. For the same reason
`DerivedTypeOK` and `StoresTypeOK`, which hold their types, are proved part by part
(`ProjectionsTyped`, `PeekTypeCorrect`, `CatalogTypeCorrect`, `ScanTyped`) and not as
wholes. The pure modules `Ledger` and `HistoryLayout` fold over
sequences, and what a fold computes for every input needs induction over data,
which the installed provers cannot do; they are compared with their reference
definitions on bounded inputs.

## What is not modelled

* Drawing, formatting, Markdown, math, exports, help texts, completion menus (`@`,
  loop names) and prompt texts: data without interleaving.
* Decoding of frames and HTTP: a frame that cannot be read is the failure of its
  generation, which `Connection` has, or the end of a view, which `Peek` has.
* Amounts of money: decimals of fixed width, added and multiplied.
* The path screen, and a question without options that sends a typed draft:
  they add a way into actions that are modelled.
* In `Terminal`: the slot while an answer chosen in a menu is sent (`WaitSettled`
  is the answer's arrival), the write of `/prompt` with words, and which of the
  read-only panels is open (help, costs and status are one). The ends of runs,
  edits and recalls share one fairness condition, which is weaker than a condition
  for each.
* Tracing, memory logs, options of the command line: nothing reads them back.
* Legacy hosts that log chunks as records; hosts that reorder frames of one
  stream.
* Two components under one interleaving, beyond those named in "composed of":
  `MutationGate` and `ForegroundSlot` appear in the other modules as what they
  promise.
* The host, beyond what the client's code says of it.

## Plan

Done: the gate, the slot, the loop, the connection, the writes, the verifier, the
record and its rows, recall, navigation and interactions, projections, the view of
another session, the catalog, the ledger, the configuration files and the
terminal; and the proofs of what each run checks of their safety, except for the
two lists named above. What could come next:

1. The trace log's compaction as a function, and the composition of `Verifier`
   with `LoopCoordinator`: what the one returns is what the other takes as given.
2. The recall list with its entries as a set of positions, which would bring its
   order within reach of a proof.
3. A cache of prompts without repetitions, were `rescans` to be repaired.
