------------------------------ MODULE Commands ------------------------------
(***************************************************************************)
(* slash/registry.ts, slash/parse.ts, slash/pipeline.ts and the outcome    *)
(* half of controller/commands.ts: what one submitted line means, whether  *)
(* it may run now, and what running it touches.                            *)
(*                                                                         *)
(* A line is a head and its words.  The head is "text" for free text, "!"  *)
(* for a local command, or a slash token; a word is kept only as far as    *)
(* the parser tells it apart: a number that is a valid score and a valid   *)
(* count, a number that is neither, a flag, or anything else.              *)
(***************************************************************************)
EXTENDS Naturals, Sequences, SequencesExt

CONSTANT Short   \* abbreviated slash tokens, with the commands each begins

(* The catalog.  A command that takes no argument is refused with one.      *)
ExactOnly == {"/loop", "/allow", "/deny", "/quit"}

Bare == [t \in {"/copy", "/quit", "/latest", "/queue", "/new", "/older", "/compact", "/cancel",
                "/allow", "/deny", "/cost", "/status", "/help"} |->
           CASE t = "/copy" -> "copy" [] t = "/quit" -> "quit" [] t = "/latest" -> "latest"
             [] t = "/queue" -> "queue" [] t = "/new" -> "newSession" [] t = "/older" -> "older"
             [] t = "/compact" -> "compact" [] t = "/cancel" -> "cancel"
             [] t \in {"/allow", "/deny"} -> "approval" [] OTHER -> "panel"]

WithWords == {"/ws", "/resume", "/model", "/history", "/prompt", "/search", "/ssearch", "/wsearch",
              "/plan", "/goal", "/permission", "/feedback", "/loop", "/export", "/export-html",
              "/coredump", "/auto-ack", "/think"}

CommandNames == DOMAIN Bare \cup WithWords
Aliases == {"/workspace", "/workspaces", "/session", "/sessions"}

Words == {"stop", "abort", "answer", "--delete", "--from", "--junk", "8", "-1", "word"}

ASSUME CommandsAssumption ==
    /\ DOMAIN Short \cap (CommandNames \cup Aliases \cup {"text", "!"}) = {}
    /\ \A t \in DOMAIN Short : Short[t] \subseteq CommandNames

-----------------------------------------------------------------------------
(* Parsing.                                                                 *)

(* The command a token names: itself, or the only command it begins, unless *)
(* that one must be typed in full.                                         *)
Resolve(token) ==
    IF token \in DOMAIN Short /\ \E c \in CommandNames \ ExactOnly : Short[token] = {c}
    THEN CHOOSE c \in Short[token] : TRUE
    ELSE token

(* The options of a loop: a flag takes the number after it, and at most two *)
(* numbers stand alone.                                                    *)
LoopOptionsFit(words) ==
    LET step(at, word) ==
          IF at.flag THEN [at EXCEPT !.flag = FALSE, !.ok = at.ok /\ word = "8"]
          ELSE IF word \in {"--from", "--delete", "--junk"}
          THEN [at EXCEPT !.flag = TRUE, !.ok = at.ok /\ word = "--from"]
          ELSE [at EXCEPT !.alone = @ + 1, !.ok = at.ok /\ at.alone < 2 /\ word = "8"]
        end == FoldLeft(step, [ok |-> TRUE, flag |-> FALSE, alone |-> 0], words)
    IN  end.ok /\ ~end.flag

ParseLoop(words) ==
    CASE words = <<>> -> "loops"
      [] words # <<>> /\ Head(words) \in {"stop", "abort"} -> IF Len(words) = 1 THEN "loopStop" ELSE "error"
      [] words # <<>> /\ Head(words) = "answer" -> IF Len(words) > 1 THEN "loopAnswer" ELSE "error"
      [] words # <<>> /\ Head(words) \in {"--from", "--delete", "--junk"} -> "error"
      [] OTHER -> IF LoopOptionsFit(Tail(words)) THEN "loop" ELSE "error"

Parse(line) ==
    LET t == Resolve(line.head)
        w == line.words
        unless(bad, kind) == IF bad THEN "error" ELSE kind
    IN  CASE t = "!" -> unless(w = <<>>, "shell")
          [] t \in DOMAIN Bare -> unless(w # <<>>, Bare[t])
          [] t \in {"/ws", "/resume"} \cup Aliases ->
               IF w = <<>> \/ w[1] # "--delete" THEN "navigate" ELSE unless(Len(w) = 1, "remove")
          [] t = "/model" -> unless(Len(w) = 1 \/ Len(w) > 3, "models")
          [] t = "/prompt" -> IF w = <<>> THEN "prompts" ELSE "savePrompt"
          [] t = "/history" -> "history"
          [] t = "/search" -> unless(w = <<>>, "historySearch")
          [] t \in {"/ssearch", "/wsearch"} -> unless(w = <<>>, "sessionSearch")
          [] t = "/think" -> "think"
          [] t = "/loop" -> ParseLoop(w)
          [] t = "/auto-ack" -> unless(w \notin {<<>>, <<"8">>}, "autoAck")
          [] t \in {"/plan", "/goal", "/permission", "/feedback"} -> "hostCommand"
          [] t = "/export" -> "export"
          [] t = "/export-html" -> "exportHtml"
          [] t = "/coredump" -> "coredump"
          [] t = "text" -> "prompt"
          [] OTHER -> "error"

-----------------------------------------------------------------------------
(* The pipeline: what the front end made of a draft, what the application   *)
(* takes it for, and whether it may run.                                   *)

(* On the conversation screen: the path screen takes a line it cannot read  *)
(* as a command for a directory, and is not modelled.                      *)
Normalize(line, facts) ==
    CASE line.head # "text" -> Parse(line)
      [] line.head = "text" /\ facts.waiting = "question" -> "answer"
      [] line.head = "text" /\ facts.waiting = "approval" -> "error"
      [] OTHER -> "prompt"

(* Policies per kind.  A kind in none of these - "loops", which conflicts   *)
(* with a run - is refused while busy; the reader's own channel has no      *)
(* policy at all.                                                           *)
Uncatalogued == {"prompt", "answer", "path", "error"}
LocalOrRead == {"quit", "navigate", "remove", "newSession", "savePrompt", "coredump", "latest",
                "older", "sessionSearch", "think", "panel", "copy", "cancel", "approval", "autoAck",
                "loopStop", "loopAnswer"}
QueuesWhileRunning == {"compact", "loop"}
RunsAnyway == {"shell", "models", "queue", "history", "historySearch", "prompts", "hostCommand",
               "export", "exportHtml"}
NeedsNoInteraction == {"queue", "loop", "loops", "hostCommand"}

DuringExecution(kind) ==
    CASE kind \in QueuesWhileRunning -> "queue"
      [] kind \in LocalOrRead \cup RunsAnyway \cup Uncatalogued -> "run"
      [] OTHER -> "deny"

(* "run", "error" with the reason shown, or the fact a line is held behind. *)
Authorize(kind, facts) ==
    IF kind \in NeedsNoInteraction /\ facts.waiting # "no" THEN "error"
    ELSE IF facts.during = "idle" THEN "run"
    ELSE CASE DuringExecution(kind) = "deny" -> "error"
           [] DuringExecution(kind) = "queue" -> facts.during
           [] OTHER -> "run"

-----------------------------------------------------------------------------
(* What running a line touches.                                             *)

(* Kinds that claim the foreground slot until they settle; the others run   *)
(* where they stand, a heap snapshot included, which holds it no longer.   *)
ClaimsSlot == {"navigate", "remove", "path", "models", "newSession", "sessionSearch", "historySearch",
           "older", "compact", "cancel", "approval", "hostCommand", "export", "exportHtml",
           "answer", "prompt", "loop", "loopAnswer"}

(* A line that is refused keeps its draft and closes nothing.               *)
Refused == {"error", "loops"}

(* The panel an accepted line opens.  An empty session is removed without   *)
(* the panel; that case is left out.                                       *)
Opens(kind, words) ==
    CASE kind = "panel" -> {"help"}
      [] kind \in {"queue", "prompts", "history", "remove"} -> {kind}
      [] kind = "models" /\ words = <<>> -> {"models"}
      [] kind = "think" /\ words = <<>> -> {"thoughts"}
      [] kind \in {"historySearch", "sessionSearch"} -> {"search"}
      [] OTHER -> {}

(* A refresh of the costs ends behind its panel, which stays.               *)
ClosesPanels(kind) == kind \notin {"quit", "copy", "autoAck", "costs"} \cup Refused

(* A loop named without any value asks for the form instead of running.     *)
AsksForm(line) == Parse(line) = "loop" /\ Len(line.words) = 1
=============================================================================
