-------------------------------- MODULE Shell --------------------------------
(***************************************************************************)
(* shell/controller.ts and shell/runner.ts: the local commands of one      *)
(* client.  A block is what the reader sees of a command; the task is the  *)
(* child process behind the newest one.  Output is left out: it is bounded *)
(* per block and changes nothing else.                                     *)
(***************************************************************************)
EXTENDS Naturals, Sequences

CONSTANT BlockLimit     \* BLOCK_LIMIT

ASSUME ShellAssumption == BlockLimit \in Nat \ {0}

VARIABLES
    blocks,    \* [kind, live] of each block kept, oldest first
    task,      \* the child: none, running, aborted (SIGTERM sent), killed
    stopping   \* stop() was called and has not returned; then stopped

shell == <<blocks, task, stopping>>

ShellTypeOK ==
    /\ blocks \in Seq([kind : {"shell", "note"}, live : BOOLEAN]) /\ Len(blocks) <= BlockLimit
    /\ task \in {"none", "running", "aborted", "killed"}
    /\ stopping \in {"no", "stopping", "stopped"}

ShellInit == blocks = <<>> /\ task = "none" /\ stopping = "no"

-----------------------------------------------------------------------------
Running == \E i \in DOMAIN blocks : blocks[i].live

MutantPush(block) == blocks' = Append(blocks, block)

(* Only the newest blocks are kept.                                         *)
Push(block) ==
    LET all == Append(blocks, block) IN
    blocks' = IF Len(all) > BlockLimit THEN Tail(all) ELSE all

(* start(): refused while a child is there.  The child is spawned before    *)
(* start returns.                                                          *)
CanStart == task = "none"

StartShell ==
    /\ CanStart
    /\ Push([kind |-> "shell", live |-> TRUE])
    /\ task' = "running" /\ UNCHANGED stopping

Note == Push([kind |-> "note", live |-> FALSE]) /\ UNCHANGED <<task, stopping>>

MutantAborted == task

(* cancel(): the process group gets SIGTERM, and SIGKILL once the grace     *)
(* period is over.                                                         *)
Aborted == IF task = "running" THEN "aborted" ELSE task

CancelShell == task' = Aborted /\ UNCHANGED <<blocks, stopping>>

KillShell == task = "aborted" /\ task' = "killed" /\ UNCHANGED <<blocks, stopping>>

(* The child closes its pipes, by itself or of a signal: its block ends,    *)
(* wherever it is, and the task with it.                                   *)
ShellEnds ==
    /\ task # "none"
    /\ task' = "none"
    /\ blocks' = [i \in DOMAIN blocks |-> [blocks[i] EXCEPT !.live = FALSE]]
    /\ UNCHANGED stopping

(* stop(): cancel, await the task, then poll for blocks still running.      *)
StopShell == stopping = "no" /\ stopping' = "stopping" /\ task' = Aborted /\ UNCHANGED blocks

ShellStopped == stopping = "stopping" /\ task = "none" /\ ~Running /\ stopping' = "stopped" /\ UNCHANGED <<blocks, task>>
=============================================================================
