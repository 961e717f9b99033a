----------------------------- MODULE EngineRun ------------------------------
(***************************************************************************)
(* One run of the local coding-agent CLI by the bridge: the child and the  *)
(* helpers it may spawn form a process group; the time limit, an abort,    *)
(* the output cap, the child's exit and the end of its pipes race to       *)
(* settle the run, and whichever is first decides.                         *)
(*                                                                         *)
(* A process may end by itself at any time, on SIGTERM or not, so SIGTERM  *)
(* shows only in the SIGKILL it schedules.  Time passes in ticks, which    *)
(* order the three short timers; the time limit of a run is long and       *)
(* fires whenever it likes.                                                *)
(***************************************************************************)
EXTENDS Integers

CONSTANTS
  Grace,   \* KILL_GRACE_MS, from SIGTERM to SIGKILL, in ticks
  Flush,   \* EXIT_FLUSH_GRACE_MS, from the child's exit to settling without its pipes
  Off      \* a timer that is not set

ASSUME EngineRunAssumption ==
  /\ Grace \in Nat \ {0} /\ Flush \in Nat \ {0} /\ Flush < Grace
  /\ Off \notin Nat

VARIABLES
  child,    \* the engine process
  helper,   \* a descendant of it is alive, in its group and on its pipes
  limit,    \* killTimer is set
  hard,     \* ticks left to the first scheduled SIGKILL
  flush,    \* ticks left to settling after 'exit'
  timedOut, \* the run counts as killed
  settled   \* what the promise resolved to, "no" before, "none" without a run

engineVars == <<child, helper, limit, hard, flush, timedOut, settled>>

Timer(max) == 0..max \union {Off}

EngineTypeOK ==
  /\ child \in {"none", "up", "dead"} /\ helper \in BOOLEAN
  /\ limit \in BOOLEAN /\ hard \in Timer(Grace) /\ flush \in Timer(Flush)
  /\ timedOut \in BOOLEAN
  /\ settled \in {"none", "no", "timeout", "error", "exit"}

EngineInit ==
  /\ child = "none" /\ helper = FALSE /\ limit = FALSE
  /\ hard = Off /\ flush = Off /\ timedOut = FALSE /\ settled = "none"

Running == settled = "no"

\* The earlier of two SIGKILLs is the one that counts.
Escalated == IF hard = Off THEN Grace ELSE hard

\* finish: the first caller decides.  The time limit is disarmed; a flush that
\* is still pending can only call finish again, so it is not kept.
Settle(as) ==
  /\ settled' = as
  /\ limit' = FALSE /\ flush' = Off

-----------------------------------------------------------------------------
\* runProcess.  A signal that is already aborted kills the child at once; a
\* command that cannot be run reports an error instead of a child.
Spawn(aborted) ==
  /\ settled = "none"
  /\ \/ child' = "up" /\ settled' = "no" /\ limit' = TRUE
     \/ child' = "none" /\ limit' = FALSE
        /\ settled' = IF aborted THEN "timeout" ELSE "error"
  /\ helper' = FALSE
  /\ timedOut' = aborted
  /\ hard' = IF aborted THEN Grace ELSE Off
  /\ flush' = Off

\* The engine starts a helper of its own.
Fork ==
  /\ child = "up" /\ ~helper
  /\ helper' = TRUE
  /\ UNCHANGED <<child, limit, hard, flush, timedOut, settled>>

\* The child ends, by itself or on SIGTERM: 'exit' starts the flush grace.
ChildExits ==
  /\ child = "up"
  /\ child' = "dead" /\ flush' = Flush
  /\ UNCHANGED <<helper, limit, hard, timedOut, settled>>

HelperExits ==
  /\ helper
  /\ helper' = FALSE
  /\ UNCHANGED <<child, limit, hard, flush, timedOut, settled>>

Verdict == IF timedOut THEN "timeout" ELSE "exit"

\* 'close': the child is gone and nobody holds its pipes.
PipesClose ==
  /\ child = "dead" /\ ~helper /\ Running
  /\ Settle(Verdict)
  /\ UNCHANGED <<child, helper, hard, timedOut>>

FlushEnds ==
  /\ flush = 0
  /\ Settle(Verdict)
  /\ UNCHANGED <<child, helper, hard, timedOut>>

\* killWithEscalation: SIGTERM now, SIGKILL after the grace.
Kill ==
  /\ timedOut' = TRUE
  /\ hard' = Escalated

TimeLimit ==
  /\ limit /\ Running
  /\ limit' = FALSE
  /\ Kill
  /\ UNCHANGED <<child, helper, flush, settled>>

\* onAbort, whose listener lives as long as the run.
Abort ==
  IF Running
  THEN Kill /\ UNCHANGED <<child, helper, limit, flush, settled>>
  ELSE UNCHANGED engineVars

\* killTree('SIGKILL'): the whole group dies.
GroupDies ==
  /\ child' = IF child = "up" THEN "dead" ELSE child
  /\ helper' = FALSE
  /\ flush' = IF child = "up" THEN Flush ELSE flush

\* Mutant: SIGKILL goes to the child alone.
HardKill_ChildOnly ==
  /\ hard = 0
  /\ hard' = Off
  /\ child' = IF child = "up" THEN "dead" ELSE child
  /\ flush' = IF child = "up" THEN Flush ELSE flush
  /\ UNCHANGED <<helper, limit, timedOut, settled>>

HardKill ==
  /\ hard = 0
  /\ hard' = Off
  /\ GroupDies
  /\ UNCHANGED <<limit, timedOut, settled>>

\* More than OUTPUT_CAP_BYTES of stdout: killed without grace, and a failure
\* that is reported even if the run had timed out.
OutputCap ==
  /\ Running /\ (child = "up" \/ helper)
  /\ timedOut' = FALSE
  /\ child' = "dead" /\ helper' = FALSE
  /\ Settle("error")
  /\ UNCHANGED hard

\* runEngine takes the outcome; what is left of the group, and the SIGKILL
\* that is due to it, stay.
Take ==
  /\ settled \in {"timeout", "error", "exit"}
  /\ settled' = "none" /\ child' = "none"
  /\ UNCHANGED <<helper, limit, hard, flush, timedOut>>

EngineStep ==
  \/ Fork \/ ChildExits \/ HelperExits \/ PipesClose \/ FlushEnds
  \/ TimeLimit \/ HardKill \/ OutputCap

\* A timer that is due runs before more time passes.
Due == hard = 0 \/ flush = 0

Down(timer) == IF timer = Off THEN Off ELSE timer - 1

EnginePasses ==
  /\ ~Due
  /\ hard' = Down(hard) /\ flush' = Down(flush)
  /\ UNCHANGED <<child, helper, limit, timedOut, settled>>
=============================================================================
