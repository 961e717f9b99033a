---------------------------- MODULE ConfigWatch -----------------------------
(***************************************************************************)
(* startConfigWatcher: bridge.toml, the inotify watch on it, and the       *)
(* configuration in memory that every operation of a bridge reads.         *)
(*                                                                         *)
(* A watch is on an inode, not on a path: it sees a write in place and the *)
(* removal or replacement of its file, and nothing after that.  Closing it *)
(* discards what it has seen and not delivered.  The callbacks of the      *)
(* process run one at a time; the file changes between any two system      *)
(* calls.  The model starts after the first load and the first watch,      *)
(* which follow each other at once.                                        *)
(***************************************************************************)
EXTENDS Naturals

CONSTANTS
  Configs,   \* the configurations that parse and pass the validation
  Broken,    \* a text that does not
  Absent,    \* there is no such file
  MaxEdits,  \* bound: changes of the file
  MaxFaults  \* bound: watches that fail or cannot be opened, of a file that is there

ASSUME ConfigAssumption ==
  /\ Broken \notin Configs /\ Absent \notin Configs /\ Broken # Absent
  /\ MaxEdits \in Nat /\ MaxFaults \in Nat

VARIABLES
  file,      \* what is at the path
  current,   \* currentCfg
  watch,     \* "live", "stale" (on an inode that has left the path), "none"
  event,     \* the watch has seen a change that is not yet delivered
  debounce,  \* the debounce timer is pending
  loading,   \* its callback has re-opened the watch, and reads the file next
  retries,   \* pending timers of retryRewatch
  stopped,
  edits, faults,
  missed     \* (history) a change while no watch was open, or one discarded
             \* with its watch, that no load has followed

watching == <<current, watch, event, debounce, loading, retries, stopped>>
config == <<file, watching, edits, faults, missed>>

Texts == Configs \union {Broken, Absent}

WatchInit ==
  /\ file \in Configs /\ current = file
  /\ watch = "live" /\ event = FALSE
  /\ debounce = FALSE /\ loading = FALSE /\ retries = 0 /\ stopped = FALSE
  /\ edits = 0 /\ faults = 0 /\ missed = FALSE

-----------------------------------------------------------------------------
(* The editor.                                                             *)

\* The watch sees the change, if it is on the file at the path.
Seen ==
  /\ event' = (event \/ watch = "live")
  /\ missed' = (missed \/ watch = "none")

Change(x) ==
  /\ edits < MaxEdits /\ edits' = edits + 1
  /\ file' = x
  /\ Seen
  /\ UNCHANGED <<current, debounce, loading, retries, stopped, faults>>

\* A save is a write in place, or the rename of a new file to the path; some
\* editors remove the old one first.
Overwrite(x) == file # Absent /\ x \in Texts \ {Absent} /\ Change(x) /\ UNCHANGED watch

Replace(x) ==
  /\ x \in Texts
  /\ file # Absent \/ x # Absent
  /\ Change(x)
  /\ watch' = IF watch = "live" THEN "stale" ELSE watch

Edit == \E x \in Texts : Overwrite(x) \/ Replace(x)

-----------------------------------------------------------------------------
(* The watcher.                                                            *)

Running == ~stopped /\ ~loading

\* rewatch: the old watch is closed.  Where the new one cannot be opened, it is
\* tried again after REWATCH_RETRY_MS; rest is the number of other such timers.
Rewatch(rest) ==
  /\ event' = FALSE
  /\ \/ file # Absent /\ watch' = "live" /\ retries' = rest /\ UNCHANGED faults
     \/ file = Absent /\ watch' = "none" /\ retries' = rest + 1 /\ UNCHANGED faults
     \/ /\ file # Absent /\ faults < MaxFaults /\ faults' = faults + 1
        /\ watch' = "none" /\ retries' = rest + 1

\* scheduleReload, from the watch's listener.
Notified ==
  /\ Running /\ event
  /\ event' = FALSE /\ debounce' = TRUE
  /\ UNCHANGED <<file, current, watch, loading, retries, stopped, edits, faults, missed>>

\* Mutant: the watch is kept, although its file may have left the path.
DebounceOver_SameWatch ==
  /\ Running /\ debounce
  /\ debounce' = FALSE /\ loading' = TRUE
  /\ UNCHANGED <<file, current, watch, event, retries, stopped, edits, faults, missed>>

\* The debounce is over: rewatch, then reload.
DebounceOver ==
  /\ Running /\ debounce
  /\ debounce' = FALSE /\ loading' = TRUE
  /\ Rewatch(retries)
  /\ UNCHANGED <<file, current, stopped, edits, missed>>

\* reload: a file that cannot be read or does not pass keeps the previous one.
Reload ==
  /\ loading /\ loading' = FALSE
  /\ current' = IF file \in Configs THEN file ELSE current
  /\ missed' = FALSE
  /\ UNCHANGED <<file, watch, event, debounce, retries, stopped, edits, faults>>

\* The watch fails while it is open.
WatchFails ==
  /\ Running /\ watch # "none"
  /\ faults < MaxFaults /\ faults' = faults + 1
  /\ watch' = "none" /\ event' = FALSE
  /\ missed' = (missed \/ event)
  /\ retries' = retries + 1
  /\ UNCHANGED <<file, current, debounce, loading, stopped, edits>>

\* A timer of retryRewatch: the watch is opened again.  Nothing is read, and
\* what an open watch had seen meanwhile is discarded.
RetryOver ==
  /\ Running /\ retries > 0
  /\ Rewatch(retries - 1)
  /\ missed' = (missed \/ event)
  /\ UNCHANGED <<file, current, debounce, loading, stopped, edits>>

\* stop
StopWatch ==
  /\ Running
  /\ stopped' = TRUE /\ debounce' = FALSE /\ watch' = "none" /\ event' = FALSE
  /\ UNCHANGED <<file, current, loading, retries, edits, faults, missed>>

WatchNext ==
  \/ Edit \/ Notified \/ DebounceOver \/ Reload
  \/ WatchFails \/ RetryOver \/ StopWatch

WatchSpec == WatchInit /\ [][WatchNext]_config

-----------------------------------------------------------------------------
(* Correctness.                                                            *)

\* Nothing is under way that will lead to a load.
Settled == ~event /\ ~debounce /\ ~loading /\ ~stopped

\* Once things have settled, the bridge runs by the file as it is, however
\* edits fell between events, timers, the re-opening and the load; excepted are
\* changes while no watch was open, and those discarded with their watch.
KeepsUp == Settled /\ file \in Configs /\ ~missed => current = file

\* What reload.ts says: every change of the file is re-read, although the file
\* may be absent for a moment while it is saved.
EveryEditIsRead ==
  Settled /\ retries = 0 /\ faults = 0 /\ file \in Configs => current = file
=============================================================================
