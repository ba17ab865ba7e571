------------------------------ MODULE Workspaces ------------------------------
(***************************************************************************)
(* The workspace directory of one issue and everything that removes it:    *)
(* the termination of a run, the terminal sweep and the age-based reaper.  *)
(* All three run in the poll task, one after the other, and each decides   *)
(* from something it read before an await or before taking no lock at all. *)
(*                                                                         *)
(* A directory is `ready` once its after_create hook has succeeded.  It is *)
(* `spoiled` (history) when the hook failed or was cut off, when a removal *)
(* stopped half way, or when a late write brought the directory back.      *)
(***************************************************************************)
EXTENDS Integers

CONSTANT MaxDirs      \* bound: directories ever created

VARIABLES
    dir,              \* the workspace directory
    sweep             \* where the poll task is in its removals

store == <<dir, sweep>>

Dir == [here: BOOLEAN, ready: BOOLEAN, spoiled: BOOLEAN, old: BOOLEAN, gen: 0..MaxDirs]
Sweeping == {"idle", "drop", "fetch", "listed", "reap", "held", "loose"}

WorkspacesTypeOK == dir \in Dir /\ sweep \in Sweeping

NoDir == [here |-> FALSE, ready |-> FALSE, spoiled |-> FALSE, old |-> FALSE, gen |-> 0]

WorkspacesInit == dir = NoDir /\ sweep = "fetch"

(***************************************************************************)
(* WorkspaceManager.                                                       *)
(***************************************************************************)
CreateDir(ready, spoiled) ==
    dir' = [here |-> TRUE, ready |-> ready, spoiled |-> spoiled, old |-> FALSE,
            gen |-> dir.gen + 1]

\* A plausible bug: the marker is lost when the directory has just been made.
CreatedNever == FALSE

\* ensure_for_issue: created_now iff the path did not exist.
CreatedNow == ~dir.here

EnsureForIssue(hooked) ==
    IF dir.here THEN UNCHANGED dir ELSE CreateDir(~hooked, FALSE)

\* remove and remove_key: all of the tree, or an error on the way that
\* leaves the directory with part of its contents.
RemoveDir ==
    \/ dir' = [dir EXCEPT !.here = FALSE, !.ready = FALSE, !.spoiled = FALSE, !.old = FALSE]
    \/ dir.here /\ dir' = [dir EXCEPT !.ready = FALSE, !.spoiled = TRUE, !.old = FALSE]

\* Nothing was added to or removed from the top of the directory for max_age_hours.
Age == dir.here /\ ~dir.old /\ dir' = [dir EXCEPT !.old = TRUE] /\ UNCHANGED sweep

SelectStaleEvenRunning(held) == dir.here /\ dir.old

SelectStale(held) == dir.here /\ dir.old /\ ~held

(***************************************************************************)
(* The poll task.                                                          *)
(***************************************************************************)
\* terminate_running_issue: the entry has gone, the lock is released.
Drop == sweep = "drop" /\ RemoveDir /\ sweep' = "idle"

BeginSweep == sweep = "idle" /\ sweep' = "fetch" /\ UNCHANGED dir

\* startup_terminal_cleanup: the issues of the terminal states, or an error.
FetchTerminal(terminal) ==
    /\ sweep = "fetch"
    /\ sweep' \in {"reap"} \cup (IF terminal THEN {"listed"} ELSE {})
    /\ UNCHANGED dir

RemoveListed == sweep = "listed" /\ RemoveDir /\ sweep' = "reap"

\* running_keys, read under the lock, which is released again.
ReadKeys(reaping, running) ==
    /\ sweep = "reap"
    /\ sweep' = IF ~reaping THEN "idle" ELSE IF running THEN "held" ELSE "loose"
    /\ UNCHANGED dir

\* list_workspaces, select_stale_workspaces and remove_key, without an await.
Reap ==
    /\ sweep \in {"held", "loose"}
    /\ sweep' = "idle"
    /\ IF SelectStale(sweep = "held") THEN RemoveDir ELSE UNCHANGED dir
===============================================================================
