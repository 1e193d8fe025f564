--------------------------- MODULE SupervisionReads ---------------------------
(***************************************************************************)
(* Supervision with a database that cannot be read: locked by a backup, a  *)
(* virus scanner or a long transaction.  A watchdog run takes what it      *)
(* cannot read for "not paused", "no Save", "no stalled job" and goes on.  *)
(***************************************************************************)
EXTENDS Supervision

VARIABLES
    missed,  \* looks at the pause flag that failed in this run
    held     \* has the pause been on since before this run began? (history)

ReadsInit == Init /\ missed = 0 /\ held = FALSE

Fails(n) == faults + n <= MaxFaults /\ faults' = faults + n

\* What a look at both costs that must see neither.
Hidden == (IF paused THEN 1 ELSE 0) + (IF marker THEN 1 ELSE 0)

MissPause == missed' = missed + (IF paused THEN 1 ELSE 0)

\* is_paused and is_settings_update at the head of main,
WakeUnread ==
    /\ wd.pc = "idle" /\ Hidden > 0
    /\ Fails(Hidden) /\ MissPause
    /\ wd' = [NoRun EXCEPT !.pc = "look", !.checks = state.stall]
    /\ UNCHANGED state

\* again in perform_restart, its last look at the marker (early),
AgainUnread ==
    /\ wd.pc = "again" /\ Hidden > 0 /\ state.restarts < MaxRestarts
    /\ Fails(Hidden) /\ MissPause
    /\ wd' = [wd EXCEPT !.pc = IF wd.kill THEN "list" ELSE "check",
                        !.early = @ \/ marker]
    /\ UNCHANGED state

\* and the pause flag once more in start_monitor.
CheckUnread ==
    /\ wd.pc = "check" /\ paused
    /\ Fails(1) /\ MissPause
    /\ Goto("probe")
    /\ UNCHANGED state

\* worker_stall: the worker counts as healthy.
StallUnread ==
    /\ wd.pc = "look" /\ Cardinality(Live) = 1 /\ fresh
    /\ \E p \in Procs : proc[p] = "stuck"
    /\ Fails(1) /\ missed' = 0
    /\ RunEnds(0, 0, 0)

Unread ==
    /\ WakeUnread \/ AgainUnread \/ CheckUnread \/ StallUnread
    /\ UNCHANGED <<flags, marker, procs, tray, asks>>

\* A run begins and ends with nothing missed.
ReadsNext ==
    /\ \/ Next /\ missed' = IF wd'.pc = "idle" THEN 0 ELSE missed
       \/ Unread
    /\ held' = (paused' /\ (wd'.pc = "idle" \/ held))

ReadsSpec == ReadsInit /\ [][ReadsNext]_<<vars, missed, held>>
-----------------------------------------------------------------------------
(* Correctness: TypeOK, OneTooMany and PauseKept as in Supervision; also       *)
(* CommitUndisturbed, where early now covers a run that failed to read the     *)
(* marker in perform_restart, so that one failing read is enough.              *)

\* A pause that was on when a run began is looked at three times before the run
\* starts a monitor: only three failing reads in one run break it.
PauseSeen == held /\ wd.pc \in {"popen", "started"} => missed = 3
=============================================================================
