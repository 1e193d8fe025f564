----------------------------- MODULE Supervision -----------------------------
(***************************************************************************)
(* Who starts and stops the monitor process: the tray application          *)
(* (gmail_app.py: one Tk thread, one operation at a time), the scheduled   *)
(* watchdog (watchdog.py: one run at a time) and the monitor's own lock    *)
(* (runtime_state.py: SingleInstance).  They share no lock: each reads the *)
(* pause flag, the settings-update marker and the process list, and acts   *)
(* on what it read some steps later.                                       *)
(***************************************************************************)
EXTENDS Integers, FiniteSets

CONSTANTS
    Procs,        \* process ids, reused after a process has ended
    StaleChecks,  \* runs that must see an old heartbeat.json (3 in the code)
    StallChecks,  \* WORKER_STALL_CHECKS (2 in the code)
    MaxRestarts,  \* MAX_RESTARTS within the window (3 in the code)
    MaxFaults,    \* BOUND: crashes, hangs and failing queries in a behaviour
    MaxAsks       \* BOUND: what the user asks of the tray in a behaviour

ASSUME SupervisionAssumption ==
    /\ IsFiniteSet(Procs)
    /\ StaleChecks \in Nat \ {0} /\ StallChecks \in Nat \ {0}
    /\ MaxRestarts \in Nat /\ MaxFaults \in Nat /\ MaxAsks \in Nat

VARIABLES
    paused,    \* metadata monitor_paused = "1"
    reason,    \* metadata monitor_pause_reason
    marker,    \* metadata settings_update_until is set and not expired
    proc,      \* process id -> the monitor process behind it
    early,     \* processes of a watchdog run past its checks when marker was set
    fresh,     \* is heartbeat.json recent?
    tray,      \* the tray: operation, step in it, pids to kill, start afterwards?
    wd,        \* the watchdog run: its step and locals
    state,     \* watchdog_state.json
    wish,      \* what the tray has told the user: automatic fetching runs or pauses
    faults, asks

flags == <<paused, reason, wish>>
procs == <<proc, early, fresh>>
dog   == <<wd, state>>
vars  == <<flags, marker, procs, tray, dog, faults, asks>>

\* "boot": started, not yet past the lock; "stuck": its worker hangs in a job
\* while its scanner goes on; "hung": silent altogether.
Holding == {"run", "stuck", "hung"}
Live    == {p \in Procs : proc[p] # "none"}
Locked  == \E p \in Procs : proc[p] \in Holding

Ops      == {"none", "save", "rescan", "pause", "resume", "run_now", "start", "exit", "boot"}
Away     == [op |-> "none", pc |-> "gone", hits |-> {}, restart |-> FALSE]
Resting  == [Away EXCEPT !.pc = "idle"]
Doing(op, pc) == [op |-> op, pc |-> pc, hits |-> {}, restart |-> FALSE]

NoRun    == [pc |-> "idle", hits |-> {}, checks |-> 0, kill |-> FALSE,
             release |-> FALSE, early |-> FALSE]
\* The steps of a run after its last look at the settings-update marker.
Decided  == {"list", "kill", "release", "check", "probe", "popen"}

Fault == faults < MaxFaults /\ faults' = faults + 1
Ask   == asks < MaxAsks /\ asks' = asks + 1

Init ==
    /\ paused = FALSE /\ reason = "none" /\ wish = "run"
    /\ marker = FALSE
    /\ proc = [p \in Procs |-> "none"] /\ early = {} /\ fresh = FALSE
    /\ tray = Away /\ wd = NoRun
    /\ state = [stale |-> 0, stall |-> 0, restarts |-> 0]
    /\ faults = 0 /\ asks = 0

-----------------------------------------------------------------------------
(* The monitor process.                                                    *)

Spawn(p, late) ==
    /\ proc[p] = "none"
    /\ proc' = [proc EXCEPT ![p] = "boot"]
    /\ early' = IF late THEN early \cup {p} ELSE early \ {p}

\* The second monitor finds the lock taken and exits.
TakeLock(p) ==
    /\ proc[p] = "boot"
    /\ proc' = [proc EXCEPT ![p] = IF Locked THEN "none" ELSE "run"]
    /\ UNCHANGED <<flags, marker, early, fresh, tray, dog, faults, asks>>

\* Written from the first scan on, whatever the worker does.
Heartbeat ==
    /\ \E p \in Procs : proc[p] \in {"run", "stuck"}
    /\ ~fresh /\ fresh' = TRUE
    /\ UNCHANGED <<flags, marker, proc, early, tray, dog, faults, asks>>

GoesStale ==
    /\ \A p \in Procs : proc[p] \notin {"run", "stuck"}
    /\ fresh /\ fresh' = FALSE
    /\ UNCHANGED <<flags, marker, proc, early, tray, dog, faults, asks>>

Breaks(p) ==
    /\ proc[p] # "none"
    /\ Fault
    /\ \E s \in {"none"} \cup IF proc[p] = "run" THEN {"stuck", "hung"} ELSE {} :
           proc' = [proc EXCEPT ![p] = s]
    /\ UNCHANGED <<flags, marker, early, fresh, tray, dog, asks>>

-----------------------------------------------------------------------------
(* The tray: what the user asks for, its health tick and its start.        *)

Begin(op, pc) == tray.pc = "idle" /\ tray' = Doing(op, pc)

SetMarker ==
    /\ marker' = TRUE
    /\ wd' = [wd EXCEPT !.early = @ \/ wd.pc \in Decided]

\* Save and "rescan from a date" stop the monitor under the marker.
AskUpdate(op) ==
    /\ tray.pc = "idle"
    /\ Ask
    /\ tray' = [Doing(op, "list") EXCEPT !.restart = ~paused]
    /\ SetMarker
    /\ UNCHANGED <<flags, procs, state, faults>>

AskPause ==
    /\ ~paused
    /\ Ask
    /\ reason' = "user"
    /\ Begin("pause", "flag")
    /\ UNCHANGED <<paused, wish, marker, procs, dog, faults>>

AskResume ==
    /\ paused
    /\ Ask
    /\ reason' = "none" /\ wish' = "run"
    /\ Begin("resume", "flag")
    /\ UNCHANGED <<paused, marker, procs, dog, faults>>

AskRunNow ==
    /\ ~paused
    /\ Ask
    /\ Begin("run_now", "list")
    /\ UNCHANGED <<flags, marker, procs, dog, faults>>

\* A job was queued again from one of the lists.
AskStart ==
    /\ ~paused
    /\ Ask
    /\ Begin("start", "probe")
    /\ UNCHANGED <<flags, marker, procs, dog, faults>>

\* Slip: the exit takes the user's pause for its own.
AskExitOver ==
    /\ Ask
    /\ reason' = "exit" /\ Begin("exit", "flag")
    /\ UNCHANGED <<paused, wish, marker, procs, dog, faults>>

AskExit ==
    /\ Ask
    /\ IF paused THEN Begin("exit", "list") /\ UNCHANGED reason
                 ELSE Begin("exit", "flag") /\ reason' = "exit"
    /\ UNCHANGED <<paused, wish, marker, procs, dog, faults>>

HealthTick ==
    /\ ~paused /\ ~marker /\ ~fresh
    /\ Begin("start", "probe")
    /\ UNCHANGED <<flags, marker, procs, dog, faults, asks>>

\* A pause of the tray's own exit ends with its next start.
TrayStarts ==
    /\ tray.pc = "gone"
    /\ IF paused /\ reason = "exit"
       THEN reason' = "none" /\ tray' = Doing("boot", "flag")
       ELSE /\ UNCHANGED reason
            /\ tray' = IF paused THEN Resting ELSE Doing("start", "probe")
    /\ UNCHANGED <<paused, wish, marker, procs, dog, faults, asks>>

-----------------------------------------------------------------------------
(* The steps of an operation.                                              *)

\* The write of the pause flag, after that of its reason.
TrayFlag ==
    /\ tray.pc = "flag"
    /\ paused' = (tray.op \in {"pause", "exit"})
    /\ tray' = [tray EXCEPT !.pc = IF paused' THEN "list" ELSE "probe"]
    /\ UNCHANGED <<reason, wish, marker, procs, dog, faults, asks>>

\* stop_owned_monitors: the process list, then one process after the other.
TrayList ==
    /\ tray.pc = "list"
    /\ tray' = [tray EXCEPT !.pc = "kill", !.hits = Live]
    /\ UNCHANGED <<flags, marker, procs, dog, faults, asks>>

TrayKill(p) ==
    /\ tray.pc = "kill" /\ p \in tray.hits
    /\ proc' = [proc EXCEPT ![p] = "none"]
    /\ tray' = [tray EXCEPT !.hits = @ \ {p}]
    /\ UNCHANGED <<flags, marker, early, fresh, dog, faults, asks>>

TrayStopped ==
    /\ tray.pc = "kill" /\ tray.hits = {}
    /\ wish' = IF tray.op = "pause" THEN "pause" ELSE wish
    /\ tray' = CASE tray.op \in {"save", "rescan"} -> [tray EXCEPT !.pc = "commit"]
                 [] tray.op = "run_now"            -> [tray EXCEPT !.pc = "probe"]
                 [] tray.op = "pause"              -> Resting
                 [] tray.op = "exit"               -> Away
    /\ UNCHANGED <<paused, reason, marker, procs, dog, faults, asks>>

TrayStopFails ==
    /\ tray.pc \in {"list", "kill"}
    /\ Fault
    /\ reason' = IF tray.op = "pause" THEN "none" ELSE reason
    /\ tray' = CASE tray.op \in {"save", "rescan"} -> Doing(tray.op, "unmark")
                 [] tray.op = "pause"              -> Doing("pause", "undo")
                 [] tray.op = "run_now"            -> Resting
                 [] tray.op = "exit"               -> Away
    /\ UNCHANGED <<paused, wish, marker, procs, dog, asks>>

TrayUndo ==
    /\ tray.pc = "undo"
    /\ paused' = FALSE
    /\ tray' = Resting
    /\ UNCHANGED <<reason, wish, marker, procs, dog, faults, asks>>

\* A failed commit still restarts the monitor after a Save, not after a rescan.
TrayCommit ==
    /\ tray.pc = "commit"
    /\ \/ tray' = [tray EXCEPT !.pc = "unmark"] /\ UNCHANGED faults
       \/ /\ Fault
          /\ tray' = [tray EXCEPT !.pc = "unmark", !.restart = @ /\ tray.op = "save"]
    /\ UNCHANGED <<flags, marker, procs, dog, asks>>

TrayUnmark ==
    /\ tray.pc = "unmark"
    /\ \/ marker' = FALSE /\ UNCHANGED faults
       \/ Fault /\ UNCHANGED marker
    /\ tray' = IF tray.restart THEN [tray EXCEPT !.pc = "probe"] ELSE Resting
    /\ UNCHANGED <<flags, procs, dog, asks>>

\* Slip: a start that does not look whether a monitor is there.
TrayProbeBlind ==
    /\ tray.pc = "probe"
    /\ \/ tray' = [tray EXCEPT !.pc = "popen"] /\ UNCHANGED faults
       \/ Fault /\ tray' = Resting
    /\ UNCHANGED <<flags, marker, procs, dog, asks>>

\* MonitorController.start: only when no monitor process is found.
TrayProbe ==
    /\ tray.pc = "probe"
    /\ \/ /\ tray' = IF Live = {} THEN [tray EXCEPT !.pc = "popen"] ELSE Resting
          /\ UNCHANGED faults
       \/ Fault /\ tray' = Resting
    /\ UNCHANGED <<flags, marker, procs, dog, asks>>

TrayPopen ==
    /\ tray.pc = "popen"
    /\ \E p \in Procs : Spawn(p, FALSE)
    /\ tray' = Resting
    /\ UNCHANGED <<flags, marker, fresh, dog, faults, asks>>

TrayDies ==
    /\ tray.pc # "gone"
    /\ Fault
    /\ tray' = Away
    /\ UNCHANGED <<flags, marker, procs, dog, asks>>

\* SETTINGS_UPDATE_SECONDS have passed.  In the model only for a tray that no
\* longer holds the marker: a stop and commit that take longer are a fault.
MarkerExpires ==
    /\ marker /\ marker' = FALSE
    /\ IF tray.op \in {"save", "rescan"} THEN Fault ELSE UNCHANGED faults
    /\ UNCHANGED <<flags, procs, tray, dog, asks>>

-----------------------------------------------------------------------------
(* One run of the watchdog.                                                *)

Goto(pc) == wd' = [wd EXCEPT !.pc = pc]

\* main returns: its state file is written.  stale and stall are the counts it
\* leaves, n the restarts to add to those of the window.
RunEnds(stale, stall, n) ==
    /\ wd' = NoRun
    /\ state' = [stale |-> stale, stall |-> stall, restarts |-> state.restarts + n]

\* Slip: the stall count of the last run is not read back.
WdWakeForgets ==
    /\ wd.pc = "idle"
    /\ IF paused \/ marker
       THEN RunEnds(0, 0, 0)
       ELSE wd' = [NoRun EXCEPT !.pc = "look"] /\ UNCHANGED state
    /\ UNCHANGED <<flags, marker, procs, tray, faults, asks>>

WdWake ==
    /\ wd.pc = "idle"
    /\ IF paused \/ marker
       THEN RunEnds(0, 0, 0)
       ELSE wd' = [NoRun EXCEPT !.pc = "look", !.checks = state.stall] /\ UNCHANGED state
    /\ UNCHANGED <<flags, marker, procs, tray, faults, asks>>

WdLook ==
    /\ wd.pc = "look"
    /\ \/ /\ Cardinality(Live) # 1
          /\ wd' = [wd EXCEPT !.pc = "again", !.kill = Live # {}]
          /\ UNCHANGED state
       \/ /\ Cardinality(Live) = 1 /\ ~fresh
          /\ IF state.stale + 1 < StaleChecks
             THEN RunEnds(state.stale + 1, 0, 0)
             ELSE wd' = [wd EXCEPT !.pc = "again", !.kill = TRUE] /\ UNCHANGED state
       \/ /\ Cardinality(Live) = 1 /\ fresh
          /\ \A p \in Procs : proc[p] # "stuck"
          /\ RunEnds(0, 0, 0)
       \/ /\ Cardinality(Live) = 1 /\ fresh
          /\ \E p \in Procs : proc[p] = "stuck"
          /\ IF wd.checks + 1 < StallChecks
             THEN RunEnds(0, wd.checks + 1, 0)
             ELSE /\ wd' = [wd EXCEPT !.pc = "again", !.kill = TRUE, !.release = TRUE]
                  /\ UNCHANGED state
    /\ UNCHANGED <<flags, marker, procs, tray, faults, asks>>

\* Slip: perform_restart does not look at the marker again.
WdAgainBlind ==
    /\ wd.pc = "again"
    /\ IF paused \/ state.restarts >= MaxRestarts
       THEN RunEnds(0, 0, 0)
       ELSE Goto(IF wd.kill THEN "list" ELSE "check") /\ UNCHANGED state
    /\ UNCHANGED <<flags, marker, procs, tray, faults, asks>>

\* Slip: the restarts of the last half hour are counted but not bounded.
WdAgainUncapped ==
    /\ wd.pc = "again"
    /\ IF paused \/ marker
       THEN RunEnds(0, 0, 0)
       ELSE Goto(IF wd.kill THEN "list" ELSE "check") /\ UNCHANGED state
    /\ UNCHANGED <<flags, marker, procs, tray, faults, asks>>

\* perform_restart looks again, and at the restarts of the last half hour.
WdAgain ==
    /\ wd.pc = "again"
    /\ IF paused \/ marker \/ state.restarts >= MaxRestarts
       THEN RunEnds(0, 0, 0)
       ELSE Goto(IF wd.kill THEN "list" ELSE "check") /\ UNCHANGED state
    /\ UNCHANGED <<flags, marker, procs, tray, faults, asks>>

WdList ==
    /\ wd.pc = "list"
    /\ wd' = [wd EXCEPT !.pc = "kill", !.hits = Live]
    /\ UNCHANGED <<flags, marker, procs, tray, state, faults, asks>>

WdKill(p) ==
    /\ wd.pc = "kill" /\ p \in wd.hits
    /\ proc' = [proc EXCEPT ![p] = "none"]
    /\ wd' = [wd EXCEPT !.hits = @ \ {p}]
    /\ UNCHANGED <<flags, marker, early, fresh, tray, state, faults, asks>>

WdStopped ==
    /\ wd.pc = "kill" /\ wd.hits = {}
    /\ Goto(IF wd.release THEN "release" ELSE "check")
    /\ UNCHANGED <<flags, marker, procs, tray, state, faults, asks>>

\* release_stalled_jobs: ReleaseStalled of JobQueue.
WdRelease ==
    /\ wd.pc = "release"
    /\ Goto("check")
    /\ UNCHANGED <<flags, marker, procs, tray, state, faults, asks>>

\* Slip: start_monitor does not look at the pause flag again.
WdCheckBlind ==
    /\ wd.pc = "check"
    /\ Goto("probe") /\ UNCHANGED state
    /\ UNCHANGED <<flags, marker, procs, tray, faults, asks>>

\* start_monitor: the pause flag, the process list, the start.
WdCheck ==
    /\ wd.pc = "check"
    /\ IF paused THEN RunEnds(0, 0, 1) ELSE Goto("probe") /\ UNCHANGED state
    /\ UNCHANGED <<flags, marker, procs, tray, faults, asks>>

WdProbe ==
    /\ wd.pc = "probe"
    /\ IF Live # {} THEN RunEnds(0, 0, 1) ELSE Goto("popen") /\ UNCHANGED state
    /\ UNCHANGED <<flags, marker, procs, tray, faults, asks>>

WdPopen ==
    /\ wd.pc = "popen"
    /\ \E p \in Procs : Spawn(p, wd.early)
    /\ Goto("started")
    /\ UNCHANGED <<flags, marker, fresh, tray, state, faults, asks>>

\* Eight seconds later the run looks for the process and counts the restart,
\* found or not.
WdStarted ==
    /\ wd.pc = "started"
    /\ RunEnds(0, 0, 1)
    /\ UNCHANGED <<flags, marker, procs, tray, faults, asks>>

\* The process list or the stop raises; the run ends without a restart.
WdQueryFails ==
    /\ Fault
    /\ \/ wd.pc = "look" /\ RunEnds(state.stale, 0, 0)
       \/ wd.pc \in {"list", "kill"} /\ RunEnds(0, 0, 0)
       \/ wd.pc = "probe" /\ RunEnds(0, 0, 1)
    /\ UNCHANGED <<flags, marker, procs, tray, asks>>

\* The run is cut off: its state file stays as it was.
WdDies ==
    /\ wd.pc # "idle"
    /\ Fault
    /\ wd' = NoRun
    /\ UNCHANGED <<flags, marker, procs, tray, state, asks>>

\* A restart leaves RESTART_WINDOW_SECONDS.
WindowSlides ==
    /\ state.restarts > 0
    /\ state' = [state EXCEPT !.restarts = @ - 1]
    /\ UNCHANGED <<flags, marker, procs, tray, wd, faults, asks>>

-----------------------------------------------------------------------------
MonitorStep == Heartbeat \/ GoesStale \/ \E p \in Procs : TakeLock(p) \/ Breaks(p)

UserAsks ==
    \/ AskUpdate("save") \/ AskUpdate("rescan")
    \/ AskPause \/ AskResume \/ AskRunNow \/ AskStart \/ AskExit

TrayStep ==
    \/ TrayFlag \/ TrayList \/ TrayStopped \/ TrayStopFails \/ TrayUndo
    \/ TrayCommit \/ TrayUnmark \/ TrayProbe \/ TrayPopen
    \/ \E p \in Procs : TrayKill(p)

WdStep ==
    \/ WdWake \/ WdLook \/ WdAgain \/ WdList \/ WdStopped \/ WdRelease
    \/ WdCheck \/ WdProbe \/ WdPopen \/ WdStarted \/ WdQueryFails
    \/ \E p \in Procs : WdKill(p)

Next ==
    \/ MonitorStep
    \/ UserAsks \/ HealthTick \/ TrayStarts \/ TrayStep \/ TrayDies
    \/ MarkerExpires
    \/ WdStep \/ WdDies \/ WindowSlides

Spec == Init /\ [][Next]_vars

\* The scheduled task runs every five minutes, an operation of the tray runs
\* to its end, and time passes.  A started monitor reaches its lock and its first
\* heartbeat in seconds, so the watchdog, which needs several of its runs to
\* call a monitor stale, does not for ever come first (SF).  Nothing makes the
\* user start the tray again, or the tray's tick meet a dead monitor.
Fairness ==
    /\ WF_vars(WdStep) /\ WF_vars(WindowSlides)
    /\ WF_vars(TrayStep)
    /\ WF_vars(MarkerExpires /\ tray.op \notin {"save", "rescan"})
    /\ WF_vars(GoesStale) /\ SF_vars(Heartbeat)
    /\ \A p \in Procs : SF_vars(TakeLock(p))

FairSpec == Spec /\ Fairness
-----------------------------------------------------------------------------
(* Correctness.                                                            *)

\* Types; in particular the restarts of a window never exceed MAX_RESTARTS,
\* and one monitor holds the lock.
TypeOK ==
    /\ paused \in BOOLEAN /\ marker \in BOOLEAN /\ fresh \in BOOLEAN
    /\ reason \in {"none", "user", "exit"} /\ wish \in {"run", "pause"}
    /\ proc \in [Procs -> {"none", "boot"} \cup Holding]
    /\ \A p, q \in Procs : proc[p] \in Holding /\ proc[q] \in Holding => p = q
    /\ early \subseteq Procs
    /\ tray \in [op: Ops, hits: SUBSET Procs, restart: BOOLEAN,
                 pc: {"gone", "idle", "flag", "list", "kill", "commit", "unmark",
                      "undo", "probe", "popen"}]
    /\ wd \in [pc: {"idle", "look", "again", "started"} \cup Decided, hits: SUBSET Procs,
               checks: 0..StallChecks-1, kill: BOOLEAN, release: BOOLEAN, early: BOOLEAN]
    /\ state \in [stale: 0..StaleChecks-1, stall: 0..StallChecks-1, restarts: 0..MaxRestarts]
    /\ faults \in 0..MaxFaults /\ asks \in 0..MaxAsks

\* Tray and watchdog both look for a monitor before they start one, each some
\* steps earlier: at most one monitor too many is ever started.
OneTooMany == Cardinality(Live) <= 2

\* While a Save writes the settings under its marker, the only monitor that can
\* be there is that of a watchdog run already past its look at the marker when
\* it was set: the whole of what the marker leaves open.
CommitUndisturbed == tray.pc = "commit" /\ marker => Live \subseteq early

\* A pause the user was told of stays until the user resumes: no exit, crash or
\* restart of the tray ends it or takes it for a pause of its own.
PauseKept == wish = "pause" => paused /\ reason # "exit"

\* Unless paused, a monitor that works is there again and again: after crashes,
\* hangs, half-done saves and restarts, with or without a tray.
ComesBack == ~paused ~> paused \/ \E p \in Procs : proc[p] = "run"

\* "The settings-update marker keeps the watchdog and the tray's health tick
\* from starting the monitor meanwhile" (apply_settings_update).
CommitAlone == tray.pc = "commit" => Live = {}
=============================================================================
