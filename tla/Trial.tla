------------------------------- MODULE Trial --------------------------------
(***************************************************************************)
(* The trial download (gmail_monitor.py --trial) beside the monitor, the   *)
(* watchdog and the user: it takes the monitor's mutex, recovers what was  *)
(* interrupted as the monitor does, queues the newest messages and works   *)
(* on its own jobs only, each at most once, leaving the authentication     *)
(* issues alone.  The watchdog takes it for a monitor.                     *)
(***************************************************************************)
EXTENDS AuthIssues

VARIABLE trial  \* its step, the job keys it has selected, and those it has tried

NoTrial == [pc |-> "none", keys |-> {}, tried |-> {}]
On      == trial # NoTrial
Step(s) == trial' = [trial EXCEPT !.pc = s]

allVars == <<vars, noteVars, trial>>

TrialInit == AuthInit /\ trial = NoTrial

\* main: the mutex is free, so no monitor runs; the tray's lock is only tried.
TrialStarts ==
    /\ ~On /\ mon = "down"
    /\ Ask
    /\ Step("reconcile")
    /\ UNCHANGED <<rows, lastId, mon, held, seen, wd, faults, again, noteVars>>

\* recover_interrupted_jobs.
TrialReconcile(j) ==
    /\ trial.pc = "reconcile"
    /\ CanSucceed(rows[j])
    /\ rows' = [rows EXCEPT ![j] = Succeeded(@)]
    /\ Unnoted(AccountOf[rows[j].key], FALSE)
    /\ UNCHANGED <<lastId, mon, held, seen, wd, faults, asks, again, trial>>

TrialRecovers ==
    /\ trial.pc = "reconcile"
    /\ rows' = [j \in Jobs |-> Recovered(rows[j])]
    /\ Step("run")
    /\ UNCHANGED <<lastId, mon, held, seen, wd, faults, asks, again, noteVars>>

\* select_trial_messages: the job of a message is its own, queued now or before.
Select(k) ==
    /\ trial.pc = "run" /\ held = 0
    /\ k \notin trial.keys
    /\ IF \E j \in Jobs : rows[j].key = k
       THEN UNCHANGED <<rows, lastId>>
       ELSE /\ lastId < MaxJobs
            /\ lastId' = lastId + 1
            /\ rows' = [rows EXCEPT ![lastId + 1] = FreshRow(k)]
    /\ trial' = [trial EXCEPT !.keys = @ \cup {k}]
    /\ UNCHANGED <<mon, held, seen, wd, faults, asks, again, noteVars>>

\* Slip: what failed before is taken up again.
TryFailed(j) ==
    /\ trial.pc = "run" /\ held = 0
    /\ rows[j].key \in trial.keys \ trial.tried
    /\ IF j \in Runnable \/ rows[j].status = "failed"
       THEN rows' = [rows EXCEPT ![j] = Claimed(@)] /\ held' = j
       ELSE UNCHANGED <<rows, held>>
    /\ trial' = [trial EXCEPT !.tried = @ \cup {rows[j].key}]
    /\ UNCHANGED <<lastId, mon, seen, wd, faults, asks, again, noteVars>>

\* run_trial_job and claim_job: a job that waits, is ignored, failed or saved is
\* only reported.
Try(j) ==
    /\ trial.pc = "run" /\ held = 0
    /\ rows[j].key \in trial.keys \ trial.tried
    /\ IF j \in Runnable
       THEN rows' = [rows EXCEPT ![j] = Claimed(@)] /\ held' = j
       ELSE UNCHANGED <<rows, held>>
    /\ trial' = [trial EXCEPT !.tried = @ \cup {rows[j].key}]
    /\ UNCHANGED <<lastId, mon, seen, wd, faults, asks, again, noteVars>>

\* run_claimed_job records as for the worker, without a note.
TrialRecords ==
    /\ On
    /\ \/ (ReadAttempts \/ RecordFailure \/ RecordNotConfigured) /\ UNCHANGED noteVars
       \/ RecordSuccess /\ Unnoted(HeldAccount, FALSE)
       \/ RecordDeferral /\ Unnoted(HeldAccount, TRUE)
    /\ UNCHANGED trial

\* An outcome that cannot be recorded ends the trial.
TrialFails ==
    /\ On
    /\ OutcomeLost
    /\ trial' = NoTrial /\ UNCHANGED noteVars

TrialEnds ==
    /\ trial.pc = "run" /\ held = 0
    /\ trial' = NoTrial
    /\ UNCHANGED <<vars, noteVars>>

\* Ctrl+C, the window closed, the tray's stop: the job at hand stays claimed.
TrialInterrupted ==
    /\ On
    /\ Fault
    /\ trial' = NoTrial /\ LetsGo
    /\ UNCHANGED <<rows, lastId, mon, wd, asks, again, noteVars>>

\* The watchdog sees a monitor whose worker stalls.
TrialStalls ==
    /\ On /\ wd = "idle"
    /\ \E j \in Jobs : rows[j].status \in Active /\ ~rows[j].ignored
    /\ IF held # 0 THEN UNCHANGED faults ELSE Fault
    /\ trial' = NoTrial /\ LetsGo /\ wd' = "release"
    /\ UNCHANGED <<rows, lastId, mon, asks, again, noteVars>>

-----------------------------------------------------------------------------
TrialSteps ==
    \/ TrialStarts \/ TrialRecovers \/ TrialRecords \/ TrialFails
    \/ TrialEnds \/ TrialInterrupted \/ TrialStalls
    \/ \E j \in Jobs : TrialReconcile(j) \/ Try(j)
    \/ \E k \in Keys : Select(k)

\* A monitor started meanwhile finds the mutex taken and exits.
MonitorSteps ==
    /\ ~On
    /\ \/ WorkerNotes \/ MonitorGone
       \/ StartMonitor /\ UNCHANGED noteVars
    /\ UNCHANGED trial

NextWithTrial ==
    \/ MonitorSteps
    \/ TrialSteps
    \/ Others /\ UNCHANGED <<noteVars, trial>>
    \/ SaveStops /\ trial' = NoTrial
    \/ SaveSteps /\ UNCHANGED trial

SpecWithTrial == TrialInit /\ [][NextWithTrial]_allVars
=============================================================================
