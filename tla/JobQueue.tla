------------------------------ MODULE JobQueue ------------------------------
(***************************************************************************)
(* The durable job table of src/app/job_queue.py and the actors that       *)
(* change it: the scanner and the worker of the monitor, the monitor's     *)
(* start-up recovery, the watchdog, the tray user and retention.  A method *)
(* of class JobQueue is one atomic rewrite of rows, being one statement or *)
(* a transaction begun IMMEDIATE, but for two: mark_failure and            *)
(* retry_success_job read first and update later, each in a transaction of *)
(* its own, and are two steps here.  What the worker does with a claimed   *)
(* job is abstracted to its outcome; AttachmentSave has it step by step.   *)
(***************************************************************************)
EXTENDS Integers

CONSTANTS
    Keys,         \* job_key values: one per (account, message, attachment)
    NoKey,        \* the key of an id that holds no row
    MaxJobs,      \* BOUND: ids AUTOINCREMENT may hand out
    MaxAttempts,  \* max_attempts of every row (8 in the code)
    MaxFaults,    \* BOUND: kills, outages and lost writes in a behaviour
    MaxAsks,      \* BOUND: retries and re-downloads the user asks for
    MaxAge,       \* BOUND: how old a success gets, up to 2 (see Row)
    DbErrors      \* may the transaction recording an outcome itself fail?

ASSUME QueueAssumption ==
    /\ NoKey \notin Keys
    /\ MaxJobs \in Nat /\ MaxFaults \in Nat /\ MaxAsks \in Nat
    /\ MaxAttempts \in Nat \ {0} /\ MaxAge \in 0..2
    /\ DbErrors \in BOOLEAN

VARIABLES
    rows,    \* the jobs table: id -> row
    lastId,  \* the last id handed out
    mon,     \* the monitor process: down, in one of its start-up steps, or running
    held,    \* the id the worker claimed and has not finished with, 0 if none
    seen,    \* the attempts mark_failure has read of that row, or NotRead
    wd,      \* the watchdog: idle, or between its kill and fail_stalled_jobs
    faults, asks,
    again    \* the success retry_success_job has read, and whether retention
             \* has blanked its payload since (history)

vars == <<rows, lastId, mon, held, seen, wd, faults, asks, again>>

Jobs   == 1..MaxJobs
Active == {"pending", "processing"}

\* "none": the id was never handed out; "gone": retention deleted its row.
\* due stands for next_attempt_at against the clock: "zero" is the 0 that a
\* fresh or requeued row carries, "past" a time reached, "later" one to come.
\* age stands for updated_at of a success: 1 is beyond full_days (90), 2 beyond
\* dedupe_days (730).  full is payload_json # '{}'.
Row == [key: Keys \cup {NoKey},
        status: {"none", "pending", "processing", "success", "failed", "gone"},
        attempts: 0..MaxAttempts,
        due: {"zero", "past", "later"},
        ignored: BOOLEAN,
        full: BOOLEAN,
        age: 0..2]

NoRow == [key |-> NoKey, status |-> "none", attempts |-> 0, due |-> "zero",
          ignored |-> FALSE, full |-> FALSE, age |-> 0]

NotRead   == -1
NoRequest == [id |-> 0, blanked |-> FALSE]

FreshRow(k) == [NoRow EXCEPT !.key = k, !.status = "pending", !.full = TRUE]

-----------------------------------------------------------------------------
\* Plausible slips in these statements, named for what they get wrong: the runs
\* must reject the table with any of them in the place of what follows it.
CanSucceedAnyStatus(r) == ~r.ignored
AttemptedOneMore(r, n) == IF n > MaxAttempts
                          THEN [r EXCEPT !.status = "failed"]
                          ELSE [r EXCEPT !.status = "pending", !.due = "later"]
StalledRefunded(r)     == IF r.status = "processing"
                          THEN [r EXCEPT !.status = "pending", !.due = "past",
                                         !.attempts = @ - 1]
                          ELSE r
RequeuedIgnored(r)     == [r EXCEPT !.status = "pending", !.attempts = 0,
                                    !.due = "zero", !.age = 0]
RequeuedExhausted(r)   == [r EXCEPT !.status = "pending", !.ignored = FALSE,
                                    !.due = "zero", !.age = 0]

-----------------------------------------------------------------------------
(* What each statement does to the row it selects.                         *)

Claimed(r) == [r EXCEPT !.status = "processing", !.attempts = @ + 1]

CanSucceed(r) == r.status \in Active /\ ~r.ignored
Succeeded(r)  == [r EXCEPT !.status = "success", !.ignored = FALSE,
                           !.due = "zero", !.age = 0]

\* The decision mark_failure and fail_stalled_jobs share, from n attempts.
Attempted(r, n) == IF n >= MaxAttempts
                   THEN [r EXCEPT !.status = "failed"]
                   ELSE [r EXCEPT !.status = "pending", !.due = "later"]

\* mark_failure goes by the attempts it has read: its UPDATE has no guard on
\* attempts, status or ignored.
Missing(r)        == r.status \in {"none", "gone"}
MarkFailure(r, n) == IF Missing(r) THEN r ELSE Attempted(r, n)

Releasable(r) == r.status = "processing" /\ ~r.ignored
FailJob(r)    == IF Releasable(r) THEN [r EXCEPT !.status = "failed"] ELSE r

Refund(n)    == IF n > 0 THEN n - 1 ELSE 0
DeferJob(r)  == IF Releasable(r)
                THEN [r EXCEPT !.status = "pending", !.due = "later",
                               !.attempts = Refund(@)]
                ELSE r
Recovered(r) == IF Releasable(r)
                THEN [r EXCEPT !.status = "pending", !.due = "past",
                               !.attempts = Refund(@)]
                ELSE r
Stalled(r)   == IF Releasable(r) THEN Attempted(r, r.attempts) ELSE r

Requeued(r)  == [r EXCEPT !.status = "pending", !.ignored = FALSE,
                          !.attempts = 0, !.due = "zero", !.age = 0]

\* apply_retention deletes first, then compacts what is left.
Retained(r)  == IF r.status # "success" \/ r.age = 0 THEN r
                ELSE IF r.age = 2 THEN [NoRow EXCEPT !.status = "gone"]
                ELSE [r EXCEPT !.full = FALSE]

\* The rows claim_next may select: due ones, a zero next_attempt_at before any
\* other, by id among zeros; times already reached are not told apart.
Runnable == {j \in Jobs : /\ rows[j].status = "pending" /\ ~rows[j].ignored
                          /\ rows[j].due # "later"}
Zeros    == {j \in Runnable : rows[j].due = "zero"}
NextUp   == IF Zeros # {} THEN {j \in Zeros : \A i \in Zeros : j <= i}
                          ELSE Runnable

-----------------------------------------------------------------------------
Init ==
    /\ rows = [j \in Jobs |-> NoRow]
    /\ lastId = 0
    /\ mon = "down" /\ held = 0 /\ seen = NotRead /\ wd = "idle"
    /\ faults = 0 /\ asks = 0 /\ again = NoRequest

Fault == faults < MaxFaults /\ faults' = faults + 1
Ask   == asks < MaxAsks /\ asks' = asks + 1

LetsGo   == held' = 0 /\ seen' = NotRead  \* of the job at hand
Deciding == held # 0 /\ seen = NotRead

\* The scanner: INSERT OR IGNORE on the unique job_key.
Enqueue(k) ==
    /\ mon = "run"
    /\ lastId < MaxJobs
    /\ \A j \in Jobs : rows[j].key # k
    /\ lastId' = lastId + 1
    /\ rows' = [rows EXCEPT ![lastId + 1] = FreshRow(k)]
    /\ UNCHANGED <<mon, held, seen, wd, faults, asks, again>>

Claim(j) ==
    /\ mon = "run" /\ held = 0
    /\ j \in NextUp
    /\ rows' = [rows EXCEPT ![j] = Claimed(@)]
    /\ held' = j
    /\ UNCHANGED <<lastId, mon, seen, wd, faults, asks, again>>

\* The worker records the outcome of the job it holds and lets go of it.  A job
\* without its payload names no account, so it can only fail.
RecordSuccess ==
    /\ Deciding
    /\ CanSucceed(rows[held]) /\ rows[held].full
    /\ rows' = [rows EXCEPT ![held] = Succeeded(@)]
    /\ LetsGo
    /\ UNCHANGED <<lastId, mon, wd, faults, asks, again>>

\* Any ordinary error of the job, or mark_success finding the row changed.
ReadAttempts ==
    /\ Deciding
    /\ IF Missing(rows[held])
       THEN LetsGo
       ELSE seen' = rows[held].attempts /\ UNCHANGED held
    /\ UNCHANGED <<rows, lastId, mon, wd, faults, asks, again>>

RecordFailure ==
    /\ seen # NotRead
    /\ rows' = [rows EXCEPT ![held] = MarkFailure(@, seen)]
    /\ LetsGo
    /\ UNCHANGED <<lastId, mon, wd, faults, asks, again>>

\* The job's account is no longer configured.
RecordNotConfigured ==
    /\ Deciding
    /\ rows' = [rows EXCEPT ![held] = FailJob(@)]
    /\ LetsGo
    /\ UNCHANGED <<lastId, mon, wd, faults, asks, again>>

\* Authentication outage: no attempt is consumed, so only a bound ends it.
RecordDeferral ==
    /\ Deciding
    /\ rows[held].full
    /\ Fault
    /\ rows' = [rows EXCEPT ![held] = DeferJob(@)]
    /\ LetsGo
    /\ UNCHANGED <<lastId, mon, wd, asks, again>>

\* The transaction that records the outcome raises: worker_loop logs it and
\* goes on, the row stays as it is.
OutcomeLost ==
    /\ DbErrors
    /\ held # 0
    /\ Fault
    /\ LetsGo
    /\ UNCHANGED <<rows, lastId, mon, wd, asks, again>>

-----------------------------------------------------------------------------
(* The monitor process.                                                    *)

\* The monitor is started with the lock free.  A start that overtakes the
\* watchdog between its kill and its fail_stalled_jobs counts as a fault.
StartMonitor ==
    /\ mon = "down"
    /\ IF wd = "idle" THEN UNCHANGED faults ELSE Fault
    /\ mon' = "reconcile"
    /\ UNCHANGED <<rows, lastId, held, seen, wd, asks, again>>

\* reconcile_completed_jobs finds the saved file of an interrupted job.
Reconcile(j) ==
    /\ mon = "reconcile"
    /\ CanSucceed(rows[j])
    /\ rows' = [rows EXCEPT ![j] = Succeeded(@)]
    /\ UNCHANGED <<lastId, mon, held, seen, wd, faults, asks, again>>

RecoverSkipped ==
    /\ mon = "reconcile"
    /\ mon' = "retain"
    /\ UNCHANGED <<rows, lastId, held, seen, wd, faults, asks, again>>

Recover ==
    /\ mon = "reconcile"
    /\ rows' = [j \in Jobs |-> Recovered(rows[j])]
    /\ mon' = "retain"
    /\ UNCHANGED <<lastId, held, seen, wd, faults, asks, again>>

\* The compacting UPDATE takes the payload of a success.
Blanks(j) == j # 0 /\ rows[j].status = "success" /\ rows[j].age = 1

\* Forced at start, at most once a day afterwards.
Retain ==
    /\ mon \in {"retain", "run"}
    /\ rows' = [j \in Jobs |-> Retained(rows[j])]
    /\ mon' = "run"
    /\ again' = [again EXCEPT !.blanked = @ \/ Blanks(again.id)]
    /\ UNCHANGED <<lastId, held, seen, wd, faults, asks>>

\* taskkill by the tray, a crash, or the PC going down.
Kill ==
    /\ mon # "down"
    /\ Fault
    /\ mon' = "down" /\ LetsGo
    /\ UNCHANGED <<rows, lastId, wd, asks, again>>

-----------------------------------------------------------------------------
(* The watchdog: worker_stall needs a waiting or a processing row.         *)

StallKill ==
    /\ mon = "run" /\ wd = "idle"
    /\ \E j \in Jobs : rows[j].status \in Active /\ ~rows[j].ignored
    /\ IF held # 0 THEN UNCHANGED faults ELSE Fault
    /\ mon' = "down" /\ LetsGo /\ wd' = "release"
    /\ UNCHANGED <<rows, lastId, asks, again>>

ReleaseStalled ==
    /\ wd = "release"
    /\ rows' = [j \in Jobs |-> Stalled(rows[j])]
    /\ wd' = "idle"
    /\ UNCHANGED <<lastId, mon, held, seen, faults, asks, again>>

\* fail_stalled_jobs raises (logged), or the watchdog dies with the PC.
ReleaseLost ==
    /\ wd = "release"
    /\ Fault
    /\ wd' = "idle"
    /\ UNCHANGED <<rows, lastId, mon, held, seen, asks, again>>

-----------------------------------------------------------------------------
(* The tray user, at any time, with or without a monitor: one thread, that *)
(* of the tray's windows.                                                  *)

Retry(j) ==
    /\ again = NoRequest
    /\ rows[j].status = "failed"
    /\ Ask
    /\ rows' = [rows EXCEPT ![j] = Requeued(@)]
    /\ UNCHANGED <<lastId, mon, held, seen, wd, faults, again>>

\* Slip: retry_success_job does not look for the payload.
ReadSuccessAnyPayload(j) ==
    /\ again = NoRequest /\ asks < MaxAsks
    /\ rows[j].status = "success"
    /\ again' = [id |-> j, blanked |-> FALSE]
    /\ UNCHANGED <<rows, lastId, mon, held, seen, wd, faults, asks>>

\* retry_success_job: the SELECT, which finds a success with its payload.
ReadSuccess(j) ==
    /\ again = NoRequest /\ asks < MaxAsks
    /\ rows[j].status = "success" /\ rows[j].full
    /\ again' = [id |-> j, blanked |-> FALSE]
    /\ UNCHANGED <<rows, lastId, mon, held, seen, wd, faults, asks>>

\* The UPDATE, in a transaction of its own, asks for the status again but not
\* for the payload.
Redownload(j) ==
    /\ again.id = j
    /\ rows[j].status = "success"
    /\ Ask
    /\ rows' = [rows EXCEPT ![j] = Requeued(@)]
    /\ again' = NoRequest
    /\ UNCHANGED <<lastId, mon, held, seen, wd, faults>>

\* It finds no success, it raises, or the tray has ended.
RedownloadOff ==
    /\ again # NoRequest
    /\ again' = NoRequest
    /\ UNCHANGED <<rows, lastId, mon, held, seen, wd, faults, asks>>

SetIgnored(j, b) ==
    /\ again = NoRequest
    /\ rows[j].status = "failed"
    /\ rows' = [rows EXCEPT ![j].ignored = b]
    /\ UNCHANGED <<lastId, mon, held, seen, wd, faults, asks, again>>

Ignore(j)   == SetIgnored(j, TRUE)
Unignore(j) == SetIgnored(j, FALSE)

-----------------------------------------------------------------------------
(* The clock, as far as a row can tell.                                    *)

BecomeDue(j) ==
    /\ rows[j].status = "pending" /\ rows[j].due = "later"
    /\ rows' = [rows EXCEPT ![j].due = "past"]
    /\ UNCHANGED <<lastId, mon, held, seen, wd, faults, asks, again>>

Age(j) ==
    /\ rows[j].status = "success" /\ rows[j].age < MaxAge
    /\ rows' = [rows EXCEPT ![j].age = @ + 1]
    /\ UNCHANGED <<lastId, mon, held, seen, wd, faults, asks, again>>

-----------------------------------------------------------------------------
Record == \/ RecordSuccess \/ ReadAttempts \/ RecordFailure \/ RecordNotConfigured
          \/ RecordDeferral \/ OutcomeLost

TrayUser == \/ \E j \in Jobs : \/ Retry(j) \/ Ignore(j) \/ Unignore(j)
                               \/ ReadSuccess(j) \/ Redownload(j)
            \/ RedownloadOff

Next ==
    \/ \E k \in Keys : Enqueue(k)
    \/ \E j \in Jobs : Claim(j)
    \/ Record
    \/ StartMonitor
    \/ \E j \in Jobs : Reconcile(j)
    \/ Recover \/ Retain \/ Kill
    \/ StallKill \/ ReleaseStalled \/ ReleaseLost
    \/ TrayUser
    \/ \E j \in Jobs : BecomeDue(j) \/ Age(j)

Spec == Init /\ [][Next]_vars

\* No fairness on Record: a worker may hang in a job for ever.  What keeps the
\* table moving is the worker's loop while it is idle, the delays running out,
\* the scheduled watchdog and the start-up sequence.
HungJobKilled == held # 0 /\ StallKill
Fairness ==
    /\ WF_vars(\E j \in Jobs : Claim(j))
    /\ \A j \in Jobs : WF_vars(BecomeDue(j))
    /\ WF_vars(HungJobKilled)
    /\ WF_vars(ReleaseStalled)
    /\ WF_vars(StartMonitor)
    /\ WF_vars(Recover)
    /\ WF_vars(mon = "retain" /\ Retain)

FairSpec == Spec /\ Fairness

-----------------------------------------------------------------------------
(* Correctness.                                                            *)

\* Every variable keeps its type; in particular no row is ever claimed beyond
\* its max_attempts (claim_next, mark_failure).
TypeOK ==
    /\ rows \in [Jobs -> Row]
    /\ lastId \in 0..MaxJobs
    /\ mon \in {"down", "reconcile", "retain", "run"}
    /\ held \in Jobs \cup {0} /\ seen \in 0..MaxAttempts \cup {NotRead}
    /\ again \in [id: Jobs \cup {0}, blanked: BOOLEAN]
    /\ wd \in {"idle", "release"}
    /\ faults \in 0..MaxFaults /\ asks \in 0..MaxAsks

\* An ignored row is a failed row.  claim_next, the recovery and the counters
\* all skip ignored rows, so an ignored row in any other state would be stuck
\* and invisible; mark_failure has no guard that would prevent it.
IgnoredOnlyFailed == \A j \in Jobs : rows[j].ignored => rows[j].status = "failed"

\* A waiting row always has an attempt left and a claimed one is on attempt
\* 1..max_attempts, whatever refunds, stalls and races came before.
AttemptBudget ==
    \A j \in Jobs :
        /\ rows[j].status = "pending"    => rows[j].attempts < MaxAttempts
        /\ rows[j].status = "processing" => rows[j].attempts > 0

\* While outcomes can be recorded, at most one row is processing, and a
\* running monitor's worker knows it: no claim is stranded until a restart.
NoStrandedClaim ==
    ~DbErrors => \A j \in Jobs :
        rows[j].status = "processing" =>
            /\ \A i \in Jobs \ {j} : rows[i].status # "processing"
            /\ mon \in {"retain", "run"} => held = j

\* What a failed job is left to: the user.  Nothing else brings it back (the
\* promise of reconcile_completed_jobs and mark_success), and a success becomes
\* a job again only on request, or disappears.  It comes back with its payload,
\* unless the retention of a running monitor took the payload between the two
\* transactions of that very request (retry_success_job, apply_retention).
SettledStays ==
    [][\A j \in Jobs :
         /\ rows[j].status = "failed" /\ rows'[j].status # "failed"
               => rows'[j] = Requeued(rows[j]) /\ asks' = asks + 1
         /\ rows[j].status = "success" /\ rows'[j].status # "success"
               => \/ rows'[j].status = "gone" /\ rows[j].age = 2
                  \/ /\ rows'[j] = Requeued(rows[j]) /\ asks' = asks + 1
                     /\ rows[j].full \/ (again.id = j /\ again.blanked)]_vars

\* worker_loop went on after an outcome it could not record; until the monitor
\* is started again nobody has the row.
Unrecorded(j) == DbErrors /\ mon = "run" /\ rows[j].status = "processing" /\ held # j

\* A job in the table ends as a visible success or failure, even one that
\* hangs its worker on every try (fail_stalled_jobs counts those attempts); a
\* start of the monitor also frees the one whose outcome was lost.
EveryJobSettles ==
    \A j \in Jobs : rows[j].status \in Active ~>
                     rows[j].status \in {"success", "failed"} \/ Unrecorded(j)
=============================================================================
