----------------------------- MODULE AuthIssues -----------------------------
(***************************************************************************)
(* The authentication issues the tray shows (runtime_state.py: one JSON row*)
(* of metadata for all accounts), kept by the monitor's worker after every *)
(* job it deferred or saved (process_one_job), each time by a read and a   *)
(* write in transactions of their own, and deleted by every Save.          *)
(***************************************************************************)
EXTENDS JobQueue, FiniteSets

CONSTANTS
    Accounts,   \* account ids
    AccountOf   \* job key -> the account its job was queued for

ASSUME AccountAssumption == AccountOf \in [Keys -> Accounts]

VARIABLES
    issues,  \* monitor_auth_issues: the accounts it names
    note,    \* the worker after a job: the change of issues it is at
    saving,  \* the tray is at a Save, between its stop and the deletion
    owed,    \* accounts whose last deferral no success or Save came after (history)
    wrong    \* accounts whose issue may be wrong until their next note (history)

noteVars == <<issues, note, saving, owed, wrong>>

NoNote       == [op |-> "none", acc |-> "", read |-> {}]
Note(op, a)  == [op |-> op, acc |-> a, read |-> {}]
Busy         == note # NoNote
HeldAccount  == AccountOf[rows[held].key]

AuthInit == Init /\ issues = {} /\ note = NoNote
            /\ saving = FALSE /\ owed = {} /\ wrong = {}

-----------------------------------------------------------------------------
(* The worker: a job, then the note about it, then the next job.           *)

ClaimNext(j) == Claim(j) /\ ~Busy /\ UNCHANGED noteVars

Deferred ==
    /\ RecordDeferral
    /\ note' = Note("set", HeldAccount)
    /\ owed' = owed \cup {HeldAccount}
    /\ UNCHANGED <<issues, saving, wrong>>

Saved ==
    /\ RecordSuccess
    /\ note' = Note("clear", HeldAccount)
    /\ owed' = owed \ {HeldAccount}
    /\ UNCHANGED <<issues, saving, wrong>>

\* An outcome of account a of which no note is written.
Unnoted(a, deferred) ==
    /\ owed' = IF deferred THEN owed \cup {a} ELSE owed \ {a}
    /\ wrong' = IF (a \in issues) = deferred THEN wrong ELSE wrong \cup {a}
    /\ UNCHANGED <<issues, note, saving>>

\* A failure says nothing about the login.
OtherOutcome ==
    /\ ReadAttempts \/ RecordFailure \/ RecordNotConfigured \/ OutcomeLost
    /\ UNCHANGED noteVars

\* read_auth_issues; clear_auth_issue writes nothing without an entry.
ReadIssues ==
    /\ note.op \in {"set", "clear"}
    /\ IF note.op = "clear" /\ note.acc \notin issues
       THEN note' = NoNote /\ wrong' = wrong \ {note.acc}
       ELSE note' = [note EXCEPT !.op = IF @ = "set" THEN "put" ELSE "take", !.read = issues]
            /\ UNCHANGED wrong
    /\ UNCHANGED <<vars, issues, saving, owed>>

\* Slip: the note of this account is written without the others'.
WriteIssuesAlone ==
    /\ note.op \in {"put", "take"}
    /\ issues' = IF note.op = "put" THEN {note.acc} ELSE {}
    /\ note' = NoNote /\ wrong' = wrong \ {note.acc}
    /\ UNCHANGED <<vars, saving, owed>>

WriteIssues ==
    /\ note.op \in {"put", "take"}
    /\ issues' = IF note.op = "put" THEN note.read \cup {note.acc} ELSE note.read \ {note.acc}
    /\ note' = NoNote /\ wrong' = wrong \ {note.acc}
    /\ UNCHANGED <<vars, saving, owed>>

CutOff == /\ note' = NoNote
          /\ wrong' = IF Busy THEN wrong \cup {note.acc} ELSE wrong
          /\ UNCHANGED <<issues, owed>>

\* The transaction raises: worker_loop logs it and takes the next job.
NoteFails ==
    /\ Busy
    /\ Fault
    /\ CutOff
    /\ UNCHANGED <<rows, lastId, mon, held, seen, wd, asks, again, saving>>

\* The monitor's process ends, by a kill or by the watchdog.
MonitorGone == (Kill \/ StallKill) /\ CutOff /\ UNCHANGED saving

\* reconcile_completed_jobs finishes a job and writes no note of it.
ReconcileUnnoted(j) == Reconcile(j) /\ Unnoted(AccountOf[rows[j].key], FALSE)

-----------------------------------------------------------------------------
(* A Save stops the monitor, writes what it writes, and then deletes the    *)
(* row of issues (apply_settings_update, commit_settings).  A watchdog that *)
(* looked for the Save's marker just before may start a monitor in between. *)

SaveStops ==
    /\ ~saving /\ again = NoRequest
    /\ Ask
    /\ mon' = "down" /\ LetsGo
    /\ CutOff /\ saving' = TRUE
    /\ UNCHANGED <<rows, lastId, wd, faults, again>>

\* A note read before the deletion and written after it brings back what it
\* has read; a deferral whose note is still to be written counts as a new one.
SaveDeletes ==
    /\ saving
    /\ issues' = {} /\ saving' = FALSE
    /\ owed' = IF note.op \in {"set", "put"} THEN {note.acc} ELSE {}
    /\ wrong' = note.read \ {note.acc}
    /\ UNCHANGED <<vars, note>>

\* A write before the deletion raises.
SaveFails ==
    /\ saving
    /\ saving' = FALSE
    /\ UNCHANGED <<vars, issues, note, owed, wrong>>

SaveSteps == SaveDeletes \/ SaveFails

\* What leaves the issues alone.
Others ==
    \/ \E k \in Keys : Enqueue(k)
    \/ Recover \/ Retain \/ ReleaseStalled \/ ReleaseLost
    \/ ~saving /\ TrayUser
    \/ \E j \in Jobs : BecomeDue(j) \/ Age(j)

WorkerNotes ==
    \/ \E j \in Jobs : ClaimNext(j)
    \/ Deferred \/ Saved \/ OtherOutcome \/ ReadIssues \/ WriteIssues \/ NoteFails
    \/ \E j \in Jobs : ReconcileUnnoted(j)

\* What the tray shows is true: an account is among the issues exactly if its
\* last deferral came after its last success and the last Save, whatever other
\* accounts' notes were written meanwhile.  It may be wrong, until the account's
\* next note, only
\*   - after a note cut off by a kill, a Save's stop or a failing write;
\*   - after an outcome the code writes no note of, that is a success found by
\*     reconcile_completed_jobs or any outcome of a trial, although the comment
\*     on AUTH_ISSUES_KEY clears the entry with any success of the account;
\*   - when a monitor started during a Save wrote its note around the deletion
\*     and brought back entries the Save was to delete.
IssuesShown ==
    \A a \in Accounts \ wrong :
        ~(Busy /\ note.acc = a) => (a \in issues <=> a \in owed)
=============================================================================
