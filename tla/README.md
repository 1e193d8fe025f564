# Gmail Attachment Auto Downloader in TLA+

TLA+ models of the program under `src/`: what its processes do to the job table,
the save folder, the settings database and each other, model-checked with TLC,
and theorems about them checked with TLAPS. References such as
`gmail_monitor.py:893` are to `src/app/`.

Contents: 1 the system, 2 the modules, 3 the runs, 4 the proofs, 5 where code
and documentation differ, 6 what is left out, 7 plan.

## 1. The system

### Processes and what they share

| Process | Code | Lives |
|---|---|---|
| monitor: a scanner (main thread) and an attachment worker (second thread) | `gmail_monitor.py` | one at a time, by a named mutex |
| tray application: one Tk thread, one operation at a time | `gmail_app.py` | from logon until the user exits it |
| watchdog: a scheduled task | `watchdog.py` | one run every five minutes |
| trial download, set-up scripts | `gmail_monitor.py --trial`, `*.bat` | by hand |

They share no lock except the monitor's mutex. They communicate by
`jobs.sqlite3` (table `jobs` and the key/value table `metadata`), by files
(`heartbeat.json`, `attachmentjob_<id>.json`, `watchdog_state.json`,
`token.json`, `config.ini`), and by listing and killing processes. Each reads one
of these and acts on it some steps later, which is where most of the hazards are.

### Components

| Component | State | Operations | Correct when |
|---|---|---|---|
| job queue (`job_queue.py`) | rows: key, status, attempts, next attempt, ignored, age | enqueue, claim, success, failure, failing, deferral, recovery, stall count, retry, re-download, ignore, retention | no job is lost, tried beyond its limit, stuck, or brought back unasked |
| attachment worker (`gmail_monitor.py:748-1090`) | the job in hand, its name and content; the journal | fetch, choose and pin a name, place, verify, commit, record, tidy | one request leaves one file; nothing is replaced; a success has its file |
| start-up recovery (`:900-945`, `:1496-1503`) | journals, processing rows | reconcile each journal, recover the rest, apply retention | what a kill left is finished or done again, never both |
| mail scanner (`:346-533`) | cursors, legacy and waiting cursors | cycle, service, key, take over, list, enqueue, advance | no mail under a cursor is skipped |
| service pool and mailbox identity (`:413-505`) | verified services, `verified_identity:<account>` | verify, trust on first use, drop | a folder receives only its own mailbox's mail |
| settings commit (`gmail_app.py:99-340`) | a plan of writes in three stores | stop, a series of writes, restart | the monitor never works on a mixture |
| tray operations (`gmail_app.py:354-411`, `:1102-1776`) | pause flag and reason, marker | save, rescan, pause, resume, run now, exit, health tick, start | told paused means paused; otherwise fetching comes back |
| watchdog (`watchdog.py`) | stale and stall counts, restarts of the last 30 min | look, look again, stop, release, start | a dead, silent or stuck monitor is replaced, in bounds |
| single instance, heartbeat (`runtime_state.py`) | mutex, `heartbeat.json` | acquire, write | one monitor works |
| authentication issues (`runtime_state.py:108-136`) | one JSON row for all accounts | set, clear, delete | the tray names exactly the accounts that need a login |
| trial download (`gmail_monitor.py:1172-1289`, `:1442`) | its own jobs | recover, select, claim, report | it leaves the table as the monitor would |
| shared save folder (`gmail_monitor.py:593-745`) | `install_id`, `.gad<id>_<job>` | draw an id, write, move, sweep | a half-written file gets no final name; nothing is left for ever |
| OAuth token (`gmail_auth.py`) | `token.json` and its one temporary file | read, refresh, set aside, replace | a login that works is not lost or overwritten |
| settings dialog, connection test (`gmail_app.py:99-340`, `:896-1100`) | typed values, the staged result | test, edit, cancel, save | Save commits only what the latest test showed |
| file names (`filename_rules.py`) | — | render, cut, number | every path fits and no two jobs share a temporary name |
| process ownership, task registration (`windows_integration.py`) | process list; scheduled tasks | list, kill; create, read back, roll back | only the program's own processes and tasks are touched |
| log rotation, tray windows, scripts | — | — | see section 6 |

### What is hard about it

The `hazards` of `PROJECT.json` list it line by line. In groups:

- four writes in two stores per attachment (move, journal, row, removal) with a
  kill or an error possible between any two;
- a folder shared with other PCs that never lock it;
- rows that worker, start-up, watchdog and user change without seeing each other;
- a watchdog and a tray that both start and stop monitors on what they read
  earlier, and a marker and a pause flag meant to keep them apart;
- a Save of many writes without a transaction, while the scanner's service
  pool, identity and cursor are keyed by what it writes;
- Gmail's search, which finds a message later than it arrived;
- counters that must not run over (attempts, restarts) or never fire (stalls);
- two threads that replace one token file through one temporary file, and a Save
  that replaces it under them;
- tests of a connection that end after what they tested was changed or given up;
- process ids and scheduled tasks that change hands between a look and an action.

## 2. The modules

```
JobQueue <--EXTENDS-- AuthIssues <--EXTENDS-- Trial <-- MCTrial
   ^  ^--- MCJobQueue, JobQueueProofs       (TrialProofs EXTENDS Trial, JobQueueProofs)
   |
EXTENDS                   SaveOnce
   |                         ^ INSTANCE ... WITH
AttachmentSave --------------+   <-- MCAttachmentSave
   ^--- AttachmentSaveProofs (EXTENDS AttachmentSave, JobQueueProofs)

Supervision <-- MCSupervision            MailScan <-- MCMailScan
   ^                                        ^--- MailScanProofs
   ^--- SupervisionReads <-- MCSupervisionReads
           ^--- SupervisionProofs
TaskRegistration, MonitorStop <--EXTENDS-- WindowsIntegration <-- MCWindowsIntegration
                                             ^--- WindowsIntegrationProofs
FileNames <--EXTENDS-- SharedFolder <-- MCSharedFolder
                          ^--- SharedFolderProofs
TokenFile <--EXTENDS-- Credentials <-- MCCredentials
                          ^--- CredentialsProofs
```

Two abstract specifications stand above `AttachmentSave`. `JobQueue` promises to
the rest of the program what the table can look like; the save conjoins its own
steps with the table's actions. `SaveOnce` promises to the user what appears in
the folder, without journals, attempts or start-ups (of a journal that cannot be
read it knows that the record lapsed); `Once` in `AttachmentSave`
is the mapping.

**Slips.** Beside some definitions stands a variant introduced by *Slip:* (at the
head of `JobQueue`, *plausible slips*). It is not part of the specification; it
is the mistake one could have made in that code, and each property is known to
fail when its definition is replaced by one of them.

### JobQueue

One action per statement of class `JobQueue`, called by the actor that calls it.
A row-level operator (`Claimed`, `Attempted`, `Recovered`, `Requeued`, ...) says
what the SQL does to one selected row, and the actions apply it to one row or to
all of them. A method is one transaction (`_connect`), so one action, but for two
that read in one and write in another: `mark_failure` (`ReadAttempts`,
`RecordFailure`) and `retry_success_job` (`ReadSuccess`, `Redownload`).

- `rows`, `lastId`: the table and its AUTOINCREMENT. `due` is
  `next_attempt_at` against the clock, `age` is `updated_at` of a success against
  the two retention limits, `full` is whether the payload is still there.
- `mon` is the start-up order of `main`: reconcile, recover, retention, run.
- `held` is the worker's claim; what it does in between is one of five outcomes
  (`Record`). `OutcomeLost` is the outcome transaction failing. `seen` is the count
  of attempts that `mark_failure` has read.
- `again` is a re-download between its two transactions, with what was read of the
  row. Retention may delete the row or take its payload in between; then the
  request finds nothing to change, or the job comes back and fails as not configured.
- `wd` is the watchdog between killing a stalled monitor and
  `fail_stalled_jobs`; a monitor may be started in between (a fault).

### AttachmentSave

The inside of the worker: `run_claimed_job` and `run_attachment_job`, one action
per place at which a kill or an error makes a difference, from `Fetch` through
`OpenFresh` (choose and pin a free name), `OpenResumed` and `Resume` (an earlier
attempt's journal), `Check`, `Place`, `PlaceTaken` (somebody took the name),
`Verify` and `MarkSuccess` to `Tidy`. `StepFails` is an exception in any of them,
`FailureRead` and `MarkFailed` the two transactions that record one. A journal that is
there but cannot be read counts as none (`_load_json` returns None for any
exception): `OpenUnread` starts over and pins a free name anew (`PinFresh`), and
`misread` counts how often that happened to a job.
Start-up visits every journal (`VisitFinished`, `VisitSaved`, `VisitSkipped`)
before `SaveRecover`. `Appears` and `Disappears` are other installations and
people.

- `files[p]` is what is under `_numbered_path(name, p)`, with the job that put
  it there, which no code can see; contents stand for their SHA-256.
- All attachments render to the same name in the same folder, the only case in
  which they can meet.
- `asked` counts the downloads asked for: a row made, a re-download.

### SaveOnce

The promise, in six actions: a request, a save of one file under a free name, a request
done, a record that could not be read (`Lapse`), others putting and taking something. A
job never has more files than requests and lapses together. Under the mapping a request
is *open* while its row is pending, processing or failed (a failed one may be retried,
so it is not done), the names *taken* are those `_exists` sees, and the job's *own*
names are those of the files it put there. Retention deletes only successes, so it
changes nothing here. `disturbed` allows a request to be done without a file: when an
outsider has put or taken something in the folder, and when two attachments have a
content in common.

### AuthIssues and Trial

`AuthIssues` gives each job an account and splits the worker's life after a job:
the outcome, then the read, then the write of `monitor_auth_issues`
(`process_one_job`), before the next claim. A Save stops the monitor (`SaveStops`)
and some steps later deletes the row (`SaveDeletes`) or fails before it
(`SaveFails`). In between a watchdog that missed the marker may start a monitor, which
claims, notes and is killed as any other. `owed` is the history of what the tray
should show by the comment on `AUTH_ISSUES_KEY`; `wrong` names the accounts of which
it may show something else until their next note: the note was cut off by a kill, a
stop or a failing transaction; the outcome came from `_reconcile_journal`
(`ReconcileUnnoted`) or from a trial, neither of which notes anything; or a note
was read before the deletion and written after it.

`Trial` adds `--trial`: it takes the monitor's mutex, reconciles and recovers as
`main` does, queues or finds its messages (`Select`) and tries each of its jobs at
most once (`Try`, with `claim_job`), which leaves the issues alone. For each
account in turn the program first selects its messages, then tries their jobs; the
model lets these interleave, which only adds behaviours. A trial
is one request of `MaxAsks`; whether a tray runs meanwhile is not represented.
The watchdog sees a monitor in it (`TrialStalls`).

### Supervision

Who starts and stops the monitor. The tray's operations are sequences of steps
with a program counter (`tray.pc`); the user (`Ask...`), the health tick and the
tray's start begin one. A watchdog run is the sequence `look`, `again`, `list`,
`kill`, `release`, `check`, `probe`, `popen`, `started` of `main` and
`perform_restart`; every early return is `RunEnds` with the counts it leaves in
`watchdog_state.json`.

- `proc` maps process ids to a monitor that boots, runs, is stuck (its worker
  hangs, its scanner goes on) or hung; a booting one exits if the lock is taken.
- `marker` is the settings-update marker. It runs out by itself once the tray no
  longer holds it; while it does, only as a fault.
- `early` remembers, for the properties, which processes came from a run that was
  past its look at the marker when it was set; `wish` what the user was told.
- `fresh` stands for the age of `heartbeat.json` against both limits, the tray's
  180 s and the watchdog's. The program is taken to be configured.

`SupervisionReads` extends it with a database that a watchdog run cannot read (locked
by a backup, a virus scanner, a long transaction). The code takes what it cannot
read for *not paused*, *no Save*, *no stalled job*. Each failing read is an action
that steps past the flag, at the cost of a fault; `missed` counts those of the pause
flag within a run.

### MailScan

Which mail is listed, for whom, and what a Save does to it.

- `mail`, `indexed`, `now`: messages arrive at a mailbox and become visible to the
  search at most `Lag` later; `Tick` waits for the index only at that limit.
- `cursor`, `legacy`, `pending`, `ident`, `token`, `cred`, `conf`: the metadata
  rows and files of those names. `Home` gives each typed address its mailbox,
  so that an alias is an address whose mailbox has another one.
- `mon` is one scan cycle with the locals of `scan_gmail`; `pool` is the scanner's
  `ServicePool` and its credential digest. Trust on first use checks the mailbox in
  one step and records it in another (`RecordIdentity`); a take-over compares, reads
  the waiting cursor a second time to take it, and drops it, each in a step.
- `save` is the plan of a Save or a rescan; the commit is one action per write, in
  the loops over accounts one per account, and `CommitFails` may end it before each of
  them. `write_scan_start` reads an account's identity and writes its cursor in one
  step.
- `since` is a history variable: from when on the mail under a cursor is owed. A
  take-over never makes it later, so a cursor taken over from another mailbox
  counts as skipping mail; `legacy` carries the mailbox it was of.
- `Init` is one of four installs: nothing set up; an older version's cursor and no
  recorded identity; set up without a connection test, with a waiting scan start;
  one that has scanned. Which of the two addresses is the account is fixed by
  symmetry (`Account0`).
- `MonitorStartsEarly` starts a monitor during a commit, as `Supervision` shows a
  watchdog run may (`CommitAlone`). The Save does not stop it again: the tray's start
  at the end finds it running. `early` says that the running monitor is such a
  one; `torn` that a Save ended between a new login and the drop of the older
  version's cursor; `astray` collects the cursors that one of the two has put wrong, each
  until it is set anew. A cursor is marked at the very write that the disturbance
  can have reached, so that the properties still speak of all others.

### TaskRegistration, MonitorStop, WindowsIntegration

The two commands of `windows_integration.py`, one call of `schtasks.exe`,
`taskkill` or the process query at a time, with others acting between any two.

- A task is a kind: absent, foreign, the install's own from earlier (`old`), as
  asked for (`new`), created but not as asked for (`bad`, `garbled`), or the install's
  own put by somebody else (`edited`). `orig` and `made` are the dictionaries
  `originals` and `mutated`. `touched` and `late` are history: whom the
  registration cannot be blamed for.
- A process is a kind too: this user's monitor of this install, another
  Python process, one that cannot be read, anything else. A kill ends one id; the child
  processes that `taskkill /T` ends with it are not represented. `reused` is history: the
  id in hand changed hands after the second look.

### FileNames and SharedFolder

`FileNames` is arithmetic on lengths: the budget of a folder, the cut of the stem, the
underscore of a device name and the `(n)` that come after the cut, the base-36 number of
a temporary name. The code counts Python characters, Windows UTF-16 units (`Units`);
`Spare` is how many characters beyond U+FFFF a path has room for. `SharedFolder` is the
protocol around the temporary files: `installation_id` with its two ways of creating the
file, the save through `.gad<id>_<job>`, the sweep of every start-up.

- A process is a monitor in one Windows session. The mutex is `Local\...`,
  one per session, so that two sessions of one user run two monitors over one
  `install_id`; two PCs run two over one folder. `home` covers both.
- `age` is time on the file server, `Ahead` how far a sweeping PC's clock is off.
- A process stands for its job: the two monitors are taken to be at different jobs.
  Over one database the second's start-up recovery can hand it the job the first is still
  at, and both would write one temporary name; that is outside the model. The look at
  a file's age and its removal are one step: the code has nothing between them but the call.

### TokenFile and Credentials

`TokenFile` is `get_oauth_service` on the scanner's and the worker's thread, which
share `token.json` and `token.json.tmp` and no lock: read, refresh, open the
temporary file (which truncates it under the other's hands), write, close, rename.
The tray's Save is a third writer of the same file (`Writers`). Whatever exception a
read of `token.json` meets, the code moves the file away (`BackupBadToken`): a
readable one is then lost, at the cost of a fault. Each of the open, the write, the flush
and the rename may fail (`PublishFails`).
An expired login gets a new text of the same login, longer or shorter, so that one
text may leave the end of another (`Mixed`). On Windows an open file is not
renamed: a `Publish` that meets the other thread's handle fails.

`Credentials` adds the tray: up to two settings dialogs (the menu opens a second
without closing the first, `SettingsDialog` has no guard), the values typed into
them, the tests on threads of their own with a snapshot of the values, and the Save,
write by write.

- `dlg[d].staged` is `_staged`, `test` the running thread with its snapshot and,
  once it has ended, the result waiting in `root.after`.
- `void` remembers the logins no Save may install any more; `installed` which
  login `token.json` was given last; `clash` that two writes through the temporary
  file have overlapped.
- `MonitorStartsEarly` starts the monitor while a Save commits and its login is not
  installed yet; `raced` remembers it until the next login is installed without
  one. Trust on first use and the monitor's refusal of a wrong mailbox are in `MailScan`.

## 3. The runs

| Run | Configuration | Properties | Distinct states |
|---|---|---|---|
| queue_safety | `MCTrial.cfg` | `TypeOK` `IgnoredOnlyFailed` `AttemptBudget` `IssuesShown` `SettledStays` | 5.2 million |
| queue_liveness | `MCJobQueueLive.cfg` | `EveryJobSettles` | 51 thousand |
| save_shared | `MCAttachmentSave.cfg` | `NoStrandedClaim` `SaveTypeOK` `NoDuplicateSave` `SavedOnSuccess` `NeverReplaces` `SuccessOnlyIfSaved` | 3.8 million |
| save_one | `MCAttachmentSaveOne.cfg` | `ImplementsJobQueue` `ImplementsSaveOnce` | 1.5 million |
| redownload | `MCRedownload.cfg` | `RedownloadSavesAnew` (violated) | |
| supervision_safety | `MCSupervisionReads.cfg` | `TypeOK` `OneTooMany` `CommitUndisturbed` `PauseKept` `PauseSeen` | 2.3 million |
| supervision_liveness | `MCSupervisionLive.cfg` | `ComesBack` | 300 thousand |
| commit_race | `MCCommitAlone.cfg` | `CommitAlone` (violated) | |
| mail_scan | `MCMailScan.cfg` | `TypeOK` `NoMailSkipped` `RightMailbox` `EveryMailQueued` | 1.4 million |
| windows_integration | `MCWindowsIntegration.cfg` | `TypeOK` `AllOrNothing` `OthersKept` `KillsOnlyMonitors` `StoppedAreGone` | 520 thousand |
| shared_folder | `MCSharedFolder.cfg` | `TypeOK` `OnlyWholeFiles` `PathsFit` `TempNamesDiffer` `SavesKeepTheirTemp` `OrphansGo` | 330 thousand |
| credentials | `MCCredentials.cfg` | `TypeOK` `LoginStays` `TokenKept` `NothingVoid` `RecordedIsInstalled` | 2.2 million |

### What they show, and why the bounds suffice

**queue_safety.** Two keys of two accounts and two ids: a second row beside the first,
or the first one's successor when retention has deleted it; two attempts per
row, so that the last attempt and one before it exist; two faults, so that a kill and a
second kill, an outage, a lost write or a cut-off note combine; two requests, so
that a trial, a Save, a retry, a re-download and an ignored job meet in pairs, each at
every step of the other. `Age` reaches both retention limits, also between the two
transactions of a re-download. With two accounts the note of one is written while the
other's stands, which is when the one JSON row matters.

**queue_liveness.** The table alone with two ids. An outcome may be lost; its row then
waits for the next start of the monitor (`Unrecorded`), which nobody promises.
The worker's `Record` has no fairness: it may hang in a job for ever.

**save_shared.** Two jobs, two contents, five counters of the name and two
placing attempts: enough for both to want one path, to be moved away by an
outsider's file or directory, to run out of placing attempts, and to resume under
a pinned name that another now has. One kill at any step, and for each job one
attempt that cannot read its journal. Here every
outcome can be recorded, so that `NoStrandedClaim` must hold with both jobs at work.

**save_one.** One attachment, over two rows: Gmail returns one content, then
another; the user retries or downloads again; retention deletes the row and the
message is queued anew with the first row's file, and perhaps its journal, still
there; one attempt of each row cannot read its journal; outcome transactions may
fail. One attempt per row and one placing attempt are enough, the second row's and the
user's requests being further ones. `ImplementsSaveOnce` was checked under the
configuration of save_shared as well, where two attachments meet.

**supervision_safety.** `SupervisionReads`, which includes every behaviour of
`Supervision`. Three process ids, so that `OneTooMany` could fail; two requests, so
that a Save and an exit, a pause and a Save, or two Saves, meet a run of the
watchdog at every step; counts of two where the code has two or three. Three
faults, so that a run may fail to read the pause flag at each of its three looks:
`PauseSeen` says that fewer do not break a pause that was on when the run began. For
the marker one is enough, the second look being the last: `CommitUndisturbed` holds
with such a run counted among those past their looks.

**supervision_liveness.** One fault and two requests, so that a pause is ended again, then the
system is left to itself: `ComesBack` must hold with the tray gone, with a stuck worker, with a
hung process, with the restart cap at one. Two process ids, since never more than
two monitors are alive (`OneTooMany`).

**mail_scan.** Two mailboxes, one message, two ticks, one Save or rescan that
may stop after any write, and one fault: a kill, a failing call, a stopped Save or a monitor
started during the commit. One message is enough for the cursor properties, which speak
of each message alone, and the scanner's handling of one does not depend on
another (a failed enqueue ends the scan whichever it was). Mail arrives at time 0 or 1,
the search finds it a tick later, and the overlap is one: a cursor can come to 2 and
so pass, by more than the overlap, what arrived at 0. A first scan looks two back. One
fault does not let a commit with an early monitor also fail; the theorems of section 4 hold for
any number.

**windows_integration.** Three tasks where the code has two, so that a rollback
has a task before, at and after the one that failed; two failing calls, so that a
call of the rollback fails too; two changes by others. Three process ids with any
kinds, two failures, three processes that end or start: an id is listed, its process
ends, another takes the id, and the second look or `taskkill` meets it. The
command ends, so deadlock is not checked.

**shared_folder.** Two monitors, of one installation or of two, one clock ahead by half
the age limit of two ticks; two saves, one fault. Four ids are as many as the two
processes can draw and leave behind. `PathsFit` and `TempNamesDiffer` compare the
operators of `FileNames` with MAX_PATH and with injectivity over bounded inputs around
every limit: folders up to the one where the budget reaches its floor of 16 (a longer
one leaves no room whatever the code does), extensions that fit, counters of one to ten
digits, as many wide characters as the path has room for (`Spare`, `TempSpare`), all job
numbers up to 1400, where base 36 goes from two to three digits at 1296.

**credentials.** Two dialogs, two threads, two mailboxes each under its own
address, one browser login, four operations (a refresh, a value typed, a test,
a Save each count as one) and one fault (a kill, a failing read, write or stop, or a monitor
started during the commit). The longest story a property needs, a test, an
edit, a second test and a Save, or a test, another dialog's test and Save, and this
one's Save, takes four; two refreshes and a Save fit as well. The two other lists of DWD accounts,
one account only, add nothing: the test may reach any of those typed.

**The two violated properties** are section 5.

### Fairness

- *JobQueue*: the worker's loop claims when idle, delays run out, the scheduled
  watchdog acts on a hung job, start-up runs through. These are a loop with a two
  second wait, the clock, a task repeated every five minutes and straight-line
  code. Nothing is assumed of the job itself or the user.
- *Supervision*: a watchdog run comes and goes on (scheduled task), an operation
  of the tray runs to its end, time passes. Strong fairness for a monitor
  reaching its lock and its first heartbeat: these take seconds, and the watchdog
  needs several runs, five minutes apart, to call it stale, so it cannot for ever
  come first. No fairness for the user, the health tick, or the tray's start.
- *SharedFolder*: a start-up and a save run through, time passes, and a
  monitor that is at rest is ended and started again sooner or later (a pause, a Save, the
  next logon): only start-ups sweep. A kill needs no fairness.
- *MailScan*: the scanner's loop goes on and is started again (`Supervision`), a
  commit runs on, the index catches up.

## 4. The proofs

Checked by TLAPS for every value of the constants that satisfies the modules'
ASSUMEs (`QueueAssumption`, `AccountAssumption`, `SaveAssumption`,
`SupervisionAssumption`, `MailScanAssumption`, `RegistrationAssumption`,
`StopAssumption`, `FolderAssumption`, `TokenAssumption`, `CredentialsAssumption`): any
number of keys, ids, attempts, contents, paths, processes, mailboxes, messages, tasks,
sessions, installations, threads and dialogs, and any bound on faults, requests and
time. Every safety invariant and action property of the passing runs is among them.

The ASSUMEs say only that constants are numbers of the right sign, that sentinels
(`None`, `NoId`, `"absent"`) differ from the values they stand beside, and that a
mapping given as a constant (`Home`, `Ahead`) is a function. `Oldest`
of `FolderAssumption` is a bound: the age up to which a temporary file is counted
must be old by every clock, or counting would change the sweep.

| Theorem | States |
|---|---|
| `JobQueueProofs!TypeCorrect` | `TypeOK` |
| `JobQueueProofs!IgnoredStaysFailed` | `IgnoredOnlyFailed` |
| `JobQueueProofs!AttemptsAccounted` | `AttemptBudget` |
| `JobQueueProofs!ClaimsAreHeld` | `NoStrandedClaim` |
| `JobQueueProofs!SettledOnlyReturnOnRequest` | `SettledStays` |
| `TrialProofs!TypeCorrectWithTrial` | `TypeOK`, of `SpecWithTrial` |
| `TrialProofs!IgnoredStaysFailedWithTrial` | `IgnoredOnlyFailed`, of `SpecWithTrial` |
| `TrialProofs!AttemptsAccountedWithTrial` | `AttemptBudget`, of `SpecWithTrial` |
| `TrialProofs!SettledWithTrial` | `SettledStays`, of `SpecWithTrial` |
| `TrialProofs!IssuesAreShown` | `IssuesShown` |
| `AttachmentSaveProofs!SaveImplementsQueue` | `ImplementsJobQueue` |
| `AttachmentSaveProofs!SaveTypeCorrect` | `SaveTypeOK` |
| `AttachmentSaveProofs!NoFileIsReplaced` | `NeverReplaces` |
| `AttachmentSaveProofs!SuccessIsBacked` | `SuccessOnlyIfSaved` |
| `AttachmentSaveProofs!OneRequestOneFile` | `NoDuplicateSave` |
| `AttachmentSaveProofs!SuccessHasItsFile` | `SavedOnSuccess`, if `ContentsApart` |
| `AttachmentSaveProofs!SaveImplementsOnce` | `ImplementsSaveOnce` |
| `SupervisionProofs!TypeCorrect` | `TypeOK` |
| `SupervisionProofs!ToldPauseStays` | `PauseKept` |
| `SupervisionProofs!MarkerHolds` | `CommitUndisturbed` |
| `SupervisionProofs!AtMostOneTooMany` | `OneTooMany` |
| `SupervisionProofs!TypeCorrectUnread` | `TypeOK`, of `ReadsSpec` |
| `SupervisionProofs!ToldPauseStaysUnread` | `PauseKept`, of `ReadsSpec` |
| `SupervisionProofs!MarkerHoldsUnread` | `CommitUndisturbed`, of `ReadsSpec` |
| `SupervisionProofs!AtMostOneTooManyUnread` | `OneTooMany`, of `ReadsSpec` |
| `SupervisionProofs!OnlyThreeMissesBreakAPause` | `PauseSeen` |
| `MailScanProofs!TypeCorrect` | `TypeOK` |
| `MailScanProofs!NothingSkipped` | `NoMailSkipped` |
| `MailScanProofs!NothingAstray` | `RightMailbox` |
| `WindowsIntegrationProofs!TypeCorrect` | `TypeOK`, of the registration |
| `WindowsIntegrationProofs!RegisteredOrRestored` | `AllOrNothing` |
| `WindowsIntegrationProofs!OthersAreKept` | `OthersKept` |
| `WindowsIntegrationProofs!StopEndsThemAll` | `StoppedAreGone` |
| `WindowsIntegrationProofs!OnlyMonitorsDie` | `KillsOnlyMonitors` |
| `SharedFolderProofs!TypeCorrect` | `TypeOK`, of the folder |
| `SharedFolderProofs!FinalsAreWhole` | `OnlyWholeFiles` |
| `SharedFolderProofs!SaversKeepTheirFiles` | `SavesKeepTheirTemp` |
| `SharedFolderProofs!EveryPathFits` | `PathsFit` for every folder, name, number, job |
| `SharedFolderProofs!RoomIsTight` | one wide character more than `Spare` is too many |
| `SharedFolderProofs!EveryNameDiffers` | `TempNamesDiffer` for every two jobs |
| `SharedFolderProofs!BoundedPathsFit` | `PathsFit`, as an instance |
| `SharedFolderProofs!BoundedJobsDiffer` | `TempNamesDiffer`, as an instance |
| `CredentialsProofs!TypeCorrect` | `TypeOK`, of token and dialogs |
| `CredentialsProofs!LoginNeverUndone` | `LoginStays` |
| `CredentialsProofs!TokenNeverLost` | `TokenKept` |
| `CredentialsProofs!NoVoidLogin` | `NothingVoid` |
| `CredentialsProofs!RecordsWhatItInstalled` | `RecordedIsInstalled` |

**The table.** `IInv` is `TypeOK`, `NoStrandedClaim`, the row-wise `RowOK`, and two
facts the invariants do not say. `HeldOK`: the row of a job the worker holds is
pending, processing, or failed with its attempts used up. It is needed because
`mark_failure` does not look at the status: a late watchdog may have released
the row under the worker, the user may have retried it, and only the count of
attempts keeps the call from bringing a failed row back. As the call reads that count
in a transaction of its own, `HeldOK` also says what the count read (`seen`) still
tells: a processing row has it, a failed one was failed with its attempts used up.
`UnusedIds`: a new id meets no old row. For `SettledStays` one more is needed, `AgainOK`:
what a re-download has read is still a success or gone, with its payload unless
retention took it meanwhile. The row-level lemmas (`RowTypes`, `RowsStayOK`) say what each
statement keeps; then there is one step per action (`Inductive`).

**The table with the trial.** `HeldOK` says that only a running monitor holds a
row, and `NoStrandedClaim` that nobody leaves one behind: with a trial, which holds
rows while no monitor runs and may be interrupted at any of them, both are false.
`TableInv` puts in their place what the mutex gives (`LockOK`: monitor and trial
are never on together, and whoever holds a row is on) and the half of `HeldOK` about
the row (`RowHeldOK`). `Steps` reduces the thirty actions to twelve shapes a row can
change by (`RowStep`); each invariant is then shown for the shapes. The price is that
a row may now be processing with nobody on it, which `IgnoredOnlyFailed`,
`AttemptBudget` and `SettledStays` survive.

**The issues shown.** `monitor_auth_issues` is one row for all accounts, read and
written in two transactions, so that a write could undo another's. `NoteOK` says how far
it does not: for every account not in `wrong`, what a note has read is what the row
still holds at its write, since beside the worker only a Save writes it, and what a
Save deletes from under a note is put into `wrong`. It also says that the note at
hand agrees with the history (`owed`).

**The save.** `SaveStepIsQueueStep` maps every step to a step of the table or a
stutter, so `IInv` holds here too. `SaveInv` adds what the worker knows
(`WorkerOK`): from the choice of a name to the recording of the success its name
and content are the journal's, and at the record step the journal is committed.
`NoFileIsReplaced` follows from the shape of each step under the types, and
`SuccessIsBacked` from `WorkerOK` at the record step and the guard of `VisitSaved`.

**One file per request.** `NoDuplicateSave` only compares two numbers; `OnceInv` says
why they stay in order, as an account of the files of each job (`Accounted`). A job may
have a file for each request and for each time its journal could not be read (`Budget`);
the code disposes of that one by starting over under a free name. A request that is not
finished (pending, processing or failed) is still owed a file, *not counting* a file of
the job under the name its journal pins. So the move (`PlaceAccount`) spends what was
owed, and a kill, an error or a lost outcome after it loses nothing, since the journal
still points at the file. Three things make the account hold:

- a job is made unfinished again only by a request (`NotReopened`: this is where
  `HeldOK` is needed again), which is then one more that is asked;
- a journal goes only with a finished job, and its pin moves only when no file of the
  job is under the old name (`PinSteps`) or at the cost of a misread. For that, `OwnOK`
  says that a file the job put under its pinned name has the pinned content (the worker
  would have recognised it) and that a worker before the move has none under its name;
- the worker that removes its journal after recording the success may find that
  the user has asked for the job again in between. The removal then takes the
  pin away from an unfinished job, so the account of that case counts all files.

**A success has its file.** `OnceInv` bounds the files from above; `PromiseInv`
bounds them from below, in a folder nobody else touches. The difficulty is the resumed job,
which takes whatever is under its pinned name for its own if the content is
right. `MatchIsOwn` says that it is its own, and `HasFile` that a committed journal
or a success means a file. They are inductive only with three facts about *other*
jobs: `KeysApart` (job_key is unique in the table, so that no two jobs serve one
attachment), `DataOK` and `PinOK` (what the worker fetched and what a
journal pins is a content of the job's own attachment). With `ContentsApart` a
matching content then tells the job. Without it the statement is false: two
messages with one attachment under one name share the file, as the comment of
`_numbered_path` accepts.

**The save implements the promise.** `SaveImplementsOnce` maps every step: a journal
that cannot be read is `Lapse`, the move is `Save` (the account of `OnceInv` gives its
bound), the success and the reconciliation are `Done` (`HasFile` gives its guard, or the
folder was disturbed), a new row or a re-download is `Request`, outsiders are
themselves, everything else stutters. Both invariants are needed, one for each guard.

**Supervision.** Three invariants beside the types, for three questions.
`PauseInv` follows a pause through the operations: the user is
not told before reason and flag are both written (a pause under way still has
`wish = "run"`), and only a resume or a start that finds a pause of the tray's own
comes to remove them. `MarkerInv` compares the
watchdog's run with the Save: a run past its look at the marker while a
marker stands is remembered in `early`, so whatever it starts is early too; and
between the start of a stop and its end every live monitor is early or on the
list of those to be killed. `CountInv` is about the two starters: whoever
is about to start a monitor has seen none, so at most the one that the other
started in between is there; when both are about to start one, there is none.

**Reads that fail.** `SupervisionReads` adds a run that goes on past a flag it could not
read. `UnreadRun` says what such a step changes: the run alone, which a look at the
marker leaves marked as early and which never comes to `popen`, since that takes
a look for live monitors. So the three invariants hold there as well. For `PauseSeen`
`SeenInv` counts: under a pause older than the run, the number of looks missed is
the number of looks the run has had, one from its wake, two from
`perform_restart`, three from `start_monitor`, and a pause that ends in between ends
`held` as well.

**The scan.** `TypeInv` holds more than types: nothing in the mailboxes is dated ahead of the
clock, the search is at most `Lag` behind, and no cursor is ahead of the clock by more
than the overlap. `FetchInv` is a chain, each link needing the one before: only an
early monitor scans during a commit (`CommitApart`), so a cycle of any other keeps the
mode it began with (`OneMode`), every service in its pool opens the mailbox recorded
for its account (`ServicesOK`, `RecordOK`), a scan's cursor key is that mailbox's
(`ScanApart`), what it takes over is what it has compared (`WinsOK`), and what it listed
is of that mailbox and complete up to the overlap before its start (`ListOK`, because
`Lag` is no more than the overlap). `LegacyOK` follows the older version's cursor: until it
is dropped, it is of the one mailbox that the login opens and that is recorded, unless
a Save was torn. `AdvanceCursor` may then move the cursor: below the start of the
listing `NoMailSkipped` held already, above it the list was complete and is queued. Nothing
is assumed of when monitors start; the links speak of monitors that are not
`early`, and what an early one moves is either right as well or in `astray`.

**The commands of Windows.** `Inv` follows the registration task by task: which
tasks are created (`MadeInOrder`), what stands under a name nobody else touched
before, at and after the one in hand (`Untouched`), and what a call that changes a task
still relies on (`LookedAt`). The roll-back puts back backwards, so that below the
task in hand all is created and above it all is restored, unless an error was counted
(`ErrorsCounted`). `StopInv` says that a listed monitor that is still the same process
is still to be dealt with (`ListedAhead`), and that an id about to be killed is a monitor
or changed hands since the second look (`LookedTwice`).

**The shared folder.** `FolderInv` is the types, what a save in progress may rely on
(`Saving`) and `OneHome`: an installation has an id when its file or one of its
processes, cached or just drawn, has it, and no two installations have the same.
Two things are needed for it: a fresh id is one in use nowhere, and every id that
moves on (from the draw to the file, from the file to a cache) stays within the
installation (`IdsStep`), also through the truncated file and two sessions that create
it at once. `Others` and `Itself` then say what one process's step can do to another's
temporary file and to its own: only a sweep removes another's, only one that has
the same id or finds it old, and never an open one. `OneHome` turns the id into the
installation.

**The file names.** `Base36` and `Digits` are recursive functions over the naturals. `Least`
(a set of naturals has a least element, from the well-foundedness of < in the
library) replaces induction: what fails for some number fails for a least one, and its
quotient is smaller. `RecursionDefines` shows once that such a recursion defines
a function, `Base36Recursion` and `DecimalsRecursion` are its two instances.
`EveryNameDiffers`: two numbers with one text have one last digit and, by the least
number, one quotient. `EveryPathFits`: a further digit needs a number 36 (10) times as
large, so a row id below 2^63 has at most 13 digits and a temporary name exactly
fits the 24 characters reserved for it; a number below 10^10 adds at most twelve,
and the underscore one, which the reserve covers too. What is left of the reserve is
room for `Spare` wide characters, and for no more (`RoomIsTight`): with one more there
is an extension and a stem whose path Windows refuses.

**The token and the dialogs.** `CredInv` has seven parts. For the token: the tray writes
in a Save only, and without an early start nobody else does then (`TrayOK`); without an
early start whatever is in a thread's hands or in the temporary file is of the login
installed last (`LoginOK`: the Save stops the monitor before it installs, and opening the
temporary file truncates what was left in it); and without a clash at most one thread
is between the opening of the temporary file and the move, and the text is what its step
says (`WriterOK`; a renamed half-written text needs a second thread). `FilesOK` is the
types. For the dialogs: a staged result matches the values beside it (`DialogsOK`), what a
Save writes is from one result (`SaveOK`), and no login is in the hands of two dialogs, nor
void while it is staged or about to be installed (`VoidOK`). The attempt to prove `VoidOK`
found a mistake in the model: a test that finds again the login an earlier one of the dialog
had brought makes that login good again, so that `void` has to forget it (`FinishWith`).

**Only model-checked.** Liveness under fairness stays with TLC: `EveryJobSettles`,
`ComesBack`, `EveryMailQueued`, `OrphansGo`, each under the fairness of section 3. So do
the two properties that the code violates (section 5), which are counterexamples.

## 5. Where code and documentation differ

Two runs check a sentence of the repository and end in a counterexample. The
`findings` of `PROJECT.json` quote the lines.

- *redownload*: the monitor dies after `mark_success`, before the journal is
  removed. Later the user asks to download the attachment again. A monitor
  started while that request waits finds the kept journal and the old file, takes
  them for this job's, and records a success. No new file is saved.
- *commit_race*: a watchdog run looks at the marker, a Save sets it and stops the
  monitor, the run starts one. The Save commits with a monitor running.
  `CommitUndisturbed` shows that this is all the marker lets through.

Consequences and relatives of *commit_race*, which the properties name as exceptions and
which have no run of their own:

- A watchdog run that has read the pause flag (`watchdog.py:240`) starts a monitor
  after the user is told of the pause, and nothing stops it.
- The monitor of *commit_race* may use a service verified against the old identity
  under a cursor key read from the new one (`gmail_monitor.py:359`): it lists one
  mailbox and moves the other's cursor, or moves back or ahead one that the Save has
  just set. Mail of that mailbox may then be skipped. `RightMailbox` excepts such a monitor
  (`early`), `NoMailSkipped` and `EveryMailQueued` the cursors it has put wrong (`astray`).
- It may read the old login from `token.json`, refresh it and publish it over the one
  just installed; `LoginStays` excepts it (`raced`). As third writer of `token.json.tmp` it may
  also get in the way of the Save's own write.
- Its worker may note an authentication issue around the Save's deletion of them and
  bring other accounts' entries back (`wrong` in `IssuesShown`).
- On an install with an older version's cursor and no recorded identity, a Save that
  logs in to another mailbox may stop between the token and the drop of the old
  cursor (`gmail_app.py:287`). The restarted monitor trusts the new mailbox and takes
  the old cursor over for it; if that lies after the new mailbox's first-scan bound, the
  mail in between is never fetched (`torn`).

Other places where the code does less than a comment says, or than one may expect:

- The comment on `AUTH_ISSUES_KEY` (`runtime_state.py:46-48`) has an account's entry cleared
  when one of its jobs succeeds. `_reconcile_journal` (`gmail_monitor.py:937`) and the trial
  record successes and clear nothing, so the tray may go on naming an account whose
  attachment has just been saved, until its next job in the monitor (`wrong`).
- `_save_token` takes no lock and has one temporary name. When two writes overlap, a mixed text
  may be published, and the next reader sets it aside and asks for a login. The same
  happens to a readable `token.json` when a read of it fails for any other reason
  (`gmail_auth.py:67-72`), a sharing violation included, and a thread whose read found
  damaged text moves away what another has put there since. `TokenKept` shows that there is no
  further way to lose one.
- A journal that cannot be read counts as none (`gmail_monitor.py:536-542`). If the file
  was already in its place, a second one is saved under a numbered name.
- `retry_success_job` does not look at the payload again in its second transaction. If retention
  took it in between, the job comes back and fails visibly as not configured.
- `filename_budget` counts Python characters; a name of full length with more than `Spare`
  characters beyond U+FFFF (some emoji, rare kanji) makes a path Windows refuses, and the
  job fails.

## 6. What is left out, and why

Within the modelled parts:

- *JobQueue*: payloads, results, error texts, the exact delays; among rows whose
  time has come, those with `next_attempt_at` other than 0 are claimed in any order.
- *AttachmentSave*: base64, MIME, the notice file of a failed job
  (`_write_failure_notice`, which may stand beside a later success until somebody
  deletes it). Different jobs have different contents: with equal content and name the
  file of one satisfies the checks of the other, and one file stands for both.
- *AuthIssues*, *Trial*: the texts of the notes, a row of issues that is not
  JSON; labels and message selection, the report.
- *Supervision*: grace periods after boot and resume (they only delay a run's
  verdict), notices, the `--setup` dialog. Failing reads are in `SupervisionReads` only.
- *JobQueue*, liveness: a worker thread that ends (`gmail_monitor.py:1088-1090`) is
  covered as one that hangs; both leave a scanner without a worker and are ended by the
  watchdog.
- *MailScan*: a message has one attachment; labels, and mail moved to the inbox
  later than the overlap; a cursor row that cannot be parsed; the worker's own
  pool (it verifies in the same way); page by page listing (the list is taken at
  once, its messages are queued one by one).
- *WindowsIntegration*: the XML, CSV and command-line texts, which decide the
  kind of a task or process; code pages, but for a path that reads back differently.
- *FileNames*: which characters a template yields and which are replaced. A stem
  is a length. Outside what `PathsFit` promises, and refused by Windows (the job fails):
  an extension longer than the budget, which the code never cuts (`ExtFits`); folders of more than
  218 characters, where the budget is at its floor (`DirFits`); more wide characters
  than `Spare`.
- *MonitorStop*: the children that `taskkill /T` ends with a monitor
  (`windows_integration.py:776`).
- *SharedFolder*: two sessions at one job (section 2); a folder that is no longer
  configured is never swept, whatever is left in it; the final name and its counter
  (`AttachmentSave`).
- *Credentials*: the very first set-up, field validation, ACLs of the
  files, the confirmation dialogs (a Save that goes on was confirmed).

Not modelled as components: log rotation and JSON files (at most log lines are
lost; `atomic_write_json` is the exchange of `TokenFile` without a second writer);
the tray's windows and the set-up and maintenance scripts, including
`tools/lock_requirements.py`: no state of their own that steps of several actors
change.

## 7. Plan

Order: what loses or duplicates mail first, then what stops fetching, then the rest.

Done: `JobQueue`, `AttachmentSave`, `Supervision`, `MailScan` with their runs;
`SaveOnce` and the proofs that the save implements it; `AuthIssues`, `Trial`; the proofs
of all these;
`TaskRegistration`, `MonitorStop`; `FileNames`, `SharedFolder`; `TokenFile`,
`Credentials`; the proofs of these, and of `SupervisionReads`.

Left, in this order:

1. The worker's own service pool in `MailScan`, with `AuthIssues` as its outcome.

New runs join the existing configurations of a module where one instance can
answer both questions.
