----------------------------- MODULE TokenFile ------------------------------
(***************************************************************************)
(* token.json as gmail_auth.py keeps it: _save_token, _backup_bad_token    *)
(* and get_oauth_service, called by the scanner's and the worker's thread  *)
(* of one monitor, _save_token also by the tray's Save, without a lock     *)
(* between them, each writing through the one temporary file               *)
(* token.json.tmp.  Windows: a file that some handle has open can be       *)
(* opened and truncated again, but not renamed.                            *)
(***************************************************************************)
EXTENDS Integers, FiniteSets

CONSTANTS
    Threads,    \* threads of the monitor that open Gmail
    Tray,       \* the thread of the tray's Save
    Mailboxes,  \* mailboxes a login may be for
    None,       \* no file, no credentials
    Empty,      \* a file created or truncated, its text not yet written
    Mixed,      \* one text over the beginning of a longer one: no JSON
    MaxLogins,  \* BOUND: browser logins
    MaxOps,     \* BOUND: services built, and values typed, tests and Saves in a dialog
    MaxFaults   \* BOUND: kills, failing reads, writes or commits, early starts

\* A browser login; login 0 was there at first.  Every refresh makes another
\* text of the same login's credentials, longer or shorter than others.
Logins  == [n: 0..MaxLogins, box: Mailboxes]
Creds   == [login: Logins, long: BOOLEAN]
Invalid == {Empty, Mixed}

ASSUME TokenAssumption ==
    /\ None \notin Invalid /\ Empty # Mixed
    /\ ({None} \cup Invalid) \cap (Logins \cup Creds) = {}
    /\ Tray \notin Threads
    /\ MaxLogins \in Nat /\ MaxOps \in Nat /\ MaxFaults \in Nat

VARIABLES
    token,      \* token.json
    temp,       \* token.json.tmp
    th,         \* thread -> its step in get_oauth_service or _save_token, its credentials
    running,    \* is the monitor running?
    installed,  \* the login token.json was installed with last (history)
    clash,      \* have two writes of token.json overlapped? (history)
    ops, faults

history   == <<installed, clash>>
files     == <<token, temp, th, running, history, faults>>
tokenVars == <<files, ops>>

Readable(file) == file \in Logins
Resting   == [pc |-> "resting", creds |-> None]
Fault     == faults < MaxFaults /\ faults' = faults + 1
Op        == ops < MaxOps /\ ops' = ops + 1
AtStep(t, s)  == th[t].pc = s
GoOn(t, s)    == th' = [th EXCEPT ![t].pc = s]
Return(t)     == th' = [th EXCEPT ![t] = Resting]
Writers   == Threads \cup {Tray}
Holders   == {t \in Writers : th[t].pc \in {"opened", "written"}}

TokenInit ==
    /\ installed \in {[n |-> 0, box |-> b] : b \in Mailboxes}
    /\ token \in {None, installed}
    /\ temp = None
    /\ th = [t \in Writers |-> Resting]
    /\ running = FALSE /\ clash = FALSE
    /\ ops = 0 /\ faults = 0

-----------------------------------------------------------------------------
(* get_oauth_service of the monitor, which never opens a browser.          *)

\* token.json is read, expired and refreshed; or it cannot be read, being damaged,
\* or for whatever exception.  If it is missing or its refresh is refused, the
\* caller is told that a login is needed, if it is valid, the service is built,
\* and no file changes.
ReadToken(t) ==
    /\ running /\ AtStep(t, "resting") /\ token # None
    /\ Op
    /\ \/ /\ Readable(token) /\ UNCHANGED faults
          /\ \E l \in BOOLEAN :
               th' = [th EXCEPT ![t] = [pc |-> "refreshed", creds |-> [login |-> token, long |-> l]]]
       \/ /\ IF Readable(token) THEN Fault ELSE UNCHANGED faults
          /\ GoOn(t, "unreadable")
    /\ UNCHANGED <<token, temp, running, history>>

\* _backup_bad_token: whatever is token.json by now is moved away.
BackupBadToken(t) ==
    /\ AtStep(t, "unreadable")
    /\ token' = None
    /\ Return(t)
    /\ UNCHANGED <<temp, running, history, ops, faults>>

-----------------------------------------------------------------------------
(* _save_token, of a monitor's thread or of the tray's Save.               *)

\* Slip: token.json itself is opened for the text.
OpenInPlace(t) ==
    /\ AtStep(t, "refreshed")
    /\ token' = Empty
    /\ GoOn(t, "opened")
    /\ UNCHANGED <<temp, running, history, ops, faults>>

\* open(temp, "w") truncates, also under another thread's hands.
OpenTemp(t) ==
    /\ AtStep(t, "refreshed")
    /\ temp' = Empty
    /\ clash' = (clash \/ \E u \in Writers : th[u].pc \in {"opened", "written", "closed"})
    /\ GoOn(t, "opened")
    /\ UNCHANGED <<token, running, installed, ops, faults>>

\* The text goes to the file's start: a longer one keeps its end.
Over(old, new) == IF old = Mixed \/ (old \in Creds /\ old.long /\ ~new.long)
                  THEN Mixed ELSE new

\* What a reader of the text finds.
Parsed(file) == IF file \in Creds THEN file.login ELSE file

WriteTemp(t) ==
    /\ AtStep(t, "opened")
    /\ temp' = Over(temp, th[t].creds)
    /\ GoOn(t, "written")
    /\ UNCHANGED <<token, running, history, ops, faults>>

CloseTemp(t) ==
    /\ AtStep(t, "written")
    /\ GoOn(t, "closed")
    /\ UNCHANGED <<token, temp, running, history, ops, faults>>

\* os.replace(temp, token.json): fails when the file is gone or open elsewhere.
Movable == temp # None /\ Holders = {}
Replace == token' = Parsed(temp) /\ temp' = None

Publish(t) ==
    /\ AtStep(t, "closed")
    /\ IF Movable THEN Replace ELSE UNCHANGED <<token, temp>>
    /\ Return(t)
    /\ UNCHANGED <<running, history, ops, faults>>

\* The open, the write, the flush or the move fails: the disk, or a reader of
\* token.json (the dialog's test), gets in the way.
PublishFails(t) ==
    /\ ~AtStep(t, "resting")
    /\ Fault
    /\ Return(t)
    /\ UNCHANGED <<token, temp, running, history, ops>>

-----------------------------------------------------------------------------
\* Killed at any step (taskkill /F); both threads end.
MonitorGone == th' = [t \in Writers |-> IF t = Tray THEN th[t] ELSE Resting]

MonitorEnds ==
    /\ running
    /\ Fault
    /\ running' = FALSE
    /\ MonitorGone
    /\ UNCHANGED <<token, temp, history, ops>>

MonitorThread(t) ==
    \/ ReadToken(t) \/ BackupBadToken(t)
    \/ OpenTemp(t) \/ WriteTemp(t) \/ CloseTemp(t) \/ Publish(t) \/ PublishFails(t)

=============================================================================
