------------------------------ MODULE MailScan ------------------------------
(***************************************************************************)
(* Which mail the monitor lists, and whose: the mail cursors, their        *)
(* take-over from an older version or an early scan start, the mailbox     *)
(* identity check in front of every scan (gmail_monitor.py: scan_gmail,    *)
(* ServicePool, verify_mailbox_identity) and the Save of the settings that *)
(* changes account, login, identity and cursor one write after the other   *)
(* (gmail_app.py: _save_plan, commit_settings, write_scan_start).          *)
(***************************************************************************)
EXTENDS Integers, FiniteSets

CONSTANTS
    Addresses,     \* addresses a user may type as an account
    Home,          \* address -> the mailbox's own address (an alias has another's)
    Account0,      \* the account of an install that is set up at first
    Messages,      \* mail that may arrive
    Files,         \* credential files (by digest) the user may install
    File0,         \* the one installed at first
    None,          \* no value
    Overlap,       \* QUERY_OVERLAP, also the distance of a scan start's cursor
    Lookback,      \* lookback_days
    Lag,           \* Gmail's search knows a message at most so long after it came
    MaxNow,        \* BOUND: end of time; mail arrives before it
    MaxFaults,     \* BOUND: kills and early starts of the monitor, failing scans and Saves
    MaxSaves       \* BOUND: Saves and rescans

ASSUME MailScanAssumption ==
    /\ Home \in [Addresses -> Addresses] /\ \A a \in Addresses : Home[Home[a]] = Home[a]
    /\ Account0 \in Addresses /\ IsFiniteSet(Addresses)
    /\ None \notin Addresses \cup Int \cup [box: Addresses, at: Int]
    /\ Addresses \cap {"absent", "untested"} = {}
    /\ File0 \in Files /\ IsFiniteSet(Messages)
    /\ Overlap \in Nat /\ Lookback \in Nat /\ MaxNow \in Nat
    /\ Lag \in 0..Overlap
    /\ MaxFaults \in Nat /\ MaxSaves \in Nat

VARIABLES
    now,      \* the clock
    mail,     \* message -> its mailbox and arrival, or None
    indexed,  \* messages Gmail's search finds
    jobs,     \* <<account, message>> in the job table
    conf,     \* config.ini: the auth mode and the accounts
    token,    \* token.json: the mailbox it opens, or None
    cred,     \* which client or service-account file is installed (its digest)
    ident,    \* metadata verified_identity:<account>
    cursor,   \* metadata mail_cursor_timestamp:<address>
    legacy,   \* metadata mail_cursor_timestamp: a cursor and whose it was
    pending,  \* metadata mail_cursor_timestamp:pending:<account>
    since,    \* from when on the mail under a cursor is owed (history)
    mon,      \* the monitor's scan cycle
    pool,     \* the scanner's ServicePool: its fingerprint, account -> mailbox opened
    save,     \* the tray's Save or rescan in progress
    early,    \* was the running monitor started during a commit? (history)
    torn,     \* has a Save ended between a new login and the drop of legacy? (history)
    astray,   \* cursors such a monitor or Save has put wrong (history)
    faults, saves

world  == <<now, mail, indexed>>
stored == <<conf, token, cred, ident>>
marks  == <<cursor, legacy, pending, since>>
past   == <<early, torn, astray>>
bounds == <<faults, saves>>
vars   == <<world, jobs, stored, marks, mon, pool, save, past, bounds>>

Mailboxes == {Home[a] : a \in Addresses}
Modes     == {"oauth", "dwd"}
Earlier(s, t) == IF t < s THEN t ELSE s

Off  == [pc |-> "off", left |-> {}, mode |-> "oauth", acc |-> None, box |-> None,
         key |-> None, started |-> 0, wins |-> FALSE, start |-> 0, todo |-> {}]
Idle == [Off EXCEPT !.pc = "idle"]
NoServices == [fp |-> None, svc |-> [a \in Addresses |-> None]]

NoSave == [op |-> "none", pc |-> "none", mode |-> "oauth", accounts |-> {}, token |-> None,
           cred |-> File0, writes |-> <<>>, dropLegacy |-> FALSE, drops |-> {}, start |-> None,
           left |-> {}]
Committing == {"creds", "token", "legacy", "drops", "ident", "start", "conf"}

Fault == faults < MaxFaults /\ faults' = faults + 1

\* The account's cursor key; None while an OAuth account has no mailbox recorded.
CursorKey(a, mode) ==
    IF mode = "dwd" THEN a ELSE IF ident[a] \in Mailboxes THEN ident[a] ELSE None

Fresh    == [conf |-> [mode |-> "oauth", accounts |-> {}], token |-> None, legacy |-> None,
             ident |-> [a \in Addresses |-> "absent"],
             cursor |-> [a \in Addresses |-> None], pending |-> [a \in Addresses |-> None]]
SetUp    == [Fresh EXCEPT !.conf.accounts = {Account0}, !.token = Home[Account0]]

\* Nothing set up; an install of a version with one OAuth cursor and no recorded
\* identity; one set up without a connection test, its scan start waiting;
\* one that has scanned up to now.  Mail may lie in the mailboxes already.
Installs ==
    {Fresh,
     [SetUp EXCEPT !.legacy = [at |-> 0, box |-> Home[Account0]]],
     [SetUp EXCEPT !.ident[Account0] = "untested", !.pending[Account0] = Overlap],
     [SetUp EXCEPT !.ident[Account0] = Home[Account0], !.cursor[Home[Account0]] = 0]}

Init ==
    /\ now = 0 /\ jobs = {}
    /\ mail \in [Messages -> {None} \cup [box: Mailboxes, at: {0 - Lookback}]]
    /\ indexed = {m \in Messages : mail[m] # None}
    /\ \E i \in Installs :
          /\ conf = i.conf /\ token = i.token /\ ident = i.ident /\ legacy = i.legacy
          /\ cursor = i.cursor /\ pending = i.pending
          /\ since = [k \in Addresses |-> IF i.cursor[k] = None THEN None
                                         ELSE i.cursor[k] - Overlap]
    /\ cred = File0
    /\ mon = Off /\ pool = NoServices /\ save = NoSave
    /\ early = FALSE /\ torn = FALSE /\ astray = {}
    /\ faults = 0 /\ saves = 0

-----------------------------------------------------------------------------
(* Gmail: mail arrives, the search finds it a little later.                *)

Arrive(m) ==
    /\ mail[m] = None /\ now < MaxNow
    /\ \E b \in Mailboxes : mail' = [mail EXCEPT ![m] = [box |-> b, at |-> now]]
    /\ UNCHANGED <<now, indexed, jobs, stored, marks, mon, pool, save, past, bounds>>

Index(m) ==
    /\ mail[m] # None /\ m \notin indexed
    /\ indexed' = indexed \cup {m}
    /\ UNCHANGED <<now, mail, jobs, stored, marks, mon, pool, save, past, bounds>>

Tick ==
    /\ now < MaxNow
    /\ \A m \in Messages \ indexed : mail[m] # None => now < mail[m].at + Lag
    /\ now' = now + 1
    /\ UNCHANGED <<mail, indexed, jobs, stored, marks, mon, pool, save, past, bounds>>

Found(box, start) ==
    {m \in indexed : mail[m].box = box /\ mail[m].at >= start}

-----------------------------------------------------------------------------
(* The monitor's scanner.                                                  *)

\* A process start: no services yet.
MonitorStarts ==
    /\ mon.pc = "off" /\ save.pc \notin Committing
    /\ mon' = Idle
    /\ UNCHANGED <<world, jobs, stored, marks, pool, save, past, bounds>>

\* While the tray commits, a watchdog run that missed the settings-update marker
\* may start it; the tray's own start after the Save then leaves it running.
MonitorStartsEarly ==
    /\ mon.pc = "off" /\ save.pc \in Committing
    /\ Fault
    /\ mon' = Idle /\ early' = TRUE
    /\ UNCHANGED <<world, jobs, stored, marks, pool, save, torn, astray, saves>>

MonitorDies ==
    /\ mon.pc # "off"
    /\ Fault
    /\ mon' = Off /\ pool' = NoServices /\ early' = FALSE
    /\ UNCHANGED <<world, jobs, stored, marks, save, torn, astray, saves>>

\* Slip: a cycle ends after its first account.
CycleOfOne ==
    /\ mon.pc = "idle"
    /\ mon' = IF conf.accounts = {} THEN Idle
              ELSE [Idle EXCEPT !.pc = "next", !.left = {CHOOSE a \in conf.accounts : TRUE},
                                !.mode = conf.mode]
    /\ UNCHANGED <<world, jobs, stored, marks, pool, save, past, bounds>>

\* scan_all_accounts: the accounts and the mode of the whole cycle; without an
\* account the cycle fails.
CycleBegins ==
    /\ mon.pc = "idle"
    /\ mon' = IF conf.accounts = {} THEN Idle
              ELSE [Idle EXCEPT !.pc = "next", !.left = conf.accounts, !.mode = conf.mode]
    /\ UNCHANGED <<world, jobs, stored, marks, pool, save, past, bounds>>

NextAccount == mon' = IF mon.left = {} THEN Idle
                      ELSE [Idle EXCEPT !.pc = "next", !.left = mon.left, !.mode = mon.mode]

\* The mailbox a new service opens: what token.json is for, or the account itself.
Opens(a) == IF conf.mode = "dwd" THEN Home[a] ELSE token

\* _sync: other services after a change of the mode or the credential file.
Synced == IF pool.fp = <<conf.mode, cred>> THEN pool
          ELSE [NoServices EXCEPT !.fp = <<conf.mode, cred>>]

\* Slip: a new service is used without the check of its mailbox.
GetServiceUnverified(a) ==
    /\ mon.pc = "next" /\ a \in mon.left
    /\ LET svc == Synced.svc[a]
           box == IF svc # None THEN svc ELSE Opens(a)
       IN  IF a \in conf.accounts /\ box # None
           THEN /\ pool' = [Synced EXCEPT !.svc[a] = box]
                /\ mon' = [mon EXCEPT !.pc = "key", !.left = @ \ {a}, !.acc = a]
           ELSE /\ pool' = [Synced EXCEPT !.svc[a] = None]
                /\ mon' = [mon EXCEPT !.left = @ \ {a}]
    /\ UNCHANGED <<world, jobs, stored, marks, save, past, bounds>>

\* ServicePool.get and verify_mailbox_identity: a service of the pool, or a new
\* one that opens the mailbox recorded for the account; where none is recorded
\* (trust on first use) it still has to be.
GetService(a) ==
    /\ mon.pc = "next" /\ a \in mon.left
    /\ LET svc == Synced.svc[a]
           box == IF svc # None THEN svc ELSE Opens(a)
           new == svc = None /\ ident[a] = "absent"
           ok  == a \in conf.accounts /\ box # None /\ (svc # None \/ ident[a] \in {"absent", box})
       IN  /\ pool' = [Synced EXCEPT !.svc[a] = IF ok /\ ~new THEN box ELSE None]
           /\ mon' = IF ok
                     THEN [mon EXCEPT !.pc = IF new THEN "record" ELSE "key", !.left = @ \ {a},
                                      !.acc = a, !.box = IF new THEN box ELSE None]
                     ELSE [mon EXCEPT !.left = @ \ {a}]
    /\ UNCHANGED <<world, jobs, stored, marks, save, past, bounds>>

RecordIdentity ==
    /\ mon.pc = "record"
    /\ ident' = [ident EXCEPT ![mon.acc] = mon.box]
    /\ pool' = [pool EXCEPT !.svc[mon.acc] = mon.box]
    /\ mon' = [mon EXCEPT !.pc = "key", !.box = None]
    /\ UNCHANGED <<world, jobs, conf, token, cred, marks, save, past, bounds>>

CycleEnds ==
    /\ mon.pc = "next" /\ mon.left = {}
    /\ mon' = Idle
    /\ UNCHANGED <<world, jobs, stored, marks, pool, save, past, bounds>>

\* scan_gmail: the clock and the one key of the scan; a scan without a key fails.
ReadKey ==
    /\ mon.pc = "key"
    /\ LET key == CursorKey(mon.acc, mon.mode)
       IN  IF key = None
           THEN NextAccount /\ pool' = [pool EXCEPT !.svc[mon.acc] = None]
           ELSE /\ mon' = [mon EXCEPT !.pc = IF mon.mode = "dwd" THEN "list" ELSE "legacy",
                                      !.key = key, !.started = now]
                /\ UNCHANGED pool
    /\ UNCHANGED <<world, jobs, stored, marks, save, past, bounds>>

\* The earlier of a waiting cursor and the mailbox's own wins.
Wins(at) == cursor[mon.key] = None \/ at < cursor[mon.key]

\* A cursor waits under one of two keys: it is compared, taken and dropped.
Compare(at, taking, without) ==
    mon' = IF at = None THEN [mon EXCEPT !.pc = without]
           ELSE [mon EXCEPT !.pc = taking, !.wins = Wins(at)]

\* From when on the mail is owed after a take-over: a cursor of another mailbox
\* owes this one nothing, a first scan what lies within lookback_days.
Owed(at, own) ==
    IF own THEN IF since[mon.key] = None THEN at - Overlap
                ELSE Earlier(since[mon.key], at - Overlap)
    ELSE IF since[mon.key] = None THEN mon.started - Lookback ELSE since[mon.key]

Disturbed(k, b) == astray' = IF b THEN astray \cup {k} ELSE astray

\* The waiting value is read again: dropped meanwhile, its text is no cursor.
Adopt(at, own) ==
    /\ cursor' = IF mon.wins THEN [cursor EXCEPT ![mon.key] = at] ELSE cursor
    /\ since' = IF at # None THEN [since EXCEPT ![mon.key] = Owed(at, own)]
                ELSE IF mon.wins THEN [since EXCEPT ![mon.key] = None] ELSE since
    /\ Disturbed(mon.key, \/ early /\ (at = None \/ mon.wins # Wins(at))
                          \/ (early \/ torn) /\ ~own)

LegacyAt == IF legacy = None THEN None ELSE legacy.at

CompareLegacy ==
    /\ mon.pc = "legacy"
    /\ Compare(LegacyAt, "legacy wins", "pending")
    /\ UNCHANGED <<world, jobs, stored, marks, pool, save, past, bounds>>

TakeLegacy ==
    /\ mon.pc = "legacy wins"
    /\ Adopt(LegacyAt, legacy # None => legacy.box = Home[mon.key])
    /\ mon' = [mon EXCEPT !.pc = "legacy taken", !.wins = FALSE]
    /\ UNCHANGED <<world, jobs, stored, legacy, pending, pool, save, early, torn, bounds>>

DropLegacy ==
    /\ mon.pc = "legacy taken"
    /\ legacy' = None
    /\ mon' = [mon EXCEPT !.pc = "pending"]
    /\ UNCHANGED <<world, jobs, stored, cursor, pending, since, pool, save, past, bounds>>

ComparePending ==
    /\ mon.pc = "pending"
    /\ Compare(pending[mon.acc], "pending wins", "list")
    /\ UNCHANGED <<world, jobs, stored, marks, pool, save, past, bounds>>

TakePending ==
    /\ mon.pc = "pending wins"
    /\ Adopt(pending[mon.acc], TRUE)
    /\ mon' = [mon EXCEPT !.pc = "pending taken", !.wins = FALSE]
    /\ UNCHANGED <<world, jobs, stored, legacy, pending, pool, save, early, torn, bounds>>

DropPending ==
    /\ mon.pc = "pending taken"
    /\ pending' = [pending EXCEPT ![mon.acc] = None]
    /\ mon' = [mon EXCEPT !.pc = "list"]
    /\ UNCHANGED <<world, jobs, stored, cursor, legacy, since, pool, save, past, bounds>>

\* The first scan looks lookback_days back, every later one to the cursor.
StartTime == IF cursor[mon.key] = None THEN mon.started - Lookback
             ELSE cursor[mon.key] - Overlap

ListMail ==
    /\ mon.pc = "list"
    /\ mon' = [mon EXCEPT !.pc = "enqueue", !.start = StartTime,
                          !.todo = Found(pool.svc[mon.acc], StartTime)]
    /\ UNCHANGED <<world, jobs, stored, marks, pool, save, past, bounds>>

EnqueueMessage(m) ==
    /\ mon.pc = "enqueue" /\ m \in mon.todo
    /\ jobs' = jobs \cup {<<mon.acc, m>>}
    /\ mon' = [mon EXCEPT !.todo = @ \ {m}]
    /\ UNCHANGED <<world, stored, marks, pool, save, past, bounds>>

\* Slip: the cursor goes to when the scan ended.
AdvanceCursorToNow ==
    /\ mon.pc = "enqueue" /\ mon.todo = {}
    /\ cursor' = [cursor EXCEPT ![mon.key] = now]
    /\ since' = [since EXCEPT ![mon.key] = IF @ = None THEN mon.start ELSE @]
    /\ Disturbed(mon.key, early /\ (pool.svc[mon.acc] # Home[mon.key] \/ mon.start # StartTime))
    /\ NextAccount
    /\ UNCHANGED <<world, jobs, stored, legacy, pending, pool, save, early, torn, bounds>>

\* Only after every page and every message: to when the scan began.
AdvanceCursor ==
    /\ mon.pc = "enqueue" /\ mon.todo = {}
    /\ cursor' = [cursor EXCEPT ![mon.key] = mon.started]
    /\ since' = [since EXCEPT ![mon.key] = IF @ = None THEN mon.start ELSE @]
    /\ Disturbed(mon.key, early /\ (pool.svc[mon.acc] # Home[mon.key] \/ mon.start # StartTime))
    /\ NextAccount
    /\ UNCHANGED <<world, jobs, stored, legacy, pending, pool, save, early, torn, bounds>>

\* A call raises: the account's service is dropped, the cycle goes on.
ScanFails ==
    /\ mon.pc \notin {"off", "idle", "next"}
    /\ Fault
    /\ pool' = [pool EXCEPT !.svc[mon.acc] = None]
    /\ NextAccount
    /\ UNCHANGED <<world, jobs, stored, marks, save, past, saves>>

GetServiceFails(a) ==
    /\ mon.pc = "next" /\ a \in mon.left
    /\ Fault
    /\ pool' = [Synced EXCEPT !.svc[a] = None]
    /\ mon' = [mon EXCEPT !.left = @ \ {a}]
    /\ UNCHANGED <<world, jobs, stored, marks, save, past, saves>>

-----------------------------------------------------------------------------
(* Save and rescan.                                                        *)

\* plan_identity_writes: a verified mailbox is recorded; an account added
\* without one is "untested", unless something is stored for it.
IdentityWrites(accounts, previous, verified) ==
    [a \in {x \in accounts : x \in DOMAIN verified
                             \/ (x \notin previous /\ ident[x] = "absent")}
        |-> IF a \in DOMAIN verified THEN verified[a] ELSE "untested"]

\* The accounts whose recorded mailbox a Save changes, except untested ones
\* that are now verified.
Rehomed(writes) ==
    {a \in DOMAIN writes : writes[a] # ident[a]
                           /\ ~(ident[a] = "untested" /\ writes[a] # "untested")}

Plan(mode, accounts, verified, login, file, start) ==
    LET changed  == mode # conf.mode
        previous == IF changed THEN {} ELSE conf.accounts
        writes   == IdentityWrites(accounts, previous, verified)
    IN  [op |-> "save", pc |-> "stop", mode |-> mode, accounts |-> accounts,
         token |-> login, cred |-> file, writes |-> writes,
         dropLegacy |-> changed \/ Rehomed(writes) # {},
         drops |-> Rehomed(writes) \cup IF changed THEN conf.accounts \cup accounts ELSE {},
         start |-> start, left |-> {}]

\* What the connection test may have staged: for OAuth the mailbox of a new
\* login, that of the installed token.json, or nothing; for DWD the mailboxes
\* of the accounts it reached.
Staged(mode, accounts) ==
    IF mode = "dwd"
    THEN {[login |-> None, verified |-> [a \in s |-> Home[a]]] : s \in SUBSET accounts}
    ELSE {[login |-> b, verified |-> [a \in accounts |-> b]] : b \in Mailboxes}
         \cup {[login |-> None, verified |-> [a \in accounts |-> token]] : x \in {token} \ {None}}
         \cup {[login |-> None, verified |-> <<>>]}

\* The first setup also asks from when on.
AskSave ==
    /\ save.op = "none" /\ saves < MaxSaves /\ saves' = saves + 1
    /\ \E mode \in Modes, accounts \in (SUBSET Addresses) \ {{}}, file \in Files :
          /\ mode = "oauth" => Cardinality(accounts) = 1
          /\ \E t \in Staged(mode, accounts),
                start \in IF conf.accounts = {} THEN 0..now ELSE {None} :
                save' = Plan(mode, accounts, t.verified, t.login, file, start)
    /\ UNCHANGED <<world, jobs, stored, marks, mon, pool, past, faults>>

AskRescan ==
    /\ save.op = "none" /\ saves < MaxSaves /\ saves' = saves + 1
    /\ conf.accounts # {}
    /\ \E start \in 0..now :
           save' = [NoSave EXCEPT !.op = "rescan", !.pc = "stop", !.mode = conf.mode,
                                  !.accounts = conf.accounts, !.start = start]
    /\ UNCHANGED <<world, jobs, stored, marks, mon, pool, past, faults>>

\* stop_all; nothing is written unless it succeeds.
StopForUpdate ==
    /\ save.pc = "stop"
    /\ mon' = Off /\ pool' = NoServices /\ early' = FALSE
    /\ save' = IF save.op = "save" THEN [save EXCEPT !.pc = "creds"]
               ELSE [save EXCEPT !.pc = "start", !.left = save.accounts]
    /\ UNCHANGED <<world, jobs, stored, marks, torn, astray, bounds>>

CommitCreds ==
    /\ save.pc = "creds"
    /\ cred' = save.cred
    /\ save' = [save EXCEPT !.pc = "token"]
    /\ UNCHANGED <<world, jobs, conf, token, ident, marks, mon, pool, past, bounds>>

CommitToken ==
    /\ save.pc = "token"
    /\ token' = IF save.token = None THEN token ELSE save.token
    /\ save' = [save EXCEPT !.pc = "legacy"]
    /\ UNCHANGED <<world, jobs, conf, cred, ident, marks, mon, pool, past, bounds>>

\* Slip: the cursor of the older version is left for the next mailbox.
CommitLegacyKept ==
    /\ save.pc = "legacy"
    /\ save' = [save EXCEPT !.pc = "drops", !.left = save.drops]
    /\ UNCHANGED <<world, jobs, stored, marks, mon, pool, past, bounds>>

CommitLegacy ==
    /\ save.pc = "legacy"
    /\ legacy' = IF save.dropLegacy THEN None ELSE legacy
    /\ save' = [save EXCEPT !.pc = "drops", !.left = save.drops]
    /\ UNCHANGED <<world, jobs, stored, cursor, pending, since, mon, pool, past, bounds>>

\* One write for each account: waiting starts, recorded mailboxes, cursors.
CommitDrop(a) ==
    /\ save.pc = "drops" /\ a \in save.left
    /\ pending' = [pending EXCEPT ![a] = None]
    /\ save' = [save EXCEPT !.left = @ \ {a}]
    /\ UNCHANGED <<world, jobs, stored, cursor, legacy, since, mon, pool, past, bounds>>

CommitIdent(a) ==
    /\ save.pc = "ident" /\ a \in save.left
    /\ ident' = [ident EXCEPT ![a] = save.writes[a]]
    /\ save' = [save EXCEPT !.left = @ \ {a}]
    /\ UNCHANGED <<world, jobs, conf, token, cred, marks, mon, pool, past, bounds>>

\* write_scan_start: to the cursor of the account's mailbox, or to wait for it.
SetStart(a, at) ==
    LET k == CursorKey(a, save.mode)
    IN  IF k # None
        THEN /\ cursor' = [cursor EXCEPT ![k] = at]
             /\ since' = [since EXCEPT ![k] = save.start]
             /\ astray' = astray \ {k}
             /\ UNCHANGED pending
        ELSE pending' = [pending EXCEPT ![a] = at] /\ UNCHANGED <<cursor, since, astray>>

\* Slip: the distance of a scan start's cursor is added twice.
CommitStartTwice(a) ==
    /\ save.pc = "start" /\ a \in save.left
    /\ SetStart(a, save.start + Overlap + Overlap)
    /\ save' = [save EXCEPT !.left = @ \ {a}]
    /\ UNCHANGED <<world, jobs, stored, legacy, mon, pool, early, torn, bounds>>

CommitStart(a) ==
    /\ save.pc = "start" /\ a \in save.left
    /\ SetStart(a, save.start + Overlap)
    /\ save' = [save EXCEPT !.left = @ \ {a}]
    /\ UNCHANGED <<world, jobs, stored, legacy, mon, pool, early, torn, bounds>>

\* A loop over the accounts is over.
CommitGoesOn ==
    /\ save.pc \in {"drops", "ident", "start"} /\ save.left = {}
    /\ save' = CASE save.pc = "drops" -> [save EXCEPT !.pc = "ident", !.left = DOMAIN save.writes]
                 [] save.pc = "ident" ->
                      [save EXCEPT !.pc = "start",
                                   !.left = IF save.start = None THEN {} ELSE save.accounts]
                 [] save.pc = "start" -> IF save.op = "save" THEN [save EXCEPT !.pc = "conf"]
                                                             ELSE NoSave
    /\ UNCHANGED <<world, jobs, stored, marks, mon, pool, past, bounds>>

CommitConf ==
    /\ save.pc = "conf"
    /\ conf' = [mode |-> save.mode, accounts |-> save.accounts]
    /\ save' = NoSave
    /\ UNCHANGED <<world, jobs, token, cred, ident, marks, mon, pool, past, bounds>>

\* The mailbox of token.json has changed, the cursors of the last one are there.
TokenAhead == save.pc = "legacy" /\ save.token # None /\ save.dropLegacy

\* A write fails, the stop fails or the tray dies: the rest is not written.
CommitFails ==
    /\ save.op # "none"
    /\ Fault
    /\ save' = NoSave
    /\ torn' = (torn \/ TokenAhead)
    /\ UNCHANGED <<world, jobs, stored, marks, mon, pool, early, astray, saves>>

-----------------------------------------------------------------------------
Gmail == Tick \/ \E m \in Messages : Arrive(m) \/ Index(m)

Scanner ==
    \/ MonitorStarts \/ CycleBegins \/ CycleEnds \/ RecordIdentity \/ ReadKey
    \/ CompareLegacy \/ TakeLegacy \/ DropLegacy
    \/ ComparePending \/ TakePending \/ DropPending
    \/ ListMail \/ AdvanceCursor
    \/ \E a \in Addresses : GetService(a)
    \/ \E m \in Messages : EnqueueMessage(m)

ScannerFaults == MonitorStartsEarly \/ MonitorDies \/ ScanFails \/ \E a \in Addresses : GetServiceFails(a)

Commit ==
    \/ StopForUpdate \/ CommitCreds \/ CommitToken \/ CommitLegacy
    \/ \E a \in Addresses : CommitDrop(a) \/ CommitIdent(a) \/ CommitStart(a)
    \/ CommitGoesOn \/ CommitConf

Next == Gmail \/ Scanner \/ ScannerFaults \/ AskSave \/ AskRescan \/ Commit \/ CommitFails

Spec == Init /\ [][Next]_vars

\* Gmail's index catches up, the supervisor starts the monitor again
\* (Supervision), its loop goes on, and a Save runs to its end.
Fairness == WF_vars(Scanner) /\ WF_vars(Commit) /\ \A m \in Messages : WF_vars(Index(m))

FairSpec == Spec /\ Fairness
-----------------------------------------------------------------------------
(* Correctness.                                                            *)

Times    == 0 - Lookback - Overlap .. MaxNow + Overlap
Maybe(S) == S \cup {None}

\* Types; in particular no cursor lies further ahead than a scan start's
\* distance, and every cursor has mail it owes.
TypeOK ==
    /\ now \in 0..MaxNow
    /\ mail \in [Messages -> Maybe([box: Mailboxes, at: 0 - Lookback .. MaxNow])]
    /\ indexed \subseteq {m \in Messages : mail[m] # None}
    /\ jobs \subseteq Addresses \X {m \in Messages : mail[m] # None}
    /\ conf \in [mode: Modes, accounts: SUBSET Addresses]
    /\ token \in Maybe(Mailboxes) /\ cred \in Files
    /\ ident \in [Addresses -> Mailboxes \cup {"absent", "untested"}]
    /\ cursor \in [Addresses -> Maybe(Times)] /\ pending \in [Addresses -> Maybe(Times)]
    /\ since \in [Addresses -> Maybe(Times)]
    /\ legacy \in Maybe([at: Times, box: Mailboxes])
    /\ \A k \in Addresses : cursor[k] # None <=> since[k] # None
    /\ mon \in [pc: {"off", "idle", "next", "record", "key", "legacy", "legacy wins",
                     "legacy taken", "pending", "pending wins", "pending taken", "list",
                     "enqueue"},
                left: SUBSET Addresses, mode: Modes, acc: Maybe(Addresses),
                box: Maybe(Mailboxes), key: Maybe(Addresses), started: 0..MaxNow,
                wins: BOOLEAN, start: Times, todo: SUBSET indexed]
    /\ pool.svc \in [Addresses -> Maybe(Mailboxes)]
    /\ save.pc \in {"none", "stop"} \cup Committing /\ save.op \in {"none", "save", "rescan"}
    /\ early \in BOOLEAN /\ torn \in BOOLEAN /\ astray \subseteq Addresses
    /\ faults \in 0..MaxFaults /\ saves \in 0..MaxSaves

Queued(m) == \E a \in Addresses : <<a, m>> \in jobs

\* No mail is skipped: of what a cursor owes its mailbox (from the first scan's
\* bound or the user's scan start on), all that lies more than the overlap
\* before it is in the job table, whatever was killed, failed, taken over or
\* saved meanwhile, and however long the monitor was down.  The code has two
\* gaps, and the cursors they put wrong are set apart until they are set anew:
\* a monitor that a watchdog run started during a commit lists one mailbox and
\* moves another's cursor, or moves one that the Save has just set; and a Save
\* that ends between token.json and MAIL_CURSOR_KEY hands that to the new login.
NoMailSkipped ==
    \A k \in Addresses \ astray, m \in Messages :
        cursor[k] # None /\ mail[m] # None
        => (mail[m].box = Home[k] /\ since[k] <= mail[m].at
              /\ mail[m].at < cursor[k] - Overlap => Queued(m))

\* A scan queues only mail of the mailbox recorded for its account, and moves
\* only that mailbox's cursor: no login, Save or half-done Save lets one
\* mailbox's mail into another account's folder.  Only a monitor started during
\* a commit may: it keeps the service it opened with the login of before, and
\* a Save of another login that does not stop it leaves it that service.
RightMailbox ==
    [][ \/ early
        \/ /\ \A j \in jobs' \ jobs : mail[j[2]].box = ident[j[1]]
           /\ mon.pc = "enqueue" /\ cursor' # cursor => pool.svc[mon.acc] = Home[mon.key]
      ]_vars

\* Mail under a cursor is queued in the end, as long as its mailbox is the one
\* its account is set up, logged in and recorded for, and nothing has put that
\* cursor wrong (NoMailSkipped).
Fetching(m) ==
    \E a \in conf.accounts :
        LET k == CursorKey(a, conf.mode) IN
        /\ mail[m] # None /\ mail[m].box = Opens(a) /\ ident[a] = Opens(a)
        /\ k \notin astray /\ cursor[k] # None /\ since[k] <= mail[m].at

EveryMailQueued == \A m \in Messages : Fetching(m) ~> Queued(m) \/ ~Fetching(m)
=============================================================================
