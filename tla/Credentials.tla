---------------------------- MODULE Credentials -----------------------------
(***************************************************************************)
(* The settings dialogs of the tray (gmail_app.py: SettingsDialog; the     *)
(* menu opens another one without closing the first), their connection     *)
(* tests, each on a thread of its own and on a snapshot of the values then *)
(* typed, and what Save commits of a test's result: the client file, the   *)
(* token and the mailbox identity.  The monitor's threads go on with       *)
(* token.json (TokenFile) until the Save has stopped them.                 *)
(***************************************************************************)
EXTENDS TokenFile

CONSTANTS
    Dialogs,    \* settings dialogs at a time
    Addresses,  \* addresses a user may type
    Lists,      \* lists of DWD accounts the user may put together
    Home,       \* address -> the mailbox a DWD service opens for it
    Installed,  \* the path of the installed client JSON, which a dialog shows first
    Clients,    \* other client JSON files
    Client0,    \* what is installed at first
    Keys,       \* service-account files, by path
    Running     \* the result of a test that is not over

VARIABLES
    client,  \* the client file whose copy is credentials.json
    ident,   \* address -> its recorded mailbox, "untested" or "absent"
    conf,    \* config.ini: mode, OAuth address, DWD accounts
    dlg,     \* dialog -> the values typed, the result staged, the test running
    save,    \* the Save in progress, which blocks the tray's main thread
    logins,  \* browser logins so far
    void,    \* logins no Save may install any more (history)
    raced    \* was a monitor started in a Save before its login was installed? (history)

dialogVars == <<client, ident, conf, dlg, save, logins, void, raced>>
vars == <<tokenVars, dialogVars>>

NoSave  == [pc |-> "none"]
Paths   == Clients \cup {Installed}
Inputs  == [mode: {"oauth", "dwd"}, email: Addresses, client: Paths, key: Keys,
            accounts: Lists]
\* What a test stages: whom it logged in as or reached, or the login it has seen
\* in token.json.
Stages == [mode: {"oauth", "dwd"}, client: Paths \cup {None}, email: Addresses \cup {None},
           key: Keys \cup {None}, login: Logins \cup {None},
           ids: UNION {[s -> Mailboxes] : s \in SUBSET Addresses},
           seen: Logins \cup {None}]
Closed  == [open |-> FALSE, in |-> None, staged |-> None, test |-> None]

ASSUME CredentialsAssumption ==
    /\ Home \in [Addresses -> Mailboxes] /\ Lists \subseteq SUBSET Addresses /\ {} \in Lists
    /\ Client0 \notin Clients /\ Installed \notin Clients
    /\ {"untested", "absent"} \cap Mailboxes = {}
    /\ Running # None /\ {None, Running} \cap Stages = {}

\* The accounts of config.ini or of a dialog.
Accounts(c) == IF c.mode = "dwd" THEN c.accounts ELSE {c.email}

Init ==
    /\ TokenInit
    /\ client = Client0
    /\ \E a \in Addresses :
          /\ conf = [mode |-> "oauth", email |-> a, accounts |-> {}]
          /\ \E r \in {"untested", installed.box} :
                ident = [b \in Addresses |-> IF b = a THEN r ELSE "absent"]
    /\ dlg = [d \in Dialogs |-> Closed]
    /\ save = NoSave /\ logins = 0 /\ void = {} /\ raced = FALSE

-----------------------------------------------------------------------------
(* The dialogs, on the tray's main thread.                                 *)

\* Slip: the address is left out of the comparison.
MatchesClient(staged, in) ==
    /\ staged # None
    /\ IF staged.mode = "dwd" THEN staged.key = in.key
       ELSE staged.client = in.client

\* stage_matches: by client and address, or by service-account file.
Matches(staged, in) ==
    /\ staged # None
    /\ IF staged.mode = "dwd" THEN staged.key = in.key
       ELSE staged.client = in.client /\ staged.email = in.email

\* The login a stage brings, if it is another one than `kept` keeps.
Dropped(staged, kept) ==
    IF staged = None \/ staged.login = None
       \/ (kept # None /\ kept.login = staged.login)
    THEN {} ELSE {staged.login}

\* What the user's inputs still vouch for, whatever the code compares.
Vouched(staged, in) ==
    IF staged # None /\ staged.mode = "oauth"
       /\ (staged.client # in.client \/ staged.email # in.email)
    THEN None ELSE staged

OpenDialog(d) ==
    /\ save = NoSave /\ dlg[d] = Closed
    /\ \E k \in Keys :
          dlg' = [dlg EXCEPT ![d] = [Closed EXCEPT !.open = TRUE,
                    !.in = [mode |-> conf.mode, email |-> conf.email, client |-> Installed,
                            key |-> k, accounts |-> conf.accounts]]]
    /\ UNCHANGED <<tokenVars, client, ident, conf, save, logins, void, raced>>

\* One value is typed or picked, also while a test runs; _discard_stale_stage.
TypeIn(d, in) ==
    /\ save = NoSave /\ dlg[d].open
    /\ Op
    /\ in # dlg[d].in /\ \E f \in DOMAIN in : in = [dlg[d].in EXCEPT ![f] = in[f]]
    /\ dlg' = [dlg EXCEPT ![d].in = in,
                          ![d].staged = IF Matches(@, in) THEN @ ELSE None]
    /\ void' = void \cup Dropped(dlg[d].staged, Vouched(dlg[d].staged, in))
    /\ UNCHANGED <<files, client, ident, conf, save, logins, raced>>

\* A dialog is closed without Save; its test's thread runs on.
Cancel(d) ==
    /\ save = NoSave /\ dlg[d].open
    /\ dlg' = [dlg EXCEPT ![d] = [Closed EXCEPT !.test = dlg[d].test]]
    /\ void' = void \cup Dropped(dlg[d].staged, None)
    /\ UNCHANGED <<tokenVars, client, ident, conf, save, logins, raced>>

-----------------------------------------------------------------------------
(* The connection test.                                                    *)

Valid(in) == in.mode = "dwd" => in.accounts # {}

\* The stage as long as it is of the typed values and the chosen mode.
Usable(d) == IF Matches(dlg[d].staged, dlg[d].in) /\ dlg[d].staged.mode = dlg[d].in.mode
             THEN dlg[d].staged ELSE None
LoginOf(staged) == IF staged = None THEN None ELSE staged.login

\* _test_snapshot; no second test and no Save of this dialog until it is over.
StartTest(d, force) ==
    /\ save = NoSave /\ dlg[d].open /\ dlg[d].test = None
    /\ Valid(dlg[d].in)
    /\ Op
    /\ dlg' = [dlg EXCEPT ![d].test = [snap |-> dlg[d].in, force |-> force,
                 login |-> LoginOf(Usable(d)), result |-> Running]]
    /\ UNCHANGED <<files, client, ident, conf, save, logins, void, raced>>

\* is_installed_oauth_client: the same path or the same bytes.
IsInstalled(path) == path = Installed \/ path = client

OAuthStage(snap, login, seen) ==
    [mode |-> "oauth", client |-> snap.client, email |-> snap.email, key |-> None,
     login |-> login, seen |-> seen,
     ids |-> [a \in {snap.email} |-> IF login = None THEN seen.box ELSE login.box]]

\* root.after(0, ...): all that is left of the test.
Result(d, staged) ==
    dlg' = [dlg EXCEPT ![d].test = [snap |-> None, force |-> FALSE, login |-> None,
                                    result |-> staged]]

\* oauth_connection_test: an earlier login of the dialog, else the installed
\* token.json, read only, else a browser login.
ReuseLogin(d) ==
    LET t == dlg[d].test IN
    /\ ~t.force /\ t.login # None
    /\ Result(d, OAuthStage(t.snap, t.login, None))
    /\ UNCHANGED logins

ReadInstalled(d) ==
    LET t == dlg[d].test IN
    /\ ~t.force /\ IsInstalled(t.snap.client) /\ Readable(token)
    /\ Result(d, OAuthStage(t.snap, None, token))
    /\ UNCHANGED logins

LoginInBrowser(d) ==
    LET t == dlg[d].test IN
    /\ logins < MaxLogins /\ logins' = logins + 1
    /\ \E b \in Mailboxes :
          Result(d, OAuthStage(t.snap, [n |-> logins + 1, box |-> b], None))

\* dwd_connection_test: the accounts that could be reached.
TestAccounts(d) ==
    LET t == dlg[d].test IN
    /\ \E s \in SUBSET t.snap.accounts \ {{}} :
          Result(d, [mode |-> "dwd", client |-> None, email |-> None, key |-> t.snap.key,
                     login |-> None, ids |-> [a \in s |-> Home[a]], seen |-> None])
    /\ UNCHANGED logins

\* The test's thread: also while a Save holds the main thread.
RunTest(d) ==
    /\ dlg[d].test # None /\ dlg[d].test.result = Running
    /\ \/ Result(d, None) /\ UNCHANGED logins
       \/ dlg[d].test.snap.mode = "oauth" /\ (ReuseLogin(d) \/ ReadInstalled(d) \/ LoginInBrowser(d))
       \/ dlg[d].test.snap.mode = "dwd" /\ TestAccounts(d)
    /\ UNCHANGED <<tokenVars, client, ident, conf, save, void, raced>>

\* A login that is not staged any more, or never was, is void; one that a test of
\* the values typed now has brought again, while it ran on, is not.
FinishWith(d, kept) ==
    LET found == dlg[d].test.result
        shown == IF dlg[d].open THEN Vouched(found, dlg[d].in) ELSE None
    IN  /\ save = NoSave /\ dlg[d].test # None /\ found # Running
        /\ dlg' = [dlg EXCEPT ![d].staged = kept, ![d].test = None]
        /\ void' = (void \cup Dropped(found, shown) \cup Dropped(dlg[d].staged, found))
                       \ Dropped(shown, None)
        /\ UNCHANGED <<tokenVars, client, ident, conf, save, logins, raced>>

Fits(d) == dlg[d].open /\ Matches(dlg[d].test.result, dlg[d].in)

\* Slip: a failed test leaves the stage of the one before.
FinishTestKeeping(d) ==
    dlg[d].test # None /\ FinishWith(d, IF Fits(d) THEN dlg[d].test.result ELSE dlg[d].staged)

\* _finish_test, back on the main thread: a closed dialog drops the result; one
\* whose values changed meanwhile, too; a result replaces the earlier one.
FinishTest(d) ==
    dlg[d].test # None /\ FinishWith(d, IF Fits(d) THEN dlg[d].test.result ELSE None)

-----------------------------------------------------------------------------
(* Save.                                                                   *)

\* plan_identity_writes: verified mailboxes; a new account without one is
\* "untested", unless something is stored for it; a change of the mode makes
\* every account a new one.
IdentityWrites(in, ids) ==
    LET previous == IF in.mode # conf.mode THEN {} ELSE Accounts(conf)
        verified == Accounts(in) \cap DOMAIN ids
        fresh    == {a \in Accounts(in) \ verified : a \notin previous /\ ident[a] = "absent"}
    IN  [a \in verified \cup fresh |-> IF a \in verified THEN ids[a] ELSE "untested"]

PlanWith(d, login) ==
    LET staged == Usable(d) IN
    [pc |-> "stop", dialog |-> d, in |-> dlg[d].in, login |-> login,
     writes |-> IdentityWrites(dlg[d].in, IF staged = None THEN <<>> ELSE staged.ids),
     seen   |-> IF staged = None THEN None ELSE staged.seen,
     early  |-> FALSE]

\* Slip: a token that is there is left alone.
PlanKeepingToken(d) == PlanWith(d, IF Readable(token) THEN None ELSE LoginOf(Usable(d)))

\* _save_plan: the login and the mailboxes of one and the same result.
Plan(d) == PlanWith(d, LoginOf(Usable(d)))

\* Save, confirmed where a recorded mailbox is not the typed address.
AskSave(d) ==
    /\ save = NoSave /\ dlg[d].open /\ dlg[d].test = None
    /\ Valid(dlg[d].in)
    /\ Op
    /\ save' = Plan(d)
    /\ UNCHANGED <<files, client, ident, conf, dlg, logins, void, raced>>

\* stop_all: the monitor's processes are gone, whatever they were at.
StopForSave ==
    /\ save.pc = "stop"
    /\ running' = FALSE /\ MonitorGone
    /\ save' = [save EXCEPT !.pc = "client"]
    /\ UNCHANGED <<token, temp, history, ops, faults>>
    /\ UNCHANGED <<client, ident, conf, dlg, logins, void, raced>>

\* copy_credentials; the installed path itself is not copied.
CommitClient ==
    /\ save.pc = "client"
    /\ client' = IF save.in.mode = "dwd" \/ save.in.client = Installed THEN client
                 ELSE save.in.client
    /\ save' = [save EXCEPT !.pc = "token"]
    /\ UNCHANGED <<tokenVars, ident, conf, dlg, logins, void, raced>>

\* install_oauth_token: _save_token with the staged login,
CommitToken ==
    /\ save.pc = "token"
    /\ IF save.login = None
       THEN save' = [save EXCEPT !.pc = "ident"] /\ UNCHANGED th
       ELSE /\ save' = [save EXCEPT !.pc = "writing"]
            /\ \E l \in BOOLEAN :
                 th' = [th EXCEPT ![Tray] = [pc |-> "refreshed", creds |-> [login |-> save.login, long |-> l]]]
    /\ UNCHANGED <<token, temp, running, history, ops, faults>>
    /\ UNCHANGED <<client, ident, conf, dlg, logins, void, raced>>

WriteToken == (OpenTemp(Tray) \/ WriteTemp(Tray) \/ CloseTemp(Tray)) /\ UNCHANGED dialogVars

\* Slip: os.rename, which replaces nothing, and its failure goes unnoticed.
InstallTokenBeside ==
    /\ AtStep(Tray, "closed")
    /\ Return(Tray)
    /\ IF Movable /\ token = None THEN Replace ELSE UNCHANGED <<token, temp>>
    /\ installed' = save.login /\ raced' = save.early
    /\ save' = [save EXCEPT !.pc = "ident"]
    /\ UNCHANGED <<running, clash, ops, faults>>
    /\ UNCHANGED <<client, ident, conf, dlg, logins, void>>

\* which is installed with the move; if that fails, so does the Save.
InstallToken ==
    /\ AtStep(Tray, "closed")
    /\ Return(Tray)
    /\ IF Movable
       THEN /\ Replace
            /\ installed' = save.login /\ raced' = save.early
            /\ save' = [save EXCEPT !.pc = "ident"]
       ELSE save' = NoSave /\ UNCHANGED <<token, temp, installed, raced>>
    /\ UNCHANGED <<running, clash, ops, faults>>
    /\ UNCHANGED <<client, ident, conf, dlg, logins, void>>

CommitIdent ==
    /\ save.pc = "ident"
    /\ ident' = [a \in Addresses |-> IF a \in DOMAIN save.writes THEN save.writes[a] ELSE ident[a]]
    /\ save' = [save EXCEPT !.pc = "conf"]
    /\ UNCHANGED <<tokenVars, client, conf, dlg, logins, void, raced>>

\* config.ini last; then the dialog closes.
CommitConf ==
    /\ save.pc = "conf"
    /\ conf' = IF save.in.mode = "dwd"
               THEN [conf EXCEPT !.mode = "dwd", !.accounts = save.in.accounts]
               ELSE [mode |-> "oauth", email |-> save.in.email, accounts |-> save.in.accounts]
    /\ dlg' = [dlg EXCEPT ![save.dialog] = Closed]
    /\ save' = NoSave
    /\ UNCHANGED <<tokenVars, client, ident, logins, void, raced>>

\* The stop or a write fails: the dialog stays open and keeps its stage.
CommitFails ==
    /\ save # NoSave
    /\ Fault
    /\ save' = NoSave /\ Return(Tray)
    /\ UNCHANGED <<token, temp, running, history, ops>>
    /\ UNCHANGED <<client, ident, conf, dlg, logins, void, raced>>

TrayDies ==
    /\ \E d \in Dialogs : dlg[d] # Closed
    /\ Fault
    /\ save' = NoSave /\ Return(Tray) /\ dlg' = [d \in Dialogs |-> Closed]
    /\ UNCHANGED <<token, temp, running, history, ops>>
    /\ UNCHANGED <<client, ident, conf, logins, void, raced>>

-----------------------------------------------------------------------------
\* A Save commits, and its login is not installed yet.
LoginAhead == save.pc \in {"client", "token", "writing"} /\ save.login # None

MonitorStarts ==
    /\ ~running /\ ~LoginAhead
    /\ running' = TRUE
    /\ UNCHANGED <<token, temp, th, history, ops, faults, dialogVars>>

\* A watchdog run that missed the settings-update marker starts the monitor in
\* the commit; the Save does not stop it again.
MonitorStartsEarly ==
    /\ ~running /\ LoginAhead
    /\ Fault
    /\ running' = TRUE
    /\ save' = [save EXCEPT !.early = TRUE] /\ raced' = TRUE
    /\ UNCHANGED <<token, temp, th, history, ops>>
    /\ UNCHANGED <<client, ident, conf, dlg, logins, void>>

\* Its threads open Gmail by token.json in OAuth mode only.
Monitor ==
    \/ MonitorStarts \/ MonitorStartsEarly
    \/ MonitorEnds /\ UNCHANGED dialogVars
    \/ \E t \in Threads :
          /\ AtStep(t, "resting") => conf.mode = "oauth"
          /\ MonitorThread(t) /\ UNCHANGED dialogVars

TrayStep ==
    \/ \E d \in Dialogs :
          \/ OpenDialog(d) \/ Cancel(d) \/ FinishTest(d) \/ AskSave(d)
          \/ \E in \in Inputs : TypeIn(d, in)
          \/ \E force \in BOOLEAN : StartTest(d, force)
    \/ StopForSave \/ CommitClient \/ CommitToken \/ WriteToken \/ InstallToken \/ CommitIdent
    \/ CommitConf
    \/ CommitFails \/ TrayDies

Next == Monitor \/ TrayStep \/ \E d \in Dialogs : RunTest(d)

Spec == Init /\ [][Next]_vars
-----------------------------------------------------------------------------
(* Correctness.                                                            *)

\* Types; in particular a dialog never holds a result that is not of its
\* values, and no text half written or mixed is token.json but for a clash.
TypeOK ==
    /\ token \in Logins \cup {None} \cup (IF clash THEN Invalid ELSE {})
    /\ temp \in Creds \cup {None} \cup Invalid
    /\ th \in [Writers -> [pc: {"resting", "unreadable", "refreshed", "opened", "written", "closed"},
                           creds: Creds \cup {None}]]
    /\ installed \in Logins /\ client \in Clients \cup {Client0}
    /\ ident \in [Addresses -> Mailboxes \cup {"absent", "untested"}]
    /\ conf \in [mode: {"oauth", "dwd"}, email: Addresses, accounts: Lists]
    /\ \A d \in Dialogs :
          /\ dlg[d].open => dlg[d].in \in Inputs
          /\ dlg[d].staged # None => dlg[d].open /\ dlg[d].staged \in Stages
                                         /\ Matches(dlg[d].staged, dlg[d].in)
    /\ save.pc \in {"none", "stop", "client", "token", "writing", "ident", "conf"}

\* A token.json that can be read stays one that can be read, through every
\* kill, failing write or move, refresh and Save, but in two ways: two writes
\* have overlapped (_save_token takes no lock), or a thread whose own reading
\* failed moves away what is there by then (_backup_bad_token).
TokenKept ==
    [][Readable(token) => \/ Readable(token') \/ clash'
                          \/ \E t \in Threads : BackupBadToken(t)]_vars

\* The login that was installed last stays: no thread of the monitor writes
\* the refreshed credentials of an earlier one over it.  Only one of a monitor
\* that was started while a Save committed, before its login was installed, may.
LoginStays == Readable(token) => token = installed \/ raced

\* "Save commits only what the latest test showed" (_finish_test): a login is
\* never installed once its dialog was cancelled, another test took its place
\* or the address or client it was tested for was changed, unless a later test
\* of the values then typed brought the same login again.
NothingVoid == [][installed' # installed => installed' \notin void]_vars

\* The mailbox recorded for an OAuth account is the one the login opens that is
\* installed then, unless the test read another one in token.json: another
\* dialog's Save came in between, or the one it read was out of place (LoginStays).
RecordedIsInstalled ==
    [][\A a \in Addresses :
          ident'[a] # ident[a] /\ ident'[a] \in Mailboxes /\ save.in.mode = "oauth"
          => save.seen \notin {None, installed} \/ ident'[a] = installed.box]_vars
=============================================================================
