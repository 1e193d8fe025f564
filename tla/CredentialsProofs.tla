-------------------------- MODULE CredentialsProofs --------------------------
(***************************************************************************)
(* Credentials for any number of threads, dialogs, addresses and logins,   *)
(* and any bounds on what the user does and what fails: types, the token   *)
(* and what a Save installs and records.                                   *)
(***************************************************************************)
EXTENDS Credentials, TLAPS

Steps == [pc: {"resting", "unreadable", "refreshed", "opened", "written", "closed"},
          creds: Creds \cup {None}]
Tests == [snap: Inputs \cup {None}, force: BOOLEAN, login: Logins \cup {None},
          result: Stages \cup {None, Running}]
Dlgs  == [open: BOOLEAN, in: Inputs \cup {None}, staged: Stages \cup {None},
          test: Tests \cup {None}]

\* A thread has credentials in hand from the refresh on; a write goes on from the
\* opening to the move.
Bearing(t) == th[t].pc \in {"refreshed", "opened", "written", "closed"}
Filled(t)  == th[t].pc \in {"written", "closed"}
Busy       == {t \in Writers : th[t].pc \in {"opened", "written", "closed"}}

FilesOK ==
    /\ token \in Logins \cup {None} \cup (IF clash THEN Invalid ELSE {})
    /\ temp \in Creds \cup {None} \cup Invalid
    /\ th \in [Writers -> Steps]
    /\ \A t \in Writers : Bearing(t) => th[t].creds \in Creds
    /\ installed \in Logins
    /\ running \in BOOLEAN /\ clash \in BOOLEAN /\ raced \in BOOLEAN

\* The tray writes token.json in a Save only, and but for an early start with no
\* monitor beside it.
TrayOK ==
    /\ ~AtStep(Tray, "resting") => save.pc = "writing"
    /\ save.pc = "writing" => /\ save.login # None
                              /\ Bearing(Tray) /\ th[Tray].creds.login = save.login
    /\ LoginAhead => IF save.early THEN raced ELSE ~running
    /\ save.pc = "writing" /\ ~save.early =>
          /\ AtStep(Tray, "opened") => temp = Empty
          /\ Filled(Tray) => temp \in Creds /\ temp.login = save.login

\* But for an early start, whatever the monitor has in hand or in the temporary
\* file is of the login installed last.
LoginOK ==
    /\ LoginStays
    /\ ~running => \A t \in Threads : th[t] = Resting
    /\ ~raced => \A t \in Threads :
          /\ Bearing(t) => th[t].creds.login = installed
          /\ Filled(t) /\ temp \in Creds => temp.login = installed

\* The temporary file: what its text is, as long as no two writes overlap.
WriterOK ==
    ~clash => /\ \A t, u \in Busy : t = u
              /\ \A t \in Writers : /\ AtStep(t, "opened") => temp = Empty
                                    /\ Filled(t) => temp \in Creds

\* The mailbox a test found for an address is that of its login, or else of the
\* login it has seen in token.json.
BoxOf(login, seen) == IF login = None THEN seen.box ELSE login.box

Found(staged) == staged.mode = "oauth" =>
    /\ staged.login = None => staged.seen \in Logins
    /\ \A a \in DOMAIN staged.ids : staged.ids[a] = BoxOf(staged.login, staged.seen)

DialogOK(d) ==
    /\ dlg[d].open => dlg[d].in \in Inputs
    /\ dlg[d].staged # None => dlg[d].open /\ Matches(dlg[d].staged, dlg[d].in) /\ Found(dlg[d].staged)
    /\ dlg[d].test # None /\ dlg[d].test.result = Running => dlg[d].test.snap \in Inputs
    /\ dlg[d].test # None /\ dlg[d].test.result \in Stages => Found(dlg[d].test.result)

DialogsOK ==
    /\ dlg \in [Dialogs -> Dlgs] /\ \A d \in Dialogs : DialogOK(d)
    /\ client \in Clients \cup {Client0}
    /\ ident \in [Addresses -> Mailboxes \cup {"absent", "untested"}]
    /\ conf \in [mode: {"oauth", "dwd"}, email: Addresses, accounts: Lists]

\* What a Save writes belongs together.
Saves == [pc: {"stop", "client", "token", "writing", "ident", "conf"}, dialog: Dialogs, in: Inputs,
          login: Logins \cup {None}, seen: Logins \cup {None}, early: BOOLEAN,
          writes: UNION {[s -> Mailboxes \cup {"untested"}] : s \in SUBSET Addresses}]

\* The mailboxes it records are those of its login, or of the one seen.
Agree(s) == s.in.mode = "oauth" =>
    \A a \in DOMAIN s.writes : s.writes[a] \in Mailboxes =>
        /\ s.login = None => s.seen \in Logins
        /\ s.writes[a] = BoxOf(s.login, s.seen)

SaveOK ==
    save # NoSave =>
       /\ save \in Saves /\ Agree(save)
       /\ save.pc = "stop" => ~save.early
       /\ save.pc \in {"ident", "conf"} /\ save.login # None => installed = save.login

\* The logins a dialog has in hand: staged, given to its test, found by it.
Has(d, l) ==
    \/ dlg[d].staged # None /\ dlg[d].staged.login = l
    \/ dlg[d].test # None /\ dlg[d].test.login = l
    \/ dlg[d].test # None /\ dlg[d].test.result \in Stages /\ dlg[d].test.result.login = l

\* No login is in the hands of two dialogs, and none is void that is staged or
\* about to be installed.
VoidOK ==
    /\ logins \in 0..MaxLogins
    /\ \A l \in void : l \in Logins /\ l.n <= logins
    /\ \A d \in Dialogs, l \in Logins : Has(d, l) => l.n <= logins
    /\ \A d, e \in Dialogs, l \in Logins : Has(d, l) /\ Has(e, l) => d = e
    /\ \A d \in Dialogs : dlg[d].staged # None => dlg[d].staged.login \notin void
    /\ save # NoSave => save.login \notin void

CredInv == FilesOK /\ TrayOK /\ LoginOK /\ WriterOK /\ DialogsOK /\ SaveOK /\ VoidOK

-----------------------------------------------------------------------------
(* Facts about the data.                                                   *)

LEMMA Special ==
    /\ None \notin Logins /\ Empty \notin Logins /\ Mixed \notin Logins
    /\ None \notin Creds /\ Empty \notin Creds /\ Mixed \notin Creds
    /\ None # Empty /\ None # Mixed /\ Empty # Mixed
  BY TokenAssumption DEF TokenAssumption, Invalid

LEMMA Records ==
    /\ Resting \in Steps /\ Resting.pc = "resting"
    /\ NoSave.pc = "none"
    /\ Closed \in Dlgs /\ Closed.open = FALSE /\ Closed.staged = None /\ Closed.test = None
    /\ Running \notin Stages /\ None \notin Stages /\ Running # None
  BY CredentialsAssumption DEF Resting, Steps, NoSave, Closed, Dlgs, CredentialsAssumption

LEMMA TheWriters ==
    /\ Tray \in Writers /\ Tray \notin Threads
    /\ \A t \in Threads : t \in Writers /\ t # Tray
  BY TokenAssumption DEF TokenAssumption, Writers

\* A thread goes on with what it has in hand, or is done.
LEMMA Goes ==
    ASSUME th \in [Writers -> Steps], NEW t \in Writers,
           NEW s \in {"unreadable", "refreshed", "opened", "written", "closed"}, GoOn(t, s)
    PROVE  /\ th' \in [Writers -> Steps]
           /\ th'[t].pc = s /\ th'[t].creds = th[t].creds
           /\ \A u \in Writers \ {t} : th'[u] = th[u]
  BY DEF GoOn, Steps

LEMMA Returns ==
    ASSUME th \in [Writers -> Steps], NEW t \in Writers, Return(t)
    PROVE  /\ th' \in [Writers -> Steps]
           /\ th'[t] = Resting
           /\ \A u \in Writers \ {t} : th'[u] = th[u]
  BY Records DEF Return

LEMMA Texts ==
    /\ \A c \in Creds : Parsed(c) = c.login /\ c.login \in Logins
    /\ Parsed(Mixed) = Mixed /\ Parsed(Empty) = Empty
    /\ \A old, new : Over(old, new) \in {Mixed, new}
    /\ \A new : Over(Empty, new) = new
  BY Special DEF Parsed, Over, Creds

\* The monitor is gone, and the tray is where it was.
LEMMA AllRest ==
    ASSUME th \in [Writers -> Steps], MonitorGone
    PROVE  /\ th' \in [Writers -> Steps]
           /\ \A t \in Threads : th'[t] = Resting
           /\ th'[Tray] = th[Tray]
  BY Records, TheWriters DEF MonitorGone

-----------------------------------------------------------------------------
(* The steps, by what they do to the files.                                *)

fileVars == <<token, temp, th, running, installed, clash, raced>>

Quiet ==
    /\ UNCHANGED fileVars
    /\ \/ UNCHANGED save
       \/ /\ save.pc # "writing" /\ save'.pc # "writing"
          /\ LoginAhead' => LoginAhead /\ save'.early = save.early

GivesUp == /\ Return(Tray) /\ save' = NoSave
           /\ UNCHANGED <<token, temp, running, installed, clash, raced>>

WriteStep(t) == OpenTemp(t) \/ WriteTemp(t) \/ CloseTemp(t)

LEMMA TrayKinds ==
    ASSUME SaveOK, TrayStep \/ \E d \in Dialogs : RunTest(d)
    PROVE  \/ Quiet \/ GivesUp \/ StopForSave \/ CommitToken \/ InstallToken
           \/ WriteStep(Tray) /\ UNCHANGED <<installed, running, dialogVars>>
<1>1. ASSUME NEW d \in Dialogs, OpenDialog(d) \/ Cancel(d) \/ FinishTest(d) \/ RunTest(d)
      PROVE  Quiet
  BY <1>1 DEF OpenDialog, Cancel, FinishTest, FinishWith, RunTest, Quiet, fileVars, tokenVars, files, history
<1>2. ASSUME NEW d \in Dialogs, AskSave(d) PROVE Quiet
  BY <1>2, Records DEF AskSave, Plan, PlanWith, Quiet, LoginAhead, fileVars, files, history
<1>3. ASSUME NEW d \in Dialogs, NEW in, TypeIn(d, in) PROVE Quiet
  BY <1>3 DEF TypeIn, Quiet, fileVars, files, history
<1>4. ASSUME NEW d \in Dialogs, NEW force, StartTest(d, force) PROVE Quiet
  BY <1>4 DEF StartTest, Quiet, fileVars, files, history
<1>5. CASE CommitClient \/ CommitIdent
  <2>1. save \in Saves
    BY <1>5, Records DEF SaveOK, CommitClient, CommitIdent
  <2> QED
    BY <1>5, <2>1 DEF CommitClient, CommitIdent, Saves, Quiet, LoginAhead, fileVars, tokenVars, files, history
<1>6. CASE CommitConf
  BY <1>6, Records DEF CommitConf, Quiet, LoginAhead, fileVars, tokenVars, files, history
<1>7. CASE CommitFails \/ TrayDies
  BY <1>7 DEF CommitFails, TrayDies, GivesUp, history
<1>8. CASE WriteToken
  BY <1>8 DEF WriteToken, WriteStep, OpenTemp, WriteTemp, CloseTemp, history
<1> QED
  BY <1>1, <1>2, <1>3, <1>4, <1>5, <1>6, <1>7, <1>8 DEF TrayStep

LEMMA MonitorKinds ==
    ASSUME Monitor
    PROVE  /\ UNCHANGED <<installed, client, ident, conf, dlg, logins, void>>
           /\ \/ MonitorStarts \/ MonitorStartsEarly
              \/ MonitorEnds /\ UNCHANGED dialogVars
              \/ \E t \in Threads : MonitorThread(t) /\ UNCHANGED <<installed, running, dialogVars>>
<1>1. ASSUME NEW t \in Threads, MonitorThread(t) PROVE UNCHANGED <<installed, running>>
  BY <1>1 DEF MonitorThread, ReadToken, BackupBadToken, OpenTemp, WriteTemp, CloseTemp, Publish,
     PublishFails, history
<1>2. CASE MonitorStarts \/ MonitorStartsEarly \/ (MonitorEnds /\ UNCHANGED dialogVars)
  BY <1>2 DEF MonitorStarts, MonitorStartsEarly, MonitorEnds, history, dialogVars
<1> QED
  BY <1>1, <1>2 DEF Monitor, dialogVars

LEMMA Kinds ==
    ASSUME SaveOK, [Next]_vars
    PROVE  \/ Quiet \/ GivesUp \/ StopForSave \/ CommitToken \/ InstallToken
           \/ WriteStep(Tray) /\ UNCHANGED <<installed, running, dialogVars>>
           \/ MonitorStarts \/ MonitorStartsEarly
           \/ MonitorEnds /\ UNCHANGED dialogVars
           \/ \E t \in Threads : MonitorThread(t) /\ UNCHANGED <<installed, running, dialogVars>>
<1>1. CASE UNCHANGED vars
  BY <1>1 DEF vars, tokenVars, files, history, dialogVars, Quiet, fileVars
<1> QED
  BY <1>1, TrayKinds, MonitorKinds DEF Next

\* Only a thread of a running monitor has anything to do.
LEMMA OnlyRunning ==
    ASSUME LoginOK, NEW t \in Threads, MonitorThread(t)
    PROVE  running
<1>1. running \/ th[t] # Resting
  BY Records DEF MonitorThread, ReadToken, BackupBadToken, OpenTemp, WriteTemp, CloseTemp,
     Publish, PublishFails, AtStep
<1> QED
  BY <1>1 DEF LoginOK

LEMMA FilesStep ==
    ASSUME FilesOK, TrayOK, WriterOK, SaveOK, [Next]_vars
    PROVE  FilesOK'
<1>0. /\ token \in Logins \cup {None} \cup (IF clash THEN Invalid ELSE {})
      /\ temp \in Creds \cup {None} \cup Invalid
      /\ th \in [Writers -> Steps] /\ installed \in Logins
      /\ \A t \in Writers : Bearing(t) => th[t].creds \in Creds
      /\ running \in BOOLEAN /\ clash \in BOOLEAN /\ raced \in BOOLEAN
  BY DEF FilesOK
\* One writer goes on, and what it has in hand are credentials.
<1>1. ASSUME NEW t \in Writers, th' \in [Writers -> Steps], \A u \in Writers \ {t} : th'[u] = th[u],
             Bearing(t)' => th'[t].creds \in Creds
      PROVE  \A u \in Writers : Bearing(u)' => th'[u].creds \in Creds
  BY <1>0, <1>1 DEF Bearing
<1>2. CASE Quiet
  BY <1>0, <1>2 DEF Quiet, fileVars, FilesOK, Bearing
<1>3. CASE GivesUp
  BY <1>0, <1>1, <1>3, Returns, Records, TheWriters DEF GivesUp, FilesOK, Bearing
<1>4. ASSUME MonitorGone, UNCHANGED <<token, temp, installed, clash, raced>>, running' \in BOOLEAN
      PROVE  FilesOK'
  <2>1. \A t \in Writers : Bearing(t)' => th'[t].creds \in Creds
    BY <1>0, <1>4, AllRest, Records DEF Bearing, Writers
  <2> QED
    BY <1>0, <1>4, <2>1, AllRest DEF FilesOK
<1>5. CASE StopForSave
  BY <1>4, <1>5 DEF StopForSave, history
<1>6. CASE MonitorEnds /\ UNCHANGED dialogVars
  BY <1>4, <1>6 DEF MonitorEnds, history, dialogVars
<1>7. CASE CommitToken
  <2>1. save \in Saves
    BY <1>7, Records DEF SaveOK, CommitToken
  <2>2. CASE save.login = None
    BY <1>0, <1>7, <2>2 DEF CommitToken, FilesOK, history, Bearing
  <2>3. CASE save.login # None
    <3>1. PICK l \in BOOLEAN :
             th' = [th EXCEPT ![Tray] = [pc |-> "refreshed", creds |-> [login |-> save.login, long |-> l]]]
      BY <1>7, <2>3 DEF CommitToken
    <3>2. /\ [login |-> save.login, long |-> l] \in Creds
          /\ [pc |-> "refreshed", creds |-> [login |-> save.login, long |-> l]] \in Steps
      BY <2>1, <2>3 DEF Saves, Steps, Creds
    <3>3. /\ th' \in [Writers -> Steps] /\ \A u \in Writers \ {Tray} : th'[u] = th[u]
          /\ th'[Tray].creds \in Creds
      BY <1>0, <3>1, <3>2, TheWriters
    <3>4. \A u \in Writers : Bearing(u)' => th'[u].creds \in Creds
      BY <1>1, <3>3, TheWriters
    <3> QED
      BY <1>0, <1>7, <3>3, <3>4 DEF CommitToken, FilesOK, history
  <2> QED
    BY <2>2, <2>3
<1>8. CASE MonitorStarts \/ MonitorStartsEarly
  BY <1>0, <1>8 DEF MonitorStarts, MonitorStartsEarly, FilesOK, history, dialogVars, Bearing
\* The move: what is read in the file that arrives.
<1>9. ASSUME NEW t \in Writers, AtStep(t, "closed"), Movable, Replace, UNCHANGED clash
      PROVE  /\ token' \in Logins \cup {None} \cup (IF clash' THEN Invalid ELSE {})
             /\ temp' = None
  <2>1. ~clash => temp \in Creds
    BY <1>9 DEF WriterOK, Filled, AtStep
  <2>2. temp \in Creds \/ (temp \in Invalid /\ clash)
    BY <1>0, <1>9, <2>1 DEF Movable
  <2> QED
    BY <1>9, <2>2, Texts DEF Replace, Invalid
<1>10. CASE InstallToken
  <2>1. /\ th' \in [Writers -> Steps] /\ \A u \in Writers : Bearing(u)' => th'[u].creds \in Creds
        /\ UNCHANGED <<clash, running>> /\ save # NoSave /\ save \in Saves
        /\ save.login # None
    BY <1>0, <1>1, <1>10, Returns, Records, TheWriters
       DEF InstallToken, Bearing, TrayOK, AtStep, SaveOK
  <2>2. CASE Movable
    BY <1>0, <1>9, <1>10, <2>1, <2>2, TheWriters DEF InstallToken, FilesOK, Saves
  <2>3. CASE ~Movable
    BY <1>0, <1>10, <2>1, <2>3 DEF InstallToken, FilesOK
  <2> QED
    BY <2>2, <2>3
<1>11. ASSUME NEW t \in Writers, WriteStep(t), UNCHANGED <<installed, running, raced>>
       PROVE  FilesOK'
  <2>1. Bearing(t) /\ th[t].creds \in Creds
    BY <1>0, <1>11 DEF WriteStep, OpenTemp, WriteTemp, CloseTemp, AtStep, Bearing
  <2>2. /\ th' \in [Writers -> Steps] /\ \A u \in Writers \ {t} : th'[u] = th[u]
        /\ th'[t].creds = th[t].creds
    BY <1>0, <1>11, Goes DEF WriteStep, OpenTemp, WriteTemp, CloseTemp
  <2>3. \A u \in Writers : Bearing(u)' => th'[u].creds \in Creds
    BY <1>1, <2>1, <2>2
  <2>4. temp' \in Creds \cup {None} \cup Invalid
    BY <1>0, <1>11, <2>1, Texts DEF WriteStep, OpenTemp, WriteTemp, CloseTemp, Invalid
  <2>5. UNCHANGED token /\ clash' \in BOOLEAN /\ (clash => clash')
    BY <1>0, <1>11 DEF WriteStep, OpenTemp, WriteTemp, CloseTemp, history
  <2> QED
    BY <1>0, <1>11, <2>2, <2>3, <2>4, <2>5 DEF FilesOK
<1>12. ASSUME NEW t \in Threads, MonitorThread(t), UNCHANGED <<installed, running, dialogVars>>
       PROVE  FilesOK'
  <2>0. t \in Writers /\ UNCHANGED raced
    BY <1>12, TheWriters DEF dialogVars
  <2>1. CASE ReadToken(t)
    <3>1. /\ th' \in [Writers -> Steps] /\ \A u \in Writers \ {t} : th'[u] = th[u]
          /\ Bearing(t)' => th'[t].creds \in Creds
      <4>1. ASSUME Readable(token), NEW l \in BOOLEAN,
                   th' = [th EXCEPT ![t] = [pc |-> "refreshed", creds |-> [login |-> token, long |-> l]]]
            PROVE  /\ th' \in [Writers -> Steps] /\ \A u \in Writers \ {t} : th'[u] = th[u]
                   /\ th'[t].creds \in Creds
        <5>1. /\ [login |-> token, long |-> l] \in Creds
              /\ [pc |-> "refreshed", creds |-> [login |-> token, long |-> l]] \in Steps
          BY <4>1 DEF Readable, Steps, Creds
        <5> QED
          BY <1>0, <2>0, <4>1, <5>1
      <4>2. CASE GoOn(t, "unreadable")
        BY <1>0, <2>0, <4>2, Goes DEF Bearing
      <4> QED
        BY <2>1, <4>1, <4>2 DEF ReadToken
    <3>2. \A u \in Writers : Bearing(u)' => th'[u].creds \in Creds
      BY <1>1, <2>0, <3>1
    <3> QED
      BY <1>0, <1>12, <2>0, <2>1, <3>1, <3>2 DEF ReadToken, history, FilesOK
  <2>2. CASE Return(t)
    <3>1. th' \in [Writers -> Steps] /\ \A u \in Writers : Bearing(u)' => th'[u].creds \in Creds
      BY <1>0, <1>1, <2>0, <2>2, Returns, Records DEF Bearing
    <3>2. CASE BackupBadToken(t) \/ PublishFails(t)
      BY <1>0, <1>12, <2>0, <3>1, <3>2 DEF BackupBadToken, PublishFails, history, FilesOK
    <3>3. CASE Publish(t)
      BY <1>0, <1>9, <1>12, <2>0, <3>1, <3>3 DEF Publish, history, FilesOK
    <3> QED
      BY <1>12, <2>1, <1>11, <2>0, <3>2, <3>3 DEF MonitorThread, WriteStep
  <2> QED
    BY <1>11, <1>12, <2>0, <2>1, <2>2 DEF MonitorThread, WriteStep, BackupBadToken, Publish, PublishFails
<1> QED
  BY <1>2, <1>3, <1>5, <1>6, <1>7, <1>8, <1>10, <1>11, <1>12, Kinds, TheWriters DEF dialogVars

LEMMA TrayStepOK ==
    ASSUME FilesOK, TrayOK, LoginOK, SaveOK, [Next]_vars
    PROVE  TrayOK'
<1>0. th \in [Writers -> Steps] /\ \A t \in Writers : Bearing(t) => th[t].creds \in Creds
  BY DEF FilesOK
<1>1. CASE Quiet
  <2>1. CASE UNCHANGED save
    BY <1>1, <2>1 DEF Quiet, fileVars, TrayOK, LoginAhead, Bearing, Filled, AtStep
  <2>2. CASE /\ save.pc # "writing" /\ save'.pc # "writing"
             /\ LoginAhead' => LoginAhead /\ save'.early = save.early
    <3>1. UNCHANGED <<th, raced, running>>
      BY <1>1 DEF Quiet, fileVars
    <3>2. AtStep(Tray, "resting")'
      BY <2>2, <3>1 DEF TrayOK, AtStep
    <3>3. LoginAhead' => IF save'.early THEN raced' ELSE ~running'
      BY <2>2, <3>1 DEF TrayOK
    <3> QED
      BY <2>2, <3>2, <3>3 DEF TrayOK
  <2> QED
    BY <1>1, <2>1, <2>2 DEF Quiet
\* The tray rests, and no login is ahead.
<1>2. ASSUME th'[Tray] = Resting, save'.pc \notin {"client", "token", "writing"} PROVE TrayOK'
  BY <1>2, Records DEF TrayOK, LoginAhead, AtStep
<1>3. CASE GivesUp
  BY <1>0, <1>2, <1>3, Returns, Records, TheWriters DEF GivesUp
<1>4. CASE InstallToken
  <2>1. save \in Saves
    BY <1>4, Records DEF InstallToken, TrayOK, AtStep, SaveOK
  <2>2. save'.pc \in {"ident", "none"}
    BY <1>4, <2>1, Records DEF InstallToken, Saves
  <2> QED
    BY <1>0, <1>2, <1>4, <2>2, Returns, TheWriters DEF InstallToken
<1>5. CASE StopForSave
  <2>1. save \in Saves /\ save.pc = "stop" /\ ~save.early
    BY <1>5, Records DEF StopForSave, SaveOK
  <2>2. save' = [save EXCEPT !.pc = "client"] /\ ~running' /\ th'[Tray] = th[Tray]
    BY <1>0, <1>5, AllRest DEF StopForSave
  <2>3. save'.pc = "client" /\ ~save'.early
    BY <2>1, <2>2 DEF Saves
  <2>4. AtStep(Tray, "resting")'
    BY <2>1, <2>2 DEF TrayOK, AtStep
  <2> QED
    BY <2>2, <2>3, <2>4 DEF TrayOK
<1>6. CASE CommitToken
  <2>1. save \in Saves /\ save.pc = "token" /\ UNCHANGED <<running, raced>>
    BY <1>6, Records DEF CommitToken, SaveOK
  <2>2. CASE save.login = None
    <3>1. save'.pc = "ident" /\ UNCHANGED th
      BY <1>6, <2>1, <2>2 DEF CommitToken, Saves
    <3> QED
      BY <2>1, <3>1 DEF TrayOK, LoginAhead, AtStep
  <2>3. CASE save.login # None
    <3>1. PICK l \in BOOLEAN :
             th' = [th EXCEPT ![Tray] = [pc |-> "refreshed", creds |-> [login |-> save.login, long |-> l]]]
      BY <1>6, <2>3 DEF CommitToken
    <3>2. th'[Tray] = [pc |-> "refreshed", creds |-> [login |-> save.login, long |-> l]]
      BY <1>0, <3>1, TheWriters
    <3>3. save' = [save EXCEPT !.pc = "writing"]
      BY <1>6, <2>3 DEF CommitToken
    <3>4. save'.pc = "writing" /\ save'.login = save.login /\ save'.early = save.early
      BY <2>1, <3>3 DEF Saves
    <3>5. LoginAhead
      BY <2>1, <2>3 DEF LoginAhead
    <3> QED
      BY <2>1, <2>3, <3>2, <3>4, <3>5 DEF TrayOK, AtStep, Bearing, Filled
  <2> QED
    BY <2>2, <2>3
<1>7. CASE MonitorStarts
  BY <1>7 DEF MonitorStarts, TrayOK, LoginAhead, dialogVars, AtStep, Bearing, Filled
<1>8. CASE MonitorStartsEarly
  <2>1. save \in Saves /\ save' = [save EXCEPT !.early = TRUE] /\ raced' /\ UNCHANGED <<th, temp>>
    BY <1>8, Records DEF MonitorStartsEarly, LoginAhead, SaveOK
  <2>2. save'.early /\ save'.pc = save.pc /\ save'.login = save.login
    BY <2>1 DEF Saves
  <2> QED
    BY <2>1, <2>2 DEF TrayOK, AtStep, Bearing, Filled
<1>9. CASE MonitorEnds /\ UNCHANGED dialogVars
  <2>1. ~running' /\ th'[Tray] = th[Tray] /\ UNCHANGED <<save, raced, temp>>
    BY <1>0, <1>9, AllRest DEF MonitorEnds, dialogVars
  <2> QED
    BY <2>1 DEF TrayOK, AtStep, Bearing, Filled, LoginAhead
<1>10. CASE WriteStep(Tray) /\ UNCHANGED <<installed, running, dialogVars>>
  <2>1. /\ th'[Tray].creds = th[Tray].creds /\ Bearing(Tray)'
        /\ UNCHANGED <<running, save, raced>> /\ save.pc = "writing"
    BY <1>0, <1>10, Goes, TheWriters
       DEF WriteStep, OpenTemp, WriteTemp, CloseTemp, Bearing, TrayOK, AtStep, dialogVars
  <2>2. ASSUME ~save.early
        PROVE  /\ AtStep(Tray, "opened")' => temp' = Empty
               /\ Filled(Tray)' => temp' \in Creds /\ temp'.login = save.login
    <3>0. /\ th[Tray].creds \in Creds /\ th[Tray].creds.login = save.login
          /\ AtStep(Tray, "opened") => temp = Empty
          /\ Filled(Tray) => temp \in Creds /\ temp.login = save.login
      BY <1>0, <2>1, <2>2, TheWriters DEF TrayOK
    <3>1. CASE OpenTemp(Tray)
      BY <1>0, <3>1, Goes, TheWriters DEF OpenTemp, AtStep, Filled
    <3>2. CASE WriteTemp(Tray)
      BY <1>0, <3>0, <3>2, Goes, Texts, TheWriters DEF WriteTemp, AtStep, Filled
    <3>3. CASE CloseTemp(Tray)
      BY <1>0, <3>0, <3>3, Goes, TheWriters DEF CloseTemp, AtStep, Filled
    <3> QED
      BY <1>10, <3>1, <3>2, <3>3 DEF WriteStep
  <2> QED
    BY <2>1, <2>2 DEF TrayOK, LoginAhead
<1>11. ASSUME NEW t \in Threads, MonitorThread(t), UNCHANGED <<installed, running, dialogVars>>
       PROVE  TrayOK'
  <2>1. t \in Writers /\ t # Tray /\ running /\ UNCHANGED <<save, raced>>
    BY <1>11, OnlyRunning, TheWriters DEF dialogVars
  <2>2. th'[Tray] = th[Tray]
    BY <1>0, <1>11, <2>1, TheWriters DEF MonitorThread, ReadToken, BackupBadToken, OpenTemp, WriteTemp,
       CloseTemp, Publish, PublishFails, GoOn, Return
  <2>3. LoginAhead => save.early
    BY <2>1 DEF TrayOK
  <2>4. save.pc = "writing" => save.early
    BY <2>3 DEF TrayOK, LoginAhead
  <2> QED
    BY <1>11, <2>1, <2>2, <2>4 DEF TrayOK, AtStep, Bearing, Filled, LoginAhead
<1> QED
  BY <1>1, <1>3, <1>4, <1>5, <1>6, <1>7, <1>8, <1>9, <1>10, <1>11, Kinds

LEMMA LoginStep ==
    ASSUME FilesOK, TrayOK, LoginOK, SaveOK, [Next]_vars
    PROVE  LoginOK'
<1>0. /\ th \in [Writers -> Steps] /\ installed \in Logins
      /\ temp \in Creds \cup {None} \cup Invalid
      /\ \A t \in Writers : Bearing(t) => th[t].creds \in Creds
      /\ \A t \in Threads : t \in Writers /\ t # Tray
  BY TheWriters DEF FilesOK
<1>1. CASE UNCHANGED <<token, temp, running, installed, raced>> /\ \A t \in Threads : th'[t] = th[t]
  BY <1>1 DEF LoginOK, LoginStays, Readable, Bearing, Filled
\* Whatever was in hand is dropped.
<1>2. ASSUME \A t \in Threads : th'[t] = Resting, UNCHANGED <<token, installed, raced>>
      PROVE  LoginOK'
  BY <1>2, Records DEF LoginOK, LoginStays, Readable, Bearing, Filled
<1>3. CASE Quiet
  BY <1>1, <1>3 DEF Quiet, fileVars
<1>4. CASE GivesUp
  BY <1>0, <1>1, <1>4, Returns, TheWriters DEF GivesUp
<1>5. CASE StopForSave
  BY <1>0, <1>2, <1>5, AllRest DEF StopForSave, history
<1>6. CASE MonitorEnds /\ UNCHANGED dialogVars
  BY <1>0, <1>2, <1>6, AllRest DEF MonitorEnds, history, dialogVars
<1>7. CASE CommitToken
  <2>1. \A t \in Threads : th'[t] = th[t]
    BY <1>0, <1>7 DEF CommitToken
  <2> QED
    BY <1>1, <1>7, <2>1 DEF CommitToken, history
<1>8. CASE InstallToken
  <2>1. /\ \A t \in Threads : th'[t] = th[t]
        /\ save.pc = "writing" /\ save.login # None /\ LoginAhead
        /\ UNCHANGED running
    BY <1>0, <1>8, Returns, TheWriters DEF InstallToken, TrayOK, AtStep, LoginAhead
  <2>2. CASE ~Movable
    BY <1>1, <1>8, <2>1, <2>2 DEF InstallToken
  <2>3. CASE Movable /\ save.early
    <3>1. raced'
      BY <1>8, <2>3 DEF InstallToken
    <3> QED
      BY <2>1, <3>1 DEF LoginOK, LoginStays
  <2>4. CASE Movable /\ ~save.early
    <3>1. /\ ~running /\ \A t \in Threads : th'[t] = Resting
      BY <2>1, <2>4 DEF TrayOK, LoginOK
    <3>2. temp \in Creds /\ temp.login = save.login
      BY <1>8, <2>1, <2>4 DEF InstallToken, TrayOK, AtStep, Filled
    <3>3. token' = save.login /\ installed' = save.login
      BY <1>8, <2>4, <3>2, Texts DEF InstallToken, Replace
    <3> QED
      BY <3>1, <3>3, Records DEF LoginOK, LoginStays, Bearing, Filled
  <2> QED
    BY <2>2, <2>3, <2>4
<1>9. CASE MonitorStarts
  BY <1>9 DEF MonitorStarts, LoginOK, LoginStays, Readable, Bearing, Filled, history, dialogVars
<1>10. CASE MonitorStartsEarly
  BY <1>10 DEF MonitorStartsEarly, LoginOK, LoginStays
<1>11. CASE WriteStep(Tray) /\ UNCHANGED <<installed, running, dialogVars>>
  <2>1. \A t \in Threads : th'[t] = th[t]
    BY <1>0, <1>11 DEF WriteStep, OpenTemp, WriteTemp, CloseTemp, GoOn
  <2>2. UNCHANGED <<token, installed, running, raced>>
    BY <1>11 DEF WriteStep, OpenTemp, WriteTemp, CloseTemp, dialogVars
  <2>3. LoginAhead
    BY <1>11 DEF WriteStep, OpenTemp, WriteTemp, CloseTemp, TrayOK, LoginAhead, AtStep
  <2>4. CASE raced
    BY <2>1, <2>2, <2>4 DEF LoginOK, LoginStays
  <2>5. CASE ~raced
    <3>1. \A t \in Threads : th'[t] = Resting
      BY <2>1, <2>3, <2>5 DEF TrayOK, LoginOK
    <3> QED
      BY <1>2, <2>2, <3>1
  <2> QED
    BY <2>4, <2>5
<1>12. ASSUME NEW t \in Threads, MonitorThread(t), UNCHANGED <<installed, running, dialogVars>>
       PROVE  LoginOK'
  <2>0. /\ running /\ running' /\ UNCHANGED <<installed, raced>> /\ t \in Writers
    BY <1>0, <1>12, OnlyRunning DEF dialogVars
  <2>00. CASE raced
    BY <2>0, <2>00 DEF LoginOK, LoginStays
  <2> SUFFICES ASSUME ~raced PROVE LoginOK'
    BY <2>00
  <2>1. /\ Readable(token) => token = installed
        /\ \A u \in Threads : Bearing(u) => th[u].creds \in Creds /\ th[u].creds.login = installed
        /\ \A u \in Threads : Filled(u) /\ temp \in Creds => temp.login = installed
    BY <1>0 DEF LoginOK, LoginStays
  \* What is written or published is of the login installed last.
  <2>2. ASSUME \/ UNCHANGED token \/ token' \notin Logins \/ token' = installed,
               \/ UNCHANGED temp \/ temp' \notin Creds \/ temp'.login = installed,
               \A u \in Threads \ {t} : th'[u] = th[u],
               Bearing(t)' => th'[t].creds.login = installed,
               Filled(t)' => Filled(t) \/ temp' \notin Creds \/ temp'.login = installed
        PROVE  LoginOK'
    <3>1. \A u \in Threads : Bearing(u)' => th'[u].creds.login = installed
      BY <2>1, <2>2 DEF Bearing
    <3>2. LoginStays'
      BY <2>0, <2>1, <2>2 DEF LoginStays, Readable
    <3>3. \A u \in Threads : Filled(u)' /\ temp' \in Creds => temp'.login = installed
      BY <2>1, <2>2 DEF Filled
    <3> QED
      BY <2>0, <3>1, <3>2, <3>3 DEF LoginOK
  <2>3. CASE ReadToken(t)
    <3>1. UNCHANGED <<token, temp>>
      BY <2>3 DEF ReadToken
    <3>2. ASSUME Readable(token), NEW l \in BOOLEAN,
                 th' = [th EXCEPT ![t] = [pc |-> "refreshed", creds |-> [login |-> token, long |-> l]]]
          PROVE  LoginOK'
      BY <1>0, <2>0, <2>1, <2>2, <3>1, <3>2 DEF Bearing, Filled
    <3>3. CASE GoOn(t, "unreadable")
      BY <1>0, <2>0, <2>2, <3>1, <3>3, Goes DEF Bearing, Filled
    <3> QED
      BY <2>3, <3>2, <3>3 DEF ReadToken
  <2>4. CASE BackupBadToken(t) \/ PublishFails(t)
    <3>1. th'[t] = Resting /\ \A u \in Threads \ {t} : th'[u] = th[u]
      BY <1>0, <2>0, <2>4, Returns DEF BackupBadToken, PublishFails
    <3>2. UNCHANGED temp /\ (UNCHANGED token \/ token' = None)
      BY <2>4 DEF BackupBadToken, PublishFails
    <3> QED
      BY <2>2, <3>1, <3>2, Records, Special DEF Bearing, Filled
  <2>5. CASE OpenTemp(t)
    <3>1. /\ th'[t].creds = th[t].creds /\ th'[t].pc = "opened" /\ Bearing(t)
          /\ \A u \in Threads \ {t} : th'[u] = th[u]
      BY <1>0, <2>0, <2>5, Goes DEF OpenTemp, Bearing, AtStep
    <3> QED
      BY <2>1, <2>2, <2>5, <3>1, Special DEF OpenTemp, Bearing, Filled
  <2>6. CASE WriteTemp(t)
    <3>1. /\ th'[t].creds = th[t].creds /\ th'[t].pc = "written" /\ Bearing(t)
          /\ \A u \in Threads \ {t} : th'[u] = th[u]
      BY <1>0, <2>0, <2>6, Goes DEF WriteTemp, Bearing, AtStep
    <3>2. temp' \in {Mixed, th[t].creds} /\ UNCHANGED token
      BY <2>6, Texts DEF WriteTemp
    <3>3. temp' \notin Creds \/ temp'.login = installed
      BY <2>1, <3>1, <3>2, Special
    <3> QED
      BY <2>1, <2>2, <3>1, <3>2, <3>3
  <2>7. CASE CloseTemp(t)
    <3>1. /\ th'[t].creds = th[t].creds /\ Bearing(t) /\ Filled(t)
          /\ \A u \in Threads \ {t} : th'[u] = th[u]
      BY <1>0, <2>0, <2>7, Goes DEF CloseTemp, Bearing, Filled, AtStep
    <3> QED
      BY <2>1, <2>2, <2>7, <3>1 DEF CloseTemp
  <2>8. CASE Publish(t)
    <3>1. th'[t] = Resting /\ \A u \in Threads \ {t} : th'[u] = th[u]
      BY <1>0, <2>0, <2>8, Returns DEF Publish
    <3>2. Parsed(temp) = installed \/ Parsed(temp) \notin Logins
      BY <1>0, <2>1, <2>8, Texts, Special DEF Publish, AtStep, Filled, Invalid, Parsed
    <3>3. UNCHANGED <<token, temp>> \/ (token' = Parsed(temp) /\ temp' = None)
      BY <2>8 DEF Publish, Replace
    <3> QED
      BY <2>2, <3>1, <3>2, <3>3, Records, Special DEF Bearing, Filled
  <2> QED
    BY <1>12, <2>3, <2>4, <2>5, <2>6, <2>7, <2>8 DEF MonitorThread
<1> QED
  BY <1>3, <1>4, <1>5, <1>6, <1>7, <1>8, <1>9, <1>10, <1>11, <1>12, Kinds

LEMMA WriterStep ==
    ASSUME FilesOK, TrayOK, LoginOK, WriterOK, SaveOK, [Next]_vars
    PROVE  WriterOK'
<1>0. /\ th \in [Writers -> Steps] /\ clash \in BOOLEAN
      /\ temp \in Creds \cup {None} \cup Invalid
      /\ \A t \in Writers : Bearing(t) => th[t].creds \in Creds
  BY DEF FilesOK
\* Nobody comes to the temporary file.
<1>1. ASSUME UNCHANGED <<temp, clash>>,
             \A u \in Writers : th'[u].pc = th[u].pc \/ th'[u].pc \notin {"opened", "written", "closed"}
      PROVE  WriterOK'
  <2>1. Busy' \subseteq Busy
    BY <1>1 DEF Busy
  <2> QED
    BY <1>1, <2>1 DEF WriterOK, AtStep, Filled
\* One writer returns; the others stay where they are.
<1>2. ASSUME NEW t \in Writers, Return(t), UNCHANGED <<temp, clash>> PROVE WriterOK'
  BY <1>0, <1>1, <1>2, Returns, Records
\* One writer moves the file away, and with no clash it was the only one at it.
<1>3. ASSUME NEW t \in Writers, AtStep(t, "closed"), Return(t), UNCHANGED clash PROVE WriterOK'
  <2> SUFFICES ASSUME ~clash PROVE WriterOK'
    BY <1>3 DEF WriterOK
  <2>1. \A u \in Writers \ {t} : th[u].pc \notin {"opened", "written", "closed"}
    BY <1>3 DEF WriterOK, Busy, AtStep
  <2>2. \A u \in Writers : th'[u].pc \notin {"opened", "written", "closed"}
    BY <1>0, <1>3, <2>1, Returns, Records
  <2> QED
    BY <2>2 DEF WriterOK, Busy, AtStep, Filled
<1>4. CASE Quiet
  BY <1>1, <1>4 DEF Quiet, fileVars
<1>5. CASE GivesUp
  BY <1>2, <1>5, TheWriters DEF GivesUp
<1>6. ASSUME MonitorGone, UNCHANGED <<temp, clash>> PROVE WriterOK'
  BY <1>0, <1>1, <1>6, AllRest, Records DEF Writers
<1>7. CASE StopForSave \/ MonitorEnds
  BY <1>6, <1>7 DEF StopForSave, MonitorEnds, history
<1>8. CASE CommitToken
  <2>1. UNCHANGED <<temp, clash>>
    BY <1>8 DEF CommitToken, history
  <2>2. \A u \in Writers : th'[u] = th[u] \/ th'[u].pc = "refreshed"
    BY <1>0, <1>8 DEF CommitToken
  <2> QED
    BY <1>1, <2>1, <2>2
<1>9. CASE InstallToken
  BY <1>3, <1>9, TheWriters DEF InstallToken
<1>10. CASE MonitorStarts \/ MonitorStartsEarly
  BY <1>1, <1>10 DEF MonitorStarts, MonitorStartsEarly, history
<1>11. ASSUME NEW t \in Writers, WriteStep(t) PROVE WriterOK'
  <2> SUFFICES ASSUME ~clash' PROVE WriterOK'
    BY DEF WriterOK
  <2>1. CASE OpenTemp(t)
    <3>1. /\ th'[t].pc = "opened" /\ temp' = Empty /\ \A u \in Writers \ {t} : th'[u] = th[u]
      BY <1>0, <1>11, <2>1, Goes DEF OpenTemp
    <3>2. \A u \in Writers : th[u].pc \notin {"opened", "written", "closed"}
      BY <2>1 DEF OpenTemp
    <3> QED
      BY <3>1, <3>2 DEF WriterOK, Busy, AtStep, Filled
  <2>2. CASE WriteTemp(t) \/ CloseTemp(t)
    <3>1. /\ th'[t].pc \in {"written", "closed"} /\ \A u \in Writers \ {t} : th'[u] = th[u]
          /\ t \in Busy /\ ~clash /\ Bearing(t)
      BY <1>0, <1>11, <2>2, Goes DEF WriteTemp, CloseTemp, AtStep, history, Busy, Bearing
    <3>2. \A u \in Writers \ {t} : th[u].pc \notin {"opened", "written", "closed"}
      BY <3>1 DEF WriterOK, Busy
    <3>3. temp' \in Creds
      BY <1>0, <2>2, <3>1, Texts DEF WriteTemp, CloseTemp, WriterOK, AtStep, Filled
    <3> QED
      BY <3>1, <3>2, <3>3 DEF WriterOK, Busy, AtStep, Filled
  <2> QED
    BY <1>11, <2>1, <2>2 DEF WriteStep
<1>12. ASSUME NEW t \in Threads, MonitorThread(t) PROVE WriterOK'
  <2>0. t \in Writers
    BY TheWriters
  <2>1. CASE ReadToken(t)
    <3>1. \A u \in Writers : th'[u] = th[u] \/ th'[u].pc \in {"refreshed", "unreadable"}
      BY <1>0, <2>0, <2>1, Goes DEF ReadToken
    <3> QED
      BY <1>1, <2>1, <3>1 DEF ReadToken, history
  <2>2. CASE BackupBadToken(t) \/ PublishFails(t)
    BY <1>2, <2>0, <2>2 DEF BackupBadToken, PublishFails, history
  <2>3. CASE Publish(t)
    BY <1>3, <2>0, <2>3 DEF Publish, history
  <2> QED
    BY <1>11, <1>12, <2>0, <2>1, <2>2, <2>3 DEF MonitorThread, WriteStep
<1> QED
  BY <1>4, <1>5, <1>7, <1>8, <1>9, <1>10, <1>11, <1>12, Kinds, TheWriters

-----------------------------------------------------------------------------
(* The dialogs.                                                            *)

\* What the dialogs' invariant says of one dialog depends on it alone.
LEMMA OneDialog ==
    ASSUME DialogsOK, NEW d \in Dialogs, dlg' \in [Dialogs -> Dlgs],
           \A e \in Dialogs \ {d} : dlg'[e] = dlg[e], DialogOK(d)',
           UNCHANGED <<client, ident, conf>>
    PROVE  DialogsOK'
<1>1. \A e \in Dialogs \ {d} : DialogOK(e)'
  BY DEF DialogsOK, DialogOK
<1> QED
  BY <1>1 DEF DialogsOK

\* A closed dialog holds nothing but the test that may run on.
LEMMA ClosedOK ==
    ASSUME DialogsOK, NEW d \in Dialogs, UNCHANGED <<client, ident, conf>>,
           dlg' = [dlg EXCEPT ![d] = [Closed EXCEPT !.test = dlg[d].test]]
    PROVE  DialogsOK'
<1>1. dlg[d] \in Dlgs /\ DialogOK(d)
  BY DEF DialogsOK
<1>2. /\ [Closed EXCEPT !.test = dlg[d].test] \in Dlgs
      /\ [Closed EXCEPT !.test = dlg[d].test].open = FALSE
      /\ [Closed EXCEPT !.test = dlg[d].test].staged = None
      /\ [Closed EXCEPT !.test = dlg[d].test].test = dlg[d].test
  BY <1>1 DEF Closed, Dlgs
<1>3. dlg' \in [Dialogs -> Dlgs] /\ \A e \in Dialogs \ {d} : dlg'[e] = dlg[e]
  BY <1>2 DEF DialogsOK
<1>4. dlg'[d] = [Closed EXCEPT !.test = dlg[d].test]
  BY DEF DialogsOK
<1>5. DialogOK(d)'
  BY <1>1, <1>2, <1>4 DEF DialogOK
<1> QED
  BY <1>3, <1>5, OneDialog

\* What the three kinds of test find is a stage.
LEMMA TestStages ==
    ASSUME NEW snap \in Inputs
    PROVE  /\ \A login, seen \in Logins \cup {None} : (login = None => seen \in Logins) =>
                 /\ OAuthStage(snap, login, seen) \in Stages
                 /\ OAuthStage(snap, login, seen).login = login
                 /\ Found(OAuthStage(snap, login, seen))
           /\ \A s \in SUBSET snap.accounts :
                 LET staged == [mode |-> "dwd", client |-> None, email |-> None, key |-> snap.key,
                                login |-> None, ids |-> [a \in s |-> Home[a]], seen |-> None]
                 IN  staged \in Stages /\ Found(staged) /\ staged.login = None
<1>1. ASSUME NEW login \in Logins \cup {None}, NEW seen \in Logins \cup {None},
             login = None => seen \in Logins
      PROVE  /\ OAuthStage(snap, login, seen) \in Stages
             /\ OAuthStage(snap, login, seen).login = login
             /\ Found(OAuthStage(snap, login, seen))
  <2> DEFINE box == BoxOf(login, seen)
  <2>1. box \in Mailboxes
    BY <1>1 DEF Logins, BoxOf
  <2>2. [a \in {snap.email} |-> box] \in UNION {[s -> Mailboxes] : s \in SUBSET Addresses}
    <3>1. {snap.email} \in SUBSET Addresses
      BY DEF Inputs
    <3>2. [a \in {snap.email} |-> box] \in [{snap.email} -> Mailboxes]
      BY <2>1
    <3> QED
      BY <3>1, <3>2
  <2>3. OAuthStage(snap, login, seen) =
          [mode |-> "oauth", client |-> snap.client, email |-> snap.email, key |-> None,
           login |-> login, seen |-> seen, ids |-> [a \in {snap.email} |-> box]]
    BY DEF OAuthStage, BoxOf
  <2> HIDE DEF box
  <2>4. OAuthStage(snap, login, seen) \in Stages
    BY <2>2, <2>3 DEF Stages, Inputs
  <2> QED
    BY <1>1, <2>3, <2>4 DEF Found, box
<1>2. ASSUME NEW s \in SUBSET snap.accounts
      PROVE  LET staged == [mode |-> "dwd", client |-> None, email |-> None, key |-> snap.key,
                            login |-> None, ids |-> [a \in s |-> Home[a]], seen |-> None]
             IN  staged \in Stages /\ Found(staged) /\ staged.login = None
  <2>1. s \in SUBSET Addresses /\ [a \in s |-> Home[a]] \in [s -> Mailboxes]
    BY CredentialsAssumption DEF CredentialsAssumption, Inputs
  <2>2. [a \in s |-> Home[a]] \in UNION {[r -> Mailboxes] : r \in SUBSET Addresses}
    BY <2>1
  <2> QED
    BY <2>2 DEF Stages, Found, Inputs
<1> QED
  BY <1>1, <1>2

\* A test ends: what it leaves, and of whom its login is.
LEMMA TestEnds ==
    ASSUME DialogsOK, NEW d \in Dialogs, RunTest(d), logins \in 0..MaxLogins
    PROVE  \E found \in Stages \cup {None} :
              /\ Result(d, found)
              /\ found # None => Found(found)
              /\ \/ UNCHANGED logins /\ (found # None => found.login \in {None, dlg[d].test.login})
                 \/ /\ logins' = logins + 1 /\ logins' \in 0..MaxLogins
                    /\ found # None /\ found.login \in Logins /\ found.login.n = logins'
<1> DEFINE t == dlg[d].test
<1>0. /\ dlg[d] \in Dlgs /\ t # None /\ t.result = Running /\ t \in Tests
      /\ t.snap \in Inputs /\ t.login \in Logins \cup {None}
  BY DEF DialogsOK, DialogOK, RunTest, Dlgs, Tests
<1>1. CASE Result(d, None) /\ UNCHANGED logins
  BY <1>1
<1>2. CASE ReuseLogin(d)
  BY <1>0, <1>2, TestStages, Special, Records DEF ReuseLogin
<1>3. CASE ReadInstalled(d)
  <2>1. token \in Logins
    BY <1>3 DEF ReadInstalled, Readable
  <2> QED
    BY <1>0, <1>3, <2>1, TestStages, Special, Records DEF ReadInstalled
<1>4. CASE LoginInBrowser(d)
  <2>1. PICK b \in Mailboxes : Result(d, OAuthStage(t.snap, [n |-> logins + 1, box |-> b], None))
    BY <1>4 DEF LoginInBrowser
  <2>2. logins' = logins + 1 /\ logins + 1 \in 0..MaxLogins
    BY <1>4, TokenAssumption DEF LoginInBrowser, TokenAssumption
  <2>3. [n |-> logins + 1, box |-> b] \in Logins
    BY <2>2 DEF Logins
  <2> QED
    BY <1>0, <2>1, <2>2, <2>3, TestStages, Special, Records
<1>5. CASE TestAccounts(d)
  BY <1>0, <1>5, TestStages, Records DEF TestAccounts
<1> QED
  BY <1>1, <1>2, <1>3, <1>4, <1>5 DEF RunTest

LEMMA DialogsStep ==
    ASSUME TrayOK, DialogsOK, SaveOK, logins \in 0..MaxLogins, [Next]_vars
    PROVE  DialogsOK'
<1>0. /\ dlg \in [Dialogs -> Dlgs] /\ \A d \in Dialogs : DialogOK(d)
      /\ client \in Clients \cup {Client0}
      /\ ident \in [Addresses -> Mailboxes \cup {"absent", "untested"}]
      /\ conf \in [mode: {"oauth", "dwd"}, email: Addresses, accounts: Lists]
  BY DEF DialogsOK
<1>1. CASE UNCHANGED <<dlg, client, ident, conf>>
  BY <1>1 DEF DialogsOK, DialogOK
<1>2. ASSUME NEW d \in Dialogs, OpenDialog(d) PROVE DialogsOK'
  <2>1. PICK k \in Keys :
           dlg' = [dlg EXCEPT ![d] = [Closed EXCEPT !.open = TRUE,
                    !.in = [mode |-> conf.mode, email |-> conf.email, client |-> Installed,
                            key |-> k, accounts |-> conf.accounts]]]
    BY <1>2 DEF OpenDialog
  <2>2. [mode |-> conf.mode, email |-> conf.email, client |-> Installed,
         key |-> k, accounts |-> conf.accounts] \in Inputs
    BY <1>0 DEF Inputs, Paths
  <2>3. /\ dlg'[d] \in Dlgs /\ dlg'[d].in \in Inputs /\ dlg'[d].staged = None /\ dlg'[d].test = None
    BY <1>0, <2>1, <2>2 DEF Closed, Dlgs
  <2>4. dlg' \in [Dialogs -> Dlgs] /\ \A e \in Dialogs \ {d} : dlg'[e] = dlg[e]
    BY <1>0, <2>1, <2>3
  <2>5. DialogOK(d)'
    BY <2>3 DEF DialogOK
  <2> QED
    BY <1>2, <2>4, <2>5, OneDialog DEF OpenDialog
<1>3. ASSUME NEW d \in Dialogs, NEW in \in Inputs, TypeIn(d, in) PROVE DialogsOK'
  <2>1. dlg[d] \in Dlgs /\ dlg[d].open /\ DialogOK(d)
    BY <1>0, <1>3 DEF TypeIn
  <2>2. /\ dlg'[d].in = in /\ dlg'[d].open = dlg[d].open /\ dlg'[d].test = dlg[d].test
        /\ dlg'[d].staged = IF Matches(dlg[d].staged, in) THEN dlg[d].staged ELSE None
        /\ dlg'[d] \in Dlgs /\ dlg' \in [Dialogs -> Dlgs]
        /\ \A e \in Dialogs \ {d} : dlg'[e] = dlg[e]
    BY <1>0, <1>3, <2>1 DEF TypeIn, Dlgs
  <2>3. DialogOK(d)'
    BY <2>1, <2>2 DEF DialogOK
  <2> QED
    BY <1>3, <2>2, <2>3, OneDialog DEF TypeIn
<1>4. ASSUME NEW d \in Dialogs, Cancel(d) PROVE DialogsOK'
  BY <1>4, ClosedOK DEF Cancel
<1>5. ASSUME NEW d \in Dialogs, NEW force \in BOOLEAN, StartTest(d, force) PROVE DialogsOK'
  <2>1. dlg[d] \in Dlgs /\ dlg[d].open /\ DialogOK(d) /\ dlg[d].in \in Inputs
    BY <1>0, <1>5 DEF StartTest, DialogOK
  <2>2. LoginOf(Usable(d)) \in Logins \cup {None}
    BY <2>1 DEF LoginOf, Usable, Dlgs, Stages
  <2>3. [snap |-> dlg[d].in, force |-> force, login |-> LoginOf(Usable(d)), result |-> Running] \in Tests
    BY <2>1, <2>2 DEF Tests
  <2>4. /\ dlg'[d].test = [snap |-> dlg[d].in, force |-> force, login |-> LoginOf(Usable(d)),
                           result |-> Running]
        /\ dlg'[d].in = dlg[d].in /\ dlg'[d].open = dlg[d].open /\ dlg'[d].staged = dlg[d].staged
        /\ dlg'[d] \in Dlgs /\ dlg' \in [Dialogs -> Dlgs]
        /\ \A e \in Dialogs \ {d} : dlg'[e] = dlg[e]
    BY <1>0, <1>5, <2>1, <2>3 DEF StartTest, Dlgs
  <2>5. DialogOK(d)'
    BY <2>1, <2>4, Records DEF DialogOK
  <2> QED
    BY <1>5, <2>4, <2>5, OneDialog DEF StartTest
<1>6. ASSUME NEW d \in Dialogs, RunTest(d) PROVE DialogsOK'
  <2>1. PICK found \in Stages \cup {None} : Result(d, found) /\ (found # None => Found(found))
    BY <1>6, TestEnds
  <2>2. dlg[d] \in Dlgs /\ DialogOK(d)
    BY <1>0
  <2>3. [snap |-> None, force |-> FALSE, login |-> None, result |-> found] \in Tests
    BY DEF Tests
  <2>4. /\ dlg'[d].test = [snap |-> None, force |-> FALSE, login |-> None, result |-> found]
        /\ dlg'[d].in = dlg[d].in /\ dlg'[d].open = dlg[d].open /\ dlg'[d].staged = dlg[d].staged
        /\ dlg'[d] \in Dlgs /\ dlg' \in [Dialogs -> Dlgs]
        /\ \A e \in Dialogs \ {d} : dlg'[e] = dlg[e]
    BY <1>0, <2>1, <2>2, <2>3 DEF Result, Dlgs
  <2>5. DialogOK(d)'
    BY <2>1, <2>2, <2>4, Records DEF DialogOK
  <2> QED
    BY <1>6, <2>4, <2>5, OneDialog DEF RunTest
<1>7. ASSUME NEW d \in Dialogs, FinishTest(d) PROVE DialogsOK'
  <2>1. dlg[d] \in Dlgs /\ DialogOK(d) /\ dlg[d].test \in Tests /\ dlg[d].test.result # Running
    BY <1>0, <1>7 DEF FinishTest, FinishWith, Dlgs
  <2> DEFINE kept == IF Fits(d) THEN dlg[d].test.result ELSE None
  <2>2. /\ kept \in Stages \cup {None}
        /\ kept # None => dlg[d].open /\ Matches(kept, dlg[d].in) /\ Found(kept)
    BY <1>7, <2>1 DEF Fits, DialogOK, Tests, FinishTest
  <2>3. /\ dlg'[d].staged = kept /\ dlg'[d].test = None
        /\ dlg'[d].in = dlg[d].in /\ dlg'[d].open = dlg[d].open
        /\ dlg'[d] \in Dlgs /\ dlg' \in [Dialogs -> Dlgs]
        /\ \A e \in Dialogs \ {d} : dlg'[e] = dlg[e]
    BY <1>0, <1>7, <2>1, <2>2 DEF FinishTest, FinishWith, Dlgs
  <2>4. DialogOK(d)'
    BY <2>1, <2>2, <2>3 DEF DialogOK
  <2>5. UNCHANGED <<client, ident, conf>>
    BY <1>7 DEF FinishTest, FinishWith
  <2> QED
    BY <2>3, <2>4, <2>5, OneDialog
<1>8. CASE CommitClient
  <2>1. save \in Saves
    BY <1>8, Records DEF SaveOK, CommitClient
  <2>2. client' \in Clients \cup {Client0}
    BY <1>0, <1>8, <2>1 DEF CommitClient, Saves, Inputs, Paths
  <2> QED
    BY <1>0, <1>8, <2>2 DEF CommitClient, DialogsOK, DialogOK
<1>9. CASE CommitIdent
  <2>1. save \in Saves
    BY <1>9, Records DEF SaveOK, CommitIdent
  <2>2. PICK s \in SUBSET Addresses : save.writes \in [s -> Mailboxes \cup {"untested"}]
    BY <2>1 DEF Saves
  <2>3. ident' \in [Addresses -> Mailboxes \cup {"absent", "untested"}]
    BY <1>0, <1>9, <2>2 DEF CommitIdent
  <2> QED
    BY <1>0, <1>9, <2>3 DEF CommitIdent, DialogsOK, DialogOK
<1>10. CASE CommitConf
  <2>1. save \in Saves
    BY <1>10, Records DEF SaveOK, CommitConf
  <2>2. conf' \in [mode: {"oauth", "dwd"}, email: Addresses, accounts: Lists]
    BY <1>0, <1>10, <2>1 DEF CommitConf, Saves, Inputs
  <2>3. /\ dlg' \in [Dialogs -> Dlgs]
        /\ \A d \in Dialogs : dlg'[d] = dlg[d] \/ dlg'[d] = Closed
    BY <1>0, <1>10, Records DEF CommitConf
  <2>4. \A d \in Dialogs : DialogOK(d)'
    BY <1>0, <2>3, Records DEF DialogOK
  <2> QED
    BY <1>0, <1>10, <2>2, <2>3, <2>4 DEF CommitConf, DialogsOK
<1>11. CASE TrayDies
  <2>1. dlg' \in [Dialogs -> Dlgs] /\ \A d \in Dialogs : dlg'[d] = Closed
    BY <1>11, Records DEF TrayDies
  <2>2. \A d \in Dialogs : DialogOK(d)'
    BY <2>1, Records DEF DialogOK
  <2> QED
    BY <1>0, <1>11, <2>1, <2>2 DEF TrayDies, DialogsOK
<1>12. CASE \/ \E d \in Dialogs : AskSave(d)
            \/ StopForSave \/ CommitToken \/ WriteToken \/ InstallToken \/ CommitFails
  BY <1>1, <1>12 DEF AskSave, StopForSave, CommitToken, WriteToken, InstallToken, CommitFails, dialogVars
<1>13. CASE Monitor \/ UNCHANGED vars
  BY <1>1, <1>13, MonitorKinds DEF vars, dialogVars
<1> QED
  BY <1>2, <1>3, <1>4, <1>5, <1>6, <1>7, <1>8, <1>9, <1>10, <1>11, <1>12, <1>13 DEF Next, TrayStep

-----------------------------------------------------------------------------
(* The Save.                                                               *)

LEMMA PlanOK ==
    ASSUME DialogsOK, NEW d \in Dialogs, dlg[d].in \in Inputs
    PROVE  /\ Plan(d) \in Saves /\ Plan(d).login = LoginOf(Usable(d)) /\ Agree(Plan(d))
           /\ Plan(d).pc = "stop" /\ ~Plan(d).early
<1> DEFINE staged == Usable(d)
           in == dlg[d].in
           ids == IF staged = None THEN <<>> ELSE staged.ids
<1>1. /\ staged \in Stages \cup {None}
      /\ staged # None => Found(staged) /\ staged.mode = in.mode
  BY DEF Usable, DialogsOK, DialogOK, Dlgs
<1>2. in \in Inputs
  OBVIOUS
<1>3. Accounts(in) \in SUBSET Addresses
  BY CredentialsAssumption, <1>2 DEF Accounts, Inputs, CredentialsAssumption
<1>4. \A a \in DOMAIN ids : staged # None /\ ids[a] = staged.ids[a] /\ ids[a] \in Mailboxes
  <2>1. CASE staged = None
    <3>1. DOMAIN ids = {}
      BY <2>1
    <3> QED
      BY <3>1
  <2>2. CASE staged # None
    <3>1. PICK s \in SUBSET Addresses : staged.ids \in [s -> Mailboxes]
      BY <1>1, <2>2 DEF Stages
    <3> QED
      BY <2>2, <3>1
  <2> QED
    BY <2>1, <2>2
<1> DEFINE writes == IdentityWrites(in, ids)
<1>5. PICK s \in SUBSET Accounts(in) :
         writes = [a \in s |-> IF a \in Accounts(in) \cap DOMAIN ids THEN ids[a] ELSE "untested"]
  <2> HIDE DEF ids, in
  <2> QED
    BY DEF IdentityWrites
<1>6. s \in SUBSET Addresses /\ writes \in [s -> Mailboxes \cup {"untested"}]
  <2> HIDE DEF writes, ids, in
  <2> QED
    BY <1>3, <1>4, <1>5
<1>7. \A a \in DOMAIN writes : writes[a] \in Mailboxes => a \in DOMAIN ids /\ writes[a] = ids[a]
  <2> HIDE DEF writes, ids, in
  <2> QED
    BY <1>5, CredentialsAssumption DEF CredentialsAssumption
<1> DEFINE seen == IF staged = None THEN None ELSE staged.seen
<1>8. seen \in Logins \cup {None} /\ LoginOf(staged) \in Logins \cup {None}
  BY <1>1, <1>2 DEF Stages, LoginOf
<1>9. Plan(d) = [pc |-> "stop", dialog |-> d, in |-> in, login |-> LoginOf(staged),
                 writes |-> writes, seen |-> seen, early |-> FALSE]
  BY DEF Plan, PlanWith
<1>10. Plan(d) \in Saves
  <2>1. writes \in UNION {[r -> Mailboxes \cup {"untested"}] : r \in SUBSET Addresses}
    BY <1>6
  <2> HIDE DEF writes, seen
  <2> QED
    BY <1>2, <1>8, <1>9, <2>1 DEF Saves
<1>11. in.mode = "oauth" =>
          \A a \in DOMAIN writes : writes[a] \in Mailboxes =>
              /\ LoginOf(staged) = None => seen \in Logins
              /\ writes[a] = BoxOf(LoginOf(staged), seen)
  <2> SUFFICES ASSUME in.mode = "oauth", NEW a \in DOMAIN writes, writes[a] \in Mailboxes
               PROVE  /\ LoginOf(staged) = None => seen \in Logins
                      /\ writes[a] = BoxOf(LoginOf(staged), seen)
    OBVIOUS
  <2>1. a \in DOMAIN ids /\ writes[a] = ids[a]
    BY <1>7
  <2>2. staged # None /\ writes[a] = staged.ids[a] /\ a \in DOMAIN staged.ids
    BY <1>4, <2>1
  <2>3. staged.mode = "oauth" /\ LoginOf(staged) = staged.login /\ seen = staged.seen
    BY <1>1, <2>2 DEF LoginOf
  <2> HIDE DEF writes, ids, seen, staged
  <2> QED
    BY <1>1, <2>2, <2>3 DEF Found
<1> HIDE DEF writes, seen, staged, ids
<1> QED
  BY <1>9, <1>10, <1>11 DEF in, staged, Agree

LEMMA SaveStep ==
    ASSUME TrayOK, DialogsOK, SaveOK, [Next]_vars
    PROVE  SaveOK'
<1>1. CASE UNCHANGED <<save, installed>>
  BY <1>1 DEF SaveOK
<1>2. CASE save' = NoSave
  BY <1>2 DEF SaveOK
<1>3. ASSUME NEW d \in Dialogs, AskSave(d) PROVE SaveOK'
  <2>1. dlg[d].in \in Inputs
    BY <1>3 DEF AskSave, DialogsOK, DialogOK
  <2>2. save' = Plan(d)
    BY <1>3 DEF AskSave
  <2> QED
    BY <2>1, <2>2, PlanOK DEF SaveOK
\* The Save goes on to its next file.
<1>4. ASSUME save # NoSave,
             NEW s \in {"client", "token", "writing", "ident", "conf"}, save' = [save EXCEPT !.pc = s],
             s \in {"ident", "conf"} /\ save.login # None => installed' = save.login
      PROVE  SaveOK'
  <2>1. save \in Saves /\ Agree(save)
    BY <1>4 DEF SaveOK
  <2>2. /\ save' \in Saves /\ save'.pc = s /\ save'.login = save.login /\ save'.in = save.in
        /\ save'.writes = save.writes /\ save'.seen = save.seen
    BY <1>4, <2>1 DEF Saves
  <2>3. Agree(save')
    BY <2>1, <2>2 DEF Agree
  <2> QED
    BY <1>4, <2>2, <2>3 DEF SaveOK
<1>5. CASE StopForSave
  BY <1>4, <1>5, Records DEF StopForSave
<1>6. CASE CommitClient
  BY <1>4, <1>6, Records DEF CommitClient
<1>7. CASE CommitToken
  BY <1>4, <1>7, Records DEF CommitToken
<1>8. CASE CommitIdent
  <2>1. save # NoSave /\ UNCHANGED installed /\ save' = [save EXCEPT !.pc = "conf"] /\ save.pc = "ident"
    BY <1>8, Records DEF CommitIdent, tokenVars, files, history
  <2> QED
    BY <1>4, <2>1 DEF SaveOK
<1>9. CASE CommitConf \/ GivesUp
  BY <1>2, <1>9 DEF CommitConf, GivesUp
<1>10. ASSUME NEW d \in Dialogs,
              \/ OpenDialog(d) \/ Cancel(d) \/ FinishTest(d) \/ RunTest(d)
              \/ \E in \in Inputs : TypeIn(d, in)
              \/ \E force \in BOOLEAN : StartTest(d, force)
       PROVE  UNCHANGED <<save, installed>>
  BY <1>10 DEF OpenDialog, Cancel, FinishTest, FinishWith, RunTest, TypeIn, StartTest,
     tokenVars, files, history
<1>11. CASE InstallToken
  <2>1. save.pc = "writing" /\ save # NoSave
    BY <1>11, Records DEF InstallToken, TrayOK, AtStep
  <2> QED
    BY <1>2, <1>4, <1>11, <2>1 DEF InstallToken
<1>12. CASE MonitorStartsEarly
  <2>1. /\ save # NoSave /\ save' = [save EXCEPT !.early = TRUE] /\ UNCHANGED installed
        /\ save.pc \in {"client", "token", "writing"}
    BY <1>12, Records DEF MonitorStartsEarly, LoginAhead, history
  <2>2. /\ save' \in Saves /\ save'.pc = save.pc /\ save'.login = save.login /\ save'.in = save.in
        /\ save'.writes = save.writes /\ save'.seen = save.seen
    BY <2>1 DEF SaveOK, Saves
  <2>3. Agree(save')
    BY <2>1, <2>2 DEF SaveOK, Agree
  <2> QED
    BY <2>1, <2>2, <2>3 DEF SaveOK
<1>13. CASE Monitor
  BY <1>1, <1>12, <1>13, MonitorKinds DEF MonitorStarts, dialogVars
<1>14. CASE UNCHANGED vars
  BY <1>1, <1>14 DEF vars, tokenVars, files, history, dialogVars
<1>15. CASE CommitFails \/ TrayDies
  BY <1>2, <1>15 DEF CommitFails, TrayDies
<1>16. CASE WriteToken
  BY <1>1, <1>16 DEF WriteToken, OpenTemp, WriteTemp, CloseTemp, history, dialogVars
<1> QED
  BY <1>3, <1>1, <1>5, <1>6, <1>7, <1>8, <1>9, <1>10, <1>11, <1>13, <1>14, <1>15, <1>16
     DEF Next, TrayStep

-----------------------------------------------------------------------------
(* Void logins.                                                            *)

LEMMA Drops ==
    ASSUME NEW s \in Stages \cup {None}, NEW k
    PROVE  /\ \A l \in Dropped(s, k) : s # None /\ l = s.login /\ l \in Logins
           /\ Dropped(s, s) = {}
           /\ s # None /\ s.login # None => Dropped(s, None) = {s.login}
  BY DEF Dropped, Stages

\* No dialog gets hold of a login, and none becomes void.
LEMMA VoidShrinks ==
    ASSUME VoidOK, UNCHANGED <<logins, void>>,
           \A d \in Dialogs, l \in Logins : Has(d, l)' => Has(d, l),
           \A d \in Dialogs : dlg'[d].staged # None => dlg'[d].staged = dlg[d].staged,
           save' # NoSave => save'.login \notin void
    PROVE  VoidOK'
<1>1. \A d, e \in Dialogs, l \in Logins : Has(d, l)' /\ Has(e, l)' => d = e
  BY DEF VoidOK
<1> QED
  BY <1>1 DEF VoidOK

\* One dialog may get hold of the login that is new, and what becomes void it had.
LEMMA VoidOfOne ==
    ASSUME VoidOK, DialogsOK, NEW d \in Dialogs, UNCHANGED save,
           \A e \in Dialogs \ {d} : dlg'[e] = dlg[e],
           \/ UNCHANGED logins /\ \A l \in Logins : Has(d, l)' => Has(d, l)
           \/ /\ logins' = logins + 1 /\ logins' \in 0..MaxLogins
              /\ \A l \in Logins : Has(d, l)' => Has(d, l) \/ l.n = logins',
           \A l \in void' : l \in void \/ (l \in Logins /\ Has(d, l)),
           dlg'[d].staged # None => dlg'[d].staged.login \notin void',
           save # NoSave => save.login \notin void'
    PROVE  VoidOK'
<1>0. /\ logins \in 0..MaxLogins /\ MaxLogins \in Nat
      /\ \A l \in void : l \in Logins /\ l.n <= logins
      /\ \A e \in Dialogs, l \in Logins : Has(e, l) => l.n <= logins
      /\ \A e, f \in Dialogs, l \in Logins : Has(e, l) /\ Has(f, l) => e = f
      /\ \A e \in Dialogs : dlg[e].staged # None => dlg[e].staged.login \notin void
      /\ \A l \in Logins : l.n \in Nat
  BY TokenAssumption DEF VoidOK, TokenAssumption, Logins
<1>1. /\ logins' \in 0..MaxLogins /\ logins <= logins'
      /\ \A l \in Logins : Has(d, l)' => Has(d, l) \/ (l.n = logins' /\ ~(l.n <= logins))
  BY <1>0
<1>2. \A e \in Dialogs \ {d}, l \in Logins : Has(e, l)' <=> Has(e, l)
  BY DEF Has
<1>3. \A l \in void' : l \in Logins /\ l.n <= logins'
  BY <1>0, <1>1
<1>4. \A e \in Dialogs, l \in Logins : Has(e, l)' => l.n <= logins'
  <2> SUFFICES ASSUME NEW e \in Dialogs, NEW l \in Logins, Has(e, l)' PROVE l.n <= logins'
    OBVIOUS
  <2>1. Has(e, l) \/ l.n = logins'
    BY <1>1, <1>2
  <2> QED
    BY <1>0, <1>1, <2>1
<1>5. \A e, f \in Dialogs, l \in Logins : Has(e, l)' /\ Has(f, l)' => e = f
  BY <1>0, <1>1, <1>2
<1>6. \A e \in Dialogs : dlg'[e].staged # None => dlg'[e].staged.login \notin void'
  <2> SUFFICES ASSUME NEW e \in Dialogs \ {d}, dlg[e].staged # None, dlg[e].staged.login \in void'
               PROVE  FALSE
    OBVIOUS
  <2>1. dlg[e].staged.login \in Logins /\ Has(d, dlg[e].staged.login)
    BY <1>0
  <2>2. Has(e, dlg[e].staged.login)
    BY DEF Has
  <2> QED
    BY <1>0, <2>1, <2>2
<1> QED
  BY <1>1, <1>3, <1>4, <1>5, <1>6 DEF VoidOK

LEMMA VoidStep ==
    ASSUME TrayOK, DialogsOK, SaveOK, VoidOK, [Next]_vars
    PROVE  VoidOK'
<1>0. /\ dlg \in [Dialogs -> Dlgs] /\ \A d \in Dialogs : DialogOK(d)
      /\ logins \in 0..MaxLogins
      /\ \A d \in Dialogs : dlg[d].staged # None => dlg[d].staged.login \notin void
      /\ save # NoSave => save.login \notin void
      /\ None \notin void
  BY Special DEF DialogsOK, VoidOK
<1>1. CASE UNCHANGED <<dlg, logins, void>> /\ (save' = NoSave \/ UNCHANGED save)
  BY <1>0, <1>1, VoidShrinks DEF Has
<1>2. ASSUME NEW d \in Dialogs, OpenDialog(d) PROVE VoidOK'
  <2>1. /\ dlg'[d].staged = None /\ dlg'[d].test = None
        /\ \A e \in Dialogs \ {d} : dlg'[e] = dlg[e]
    BY <1>0, <1>2 DEF OpenDialog, Closed
  <2>2. \A e \in Dialogs, l \in Logins : Has(e, l)' => Has(e, l)
    BY <2>1 DEF Has
  <2> QED
    BY <1>0, <1>2, <2>1, <2>2, VoidShrinks DEF OpenDialog
<1>3. ASSUME NEW d \in Dialogs, NEW in \in Inputs, TypeIn(d, in) PROVE VoidOK'
  <2> DEFINE s == dlg[d].staged
  <2>1. /\ dlg'[d].staged = IF Matches(s, in) THEN s ELSE None
        /\ dlg'[d].test = dlg[d].test /\ s \in Stages \cup {None}
        /\ \A e \in Dialogs \ {d} : dlg'[e] = dlg[e]
    BY <1>0, <1>3 DEF TypeIn, Dlgs
  <2>2. void' = void \cup Dropped(s, Vouched(s, in)) /\ UNCHANGED <<save, logins>> /\ save = NoSave
    BY <1>3 DEF TypeIn
  <2>3. \A l \in Logins : Has(d, l)' => Has(d, l)
    BY <2>1 DEF Has
  <2>4. \A l \in void' : l \in void \/ (l \in Logins /\ Has(d, l))
    BY <2>1, <2>2, Drops DEF Has
  <2>5. dlg'[d].staged # None => dlg'[d].staged.login \notin void'
    <3> SUFFICES ASSUME Matches(s, in) PROVE s.login \notin void'
      BY <2>1
    <3>1. Vouched(s, in) = s
      BY <2>1 DEF Vouched, Matches
    <3>2. Dropped(s, Vouched(s, in)) = {}
      BY <2>1, <3>1, Drops
    <3> QED
      BY <1>0, <2>2, <3>2 DEF Matches
  <2> QED
    BY <2>1, <2>2, <2>3, <2>4, <2>5, VoidOfOne
<1>4. ASSUME NEW d \in Dialogs, Cancel(d) PROVE VoidOK'
  <2>1. /\ dlg'[d].staged = None /\ dlg'[d].test = dlg[d].test
        /\ dlg[d].staged \in Stages \cup {None}
        /\ \A e \in Dialogs \ {d} : dlg'[e] = dlg[e]
    BY <1>0, <1>4 DEF Cancel, Closed, Dlgs
  <2>2. void' = void \cup Dropped(dlg[d].staged, None) /\ UNCHANGED <<save, logins>> /\ save = NoSave
    BY <1>4 DEF Cancel
  <2>3. \A l \in Logins : Has(d, l)' => Has(d, l)
    BY <2>1 DEF Has
  <2>4. \A l \in void' : l \in void \/ (l \in Logins /\ Has(d, l))
    BY <2>1, <2>2, Drops DEF Has
  <2> QED
    BY <2>1, <2>2, <2>3, <2>4, VoidOfOne
<1>5. ASSUME NEW d \in Dialogs, NEW force \in BOOLEAN, StartTest(d, force) PROVE VoidOK'
  <2>1. /\ dlg'[d].staged = dlg[d].staged
        /\ dlg'[d].test = [snap |-> dlg[d].in, force |-> force, login |-> LoginOf(Usable(d)),
                           result |-> Running]
        /\ \A e \in Dialogs \ {d} : dlg'[e] = dlg[e]
    BY <1>0, <1>5 DEF StartTest, Dlgs
  <2>2. \A l \in Logins : Has(d, l)' => Has(d, l)
    <3> SUFFICES ASSUME NEW l \in Logins, Has(d, l)' PROVE Has(d, l)
      OBVIOUS
    <3>1. (dlg[d].staged # None /\ dlg[d].staged.login = l) \/ LoginOf(Usable(d)) = l
      BY <2>1, Records DEF Has
    <3> QED
      BY <3>1, Special DEF Has, LoginOf, Usable
  <2>3. UNCHANGED <<logins, void, save>>
    BY <1>5 DEF StartTest
  <2>4. \A e \in Dialogs, l \in Logins : Has(e, l)' => Has(e, l)
    BY <2>1, <2>2 DEF Has
  <2>5. \A e \in Dialogs : dlg'[e].staged = dlg[e].staged
    BY <2>1
  <2> QED
    BY <1>0, <2>3, <2>4, <2>5, VoidShrinks
<1>6. ASSUME NEW d \in Dialogs, RunTest(d) PROVE VoidOK'
  <2>1. PICK found \in Stages \cup {None} :
              /\ Result(d, found)
              /\ \/ UNCHANGED logins /\ (found # None => found.login \in {None, dlg[d].test.login})
                 \/ /\ logins' = logins + 1 /\ logins' \in 0..MaxLogins
                    /\ found # None /\ found.login \in Logins /\ found.login.n = logins'
    BY <1>0, <1>6, TestEnds
  <2>2. /\ dlg'[d].staged = dlg[d].staged
        /\ dlg'[d].test = [snap |-> None, force |-> FALSE, login |-> None, result |-> found]
        /\ \A e \in Dialogs \ {d} : dlg'[e] = dlg[e]
    BY <1>0, <2>1 DEF Result, Dlgs
  <2>3. \A l \in Logins : Has(d, l)' =>
           \/ dlg[d].staged # None /\ dlg[d].staged.login = l
           \/ found # None /\ found.login = l
    BY <2>2, Special, Records DEF Has
  <2>4. /\ dlg[d].test # None
        /\ UNCHANGED <<save, void>>
    BY <1>6 DEF RunTest
  <2>5. \/ UNCHANGED logins /\ \A l \in Logins : Has(d, l)' => Has(d, l)
        \/ /\ logins' = logins + 1 /\ logins' \in 0..MaxLogins
           /\ \A l \in Logins : Has(d, l)' => Has(d, l) \/ l.n = logins'
    BY <2>1, <2>3, <2>4, Special DEF Has
  <2> QED
    BY <1>0, <2>2, <2>4, <2>5, VoidOfOne
<1>7. ASSUME NEW d \in Dialogs, FinishTest(d) PROVE VoidOK'
  <2> DEFINE found == dlg[d].test.result
             shown == IF dlg[d].open THEN Vouched(found, dlg[d].in) ELSE None
  <2>1. /\ dlg'[d].staged = IF Fits(d) THEN found ELSE None
        /\ dlg'[d].test = None
        /\ \A e \in Dialogs \ {d} : dlg'[e] = dlg[e]
    BY <1>0, <1>7 DEF FinishTest, FinishWith, Dlgs
  <2>2. /\ found \in Stages \cup {None} /\ dlg[d].staged \in Stages \cup {None}
        /\ dlg[d].test # None /\ UNCHANGED <<save, logins>> /\ save = NoSave
        /\ void' = (void \cup Dropped(found, shown) \cup Dropped(dlg[d].staged, found))
                       \ Dropped(shown, None)
    BY <1>0, <1>7 DEF FinishTest, FinishWith, Dlgs, Tests
  <2>3. \A l \in Logins : Has(d, l)' => Has(d, l)
    BY <2>1, <2>2, Special, Records DEF Has, Fits, Matches
  <2>4. \A l \in void' : l \in void \/ (l \in Logins /\ Has(d, l))
    <3> HIDE DEF shown
    <3>1. \A l \in Dropped(found, shown) : l \in Logins /\ found # None /\ found.login = l
      BY <2>2, Drops
    <3>2. \A l \in Dropped(dlg[d].staged, found) :
             l \in Logins /\ dlg[d].staged # None /\ dlg[d].staged.login = l
      BY <2>2, Drops
    <3> QED
      BY <2>2, <3>1, <3>2 DEF Has
  <2>5. dlg'[d].staged # None => dlg'[d].staged.login \notin void'
    <3> SUFFICES ASSUME Fits(d), found # None PROVE found.login \notin void'
      BY <2>1
    <3>1. shown = found
      BY DEF Fits, Vouched, Matches
    <3>2. CASE found.login = None
      BY <2>4, <3>2, <1>0, Special
    <3>3. CASE found.login # None
      <4>1. Dropped(shown, None) = {found.login}
        BY <2>2, <3>1, <3>3, Drops
      <4> QED
        BY <2>2, <4>1
    <3> QED
      BY <3>2, <3>3
  <2> HIDE DEF shown, found
  <2> QED
    BY <2>1, <2>2, <2>3, <2>4, <2>5, VoidOfOne
<1>8. ASSUME NEW d \in Dialogs, AskSave(d) PROVE VoidOK'
  <2>1. save' = Plan(d) /\ UNCHANGED <<dlg, logins, void>> /\ dlg[d].in \in Inputs
    BY <1>0, <1>8 DEF AskSave, DialogOK
  <2>2. save'.login = LoginOf(Usable(d))
    BY <2>1, PlanOK
  <2>3. save'.login \notin void
    BY <1>0, <2>2 DEF LoginOf, Usable
  <2> QED
    BY <1>0, <2>1, <2>3, VoidShrinks DEF Has
<1>9. CASE StopForSave \/ CommitClient \/ CommitToken \/ CommitIdent
  <2>1. /\ save \in Saves /\ save # NoSave /\ UNCHANGED <<dlg, logins, void>>
        /\ \E s \in {"client", "token", "writing", "ident", "conf"} : save' = [save EXCEPT !.pc = s]
    BY <1>9, Records DEF SaveOK, StopForSave, CommitClient, CommitToken, CommitIdent
  <2>2. save'.login = save.login
    BY <2>1 DEF Saves
  <2> QED
    BY <1>0, <2>1, <2>2, VoidShrinks DEF Has
<1>10. CASE CommitConf \/ TrayDies
  <2>1. /\ \A d \in Dialogs : dlg'[d] = dlg[d] \/ dlg'[d] = Closed
        /\ UNCHANGED <<logins, void>> /\ save' = NoSave
    BY <1>0, <1>10 DEF CommitConf, TrayDies
  <2>2. \A d \in Dialogs, l \in Logins : Has(d, l)' => Has(d, l)
    BY <2>1, Records DEF Has
  <2>3. \A d \in Dialogs : dlg'[d].staged # None => dlg'[d].staged = dlg[d].staged
    BY <2>1, Records
  <2> QED
    BY <2>1, <2>2, <2>3, VoidShrinks
<1>11. CASE CommitFails
  BY <1>1, <1>11 DEF CommitFails
<1>12. CASE InstallToken \/ MonitorStartsEarly
  <2>1. /\ save \in Saves /\ save # NoSave /\ UNCHANGED <<dlg, logins, void>>
        /\ save' \in {NoSave, [save EXCEPT !.pc = "ident"], [save EXCEPT !.early = TRUE]}
    BY <1>12, Records DEF SaveOK, TrayOK, AtStep, LoginAhead, InstallToken, MonitorStartsEarly
  <2>2. save' # NoSave => save'.login = save.login
    BY <2>1 DEF Saves
  <2> QED
    BY <1>0, <2>1, <2>2, VoidShrinks DEF Has
<1>13. CASE WriteToken \/ UNCHANGED vars
  BY <1>1, <1>13 DEF WriteToken, vars, dialogVars
<1>14. CASE Monitor
  BY <1>1, <1>12, <1>14, MonitorKinds DEF MonitorStarts, dialogVars
<1> QED
  BY <1>2, <1>3, <1>4, <1>5, <1>6, <1>7, <1>8, <1>9, <1>10, <1>11, <1>12, <1>13, <1>14
     DEF Next, TrayStep

-----------------------------------------------------------------------------
(* The inductive invariant.                                                *)

LEMMA CredInvInit == Init => CredInv
<1> SUFFICES ASSUME Init PROVE CredInv
  OBVIOUS
<1>0. TokenInit /\ \A t \in Writers : th[t] = Resting
  BY DEF Init, TokenInit
<1>1. FilesOK
  <2>1. installed \in Logins
    BY <1>0, TokenAssumption DEF TokenInit, Logins, TokenAssumption
  <2>2. th \in [Writers -> Steps] /\ \A t \in Writers : ~Bearing(t)
    BY <1>0, Records DEF TokenInit, Bearing
  <2> QED
    BY <1>0, <2>1, <2>2 DEF Init, TokenInit, FilesOK
<1>2. LoginOK /\ TrayOK
  BY <1>0, Special, Records, TheWriters
     DEF Init, TokenInit, LoginOK, LoginStays, Readable, Bearing, Filled, TrayOK, LoginAhead, AtStep
<1>3. WriterOK
  BY <1>0, Records DEF WriterOK, AtStep, Busy, Filled
<1>4. \A d \in Dialogs : dlg[d] = Closed
  BY DEF Init
<1>5. DialogsOK
  <2>1. PICK a \in Addresses :
          /\ conf = [mode |-> "oauth", email |-> a, accounts |-> {}]
          /\ \E r \in {"untested", installed.box} :
                ident = [b \in Addresses |-> IF b = a THEN r ELSE "absent"]
    BY DEF Init
  <2>2. conf \in [mode: {"oauth", "dwd"}, email: Addresses, accounts: Lists]
    BY <2>1, CredentialsAssumption DEF CredentialsAssumption
  <2>3. ident \in [Addresses -> Mailboxes \cup {"absent", "untested"}]
    <3>1. installed.box \in Mailboxes
      BY <1>1 DEF FilesOK, Logins
    <3> QED
      BY <2>1, <3>1
  <2>4. dlg \in [Dialogs -> Dlgs] /\ \A d \in Dialogs : DialogOK(d)
    BY <1>4, Records DEF Init, DialogOK
  <2> QED
    BY <2>2, <2>3, <2>4 DEF DialogsOK, Init
<1>6. SaveOK
  BY DEF Init, SaveOK
<1>7. VoidOK
  <2>1. \A d \in Dialogs, l \in Logins : ~Has(d, l)
    BY <1>4, Records DEF Has
  <2>2. logins \in 0..MaxLogins /\ void = {} /\ save = NoSave
    BY TokenAssumption DEF Init, TokenAssumption
  <2> QED
    BY <1>4, <2>1, <2>2, Records DEF VoidOK
<1> QED
  BY <1>1, <1>2, <1>3, <1>5, <1>6, <1>7 DEF CredInv

LEMMA CredInvStep == CredInv /\ [Next]_vars => CredInv'
<1> SUFFICES ASSUME CredInv, [Next]_vars PROVE CredInv'
  OBVIOUS
<1>1. FilesOK /\ TrayOK /\ LoginOK /\ WriterOK /\ DialogsOK /\ SaveOK /\ VoidOK /\ logins \in 0..MaxLogins
  BY DEF CredInv, VoidOK
<1> QED
  BY <1>1, FilesStep, TrayStepOK, LoginStep, WriterStep, DialogsStep, SaveStep, VoidStep DEF CredInv

LEMMA CredInvHolds == Spec => []CredInv
  BY CredInvInit, CredInvStep, PTL DEF Spec

-----------------------------------------------------------------------------
(* What follows.                                                           *)

\* Types, whatever the user types and whichever thread is killed: a dialog never
\* holds a result that is not of its values, and token.json is never a text half
\* written or mixed but for a clash (_finish_test, _save_token).
THEOREM TypeCorrect == Spec => []TypeOK
<1>1. CredInv => TypeOK
  <2> SUFFICES ASSUME CredInv PROVE TypeOK
    OBVIOUS
  <2>1. \A d \in Dialogs :
          /\ dlg[d].open => dlg[d].in \in Inputs
          /\ dlg[d].staged # None => dlg[d].open /\ dlg[d].staged \in Stages
                                         /\ Matches(dlg[d].staged, dlg[d].in)
    BY DEF CredInv, DialogsOK, DialogOK, Dlgs
  <2>2. save.pc \in {"none", "stop", "client", "token", "writing", "ident", "conf"}
    BY Records DEF CredInv, SaveOK, Saves
  <2> QED
    BY <2>1, <2>2 DEF CredInv, FilesOK, DialogsOK, TypeOK, Steps
<1> QED
  BY <1>1, CredInvHolds, PTL

\* No thread writes the refreshed credentials of an earlier login over the one a
\* Save installed (_save_token, install_oauth_token): the Save stops the monitor
\* first.  Only one started while the Save went on may, before the login was
\* installed.
THEOREM LoginNeverUndone == Spec => []LoginStays
<1>1. CredInv => LoginStays
  BY DEF CredInv, LoginOK
<1> QED
  BY <1>1, CredInvHolds, PTL

\* A token.json that can be read stays one through kills, failing writes and
\* moves, refreshes and Saves, unless two writes overlapped (_save_token) or a
\* thread that failed to read it moves it away (_backup_bad_token).
THEOREM TokenNeverLost == Spec => TokenKept
<1> DEFINE Kept == \/ Readable(token') \/ clash'
                   \/ \E t \in Threads : BackupBadToken(t)
<1>1. CredInv /\ [Next]_vars => [Readable(token) => Kept]_vars
  <2> SUFFICES ASSUME CredInv, [Next]_vars, Readable(token), ~clash' PROVE Kept
    OBVIOUS
  <2>1. CASE UNCHANGED token
    BY <2>1 DEF Readable
  <2>2. ASSUME NEW t \in Writers, AtStep(t, "closed"), Replace, UNCHANGED clash
        PROVE  Readable(token')
    <3>1. temp \in Creds
      BY <2>2 DEF CredInv, WriterOK, Filled, AtStep
    <3> QED
      BY <2>2, <3>1, Texts DEF Replace, Readable
  <2>3. CASE InstallToken
    BY <2>1, <2>2, <2>3, TheWriters DEF InstallToken
  <2>4. ASSUME NEW t \in Threads, MonitorThread(t) PROVE Kept
    <3>1. CASE Publish(t)
      BY <2>1, <2>2, <3>1, TheWriters DEF Publish, history
    <3>2. CASE BackupBadToken(t)
      BY <3>2
    <3>3. CASE ReadToken(t) \/ WriteStep(t) \/ PublishFails(t)
      BY <2>1, <3>3 DEF ReadToken, WriteStep, OpenTemp, WriteTemp, CloseTemp, PublishFails
    <3> QED
      BY <2>4, <3>1, <3>2, <3>3 DEF MonitorThread, WriteStep
  <2>5. CASE \/ Quiet \/ GivesUp \/ StopForSave \/ CommitToken \/ WriteStep(Tray)
             \/ MonitorStarts \/ MonitorStartsEarly \/ MonitorEnds
    BY <2>1, <2>5 DEF Quiet, fileVars, GivesUp, StopForSave, CommitToken, WriteStep, OpenTemp,
       WriteTemp, CloseTemp, MonitorStarts, MonitorStartsEarly, MonitorEnds
  <2> QED
    BY <2>3, <2>4, <2>5, Kinds DEF CredInv
<1> QED
  BY <1>1, CredInvHolds, PTL DEF Spec, TokenKept

\* The login is installed by a Save's InstallToken alone, and the identities are
\* written by CommitIdent alone.
LEMMA Commits ==
    ASSUME CredInv, [Next]_vars
    PROVE  /\ UNCHANGED installed \/ InstallToken
           /\ UNCHANGED ident \/ CommitIdent
<1>1. UNCHANGED installed \/ InstallToken
  BY Kinds DEF CredInv, Quiet, fileVars, GivesUp, StopForSave, CommitToken, MonitorStarts,
     MonitorStartsEarly, MonitorEnds, history
<1>2. UNCHANGED ident \/ CommitIdent
  <2>1. ASSUME NEW d \in Dialogs,
               \/ OpenDialog(d) \/ Cancel(d) \/ FinishTest(d) \/ RunTest(d) \/ AskSave(d)
               \/ \E in \in Inputs : TypeIn(d, in)
               \/ \E force \in BOOLEAN : StartTest(d, force)
        PROVE  UNCHANGED ident
    BY <2>1 DEF OpenDialog, Cancel, FinishTest, FinishWith, RunTest, AskSave, TypeIn, StartTest
  <2>2. CASE \/ StopForSave \/ CommitClient \/ CommitToken \/ WriteToken \/ InstallToken \/ CommitConf
             \/ CommitFails \/ TrayDies
    BY <2>2 DEF StopForSave, CommitClient, CommitToken, WriteToken, InstallToken, CommitConf,
       CommitFails, TrayDies, dialogVars
  <2>3. CASE Monitor \/ UNCHANGED vars
    BY <2>3, MonitorKinds DEF vars, dialogVars
  <2> QED
    BY <2>1, <2>2, <2>3 DEF Next, TrayStep
<1> QED
  BY <1>1, <1>2

\* A Save never installs a login of a dialog that was cancelled, of a test that
\* another one replaced or of values that were changed (_finish_test,
\* _discard_stale_stage, _save_plan).
THEOREM NoVoidLogin == Spec => NothingVoid
<1>1. CredInv /\ [Next]_vars => [installed' # installed => installed' \notin void]_vars
  <2> SUFFICES ASSUME CredInv, [Next]_vars, installed' # installed PROVE installed' \notin void
    OBVIOUS
  <2>1. InstallToken /\ installed' = save.login
    BY Commits DEF InstallToken
  <2>2. save # NoSave
    BY <2>1, Records DEF InstallToken, CredInv, TrayOK, AtStep
  <2> QED
    BY <2>1, <2>2 DEF CredInv, VoidOK
<1> QED
  BY <1>1, CredInvHolds, PTL DEF Spec, NothingVoid

\* The mailbox a Save records for an OAuth account is the one the login opens that
\* is installed then: both come from one and the same result (_save_plan), unless
\* its test had read another login in token.json.
THEOREM RecordsWhatItInstalled == Spec => RecordedIsInstalled
<1> DEFINE A == \A a \in Addresses :
          ident'[a] # ident[a] /\ ident'[a] \in Mailboxes /\ save.in.mode = "oauth"
          => save.seen \notin {None, installed} \/ ident'[a] = installed.box
<1>1. CredInv /\ [Next]_vars => [A]_vars
  <2> SUFFICES ASSUME CredInv, [Next]_vars, NEW a \in Addresses,
                      ident'[a] # ident[a], ident'[a] \in Mailboxes, save.in.mode = "oauth",
                      save.seen \in {None, installed}
               PROVE  ident'[a] = installed.box
    OBVIOUS
  <2>1. CommitIdent /\ save # NoSave
    BY Commits, Records DEF CommitIdent
  <2>2. a \in DOMAIN save.writes /\ ident'[a] = save.writes[a] /\ save.pc = "ident"
    BY <2>1 DEF CommitIdent
  <2>3. /\ save.login = None => save.seen \in Logins
        /\ save.writes[a] = BoxOf(save.login, save.seen)
        /\ save.login # None => installed = save.login
    BY <2>1, <2>2 DEF CredInv, SaveOK, Agree
  <2> QED
    BY <2>2, <2>3, Special DEF BoxOf
<1> QED
  BY <1>1, CredInvHolds, PTL DEF Spec, RecordedIsInstalled
=============================================================================
