--------------------------- MODULE MailScanProofs ---------------------------
(***************************************************************************)
(* The scanner, the cursors and the Save for any number of addresses,      *)
(* messages and credential files and any overlap: types, that no mail is   *)
(* skipped and that none goes to another account, but for the two gaps     *)
(* that NoMailSkipped names.                                               *)
(***************************************************************************)
EXTENDS MailScan, TLAPS

Writes == UNION {[S -> Mailboxes \cup {"untested"}] : S \in SUBSET Addresses}

\* What a Save has planned, until it is done.
Saves ==
    [op: {"none", "save", "rescan"}, pc: {"none", "stop"} \cup Committing, mode: Modes,
     accounts: SUBSET Addresses, token: Maybe(Mailboxes), cred: Files, writes: Writes,
     dropLegacy: BOOLEAN, drops: SUBSET Addresses, start: Maybe(Int),
     left: SUBSET Addresses]

Scans ==
    [pc: {"off", "idle", "next", "record", "key", "legacy", "legacy wins", "legacy taken",
          "pending", "pending wins", "pending taken", "list", "enqueue"},
     left: SUBSET Addresses, mode: Modes, acc: Maybe(Addresses), box: Maybe(Mailboxes),
     key: Maybe(Addresses), started: 0..MaxNow, wins: BOOLEAN, start: Times,
     todo: SUBSET Messages]

Pools == [fp: Maybe(Modes \X Files), svc: [Addresses -> Maybe(Mailboxes)]]

\* The parts of a state: Gmail, what is stored, the cursors, the scan, the Save.
WorldOK ==
    /\ now \in 0..MaxNow
    /\ mail \in [Messages -> Maybe([box: Mailboxes, at: 0 - Lookback .. MaxNow])]
    /\ \A m \in indexed : m \in Messages /\ mail[m] # None
    /\ jobs \subseteq Addresses \X Messages
    /\ \A a \in Addresses, m \in Messages : <<a, m>> \in jobs => mail[m] # None
    \* Nothing is dated ahead, and the search is at most Lag behind.
    /\ \A m \in Messages : mail[m] # None =>
           mail[m].at <= now /\ (m \notin indexed => now <= mail[m].at + Lag)

StoredOK ==
    /\ conf \in [mode: Modes, accounts: SUBSET Addresses]
    /\ token \in Maybe(Mailboxes) /\ cred \in Files
    /\ ident \in [Addresses -> Mailboxes \cup {"absent", "untested"}]

\* No cursor, however it came about, lies further ahead than the overlap.
Ahead == 0..(now + Overlap)
MarksOK ==
    /\ cursor \in [Addresses -> Maybe(Ahead)] /\ pending \in [Addresses -> Maybe(Ahead)]
    /\ since \in [Addresses -> Maybe(Times)]
    /\ legacy \in Maybe([at: Ahead, box: Mailboxes])
    /\ \A k \in Addresses : cursor[k] # None <=> since[k] # None

\* The steps of a scan that has its account and its service, those that have
\* its key as well.
Keyed   == {"legacy", "legacy wins", "legacy taken",
            "pending", "pending wins", "pending taken", "list", "enqueue"}
Serving == {"key"} \cup Keyed

ScanOK ==
    /\ mon \in Scans
    /\ mon.started <= now /\ mon.todo \subseteq indexed
    /\ mon.pc \in Serving \cup {"record"} => mon.acc \in Addresses
    /\ mon.pc = "record" => mon.box \in Mailboxes
    /\ mon.pc \in {"legacy wins", "pending wins"} /\ ~mon.wins => cursor[mon.key] # None
    /\ mon.pc \in Keyed => mon.key \in Addresses
    /\ pool \in Pools

\* A rescan only sets the start.
SaveOK ==
    /\ save \in Saves /\ (save.start # None => save.start \in 0..now)
    /\ save.op = "none" => save.pc = "none"
    /\ save.op = "rescan" => save.pc \in {"stop", "start"} /\ ~save.dropLegacy
                              /\ save.start # None
    /\ save.pc = "ident" => save.left \subseteq DOMAIN save.writes
    /\ save.pc = "start" /\ save.left # {} => save.start # None

PastOK == early \in BOOLEAN /\ torn \in BOOLEAN /\ astray \subseteq Addresses

BoundsOK == faults \in 0..MaxFaults /\ saves \in 0..MaxSaves

TypeInv == WorldOK /\ StoredOK /\ MarksOK /\ ScanOK /\ SaveOK /\ PastOK /\ BoundsOK

-----------------------------------------------------------------------------
(* Facts about the constants and the values the actions build.             *)

LEMMA Values ==
    /\ \A a \in Addresses : Home[a] \in Mailboxes
    /\ Mailboxes \subseteq Addresses
    /\ \A b \in Mailboxes : Home[b] = b
    /\ Overlap \in Nat /\ Lookback \in Nat /\ MaxNow \in Nat
    /\ Lag \in Nat /\ Lag <= Overlap
    /\ None \notin Int /\ None \notin Addresses
    /\ \A r \in [box: Mailboxes, at: Int] : r # None
    /\ Account0 \in Addresses /\ File0 \in Files
    /\ Addresses \cap {"absent", "untested"} = {}
<1>1. \A a \in Addresses : Home[a] \in Mailboxes /\ Home[a] \in Addresses
  BY MailScanAssumption DEF MailScanAssumption, Mailboxes
<1>2. \A b \in Mailboxes : \E a \in Addresses : b = Home[a]
  BY DEF Mailboxes
<1>3. Mailboxes \subseteq Addresses /\ \A b \in Mailboxes : Home[b] = b
  BY <1>1, <1>2, MailScanAssumption DEF MailScanAssumption
<1>4. \A r \in [box: Mailboxes, at: Int] : r \in [box: Addresses, at: Int]
  BY <1>3
<1> QED
  BY <1>1, <1>3, <1>4, MailScanAssumption DEF MailScanAssumption

LEMMA Scanning ==
    /\ Off \in Scans /\ Off.pc = "off" /\ Off.todo = {} /\ Off.started = 0
    /\ Idle \in Scans /\ Idle.pc = "idle" /\ Idle.todo = {} /\ Idle.started = 0
    /\ NoServices \in Pools
    /\ \A a \in Addresses : NoServices.svc[a] = None
    /\ NoSave \in Saves /\ NoSave.start = None /\ NoSave.pc = "none"
    /\ NoSave.op = "none" /\ ~NoSave.dropLegacy /\ NoSave.left = {}
<1>1. 0 \in 0..MaxNow /\ 0 \in Times /\ {} \in SUBSET Messages /\ {} \in SUBSET Addresses
  BY Values DEF Times
<1>2. Off \in Scans /\ Off.pc = "off" /\ Off.todo = {} /\ Off.started = 0
  BY <1>1 DEF Off, Scans, Modes, Maybe
<1>3. Idle \in Scans /\ Idle.pc = "idle" /\ Idle.todo = {} /\ Idle.started = 0
  BY <1>1 DEF Idle, Off, Scans, Modes, Maybe
<1>4. NoServices \in Pools /\ \A a \in Addresses : NoServices.svc[a] = None
  BY DEF NoServices, Pools, Maybe
<1>5. <<>> \in Writes
  <2>1. <<>> \in [{} -> Mailboxes \cup {"untested"}]
    OBVIOUS
  <2> QED
    BY <2>1 DEF Writes
<1>6. NoSave \in Saves /\ NoSave.start = None /\ NoSave.pc = "none"
  BY <1>1, <1>5, Values DEF NoSave, Saves, Modes, Maybe
<1>7. NoSave.op = "none" /\ ~NoSave.dropLegacy /\ NoSave.left = {}
  BY DEF NoSave
<1> QED
  BY <1>2, <1>3, <1>4, <1>6, <1>7

LEMMA TypeInit == Init => TypeInv
<1> SUFFICES ASSUME Init PROVE TypeInv
  OBVIOUS
<1>1. WorldOK
  <2>1. /\ now = 0 /\ jobs = {} /\ indexed = {m \in Messages : mail[m] # None}
        /\ mail \in [Messages -> {None} \cup [box: Mailboxes, at: {0 - Lookback}]]
    BY DEF Init
  <2>2. 0 - Lookback \in 0 - Lookback .. MaxNow /\ 0 - Lookback <= 0 /\ 0 \in 0..MaxNow
    BY Values
  <2>3. /\ mail \in [Messages -> Maybe([box: Mailboxes, at: 0 - Lookback .. MaxNow])]
        /\ \A m \in Messages : mail[m] # None => mail[m].at = 0 - Lookback
    BY <2>1, <2>2 DEF Maybe
  <2> QED
    BY <2>1, <2>2, <2>3 DEF WorldOK
<1>2. BoundsOK /\ PastOK
  <2>1. BoundsOK
    BY MailScanAssumption DEF MailScanAssumption, Init, BoundsOK
  <2>2. PastOK
    BY DEF Init, PastOK
  <2> QED
    BY <2>1, <2>2
<1>3. ScanOK /\ SaveOK
  BY Scanning, Values DEF Init, ScanOK, SaveOK, Serving, Keyed
<1>4. StoredOK /\ MarksOK
  <2>1. PICK i \in Installs :
          /\ conf = i.conf /\ token = i.token /\ ident = i.ident /\ legacy = i.legacy
          /\ cursor = i.cursor /\ pending = i.pending
          /\ since = [k \in Addresses |-> IF i.cursor[k] = None THEN None
                                         ELSE i.cursor[k] - Overlap]
    BY DEF Init
  <2>2. /\ i.conf \in [mode: Modes, accounts: SUBSET Addresses] /\ i.token \in Maybe(Mailboxes)
        /\ i.ident \in [Addresses -> Mailboxes \cup {"absent", "untested"}]
        /\ i.legacy \in Maybe([at: {0}, box: Mailboxes])
        /\ i.cursor \in [Addresses -> {None, 0}] /\ i.pending \in [Addresses -> {None, Overlap}]
    <3>1. Home[Account0] \in Mailboxes /\ Home[Account0] \in Addresses /\ Account0 \in Addresses
      BY Values
    <3>2. CASE i = Fresh
      BY <3>2 DEF Fresh, Modes, Maybe
    <3>3. CASE i = [SetUp EXCEPT !.legacy = [at |-> 0, box |-> Home[Account0]]]
      BY <3>1, <3>3 DEF SetUp, Fresh, Modes, Maybe
    <3>4. CASE i = [SetUp EXCEPT !.ident[Account0] = "untested", !.pending[Account0] = Overlap]
      BY <3>1, <3>4 DEF SetUp, Fresh, Modes, Maybe
    <3>5. CASE i = [SetUp EXCEPT !.ident[Account0] = Home[Account0], !.cursor[Home[Account0]] = 0]
      BY <3>1, <3>5 DEF SetUp, Fresh, Modes, Maybe
    <3> QED
      BY <3>2, <3>3, <3>4, <3>5 DEF Installs
  <2>3. StoredOK
    BY <2>1, <2>2, MailScanAssumption DEF MailScanAssumption, StoredOK, Init
  <2>4. now = 0 /\ 0 \in Ahead /\ Overlap \in Ahead /\ 0 - Overlap \in Times
    BY Values DEF Init, Ahead, Times
  <2>5. /\ cursor \in [Addresses -> Maybe(Ahead)] /\ pending \in [Addresses -> Maybe(Ahead)]
        /\ legacy \in Maybe([at: Ahead, box: Mailboxes])
    BY <2>1, <2>2, <2>4 DEF Maybe
  <2>6. \A k \in Addresses : \/ cursor[k] = None /\ since[k] = None
                             \/ cursor[k] = 0 /\ since[k] = 0 - Overlap
    <3> SUFFICES ASSUME NEW k \in Addresses
                 PROVE  \/ cursor[k] = None /\ since[k] = None
                        \/ cursor[k] = 0 /\ since[k] = 0 - Overlap
      OBVIOUS
    <3>1. since[k] = IF cursor[k] = None THEN None ELSE cursor[k] - Overlap
      BY <2>1
    <3>2. cursor[k] = None \/ cursor[k] = 0
      BY <2>1, <2>2
    <3>3. None # 0 /\ Overlap \in Nat
      BY Values
    <3> QED
      BY <3>1, <3>2, <3>3
  <2>7. since \in [Addresses -> Maybe(Times)]
    BY <2>1, <2>4, <2>6 DEF Maybe
  <2>8. \A k \in Addresses : cursor[k] # None <=> since[k] # None
    BY <2>6, Values
  <2> QED
    BY <2>3, <2>5, <2>7, <2>8 DEF MarksOK
<1> QED
  BY <1>1, <1>2, <1>3, <1>4 DEF TypeInv

-----------------------------------------------------------------------------
(* What a step does to each part.                                          *)

\* The clock and the index only go forward.
LEMMA WorldStep ==
    ASSUME TypeInv, [Next]_vars
    PROVE  /\ WorldOK'
           /\ now <= now' /\ indexed \subseteq indexed'
           /\ \A m \in Messages : mail[m] # None => mail'[m] = mail[m]
<1>0. WorldOK /\ ScanOK /\ now \in Nat /\ now <= now
  <2>1. WorldOK /\ ScanOK
    BY DEF TypeInv
  <2>2. now \in 0..MaxNow /\ MaxNow \in Nat
    BY <2>1, Values DEF WorldOK
  <2> QED
    BY <2>1, <2>2
<1>1. CASE UNCHANGED <<world, jobs>>
  <2>1. UNCHANGED <<now, mail, indexed, jobs>>
    BY <1>1 DEF world
  <2>2. WorldOK'
    BY <1>0, <2>1 DEF WorldOK
  <2> QED
    BY <1>0, <2>1, <2>2
<1>2. ASSUME NEW m \in Messages, Arrive(m)
      PROVE  WorldOK' /\ UNCHANGED <<now, indexed>>
             /\ \A n \in Messages : mail[n] # None => mail'[n] = mail[n]
  <2>1. PICK b \in Mailboxes : mail' = [mail EXCEPT ![m] = [box |-> b, at |-> now]]
    BY <1>2 DEF Arrive
  <2>2. /\ mail[m] = None /\ UNCHANGED <<now, indexed, jobs>> /\ mail'[m] = [box |-> b, at |-> now]
        /\ \A n \in Messages : n # m => mail'[n] = mail[n]
    BY <1>0, <1>2, <2>1 DEF Arrive, WorldOK
  <2>3. [box |-> b, at |-> now] \in [box: Mailboxes, at: 0 - Lookback .. MaxNow] /\ mail'[m].at = now
    BY <1>0, <2>2, Values DEF WorldOK
  <2>4. mail' \in [Messages -> Maybe([box: Mailboxes, at: 0 - Lookback .. MaxNow])]
    BY <1>0, <2>1, <2>3 DEF WorldOK, Maybe
  <2>5. [box |-> b, at |-> now] \in [box: Mailboxes, at: Int]
    BY <1>0
  <2>6. mail'[m] # None
    BY <2>2, <2>5, Values
  <2>7. \A n \in Messages : mail[n] # None => mail'[n] = mail[n]
    BY <2>2
  <2>8. /\ \A n \in indexed : n \in Messages /\ mail'[n] # None
        /\ \A a \in Addresses, n \in Messages : <<a, n>> \in jobs => mail'[n] # None
    BY <1>0, <2>7 DEF WorldOK
  <2>9. \A n \in Messages : mail'[n] # None =>
           mail'[n].at <= now /\ (n \notin indexed => now <= mail'[n].at + Lag)
    <3>1. now <= now + Lag
      BY <1>0, Values
    <3> QED
      BY <1>0, <2>2, <2>3, <3>1 DEF WorldOK
  <2>10. WorldOK'
    <3>1. /\ now \in 0..MaxNow /\ jobs \subseteq Addresses \X Messages
      BY <1>0 DEF WorldOK
    <3> QED
      BY <2>2, <2>4, <2>8, <2>9, <3>1 DEF WorldOK
  <2> QED
    BY <2>2, <2>7, <2>10
<1>3. ASSUME NEW m \in Messages, Index(m)
      PROVE  WorldOK' /\ UNCHANGED <<now, mail>> /\ indexed \subseteq indexed'
  BY <1>0, <1>3 DEF Index, WorldOK
<1>4. CASE Tick
  <2>1. \A m \in Messages : mail[m] # None => mail[m].at \in Int
    BY <1>0, Values DEF WorldOK, Maybe
  <2>2. /\ now < MaxNow /\ now' = now + 1 /\ UNCHANGED <<mail, indexed, jobs>>
        /\ \A m \in Messages \ indexed : mail[m] # None => now < mail[m].at + Lag
    BY <1>4 DEF Tick
  <2>3. \A m \in Messages : mail[m] # None =>
           mail[m].at <= now + 1 /\ (m \notin indexed => now + 1 <= mail[m].at + Lag)
    BY <1>0, <2>1, <2>2, Values DEF WorldOK
  <2>4. now + 1 \in 0..MaxNow /\ now <= now + 1
    BY <1>0, <2>2, Values
  <2>5. WorldOK'
    <3>1. /\ mail \in [Messages -> Maybe([box: Mailboxes, at: 0 - Lookback .. MaxNow])]
          /\ \A m \in indexed : m \in Messages /\ mail[m] # None
          /\ jobs \subseteq Addresses \X Messages
          /\ \A a \in Addresses, m \in Messages : <<a, m>> \in jobs => mail[m] # None
      BY <1>0 DEF WorldOK
    <3> QED
      BY <2>2, <2>3, <2>4, <3>1 DEF WorldOK
  <2> QED
    BY <2>2, <2>4, <2>5
<1>5. ASSUME NEW m \in Messages, EnqueueMessage(m)
      PROVE  WorldOK' /\ UNCHANGED world
  <2>1. mon.acc \in Addresses /\ mail[m] # None /\ jobs' = jobs \cup {<<mon.acc, m>>}
        /\ UNCHANGED <<now, mail, indexed>> /\ UNCHANGED world
    BY <1>0, <1>5 DEF EnqueueMessage, ScanOK, WorldOK, Serving, Keyed, world
  <2>2. jobs' \subseteq Addresses \X Messages
    BY <1>0, <2>1 DEF WorldOK
  <2>3. \A a \in Addresses, n \in Messages : <<a, n>> \in jobs' => mail[n] # None
    BY <1>0, <2>1 DEF WorldOK
  <2>4. WorldOK'
    <3>1. /\ now \in 0..MaxNow
          /\ mail \in [Messages -> Maybe([box: Mailboxes, at: 0 - Lookback .. MaxNow])]
          /\ \A n \in indexed : n \in Messages /\ mail[n] # None
          /\ \A n \in Messages : mail[n] # None =>
                mail[n].at <= now /\ (n \notin indexed => now <= mail[n].at + Lag)
      BY <1>0 DEF WorldOK
    <3> QED
      BY <2>1, <2>2, <2>3, <3>1 DEF WorldOK
  <2> QED
    BY <2>1, <2>4
<1> DEFINE Goal == /\ WorldOK'
                   /\ now <= now' /\ indexed \subseteq indexed'
                   /\ \A m \in Messages : mail[m] # None => mail'[m] = mail[m]
<1>6. CASE Gmail
  BY <1>0, <1>2, <1>3, <1>4, <1>6 DEF Gmail, Tick
<1> HIDE DEF Goal
<1>7. CASE Scanner
  <2>1. ASSUME NEW m \in Messages, EnqueueMessage(m) PROVE Goal
    BY <1>0, <1>5, <2>1 DEF world, Goal
  <2>2. CASE UNCHANGED <<world, jobs>>
    BY <1>1, <2>2 DEF Goal
  <2>3. UNCHANGED <<world, jobs>> \/ \E m \in Messages : EnqueueMessage(m)
    BY <1>7 DEF Scanner, MonitorStarts, RecordIdentity, CompareLegacy, ComparePending, CycleBegins, CycleEnds, ReadKey, TakeLegacy,
       DropLegacy, TakePending, DropPending, ListMail, AdvanceCursor, GetService
  <2> QED
    BY <2>1, <2>2, <2>3 DEF Goal
<1>8. CASE ScannerFaults \/ AskSave \/ AskRescan \/ Commit \/ CommitFails
  <2>1. UNCHANGED <<world, jobs>>
    BY <1>8 DEF ScannerFaults, MonitorStartsEarly, MonitorDies, ScanFails, GetServiceFails, AskSave, AskRescan,
       Commit, StopForUpdate, CommitCreds, CommitToken, CommitLegacy, CommitDrop, CommitGoesOn, CommitIdent,
       CommitStart, CommitConf, CommitFails
  <2> QED
    BY <1>1, <2>1
<1>9. CASE UNCHANGED vars
  BY <1>1, <1>9 DEF vars
<1> QED
  BY <1>6, <1>7, <1>8, <1>9 DEF Next

LEMMA BoundStep ==
    ASSUME TypeInv, [Next]_vars
    PROVE  BoundsOK'
<1>0. BoundsOK /\ MaxFaults \in Nat /\ MaxSaves \in Nat
  BY MailScanAssumption DEF TypeInv, MailScanAssumption
<1>1. CASE UNCHANGED bounds
  BY <1>0, <1>1 DEF bounds, BoundsOK
<1>2. CASE ScannerFaults \/ CommitFails
  <2>1. faults' \in 0..MaxFaults /\ UNCHANGED saves
    BY <1>0, <1>2 DEF ScannerFaults, MonitorStartsEarly, MonitorDies, ScanFails, GetServiceFails,
       CommitFails, Fault, BoundsOK
  <2> QED
    BY <1>0, <2>1 DEF BoundsOK
<1>3. CASE AskSave \/ AskRescan
  <2>1. saves < MaxSaves /\ saves' = saves + 1 /\ UNCHANGED faults
    BY <1>3 DEF AskSave, AskRescan
  <2> QED
    BY <1>0, <2>1 DEF BoundsOK
<1>4. CASE Gmail \/ Scanner \/ Commit
  BY <1>1, <1>4 DEF Gmail, Tick, Arrive, Index, Scanner, MonitorStarts, RecordIdentity, CompareLegacy, ComparePending, CycleBegins, CycleEnds,
     ReadKey, TakeLegacy, DropLegacy, TakePending, DropPending, ListMail, AdvanceCursor, GetService,
     EnqueueMessage, Commit, StopForUpdate, CommitCreds, CommitToken, CommitLegacy, CommitDrop, CommitGoesOn,
     CommitIdent, CommitStart, CommitConf
<1>5. CASE UNCHANGED vars
  BY <1>1, <1>5 DEF vars
<1> QED
  BY <1>2, <1>3, <1>4, <1>5 DEF Next

\* The mailbox a service opens is one, or there is none.
LEMMA Opening == TypeInv => \A a \in Addresses : Opens(a) \in Maybe(Mailboxes)
  BY Values DEF TypeInv, StoredOK, Opens, Maybe

LEMMA Syncing ==
    TypeInv => /\ Synced \in Pools
               /\ \A a \in Addresses : /\ Synced.svc[a] \in {None, pool.svc[a]}
                                       /\ Synced.svc[a] \in Maybe(Mailboxes)
<1> SUFFICES ASSUME TypeInv PROVE /\ Synced \in Pools
               /\ \A a \in Addresses : /\ Synced.svc[a] \in {None, pool.svc[a]}
                                       /\ Synced.svc[a] \in Maybe(Mailboxes)
  OBVIOUS
<1>1. CASE Synced = pool
  BY <1>1 DEF TypeInv, ScanOK, Pools
<1>2. CASE Synced = [NoServices EXCEPT !.fp = <<conf.mode, cred>>]
  <2>1. <<conf.mode, cred>> \in Maybe(Modes \X Files)
    BY DEF TypeInv, StoredOK, Maybe
  <2>2. Synced \in Pools /\ Synced.svc = NoServices.svc
    BY <1>2, <2>1, Scanning DEF Pools
  <2> QED
    BY <2>2, Scanning DEF Pools
<1> QED
  BY <1>1, <1>2 DEF Synced

\* A service is taken from the pool as it is, newly opened and found to open the
\* mailbox that is recorded, or to be recorded.
LEMMA Got ==
    ASSUME TypeInv, NEW a \in Addresses, GetService(a)
    PROVE  /\ UNCHANGED <<conf, ident>> /\ mon.pc = "next"
           /\ pool' \in Pools
           /\ \A b \in Addresses \ {a} : pool'.svc[b] \in {None, pool.svc[b]}
           /\ \/ pool'.svc[a] = None /\ mon' = [mon EXCEPT !.left = @ \ {a}]
              \/ /\ pool'.svc[a] # None
                 /\ pool'.svc[a] = pool.svc[a] \/ (pool'.svc[a] = Opens(a) /\ ident[a] = Opens(a))
                 /\ mon' = [mon EXCEPT !.pc = "key", !.left = @ \ {a}, !.acc = a, !.box = None]
              \/ /\ pool'.svc[a] = None /\ Opens(a) # None /\ ident[a] = "absent"
                 /\ mon' = [mon EXCEPT !.pc = "record", !.left = @ \ {a}, !.acc = a,
                                       !.box = Opens(a)]
<1> DEFINE svc == Synced.svc[a]
           box == IF svc # None THEN svc ELSE Opens(a)
           new == svc = None /\ ident[a] = "absent"
           ok  == a \in conf.accounts /\ box # None
                    /\ (svc # None \/ ident[a] \in {"absent", box})
<1>0. /\ Synced \in Pools /\ Opens(a) \in Maybe(Mailboxes)
      /\ \A b \in Addresses : Synced.svc[b] \in {None, pool.svc[b]}
      /\ svc \in Maybe(Mailboxes) /\ svc \in {None, pool.svc[a]}
  BY Syncing, Opening
<1>1. /\ UNCHANGED <<conf, ident>> /\ mon.pc = "next"
      /\ pool' = [Synced EXCEPT !.svc[a] = IF ok /\ ~new THEN box ELSE None]
      /\ mon' = IF ok
                THEN [mon EXCEPT !.pc = IF new THEN "record" ELSE "key", !.left = @ \ {a},
                                 !.acc = a, !.box = IF new THEN box ELSE None]
                ELSE [mon EXCEPT !.left = @ \ {a}]
  BY DEF GetService, stored
<1>2. box \in Maybe(Mailboxes) /\ None \in Maybe(Mailboxes)
  BY <1>0 DEF Maybe
<1>a. /\ svc # None => box = svc /\ ~new
      /\ svc = None => box = Opens(a)
      /\ ok => box # None /\ (svc # None \/ ident[a] \in {"absent", box})
      /\ new => svc = None /\ ident[a] = "absent"
      /\ ~new => svc # None \/ ident[a] # "absent"
  OBVIOUS
<1> HIDE DEF svc, box, ok, new
<1>3. /\ pool' \in Pools /\ pool'.svc[a] = (IF ok /\ ~new THEN box ELSE None)
      /\ \A b \in Addresses \ {a} : pool'.svc[b] = Synced.svc[b]
  BY <1>0, <1>1, <1>2 DEF Pools
<1>4. CASE ~ok
  BY <1>0, <1>1, <1>3, <1>4
<1>5. CASE ok /\ new
  <2>1. box = Opens(a) /\ box # None /\ ident[a] = "absent"
    BY <1>a, <1>5
  <2> QED
    BY <1>0, <1>1, <1>3, <1>5, <2>1
<1>6. CASE ok /\ ~new
  <2>1. pool'.svc[a] = box /\ box # None
    BY <1>a, <1>3, <1>6
  <2>2. mon' = [mon EXCEPT !.pc = "key", !.left = @ \ {a}, !.acc = a, !.box = None]
    BY <1>1, <1>6
  <2>3. pool'.svc[a] = pool.svc[a] \/ (pool'.svc[a] = Opens(a) /\ ident[a] = Opens(a))
    BY <1>0, <1>a, <1>6, <2>1
  <2> QED
    BY <1>0, <1>1, <1>3, <2>1, <2>2, <2>3
<1> QED
  BY <1>4, <1>5, <1>6

LEMMA StoredStep ==
    ASSUME TypeInv, [Next]_vars
    PROVE  StoredOK'
<1>0. StoredOK /\ save \in Saves
  BY DEF TypeInv, SaveOK
<1>1. CASE UNCHANGED stored
  BY <1>0, <1>1 DEF stored, StoredOK
<1>2. CASE RecordIdentity
  <2>1. /\ UNCHANGED <<conf, token, cred>> /\ mon.box \in Mailboxes /\ mon.acc \in Addresses
        /\ ident' = [ident EXCEPT ![mon.acc] = mon.box]
    BY <1>2 DEF RecordIdentity, TypeInv, ScanOK
  <2> QED
    BY <1>0, <2>1 DEF StoredOK
<1>3. CASE CommitCreds
  BY <1>0, <1>3 DEF CommitCreds, StoredOK, Saves
<1>4. CASE CommitToken
  BY <1>0, <1>4 DEF CommitToken, StoredOK, Saves
<1>5. ASSUME NEW a \in Addresses, CommitIdent(a) PROVE StoredOK'
  <2>1. a \in DOMAIN save.writes /\ save.writes[a] \in Mailboxes \cup {"untested"}
    BY <1>0, <1>5 DEF CommitIdent, TypeInv, SaveOK, Saves, Writes
  <2>2. UNCHANGED <<conf, token, cred>> /\ ident' = [ident EXCEPT ![a] = save.writes[a]]
    BY <1>5 DEF CommitIdent
  <2> QED
    BY <1>0, <2>1, <2>2 DEF StoredOK
<1>6. CASE CommitConf
  BY <1>0, <1>6 DEF CommitConf, StoredOK, Saves
<1>7. CASE Gmail \/ ScannerFaults \/ AskSave \/ AskRescan \/ CommitFails
  BY <1>1, <1>7 DEF Gmail, Tick, Arrive, Index, ScannerFaults, MonitorStartsEarly, MonitorDies, ScanFails,
     GetServiceFails, AskSave, AskRescan, CommitFails
<1>8. CASE Scanner
  BY <1>1, <1>2, <1>8 DEF Scanner, MonitorStarts, CompareLegacy, ComparePending, CycleBegins,
     CycleEnds, ReadKey, TakeLegacy, DropLegacy, TakePending, DropPending, ListMail, AdvanceCursor,
     EnqueueMessage, GetService
<1>9. CASE Commit
  BY <1>1, <1>3, <1>4, <1>5, <1>6, <1>9 DEF Commit, StopForUpdate, CommitLegacy, CommitDrop,
     CommitGoesOn, CommitStart
<1>10. CASE UNCHANGED vars
  BY <1>1, <1>10 DEF vars
<1> QED
  BY <1>7, <1>8, <1>9, <1>10 DEF Next

\* Plan builds what Saves describes.
LEMMA Planned ==
    ASSUME TypeInv, NEW mode \in Modes, NEW accounts \in SUBSET Addresses, NEW file \in Files,
           NEW t \in Staged(mode, accounts), NEW start \in Maybe(Int)
    PROVE  /\ Plan(mode, accounts, t.verified, t.login, file, start) \in Saves
           /\ Plan(mode, accounts, t.verified, t.login, file, start).start = start
           /\ Plan(mode, accounts, t.verified, t.login, file, start).pc = "stop"
           /\ Plan(mode, accounts, t.verified, t.login, file, start).op = "save"
<1>0. StoredOK /\ conf.accounts \in SUBSET Addresses
  BY DEF TypeInv, StoredOK
<1>1. /\ t.login \in Maybe(Mailboxes)
      /\ \A a \in DOMAIN t.verified : t.verified[a] \in Mailboxes
  <2>1. CASE mode = "dwd"
    <3>1. PICK s \in SUBSET accounts : t = [login |-> None, verified |-> [a \in s |-> Home[a]]]
      BY <2>1 DEF Staged
    <3>2. s \subseteq Addresses
      BY <3>1
    <3> QED
      BY <3>1, <3>2, Values DEF Maybe
  <2>2. CASE mode # "dwd"
    <3>1. CASE \E b \in Mailboxes : t = [login |-> b, verified |-> [a \in accounts |-> b]]
      BY <3>1 DEF Maybe
    <3>2. CASE t = [login |-> None, verified |-> [a \in accounts |-> token]] /\ token # None
      BY <1>0, <3>2 DEF Maybe, StoredOK
    <3>3. CASE t = [login |-> None, verified |-> <<>>]
      BY <3>3 DEF Maybe
    <3> QED
      BY <2>2, <3>1, <3>2, <3>3 DEF Staged
  <2> QED
    BY <2>1, <2>2
<1>2. \A previous : IdentityWrites(accounts, previous, t.verified) \in Writes
  <2> TAKE previous
  <2> DEFINE S == {x \in accounts : x \in DOMAIN t.verified
                                    \/ (x \notin previous /\ ident[x] = "absent")}
             w == IdentityWrites(accounts, previous, t.verified)
  <2>1. w = [a \in S |-> IF a \in DOMAIN t.verified THEN t.verified[a] ELSE "untested"]
    BY DEF IdentityWrites
  <2>2. S \in SUBSET Addresses
    OBVIOUS
  <2>3. w \in [S -> Mailboxes \cup {"untested"}]
    BY <1>1, <2>1
  <2> QED
    BY <2>2, <2>3 DEF Writes
<1>3. \A w \in Writes : Rehomed(w) \in SUBSET Addresses
  BY DEF Writes, Rehomed
<1> DEFINE changed  == mode # conf.mode
           previous == IF changed THEN {} ELSE conf.accounts
           writes   == IdentityWrites(accounts, previous, t.verified)
           p == Plan(mode, accounts, t.verified, t.login, file, start)
<1>4. writes \in Writes /\ Rehomed(writes) \in SUBSET Addresses
  BY <1>2, <1>3
<1>5. p = [op |-> "save", pc |-> "stop", mode |-> mode, accounts |-> accounts,
           token |-> t.login, cred |-> file, writes |-> writes,
           dropLegacy |-> changed \/ Rehomed(writes) # {},
           drops |-> Rehomed(writes) \cup IF changed THEN conf.accounts \cup accounts ELSE {},
           start |-> start, left |-> {}]
  BY DEF Plan
<1>6. /\ (changed \/ Rehomed(writes) # {}) \in BOOLEAN
      /\ Rehomed(writes) \cup (IF changed THEN conf.accounts \cup accounts ELSE {}) \in SUBSET Addresses
  BY <1>0, <1>4
<1> HIDE DEF changed, writes, p
<1> QED
  BY <1>1, <1>4, <1>5, <1>6 DEF Saves, p

LEMMA SaveStep ==
    ASSUME TypeInv, [Next]_vars
    PROVE  SaveOK'
<1>0. SaveOK /\ save \in Saves /\ (save.start # None => save.start \in 0..now) /\ now \in Nat
      /\ now' \in Nat /\ now <= now' /\ StoredOK /\ None \notin Int
  <2>1. WorldOK /\ WorldOK' /\ now <= now' /\ SaveOK /\ StoredOK
    BY WorldStep DEF TypeInv
  <2> QED
    BY <2>1, Values DEF SaveOK, WorldOK
<1>1. ASSUME save'.start = save.start, save' \in Saves, save'.op = "save", save'.pc # "ident",
             save'.pc = "start" /\ save'.left # {} => save.start # None
      PROVE  SaveOK'
  BY <1>0, <1>1 DEF SaveOK
<1>2. CASE save' = NoSave
  BY <1>2, Scanning DEF SaveOK
<1>3. ASSUME NEW pc \in {"token", "legacy", "drops", "conf"}, NEW s \in SUBSET Addresses,
             save' = [save EXCEPT !.pc = pc, !.left = s], save.op = "save"
      PROVE  SaveOK'
  <2>1. save' \in Saves /\ save'.pc = pc /\ save'.op = "save" /\ save'.start = save.start
    BY <1>0, <1>3 DEF Saves, Committing
  <2> QED
    BY <1>1, <2>1
<1>11. ASSUME NEW a, save' = [save EXCEPT !.left = @ \ {a}]
       PROVE  SaveOK'
  <2>1. /\ save' \in Saves /\ save'.pc = save.pc /\ save'.op = save.op /\ save'.start = save.start
        /\ save'.left \subseteq save.left /\ save'.writes = save.writes
        /\ save'.dropLegacy = save.dropLegacy
    BY <1>0, <1>11 DEF Saves
  <2> QED
    BY <1>0, <2>1 DEF SaveOK
<1>4. CASE AskSave
  <2>1. PICK mode \in Modes, accounts \in (SUBSET Addresses) \ {{}}, file \in Files :
          \E t \in Staged(mode, accounts), start \in IF conf.accounts = {} THEN 0..now ELSE {None} :
              save' = Plan(mode, accounts, t.verified, t.login, file, start)
    BY <1>4 DEF AskSave
  <2>2. PICK t \in Staged(mode, accounts), start \in IF conf.accounts = {} THEN 0..now ELSE {None} :
              save' = Plan(mode, accounts, t.verified, t.login, file, start)
    BY <2>1
  <2>3. start \in Maybe(Int) /\ (start # None => start \in 0..now)
    BY <1>0 DEF Maybe
  <2>4. save' \in Saves /\ save'.start = start /\ save'.pc = "stop" /\ save'.op = "save"
    BY <2>2, <2>3, Planned
  <2> QED
    BY <1>0, <2>3, <2>4 DEF SaveOK
<1>5. CASE AskRescan
  <2>1. PICK start \in 0..now :
           save' = [NoSave EXCEPT !.op = "rescan", !.pc = "stop", !.mode = conf.mode,
                                  !.accounts = conf.accounts, !.start = start]
    BY <1>5 DEF AskRescan
  <2>2. start \in Maybe(Int) /\ conf.mode \in Modes /\ conf.accounts \in SUBSET Addresses
    BY <1>0 DEF Maybe, StoredOK
  <2>3. save' \in Saves /\ save'.start = start /\ save'.op = "rescan" /\ save'.pc = "stop"
        /\ ~save'.dropLegacy
    BY <2>1, <2>2, Scanning DEF Saves
  <2> QED
    BY <1>0, <2>1, <2>3 DEF SaveOK
<1>6. CASE Commit
  <2>0. /\ {} \in SUBSET Addresses /\ save.drops \in SUBSET Addresses
        /\ save.accounts \in SUBSET Addresses /\ save.left \in SUBSET Addresses
        /\ DOMAIN save.writes \in SUBSET Addresses
        /\ save = [save EXCEPT !.left = save.left]
        /\ save.op \in {"none", "save", "rescan"}
    BY <1>0 DEF Saves, Writes
  <2>1. CASE StopForUpdate
    <3>1. save.op \in {"save", "rescan"} /\ save.pc = "stop"
      BY <1>0, <2>0, <2>1 DEF StopForUpdate, SaveOK
    <3>2. CASE save.op = "save"
      <4>1. save' = [save EXCEPT !.pc = "creds"]
        BY <2>1, <3>2 DEF StopForUpdate
      <4>2. save' \in Saves /\ save'.pc = "creds" /\ save'.op = "save" /\ save'.start = save.start
        BY <1>0, <3>2, <4>1 DEF Saves, Committing
      <4> QED
        BY <1>1, <4>2
    <3>3. CASE save.op = "rescan"
      <4>1. save' = [save EXCEPT !.pc = "start", !.left = save.accounts] /\ ~save.dropLegacy
        BY <1>0, <2>1, <3>3 DEF StopForUpdate, SaveOK
      <4>2. /\ save' \in Saves /\ save'.pc = "start" /\ save'.op = "rescan"
            /\ save'.start = save.start /\ ~save'.dropLegacy
        BY <1>0, <2>0, <3>3, <4>1 DEF Saves, Committing
      <4>3. save.start # None
        BY <1>0, <3>1, <3>3 DEF SaveOK
      <4> QED
        BY <1>0, <4>2, <4>3 DEF SaveOK
    <3> QED
      BY <3>1, <3>2, <3>3
  <2>2. CASE CommitCreds \/ CommitToken \/ CommitLegacy
    <3>1. save.op = "save"
      BY <1>0, <2>0, <2>2 DEF CommitCreds, CommitToken, CommitLegacy, SaveOK
    <3>2. \/ save' = [save EXCEPT !.pc = "token"] \/ save' = [save EXCEPT !.pc = "legacy"]
          \/ save' = [save EXCEPT !.pc = "drops", !.left = save.drops]
      BY <2>2 DEF CommitCreds, CommitToken, CommitLegacy
    <3>3. \A pc : [save EXCEPT !.pc = pc] = [save EXCEPT !.pc = pc, !.left = save.left]
      BY <1>0 DEF Saves
    <3>4. CASE save' = [save EXCEPT !.pc = "token"]
      BY <1>3, <2>0, <3>1, <3>3, <3>4
    <3>5. CASE save' = [save EXCEPT !.pc = "legacy"]
      BY <1>3, <2>0, <3>1, <3>3, <3>5
    <3>6. CASE save' = [save EXCEPT !.pc = "drops", !.left = save.drops]
      BY <1>3, <2>0, <3>1, <3>6
    <3> QED
      BY <3>2, <3>4, <3>5, <3>6
  <2>3. ASSUME NEW a \in Addresses, CommitDrop(a) \/ CommitIdent(a) \/ CommitStart(a)
        PROVE  SaveOK'
    BY <1>11, <2>3 DEF CommitDrop, CommitIdent, CommitStart
  <2>4. CASE CommitGoesOn
    <3>1. CASE save.pc = "drops"
      <4>1. save' = [save EXCEPT !.pc = "ident", !.left = DOMAIN save.writes] /\ save.op = "save"
        BY <1>0, <2>0, <2>4, <3>1 DEF CommitGoesOn, SaveOK
      <4>2. /\ save' \in Saves /\ save'.pc = "ident" /\ save'.op = "save"
            /\ save'.start = save.start /\ save'.left = DOMAIN save'.writes
        BY <1>0, <2>0, <4>1 DEF Saves, Committing
      <4> QED
        BY <1>0, <4>2 DEF SaveOK
    <3>2. CASE save.pc = "ident"
      <4>1. /\ save' = [save EXCEPT !.pc = "start",
                                    !.left = IF save.start = None THEN {} ELSE save.accounts]
            /\ save.op = "save"
        BY <1>0, <2>0, <2>4, <3>2 DEF CommitGoesOn, SaveOK
      <4>2. /\ save' \in Saves /\ save'.pc = "start" /\ save'.op = "save"
            /\ save'.start = save.start /\ (save.start = None => save'.left = {})
        BY <1>0, <2>0, <4>1 DEF Saves, Committing
      <4> QED
        BY <1>1, <4>2
    <3>3. CASE save.pc = "start"
      <4>1. save' = NoSave \/ (save.op = "save" /\ save' = [save EXCEPT !.pc = "conf"])
        BY <2>4, <3>3 DEF CommitGoesOn
      <4>2. [save EXCEPT !.pc = "conf"] = [save EXCEPT !.pc = "conf", !.left = save.left]
        BY <1>0 DEF Saves
      <4> QED
        BY <1>2, <1>3, <2>0, <4>1, <4>2
    <3> QED
      BY <2>4, <3>1, <3>2, <3>3 DEF CommitGoesOn
  <2>5. CASE CommitConf
    BY <1>2, <2>5 DEF CommitConf
  <2> QED
    BY <1>6, <2>1, <2>2, <2>3, <2>4, <2>5 DEF Commit
<1>7. CASE CommitFails
  BY <1>2, <1>7 DEF CommitFails
<1>8. CASE UNCHANGED save
  BY <1>0, <1>8 DEF SaveOK
<1>9. CASE Gmail \/ Scanner \/ ScannerFaults
  BY <1>8, <1>9 DEF Gmail, Tick, Arrive, Index, ScannerFaults, MonitorStartsEarly, MonitorDies, ScanFails,
     GetServiceFails, Scanner, MonitorStarts, RecordIdentity, CompareLegacy, ComparePending, CycleBegins, CycleEnds, ReadKey, TakeLegacy,
     DropLegacy, TakePending, DropPending, ListMail, AdvanceCursor, EnqueueMessage, GetService
<1>10. CASE UNCHANGED vars
  BY <1>8, <1>10 DEF vars
<1> QED
  BY <1>4, <1>5, <1>6, <1>7, <1>9, <1>10 DEF Next

\* The take-over of a cursor.
LEMMA AdoptTypes ==
    ASSUME TypeInv, mon.key \in Addresses, NEW at \in Maybe(Ahead), NEW own \in BOOLEAN,
           Adopt(at, own), ~mon.wins => cursor[mon.key] # None
    PROVE  /\ cursor' \in [Addresses -> Maybe(Ahead)] /\ since' \in [Addresses -> Maybe(Times)]
           /\ \A k \in Addresses : cursor'[k] # None <=> since'[k] # None
           /\ \A k \in Addresses : k # mon.key => cursor'[k] = cursor[k] /\ since'[k] = since[k]
<1> DEFINE k == mon.key
<1>0. /\ cursor \in [Addresses -> Maybe(Ahead)] /\ since \in [Addresses -> Maybe(Times)]
      /\ \A a \in Addresses : cursor[a] # None <=> since[a] # None
      /\ now \in 0..MaxNow /\ k \in Addresses /\ mon.started \in 0..MaxNow
      /\ mon.wins \in BOOLEAN
  BY DEF TypeInv, WorldOK, MarksOK, ScanOK, Scans
<1>1. /\ Overlap \in Nat /\ MaxNow \in Nat /\ Lookback \in Nat /\ now \in Nat
      /\ None \notin Int /\ Ahead \subseteq Int /\ Times \subseteq Int
  BY <1>0, Values DEF Ahead, Times
<1>2. since[k] # None => since[k] \in Times
  BY <1>0 DEF Maybe
<1>3. /\ cursor' = IF mon.wins THEN [cursor EXCEPT ![k] = at] ELSE cursor
      /\ since' = IF at # None THEN [since EXCEPT ![k] = Owed(at, own)]
                  ELSE IF mon.wins THEN [since EXCEPT ![k] = None] ELSE since
  BY DEF Adopt
<1>4. CASE at = None
  <2>1. CASE mon.wins
    <3>1. cursor' = [cursor EXCEPT ![k] = None] /\ since' = [since EXCEPT ![k] = None]
      BY <1>3, <1>4, <2>1
    <3> HIDE DEF k
    <3> QED
      BY <1>0, <3>1 DEF Maybe, k
  <2>2. CASE ~mon.wins
    BY <1>0, <1>3, <1>4, <2>2
  <2> QED
    BY <2>1, <2>2
<1>5. CASE at # None
  <2>1. at \in Ahead /\ at \in Int /\ at >= 0 /\ at <= now + Overlap
    BY <1>1, <1>5 DEF Maybe, Ahead
  <2>2. at - Overlap \in Times /\ mon.started - Lookback \in Times
    BY <1>0, <1>1, <2>1 DEF Times
  <2>3. Owed(at, own) \in Times /\ Owed(at, own) # None
    <3>1. Owed(at, own) \in {at - Overlap, mon.started - Lookback}
          \/ (since[k] # None /\ Owed(at, own) = since[k])
      BY DEF Owed, Earlier
    <3>2. Owed(at, own) \in Times
      BY <1>2, <2>2, <3>1
    <3> QED
      BY <1>1, <3>2
  <2>4. since' = [since EXCEPT ![k] = Owed(at, own)]
    BY <1>3, <1>5
  <2>5. cursor' = [cursor EXCEPT ![k] = at] \/ (cursor' = cursor /\ cursor[k] # None)
    BY <1>3
  <2> HIDE DEF k
  <2>6. /\ since' \in [Addresses -> Maybe(Times)] /\ since'[k] # None
        /\ \A a \in Addresses : a # k => since'[a] = since[a]
    BY <1>0, <2>3, <2>4 DEF Maybe
  <2>7. /\ cursor' \in [Addresses -> Maybe(Ahead)] /\ cursor'[k] # None
        /\ \A a \in Addresses : a # k => cursor'[a] = cursor[a]
    BY <1>0, <1>1, <1>5, <2>1, <2>5 DEF Maybe
  <2> QED
    BY <1>0, <2>6, <2>7 DEF k
<1> QED
  BY <1>4, <1>5

\* What it leaves a cursor to owe, if nothing has come in between.
LEMMA Adopting ==
    ASSUME TypeInv, mon.key \in Addresses, NEW at \in Ahead, Adopt(at, TRUE), mon.wins = Wins(at)
    PROVE  /\ cursor'[mon.key] \in Int /\ cursor'[mon.key] <= at
           /\ since'[mon.key] \in Int
           /\ IF cursor[mon.key] = None THEN since'[mon.key] = at - Overlap
              ELSE /\ cursor[mon.key] \in Int /\ since[mon.key] \in Int
                   /\ cursor'[mon.key] <= cursor[mon.key]
                   /\ since'[mon.key] \in {since[mon.key], at - Overlap}
<1> DEFINE k == mon.key
<1>0. /\ cursor \in [Addresses -> Maybe(Ahead)] /\ since \in [Addresses -> Maybe(Times)]
      /\ \A a \in Addresses : cursor[a] # None <=> since[a] # None
      /\ now \in 0..MaxNow /\ k \in Addresses
  BY DEF TypeInv, WorldOK, MarksOK
<1>1. /\ Overlap \in Nat /\ MaxNow \in Nat /\ Lookback \in Nat /\ now \in Nat
      /\ None \notin Int /\ Ahead \subseteq Int /\ Times \subseteq Int
      /\ at \in Int /\ at >= 0 /\ at <= now + Overlap /\ at # None
  BY <1>0, Values DEF Ahead, Times
<1>2. /\ cursor[k] \in Maybe(Ahead) /\ since[k] \in Maybe(Times)
      /\ cursor[k] # None => cursor[k] \in Ahead /\ cursor[k] \in Int
      /\ since[k] # None => since[k] \in Times /\ since[k] \in Int
  BY <1>0, <1>1 DEF Maybe
<1>3. /\ cursor' = IF Wins(at) THEN [cursor EXCEPT ![k] = at] ELSE cursor
      /\ since' = [since EXCEPT ![k] = Owed(at, TRUE)]
  BY <1>1 DEF Adopt
<1>4. /\ Owed(at, TRUE) \in Int
      /\ IF cursor[k] = None THEN Owed(at, TRUE) = at - Overlap
         ELSE Owed(at, TRUE) \in {since[k], at - Overlap}
  BY <1>0, <1>1, <1>2 DEF Owed, Earlier
<1>5. since'[k] = Owed(at, TRUE)
  BY <1>0, <1>3
<1>6. cursor'[k] = IF Wins(at) THEN at ELSE cursor[k]
  BY <1>0, <1>3
<1>7. /\ cursor'[k] \in Int /\ cursor'[k] <= at
      /\ cursor[k] # None => cursor'[k] <= cursor[k]
  BY <1>1, <1>2, <1>6 DEF Wins
<1> HIDE DEF k
<1> QED
  BY <1>0, <1>2, <1>4, <1>5, <1>7 DEF k

LEMMA Wider ==
    ASSUME NEW a \in Nat, NEW b \in Nat, NEW c \in Nat, a <= b
    PROVE  0..(a + c) \subseteq 0..(b + c)
  OBVIOUS

LEMMA MarksStep ==
    ASSUME TypeInv, [Next]_vars
    PROVE  MarksOK'
<1>0. /\ MarksOK /\ WorldOK /\ WorldOK' /\ ScanOK /\ SaveOK /\ now <= now'
  BY WorldStep DEF TypeInv
<1>1. /\ Overlap \in Nat /\ MaxNow \in Nat /\ Lookback \in Nat /\ now \in Nat /\ now' \in Nat
      /\ now \in 0..MaxNow /\ None \notin Int
  BY <1>0, Values DEF WorldOK
<1>2. Ahead \subseteq Ahead' /\ Ahead \subseteq Int /\ Times \subseteq Int
  <2>1. now <= now'
    BY <1>0
  <2>2. Ahead \subseteq Ahead'
    BY <1>1, <2>1, Wider DEF Ahead
  <2>3. Ahead \subseteq Int /\ Times \subseteq Int
    BY <1>1 DEF Ahead, Times
  <2> QED
    BY <2>2, <2>3
<1> DEFINE C == /\ cursor' \in [Addresses -> Maybe(Ahead)] /\ since' \in [Addresses -> Maybe(Times)]
                /\ \A k \in Addresses : cursor'[k] # None <=> since'[k] # None
           P == pending' \in [Addresses -> Maybe(Ahead)]
           L == legacy' \in Maybe([at: Ahead, box: Mailboxes])
<1>3. ASSUME C, P, L PROVE MarksOK'
  <2>1. cursor' \in [Addresses -> Maybe(Ahead')] /\ pending' \in [Addresses -> Maybe(Ahead')]
    BY <1>2, <1>3 DEF Maybe
  <2>2. legacy' \in Maybe([at: Ahead', box: Mailboxes])
    BY <1>2, <1>3 DEF Maybe
  <2> QED
    BY <1>3, <2>1, <2>2 DEF MarksOK
<1>4. /\ UNCHANGED <<cursor, since>> => C
      /\ UNCHANGED pending => P
      /\ UNCHANGED legacy => L
  BY <1>0 DEF MarksOK
<1>5. CASE UNCHANGED marks
  BY <1>3, <1>4, <1>5 DEF marks
<1>6. /\ legacy # None => legacy.at \in Ahead
      /\ \A a \in Addresses : pending[a] # None => pending[a] \in Ahead
  BY <1>0 DEF MarksOK, Maybe
<1>7. CASE TakeLegacy
  <2>1. /\ mon.key \in Addresses /\ (~mon.wins => cursor[mon.key] # None)
        /\ UNCHANGED <<legacy, pending>>
    BY <1>0, <1>7 DEF TakeLegacy, ScanOK, Keyed
  <2>2. Adopt(LegacyAt, legacy # None => legacy.box = Home[mon.key]) /\ LegacyAt \in Maybe(Ahead)
    BY <1>6, <1>7 DEF TakeLegacy, LegacyAt, Maybe
  <2>3. (legacy # None => legacy.box = Home[mon.key]) \in BOOLEAN
    OBVIOUS
  <2>4. C
    BY <2>1, <2>2, <2>3, AdoptTypes
  <2> QED
    BY <1>3, <1>4, <2>1, <2>4
<1>8. CASE TakePending
  <2>1. /\ mon.key \in Addresses /\ mon.acc \in Addresses /\ UNCHANGED <<legacy, pending>>
        /\ ~mon.wins => cursor[mon.key] # None
    BY <1>0, <1>8 DEF TakePending, ScanOK, Keyed, Serving
  <2>2. Adopt(pending[mon.acc], TRUE) /\ pending[mon.acc] \in Maybe(Ahead)
    BY <1>6, <1>8, <2>1 DEF TakePending, Maybe
  <2>3. C
    BY <2>1, <2>2, AdoptTypes
  <2> QED
    BY <1>3, <1>4, <2>1, <2>3
<1>9. CASE DropLegacy
  BY <1>3, <1>4, <1>9 DEF DropLegacy, Maybe
<1>10. CASE DropPending
  <2>1. P
    BY <1>0, <1>10 DEF DropPending, MarksOK, Maybe
  <2> QED
    BY <1>3, <1>4, <1>10, <2>1 DEF DropPending
<1>11. CASE AdvanceCursor
  <2>1. /\ mon.key \in Addresses /\ mon.started \in Ahead /\ mon.start \in Times
        /\ UNCHANGED <<legacy, pending>>
    <3>1. mon \in Scans /\ mon.started <= now /\ mon.key \in Addresses
          /\ UNCHANGED <<legacy, pending>>
      BY <1>0, <1>11 DEF AdvanceCursor, ScanOK, Keyed
    <3>2. mon.started \in 0..MaxNow /\ mon.start \in Times
      BY <3>1 DEF Scans
    <3> QED
      BY <1>1, <3>1, <3>2 DEF Ahead
  <2>2. /\ cursor' = [cursor EXCEPT ![mon.key] = mon.started]
        /\ since' = [since EXCEPT ![mon.key] = IF @ = None THEN mon.start ELSE @]
    BY <1>11 DEF AdvanceCursor
  <2>3. /\ mon.started # None /\ mon.start # None
    BY <1>1, <1>2, <2>1
  <2>4. cursor' \in [Addresses -> Maybe(Ahead)] /\ since' \in [Addresses -> Maybe(Times)]
    BY <1>0, <2>1, <2>2 DEF MarksOK, Maybe
  <2>5. \A k \in Addresses : cursor'[k] # None <=> since'[k] # None
    BY <1>0, <2>1, <2>2, <2>3 DEF MarksOK
  <2> QED
    BY <1>3, <1>4, <2>1, <2>4, <2>5
<1>12. CASE CommitLegacy
  BY <1>3, <1>4, <1>12 DEF CommitLegacy, Maybe
<1>13. ASSUME NEW a \in Addresses, CommitDrop(a) PROVE MarksOK'
  <2>1. P
    BY <1>0, <1>13 DEF CommitDrop, MarksOK, Maybe
  <2> QED
    BY <1>3, <1>4, <1>13, <2>1 DEF CommitDrop
<1>14. ASSUME NEW a \in Addresses, CommitStart(a) PROVE MarksOK'
  <2> DEFINE at == save.start + Overlap
             k  == CursorKey(a, save.mode)
  <2>1. at \in Ahead /\ save.start \in Times /\ at # None /\ save.start # None
    <3>1. save.start \in 0..now
      BY <1>0, <1>14 DEF CommitStart, SaveOK
    <3> QED
      BY <1>1, <3>1 DEF Ahead, Times
  <2>2. k \in Maybe(Addresses)
    BY Values DEF CursorKey, Maybe
  <2>3. /\ UNCHANGED legacy
        /\ IF k # None
           THEN /\ cursor' = [cursor EXCEPT ![k] = at] /\ since' = [since EXCEPT ![k] = save.start]
                /\ UNCHANGED pending
           ELSE pending' = [pending EXCEPT ![a] = at] /\ UNCHANGED <<cursor, since>>
    BY <1>14 DEF CommitStart, SetStart
  <2> HIDE DEF at, k
  <2>4. CASE k # None
    <3>1. C
      BY <1>0, <2>1, <2>2, <2>3, <2>4 DEF MarksOK, Maybe
    <3> QED
      BY <1>3, <1>4, <2>3, <2>4, <3>1
  <2>5. CASE k = None
    <3>1. P
      BY <1>0, <2>1, <2>3, <2>5 DEF MarksOK, Maybe
    <3> QED
      BY <1>3, <1>4, <2>3, <2>5, <3>1
  <2> QED
    BY <2>4, <2>5
<1>15. CASE Scanner
  BY <1>5, <1>7, <1>8, <1>9, <1>10, <1>11, <1>15 DEF Scanner, MonitorStarts, RecordIdentity, CompareLegacy, ComparePending, CycleBegins, CycleEnds,
     ReadKey, ListMail, EnqueueMessage, GetService
<1>16. CASE Commit
  BY <1>5, <1>12, <1>13, <1>14, <1>16 DEF Commit, StopForUpdate, CommitCreds, CommitToken,
     CommitIdent, CommitGoesOn, CommitConf
<1>17. CASE Gmail \/ ScannerFaults \/ AskSave \/ AskRescan \/ CommitFails
  BY <1>5, <1>17 DEF Gmail, Tick, Arrive, Index, ScannerFaults, MonitorStartsEarly, MonitorDies, ScanFails,
     GetServiceFails, AskSave, AskRescan, CommitFails
<1>18. CASE UNCHANGED vars
  BY <1>5, <1>18 DEF vars
<1> QED
  BY <1>15, <1>16, <1>17, <1>18 DEF Next

LEMMA ScanStep ==
    ASSUME TypeInv, [Next]_vars
    PROVE  ScanOK'
<1>0. /\ mon \in Scans /\ ScanOK /\ StoredOK /\ MarksOK /\ WorldOK /\ now <= now'
      /\ indexed \subseteq indexed' /\ now \in 0..MaxNow /\ now' \in 0..MaxNow
      /\ pool \in Pools
  BY WorldStep DEF TypeInv, ScanOK, WorldOK
<1>1. /\ MaxNow \in Nat /\ now \in Nat /\ now' \in Nat /\ Overlap \in Nat /\ Lookback \in Nat
      /\ None \notin Addresses /\ None \notin Int
      /\ mon.started \in Nat /\ mon.started <= now' /\ mon.todo \subseteq indexed'
  <2>1. mon.started \in 0..MaxNow /\ mon.started <= now /\ mon.todo \subseteq indexed
    BY <1>0 DEF ScanOK, Scans
  <2> QED
    BY <1>0, <2>1, Values
\* The services.
<1> DEFINE V == pool' \in Pools
<1>2. ASSUME NEW a, NEW b \in Maybe(Mailboxes), NEW q \in Pools,
             pool' = [q EXCEPT !.svc[a] = b]
      PROVE  V
  BY <1>2 DEF Pools
\* The scan stands between two accounts or is not on.
<1>3. ASSUME mon' \in {Off, Idle}, V PROVE ScanOK'
  <2>1. mon' \in Scans /\ mon'.pc \in {"off", "idle"} /\ mon'.started = 0 /\ mon'.todo = {}
    BY <1>3, Scanning
  <2>2. mon'.started <= now' /\ mon'.todo \subseteq indexed'
    BY <1>1, <2>1
  <2>3. mon'.pc \notin Serving /\ mon'.pc \notin Keyed
    BY <2>1 DEF Serving, Keyed
  <2> QED
    BY <1>3, <2>1, <2>2, <2>3 DEF ScanOK
<1>4. ASSUME NextAccount, V PROVE ScanOK'
  <2>1. CASE mon' = Idle
    BY <1>3, <1>4, <2>1
  <2>2. CASE mon' = [Idle EXCEPT !.pc = "next", !.left = mon.left, !.mode = mon.mode]
    <3>1. /\ mon' \in Scans /\ mon'.pc = "next" /\ mon'.started = 0 /\ mon'.todo = {}
      BY <1>0, <2>2, Scanning DEF Scans
    <3> QED
      BY <1>1, <1>4, <3>1 DEF ScanOK, Serving, Keyed
  <2> QED
    BY <1>4, <2>1, <2>2 DEF NextAccount
\* It goes on with the same account.
<1>5. ASSUME NEW pc \in Keyed, NEW w \in BOOLEAN, mon' = [mon EXCEPT !.pc = pc, !.wins = w],
             mon.pc \in Keyed, V,
             pc \in {"legacy wins", "pending wins"} /\ ~w => cursor'[mon.key] # None
      PROVE  ScanOK'
  <2>1. /\ mon' \in Scans /\ mon'.pc = pc /\ mon'.started = mon.started /\ mon'.todo = mon.todo
        /\ mon'.acc = mon.acc /\ mon'.key = mon.key /\ mon'.wins = w
    BY <1>0, <1>5 DEF Scans, Keyed
  <2>2. mon.acc \in Addresses /\ mon.key \in Addresses
    BY <1>0, <1>5 DEF ScanOK, Serving
  <2>3. pc # "record"
    BY <1>5 DEF Keyed
  <2> QED
    BY <1>1, <1>5, <2>1, <2>2, <2>3 DEF ScanOK
<1>a. ASSUME NEW pc, mon' = [mon EXCEPT !.pc = pc] PROVE mon' = [mon EXCEPT !.pc = pc, !.wins = mon.wins]
  BY <1>0, <1>a DEF Scans
<1>6. /\ UNCHANGED pool => V
      /\ mon.wins \in BOOLEAN
  BY <1>0 DEF Scans
\* Nothing of the scan changes.
<1>7. ASSUME UNCHANGED <<mon, pool>>, \A k \in Addresses : cursor[k] # None => cursor'[k] # None
      PROVE  ScanOK'
  <2>1. mon.pc \in {"legacy wins", "pending wins"} => mon.key \in Addresses
    BY <1>0 DEF ScanOK, Keyed
  <2> QED
    BY <1>0, <1>1, <1>7, <2>1 DEF ScanOK
<1>8. CASE Scanner
  <2>1. CASE MonitorStarts
    BY <1>3, <1>6, <2>1 DEF MonitorStarts
  <2>2. CASE CycleBegins
    <3>1. CASE mon' = Idle
      BY <1>3, <1>6, <2>2, <3>1 DEF CycleBegins
    <3>2. CASE mon' = [Idle EXCEPT !.pc = "next", !.left = conf.accounts, !.mode = conf.mode]
      <4>1. mon' \in Scans /\ mon'.pc = "next" /\ mon'.started = 0 /\ mon'.todo = {}
        BY <1>0, <3>2, Scanning DEF Scans, StoredOK
      <4>2. V
        BY <1>6, <2>2 DEF CycleBegins
      <4> QED
        BY <1>1, <4>1, <4>2 DEF ScanOK, Serving, Keyed
    <3> QED
      BY <2>2, <3>1, <3>2 DEF CycleBegins
  <2>3. CASE CycleEnds
    BY <1>3, <1>6, <2>3 DEF CycleEnds
  <2>4. ASSUME NEW a \in Addresses, GetService(a) PROVE ScanOK'
    <3>1. V /\ mon.pc = "next"
      BY <2>4, Got
    <3>2. CASE mon' = [mon EXCEPT !.left = @ \ {a}]
      <4>1. /\ mon' \in Scans /\ mon'.started = mon.started /\ mon'.todo = mon.todo
            /\ mon'.pc = "next"
        BY <1>0, <3>1, <3>2 DEF Scans
      <4> QED
        BY <1>1, <3>1, <4>1 DEF ScanOK, Serving, Keyed
    <3>3. CASE mon' = [mon EXCEPT !.pc = "key", !.left = @ \ {a}, !.acc = a, !.box = None]
      <4>1. /\ mon' \in Scans /\ mon'.started = mon.started /\ mon'.todo = mon.todo
            /\ mon'.pc = "key" /\ mon'.acc = a
        BY <1>0, <3>3 DEF Scans, Maybe
      <4> QED
        BY <1>1, <3>1, <4>1 DEF ScanOK, Serving, Keyed
    <3>4. CASE /\ mon' = [mon EXCEPT !.pc = "record", !.left = @ \ {a}, !.acc = a,
                                     !.box = Opens(a)]
               /\ Opens(a) # None
      <4>1. /\ mon' \in Scans /\ mon'.started = mon.started /\ mon'.todo = mon.todo
            /\ mon'.pc = "record" /\ mon'.acc = a /\ mon'.box \in Mailboxes
        BY <1>0, <3>4, Opening DEF Scans, Maybe
      <4> QED
        BY <1>1, <3>1, <4>1 DEF ScanOK, Serving, Keyed
    <3> QED
      BY <2>4, <3>2, <3>3, <3>4, Got
  <2>13. CASE RecordIdentity
    <3>1. mon.acc \in Addresses /\ mon.box \in Mailboxes
      BY <1>0, <2>13 DEF RecordIdentity, ScanOK
    <3>2. V
      BY <1>0, <1>2, <2>13, <3>1 DEF RecordIdentity, Maybe
    <3>3. mon' = [mon EXCEPT !.pc = "key", !.box = None]
      BY <2>13 DEF RecordIdentity
    <3>4. /\ mon' \in Scans /\ mon'.started = mon.started /\ mon'.todo = mon.todo
          /\ mon'.pc = "key" /\ mon'.acc = mon.acc
      BY <1>0, <3>3 DEF Scans, Maybe
    <3> QED
      BY <1>1, <3>1, <3>2, <3>4 DEF ScanOK, Serving, Keyed
  <2>14. ASSUME NEW at, NEW taking \in {"legacy wins", "pending wins"}, NEW without \in {"pending", "list"},
                Compare(at, taking, without), mon.pc \in Keyed, UNCHANGED <<pool, cursor>>
         PROVE  ScanOK'
    <3>1. CASE mon' = [mon EXCEPT !.pc = without]
      BY <1>5, <1>6, <1>a, <2>14, <3>1 DEF Keyed
    <3>2. CASE mon' = [mon EXCEPT !.pc = taking, !.wins = Wins(at)]
      <4>1. Wins(at) \in BOOLEAN /\ (~Wins(at) => cursor[mon.key] # None)
        BY DEF Wins
      <4> QED
        BY <1>5, <1>6, <2>14, <3>2, <4>1 DEF Keyed
    <3> QED
      BY <2>14, <3>1, <3>2 DEF Compare
  <2>15. CASE CompareLegacy
    BY <2>14, <2>15 DEF CompareLegacy, Keyed, marks
  <2>16. CASE ComparePending
    BY <2>14, <2>16 DEF ComparePending, Keyed, marks
  <2>5. CASE ReadKey
    <3> DEFINE key == CursorKey(mon.acc, mon.mode)
    <3>1. mon.acc \in Addresses
      BY <1>0, <2>5 DEF ReadKey, ScanOK, Serving
    <3>2. key \in Maybe(Addresses)
      BY <3>1, Values DEF CursorKey, Maybe
    <3> HIDE DEF key
    <3>3. CASE key = None
      <4>1. NextAccount /\ pool' = [pool EXCEPT !.svc[mon.acc] = None]
        BY <2>5, <3>3 DEF ReadKey, key
      <4> QED
        BY <1>0, <1>2, <1>4, <4>1 DEF Maybe
    <3>4. CASE key # None
      <4>1. /\ mon' = [mon EXCEPT !.pc = IF mon.mode = "dwd" THEN "list" ELSE "legacy",
                                  !.key = key, !.started = now]
            /\ UNCHANGED pool
        BY <2>5, <3>4 DEF ReadKey, key
      <4>2. /\ mon' \in Scans /\ mon'.pc \in {"list", "legacy"} /\ mon'.started = now
            /\ mon'.todo = mon.todo /\ mon'.acc = mon.acc /\ mon'.key = key
        BY <1>0, <3>2, <4>1 DEF Scans
      <4> QED
        BY <1>0, <1>1, <1>6, <3>1, <3>2, <3>4, <4>1, <4>2 DEF ScanOK, Maybe
    <3> QED
      BY <3>3, <3>4
  <2>6. CASE TakeLegacy
    BY <1>5, <1>6, <2>6 DEF TakeLegacy, Keyed
  <2>7. CASE DropLegacy
    BY <1>5, <1>6, <1>a, <2>7 DEF DropLegacy, Keyed
  <2>8. CASE TakePending
    BY <1>5, <1>6, <2>8 DEF TakePending, Keyed
  <2>9. CASE DropPending
    BY <1>5, <1>6, <1>a, <2>9 DEF DropPending, Keyed
  <2>10. CASE ListMail
    <3>1. mon.key \in Addresses /\ mon.acc \in Addresses
      BY <1>0, <2>10 DEF ListMail, ScanOK, Keyed, Serving
    <3>2. StartTime \in Times
      <4>1. cursor[mon.key] = None \/ cursor[mon.key] \in Ahead
        BY <1>0, <3>1 DEF MarksOK, Maybe
      <4>2. mon.started \in 0..MaxNow
        BY <1>0 DEF Scans
      <4> QED
        BY <1>0, <1>1, <4>1, <4>2 DEF StartTime, Times, Ahead
    <3>3. Found(pool.svc[mon.acc], StartTime) \in SUBSET Messages
          /\ Found(pool.svc[mon.acc], StartTime) \subseteq indexed
      BY <1>0 DEF Found, WorldOK
    <3>4. /\ mon' = [mon EXCEPT !.pc = "enqueue", !.start = StartTime,
                          !.todo = Found(pool.svc[mon.acc], StartTime)]
          /\ UNCHANGED pool
      BY <2>10 DEF ListMail
    <3>5. /\ mon' \in Scans /\ mon'.pc = "enqueue" /\ mon'.started = mon.started
          /\ mon'.todo \subseteq indexed /\ mon'.acc = mon.acc /\ mon'.key = mon.key
      BY <1>0, <3>2, <3>3, <3>4 DEF Scans
    <3> QED
      BY <1>0, <1>1, <1>6, <3>1, <3>4, <3>5 DEF ScanOK
  <2>11. CASE AdvanceCursor
    BY <1>4, <1>6, <2>11 DEF AdvanceCursor
  <2>12. ASSUME NEW m \in Messages, EnqueueMessage(m) PROVE ScanOK'
    <3>1. /\ mon' \in Scans /\ mon'.pc = "enqueue" /\ mon'.started = mon.started
          /\ mon'.todo \subseteq mon.todo /\ mon'.acc = mon.acc /\ mon'.key = mon.key
          /\ UNCHANGED pool /\ mon.pc = "enqueue"
      BY <1>0, <2>12 DEF EnqueueMessage, Scans
    <3> QED
      BY <1>0, <1>1, <1>6, <3>1 DEF ScanOK, Serving, Keyed
  <2> QED
    BY <1>8, <2>1, <2>2, <2>3, <2>4, <2>5, <2>6, <2>7, <2>8, <2>9, <2>10, <2>11, <2>12, <2>13,
       <2>15, <2>16 DEF Scanner
<1>9. CASE ScannerFaults
  <2>1. CASE MonitorDies \/ MonitorStartsEarly
    BY <1>3, <1>6, <2>1, Scanning DEF MonitorDies, MonitorStartsEarly
  <2>2. CASE ScanFails
    BY <1>0, <1>2, <1>4, <2>2 DEF ScanFails, Maybe
  <2>3. ASSUME NEW a \in Addresses, GetServiceFails(a) PROVE ScanOK'
    <3>1. V
      BY <1>2, <2>3, Syncing DEF GetServiceFails, Maybe
    <3>2. mon' = [mon EXCEPT !.left = @ \ {a}] /\ mon.pc = "next"
      BY <2>3 DEF GetServiceFails
    <3>3. mon' \in Scans /\ mon'.pc = "next" /\ mon'.started = mon.started /\ mon'.todo = mon.todo
      BY <1>0, <3>2 DEF Scans
    <3> QED
      BY <1>1, <3>1, <3>3 DEF ScanOK, Serving, Keyed
  <2> QED
    BY <1>9, <2>1, <2>2, <2>3 DEF ScannerFaults
<1>10. CASE Commit
  <2>1. CASE StopForUpdate
    BY <1>3, <2>1, Scanning DEF StopForUpdate
  <2>2. ASSUME NEW a \in Addresses, CommitStart(a) PROVE ScanOK'
    <3>1. save.start + Overlap # None
      <4>1. SaveOK /\ save.pc = "start" /\ save.left # {}
        BY <2>2 DEF CommitStart, TypeInv
      <4> QED
        BY <1>1, <4>1, Values DEF SaveOK
    <3>2. \A k \in Addresses : cursor[k] # None => cursor'[k] # None
      BY <1>0, <2>2, <3>1 DEF CommitStart, SetStart, MarksOK
    <3> QED
      BY <1>7, <2>2, <3>2 DEF CommitStart
  <2>3. CASE ~StopForUpdate /\ ~(\E a \in Addresses : CommitStart(a))
    BY <1>7, <1>10, <2>3 DEF Commit, CommitCreds, CommitToken, CommitLegacy, CommitDrop, CommitGoesOn,
       CommitIdent, CommitConf, marks
  <2> QED
    BY <2>1, <2>2, <2>3
<1>11. CASE Gmail \/ AskSave \/ AskRescan \/ CommitFails
  BY <1>7, <1>11 DEF Gmail, Tick, Arrive, Index, AskSave, AskRescan, CommitFails, marks
<1>12. CASE UNCHANGED vars
  BY <1>7, <1>12 DEF vars, marks
<1> QED
  BY <1>8, <1>9, <1>10, <1>11, <1>12 DEF Next

LEMMA PastStep ==
    ASSUME TypeInv, [Next]_vars
    PROVE  PastOK'
<1>0. PastOK /\ ScanOK
  BY DEF TypeInv
<1>1. CASE UNCHANGED past
  BY <1>0, <1>1 DEF past, PastOK
<1>2. CASE TakeLegacy \/ TakePending \/ AdvanceCursor
  <2>1. mon.key \in Addresses /\ UNCHANGED <<early, torn>>
    BY <1>0, <1>2 DEF TakeLegacy, TakePending, AdvanceCursor, ScanOK, Keyed
  <2>2. astray' \subseteq astray \cup {mon.key}
    BY <1>2 DEF TakeLegacy, TakePending, AdvanceCursor, Adopt, Disturbed
  <2> QED
    BY <1>0, <2>1, <2>2 DEF PastOK
<1>3. CASE MonitorDies \/ MonitorStartsEarly \/ StopForUpdate \/ CommitFails
  BY <1>0, <1>3 DEF MonitorDies, MonitorStartsEarly, StopForUpdate, CommitFails, TokenAhead, PastOK
<1>4. ASSUME NEW a \in Addresses, CommitStart(a) PROVE PastOK'
  BY <1>0, <1>4 DEF CommitStart, SetStart, PastOK
<1>5. CASE Scanner
  BY <1>1, <1>2, <1>5 DEF Scanner, MonitorStarts, RecordIdentity, CompareLegacy, ComparePending,
     CycleBegins, CycleEnds, ReadKey, DropLegacy, DropPending, ListMail, EnqueueMessage, GetService
<1>6. CASE ScannerFaults
  BY <1>1, <1>3, <1>6 DEF ScannerFaults, ScanFails, GetServiceFails
<1>7. CASE Commit
  BY <1>1, <1>3, <1>4, <1>7 DEF Commit, CommitCreds, CommitToken, CommitLegacy, CommitDrop,
     CommitIdent, CommitGoesOn, CommitConf
<1>8. CASE Gmail \/ AskSave \/ AskRescan \/ UNCHANGED vars
  BY <1>1, <1>8 DEF Gmail, Tick, Arrive, Index, AskSave, AskRescan, vars
<1> QED
  BY <1>3, <1>5, <1>6, <1>7, <1>8 DEF Next

LEMMA TypeStep == TypeInv /\ [Next]_vars => TypeInv'
  BY WorldStep, StoredStep, MarksStep, ScanStep, SaveStep, PastStep, BoundStep DEF TypeInv

\* Every part of the state keeps its type and its bounds.
THEOREM Typed == Spec => []TypeInv
  BY TypeInit, TypeStep, PTL DEF Spec

\* Cursors, scan, Save and what is stored have their types; no cursor lies
\* further ahead than a scan start's distance.
THEOREM TypeCorrect == Spec => []TypeOK
<1>1. TypeInv => TypeOK
  <2> SUFFICES ASSUME TypeInv PROVE TypeOK
    OBVIOUS
  <2>1. WorldOK /\ StoredOK /\ MarksOK /\ ScanOK /\ SaveOK /\ PastOK /\ BoundsOK
    BY DEF TypeInv
  <2>2. Ahead \subseteq Times
    BY <2>1, Values DEF WorldOK, Ahead, Times
  <2>3. /\ now \in 0..MaxNow
        /\ mail \in [Messages -> Maybe([box: Mailboxes, at: 0 - Lookback .. MaxNow])]
        /\ indexed \subseteq {m \in Messages : mail[m] # None}
        /\ jobs \subseteq Addresses \X {m \in Messages : mail[m] # None}
    <3>1. /\ now \in 0..MaxNow
          /\ mail \in [Messages -> Maybe([box: Mailboxes, at: 0 - Lookback .. MaxNow])]
          /\ indexed \subseteq {m \in Messages : mail[m] # None}
      BY <2>1 DEF WorldOK
    <3>2. /\ jobs \subseteq Addresses \X Messages
          /\ \A a \in Addresses, m \in Messages : <<a, m>> \in jobs => mail[m] # None
      BY <2>1 DEF WorldOK
    <3>3. jobs \subseteq Addresses \X {m \in Messages : mail[m] # None}
      BY <3>2
    <3> QED
      BY <3>1, <3>3
  <2>4. /\ conf \in [mode: Modes, accounts: SUBSET Addresses]
        /\ token \in Maybe(Mailboxes) /\ cred \in Files
        /\ ident \in [Addresses -> Mailboxes \cup {"absent", "untested"}]
    BY <2>1 DEF StoredOK
  <2>5. /\ cursor \in [Addresses -> Maybe(Times)] /\ pending \in [Addresses -> Maybe(Times)]
        /\ since \in [Addresses -> Maybe(Times)]
        /\ \A k \in Addresses : cursor[k] # None <=> since[k] # None
    BY <2>1, <2>2 DEF MarksOK, Maybe
  <2>6. legacy \in Maybe([at: Times, box: Mailboxes])
    BY <2>1, <2>2 DEF MarksOK, Maybe
  <2>7. mon \in [pc: {"off", "idle", "next", "record", "key", "legacy", "legacy wins",
                     "legacy taken", "pending", "pending wins", "pending taken", "list",
                     "enqueue"},
                left: SUBSET Addresses, mode: Modes, acc: Maybe(Addresses),
                box: Maybe(Mailboxes), key: Maybe(Addresses), started: 0..MaxNow,
                wins: BOOLEAN, start: Times, todo: SUBSET indexed]
    BY <2>1 DEF ScanOK, Scans
  <2>8. /\ pool.svc \in [Addresses -> Maybe(Mailboxes)]
        /\ save.pc \in {"none", "stop"} \cup Committing /\ save.op \in {"none", "save", "rescan"}
        /\ faults \in 0..MaxFaults /\ saves \in 0..MaxSaves
        /\ early \in BOOLEAN /\ torn \in BOOLEAN /\ astray \subseteq Addresses
    BY <2>1 DEF ScanOK, SaveOK, Saves, PastOK, BoundsOK, Pools
  <2> QED
    BY <2>3, <2>4, <2>5, <2>6, <2>7, <2>8 DEF TypeOK
<1> QED
  BY <1>1, Typed, PTL
-----------------------------------------------------------------------------
(* No mail is skipped and none goes astray, but for the two gaps.          *)

\* Only a monitor that was started during a commit scans while one is written.
CommitApart == save.pc \in Committing => mon.pc = "off" \/ early

\* So a cycle of any other keeps the mode it began with,
OneMode == ~early /\ mon.pc \notin {"off", "idle"} => mon.mode = conf.mode

\* every service in its pool opens the mailbox recorded for its account,
ServicesOK ==
    /\ mon.pc = "off" => pool = NoServices
    /\ ~early =>
        \A a \in Addresses : pool.svc[a] # None =>
            ident[a] = pool.svc[a] /\ (conf.mode = "dwd" => pool.svc[a] = Home[a])

\* as will a new one,
RecordOK == ~early /\ mon.pc = "record" /\ conf.mode = "dwd" => mon.box = Home[mon.acc]

\* a scan holds such a service, and the cursor it goes by is that mailbox's,
ScanApart ==
    /\ mon.pc \in Serving => pool.svc[mon.acc] # None
    /\ ~early /\ mon.pc \in Keyed => Home[mon.key] = pool.svc[mon.acc]

\* what it takes over is what it has compared,
WinsOK ==
    ~early => /\ mon.pc = "legacy wins" => legacy # None /\ mon.wins = Wins(legacy.at)
              /\ mon.pc = "pending wins" => /\ pending[mon.acc] # None
                                            /\ mon.wins = Wins(pending[mon.acc])

\* and the older version's cursor, until it is gone, is of the one mailbox that
\* the login opens and that is recorded, so that it goes to no other.
LegacyOK ==
    legacy # None /\ ~torn =>
        /\ conf.mode = "oauth"
        /\ save.op = "save" /\ ~save.dropLegacy =>
              /\ save.mode = "oauth" /\ save.token \in {None, legacy.box}
              /\ \A a \in DOMAIN save.writes : save.writes[a] = legacy.box
        /\ save.dropLegacy => save.pc \in {"stop", "creds", "token", "legacy"}
        /\ ~TokenAhead =>
              /\ token = legacy.box
              /\ \A a \in Addresses : ident[a] \in {"absent", legacy.box}
              /\ mon.pc = "record" => mon.box = legacy.box

\* What is listed is of the service's mailbox and complete up to the overlap.
ListOK ==
    mon.pc = "enqueue" =>
        /\ ~early => mon.start = StartTime
        /\ \A m \in mon.todo : mail[m].box = pool.svc[mon.acc]
        /\ \A m \in Messages :
               mail[m] # None =>
               (mail[m].box = pool.svc[mon.acc] /\ mon.start <= mail[m].at
                  /\ mail[m].at < mon.started - Overlap => m \in mon.todo \/ Queued(m))

FetchInv == /\ CommitApart /\ OneMode /\ ServicesOK /\ RecordOK /\ ScanApart /\ WinsOK
            /\ LegacyOK /\ ListOK /\ NoMailSkipped

\* A write of the Save leaves the monitor alone, and finds none but an early one.
LEMMA CommitQuiet ==
    ASSUME CommitApart, Commit, ~StopForUpdate
    PROVE  /\ UNCHANGED <<mon, pool, early, torn, world, jobs>>
           /\ early \/ mon.pc = "off"
<1>1. UNCHANGED <<mon, pool, early, torn, world, jobs>>
  BY DEF Commit, CommitCreds, CommitToken, CommitLegacy, CommitDrop, CommitIdent, CommitStart,
     CommitGoesOn, CommitConf, past
<1>2. save.pc \in Committing
  BY DEF Commit, CommitCreds, CommitToken, CommitLegacy, CommitDrop, CommitIdent, CommitStart,
     CommitGoesOn, CommitConf, Committing
<1> QED
  BY <1>1, <1>2 DEF CommitApart

\* Where the flag of an early start changes.
LEMMA EarlyStep ==
    ASSUME [Next]_vars
    PROVE  \/ UNCHANGED early
           \/ MonitorStartsEarly /\ early'
           \/ (MonitorDies \/ StopForUpdate) /\ ~early' /\ mon' = Off /\ pool' = NoServices
<1>1. CASE Scanner
  BY <1>1 DEF Scanner, MonitorStarts, RecordIdentity, CompareLegacy, ComparePending, CycleBegins,
     CycleEnds, ReadKey, TakeLegacy, DropLegacy, TakePending, DropPending, ListMail, AdvanceCursor,
     EnqueueMessage, GetService, past
<1>2. CASE ScannerFaults
  BY <1>2 DEF ScannerFaults, MonitorStartsEarly, MonitorDies, ScanFails, GetServiceFails, past
<1>3. CASE Commit
  BY <1>3 DEF Commit, StopForUpdate, CommitCreds, CommitToken, CommitLegacy, CommitDrop, CommitIdent,
     CommitStart, CommitGoesOn, CommitConf, past
<1>4. CASE Gmail \/ AskSave \/ AskRescan \/ CommitFails \/ UNCHANGED vars
  BY <1>4 DEF Gmail, Tick, Arrive, Index, AskSave, AskRescan, CommitFails, vars, past
<1> QED
  BY <1>1, <1>2, <1>3, <1>4 DEF Next

LEMMA ApartStep ==
    ASSUME TypeInv, CommitApart, [Next]_vars
    PROVE  CommitApart'
<1>1. CASE save.pc \notin Committing /\ UNCHANGED save
  BY <1>1 DEF CommitApart
<1>2. CASE mon' = Off \/ early'
  BY <1>2, Scanning DEF CommitApart
<1>3. CASE UNCHANGED <<mon, early, save>>
  BY <1>3 DEF CommitApart
<1>4. CASE Scanner
  <2>1. UNCHANGED save
    BY <1>4 DEF Scanner, MonitorStarts, RecordIdentity, CompareLegacy, ComparePending, CycleBegins,
       CycleEnds, ReadKey, TakeLegacy, DropLegacy, TakePending, DropPending, ListMail,
       AdvanceCursor, EnqueueMessage, GetService
  <2>2. MonitorStarts \/ mon.pc # "off"
    BY <1>4 DEF Scanner, RecordIdentity, CompareLegacy, ComparePending, CycleBegins,
       CycleEnds, ReadKey, TakeLegacy, DropLegacy, TakePending, DropPending, ListMail,
       AdvanceCursor, EnqueueMessage, GetService
  <2>3. CASE MonitorStarts
    BY <1>1, <2>1, <2>3 DEF MonitorStarts
  <2>4. CASE mon.pc # "off" /\ UNCHANGED early
    BY <1>1, <1>2, <2>1, <2>4 DEF CommitApart
  <2> QED
    BY <1>2, <2>2, <2>3, <2>4, EarlyStep
<1>5. CASE ScannerFaults
  <2>1. CASE MonitorDies \/ MonitorStartsEarly
    BY <1>2, <2>1 DEF MonitorDies, MonitorStartsEarly
  <2>2. CASE ScanFails \/ \E a \in Addresses : GetServiceFails(a)
    <3>1. mon.pc # "off" /\ UNCHANGED <<early, save>>
      BY <2>2 DEF ScanFails, GetServiceFails, past
    <3> QED
      BY <1>1, <1>2, <3>1 DEF CommitApart
  <2> QED
    BY <1>5, <2>1, <2>2 DEF ScannerFaults
<1>6. CASE Commit
  <2>1. CASE StopForUpdate
    BY <1>2, <2>1 DEF StopForUpdate
  <2>2. CASE ~StopForUpdate
    BY <1>6, <2>2, CommitQuiet DEF CommitApart
  <2> QED
    BY <2>1, <2>2
<1>7. CASE AskSave \/ AskRescan \/ CommitFails
  <2>1. save'.pc \in {"none", "stop"}
    <3>1. ASSUME NEW mode, NEW accounts, NEW verified, NEW login, NEW file, NEW start,
                 save' = Plan(mode, accounts, verified, login, file, start)
          PROVE  save'.pc = "stop"
      BY <3>1 DEF Plan
    <3>2. CASE AskSave
      BY <3>1, <3>2 DEF AskSave
    <3>3. CASE AskRescan
      <4>1. PICK start \in 0..now :
               save' = [NoSave EXCEPT !.op = "rescan", !.pc = "stop", !.mode = conf.mode,
                                      !.accounts = conf.accounts, !.start = start]
        BY <3>3 DEF AskRescan
      <4> QED
        BY <4>1 DEF NoSave
    <3>4. CASE CommitFails
      BY <3>4, Scanning DEF CommitFails
    <3> QED
      BY <1>7, <3>2, <3>3, <3>4
  <2> QED
    BY <2>1 DEF CommitApart, Committing
<1>8. CASE Gmail \/ UNCHANGED vars
  BY <1>3, <1>8 DEF Gmail, Tick, Arrive, Index, vars, past
<1> QED
  BY <1>4, <1>5, <1>6, <1>7, <1>8 DEF Next

LEMMA ModeStep ==
    ASSUME TypeInv, CommitApart, OneMode, [Next]_vars
    PROVE  OneMode'
<1>0. mon \in Scans
  BY DEF TypeInv, ScanOK
<1>1. ASSUME mon'.pc \in {"off", "idle"} \/ early' PROVE OneMode'
  BY <1>1 DEF OneMode
<1>2. ASSUME UNCHANGED conf, mon'.mode = mon.mode, mon.pc \notin {"off", "idle"}, UNCHANGED early
      PROVE  OneMode'
  BY <1>2 DEF OneMode
<1>3. CASE UNCHANGED <<mon, conf, early>>
  BY <1>3 DEF OneMode
<1>4. ASSUME NextAccount, UNCHANGED conf, mon.pc \notin {"off", "idle"}, UNCHANGED early
      PROVE  OneMode'
  <2>1. mon'.pc = "idle" \/ mon'.mode = mon.mode
    BY <1>4, Scanning DEF NextAccount, Scans, Idle, Off
  <2> QED
    BY <1>1, <1>2, <1>4, <2>1
<1>5. CASE MonitorStarts \/ MonitorStartsEarly \/ CycleEnds \/ MonitorDies \/ StopForUpdate
  <2>1. mon'.pc \in {"off", "idle"}
    BY <1>5 DEF MonitorStarts, MonitorStartsEarly, CycleEnds, MonitorDies, StopForUpdate, Idle, Off
  <2> QED
    BY <1>1, <2>1
<1>6. CASE CycleBegins
  <2>1. UNCHANGED conf /\ (mon'.pc = "idle" \/ mon'.mode = conf.mode)
    BY <1>6 DEF CycleBegins, Idle, Off, stored
  <2> QED
    BY <2>1 DEF OneMode
<1>7. CASE AdvanceCursor \/ ScanFails
  <2>1. NextAccount /\ UNCHANGED <<conf, early>> /\ mon.pc \notin {"off", "idle"}
    BY <1>7 DEF AdvanceCursor, ScanFails, stored, past
  <2> QED
    BY <1>4, <2>1
<1>8. CASE ReadKey
  <2>1. UNCHANGED <<conf, early>> /\ mon.pc \notin {"off", "idle"}
        /\ (NextAccount \/ mon'.mode = mon.mode)
    BY <1>0, <1>8 DEF ReadKey, stored, Scans, past
  <2> QED
    BY <1>2, <1>4, <2>1
<1>9. CASE TakeLegacy \/ DropLegacy \/ TakePending \/ DropPending \/ ListMail
           \/ RecordIdentity \/ CompareLegacy \/ ComparePending
  <2>1. UNCHANGED <<conf, early>> /\ mon.pc \notin {"off", "idle"} /\ mon'.mode = mon.mode
    BY <1>0, <1>9 DEF TakeLegacy, DropLegacy, TakePending, DropPending, ListMail, stored, Scans, past,
       RecordIdentity, CompareLegacy, ComparePending, Compare
  <2> QED
    BY <1>2, <2>1
<1>10. ASSUME NEW a \in Addresses, GetService(a) \/ GetServiceFails(a) PROVE OneMode'
  <2>1. UNCHANGED <<conf, early>> /\ mon.pc \notin {"off", "idle"}
    BY <1>10 DEF GetService, GetServiceFails, stored, past
  <2>2. mon'.mode = mon.mode
    BY <1>0, <1>10, Got DEF GetServiceFails, Scans
  <2> QED
    BY <1>2, <2>1, <2>2
<1>11. ASSUME NEW m \in Messages, EnqueueMessage(m) PROVE OneMode'
  <2>1. UNCHANGED <<conf, early>> /\ mon.pc \notin {"off", "idle"} /\ mon'.mode = mon.mode
    BY <1>0, <1>11 DEF EnqueueMessage, stored, Scans, past
  <2> QED
    BY <1>2, <2>1
<1>12. CASE Commit
  <2>1. CASE ~StopForUpdate
    BY <1>1, <1>12, <2>1, CommitQuiet
  <2> QED
    BY <1>5, <2>1
<1>13. CASE Gmail \/ AskSave \/ AskRescan \/ CommitFails \/ UNCHANGED vars
  BY <1>3, <1>13 DEF Gmail, Tick, Arrive, Index, AskSave, AskRescan, CommitFails, stored, vars, past
<1> QED
  BY <1>5, <1>6, <1>7, <1>8, <1>9, <1>10, <1>11, <1>12, <1>13 DEF Next, Scanner, ScannerFaults

LEMMA ServicesStep ==
    ASSUME TypeInv, CommitApart, ServicesOK, RecordOK, [Next]_vars
    PROVE  ServicesOK' /\ RecordOK'
<1>0. mon \in Scans /\ pool \in Pools /\ ScanOK /\ StoredOK
  BY DEF TypeInv, ScanOK
<1>1. ASSUME mon' = Off, pool' = NoServices PROVE ServicesOK' /\ RecordOK'
  BY <1>1, Scanning DEF ServicesOK, RecordOK
<1>2. ASSUME mon.pc # "off", mon'.pc \notin {"off", "record"}, UNCHANGED <<conf, ident, early>>,
             \A a \in Addresses : pool'.svc[a] \in {None, pool.svc[a]}
      PROVE  ServicesOK' /\ RecordOK'
  BY <1>2 DEF ServicesOK, RecordOK
<1>3. CASE UNCHANGED <<mon, conf, ident, pool, early>>
  BY <1>3 DEF ServicesOK, RecordOK
<1>4. CASE MonitorStarts \/ MonitorStartsEarly
  BY <1>4, Scanning DEF MonitorStarts, MonitorStartsEarly, ServicesOK, RecordOK
<1>5. CASE MonitorDies \/ StopForUpdate
  BY <1>1, <1>5 DEF MonitorDies, StopForUpdate
<1>6. CASE Commit
  <2>1. CASE ~StopForUpdate /\ early
    BY <1>6, <2>1, CommitQuiet DEF ServicesOK, RecordOK
  <2>2. CASE ~StopForUpdate /\ mon.pc = "off"
    <3>1. UNCHANGED <<mon, pool>> /\ pool = NoServices
      BY <1>6, <2>2, CommitQuiet DEF ServicesOK
    <3> QED
      BY <2>2, <3>1, Scanning DEF ServicesOK, RecordOK
  <2> QED
    BY <1>5, <1>6, <2>1, <2>2, CommitQuiet
<1>7. ASSUME NEW a \in Addresses, GetService(a) PROVE ServicesOK' /\ RecordOK'
  <2>1. /\ mon.pc = "next" /\ UNCHANGED <<conf, ident, early>>
        /\ Opens(a) = IF conf.mode = "dwd" THEN Home[a] ELSE token
    BY <1>7, Got DEF GetService, Opens, past
  <2>2. ASSUME pool'.svc[a] \in {None, pool.svc[a]}, mon'.pc # "record", mon'.pc # "off"
        PROVE  ServicesOK' /\ RecordOK'
    BY <1>2, <1>7, <2>1, <2>2, Got
  <2>3. CASE mon' = [mon EXCEPT !.left = @ \ {a}] /\ pool'.svc[a] = None
    <3>1. mon'.pc = "next"
      BY <1>0, <2>1, <2>3 DEF Scans
    <3> QED
      BY <2>2, <2>3, <3>1
  <2>4. CASE /\ mon' = [mon EXCEPT !.pc = "key", !.left = @ \ {a}, !.acc = a, !.box = None]
             /\ pool'.svc[a] = pool.svc[a] \/ (pool'.svc[a] = Opens(a) /\ ident[a] = Opens(a))
    <3>1. mon'.pc = "key"
      BY <1>0, <2>4 DEF Scans
    <3>2. CASE pool'.svc[a] = pool.svc[a]
      BY <2>2, <3>1, <3>2
    <3>3. CASE pool'.svc[a] = Opens(a) /\ ident[a] = Opens(a)
      <4>1. RecordOK'
        BY <3>1 DEF RecordOK
      <4>2. \A b \in Addresses \ {a} : pool'.svc[b] \in {None, pool.svc[b]}
        BY <1>7, Got
      <4>3. ServicesOK'
        BY <2>1, <3>1, <3>3, <4>2 DEF ServicesOK
      <4> QED
        BY <4>1, <4>3
    <3> QED
      BY <2>4, <3>2, <3>3
  <2>5. CASE /\ mon' = [mon EXCEPT !.pc = "record", !.left = @ \ {a}, !.acc = a, !.box = Opens(a)]
             /\ pool'.svc[a] = None
    <3>1. mon'.pc = "record" /\ mon'.acc = a /\ mon'.box = Opens(a)
      BY <1>0, <2>5 DEF Scans
    <3>2. RecordOK'
      BY <2>1, <3>1 DEF RecordOK
    <3>3. \A b \in Addresses : pool'.svc[b] \in {None, pool.svc[b]}
      BY <1>7, <2>5, Got
    <3>4. ServicesOK'
      BY <2>1, <3>1, <3>3 DEF ServicesOK
    <3> QED
      BY <3>2, <3>4
  <2> QED
    BY <1>7, <2>3, <2>4, <2>5, Got
<1>8. CASE RecordIdentity
  <2>1. /\ mon.pc = "record" /\ mon.acc \in Addresses /\ UNCHANGED <<conf, early>>
        /\ ident' = [ident EXCEPT ![mon.acc] = mon.box]
        /\ pool' = [pool EXCEPT !.svc[mon.acc] = mon.box]
        /\ mon' = [mon EXCEPT !.pc = "key", !.box = None]
    BY <1>0, <1>8 DEF RecordIdentity, ScanOK, past
  <2>2. mon'.pc = "key"
    BY <1>0, <2>1 DEF Scans
  <2>3. /\ pool'.svc[mon.acc] = mon.box /\ ident'[mon.acc] = mon.box
        /\ \A b \in Addresses \ {mon.acc} : pool'.svc[b] = pool.svc[b] /\ ident'[b] = ident[b]
    BY <1>0, <2>1 DEF Pools, StoredOK
  <2>4. ~early => (conf.mode = "dwd" => mon.box = Home[mon.acc])
    BY <2>1 DEF RecordOK
  <2>5. ServicesOK'
    BY <2>1, <2>2, <2>3, <2>4 DEF ServicesOK
  <2> QED
    BY <2>2, <2>5 DEF RecordOK
<1>9. CASE CycleBegins \/ CycleEnds \/ ReadKey \/ TakeLegacy \/ DropLegacy \/ TakePending
           \/ DropPending \/ ListMail \/ AdvanceCursor \/ ScanFails \/ CompareLegacy \/ ComparePending
  <2>1. mon.pc # "off" /\ UNCHANGED <<conf, ident, early>>
    BY <1>9 DEF CycleBegins, CycleEnds, ReadKey, TakeLegacy, DropLegacy, TakePending, DropPending,
       ListMail, AdvanceCursor, ScanFails, CompareLegacy, ComparePending, stored, past
  <2>2. UNCHANGED pool \/ pool' = [pool EXCEPT !.svc[mon.acc] = None]
    BY <1>9 DEF CycleBegins, CycleEnds, ReadKey, TakeLegacy, DropLegacy, TakePending, DropPending,
       ListMail, AdvanceCursor, ScanFails, CompareLegacy, ComparePending
  <2>3. \A a \in Addresses : pool'.svc[a] \in {None, pool.svc[a]}
    BY <1>0, <2>2 DEF Pools
  <2>4. mon'.pc \notin {"off", "record"}
    <3>1. NextAccount => mon'.pc \in {"idle", "next"}
      BY DEF NextAccount, Idle, Off
    <3>2. CASE AdvanceCursor \/ ScanFails
      BY <3>1, <3>2 DEF AdvanceCursor, ScanFails
    <3>3. CASE CycleBegins \/ CycleEnds
      BY <3>3 DEF CycleBegins, CycleEnds, Idle, Off
    <3>4. CASE ReadKey
      <4>1. NextAccount \/ mon'.pc \in {"list", "legacy"}
        BY <1>0, <3>4 DEF ReadKey, Scans
      <4> QED
        BY <3>1, <4>1
    <3>5. CASE TakeLegacy \/ DropLegacy \/ TakePending \/ DropPending \/ ListMail
               \/ CompareLegacy \/ ComparePending
      BY <1>0, <3>5 DEF TakeLegacy, DropLegacy, TakePending, DropPending, ListMail, CompareLegacy,
         ComparePending, Compare, Scans
    <3> QED
      BY <1>9, <3>2, <3>3, <3>4, <3>5
  <2> QED
    BY <1>2, <2>1, <2>3, <2>4
<1>10. ASSUME NEW a \in Addresses, GetServiceFails(a) PROVE ServicesOK' /\ RecordOK'
  <2>1. /\ mon.pc = "next" /\ UNCHANGED <<conf, ident, early>>
        /\ pool' = [Synced EXCEPT !.svc[a] = None] /\ mon' = [mon EXCEPT !.left = @ \ {a}]
    BY <1>10 DEF GetServiceFails, stored, past
  <2>2. \A b \in Addresses : pool'.svc[b] \in {None, pool.svc[b]}
    BY <2>1, Syncing DEF Pools
  <2>3. mon'.pc = "next"
    BY <1>0, <2>1 DEF Scans
  <2> QED
    BY <1>2, <2>1, <2>2, <2>3
<1>11. ASSUME NEW m \in Messages, EnqueueMessage(m) PROVE ServicesOK' /\ RecordOK'
  <2>1. mon.pc = "enqueue" /\ UNCHANGED <<conf, ident, pool, early>> /\ mon'.pc = "enqueue"
    BY <1>0, <1>11 DEF EnqueueMessage, stored, past, Scans
  <2> QED
    BY <1>2, <2>1
<1>12. CASE Gmail \/ AskSave \/ AskRescan \/ CommitFails \/ UNCHANGED vars
  BY <1>3, <1>12 DEF Gmail, Tick, Arrive, Index, AskSave, AskRescan, CommitFails, stored, vars, past
<1> QED
  BY <1>4, <1>5, <1>6, <1>7, <1>8, <1>9, <1>10, <1>11, <1>12 DEF Next, Scanner, ScannerFaults

LEMMA ScanApartStep ==
    ASSUME TypeInv, CommitApart, OneMode, ServicesOK, ScanApart, [Next]_vars
    PROVE  ScanApart'
<1>0. mon \in Scans /\ pool \in Pools /\ ScanOK
  BY DEF TypeInv, ScanOK
<1>1. ASSUME mon'.pc \in {"off", "idle", "next", "record"} PROVE ScanApart'
  BY <1>1 DEF ScanApart, Serving, Keyed
<1>2. CASE UNCHANGED <<mon, pool, early>>
  BY <1>2 DEF ScanApart
<1>3. ASSUME UNCHANGED <<pool, early>>, mon.pc \in Keyed, mon'.acc = mon.acc, mon'.key = mon.key
      PROVE  ScanApart'
  BY <1>3 DEF ScanApart, Serving
<1>4. NextAccount => mon'.pc \in {"idle", "next"}
  BY DEF NextAccount, Idle, Off
<1>5. CASE MonitorStarts \/ MonitorStartsEarly \/ CycleEnds \/ CycleBegins \/ MonitorDies
           \/ StopForUpdate \/ AdvanceCursor \/ ScanFails
  <2>1. mon'.pc \in {"off", "idle", "next"}
    <3>1. CASE CycleBegins
      BY <3>1 DEF CycleBegins, Idle, Off
    <3>2. CASE AdvanceCursor \/ ScanFails
      BY <1>4, <3>2 DEF AdvanceCursor, ScanFails
    <3>3. CASE MonitorStarts \/ MonitorStartsEarly \/ CycleEnds \/ MonitorDies \/ StopForUpdate
      BY <3>3 DEF MonitorStarts, MonitorStartsEarly, CycleEnds, MonitorDies, StopForUpdate, Idle, Off
    <3> QED
      BY <1>5, <3>1, <3>2, <3>3
  <2> QED
    BY <1>1, <2>1
<1>6. CASE TakeLegacy \/ DropLegacy \/ TakePending \/ DropPending \/ ListMail
           \/ CompareLegacy \/ ComparePending
  <2>1. /\ UNCHANGED <<pool, early>> /\ mon.pc \in Keyed
        /\ mon'.acc = mon.acc /\ mon'.key = mon.key
    BY <1>0, <1>6 DEF TakeLegacy, DropLegacy, TakePending, DropPending, ListMail, CompareLegacy,
       ComparePending, Compare, Keyed, Scans, past
  <2> QED
    BY <1>3, <2>1
<1>7. ASSUME NEW m \in Messages, EnqueueMessage(m) PROVE ScanApart'
  <2>1. /\ UNCHANGED <<pool, early>> /\ mon.pc \in Keyed
        /\ mon'.acc = mon.acc /\ mon'.key = mon.key
    BY <1>0, <1>7 DEF EnqueueMessage, Keyed, Scans, past
  <2> QED
    BY <1>3, <2>1
<1>8. ASSUME NEW a \in Addresses, GetService(a) PROVE ScanApart'
  <2>1. mon'.pc \in {"next", "record"} \/ (mon'.pc = "key" /\ mon'.acc = a /\ pool'.svc[a] # None)
    <3>1. mon.pc = "next"
      BY <1>8, Got
    <3>2. CASE mon' = [mon EXCEPT !.left = @ \ {a}]
      BY <1>0, <3>1, <3>2 DEF Scans
    <3>3. CASE /\ pool'.svc[a] # None
               /\ mon' = [mon EXCEPT !.pc = "key", !.left = @ \ {a}, !.acc = a, !.box = None]
      BY <1>0, <3>3 DEF Scans
    <3>4. CASE mon' = [mon EXCEPT !.pc = "record", !.left = @ \ {a}, !.acc = a, !.box = Opens(a)]
      BY <1>0, <3>4 DEF Scans
    <3> QED
      BY <1>8, <3>2, <3>3, <3>4, Got
  <2>2. CASE mon'.pc \in {"next", "record"}
    BY <1>1, <2>2
  <2>3. CASE mon'.pc = "key" /\ mon'.acc = a /\ pool'.svc[a] # None
    BY <2>3 DEF ScanApart, Serving, Keyed
  <2> QED
    BY <2>1, <2>2, <2>3
<1>9. ASSUME NEW a \in Addresses, GetServiceFails(a) PROVE ScanApart'
  <2>1. mon'.pc = "next"
    BY <1>0, <1>9 DEF GetServiceFails, Scans
  <2> QED
    BY <1>1, <2>1
<1>13. CASE RecordIdentity
  <2>1. mon'.pc = "key" /\ mon'.acc = mon.acc /\ mon.acc \in Addresses
    BY <1>0, <1>13 DEF RecordIdentity, Scans, ScanOK
  <2>2. pool'.svc[mon.acc] = mon.box /\ mon.box # None
    BY <1>0, <1>13, <2>1, Values DEF RecordIdentity, Pools, ScanOK
  <2> QED
    BY <2>1, <2>2 DEF ScanApart, Serving, Keyed
<1>10. CASE ReadKey
  <2> DEFINE key == CursorKey(mon.acc, mon.mode)
  <2>1. CASE key = None
    <3>1. mon'.pc \in {"idle", "next"}
      BY <1>4, <1>10, <2>1 DEF ReadKey
    <3> QED
      BY <1>1, <3>1
  <2>2. CASE key # None
    <3>1. /\ mon.pc = "key" /\ UNCHANGED <<pool, early>>
          /\ mon'.acc = mon.acc /\ mon'.key = key
      BY <1>0, <1>10, <2>2 DEF ReadKey, Scans, past
    <3>2. mon.acc \in Addresses /\ pool.svc[mon.acc] # None
      BY <1>0, <3>1 DEF ScanOK, ScanApart, Serving
    <3>3. ASSUME ~early PROVE Home[key] = pool.svc[mon.acc]
      <4>1. /\ mon.mode = conf.mode /\ ident[mon.acc] = pool.svc[mon.acc]
            /\ conf.mode = "dwd" => pool.svc[mon.acc] = Home[mon.acc]
        BY <3>1, <3>2, <3>3 DEF OneMode, ServicesOK
      <4>2. CASE mon.mode = "dwd"
        BY <4>1, <4>2 DEF CursorKey
      <4>3. CASE mon.mode # "dwd"
        <5>1. key = ident[mon.acc] /\ ident[mon.acc] \in Mailboxes
          BY <2>2, <4>3 DEF CursorKey
        <5> QED
          BY <4>1, <5>1, Values
      <4> QED
        BY <4>2, <4>3
    <3> HIDE DEF key
    <3> QED
      BY <3>1, <3>2, <3>3 DEF ScanApart
  <2> QED
    BY <2>1, <2>2
<1>11. CASE Commit
  <2>1. CASE ~StopForUpdate
    BY <1>2, <1>11, <2>1, CommitQuiet
  <2> QED
    BY <1>5, <2>1
<1>12. CASE Gmail \/ AskSave \/ AskRescan \/ CommitFails \/ UNCHANGED vars
  BY <1>2, <1>12 DEF Gmail, Tick, Arrive, Index, AskSave, AskRescan, CommitFails, vars, past
<1> QED
  BY <1>5, <1>6, <1>7, <1>8, <1>9, <1>10, <1>11, <1>12, <1>13 DEF Next, Scanner, ScannerFaults

LEMMA WinsStep ==
    ASSUME TypeInv, CommitApart, WinsOK, [Next]_vars
    PROVE  WinsOK'
<1>0. mon \in Scans
  BY DEF TypeInv, ScanOK
<1>1. ASSUME mon'.pc \notin {"legacy wins", "pending wins"} \/ early' PROVE WinsOK'
  BY <1>1 DEF WinsOK
<1>2. CASE UNCHANGED <<mon, early, cursor, legacy, pending>>
  BY <1>2 DEF WinsOK, Wins
<1>3. NextAccount => mon'.pc \in {"idle", "next"}
  BY DEF NextAccount, Idle, Off
<1>4. CASE CompareLegacy \/ ComparePending
  <2>1. /\ UNCHANGED <<cursor, legacy, pending>>
        /\ mon'.key = mon.key /\ mon'.acc = mon.acc
    BY <1>0, <1>4 DEF CompareLegacy, ComparePending, Compare, marks, Scans
  <2>2. CASE CompareLegacy
    <3>1. \/ mon'.pc = "pending"
          \/ mon'.pc = "legacy wins" /\ LegacyAt # None /\ mon'.wins = Wins(LegacyAt)
      BY <1>0, <2>2 DEF CompareLegacy, Compare, Scans, Wins
    <3>2. LegacyAt # None => legacy # None /\ LegacyAt = legacy.at
      BY DEF LegacyAt
    <3> QED
      BY <1>1, <2>1, <3>1, <3>2 DEF WinsOK, Wins
  <2>3. CASE ComparePending
    <3>1. \/ mon'.pc = "list"
          \/ mon'.pc = "pending wins" /\ pending[mon.acc] # None /\ mon'.wins = Wins(pending[mon.acc])
      BY <1>0, <2>3 DEF ComparePending, Compare, Scans, Wins
    <3> QED
      BY <1>1, <2>1, <3>1 DEF WinsOK, Wins
  <2> QED
    BY <1>4, <2>2, <2>3
<1>5. CASE MonitorStarts \/ MonitorStartsEarly \/ CycleEnds \/ CycleBegins \/ MonitorDies
           \/ StopForUpdate \/ AdvanceCursor \/ ScanFails
  <2>1. mon'.pc \in {"off", "idle", "next"}
    <3>1. CASE CycleBegins
      BY <3>1 DEF CycleBegins, Idle, Off
    <3>2. CASE AdvanceCursor \/ ScanFails
      BY <1>3, <3>2 DEF AdvanceCursor, ScanFails
    <3>3. CASE MonitorStarts \/ MonitorStartsEarly \/ CycleEnds \/ MonitorDies \/ StopForUpdate
      BY <3>3 DEF MonitorStarts, MonitorStartsEarly, CycleEnds, MonitorDies, StopForUpdate, Idle, Off
    <3> QED
      BY <1>5, <3>1, <3>2, <3>3
  <2> QED
    BY <1>1, <2>1
<1>6. CASE RecordIdentity \/ ReadKey \/ TakeLegacy \/ DropLegacy \/ TakePending \/ DropPending
           \/ ListMail
  <2>1. NextAccount \/ mon'.pc \notin {"legacy wins", "pending wins"}
    BY <1>0, <1>6 DEF RecordIdentity, ReadKey, TakeLegacy, DropLegacy, TakePending, DropPending,
       ListMail, Scans
  <2> QED
    BY <1>1, <1>3, <2>1
<1>7. ASSUME NEW a \in Addresses, GetService(a) \/ GetServiceFails(a) PROVE WinsOK'
  <2>1. mon'.pc \in {"next", "key", "record"}
    BY <1>0, <1>7, Got DEF GetServiceFails, Scans
  <2> QED
    BY <1>1, <2>1
<1>8. ASSUME NEW m \in Messages, EnqueueMessage(m) PROVE WinsOK'
  <2>1. mon'.pc = "enqueue"
    BY <1>0, <1>8 DEF EnqueueMessage, Scans
  <2> QED
    BY <1>1, <2>1
<1>9. CASE Commit
  <2>1. CASE ~StopForUpdate
    <3>1. UNCHANGED <<mon, early>> /\ (early \/ mon.pc = "off")
      BY <1>9, <2>1, CommitQuiet
    <3> QED
      BY <1>1, <3>1
  <2> QED
    BY <1>5, <2>1
<1>10. CASE Gmail \/ AskSave \/ AskRescan \/ CommitFails \/ UNCHANGED vars
  BY <1>2, <1>10 DEF Gmail, Tick, Arrive, Index, AskSave, AskRescan, CommitFails, vars, past, marks
<1> QED
  BY <1>4, <1>5, <1>6, <1>7, <1>8, <1>9, <1>10 DEF Next, Scanner, ScannerFaults

\* A Save that keeps the older version's cursor changes no mailbox.
Keeping(p, box) == /\ p.mode = "oauth" /\ p.token \in {None, box}
                   /\ \A a \in DOMAIN p.writes : p.writes[a] = box

LEMMA PlannedKeeps ==
    ASSUME TypeInv, conf.mode = "oauth", NEW box \in Mailboxes, token = box,
           \A a \in Addresses : ident[a] \in {"absent", box},
           NEW mode \in Modes, NEW accounts \in (SUBSET Addresses) \ {{}}, NEW file, NEW start,
           NEW t \in Staged(mode, accounts),
           ~Plan(mode, accounts, t.verified, t.login, file, start).dropLegacy
    PROVE  Keeping(Plan(mode, accounts, t.verified, t.login, file, start), box)
<1> DEFINE changed  == mode # conf.mode
           previous == IF changed THEN {} ELSE conf.accounts
           writes   == IdentityWrites(accounts, previous, t.verified)
           p        == Plan(mode, accounts, t.verified, t.login, file, start)
<1>1. /\ p.mode = mode /\ p.token = t.login /\ p.writes = writes
      /\ p.dropLegacy = (changed \/ Rehomed(writes) # {})
  BY DEF Plan
<1>2. mode = "oauth" /\ Rehomed(writes) = {}
  BY <1>1
<1>3. /\ box \notin {"absent", "untested"}
      /\ \A b \in Mailboxes : b \notin {"absent", "untested"}
  BY Values
<1>4. /\ DOMAIN writes \subseteq Addresses
      /\ \A a \in DOMAIN writes : writes[a] = IF a \in DOMAIN t.verified THEN t.verified[a]
                                                                    ELSE "untested"
      /\ \A a \in accounts : a \in DOMAIN t.verified => a \in DOMAIN writes
  BY DEF IdentityWrites
<1>5. \/ \E b \in Mailboxes : t = [login |-> b, verified |-> [a \in accounts |-> b]]
      \/ t = [login |-> None, verified |-> [a \in accounts |-> token]]
      \/ t = [login |-> None, verified |-> <<>>]
  BY <1>2 DEF Staged
<1> HIDE DEF writes
<1>6. \A a \in DOMAIN writes : writes[a] = ident[a] \/ (ident[a] = "untested" /\ writes[a] # "untested")
  BY <1>2 DEF Rehomed
<1>7. \A a \in DOMAIN writes : writes[a] \in Mailboxes \cup {"untested"}
  BY <1>4, <1>5
<1>8. \A a \in DOMAIN writes : writes[a] = box
  BY <1>3, <1>4, <1>6, <1>7
<1>9. t.login \in {None, box}
  <2>1. ASSUME NEW b \in Mailboxes, t = [login |-> b, verified |-> [a \in accounts |-> b]]
        PROVE  b = box
    <3>1. PICK a \in accounts : TRUE
      OBVIOUS
    <3>2. a \in DOMAIN t.verified /\ t.verified[a] = b
      BY <2>1, <3>1
    <3> QED
      BY <1>4, <1>8, <3>1, <3>2
  <2> QED
    BY <1>5, <2>1
<1> QED
  BY <1>1, <1>2, <1>8, <1>9 DEF Keeping

LEMMA LegacyStep ==
    ASSUME TypeInv, CommitApart, LegacyOK, [Next]_vars
    PROVE  LegacyOK'
<1>0. mon \in Scans /\ ScanOK /\ StoredOK /\ SaveOK /\ MarksOK /\ save \in Saves
  BY DEF TypeInv, ScanOK, SaveOK
<1>1. CASE legacy' = None
  BY <1>1 DEF LegacyOK
<1>2. ASSUME UNCHANGED <<legacy, torn, conf, save, token, ident>>,
             mon'.pc = "record" => mon' = mon
      PROVE  LegacyOK'
  BY <1>2 DEF LegacyOK, TokenAhead
<1>3. legacy # None => legacy.box \in Mailboxes
  BY <1>0 DEF MarksOK, Maybe
<1>4. CASE RecordIdentity
  <2>1. /\ mon.pc = "record" /\ mon.acc \in Addresses /\ UNCHANGED <<legacy, torn, conf, save, token>>
        /\ ident' = [ident EXCEPT ![mon.acc] = mon.box] /\ mon'.pc = "key"
    BY <1>0, <1>4 DEF RecordIdentity, ScanOK, Scans, marks, past
  <2>2. \A a \in Addresses : ident'[a] \in {ident[a], mon.box}
    BY <1>0, <2>1 DEF StoredOK
  <2> QED
    BY <2>1, <2>2 DEF LegacyOK, TokenAhead
<1>5. ASSUME NEW a \in Addresses, GetService(a) PROVE LegacyOK'
  <2>1. UNCHANGED <<legacy, torn, conf, save, token, ident>>
    BY <1>5 DEF GetService, stored, marks, past
  <2>2. mon'.pc = "record" => mon'.box = Opens(a)
    BY <1>0, <1>5, Got DEF Scans
  <2> QED
    BY <2>1, <2>2 DEF LegacyOK, TokenAhead, Opens
<1>6. CASE MonitorStarts \/ MonitorStartsEarly \/ CycleEnds \/ CycleBegins \/ MonitorDies
  <2>1. UNCHANGED <<legacy, torn, conf, save, token, ident>>
    BY <1>6 DEF MonitorStarts, MonitorStartsEarly, CycleEnds, CycleBegins, MonitorDies, stored, marks, past
  <2>2. mon'.pc # "record"
    <3>1. CASE CycleBegins
      BY <3>1 DEF CycleBegins, Idle, Off
    <3>2. CASE MonitorStarts \/ MonitorStartsEarly \/ CycleEnds \/ MonitorDies
      BY <3>2 DEF MonitorStarts, MonitorStartsEarly, CycleEnds, MonitorDies, Idle, Off
    <3> QED
      BY <1>6, <3>1, <3>2
  <2> QED
    BY <1>2, <2>1, <2>2
<1>7. CASE DropLegacy
  BY <1>1, <1>7 DEF DropLegacy
<1>8. CASE ReadKey \/ CompareLegacy \/ TakeLegacy \/ ComparePending \/ TakePending \/ DropPending
           \/ ListMail \/ AdvanceCursor \/ ScanFails
  <2>1. UNCHANGED <<legacy, torn, conf, save, token, ident>>
    BY <1>8 DEF ReadKey, CompareLegacy, TakeLegacy, ComparePending, TakePending, DropPending, ListMail,
       AdvanceCursor, ScanFails, stored, marks, past
  <2>2. mon'.pc # "record"
    <3>1. NextAccount => mon'.pc \in {"idle", "next"}
      BY DEF NextAccount, Idle, Off
    <3>2. CASE AdvanceCursor \/ ScanFails
      BY <3>1, <3>2 DEF AdvanceCursor, ScanFails
    <3>3. CASE ReadKey
      <4>1. NextAccount \/ mon'.pc \in {"list", "legacy"}
        BY <1>0, <3>3 DEF ReadKey, Scans
      <4> QED
        BY <3>1, <4>1
    <3>4. CASE CompareLegacy \/ TakeLegacy \/ ComparePending \/ TakePending \/ DropPending \/ ListMail
      BY <1>0, <3>4 DEF CompareLegacy, TakeLegacy, ComparePending, TakePending, DropPending, ListMail,
         Compare, Scans
    <3> QED
      BY <1>8, <3>2, <3>3, <3>4
  <2> QED
    BY <1>2, <2>1, <2>2
<1>9. ASSUME NEW a \in Addresses, GetServiceFails(a) PROVE LegacyOK'
  <2>1. mon'.pc # "record" /\ UNCHANGED <<legacy, torn, conf, save, token, ident>>
    BY <1>0, <1>9 DEF GetServiceFails, stored, marks, past, Scans
  <2> QED
    BY <1>2, <2>1
<1>10. ASSUME NEW m \in Messages, EnqueueMessage(m) PROVE LegacyOK'
  <2>1. mon'.pc # "record" /\ UNCHANGED <<legacy, torn, conf, save, token, ident>>
    BY <1>0, <1>10 DEF EnqueueMessage, stored, marks, past, Scans
  <2> QED
    BY <1>2, <2>1
<1>11. CASE Gmail \/ UNCHANGED vars
  BY <1>2, <1>11 DEF Gmail, Tick, Arrive, Index, vars, stored, marks, past
\* The Save: it plans, and writes what it has planned.
<1>12. CASE AskSave
  <2>1. /\ save.op = "none" /\ save.pc = "none" /\ UNCHANGED <<legacy, torn, conf, token, ident, mon>>
    BY <1>0, <1>12 DEF AskSave, SaveOK, stored, marks, past
  <2>2. PICK mode \in Modes, accounts \in (SUBSET Addresses) \ {{}}, file \in Files :
          \E t \in Staged(mode, accounts), start \in IF conf.accounts = {} THEN 0..now ELSE {None} :
              save' = Plan(mode, accounts, t.verified, t.login, file, start)
    BY <1>12 DEF AskSave
  <2>3. PICK t \in Staged(mode, accounts), start \in IF conf.accounts = {} THEN 0..now ELSE {None} :
              save' = Plan(mode, accounts, t.verified, t.login, file, start)
    BY <2>2
  <2>4. save'.pc = "stop"
    BY <2>3 DEF Plan
  <2>5. ASSUME legacy # None, ~torn, ~save'.dropLegacy
        PROVE  /\ save'.mode = "oauth" /\ save'.token \in {None, legacy.box}
               /\ \A a \in DOMAIN save'.writes : save'.writes[a] = legacy.box
    <3>1. /\ conf.mode = "oauth" /\ token = legacy.box /\ legacy.box \in Mailboxes
          /\ \A a \in Addresses : ident[a] \in {"absent", legacy.box}
      BY <1>3, <2>1, <2>5 DEF LegacyOK, TokenAhead
    <3>2. ~Plan(mode, accounts, t.verified, t.login, file, start).dropLegacy
      BY <2>3, <2>5
    <3>3. Keeping(Plan(mode, accounts, t.verified, t.login, file, start), legacy.box)
      BY <3>1, <3>2, PlannedKeeps
    <3> QED
      BY <2>3, <3>3 DEF Keeping
  <2>6. ~TokenAhead /\ ~TokenAhead'
    BY <2>1, <2>4 DEF TokenAhead
  <2> QED
    BY <2>1, <2>4, <2>5, <2>6 DEF LegacyOK
<1>13. CASE AskRescan
  <2>1. /\ save.op = "none" /\ save.pc = "none" /\ UNCHANGED <<legacy, torn, conf, token, ident, mon>>
    BY <1>0, <1>13 DEF AskRescan, SaveOK, stored, marks, past
  <2>2. PICK start \in 0..now :
           save' = [NoSave EXCEPT !.op = "rescan", !.pc = "stop", !.mode = conf.mode,
                                  !.accounts = conf.accounts, !.start = start]
    BY <1>13 DEF AskRescan
  <2>3. save'.op = "rescan" /\ save'.pc = "stop" /\ ~save'.dropLegacy
    BY <2>2 DEF NoSave
  <2> QED
    BY <2>1, <2>3 DEF LegacyOK, TokenAhead
<1>14. CASE CommitFails
  <2>1. /\ save' = NoSave /\ UNCHANGED <<legacy, conf, token, ident, mon>>
        /\ torn' = (torn \/ TokenAhead)
    BY <1>14 DEF CommitFails, stored, marks
  <2> QED
    BY <2>1, Scanning DEF LegacyOK, TokenAhead
<1>15. ASSUME NEW pc \in {"creds", "token"}, save'.pc = pc, save.pc \in {"stop", "creds"},
              save'.op = save.op, save'.dropLegacy = save.dropLegacy, save'.mode = save.mode,
              save'.token = save.token, save'.writes = save.writes,
              UNCHANGED <<legacy, torn, conf, token, ident>>, mon'.pc = "record" => mon' = mon
       PROVE  LegacyOK'
  BY <1>15 DEF LegacyOK, TokenAhead
<1>16. CASE StopForUpdate
  <2>1. UNCHANGED <<legacy, torn, conf, token, ident>> /\ mon'.pc # "record" /\ save.pc = "stop"
    BY <1>16 DEF StopForUpdate, stored, marks, Off
  <2>2. CASE save.op = "save"
    BY <1>0, <1>15, <1>16, <2>1, <2>2 DEF StopForUpdate, Saves
  <2>3. CASE save.op # "save"
    <3>1. save'.pc = "start" /\ save'.op = save.op /\ save'.dropLegacy = save.dropLegacy
      BY <1>0, <1>16, <2>3 DEF StopForUpdate, Saves
    <3>2. ~save.dropLegacy
      BY <1>0, <2>1, <2>3 DEF SaveOK, Saves
    <3> QED
      BY <2>1, <2>3, <3>1, <3>2 DEF LegacyOK, TokenAhead
  <2> QED
    BY <2>2, <2>3
<1>17. CASE CommitCreds
  BY <1>0, <1>15, <1>17 DEF CommitCreds, Saves, marks, past
<1>18. CASE CommitToken
  <2>1. /\ save.pc = "token" /\ save.op = "save" /\ UNCHANGED <<legacy, torn, conf, ident, mon>>
        /\ token' = IF save.token = None THEN token ELSE save.token
        /\ save' = [save EXCEPT !.pc = "legacy"]
    BY <1>0, <1>18 DEF CommitToken, SaveOK, Saves, marks, past
  <2>2. /\ save'.pc = "legacy" /\ save'.op = "save" /\ save'.dropLegacy = save.dropLegacy
        /\ save'.mode = save.mode /\ save'.token = save.token /\ save'.writes = save.writes
    BY <1>0, <2>1 DEF Saves
  <2>3. ~TokenAhead /\ (~TokenAhead' => save.token = None \/ ~save.dropLegacy)
    BY <2>1, <2>2 DEF TokenAhead
  <2> QED
    BY <2>1, <2>2, <2>3 DEF LegacyOK
<1>19. ASSUME UNCHANGED <<legacy, torn, token, mon>>, ~save.dropLegacy \/ save.pc \in {"drops", "ident", "start", "conf"},
              legacy # None /\ ~torn => conf'.mode = "oauth",
              ~TokenAhead, ~TokenAhead',
              save'.op = "save" => save.op = "save",
              save'.dropLegacy => save.dropLegacy /\ save.pc # "legacy",
              save'.op = "save" => save'.mode = save.mode /\ save'.token = save.token
                                   /\ save'.writes = save.writes /\ save'.dropLegacy = save.dropLegacy,
              \A a \in Addresses : ident'[a] = ident[a]
                                   \/ (legacy # None /\ ~torn => ident'[a] = legacy.box)
       PROVE  LegacyOK'
  <2> SUFFICES ASSUME legacy # None, ~torn PROVE LegacyOK'
    BY <1>19 DEF LegacyOK
  <2>1. ~save.dropLegacy /\ ~save'.dropLegacy
    BY <1>19 DEF LegacyOK
  <2> QED
    BY <1>19, <2>1 DEF LegacyOK
<1>20. CASE CommitLegacy
  <2>1. CASE save.dropLegacy
    BY <1>1, <1>20, <2>1 DEF CommitLegacy
  <2>2. CASE ~save.dropLegacy
    <3>1. /\ UNCHANGED <<legacy, torn, token, mon, conf, ident>>
          /\ save' = [save EXCEPT !.pc = "drops", !.left = save.drops]
      BY <1>20, <2>2 DEF CommitLegacy, stored, past
    <3>2. /\ save'.pc = "drops" /\ save'.op = save.op /\ save'.dropLegacy = save.dropLegacy
          /\ save'.mode = save.mode /\ save'.token = save.token /\ save'.writes = save.writes
      BY <1>0, <3>1 DEF Saves
    <3> QED
      BY <1>19, <2>2, <3>1, <3>2 DEF LegacyOK, TokenAhead
  <2> QED
    BY <2>1, <2>2
<1>21. ASSUME NEW a \in Addresses, CommitDrop(a) \/ CommitStart(a) PROVE LegacyOK'
  <2>1. /\ UNCHANGED <<legacy, torn, token, mon, conf, ident>> /\ save.pc \in {"drops", "start"}
        /\ save' = [save EXCEPT !.left = @ \ {a}]
    BY <1>21 DEF CommitDrop, CommitStart, stored, past
  <2>2. /\ save'.pc = save.pc /\ save'.op = save.op /\ save'.dropLegacy = save.dropLegacy
        /\ save'.mode = save.mode /\ save'.token = save.token /\ save'.writes = save.writes
    BY <1>0, <2>1 DEF Saves
  <2> QED
    BY <1>19, <2>1, <2>2 DEF LegacyOK, TokenAhead
<1>22. ASSUME NEW a \in Addresses, CommitIdent(a) PROVE LegacyOK'
  <2>1. /\ UNCHANGED <<legacy, torn, token, mon, conf>> /\ save.pc = "ident" /\ save.op = "save"
        /\ save' = [save EXCEPT !.left = @ \ {a}] /\ a \in DOMAIN save.writes
        /\ ident' = [ident EXCEPT ![a] = save.writes[a]]
    BY <1>0, <1>22 DEF CommitIdent, marks, past, SaveOK, Saves
  <2>2. /\ save'.pc = save.pc /\ save'.op = save.op /\ save'.dropLegacy = save.dropLegacy
        /\ save'.mode = save.mode /\ save'.token = save.token /\ save'.writes = save.writes
    BY <1>0, <2>1 DEF Saves
  <2>3. \A b \in Addresses : ident'[b] = ident[b] \/ ident'[b] = save.writes[a]
    BY <1>0, <2>1 DEF StoredOK
  <2>4. legacy # None /\ ~torn => save.writes[a] = legacy.box
    BY <2>1 DEF LegacyOK
  <2> QED
    BY <1>19, <2>1, <2>2, <2>3, <2>4 DEF LegacyOK, TokenAhead
<1>23. CASE CommitGoesOn
  <2>1. UNCHANGED <<legacy, torn, token, mon, conf, ident>> /\ save.pc \in {"drops", "ident", "start"}
    BY <1>23 DEF CommitGoesOn, stored, marks, past
  <2>2. \/ save' = NoSave
        \/ /\ save'.pc \in {"ident", "start", "conf"} /\ save'.op = save.op
           /\ save'.dropLegacy = save.dropLegacy
           /\ save'.mode = save.mode /\ save'.token = save.token /\ save'.writes = save.writes
    BY <1>0, <1>23 DEF CommitGoesOn, Saves
  <2>3. /\ NoSave.op = "none" /\ ~NoSave.dropLegacy /\ NoSave.pc = "none"
    BY Scanning
  <2> QED
    BY <1>19, <2>1, <2>2, <2>3 DEF LegacyOK, TokenAhead
<1>24. CASE CommitConf
  <2>1. /\ UNCHANGED <<legacy, torn, token, mon, ident>> /\ save.pc = "conf" /\ save' = NoSave
        /\ conf'.mode = save.mode /\ save.op = "save"
    BY <1>0, <1>24 DEF CommitConf, marks, past, SaveOK, Saves
  <2>2. /\ NoSave.op = "none" /\ ~NoSave.dropLegacy /\ NoSave.pc = "none"
    BY Scanning
  <2>3. legacy # None /\ ~torn => conf'.mode = "oauth"
    BY <2>1 DEF LegacyOK
  <2> QED
    BY <1>19, <2>1, <2>2, <2>3 DEF LegacyOK, TokenAhead
<1>25. CASE Commit
  BY <1>16, <1>17, <1>18, <1>20, <1>21, <1>22, <1>23, <1>24, <1>25 DEF Commit
<1> QED
  BY <1>4, <1>5, <1>6, <1>7, <1>8, <1>9, <1>10, <1>11, <1>12, <1>13, <1>14, <1>25
     DEF Next, Scanner, ScannerFaults

LEMMA ListStep ==
    ASSUME TypeInv, CommitApart, ListOK, [Next]_vars
    PROVE  ListOK'
<1>0. /\ mon \in Scans /\ pool \in Pools /\ ScanOK /\ WorldOK /\ WorldOK'
      /\ \A m \in Messages : mail[m] # None => mail'[m] = mail[m]
  BY WorldStep DEF TypeInv, ScanOK
<1>1. ASSUME mon'.pc # "enqueue" PROVE ListOK'
  BY <1>1 DEF ListOK
<1>2. CASE UNCHANGED <<mon, pool, cursor, mail, jobs, early>>
  BY <1>2 DEF ListOK, StartTime, Queued
<1>3. NextAccount => mon'.pc # "enqueue"
  BY DEF NextAccount, Idle, Off
<1>4. CASE CycleBegins \/ MonitorStarts \/ MonitorStartsEarly \/ CycleEnds \/ MonitorDies
           \/ StopForUpdate \/ AdvanceCursor \/ ScanFails \/ RecordIdentity \/ ReadKey
           \/ CompareLegacy \/ TakeLegacy \/ DropLegacy \/ ComparePending \/ TakePending
           \/ DropPending
  <2>1. CASE CycleBegins \/ MonitorStarts \/ MonitorStartsEarly \/ CycleEnds \/ MonitorDies \/ StopForUpdate
    <3>1. \/ mon' \in {Off, Idle}
          \/ mon' = [Idle EXCEPT !.pc = "next", !.left = conf.accounts, !.mode = conf.mode]
      BY <2>1 DEF CycleBegins, MonitorStarts, MonitorStartsEarly, CycleEnds, MonitorDies, StopForUpdate
    <3>2. CASE mon' \in {Off, Idle}
      BY <1>1, <3>2, Scanning
    <3>3. CASE mon' = [Idle EXCEPT !.pc = "next", !.left = conf.accounts, !.mode = conf.mode]
      BY <1>1, <3>3 DEF Idle, Off
    <3> QED
      BY <3>1, <3>2, <3>3
  <2>2. CASE AdvanceCursor \/ ScanFails
    BY <1>1, <1>3, <2>2 DEF AdvanceCursor, ScanFails
  <2>3. CASE RecordIdentity \/ ReadKey \/ CompareLegacy \/ TakeLegacy \/ DropLegacy
             \/ ComparePending \/ TakePending \/ DropPending
    <3>1. NextAccount \/ mon'.pc # "enqueue"
      <4>1. CASE ReadKey
        BY <1>0, <4>1 DEF ReadKey, Scans
      <4>2. CASE RecordIdentity \/ TakeLegacy \/ DropLegacy \/ TakePending \/ DropPending
        BY <1>0, <4>2 DEF RecordIdentity, TakeLegacy, DropLegacy, TakePending, DropPending, Scans
      <4>3. CASE CompareLegacy \/ ComparePending
        BY <1>0, <4>3 DEF CompareLegacy, ComparePending, Compare, Scans
      <4> QED
        BY <2>3, <4>1, <4>2, <4>3
    <3> QED
      BY <1>1, <1>3, <3>1
  <2> QED
    BY <1>4, <2>1, <2>2, <2>3
<1>5. ASSUME NEW a \in Addresses, GetService(a) \/ GetServiceFails(a) PROVE ListOK'
  <2>1. mon'.pc \in {"next", "key", "record"}
    <3>1. CASE GetServiceFails(a)
      BY <1>0, <3>1 DEF GetServiceFails, Scans
    <3>2. CASE GetService(a)
      BY <1>0, <3>2, Got DEF Scans
    <3> QED
      BY <1>5, <3>1, <3>2
  <2> QED
    BY <1>1, <2>1
<1>6. CASE ListMail
  <2> DEFINE box == pool.svc[mon.acc]
  <2>1. /\ mon.pc = "list" /\ UNCHANGED <<mail, indexed, jobs, cursor, pool, early>>
        /\ mon' = [mon EXCEPT !.pc = "enqueue", !.start = StartTime, !.todo = Found(box, StartTime)]
    BY <1>6 DEF ListMail, world, marks, past
  <2>2. /\ mon'.start = StartTime /\ mon'.todo = Found(box, StartTime) /\ mon'.acc = mon.acc
        /\ mon'.key = mon.key /\ mon'.started = mon.started
    BY <1>0, <2>1 DEF Scans
  <2>3. StartTime' = StartTime
    BY <2>1, <2>2 DEF StartTime
  <2>4. \A m \in mon'.todo : mail[m].box = box
    BY <2>2 DEF Found
  <2>5. ASSUME NEW m \in Messages, mail[m] # None, mail[m].box = box, StartTime <= mail[m].at,
               mail[m].at < mon.started - Overlap
        PROVE  m \in mon'.todo
    <3>1. /\ mail[m].at \in Int /\ mon.started \in Nat /\ now \in Nat /\ mon.started <= now
          /\ Lag \in Nat /\ Overlap \in Nat /\ Lag <= Overlap
          /\ m \notin indexed => now <= mail[m].at + Lag
      <4>1. mail[m] \in [box: Mailboxes, at: 0 - Lookback .. MaxNow] /\ now \in 0..MaxNow
            /\ (m \notin indexed => now <= mail[m].at + Lag)
        BY <1>0, <2>5 DEF WorldOK, Maybe
      <4>2. mon.started \in 0..MaxNow /\ mon.started <= now
        BY <1>0 DEF ScanOK, Scans
      <4> QED
        BY <4>1, <4>2, Values
    <3>2. m \in indexed
      BY <2>5, <3>1
    <3> QED
      BY <2>2, <2>5, <3>2 DEF Found
  <2> HIDE DEF box
  <2>6. pool'.svc[mon'.acc] = box
    BY <2>1, <2>2 DEF box
  <2> QED
    BY <2>1, <2>2, <2>3, <2>4, <2>5, <2>6 DEF ListOK
<1>7. ASSUME NEW n \in Messages, EnqueueMessage(n) PROVE ListOK'
  <2>1. /\ mon.pc = "enqueue" /\ mon' = [mon EXCEPT !.todo = @ \ {n}]
        /\ jobs' = jobs \cup {<<mon.acc, n>>} /\ UNCHANGED <<mail, cursor, pool, early>>
        /\ mon.acc \in Addresses
    BY <1>0, <1>7 DEF EnqueueMessage, world, marks, past, ScanOK, Serving, Keyed
  <2>2. /\ mon'.todo = mon.todo \ {n} /\ mon'.acc = mon.acc /\ mon'.key = mon.key
        /\ mon'.start = mon.start /\ mon'.started = mon.started
    BY <1>0, <2>1 DEF Scans
  <2>3. StartTime' = StartTime
    BY <2>1, <2>2 DEF StartTime
  <2>4. \A m \in Messages : m \in mon.todo \/ Queued(m) => m \in mon'.todo \/ Queued(m)'
    BY <2>1, <2>2 DEF Queued
  <2> QED
    BY <2>1, <2>2, <2>3, <2>4 DEF ListOK
<1>8. ASSUME NEW n \in Messages, Arrive(n) PROVE ListOK'
  <2>1. PICK b \in Mailboxes : mail' = [mail EXCEPT ![n] = [box |-> b, at |-> now]]
    BY <1>8 DEF Arrive
  <2>2. /\ mail[n] = None /\ UNCHANGED <<now, indexed, jobs, mon, pool, cursor, early>>
        /\ \A m \in Messages : m # n => mail'[m] = mail[m]
        /\ mail'[n].at = now
    BY <1>0, <1>8, <2>1 DEF Arrive, marks, past, WorldOK
  <2>3. StartTime' = StartTime /\ \A m : Queued(m)' = Queued(m)
    BY <2>2 DEF StartTime, Queued
  <2>4. ~(now < mon.started - Overlap)
    <3>1. now \in 0..MaxNow /\ mon.started \in 0..MaxNow /\ mon.started <= now
      BY <1>0 DEF WorldOK, ScanOK, Scans
    <3> QED
      BY <3>1, Values
  <2>5. \A m \in mon.todo : m \in Messages /\ mail'[m] = mail[m]
    BY <1>0, <2>2 DEF ScanOK, WorldOK
  <2> QED
    BY <2>2, <2>3, <2>4, <2>5 DEF ListOK
<1>9. CASE Commit
  <2>1. CASE ~StopForUpdate
    <3>1. UNCHANGED <<mon, pool, early, mail, jobs>> /\ (early \/ mon.pc = "off")
      BY <1>9, <2>1, CommitQuiet DEF world
    <3>2. CASE early
      <4>1. \A m \in Messages : Queued(m)' = Queued(m)
        BY <3>1 DEF Queued
      <4> QED
        BY <3>1, <3>2, <4>1 DEF ListOK
    <3> QED
      BY <1>1, <3>1, <3>2
  <2> QED
    BY <1>4, <2>1
<1>10. CASE Tick \/ AskSave \/ AskRescan \/ CommitFails \/ UNCHANGED vars
  BY <1>2, <1>10 DEF Tick, AskSave, AskRescan, CommitFails, vars, world, marks, past
<1>11. ASSUME NEW n \in Messages, Index(n) PROVE ListOK'
  BY <1>2, <1>11 DEF Index, marks, past
<1> QED
  BY <1>4, <1>5, <1>6, <1>7, <1>8, <1>9, <1>10, <1>11 DEF Next, Gmail, Scanner, ScannerFaults

LEMMA SkipStep ==
    ASSUME TypeInv, CommitApart, ServicesOK, ScanApart, WinsOK, LegacyOK, ListOK, NoMailSkipped,
           [Next]_vars
    PROVE  NoMailSkipped'
<1>0. /\ TypeInv' /\ WorldOK /\ MarksOK /\ ScanOK /\ SaveOK
      /\ Overlap \in Nat /\ now \in Nat /\ None \notin Int
      /\ jobs \subseteq jobs'
  <2>1. jobs \subseteq jobs'
    BY DEF Next, Gmail, Tick, Arrive, Index, Scanner, ScannerFaults, MonitorStartsEarly, MonitorDies, ScanFails,
       GetServiceFails, MonitorStarts, RecordIdentity, CompareLegacy, ComparePending, CycleBegins, CycleEnds, ReadKey, TakeLegacy, DropLegacy,
       TakePending, DropPending, ListMail, AdvanceCursor, EnqueueMessage, GetService, AskSave,
       AskRescan, Commit, StopForUpdate, CommitCreds, CommitToken, CommitLegacy, CommitDrop, CommitGoesOn,
       CommitIdent, CommitStart, CommitConf, CommitFails, vars
  <2>2. now \in 0..MaxNow
    BY DEF TypeInv, WorldOK
  <2> QED
    BY <2>1, <2>2, TypeStep, Values DEF TypeInv
<1>1. \A m \in Messages : Queued(m) => Queued(m)'
  BY <1>0 DEF Queued
<1>2. /\ \A k \in Addresses : cursor[k] # None => cursor[k] \in Int /\ since[k] \in Int
                                                  /\ cursor[k] <= now + Overlap
      /\ \A m \in Messages : mail[m] # None => mail[m].at \in Int
  <2>1. \A k \in Addresses : cursor[k] # None => cursor[k] \in Ahead /\ since[k] \in Times
    BY <1>0 DEF MarksOK, Maybe
  <2>2. \A m \in Messages : mail[m] # None => mail[m].at \in Int
    BY <1>0 DEF WorldOK, Maybe
  <2> QED
    BY <1>0, <2>1, <2>2, Values DEF Ahead, Times
<1>3. ASSUME UNCHANGED <<cursor, since, mail>>, astray \subseteq astray' PROVE NoMailSkipped'
  BY <1>1, <1>3 DEF NoMailSkipped
\* A cursor that moves to where its range is empty, or shrinks, owes nothing new.
<1>4. ASSUME NEW k \in Addresses, UNCHANGED mail, cursor'[k] # None,
             cursor'[k] \in Int, since'[k] \in Int,
             \/ cursor'[k] - Overlap <= since'[k]
             \/ k \notin astray /\ cursor[k] # None /\ cursor'[k] <= cursor[k] /\ since'[k] = since[k]
      PROVE  \A m \in Messages : mail[m] # None =>
                 (mail[m].box = Home[k] /\ since'[k] <= mail[m].at
                     /\ mail[m].at < cursor'[k] - Overlap => Queued(m)')
  <2> SUFFICES ASSUME NEW m \in Messages, mail[m] # None, mail[m].box = Home[k],
                      since'[k] <= mail[m].at, mail[m].at < cursor'[k] - Overlap
               PROVE  Queued(m)'
    OBVIOUS
  <2>1. CASE cursor'[k] - Overlap <= since'[k]
    BY <1>0, <1>2, <1>4, <2>1
  <2>2. CASE k \notin astray /\ cursor[k] # None /\ cursor'[k] <= cursor[k] /\ since'[k] = since[k]
    <3>1. since[k] <= mail[m].at /\ mail[m].at < cursor[k] - Overlap
      BY <1>0, <1>2, <1>4, <2>2
    <3> QED
      BY <1>1, <2>2, <3>1 DEF NoMailSkipped
  <2> QED
    BY <1>4, <2>1, <2>2
\* A cursor that is put wrong is set apart.
<1>5. ASSUME NEW k \in Addresses, UNCHANGED mail, astray' = astray \cup {k},
             \A j \in Addresses : j # k => cursor'[j] = cursor[j] /\ since'[j] = since[j]
      PROVE  NoMailSkipped'
  <2>1. \A j \in Addresses \ astray' : /\ j \in Addresses \ astray /\ cursor'[j] = cursor[j]
                                       /\ since'[j] = since[j]
    BY <1>5
  <2> QED
    BY <1>1, <1>5, <2>1 DEF NoMailSkipped
<1>16. ASSUME NEW at \in Maybe(Ahead), NEW own \in BOOLEAN, Adopt(at, own), mon.key \in Addresses,
             UNCHANGED mail, ~mon.wins => cursor[mon.key] # None,
             ~early => at # None /\ mon.wins = Wins(at), ~early /\ ~torn => own
      PROVE  NoMailSkipped'
  <2> DEFINE key == mon.key
             bad == \/ early /\ (at = None \/ mon.wins # Wins(at))
                    \/ (early \/ torn) /\ ~own
  <2>1. astray' = IF bad THEN astray \cup {key} ELSE astray
    BY <1>16 DEF Adopt, Disturbed
  <2>2. \A k \in Addresses : k # key => cursor'[k] = cursor[k] /\ since'[k] = since[k]
    BY <1>16, AdoptTypes
  <2>3. CASE bad
    <3>1. astray' = astray \cup {key} /\ key \in Addresses
      BY <1>16, <2>1, <2>3
    <3> HIDE DEF key
    <3> QED
      BY <1>5, <1>16, <2>2, <3>1
  <2>4. CASE ~bad
    <3>1. /\ at \in Ahead /\ own = TRUE /\ mon.wins = Wins(at) /\ astray' = astray
      <4>1. at # None /\ mon.wins = Wins(at) /\ own
        <5>1. CASE early
          BY <2>4, <5>1
        <5>2. CASE ~early
          BY <1>16, <2>4, <5>2
        <5> QED
          BY <5>1, <5>2
      <4> QED
        BY <1>16, <2>1, <2>4, <4>1 DEF Maybe
    <3>2. Adopt(at, TRUE)
      BY <1>16, <3>1
    <3>3. /\ cursor'[key] \in Int /\ cursor'[key] <= at /\ since'[key] \in Int
          /\ IF cursor[key] = None THEN since'[key] = at - Overlap
             ELSE /\ cursor[key] \in Int /\ since[key] \in Int
                  /\ cursor'[key] <= cursor[key]
                  /\ since'[key] \in {since[key], at - Overlap}
      BY <1>16, <3>1, <3>2, Adopting
    <3>4. at \in Int /\ key \in Addresses
      BY <1>0, <1>16, <3>1 DEF Ahead
    <3> HIDE DEF key, bad
    <3>5. \/ cursor'[key] - Overlap <= since'[key]
          \/ cursor[key] # None /\ cursor'[key] <= cursor[key] /\ since'[key] = since[key]
      BY <1>0, <3>3, <3>4
    <3>6. cursor'[key] # None
      BY <1>0, <3>3
    <3>7. CASE key \notin astray
      <4>1. \A m \in Messages : mail[m] # None =>
                 (mail[m].box = Home[key] /\ since'[key] <= mail[m].at
                     /\ mail[m].at < cursor'[key] - Overlap => Queued(m)')
        BY <1>4, <1>16, <3>3, <3>4, <3>5, <3>6, <3>7
      <4> QED
        BY <1>1, <1>16, <2>2, <3>1, <4>1 DEF NoMailSkipped
    <3>8. CASE key \in astray
      <4>1. astray' = astray \cup {key}
        BY <3>1, <3>8
      <4> QED
        BY <1>5, <1>16, <2>2, <3>4, <4>1
    <3> QED
      BY <3>7, <3>8
  <2> QED
    BY <2>3, <2>4
<1>6. CASE TakeLegacy
  <2> DEFINE own == legacy # None => legacy.box = Home[mon.key]
  <2>1. /\ mon.key \in Addresses /\ mon.acc \in Addresses /\ UNCHANGED mail /\ own \in BOOLEAN
        /\ mon.pc = "legacy wins" /\ Adopt(LegacyAt, own)
        /\ ~mon.wins => cursor[mon.key] # None
    BY <1>0, <1>6 DEF TakeLegacy, ScanOK, Keyed, Serving, world
  <2>2. LegacyAt \in Maybe(Ahead)
    BY <1>0 DEF MarksOK, Maybe, LegacyAt
  <2>3. ~early => LegacyAt # None /\ mon.wins = Wins(LegacyAt) /\ legacy # None
    <3>1. ~early => legacy # None /\ mon.wins = Wins(legacy.at)
      BY <2>1 DEF WinsOK
    <3>2. legacy # None => LegacyAt = legacy.at /\ legacy.at \in Ahead /\ Ahead \subseteq Int
      BY <1>0 DEF MarksOK, Maybe, LegacyAt, Ahead
    <3> QED
      BY <1>0, <3>1, <3>2
  <2>4. ASSUME ~early, ~torn PROVE own
    <3>1. legacy # None /\ ~TokenAhead
      <4>1. save.pc \notin Committing
        BY <2>1, <2>4 DEF CommitApart
      <4> QED
        BY <2>3, <2>4, <4>1 DEF TokenAhead, Committing
    <3>2. ident[mon.acc] \in {"absent", legacy.box}
      BY <2>1, <2>4, <3>1 DEF LegacyOK
    <3>3. /\ pool.svc[mon.acc] # None /\ Home[mon.key] = pool.svc[mon.acc]
          /\ ident[mon.acc] = pool.svc[mon.acc]
      BY <2>1, <2>4 DEF ScanApart, Serving, Keyed, ServicesOK
    <3>4. Home[mon.key] \in Addresses /\ "absent" \notin Addresses
      BY <2>1, Values
    <3> QED
      BY <3>2, <3>3, <3>4
  <2> HIDE DEF own
  <2> QED
    BY <1>16, <2>1, <2>2, <2>3, <2>4
<1>7. CASE TakePending
  <2>1. /\ mon.key \in Addresses /\ mon.acc \in Addresses /\ UNCHANGED mail
        /\ mon.pc = "pending wins" /\ Adopt(pending[mon.acc], TRUE)
        /\ ~mon.wins => cursor[mon.key] # None
    BY <1>0, <1>7 DEF TakePending, ScanOK, Keyed, Serving, world
  <2>2. pending[mon.acc] \in Maybe(Ahead)
    BY <1>0, <2>1 DEF MarksOK
  <2>3. ~early => pending[mon.acc] # None /\ mon.wins = Wins(pending[mon.acc])
    BY <2>1 DEF WinsOK
  <2> QED
    BY <1>16, <2>1, <2>2, <2>3
<1>8. CASE AdvanceCursor
  <2> DEFINE key == mon.key
  <2>1. /\ mon.pc = "enqueue" /\ mon.todo = {} /\ UNCHANGED <<mail, jobs>> /\ key \in Addresses
        /\ cursor' = [cursor EXCEPT ![key] = mon.started]
        /\ since' = [since EXCEPT ![key] = IF @ = None THEN mon.start ELSE @]
        /\ astray' = IF early /\ (pool.svc[mon.acc] # Home[key] \/ mon.start # StartTime)
                     THEN astray \cup {key} ELSE astray
    BY <1>0, <1>8 DEF AdvanceCursor, Disturbed, ScanOK, Keyed, world
  <2>2. /\ cursor'[key] = mon.started
        /\ since'[key] = IF since[key] = None THEN mon.start ELSE since[key]
        /\ \A k \in Addresses : k # key => cursor'[k] = cursor[k] /\ since'[k] = since[k]
    BY <1>0, <2>1 DEF MarksOK
  <2>5. CASE early /\ (pool.svc[mon.acc] # Home[key] \/ mon.start # StartTime)
    <3>1. astray' = astray \cup {key} /\ UNCHANGED mail /\ key \in Addresses
      BY <2>1, <2>5
    <3> HIDE DEF key
    <3> QED
      BY <1>5, <2>2, <3>1
  <2>6. CASE ~(early /\ (pool.svc[mon.acc] # Home[key] \/ mon.start # StartTime))
    <3>1. astray' = astray /\ pool.svc[mon.acc] = Home[key] /\ mon.start = StartTime
      BY <2>1, <2>6 DEF ScanApart, Keyed, ListOK
    <3>2. /\ mon.start = IF cursor[key] = None THEN mon.started - Lookback
                         ELSE cursor[key] - Overlap
          /\ \A m \in Messages : mail[m] # None =>
                 (mail[m].box = Home[key] /\ mon.start <= mail[m].at
                    /\ mail[m].at < mon.started - Overlap => Queued(m))
          /\ cursor[key] = None <=> since[key] = None
          /\ mon.start \in Int
      <4>1. \A m \in Messages : mail[m] # None =>
                 (mail[m].box = Home[key] /\ mon.start <= mail[m].at
                    /\ mail[m].at < mon.started - Overlap => Queued(m))
        BY <2>1, <3>1 DEF ListOK
      <4>2. mon.start \in Times /\ Times \subseteq Int
        <5>1. Times \subseteq Int
          BY Values DEF Times
        <5> QED
          BY <1>0, <5>1 DEF ScanOK, Scans
      <4>3. cursor[key] = None <=> since[key] = None
        BY <1>0, <2>1 DEF MarksOK
      <4> QED
        BY <3>1, <4>1, <4>2, <4>3 DEF StartTime
    <3> HIDE DEF key
    <3>3. ASSUME key \notin astray, NEW m \in Messages, mail[m] # None, mail[m].box = Home[key],
                 since'[key] <= mail[m].at, mail[m].at < mon.started - Overlap
          PROVE  Queued(m)'
      <4>1. CASE mon.start <= mail[m].at
        BY <1>1, <3>2, <3>3, <4>1
      <4>2. CASE ~(mon.start <= mail[m].at)
        <5>1. cursor[key] # None
          BY <2>2, <3>2, <3>3, <4>2
        <5>2. since'[key] = since[key] /\ mon.start = cursor[key] - Overlap
          BY <2>2, <3>2, <5>1
        <5>3. mail[m].at < cursor[key] - Overlap
          BY <1>0, <1>2, <2>1, <3>3, <4>2, <5>1, <5>2
        <5> QED
          BY <1>1, <2>1, <3>3, <5>1, <5>2, <5>3 DEF NoMailSkipped
      <4> QED
        BY <4>1, <4>2
    <3> QED
      BY <1>1, <2>1, <2>2, <3>1, <3>3 DEF NoMailSkipped
  <2> QED
    BY <2>5, <2>6
<1>9. ASSUME NEW a \in Addresses, CommitStart(a) PROVE NoMailSkipped'
  <2> DEFINE k  == CursorKey(a, save.mode)
             at == save.start + Overlap
  <2>1. UNCHANGED mail /\ save.start # None /\ save.start \in Int /\ at \in Int
    BY <1>0, <1>9 DEF CommitStart, SaveOK, world
  <2>2. CASE k = None
    BY <1>3, <1>9, <2>1, <2>2 DEF CommitStart, SetStart
  <2>3. CASE k # None
    <3>1. k \in Addresses
      BY <2>3, Values DEF CursorKey
    <3>2. /\ cursor' = [cursor EXCEPT ![k] = at] /\ since' = [since EXCEPT ![k] = save.start]
          /\ astray' = astray \ {k}
      BY <1>9, <2>3 DEF CommitStart, SetStart
    <3> HIDE DEF k
    <3>3. /\ cursor'[k] = at /\ since'[k] = save.start
          /\ \A j \in Addresses : j # k => cursor'[j] = cursor[j] /\ since'[j] = since[j]
      BY <1>0, <3>1, <3>2 DEF MarksOK
    <3>4. cursor'[k] \in Int /\ cursor'[k] # None /\ since'[k] \in Int
          /\ cursor'[k] - Overlap <= since'[k]
      BY <1>0, <2>1, <3>3
    <3>5. \A m \in Messages : mail[m] # None =>
             (mail[m].box = Home[k] /\ since'[k] <= mail[m].at
                 /\ mail[m].at < cursor'[k] - Overlap => Queued(m)')
      BY <1>4, <2>1, <3>1, <3>4
    <3> QED
      BY <1>1, <2>1, <3>2, <3>3, <3>5 DEF NoMailSkipped
  <2> QED
    BY <2>2, <2>3
<1>10. ASSUME NEW n \in Messages, Arrive(n) PROVE NoMailSkipped'
  <2>1. PICK b \in Mailboxes : mail' = [mail EXCEPT ![n] = [box |-> b, at |-> now]]
    BY <1>10 DEF Arrive
  <2>2. /\ UNCHANGED <<cursor, since, astray>>
        /\ \A m \in Messages : m # n => mail'[m] = mail[m]
        /\ mail'[n].at = now
    BY <1>0, <1>10, <2>1 DEF Arrive, marks, past, WorldOK
  <2>3. \A k \in Addresses : cursor[k] # None => ~(now < cursor[k] - Overlap)
    BY <1>0, <1>2
  <2> QED
    BY <1>1, <2>2, <2>3 DEF NoMailSkipped
<1>11. ASSUME NEW n \in Messages, Index(n) \/ EnqueueMessage(n) PROVE NoMailSkipped'
  BY <1>3, <1>11 DEF Index, EnqueueMessage, marks, world, past
<1>12. ASSUME NEW a \in Addresses, GetService(a) \/ GetServiceFails(a) PROVE NoMailSkipped'
  BY <1>3, <1>12 DEF GetService, GetServiceFails, marks, world, past
<1>13. CASE Tick \/ AskSave \/ AskRescan \/ CommitFails \/ UNCHANGED vars
  BY <1>3, <1>13 DEF Tick, AskSave, AskRescan, CommitFails, vars, world, marks, past
<1>14. CASE MonitorStarts \/ MonitorStartsEarly \/ CycleBegins \/ CycleEnds \/ RecordIdentity
            \/ ReadKey \/ CompareLegacy \/ DropLegacy \/ ComparePending \/ DropPending
            \/ ListMail \/ MonitorDies \/ ScanFails
  BY <1>3, <1>14 DEF MonitorStarts, MonitorStartsEarly, RecordIdentity, CompareLegacy, ComparePending,
     CycleBegins, CycleEnds, ReadKey, DropLegacy, DropPending, ListMail, MonitorDies, ScanFails,
     world, marks, past
<1>15. CASE Commit
  <2>1. CASE ~\E a \in Addresses : CommitStart(a)
    <3>1. UNCHANGED <<cursor, since, mail, astray>>
      BY <1>15, <2>1 DEF Commit, StopForUpdate, CommitCreds, CommitToken, CommitLegacy,
         CommitDrop, CommitGoesOn, CommitIdent, CommitConf, world, marks, past
    <3> QED
      BY <1>3, <3>1
  <2> QED
    BY <1>9, <2>1
<1> QED
  BY <1>6, <1>7, <1>8, <1>10, <1>11, <1>12, <1>13, <1>14, <1>15 DEF Next, Gmail, Scanner, ScannerFaults

LEMMA FetchInit == Init => FetchInv
<1> SUFFICES ASSUME Init PROVE FetchInv
  OBVIOUS
<1>0. TypeInv
  BY TypeInit
<1>1. mon = Off /\ pool = NoServices /\ save = NoSave /\ astray = {}
  BY DEF Init
<1>2. CommitApart /\ OneMode /\ ServicesOK /\ RecordOK /\ ScanApart /\ WinsOK /\ ListOK
  BY <1>1, Scanning DEF CommitApart, OneMode, ServicesOK, RecordOK, ScanApart, WinsOK, ListOK, Serving,
     Keyed
<1>3. PICK i \in Installs :
        /\ conf = i.conf /\ token = i.token /\ ident = i.ident /\ legacy = i.legacy
        /\ cursor = i.cursor /\ pending = i.pending
        /\ since = [k \in Addresses |-> IF i.cursor[k] = None THEN None
                                       ELSE i.cursor[k] - Overlap]
  BY DEF Init
<1>4. LegacyOK
  <2>1. legacy = None \/ i = [SetUp EXCEPT !.legacy = [at |-> 0, box |-> Home[Account0]]]
    <3>1. CASE i = Fresh
      BY <1>3, <3>1 DEF Fresh
    <3>2. CASE i = [SetUp EXCEPT !.ident[Account0] = "untested", !.pending[Account0] = Overlap]
      BY <1>3, <3>2 DEF SetUp, Fresh
    <3>3. CASE i = [SetUp EXCEPT !.ident[Account0] = Home[Account0], !.cursor[Home[Account0]] = 0]
      BY <1>3, <3>3 DEF SetUp, Fresh
    <3> QED
      BY <3>1, <3>2, <3>3 DEF Installs
  <2>2. CASE i = [SetUp EXCEPT !.legacy = [at |-> 0, box |-> Home[Account0]]]
    <3>1. /\ conf.mode = "oauth" /\ legacy.box = Home[Account0] /\ token = Home[Account0]
          /\ \A a \in Addresses : ident[a] = "absent"
      BY <1>3, <2>2 DEF SetUp, Fresh
    <3> QED
      BY <1>1, <3>1, Scanning DEF LegacyOK, TokenAhead
  <2> QED
    BY <2>1, <2>2 DEF LegacyOK
<1>5. NoMailSkipped
  <2> SUFFICES ASSUME NEW k \in Addresses, NEW m \in Messages, cursor[k] # None, mail[m] # None,
                      since[k] <= mail[m].at, mail[m].at < cursor[k] - Overlap
               PROVE  FALSE
    BY DEF NoMailSkipped
  <2>1. since[k] = cursor[k] - Overlap
    BY <1>3
  <2>2. cursor[k] \in Int /\ mail[m].at \in Int /\ Overlap \in Int
    <3>1. cursor[k] \in Ahead /\ mail[m].at \in 0 - Lookback .. MaxNow
      BY <1>0 DEF TypeInv, MarksOK, WorldOK, Maybe
    <3>2. now \in 0..MaxNow
      BY <1>0 DEF TypeInv, WorldOK
    <3> QED
      BY <3>1, <3>2, Values DEF Ahead
  <2> QED
    BY <2>1, <2>2
<1> QED
  BY <1>2, <1>4, <1>5 DEF FetchInv

LEMMA FetchStep == TypeInv /\ FetchInv /\ [Next]_vars => FetchInv'
  BY ApartStep, ModeStep, ServicesStep, ScanApartStep, WinsStep, LegacyStep, ListStep, SkipStep
     DEF FetchInv

LEMMA Fetched == Spec => []FetchInv
<1>1. TypeInv /\ FetchInv /\ [Next]_vars => FetchInv'
  BY FetchStep
<1> QED
  BY <1>1, FetchInit, Typed, PTL DEF Spec

\* Whatever is killed, fails, is taken over or saved in between, and however long
\* the monitor was down: of what a cursor owes its mailbox, all that lies more
\* than the overlap before it is in the job table, unless a monitor started
\* during a commit or a Save that ended between token.json and the older
\* version's cursor has put it wrong and it has not been set anew since.
THEOREM NothingSkipped == Spec => []NoMailSkipped
<1>1. FetchInv => NoMailSkipped
  BY DEF FetchInv
<1> QED
  BY <1>1, Fetched, PTL

\* A scan queues only mail of the mailbox recorded for its account, and moves
\* only that mailbox's cursor; only a monitor started during a commit may not.
THEOREM NothingAstray == Spec => RightMailbox
<1> DEFINE Right == \/ early
                    \/ /\ \A j \in jobs' \ jobs : mail[j[2]].box = ident[j[1]]
                       /\ mon.pc = "enqueue" /\ cursor' # cursor => pool.svc[mon.acc] = Home[mon.key]
<1>1. TypeInv /\ FetchInv /\ [Next]_vars => [Right]_vars
  <2> SUFFICES ASSUME TypeInv, FetchInv, [Next]_vars, ~early PROVE Right
    OBVIOUS
  <2>1. mon.pc = "enqueue" => pool.svc[mon.acc] = Home[mon.key]
    BY DEF FetchInv, ScanApart, Keyed
  <2>2. ASSUME NEW m \in Messages, EnqueueMessage(m) PROVE \A j \in jobs' \ jobs : mail[j[2]].box = ident[j[1]]
    <3>1. mon.pc = "enqueue" /\ m \in mon.todo /\ jobs' = jobs \cup {<<mon.acc, m>>}
      BY <2>2 DEF EnqueueMessage
    <3>2. mon.acc \in Addresses /\ pool.svc[mon.acc] # None
      BY <3>1 DEF TypeInv, ScanOK, FetchInv, ScanApart, Serving, Keyed
    <3>3. mail[m].box = pool.svc[mon.acc] /\ ident[mon.acc] = pool.svc[mon.acc]
      BY <3>1, <3>2 DEF FetchInv, ListOK, ServicesOK
    <3> QED
      BY <3>1, <3>3
  <2>3. UNCHANGED jobs \/ \E m \in Messages : EnqueueMessage(m)
    BY DEF Next, Gmail, Tick, Arrive, Index, Scanner, ScannerFaults, MonitorStartsEarly, MonitorDies, ScanFails,
       GetServiceFails, MonitorStarts, RecordIdentity, CompareLegacy, ComparePending, CycleBegins, CycleEnds, ReadKey, TakeLegacy, DropLegacy,
       TakePending, DropPending, ListMail, AdvanceCursor, GetService, AskSave,
       AskRescan, Commit, StopForUpdate, CommitCreds, CommitToken, CommitLegacy, CommitDrop, CommitGoesOn,
       CommitIdent, CommitStart, CommitConf, CommitFails, vars
  <2> QED
    BY <2>1, <2>2, <2>3
<1> QED
  BY <1>1, Fetched, Typed, PTL DEF Spec, RightMailbox
=============================================================================
