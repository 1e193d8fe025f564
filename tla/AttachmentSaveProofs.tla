------------------------ MODULE AttachmentSaveProofs ------------------------
(***************************************************************************)
(* Proofs about AttachmentSave for every value of its constants.  First,   *)
(* it implements JobQueue, hence inherits what is proved there; no file is *)
(* replaced; a success stands on a committed journal or a matching file.   *)
(* Second, one request saves at most one file.  Third, a success has its   *)
(* file, and the save implements SaveOnce.                                 *)
(***************************************************************************)
EXTENDS AttachmentSave, JobQueueProofs, FiniteSetTheorems

USE DEF counts

-----------------------------------------------------------------------------
(* Refinement.                                                             *)

\* Every step of the save protocol is a step of the job table or none.
LEMMA SaveStepIsQueueStep == [SaveNext]_allVars => [Next]_vars
<1> SUFFICES ASSUME [SaveNext]_allVars PROVE [Next]_vars
  OBVIOUS
<1>1. CASE UNCHANGED allVars
  BY <1>1 DEF allVars
<1>2. ASSUME NEW k \in Keys, SaveEnqueue(k) PROVE Next
  BY <1>2 DEF SaveEnqueue, Next
<1>3. CASE WorkerStep
  BY <1>3 DEF WorkerStep, SaveClaim, Fetch, FetchNotConfigured, FetchDeferred,
       OpenFresh, OpenUnread, PinFresh, OpenResumed, Resume, Check, Place, PlaceTaken, Verify,
       MarkSuccess, MarkSuccessRefused, Tidy, StepFails, FailureRead, MarkFailed,
       SaveOutcomeLost, Record, Next
<1>4. CASE SaveStart \/ SaveRecover \/ SaveKill
  BY <1>4 DEF SaveStart, SaveRecover, SaveKill, Next
<1>5. ASSUME NEW j \in Jobs, VisitFinished(j) \/ VisitSaved(j) \/ VisitSkipped(j)
      PROVE  [Next]_vars
  BY <1>5 DEF VisitFinished, VisitSaved, VisitSkipped, Next
<1>6. ASSUME NEW j \in Jobs, SaveRedownload(j) PROVE Next
  BY <1>6 DEF SaveRedownload, Next, TrayUser
<1>7. CASE TableOnly
  BY <1>7 DEF TableOnly, Next, TrayUser
<1>8. ASSUME NEW p \in Paths, Appears(p) \/ Disappears(p) PROVE UNCHANGED vars
  BY <1>8 DEF Appears, Disappears
<1> QED
  BY <1>1, <1>2, <1>3, <1>4, <1>5, <1>6, <1>7, <1>8 DEF SaveNext

\* AttachmentSave implements JobQueue.
THEOREM SaveImplementsQueue == SaveSpec => ImplementsJobQueue
<1>1. SaveInit => Init
  BY DEF SaveInit
<1> QED
  BY <1>1, SaveStepIsQueueStep, PTL DEF SaveSpec, Spec, ImplementsJobQueue

\* So the table's invariant holds while attachments are saved.
LEMMA SaveIInv == SaveSpec => []IInv
  BY SaveImplementsQueue, Invariant, PTL DEF ImplementsJobQueue

-----------------------------------------------------------------------------
(* The worker and its journal.                                             *)

Inside == {"resume", "check", "place", "verify", "record"}

\* From the moment its name is chosen until the success is recorded, the
\* worker's name and content are those its journal pins; what reaches the
\* record step has been committed.
WorkerOK ==
    /\ w.pc # "idle" => mon = "run" /\ w.job \in Jobs
    /\ w.pc \in Steps => w.tries < MaxTries
    /\ w.pc \in Inside \cup {"open"} => w.data \in Contents
    /\ w.pc \in Inside => /\ journal[w.job].phase # "none"
                          /\ journal[w.job].path = w.path
                          /\ journal[w.job].hash = w.data
    /\ w.pc = "record" => journal[w.job].phase = "committed"

JournalOK ==
    \A j \in Jobs : IF journal[j].phase = "none" THEN journal[j] = NoJournal
                                                ELSE journal[j].hash \in Contents

SaveInv == SaveTypeOK /\ WorkerOK /\ JournalOK

LEMMA SaveInitInv == SaveInit => SaveInv
<1> SUFFICES ASSUME SaveInit PROVE SaveInv
  OBVIOUS
<1> USE QueueAssumption, SaveAssumption DEF QueueAssumption, SaveAssumption
<1>1. NoJournal \in Journal /\ NoJournal.phase = "none"
  BY DEF NoJournal, Journal, Paths
<1>2. Free \in File
  BY DEF Free, File
<1>3. Idle \in Worker /\ Idle.pc = "idle"
  BY DEF Idle, Worker, Paths
<1>4. SaveTypeOK
  BY <1>1, <1>2, <1>3 DEF SaveInit, Init, SaveTypeOK
<1> QED
  BY <1>1, <1>3, <1>4 DEF SaveInit, SaveInv, WorkerOK, JournalOK, Steps, Inside

\* Moving the worker on changes nothing else about it.
LEMMA GoOn ==
    ASSUME w \in Worker, NEW s \in Steps \cup {"idle", "error", "tidy"}, Go(s)
    PROVE  /\ w' \in Worker /\ w'.pc = s
           /\ UNCHANGED <<w.job, w.data, w.path, w.tries>>
  BY DEF Go, Worker

\* Back to idle: by the end of a job, an outcome recorded, or a kill.
LEMMA GoIdle ==
    ASSUME SaveInv, w' = Idle, held' = 0, UNCHANGED <<files, outside, counts>>,
           todo' \subseteq Jobs,
           journal' \in [Jobs -> Journal],
           \A j \in Jobs : journal'[j] \in {journal[j], NoJournal}
    PROVE  SaveInv'
<1> USE QueueAssumption, SaveAssumption DEF QueueAssumption, SaveAssumption
<1>1. Idle \in Worker /\ Idle.pc = "idle"
  BY DEF Idle, Worker, Paths
<1>2. SaveTypeOK'
  BY <1>1 DEF SaveInv, SaveTypeOK
<1>3. WorkerOK'
  BY <1>1 DEF WorkerOK, Steps, Inside
<1>4. JournalOK'
  BY DEF SaveInv, JournalOK, NoJournal
<1> QED
  BY <1>2, <1>3, <1>4 DEF SaveInv

\* Steps in which only the worker moves on.
LEMMA StepOn ==
    ASSUME SaveInv, NEW s \in Steps \cup {"error"}, Go(s), w.pc \in Steps,
           UNCHANGED <<held, mon, files, outside, counts, todo>>,
           \/ UNCHANGED journal
           \/ w.pc \in Inside /\ Commit,
           s # "error" => s \in Inside /\ w.pc \in Inside,
           s = "record" => journal'[w.job].phase = "committed"
    PROVE  SaveInv'
<1> USE QueueAssumption, SaveAssumption DEF QueueAssumption, SaveAssumption
<1>1. /\ w' \in Worker /\ w'.pc = s
      /\ UNCHANGED <<w.job, w.data, w.path, w.tries>>
  BY GoOn DEF SaveInv, SaveTypeOK
<1>2. w.job \in Jobs /\ mon = "run" /\ held = w.job /\ w.tries < MaxTries
  BY DEF SaveInv, WorkerOK, SaveTypeOK, Steps
<1>3. /\ journal' \in [Jobs -> Journal]
      /\ \A j \in Jobs : /\ journal'[j].path = journal[j].path
                         /\ journal'[j].hash = journal[j].hash
                         /\ journal'[j].phase = "none" <=> journal[j].phase = "none"
                         /\ journal[j].phase = "none" => journal'[j] = journal[j]
  <2>1. CASE UNCHANGED journal
    BY <2>1 DEF SaveInv, SaveTypeOK
  <2>2. CASE w.pc \in Inside /\ Commit
    <3>1. journal[w.job] \in Journal /\ journal[w.job].phase # "none"
      BY <1>2, <2>2 DEF SaveInv, SaveTypeOK, WorkerOK
    <3> DEFINE e == [journal[w.job] EXCEPT !.phase = "committed"]
    <3>2. /\ e \in Journal /\ e.phase = "committed"
          /\ e.path = journal[w.job].path /\ e.hash = journal[w.job].hash
      BY <3>1 DEF Journal
    <3>3. journal' = [journal EXCEPT ![w.job] = e]
      BY <2>2 DEF Commit
    <3> HIDE DEF e
    <3> QED
      BY <1>2, <3>1, <3>2, <3>3 DEF SaveInv, SaveTypeOK
  <2> QED
    BY <2>1, <2>2
<1>4. SaveTypeOK'
  BY <1>1, <1>2, <1>3 DEF SaveInv, SaveTypeOK, Steps
<1>5. WorkerOK'
  BY <1>1, <1>2, <1>3 DEF SaveInv, WorkerOK, Steps, Inside
<1>6. JournalOK'
  BY <1>3 DEF SaveInv, JournalOK
<1> QED
  BY <1>4, <1>5, <1>6 DEF SaveInv

\* Steps that pin a name, the first one or a fresh one.
LEMMA PinOn ==
    ASSUME SaveInv, w.pc \in Inside \cup {"open"}, w' \in Worker, NEW p \in Paths,
           w'.pc \in {"check", "place", "error"}, w'.path = p,
           w'.job = w.job, w'.data = w.data,
           w'.pc # "error" => w'.tries < MaxTries,
           journal' = [journal EXCEPT ![w.job] = Pinned(p, w.data)],
           UNCHANGED <<held, mon, files, outside, asked, todo>>,
           misread' \in [Jobs -> 0..MaxMisreads]
    PROVE  SaveInv'
<1> USE QueueAssumption, SaveAssumption DEF QueueAssumption, SaveAssumption
<1>1. /\ w.job \in Jobs /\ mon = "run" /\ held = w.job /\ w.data \in Contents
  BY DEF SaveInv, WorkerOK, SaveTypeOK, Inside
<1> DEFINE e == Pinned(p, w.data)
<1>2. e \in Journal /\ e.phase = "prepared" /\ e.path = p /\ e.hash = w.data
  BY <1>1 DEF Pinned, Journal
<1>3. journal' = [journal EXCEPT ![w.job] = e]
  OBVIOUS
<1> HIDE DEF e
<1>4. /\ journal' \in [Jobs -> Journal] /\ journal'[w.job] = e
      /\ \A j \in Jobs : j # w.job => journal'[j] = journal[j]
  BY <1>1, <1>2, <1>3 DEF SaveInv, SaveTypeOK
<1>5. SaveTypeOK'
  BY <1>1, <1>4 DEF SaveInv, SaveTypeOK
<1>6. WorkerOK'
  BY <1>1, <1>2, <1>4 DEF SaveInv, WorkerOK, Steps, Inside
<1>7. JournalOK'
  BY <1>1, <1>2, <1>4 DEF SaveInv, JournalOK
<1> QED
  BY <1>5, <1>6, <1>7 DEF SaveInv

LEMMA RelocateOn ==
    ASSUME SaveInv, w.pc \in {"check", "place"}, NEW start \in Nat,
           NEW s \in {"place", "error"}, Relocate(start, s),
           s # "error" /\ start # 0 => w.tries + 1 < MaxTries,
           UNCHANGED <<held, mon, files, outside, counts, todo>>
    PROVE  SaveInv'
<1> USE QueueAssumption, SaveAssumption DEF QueueAssumption, SaveAssumption
<1>1. PICK p \in FirstFree(start) :
         /\ journal' = [journal EXCEPT ![w.job] = Pinned(p, w.data)]
         /\ w' = [w EXCEPT !.pc = s, !.path = p,
                          !.tries = IF start = 0 THEN @ ELSE @ + 1]
  BY DEF Relocate
<1>2. p \in Paths
  BY DEF FirstFree
<1>3. w \in Worker /\ w.tries < MaxTries
  BY DEF SaveInv, SaveTypeOK, WorkerOK, Steps
<1> DEFINE n == IF start = 0 THEN w.tries ELSE w.tries + 1
<1>4. n \in 0..MaxTries /\ (s # "error" => n < MaxTries)
  BY <1>3 DEF Worker
<1>5. w' = [w EXCEPT !.pc = s, !.path = p, !.tries = n]
  BY <1>1
<1> HIDE DEF n
<1>6. /\ w' \in Worker /\ w'.pc = s /\ w'.path = p /\ w'.tries = n
      /\ w'.job = w.job /\ w'.data = w.data
  BY <1>2, <1>3, <1>4, <1>5 DEF Worker, Steps
<1>7. misread' \in [Jobs -> 0..MaxMisreads]
  BY DEF SaveInv, SaveTypeOK
<1> QED
  BY <1>1, <1>2, <1>4, <1>6, <1>7, PinOn DEF Inside

-----------------------------------------------------------------------------
(* The invariant, action by action.                                        *)

LEMMA ClaimKeeps ==
    ASSUME SaveInv, NEW j \in Jobs, SaveClaim(j)
    PROVE  SaveInv'
<1> USE QueueAssumption, SaveAssumption DEF QueueAssumption, SaveAssumption
<1>1. /\ w' \in Worker /\ w'.pc = "fetch" /\ w'.job = j /\ w'.tries = 0
  <2>1. Idle \in Worker /\ Idle.tries = 0
    BY DEF Idle, Worker, Paths
  <2>2. \A v \in Worker : LET u == [v EXCEPT !.pc = "fetch", !.job = j]
                          IN  /\ u \in Worker /\ u.pc = "fetch" /\ u.job = j
                              /\ u.tries = v.tries
    BY DEF Worker, Steps
  <2>3. w' = [Idle EXCEPT !.pc = "fetch", !.job = j]
    BY DEF SaveClaim
  <2> QED
    BY <2>1, <2>2, <2>3
<1>2. UNCHANGED <<files, outside, journal, todo, counts, mon>> /\ held' = j /\ mon = "run"
  BY DEF SaveClaim, Claim, disk
<1>3. SaveTypeOK'
  BY <1>1, <1>2 DEF SaveInv, SaveTypeOK
<1>4. WorkerOK'
  BY <1>1, <1>2 DEF WorkerOK, Steps, Inside
<1>5. JournalOK'
  BY <1>2 DEF SaveInv, JournalOK
<1> QED
  BY <1>3, <1>4, <1>5 DEF SaveInv

LEMMA FetchKeeps == IInv /\ SaveInv /\ Fetch => SaveInv'
<1> SUFFICES ASSUME IInv, SaveInv, Fetch PROVE SaveInv'
  OBVIOUS
<1> USE QueueAssumption, SaveAssumption DEF QueueAssumption, SaveAssumption
<1>1. /\ w.job \in Jobs /\ mon = "run" /\ held = w.job /\ w.tries < MaxTries
      /\ w \in Worker
  BY DEF SaveInv, WorkerOK, SaveTypeOK, Steps, Fetch, At
<1>2. rows[w.job].key \in Keys
  BY <1>1 DEF IInv, RowOK, HeldOK, KeptRow, Jobs
<1>3. PICK c \in Served[rows[w.job].key] : w' = [w EXCEPT !.pc = "open", !.data = c]
  BY DEF Fetch
<1>4. c \in Contents
  BY <1>2, <1>3
<1>5. /\ w' \in Worker /\ w'.pc = "open" /\ w'.data = c
      /\ w'.job = w.job /\ w'.tries = w.tries
  BY <1>1, <1>3, <1>4 DEF Worker, Steps
<1>6. UNCHANGED <<files, outside, journal, todo, counts, mon, held>>
  BY DEF Fetch, disk, vars
<1>7. SaveTypeOK'
  BY <1>1, <1>5, <1>6 DEF SaveInv, SaveTypeOK
<1>8. WorkerOK'
  BY <1>1, <1>4, <1>5, <1>6 DEF WorkerOK, Steps, Inside
<1>9. JournalOK'
  BY <1>6 DEF SaveInv, JournalOK
<1> QED
  BY <1>7, <1>8, <1>9 DEF SaveInv

LEMMA WorkerKeeps == IInv /\ SaveInv /\ WorkerStep => SaveInv'
<1> SUFFICES ASSUME IInv, SaveInv, WorkerStep PROVE SaveInv'
  OBVIOUS
<1> USE QueueAssumption, SaveAssumption DEF QueueAssumption, SaveAssumption
<1> USE DEF At, disk, vars
<1>1. /\ w \in Worker /\ journal \in [Jobs -> Journal] /\ todo \subseteq Jobs
      /\ w.pc \in Inside => w.job \in Jobs /\ journal[w.job].phase # "none"
  BY DEF SaveInv, SaveTypeOK, WorkerOK, Inside
<1>2. ASSUME NEW j \in Jobs, SaveClaim(j) PROVE SaveInv'
  BY <1>2, ClaimKeeps
<1>3. CASE Fetch
  BY <1>3, FetchKeeps
<1>4. CASE \/ FetchNotConfigured \/ FetchDeferred \/ MarkFailed \/ SaveOutcomeLost
           \/ FailureRead /\ held' = 0
  BY <1>1, <1>4, GoIdle
     DEF FetchNotConfigured, FetchDeferred, MarkFailed, SaveOutcomeLost, FailureRead, LetsGo,
         RecordNotConfigured, RecordDeferral, RecordFailure, ReadAttempts, OutcomeLost
<1>15. CASE FailureRead /\ held' # 0
  <2>1. UNCHANGED <<w, held, mon, files, outside, journal, todo, counts>>
    BY <1>15 DEF FailureRead, ReadAttempts, LetsGo
  <2> QED
    BY <2>1 DEF SaveInv, SaveTypeOK, WorkerOK, JournalOK
<1>5. CASE OpenFresh \/ OpenUnread
  <2>1. PICK p \in FirstFree(0) :
           /\ journal' = [journal EXCEPT ![w.job] = Pinned(p, w.data)]
           /\ w' = [w EXCEPT !.pc = "check", !.path = p]
    BY <1>5 DEF OpenFresh, OpenUnread, PinFresh
  <2>2. p \in Paths /\ w.tries < MaxTries /\ w.pc = "open" /\ w.job \in Jobs
    BY <1>5 DEF FirstFree, OpenFresh, OpenUnread, SaveInv, WorkerOK, Steps
  <2>3. /\ w' \in Worker /\ w'.pc = "check" /\ w'.path = p
        /\ w'.job = w.job /\ w'.data = w.data /\ w'.tries = w.tries
    BY <1>1, <2>1, <2>2 DEF Worker, Steps
  <2>4. misread' \in [Jobs -> 0..MaxMisreads]
    <3>1. misread \in [Jobs -> 0..MaxMisreads] /\ MaxMisreads \in Nat
      BY DEF SaveInv, SaveTypeOK
    <3>2. CASE OpenFresh
      BY <3>1, <3>2 DEF OpenFresh
    <3>3. CASE OpenUnread
      <4>1. misread[w.job] + 1 \in 0..MaxMisreads
        BY <2>2, <3>1, <3>3 DEF OpenUnread
      <4> QED
        BY <3>1, <3>3, <4>1 DEF OpenUnread
    <3> QED
      BY <1>5, <3>2, <3>3
  <2>5. UNCHANGED <<held, mon, files, outside, asked, todo>>
    BY <1>5 DEF OpenFresh, OpenUnread
  <2> QED
    BY <2>1, <2>2, <2>3, <2>4, <2>5, PinOn
<1>6. CASE OpenResumed
  <2>1. CASE journal[w.job].hash = w.data
    <3>1. w' = [w EXCEPT !.pc = "resume", !.path = journal[w.job].path]
      BY <1>6, <2>1 DEF OpenResumed
    <3>2. /\ w.job \in Jobs /\ mon = "run" /\ held = w.job /\ w.tries < MaxTries
          /\ w.data \in Contents /\ journal[w.job] # NoJournal
      BY <1>6 DEF OpenResumed, SaveInv, WorkerOK, SaveTypeOK, Steps
    <3>3. journal[w.job].phase # "none" /\ journal[w.job].path \in Paths
      BY <1>1, <3>2 DEF SaveInv, JournalOK, Journal
    <3>4. /\ w' \in Worker /\ w'.pc = "resume" /\ w'.path = journal[w.job].path
          /\ w'.job = w.job /\ w'.data = w.data /\ w'.tries = w.tries
      BY <1>1, <3>1, <3>3 DEF Worker, Steps
    <3>5. UNCHANGED <<files, outside, journal, todo, counts, mon, held>>
      BY <1>6 DEF OpenResumed
    <3>6. SaveTypeOK' /\ JournalOK'
      BY <3>2, <3>4, <3>5 DEF SaveInv, SaveTypeOK, JournalOK
    <3>7. WorkerOK'
      BY <2>1, <3>2, <3>3, <3>4, <3>5 DEF WorkerOK, Steps, Inside
    <3> QED
      BY <3>6, <3>7 DEF SaveInv
  <2>2. CASE journal[w.job].hash # w.data
    BY <1>6, <2>2, StepOn DEF OpenResumed, Steps
  <2> QED
    BY <2>1, <2>2
<1>7. CASE Resume \/ Verify
  <2>1. w.pc \in Inside /\ w.pc \in Steps
    BY <1>7 DEF Resume, Verify, Inside, Steps
  <2>2. CASE Commit /\ Go("record")
    <3>1. journal'[w.job].phase = "committed"
      BY <1>1, <2>1, <2>2 DEF Commit, Journal
    <3> QED
      BY <1>7, <2>1, <2>2, <3>1, StepOn DEF Resume, Verify, Steps, Inside
  <2>3. CASE ~(Commit /\ Go("record"))
    BY <1>7, <2>1, <2>3, StepOn DEF Resume, Verify, Steps, Inside
  <2> QED
    BY <2>2, <2>3
<1>8. CASE Check
  <2>1. CASE Relocate(0, "place")
    BY <1>8, <2>1, RelocateOn DEF Check
  <2>2. CASE ~Relocate(0, "place")
    BY <1>8, <2>2, StepOn DEF Check, Steps, Inside
  <2> QED
    BY <2>1, <2>2
<1>9. CASE PlaceTaken
  <2>1. CASE Prepared
    <3>1. w.path + 1 \in Nat /\ w.path + 1 # 0
      BY <1>1 DEF Worker, Paths
    <3> DEFINE s == IF w.tries + 1 < MaxTries THEN "place" ELSE "error"
    <3>2. Relocate(w.path + 1, s) /\ s \in {"place", "error"}
      BY <1>9, <2>1 DEF PlaceTaken
    <3>3. s # "error" => w.tries + 1 < MaxTries
      OBVIOUS
    <3> HIDE DEF s
    <3> QED
      BY <1>9, <3>1, <3>2, <3>3, RelocateOn DEF PlaceTaken
  <2>2. CASE ~Prepared
    BY <1>9, <2>2, StepOn DEF PlaceTaken, Steps
  <2> QED
    BY <2>1, <2>2
<1>10. CASE Place
  <2>1. Go("verify") /\ UNCHANGED <<outside, journal, todo, counts, mon, held>>
    BY <1>10 DEF Place
  <2>2. /\ w.job \in Jobs /\ mon = "run" /\ held = w.job /\ w.tries < MaxTries
        /\ w.data \in Contents /\ w.pc = "place"
    BY <1>10 DEF Place, SaveInv, WorkerOK, SaveTypeOK, Steps, Inside
  <2>3. /\ w' \in Worker /\ w'.pc = "verify"
        /\ UNCHANGED <<w.job, w.data, w.path, w.tries>>
    BY <1>1, <2>1, GoOn DEF Steps
  <2>4. [content |-> w.data, by |-> w.job] \in File
    BY <2>2 DEF File
  <2>5. files' \in [Paths -> File]
    BY <1>10, <2>4 DEF Place, SaveInv, SaveTypeOK
  <2>6. SaveTypeOK' /\ JournalOK'
    BY <2>1, <2>2, <2>3, <2>5 DEF SaveInv, SaveTypeOK, JournalOK
  <2>7. WorkerOK'
    BY <2>1, <2>2, <2>3 DEF SaveInv, WorkerOK, Steps, Inside
  <2> QED
    BY <2>6, <2>7 DEF SaveInv
<1>11. CASE MarkSuccess
  <2>1. /\ Go("tidy") /\ held' = 0 /\ w.pc = "record"
        /\ UNCHANGED <<files, outside, journal, todo, counts, mon>>
    BY <1>11 DEF MarkSuccess, RecordSuccess, LetsGo
  <2>2. /\ w' \in Worker /\ w'.pc = "tidy"
        /\ UNCHANGED <<w.job, w.data, w.path, w.tries>>
    BY <1>1, <2>1, GoOn DEF Steps
  <2>3. SaveTypeOK' /\ JournalOK'
    BY <2>1, <2>2 DEF SaveInv, SaveTypeOK, JournalOK
  <2>4. WorkerOK'
    BY <2>1, <2>2 DEF SaveInv, WorkerOK, Steps, Inside
  <2> QED
    BY <2>3, <2>4 DEF SaveInv
<1>12. CASE MarkSuccessRefused
  BY <1>12, StepOn DEF MarkSuccessRefused, Steps
<1>13. CASE StepFails
  BY <1>13, StepOn DEF StepFails
<1>14. CASE Tidy
  <2>1. NoJournal \in Journal
    BY DEF NoJournal, Journal, Paths
  <2>2. w.job \in Jobs /\ held = 0
    BY <1>14 DEF Tidy, SaveInv, SaveTypeOK, WorkerOK
  <2>3. journal' \in [Jobs -> Journal] /\ \A j \in Jobs : journal'[j] \in {journal[j], NoJournal}
    BY <1>1, <1>14, <2>1, <2>2 DEF Tidy
  <2> QED
    BY <1>1, <1>14, <2>2, <2>3, GoIdle DEF Tidy
<1> QED
  BY <1>2, <1>3, <1>4, <1>5, <1>6, <1>7, <1>8, <1>9, <1>10, <1>11, <1>12, <1>13, <1>14, <1>15
     DEF WorkerStep

\* Steps of everybody else: the worker, if it is in a job, stays in it with
\* its journal, the monitor running.
LEMMA OthersKeep ==
    ASSUME SaveInv, UNCHANGED <<w, held>>, w.pc # "idle" => mon' = "run",
           files' \in [Paths -> File], todo' \subseteq Jobs,
           outside' \in 0..MaxOutside, asked' \in [Jobs -> Nat], UNCHANGED misread,
           journal' \in [Jobs -> Journal],
           \/ UNCHANGED journal
           \/ w.pc = "idle" /\ \A j \in Jobs : journal'[j] \in {journal[j], NoJournal}
    PROVE  SaveInv'
<1>1. SaveTypeOK'
  BY DEF SaveInv, SaveTypeOK
<1>2. WorkerOK'
  BY DEF SaveInv, WorkerOK, Steps, Inside
<1>3. JournalOK'
  BY DEF SaveInv, JournalOK, NoJournal
<1> QED
  BY <1>1, <1>2, <1>3 DEF SaveInv

LEMMA OtherSteps ==
    ASSUME IInv, SaveInv,
           \/ \E k \in Keys : SaveEnqueue(k)
           \/ SaveStart \/ SaveRecover \/ TableOnly
           \/ \E j \in Jobs : \/ VisitFinished(j) \/ VisitSaved(j) \/ VisitSkipped(j)
                              \/ SaveRedownload(j)
           \/ \E p \in Paths : Appears(p) \/ Disappears(p)
    PROVE  SaveInv'
<1> USE QueueAssumption, SaveAssumption DEF QueueAssumption, SaveAssumption
<1> USE DEF disk, vars
<1>1. /\ w.pc # "idle" => mon = "run"
      /\ files \in [Paths -> File] /\ todo \subseteq Jobs /\ outside \in 0..MaxOutside
      /\ asked \in [Jobs -> Nat] /\ journal \in [Jobs -> Journal]
      /\ NoJournal \in Journal
  BY DEF SaveInv, SaveTypeOK, WorkerOK, NoJournal, Journal, Paths
<1>2. ASSUME NEW k \in Keys, SaveEnqueue(k) PROVE SaveInv'
  <2>1. lastId' \in Jobs
    BY <1>2 DEF SaveEnqueue, Enqueue, IInv, TypeOK, Jobs
  <2>2. asked' \in [Jobs -> Nat]
    BY <1>1, <1>2, <2>1 DEF SaveEnqueue
  <2> QED
    BY <1>1, <1>2, <2>2, OthersKeep DEF SaveEnqueue, Enqueue
<1>3. CASE SaveStart
  BY <1>1, <1>3, OthersKeep DEF SaveStart, StartMonitor
<1>4. CASE SaveRecover
  BY <1>1, <1>4, OthersKeep DEF SaveRecover, Recover, saveVars
<1>5. CASE TableOnly
  <2>1. UNCHANGED saveVars /\ UNCHANGED held /\ (mon' = mon \/ mon' = "run")
    BY <1>5 DEF TableOnly, Retain, ReleaseStalled, ReleaseLost, RedownloadOff, Retry, Ignore,
                Unignore, SetIgnored, ReadSuccess, BecomeDue, Age
  <2> QED
    BY <1>1, <2>1, OthersKeep DEF saveVars
<1>6. ASSUME NEW j \in Jobs, VisitFinished(j) \/ VisitSaved(j) \/ VisitSkipped(j)
      PROVE  SaveInv'
  <2>1. /\ mon = "reconcile" /\ w.pc = "idle"
        /\ UNCHANGED <<w, held, mon, files, outside, counts>> /\ todo' \subseteq Jobs
    BY <1>1, <1>6 DEF VisitFinished, VisitSaved, VisitSkipped, Reconcile
  <2>2. /\ journal' \in [Jobs -> Journal]
        /\ \A i \in Jobs : journal'[i] \in {journal[i], NoJournal}
    BY <1>1, <1>6 DEF VisitFinished, VisitSaved, VisitSkipped
  <2> QED
    BY <1>1, <2>1, <2>2, OthersKeep
<1>7. ASSUME NEW j \in Jobs, SaveRedownload(j) PROVE SaveInv'
  <2>1. asked' \in [Jobs -> Nat]
    BY <1>1, <1>7 DEF SaveRedownload
  <2> QED
    BY <1>1, <1>7, <2>1, OthersKeep DEF SaveRedownload, Redownload
<1>8. ASSUME NEW p \in Paths, Appears(p) \/ Disappears(p) PROVE SaveInv'
  <2>1. /\ Free \in File
        /\ \A c \in Outside : [content |-> c, by |-> 0] \in File
    BY DEF Free, File
  <2>2. files' \in [Paths -> File]
    BY <1>1, <1>8, <2>1 DEF Appears, Disappears
  <2>3. outside' \in 0..MaxOutside
    BY <1>1, <1>8 DEF Appears, Disappears
  <2> QED
    BY <1>1, <1>8, <2>2, <2>3, OthersKeep DEF Appears, Disappears
<1> QED
  BY <1>2, <1>3, <1>4, <1>5, <1>6, <1>7, <1>8

LEMMA KillKeeps == SaveInv /\ SaveKill => SaveInv'
  BY GoIdle DEF SaveKill, Kill, StallKill, LetsGo, SaveInv, SaveTypeOK, disk

LEMMA SaveInductive == IInv /\ SaveInv /\ [SaveNext]_allVars => SaveInv'
<1> SUFFICES ASSUME IInv, SaveInv, [SaveNext]_allVars PROVE SaveInv'
  OBVIOUS
<1>1. CASE UNCHANGED allVars
  BY <1>1 DEF allVars, saveVars, vars, SaveInv, SaveTypeOK, WorkerOK, JournalOK
<1>2. CASE SaveNext
  BY <1>2, WorkerKeeps, OtherSteps, KillKeeps DEF SaveNext
<1> QED
  BY <1>1, <1>2

\* The worker is where its journal says, for any number of everything.
THEOREM SaveInvariant == SaveSpec => []SaveInv
  BY SaveInitInv, SaveInductive, SaveIInv, PTL DEF SaveSpec

\* Type correctness, and the claim agreeing with the worker's position.
THEOREM SaveTypeCorrect == SaveSpec => []SaveTypeOK
<1>1. SaveInv => SaveTypeOK
  BY DEF SaveInv
<1> QED
  BY <1>1, SaveInvariant, PTL

-----------------------------------------------------------------------------
(* No file is replaced.                                                    *)

\* What one step may do under a name that is taken.
NamesKept == \A p \in Paths : ~IsFree(p) /\ files'[p] # files[p] => files'[p] = Free

LEMMA StepKeepsNames == SaveInv /\ SaveNext => NamesKept
<1> SUFFICES ASSUME SaveInv, SaveNext, NEW p \in Paths, ~IsFree(p), files'[p] # files[p]
             PROVE  files'[p] = Free
  BY DEF NamesKept
<1>1. /\ files \in [Paths -> File] /\ w.path \in Paths
      /\ \A q \in Paths : \A x : files' = [files EXCEPT ![q] = x] =>
            files'[p] = IF p = q THEN x ELSE files[p]
  BY DEF SaveInv, SaveTypeOK, Worker
<1>2. CASE Place
  BY <1>1, <1>2 DEF Place
<1>3. CASE \E q \in Paths : Appears(q) \/ Disappears(q)
  BY <1>1, <1>3 DEF Appears, Disappears
<1>4. CASE UNCHANGED files
  BY <1>4
<1>5. CASE WorkerStep /\ ~Place
  <2>1. UNCHANGED files
    BY <1>5 DEF WorkerStep, SaveClaim, Fetch, FetchNotConfigured, FetchDeferred,
       OpenFresh, OpenUnread, PinFresh, OpenResumed, Resume, Check, PlaceTaken, Verify, MarkSuccess,
       MarkSuccessRefused, Tidy, StepFails, FailureRead, MarkFailed, SaveOutcomeLost, disk
  <2> QED
    BY <2>1
<1>6. CASE \/ SaveStart \/ SaveRecover \/ SaveKill \/ TableOnly
           \/ \E k \in Keys : SaveEnqueue(k)
           \/ \E j \in Jobs : VisitFinished(j) \/ VisitSaved(j) \/ VisitSkipped(j)
           \/ \E j \in Jobs : SaveRedownload(j)
  <2>1. UNCHANGED files
    BY <1>6 DEF SaveStart, SaveRecover, SaveKill, TableOnly, SaveEnqueue, VisitFinished,
       VisitSaved, VisitSkipped, SaveRedownload, disk, saveVars
  <2> QED
    BY <2>1
<1> QED
  BY <1>2, <1>3, <1>5, <1>6 DEF SaveNext

\* However many installations share the folder, no save replaces a file.
THEOREM NoFileIsReplaced == SaveSpec => NeverReplaces
<1>1. SaveInv /\ [SaveNext]_allVars => [NamesKept]_files
  BY StepKeepsNames DEF allVars, saveVars
<1>2. SaveSpec => [][NamesKept]_files
  BY <1>1, SaveInvariant, PTL DEF SaveSpec
<1> QED
  BY <1>2 DEF NeverReplaces, NamesKept

-----------------------------------------------------------------------------
(* A success stands on a saved file.                                       *)

\* No statement but mark_success makes a row a success.
LEMMA OnlyMarkSuccess ==
    ASSUME IInv, NEW j \in Jobs, rows[j].status # "success",
           \/ \E k \in Keys : Enqueue(k)
           \/ \E i \in Jobs : Claim(i) \/ Redownload(i)
           \/ ReadAttempts \/ RecordFailure \/ RecordNotConfigured \/ RecordDeferral \/ OutcomeLost
           \/ StartMonitor \/ Recover \/ Kill \/ StallKill
           \/ TableOnly \/ UNCHANGED rows
    PROVE  rows'[j].status # "success"
<1> USE QueueAssumption DEF QueueAssumption
<1>1. /\ rows \in [Jobs -> Row] /\ rows[j] \in Row
      /\ \A i \in Jobs : \A x : rows' = [rows EXCEPT ![i] = x] =>
            rows'[j] = IF i = j THEN x ELSE rows[j]
  BY DEF IInv, TypeOK
<1>2. CASE \E k \in Keys : Enqueue(k)
  <2>1. PICK k \in Keys : Enqueue(k)
    BY <1>2
  <2>2. FreshRow(k).status = "pending"
    BY DEF FreshRow, NoRow
  <2>3. lastId + 1 \in Jobs
    BY <2>1 DEF Enqueue, IInv, TypeOK, Jobs
  <2> QED
    BY <1>1, <2>1, <2>2, <2>3 DEF Enqueue
<1>3. ASSUME NEW i \in Jobs, Claim(i) \/ Redownload(i) \/ Retry(i)
      PROVE  rows'[j].status # "success"
  <2>1. Claimed(rows[j]).status = "processing"
    BY <1>1 DEF Claimed, Row
  <2>2. Requeued(rows[j]).status = "pending"
    BY <1>1 DEF Requeued, Row
  <2>3. rows' = [rows EXCEPT ![i] = Claimed(rows[i])] \/ rows' = [rows EXCEPT ![i] = Requeued(rows[i])]
    BY <1>1, <1>3 DEF Claim, Redownload, Retry
  <2> QED
    BY <1>1, <1>3, <2>1, <2>2, <2>3
<1>4. CASE ReadAttempts \/ RecordFailure \/ RecordNotConfigured \/ RecordDeferral \/ OutcomeLost
  <2>1. /\ MarkFailure(rows[j], seen).status # "success"
        /\ FailJob(rows[j]).status # "success" /\ DeferJob(rows[j]).status # "success"
    BY <1>1 DEF MarkFailure, Attempted, FailJob, DeferJob, Row
  <2>2. held \in Jobs
    BY <1>4 DEF IInv, TypeOK, HeldOK, ReadAttempts, RecordFailure, RecordNotConfigured,
       RecordDeferral, OutcomeLost, Deciding
  <2> QED
    BY <1>1, <1>4, <2>1, <2>2
       DEF ReadAttempts, RecordFailure, RecordNotConfigured, RecordDeferral, OutcomeLost
<1>5. CASE Recover \/ Retain \/ ReleaseStalled
  <2>1. /\ Recovered(rows[j]).status # "success" /\ Retained(rows[j]).status # "success"
        /\ Stalled(rows[j]).status # "success"
    BY <1>1 DEF Recovered, Retained, Stalled, Attempted, Row, NoRow
  <2> QED
    BY <1>5, <2>1 DEF Recover, Retain, ReleaseStalled
<1>6. CASE \/ StartMonitor \/ Kill \/ StallKill \/ ReleaseLost \/ UNCHANGED rows
           \/ RedownloadOff \/ \E i \in Jobs : ReadSuccess(i)
  BY <1>6 DEF StartMonitor, Kill, StallKill, ReleaseLost, RedownloadOff, ReadSuccess
<1>7. ASSUME NEW i \in Jobs, Ignore(i) \/ Unignore(i)
      PROVE  rows'[j].status # "success"
  BY <1>1, <1>7 DEF Ignore, Unignore, SetIgnored, Row
<1>8. ASSUME NEW i \in Jobs, BecomeDue(i)
      PROVE  rows'[j].status # "success"
  BY <1>1, <1>8 DEF BecomeDue, Row
<1>9. ASSUME NEW i \in Jobs, Age(i)
      PROVE  rows'[j].status # "success"
  BY <1>1, <1>9 DEF Age, Row
<1> QED
  BY <1>2, <1>3, <1>4, <1>5, <1>6, <1>7, <1>8, <1>9 DEF TableOnly

\* What one step may do to the success of job j and to its commit.
Backed(j) ==
    /\ rows'[j].status = "success" /\ rows[j].status # "success" =>
          \/ journal[j].phase = "committed"
          \/ Matches(journal[j].path, journal[j].hash)
    /\ journal'[j].phase = "committed" /\ journal[j].phase # "committed" =>
          Matches(journal'[j].path, journal'[j].hash)

LEMMA StepIsBacked == IInv /\ SaveInv /\ SaveNext => \A j \in Jobs : Backed(j)
<1> SUFFICES ASSUME IInv, SaveInv, SaveNext, NEW j \in Jobs PROVE Backed(j)
  OBVIOUS
<1> USE QueueAssumption DEF QueueAssumption
<1> USE DEF disk, vars, saveVars
<1>1. /\ journal \in [Jobs -> Journal] /\ journal[j] \in Journal
      /\ NoJournal.phase = "none"
      /\ \A p, c : Pinned(p, c).phase = "prepared"
      /\ w.pc \in Inside \cup {"open", "tidy"} => w.job \in Jobs
      /\ \A i \in Jobs : \A e : journal' = [journal EXCEPT ![i] = e] =>
            journal'[j] = IF i = j THEN e ELSE journal[j]
  BY DEF SaveInv, SaveTypeOK, WorkerOK, NoJournal, Pinned, Inside
<1>2. rows'[j].status = "success" /\ rows[j].status # "success" =>
         \/ journal[j].phase = "committed"
         \/ Matches(journal[j].path, journal[j].hash)
  <2>1. CASE MarkSuccess
    <3>1. w.pc = "record" /\ w.job \in Jobs /\ held = w.job
      BY <2>1 DEF MarkSuccess, At, SaveInv, SaveTypeOK, WorkerOK
    <3>2. journal[w.job].phase = "committed"
      BY <3>1 DEF SaveInv, WorkerOK
    <3>3. j # held => rows'[j] = rows[j]
      BY <2>1 DEF MarkSuccess, RecordSuccess, IInv, TypeOK
    <3> QED
      BY <3>1, <3>2, <3>3
  <2>2. CASE WorkerStep /\ ~MarkSuccess
    BY <2>2, OnlyMarkSuccess DEF WorkerStep, SaveClaim, Fetch, FetchNotConfigured,
       FetchDeferred, OpenFresh, OpenUnread, PinFresh, OpenResumed, Resume, Check, Place, PlaceTaken,
       Verify, MarkSuccessRefused, Tidy, StepFails, FailureRead, MarkFailed, SaveOutcomeLost
  <2>3. ASSUME NEW i \in Jobs, VisitSaved(i)
        PROVE  (i = j /\ Matches(journal[i].path, journal[i].hash)) \/ rows'[j] = rows[j]
    BY <2>3 DEF VisitSaved, Reconcile, IInv, TypeOK
  <2>4. ASSUME NEW i \in Jobs, VisitFinished(i) \/ VisitSkipped(i) PROVE rows'[j] = rows[j]
    BY <2>4 DEF VisitFinished, VisitSkipped
  <2>5. CASE \/ SaveStart \/ SaveRecover \/ SaveKill \/ TableOnly
             \/ \E k \in Keys : SaveEnqueue(k)
             \/ \E i \in Jobs : SaveRedownload(i)
             \/ \E p \in Paths : Appears(p) \/ Disappears(p)
    BY <2>5, OnlyMarkSuccess DEF SaveStart, SaveRecover, SaveKill, SaveEnqueue,
       SaveRedownload, Appears, Disappears
  <2> QED
    BY <2>1, <2>2, <2>3, <2>4, <2>5 DEF SaveNext
<1>3. journal'[j].phase = "committed" /\ journal[j].phase # "committed" =>
         Matches(journal'[j].path, journal'[j].hash)
  <2>1. CASE (Resume \/ Verify) /\ Commit /\ Matches(w.path, w.data)
    <3>1. /\ w.pc \in Inside /\ w.job \in Jobs
          /\ journal[w.job].path = w.path /\ journal[w.job].hash = w.data
      BY <2>1 DEF Resume, Verify, At, Inside, SaveInv, WorkerOK
    <3> DEFINE e == [journal[w.job] EXCEPT !.phase = "committed"]
    <3>2. journal' = [journal EXCEPT ![w.job] = e] /\ UNCHANGED files
      BY <2>1 DEF Commit, Resume, Verify
    <3>3. e.path = w.path /\ e.hash = w.data
      BY <1>1, <3>1 DEF SaveInv, SaveTypeOK, Journal
    <3> HIDE DEF e
    <3>4. journal'[j] = IF w.job = j THEN e ELSE journal[j]
      BY <1>1, <3>1, <3>2
    <3> QED
      BY <2>1, <3>2, <3>3, <3>4 DEF Matches
  <2>2. CASE OpenFresh \/ OpenUnread \/ Check \/ PlaceTaken \/ Tidy
    <3>1. w.job \in Jobs
      BY <1>1, <2>2 DEF OpenFresh, OpenUnread, Check, PlaceTaken, Tidy, At, Inside
    <3>2. ASSUME NEW start, NEW step, Relocate(start, step)
          PROVE  \E p, c : journal' = [journal EXCEPT ![w.job] = Pinned(p, c)]
      BY <3>2 DEF Relocate
    <3>3. \/ UNCHANGED journal
          \/ journal' = [journal EXCEPT ![w.job] = NoJournal]
          \/ \E p, c : journal' = [journal EXCEPT ![w.job] = Pinned(p, c)]
      <4>1. CASE OpenFresh \/ OpenUnread
        BY <4>1 DEF OpenFresh, OpenUnread, PinFresh
      <4>2. CASE Check
        BY <3>2, <4>2 DEF Check
      <4>3. CASE PlaceTaken
        BY <3>2, <4>3 DEF PlaceTaken
      <4>4. CASE Tidy
        BY <4>4 DEF Tidy
      <4> QED
        BY <2>2, <4>1, <4>2, <4>3, <4>4
    <3>4. CASE UNCHANGED journal
      BY <3>4
    <3>5. CASE journal' = [journal EXCEPT ![w.job] = NoJournal]
      BY <1>1, <3>1, <3>5
    <3>6. ASSUME NEW p, NEW c, journal' = [journal EXCEPT ![w.job] = Pinned(p, c)]
          PROVE  journal'[j].phase = "committed" => journal[j].phase = "committed"
      BY <1>1, <3>1, <3>6
    <3> QED
      BY <3>3, <3>4, <3>5, <3>6, <1>1
  <2>3. CASE (Resume \/ Verify) /\ ~(Commit /\ Matches(w.path, w.data))
    BY <2>3 DEF Resume, Verify
  <2>4. CASE \/ \E i \in Jobs : SaveClaim(i)
             \/ Fetch \/ FetchNotConfigured \/ FetchDeferred \/ OpenResumed \/ Place
             \/ MarkSuccess \/ MarkSuccessRefused \/ StepFails \/ FailureRead \/ MarkFailed
             \/ SaveOutcomeLost
    BY <2>4 DEF SaveClaim, Fetch, FetchNotConfigured, FetchDeferred, OpenResumed, Place,
       MarkSuccess, MarkSuccessRefused, StepFails, FailureRead, MarkFailed, SaveOutcomeLost
  <2>5. ASSUME NEW i \in Jobs, VisitFinished(i) \/ VisitSaved(i) \/ VisitSkipped(i)
        PROVE  journal'[j] \in {journal[j], NoJournal}
    BY <1>1, <2>5 DEF VisitFinished, VisitSaved, VisitSkipped
  <2>6. CASE \/ SaveStart \/ SaveRecover \/ SaveKill \/ TableOnly
             \/ \E k \in Keys : SaveEnqueue(k)
             \/ \E i \in Jobs : SaveRedownload(i)
             \/ \E p \in Paths : Appears(p) \/ Disappears(p)
    BY <2>6 DEF SaveStart, SaveRecover, SaveKill, TableOnly, SaveEnqueue,
       SaveRedownload, Appears, Disappears
  <2>7. CASE WorkerStep
    BY <2>1, <2>2, <2>3, <2>4, <2>7 DEF WorkerStep
  <2> QED
    BY <1>1, <2>5, <2>6, <2>7 DEF SaveNext
<1> QED
  BY <1>2, <1>3 DEF Backed

\* No success is recorded for an attachment that was not seen in its place.
THEOREM SuccessIsBacked == SaveSpec => SuccessOnlyIfSaved
<1>1. IInv /\ SaveInv /\ [SaveNext]_allVars => [\A j \in Jobs : Backed(j)]_allVars
  BY StepIsBacked
<1>2. SaveSpec => [][\A j \in Jobs : Backed(j)]_allVars
  BY <1>1, SaveIInv, SaveInvariant, PTL DEF SaveSpec
<1> QED
  BY <1>2 DEF SuccessOnlyIfSaved, Backed

-----------------------------------------------------------------------------
(***************************************************************************)
(* One request saves at most one file: NoDuplicateSave.  The invariant     *)
(* keeps an account of the files of each job: a request that is not yet    *)
(* finished is still owed a file, unless the one it has put down is under  *)
(* the name its journal pins.                                              *)
(***************************************************************************)

\* The name a job's journal pins, if there is a journal.
Pin(j) == IF journal[j].phase = "none" THEN {} ELSE {journal[j].path}

\* A file put down by a job under its pinned name has the pinned content, and
\* a worker about to look for or take a name has not put its file there.
OwnOK ==
    /\ \A p \in Paths : IsFree(p) => files[p].by = 0
    /\ \A p \in Paths, j \in Jobs :
          files[p].by = j /\ p \in Pin(j) => files[p].content = journal[j].hash
    /\ w.pc \in {"check", "place"} => files[w.path].by # w.job

\* A request allows one file, and so does a journal that cannot be read.
Budget(j) == asked[j] + misread[j]

\* No job has more files than it may; an unfinished one has fewer, not
\* counting the file under its pinned name.  A worker that has recorded its
\* success may find the job asked for again before it removes the journal: it
\* then has fewer even counting that file.
Accounted(j) ==
    /\ Cardinality(Own(j)) <= Budget(j)
    /\ Unfinished(j) =>
          /\ Cardinality(Own(j) \ Pin(j)) < Budget(j)
          /\ w.pc = "tidy" /\ w.job = j => Cardinality(Own(j)) < Budget(j)

OnceInv == OwnOK /\ \A j \in Jobs : Accounted(j)

-----------------------------------------------------------------------------
(* Counting.                                                               *)

LEMMA BudgetType == SaveInv => \A j \in Jobs : Budget(j) \in Nat
  BY SaveAssumption DEF SaveInv, SaveTypeOK, Budget, SaveAssumption

LEMMA Fewer ==
    ASSUME NEW S \in SUBSET Paths, NEW U \in SUBSET S
    PROVE  Cardinality(S) \in Nat /\ Cardinality(U) \in Nat /\ Cardinality(U) <= Cardinality(S)
<1>1. IsFiniteSet(Paths)
  BY SaveAssumption, FS_Interval DEF Paths, SaveAssumption
<1>2. IsFiniteSet(S)
  BY <1>1, FS_Subset
<1>3. IsFiniteSet(U) /\ Cardinality(U) <= Cardinality(S)
  BY <1>2, FS_Subset
<1> QED
  BY <1>2, <1>3, FS_CardinalityType

LEMMA OneMore ==
    ASSUME NEW S \in SUBSET Paths, NEW p
    PROVE  Cardinality(S) <= Cardinality(S \ {p}) + 1
<1>1. IsFiniteSet(Paths)
  BY SaveAssumption, FS_Interval DEF Paths, SaveAssumption
<1>2. IsFiniteSet(S)
  BY <1>1, FS_Subset
<1> QED
  BY <1>2, FS_RemoveElement, FS_CardinalityType

-----------------------------------------------------------------------------
(* What a step does to the account of one job.                             *)

\* How a step that puts down no file may treat the journal of job j: keep the
\* pin; remove the journal of a finished job, or by the worker that finished
\* it; or pin another name when no file of the job is under either.
PinStep(j) ==
    \/ Pin(j)' = Pin(j) /\ journal'[j].hash = journal[j].hash
    \/ Pin(j)' = {} /\ (Unfinished(j)' => w.pc = "tidy" /\ w.job = j)
    \/ Own(j) \cap Pin(j) = {} /\ Own(j) \cap Pin(j)' = {}

LEMMA SameAccount ==
    ASSUME SaveInv, NEW j \in Jobs, Accounted(j), PinStep(j),
           Own(j)' \subseteq Own(j), Budget(j)' = Budget(j),
           Unfinished(j)' => Unfinished(j),
           Unfinished(j)' /\ w'.pc = "tidy" /\ w'.job = j => w.pc = "tidy" /\ w.job = j
    PROVE  Accounted(j)'
<1>1. /\ Own(j) \in SUBSET Paths /\ Own(j)' \in SUBSET Own(j)
      /\ Budget(j) \in Nat
  BY BudgetType DEF Own
<1>2. /\ Cardinality(Own(j)) \in Nat /\ Cardinality(Own(j)') \in Nat
      /\ Cardinality(Own(j)') <= Cardinality(Own(j))
  BY <1>1, Fewer
<1>3. ASSUME Unfinished(j)' PROVE Cardinality((Own(j) \ Pin(j))') < Budget(j)
  <2>1. CASE (Own(j) \ Pin(j))' \subseteq Own(j) \ Pin(j)
    <3>1. Own(j) \ Pin(j) \in SUBSET Paths /\ (Own(j) \ Pin(j))' \in SUBSET (Own(j) \ Pin(j))
      BY <1>1, <2>1
    <3>2. /\ Cardinality((Own(j) \ Pin(j))') <= Cardinality(Own(j) \ Pin(j))
          /\ Cardinality((Own(j) \ Pin(j))') \in Nat /\ Cardinality(Own(j) \ Pin(j)) \in Nat
      BY <3>1, Fewer
    <3> QED
      BY <1>1, <1>3, <3>2 DEF Accounted
  <2>2. CASE w.pc = "tidy" /\ w.job = j
    <3>1. (Own(j) \ Pin(j))' \in SUBSET Own(j)
      BY <1>1
    <3>2. /\ Cardinality((Own(j) \ Pin(j))') <= Cardinality(Own(j))
          /\ Cardinality((Own(j) \ Pin(j))') \in Nat
      BY <1>1, <3>1, Fewer
    <3> QED
      BY <1>1, <1>2, <1>3, <2>2, <3>2 DEF Accounted
  <2> QED
    BY <1>3, <2>1, <2>2 DEF PinStep
<1> QED
  BY <1>1, <1>2, <1>3 DEF Accounted

\* A request or a failed reading more than before, and no file more.
LEMMA MoreAllowed ==
    ASSUME SaveInv, NEW j \in Jobs, Accounted(j),
           Own(j)' \subseteq Own(j), Budget(j)' = Budget(j) + 1
    PROVE  Accounted(j)'
<1>1. /\ Own(j) \in SUBSET Paths /\ Own(j)' \in SUBSET Own(j)
      /\ (Own(j) \ Pin(j))' \in SUBSET Own(j) /\ Budget(j) \in Nat
  BY BudgetType DEF Own
<1>2. /\ Cardinality(Own(j)) \in Nat /\ Cardinality(Own(j)') \in Nat
      /\ Cardinality(Own(j)') <= Cardinality(Own(j))
      /\ Cardinality((Own(j) \ Pin(j))') \in Nat
      /\ Cardinality((Own(j) \ Pin(j))') <= Cardinality(Own(j))
  BY <1>1, Fewer
<1> QED
  BY <1>1, <1>2 DEF Accounted

-----------------------------------------------------------------------------
(* Only a request makes a finished job unfinished.                         *)

LEMMA NotReopened ==
    ASSUME IInv, NEW j \in Jobs, ~Unfinished(j),
           \/ \E i \in Jobs : Claim(i) \/ Reconcile(i)
           \/ Record \/ StartMonitor \/ Recover \/ Kill \/ StallKill
           \/ TableOnly \/ UNCHANGED rows
    PROVE  ~Unfinished(j)'
<1> USE QueueAssumption DEF QueueAssumption
<1>1. /\ rows \in [Jobs -> Row] /\ rows[j] \in Row
      /\ \A i \in Jobs : \A x : rows' = [rows EXCEPT ![i] = x] =>
            rows'[j] = IF i = j THEN x ELSE rows[j]
  BY DEF IInv, TypeOK
<1>2. rows[j].status \in {"none", "gone", "success"}
  BY <1>1 DEF Row, Unfinished
<1>3. /\ Succeeded(rows[j]).status = "success"
      /\ Recovered(rows[j]) = rows[j] /\ Stalled(rows[j]) = rows[j]
      /\ Retained(rows[j]).status \in {"success", "none", "gone"}
  BY <1>1, <1>2 DEF Succeeded, Recovered, Stalled, Retained, Releasable, Row, NoRow
<1>4. ASSUME NEW i \in Jobs, Claim(i) PROVE ~Unfinished(j)'
  BY <1>1, <1>2, <1>4 DEF Claim, NextUp, Zeros, Runnable, Unfinished
<1>5. ASSUME NEW i \in Jobs, Reconcile(i) PROVE ~Unfinished(j)'
  BY <1>1, <1>2, <1>3, <1>5 DEF Reconcile, Unfinished
<1>6. CASE Record
  <2>1. held \in Jobs /\ held # j
    BY <1>2, <1>6 DEF Record, RecordSuccess, ReadAttempts, RecordFailure, RecordNotConfigured,
       RecordDeferral, OutcomeLost, Deciding, IInv, TypeOK, HeldOK, KeptRow
  <2> QED
    BY <1>1, <1>2, <1>6, <2>1 DEF Record, RecordSuccess, ReadAttempts, RecordFailure,
       RecordNotConfigured, RecordDeferral, OutcomeLost, Unfinished
<1>7. CASE Recover \/ Retain \/ ReleaseStalled
  BY <1>2, <1>3, <1>7 DEF Recover, Retain, ReleaseStalled, Unfinished
<1>8. CASE \/ StartMonitor \/ Kill \/ StallKill \/ ReleaseLost \/ UNCHANGED rows
           \/ RedownloadOff \/ \E i \in Jobs : ReadSuccess(i)
  BY <1>2, <1>8 DEF StartMonitor, Kill, StallKill, ReleaseLost, RedownloadOff, ReadSuccess,
     Unfinished
<1>9. ASSUME NEW i \in Jobs, Retry(i) \/ Ignore(i) \/ Unignore(i) \/ BecomeDue(i)
      PROVE  ~Unfinished(j)'
  BY <1>1, <1>2, <1>9 DEF Retry, Ignore, Unignore, SetIgnored, BecomeDue, Unfinished
<1>10. ASSUME NEW i \in Jobs, Age(i) PROVE ~Unfinished(j)'
  BY <1>1, <1>2, <1>10 DEF Age, Unfinished, Row
<1> QED
  BY <1>4, <1>5, <1>6, <1>7, <1>8, <1>9, <1>10 DEF TableOnly

-----------------------------------------------------------------------------
(* The steps that put down no file.                                        *)

\* Such a step changes a file only by the hand of others.
LEMMA FileStep ==
    ASSUME SaveInv, SaveNext, ~Place, NEW p \in Paths
    PROVE  files'[p] = files[p] \/ files'[p].by = 0
<1>1. /\ files \in [Paths -> File]
      /\ \A q \in Paths : \A x : files' = [files EXCEPT ![q] = x] =>
            files'[p] = IF p = q THEN x ELSE files[p]
  BY DEF SaveInv, SaveTypeOK
<1>2. ASSUME NEW q \in Paths, Appears(q) \/ Disappears(q)
      PROVE  files'[p] = files[p] \/ files'[p].by = 0
  BY <1>1, <1>2 DEF Appears, Disappears, Free
<1>3. CASE WorkerStep
  BY <1>3 DEF WorkerStep, SaveClaim, Fetch, FetchNotConfigured, FetchDeferred,
     OpenFresh, OpenUnread, PinFresh, OpenResumed, Resume, Check, PlaceTaken, Verify, MarkSuccess,
     MarkSuccessRefused, Tidy, StepFails, FailureRead, MarkFailed, SaveOutcomeLost, disk
<1>4. CASE \/ SaveStart \/ SaveRecover \/ SaveKill \/ TableOnly
           \/ \E k \in Keys : SaveEnqueue(k)
           \/ \E j \in Jobs : VisitFinished(j) \/ VisitSaved(j) \/ VisitSkipped(j)
           \/ \E j \in Jobs : SaveRedownload(j)
  BY <1>4 DEF SaveStart, SaveRecover, SaveKill, TableOnly, SaveEnqueue, VisitFinished,
     VisitSaved, VisitSkipped, SaveRedownload, disk, saveVars
<1> QED
  BY <1>2, <1>3, <1>4 DEF SaveNext

\* Pinning a free name, before the worker has put anything under the old one.
LEMMA Pinning ==
    ASSUME SaveInv, OwnOK, w.job \in Jobs, NEW p \in Paths, IsFree(p),
           Own(w.job) \cap Pin(w.job) = {},
           journal' = [journal EXCEPT ![w.job] = Pinned(p, w.data)], UNCHANGED files,
           NEW j \in Jobs
    PROVE  PinStep(j)
<1>1. journal'[j] = IF j = w.job THEN Pinned(p, w.data) ELSE journal[j]
  BY DEF SaveInv, SaveTypeOK
<1>2. CASE j = w.job
  <2>1. Pin(j)' = {p}
    BY <1>1, <1>2 DEF Pin, Pinned
  <2>2. p \notin Own(j)
    BY DEF OwnOK, Own, Jobs
  <2> QED
    BY <1>2, <2>1, <2>2 DEF PinStep
<1>3. CASE j # w.job
  BY <1>1, <1>3 DEF PinStep, Pin
<1> QED
  BY <1>2, <1>3

\* Committing a journal keeps what it pins.
LEMMA Committing ==
    ASSUME SaveInv, w.pc \in Inside, Commit, NEW j \in Jobs
    PROVE  PinStep(j)
<1>1. w.job \in Jobs /\ journal[w.job] \in Journal /\ journal[w.job].phase # "none"
  BY DEF SaveInv, SaveTypeOK, WorkerOK, Inside
<1> DEFINE e == [journal[w.job] EXCEPT !.phase = "committed"]
<1>2. /\ e.phase = "committed" /\ e.path = journal[w.job].path
      /\ e.hash = journal[w.job].hash
  BY <1>1 DEF Journal
<1>3. journal' = [journal EXCEPT ![w.job] = e]
  BY DEF Commit
<1> HIDE DEF e
<1>4. journal'[j] = IF j = w.job THEN e ELSE journal[j]
  BY <1>1, <1>3 DEF SaveInv, SaveTypeOK
<1> QED
  BY <1>1, <1>2, <1>4 DEF PinStep, Pin

LEMMA PinSteps ==
    ASSUME IInv, SaveInv, OwnOK, SaveNext, NEW j \in Jobs, ~(OpenUnread /\ j = w.job)
    PROVE  PinStep(j)
<1>1. /\ journal \in [Jobs -> Journal] /\ NoJournal.phase = "none"
      /\ \A i \in Jobs : \A e : journal' = [journal EXCEPT ![i] = e] =>
            journal'[j] = IF i = j THEN e ELSE journal[j]
  BY DEF SaveInv, SaveTypeOK, NoJournal
<1>2. CASE UNCHANGED journal
  BY <1>2 DEF PinStep, Pin
<1>3. w.pc \in Inside \cup {"open", "tidy"} => w.job \in Jobs
  BY DEF SaveInv, WorkerOK, Inside
<1>4. CASE OpenFresh
  <2>1. Own(w.job) \cap Pin(w.job) = {} /\ w.job \in Jobs
    BY <1>1, <1>3, <1>4 DEF OpenFresh, Pin, At
  <2>2. PICK p \in FirstFree(0) : journal' = [journal EXCEPT ![w.job] = Pinned(p, w.data)]
    BY <1>4 DEF OpenFresh, PinFresh
  <2> QED
    BY <1>4, <2>1, <2>2, Pinning DEF OpenFresh, FirstFree, disk
<1>12. CASE OpenUnread
  <2>1. journal'[j] = journal[j]
    BY <1>1, <1>3, <1>12 DEF OpenUnread, PinFresh, At
  <2> QED
    BY <2>1 DEF PinStep, Pin
<1>5. ASSUME NEW start, NEW step, Relocate(start, step), UNCHANGED files,
             w.pc \in {"check", "place"}
      PROVE  PinStep(j)
  <2>1. /\ w.job \in Jobs /\ journal[w.job].path = w.path /\ w.path \in Paths
        /\ files[w.path].by # w.job
    BY <1>3, <1>5 DEF Inside, SaveInv, SaveTypeOK, WorkerOK, Worker, OwnOK
  <2>2. Own(w.job) \cap Pin(w.job) = {}
    BY <2>1 DEF Own, Pin
  <2>3. PICK p \in FirstFree(start) : journal' = [journal EXCEPT ![w.job] = Pinned(p, w.data)]
    BY <1>5 DEF Relocate
  <2> QED
    BY <1>5, <2>1, <2>2, <2>3, Pinning DEF FirstFree
<1>6. CASE Check \/ PlaceTaken
  BY <1>2, <1>5, <1>6 DEF Check, PlaceTaken, At, disk
<1>7. CASE Resume \/ Verify
  BY <1>2, <1>7, Committing DEF Resume, Verify, At, Inside
<1>8. CASE Tidy
  BY <1>1, <1>2, <1>3, <1>8 DEF Tidy, At, PinStep, Pin
<1>9. ASSUME NEW i \in Jobs, VisitFinished(i) \/ VisitSaved(i) \/ VisitSkipped(i)
      PROVE  PinStep(j)
  <2>1. CASE i # j \/ VisitSkipped(i)
    <3>1. journal'[j] = journal[j]
      BY <1>1, <1>9, <2>1 DEF VisitFinished, VisitSaved, VisitSkipped
    <3> QED
      BY <3>1 DEF PinStep, Pin
  <2>2. CASE i = j /\ VisitFinished(j)
    <3>1. ~Unfinished(j)'
      BY <2>2 DEF VisitFinished, vars, Unfinished
    <3>2. journal'[j] = journal[j] \/ Pin(j)' = {}
      BY <1>1, <2>2 DEF VisitFinished, Pin
    <3> QED
      BY <3>1, <3>2 DEF PinStep, Pin
  <2>3. CASE i = j /\ VisitSaved(j)
    <3>1. rows'[j] = Succeeded(rows[j]) /\ rows[j] \in Row
      BY <2>3 DEF VisitSaved, Reconcile, IInv, TypeOK
    <3>2. ~Unfinished(j)'
      BY <3>1 DEF Succeeded, Row, Unfinished
    <3>3. journal'[j] = journal[j] \/ Pin(j)' = {}
      BY <1>1, <2>3 DEF VisitSaved, Pin
    <3> QED
      BY <3>2, <3>3 DEF PinStep, Pin
  <2> QED
    BY <1>9, <2>1, <2>2, <2>3
<1>10. CASE \/ \E i \in Jobs : SaveClaim(i)
            \/ Fetch \/ FetchNotConfigured \/ FetchDeferred \/ OpenResumed \/ Place
            \/ MarkSuccess \/ MarkSuccessRefused \/ StepFails \/ FailureRead \/ MarkFailed
            \/ SaveOutcomeLost
  <2>1. UNCHANGED journal
    BY <1>10 DEF SaveClaim, Fetch, FetchNotConfigured, FetchDeferred, OpenResumed, Place,
       MarkSuccess, MarkSuccessRefused, StepFails, FailureRead, MarkFailed, SaveOutcomeLost
  <2> QED
    BY <1>2, <2>1
<1>11. CASE \/ SaveStart \/ SaveRecover \/ SaveKill \/ TableOnly
            \/ \E k \in Keys : SaveEnqueue(k)
            \/ \E i \in Jobs : SaveRedownload(i)
            \/ \E p \in Paths : Appears(p) \/ Disappears(p)
  <2>1. UNCHANGED journal
    BY <1>11 DEF SaveStart, SaveRecover, SaveKill, TableOnly, SaveEnqueue,
       SaveRedownload, Appears, Disappears, saveVars
  <2> QED
    BY <1>2, <2>1
<1> QED
  BY <1>4, <1>6, <1>7, <1>8, <1>9, <1>10, <1>11, <1>12 DEF SaveNext, WorkerStep

-----------------------------------------------------------------------------
(* Whose file is where.                                                    *)

\* The worker comes to the steps before the move only with a name under which
\* it has no file.
LEMMA WorkerAway ==
    ASSUME SaveInv, OwnOK, SaveNext, ~Place, w'.pc \in {"check", "place"}
    PROVE  files'[w'.path].by # w'.job
<1>1. /\ files \in [Paths -> File] /\ w \in Worker /\ w.path \in Paths
      /\ \A s \in {"resume", "record", "error", "tidy", "verify"} : Go(s) => w'.pc = s
      /\ Go("check") \/ Go("place") => w'.path = w.path /\ w'.job = w.job
      /\ Idle.pc = "idle"
  BY DEF SaveInv, SaveTypeOK, Worker, Go, Idle
<1>2. ASSUME NEW p \in Paths, IsFree(p), w'.path = p, w'.job \in Jobs, UNCHANGED files
      PROVE  files'[w'.path].by # w'.job
  BY <1>2 DEF OwnOK, Jobs
<1>3. w.pc \in Inside \cup {"open"} => w.job \in Jobs
  BY DEF SaveInv, WorkerOK, Inside
<1>4. CASE OpenFresh \/ OpenUnread
  <2>1. PICK p \in FirstFree(0) : w' = [w EXCEPT !.pc = "check", !.path = p]
    BY <1>4 DEF OpenFresh, OpenUnread, PinFresh
  <2>2. w'.path = p /\ w'.job = w.job
    BY <1>1, <2>1 DEF Worker
  <2> QED
    BY <1>2, <1>3, <1>4, <2>1, <2>2 DEF OpenFresh, OpenUnread, FirstFree, At, disk
<1>5. CASE Resume
  <2>1. /\ w.job \in Jobs /\ w.pc = "resume" /\ UNCHANGED files
        /\ journal[w.job].path = w.path /\ journal[w.job].hash = w.data
        /\ journal[w.job].phase # "none" /\ w.data \in Contents
    BY <1>3, <1>5 DEF Resume, At, Inside, SaveInv, WorkerOK, disk
  <2>2. ~Matches(w.path, w.data) /\ Go("check")
    BY <1>1, <1>5 DEF Resume
  <2>3. files[w.path].content # w.data
    BY <2>1, <2>2, SaveAssumption DEF Matches, SaveAssumption
  <2> QED
    BY <1>1, <2>1, <2>2, <2>3 DEF OwnOK, Pin
<1>6. ASSUME NEW start, NEW step, Relocate(start, step), UNCHANGED files,
             w.pc \in {"check", "place"}
      PROVE  files'[w'.path].by # w'.job
  <2>1. PICK p \in FirstFree(start) :
           w' = [w EXCEPT !.pc = step, !.path = p,
                          !.tries = IF start = 0 THEN @ ELSE @ + 1]
    BY <1>6 DEF Relocate
  <2>2. w'.path = p /\ w'.job = w.job
    BY <1>1, <2>1 DEF Worker
  <2> QED
    BY <1>2, <1>3, <1>6, <2>1, <2>2 DEF FirstFree, Inside
<1>7. CASE Check \/ PlaceTaken
  <2>1. CASE \E start, step : Relocate(start, step)
    BY <1>6, <1>7, <2>1 DEF Check, PlaceTaken, At, disk
  <2>2. CASE Go("place") /\ w.pc = "check" /\ UNCHANGED files
    BY <1>1, <2>2 DEF OwnOK
  <2> QED
    BY <1>1, <1>7, <2>1, <2>2 DEF Check, PlaceTaken, At, disk
<1>8. CASE \/ \E i \in Jobs : SaveClaim(i)
           \/ Fetch \/ FetchNotConfigured \/ FetchDeferred \/ OpenResumed
           \/ Verify \/ MarkSuccess \/ MarkSuccessRefused \/ Tidy \/ StepFails
           \/ FailureRead \/ MarkFailed \/ SaveOutcomeLost \/ SaveKill
  <2>1. w'.pc \notin {"check", "place"}
    <3>1. CASE \/ FetchNotConfigured \/ FetchDeferred \/ Verify \/ MarkSuccess
               \/ MarkSuccessRefused \/ Tidy \/ StepFails \/ FailureRead \/ MarkFailed
               \/ SaveOutcomeLost \/ SaveKill
      BY <1>1, <3>1 DEF FetchNotConfigured, FetchDeferred, Verify, MarkSuccess,
         MarkSuccessRefused, Tidy, StepFails, FailureRead, MarkFailed, SaveOutcomeLost, SaveKill,
         At
    <3>2. CASE OpenResumed
      BY <1>1, <3>2 DEF OpenResumed, Worker
    <3>3. CASE Fetch
      BY <1>1, <3>3 DEF Fetch, Worker
    <3>4. ASSUME NEW i \in Jobs, SaveClaim(i) PROVE w'.pc = "fetch"
      BY <3>4 DEF SaveClaim, Idle
    <3> QED
      BY <1>8, <3>1, <3>2, <3>3, <3>4
  <2> QED
    BY <2>1
<1>9. CASE /\ UNCHANGED w
           /\ files'[w.path] = files[w.path] \/ files'[w.path].by = 0
  BY <1>1, <1>3, <1>9 DEF OwnOK, Inside, Jobs
<1>10. CASE \/ SaveStart \/ SaveRecover \/ TableOnly
            \/ \E k \in Keys : SaveEnqueue(k)
            \/ \E i \in Jobs : VisitFinished(i) \/ VisitSaved(i) \/ VisitSkipped(i)
            \/ \E i \in Jobs : SaveRedownload(i)
            \/ \E p \in Paths : Appears(p) \/ Disappears(p)
  <2>1. UNCHANGED w
    BY <1>10 DEF SaveStart, SaveRecover, TableOnly, SaveEnqueue, VisitFinished,
       VisitSaved, VisitSkipped, SaveRedownload, Appears, Disappears, saveVars
  <2> QED
    BY <1>1, <1>9, <2>1, FileStep
<1> QED
  BY <1>4, <1>5, <1>7, <1>8, <1>10 DEF SaveNext, WorkerStep

LEMMA OwnKeeps == IInv /\ SaveInv /\ OwnOK /\ SaveNext => OwnOK'
<1> SUFFICES ASSUME IInv, SaveInv, OwnOK, SaveNext PROVE OwnOK'
  OBVIOUS
<1>1. files \in [Paths -> File]
  BY DEF SaveInv, SaveTypeOK
<1>2. CASE Place
  <2>1. /\ w.pc = "place" /\ w.job \in Jobs /\ w.path \in Paths /\ w.data \in Contents
        /\ journal[w.job].hash = w.data /\ w'.pc = "verify" /\ UNCHANGED journal
    BY <1>2 DEF Place, At, Go, Inside, SaveInv, SaveTypeOK, WorkerOK, Worker
  <2>2. \A p \in Paths : files'[p] = IF p = w.path
                                     THEN [content |-> w.data, by |-> w.job] ELSE files[p]
    BY <1>1, <1>2, <2>1 DEF Place
  <2>3. \A p \in Paths : IsFree(p)' => files'[p].by = 0
    BY <2>1, <2>2, SaveAssumption DEF SaveAssumption, OwnOK, IsFree
  <2>4. \A p \in Paths, j \in Jobs :
           files'[p].by = j /\ p \in Pin(j)' => files'[p].content = journal'[j].hash
    BY <2>1, <2>2 DEF OwnOK, Pin
  <2> QED
    BY <2>1, <2>3, <2>4 DEF OwnOK
<1>3. CASE ~Place
  <2>1. \A p \in Paths : IsFree(p)' => files'[p].by = 0
    BY <1>3, FileStep DEF OwnOK, IsFree
  <2>2. ASSUME NEW p \in Paths, NEW j \in Jobs, files'[p].by = j, p \in Pin(j)'
        PROVE  files'[p].content = journal'[j].hash
    <3>1. files'[p] = files[p] /\ p \in Own(j)
      BY <1>3, <2>2, FileStep DEF Jobs, Own
    <3>2. CASE OpenUnread /\ j = w.job
      <4>1. PICK q \in FirstFree(0) : journal' = [journal EXCEPT ![j] = Pinned(q, w.data)]
        BY <3>2 DEF OpenUnread, PinFresh
      <4>2. Pin(j)' = {q} /\ IsFree(q) /\ q \in Paths
        BY <4>1 DEF FirstFree, Pin, Pinned, SaveInv, SaveTypeOK
      <4> QED
        BY <2>2, <3>1, <4>2 DEF OwnOK, Own, Jobs
    <3>3. CASE ~(OpenUnread /\ j = w.job)
      <4>1. Pin(j)' = Pin(j) /\ journal'[j].hash = journal[j].hash
        BY <2>2, <3>1, <3>3, PinSteps DEF PinStep
      <4> QED
        BY <2>2, <3>1, <4>1 DEF OwnOK
    <3> QED
      BY <3>2, <3>3
  <2> QED
    BY <1>3, <2>1, <2>2, WorkerAway DEF OwnOK
<1> QED
  BY <1>2, <1>3

-----------------------------------------------------------------------------
(* The account of every job, step by step.                                 *)

\* Moving the file into place: the job is unfinished, the name is the one its
\* journal pins, so what was owed is now delivered.
LEMMA PlaceAccount ==
    ASSUME IInv, SaveInv, OwnOK, Place, NEW j \in Jobs, Accounted(j)
    PROVE  Accounted(j)'
<1>1. /\ w.pc = "place" /\ w'.pc = "verify" /\ w.job \in Jobs /\ w.path \in Paths
      /\ journal[w.job].phase # "none" /\ journal[w.job].path = w.path
      /\ files \in [Paths -> File] /\ Budget(j) \in Nat
      /\ UNCHANGED <<journal, rows, counts>>
  BY BudgetType DEF Place, At, Go, Inside, SaveInv, SaveTypeOK, WorkerOK, Worker, vars
<1>2. \A p \in Paths : files'[p] = IF p = w.path
                                   THEN [content |-> w.data, by |-> w.job] ELSE files[p]
  BY <1>1 DEF Place
<1>3. Pin(j)' = Pin(j)
  BY <1>1 DEF Pin
<1>4. Unfinished(j)' = Unfinished(j)
  BY <1>1 DEF Unfinished
<1>5. CASE j # w.job
  <2>1. Own(j)' \subseteq Own(j)
    BY <1>2, <1>5 DEF Own
  <2> QED
    BY <1>1, <1>3, <1>4, <2>1, SameAccount DEF PinStep, Budget
<1>6. CASE j = w.job
  <2>1. Pin(j) = {w.path}
    BY <1>1, <1>6 DEF Pin
  <2>2. Own(j)' \in SUBSET Paths /\ Own(j) \in SUBSET Paths
    BY DEF Own
  <2>3. Own(j)' \ {w.path} \in SUBSET (Own(j) \ Pin(j)) /\ Own(j) \ Pin(j) \in SUBSET Paths
    BY <1>2, <2>1, <2>2 DEF Own
  <2>4. /\ Cardinality(Own(j)') \in Nat /\ Cardinality(Own(j) \ Pin(j)) \in Nat
        /\ Cardinality(Own(j)' \ {w.path}) \in Nat
        /\ Cardinality(Own(j)' \ {w.path}) <= Cardinality(Own(j) \ Pin(j))
    BY <2>2, <2>3, Fewer
  <2>5. Cardinality(Own(j)') <= Cardinality(Own(j)' \ {w.path}) + 1
    BY <2>2, OneMore
  <2>6. held = w.job
    BY <1>1 DEF SaveInv, SaveTypeOK
  <2>7. Unfinished(j)
    BY <1>1, <1>6, <2>6, SaveAssumption, QueueAssumption DEF IInv, HeldOK, KeptRow, Unfinished,
       Jobs, QueueAssumption
  <2>8. Cardinality(Own(j) \ Pin(j)) < Budget(j)
    BY <2>7 DEF Accounted
  <2>9. (Own(j) \ Pin(j))' = Own(j)' \ {w.path}
    BY <1>3, <2>1
  <2>10. Budget(j)' = Budget(j) /\ Budget(j) \in Nat
    BY <1>1 DEF Budget
  <2>11. Cardinality(Own(j)') <= Budget(j)
    BY <2>4, <2>5, <2>8, <2>10
  <2>12. Cardinality((Own(j) \ Pin(j))') < Budget(j)
    BY <2>4, <2>8, <2>9, <2>10
  <2> QED
    BY <1>1, <2>10, <2>11, <2>12 DEF Accounted
<1> QED
  BY <1>5, <1>6

\* A step that puts down no file and takes no new request for j.
LEMMA IdleAccount ==
    ASSUME IInv, SaveInv, OwnOK, SaveNext, ~Place, NEW j \in Jobs, Accounted(j),
           Budget(j)' = Budget(j), Unfinished(j)' => Unfinished(j)
    PROVE  Accounted(j)'
<1>1. Own(j)' \subseteq Own(j)
  <2>1. \A p \in Paths : files'[p] = files[p] \/ files'[p].by = 0
    BY FileStep
  <2> QED
    BY <2>1 DEF Own, Jobs
<1>2. Unfinished(j)' /\ w'.pc = "tidy" /\ w'.job = j => w.pc = "tidy" /\ w.job = j
  <2>1. w \in Worker /\ Idle.pc = "idle"
    BY DEF SaveInv, SaveTypeOK, Idle
  <2>2. CASE MarkSuccess
    <3>1. held = w.job /\ w.job \in Jobs /\ w'.job = w.job
      BY <2>1, <2>2 DEF MarkSuccess, At, Go, SaveInv, SaveTypeOK, WorkerOK, Worker
    <3>2. rows' = [rows EXCEPT ![w.job] = Succeeded(rows[w.job])]
      BY <2>2, <3>1 DEF MarkSuccess, RecordSuccess
    <3>3. rows'[w.job] = Succeeded(rows[w.job]) /\ rows[w.job] \in Row
      BY <3>1, <3>2 DEF IInv, TypeOK
    <3>4. rows'[w.job].status = "success"
      BY <3>3 DEF Succeeded, Row
    <3> QED
      BY <3>1, <3>4 DEF Unfinished
  <2>3. CASE \/ \E i \in Jobs : SaveClaim(i)
             \/ Fetch \/ FetchNotConfigured \/ FetchDeferred \/ OpenFresh \/ OpenUnread
             \/ OpenResumed \/ Resume \/ Check \/ PlaceTaken \/ Verify
             \/ MarkSuccessRefused \/ Tidy \/ StepFails \/ FailureRead \/ MarkFailed
             \/ SaveOutcomeLost \/ SaveKill
    <3>1. CASE \/ FetchNotConfigured \/ FetchDeferred \/ Tidy \/ FailureRead \/ MarkFailed
               \/ SaveOutcomeLost \/ SaveKill
      BY <2>1, <3>1 DEF FetchNotConfigured, FetchDeferred, Tidy, FailureRead, MarkFailed,
         SaveOutcomeLost, SaveKill, At
    <3>2. CASE StepFails \/ MarkSuccessRefused \/ Verify \/ Resume
      BY <2>1, <3>2 DEF StepFails, MarkSuccessRefused, Verify, Resume, Go, Worker
    <3>3. CASE Fetch \/ OpenFresh \/ OpenUnread \/ OpenResumed
      BY <2>1, <3>3 DEF Fetch, OpenFresh, OpenUnread, PinFresh, OpenResumed, Go, Worker
    <3>4. CASE Check \/ PlaceTaken
      BY <2>1, <3>4 DEF Check, PlaceTaken, Relocate, Go, Worker
    <3>5. ASSUME NEW i \in Jobs, SaveClaim(i) PROVE w'.pc = "fetch"
      BY <3>5 DEF SaveClaim, Idle
    <3> QED
      BY <2>3, <3>1, <3>2, <3>3, <3>4, <3>5
  <2>4. CASE \/ SaveStart \/ SaveRecover \/ TableOnly
             \/ \E k \in Keys : SaveEnqueue(k)
             \/ \E i \in Jobs : VisitFinished(i) \/ VisitSaved(i) \/ VisitSkipped(i)
             \/ \E i \in Jobs : SaveRedownload(i)
             \/ \E p \in Paths : Appears(p) \/ Disappears(p)
    BY <2>4 DEF SaveStart, SaveRecover, TableOnly, SaveEnqueue,
       VisitFinished, VisitSaved, VisitSkipped, SaveRedownload, Appears, Disappears,
       saveVars
  <2> QED
    BY <2>2, <2>3, <2>4 DEF SaveNext, WorkerStep
<1>3. ~(OpenUnread /\ j = w.job)
  BY SaveAssumption DEF OpenUnread, Budget, SaveInv, SaveTypeOK, SaveAssumption
<1>4. PinStep(j)
  BY <1>3, PinSteps
<1> QED
  BY <1>1, <1>2, <1>4, SameAccount

\* A request for job i, or a failed reading of its journal: one more file is
\* allowed it, nothing changed for the others.
LEMMA RequestAccount ==
    ASSUME IInv, SaveInv, OwnOK, SaveNext, ~Place, NEW j \in Jobs, Accounted(j),
           NEW i \in Jobs,
           \/ asked' = [asked EXCEPT ![i] = @ + 1] /\ UNCHANGED misread
           \/ misread' = [misread EXCEPT ![i] = @ + 1] /\ UNCHANGED asked,
           j # i => rows'[j] = rows[j]
    PROVE  Accounted(j)'
<1>1. Budget(j)' = IF j = i THEN Budget(j) + 1 ELSE Budget(j)
  BY SaveAssumption DEF SaveInv, SaveTypeOK, Budget, SaveAssumption
<1>2. CASE j = i
  <2>1. \A p \in Paths : files'[p] = files[p] \/ files'[p].by = 0
    BY FileStep
  <2>2. Own(j)' \subseteq Own(j)
    BY <2>1 DEF Own, Jobs
  <2> QED
    BY <1>1, <1>2, <2>2, MoreAllowed
<1>3. CASE j # i
  BY <1>1, <1>3, IdleAccount DEF Unfinished
<1> QED
  BY <1>2, <1>3

LEMMA AccountKeeps ==
    ASSUME IInv, SaveInv, OwnOK, SaveNext, NEW j \in Jobs, Accounted(j)
    PROVE  Accounted(j)'
<1>1. CASE Place
  BY <1>1, PlaceAccount
<1>2. ASSUME NEW k \in Keys, SaveEnqueue(k), ~Place PROVE Accounted(j)'
  <2>1. /\ lastId + 1 \in Jobs /\ lastId' = lastId + 1
        /\ rows' = [rows EXCEPT ![lastId + 1] = FreshRow(k)]
    BY <1>2, QueueAssumption DEF SaveEnqueue, Enqueue, IInv, TypeOK, Jobs, QueueAssumption
  <2>2. asked' = [asked EXCEPT ![lastId + 1] = @ + 1] /\ UNCHANGED misread
    BY <1>2, <2>1 DEF SaveEnqueue
  <2>3. j # lastId + 1 => rows'[j] = rows[j]
    BY <2>1 DEF IInv, TypeOK
  <2> QED
    BY <1>2, <2>1, <2>2, <2>3, RequestAccount
<1>3. ASSUME NEW i \in Jobs, SaveRedownload(i), ~Place PROVE Accounted(j)'
  <2>1. j # i => rows'[j] = rows[j]
    BY <1>3 DEF SaveRedownload, Redownload, IInv, TypeOK
  <2> QED
    BY <1>3, <2>1, RequestAccount DEF SaveRedownload
<1>5. CASE OpenUnread /\ ~Place
  <2>1. w.job \in Jobs /\ rows'[j] = rows[j]
    BY <1>5 DEF OpenUnread, At, SaveInv, WorkerOK, Inside, vars
  <2> QED
    BY <1>5, <2>1, RequestAccount DEF OpenUnread
<1>4. CASE /\ ~Place /\ ~OpenUnread
           /\ \/ WorkerStep \/ SaveStart \/ SaveRecover \/ SaveKill \/ TableOnly
              \/ \E i \in Jobs : VisitFinished(i) \/ VisitSaved(i) \/ VisitSkipped(i)
              \/ \E p \in Paths : Appears(p) \/ Disappears(p)
  <2>1. asked' = asked /\ misread' = misread
    <3>1. CASE WorkerStep
      BY <1>4, <3>1 DEF WorkerStep, SaveClaim, Fetch, FetchNotConfigured, FetchDeferred,
         OpenFresh, OpenUnread, PinFresh, OpenResumed, Resume, Check, Place, PlaceTaken, Verify, MarkSuccess,
         MarkSuccessRefused, Tidy, StepFails, FailureRead, MarkFailed, SaveOutcomeLost
    <3>2. CASE ~WorkerStep
      BY <1>4, <3>2 DEF SaveStart, SaveRecover, SaveKill, TableOnly, VisitFinished,
         VisitSaved, VisitSkipped, Appears, Disappears, saveVars
    <3> QED
      BY <3>1, <3>2
  <2>2. \/ \E i \in Jobs : Claim(i) \/ Reconcile(i)
        \/ Record \/ StartMonitor \/ Recover \/ Kill \/ StallKill
        \/ TableOnly \/ UNCHANGED rows
    <3>1. CASE WorkerStep
      BY <1>4, <3>1 DEF WorkerStep, SaveClaim, Fetch, FetchNotConfigured, FetchDeferred,
         OpenFresh, OpenUnread, PinFresh, OpenResumed, Resume, Check, PlaceTaken, Verify, MarkSuccess,
         MarkSuccessRefused, Tidy, StepFails, FailureRead, MarkFailed, SaveOutcomeLost, Record, vars
    <3>2. CASE ~WorkerStep
      BY <1>4, <3>2 DEF SaveStart, SaveRecover, SaveKill, VisitFinished,
         VisitSaved, VisitSkipped, Appears, Disappears, vars
    <3> QED
      BY <3>1, <3>2
  <2>3. Unfinished(j)' => Unfinished(j)
    BY <2>2, NotReopened
  <2> QED
    BY <1>4, <2>1, <2>3, IdleAccount DEF Budget
<1> QED
  BY <1>1, <1>2, <1>3, <1>4, <1>5 DEF SaveNext, WorkerStep

-----------------------------------------------------------------------------
(* The theorem.                                                            *)

LEMMA InitOnce == SaveInit => OnceInv
<1> SUFFICES ASSUME SaveInit PROVE OnceInv
  OBVIOUS
<1>1. /\ \A p \in Paths : files[p] = Free
      /\ Free.by = 0 /\ w.pc = "idle"
  BY DEF SaveInit, Free, Idle
<1>2. ASSUME NEW j \in Jobs PROVE Own(j) = {} /\ ~Unfinished(j) /\ Budget(j) = 0
  <2>1. Own(j) = {}
    BY <1>1 DEF Own, Jobs
  <2>2. rows[j].status = "none"
    BY DEF SaveInit, Init, NoRow
  <2> QED
    BY <2>1, <2>2 DEF SaveInit, Unfinished, Budget
<1>3. OwnOK
  BY <1>1 DEF OwnOK, Jobs
<1>4. \A j \in Jobs : Accounted(j)
  BY <1>2, FS_EmptySet DEF Accounted
<1> QED
  BY <1>3, <1>4 DEF OnceInv

LEMMA OnceInductive == IInv /\ SaveInv /\ OnceInv /\ [SaveNext]_allVars => OnceInv'
<1> SUFFICES ASSUME IInv, SaveInv, OnceInv, [SaveNext]_allVars PROVE OnceInv'
  OBVIOUS
<1>1. CASE SaveNext
  BY <1>1, OwnKeeps, AccountKeeps DEF OnceInv
<1>2. CASE UNCHANGED allVars
  <2>1. UNCHANGED <<files, journal, rows, counts, w>>
    BY <1>2 DEF allVars, saveVars, vars
  <2> QED
    BY <2>1 DEF OnceInv, OwnOK, Accounted, Budget, Own, Pin, Unfinished, IsFree
<1> QED
  BY <1>1, <1>2

\* The account holds through crashes, retries and restarts.
THEOREM SaveOnceInvariant == SaveSpec => []OnceInv
  BY InitOnce, OnceInductive, SaveIInv, SaveInvariant, PTL DEF SaveSpec

\* One request, at most one file, and one more for each failed reading of the
\* journal, for any number of jobs, names, contents, requests, crashes and
\* strangers in the folder: run_attachment_job and reconcile_completed_jobs
\* save no other copy of what was asked once.
THEOREM OneRequestOneFile == SaveSpec => []NoDuplicateSave
<1>1. OnceInv => NoDuplicateSave
  BY DEF OnceInv, Accounted, Budget, NoDuplicateSave
<1> QED
  BY <1>1, SaveOnceInvariant, PTL

-----------------------------------------------------------------------------
(***************************************************************************)
(* AttachmentSave implements SaveOnce.  What OneRequestOneFile leaves open *)
(* is that a request is done only with a file there.  It needs to be known *)
(* whose content is under a pinned name: the invariant says that           *)
(* undisturbed it is the job's own, because two rows never have one key    *)
(* and no content belongs to two keys.                                     *)
(***************************************************************************)

\* job_key is unique in the table.
KeysApart == \A i, j \in Jobs : rows[i].key \in Keys /\ rows[i].key = rows[j].key => i = j

\* What the worker has fetched and what a journal pins is a content of the
\* attachment; an id not handed out has no journal.
DataOK == w.pc \in Inside \cup {"open"} => w.data \in Served[rows[w.job].key]
PinOK(j) ==
    /\ j > lastId => journal[j].phase = "none"
    /\ rows[j].key \in Keys /\ journal[j].phase # "none" =>
          journal[j].hash \in Served[rows[j].key]

\* Undisturbed, a file that matches a journal is the job's own, and a commit
\* or a success means that the job has a file.
MatchIsOwn(j) ==
    /\ rows[j].key \in Keys /\ journal[j].phase # "none"
    /\ files[journal[j].path].content = journal[j].hash
    => files[journal[j].path].by = j
HasFile(j) ==
    \/ rows[j].status = "success"
    \/ rows[j].key \in Keys /\ journal[j].phase = "committed"
    => Own(j) # {}
MineOK(j) == ContentsApart /\ outside = 0 => MatchIsOwn(j) /\ HasFile(j)

PromiseInv == KeysApart /\ DataOK /\ \A j \in Jobs : PinOK(j) /\ MineOK(j)

-----------------------------------------------------------------------------
(* What a step may do.                                                     *)

\* A row keeps its key or loses it, except for a new row, whose key is new.
LEMMA KeyStep ==
    ASSUME IInv, [Next]_vars, NEW j \in Jobs
    PROVE  \/ rows'[j].key \in {rows[j].key, NoKey}
           \/ /\ j = lastId + 1 /\ rows'[j].key \in Keys /\ rows'[j].status = "pending"
              /\ \A i \in Jobs : rows[i].key # rows'[j].key
              /\ \A i \in Jobs \ {j} : rows'[i] = rows[i]
<1> USE QueueAssumption DEF QueueAssumption
<1>1. /\ rows \in [Jobs -> Row] /\ rows[j] \in Row
      /\ \A i \in Jobs : \A x : rows' = [rows EXCEPT ![i] = x] =>
            rows'[j] = IF i = j THEN x ELSE rows[j]
  BY DEF IInv, TypeOK
<1>2. /\ Claimed(rows[j]).key = rows[j].key /\ Succeeded(rows[j]).key = rows[j].key
      /\ MarkFailure(rows[j], seen).key = rows[j].key /\ FailJob(rows[j]).key = rows[j].key
      /\ DeferJob(rows[j]).key = rows[j].key /\ Recovered(rows[j]).key = rows[j].key
      /\ Stalled(rows[j]).key = rows[j].key /\ Requeued(rows[j]).key = rows[j].key
      /\ Retained(rows[j]).key \in {rows[j].key, NoKey}
  BY <1>1 DEF Claimed, Succeeded, MarkFailure, Attempted, FailJob, DeferJob, Recovered,
     Stalled, Requeued, Retained, Row, NoRow
<1>3. ASSUME NEW k \in Keys, Enqueue(k)
      PROVE  /\ j # lastId + 1 => rows'[j] = rows[j]
             /\ j = lastId + 1 => /\ rows'[j].key = k /\ rows'[j].status = "pending"
                                  /\ \A i \in Jobs : rows[i].key # rows'[j].key
                                  /\ \A i \in Jobs \ {j} : rows'[i] = rows[i]
  <2>1. FreshRow(k).key = k /\ FreshRow(k).status = "pending"
    BY DEF FreshRow, NoRow
  <2>2. lastId + 1 \in Jobs /\ rows' = [rows EXCEPT ![lastId + 1] = FreshRow(k)]
    BY <1>3 DEF Enqueue, IInv, TypeOK, Jobs
  <2>3. \A i \in Jobs : rows'[i] = IF i = lastId + 1 THEN FreshRow(k) ELSE rows[i]
    BY <1>1, <2>2
  <2> QED
    BY <1>3, <2>1, <2>2, <2>3 DEF Enqueue
<1>4. ASSUME NEW i \in Jobs, Claim(i) \/ Reconcile(i) \/ Retry(i) \/ Redownload(i)
      PROVE  rows'[j].key = rows[j].key
  <2>1. \/ rows' = [rows EXCEPT ![i] = Claimed(rows[i])]
        \/ rows' = [rows EXCEPT ![i] = Succeeded(rows[i])]
        \/ rows' = [rows EXCEPT ![i] = Requeued(rows[i])]
    BY <1>4 DEF Claim, Reconcile, Retry, Redownload
  <2> QED
    BY <1>1, <1>2, <2>1
<1>5. CASE Record
  <2>1. held \in Jobs
    BY <1>5 DEF Record, RecordSuccess, ReadAttempts, RecordFailure, RecordNotConfigured,
       RecordDeferral, OutcomeLost, Deciding, IInv, TypeOK, HeldOK
  <2> QED
    BY <1>1, <1>2, <1>5, <2>1 DEF Record, RecordSuccess, ReadAttempts, RecordFailure,
       RecordNotConfigured, RecordDeferral, OutcomeLost
<1>6. CASE Recover \/ Retain \/ ReleaseStalled
  BY <1>2, <1>6 DEF Recover, Retain, ReleaseStalled
<1>7. CASE \/ StartMonitor \/ Kill \/ StallKill \/ ReleaseLost \/ UNCHANGED vars
           \/ RedownloadOff \/ \E i \in Jobs : ReadSuccess(i)
  BY <1>7 DEF StartMonitor, Kill, StallKill, ReleaseLost, RedownloadOff, ReadSuccess, vars
<1>8. ASSUME NEW i \in Jobs, Ignore(i) \/ Unignore(i) \/ BecomeDue(i) \/ Age(i)
      PROVE  rows'[j].key = rows[j].key
  BY <1>1, <1>8 DEF Ignore, Unignore, SetIgnored, BecomeDue, Age, Row
<1> QED
  BY <1>3, <1>4, <1>5, <1>6, <1>7, <1>8 DEF Next, TrayUser

\* While nobody else touches the folder, a file appears only by the worker's
\* move, where nothing was, and none goes.
LEMMA FilesGrow ==
    ASSUME SaveInv, [SaveNext]_allVars, outside' = 0, NEW p \in Paths
    PROVE  /\ outside = 0
           /\ \/ files'[p] = files[p]
              \/ /\ Place /\ p = w.path /\ IsFree(p)
                 /\ files'[p] = [content |-> w.data, by |-> w.job]
<1>1. files \in [Paths -> File] /\ outside \in Nat /\ w.path \in Paths
  BY SaveAssumption DEF SaveInv, SaveTypeOK, Worker, SaveAssumption
<1>2. CASE Place
  BY <1>1, <1>2 DEF Place
<1>3. ASSUME NEW q \in Paths, Appears(q) \/ Disappears(q) PROVE FALSE
  BY <1>1, <1>3 DEF Appears, Disappears
<1>4. CASE WorkerStep /\ ~Place
  BY <1>4 DEF WorkerStep, SaveClaim, Fetch, FetchNotConfigured, FetchDeferred,
     OpenFresh, OpenUnread, PinFresh, OpenResumed, Resume, Check, PlaceTaken, Verify, MarkSuccess,
     MarkSuccessRefused, Tidy, StepFails, FailureRead, MarkFailed, SaveOutcomeLost, disk
<1>5. CASE \/ SaveStart \/ SaveRecover \/ SaveKill \/ TableOnly
           \/ \E k \in Keys : SaveEnqueue(k)
           \/ \E j \in Jobs : VisitFinished(j) \/ VisitSaved(j) \/ VisitSkipped(j)
           \/ \E j \in Jobs : SaveRedownload(j)
           \/ UNCHANGED allVars
  BY <1>5 DEF SaveStart, SaveRecover, SaveKill, TableOnly, SaveEnqueue, VisitFinished,
     VisitSaved, VisitSkipped, SaveRedownload, disk, saveVars, allVars
<1> QED
  BY <1>2, <1>3, <1>4, <1>5 DEF SaveNext

\* A journal goes, keeps what it pins, or is the worker's: then it pins what
\* was fetched under a name that is free.
JournalStep(j) ==
    \/ journal'[j].phase = "none"
    \/ /\ journal[j].phase # "none"
       /\ journal'[j].path = journal[j].path /\ journal'[j].hash = journal[j].hash
    \/ /\ j = w.job /\ w.pc \in Inside \cup {"open"} /\ UNCHANGED <<files, vars>>
       /\ IsFree(journal'[j].path) /\ journal'[j].hash = w.data

LEMMA JournalSteps ==
    ASSUME SaveInv, [SaveNext]_allVars, NEW j \in Jobs
    PROVE  JournalStep(j)
<1>1. /\ journal \in [Jobs -> Journal] /\ NoJournal.phase = "none"
      /\ \A i \in Jobs : \A e : journal' = [journal EXCEPT ![i] = e] =>
            journal'[j] = IF i = j THEN e ELSE journal[j]
      /\ w.pc \in Inside \cup {"open", "tidy"} => w.job \in Jobs
      /\ \A p, c : Pinned(p, c).path = p /\ Pinned(p, c).hash = c
  BY DEF SaveInv, SaveTypeOK, WorkerOK, NoJournal, Inside, Pinned
<1>2. CASE journal'[j] = journal[j]
  BY <1>2 DEF JournalStep
<1>3. ASSUME NEW p, IsFree(p), w.pc \in Inside \cup {"open"}, UNCHANGED <<files, vars>>,
             journal' = [journal EXCEPT ![w.job] = Pinned(p, w.data)]
      PROVE  JournalStep(j)
  BY <1>1, <1>2, <1>3 DEF JournalStep
<1>4. CASE OpenFresh \/ OpenUnread
  BY <1>3, <1>4 DEF OpenFresh, OpenUnread, PinFresh, FirstFree, At, disk
<1>5. ASSUME NEW start, NEW step, Relocate(start, step), UNCHANGED <<files, vars>>,
             w.pc \in Inside
      PROVE  JournalStep(j)
  BY <1>3, <1>5 DEF Relocate, FirstFree
<1>6. CASE Check
  BY <1>2, <1>5, <1>6 DEF Check, At, Inside, disk
<1>7. CASE PlaceTaken
  BY <1>2, <1>5, <1>7 DEF PlaceTaken, At, Inside, disk
<1>8. CASE Resume \/ Verify
  <2>1. UNCHANGED journal \/ Commit
    BY <1>8 DEF Resume, Verify
  <2>2. w.job \in Jobs /\ journal[w.job].phase # "none" /\ journal[w.job] \in Journal
    BY <1>8 DEF Resume, Verify, At, SaveInv, SaveTypeOK, WorkerOK, Inside
  <2> DEFINE e == [journal[w.job] EXCEPT !.phase = "committed"]
  <2>3. e.path = journal[w.job].path /\ e.hash = journal[w.job].hash
    BY <2>2 DEF Journal
  <2>4. Commit => journal' = [journal EXCEPT ![w.job] = e]
    BY DEF Commit
  <2> HIDE DEF e
  <2> QED
    BY <1>1, <1>2, <2>1, <2>2, <2>3, <2>4 DEF JournalStep
<1>9. CASE Tidy
  BY <1>1, <1>2, <1>9 DEF Tidy, At, JournalStep
<1>10. ASSUME NEW i \in Jobs, VisitFinished(i) \/ VisitSaved(i) \/ VisitSkipped(i)
       PROVE  JournalStep(j)
  <2>1. UNCHANGED journal \/ journal' = [journal EXCEPT ![i] = NoJournal]
    BY <1>10 DEF VisitFinished, VisitSaved, VisitSkipped
  <2> QED
    BY <1>1, <1>2, <2>1 DEF JournalStep
<1>11. CASE \/ \E i \in Jobs : SaveClaim(i)
            \/ Fetch \/ FetchNotConfigured \/ FetchDeferred \/ OpenResumed \/ Place
            \/ MarkSuccess \/ MarkSuccessRefused \/ StepFails \/ FailureRead \/ MarkFailed
            \/ SaveOutcomeLost
  <2>1. UNCHANGED journal
    BY <1>11 DEF SaveClaim, Fetch, FetchNotConfigured, FetchDeferred, OpenResumed, Place,
       MarkSuccess, MarkSuccessRefused, StepFails, FailureRead, MarkFailed, SaveOutcomeLost
  <2> QED
    BY <1>2, <2>1
<1>12. CASE \/ SaveStart \/ SaveRecover \/ SaveKill \/ TableOnly
            \/ \E k \in Keys : SaveEnqueue(k)
            \/ \E i \in Jobs : SaveRedownload(i)
            \/ \E p \in Paths : Appears(p) \/ Disappears(p)
            \/ UNCHANGED allVars
  <2>1. UNCHANGED journal
    BY <1>12 DEF SaveStart, SaveRecover, SaveKill, TableOnly, SaveEnqueue,
       SaveRedownload, Appears, Disappears, saveVars, allVars
  <2> QED
    BY <1>2, <2>1
<1> QED
  BY <1>4, <1>6, <1>7, <1>8, <1>9, <1>10, <1>11, <1>12 DEF SaveNext, WorkerStep

-----------------------------------------------------------------------------
(* The invariant.                                                          *)

LEMMA InitPromise == SaveInit => PromiseInv
<1> SUFFICES ASSUME SaveInit PROVE PromiseInv
  OBVIOUS
<1>1. /\ \A j \in Jobs : rows[j] = NoRow /\ journal[j] = NoJournal
      /\ NoRow.key \notin Keys /\ NoRow.status = "none"
      /\ NoJournal.phase = "none" /\ w.pc = "idle"
  BY QueueAssumption DEF SaveInit, Init, NoRow, NoJournal, Idle, QueueAssumption
<1> QED
  BY <1>1 DEF PromiseInv, KeysApart, DataOK, PinOK, MineOK, MatchIsOwn, HasFile, Inside

LEMMA KeysApartKeeps ==
    ASSUME IInv, [Next]_vars, KeysApart
    PROVE  KeysApart'
<1> SUFFICES ASSUME NEW i \in Jobs, NEW j \in Jobs, rows'[i].key \in Keys,
                    rows'[i].key = rows'[j].key
             PROVE  i = j
  BY DEF KeysApart
<1>1. NoKey \notin Keys
  BY QueueAssumption DEF QueueAssumption
<1>2. CASE rows'[i].key = rows[i].key /\ rows'[j].key = rows[j].key
  BY <1>2 DEF KeysApart
<1> QED
  BY <1>1, <1>2, KeyStep

\* A worker that holds a job held it before or has claimed a waiting one.
LEMMA HeldStep ==
    ASSUME [Next]_vars, held' # 0
    PROVE  held' = held \/ rows[held'].status = "pending"
  BY DEF Next, vars, Enqueue, Claim, NextUp, Zeros, Runnable, Record, RecordSuccess,
     ReadAttempts, LetsGo, RecordFailure, RecordNotConfigured, RecordDeferral,
     OutcomeLost, StartMonitor, Reconcile, Recover, Retain, Kill, StallKill,
     ReleaseStalled, ReleaseLost, TrayUser, Retry, ReadSuccess, Redownload,
     RedownloadOff, Ignore, Unignore, SetIgnored, BecomeDue, Age

\* The row of the job the worker is in keeps its key.
LEMMA WorkerKey ==
    ASSUME IInv, IInv', SaveInv', [SaveNext]_allVars, w'.pc \in Steps
    PROVE  /\ w'.job \in Jobs /\ rows[w'.job].status # "none"
           /\ rows'[w'.job].key \in Keys /\ rows'[w'.job].key = rows[w'.job].key
<1> DEFINE j == w'.job
<1>1. j \in Jobs /\ held' = j /\ held' # 0
  BY QueueAssumption DEF SaveInv, SaveTypeOK, WorkerOK, Steps, Jobs, QueueAssumption
<1>2. [Next]_vars /\ NoKey \notin Keys
  BY SaveStepIsQueueStep, QueueAssumption DEF QueueAssumption
<1> HIDE DEF j
<1>3. rows'[j].key \in Keys
  BY <1>1 DEF IInv, HeldOK, KeptRow, RowOK
<1>4. rows[j].status # "none"
  BY <1>1, <1>2, HeldStep DEF IInv, HeldOK, KeptRow
<1>5. j # lastId + 1
  BY <1>1, <1>4 DEF IInv, UnusedIds, TypeOK, Jobs
<1> QED
  BY <1>1, <1>2, <1>3, <1>4, <1>5, KeyStep DEF j

\* What the worker carries it has just fetched, or carried already.
LEMMA DataStep ==
    ASSUME SaveInv, [SaveNext]_allVars, w'.pc \in Inside \cup {"open"}
    PROVE  \/ /\ w.pc \in Inside \cup {"open"} /\ w'.job = w.job /\ w'.data = w.data
           \/ w'.data \in Served[rows[w'.job].key]
<1>1. w \in Worker /\ Idle.pc = "idle"
  BY DEF SaveInv, SaveTypeOK, Idle
<1>2. CASE Fetch
  <2>1. PICK c \in Served[rows[w.job].key] : w' = [w EXCEPT !.pc = "open", !.data = c]
    BY <1>2 DEF Fetch
  <2> QED
    BY <1>1, <2>1 DEF Worker
<1>3. CASE \/ OpenFresh \/ OpenUnread \/ OpenResumed \/ Resume \/ Check \/ Place \/ PlaceTaken
           \/ Verify \/ MarkSuccess \/ MarkSuccessRefused \/ StepFails
  <2>1. CASE OpenFresh \/ OpenUnread \/ OpenResumed
    BY <1>1, <2>1 DEF OpenFresh, OpenUnread, PinFresh, OpenResumed, At, Go, Worker, Inside
  <2>2. CASE Resume \/ Place \/ Verify
    BY <1>1, <2>2 DEF Resume, Place, Verify, At, Go, Worker, Inside
  <2>3. CASE MarkSuccess \/ MarkSuccessRefused \/ StepFails
    BY <1>1, <2>3 DEF MarkSuccess, MarkSuccessRefused, StepFails, Go, Worker, Inside
  <2>4. CASE Check \/ PlaceTaken
    <3>1. ASSUME NEW start, NEW step, Relocate(start, step)
          PROVE  w'.job = w.job /\ w'.data = w.data
      BY <1>1, <3>1 DEF Relocate, Worker
    <3>2. ASSUME NEW s, Go(s) PROVE w'.job = w.job /\ w'.data = w.data
      BY <1>1, <3>2 DEF Go, Worker
    <3> QED
      BY <2>4, <3>1, <3>2 DEF Check, PlaceTaken, At, Inside
  <2> QED
    BY <1>3, <2>1, <2>2, <2>3, <2>4
<1>4. CASE \/ FetchNotConfigured \/ FetchDeferred \/ Tidy \/ FailureRead
           \/ MarkFailed \/ SaveOutcomeLost \/ SaveKill
  BY <1>1, <1>4 DEF FetchNotConfigured, FetchDeferred, Tidy, FailureRead, MarkFailed,
     SaveOutcomeLost, SaveKill, At, Inside
<1>5. ASSUME NEW i \in Jobs, SaveClaim(i) PROVE FALSE
  <2>1. w'.pc = "fetch"
    BY <1>5 DEF SaveClaim, Idle
  <2> QED
    BY <2>1 DEF Inside
<1>6. CASE \/ SaveStart \/ SaveRecover \/ TableOnly
           \/ \E k \in Keys : SaveEnqueue(k)
           \/ \E i \in Jobs : VisitFinished(i) \/ VisitSaved(i) \/ VisitSkipped(i)
           \/ \E i \in Jobs : SaveRedownload(i)
           \/ \E p \in Paths : Appears(p) \/ Disappears(p)
           \/ UNCHANGED allVars
  <2>1. UNCHANGED w
    BY <1>6 DEF SaveStart, SaveRecover, TableOnly, SaveEnqueue, VisitFinished,
       VisitSaved, VisitSkipped, SaveRedownload, Appears, Disappears, saveVars, allVars
  <2> QED
    BY <2>1
<1> QED
  BY <1>2, <1>3, <1>4, <1>5, <1>6 DEF SaveNext, WorkerStep

LEMMA DataKeeps ==
    ASSUME IInv, SaveInv, IInv', SaveInv', [SaveNext]_allVars, DataOK
    PROVE  DataOK'
<1> SUFFICES ASSUME w'.pc \in Inside \cup {"open"}
             PROVE  w'.data \in Served[rows'[w'.job].key]
  BY DEF DataOK
<1>1. w'.pc \in Steps
  BY DEF Inside, Steps
<1> QED
  BY <1>1, WorkerKey, DataStep DEF DataOK

\* A key that a row has now it had before the step, unless the row is new.
LEMMA OldKey ==
    ASSUME IInv, [SaveNext]_allVars, NEW j \in Jobs, rows'[j].key \in Keys
    PROVE  \/ rows[j].key = rows'[j].key
           \/ j > lastId /\ rows'[j].status = "pending"
<1>1. [Next]_vars /\ NoKey \notin Keys /\ lastId \in Int
  BY SaveStepIsQueueStep, QueueAssumption DEF QueueAssumption, IInv, TypeOK
<1> QED
  BY <1>1, KeyStep

LEMMA PinKeeps ==
    ASSUME IInv, SaveInv, [SaveNext]_allVars, DataOK, NEW j \in Jobs, PinOK(j)
    PROVE  PinOK(j)'
<1>1. JournalStep(j)
  BY JournalSteps
<1>2. lastId' >= lastId /\ lastId' \in Int /\ lastId \in Int /\ j \in Int
  <2>1. [Next]_vars /\ lastId \in Int
    BY SaveStepIsQueueStep DEF IInv, TypeOK
  <2> QED
    BY <2>1 DEF Next, vars, Jobs, Enqueue, Claim, Record, RecordSuccess,
     ReadAttempts, TrayUser, ReadSuccess, RedownloadOff, RecordFailure, RecordNotConfigured, RecordDeferral, OutcomeLost, StartMonitor,
     Reconcile, Recover, Retain, Kill, StallKill, ReleaseStalled, ReleaseLost, Retry,
     Redownload, Ignore, Unignore, SetIgnored, BecomeDue, Age
<1>3. j = w.job /\ w.pc \in Inside \cup {"open"} => j <= lastId
  <2>1. j = w.job /\ w.pc \in Inside \cup {"open"} => held = j /\ held # 0
    BY DEF SaveInv, SaveTypeOK, Inside, Jobs
  <2> QED
    BY <1>2, <2>1 DEF IInv, HeldOK, KeptRow, UnusedIds
<1>4. j > lastId' => journal'[j].phase = "none"
  <2>1. j > lastId' => j > lastId
    BY <1>2
  <2> QED
    BY <1>1, <1>2, <1>3, <2>1 DEF JournalStep, PinOK
<1>5. ASSUME rows'[j].key \in Keys, journal'[j].phase # "none"
      PROVE  journal'[j].hash \in Served[rows'[j].key]
  <2>1. CASE /\ j = w.job /\ w.pc \in Inside \cup {"open"} /\ UNCHANGED vars
             /\ journal'[j].hash = w.data
    BY <2>1 DEF DataOK, vars
  <2>2. CASE journal[j].phase # "none" /\ journal'[j].hash = journal[j].hash
    BY <1>2, <1>5, <2>2, OldKey DEF PinOK
  <2> QED
    BY <1>1, <1>5, <2>1, <2>2 DEF JournalStep
<1> QED
  BY <1>4, <1>5 DEF PinOK

\* Another job's file is never taken for one's own: the worker's move puts
\* down a content that no other journal pins.
LEMMA MatchKeeps ==
    ASSUME IInv, SaveInv, [SaveNext]_allVars, KeysApart, DataOK, NEW j \in Jobs,
           PinOK(j), MatchIsOwn(j), ContentsApart, outside' = 0
    PROVE  MatchIsOwn(j)'
<1> SUFFICES ASSUME rows'[j].key \in Keys, journal'[j].phase # "none",
                    files'[journal'[j].path].content = journal'[j].hash
             PROVE  files'[journal'[j].path].by = j
  BY DEF MatchIsOwn
<1>1. JournalStep(j)
  BY JournalSteps
<1>2. CASE /\ j = w.job /\ w.pc \in Inside \cup {"open"} /\ UNCHANGED files
           /\ IsFree(journal'[j].path) /\ journal'[j].hash = w.data
  <2>1. w.data \in Contents
    BY <1>2 DEF SaveInv, WorkerOK
  <2> QED
    BY <1>2, <2>1, SaveAssumption DEF IsFree, SaveAssumption
<1>3. CASE /\ journal[j].phase # "none"
           /\ journal'[j].path = journal[j].path /\ journal'[j].hash = journal[j].hash
  <2> DEFINE p == journal[j].path
  <2>1. p \in Paths
    BY DEF SaveInv, SaveTypeOK, Journal
  <2>2. rows[j].key = rows'[j].key
    BY <1>3, OldKey DEF PinOK
  <2>3. CASE files'[p] = files[p]
    BY <1>3, <2>2, <2>3 DEF MatchIsOwn
  <2>4. CASE /\ Place /\ p = w.path /\ files'[p] = [content |-> w.data, by |-> w.job]
    <3>1. w.pc = "place" /\ w.job \in Jobs /\ held = w.job /\ held # 0
      BY <2>4 DEF Place, At, SaveInv, SaveTypeOK, WorkerOK, Inside, Jobs
    <3>2. rows[w.job].key \in Keys
      BY <3>1 DEF IInv, HeldOK, KeptRow, RowOK
    <3>3. w.data \in Served[rows[w.job].key]
      BY <3>1 DEF DataOK, Inside
    <3>4. w.data \in Served[rows[j].key]
      BY <1>3, <2>2, <2>4 DEF PinOK
    <3>5. rows[w.job].key = rows[j].key
      BY <2>2, <3>2, <3>3, <3>4 DEF ContentsApart
    <3>6. w.job = j
      BY <3>1, <3>2, <3>5 DEF KeysApart
    <3> QED
      BY <1>3, <2>4, <3>6
  <2> QED
    BY <2>1, <2>3, <2>4, FilesGrow
<1> QED
  BY <1>1, <1>2, <1>3 DEF JournalStep

\* Undisturbed, what a job has it keeps, and it comes to a commit or a success
\* only with a file that matches, hence its own (Backed).
LEMMA HasKeeps ==
    ASSUME IInv, SaveInv, IInv', SaveInv', OwnOK, [SaveNext]_allVars, NEW j \in Jobs,
           PinOK(j), MatchIsOwn(j), HasFile(j), MatchIsOwn(j)', outside' = 0
    PROVE  HasFile(j)'
<1>1. \A p \in Paths : files[p].by = j => files'[p] = files[p]
  <2>1. ASSUME NEW p \in Paths, files[p].by = j PROVE ~IsFree(p)
    BY <2>1 DEF OwnOK, Jobs
  <2> QED
    BY <2>1, FilesGrow
<1>2. Own(j) \subseteq Own(j)'
  BY <1>1 DEF Own
<1>3. Backed(j)
  <2>1. CASE SaveNext
    BY <2>1, StepIsBacked
  <2>2. CASE UNCHANGED allVars
    BY <2>2 DEF Backed, allVars, vars, saveVars
  <2> QED
    BY <2>1, <2>2
<1>4. /\ journal[j].path \in Paths /\ journal'[j].path \in Paths
      /\ journal[j].phase = "none" => journal[j].hash = NoFile
  BY DEF SaveInv, SaveTypeOK, JournalOK, Journal, NoJournal
<1>5. CASE rows'[j].status = "success"
  <2>1. CASE rows[j].status = "success"
    BY <1>2, <2>1 DEF HasFile
  <2>2. CASE rows[j].status # "success"
    <3>1. rows'[j].key \in Keys
      BY <1>5 DEF IInv, RowOK
    <3>2. rows[j].key \in Keys
      BY <1>5, <3>1, OldKey
    <3>3. CASE journal[j].phase = "committed"
      BY <1>2, <3>2, <3>3 DEF HasFile
    <3>4. CASE Matches(journal[j].path, journal[j].hash)
      <4>1. files[journal[j].path].by = j
        BY <1>4, <3>2, <3>4 DEF MatchIsOwn, Matches
      <4> QED
        BY <1>2, <1>4, <4>1 DEF Own, HasFile
    <3> QED
      BY <1>3, <1>5, <2>2, <3>3, <3>4 DEF Backed
  <2> QED
    BY <2>1, <2>2
<1>6. CASE rows'[j].key \in Keys /\ journal'[j].phase = "committed"
  <2>1. CASE journal[j].phase = "committed"
    <3>1. rows[j].key \in Keys
      BY <1>6, <2>1, OldKey DEF PinOK
    <3> QED
      BY <1>2, <2>1, <3>1 DEF HasFile
  <2>2. CASE journal[j].phase # "committed"
    <3>1. Matches(journal'[j].path, journal'[j].hash)
      BY <1>3, <1>6, <2>2 DEF Backed
    <3>2. files'[journal'[j].path] = files[journal'[j].path]
      BY <1>4, <3>1, FilesGrow DEF Matches, IsFree
    <3>3. files'[journal'[j].path].by = j
      BY <1>6, <3>1, <3>2 DEF MatchIsOwn, Matches
    <3> QED
      BY <1>4, <3>3 DEF Own, HasFile
  <2> QED
    BY <2>1, <2>2
<1> QED
  BY <1>5, <1>6 DEF HasFile

LEMMA PromiseInductive ==
    IInv /\ IInv' /\ SaveInv /\ SaveInv' /\ OnceInv /\ PromiseInv /\ [SaveNext]_allVars
    => PromiseInv'
<1> SUFFICES ASSUME IInv, IInv', SaveInv, SaveInv', OnceInv, PromiseInv,
                    [SaveNext]_allVars
             PROVE  PromiseInv'
  OBVIOUS
<1>1. KeysApart'
  BY SaveStepIsQueueStep, KeysApartKeeps DEF PromiseInv
<1>2. DataOK'
  BY DataKeeps DEF PromiseInv
<1>3. ASSUME NEW j \in Jobs PROVE PinOK(j)'
  BY PinKeeps DEF PromiseInv
<1>4. ASSUME NEW j \in Jobs PROVE MineOK(j)'
  <2> SUFFICES ASSUME ContentsApart, outside' = 0 PROVE MatchIsOwn(j)' /\ HasFile(j)'
    BY DEF MineOK, ContentsApart
  <2>1. outside = 0
    <3>1. 0 \in Paths
      BY SaveAssumption DEF SaveAssumption, Paths
    <3> QED
      BY <3>1, FilesGrow
  <2>2. MatchIsOwn(j) /\ HasFile(j) /\ PinOK(j)
    BY <2>1 DEF PromiseInv, MineOK
  <2>3. MatchIsOwn(j)'
    BY <2>2, MatchKeeps DEF PromiseInv
  <2> QED
    BY <2>2, <2>3, HasKeeps DEF OnceInv
<1> QED
  BY <1>1, <1>2, <1>3, <1>4 DEF PromiseInv

\* Whose file is where is known through crashes, retries and restarts.
THEOREM PromiseInvariant == SaveSpec => []PromiseInv
<1>1. SaveSpec => [](IInv /\ SaveInv /\ OnceInv)
  BY SaveIInv, SaveInvariant, SaveOnceInvariant, PTL
<1> QED
  BY <1>1, InitPromise, PromiseInductive, PTL DEF SaveSpec

\* No job takes another one's file for its own: in a folder of its own, a
\* first download that succeeded has put its file there, exactly one if its
\* journal was always readable, unless two attachments have one content
\* (run_attachment_job, _reconcile_journal, _load_json).
THEOREM SuccessHasItsFile == SaveSpec => [](ContentsApart => SavedOnSuccess)
<1>1. OnceInv /\ PromiseInv => (ContentsApart => SavedOnSuccess)
  BY DEF SavedOnSuccess, PromiseInv, MineOK, HasFile, OnceInv, Accounted, Budget
<1> QED
  BY <1>1, SaveOnceInvariant, PromiseInvariant, PTL

-----------------------------------------------------------------------------
(* The refinement.                                                         *)

\* The requests that are not done, as SaveOnce sees them.
Requested == {j \in Jobs : Unfinished(j)}
Names     == {p \in Paths : ~IsFree(p)}
Files     == [j \in Jobs |-> Own(j)]
Disturbed == outside > 0 \/ ~ContentsApart

\* Steps of the table that neither start nor finish a request.
LEMMA StaysOpen ==
    ASSUME IInv, NEW j \in Jobs,
           \/ \E i \in Jobs : Claim(i)
           \/ ReadAttempts \/ RecordFailure \/ RecordNotConfigured \/ RecordDeferral \/ OutcomeLost
           \/ StartMonitor \/ Recover \/ Kill \/ StallKill
           \/ TableOnly \/ UNCHANGED rows
    PROVE  Unfinished(j)' <=> Unfinished(j)
<1> USE QueueAssumption DEF QueueAssumption
<1>1. /\ rows \in [Jobs -> Row] /\ rows[j] \in Row
      /\ \A i \in Jobs : \A x : rows' = [rows EXCEPT ![i] = x] =>
            rows'[j] = IF i = j THEN x ELSE rows[j]
  BY DEF IInv, TypeOK
<1>2. Unfinished(j)' => Unfinished(j)
  BY NotReopened DEF Record
<1>3. ASSUME Unfinished(j) PROVE Unfinished(j)'
  <2>1. ASSUME NEW i \in Jobs, Claim(i) \/ Retry(i) PROVE Unfinished(j)'
    <3>1. Claimed(rows[j]).status = "processing" /\ Requeued(rows[j]).status = "pending"
      BY <1>1 DEF Claimed, Requeued, Row
    <3>2. \/ rows' = [rows EXCEPT ![i] = Claimed(rows[i])]
          \/ rows' = [rows EXCEPT ![i] = Requeued(rows[i])]
      BY <2>1 DEF Claim, Retry
    <3> QED
      BY <1>1, <1>3, <3>1, <3>2 DEF Unfinished
  <2>2. CASE ReadAttempts \/ RecordFailure \/ RecordNotConfigured \/ RecordDeferral \/ OutcomeLost
    <3>1. held \in Jobs
      BY <2>2 DEF IInv, TypeOK, HeldOK, ReadAttempts, RecordFailure, RecordNotConfigured,
         RecordDeferral, OutcomeLost, Deciding
    <3>2. /\ MarkFailure(rows[j], seen).status \in {"pending", "processing", "failed"}
          /\ FailJob(rows[j]).status \in {"pending", "processing", "failed"}
          /\ DeferJob(rows[j]).status \in {"pending", "processing", "failed"}
      BY <1>1, <1>3 DEF Unfinished, MarkFailure, Attempted, FailJob, DeferJob, Row
    <3> QED
      BY <1>1, <1>3, <2>2, <3>1, <3>2 DEF Unfinished, ReadAttempts, RecordFailure,
         RecordNotConfigured, RecordDeferral, OutcomeLost
  <2>3. CASE Recover \/ Retain \/ ReleaseStalled
    <3>1. /\ Recovered(rows[j]).status \in {"pending", "processing", "failed"}
          /\ Retained(rows[j]).status \in {"pending", "processing", "failed"}
          /\ Stalled(rows[j]).status \in {"pending", "processing", "failed"}
      BY <1>1, <1>3 DEF Unfinished, Recovered, Retained, Stalled, Attempted, Row
    <3> QED
      BY <2>3, <3>1 DEF Unfinished, Recover, Retain, ReleaseStalled
  <2>4. CASE \/ StartMonitor \/ Kill \/ StallKill \/ ReleaseLost \/ UNCHANGED rows
             \/ RedownloadOff \/ \E i \in Jobs : ReadSuccess(i)
    BY <1>3, <2>4 DEF Unfinished, StartMonitor, Kill, StallKill, ReleaseLost,
       RedownloadOff, ReadSuccess
  <2>5. ASSUME NEW i \in Jobs, Ignore(i) \/ Unignore(i) \/ BecomeDue(i) \/ Age(i)
        PROVE  Unfinished(j)'
    BY <1>1, <1>3, <2>5 DEF Unfinished, Ignore, Unignore, SetIgnored, BecomeDue, Age, Row
  <2> QED
    BY <2>1, <2>2, <2>3, <2>4, <2>5 DEF TableOnly
<1> QED
  BY <1>2, <1>3

LEMMA Stutters ==
    ASSUME UNCHANGED <<counts, files, outside>>, \A j \in Jobs : Unfinished(j)' <=> Unfinished(j)
    PROVE  UNCHANGED Once!onceVars
<1>1. Requested' = Requested
  BY DEF Requested
<1>2. Names' = Names /\ Files' = Files
  BY DEF Names, Files, IsFree, Own
<1>3. Disturbed' = Disturbed
  BY DEF Disturbed, ContentsApart
<1> QED
  BY <1>1, <1>2, <1>3 DEF Once!onceVars, Requested, Names, Files, Disturbed

LEMMA SameCount == ASSUME NEW S PROVE Once!Cardinality(S) = Cardinality(S)
  BY DEF Once!Cardinality, Cardinality

\* The worker's move is the abstract save: what was owed is delivered.
LEMMA PlaceSaves ==
    ASSUME IInv, SaveInv, OnceInv, Place
    PROVE  w.job \in Jobs /\ w.path \in Paths /\ Once!Save(w.job, w.path)
<1>1. /\ w.pc = "place" /\ w.job \in Jobs /\ w.path \in Paths /\ IsFree(w.path)
      /\ held = w.job /\ held # 0 /\ files[w.path].by # w.job
      /\ journal[w.job].phase # "none" /\ journal[w.job].path = w.path
      /\ files \in [Paths -> File] /\ w.data \in Contents
      /\ UNCHANGED <<rows, counts, outside>>
  BY DEF Place, At, SaveInv, SaveTypeOK, WorkerOK, Worker, Inside, Jobs, OnceInv, OwnOK, vars
<1>2. Unfinished(w.job)
  BY <1>1 DEF IInv, HeldOK, KeptRow, Unfinished
<1>3. Own(w.job) \ Pin(w.job) = Own(w.job)
  BY <1>1 DEF Own, Pin
<1>4. Cardinality(Own(w.job)) < Budget(w.job)
  BY <1>1, <1>2, <1>3 DEF OnceInv, Accounted
<1>5. \A p \in Paths : files'[p] = IF p = w.path
                                   THEN [content |-> w.data, by |-> w.job] ELSE files[p]
  BY <1>1 DEF Place
<1>6. w.data # NoFile
  BY <1>1, SaveAssumption DEF SaveAssumption
<1>7. Names' = Names \cup {w.path} /\ w.path \notin Names
  BY <1>1, <1>5, <1>6 DEF Names, IsFree
<1>8. Files' = [Files EXCEPT ![w.job] = @ \cup {w.path}]
  <2>1. ASSUME NEW j \in Jobs
        PROVE  Own(j)' = IF j = w.job THEN Own(j) \cup {w.path} ELSE Own(j)
    <3>1. files[w.path].by # j \/ j = 0
      BY <1>1 DEF OnceInv, OwnOK
    <3> QED
      BY <1>1, <1>5, <3>1 DEF Own, Jobs
  <2> QED
    BY <2>1 DEF Files
<1>9. Requested' = Requested /\ Disturbed' = Disturbed /\ w.job \in Requested
  BY <1>1, <1>2 DEF Requested, Unfinished, Disturbed, ContentsApart
<1>10. Once!Cardinality(Files[w.job]) < asked[w.job] + misread[w.job]
  BY <1>1, <1>4, SameCount DEF Files, Budget
<1> QED
  BY <1>1, <1>7, <1>8, <1>9, <1>10 DEF Once!Save, Requested, Names, Files, Disturbed

\* A success finishes the request of its job and no other's.
LEMMA SuccessFinishes ==
    ASSUME IInv, NEW j \in Jobs, Unfinished(j), rows' = [rows EXCEPT ![j] = Succeeded(@)],
           Own(j) # {} \/ Disturbed, UNCHANGED <<counts, files, outside>>
    PROVE  Once!Done(j)
<1>1. rows \in [Jobs -> Row] /\ rows[j] \in Row
  BY DEF IInv, TypeOK
<1>2. rows'[j].status = "success" /\ \A i \in Jobs \ {j} : rows'[i] = rows[i]
  BY <1>1 DEF Succeeded, Row
<1>3. Requested' = Requested \ {j} /\ j \in Requested
  BY <1>2 DEF Requested, Unfinished
<1>4. Names' = Names /\ Files' = Files /\ Disturbed' = Disturbed
  BY DEF Names, Files, IsFree, Own, Disturbed, ContentsApart
<1>5. Files[j] # {} \/ Disturbed
  BY DEF Files
<1> QED
  BY <1>3, <1>4, <1>5 DEF Once!Done, Requested, Names, Files, Disturbed

\* A new row, or one that the user downloads again, is a new request.
LEMMA RequestAsks ==
    ASSUME IInv, NEW j \in Jobs, ~Unfinished(j), NEW r, rows' = [rows EXCEPT ![j] = r],
           r.status = "pending", asked' = [asked EXCEPT ![j] = @ + 1],
           UNCHANGED <<files, outside, misread>>
    PROVE  Once!Request(j)
<1>1. rows'[j].status = "pending" /\ \A i \in Jobs \ {j} : rows'[i] = rows[i]
  BY DEF IInv, TypeOK
<1>2. Requested' = Requested \cup {j} /\ j \notin Requested
  BY <1>1 DEF Requested, Unfinished
<1>3. Names' = Names /\ Files' = Files /\ Disturbed' = Disturbed
  BY DEF Names, Files, IsFree, Own, Disturbed, ContentsApart
<1> QED
  BY <1>2, <1>3 DEF Once!Request, Requested, Names, Files, Disturbed

LEMMA OthersActs ==
    ASSUME SaveInv, OnceInv, NEW p \in Paths, Appears(p) \/ Disappears(p)
    PROVE  Once!OthersPut(p) \/ Once!OthersTake(p)
<1>1. /\ files \in [Paths -> File] /\ outside \in Nat /\ outside' = outside + 1
      /\ UNCHANGED <<rows, counts>>
  BY SaveAssumption DEF SaveInv, SaveTypeOK, Appears, Disappears, vars, SaveAssumption
<1>2. Requested' = Requested /\ Disturbed'
  BY <1>1 DEF Requested, Unfinished, Disturbed
<1>3. CASE Appears(p)
  <2>1. PICK c \in Outside : files' = [files EXCEPT ![p] = [content |-> c, by |-> 0]]
    BY <1>3 DEF Appears
  <2>2. c # NoFile /\ IsFree(p) /\ files[p].by = 0
    BY <1>3, SaveAssumption DEF Appears, SaveAssumption, OnceInv, OwnOK
  <2>3. Names' = Names \cup {p} /\ p \notin Names
    BY <1>1, <2>1, <2>2 DEF Names, IsFree
  <2>4. Files' = Files
    <3>1. \A j \in Jobs : Own(j)' = Own(j)
      BY <1>1, <2>1, <2>2 DEF Own, Jobs
    <3> QED
      BY <3>1 DEF Files
  <2> QED
    BY <1>1, <1>2, <2>3, <2>4 DEF Once!OthersPut, Requested, Names, Files, Disturbed
<1>4. CASE Disappears(p)
  <2>1. files' = [files EXCEPT ![p] = Free] /\ ~IsFree(p)
    BY <1>4 DEF Disappears
  <2>2. Names' = Names \ {p} /\ p \in Names
    BY <1>1, <2>1 DEF Names, IsFree, Free
  <2>3. Files' = [j \in Jobs |-> Files[j] \ {p}]
    <3>1. \A j \in Jobs : Own(j)' = Own(j) \ {p}
      BY <1>1, <2>1 DEF Own, Jobs, Free
    <3> QED
      BY <3>1 DEF Files
  <2> QED
    BY <1>1, <1>2, <2>2, <2>3 DEF Once!OthersTake, Requested, Names, Files, Disturbed
<1> QED
  BY <1>3, <1>4

\* A journal that cannot be read is a lapse of the record.
LEMMA UnreadLapses ==
    ASSUME IInv, SaveInv, OpenUnread
    PROVE  w.job \in Jobs /\ Once!Lapse(w.job)
<1>1. /\ w.pc = "open" /\ w.job \in Jobs /\ held = w.job /\ held # 0
      /\ misread' = [misread EXCEPT ![w.job] = @ + 1]
      /\ UNCHANGED <<rows, files, outside, asked>>
  BY DEF OpenUnread, At, SaveInv, SaveTypeOK, WorkerOK, Inside, Jobs, disk, vars
<1>2. Unfinished(w.job)
  BY <1>1 DEF IInv, HeldOK, KeptRow, Unfinished
<1>3. Requested' = Requested /\ w.job \in Requested
  BY <1>1, <1>2 DEF Requested, Unfinished
<1>4. Names' = Names /\ Files' = Files /\ Disturbed' = Disturbed
  BY <1>1 DEF Names, Files, IsFree, Own, Disturbed, ContentsApart
<1> QED
  BY <1>1, <1>3, <1>4 DEF Once!Lapse, Requested, Names, Files, Disturbed

\* What the worker records as a success is the job's own file.
LEMMA RecordFinishes ==
    ASSUME IInv, SaveInv, PromiseInv, MarkSuccess
    PROVE  w.job \in Jobs /\ Once!Done(w.job)
<1>1. /\ w.pc = "record" /\ w.job \in Jobs /\ held = w.job /\ held # 0
      /\ journal[w.job].phase = "committed" /\ UNCHANGED <<counts, files, outside>>
  BY DEF MarkSuccess, At, SaveInv, SaveTypeOK, WorkerOK, Inside, Jobs, disk
<1>2. Unfinished(w.job) /\ rows[w.job].key \in Keys
  BY <1>1 DEF IInv, HeldOK, KeptRow, RowOK, Unfinished
<1>3. outside \in Nat
  BY SaveAssumption DEF SaveInv, SaveTypeOK, SaveAssumption
<1>4. Own(w.job) # {} \/ Disturbed
  BY <1>1, <1>2, <1>3 DEF PromiseInv, MineOK, HasFile, Disturbed
<1>5. rows' = [rows EXCEPT ![w.job] = Succeeded(@)]
  BY <1>1 DEF MarkSuccess, RecordSuccess
<1> QED
  BY <1>1, <1>2, <1>4, <1>5, SuccessFinishes

LEMMA VisitFinishes ==
    ASSUME IInv, SaveInv, PromiseInv, NEW j \in Jobs, VisitSaved(j)
    PROVE  Once!Done(j)
<1>1. /\ Unfinished(j) /\ rows' = [rows EXCEPT ![j] = Succeeded(@)]
      /\ Matches(journal[j].path, journal[j].hash) /\ UNCHANGED <<counts, files, outside>>
  BY DEF VisitSaved, Reconcile, CanSucceed, Active, Unfinished, disk
<1>2. rows[j].key \in Keys /\ journal[j].phase # "none" /\ journal[j].path \in Paths
  BY <1>1 DEF IInv, RowOK, Unfinished, SaveInv, SaveTypeOK, JournalOK, Journal, NoJournal, Matches
<1>3. outside \in Nat
  BY SaveAssumption DEF SaveInv, SaveTypeOK, SaveAssumption
<1>4. Own(j) # {} \/ Disturbed
  <2>1. CASE ContentsApart /\ outside = 0
    <3>1. files[journal[j].path].by = j
      BY <1>1, <1>2, <2>1 DEF PromiseInv, MineOK, MatchIsOwn, Matches
    <3> QED
      BY <1>2, <3>1 DEF Own
  <2> QED
    BY <1>3, <2>1 DEF Disturbed
<1> QED
  BY <1>1, <1>4, SuccessFinishes

LEMMA SaveStepIsOnceStep ==
    ASSUME IInv, SaveInv, OnceInv, PromiseInv, [SaveNext]_allVars
    PROVE  [Once!OnceNext]_(Once!onceVars)
<1>1. CASE Place
  BY <1>1, PlaceSaves DEF Once!OnceNext
<1>2. CASE MarkSuccess
  BY <1>2, RecordFinishes DEF Once!OnceNext
<1>3. ASSUME NEW j \in Jobs, VisitSaved(j) PROVE Once!OnceNext
  BY <1>3, VisitFinishes DEF Once!OnceNext
<1>4. ASSUME NEW k \in Keys, SaveEnqueue(k) PROVE Once!OnceNext
  <2> DEFINE j == lastId + 1
  <2>1. /\ j \in Jobs /\ lastId' = j /\ rows' = [rows EXCEPT ![j] = FreshRow(k)]
        /\ UNCHANGED <<files, outside, misread>> /\ FreshRow(k).status = "pending"
    <3>1. FreshRow(k).status = "pending"
      BY DEF FreshRow, NoRow
    <3> QED
      BY <1>4, <3>1, QueueAssumption DEF SaveEnqueue, Enqueue, IInv, TypeOK, Jobs, disk,
         QueueAssumption
  <2>2. ~Unfinished(j)
    BY <2>1 DEF IInv, UnusedIds, TypeOK, Unfinished, Jobs
  <2>3. asked' = [asked EXCEPT ![j] = @ + 1]
    BY <1>4, <2>1 DEF SaveEnqueue
  <2> HIDE DEF j
  <2>4. Once!Request(j)
    BY <2>1, <2>2, <2>3, RequestAsks
  <2> QED
    BY <2>1, <2>4 DEF Once!OnceNext
<1>5. ASSUME NEW j \in Jobs, SaveRedownload(j) PROVE Once!OnceNext
  <2>1. /\ ~Unfinished(j) /\ rows' = [rows EXCEPT ![j] = Requeued(rows[j])]
        /\ asked' = [asked EXCEPT ![j] = @ + 1] /\ UNCHANGED <<files, outside, misread>>
    BY <1>5 DEF SaveRedownload, Redownload, Unfinished, disk
  <2>2. Requeued(rows[j]).status = "pending"
    BY DEF Requeued, IInv, TypeOK, Row
  <2>3. Once!Request(j)
    BY <2>1, <2>2, RequestAsks
  <2> QED
    BY <2>3 DEF Once!OnceNext
<1>6. ASSUME NEW p \in Paths, Appears(p) \/ Disappears(p) PROVE Once!OnceNext
  BY <1>6, OthersActs DEF Once!OnceNext
<1>9. CASE OpenUnread
  BY <1>9, UnreadLapses DEF Once!OnceNext
<1>7. CASE WorkerStep /\ ~Place /\ ~MarkSuccess /\ ~OpenUnread
  <2>1. /\ UNCHANGED <<counts, files, outside>>
        /\ \/ \E i \in Jobs : Claim(i)
           \/ ReadAttempts \/ RecordFailure \/ RecordNotConfigured \/ RecordDeferral \/ OutcomeLost
           \/ UNCHANGED rows
    BY <1>7 DEF WorkerStep, SaveClaim, Fetch, FetchNotConfigured, FetchDeferred,
       OpenFresh, OpenUnread, PinFresh, OpenResumed, Resume, Check, PlaceTaken, Verify, MarkSuccessRefused,
       Tidy, StepFails, FailureRead, MarkFailed, SaveOutcomeLost, disk, vars
  <2> QED
    BY <2>1, StaysOpen, Stutters
<1>8. CASE \/ SaveStart \/ SaveRecover \/ SaveKill \/ TableOnly
           \/ \E j \in Jobs : VisitFinished(j) \/ VisitSkipped(j)
           \/ UNCHANGED allVars
  <2>1. /\ UNCHANGED <<counts, files, outside>>
        /\ StartMonitor \/ Recover \/ Kill \/ StallKill \/ TableOnly \/ UNCHANGED rows
    BY <1>8 DEF SaveStart, SaveRecover, SaveKill, TableOnly, VisitFinished, VisitSkipped,
       disk, vars, saveVars, allVars
  <2> QED
    BY <2>1, StaysOpen, Stutters
<1> QED
  BY <1>1, <1>2, <1>3, <1>4, <1>5, <1>6, <1>7, <1>8, <1>9 DEF SaveNext

LEMMA InitIsOnceInit == SaveInit => Once!OnceInit
<1> SUFFICES ASSUME SaveInit PROVE Once!OnceInit
  OBVIOUS
<1>1. Requested = {}
  BY DEF SaveInit, Init, Requested, Unfinished, NoRow
<1>2. Names = {}
  BY DEF SaveInit, Names, IsFree, Free
<1>3. Files = [j \in Jobs |-> {}]
  BY DEF SaveInit, Files, Own, Free, Jobs
<1>4. Disturbed \in BOOLEAN
  BY DEF Disturbed
<1> QED
  BY <1>1, <1>2, <1>3, <1>4 DEF SaveInit, Once!OnceInit, Requested, Names, Files, Disturbed

\* The worker with its journals, its recovery and its retries implements the
\* abstract save: whatever is killed when, each request puts at most one file
\* in the folder, and one more for each failed reading of its journal, replaces
\* none, and is done only with a file there.
THEOREM SaveImplementsOnce == SaveSpec => ImplementsSaveOnce
<1>1. SaveSpec => [](IInv /\ SaveInv /\ OnceInv /\ PromiseInv)
  BY SaveIInv, SaveInvariant, SaveOnceInvariant, PromiseInvariant, PTL
<1>2. SaveSpec => [][Once!OnceNext]_(Once!onceVars)
  BY <1>1, SaveStepIsOnceStep, PTL DEF SaveSpec
<1> QED
  BY <1>2, InitIsOnceInit, PTL DEF SaveSpec, ImplementsSaveOnce, Once!OnceSpec
=============================================================================
