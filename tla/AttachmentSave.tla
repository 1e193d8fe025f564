--------------------------- MODULE AttachmentSave ---------------------------
(***************************************************************************)
(* How the monitor's worker saves one attachment (gmail_monitor.py:        *)
(* run_claimed_job, run_attachment_job) and how a start-up picks up what a *)
(* killed worker left (reconcile_completed_jobs).  The job table is that   *)
(* of JobQueue; added are the save folder, the journals                    *)
(* attachmentjob_<id>.json and the worker's own variables.  All attachments*)
(* of the model render to the same name in the same folder, the case in    *)
(* which they get in each other's way: path p is _numbered_path(name, p).  *)
(***************************************************************************)
EXTENDS JobQueue, FiniteSets

CONSTANTS
    Contents,    \* attachment contents, told apart by their SHA-256
    Served,      \* key -> the contents Gmail may return for it
    Outside,     \* what others put in the folder: contents, or Folder
    NoFile,      \* nothing exists under the name
    Folder,      \* a directory exists under the name
    MaxPath,     \* BOUND: counters of the numbered names
    MaxTries,    \* MAX_PLACEMENT_ATTEMPTS (5 in the code)
    MaxOutside,  \* BOUND: files others create or remove in a behaviour
    MaxMisreads  \* BOUND: readings of one job's journal that fail

ASSUME SaveAssumption ==
    /\ {NoFile, Folder} \cap Contents = {} /\ NoFile # Folder
    /\ Served \in [Keys -> SUBSET Contents]
    /\ Outside \subseteq Contents \cup {Folder}
    /\ MaxPath \in Nat /\ MaxOutside \in Nat /\ MaxMisreads \in Nat
    /\ MaxTries \in Nat \ {0}

VARIABLES
    files,    \* the save folder: path -> what is there and which job put it
    journal,  \* id -> the journal file of the job
    todo,     \* the journals reconcile_completed_jobs has still to visit
    w,        \* the worker: where it is in which job, with its locals
    outside,  \* how often others touched the folder
    asked,    \* id -> how many downloads were requested (enqueue, re-download)
    misread   \* id -> how often its worker could not read its journal (history)

disk     == <<files, outside>>
counts   == <<asked, misread>>
saveVars == <<files, journal, todo, w, outside, counts>>
allVars  == <<vars, saveVars>>

Paths == 0..MaxPath
Free  == [content |-> NoFile, by |-> 0]
File  == [content: Contents \cup {NoFile, Folder}, by: Jobs \cup {0}]

NoJournal == [phase |-> "none", path |-> 0, hash |-> NoFile]
Journal   == [phase: {"none", "prepared", "committed"}, path: Paths,
              hash: Contents \cup {NoFile}]
Pinned(p, c) == [phase |-> "prepared", path |-> p, hash |-> c]

Steps  == {"fetch", "open", "resume", "check", "place", "verify", "record"}
Idle   == [pc |-> "idle", job |-> 0, data |-> NoFile, path |-> 0, tries |-> 0]
Worker == [pc: Steps \cup {"idle", "error", "tidy"}, job: Jobs \cup {0},
           data: Contents \cup {NoFile}, path: Paths, tries: 0..MaxTries]

IsFree(p)     == files[p].content = NoFile
Matches(p, c) == c # NoFile /\ files[p].content = c

\* _unique_path(name, start): the first free counter from start on.
FirstFree(start) == {p \in Paths : /\ start <= p /\ IsFree(p)
                                   /\ \A q \in Paths : start <= q /\ q < p => ~IsFree(q)}

At(step)   == w.pc = step
Go(step)   == w' = [w EXCEPT !.pc = step]
Prepared   == journal[w.job].phase = "prepared"
Commit     == journal' = [journal EXCEPT ![w.job].phase = "committed"]
Own(j)     == {p \in Paths : files[p].by = j}

-----------------------------------------------------------------------------
SaveInit ==
    /\ Init
    /\ files = [p \in Paths |-> Free]
    /\ journal = [j \in Jobs |-> NoJournal]
    /\ todo = {} /\ w = Idle /\ outside = 0
    /\ asked = [j \in Jobs |-> 0] /\ misread = [j \in Jobs |-> 0]

SaveEnqueue(k) ==
    /\ Enqueue(k)
    /\ asked' = [asked EXCEPT ![lastId'] = @ + 1]
    /\ UNCHANGED <<disk, journal, todo, w, misread>>

SaveClaim(j) ==
    /\ At("idle")
    /\ Claim(j)
    /\ w' = [Idle EXCEPT !.pc = "fetch", !.job = j]
    /\ UNCHANGED <<disk, journal, todo, counts>>

\* pool.get and _attachment_bytes; a payload that retention took names neither
\* account nor message.
Fetch ==
    /\ At("fetch") /\ rows[w.job].full
    /\ \E c \in Served[rows[w.job].key] : w' = [w EXCEPT !.pc = "open", !.data = c]
    /\ UNCHANGED <<vars, disk, journal, todo, counts>>

FetchNotConfigured ==
    /\ At("fetch")
    /\ RecordNotConfigured
    /\ w' = Idle
    /\ UNCHANGED <<disk, journal, todo, counts>>

FetchDeferred ==
    /\ At("fetch")
    /\ RecordDeferral
    /\ w' = Idle
    /\ UNCHANGED <<disk, journal, todo, counts>>

\* A free name is chosen and pinned before anything is written.
PinFresh ==
    \E p \in FirstFree(0) :
        /\ journal' = [journal EXCEPT ![w.job] = Pinned(p, w.data)]
        /\ w' = [w EXCEPT !.pc = "check", !.path = p]

OpenFresh ==
    /\ At("open")
    /\ journal[w.job] = NoJournal
    /\ PinFresh
    /\ UNCHANGED <<vars, disk, todo, counts>>

\* _load_json: a journal that cannot be read or parsed counts as none.
OpenUnread ==
    /\ At("open")
    /\ journal[w.job] # NoJournal
    /\ misread[w.job] < MaxMisreads
    /\ misread' = [misread EXCEPT ![w.job] = @ + 1]
    /\ PinFresh
    /\ UNCHANGED <<vars, disk, todo, asked>>

\* Slip: changed content starts over instead of stopping the job.
OpenResumedAnew ==
    /\ At("open")
    /\ journal[w.job] # NoJournal
    /\ IF journal[w.job].hash = w.data
       THEN w' = [w EXCEPT !.pc = "resume", !.path = journal[w.job].path] /\ UNCHANGED journal
       ELSE PinFresh
    /\ UNCHANGED <<vars, disk, todo, counts>>

\* A journal of an earlier attempt: its name, unless the content has changed.
OpenResumed ==
    /\ At("open")
    /\ journal[w.job] # NoJournal
    /\ IF journal[w.job].hash = w.data
       THEN w' = [w EXCEPT !.pc = "resume", !.path = journal[w.job].path]
       ELSE Go("error")
    /\ UNCHANGED <<vars, disk, journal, todo, counts>>

\* Slip: a resumed job does not look for its own file.
ResumeBlind ==
    /\ At("resume")
    /\ Go("check")
    /\ UNCHANGED <<vars, disk, journal, todo, counts>>

\* Only a resumed job may take the file under its name for its own.
Resume ==
    /\ At("resume")
    /\ IF Matches(w.path, w.data) THEN Commit /\ Go("record")
                                  ELSE Go("check") /\ UNCHANGED journal
    /\ UNCHANGED <<vars, disk, todo, counts>>

\* relocate(): the pin moves to the first free name from start on.
Relocate(start, step) ==
    \E p \in FirstFree(start) :
        /\ journal' = [journal EXCEPT ![w.job] = Pinned(p, w.data)]
        /\ w' = [w EXCEPT !.pc = step, !.path = p,
                          !.tries = IF start = 0 THEN @ ELSE @ + 1]

Check ==
    /\ At("check")
    /\ \/ IsFree(w.path) /\ Go("place") /\ UNCHANGED journal
       \/ /\ ~IsFree(w.path)
          /\ IF files[w.path].content # Folder /\ Prepared
             THEN Relocate(0, "place")
             ELSE Go("error") /\ UNCHANGED journal
    /\ UNCHANGED <<vars, disk, todo, counts>>

\* Slip: a move that replaces (os.replace).
PlaceOver ==
    /\ At("place")
    /\ files' = [files EXCEPT ![w.path] = [content |-> w.data, by |-> w.job]]
    /\ Go("verify")
    /\ UNCHANGED <<vars, outside, journal, todo, counts>>

\* _write_bytes_atomic: the move to the final name, which never replaces.
Place ==
    /\ At("place")
    /\ IsFree(w.path)
    /\ files' = [files EXCEPT ![w.path] = [content |-> w.data, by |-> w.job]]
    /\ Go("verify")
    /\ UNCHANGED <<vars, outside, journal, todo, counts>>

PlaceTaken ==
    /\ At("place")
    /\ ~IsFree(w.path)
    /\ IF Prepared
       THEN Relocate(w.path + 1, IF w.tries + 1 < MaxTries THEN "place" ELSE "error")
       ELSE Go("error") /\ UNCHANGED journal
    /\ UNCHANGED <<vars, disk, todo, counts>>

\* Slip: committed without reading the file back.
VerifyUnread ==
    /\ At("verify")
    /\ Commit /\ Go("record")
    /\ UNCHANGED <<vars, disk, todo, counts>>

Verify ==
    /\ At("verify")
    /\ IF Matches(w.path, w.data) THEN Commit /\ Go("record")
                                  ELSE Go("error") /\ UNCHANGED journal
    /\ UNCHANGED <<vars, disk, todo, counts>>

MarkSuccess ==
    /\ At("record")
    /\ RecordSuccess
    /\ Go("tidy")
    /\ UNCHANGED <<disk, journal, todo, counts>>

\* Slip: the result of mark_success is not looked at.
MarkSuccessUnchecked ==
    /\ At("record")
    /\ ~CanSucceed(rows[w.job])
    /\ Go("tidy")
    /\ UNCHANGED <<vars, disk, journal, todo, counts>>

MarkSuccessRefused ==
    /\ At("record")
    /\ ~CanSucceed(rows[w.job])
    /\ Go("error")
    /\ UNCHANGED <<vars, disk, journal, todo, counts>>

\* os.remove of the journal; an OSError is ignored and leaves it behind.
Tidy ==
    /\ At("tidy")
    /\ \/ journal' = [journal EXCEPT ![w.job] = NoJournal]
       \/ UNCHANGED journal
    /\ w' = Idle
    /\ UNCHANGED <<vars, disk, todo, counts>>

\* Any step may raise: network, folder, state directory, database.
StepFails ==
    /\ w.pc \in Steps
    /\ Go("error")
    /\ UNCHANGED <<vars, disk, journal, todo, counts>>

\* mark_failure in its two transactions; without a row it does nothing.
FailureRead ==
    /\ At("error")
    /\ ReadAttempts
    /\ w' = IF held' = 0 THEN Idle ELSE w
    /\ UNCHANGED <<disk, journal, todo, counts>>

MarkFailed ==
    /\ At("error")
    /\ RecordFailure
    /\ w' = Idle
    /\ UNCHANGED <<disk, journal, todo, counts>>

SaveOutcomeLost ==
    /\ w.pc \in {"fetch", "error"}
    /\ OutcomeLost
    /\ w' = Idle
    /\ UNCHANGED <<disk, journal, todo, counts>>

-----------------------------------------------------------------------------
(* Start-up, kill and watchdog: the process takes its locals with it.      *)

SaveStart ==
    /\ StartMonitor
    /\ todo' = {j \in Jobs : journal[j] # NoJournal}
    /\ UNCHANGED <<disk, journal, w, counts>>

\* The journal of a finished or vanished job goes (or the removal fails).
VisitFinished(j) ==
    /\ mon = "reconcile" /\ j \in todo
    /\ rows[j].status \in {"success", "none", "gone"}
    /\ \/ journal' = [journal EXCEPT ![j] = NoJournal]
       \/ UNCHANGED journal
    /\ todo' = todo \ {j}
    /\ UNCHANGED <<vars, disk, w, counts>>

\* Slips: any file under the name will do; the row's state is not asked.
VisitSavedAnyFile(j) ==
    /\ j \in todo
    /\ ~IsFree(journal[j].path)
    /\ Reconcile(j)
    /\ journal' = [journal EXCEPT ![j] = NoJournal]
    /\ todo' = todo \ {j}
    /\ UNCHANGED <<disk, w, counts>>

VisitSavedAnyRow(j) ==
    /\ j \in todo
    /\ Matches(journal[j].path, journal[j].hash)
    /\ rows' = [rows EXCEPT ![j] = Succeeded(@)]
    /\ journal' = [journal EXCEPT ![j] = NoJournal]
    /\ todo' = todo \ {j}
    /\ UNCHANGED <<lastId, mon, held, seen, wd, faults, asks, again, disk, w, counts>>

\* The pinned file is there: the job is complete.
VisitSaved(j) ==
    /\ j \in todo
    /\ Matches(journal[j].path, journal[j].hash)
    /\ Reconcile(j)
    /\ \/ journal' = [journal EXCEPT ![j] = NoJournal]
       \/ UNCHANGED journal
    /\ todo' = todo \ {j}
    /\ UNCHANGED <<disk, w, counts>>

\* A failed or ignored job, no such file, or a file that cannot be read.
VisitSkipped(j) ==
    /\ mon = "reconcile" /\ j \in todo
    /\ rows[j].status \in Active \cup {"failed"}
    /\ todo' = todo \ {j}
    /\ UNCHANGED <<vars, disk, journal, w, counts>>

SaveRecover ==
    /\ todo = {}
    /\ Recover
    /\ UNCHANGED saveVars

SaveKill ==
    /\ Kill \/ StallKill
    /\ w' = Idle /\ todo' = {}
    /\ UNCHANGED <<disk, journal, counts>>

SaveRedownload(j) ==
    /\ Redownload(j)
    /\ asked' = [asked EXCEPT ![j] = @ + 1]
    /\ UNCHANGED <<disk, journal, todo, w, misread>>

\* Steps of JobQueue that touch neither folder nor journals nor worker.
TableOnly ==
    /\ \/ Retain \/ ReleaseStalled \/ ReleaseLost \/ RedownloadOff
       \/ \E j \in Jobs : \/ Retry(j) \/ Ignore(j) \/ Unignore(j) \/ ReadSuccess(j)
                          \/ BecomeDue(j) \/ Age(j)
    /\ UNCHANGED saveVars

-----------------------------------------------------------------------------
(* Others in the same folder: installations on other PCs, and people.      *)

Appears(p) ==
    /\ outside < MaxOutside
    /\ IsFree(p)
    /\ \E c \in Outside : files' = [files EXCEPT ![p] = [content |-> c, by |-> 0]]
    /\ outside' = outside + 1
    /\ UNCHANGED <<vars, journal, todo, w, counts>>

Disappears(p) ==
    /\ outside < MaxOutside
    /\ ~IsFree(p)
    /\ files' = [files EXCEPT ![p] = Free]
    /\ outside' = outside + 1
    /\ UNCHANGED <<vars, journal, todo, w, counts>>

-----------------------------------------------------------------------------
WorkerStep ==
    \/ \E j \in Jobs : SaveClaim(j)
    \/ Fetch \/ FetchNotConfigured \/ FetchDeferred
    \/ OpenFresh \/ OpenUnread \/ OpenResumed \/ Resume \/ Check
    \/ Place \/ PlaceTaken \/ Verify
    \/ MarkSuccess \/ MarkSuccessRefused \/ Tidy
    \/ StepFails \/ FailureRead \/ MarkFailed \/ SaveOutcomeLost

SaveNext ==
    \/ \E k \in Keys : SaveEnqueue(k)
    \/ WorkerStep
    \/ SaveStart
    \/ \E j \in Jobs : VisitFinished(j) \/ VisitSaved(j) \/ VisitSkipped(j)
    \/ SaveRecover \/ SaveKill
    \/ \E j \in Jobs : SaveRedownload(j)
    \/ TableOnly
    \/ \E p \in Paths : Appears(p) \/ Disappears(p)

SaveSpec == SaveInit /\ [][SaveNext]_allVars

-----------------------------------------------------------------------------
(* Correctness.                                                            *)

\* Types of the variables added here, and the worker's claim: a worker inside
\* a job holds exactly that job, an idle or tidying one holds none.
SaveTypeOK ==
    /\ files \in [Paths -> File]
    /\ journal \in [Jobs -> Journal]
    /\ todo \subseteq Jobs
    /\ w \in Worker
    /\ outside \in 0..MaxOutside
    /\ asked \in [Jobs -> Nat] /\ misread \in [Jobs -> 0..MaxMisreads]
    /\ held = IF w.pc \in {"idle", "tidy"} THEN 0 ELSE w.job

\* No file is ever replaced: what is under a name leaves only by the hand of
\* others (_rename_no_replace), however late another installation took it.
NeverReplaces ==
    [][\A p \in Paths : ~IsFree(p) /\ files'[p] # files[p] => files'[p] = Free]_files

\* One request, at most one file: crashes, retries and restarts between the
\* move, the commit of the journal and the success never save a second copy.
\* The journal is all that prevents it: each time a worker cannot read the one
\* of an earlier attempt (_load_json), one more file may be saved.
NoDuplicateSave == \A j \in Jobs : Cardinality(Own(j)) <= asked[j] + misread[j]

\* A success is recorded only on the strength of a commit or of a file that
\* matches the journal now, and a journal is committed only with its file in
\* place under its name (run_attachment_job, _reconcile_journal).
SuccessOnlyIfSaved ==
    [][\A j \in Jobs :
         /\ rows'[j].status = "success" /\ rows[j].status # "success" =>
               \/ journal[j].phase = "committed"
               \/ Matches(journal[j].path, journal[j].hash)
         /\ journal'[j].phase = "committed" /\ journal[j].phase # "committed" =>
               Matches(journal'[j].path, journal'[j].hash)]_allVars

\* To the job table the worker is what JobQueue says it is: every step here is
\* a step of the table's specification, or leaves the table alone.
ImplementsJobQueue == Spec

\* No two attachments of the model have a content in common.
ContentsApart == \A k, l \in Keys : k # l => Served[k] \cap Served[l] = {}

Unfinished(j) == rows[j].status \in {"pending", "processing", "failed"}

Once == INSTANCE SaveOnce WITH
    Ids       <- Jobs,
    Names     <- Paths,
    open      <- {j \in Jobs : Unfinished(j)},
    taken     <- {p \in Paths : ~IsFree(p)},
    own       <- [j \in Jobs |-> Own(j)],
    lapses    <- misread,
    disturbed <- outside > 0 \/ ~ContentsApart

\* To the user the worker with its journals is what SaveOnce promises: every
\* step here is a step of that specification or changes nothing it speaks of.
ImplementsSaveOnce == Once!OnceSpec

\* Undisturbed by others, a first download that succeeded has put its file in
\* the folder, exactly one if its journal was always readable: no job takes
\* another one's file for its own.
SavedOnSuccess ==
    outside = 0 => \A j \in Jobs :
        rows[j].status = "success" /\ asked[j] = 1 =>
            Own(j) # {} /\ Cardinality(Own(j)) <= 1 + misread[j]

\* A re-download of an attachment whose file is still there saves a new file
\* under a numbered name: what gmail_app.py tells the user who asks for it.
RedownloadSavesAnew ==
    outside = 0 => \A j \in Jobs :
        rows[j].status = "success" => Cardinality(Own(j)) = asked[j]
=============================================================================
