---------------------------- MODULE SharedFolder ----------------------------
(***************************************************************************)
(* The temporary files of gmail_monitor.py in a save folder that several   *)
(* installations share: installation_id, _write_bytes_atomic and the sweep *)
(* cleanup_orphan_temp_files of every start-up.  A process of the model is *)
(* a monitor in one Windows session; the mutex Local\... keeps a second one*)
(* out of the session, not out of another session of the same user, with   *)
(* whom it shares %LOCALAPPDATA% and so the file install_id.               *)
(***************************************************************************)
EXTENDS FileNames, FiniteSets

CONSTANTS
    Procs,      \* monitors, one per session
    Installs,   \* installations: %LOCALAPPDATA% of a user on a PC
    Ids,        \* installation ids, drawn at random and never twice; BOUND: in use at a time
    NoId,       \* no id known; the id file missing
    Blank,      \* the id file created or truncated, its text not yet written
    MaxAge,     \* FOREIGN_TEMP_MAX_AGE (24 h in the code)
    Ahead,      \* process -> how far its clock runs ahead of the file server's
    Oldest,     \* BOUND: the age counted to, old by every clock
    MaxSaves,   \* BOUND: saves begun
    MaxFaults   \* BOUND: kills, failing calls

ASSUME FolderAssumption ==
    /\ {NoId, Blank} \cap Ids = {} /\ NoId # Blank
    /\ MaxAge \in Nat \ {0} /\ MaxSaves \in Nat /\ MaxFaults \in Nat
    /\ Ahead \in [Procs -> Int]
    /\ Oldest \in Nat /\ \A p \in Procs : Oldest + Ahead[p] >= MaxAge

VARIABLES
    home,     \* process -> its installation, which never changes
    pc,       \* process -> its step
    own,      \* process -> the id it has cached (_INSTALL_IDS)
    drawn,    \* process -> the id it has drawn
    idFile,   \* installation -> what install_id holds
    temps,    \* the folder: temp name -> absent, being written, or whole
    age,      \* temp name -> time since it was last written
    todo,     \* process -> the temp names its sweep has still to look at
    swept,    \* processes past their start-up
    finals,   \* what has been moved to final names
    saves, faults

start  == <<own, drawn, idFile>>
folder == <<temps, age, finals>>
vars   == <<home, pc, start, folder, todo, swept, saves, faults>>

\* temp_file_name: id and job; a process stands for its job, so two sessions are
\* taken to be at different jobs.
TempNames == Ids \X Procs
Temp(p)   == <<own[p], p>>
\* A random id: one nowhere in use; which one makes no difference.
InUseIds  == {drawn[p] : p \in Procs} \cup {own[p] : p \in Procs}
                 \cup {idFile[i] : i \in Installs}
                 \cup {n[1] : n \in {m \in TempNames : temps[m] # "none"}}
NewId     == CHOOSE id \in Ids : id \notin InUseIds

Goto(p, s) == pc' = [pc EXCEPT ![p] = s] /\ UNCHANGED home
Fault      == faults < MaxFaults /\ faults' = faults + 1

Init ==
    /\ home \in [Procs -> Installs]
    /\ pc = [p \in Procs |-> "down"]
    /\ own = [p \in Procs |-> NoId] /\ drawn = own
    /\ idFile = [i \in Installs |-> NoId]
    /\ temps = [n \in TempNames |-> "none"] /\ age = [n \in TempNames |-> 0]
    /\ todo = [p \in Procs |-> {}] /\ swept = {} /\ finals = {}
    /\ saves = 0 /\ faults = 0

-----------------------------------------------------------------------------
(* installation_id: at start-up, and by the worker if that one failed.     *)

Start(p) ==
    /\ pc[p] = "down"
    /\ Goto(p, "id")
    /\ UNCHANGED <<start, folder, todo, swept, saves, faults>>

\* Back to the caller: the sweep at start-up, else the worker's save.
Knows(p, id) == /\ own' = [own EXCEPT ![p] = id]
                /\ drawn' = [drawn EXCEPT ![p] = NoId]
                /\ Goto(p, IF p \in swept THEN "idle" ELSE "list")

ReadId(p) ==
    /\ pc[p] = "id"
    /\ IF idFile[home[p]] \in Ids
       THEN Knows(p, idFile[home[p]])
       ELSE /\ Ids \ InUseIds # {}
            /\ drawn' = [drawn EXCEPT ![p] = NewId]
            /\ Goto(p, "create") /\ UNCHANGED own
    /\ UNCHANGED <<idFile, folder, todo, swept, saves, faults>>

\* An OSError other than a missing file: the sweep does without an id, and the
\* worker's job fails.
IdUnreadable(p) ==
    /\ pc[p] \in {"id", "create", "reread", "fill"}
    /\ Fault
    /\ Knows(p, NoId)
    /\ UNCHANGED <<idFile, folder, todo, swept, saves>>

\* open(path, "x"): the file is there, empty, before the id is in it.
CreateId(p) ==
    /\ pc[p] = "create"
    /\ IF idFile[home[p]] = NoId
       THEN idFile' = [idFile EXCEPT ![home[p]] = Blank] /\ Goto(p, "fill")
       ELSE Goto(p, "reread") /\ UNCHANGED idFile
    /\ UNCHANGED <<own, drawn, folder, todo, swept, saves, faults>>

\* It exists: either it holds an id by now, or it is truncated and replaced.
RereadId(p) ==
    /\ pc[p] = "reread"
    /\ IF idFile[home[p]] \in Ids
       THEN Knows(p, idFile[home[p]]) /\ UNCHANGED idFile
       ELSE /\ Goto(p, "replace")
            /\ UNCHANGED <<own, drawn, idFile>>
    /\ UNCHANGED <<folder, todo, swept, saves, faults>>

ReplaceId(p) ==
    /\ pc[p] = "replace"
    /\ idFile' = [idFile EXCEPT ![home[p]] = Blank]
    /\ Goto(p, "fill")
    /\ UNCHANGED <<own, drawn, folder, todo, swept, saves, faults>>

FillId(p) ==
    /\ pc[p] = "fill"
    /\ idFile' = [idFile EXCEPT ![home[p]] = drawn[p]]
    /\ Knows(p, drawn[p])
    /\ UNCHANGED <<folder, todo, swept, saves, faults>>

-----------------------------------------------------------------------------
(* cleanup_orphan_temp_files, before the worker starts.                    *)

List(p) ==
    /\ pc[p] = "list"
    /\ todo' = [todo EXCEPT ![p] = {n \in TempNames : temps[n] # "none"}]
    /\ Goto(p, "sweep")
    /\ UNCHANGED <<start, folder, swept, saves, faults>>

\* Windows does not remove a file that its writer has open.
IsOpen(n)     == pc[n[2]] = "write" /\ Temp(n[2]) = n
Old(p, n)     == age[n] + Ahead[p] >= MaxAge

\* Slips: everything is swept; only what is one's own is swept.
MayRemoveAny(p, n) == TRUE
MayRemoveOwn(p, n) == n[1] = own[p]

MayRemove(p, n) == n[1] = own[p] \/ Old(p, n)

Sweep(p) ==
    /\ pc[p] = "sweep"
    /\ \E n \in todo[p] :
         /\ todo' = [todo EXCEPT ![p] = @ \ {n}]
         /\ IF MayRemove(p, n) /\ ~IsOpen(n)
            THEN \/ temps' = [temps EXCEPT ![n] = "none"] /\ UNCHANGED faults
                 \/ Fault /\ UNCHANGED temps
            ELSE UNCHANGED <<temps, faults>>
    /\ UNCHANGED <<home, pc, start, age, finals, swept, saves>>

Swept(p) ==
    /\ pc[p] = "sweep" /\ todo[p] = {}
    /\ swept' = swept \cup {p}
    /\ Goto(p, "idle")
    /\ UNCHANGED <<start, folder, todo, saves, faults>>

-----------------------------------------------------------------------------
(* _write_bytes_atomic, by the worker.                                     *)

\* Slip: a start-up that had no id is not made up for.
BeginSaveNameless(p) ==
    /\ pc[p] = "idle"
    /\ saves < MaxSaves /\ saves' = saves + 1
    /\ temps' = [temps EXCEPT ![Temp(p)] = "part"]
    /\ age' = [age EXCEPT ![Temp(p)] = 0]
    /\ Goto(p, "write")
    /\ UNCHANGED <<start, finals, todo, swept, faults>>

BeginSave(p) ==
    /\ pc[p] = "idle"
    /\ saves < MaxSaves /\ saves' = saves + 1
    /\ IF own[p] = NoId
       THEN Goto(p, "id") /\ UNCHANGED <<temps, age>>
       ELSE /\ temps' = [temps EXCEPT ![Temp(p)] = "part"]
            /\ age' = [age EXCEPT ![Temp(p)] = 0]
            /\ Goto(p, "write")
    /\ UNCHANGED <<start, finals, todo, swept, faults>>

Written(p) ==
    /\ pc[p] = "write"
    /\ temps' = [temps EXCEPT ![Temp(p)] = "whole"]
    /\ age' = [age EXCEPT ![Temp(p)] = 0]
    /\ Goto(p, "move")
    /\ UNCHANGED <<start, finals, todo, swept, saves, faults>>

\* Slip: written under the final name.
MoveEarly(p) ==
    /\ pc[p] \in {"write", "move"}
    /\ finals' = finals \cup {temps[Temp(p)]}
    /\ temps' = [temps EXCEPT ![Temp(p)] = "none"]
    /\ Goto(p, "idle")
    /\ UNCHANGED <<start, age, todo, swept, saves, faults>>

Move(p) ==
    /\ pc[p] = "move"
    /\ temps[Temp(p)] # "none"
    /\ finals' = finals \cup {temps[Temp(p)]}
    /\ temps' = [temps EXCEPT ![Temp(p)] = "none"]
    /\ Goto(p, "idle")
    /\ UNCHANGED <<start, age, todo, swept, saves, faults>>

\* The write fails, the final name is taken, or the temp is gone: the finally
\* branch removes the temp, or logs that it could not.
SaveFails(p) ==
    /\ pc[p] \in {"write", "move"}
    /\ IF temps[Temp(p)] = "none" THEN UNCHANGED faults ELSE Fault
    /\ \/ temps' = [temps EXCEPT ![Temp(p)] = "none"]
       \/ UNCHANGED temps
    /\ Goto(p, "idle")
    /\ UNCHANGED <<start, age, finals, todo, swept, saves>>

-----------------------------------------------------------------------------
Stops(p) ==
    /\ Goto(p, "down")
    /\ own' = [own EXCEPT ![p] = NoId] /\ drawn' = [drawn EXCEPT ![p] = NoId]
    /\ todo' = [todo EXCEPT ![p] = {}]
    /\ swept' = swept \ {p}
    /\ UNCHANGED <<idFile, folder, saves>>

Kill(p)   == pc[p] \notin {"down", "idle"} /\ Fault /\ Stops(p)
LogOff(p) == pc[p] = "idle" /\ Stops(p) /\ UNCHANGED faults

Tick ==
    /\ \E n \in TempNames : temps[n] # "none" /\ age[n] < Oldest
    /\ age' = [n \in TempNames |-> IF temps[n] # "none" /\ age[n] < Oldest
                                   THEN age[n] + 1 ELSE age[n]]
    /\ UNCHANGED <<home, pc, start, temps, finals, todo, swept, saves, faults>>

StartUp(p) == Start(p) \/ ReadId(p) \/ CreateId(p) \/ RereadId(p) \/ ReplaceId(p)
                 \/ FillId(p) \/ List(p) \/ Sweep(p) \/ Swept(p)
Save(p)    == Written(p) \/ Move(p) \/ SaveFails(p)

Next ==
    \/ \E p \in Procs : \/ StartUp(p) \/ IdUnreadable(p)
                        \/ BeginSave(p) \/ Save(p) \/ Kill(p) \/ LogOff(p)
    \/ Tick

Spec == Init /\ [][Next]_vars

\* A start-up and a save run through, time passes, and every monitor is started
\* anew sooner or later (a pause, a Save, the next logon).
FairSpec ==
    /\ Spec
    /\ WF_vars(Tick)
    /\ \A p \in Procs : WF_vars(StartUp(p)) /\ WF_vars(Save(p)) /\ WF_vars(LogOff(p))

-----------------------------------------------------------------------------
(* Correctness.                                                            *)

\* Types; and a save has an id for its temporary file, which is there until the
\* write is done.
TypeOK ==
    /\ home \in [Procs -> Installs]
    /\ pc \in [Procs -> {"down", "id", "create", "reread", "replace", "fill",
                         "list", "sweep", "idle", "write", "move"}]
    /\ own \in [Procs -> Ids \cup {NoId}] /\ drawn \in [Procs -> Ids \cup {NoId}]
    /\ idFile \in [Installs -> Ids \cup {NoId, Blank}]
    /\ temps \in [TempNames -> {"none", "part", "whole"}]
    /\ age \in [TempNames -> 0..Oldest]
    /\ todo \in [Procs -> SUBSET TempNames] /\ swept \subseteq Procs
    /\ saves \in 0..MaxSaves /\ faults \in 0..MaxFaults
    /\ \A p \in Procs : pc[p] \in {"write", "move"} => own[p] \in Ids
    /\ \A p \in Procs : pc[p] = "write" => temps[Temp(p)] = "part"

\* Whatever is killed, swept or in the way, no half-written file ever gets a
\* final name in the user's folder (_write_bytes_atomic).
OnlyWholeFiles == finals \subseteq {"whole"}

\* A save in progress loses its temporary file only to a start-up of the same
\* installation in another session, or when it stood finished and unmoved for
\* 24 hours by the clock of the PC that sweeps.
SavesKeepTheirTemp ==
    [][\A p \in Procs :
         pc[p] = "move" /\ pc'[p] = "move"
                /\ temps[Temp(p)] # "none" /\ temps'[Temp(p)] = "none" =>
            \E q \in Procs \ {p} :
                \/ home[q] = home[p] /\ own[q] = own[p]
                \/ Old(q, Temp(p))]_vars

\* The temporary path and the final one keep within MAX_PATH although the
\* underscore of a device name and the number of the search for a free name are
\* added after the name was cut to its budget, and although Windows counts a wide
\* character twice, up to Spare of them (filename_budget, render_filename,
\* _numbered_path); in folders of up to 218 characters, for extensions within the
\* budget.  With more wide characters the code may come to a path that is too long.
PathsFit == (\E p \in Procs : pc[p] = "move") => AllPathsFit

\* No two jobs of an installation write to the same temporary name: one's save,
\* or its clean-up, would take the other's data (_base36, temp_file_name).
TempNamesDiffer == (\E p \in Procs : pc[p] = "write") => NamesDiffer

\* What a killed save leaves in the folder goes in the end: by a start-up of
\* its own installation or, where that has another id by now (two sessions that
\* created the id at once, a lost id file), by age.
InUse(n) == \E p \in Procs : Temp(p) = n /\ pc[p] \in {"write", "move"}
OrphansGo == []<>(\A n \in TempNames : temps[n] # "none" => InUse(n))
=============================================================================
