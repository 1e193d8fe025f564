-------------------------- MODULE TaskRegistration --------------------------
(***************************************************************************)
(* register_tasks_transaction of windows_integration.py: the scheduled     *)
(* tasks of the install are looked at, created, read back and judged one   *)
(* after the other, and on an error put back in reverse order.  Between any*)
(* two calls of schtasks.exe others may change a task of the same name: a  *)
(* second registration, another install, the user.  classify_task (listing,*)
(* then XML) is one step: a task that vanishes in between reads as unknown,*)
(* and otherwise one of the two calls alone decides.                       *)
(***************************************************************************)
EXTENDS Integers

CONSTANTS
    N,         \* how many tasks are registered, in this order (2 in the code)
    MaxFaults, \* BOUND: calls of schtasks.exe that fail, or a kill
    MaxMeddles \* BOUND: changes made by others

ASSUME RegistrationAssumption == N \in Nat \ {0} /\ MaxFaults \in Nat /\ MaxMeddles \in Nat

VARIABLES
    tasks,    \* the Task Scheduler: what is registered under each name
    pc, at,   \* the registration: its step, and the task it stands at
    orig,     \* originals: what the preflight found
    made,     \* mutated: created or not, and the definition read back
    failures, \* rollback_errors: how many
    faults, meddles,
    touched,  \* history: names changed by others since their preflight
    late      \* history: ... after the look that this step relies on

vars == <<tasks, pc, at, orig, made, failures, faults, meddles, touched, late>>

Names == 1..N
\* "old": from an earlier registration; "new": as asked for; "bad": with other
\* settings or another principal; "edited": the install's own, by others;
\* "garbled": created, but its path reads back as another one (a code page).
Ours    == {"old", "new", "bad", "edited"}
Defs    == Ours \cup {"garbled", "foreign"}
Present == Defs \cup {"absent"}
Good    == {"new", "edited"}

Looking  == {"preflight", "recheck", "readback", "undo", "gone", "same"}
Changing == {"create", "unmake", "remake"}
Undoing  == {"undo", "unmake", "gone", "remake", "same"}
Ended    == {"refused", "registered", "rolledback", "rollbackfailed", "killed"}

Init ==
    /\ tasks \in [Names -> {"old", "foreign", "absent"}]
    /\ pc = "preflight" /\ at = 1
    /\ orig = [i \in Names |-> "absent"]
    /\ made = [i \in Names |-> "no"]
    /\ failures = 0 /\ faults = 0 /\ meddles = 0
    /\ touched = {} /\ late = FALSE

Fault == faults < MaxFaults /\ faults' = faults + 1

\* classify_task: OWNED, FOREIGN or ABSENT as it stands, or UNKNOWN.
See(seen) ==
    /\ late' = FALSE
    /\ \/ seen = tasks[at] /\ UNCHANGED faults
       \/ seen = "unknown" /\ Fault
Seen == Present \cup {"unknown"}

\* A call that changes the task of this name: done, or refused and nothing done.
Put(d)  == tasks' = [tasks EXCEPT ![at] = d] /\ UNCHANGED faults
Refused == Fault /\ UNCHANGED tasks

\* Slip: the rollback begins at the task that failed, created or not.
GiveUpHere(m)   == pc' = "undo" /\ UNCHANGED at

\* The except branch: what was created is undone from the last one backwards.
GiveUp(m)       == pc' = "undo" /\ at' = IF m = "no" THEN at - 1 ELSE at
NextUndo(error) == /\ pc' = "undo" /\ at' = at - 1
                   /\ failures' = IF error THEN failures + 1 ELSE failures

-----------------------------------------------------------------------------
Preflight ==
    /\ pc = "preflight"
    /\ \E seen \in Seen :
         /\ See(seen)
         /\ IF seen \in Ours \cup {"absent"}
            THEN /\ orig' = [orig EXCEPT ![at] = seen]
                 /\ touched' = touched \ {at}
                 /\ IF at < N THEN at' = at + 1 /\ UNCHANGED pc
                              ELSE at' = 1 /\ pc' = "recheck"
            ELSE pc' = "refused" /\ UNCHANGED <<orig, touched, at>>
    /\ UNCHANGED <<tasks, made, failures, meddles>>

\* Slip: the state of the preflight is trusted.
RecheckSkipped ==
    /\ pc = "recheck"
    /\ pc' = "create" /\ late' = FALSE
    /\ UNCHANGED <<tasks, at, orig, made, failures, faults, meddles, touched>>

\* _create_task, first half: state and definition must be the preflight's.
Recheck ==
    /\ pc = "recheck"
    /\ \E seen \in Seen :
         /\ See(seen)
         /\ IF seen = orig[at] THEN pc' = "create" /\ UNCHANGED at ELSE GiveUp("no")
    /\ UNCHANGED <<tasks, orig, made, failures, meddles, touched>>

\* Slip: remembered for the rollback only once it has been read back.
CreateUnrecorded ==
    /\ pc = "create"
    /\ \/ \E d \in {"new", "bad", "garbled"} : Put(d)
       \/ Refused
    /\ IF tasks' # tasks THEN pc' = "readback" /\ UNCHANGED at ELSE GiveUp("no")
    /\ late' = FALSE
    /\ UNCHANGED <<orig, made, failures, meddles, touched>>

\* /Create /F: whatever is under the name by now is replaced.
Create ==
    /\ pc = "create"
    /\ \/ /\ \E d \in {"new", "bad", "garbled"} : Put(d)
          /\ made' = [made EXCEPT ![at] = "unread"]
          /\ pc' = "readback" /\ UNCHANGED at
       \/ Refused /\ GiveUp("no") /\ UNCHANGED made
    /\ late' = FALSE
    /\ UNCHANGED <<orig, failures, meddles, touched>>

Accept == IF at < N THEN at' = at + 1 /\ pc' = "recheck"
                    ELSE at' = at /\ pc' = "registered"

\* _read_back_created_task, then verify_task_definition on what it returned.
ReadBack ==
    /\ pc = "readback"
    /\ \E seen \in Seen :
         /\ See(seen)
         /\ made' = IF seen \in Ours THEN [made EXCEPT ![at] = seen] ELSE made
         /\ IF seen \in Good THEN Accept ELSE GiveUp(made[at])
    /\ UNCHANGED <<tasks, orig, failures, meddles, touched>>

-----------------------------------------------------------------------------
(* _restore_task, for each created task.                                   *)

\* Slip: any task of the install is taken for the one created here.
UndoAny ==
    /\ pc = "undo" /\ at > 0
    /\ \E seen \in Seen :
         /\ See(seen)
         /\ IF seen \in Ours
            THEN /\ pc' = IF orig[at] = "absent" THEN "unmake" ELSE "remake"
                 /\ UNCHANGED <<at, failures>>
            ELSE NextUndo(TRUE)
    /\ UNCHANGED <<tasks, orig, made, meddles, touched>>

Undo ==
    /\ pc = "undo" /\ at > 0
    /\ \E seen \in Seen :
         /\ See(seen)
         /\ IF seen \in Ours /\ made[at] \in {"unread", seen}
            THEN /\ pc' = IF orig[at] = "absent" THEN "unmake" ELSE "remake"
                 /\ UNCHANGED <<at, failures>>
            ELSE NextUndo(TRUE)
    /\ UNCHANGED <<tasks, orig, made, meddles, touched>>

\* /Delete, or /Create of the original, which may come out differently.
Unmake ==
    /\ pc \in {"unmake", "remake"}
    /\ \/ /\ \/ Put(orig[at])
             \/ pc = "remake" /\ Put("bad")
          /\ pc' = IF pc = "unmake" THEN "gone" ELSE "same"
          /\ UNCHANGED <<at, failures>>
       \/ Refused /\ NextUndo(TRUE)
    /\ late' = FALSE
    /\ UNCHANGED <<orig, made, meddles, touched>>

\* ... which is looked at once more.
Verify ==
    /\ pc \in {"gone", "same"}
    /\ \E seen \in Seen : See(seen) /\ NextUndo(seen # orig[at])
    /\ UNCHANGED <<tasks, orig, made, meddles, touched>>

Undone ==
    /\ pc = "undo" /\ at = 0
    /\ pc' = IF failures = 0 THEN "rolledback" ELSE "rollbackfailed"
    /\ late' = FALSE
    /\ UNCHANGED <<tasks, at, orig, made, failures, faults, meddles, touched>>

\* Ctrl+C, a closed window, the PC going down: nothing is rolled back.
Killed ==
    /\ pc \notin Ended
    /\ Fault
    /\ pc' = "killed" /\ late' = FALSE
    /\ UNCHANGED <<tasks, at, orig, made, failures, meddles, touched>>

\* Others delete the task, put one of their own, or register this install.
Meddle(i) ==
    /\ pc \notin Ended
    /\ meddles < MaxMeddles /\ meddles' = meddles + 1
    /\ \E d \in {"absent", "foreign", "edited"} \ {tasks[i]} :
           tasks' = [tasks EXCEPT ![i] = d]
    /\ touched' = touched \cup {i}
    /\ late' = (late \/ (pc \in Changing /\ at = i))
    /\ UNCHANGED <<pc, at, orig, made, failures, faults>>

Registrar == \/ Preflight \/ Recheck \/ Create \/ ReadBack
             \/ Undo \/ Unmake \/ Verify \/ Undone \/ Killed
Next == Registrar \/ \E i \in Names : Meddle(i)
Spec == Init /\ [][Next]_vars

-----------------------------------------------------------------------------
(* Correctness.                                                            *)

\* Types; and the rollback stands only at tasks this registration created, all
\* of which it has still to visit or has visited (mutated, in reverse).
TypeOK ==
    /\ tasks \in [Names -> Present]
    /\ pc \in Looking \cup Changing \cup Ended /\ at \in 0..N
    /\ orig \in [Names -> Ours \cup {"absent"}]
    /\ made \in [Names -> Ours \cup {"no", "unread"}]
    /\ failures \in 0..N
    /\ faults \in 0..MaxFaults /\ meddles \in 0..MaxMeddles
    /\ touched \subseteq Names /\ late \in BOOLEAN
    /\ pc \in Undoing => \A i \in 1..at : made[i] # "no"

\* All or nothing: success means that each task nobody else touched is there with
\* the principal and the settings asked for, one read back as another path never
\* passing for that; a failure that reports no rollback error has left each as the
\* preflight found it (register_tasks_transaction).
AllOrNothing ==
    /\ pc = "registered" => \A i \in Names \ touched : tasks[i] = "new"
    /\ pc = "rolledback" => \A i \in Names \ touched : tasks[i] = orig[i]

\* The registration replaces or removes only the definition its preflight saw
\* or the one it created; what others registered is lost only in the moment
\* between a look and the call of schtasks.exe that follows it, or, being the
\* install's own, where the created task could not be read back.
OthersKept ==
    [][\A i \in Names : tasks'[i] # tasks[i] /\ meddles' = meddles =>
         \/ late
         \/ made[i] = "no" /\ tasks[i] = orig[i]
         \/ made[i] = "unread" /\ tasks[i] \in Ours
         \/ made[i] = tasks[i]]_vars
=============================================================================
