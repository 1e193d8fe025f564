---------------------- MODULE WindowsIntegrationProofs ----------------------
(***************************************************************************)
(* Proofs about the two commands of windows_integration.py: a registration *)
(* of any number of tasks is all or nothing and leaves alone what others   *)
(* put, and a stop of any number of monitors ends them all and nothing     *)
(* else, whatever fails and whoever acts between two calls.                *)
(***************************************************************************)
EXTENDS WindowsIntegration, TLAPS

-----------------------------------------------------------------------------
(* The registration.                                                       *)

\* A step at one task stands at one.
Standing == pc \notin {"undo"} \cup Ended => at \in Names

\* The tasks before the one in hand are created, those after it are not.
MadeInOrder ==
    /\ pc = "preflight" => \A i \in Names : made[i] = "no"
    /\ pc \in {"recheck", "create"} => \A i \in Names : at <= i => made[i] = "no"
    /\ pc \in {"recheck", "create"} => \A i \in Names : i < at => made[i] # "no"
    /\ pc = "readback" => /\ \A i \in Names : at < i => made[i] = "no"
                          /\ \A i \in Names : i <= at => made[i] # "no"
                          /\ made[at] = "unread"

\* The roll-back counts at most one error for each task it is done with.
ErrorsCounted ==
    /\ pc \in Undoing => failures <= N - at
    /\ pc \notin Undoing \cup Ended => failures = 0

\* What stands under a name that others kept their hands off.
Untouched ==
    /\ pc = "preflight" => \A i \in Names \ touched : i < at => tasks[i] = orig[i]
    /\ pc \in {"recheck", "create"} =>
         \A i \in Names \ touched : tasks[i] = IF i < at THEN "new" ELSE orig[i]
    /\ pc = "readback" =>
         /\ \A i \in Names \ touched : i < at => tasks[i] = "new"
         /\ \A i \in Names \ touched : i > at => tasks[i] = orig[i]
         /\ at \notin touched => tasks[at] \in {"new", "bad", "garbled"}
    /\ pc \in Undoing /\ failures = 0 =>
         \A i \in Names \ touched : i > at => tasks[i] = orig[i]

\* What a call that changes a task relies on since the last look.
LookedAt ==
    /\ pc = "create" => late \/ tasks[at] = orig[at]
    /\ pc \in {"unmake", "remake"} =>
         \/ late
         \/ made[at] = "unread" /\ tasks[at] \in Ours
         \/ made[at] = tasks[at]

Inv == /\ TypeOK /\ Standing /\ MadeInOrder /\ ErrorsCounted
       /\ Untouched /\ LookedAt /\ AllOrNothing

-----------------------------------------------------------------------------
(* The stop.                                                               *)

StopTypes ==
    /\ procs \in [Pids -> Kinds \cup {"none"}]
    /\ step \in {"list", "look", "kill", "left", "stopped", "error"}
    /\ cands \subseteq Pids /\ listed \subseteq Pids
    /\ churn \in Nat
    /\ step \in {"kill", "left"} => pid \in cands

\* A listed monitor that is still the same process is still a monitor.
ListedRun == \A p \in listed : procs[p] = "own"

\* ... and still to be dealt with.
ListedAhead == step \in {"look", "kill", "left", "stopped"} => listed \subseteq cands

\* What taskkill relies on since the second look.
LookedTwice == step = "kill" => procs[pid] = "own" \/ reused

StopInv == StopTypes /\ ListedRun /\ ListedAhead /\ LookedTwice /\ StoppedAreGone

-----------------------------------------------------------------------------
(* Each step of the registration preserves Inv.                            *)

LEMMA PreflightKeeps == ASSUME Inv, Preflight PROVE Inv'
<1> USE RegistrationAssumption
    DEF Inv, Names, Present, Defs, Ours, Looking, Changing, Undoing, Ended, Fault,
        Preflight, See, Seen
<1>1. TypeOK'
  <2>1. late' \in BOOLEAN  BY DEF TypeOK, RegistrationAssumption
  <2>2. tasks' \in [Names -> Present]  BY DEF TypeOK, Standing
  <2>3. pc' \in Looking \cup Changing \cup Ended /\ at' \in 0..N  BY DEF TypeOK, Standing
  <2>4. orig' \in [Names -> Ours \cup {"absent"}]  BY DEF TypeOK, Standing
  <2>5. made' \in [Names -> Ours \cup {"no", "unread"}]  BY DEF TypeOK, Standing
  <2>6. failures' \in 0..N  BY DEF TypeOK, Standing, ErrorsCounted
  <2>7. faults' \in 0..MaxFaults  BY DEF TypeOK
  <2>8. meddles' \in 0..MaxMeddles /\ touched' \subseteq Names  BY DEF TypeOK
  <2>9. (pc \in Undoing => \A i \in 1..at : made[i] # "no")'
    BY DEF TypeOK, Standing, MadeInOrder
  <2> QED  BY <2>1, <2>2, <2>3, <2>4, <2>5, <2>6, <2>7, <2>8, <2>9 DEF TypeOK
<1>2. Standing'  BY DEF TypeOK, Standing
<1>3. MadeInOrder'  BY DEF TypeOK, Standing, MadeInOrder
<1>4. ErrorsCounted'  BY DEF TypeOK, Standing, ErrorsCounted
<1>5. Untouched'  BY DEF TypeOK, Standing, Untouched
<1>6. LookedAt'  BY DEF TypeOK, Standing, MadeInOrder, Untouched, LookedAt
<1>7. AllOrNothing'  BY DEF TypeOK, Standing, Untouched, AllOrNothing
<1> QED  BY <1>1, <1>2, <1>3, <1>4, <1>5, <1>6, <1>7

LEMMA RecheckKeeps == ASSUME Inv, Recheck PROVE Inv'
<1> USE RegistrationAssumption
    DEF Inv, Names, Present, Defs, Ours, Looking, Changing, Undoing, Ended, Fault,
        Recheck, See, Seen, GiveUp
<1>1. TypeOK'
  <2>1. late' \in BOOLEAN  BY DEF TypeOK, RegistrationAssumption
  <2>2. tasks' \in [Names -> Present]  BY DEF TypeOK, Standing
  <2>3. pc' \in Looking \cup Changing \cup Ended /\ at' \in 0..N  BY DEF TypeOK, Standing
  <2>4. orig' \in [Names -> Ours \cup {"absent"}]  BY DEF TypeOK, Standing
  <2>5. made' \in [Names -> Ours \cup {"no", "unread"}]  BY DEF TypeOK, Standing
  <2>6. failures' \in 0..N  BY DEF TypeOK, Standing, ErrorsCounted
  <2>7. faults' \in 0..MaxFaults  BY DEF TypeOK
  <2>8. meddles' \in 0..MaxMeddles /\ touched' \subseteq Names  BY DEF TypeOK
  <2>9. (pc \in Undoing => \A i \in 1..at : made[i] # "no")'
    BY DEF TypeOK, Standing, MadeInOrder
  <2> QED  BY <2>1, <2>2, <2>3, <2>4, <2>5, <2>6, <2>7, <2>8, <2>9 DEF TypeOK
<1>2. Standing'  BY DEF TypeOK, Standing
<1>3. MadeInOrder'  BY DEF TypeOK, Standing, MadeInOrder
<1>4. ErrorsCounted'  BY DEF TypeOK, Standing, ErrorsCounted
<1>5. Untouched'  BY DEF TypeOK, Standing, Untouched
<1>6. LookedAt'  BY DEF TypeOK, Standing, MadeInOrder, Untouched, LookedAt
<1>7. AllOrNothing'  BY DEF TypeOK, Standing, Untouched, AllOrNothing
<1> QED  BY <1>1, <1>2, <1>3, <1>4, <1>5, <1>6, <1>7

LEMMA CreateKeeps == ASSUME Inv, Create PROVE Inv'
<1> USE RegistrationAssumption
    DEF Inv, Names, Present, Defs, Ours, Looking, Changing, Undoing, Ended, Fault,
        Create, Put, Refused, GiveUp
<1>1. TypeOK'
  <2>1. late' \in BOOLEAN  BY DEF TypeOK, RegistrationAssumption
  <2>2. tasks' \in [Names -> Present]  BY DEF TypeOK, Standing
  <2>3. pc' \in Looking \cup Changing \cup Ended /\ at' \in 0..N  BY DEF TypeOK, Standing
  <2>4. orig' \in [Names -> Ours \cup {"absent"}]  BY DEF TypeOK, Standing
  <2>5. made' \in [Names -> Ours \cup {"no", "unread"}]  BY DEF TypeOK, Standing
  <2>6. failures' \in 0..N  BY DEF TypeOK, Standing, ErrorsCounted
  <2>7. faults' \in 0..MaxFaults  BY DEF TypeOK
  <2>8. meddles' \in 0..MaxMeddles /\ touched' \subseteq Names  BY DEF TypeOK
  <2>9. (pc \in Undoing => \A i \in 1..at : made[i] # "no")'
    BY DEF TypeOK, Standing, MadeInOrder
  <2> QED  BY <2>1, <2>2, <2>3, <2>4, <2>5, <2>6, <2>7, <2>8, <2>9 DEF TypeOK
<1>2. Standing'  BY DEF TypeOK, Standing
<1>3. MadeInOrder'  BY DEF TypeOK, Standing, MadeInOrder
<1>4. ErrorsCounted'  BY DEF TypeOK, Standing, ErrorsCounted
<1>5. Untouched'
  <2>1. \A i \in Names : i # at => tasks'[i] = tasks[i]  BY DEF TypeOK, Standing
  <2>2. CASE pc' = "readback"
    <3>1. tasks'[at] \in {"new", "bad", "garbled"}  BY <2>2 DEF TypeOK, Standing
    <3> QED  BY <2>1, <2>2, <3>1 DEF TypeOK, Standing, Untouched
  <2>3. CASE pc' # "readback"
    <3>1. pc' = "undo" /\ at' = at - 1 /\ tasks' = tasks  BY <2>3
    <3> QED  BY <3>1 DEF TypeOK, Standing, Untouched
  <2> QED  BY <2>2, <2>3
<1>6. LookedAt'  BY DEF TypeOK, Standing, MadeInOrder, Untouched, LookedAt
<1>7. AllOrNothing'  BY DEF TypeOK, Standing, Untouched, AllOrNothing
<1> QED  BY <1>1, <1>2, <1>3, <1>4, <1>5, <1>6, <1>7

LEMMA ReadBackKeeps == ASSUME Inv, ReadBack PROVE Inv'
<1> USE RegistrationAssumption
    DEF Inv, Names, Present, Defs, Ours, Looking, Changing, Undoing, Ended, Fault,
        ReadBack, See, Seen, Accept, GiveUp, Good
<1>1. TypeOK'
  <2>1. late' \in BOOLEAN  BY DEF TypeOK, RegistrationAssumption
  <2>2. tasks' \in [Names -> Present]  BY DEF TypeOK, Standing
  <2>3. pc' \in Looking \cup Changing \cup Ended /\ at' \in 0..N  BY DEF TypeOK, Standing
  <2>4. orig' \in [Names -> Ours \cup {"absent"}]  BY DEF TypeOK, Standing
  <2>5. made' \in [Names -> Ours \cup {"no", "unread"}]  BY DEF TypeOK, Standing
  <2>6. failures' \in 0..N  BY DEF TypeOK, Standing, ErrorsCounted
  <2>7. faults' \in 0..MaxFaults  BY DEF TypeOK
  <2>8. meddles' \in 0..MaxMeddles /\ touched' \subseteq Names  BY DEF TypeOK
  <2>9. (pc \in Undoing => \A i \in 1..at : made[i] # "no")'
    BY DEF TypeOK, Standing, MadeInOrder
  <2> QED  BY <2>1, <2>2, <2>3, <2>4, <2>5, <2>6, <2>7, <2>8, <2>9 DEF TypeOK
<1>2. Standing'  BY DEF TypeOK, Standing
<1>3. MadeInOrder'  BY DEF TypeOK, Standing, MadeInOrder
<1>4. ErrorsCounted'  BY DEF TypeOK, Standing, ErrorsCounted
<1>5. Untouched'  BY DEF TypeOK, Standing, MadeInOrder, Untouched
<1>6. LookedAt'  BY DEF TypeOK, Standing, MadeInOrder, Untouched, LookedAt
<1>7. AllOrNothing'  BY DEF TypeOK, Standing, Untouched, AllOrNothing
<1> QED  BY <1>1, <1>2, <1>3, <1>4, <1>5, <1>6, <1>7

LEMMA UndoKeeps == ASSUME Inv, Undo PROVE Inv'
<1> USE RegistrationAssumption
    DEF Inv, Names, Present, Defs, Ours, Looking, Changing, Undoing, Ended, Fault,
        Undo, See, Seen, NextUndo
<1>1. TypeOK'
  <2>1. late' \in BOOLEAN  BY DEF TypeOK, RegistrationAssumption
  <2>2. tasks' \in [Names -> Present]  BY DEF TypeOK, Standing
  <2>3. pc' \in Looking \cup Changing \cup Ended /\ at' \in 0..N  BY DEF TypeOK, Standing
  <2>4. orig' \in [Names -> Ours \cup {"absent"}]  BY DEF TypeOK, Standing
  <2>5. made' \in [Names -> Ours \cup {"no", "unread"}]  BY DEF TypeOK, Standing
  <2>6. failures' \in 0..N  BY DEF TypeOK, Standing, ErrorsCounted
  <2>7. faults' \in 0..MaxFaults  BY DEF TypeOK
  <2>8. meddles' \in 0..MaxMeddles /\ touched' \subseteq Names  BY DEF TypeOK
  <2>9. (pc \in Undoing => \A i \in 1..at : made[i] # "no")'
    BY DEF TypeOK, Standing, MadeInOrder
  <2> QED  BY <2>1, <2>2, <2>3, <2>4, <2>5, <2>6, <2>7, <2>8, <2>9 DEF TypeOK
<1>2. Standing'  BY DEF TypeOK, Standing
<1>3. MadeInOrder'  BY DEF TypeOK, Standing, MadeInOrder
<1>4. ErrorsCounted'  BY DEF TypeOK, Standing, ErrorsCounted
<1>5. Untouched'  BY DEF TypeOK, Standing, Untouched
<1>6. LookedAt'  BY DEF TypeOK, Standing, MadeInOrder, Untouched, LookedAt
<1>7. AllOrNothing'  BY DEF TypeOK, Standing, Untouched, AllOrNothing
<1> QED  BY <1>1, <1>2, <1>3, <1>4, <1>5, <1>6, <1>7

LEMMA UnmakeKeeps == ASSUME Inv, Unmake PROVE Inv'
<1> USE RegistrationAssumption
    DEF Inv, Names, Present, Defs, Ours, Looking, Changing, Undoing, Ended, Fault,
        Unmake, Put, Refused, NextUndo
<1>1. TypeOK'
  <2>1. late' \in BOOLEAN  BY DEF TypeOK, RegistrationAssumption
  <2>2. tasks' \in [Names -> Present]  BY DEF TypeOK, Standing
  <2>3. pc' \in Looking \cup Changing \cup Ended /\ at' \in 0..N  BY DEF TypeOK, Standing
  <2>4. orig' \in [Names -> Ours \cup {"absent"}]  BY DEF TypeOK, Standing
  <2>5. made' \in [Names -> Ours \cup {"no", "unread"}]  BY DEF TypeOK, Standing
  <2>6. failures' \in 0..N  BY DEF TypeOK, Standing, ErrorsCounted
  <2>7. faults' \in 0..MaxFaults  BY DEF TypeOK
  <2>8. meddles' \in 0..MaxMeddles /\ touched' \subseteq Names  BY DEF TypeOK
  <2>9. (pc \in Undoing => \A i \in 1..at : made[i] # "no")'
    BY DEF TypeOK, Standing, MadeInOrder
  <2> QED  BY <2>1, <2>2, <2>3, <2>4, <2>5, <2>6, <2>7, <2>8, <2>9 DEF TypeOK
<1>2. Standing'  BY DEF TypeOK, Standing
<1>3. MadeInOrder'  BY DEF TypeOK, Standing, MadeInOrder
<1>4. ErrorsCounted'  BY DEF TypeOK, Standing, ErrorsCounted
<1>5. Untouched'  BY DEF TypeOK, Standing, Untouched
<1>6. LookedAt'  BY DEF TypeOK, Standing, MadeInOrder, Untouched, LookedAt
<1>7. AllOrNothing'  BY DEF TypeOK, Standing, Untouched, AllOrNothing
<1> QED  BY <1>1, <1>2, <1>3, <1>4, <1>5, <1>6, <1>7

LEMMA VerifyKeeps == ASSUME Inv, Verify PROVE Inv'
<1> USE RegistrationAssumption
    DEF Inv, Names, Present, Defs, Ours, Looking, Changing, Undoing, Ended, Fault,
        Verify, See, Seen, NextUndo
<1>1. TypeOK'
  <2>1. late' \in BOOLEAN  BY DEF TypeOK, RegistrationAssumption
  <2>2. tasks' \in [Names -> Present]  BY DEF TypeOK, Standing
  <2>3. pc' \in Looking \cup Changing \cup Ended /\ at' \in 0..N  BY DEF TypeOK, Standing
  <2>4. orig' \in [Names -> Ours \cup {"absent"}]  BY DEF TypeOK, Standing
  <2>5. made' \in [Names -> Ours \cup {"no", "unread"}]  BY DEF TypeOK, Standing
  <2>6. failures' \in 0..N  BY DEF TypeOK, Standing, ErrorsCounted
  <2>7. faults' \in 0..MaxFaults  BY DEF TypeOK
  <2>8. meddles' \in 0..MaxMeddles /\ touched' \subseteq Names  BY DEF TypeOK
  <2>9. (pc \in Undoing => \A i \in 1..at : made[i] # "no")'
    BY DEF TypeOK, Standing, MadeInOrder
  <2> QED  BY <2>1, <2>2, <2>3, <2>4, <2>5, <2>6, <2>7, <2>8, <2>9 DEF TypeOK
<1>2. Standing'  BY DEF TypeOK, Standing
<1>3. MadeInOrder'  BY DEF TypeOK, Standing, MadeInOrder
<1>4. ErrorsCounted'  BY DEF TypeOK, Standing, ErrorsCounted
<1>5. Untouched'  BY DEF TypeOK, Standing, Untouched
<1>6. LookedAt'  BY DEF TypeOK, Standing, MadeInOrder, Untouched, LookedAt
<1>7. AllOrNothing'  BY DEF TypeOK, Standing, Untouched, AllOrNothing
<1> QED  BY <1>1, <1>2, <1>3, <1>4, <1>5, <1>6, <1>7

LEMMA UndoneKeeps == ASSUME Inv, Undone PROVE Inv'
<1> USE RegistrationAssumption
    DEF Inv, Names, Present, Defs, Ours, Looking, Changing, Undoing, Ended, Fault,
        Undone
<1>1. TypeOK'
  <2>1. late' \in BOOLEAN  BY DEF TypeOK, RegistrationAssumption
  <2>2. tasks' \in [Names -> Present]  BY DEF TypeOK, Standing
  <2>3. pc' \in Looking \cup Changing \cup Ended /\ at' \in 0..N  BY DEF TypeOK, Standing
  <2>4. orig' \in [Names -> Ours \cup {"absent"}]  BY DEF TypeOK, Standing
  <2>5. made' \in [Names -> Ours \cup {"no", "unread"}]  BY DEF TypeOK, Standing
  <2>6. failures' \in 0..N  BY DEF TypeOK, Standing, ErrorsCounted
  <2>7. faults' \in 0..MaxFaults  BY DEF TypeOK
  <2>8. meddles' \in 0..MaxMeddles /\ touched' \subseteq Names  BY DEF TypeOK
  <2>9. (pc \in Undoing => \A i \in 1..at : made[i] # "no")'
    BY DEF TypeOK, Standing, MadeInOrder
  <2> QED  BY <2>1, <2>2, <2>3, <2>4, <2>5, <2>6, <2>7, <2>8, <2>9 DEF TypeOK
<1>2. Standing'  BY DEF TypeOK, Standing
<1>3. MadeInOrder'  BY DEF TypeOK, Standing, MadeInOrder
<1>4. ErrorsCounted'  BY DEF TypeOK, Standing, ErrorsCounted
<1>5. Untouched'  BY DEF TypeOK, Standing, Untouched
<1>6. LookedAt'  BY DEF TypeOK, Standing, MadeInOrder, Untouched, LookedAt
<1>7. AllOrNothing'  BY DEF TypeOK, Standing, Untouched, AllOrNothing
<1> QED  BY <1>1, <1>2, <1>3, <1>4, <1>5, <1>6, <1>7

LEMMA KilledKeeps == ASSUME Inv, Killed PROVE Inv'
<1> USE RegistrationAssumption
    DEF Inv, Names, Present, Defs, Ours, Looking, Changing, Undoing, Ended, Fault,
        Killed
<1>1. TypeOK'
  <2>1. late' \in BOOLEAN  BY DEF TypeOK, RegistrationAssumption
  <2>2. tasks' \in [Names -> Present]  BY DEF TypeOK, Standing
  <2>3. pc' \in Looking \cup Changing \cup Ended /\ at' \in 0..N  BY DEF TypeOK, Standing
  <2>4. orig' \in [Names -> Ours \cup {"absent"}]  BY DEF TypeOK, Standing
  <2>5. made' \in [Names -> Ours \cup {"no", "unread"}]  BY DEF TypeOK, Standing
  <2>6. failures' \in 0..N  BY DEF TypeOK, Standing, ErrorsCounted
  <2>7. faults' \in 0..MaxFaults  BY DEF TypeOK
  <2>8. meddles' \in 0..MaxMeddles /\ touched' \subseteq Names  BY DEF TypeOK
  <2>9. (pc \in Undoing => \A i \in 1..at : made[i] # "no")'
    BY DEF TypeOK, Standing, MadeInOrder
  <2> QED  BY <2>1, <2>2, <2>3, <2>4, <2>5, <2>6, <2>7, <2>8, <2>9 DEF TypeOK
<1>2. Standing'  BY DEF TypeOK, Standing
<1>3. MadeInOrder'  BY DEF TypeOK, Standing, MadeInOrder
<1>4. ErrorsCounted'  BY DEF TypeOK, Standing, ErrorsCounted
<1>5. Untouched'  BY DEF TypeOK, Standing, Untouched
<1>6. LookedAt'  BY DEF TypeOK, Standing, MadeInOrder, Untouched, LookedAt
<1>7. AllOrNothing'  BY DEF TypeOK, Standing, Untouched, AllOrNothing
<1> QED  BY <1>1, <1>2, <1>3, <1>4, <1>5, <1>6, <1>7

LEMMA MeddleKeeps == ASSUME Inv, NEW k \in Names, Meddle(k) PROVE Inv'
<1> USE RegistrationAssumption
    DEF Inv, Names, Present, Defs, Ours, Looking, Changing, Undoing, Ended, Fault,
        Meddle
<1>1. TypeOK'  BY DEF TypeOK
<1>2. Standing'  BY DEF TypeOK, Standing
<1>3. MadeInOrder'  BY DEF TypeOK, Standing, MadeInOrder
<1>4. ErrorsCounted'  BY DEF TypeOK, Standing, ErrorsCounted
<1>5. Untouched'  BY DEF TypeOK, Standing, Untouched
<1>6. LookedAt'
  <2>1. CASE late'  BY <2>1 DEF LookedAt
  <2>2. CASE ~late'
    <3>1. pc \in Changing => at # k  BY <2>2, Zenon DEF Meddle
    <3>2. ~late  BY <2>2, Zenon DEF Meddle
    <3>3. tasks'[at] = tasks[at] \/ pc \notin Changing  BY <3>1 DEF TypeOK, Standing
    <3> QED  BY <3>2, <3>3 DEF LookedAt
  <2> QED  BY <2>1, <2>2
<1>7. AllOrNothing'  BY DEF TypeOK, Standing, Untouched, AllOrNothing
<1> QED  BY <1>1, <1>2, <1>3, <1>4, <1>5, <1>6, <1>7

-----------------------------------------------------------------------------
(* The theorems about the registration.                                    *)

LEMMA InvHolds == Spec => []Inv
<1>1. Init => Inv
  <2> SUFFICES ASSUME Init PROVE Inv  OBVIOUS
  <2> USE RegistrationAssumption
      DEF Init, Names, Present, Defs, Ours, Looking, Changing, Undoing, Ended
  <2>1. late \in BOOLEAN  BY Zenon
  <2>2. tasks \in [Names -> Present]  OBVIOUS
  <2>3. TypeOK  BY <2>1, <2>2 DEF TypeOK
  <2>4. Standing /\ MadeInOrder /\ ErrorsCounted  BY DEF Standing, MadeInOrder, ErrorsCounted
  <2>5. Untouched /\ LookedAt /\ AllOrNothing  BY DEF Untouched, LookedAt, AllOrNothing
  <2> QED  BY <2>3, <2>4, <2>5 DEF Inv
<1>2. Inv /\ [Next]_vars => Inv'
  <2> SUFFICES ASSUME Inv, [Next]_vars PROVE Inv'  OBVIOUS
  <2>1. CASE Preflight  BY <2>1, PreflightKeeps
  <2>2. CASE Recheck    BY <2>2, RecheckKeeps
  <2>3. CASE Create     BY <2>3, CreateKeeps
  <2>4. CASE ReadBack   BY <2>4, ReadBackKeeps
  <2>5. CASE Undo       BY <2>5, UndoKeeps
  <2>6. CASE Unmake     BY <2>6, UnmakeKeeps
  <2>7. CASE Verify     BY <2>7, VerifyKeeps
  <2>8. CASE Undone     BY <2>8, UndoneKeeps
  <2>9. CASE Killed     BY <2>9, KilledKeeps
  <2>10. CASE \E k \in Names : Meddle(k)  BY <2>10, MeddleKeeps
  <2>11. CASE UNCHANGED vars
    BY <2>11 DEF vars, Inv, TypeOK, Standing, MadeInOrder, ErrorsCounted, Untouched,
                 LookedAt, AllOrNothing
  <2> QED
    BY <2>1, <2>2, <2>3, <2>4, <2>5, <2>6, <2>7, <2>8, <2>9, <2>10, <2>11 DEF Next, Registrar
<1> QED  BY <1>1, <1>2, PTL DEF Spec

\* Types, and a roll-back that stands only at tasks this registration created.
THEOREM TypeCorrect == Spec => []TypeOK
<1>1. Inv => TypeOK  BY DEF Inv
<1> QED  BY <1>1, InvHolds, PTL

\* Any number of tasks is registered whole or put back whole, whatever calls
\* fail and whatever others do, as far as they kept their hands off.
THEOREM RegisteredOrRestored == Spec => []AllOrNothing
<1>1. Inv => AllOrNothing  BY DEF Inv
<1> QED  BY <1>1, InvHolds, PTL

\* What others put under a name is replaced only between a look and the call
\* that relies on it, or where the created task could not be read back.
THEOREM OthersAreKept == Spec => OthersKept
<1> DEFINE Kept(i) == \/ late
                      \/ made[i] = "no" /\ tasks[i] = orig[i]
                      \/ made[i] = "unread" /\ tasks[i] \in Ours
                      \/ made[i] = tasks[i]
           Lost(i) == tasks'[i] # tasks[i] /\ meddles' = meddles
<1>1. Inv /\ [Next]_vars => [\A i \in Names : Lost(i) => Kept(i)]_vars
  <2> SUFFICES ASSUME Inv, Next, NEW i \in Names, Lost(i) PROVE Kept(i)
    OBVIOUS
  <2>1. CASE Create
    <3>1. pc = "create" /\ i = at  BY <2>1 DEF Create, Put, Refused, Inv, TypeOK
    <3> QED
      BY <3>1, RegistrationAssumption DEF Inv, LookedAt, MadeInOrder, TypeOK, Names
  <2>2. CASE Unmake
    <3>1. pc \in {"unmake", "remake"} /\ i = at  BY <2>2 DEF Unmake, Put, Refused, Inv, TypeOK
    <3> QED  BY <3>1 DEF Inv, LookedAt
  <2>3. CASE \E k \in Names : Meddle(k)
    BY <2>3, RegistrationAssumption DEF Meddle, Inv, TypeOK
  <2>4. CASE Preflight \/ Recheck \/ ReadBack \/ Undo \/ Verify \/ Undone \/ Killed
    BY <2>4 DEF Preflight, Recheck, ReadBack, Undo, Verify, Undone, Killed
  <2> QED  BY <2>1, <2>2, <2>3, <2>4 DEF Next, Registrar
<1> QED  BY <1>1, InvHolds, PTL DEF Spec, OthersKept

-----------------------------------------------------------------------------
(* The theorems about the stop.                                            *)

LEMMA StopInvHolds == StopSpec => []StopInv
<1> USE StopAssumption DEF StopInv, StopTypes, ListedRun, ListedAhead, LookedTwice,
                           StoppedAreGone, Kinds
<1>1. StopInit => StopInv  BY DEF StopInit
<1>2. StopInv /\ [StopNext]_stopVars => StopInv'
  <2> SUFFICES ASSUME StopInv, [StopNext]_stopVars PROVE StopInv'  OBVIOUS
  <2>1. CASE List      BY <2>1 DEF List, Bad, GiveUpStop
  <2>2. CASE Look      BY <2>2 DEF Look, Bad, GiveUpStop, Shown
  <2>3. CASE TaskKill  BY <2>3 DEF TaskKill, Bad, NextPid, Runs
  <2>4. CASE Left      BY <2>4 DEF Left, Bad, GiveUpStop, NextPid, Shown
  <2>5. CASE AllStopped  BY <2>5 DEF AllStopped
  <2>6. CASE \E p \in Pids : Churn(p)
    <3>1. PICK p \in Pids : Churn(p)  BY <2>6
    <3>2. LookedTwice'
      <4>1. CASE step = "kill" /\ p = pid
        <5>1. reused'  BY <3>1, <4>1, Zenon DEF Churn
        <5> QED  BY <5>1
      <4>2. CASE ~(step = "kill" /\ p = pid)
        <5>1. reused => reused'  BY <3>1, Zenon DEF Churn
        <5>2. step' = "kill" => procs'[pid'] = procs[pid]  BY <3>1, <4>2 DEF Churn, Runs
        <5>3. step' = step  BY <3>1 DEF Churn
        <5> QED  BY <5>1, <5>2, <5>3
      <4> QED  BY <4>1, <4>2
    <3> QED  BY <3>1, <3>2 DEF Churn, Runs
  <2>7. CASE UNCHANGED stopVars  BY <2>7 DEF stopVars
  <2> QED  BY <2>1, <2>2, <2>3, <2>4, <2>5, <2>6, <2>7 DEF StopNext
<1> QED  BY <1>1, <1>2, PTL DEF StopSpec

\* A stop that reports success has ended every monitor it listed, for any number
\* of processes that end, start and take each other's ids meanwhile.
THEOREM StopEndsThemAll == StopSpec => []StoppedAreGone
<1>1. StopInv => StoppedAreGone  BY DEF StopInv
<1> QED  BY <1>1, StopInvHolds, PTL

\* No other process is ever killed, unless it took the id after the second look.
THEOREM OnlyMonitorsDie == StopSpec => KillsOnlyMonitors
<1> DEFINE Right(p) == procs'[p] # procs[p] /\ churn' = churn => procs[p] = "own" \/ reused
<1>1. StopInv /\ [StopNext]_stopVars => [\A p \in Pids : Right(p)]_stopVars
  <2> SUFFICES ASSUME StopInv, StopNext, NEW p \in Pids PROVE Right(p)
    OBVIOUS
  <2>1. CASE TaskKill
    BY <2>1 DEF TaskKill, StopInv, StopTypes, LookedTwice
  <2>2. CASE \E q \in Pids : Churn(q)
    BY <2>2 DEF Churn, StopInv, StopTypes
  <2>3. CASE List \/ Look \/ Left \/ AllStopped
    BY <2>3 DEF List, Look, Left, AllStopped
  <2> QED  BY <2>1, <2>2, <2>3 DEF StopNext
<1> QED  BY <1>1, StopInvHolds, PTL DEF StopSpec, KillsOnlyMonitors
=============================================================================
