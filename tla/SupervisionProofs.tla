-------------------------- MODULE SupervisionProofs --------------------------
(***************************************************************************)
(* Tray, watchdog and monitor for any number of process ids, of checks, of *)
(* restarts, of faults and of requests: types, the pause, the marker and   *)
(* the number of monitors; all of it also with a database that cannot be   *)
(* read, and what it takes to start a monitor against a pause then.        *)
(***************************************************************************)
EXTENDS SupervisionReads, FiniteSetTheorems, TLAPS

TrayPcs == {"gone", "idle", "flag", "list", "kill", "commit", "unmark",
            "undo", "probe", "popen"}
Trays   == [op: Ops, hits: SUBSET Procs, restart: BOOLEAN, pc: TrayPcs]
Runs    == [pc: {"idle", "look", "again", "started"} \cup Decided, hits: SUBSET Procs,
            checks: 0..StallChecks-1, kill: BOOLEAN, release: BOOLEAN, early: BOOLEAN]
States  == [stale: 0..StaleChecks-1, stall: 0..StallChecks-1, restarts: 0..MaxRestarts]

\* Which operations reach which of the tray's steps.
TrayOK ==
    /\ tray.pc = "flag" => tray.op \in {"pause", "exit", "resume", "boot"}
    /\ tray.pc \in {"list", "kill"} => tray.op \in {"save", "rescan", "pause", "run_now", "exit"}
    /\ tray.pc = "undo" => tray.op = "pause"

\* A run past its look at the window's restarts has room to count its own.
RestartsOK == wd.pc \in Decided \cup {"started"} => state.restarts < MaxRestarts

TypeInv == TypeOK /\ TrayOK /\ RestartsOK

\* The records the actions build.
LEMMA Records ==
    /\ Away \in Trays /\ Resting \in Trays
    /\ Away.pc = "gone" /\ Resting.pc = "idle"
    /\ \A op \in Ops, pc \in TrayPcs :
           Doing(op, pc) \in Trays /\ Doing(op, pc).op = op /\ Doing(op, pc).pc = pc
    /\ NoRun \in Runs /\ NoRun.pc = "idle" /\ NoRun.early = FALSE
<1>1. 0 \in 0..StallChecks-1
  BY SupervisionAssumption DEF SupervisionAssumption
<1> QED
  BY <1>1 DEF Away, Resting, Doing, NoRun, Trays, Runs, TrayPcs, Ops, Decided

-----------------------------------------------------------------------------
(* What the parts of a step do to the types.                               *)

ProcsOK == /\ proc \in [Procs -> {"none", "boot"} \cup Holding] /\ early \subseteq Procs
           /\ \A p, q \in Procs : proc[p] \in Holding /\ proc[q] \in Holding => p = q
FlagsOK == /\ paused \in BOOLEAN /\ marker \in BOOLEAN /\ fresh \in BOOLEAN
           /\ reason \in {"none", "user", "exit"} /\ wish \in {"run", "pause"}
           /\ faults \in 0..MaxFaults /\ asks \in 0..MaxAsks
HandOK  == tray \in Trays /\ TrayOK
DogOK   == wd \in Runs /\ state \in States /\ RestartsOK

LEMMA Parts == TypeInv <=> ProcsOK /\ FlagsOK /\ HandOK /\ DogOK
  BY DEF TypeInv, TypeOK, ProcsOK, FlagsOK, HandOK, DogOK, Trays, Runs, States, TrayPcs

LEMMA TypeInit == Init => TypeInv
<1> SUFFICES ASSUME Init PROVE TypeInv
  OBVIOUS
<1>1. ProcsOK
  BY DEF Init, ProcsOK, Holding
<1>2. FlagsOK
  <2>1. 0 \in 0..MaxFaults /\ 0 \in 0..MaxAsks
    BY SupervisionAssumption DEF SupervisionAssumption
  <2> QED
    BY <2>1 DEF Init, FlagsOK
<1>3. HandOK
  BY Records DEF Init, HandOK, TrayOK
<1>4. state \in States
  BY SupervisionAssumption DEF SupervisionAssumption, Init, States
<1>5. wd \in Runs /\ wd.pc = "idle"
  BY Records DEF Init
<1> QED
  BY <1>1, <1>2, <1>3, <1>4, <1>5, Parts DEF DogOK, RestartsOK, Decided

\* The processes: what any action does to them.
LEMMA ProcStep ==
    ASSUME TypeInv, Next
    PROVE  ProcsOK'
<1> USE DEF ProcsOK
<1>0. ProcsOK
  BY Parts
<1>1. CASE UNCHANGED <<proc, early>>
  BY <1>0, <1>1
\* A process is started.
<1>2. ASSUME NEW p \in Procs, NEW late, Spawn(p, late) PROVE ProcsOK'
  BY <1>0, <1>2 DEF Spawn, Holding
\* One ends.
<1>3. ASSUME NEW p \in Procs, proc' = [proc EXCEPT ![p] = "none"], UNCHANGED early
      PROVE  ProcsOK'
  BY <1>0, <1>3 DEF Holding
<1>4. ASSUME NEW p \in Procs, TakeLock(p) PROVE ProcsOK'
  BY <1>0, <1>4 DEF TakeLock, Locked, Holding
<1>5. ASSUME NEW p \in Procs, Breaks(p) PROVE ProcsOK'
  <2>1. PICK s \in {"none"} \cup IF proc[p] = "run" THEN {"stuck", "hung"} ELSE {} :
            proc' = [proc EXCEPT ![p] = s]
    BY <1>5 DEF Breaks
  <2>2. UNCHANGED early /\ s \in {"none", "stuck", "hung"} /\ (s # "none" => proc[p] = "run")
    BY <1>5, <2>1 DEF Breaks
  <2> QED
    BY <1>0, <2>1, <2>2 DEF Holding
<1>6. CASE MonitorStep
  BY <1>1, <1>4, <1>5, <1>6 DEF MonitorStep, Heartbeat, GoesStale
<1>7. CASE TrayStep
  BY <1>1, <1>2, <1>3, <1>7 DEF TrayStep, TrayFlag, TrayList, TrayStopped, TrayStopFails,
     TrayUndo, TrayCommit, TrayUnmark, TrayProbe, TrayPopen, TrayKill, procs
<1>8. CASE WdStep
  BY <1>1, <1>2, <1>3, <1>8 DEF WdStep, WdWake, WdLook, WdAgain, WdList, WdStopped, WdRelease,
     WdCheck, WdProbe, WdPopen, WdStarted, WdQueryFails, WdKill, procs
<1>9. CASE UserAsks \/ HealthTick \/ TrayStarts \/ TrayDies \/ MarkerExpires \/ WdDies
           \/ WindowSlides
  BY <1>1, <1>9 DEF UserAsks, AskUpdate, AskPause, AskResume, AskRunNow, AskStart, AskExit,
     HealthTick, TrayStarts, TrayDies, MarkerExpires, WdDies, WindowSlides, procs
<1> QED
  BY <1>6, <1>7, <1>8, <1>9 DEF Next

\* The flags and the bounds.
LEMMA FlagStep ==
    ASSUME TypeInv, Next
    PROVE  FlagsOK'
<1> USE DEF FlagsOK
<1>0. FlagsOK
  BY Parts
<1>1. /\ Fault => faults' \in 0..MaxFaults
      /\ Ask => asks' \in 0..MaxAsks
  BY <1>0, SupervisionAssumption DEF Fault, Ask, SupervisionAssumption
<1> HIDE DEF FlagsOK
<1>2. CASE MonitorStep
  BY <1>0, <1>1, <1>2 DEF MonitorStep, Heartbeat, GoesStale, TakeLock, Breaks, FlagsOK, flags
<1>3. CASE UserAsks
  BY <1>0, <1>1, <1>3 DEF UserAsks, AskUpdate, AskPause, AskResume, AskRunNow, AskStart, AskExit,
     SetMarker, FlagsOK, flags, procs
<1>4. CASE HealthTick \/ TrayStarts \/ TrayDies \/ MarkerExpires \/ WdDies \/ WindowSlides
  BY <1>0, <1>1, <1>4 DEF HealthTick, TrayStarts, TrayDies, MarkerExpires, WdDies, WindowSlides,
     FlagsOK, flags, procs
<1>5. CASE TrayStep
  <2>1. CASE TrayFlag \/ TrayUndo
    <3>1. TrayFlag => paused' \in BOOLEAN
      BY DEF TrayFlag
    <3>2. TrayUndo => paused' \in BOOLEAN
      BY DEF TrayUndo
    <3>3. UNCHANGED <<reason, wish, marker, fresh, faults, asks>>
      BY <2>1 DEF TrayFlag, TrayUndo, procs
    <3> QED
      BY <1>0, <2>1, <3>1, <3>2, <3>3 DEF FlagsOK
  <2>5. CASE TrayList
    BY <1>0, <2>5 DEF TrayList, FlagsOK, flags, procs
  <2>6. CASE TrayCommit
    BY <1>0, <1>1, <2>6 DEF TrayCommit, FlagsOK, flags, procs
  <2>7. CASE TrayUnmark
    BY <1>0, <1>1, <2>7 DEF TrayUnmark, FlagsOK, flags, procs
  <2>2. CASE TrayProbe \/ TrayPopen \/ \E p \in Procs : TrayKill(p)
    BY <1>0, <1>1, <2>2 DEF TrayProbe, TrayPopen, TrayKill, FlagsOK, flags, procs
  <2>3. CASE TrayStopped
    <3>1. wish' \in {"run", "pause"} /\ UNCHANGED <<paused, reason, marker, fresh, faults, asks>>
      BY <1>0, <2>3 DEF TrayStopped, FlagsOK, procs
    <3> QED
      BY <1>0, <3>1 DEF FlagsOK
  <2>4. CASE TrayStopFails
    <3>1. reason' \in {"none", "user", "exit"} /\ Fault /\ UNCHANGED <<paused, wish, marker, fresh, asks>>
      BY <1>0, <2>4 DEF TrayStopFails, FlagsOK, procs
    <3> QED
      BY <1>0, <1>1, <3>1 DEF FlagsOK
  <2> QED
    BY <1>5, <2>1, <2>2, <2>3, <2>4, <2>5, <2>6, <2>7 DEF TrayStep
<1>6. CASE WdStep
  BY <1>0, <1>1, <1>6 DEF WdStep, WdWake, WdLook, WdAgain, WdList, WdStopped, WdRelease,
     WdCheck, WdProbe, WdPopen, WdStarted, WdQueryFails, WdKill, FlagsOK, flags, procs
<1> QED
  BY <1>2, <1>3, <1>4, <1>5, <1>6 DEF Next

\* The tray and its operation.
LEMMA HandStep ==
    ASSUME TypeInv, Next
    PROVE  HandOK'
<1>0. /\ tray \in Trays /\ TrayOK /\ paused \in BOOLEAN
      /\ tray.op \in Ops /\ tray.pc \in TrayPcs /\ Live \subseteq Procs
  BY Parts DEF HandOK, FlagsOK, Trays, Live
<1>1. CASE UNCHANGED tray
  BY <1>0, <1>1 DEF HandOK, TrayOK
\* The operation begins or ends.
<1>2. CASE tray' \in {Away, Resting}
  BY <1>2, Records DEF HandOK, TrayOK
<1>3. ASSUME NEW op \in Ops, NEW pc \in TrayPcs, tray' = Doing(op, pc),
             pc = "flag" => op \in {"pause", "exit", "resume", "boot"},
             pc \in {"list", "kill"} => op \in {"save", "rescan", "pause", "run_now", "exit"},
             pc = "undo" => op = "pause"
      PROVE  HandOK'
  BY <1>3, Records DEF HandOK, TrayOK
\* It goes on to a step any operation may reach.
<1>4. ASSUME NEW pc \in {"probe", "popen", "commit", "unmark"}, tray' = [tray EXCEPT !.pc = pc]
      PROVE  HandOK'
  BY <1>0, <1>4 DEF HandOK, TrayOK, Trays, TrayPcs
<1>5. CASE UserAsks
  <2>1. CASE \E op \in {"save", "rescan"} : AskUpdate(op)
    <3>1. PICK op \in {"save", "rescan"} : AskUpdate(op)
      BY <2>1
    <3>2. tray' = [Doing(op, "list") EXCEPT !.restart = ~paused]
      BY <3>1 DEF AskUpdate
    <3> QED
      BY <1>0, <3>2 DEF HandOK, TrayOK, Trays, TrayPcs, Doing, Ops
  <2>2. CASE AskPause \/ AskResume \/ AskRunNow \/ AskStart \/ AskExit
    BY <1>3, <2>2 DEF AskPause, AskResume, AskRunNow, AskStart, AskExit, Begin, Ops, TrayPcs
  <2> QED
    BY <1>5, <2>1, <2>2 DEF UserAsks
<1>6. CASE HealthTick \/ TrayStarts \/ TrayDies
  BY <1>2, <1>3, <1>6 DEF HealthTick, TrayStarts, TrayDies, Begin, Ops, TrayPcs
<1>7. CASE TrayStep
  <2>1. CASE TrayFlag
    <3>1. paused' \in BOOLEAN /\ tray' = [tray EXCEPT !.pc = IF paused' THEN "list" ELSE "probe"]
          /\ paused' = (tray.op \in {"pause", "exit"})
      BY <2>1 DEF TrayFlag
    <3>2. CASE paused'
      BY <1>0, <3>1, <3>2 DEF HandOK, TrayOK, Trays, TrayPcs
    <3>3. CASE ~paused'
      BY <1>4, <3>1, <3>3
    <3> QED
      BY <3>2, <3>3
  <2>2. CASE TrayList
    BY <1>0, <2>2 DEF TrayList, HandOK, TrayOK, Trays, TrayPcs
  <2>3. CASE \E p \in Procs : TrayKill(p)
    BY <1>0, <2>3 DEF TrayKill, HandOK, TrayOK, Trays, TrayPcs
  <2>4. CASE TrayStopped
    <3>1. tray.op \in {"save", "rescan", "pause", "run_now", "exit"}
      BY <1>0, <2>4 DEF TrayStopped, TrayOK
    <3>2. \/ tray' = [tray EXCEPT !.pc = "commit"] \/ tray' = [tray EXCEPT !.pc = "probe"]
          \/ tray' \in {Away, Resting}
      BY <2>4, <3>1 DEF TrayStopped
    <3> QED
      BY <1>2, <1>4, <3>2
  <2>5. CASE TrayStopFails
    <3>1. tray.op \in {"save", "rescan", "pause", "run_now", "exit"}
      BY <1>0, <2>5 DEF TrayStopFails, TrayOK
    <3>2. \/ tray.op \in {"save", "rescan"} /\ tray' = Doing(tray.op, "unmark")
          \/ tray' = Doing("pause", "undo")
          \/ tray' \in {Away, Resting}
      BY <2>5, <3>1 DEF TrayStopFails
    <3> QED
      BY <1>2, <1>3, <3>2 DEF Ops, TrayPcs
  <2>6. CASE TrayCommit
    BY <1>0, <2>6 DEF TrayCommit, HandOK, TrayOK, Trays, TrayPcs
  <2>7. CASE TrayUndo \/ TrayUnmark \/ TrayProbe \/ TrayPopen
    BY <1>2, <1>4, <2>7 DEF TrayUndo, TrayUnmark, TrayProbe, TrayPopen
  <2> QED
    BY <1>7, <2>1, <2>2, <2>3, <2>4, <2>5, <2>6, <2>7 DEF TrayStep
<1>8. CASE MonitorStep \/ MarkerExpires \/ WdStep \/ WdDies \/ WindowSlides
  BY <1>1, <1>8 DEF MonitorStep, Heartbeat, GoesStale, TakeLock, Breaks, MarkerExpires, WdDies,
     WindowSlides, WdStep, WdWake, WdLook, WdAgain, WdList, WdStopped, WdRelease,
     WdCheck, WdProbe, WdPopen, WdStarted, WdQueryFails, WdKill
<1> QED
  BY <1>5, <1>6, <1>7, <1>8 DEF Next

\* The watchdog's run and its state file.
LEMMA DogStep ==
    ASSUME TypeInv, Next
    PROVE  DogOK'
<1>0. /\ wd \in Runs /\ state \in States /\ RestartsOK /\ Live \subseteq Procs
      /\ StaleChecks \in Nat \ {0} /\ StallChecks \in Nat \ {0} /\ MaxRestarts \in Nat
      /\ state.stale \in 0..StaleChecks-1 /\ state.stall \in 0..StallChecks-1
      /\ state.restarts \in 0..MaxRestarts /\ wd.checks \in 0..StallChecks-1
  BY Parts, SupervisionAssumption DEF DogOK, Live, SupervisionAssumption, Runs, States
<1>1. CASE UNCHANGED <<wd, state>>
  BY <1>0, <1>1 DEF DogOK, RestartsOK
<1>2. ASSUME NEW stale \in 0..StaleChecks-1, NEW stall \in 0..StallChecks-1, NEW n \in {0, 1},
             n = 1 => state.restarts < MaxRestarts, RunEnds(stale, stall, n)
      PROVE  DogOK'
  <2>1. state' \in States
    BY <1>0, <1>2 DEF RunEnds, States
  <2> QED
    BY <1>2, <2>1, Records DEF RunEnds, DogOK, RestartsOK, Decided
<1>3. 0 \in 0..StaleChecks-1 /\ 0 \in 0..StallChecks-1
  BY <1>0
\* The run goes on from a step before the count of the window to one after it.
<1>4. ASSUME NEW pc \in Decided \cup {"started"}, Goto(pc), UNCHANGED state,
             state.restarts < MaxRestarts
      PROVE  DogOK'
  BY <1>0, <1>4 DEF Goto, DogOK, RestartsOK, Runs
<1>5. wd.pc \in Decided \cup {"started"} => state.restarts < MaxRestarts
  BY <1>0 DEF RestartsOK
<1>6. CASE WdWake
  <2>1. CASE RunEnds(0, 0, 0)
    BY <1>2, <1>3, <2>1
  <2>2. CASE wd' = [NoRun EXCEPT !.pc = "look", !.checks = state.stall] /\ UNCHANGED state
    BY <1>0, <2>2 DEF DogOK, RestartsOK, Runs, NoRun, Decided
  <2> QED
    BY <1>6, <2>1, <2>2 DEF WdWake
<1>7. CASE WdLook
  <2>1. CASE \E k, r \in BOOLEAN : wd' = [wd EXCEPT !.pc = "again", !.kill = k, !.release = r]
             /\ UNCHANGED state
    BY <1>0, <2>1 DEF DogOK, RestartsOK, Runs, Decided
  <2>2. CASE \/ state.stale + 1 < StaleChecks /\ RunEnds(state.stale + 1, 0, 0)
             \/ RunEnds(0, 0, 0)
             \/ wd.checks + 1 < StallChecks /\ RunEnds(0, wd.checks + 1, 0)
    <3>1. /\ state.stale + 1 < StaleChecks => state.stale + 1 \in 0..StaleChecks-1
          /\ wd.checks + 1 < StallChecks => wd.checks + 1 \in 0..StallChecks-1
      BY <1>0
    <3> QED
      BY <1>2, <1>3, <2>2, <3>1
  <2>3. CASE wd' = [wd EXCEPT !.pc = "again", !.kill = Live # {}] /\ UNCHANGED state
    BY <1>0, <2>3 DEF DogOK, RestartsOK, Runs, Decided
  <2>4. CASE wd' = [wd EXCEPT !.pc = "again", !.kill = TRUE] /\ UNCHANGED state
    BY <1>0, <2>4 DEF DogOK, RestartsOK, Runs, Decided
  <2> QED
    BY <1>7, <2>1, <2>2, <2>3, <2>4 DEF WdLook
<1>8. CASE WdAgain
  <2>1. CASE RunEnds(0, 0, 0)
    BY <1>2, <1>3, <2>1
  <2>2. CASE state.restarts < MaxRestarts /\ (Goto("list") \/ Goto("check")) /\ UNCHANGED state
    BY <1>4, <2>2 DEF Decided
  <2> QED
    BY <1>0, <1>8, <2>1, <2>2 DEF WdAgain
<1>9. CASE WdList
  BY <1>0, <1>5, <1>9 DEF WdList, DogOK, RestartsOK, Runs, Decided
<1>10. CASE \E p \in Procs : WdKill(p)
  BY <1>0, <1>5, <1>10 DEF WdKill, DogOK, RestartsOK, Runs, Decided
<1>11. CASE WdStopped \/ WdRelease \/ WdPopen
  BY <1>4, <1>5, <1>11 DEF WdStopped, WdRelease, WdPopen, Decided
<1>12. CASE WdCheck \/ WdProbe \/ WdStarted
  BY <1>2, <1>3, <1>4, <1>5, <1>12 DEF WdCheck, WdProbe, WdStarted, Decided
<1>13. CASE WdQueryFails
  BY <1>0, <1>2, <1>3, <1>5, <1>13 DEF WdQueryFails, Decided
<1>14. CASE WdDies
  BY <1>0, <1>14, Records DEF WdDies, DogOK, RestartsOK, Decided
<1>15. CASE WindowSlides
  BY <1>0, <1>15 DEF WindowSlides, DogOK, RestartsOK, States
<1>16. CASE UserAsks
  <2>1. CASE \E op \in {"save", "rescan"} : AskUpdate(op)
    <3>1. wd' = [wd EXCEPT !.early = @ \/ wd.pc \in Decided] /\ UNCHANGED state
      BY <2>1 DEF AskUpdate, SetMarker
    <3> QED
      BY <1>0, <3>1 DEF DogOK, RestartsOK, Runs
  <2>2. CASE AskPause \/ AskResume \/ AskRunNow \/ AskStart \/ AskExit
    BY <1>1, <2>2 DEF AskPause, AskResume, AskRunNow, AskStart, AskExit, dog
  <2> QED
    BY <1>16, <2>1, <2>2 DEF UserAsks
<1>17. CASE MonitorStep \/ HealthTick \/ TrayStarts \/ TrayDies \/ MarkerExpires \/ TrayStep
  BY <1>1, <1>17 DEF MonitorStep, Heartbeat, GoesStale, TakeLock, Breaks, MarkerExpires,
     HealthTick, TrayStarts, TrayDies, TrayStep, TrayFlag, TrayList, TrayStopped, TrayStopFails,
     TrayUndo, TrayCommit, TrayUnmark, TrayProbe, TrayPopen, TrayKill, dog
<1> QED
  BY <1>6, <1>7, <1>8, <1>9, <1>10, <1>11, <1>12, <1>13, <1>14, <1>15, <1>16, <1>17
     DEF Next, WdStep

LEMMA TypeStep == TypeInv /\ [Next]_vars => TypeInv'
<1>1. ASSUME TypeInv, Next PROVE TypeInv'
  BY <1>1, ProcStep, FlagStep, HandStep, DogStep
     DEF TypeInv, TypeOK, ProcsOK, FlagsOK, HandOK, DogOK, Trays, Runs, States, TrayPcs
<1>2. ASSUME TypeInv, UNCHANGED vars PROVE TypeInv'
  BY <1>2 DEF TypeInv, TypeOK, TrayOK, RestartsOK, vars, flags, procs, dog
<1> QED
  BY <1>1, <1>2

\* Every variable keeps its type: among other things the restarts of a window
\* stay within MAX_RESTARTS and one monitor holds the lock.
THEOREM Typed == Spec => []TypeInv
  BY TypeInit, TypeStep, PTL DEF Spec

\* Types and bounds of tray, watchdog and monitor.
THEOREM TypeCorrect == Spec => []TypeOK
<1>1. TypeInv => TypeOK
  BY DEF TypeInv
<1> QED
  BY <1>1, Typed, PTL

-----------------------------------------------------------------------------
(* The pause.                                                              *)

\* Beside PauseKept: while the tray pauses, its reason is the user's and it has
\* not said so yet; an operation that will clear the flag found or made the
\* wish to run.
PauseInv ==
    /\ PauseKept
    /\ tray.op = "pause" /\ tray.pc \in {"flag", "list", "kill", "undo"} => wish = "run"
    /\ tray.op = "pause" /\ tray.pc \in {"flag", "list", "kill"} => reason = "user"
    /\ tray.op = "pause" /\ tray.pc \in {"list", "kill"} => paused
    /\ tray.op \in {"resume", "boot"} /\ tray.pc = "flag" => wish = "run"

LEMMA PauseStep == TypeInv /\ PauseInv /\ [Next]_vars => PauseInv'
<1> SUFFICES ASSUME TypeInv, PauseInv, [Next]_vars PROVE PauseInv'
  OBVIOUS
<1>0. /\ TrayOK /\ tray \in Trays
      /\ wish = "run" \/ wish = "pause"
      /\ wish = "pause" => paused /\ reason # "exit"
  <2>1. FlagsOK /\ HandOK
    BY Parts
  <2>2. wish \in {"run", "pause"}
    BY <2>1 DEF FlagsOK
  <2>3. wish = "pause" => paused /\ reason # "exit"
    BY DEF PauseInv, PauseKept
  <2>4. TrayOK /\ tray \in Trays
    BY <2>1 DEF HandOK
  <2> QED
    BY <2>2, <2>3, <2>4
<1>1. CASE UNCHANGED <<flags, tray>>
  BY <1>1 DEF flags, PauseInv, PauseKept
\* The tray rests or is gone, or does something that is none of the above.
<1>2. ASSUME UNCHANGED <<paused, reason, wish>>,
             \/ tray' \in {Away, Resting}
             \/ tray'.pc \notin {"flag", "list", "kill", "undo"}
             \/ tray'.op \notin {"pause", "resume", "boot"}
      PROVE  PauseInv'
  BY <1>0, <1>2, Records DEF PauseInv, PauseKept
<1>3. CASE UserAsks
  <2>1. CASE \E op \in {"save", "rescan"} : AskUpdate(op)
    <3>1. PICK op \in {"save", "rescan"} : AskUpdate(op)
      BY <2>1
    <3>2. tray'.op = op /\ UNCHANGED <<paused, reason, wish>>
      BY <3>1 DEF AskUpdate, Doing, flags
    <3> QED
      BY <1>2, <3>2
  <2>2. CASE AskPause
    BY <1>0, <2>2, Records DEF AskPause, Begin, PauseInv, PauseKept, Ops, TrayPcs
  <2>3. CASE AskResume
    BY <1>0, <2>3, Records DEF AskResume, Begin, PauseInv, PauseKept, Ops, TrayPcs
  <2>4. CASE AskRunNow \/ AskStart
    BY <1>2, <2>4, Records DEF AskRunNow, AskStart, Begin, flags, Ops, TrayPcs
  <2>5. CASE AskExit
    <3>1. tray'.op = "exit" /\ (paused => reason' = reason) /\ UNCHANGED <<paused, wish>>
      BY <2>5, Records DEF AskExit, Begin, Ops, TrayPcs
    <3> QED
      BY <1>0, <3>1 DEF PauseInv, PauseKept
  <2> QED
    BY <1>3, <2>1, <2>2, <2>3, <2>4, <2>5 DEF UserAsks
<1>4. CASE HealthTick \/ TrayDies
  BY <1>2, <1>4, Records DEF HealthTick, TrayDies, Begin, flags, Ops, TrayPcs
<1>5. CASE TrayStarts
  <2>1. CASE paused /\ reason = "exit"
    BY <1>0, <1>5, <2>1, Records DEF TrayStarts, PauseInv, PauseKept, Ops, TrayPcs
  <2>2. CASE ~(paused /\ reason = "exit")
    BY <1>2, <1>5, <2>2, Records DEF TrayStarts, Ops, TrayPcs
  <2> QED
    BY <2>1, <2>2
<1>6. CASE TrayStep
  <2>1. CASE TrayFlag
    <3>1. /\ paused' = (tray.op \in {"pause", "exit"}) /\ UNCHANGED <<reason, wish>>
          /\ tray'.op = tray.op /\ tray'.pc = IF paused' THEN "list" ELSE "probe"
          /\ tray.pc = "flag" /\ tray.op \in {"pause", "exit", "resume", "boot"}
      BY <1>0, <2>1 DEF TrayFlag, TrayOK, Trays
    <3> QED
      BY <1>0, <3>1 DEF PauseInv, PauseKept
  <2>2. CASE TrayList \/ \E p \in Procs : TrayKill(p)
    <3>1. /\ tray'.op = tray.op /\ tray.pc \in {"list", "kill"} /\ tray'.pc = "kill"
          /\ UNCHANGED <<paused, reason, wish>>
      BY <1>0, <2>2 DEF TrayList, TrayKill, Trays, flags
    <3> QED
      BY <3>1 DEF PauseInv, PauseKept
  <2>3. CASE TrayStopped
    <3>1. tray.pc = "kill" /\ tray.op \in {"save", "rescan", "pause", "run_now", "exit"}
      BY <1>0, <2>3 DEF TrayStopped, TrayOK
    <3>2. CASE tray.op = "pause"
      <4>1. wish' = "pause" /\ tray' = Resting /\ paused' /\ reason' = "user"
        BY <2>3, <3>1, <3>2 DEF TrayStopped, PauseInv
      <4> QED
        BY <4>1, Records DEF PauseInv, PauseKept
    <3>3. CASE tray.op # "pause"
      <4>1. /\ UNCHANGED <<paused, reason, wish>>
            /\ \/ tray' = [tray EXCEPT !.pc = "commit"] \/ tray' = [tray EXCEPT !.pc = "probe"]
               \/ tray' = Away
        BY <2>3, <3>1, <3>3 DEF TrayStopped
      <4> QED
        BY <1>0, <1>2, <4>1 DEF Trays
    <3> QED
      BY <3>2, <3>3
  <2>4. CASE TrayStopFails
    <3>1. tray.op \in {"save", "rescan", "pause", "run_now", "exit"} /\ tray.pc \in {"list", "kill"}
      BY <1>0, <2>4 DEF TrayStopFails, TrayOK
    <3>2. CASE tray.op = "pause"
      <4>1. wish' = "run" /\ tray' = Doing("pause", "undo") /\ UNCHANGED paused
        BY <2>4, <3>1, <3>2 DEF TrayStopFails, PauseInv
      <4> QED
        BY <4>1, Records DEF PauseInv, PauseKept, Ops, TrayPcs
    <3>3. CASE tray.op # "pause"
      <4>1. /\ UNCHANGED <<paused, reason, wish>>
            /\ \/ tray' \in {Away, Resting}
               \/ tray.op \in {"save", "rescan"} /\ tray' = Doing(tray.op, "unmark")
        BY <2>4, <3>1, <3>3 DEF TrayStopFails
      <4> QED
        BY <1>2, <4>1, Records DEF Ops, TrayPcs
    <3> QED
      BY <3>2, <3>3
  <2>5. CASE TrayUndo
    <3>1. wish = "run" /\ UNCHANGED wish /\ tray' = Resting
      BY <1>0, <2>5 DEF TrayUndo, TrayOK, PauseInv
    <3> QED
      BY <3>1, Records DEF PauseInv, PauseKept
  <2>6. CASE TrayCommit \/ TrayUnmark \/ TrayProbe \/ TrayPopen
    <3>1. /\ UNCHANGED <<paused, reason, wish>>
          /\ tray' = Resting \/ tray'.pc \in {"unmark", "probe", "popen"}
      BY <1>0, <2>6 DEF TrayCommit, TrayUnmark, TrayProbe, TrayPopen, Trays, flags
    <3> QED
      BY <1>2, <3>1
  <2> QED
    BY <1>6, <2>1, <2>2, <2>3, <2>4, <2>5, <2>6 DEF TrayStep
<1>7. CASE MonitorStep \/ MarkerExpires \/ WdStep \/ WdDies \/ WindowSlides
  BY <1>1, <1>7 DEF MonitorStep, Heartbeat, GoesStale, TakeLock, Breaks, MarkerExpires, WdDies,
     WindowSlides, WdStep, WdWake, WdLook, WdAgain, WdList, WdStopped, WdRelease,
     WdCheck, WdProbe, WdPopen, WdStarted, WdQueryFails, WdKill
<1>8. CASE UNCHANGED vars
  BY <1>1, <1>8 DEF vars
<1> QED
  BY <1>3, <1>4, <1>5, <1>6, <1>7, <1>8 DEF Next

\* A pause the user was told of stays, whatever the tray, the watchdog and the
\* monitor do, until the user resumes.
THEOREM ToldPauseStays == Spec => []PauseKept
<1>1. Init => PauseInv
  BY Records DEF Init, PauseInv, PauseKept
<1>2. PauseInv => PauseKept
  BY DEF PauseInv
<1> QED
  BY <1>1, <1>2, Typed, PauseStep, PTL DEF Spec

-----------------------------------------------------------------------------
(* The marker.                                                             *)

\* A run past its look at the marker while the marker stands looked before it
\* was set; what such a run starts is all that the stop of a Save leaves.
MarkerInv ==
    /\ marker /\ wd.pc \in Decided => wd.early
    /\ marker /\ tray.pc = "kill" => Live \subseteq early \cup tray.hits
    /\ CommitUndisturbed

\* A process that ends takes no other with it.
LEMMA ProcEnds ==
    ASSUME TypeInv, NEW p \in Procs, proc' = [proc EXCEPT ![p] = "none"]
    PROVE  Live' = Live \ {p}
  BY Parts DEF ProcsOK, Live

LEMMA ProcSpawns ==
    ASSUME TypeInv, NEW p \in Procs, NEW late, Spawn(p, late)
    PROVE  Live' = Live \cup {p} /\ p \notin Live
  BY Parts DEF ProcsOK, Live, Spawn

\* The monitor's own steps start no process.
LEMMA MonitorLive ==
    ASSUME TypeInv, MonitorStep
    PROVE  Live' \subseteq Live /\ UNCHANGED <<flags, marker, early, tray, dog>>
<1>0. proc \in [Procs -> {"none", "boot"} \cup Holding]
  BY Parts DEF ProcsOK
<1>1. CASE Heartbeat \/ GoesStale
  BY <1>1 DEF Heartbeat, GoesStale, Live
<1>2. ASSUME NEW p \in Procs, TakeLock(p)
      PROVE  Live' \subseteq Live /\ UNCHANGED <<flags, marker, early, tray, dog>>
  BY <1>0, <1>2 DEF TakeLock, Live
<1>3. ASSUME NEW p \in Procs, Breaks(p)
      PROVE  Live' \subseteq Live /\ UNCHANGED <<flags, marker, early, tray, dog>>
  BY <1>0, <1>3 DEF Breaks, Live
<1> QED
  BY <1>1, <1>2, <1>3 DEF MonitorStep

LEMMA MarkerStep == TypeInv /\ MarkerInv /\ [Next]_vars => MarkerInv'
<1> SUFFICES ASSUME TypeInv, MarkerInv, [Next]_vars PROVE MarkerInv'
  OBVIOUS
<1>0. /\ TrayOK /\ tray \in Trays /\ wd \in Runs
      /\ Live \subseteq Procs
  BY Parts DEF HandOK, DogOK, Live
<1>1. CASE UNCHANGED <<marker, procs, tray, wd>>
  BY <1>1 DEF MarkerInv, CommitUndisturbed, Live, procs
<1>2. CASE MonitorStep
  BY <1>2, MonitorLive DEF MarkerInv, CommitUndisturbed, dog
\* The tray does nothing with processes.
<1>3. ASSUME marker' => marker, UNCHANGED <<procs, wd>>, tray'.pc \notin {"kill", "commit"}
      PROVE  MarkerInv'
  BY <1>3 DEF MarkerInv, CommitUndisturbed, Live, procs
<1>4. CASE UserAsks
  <2>1. CASE \E op \in {"save", "rescan"} : AskUpdate(op)
    <3>1. /\ tray'.pc = "list" /\ wd' = [wd EXCEPT !.early = @ \/ wd.pc \in Decided]
      BY <2>1 DEF AskUpdate, SetMarker, Doing
    <3>2. wd'.pc = wd.pc /\ (wd.pc \in Decided => wd'.early)
      BY <1>0, <3>1 DEF Runs
    <3> QED
      BY <3>1, <3>2 DEF MarkerInv, CommitUndisturbed
  <2>2. CASE AskPause \/ AskResume \/ AskRunNow \/ AskStart \/ AskExit
    BY <1>3, <2>2, Records DEF AskPause, AskResume, AskRunNow, AskStart, AskExit, Begin, dog,
       Ops, TrayPcs
  <2> QED
    BY <1>4, <2>1, <2>2 DEF UserAsks
<1>5. CASE HealthTick \/ TrayStarts \/ TrayDies
  BY <1>3, <1>5, Records DEF HealthTick, TrayStarts, TrayDies, Begin, dog, Ops, TrayPcs
<1>6. CASE MarkerExpires
  BY <1>6 DEF MarkerExpires, MarkerInv, CommitUndisturbed
<1>7. CASE TrayStep
  <2>1. CASE TrayFlag \/ TrayStopFails \/ TrayUndo
    <3>1. UNCHANGED <<marker, procs, wd>>
      BY <2>1 DEF TrayFlag, TrayStopFails, TrayUndo, dog
    <3>2. tray'.pc \notin {"kill", "commit"}
      <4>1. CASE TrayFlag
        BY <1>0, <4>1 DEF TrayFlag, Trays
      <4>2. CASE TrayUndo
        BY <4>2, Records DEF TrayUndo
      <4>3. CASE TrayStopFails
        <5>1. tray.op \in {"save", "rescan", "pause", "run_now", "exit"}
          BY <1>0, <4>3 DEF TrayStopFails, TrayOK
        <5>2. \/ tray' \in {Away, Resting} \/ tray' = Doing("pause", "undo")
              \/ tray.op \in {"save", "rescan"} /\ tray' = Doing(tray.op, "unmark")
          BY <4>3, <5>1 DEF TrayStopFails
        <5> QED
          BY <5>2, Records DEF Ops, TrayPcs
      <4> QED
        BY <2>1, <4>1, <4>2, <4>3
    <3> QED
      BY <1>3, <3>1, <3>2
  <2>2. CASE TrayList
    <3>1. tray'.pc = "kill" /\ tray'.hits = Live /\ UNCHANGED <<marker, procs, wd>>
      BY <1>0, <2>2 DEF TrayList, Trays, dog
    <3> QED
      BY <3>1 DEF MarkerInv, CommitUndisturbed, Live, procs
  <2>3. ASSUME NEW p \in Procs, TrayKill(p) PROVE MarkerInv'
    <3>1. Live' = Live \ {p}
      BY <2>3, ProcEnds DEF TrayKill
    <3>2. /\ tray.pc = "kill" /\ tray'.pc = "kill" /\ tray'.hits = tray.hits \ {p}
          /\ UNCHANGED <<marker, early, wd>>
      BY <1>0, <2>3 DEF TrayKill, Trays, dog
    <3> QED
      BY <3>1, <3>2 DEF MarkerInv, CommitUndisturbed
  <2>4. CASE TrayStopped
    BY <2>4 DEF TrayStopped, MarkerInv, CommitUndisturbed, Live, procs, dog
  <2>5. CASE TrayCommit \/ TrayUnmark \/ TrayProbe
    <3>1. (marker' => marker) /\ UNCHANGED <<procs, wd>>
      BY <2>5 DEF TrayCommit, TrayUnmark, TrayProbe, dog
    <3>2. tray' = Resting \/ tray'.pc \in {"unmark", "probe", "popen"}
      <4>1. TrayCommit => tray'.pc = "unmark"
        BY <1>0 DEF TrayCommit, Trays
      <4>2. TrayUnmark => tray' = Resting \/ tray'.pc = "probe"
        BY <1>0 DEF TrayUnmark, Trays
      <4>3. TrayProbe => tray' = Resting \/ tray'.pc = "popen"
        BY <1>0 DEF TrayProbe, Trays
      <4> QED
        BY <2>5, <4>1, <4>2, <4>3
    <3>3. tray'.pc \notin {"kill", "commit"}
      BY <3>2, Records
    <3> QED
      BY <1>3, <3>1, <3>3
  <2>6. CASE TrayPopen
    <3>1. tray'.pc = "idle" /\ UNCHANGED <<marker, wd>>
      BY <2>6, Records DEF TrayPopen, dog
    <3> QED
      BY <3>1 DEF MarkerInv, CommitUndisturbed
  <2> QED
    BY <1>7, <2>1, <2>2, <2>3, <2>4, <2>5, <2>6 DEF TrayStep
\* The watchdog reaches a decision only without the marker or from another one.
<1>8. ASSUME UNCHANGED <<marker, procs, tray>>,
             wd'.pc \in Decided => ~marker \/ (wd.pc \in Decided /\ wd'.early = wd.early)
      PROVE  MarkerInv'
  BY <1>8 DEF MarkerInv, CommitUndisturbed, Live, procs
<1>9. CASE WdStep
  <2>0. \A stale, stall, n : RunEnds(stale, stall, n) => wd'.pc \notin Decided
    BY Records DEF RunEnds, Decided
  <2>1. CASE WdWake \/ WdLook \/ WdAgain
    <3>1. UNCHANGED <<marker, procs, tray>>
      BY <2>1 DEF WdWake, WdLook, WdAgain
    <3>2. CASE WdWake
      BY <1>0, <1>8, <2>0, <3>1, <3>2 DEF WdWake
    <3>3. CASE WdLook
      <4>1. \/ wd'.pc \notin Decided
            \/ \E k, r \in BOOLEAN : wd' = [wd EXCEPT !.pc = "again", !.kill = k, !.release = r]
            \/ \E k \in BOOLEAN : wd' = [wd EXCEPT !.pc = "again", !.kill = k]
        BY <2>0, <3>3 DEF WdLook
      <4> QED
        BY <1>0, <1>8, <3>1, <4>1 DEF Runs, Decided
    <3>4. CASE WdAgain
      BY <1>8, <2>0, <3>1, <3>4 DEF WdAgain
    <3> QED
      BY <2>1, <3>2, <3>3, <3>4
  <2>2. CASE WdList \/ WdStopped \/ WdRelease
    <3>1. UNCHANGED <<marker, procs, tray>> /\ wd.pc \in Decided /\ wd'.early = wd.early
      BY <1>0, <2>2 DEF WdList, WdStopped, WdRelease, Goto, Runs, Decided
    <3> QED
      BY <1>8, <3>1
  <2>3. CASE WdCheck \/ WdProbe
    <3>1. /\ UNCHANGED <<marker, procs, tray>> /\ wd.pc \in Decided
          /\ wd'.pc \notin Decided \/ wd'.early = wd.early
      BY <1>0, <2>0, <2>3 DEF WdCheck, WdProbe, Goto, Runs, Decided
    <3> QED
      BY <1>8, <3>1
  <2>4. CASE WdPopen
    <3>1. PICK p \in Procs : Spawn(p, wd.early)
      BY <2>4 DEF WdPopen
    <3>2. Live' = Live \cup {p}
      BY <3>1, ProcSpawns
    <3>3. marker => early' = early \cup {p}
      BY <2>4, <3>1 DEF WdPopen, Spawn, MarkerInv, Decided
    <3>4. wd'.pc \notin Decided /\ UNCHANGED <<marker, tray>>
      BY <1>0, <2>4 DEF WdPopen, Goto, Runs, Decided
    <3> QED
      BY <3>2, <3>3, <3>4 DEF MarkerInv, CommitUndisturbed
  <2>5. CASE WdStarted \/ WdQueryFails
    <3>1. UNCHANGED <<marker, procs, tray>> /\ wd'.pc \notin Decided
      BY <2>0, <2>5 DEF WdStarted, WdQueryFails
    <3> QED
      BY <1>8, <3>1
  <2>6. ASSUME NEW p \in Procs, WdKill(p) PROVE MarkerInv'
    <3>1. Live' = Live \ {p}
      BY <2>6, ProcEnds DEF WdKill
    <3>2. wd'.pc = wd.pc /\ wd'.early = wd.early /\ UNCHANGED <<marker, early, tray>>
      BY <1>0, <2>6 DEF WdKill, Runs
    <3> QED
      BY <3>1, <3>2 DEF MarkerInv, CommitUndisturbed
  <2> QED
    BY <1>9, <2>1, <2>2, <2>3, <2>4, <2>5, <2>6 DEF WdStep
<1>10. CASE WdDies
  BY <1>8, <1>10, Records DEF WdDies, Decided
<1>11. CASE WindowSlides
  BY <1>1, <1>11 DEF WindowSlides
<1>12. CASE UNCHANGED vars
  BY <1>1, <1>12 DEF vars, dog
<1> QED
  BY <1>2, <1>4, <1>5, <1>6, <1>7, <1>9, <1>10, <1>11, <1>12 DEF Next

\* A Save that commits under its marker meets no monitor but one that a run of
\* the watchdog had decided on before.
THEOREM MarkerHolds == Spec => []CommitUndisturbed
<1>1. Init => MarkerInv
  BY Records DEF Init, MarkerInv, CommitUndisturbed
<1>2. MarkerInv => CommitUndisturbed
  BY DEF MarkerInv
<1> QED
  BY <1>1, <1>2, Typed, MarkerStep, PTL DEF Spec

-----------------------------------------------------------------------------
(* The number of monitors.                                                 *)

\* Whoever is about to start a monitor has seen none, so it counts as one.
CountInv ==
    /\ tray.pc = "popen" \/ wd.pc = "popen" => Cardinality(Live) <= 1
    /\ tray.pc = "popen" /\ wd.pc = "popen" => Live = {}
    /\ OneTooMany

LEMMA LiveCount ==
    ASSUME TypeInv
    PROVE  /\ IsFiniteSet(Live) /\ Cardinality(Live) \in Nat
           /\ Cardinality({}) = 0
           /\ \A S \in SUBSET Live : Cardinality(S) \in Nat /\ Cardinality(S) <= Cardinality(Live)
           /\ \A p \in Procs \ Live : Cardinality(Live \cup {p}) = Cardinality(Live) + 1
<1>1. IsFiniteSet(Live)
  BY SupervisionAssumption, FS_Subset DEF SupervisionAssumption, Live
<1>2. \A S \in SUBSET Live : IsFiniteSet(S) /\ Cardinality(S) <= Cardinality(Live)
  BY <1>1, FS_Subset
<1> QED
  BY <1>1, <1>2, FS_CardinalityType, FS_AddElement, FS_EmptySet

LEMMA CountStep == TypeInv /\ CountInv /\ [Next]_vars => CountInv'
<1> SUFFICES ASSUME TypeInv, CountInv, [Next]_vars PROVE CountInv'
  OBVIOUS
<1>0. TrayOK /\ tray \in Trays /\ wd \in Runs
  BY Parts DEF HandOK, DogOK
\* Nobody comes near a start, and no process appears.
<1>1. ASSUME Live' \subseteq Live,
             tray'.pc = "popen" => tray.pc = "popen", wd'.pc = "popen" => wd.pc = "popen"
      PROVE  CountInv'
  <2>1. /\ Cardinality(Live') \in Nat /\ Cardinality(Live) \in Nat
        /\ Cardinality(Live') <= Cardinality(Live)
    BY <1>1, LiveCount
  <2> QED
    BY <1>1, <2>1 DEF CountInv, OneTooMany
\* Somebody has seen no process.
<1>2. ASSUME UNCHANGED proc, Live = {} PROVE CountInv'
  <2>1. Live' = {} /\ Cardinality({}) = 0
    BY <1>2, LiveCount DEF Live
  <2> QED
    BY <2>1 DEF CountInv, OneTooMany
\* Somebody starts one.
<1>3. ASSUME NEW p \in Procs, NEW late, Spawn(p, late), \/ /\ tray.pc = "popen" /\ tray'.pc # "popen"
                                                            /\ wd'.pc = wd.pc
                                                         \/ /\ wd.pc = "popen" /\ wd'.pc # "popen"
                                                            /\ tray'.pc = tray.pc
      PROVE  CountInv'
  <2>1. Live' = Live \cup {p} /\ p \notin Live
    BY <1>3, ProcSpawns
  <2>2. /\ Cardinality(Live') = Cardinality(Live) + 1 /\ Cardinality(Live) \in Nat
        /\ Cardinality({}) = 0
    BY <1>3, <2>1, LiveCount
  <2>3. /\ Cardinality(Live) <= 1
        /\ tray.pc = "popen" /\ wd.pc = "popen" => Cardinality(Live) = 0
    BY <1>3, <2>2 DEF CountInv
  <2>4. tray'.pc = "popen" \/ wd'.pc = "popen" => tray.pc = "popen" /\ wd.pc = "popen"
    BY <1>3
  <2>5. ~(tray'.pc = "popen" /\ wd'.pc = "popen")
    BY <1>3
  <2>6. Cardinality(Live') <= 2 /\ (tray'.pc = "popen" \/ wd'.pc = "popen" => Cardinality(Live') <= 1)
    BY <2>2, <2>3, <2>4
  <2> QED
    BY <2>5, <2>6 DEF CountInv, OneTooMany
<1>4. CASE UNCHANGED proc /\ UNCHANGED <<tray, wd>>
  BY <1>1, <1>4 DEF Live
<1>5. CASE MonitorStep
  BY <1>1, <1>5, MonitorLive DEF dog
\* The tray at another step than a start, or at one it only keeps.
<1>6. ASSUME UNCHANGED proc, wd'.pc = wd.pc, tray'.pc # "popen" PROVE CountInv'
  BY <1>1, <1>6 DEF Live
<1>7. CASE UserAsks
  <2>1. CASE \E op \in {"save", "rescan"} : AskUpdate(op)
    <3>1. /\ tray'.pc = "list" /\ wd' = [wd EXCEPT !.early = @ \/ wd.pc \in Decided]
          /\ UNCHANGED proc
      BY <2>1 DEF AskUpdate, SetMarker, Doing, procs
    <3> QED
      BY <1>0, <1>6, <3>1 DEF Runs
  <2>2. CASE AskPause \/ AskResume \/ AskRunNow \/ AskStart \/ AskExit
    BY <1>6, <2>2, Records DEF AskPause, AskResume, AskRunNow, AskStart, AskExit, Begin, dog,
       procs, Ops, TrayPcs
  <2> QED
    BY <1>7, <2>1, <2>2 DEF UserAsks
<1>8. CASE HealthTick \/ TrayStarts \/ TrayDies
  BY <1>6, <1>8, Records DEF HealthTick, TrayStarts, TrayDies, Begin, dog, procs, Ops, TrayPcs
<1>9. CASE TrayStep
  <2>1. CASE TrayFlag \/ TrayList \/ TrayUndo
    <3>1. tray'.pc # "popen"
      BY <1>0, <2>1, Records DEF TrayFlag, TrayList, TrayUndo, Trays
    <3> QED
      BY <1>6, <2>1, <3>1 DEF TrayFlag, TrayList, TrayUndo, dog, procs
  <2>2. CASE TrayStopped
    <3>1. tray.op \in {"save", "rescan", "pause", "run_now", "exit"}
      BY <1>0, <2>2 DEF TrayStopped, TrayOK
    <3>2. \/ tray' = [tray EXCEPT !.pc = "commit"] \/ tray' = [tray EXCEPT !.pc = "probe"]
          \/ tray' \in {Away, Resting}
      BY <2>2, <3>1 DEF TrayStopped
    <3>3. tray'.pc # "popen"
      BY <1>0, <3>2, Records DEF Trays
    <3> QED
      BY <1>6, <2>2, <3>3 DEF TrayStopped, dog, procs
  <2>3. CASE TrayStopFails
    <3>1. tray.op \in {"save", "rescan", "pause", "run_now", "exit"}
      BY <1>0, <2>3 DEF TrayStopFails, TrayOK
    <3>2. \/ tray' \in {Away, Resting} \/ tray' = Doing("pause", "undo")
          \/ tray.op \in {"save", "rescan"} /\ tray' = Doing(tray.op, "unmark")
      BY <2>3, <3>1 DEF TrayStopFails
    <3>3. tray'.pc # "popen"
      BY <3>2, Records DEF Ops, TrayPcs
    <3> QED
      BY <1>6, <2>3, <3>3 DEF TrayStopFails, dog, procs
  <2>4. CASE TrayCommit \/ TrayUnmark
    <3>1. TrayCommit => tray'.pc = "unmark"
      BY <1>0 DEF TrayCommit, Trays
    <3>2. TrayUnmark => tray' = Resting \/ tray'.pc = "probe"
      BY <1>0 DEF TrayUnmark, Trays
    <3>3. tray'.pc # "popen"
      BY <2>4, <3>1, <3>2, Records
    <3> QED
      BY <1>6, <2>4, <3>3 DEF TrayCommit, TrayUnmark, dog, procs
  <2>5. CASE TrayProbe
    <3>1. UNCHANGED <<proc, wd>> /\ (Live = {} \/ tray' = Resting)
      BY <2>5 DEF TrayProbe, dog, procs
    <3> QED
      BY <1>2, <1>6, <3>1, Records
  <2>6. CASE TrayPopen
    <3>1. PICK p \in Procs : Spawn(p, FALSE)
      BY <2>6 DEF TrayPopen
    <3> QED
      BY <1>3, <2>6, <3>1, Records DEF TrayPopen, dog
  <2>7. ASSUME NEW p \in Procs, TrayKill(p) PROVE CountInv'
    <3>1. Live' = Live \ {p}
      BY <2>7, ProcEnds DEF TrayKill
    <3>2. tray'.pc = tray.pc /\ UNCHANGED wd
      BY <1>0, <2>7 DEF TrayKill, Trays, dog
    <3> QED
      BY <1>1, <3>1, <3>2
  <2> QED
    BY <1>9, <2>1, <2>2, <2>3, <2>4, <2>5, <2>6, <2>7 DEF TrayStep
<1>10. ASSUME UNCHANGED <<proc, tray>>, wd'.pc # "popen" PROVE CountInv'
  BY <1>1, <1>10 DEF Live
<1>11. \A stale, stall, n : RunEnds(stale, stall, n) => wd'.pc # "popen"
  BY Records DEF RunEnds
<1>12. CASE WdStep
  <2>1. CASE WdWake \/ WdAgain \/ WdStarted \/ WdQueryFails
    <3>1. UNCHANGED <<proc, tray>>
      BY <2>1 DEF WdWake, WdAgain, WdStarted, WdQueryFails, procs
    <3>2. wd'.pc # "popen"
      BY <1>0, <1>11, <2>1, Records DEF WdWake, WdAgain, WdStarted, WdQueryFails, Goto, Runs, NoRun
    <3> QED
      BY <1>10, <3>1, <3>2
  <2>2. CASE WdLook
    <3>1. \/ wd'.pc # "popen"
          \/ \E k, r \in BOOLEAN : wd' = [wd EXCEPT !.pc = "again", !.kill = k, !.release = r]
          \/ \E k \in BOOLEAN : wd' = [wd EXCEPT !.pc = "again", !.kill = k]
      BY <1>11, <2>2 DEF WdLook
    <3> QED
      BY <1>0, <1>10, <2>2, <3>1 DEF WdLook, Runs, procs
  <2>3. CASE WdList \/ WdStopped \/ WdRelease
    BY <1>0, <1>10, <2>3 DEF WdList, WdStopped, WdRelease, Goto, Runs, procs
  <2>4. CASE WdCheck
    BY <1>0, <1>10, <1>11, <2>4 DEF WdCheck, Goto, Runs, procs
  <2>5. CASE WdProbe
    <3>1. UNCHANGED <<proc, tray>> /\ (Live = {} \/ RunEnds(0, 0, 1))
      BY <2>5 DEF WdProbe, procs
    <3> QED
      BY <1>2, <1>10, <1>11, <3>1
  <2>6. CASE WdPopen
    <3>1. PICK p \in Procs : Spawn(p, wd.early)
      BY <2>6 DEF WdPopen
    <3>2. wd.pc = "popen" /\ wd'.pc = "started" /\ UNCHANGED tray
      BY <1>0, <2>6 DEF WdPopen, Goto, Runs
    <3> QED
      BY <1>3, <3>1, <3>2
  <2>7. ASSUME NEW p \in Procs, WdKill(p) PROVE CountInv'
    <3>1. Live' = Live \ {p}
      BY <2>7, ProcEnds DEF WdKill
    <3>2. wd'.pc = wd.pc /\ UNCHANGED tray
      BY <1>0, <2>7 DEF WdKill, Runs
    <3> QED
      BY <1>1, <3>1, <3>2
  <2> QED
    BY <1>12, <2>1, <2>2, <2>3, <2>4, <2>5, <2>6, <2>7 DEF WdStep
<1>13. CASE WdDies
  BY <1>10, <1>13, Records DEF WdDies, procs
<1>14. CASE MarkerExpires \/ WindowSlides
  BY <1>4, <1>14 DEF MarkerExpires, WindowSlides, procs, dog
<1>15. CASE UNCHANGED vars
  BY <1>4, <1>15 DEF vars, procs, dog
<1> QED
  BY <1>5, <1>7, <1>8, <1>9, <1>12, <1>13, <1>14, <1>15 DEF Next

\* The two starters that look and start without a lock start at most one
\* monitor too many, for any number of processes.
THEOREM AtMostOneTooMany == Spec => []OneTooMany
<1>1. Init => CountInv
  <2>1. Init => Live = {}
    BY DEF Init, Live
  <2> QED
    BY <2>1, FS_EmptySet DEF CountInv, OneTooMany
<1>2. CountInv => OneTooMany
  BY DEF CountInv
<1> QED
  BY <1>1, <1>2, Typed, CountStep, PTL DEF Spec

-----------------------------------------------------------------------------
(* A database that cannot be read.                                         *)

readsVars == <<vars, missed, held>>

\* Whatever a run does not see, it changes nothing but itself, and the next step
\* it takes is one it also takes when it sees.
LEMMA UnreadRun ==
    ASSUME TypeInv, Unread
    PROVE  /\ UNCHANGED <<flags, marker, procs, tray, asks>>
           /\ faults' \in 0..MaxFaults
           /\ DogOK'
           /\ wd'.pc \in {"idle", "look", "list", "check", "probe"}
           /\ marker /\ wd'.pc \in Decided =>
                 wd'.early = TRUE \/ (wd.pc \in Decided /\ wd'.early = wd.early)
<1>0. /\ wd \in Runs /\ state \in States /\ RestartsOK
      /\ state.stall \in 0..StallChecks-1
  BY Parts DEF DogOK, States
<1>1. UNCHANGED <<flags, marker, procs, tray, asks>>
  BY DEF Unread
<1>2. \A n \in 0..2 : Fails(n) => faults' \in 0..MaxFaults
  BY Parts, SupervisionAssumption DEF FlagsOK, Fails, SupervisionAssumption
<1>3. Hidden \in 0..2
  BY DEF Hidden
<1>4. CASE WakeUnread
  <2>1. wd' = [NoRun EXCEPT !.pc = "look", !.checks = state.stall] /\ UNCHANGED state
    BY <1>4 DEF WakeUnread
  <2>2. wd' \in Runs /\ wd'.pc = "look"
    BY <1>0, <2>1 DEF NoRun, Runs
  <2> QED
    BY <1>0, <1>1, <1>2, <1>3, <1>4, <2>1, <2>2 DEF WakeUnread, DogOK, RestartsOK, Decided
<1>5. CASE AgainUnread
  <2>1. /\ wd' = [wd EXCEPT !.pc = IF wd.kill THEN "list" ELSE "check", !.early = @ \/ marker]
        /\ UNCHANGED state /\ state.restarts < MaxRestarts
    BY <1>5 DEF AgainUnread
  <2>2. wd' \in Runs /\ wd'.pc \in {"list", "check"} /\ wd'.early = (wd.early \/ marker)
    BY <1>0, <2>1 DEF Runs, Decided
  <2>3. marker => wd'.early = TRUE
    BY <2>2
  <2> QED
    BY <1>0, <1>1, <1>2, <1>3, <1>5, <2>1, <2>2, <2>3 DEF AgainUnread, DogOK, RestartsOK
<1>6. CASE CheckUnread
  <2>1. wd' = [wd EXCEPT !.pc = "probe"] /\ UNCHANGED state /\ wd.pc = "check"
    BY <1>6 DEF CheckUnread, Goto
  <2>2. wd' \in Runs /\ wd'.pc = "probe" /\ wd'.early = wd.early
    BY <1>0, <2>1 DEF Runs, Decided
  <2> QED
    BY <1>0, <1>1, <1>2, <1>6, <2>1, <2>2 DEF CheckUnread, DogOK, RestartsOK, Decided
<1>7. CASE StallUnread
  <2>1. RunEnds(0, 0, 0) /\ 0 \in 0..StaleChecks-1 /\ 0 \in 0..StallChecks-1
    BY <1>7, SupervisionAssumption DEF StallUnread, SupervisionAssumption
  <2>2. state' \in States
    BY <1>0, <2>1 DEF RunEnds, States
  <2>3. wd' \in Runs /\ wd'.pc = "idle"
    BY <2>1, Records DEF RunEnds
  <2> QED
    BY <1>1, <1>2, <1>7, <2>2, <2>3 DEF StallUnread, DogOK, RestartsOK, Decided
<1> QED
  BY <1>4, <1>5, <1>6, <1>7 DEF Unread

LEMMA ReadsStep == [ReadsNext]_readsVars => [Next]_vars \/ Unread
  BY DEF ReadsNext, readsVars

\* None of the invariants rests on what a run sees.
LEMMA ReadsInductive ==
    /\ TypeInv /\ [ReadsNext]_readsVars => TypeInv'
    /\ TypeInv /\ PauseInv /\ [ReadsNext]_readsVars => PauseInv'
    /\ TypeInv /\ MarkerInv /\ [ReadsNext]_readsVars => MarkerInv'
    /\ TypeInv /\ CountInv /\ [ReadsNext]_readsVars => CountInv'
<1>1. ASSUME TypeInv, Unread PROVE TypeInv'
  <2>1. ProcsOK' /\ HandOK'
    BY <1>1, Parts, UnreadRun DEF ProcsOK, HandOK, TrayOK, procs
  <2>2. FlagsOK'
    BY <1>1, Parts, UnreadRun DEF FlagsOK, flags, procs
  <2>3. DogOK'
    BY <1>1, UnreadRun
  <2> QED
    BY <2>1, <2>2, <2>3
       DEF TypeInv, TypeOK, ProcsOK, FlagsOK, HandOK, DogOK, Trays, Runs, States, TrayPcs
<1>2. ASSUME TypeInv, PauseInv, Unread PROVE PauseInv'
  BY <1>2, UnreadRun DEF flags, PauseInv, PauseKept
<1>3. ASSUME TypeInv, MarkerInv, Unread PROVE MarkerInv'
  <2>1. /\ UNCHANGED <<marker, procs, tray>>
        /\ marker /\ wd'.pc \in Decided =>
              wd'.early = TRUE \/ (wd.pc \in Decided /\ wd'.early = wd.early)
    BY <1>3, UnreadRun
  <2> QED
    BY <1>3, <2>1 DEF MarkerInv, CommitUndisturbed, Live, procs
<1>4. ASSUME TypeInv, CountInv, Unread PROVE CountInv'
  <2>1. UNCHANGED <<proc, tray>> /\ wd'.pc # "popen"
    BY <1>4, UnreadRun DEF procs
  <2> QED
    BY <1>4, <2>1 DEF CountInv, OneTooMany, Live
<1> QED
  BY <1>1, <1>2, <1>3, <1>4, ReadsStep, TypeStep, PauseStep, MarkerStep, CountStep

LEMMA ReadsStart == ReadsInit => TypeInv /\ PauseInv /\ MarkerInv /\ CountInv
<1>1. Init => Live = {}
  BY DEF Init, Live
<1> QED
  BY <1>1, TypeInit, Records, FS_EmptySet
     DEF ReadsInit, Init, PauseInv, PauseKept, MarkerInv, CommitUndisturbed, CountInv, OneTooMany

\* The types with a database that cannot be read, however many reads of a run of
\* the watchdog fail (is_paused, is_settings_update, worker_stall).
THEOREM ReadsTyped == ReadsSpec => []TypeInv
  BY ReadsStart, ReadsInductive, PTL DEF ReadsSpec, readsVars

\* Types and bounds, the cap on the restarts of half an hour among them, however
\* many reads fail (can_restart, perform_restart).
THEOREM TypeCorrectUnread == ReadsSpec => []TypeOK
<1>1. TypeInv => TypeOK
  BY DEF TypeInv
<1> QED
  BY <1>1, ReadsTyped, PTL

\* A watchdog that takes a flag it cannot read for unset never removes it: a pause
\* the user was told of keeps flag and reason (is_paused, toggle_pause).
THEOREM ToldPauseStaysUnread == ReadsSpec => []PauseKept
<1>1. PauseInv => PauseKept
  BY DEF PauseInv
<1> QED
  BY <1>1, ReadsStart, ReadsInductive, ReadsTyped, PTL DEF ReadsSpec, readsVars

\* What a Save may meet under its marker when the watchdog cannot read it: only a
\* monitor of a run past its last look, or of one whose last look failed
\* (is_settings_update in perform_restart).
THEOREM MarkerHoldsUnread == ReadsSpec => []CommitUndisturbed
<1>1. MarkerInv => CommitUndisturbed
  BY DEF MarkerInv
<1> QED
  BY <1>1, ReadsStart, ReadsInductive, ReadsTyped, PTL DEF ReadsSpec, readsVars

\* Failing reads let a run go on, but never past the look for live monitors: still
\* at most one is started too many (perform_restart, start_monitor).
THEOREM AtMostOneTooManyUnread == ReadsSpec => []OneTooMany
<1>1. CountInv => OneTooMany
  BY DEF CountInv
<1> QED
  BY <1>1, ReadsStart, ReadsInductive, ReadsTyped, PTL DEF ReadsSpec, readsVars

-----------------------------------------------------------------------------
(* The pause that a run does not see.                                      *)

\* A run that goes on under a pause older than itself has missed it at every
\* look it has had: at its wake, in perform_restart and in start_monitor.
SeenInv ==
    /\ held => paused
    /\ wd.pc = "idle" => missed = 0
    /\ held /\ wd.pc \in {"look", "again"} => missed = 1
    /\ held /\ wd.pc \in {"list", "kill", "release", "check"} => missed = 2
    /\ held /\ wd.pc \in {"probe", "popen", "started"} => missed = 3

\* Where a run goes, and the three places at which it must not see a pause.
LEMMA RunMoves ==
    ASSUME TypeInv, Next
    PROVE  \/ wd'.pc = "idle" \/ wd'.pc = wd.pc
           \/ wd.pc = "idle" /\ wd'.pc = "look" /\ ~paused /\ UNCHANGED paused
           \/ wd.pc = "look" /\ wd'.pc = "again"
           \/ wd.pc = "again" /\ wd'.pc \in {"list", "check"} /\ ~paused /\ UNCHANGED paused
           \/ wd.pc \in {"list", "kill", "release"} /\ wd'.pc \in {"kill", "release", "check"}
           \/ wd.pc = "check" /\ wd'.pc = "probe" /\ ~paused /\ UNCHANGED paused
           \/ wd.pc \in {"probe", "popen"} /\ wd'.pc \in {"popen", "started"}
<1>0. wd \in Runs
  BY Parts DEF DogOK
<1>1. \A stale, stall, n : RunEnds(stale, stall, n) => wd'.pc = "idle"
  BY Records DEF RunEnds
<1>2. \A pc : Goto(pc) => wd'.pc = pc
  BY <1>0 DEF Goto, Runs
<1>3. CASE WdStep
  <2>1. CASE WdWake
    BY <1>1, <2>1 DEF WdWake, NoRun, flags
  <2>2. CASE WdLook
    BY <1>0, <1>1, <2>2 DEF WdLook, Runs
  <2>3. CASE WdAgain \/ WdCheck
    BY <1>1, <1>2, <2>3 DEF WdAgain, WdCheck, flags
  <2>4. CASE WdList \/ \E p \in Procs : WdKill(p)
    BY <1>0, <2>4 DEF WdList, WdKill, Runs
  <2>5. CASE WdStopped \/ WdRelease \/ WdProbe \/ WdPopen \/ WdStarted \/ WdQueryFails
    BY <1>1, <1>2, <2>5 DEF WdStopped, WdRelease, WdProbe, WdPopen, WdStarted, WdQueryFails
  <2> QED
    BY <1>3, <2>1, <2>2, <2>3, <2>4, <2>5 DEF WdStep
<1>4. CASE WdDies
  BY <1>4, Records DEF WdDies
<1>5. CASE UserAsks
  BY <1>0, <1>5 DEF UserAsks, AskUpdate, AskPause, AskResume, AskRunNow, AskStart, AskExit,
     SetMarker, dog, Runs
<1>6. CASE TrayStep
  BY <1>6 DEF TrayStep, TrayFlag, TrayList, TrayStopped, TrayStopFails,
     TrayUndo, TrayCommit, TrayUnmark, TrayProbe, TrayPopen, TrayKill, dog
<1>7. CASE MonitorStep \/ HealthTick \/ TrayStarts \/ TrayDies \/ MarkerExpires \/ WindowSlides
  BY <1>7 DEF MonitorStep, Heartbeat, GoesStale, TakeLock, Breaks, MarkerExpires,
     HealthTick, TrayStarts, TrayDies, WindowSlides, dog
<1> QED
  BY <1>3, <1>4, <1>5, <1>6, <1>7 DEF Next

LEMMA SeenStep == TypeInv /\ SeenInv /\ [ReadsNext]_readsVars => SeenInv'
<1> SUFFICES ASSUME TypeInv, SeenInv, [ReadsNext]_readsVars PROVE SeenInv'
  OBVIOUS
<1>0. /\ wd \in Runs /\ paused \in BOOLEAN
      /\ wd.pc \in {"idle", "look", "again", "started"} \cup Decided
  BY Parts DEF DogOK, FlagsOK, Runs
<1>1. CASE UNCHANGED readsVars
  BY <1>1 DEF readsVars, vars, flags, dog, SeenInv
<1>2. CASE Next /\ missed' = (IF wd'.pc = "idle" THEN 0 ELSE missed)
           /\ held' = (paused' /\ (wd'.pc = "idle" \/ held))
  <2>1. held' => paused'
    BY <1>2
  <2>2. wd'.pc # "idle" => missed' = missed
    BY <1>2
  <2>3. held' /\ wd'.pc # "idle" => held /\ paused
    BY <1>2 DEF SeenInv
  <2>4. CASE wd'.pc = "idle"
    BY <1>2, <2>1, <2>4 DEF SeenInv
  <2>5. CASE wd'.pc # "idle" /\ ~held'
    BY <2>1, <2>5 DEF SeenInv
  <2>6. CASE wd'.pc # "idle" /\ held'
    BY <1>0, <1>2, <2>1, <2>2, <2>3, <2>6, RunMoves DEF SeenInv
  <2> QED
    BY <2>4, <2>5, <2>6
<1>3. CASE Unread /\ held' = (paused' /\ (wd'.pc = "idle" \/ held))
  <2>1. UNCHANGED paused /\ (held' => paused')
    BY <1>3 DEF Unread, flags
  <2>2. CASE wd'.pc # "idle" /\ ~held'
    BY <2>1, <2>2 DEF SeenInv
  <2>3. CASE wd'.pc # "idle" /\ held'
    <3>1. held /\ paused
      BY <1>3, <2>3 DEF SeenInv
    <3>2. CASE WakeUnread
      BY <2>1, <3>1, <3>2 DEF WakeUnread, MissPause, NoRun, SeenInv
    <3>3. CASE AgainUnread
      <4>1. missed' = 2 /\ wd'.pc \in {"list", "check"}
        BY <1>0, <3>1, <3>3 DEF AgainUnread, MissPause, SeenInv, Runs
      <4> QED
        BY <2>1, <4>1 DEF SeenInv
    <3>4. CASE CheckUnread
      <4>1. missed' = 3 /\ wd'.pc = "probe"
        BY <1>0, <3>1, <3>4 DEF CheckUnread, Goto, MissPause, SeenInv, Runs
      <4> QED
        BY <2>1, <4>1 DEF SeenInv
    <3>5. CASE StallUnread
      BY <2>3, <3>5, Records DEF StallUnread, RunEnds
    <3> QED
      BY <1>3, <3>2, <3>3, <3>4, <3>5 DEF Unread
  <2>4. CASE wd'.pc = "idle"
    <3>1. StallUnread
      BY <1>0, <1>3, <2>4, Records DEF Unread, WakeUnread, AgainUnread, CheckUnread, Goto, NoRun, Runs
    <3> QED
      BY <2>1, <2>4, <3>1 DEF StallUnread, SeenInv
  <2> QED
    BY <2>2, <2>3, <2>4
<1> QED
  BY <1>1, <1>2, <1>3 DEF ReadsNext

\* A run starts a monitor against a pause that was on before it began only after
\* three failing reads, whatever else happens meanwhile.
THEOREM OnlyThreeMissesBreakAPause == ReadsSpec => []PauseSeen
<1>1. ReadsInit => SeenInv
  BY Records DEF ReadsInit, Init, SeenInv
<1>2. SeenInv => PauseSeen
  BY DEF SeenInv, PauseSeen
<1> QED
  BY <1>1, <1>2, SeenStep, ReadsTyped, PTL DEF ReadsSpec, readsVars
=============================================================================
