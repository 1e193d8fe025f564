----------------------------- MODULE TrialProofs -----------------------------
(***************************************************************************)
(* The table and the authentication issues with the trial download beside  *)
(* the monitor, for every value of the constants.  HeldOK of JobQueueProofs*)
(* does not hold here, because the trial holds a row while no monitor runs,*)
(* nor does NoStrandedClaim, because an interrupted trial leaves its row   *)
(* behind.  In their place stands what the mutex gives: at any time either *)
(* the monitor or the trial may hold a row (LockOK).                       *)
(***************************************************************************)
EXTENDS Trial, JobQueueProofs

\* The row somebody holds, as in HeldOK.
RowHeldOK ==
    /\ held # 0 => KeptRow(rows[held], seen)
    /\ held = 0 => seen = NotRead

\* Monitor and trial exclude each other; only a running monitor's worker is at
\* a note, after its start-up, and then it holds no row.
LockOK ==
    /\ trial \in [pc : {"none", "reconcile", "run"}, keys : SUBSET Keys, tried : SUBSET Keys]
    /\ trial.pc = "none" <=> trial = NoTrial
    /\ On => mon = "down"
    /\ On \/ mon # "run" \/ held # 0 => note = NoNote
    /\ held # 0 => mon = "run" \/ trial.pc = "run"

TableInv ==
    /\ TypeOK /\ UnusedIds /\ RowHeldOK /\ AgainOK /\ LockOK
    /\ \A j \in Jobs : RowOK(rows[j])

Requests == [id: Jobs \cup {0}, blanked: BOOLEAN]
Blanking == again' = [again EXCEPT !.blanked = @ \/ Blanks(again.id)]

\* All that a step may do to a row, with what its actor's guard says.
RowStep(j) ==
    \/ rows'[j] = rows[j]
    \/ rows[j].status = "none" /\ \E k \in Keys : rows'[j] = FreshRow(k)
    \/ rows[j].status = "pending" /\ held = 0 /\ held' = j /\ rows'[j] = Claimed(rows[j])
    \/ CanSucceed(rows[j]) /\ held' = 0 /\ rows'[j] = Succeeded(rows[j])
    \/ held = j /\ held' = 0 /\ seen # NotRead /\ rows'[j] = MarkFailure(rows[j], seen)
    \/ held' = 0 /\ rows'[j] \in {FailJob(rows[j]), DeferJob(rows[j]), Recovered(rows[j])}
    \/ rows'[j] = Stalled(rows[j])
    \/ Blanking /\ rows'[j] = Retained(rows[j])
    \/ rows[j].status = "failed" /\ asks' = asks + 1 /\ rows'[j] = Requeued(rows[j])
    \/ /\ rows[j].status = "success" /\ again.id = j /\ again' = NoRequest
       /\ asks' = asks + 1 /\ rows'[j] = Requeued(rows[j])
    \/ rows[j].status = "failed" /\ \E b \in BOOLEAN : rows'[j] = [rows[j] EXCEPT !.ignored = b]
    \/ rows[j].status = "pending" /\ rows'[j] = [rows[j] EXCEPT !.due = "past"]
    \/ rows[j].status = "success" /\ rows[j].age < MaxAge
          /\ rows'[j] = [rows[j] EXCEPT !.age = @ + 1]

\* Which rows a step may touch at all, and the variables beside them.
Frame ==
    /\ rows' = [j \in Jobs |-> rows'[j]]
    /\ lastId' \in 0..MaxJobs /\ lastId' >= lastId
    /\ lastId' # lastId => rows[lastId'].status = "none"
    /\ \A j \in Jobs : rows[j].status = "none" /\ rows'[j].status # "none" => j <= lastId'
    /\ held' \in Jobs \cup {0}
    /\ \/ held' = held /\ seen' = seen
       \/ held' = 0 /\ seen' = NotRead
       \/ held # 0 /\ held' = held /\ seen' = rows[held].attempts /\ rows' = rows
       \/ /\ held = 0 /\ seen' = NotRead
          /\ rows'[held'] = Claimed(rows[held']) /\ rows[held'].status = "pending"
    /\ again' \in Requests
    /\ \/ again'.id \in {again.id, 0}
       \/ /\ again'.id \in Jobs /\ rows' = rows
          /\ rows[again'.id].status = "success" /\ rows[again'.id].full
    /\ \/ again'.blanked = again.blanked \/ again'.id = 0
       \/ Blanking /\ \A j \in Jobs : rows'[j] = Retained(rows[j])
    /\ mon' \in {"down", "reconcile", "retain", "run"} /\ wd' \in {"idle", "release"}
    /\ faults' \in 0..MaxFaults /\ asks' \in 0..MaxAsks
-----------------------------------------------------------------------------
(* The steps, one group per shape.                                         *)

\* One row is rewritten, the ids and the types of the rest stay.
LEMMA OneRowStep ==
    ASSUME TableInv, NEW i \in Jobs, NEW x,
           rows' = [rows EXCEPT ![i] = x]
    PROVE  /\ rows' = [j \in Jobs |-> rows'[j]]
           /\ rows'[i] = x
           /\ \A j \in Jobs : j # i => rows'[j] = rows[j]
  BY DEF TableInv, TypeOK

\* What the parts of NextWithTrial do to the table.
LEMMA Steps ==
    ASSUME TableInv, NextWithTrial
    PROVE  Frame /\ \A j \in Jobs : RowStep(j)
<1> USE QueueAssumption DEF QueueAssumption
<1>1. /\ rows \in [Jobs -> Row] /\ rows = [j \in Jobs |-> rows[j]]
      /\ \A j \in Jobs : rows[j] \in Row /\ RowOK(rows[j])
      /\ lastId \in 0..MaxJobs /\ held \in Jobs \cup {0}
      /\ mon \in {"down", "reconcile", "retain", "run"} /\ wd \in {"idle", "release"}
      /\ faults \in 0..MaxFaults /\ asks \in 0..MaxAsks
      /\ Jobs \subseteq Nat /\ 0 \notin Jobs
      /\ \A j \in Jobs : j > lastId => rows[j].status = "none"
      /\ seen \in 0..MaxAttempts \cup {NotRead} /\ again \in Requests
      /\ held = 0 => seen = NotRead
      /\ NoRequest \in Requests /\ NoRequest.id = 0
  BY DEF TableInv, TypeOK, UnusedIds, Jobs, Requests, NoRequest, RowHeldOK
<1>2. /\ Fault => faults' \in 0..MaxFaults
      /\ Ask => asks' \in 0..MaxAsks /\ asks' = asks + 1
  BY <1>1 DEF Fault, Ask
\* An old row keeps or gets an id that was handed out.
<1>3. \A j \in Jobs : rows[j].status # "none" => j <= lastId
  BY <1>1
<1>4. ASSUME UNCHANGED <<rows, lastId>>, again' \in {again, NoRequest},
             \/ UNCHANGED <<held, seen>>
             \/ held' = 0 /\ seen' = NotRead
             \/ held # 0 /\ held' = held /\ seen' = rows[held].attempts,
             mon' \in {"down", "reconcile", "retain", "run"}, wd' \in {"idle", "release"},
             faults' \in 0..MaxFaults, asks' \in 0..MaxAsks
      PROVE  Frame /\ \A j \in Jobs : RowStep(j)
  BY <1>1, <1>4 DEF Frame, RowStep
\* One row of somebody's is rewritten and its id was handed out.
<1>5. ASSUME NEW i \in Jobs, rows[i].status # "none", NEW x,
             rows' = [rows EXCEPT ![i] = x], UNCHANGED <<lastId, mon, wd>>,
             again' \in {again, NoRequest},
             \/ UNCHANGED <<held, seen>>
             \/ held' = 0 /\ seen' = NotRead
             \/ /\ held = 0 /\ held' = i /\ seen' = NotRead
                /\ x = Claimed(rows[i]) /\ rows[i].status = "pending",
             faults' \in 0..MaxFaults, asks' \in 0..MaxAsks
      PROVE  /\ Frame
             /\ rows'[i] = x
             /\ RowStep(i) => \A j \in Jobs : RowStep(j)
  <2>1. /\ rows' = [j \in Jobs |-> rows'[j]]
        /\ rows'[i] = x
        /\ \A j \in Jobs : j # i => rows'[j] = rows[j]
    BY <1>5, OneRowStep
  <2>2. \A j \in Jobs : rows[j].status = "none" /\ rows'[j].status # "none" => j <= lastId'
    BY <1>1, <1>5, <2>1
  <2>3. \A j \in Jobs : j # i => RowStep(j)
    BY <2>1 DEF RowStep
  <2>4. /\ lastId' = lastId /\ lastId' >= lastId
        /\ held' \in Jobs \cup {0}
        /\ \/ UNCHANGED <<held, seen>>
           \/ held' = 0 /\ seen' = NotRead
           \/ /\ held = 0 /\ seen' = NotRead
              /\ rows'[held'] = Claimed(rows[held']) /\ rows[held'].status = "pending"
    BY <1>1, <1>5, <2>1
  <2> QED
    BY <1>1, <1>5, <2>1, <2>2, <2>3, <2>4 DEF Frame
\* A new row.
<1>7. ASSUME NEW k \in Keys, lastId < MaxJobs, lastId' = lastId + 1,
             rows' = [rows EXCEPT ![lastId + 1] = FreshRow(k)],
             UNCHANGED <<mon, held, seen, wd, faults, asks, again>>
      PROVE  Frame /\ \A j \in Jobs : RowStep(j)
  <2>1. lastId + 1 \in Jobs /\ rows[lastId + 1].status = "none"
    BY <1>1, <1>7 DEF Jobs
  <2>2. /\ rows' = [j \in Jobs |-> rows'[j]]
        /\ rows'[lastId + 1] = FreshRow(k)
        /\ \A j \in Jobs : j # lastId + 1 => rows'[j] = rows[j]
    BY <1>7, <2>1, OneRowStep
  <2>3. \A j \in Jobs : RowStep(j)
    BY <1>7, <2>1, <2>2 DEF RowStep
  <2> QED
    BY <1>1, <1>7, <2>1, <2>2, <2>3 DEF Frame
\* The parts of the next-state relation.
<1>8. CASE \E k \in Keys : Enqueue(k) \/ Select(k)
  <2>1. PICK k \in Keys : Enqueue(k) \/ Select(k)
    BY <1>8
  <2> QED
    BY <1>1, <1>4, <1>7, <2>1 DEF Enqueue, Select
<1>9. CASE \E j \in Jobs : ClaimNext(j) \/ Try(j)
  <2>1. PICK i \in Jobs : ClaimNext(i) \/ Try(i)
    BY <1>9
  <2>2. CASE UNCHANGED <<rows, held>>
    BY <1>1, <1>4, <2>1, <2>2 DEF ClaimNext, Claim, Try
  <2>3. CASE ~ UNCHANGED <<rows, held>>
    <3>1. /\ rows[i].status = "pending" /\ held = 0 /\ held' = i
          /\ rows' = [rows EXCEPT ![i] = Claimed(rows[i])]
          /\ UNCHANGED <<lastId, mon, wd, faults, asks, again>> /\ seen' = NotRead
      BY <1>1, <2>1, <2>3 DEF ClaimNext, Claim, Try, NextUp, Zeros, Runnable
    <3>2. Frame /\ rows'[i] = Claimed(rows[i]) /\ (RowStep(i) => \A j \in Jobs : RowStep(j))
      BY <1>1, <1>5, <3>1
    <3>3. RowStep(i)
      BY <3>1, <3>2 DEF RowStep
    <3> QED
      BY <3>2, <3>3
  <2> QED
    BY <2>2, <2>3
<1>10. CASE RecordSuccess \/ RecordFailure \/ RecordNotConfigured \/ RecordDeferral
  <2>1. /\ held \in Jobs /\ held # 0 /\ held' = 0 /\ seen' = NotRead
        /\ UNCHANGED <<lastId, mon, wd, asks, again>>
        /\ faults' \in 0..MaxFaults /\ asks' \in 0..MaxAsks
        /\ rows[held].status # "none"
    BY <1>1, <1>2, <1>10 DEF RecordSuccess, RecordFailure, RecordNotConfigured,
       RecordDeferral, Deciding, LetsGo, TableInv, RowHeldOK, KeptRow
  <2>2. PICK x : /\ rows' = [rows EXCEPT ![held] = x]
                 /\ \/ CanSucceed(rows[held]) /\ x = Succeeded(rows[held])
                    \/ seen # NotRead /\ x = MarkFailure(rows[held], seen)
                    \/ x \in {FailJob(rows[held]), DeferJob(rows[held])}
    BY <1>10 DEF RecordSuccess, RecordFailure, RecordNotConfigured, RecordDeferral
  <2>3. Frame /\ rows'[held] = x /\ (RowStep(held) => \A j \in Jobs : RowStep(j))
    BY <1>5, <2>1, <2>2
  <2>4. RowStep(held)
    BY <2>1, <2>2, <2>3 DEF RowStep
  <2> QED
    BY <2>3, <2>4
<1>6. CASE ReadAttempts
  BY <1>1, <1>4, <1>6 DEF ReadAttempts, Deciding, LetsGo
<1>11. CASE \E j \in Jobs : Reconcile(j) \/ TrialReconcile(j)
  <2>1. PICK i \in Jobs : Reconcile(i) \/ TrialReconcile(i)
    BY <1>11
  <2>2. /\ CanSucceed(rows[i]) /\ rows[i].status # "none"
        /\ rows' = [rows EXCEPT ![i] = Succeeded(rows[i])]
        /\ UNCHANGED <<lastId, mon, held, seen, wd, faults, asks, again>>
        /\ held' = 0
    BY <1>1, <2>1 DEF Reconcile, TrialReconcile, CanSucceed, Active, TableInv, LockOK, On, NoTrial
  <2>3. Frame /\ rows'[i] = Succeeded(rows[i]) /\ (RowStep(i) => \A j \in Jobs : RowStep(j))
    BY <1>1, <1>5, <2>2
  <2>4. RowStep(i)
    BY <2>2, <2>3 DEF RowStep
  <2> QED
    BY <2>3, <2>4
<1>12. CASE Recover \/ TrialRecovers
  <2>1. held' = 0 /\ held = 0
    BY <1>1, <1>12 DEF Recover, TrialRecovers, TableInv, LockOK, On, NoTrial
  <2>2. Frame /\ \A j \in Jobs : rows'[j] = Recovered(rows[j])
    <3>1. \A j \in Jobs : rows[j].status = "none" => Recovered(rows[j]) = rows[j]
      BY DEF Recovered, Releasable
    <3> QED
      BY <1>1, <1>12, <3>1 DEF Recover, TrialRecovers, Frame
  <2> QED
    BY <2>1, <2>2 DEF RowStep
<1>13. CASE Retain
  <2>1. \A j \in Jobs : rows[j].status = "none" => Retained(rows[j]) = rows[j]
    BY DEF Retained
  <2>2. Blanking /\ again' \in Requests /\ again'.id = again.id
    BY <1>1, <1>13 DEF Retain, Blanking, Blanks, Requests
  <2>3. Frame /\ \A j \in Jobs : rows'[j] = Retained(rows[j])
    BY <1>1, <1>13, <2>1, <2>2 DEF Retain, Frame
  <2> QED
    BY <2>2, <2>3 DEF RowStep
<1>14. CASE ReleaseStalled
  <2>1. \A j \in Jobs : rows[j].status = "none" => Stalled(rows[j]) = rows[j]
    BY DEF Stalled, Releasable
  <2>2. Frame /\ \A j \in Jobs : rows'[j] = Stalled(rows[j])
    BY <1>1, <1>14, <2>1 DEF ReleaseStalled, Frame
  <2> QED
    BY <2>2 DEF RowStep
<1>15. CASE \/ OutcomeLost \/ ReadIssues \/ WriteIssues \/ NoteFails
            \/ StartMonitor \/ Kill \/ StallKill \/ ReleaseLost \/ SaveStops \/ SaveSteps
            \/ TrialStarts \/ TrialEnds \/ TrialInterrupted \/ TrialStalls \/ RedownloadOff
  BY <1>1, <1>2, <1>4, <1>15 DEF OutcomeLost, ReadIssues, WriteIssues, NoteFails,
     StartMonitor, Kill, StallKill, ReleaseLost, SaveStops, SaveSteps, SaveDeletes, SaveFails,
     TrialStarts, TrialEnds, TrialInterrupted, TrialStalls, RedownloadOff, LetsGo, vars
<1>16. CASE \E j \in Jobs : Retry(j) \/ Redownload(j)
  <2>1. PICK i \in Jobs : Retry(i) \/ Redownload(i)
    BY <1>16
  <2>2. /\ \/ rows[i].status = "failed"
           \/ rows[i].status = "success" /\ again.id = i /\ again' = NoRequest
        /\ again' \in {again, NoRequest}
        /\ rows' = [rows EXCEPT ![i] = Requeued(rows[i])]
        /\ UNCHANGED <<lastId, mon, held, seen, wd, faults>>
        /\ asks' \in 0..MaxAsks /\ asks' = asks + 1
    BY <1>2, <2>1 DEF Retry, Redownload
  <2>3. Frame /\ rows'[i] = Requeued(rows[i]) /\ (RowStep(i) => \A j \in Jobs : RowStep(j))
    BY <1>1, <1>5, <2>2
  <2>4. RowStep(i)
    BY <2>2, <2>3 DEF RowStep
  <2> QED
    BY <2>3, <2>4
<1>19. CASE \E j \in Jobs : ReadSuccess(j)
  <2>1. PICK i \in Jobs : ReadSuccess(i)
    BY <1>19
  <2>2. /\ UNCHANGED <<rows, lastId, mon, held, seen, wd, faults, asks>>
        /\ again'.id = i /\ again'.blanked = again.blanked /\ again' \in Requests
        /\ rows[i].status = "success" /\ rows[i].full
    BY <2>1 DEF ReadSuccess, NoRequest, Requests
  <2> QED
    BY <1>1, <2>2 DEF Frame, RowStep
<1>17. CASE \E j \in Jobs : Ignore(j) \/ Unignore(j)
  <2>1. PICK i \in Jobs, b \in BOOLEAN : SetIgnored(i, b)
    BY <1>17 DEF Ignore, Unignore
  <2>2. /\ rows[i].status = "failed"
        /\ rows' = [rows EXCEPT ![i] = [rows[i] EXCEPT !.ignored = b]]
        /\ UNCHANGED <<lastId, mon, held, seen, wd, faults, asks, again>>
    BY <1>1, <2>1 DEF SetIgnored
  <2>3. /\ Frame /\ rows'[i] = [rows[i] EXCEPT !.ignored = b]
        /\ RowStep(i) => \A j \in Jobs : RowStep(j)
    BY <1>1, <1>5, <2>2
  <2>4. RowStep(i)
    BY <2>2, <2>3 DEF RowStep
  <2> QED
    BY <2>3, <2>4
<1>18. CASE \E j \in Jobs : BecomeDue(j) \/ Age(j)
  <2>1. PICK i \in Jobs : BecomeDue(i) \/ Age(i)
    BY <1>18
  <2>2. PICK x :
          /\ \/ rows[i].status = "pending" /\ x = [rows[i] EXCEPT !.due = "past"]
             \/ /\ rows[i].status = "success" /\ rows[i].age < MaxAge
                /\ x = [rows[i] EXCEPT !.age = @ + 1]
          /\ rows' = [rows EXCEPT ![i] = x]
          /\ UNCHANGED <<lastId, mon, held, seen, wd, faults, asks, again>>
    BY <1>1, <2>1 DEF BecomeDue, Age
  <2>3. Frame /\ rows'[i] = x /\ (RowStep(i) => \A j \in Jobs : RowStep(j))
    BY <1>1, <1>5, <2>2
  <2>4. RowStep(i)
    BY <2>2, <2>3 DEF RowStep
  <2> QED
    BY <2>3, <2>4
<1> QED
  BY <1>6, <1>8, <1>9, <1>10, <1>11, <1>12, <1>13, <1>14, <1>15, <1>16, <1>17, <1>18, <1>19
     DEF NextWithTrial, MonitorSteps, TrialSteps, Others, WorkerNotes, MonitorGone, TrayUser,
         ReconcileUnnoted, Deferred, Saved, OtherOutcome, TrialRecords, TrialFails

-----------------------------------------------------------------------------
(* The invariant.                                                          *)

\* A step leaves a row as a row should be.
LEMMA RowStepOK ==
    ASSUME TableInv, NEW j \in Jobs, RowStep(j)
    PROVE  /\ rows'[j] \in Row /\ RowOK(rows'[j])
           /\ held = j /\ held' = j => KeptRow(rows'[j], seen)
<1> USE QueueAssumption DEF QueueAssumption
<1> DEFINE r == rows[j]
<1>1. /\ r \in Row /\ RowOK(r) /\ j # 0
      /\ held = j => KeptRow(r, seen)
      /\ seen \in 0..MaxAttempts \cup {NotRead}
  BY DEF TableInv, TypeOK, RowHeldOK, Jobs
<1>2. CASE rows'[j] = r
  BY <1>1, <1>2
<1>3. CASE r.status = "none" /\ \E k \in Keys : rows'[j] = FreshRow(k)
  <2>1. PICK k \in Keys : rows'[j] = FreshRow(k)
    BY <1>3
  <2>2. FreshRow(k) \in Row /\ RowOK(FreshRow(k))
    BY <1>1, RowTypes, RowsStayOK
  <2> QED
    BY <1>1, <1>3, <2>1, <2>2 DEF KeptRow
<1>4. CASE r.status = "pending" /\ held = 0 /\ held' = j /\ rows'[j] = Claimed(r)
  <2>1. Claimed(r) \in Row /\ RowOK(Claimed(r))
    BY <1>1, <1>4, RowTypes, RowsStayOK DEF RowOK
  <2> QED
    BY <1>1, <1>4, <2>1
<1>5. CASE CanSucceed(r) /\ held' = 0 /\ rows'[j] = Succeeded(r)
  <2>1. Succeeded(r) \in Row /\ RowOK(Succeeded(r))
    BY <1>1, <1>5, RowTypes, RowsStayOK
  <2> QED
    BY <1>1, <1>5, <2>1
<1>6. CASE held = j /\ held' = 0 /\ seen # NotRead /\ rows'[j] = MarkFailure(r, seen)
  <2>1. MarkFailure(r, seen) \in Row /\ RowOK(MarkFailure(r, seen))
    BY <1>1, <1>6, RowTypes, RowsStayOK
  <2> QED
    BY <1>1, <1>6, <2>1
<1>7. CASE held' = 0 /\ rows'[j] \in {FailJob(r), DeferJob(r), Recovered(r)}
  <2>1. rows'[j] \in Row /\ RowOK(rows'[j])
    BY <1>1, <1>7, RowTypes, RowsStayOK
  <2> QED
    BY <1>1, <1>7, <2>1
<1>8. CASE rows'[j] = Stalled(r)
  <2>1. Stalled(r) \in Row /\ RowOK(Stalled(r))
    BY <1>1, RowTypes, RowsStayOK
  <2>2. held = j => KeptRow(Stalled(r), seen)
    BY <1>1, StalledRow
  <2> QED
    BY <1>8, <2>1, <2>2
<1>9. CASE rows'[j] = Retained(r)
  <2>1. Retained(r) \in Row /\ RowOK(Retained(r))
    BY <1>1, RowTypes, RowsStayOK
  <2>2. r.status # "success" => Retained(r) = r
    BY DEF Retained
  <2> QED
    BY <1>1, <1>9, <2>1, <2>2 DEF KeptRow
<1>10. CASE r.status \in {"failed", "success"} /\ rows'[j] = Requeued(r)
  <2>1. Requeued(r) \in Row /\ RowOK(Requeued(r))
    BY <1>1, <1>10, RowTypes, RowsStayOK
  <2>2. Requeued(r).status = "pending"
    BY <1>1 DEF Requeued, Row
  <2> QED
    BY <1>10, <2>1, <2>2 DEF KeptRow
<1>11. CASE r.status = "failed" /\ \E b \in BOOLEAN : rows'[j] = [r EXCEPT !.ignored = b]
  <2>1. PICK b \in BOOLEAN : rows'[j] = [r EXCEPT !.ignored = b]
    BY <1>11
  <2> DEFINE x == [r EXCEPT !.ignored = b]
  <2>2. /\ x \in Row /\ x.status = r.status /\ x.attempts = r.attempts /\ x.key = r.key
    BY <1>1, <2>1 DEF Row
  <2>3. rows'[j] = x
    BY <2>1
  <2> HIDE DEF x
  <2> QED
    BY <1>1, <1>11, <2>2, <2>3 DEF RowOK, KeptRow
<1>12. CASE r.status = "pending" /\ rows'[j] = [r EXCEPT !.due = "past"]
  <2> DEFINE x == [r EXCEPT !.due = "past"]
  <2>1. /\ x \in Row /\ x.status = "pending" /\ x.attempts = r.attempts /\ x.key = r.key
        /\ x.ignored = r.ignored
    BY <1>1, <1>12 DEF Row
  <2>2. rows'[j] = x
    BY <1>12
  <2> HIDE DEF x
  <2> QED
    BY <1>1, <1>12, <2>1, <2>2 DEF RowOK, KeptRow
<1>13. CASE /\ r.status = "success" /\ r.age < MaxAge
            /\ rows'[j] = [r EXCEPT !.age = @ + 1]
  <2>1. r.age + 1 \in 0..2
    BY <1>1, <1>13 DEF Row
  <2> DEFINE x == [r EXCEPT !.age = @ + 1]
  <2>2. /\ x \in Row /\ x.status = "success" /\ x.key = r.key /\ x.ignored = r.ignored
    BY <1>1, <1>13, <2>1 DEF Row
  <2>3. rows'[j] = x
    BY <1>13
  <2> HIDE DEF x
  <2> QED
    BY <1>1, <1>13, <2>2, <2>3 DEF RowOK, KeptRow
<1> HIDE DEF r
<1> QED
  BY <1>2, <1>3, <1>4, <1>5, <1>6, <1>7, <1>8, <1>9, <1>10, <1>11, <1>12, <1>13
     DEF RowStep, r

\* And settled unless asked for, also while a re-download has read it.
LEMMA RowSettles ==
    ASSUME TableInv, Frame, NEW j \in Jobs, RowStep(j)
    PROVE  SettledRow(j) /\ AgainStep(j)
<1> USE QueueAssumption DEF QueueAssumption
<1> DEFINE r == rows[j]
<1>1. /\ r \in Row /\ RowOK(r) /\ j # 0 /\ again \in [id: Jobs \cup {0}, blanked: BOOLEAN]
      /\ held = j => KeptRow(r, seen)
      /\ seen \in 0..MaxAttempts \cup {NotRead}
      /\ again.id = j => AgainRow(r, again.blanked)
  BY DEF TableInv, TypeOK, RowHeldOK, AgainOK, Jobs
<1>2. CASE Blanking /\ rows'[j] = Retained(r)
  BY <1>1, <1>2, RetainedSettled DEF Blanking
<1>3. ASSUME ~(Blanking /\ rows'[j] = Retained(r))
      PROVE  again'.blanked = again.blanked \/ again'.id # j
  BY <1>1, <1>3 DEF Frame
<1>4. CASE ~(Blanking /\ rows'[j] = Retained(r)) /\ held = j /\ seen # NotRead
           /\ rows'[j] = MarkFailure(r, seen)
  <2>1. r.status = "failed" => MarkFailure(r, seen) = r
    BY <1>1, <1>4, RowsStayOK
  <2> QED
    BY <1>1, <1>3, <1>4, <2>1, Untouched DEF KeptRow
<1>5. CASE /\ ~(Blanking /\ rows'[j] = Retained(r))
           /\ \/ rows'[j] = r
              \/ r.status \in {"none", "pending"} \/ CanSucceed(r)
              \/ rows'[j] \in {FailJob(r), DeferJob(r), Recovered(r), Stalled(r)}
  BY <1>1, <1>3, <1>5, Untouched
     DEF CanSucceed, Active, FailJob, DeferJob, Recovered, Stalled, Releasable
<1>6. CASE r.status = "failed" /\ asks' = asks + 1 /\ rows'[j] = Requeued(r)
  BY <1>6 DEF SettledRow, AgainStep, AgainRow
<1>7. CASE /\ r.status = "success" /\ again.id = j /\ again' = NoRequest
           /\ asks' = asks + 1 /\ rows'[j] = Requeued(r)
  BY <1>1, <1>7 DEF SettledRow, AgainStep, AgainRow, NoRequest
<1>8. CASE r.status = "failed" /\ \E b \in BOOLEAN : rows'[j] = [r EXCEPT !.ignored = b]
  <2>1. rows'[j].status = "failed"
    BY <1>1, <1>8 DEF Row
  <2> QED
    BY <1>8, <2>1 DEF SettledRow, AgainStep, AgainRow
<1>9. CASE /\ ~(Blanking /\ rows'[j] = Retained(r))
           /\ r.status = "success" /\ rows'[j] = [r EXCEPT !.age = @ + 1]
  <2>1. rows'[j].status = "success" /\ rows'[j].full = r.full
    BY <1>1, <1>9 DEF Row
  <2> QED
    BY <1>3, <1>9, <2>1 DEF SettledRow, AgainStep, AgainRow
<1> HIDE DEF r
<1> QED
  BY <1>2, <1>4, <1>5, <1>6, <1>7, <1>8, <1>9 DEF RowStep, r

\* Monitor and trial keep out of each other's way.
LEMMA LockStep == TableInv /\ NextWithTrial => LockOK'
<1> SUFFICES ASSUME TableInv, NextWithTrial PROVE LockOK'
  OBVIOUS
<1>1. LockOK /\ held \in Jobs \cup {0} /\ 0 \notin Jobs
  BY DEF TableInv, TypeOK, Jobs
<1>2. CASE MonitorSteps
  <2>1. UNCHANGED trial /\ ~On
    BY <1>2 DEF MonitorSteps
  <2>2. CASE WorkerNotes
    <3>1. CASE \/ \E j \in Jobs : ClaimNext(j)
               \/ Deferred \/ Saved \/ OtherOutcome
      BY <1>1, <2>1, <3>1 DEF ClaimNext, Claim, Deferred, Saved, OtherOutcome, Deciding, LetsGo,
         RecordDeferral, RecordSuccess, ReadAttempts, RecordFailure, RecordNotConfigured,
         OutcomeLost, LockOK, On, NoTrial, Busy, noteVars
    <3>3. CASE \E j \in Jobs : ReconcileUnnoted(j)
      BY <1>1, <2>1, <3>3 DEF ReconcileUnnoted, Reconcile, Unnoted, LockOK, On, NoTrial
    <3>2. CASE ReadIssues \/ WriteIssues \/ NoteFails
      <4>1. note # NoNote
        <5>1. (ReadIssues => note.op # "none") /\ (WriteIssues => note.op # "none")
          BY DEF ReadIssues, WriteIssues
        <5>2. NoteFails => note # NoNote
          BY DEF NoteFails, Busy
        <5>3. NoNote.op = "none"
          BY DEF NoNote
        <5> QED
          BY <3>2, <5>1, <5>2, <5>3
      <4>2. UNCHANGED <<mon, held, trial>>
        BY <2>1, <3>2 DEF ReadIssues, WriteIssues, NoteFails, vars
      <4> QED
        BY <1>1, <2>1, <4>1, <4>2 DEF LockOK, On, NoTrial
    <3> QED
      BY <2>2, <3>1, <3>2, <3>3 DEF WorkerNotes
  <2>3. CASE MonitorGone
    BY <1>1, <2>1, <2>3 DEF MonitorGone, CutOff, Kill, StallKill, LetsGo, LockOK, On, NoTrial
  <2>4. CASE StartMonitor /\ UNCHANGED noteVars
    BY <1>1, <2>1, <2>4 DEF StartMonitor, LockOK, On, NoTrial, noteVars
  <2> QED
    BY <1>2, <2>2, <2>3, <2>4 DEF MonitorSteps
<1>3. CASE TrialSteps
  <2>1. CASE TrialStarts
    BY <1>1, <2>1 DEF TrialStarts, Step, LockOK, On, NoTrial, noteVars
  <2>2. CASE TrialRecovers
    BY <1>1, <2>2 DEF TrialRecovers, Step, LockOK, On, NoTrial, noteVars
  <2>6. CASE \E j \in Jobs : TrialReconcile(j)
    BY <1>1, <2>6 DEF TrialReconcile, Unnoted, LockOK, On, NoTrial
  <2>3. CASE \E k \in Keys : Select(k)
    <3>1. PICK k \in Keys : Select(k)
      BY <2>3
    <3>2. trial.keys \cup {k} \in SUBSET Keys
      BY <1>1 DEF LockOK
    <3> QED
      BY <1>1, <3>1, <3>2 DEF Select, LockOK, On, NoTrial, noteVars
  <2>4. CASE \E j \in Jobs : Try(j)
    <3>1. PICK j \in Jobs : Try(j)
      BY <2>4
    <3>2. trial.tried \cup {rows[j].key} \in SUBSET Keys
      BY <1>1, <3>1 DEF LockOK, Try
    <3> QED
      BY <1>1, <3>1, <3>2 DEF Try, LockOK, On, NoTrial, noteVars
  <2>5. CASE \/ TrialRecords \/ TrialFails \/ TrialEnds
             \/ TrialInterrupted \/ TrialStalls
    BY <1>1, <2>5 DEF TrialRecords, TrialFails, TrialEnds, TrialInterrupted, TrialStalls,
       RecordSuccess, ReadAttempts, RecordFailure, RecordNotConfigured, RecordDeferral,
       OutcomeLost, Deciding, LetsGo, Unnoted, LockOK, On, NoTrial, noteVars, vars
  <2> QED
    BY <1>3, <2>1, <2>2, <2>3, <2>4, <2>5, <2>6 DEF TrialSteps
<1>4. CASE Others /\ UNCHANGED <<noteVars, trial>>
  BY <1>1, <1>4 DEF Others, Enqueue, Recover, Retain, ReleaseStalled, ReleaseLost, TrayUser,
     Retry, ReadSuccess, Redownload, RedownloadOff, Ignore, Unignore, SetIgnored, BecomeDue, Age,
     LockOK, On, NoTrial, noteVars
<1>5. CASE SaveStops /\ trial' = NoTrial
  BY <1>1, <1>5 DEF SaveStops, CutOff, LetsGo, LockOK, On, NoTrial
<1>6. CASE SaveSteps /\ UNCHANGED trial
  BY <1>1, <1>6 DEF SaveSteps, SaveDeletes, SaveFails, LockOK, On, NoTrial, vars
<1> QED
  BY <1>2, <1>3, <1>4, <1>5, <1>6 DEF NextWithTrial

LEMMA TableStep == TableInv /\ [NextWithTrial]_allVars => TableInv'
<1> SUFFICES ASSUME TableInv, [NextWithTrial]_allVars PROVE TableInv'
  OBVIOUS
<1>1. CASE UNCHANGED allVars
  BY <1>1 DEF allVars, vars, noteVars, TableInv, TypeOK, UnusedIds, RowHeldOK, AgainOK, LockOK,
     On, NoTrial
<1>2. CASE NextWithTrial
  <2>1. Frame /\ \A j \in Jobs : RowStep(j)
    BY <1>2, Steps
  <2>2. \A j \in Jobs :
          /\ rows'[j] \in Row /\ RowOK(rows'[j])
          /\ held = j /\ held' = j => KeptRow(rows'[j], seen)
    BY <2>1, RowStepOK
  <2>7. \A j \in Jobs : AgainStep(j)
    BY <2>1, RowSettles
  <2>8. seen' \in 0..MaxAttempts \cup {NotRead}
    BY <2>1 DEF Frame, TableInv, TypeOK, Row
  <2>3. TypeOK'
    BY <2>1, <2>2, <2>8 DEF Frame, TypeOK, Requests
  <2>4. UnusedIds'
    BY <2>1, QueueAssumption DEF Frame, UnusedIds, TableInv, TypeOK, Jobs, QueueAssumption
  <2>5. RowHeldOK'
    <3>1. CASE held' = held /\ seen' = seen
      BY <2>1, <2>2, <3>1 DEF Frame, TableInv, RowHeldOK
    <3>2. CASE held' = 0 /\ seen' = NotRead
      BY <3>2 DEF RowHeldOK
    <3>3. CASE held # 0 /\ held' = held /\ seen' = rows[held].attempts /\ rows' = rows
      <4>1. KeptRow(rows[held], seen) /\ rows[held] \in Row
        BY <2>1, <3>3 DEF Frame, TableInv, RowHeldOK, TypeOK
      <4>2. KeptRow(rows[held], rows[held].attempts)
        BY <4>1 DEF KeptRow, Row
      <4> QED
        BY <3>3, <4>2 DEF RowHeldOK
    <3>4. CASE /\ held = 0 /\ held' # 0 /\ seen' = NotRead
               /\ rows'[held'] = Claimed(rows[held']) /\ rows[held'].status = "pending"
      <4>1. held' \in Jobs
        BY <2>1, <3>4 DEF Frame
      <4>2. rows[held'] \in Row
        BY <4>1 DEF TableInv, TypeOK
      <4>3. Claimed(rows[held']).status = "processing"
        BY <4>2 DEF Claimed, Row
      <4> QED
        BY <3>4, <4>1, <4>3 DEF RowHeldOK, KeptRow
    <3> QED
      BY <2>1, <3>1, <3>2, <3>3, <3>4 DEF Frame
  <2>9. AgainOK'
    <3>1. CASE again'.id \in {again.id, 0}
      BY <2>1, <2>7, <3>1 DEF Frame, Requests, TableInv, TypeOK, AgainOK, AgainStep
    <3>2. CASE again'.id \notin {again.id, 0}
      BY <2>1, <3>2 DEF Frame, AgainOK, AgainRow
    <3> QED
      BY <3>1, <3>2
  <2>6. LockOK'
    BY <1>2, LockStep
  <2> QED
    BY <2>2, <2>3, <2>4, <2>5, <2>6, <2>9 DEF TableInv
<1> QED
  BY <1>1, <1>2

LEMMA TableInit == TrialInit => TableInv
<1> SUFFICES ASSUME TrialInit PROVE TableInv
  OBVIOUS
<1>1. Init /\ IInv
  BY InitIInv DEF TrialInit, AuthInit
<1>2. LockOK
  BY <1>1 DEF TrialInit, AuthInit, Init, LockOK, On, NoTrial
<1> QED
  BY <1>1, <1>2 DEF IInv, TableInv, RowHeldOK, AgainOK, NoRequest, Init

THEOREM TableInvariant == SpecWithTrial => []TableInv
  BY TableInit, TableStep, PTL DEF SpecWithTrial

\* Types, and no claim beyond max_attempts, also by the trial.
THEOREM TypeCorrectWithTrial == SpecWithTrial => []TypeOK
<1>1. TableInv => TypeOK
  BY DEF TableInv
<1> QED
  BY <1>1, TableInvariant, PTL

\* An ignored row is a failed one, whoever held it when it failed.
THEOREM IgnoredStaysFailedWithTrial == SpecWithTrial => []IgnoredOnlyFailed
<1>1. TableInv => IgnoredOnlyFailed
  BY DEF TableInv, IgnoredOnlyFailed, RowOK
<1> QED
  BY <1>1, TableInvariant, PTL

\* The attempts add up, also those of interrupted trials.
THEOREM AttemptsAccountedWithTrial == SpecWithTrial => []AttemptBudget
<1>1. TableInv => AttemptBudget
  BY DEF TableInv, AttemptBudget, RowOK
<1> QED
  BY <1>1, TableInvariant, PTL

\* A trial brings nothing back that has failed or was saved, and a re-download
\* beside it brings back the payload it has read, unless retention took it.
THEOREM SettledWithTrial == SpecWithTrial => SettledStays
<1>1. TableInv /\ [NextWithTrial]_allVars => [\A j \in Jobs : SettledRow(j)]_vars
  <2>1. ASSUME TableInv, NextWithTrial, NEW j \in Jobs PROVE SettledRow(j)
    BY <2>1, Steps, RowSettles
  <2> QED
    BY <2>1 DEF allVars
<1>2. SpecWithTrial => [][\A j \in Jobs : SettledRow(j)]_vars
  BY <1>1, TableInvariant, PTL DEF SpecWithTrial
<1> QED
  BY <1>2 DEF SettledStays, SettledRow

-----------------------------------------------------------------------------
(* The authentication issues.  Between its read and its write a note is    *)
(* about the row as it still stands, because only the worker and a Save    *)
(* write it; what a Save deletes in between is what the write brings back. *)

Notes == [op : {"none", "set", "clear", "put", "take"}, acc : Accounts \cup {""},
          read : SUBSET Accounts]

NoteOK ==
    /\ issues \cup owed \subseteq Accounts
    /\ note \in Notes
    /\ note.op = "none" => note = NoNote
    /\ note.op \in {"none", "set", "clear"} => note.read = {}
    /\ note.op \in {"put", "take"} =>
          \A a \in Accounts \ wrong : a # note.acc => (a \in note.read <=> a \in issues)
    /\ note.op \in {"set", "put"} => note.acc \in owed
    /\ note.op \in {"clear", "take"} => note.acc \notin owed
    /\ IssuesShown

LEMMA NoteStep ==
    ASSUME TableInv, NoteOK, [NextWithTrial]_allVars
    PROVE  NoteOK'
<1>0. NoNote \in Notes /\ NoNote.op = "none" /\ NoNote.read = {}
  BY DEF NoNote, Notes
<1>1. CASE UNCHANGED noteVars
  BY <1>1 DEF noteVars, NoteOK, IssuesShown, Busy
\* The outcome of a job, held by a worker that is at no note.
<1>2. CASE Deferred \/ Saved
  <2>1. held \in Jobs /\ rows[held].key \in Keys /\ note = NoNote
    BY <1>2 DEF Deferred, Saved, RecordDeferral, RecordSuccess, Deciding, TableInv, TypeOK,
       LockOK, RowHeldOK, KeptRow, RowOK
  <2>2. HeldAccount \in Accounts
    BY <2>1, AccountAssumption DEF HeldAccount, AccountAssumption
  <2>3. PICK o \in {"set", "clear"} :
           /\ note' = [op |-> o, acc |-> HeldAccount, read |-> {}]
           /\ owed' = IF o = "set" THEN owed \cup {HeldAccount} ELSE owed \ {HeldAccount}
    BY <1>2 DEF Deferred, Saved, Note
  <2>4. UNCHANGED <<issues, saving, wrong>>
    BY <1>2 DEF Deferred, Saved
  <2>5. /\ note' \in Notes /\ note' # NoNote /\ note'.op = o /\ note'.acc = HeldAccount
        /\ note'.read = {}
    <3>1. {} \in SUBSET Accounts /\ HeldAccount \in Accounts \cup {""}
      BY <2>2
    <3>2. o \in {"set", "clear", "put", "take"}
      OBVIOUS
    <3>3. note'.op = o /\ note'.acc = HeldAccount /\ note'.read = {} /\ o # "none"
      BY <2>3
    <3>4. note' \in Notes
      BY <2>3, <3>1, <3>2 DEF Notes
    <3> QED
      BY <1>0, <3>3, <3>4
  <2>6. IssuesShown'
    BY <2>1, <2>3, <2>4, <2>5 DEF NoteOK, IssuesShown, Busy
  <2> QED
    <3>1. issues' \cup owed' \subseteq Accounts
      BY <2>2, <2>3, <2>4 DEF NoteOK
    <3>2. /\ note'.op \in {"set", "put"} => note'.acc \in owed'
          /\ note'.op \in {"clear", "take"} => note'.acc \notin owed'
      BY <2>3, <2>5
    <3>3. note'.op # "none" /\ note'.op \notin {"put", "take"}
      BY <2>5
    <3> QED
      BY <2>5, <2>6, <3>1, <3>2, <3>3 DEF NoteOK
<1>3. CASE ReadIssues
  <2>1. CASE note.op = "clear" /\ note.acc \notin issues
    <3>1. /\ note' = NoNote /\ wrong' = wrong \ {note.acc} /\ UNCHANGED <<issues, owed>>
          /\ note.acc \notin issues /\ note.acc \notin owed
      BY <1>3, <2>1 DEF ReadIssues, NoteOK
    <3>2. IssuesShown'
      BY <3>1 DEF NoteOK, IssuesShown, Busy
    <3> QED
      BY <1>0, <3>1, <3>2 DEF NoteOK
  <2>2. CASE ~(note.op = "clear" /\ note.acc \notin issues)
    <3>1. PICK o \in {"put", "take"} :
             /\ note' = [op |-> o, acc |-> note.acc, read |-> issues]
             /\ o = "put" <=> note.op = "set"
      BY <1>3, <2>2 DEF ReadIssues, NoteOK, Notes
    <3>2. UNCHANGED <<issues, owed, wrong>> /\ note.op \in {"set", "clear"}
      BY <1>3, <2>2 DEF ReadIssues
    <3>3. note.acc \in Accounts \cup {""} /\ issues \in SUBSET Accounts
      BY DEF NoteOK, Notes
    <3>4. /\ note' \in Notes /\ note' # NoNote
          /\ note'.op = o /\ note'.acc = note.acc /\ note'.read = issues
      <4>1. o \in {"set", "clear", "put", "take"}
        OBVIOUS
      <4>2. note'.op = o /\ note'.acc = note.acc /\ note'.read = issues /\ o # "none"
        BY <3>1
      <4>3. note' \in Notes
        BY <3>1, <3>3, <4>1 DEF Notes
      <4> QED
        BY <1>0, <4>2, <4>3
    <3>5. IssuesShown'
      BY <1>0, <3>2, <3>4 DEF NoteOK, IssuesShown, Busy
    <3> QED
      BY <3>1, <3>2, <3>4, <3>5 DEF NoteOK
  <2> QED
    BY <2>1, <2>2
<1>4. CASE WriteIssues
  <2>1. /\ issues' = IF note.op = "put" THEN note.read \cup {note.acc}
                                       ELSE note.read \ {note.acc}
        /\ note' = NoNote /\ wrong' = wrong \ {note.acc} /\ UNCHANGED owed
        /\ note.op \in {"put", "take"} /\ Busy
    BY <1>0, <1>4 DEF WriteIssues, NoteOK, Busy
  <2>2. note.op = "put" => note.acc \in Accounts
    BY <2>1 DEF NoteOK, Notes
  <2>3. IssuesShown'
    BY <2>1 DEF NoteOK, IssuesShown, Busy
  <2>4. issues' \subseteq Accounts
    BY <2>1, <2>2 DEF NoteOK, Notes
  <2> QED
    BY <1>0, <2>1, <2>3, <2>4 DEF NoteOK
<1>5. CASE CutOff
  BY <1>0, <1>5 DEF CutOff, NoteOK, IssuesShown, Busy
\* An outcome without a note, while nobody is at one.
<1>6. ASSUME NEW j \in Jobs, rows[j].key \in Keys, note = NoNote,
             NEW d \in BOOLEAN, Unnoted(AccountOf[rows[j].key], d)
      PROVE  NoteOK'
  <2> DEFINE a == AccountOf[rows[j].key]
  <2>1. a \in Accounts
    BY <1>6, AccountAssumption DEF AccountAssumption
  <2>2. /\ owed' = IF d THEN owed \cup {a} ELSE owed \ {a}
        /\ wrong' = IF (a \in issues) = d THEN wrong ELSE wrong \cup {a}
        /\ issues' = issues /\ note' = NoNote
    BY <1>6 DEF Unnoted
  <2> HIDE DEF a
  <2>3. IssuesShown'
    BY <1>6, <2>2 DEF NoteOK, IssuesShown, Busy
  <2>4. issues' \cup owed' \subseteq Accounts
    BY <2>1, <2>2 DEF NoteOK
  <2> QED
    BY <1>0, <1>6, <2>2, <2>3, <2>4 DEF NoteOK
<1>7. CASE SaveDeletes
  <2>1. /\ issues' = {} /\ note' = note /\ wrong' = note.read \ {note.acc}
        /\ owed' = IF note.op \in {"set", "put"} THEN {note.acc} ELSE {}
    BY <1>7 DEF SaveDeletes
  <2>2. owed' \subseteq Accounts
    BY <2>1 DEF NoteOK
  <2>3. note.op \in {"set", "put"} => Busy
    BY <1>0 DEF Busy
  <2>4. IssuesShown'
    BY <2>1, <2>3 DEF IssuesShown, Busy
  <2>5. note'.op \in {"put", "take"} =>
           \A a \in Accounts \ wrong' : a # note'.acc => (a \in note'.read <=> a \in issues')
    BY <2>1
  <2> QED
    BY <2>1, <2>2, <2>4, <2>5 DEF NoteOK
<1>8. CASE SaveFails
  BY <1>8 DEF SaveFails, NoteOK, IssuesShown, Busy
<1>9. CASE MonitorSteps
  <2>1. ASSUME NEW j \in Jobs, ReconcileUnnoted(j) PROVE NoteOK'
    <3>1. /\ rows[j].key \in Keys /\ note = NoNote
          /\ Unnoted(AccountOf[rows[j].key], FALSE)
      BY <2>1 DEF ReconcileUnnoted, Reconcile, CanSucceed, Active, TableInv, LockOK, RowOK
    <3> QED
      BY <1>6, <3>1
  <2> QED
    BY <1>1, <1>2, <1>3, <1>4, <1>5, <1>9, <2>1 DEF MonitorSteps, WorkerNotes, ClaimNext,
       OtherOutcome, NoteFails, MonitorGone
<1>10. CASE TrialSteps
  <2>1. ASSUME NEW j \in Jobs, TrialReconcile(j) PROVE NoteOK'
    <3>1. /\ rows[j].key \in Keys /\ note = NoNote
          /\ Unnoted(AccountOf[rows[j].key], FALSE)
      BY <2>1 DEF TrialReconcile, CanSucceed, Active, TableInv, LockOK, RowOK, On, NoTrial
    <3> QED
      BY <1>6, <3>1
  <2>2. ASSUME TrialRecords PROVE NoteOK'
    <3>1. CASE UNCHANGED noteVars
      BY <1>1, <3>1
    <3>2. CASE ~ UNCHANGED noteVars
      <4>1. PICK d \in BOOLEAN : Unnoted(HeldAccount, d)
        BY <2>2, <3>2 DEF TrialRecords
      <4>2. held \in Jobs /\ rows[held].key \in Keys /\ note = NoNote
        BY <2>2, <3>2 DEF TrialRecords, RecordDeferral, RecordSuccess, Deciding, TableInv, TypeOK,
           LockOK, RowHeldOK, KeptRow, RowOK
      <4> QED
        BY <1>6, <4>1, <4>2 DEF HeldAccount
    <3> QED
      BY <3>1, <3>2
  <2> QED
    BY <1>1, <1>10, <2>1, <2>2 DEF TrialSteps, TrialStarts, TrialRecovers, TrialFails,
       TrialEnds, TrialInterrupted, TrialStalls, Try, Select
<1> QED
  BY <1>1, <1>5, <1>7, <1>8, <1>9, <1>10 DEF NextWithTrial, SaveStops, SaveSteps, allVars

\* The tray shows an authentication issue exactly of the accounts whose last
\* job was deferred, but for those IssuesShown leaves out, for any number of
\* accounts, kills, trials, and Saves with a monitor started in their middle.
THEOREM IssuesAreShown == SpecWithTrial => []IssuesShown
<1>1. TrialInit => NoteOK
  <2>1. NoNote \in Notes /\ NoNote.op = "none" /\ NoNote.read = {}
    BY DEF NoNote, Notes
  <2> QED
    BY <2>1 DEF TrialInit, AuthInit, NoteOK, IssuesShown
<1>2. TableInv /\ NoteOK /\ [NextWithTrial]_allVars => NoteOK'
  BY NoteStep
<1>3. NoteOK => IssuesShown
  BY DEF NoteOK
<1> QED
  BY <1>1, <1>2, <1>3, TableInvariant, PTL DEF SpecWithTrial
=============================================================================
