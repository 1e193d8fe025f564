--------------------------- MODULE JobQueueProofs ---------------------------
(***************************************************************************)
(* Proofs about JobQueue for every value of its constants.  The inductive  *)
(* invariant IInv adds three things to the invariants of the component: the  *)
(* row-wise reading of IgnoredOnlyFailed and AttemptBudget (RowOK), what   *)
(* may have happened to the row a worker holds and to the attempts it has  *)
(* read (HeldOK), and that a new id meets no old row (UnusedIds).  On top  *)
(* of it stands what may have happened to the success a re-download has    *)
(* read (AgainOK).                                                         *)
(***************************************************************************)
EXTENDS JobQueue, TLAPS

\* IgnoredOnlyFailed and AttemptBudget, for one row; a row has a key.
RowOK(r) ==
    /\ r.status \notin {"none", "gone"} => r.key \in Keys
    /\ r.ignored => r.status = "failed"
    /\ r.status = "pending" => r.attempts < MaxAttempts
    /\ r.status = "processing" => r.attempts > 0

\* A held row may have been released under its worker by a late watchdog and
\* retried by the user, but it was failed only with its attempts used up:
\* this is why the unguarded mark_failure cannot bring it back.  Attempts it has
\* read stay true of the row while it is processing, or have led to its failure.
KeptRow(r, n) ==
    /\ r.status \in {"pending", "processing", "failed"}
    /\ r.status = "failed" => r.attempts >= MaxAttempts
    /\ n # NotRead => /\ r.status = "processing" => r.attempts = n
                      /\ r.status = "failed" => n >= MaxAttempts

HeldOK ==
    /\ held # 0 => mon = "run" /\ KeptRow(rows[held], seen)
    /\ held = 0 => seen = NotRead

\* AUTOINCREMENT: no id beyond the last one handed out has a row.
UnusedIds == \A j \in Jobs : j > lastId => rows[j].status = "none"

IInv ==
    /\ TypeOK /\ HeldOK /\ UnusedIds /\ NoStrandedClaim
    /\ \A j \in Jobs : RowOK(rows[j])

-----------------------------------------------------------------------------
(* What the statements do to a row.                                        *)

\* Every statement keeps the type of a row it may select.
LEMMA RowTypes ==
    ASSUME NEW r \in Row
    PROVE  /\ r.attempts < MaxAttempts => Claimed(r) \in Row
           /\ Succeeded(r) \in Row /\ \A n : MarkFailure(r, n) \in Row
           /\ FailJob(r) \in Row /\ DeferJob(r) \in Row /\ Recovered(r) \in Row
           /\ Stalled(r) \in Row /\ Requeued(r) \in Row /\ Retained(r) \in Row
           /\ \A k \in Keys : FreshRow(k) \in Row
<1> USE QueueAssumption DEF QueueAssumption
<1>1. r.attempts < MaxAttempts => Claimed(r) \in Row
  <2>1. r.attempts < MaxAttempts => r.attempts + 1 \in 0..MaxAttempts
    BY DEF Row
  <2> QED
    BY <2>1 DEF Row, Claimed
<1>8. Succeeded(r) \in Row
  <2>1. \A a \in 0..2 : [r EXCEPT !.status = "success", !.ignored = FALSE,
                                 !.due = "zero", !.age = a] \in Row
    BY DEF Row
  <2>2. 0 \in 0..2
    OBVIOUS
  <2> QED
    BY <2>1, <2>2, Zenon DEF Succeeded
<1>9. Requeued(r) \in Row
  <2>1. \A a \in 0..2, n \in 0..MaxAttempts :
           [r EXCEPT !.status = "pending", !.ignored = FALSE, !.attempts = n,
                     !.due = "zero", !.age = a] \in Row
    BY DEF Row
  <2>2. 0 \in 0..2 /\ 0 \in 0..MaxAttempts
    OBVIOUS
  <2> QED
    BY <2>1, <2>2, Zenon DEF Requeued
<1>2. \A n : Attempted(r, n) \in Row
  BY DEF Row, Attempted
<1>3. Refund(r.attempts) \in 0..MaxAttempts
  BY DEF Row, Refund
<1>4. FailJob(r) \in Row /\ DeferJob(r) \in Row /\ Recovered(r) \in Row
  BY <1>3 DEF Row, FailJob, DeferJob, Recovered
<1>5. NoRow \in Row
  BY DEF Row, NoRow
<1>6. Retained(r) \in Row
  BY <1>5 DEF Row, Retained
<1>7. \A k \in Keys : FreshRow(k) \in Row
  BY <1>5 DEF Row, FreshRow
<1> QED
  BY <1>1, <1>2, <1>4, <1>6, <1>7, <1>8, <1>9 DEF MarkFailure, Stalled

\* Every statement keeps RowOK on the rows its guard lets through.
LEMMA RowsStayOK ==
    ASSUME NEW r \in Row, RowOK(r)
    PROVE  /\ r.status = "pending" => RowOK(Claimed(r))
           /\ CanSucceed(r) => RowOK(Succeeded(r))
           /\ RowOK(FailJob(r)) /\ RowOK(DeferJob(r))
           /\ RowOK(Recovered(r)) /\ RowOK(Stalled(r)) /\ RowOK(Retained(r))
           /\ r.status \in {"failed", "success"} => RowOK(Requeued(r))
           /\ \A n \in 0..MaxAttempts : KeptRow(r, n) =>
                 /\ RowOK(MarkFailure(r, n))
                 /\ MarkFailure(r, n).status # "processing"
                 /\ r.status = "failed" => MarkFailure(r, n) = r
           /\ r.status = "none" => /\ Recovered(r) = r /\ Stalled(r) = r
                                   /\ Retained(r) = r
           /\ \A k \in Keys : RowOK(FreshRow(k))
<1> USE QueueAssumption DEF QueueAssumption, Row, RowOK
<1>1. /\ r.status = "pending" => RowOK(Claimed(r))
      /\ RowOK(FailJob(r))
      /\ r.status \in {"failed", "success"} => RowOK(Requeued(r))
  BY DEF Claimed, FailJob, Releasable, Requeued
<1>2. CanSucceed(r) => RowOK(Succeeded(r))
  BY DEF Succeeded, CanSucceed, Active
<1>3. ASSUME Releasable(r) PROVE Refund(r.attempts) < MaxAttempts
  BY <1>3 DEF Refund, Releasable
<1>4. RowOK(DeferJob(r)) /\ RowOK(Recovered(r))
  <2>1. CASE Releasable(r)
    <3> DEFINE n == Refund(r.attempts)
    <3>1. n < MaxAttempts
      BY <1>3, <2>1
    <3> HIDE DEF n
    <3>2. \A d : LET s == [r EXCEPT !.status = "pending", !.due = d, !.attempts = n]
                IN  /\ s.status = "pending" /\ s.attempts = n
                    /\ s.key = r.key /\ s.ignored = r.ignored
      OBVIOUS
    <3>3. DeferJob(r) = [r EXCEPT !.status = "pending", !.due = "later", !.attempts = n]
      BY <2>1 DEF DeferJob, n
    <3>4. Recovered(r) = [r EXCEPT !.status = "pending", !.due = "past", !.attempts = n]
      BY <2>1 DEF Recovered, n
    <3> QED
      BY <2>1, <3>1, <3>2, <3>3, <3>4 DEF Releasable
  <2>2. CASE ~Releasable(r)
    BY <2>2 DEF DeferJob, Recovered
  <2> QED
    BY <2>1, <2>2
<1>5. RowOK(Retained(r))
  BY DEF Retained, NoRow
<1>6. r.status \in {"pending", "processing", "failed"} /\ ~r.ignored
         => RowOK(Attempted(r, r.attempts))
  BY DEF Attempted
<1>7. RowOK(Stalled(r))
  BY <1>6 DEF Stalled, Releasable
<1>8. ASSUME NEW n \in 0..MaxAttempts, KeptRow(r, n)
      PROVE  /\ RowOK(MarkFailure(r, n))
             /\ MarkFailure(r, n).status # "processing"
             /\ r.status = "failed" => MarkFailure(r, n) = r
  <2>1. MarkFailure(r, n) = Attempted(r, n) /\ n # NotRead
    BY <1>8 DEF KeptRow, MarkFailure, Missing, NotRead
  <2>2. CASE n >= MaxAttempts
    BY <1>8, <2>1, <2>2 DEF Attempted, KeptRow
  <2>3. CASE ~(n >= MaxAttempts)
    BY <1>8, <2>1, <2>3 DEF Attempted, KeptRow
  <2> QED
    BY <2>2, <2>3
<1>10. r.status = "none" => Recovered(r) = r /\ Stalled(r) = r /\ Retained(r) = r
  BY DEF Recovered, Stalled, Releasable, Retained
<1>11. \A k \in Keys : RowOK(FreshRow(k))
  BY DEF FreshRow, NoRow
<1> QED
  BY <1>1, <1>2, <1>4, <1>5, <1>7, <1>8, <1>10, <1>11

\* A row rewritten by a statement that keeps its type and RowOK.
LEMMA OneRow ==
    ASSUME IInv, NEW i \in Jobs, NEW x \in Row, RowOK(x),
           rows' = [rows EXCEPT ![i] = x]
    PROVE  /\ rows' \in [Jobs -> Row]
           /\ \A j \in Jobs : RowOK(rows'[j])
           /\ rows'[i] = x
           /\ \A j \in Jobs : j # i => rows'[j] = rows[j]
  BY DEF IInv, TypeOK

-----------------------------------------------------------------------------
(* The invariant.                                                          *)

LEMMA InitIInv == Init => IInv
<1> SUFFICES ASSUME Init PROVE IInv
  OBVIOUS
<1> USE QueueAssumption DEF QueueAssumption
<1>1. NoRow \in Row /\ RowOK(NoRow) /\ NoRow.status = "none"
  BY DEF NoRow, Row, RowOK
<1>2. TypeOK /\ \A j \in Jobs : rows[j] = NoRow
  <2>1. NoRequest \in [id: Jobs \cup {0}, blanked: BOOLEAN]
    BY DEF NoRequest
  <2> QED
    BY <1>1, <2>1 DEF Init, TypeOK
<1> QED
  BY <1>1, <1>2 DEF Init, IInv, HeldOK, UnusedIds, NoStrandedClaim

\* Letting go of the held row, with the row left in a settled, waiting or (for
\* a lost outcome) unchanged state, keeps the invariant.
LEMMA LetGo ==
    ASSUME IInv, held # 0, LetsGo, UNCHANGED <<lastId, mon, wd, asks, again>>,
           faults' \in 0..MaxFaults,
           NEW x \in Row, RowOK(x), x.status # "processing",
           rows' = [rows EXCEPT ![held] = x]
    PROVE  IInv'
<1>1. held \in Jobs
  BY DEF IInv, TypeOK
<1>2. /\ rows' \in [Jobs -> Row]
      /\ \A j \in Jobs : RowOK(rows'[j])
      /\ rows'[held] = x
      /\ \A j \in Jobs : j # held => rows'[j] = rows[j]
  BY <1>1, OneRow
<1>3. TypeOK'
  BY <1>2 DEF IInv, TypeOK, LetsGo
<1>4. HeldOK'
  BY DEF HeldOK, LetsGo
<1>5. NoStrandedClaim'
  BY <1>1, <1>2 DEF IInv, NoStrandedClaim, HeldOK, LetsGo
<1>6. UnusedIds'
  BY <1>1, <1>2 DEF IInv, UnusedIds, HeldOK, KeptRow
<1> QED
  BY <1>2, <1>3, <1>4, <1>5, <1>6 DEF IInv

LEMMA RecordStep == IInv /\ Record => IInv'
<1> SUFFICES ASSUME IInv, Record PROVE IInv'
  OBVIOUS
<1> USE QueueAssumption DEF QueueAssumption
<1>1. /\ held \in Jobs /\ held # 0
      /\ rows[held] \in Row /\ RowOK(rows[held])
      /\ mon = "run" /\ KeptRow(rows[held], seen)
      /\ seen \in 0..MaxAttempts \cup {NotRead}
      /\ faults \in 0..MaxFaults
  BY DEF IInv, TypeOK, HeldOK, Record, Deciding, RecordSuccess, ReadAttempts, RecordFailure,
         RecordNotConfigured, RecordDeferral, OutcomeLost
<1>2. CASE RecordSuccess
  <2>1. Succeeded(rows[held]).status = "success"
    BY <1>1 DEF Succeeded, Row
  <2> QED
    BY <1>1, <1>2, <2>1, LetGo, RowTypes, RowsStayOK DEF RecordSuccess
<1>3. CASE RecordFailure
  <2>1. seen \in 0..MaxAttempts
    BY <1>1, <1>3 DEF RecordFailure
  <2>2. /\ RowOK(MarkFailure(rows[held], seen))
        /\ MarkFailure(rows[held], seen).status # "processing"
    BY <1>1, <2>1, RowsStayOK
  <2> QED
    BY <1>1, <1>3, <2>2, LetGo, RowTypes DEF RecordFailure
<1>4. CASE RecordNotConfigured
  <2>1. FailJob(rows[held]).status # "processing"
    BY <1>1 DEF FailJob, Releasable, RowOK, Row, KeptRow
  <2> QED
    BY <1>1, <1>4, <2>1, LetGo, RowTypes, RowsStayOK DEF RecordNotConfigured
<1>5. CASE RecordDeferral
  <2>1. DeferJob(rows[held]).status # "processing"
    BY <1>1 DEF DeferJob, Releasable, RowOK, Row, KeptRow
  <2>2. faults' \in 0..MaxFaults
    BY <1>1, <1>5 DEF RecordDeferral, Fault
  <2> QED
    BY <1>1, <1>5, <2>1, <2>2, LetGo, RowTypes, RowsStayOK DEF RecordDeferral
<1>6. CASE OutcomeLost
  BY <1>1, <1>6 DEF OutcomeLost, LetsGo, Fault, IInv, TypeOK, HeldOK, UnusedIds, NoStrandedClaim
<1>7. CASE ReadAttempts
  <2>1. ~Missing(rows[held])
    BY <1>1 DEF Missing, KeptRow
  <2>2. seen' = rows[held].attempts /\ UNCHANGED <<rows, lastId, mon, held, wd, faults, asks, again>>
    BY <1>7, <2>1 DEF ReadAttempts
  <2>3. seen' \in 0..MaxAttempts /\ KeptRow(rows[held], seen')
    BY <1>1, <2>2 DEF Row, KeptRow
  <2> QED
    BY <1>1, <2>2, <2>3 DEF IInv, TypeOK, HeldOK, UnusedIds, NoStrandedClaim
<1> QED
  BY <1>2, <1>3, <1>4, <1>5, <1>6, <1>7 DEF Record

\* Rewriting one row, by an actor that holds no claim and leaves the others
\* alone, into one that is not processing keeps the invariant.
LEMMA Rewrite ==
    ASSUME IInv, NEW i \in Jobs, rows[i].status # "none",
           UNCHANGED <<lastId, mon, held, seen, wd>>,
           faults' \in 0..MaxFaults, asks' \in 0..MaxAsks,
           again' \in [id: Jobs \cup {0}, blanked: BOOLEAN],
           NEW x \in Row, RowOK(x), x.status # "processing",
           rows' = [rows EXCEPT ![i] = x],
           held = i => KeptRow(x, seen)
    PROVE  IInv'
<1>1. /\ rows' \in [Jobs -> Row]
      /\ \A j \in Jobs : RowOK(rows'[j])
      /\ rows'[i] = x
      /\ \A j \in Jobs : j # i => rows'[j] = rows[j]
  BY OneRow
<1>2. TypeOK'
  BY <1>1 DEF IInv, TypeOK
<1>3. HeldOK'
  BY <1>1 DEF IInv, TypeOK, HeldOK
<1>4. NoStrandedClaim'
  BY <1>1 DEF IInv, NoStrandedClaim
<1>5. UnusedIds'
  BY <1>1 DEF IInv, UnusedIds
<1> QED
  BY <1>1, <1>2, <1>3, <1>4, <1>5 DEF IInv

\* The clock, and the user but for what only reads or forgets.
LEMMA UserStep ==
    ASSUME IInv, NEW i \in Jobs,
           Retry(i) \/ Redownload(i) \/ Ignore(i) \/ Unignore(i) \/ BecomeDue(i) \/ Age(i)
    PROVE  IInv'
<1> USE QueueAssumption DEF QueueAssumption
<1>1. /\ rows[i] \in Row /\ RowOK(rows[i])
      /\ held = i => KeptRow(rows[i], seen)
      /\ faults \in 0..MaxFaults /\ asks \in 0..MaxAsks
      /\ again \in [id: Jobs \cup {0}, blanked: BOOLEAN]
      /\ NoRequest \in [id: Jobs \cup {0}, blanked: BOOLEAN]
  BY DEF IInv, TypeOK, HeldOK, Jobs, NoRequest
<1>2. CASE Retry(i) \/ Redownload(i)
  <2>1. Requeued(rows[i]).status = "pending"
    BY <1>1 DEF Requeued, Row
  <2>2. asks' \in 0..MaxAsks /\ again' \in [id: Jobs \cup {0}, blanked: BOOLEAN]
    BY <1>1, <1>2 DEF Retry, Redownload, Ask
  <2>3. held = i => KeptRow(Requeued(rows[i]), seen)
    BY <1>1, <1>2, <2>1 DEF Retry, Redownload, KeptRow
  <2> QED
    BY <1>1, <1>2, <2>1, <2>2, <2>3, Rewrite, RowTypes, RowsStayOK DEF Retry, Redownload
<1>3. CASE Ignore(i) \/ Unignore(i)
  <2>1. PICK b \in BOOLEAN : SetIgnored(i, b)
    BY <1>3 DEF Ignore, Unignore
  <2> DEFINE x == [rows[i] EXCEPT !.ignored = b]
  <2>2. x \in Row /\ x.status = rows[i].status /\ x.attempts = rows[i].attempts
    BY <1>1, <2>1 DEF Row
  <2>3. RowOK(x) /\ x.status = "failed"
    BY <1>1, <2>1, <2>2 DEF RowOK, SetIgnored
  <2>4. rows' = [rows EXCEPT ![i] = x]
    BY <1>1, <2>1 DEF SetIgnored
  <2> HIDE DEF x
  <2>5. held = i => KeptRow(x, seen)
    BY <1>1, <2>2 DEF KeptRow
  <2> QED
    BY <1>1, <2>1, <2>2, <2>3, <2>4, <2>5, Rewrite DEF SetIgnored
<1>4. CASE BecomeDue(i)
  <2> DEFINE x == [rows[i] EXCEPT !.due = "past"]
  <2>1. x \in Row /\ RowOK(x) /\ x.status = "pending"
    BY <1>1, <1>4 DEF Row, RowOK, BecomeDue
  <2>2. rows' = [rows EXCEPT ![i] = x]
    BY <1>4 DEF BecomeDue
  <2> HIDE DEF x
  <2>3. held = i => KeptRow(x, seen)
    BY <2>1 DEF KeptRow
  <2> QED
    BY <1>1, <1>4, <2>1, <2>2, <2>3, Rewrite DEF BecomeDue
<1>5. CASE Age(i)
  <2>1. rows[i].age + 1 \in 0..2
    BY <1>1, <1>5 DEF Age, Row
  <2> DEFINE x == [rows[i] EXCEPT !.age = @ + 1]
  <2>2. x \in Row /\ RowOK(x) /\ x.status = "success"
    BY <1>1, <1>5, <2>1 DEF Row, RowOK, Age
  <2>3. rows' = [rows EXCEPT ![i] = x]
    BY <1>5 DEF Age
  <2>4. held # i
    BY <1>1, <1>5 DEF Age, KeptRow
  <2> HIDE DEF x
  <2> QED
    BY <1>1, <1>5, <2>2, <2>3, <2>4, Rewrite DEF Age
<1> QED
  BY <1>2, <1>3, <1>4, <1>5

\* The first transaction of a re-download, or the end of one, touches no row.
LEMMA AskStep ==
    ASSUME IInv, (\E i \in Jobs : ReadSuccess(i)) \/ RedownloadOff
    PROVE  IInv'
<1>1. UNCHANGED <<rows, lastId, mon, held, seen, wd, faults, asks>>
  BY DEF ReadSuccess, RedownloadOff
<1>2. again' \in [id: Jobs \cup {0}, blanked: BOOLEAN]
  <2>1. \A i \in Jobs \cup {0} : [id |-> i, blanked |-> FALSE] \in [id: Jobs \cup {0}, blanked: BOOLEAN]
    OBVIOUS
  <2> QED
    BY <2>1 DEF ReadSuccess, RedownloadOff, NoRequest
<1> QED
  BY <1>1, <1>2 DEF IInv, TypeOK, HeldOK, UnusedIds, NoStrandedClaim

\* A claim: the worker was idle, so no row was processing but by loss.
LEMMA ClaimStep ==
    ASSUME IInv, NEW i \in Jobs, Claim(i)
    PROVE  IInv'
<1> USE QueueAssumption DEF QueueAssumption
<1>1. rows[i] \in Row /\ RowOK(rows[i]) /\ rows[i].status = "pending"
  BY DEF IInv, TypeOK, Claim, NextUp, Runnable, Zeros
<1>2. Claimed(rows[i]) \in Row /\ RowOK(Claimed(rows[i]))
  BY <1>1, RowTypes, RowsStayOK DEF RowOK
<1>3. Claimed(rows[i]).status = "processing"
  BY <1>1 DEF Claimed, Row
<1>4. /\ rows' \in [Jobs -> Row]
      /\ \A j \in Jobs : RowOK(rows'[j])
      /\ rows'[i] = Claimed(rows[i])
      /\ \A j \in Jobs : j # i => rows'[j] = rows[j]
  BY <1>2, OneRow DEF Claim
<1>5. TypeOK'
  BY <1>4 DEF IInv, TypeOK, Claim
<1>6. HeldOK'
  <2>1. seen' = NotRead /\ held' = i /\ mon' = "run"
    BY QueueAssumption DEF Claim, IInv, HeldOK
  <2>2. i # 0
    BY DEF Jobs
  <2> QED
    BY <1>3, <1>4, <2>1, <2>2 DEF HeldOK, KeptRow
<1>7. NoStrandedClaim'
  BY <1>3, <1>4 DEF IInv, NoStrandedClaim, Claim, Jobs
<1>8. UnusedIds'
  BY <1>1, <1>4 DEF IInv, UnusedIds, Claim
<1> QED
  BY <1>4, <1>5, <1>6, <1>7, <1>8 DEF IInv

\* What retention and a release of stalled jobs make of one row.
LEMMA RetainedRow ==
    ASSUME NEW r \in Row
    PROVE  /\ r.status # "success" => Retained(r) = r
           /\ Retained(r).status = "processing" => Retained(r) = r
  BY DEF Retained, Row, NoRow

LEMMA StalledRow ==
    ASSUME NEW r \in Row, NEW n \in 0..MaxAttempts \cup {NotRead}, KeptRow(r, n)
    PROVE  KeptRow(Stalled(r), n)
<1>1. CASE Stalled(r) = r
  BY <1>1
<1>2. CASE Releasable(r) /\ r.attempts >= MaxAttempts
  BY <1>2, QueueAssumption
     DEF QueueAssumption, Stalled, Attempted, Releasable, Row, KeptRow, NotRead
<1>3. CASE Releasable(r) /\ ~(r.attempts >= MaxAttempts)
  <2>1. Stalled(r).status = "pending"
    BY <1>3 DEF Stalled, Attempted, Row
  <2> QED
    BY <2>1 DEF KeptRow
<1> QED
  BY <1>1, <1>2, <1>3 DEF Stalled

\* A new row, under an id no row has used.
LEMMA EnqueueStep ==
    ASSUME IInv, NEW k \in Keys, Enqueue(k)
    PROVE  IInv'
<1> USE QueueAssumption DEF QueueAssumption
<1> DEFINE i == lastId + 1
<1>1. i \in Jobs
  BY DEF IInv, TypeOK, Enqueue, Jobs
<1>2. FreshRow(k) \in Row /\ RowOK(FreshRow(k))
  <2>1. \E r \in Row : RowOK(r)
    BY <1>1 DEF IInv, TypeOK
  <2> QED
    BY <2>1, RowTypes, RowsStayOK
<1>3. FreshRow(k).status = "pending" /\ FreshRow(k).attempts = 0
  BY DEF FreshRow, NoRow
<1>4. lastId' = i /\ UNCHANGED <<mon, held, seen, wd, faults, asks, again>>
  BY DEF Enqueue
<1>5. rows' = [rows EXCEPT ![i] = FreshRow(k)]
  BY DEF Enqueue
<1> HIDE DEF i
<1>6. /\ rows' \in [Jobs -> Row]
      /\ \A j \in Jobs : RowOK(rows'[j])
      /\ rows'[i] = FreshRow(k)
      /\ \A j \in Jobs : j # i => rows'[j] = rows[j]
  BY <1>1, <1>2, <1>5, OneRow
<1>7. TypeOK'
  BY <1>1, <1>4, <1>6 DEF IInv, TypeOK, Jobs
<1>8. HeldOK'
  <2>1. held # 0 => held # i
    BY DEF IInv, HeldOK, KeptRow, Enqueue, UnusedIds, TypeOK, i, Jobs
  <2>2. held # 0 => rows'[held] = rows[held]
    BY <1>6, <2>1 DEF IInv, TypeOK
  <2> QED
    BY <1>4, <2>2 DEF IInv, HeldOK
<1>9. NoStrandedClaim'
  BY <1>3, <1>4, <1>6 DEF IInv, NoStrandedClaim
<1>10. UnusedIds'
  BY <1>1, <1>4, <1>6 DEF IInv, TypeOK, UnusedIds, Jobs, i
<1> QED
  BY <1>6, <1>7, <1>8, <1>9, <1>10 DEF IInv

\* Start-up, kills and the watchdog.
LEMMA ProcessStep ==
    ASSUME IInv,
           \/ StartMonitor \/ Recover \/ Retain \/ Kill
           \/ StallKill \/ ReleaseStalled \/ ReleaseLost
    PROVE  IInv'
<1> USE QueueAssumption DEF QueueAssumption
<1>1. /\ rows \in [Jobs -> Row]
      /\ \A j \in Jobs : rows[j] \in Row /\ RowOK(rows[j])
      /\ held \in Jobs \cup {0}
  BY DEF IInv, TypeOK
<1>2. CASE StartMonitor \/ Kill \/ StallKill \/ ReleaseLost
  <2>1. UNCHANGED rows
    BY <1>2 DEF StartMonitor, Kill, StallKill, ReleaseLost
  <2>2. faults' \in 0..MaxFaults
    BY <1>2 DEF StartMonitor, Kill, StallKill, ReleaseLost, Fault, IInv, TypeOK
  <2>3. TypeOK'
    BY <1>2, <2>1, <2>2 DEF StartMonitor, Kill, StallKill, ReleaseLost, LetsGo, IInv, TypeOK
  <2>4. HeldOK'
    BY <1>2, <2>1 DEF StartMonitor, Kill, StallKill, ReleaseLost, LetsGo, IInv, HeldOK
  <2>5. NoStrandedClaim'
    BY <1>2, <2>1 DEF StartMonitor, Kill, StallKill, ReleaseLost, LetsGo, IInv, NoStrandedClaim
  <2>6. UnusedIds'
    BY <1>2, <2>1 DEF StartMonitor, Kill, StallKill, ReleaseLost, IInv, UnusedIds
  <2> QED
    BY <2>1, <1>1, <2>3, <2>4, <2>5, <2>6 DEF IInv
<1>3. CASE Recover
  <2>1. \A j \in Jobs : /\ rows'[j] = Recovered(rows[j])
                        /\ rows'[j] \in Row /\ RowOK(rows'[j])
    BY <1>1, <1>3, RowTypes, RowsStayOK DEF Recover
  <2>2. \A j \in Jobs : rows'[j].status # "processing"
    BY <1>1, <2>1 DEF Recovered, Releasable, Row, RowOK
  <2>3. held = 0
    BY <1>3 DEF Recover, IInv, HeldOK
  <2>4. TypeOK'
    BY <1>3, <2>1 DEF Recover, IInv, TypeOK
  <2>5. UnusedIds'
    BY <1>1, <1>3, <2>1, RowsStayOK DEF Recover, IInv, UnusedIds
  <2> QED
    BY <1>3, <2>1, <2>2, <2>3, <2>4, <2>5 DEF Recover, IInv, HeldOK, NoStrandedClaim
<1>4. CASE Retain
  <2>1. \A j \in Jobs : /\ rows'[j] = Retained(rows[j])
                        /\ rows'[j] \in Row /\ RowOK(rows'[j])
    BY <1>1, <1>4, RowTypes, RowsStayOK DEF Retain
  <2>2. \A j \in Jobs : /\ rows[j].status # "success" => rows'[j] = rows[j]
                        /\ rows'[j].status = "processing" => rows'[j] = rows[j]
    BY <1>1, <2>1, RetainedRow
  <2>3. TypeOK'
    <3>1. again' \in [id: Jobs \cup {0}, blanked: BOOLEAN]
      BY <1>4 DEF Retain, IInv, TypeOK, Blanks
    <3> QED
      BY <1>4, <2>1, <3>1 DEF Retain, IInv, TypeOK
  <2>4. HeldOK'
    BY <1>1, <1>4, <2>2 DEF Retain, IInv, HeldOK, KeptRow
  <2>5. NoStrandedClaim'
    BY <1>1, <1>4, <2>2 DEF Retain, IInv, NoStrandedClaim
  <2>6. UnusedIds'
    BY <1>1, <1>4, <2>1, RowsStayOK DEF Retain, IInv, UnusedIds
  <2> QED
    BY <2>1, <2>3, <2>4, <2>5, <2>6 DEF IInv
<1>5. CASE ReleaseStalled
  <2>1. \A j \in Jobs : /\ rows'[j] = Stalled(rows[j])
                        /\ rows'[j] \in Row /\ RowOK(rows'[j])
    BY <1>1, <1>5, RowTypes, RowsStayOK DEF ReleaseStalled
  <2>2. \A j \in Jobs : rows'[j].status # "processing"
    BY <1>1, <2>1 DEF Stalled, Attempted, Releasable, Row, RowOK
  <2>3. \A j \in Jobs : KeptRow(rows[j], seen) => KeptRow(rows'[j], seen)
    BY <1>1, <2>1, StalledRow DEF IInv, TypeOK
  <2>4. TypeOK'
    BY <1>5, <2>1 DEF ReleaseStalled, IInv, TypeOK
  <2>5. HeldOK'
    BY <1>1, <1>5, <2>3 DEF ReleaseStalled, IInv, HeldOK
  <2>6. UnusedIds'
    BY <1>1, <1>5, <2>1, RowsStayOK DEF ReleaseStalled, IInv, UnusedIds
  <2> QED
    BY <2>1, <2>2, <2>4, <2>5, <2>6 DEF IInv, NoStrandedClaim
<1> QED
  BY <1>2, <1>3, <1>4, <1>5

LEMMA ReconcileStep ==
    ASSUME IInv, NEW i \in Jobs, Reconcile(i)
    PROVE  IInv'
<1>1. /\ rows[i] \in Row /\ RowOK(rows[i]) /\ held = 0
      /\ rows[i].status # "none"
  BY DEF IInv, TypeOK, HeldOK, Reconcile, CanSucceed, Active
<1>2. Succeeded(rows[i]).status = "success"
  BY <1>1 DEF Succeeded, Row
<1>3. /\ faults \in 0..MaxFaults /\ asks \in 0..MaxAsks /\ held # i
      /\ again \in [id: Jobs \cup {0}, blanked: BOOLEAN]
  BY <1>1, QueueAssumption DEF IInv, TypeOK, Jobs, QueueAssumption
<1> QED
  BY <1>1, <1>2, <1>3, Rewrite, RowTypes, RowsStayOK DEF Reconcile

LEMMA Inductive == IInv /\ [Next]_vars => IInv'
<1> SUFFICES ASSUME IInv, [Next]_vars PROVE IInv'
  OBVIOUS
<1>1. CASE UNCHANGED vars
  BY <1>1 DEF vars, IInv, TypeOK, HeldOK, UnusedIds, NoStrandedClaim
<1>2. CASE Next
  BY <1>2, EnqueueStep, ClaimStep, RecordStep, ProcessStep, ReconcileStep, UserStep, AskStep
     DEF Next, TrayUser
<1> QED
  BY <1>1, <1>2

\* The invariant holds for any number of jobs, keys, attempts and faults.
THEOREM Invariant == Spec => []IInv
  BY InitIInv, Inductive, PTL DEF Spec

\* Type correctness; no row is ever claimed beyond its attempts.
THEOREM TypeCorrect == Spec => []TypeOK
<1>1. IInv => TypeOK
  BY DEF IInv
<1> QED
  BY <1>1, Invariant, PTL

\* No ignored row is anything but failed, though mark_failure has no guard.
THEOREM IgnoredStaysFailed == Spec => []IgnoredOnlyFailed
<1>1. IInv => IgnoredOnlyFailed
  BY DEF IInv, IgnoredOnlyFailed, RowOK
<1> QED
  BY <1>1, Invariant, PTL

\* Waiting rows have an attempt left, claimed ones have used one.
THEOREM AttemptsAccounted == Spec => []AttemptBudget
<1>1. IInv => AttemptBudget
  BY DEF IInv, AttemptBudget, RowOK
<1> QED
  BY <1>1, Invariant, PTL

\* At most one row is processing and the worker of a running monitor has it.
THEOREM ClaimsAreHeld == Spec => []NoStrandedClaim
<1>1. IInv => NoStrandedClaim
  BY DEF IInv
<1> QED
  BY <1>1, Invariant, PTL

-----------------------------------------------------------------------------
(* What becomes of a settled row.                                          *)

\* Between the two transactions of a re-download the success is at most
\* compacted or deleted, by retention.
AgainRow(r, b) ==
    /\ r.status \in {"success", "gone"}
    /\ r.status = "success" => r.full \/ b

AgainOK == again.id # 0 => AgainRow(rows[again.id], again.blanked)

\* How one step may treat a settled row.
SettledRow(j) ==
    /\ rows[j].status = "failed" /\ rows'[j].status # "failed"
          => rows'[j] = Requeued(rows[j]) /\ asks' = asks + 1
    /\ rows[j].status = "success" /\ rows'[j].status # "success"
          => \/ rows'[j].status = "gone" /\ rows[j].age = 2
             \/ /\ rows'[j] = Requeued(rows[j]) /\ asks' = asks + 1
                /\ rows[j].full \/ (again.id = j /\ again.blanked)

\* How one step may treat the success a re-download has read.
AgainStep(j) ==
    AgainRow(rows[j], again.blanked) /\ again.id = j /\ again'.id = j
        => AgainRow(rows'[j], again'.blanked)

\* Both, of a row that a step leaves as it is, or not settled before.
LEMMA Untouched ==
    ASSUME NEW j \in Jobs,
           \/ rows'[j] = rows[j]
           \/ rows[j].status \notin {"failed", "success", "gone"},
           again'.blanked = again.blanked \/ again'.id # j
    PROVE  SettledRow(j) /\ AgainStep(j)
  BY DEF SettledRow, AgainStep, AgainRow

\* Retention, of one row.
LEMMA RetainedSettled ==
    ASSUME NEW j \in Jobs, rows[j] \in Row, again \in [id: Jobs \cup {0}, blanked: BOOLEAN],
           rows'[j] = Retained(rows[j]),
           again' = [again EXCEPT !.blanked = @ \/ Blanks(again.id)]
    PROVE  SettledRow(j) /\ AgainStep(j)
<1>1. CASE rows[j].status # "success" \/ rows[j].age = 0
  <2>1. rows'[j] = rows[j]
    BY <1>1 DEF Retained
  <2>2. again.blanked => again'.blanked
    OBVIOUS
  <2> QED
    BY <2>1, <2>2 DEF SettledRow, AgainStep, AgainRow
<1>2. CASE rows[j].status = "success" /\ rows[j].age = 2
  <2>1. rows'[j].status = "gone"
    BY <1>2 DEF Retained, NoRow
  <2> QED
    BY <1>2, <2>1 DEF SettledRow, AgainStep, AgainRow
<1>3. CASE rows[j].status = "success" /\ rows[j].age = 1
  <2>1. rows'[j].status = "success"
    BY <1>3 DEF Retained, Row
  <2>2. again.id = j => again'.blanked
    <3>1. j # 0 /\ again'.blanked = (again.blanked \/ Blanks(again.id))
      BY DEF Jobs
    <3> QED
      BY <1>3, <3>1 DEF Blanks
  <2> QED
    BY <1>3, <2>1, <2>2 DEF SettledRow, AgainStep, AgainRow
<1>4. rows[j].age \in {0, 1, 2}
  BY DEF Row
<1> QED
  BY <1>1, <1>2, <1>3, <1>4

LEMMA SettledStep == IInv /\ AgainOK /\ Next => \A j \in Jobs : SettledRow(j) /\ AgainStep(j)
<1> SUFFICES ASSUME IInv, AgainOK, Next, NEW j \in Jobs PROVE SettledRow(j) /\ AgainStep(j)
  OBVIOUS
<1> USE QueueAssumption DEF QueueAssumption
<1>1. /\ rows[j] \in Row /\ RowOK(rows[j]) /\ held \in Jobs \cup {0} /\ j # 0
      /\ held = j => KeptRow(rows[j], seen)
      /\ again \in [id: Jobs \cup {0}, blanked: BOOLEAN]
      /\ again.id = j => AgainRow(rows[j], again.blanked)
      /\ \A i \in Jobs : \A x : rows' = [rows EXCEPT ![i] = x] =>
            rows'[j] = IF i = j THEN x ELSE rows[j]
  BY DEF IInv, TypeOK, HeldOK, AgainOK, Jobs
<1>2. ASSUME NEW k \in Keys, Enqueue(k) PROVE SettledRow(j) /\ AgainStep(j)
  <2>1. lastId + 1 \in Jobs /\ rows[lastId + 1].status = "none"
    BY <1>2 DEF Enqueue, IInv, TypeOK, UnusedIds, Jobs
  <2> QED
    BY <1>1, <1>2, <2>1, Untouched DEF Enqueue
<1>3. ASSUME NEW i \in Jobs, Claim(i) \/ Reconcile(i) PROVE SettledRow(j) /\ AgainStep(j)
  BY <1>1, <1>3, Untouched
     DEF Claim, NextUp, Zeros, Runnable, Reconcile, CanSucceed, Active
<1>4. ASSUME Record PROVE SettledRow(j) /\ AgainStep(j)
  <2>1. seen # NotRead /\ held # 0 => seen \in 0..MaxAttempts
    BY DEF IInv, TypeOK
  <2>2. rows[j].status = "failed" /\ held = j /\ seen # NotRead
           => MarkFailure(rows[j], seen) = rows[j]
    BY <1>1, <2>1, RowsStayOK
  <2>3. rows[j].status = "failed" => FailJob(rows[j]) = rows[j] /\ DeferJob(rows[j]) = rows[j]
    BY <1>1 DEF FailJob, DeferJob, Releasable
  <2>4. held = j => rows[j].status \notin {"success", "gone"}
    BY <1>1 DEF KeptRow
  <2>5. UNCHANGED again /\ held # 0
    BY <1>4 DEF Record, Deciding, RecordSuccess, ReadAttempts, RecordFailure,
       RecordNotConfigured, RecordDeferral, OutcomeLost, IInv, HeldOK
  <2>6. CASE held # j
    <3>1. rows'[j] = rows[j]
      BY <1>1, <1>4, <2>5, <2>6 DEF Record, RecordSuccess, ReadAttempts, RecordFailure,
         RecordNotConfigured, RecordDeferral, OutcomeLost
    <3> QED
      BY <2>5, <3>1, Untouched
  <2>7. CASE held = j /\ rows[j].status # "failed"
    BY <2>4, <2>5, <2>7, Untouched
  <2>8. CASE held = j /\ rows[j].status = "failed"
    <3>1. rows'[j] = rows[j]
      BY <1>1, <1>4, <2>2, <2>3, <2>8 DEF Record, RecordSuccess, CanSucceed, Active,
         ReadAttempts, RecordFailure, RecordNotConfigured, RecordDeferral, OutcomeLost
    <3> QED
      BY <2>5, <3>1, Untouched
  <2> QED
    BY <2>6, <2>7, <2>8
<1>5. ASSUME StartMonitor \/ Kill \/ StallKill \/ ReleaseLost PROVE SettledRow(j) /\ AgainStep(j)
  BY <1>5, Untouched DEF StartMonitor, Kill, StallKill, ReleaseLost
<1>6. ASSUME Recover \/ ReleaseStalled PROVE SettledRow(j) /\ AgainStep(j)
  <2>1. \/ rows'[j] = rows[j]
        \/ rows[j].status \notin {"failed", "success", "gone"}
    BY <1>6 DEF Recover, ReleaseStalled, Recovered, Stalled, Releasable
  <2> QED
    BY <1>6, <2>1, Untouched DEF Recover, ReleaseStalled
<1>7. ASSUME Retain PROVE SettledRow(j) /\ AgainStep(j)
  BY <1>1, <1>7, RetainedSettled DEF Retain
<1>8. ASSUME NEW i \in Jobs, Retry(i) \/ Redownload(i) PROVE SettledRow(j) /\ AgainStep(j)
  <2>1. CASE i # j
    <3>1. again' = again \/ again'.id = 0
      BY <1>8 DEF Retry, Redownload, NoRequest
    <3> QED
      BY <1>1, <1>8, <2>1, <3>1, Untouched DEF Retry, Redownload
  <2>2. CASE i = j /\ Retry(i)
    BY <1>1, <2>2 DEF Retry, Ask, SettledRow, AgainStep, AgainRow, NoRequest
  <2>3. CASE i = j /\ Redownload(i)
    BY <1>1, <2>3 DEF Redownload, Ask, SettledRow, AgainStep, AgainRow, NoRequest
  <2> QED
    BY <1>8, <2>1, <2>2, <2>3
<1>9. ASSUME NEW i \in Jobs, Ignore(i) \/ Unignore(i) PROVE SettledRow(j) /\ AgainStep(j)
  <2>1. PICK b \in BOOLEAN : SetIgnored(i, b)
    BY <1>9 DEF Ignore, Unignore
  <2>2. CASE i # j
    BY <1>1, <2>1, <2>2, Untouched DEF SetIgnored
  <2>3. CASE i = j
    <3>1. rows'[j].status = rows[j].status /\ rows[j].status = "failed"
      BY <1>1, <2>1, <2>3 DEF SetIgnored, Row
    <3> QED
      BY <3>1 DEF SettledRow, AgainStep, AgainRow
  <2> QED
    BY <2>2, <2>3
<1>10. ASSUME NEW i \in Jobs, BecomeDue(i) PROVE SettledRow(j) /\ AgainStep(j)
  BY <1>1, <1>10, Untouched DEF BecomeDue
<1>11. ASSUME NEW i \in Jobs, Age(i) PROVE SettledRow(j) /\ AgainStep(j)
  <2>1. CASE i # j
    BY <1>1, <1>11, <2>1, Untouched DEF Age
  <2>2. CASE i = j
    <3>1. rows'[j].status = rows[j].status /\ rows'[j].full = rows[j].full /\ UNCHANGED again
          /\ rows[j].status = "success"
      BY <1>1, <1>11, <2>2 DEF Age, Row
    <3> QED
      BY <3>1 DEF SettledRow, AgainStep, AgainRow
  <2> QED
    BY <2>1, <2>2
<1>12. ASSUME NEW i \in Jobs, ReadSuccess(i) PROVE SettledRow(j) /\ AgainStep(j)
  BY <1>12 DEF ReadSuccess, NoRequest, SettledRow, AgainStep
<1>13. ASSUME RedownloadOff PROVE SettledRow(j) /\ AgainStep(j)
  BY <1>1, <1>13 DEF RedownloadOff, NoRequest, SettledRow, AgainStep
<1> QED
  BY <1>2, <1>3, <1>4, <1>5, <1>6, <1>7, <1>8, <1>9, <1>10, <1>11, <1>12, <1>13
     DEF Next, TrayUser

\* Only the first transaction of a re-download reads a success.
LEMMA OnlyAskers ==
    ASSUME IInv, Next, again'.id # again.id, again'.id # 0
    PROVE  \E i \in Jobs : ReadSuccess(i)
<1>1. CASE \/ \E k \in Keys : Enqueue(k)
           \/ \E j \in Jobs : \/ Claim(j) \/ Reconcile(j) \/ Retry(j) \/ BecomeDue(j) \/ Age(j)
                            \/ Ignore(j) \/ Unignore(j)
  BY <1>1 DEF Enqueue, Claim, Reconcile, Retry, BecomeDue, Age, Ignore, Unignore, SetIgnored
<1>2. CASE \/ Record \/ StartMonitor \/ Recover \/ Kill \/ StallKill
           \/ ReleaseStalled \/ ReleaseLost
  BY <1>2 DEF Record, RecordSuccess, ReadAttempts, RecordFailure, RecordNotConfigured,
     RecordDeferral, OutcomeLost, StartMonitor, Recover, Kill, StallKill, ReleaseStalled,
     ReleaseLost
<1>3. CASE Retain
  <2>1. again \in [id: Jobs \cup {0}, blanked: BOOLEAN]
    BY DEF IInv, TypeOK
  <2>2. \A b : [again EXCEPT !.blanked = b].id = again.id
    BY <2>1
  <2> QED
    BY <1>3, <2>2 DEF Retain
<1>4. CASE RedownloadOff \/ \E j \in Jobs : Redownload(j)
  BY <1>4 DEF RedownloadOff, Redownload, NoRequest
<1> QED
  BY <1>1, <1>2, <1>3, <1>4 DEF Next, TrayUser

LEMMA AgainInductive == IInv /\ AgainOK /\ [Next]_vars => AgainOK'
<1> SUFFICES ASSUME IInv, AgainOK, [Next]_vars PROVE AgainOK'
  OBVIOUS
<1>1. CASE UNCHANGED vars
  BY <1>1 DEF vars, AgainOK
<1>2. CASE Next
  <2>1. ASSUME NEW j \in Jobs, again'.id = j PROVE AgainRow(rows'[j], again'.blanked)
    <3>1. CASE again.id = j
      BY <1>2, <2>1, <3>1, SettledStep DEF AgainOK, AgainStep, Jobs
    <3>2. CASE again.id # j
      <4>1. PICK i \in Jobs : ReadSuccess(i)
        BY <1>2, <2>1, <3>2, OnlyAskers DEF Jobs
      <4> QED
        BY <2>1, <4>1 DEF ReadSuccess, NoRequest, AgainRow
    <3> QED
      BY <3>1, <3>2
  <2>2. again'.id \in Jobs \cup {0}
    BY Inductive DEF IInv, TypeOK
  <2> QED
    BY <2>1, <2>2 DEF AgainOK
<1> QED
  BY <1>1, <1>2

\* A failed or finished job comes back only because the user asked for it, and
\* a finished one with its payload, unless retention took it meanwhile.
THEOREM SettledOnlyReturnOnRequest == Spec => SettledStays
<1>1. IInv /\ AgainOK /\ [Next]_vars => [\A j \in Jobs : SettledRow(j)]_vars
  BY SettledStep
<1>2. Init => AgainOK
  BY DEF Init, AgainOK, NoRequest
<1>3. Spec => [][\A j \in Jobs : SettledRow(j)]_vars
  BY <1>1, <1>2, AgainInductive, Invariant, PTL DEF Spec
<1> QED
  BY <1>3 DEF SettledStays, SettledRow
=============================================================================
